--------------------------- MODULE PaperLifecycle ---------------------------
(***************************************************************************)
(* The contract of the paper ledger: the one-shot FOK state machine of     *)
(* backend/app/paper/state_machine.py over the lifecycle states and the    *)
(* transition table of backend/app/paper/models.py.                        *)
(*                                                                         *)
(* Each match goes at most once through                                    *)
(*   ENTRY_PENDING -> FILLED | MISSED                                      *)
(*   FILLED -> EXIT_PENDING -> EXITED | EXIT_MISSED                        *)
(*   FILLED | EXITED | EXIT_MISSED -> SETTLED                              *)
(* in atomic steps.  PaperLedger is the multi-step, crash-prone service    *)
(* that is shown to implement this module.                                 *)
(***************************************************************************)
CONSTANT Matches

VARIABLES
    lifecycle,  \* MatchLedger.lifecycle, "NONE" before the entry intent
    held,       \* MatchLedger.position_id is not None
    evaluated   \* the evaluation tracks handed to apply_settlement

vars == <<lifecycle, held, evaluated>>

REQUIRED_TRACKS == {"EV_EXIT", "HODL_BASELINE", "CONVERGENCE_LOCK"}

PAPER_LIFECYCLE_TRANSITIONS ==
    {<<"ENTRY_PENDING", "FILLED">>, <<"ENTRY_PENDING", "MISSED">>,
     <<"FILLED", "EXIT_PENDING">>, <<"FILLED", "SETTLED">>,
     <<"EXIT_PENDING", "EXITED">>, <<"EXIT_PENDING", "EXIT_MISSED">>,
     <<"EXITED", "SETTLED">>, <<"EXIT_MISSED", "SETTLED">>}

Init ==
    /\ lifecycle = [m \in Matches |-> "NONE"]
    /\ held = [m \in Matches |-> FALSE]
    /\ evaluated = [m \in Matches |-> {}]

Advance(m, to) ==
    /\ <<lifecycle[m], to>> \in PAPER_LIFECYCLE_TRANSITIONS
    /\ lifecycle' = [lifecycle EXCEPT ![m] = to]

BeginEntry(m) ==
    /\ lifecycle[m] = "NONE"
    /\ lifecycle' = [lifecycle EXCEPT ![m] = "ENTRY_PENDING"]
    /\ UNCHANGED <<held, evaluated>>

ApplyEntryFill(m, filled) ==
    /\ lifecycle[m] = "ENTRY_PENDING"
    /\ Advance(m, IF filled THEN "FILLED" ELSE "MISSED")
    /\ held' = [held EXCEPT ![m] = filled]
    /\ UNCHANGED evaluated

BeginExit(m) ==
    /\ lifecycle[m] = "FILLED"
    /\ Advance(m, "EXIT_PENDING")
    /\ UNCHANGED <<held, evaluated>>

ApplyExitFill(m, filled) ==
    /\ lifecycle[m] = "EXIT_PENDING"
    /\ Advance(m, IF filled THEN "EXITED" ELSE "EXIT_MISSED")
    /\ UNCHANGED <<held, evaluated>>

ApplySettlement(m, tracks) ==
    /\ lifecycle[m] \in {"FILLED", "EXITED", "EXIT_MISSED"}
    /\ tracks = REQUIRED_TRACKS
    /\ Advance(m, "SETTLED")
    /\ evaluated' = [evaluated EXCEPT ![m] = tracks]
    /\ UNCHANGED held

Next ==
    \E m \in Matches :
        \/ BeginEntry(m)
        \/ \E filled \in BOOLEAN : ApplyEntryFill(m, filled)
        \/ BeginExit(m)
        \/ \E filled \in BOOLEAN : ApplyExitFill(m, filled)
        \/ \E tracks \in SUBSET REQUIRED_TRACKS : ApplySettlement(m, tracks)

Spec == Init /\ [][Next]_vars
=============================================================================
