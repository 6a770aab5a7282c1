---------------------------- MODULE DecisionLog ----------------------------
(***************************************************************************)
(* What the decisions on a match promise to those who read them: "commit   *)
(* decision evidence, then the ledger transition, then publish"            *)
(* (backend/app/decision/worker.py), each in one step.                     *)
(*                                                                         *)
(* A decision goes on record under a version that is later than every      *)
(* other; only the newest decision on record is acted on or shown; and one *)
(* that calls for an action is shown after the action.  Any decision may   *)
(* be left where it is.  DecisionWorker is the worker that fails, restarts *)
(* and is restarted, and is shown to implement this module.                *)
(***************************************************************************)
EXTENDS Naturals

CONSTANT Nothing  \* what is shown before the first decision

VARIABLES
    evidence,  \* the decisions on record
    ledger,    \* the decisions acted on
    published  \* the decision shown

vars == <<evidence, ledger, published>>

Init == evidence = {} /\ ledger = {} /\ published = Nothing

IsNewest(d) == d \in evidence /\ \A e \in evidence : e.version <= d.version

\* Whichever decision is recorded: a later one.
Record ==
    /\ \E d \in evidence' : /\ \A e \in evidence : e.version < d.version
                            /\ evidence' = evidence \cup {d}
    /\ UNCHANGED <<ledger, published>>

Act ==
    /\ \E d \in evidence : /\ IsNewest(d) /\ d.action = "act"
                           /\ ledger' = ledger \cup {d}
    /\ UNCHANGED <<evidence, published>>

Show ==
    /\ \E d \in evidence : /\ IsNewest(d) /\ d.version > published.version
                           /\ d.action = "act" => d \in ledger
                           /\ published' = d
    /\ UNCHANGED <<evidence, ledger>>

Next == Record \/ Act \/ Show

Spec == Init /\ [][Next]_vars

-----------------------------------------------------------------------------
(* Properties *)

\* Nobody is shown or acts on what is not on record under its own version, and
\* nobody is shown an action that was not taken.
Consistent ==
    /\ \A d, e \in evidence : d.version = e.version => d = e
    /\ ledger \subseteq {d \in evidence : d.action = "act"}
    /\ published # Nothing =>
           published \in evidence /\ (published.action = "act" => published \in ledger)

=============================================================================
