---------------------------- MODULE RuntimeDaemon ----------------------------
(***************************************************************************)
(* The loop of backend/app/runtime/daemon.py from its start to its end:    *)
(* the recovery, the probe, the recheck of resolutions, the reconcile of   *)
(* the matches, the pump of the markets and the hints, tick after tick in  *)
(* one coroutine, one step for each await, with the task of stop() beside  *)
(* it and a crash between any two steps.                                   *)
(*                                                                         *)
(* A market has one paper position and one order of it.  The ledger behind *)
(* it is PaperLedger, the books are MarketSubscription, the streams of the *)
(* matches RealtimeWorker, the other jobs MarketDiscovery and MarketQuotes.*)
(* Of the overlay, the source of the matches is followed step by step, and *)
(* the startup gap of the markets until a reconcile of theirs may end it.  *)
(* From then on their gate may be open or not: MarketSubscription says     *)
(* when.                                                                   *)
(***************************************************************************)
EXTENDS Naturals, Sequences, FiniteSets

CONSTANTS
    Markets,
    Order,     \* the markets as sorted() lists them
    Linked,    \* the markets with an active link
    Budget,    \* max_resolution_targets
    MaxFaults  \* bound: failures, crashes and requests to stop

Classes == {"unsettled", "active"}

VARIABLES
    final,     \* the markets the provider has resolved for good
    position,  \* "none", "entry", "open", "stranded", "missed" or "settled"
    old,       \* the orders whose delay is over
    pc,        \* the step of the loop
    mode,      \* what the resolutions are fetched for
    todo,      \* the markets they are still fetched for
    active,    \* the markets still to be pumped
    kept,      \* the markets maintained in this tick
    recovered, \* _recovered
    ready,     \* the source runtime_ready
    sports,    \* the source of the matches: "ok", "startup" or "gap"
    marketGap, \* the startup gap of the source polymarket: not reconciled since
    cycle,     \* in the pump: how the tick's reconcile of the matches ended
    due,       \* the interval of resolution_recheck is over
    offset,    \* _resolution_offsets
    published, \* _published_final_resolutions
    hints,     \* _resolution_hints
    stop,      \* the task of stop()
    faults

ledger == <<position, old>>
health == <<ready, sports, marketGap, cycle>>
batch == <<mode, todo>>
pumping == <<active, kept>>
recheck == <<due, offset, published, hints>>
vars == <<final, ledger, pc, batch, pumping, recovered, health, recheck, stop, faults>>

Steps == {"off", "recover", "cursors", "reconcile", "clear", "probe", "jobs",
          "fetch", "apply", "publish", "sports", "pump", "late", "hints", "end",
          "closing"}

TypeOK ==
    /\ final \subseteq Markets
    /\ position \in [Markets -> {"none", "entry", "open", "stranded", "missed",
                                 "settled"}]
    /\ old \subseteq Markets
    /\ pc \in Steps
    /\ mode \in {"job", "hints"} /\ todo \in Seq(Markets)
    /\ active \subseteq Markets /\ kept \subseteq Markets
    /\ recovered \in BOOLEAN
    /\ ready \in BOOLEAN
    /\ sports \in {"ok", "startup", "gap"} /\ marketGap \in BOOLEAN
    /\ cycle \in {"none", "done", "failed"}
    /\ due \in BOOLEAN
    /\ offset \in [Classes -> Nat]
    /\ published \subseteq Markets /\ hints \subseteq Markets
    /\ stop \in {"no", "asked", "done"}
    /\ faults \in 0..MaxFaults

\* What a process forgets
Fresh ==
    /\ mode' = "job" /\ todo' = <<>>
    /\ active' = {} /\ kept' = {}
    /\ recovered' = FALSE
    /\ ready' = TRUE /\ sports' = "ok" /\ marketGap' = FALSE /\ cycle' = "none"
    /\ due' = TRUE
    /\ offset' = [c \in Classes |-> 0]
    /\ published' = {} /\ hints' = {}
    /\ stop' = "no"

Init ==
    /\ final = {}
    /\ position = [m \in Markets |-> "none"] /\ old = {}
    /\ pc = "off"
    /\ mode = "job" /\ todo = <<>>
    /\ active = {} /\ kept = {}
    /\ recovered = FALSE
    /\ ready = TRUE /\ sports = "ok" /\ marketGap = FALSE /\ cycle = "none"
    /\ due = TRUE
    /\ offset = [c \in Classes |-> 0]
    /\ published = {} /\ hints = {}
    /\ stop = "no"
    /\ faults = 0

Fault == faults < MaxFaults /\ faults' = faults + 1

Goto(step) == pc' = step
-----------------------------------------------------------------------------
(* The process.                                                            *)

Start ==
    /\ pc = "off"
    /\ Goto("recover")
    /\ UNCHANGED <<final, ledger, batch, pumping, recovered, health, recheck,
                   stop, faults>>

\* A crash between the fill of an exit and the status of its position, which
\* PaperLedger shows, leaves a position that no settlement accepts
Crash ==
    /\ pc # "off"
    /\ Fault
    /\ \/ UNCHANGED position
       \/ \E m \in Markets : pc \in {"pump", "late"} /\ position[m] = "open"
              /\ position' = [position EXCEPT ![m] = "stranded"]
    /\ Goto("off") /\ Fresh
    /\ UNCHANGED <<final, old>>

\* The signal handler starts a task; the loop looks at the flag between ticks
RequestStop ==
    /\ pc \notin {"off", "closing"} /\ stop = "no"
    /\ Fault
    /\ stop' = "asked"
    /\ UNCHANGED <<final, ledger, pc, batch, pumping, recovered, health, recheck>>

\* stop() has closed the subscriptions and has saved what was buffered
StopEnds ==
    /\ stop = "asked"
    /\ stop' = "done"
    /\ UNCHANGED <<final, ledger, pc, batch, pumping, recovered, health, recheck, faults>>

\* The graph is closed and the process ends, stop() with it
Close ==
    /\ pc = "closing"
    /\ Goto("off") /\ Fresh
    /\ UNCHANGED <<final, ledger, faults>>
-----------------------------------------------------------------------------
(* recover_once.                                                           *)

MarkStartup ==
    /\ pc = "recover"
    /\ sports' = "startup" /\ marketGap' = TRUE
    /\ Goto("cursors")
    /\ UNCHANGED <<final, ledger, batch, pumping, recovered, ready, cycle, recheck,
                   stop, faults>>

RecoverCursors ==
    /\ pc = "cursors"
    /\ \/ ready' = TRUE /\ Goto("reconcile") /\ UNCHANGED faults
       \/ Fault /\ ready' = FALSE /\ Goto("probe")
    /\ UNCHANGED <<final, ledger, batch, pumping, recovered, sports, marketGap, cycle,
                   recheck, stop>>

\* The reconcile of the matches, then that of the markets, in which a book may
\* end their gap; if that fails afterwards, no gap is marked again and the tick
\* goes on
RecoverReconcile ==
    /\ pc = "reconcile"
    /\ \/ marketGap' = FALSE /\ Goto("clear") /\ UNCHANGED faults
       \/ Fault /\ marketGap' \in {FALSE, marketGap} /\ Goto("probe")
    /\ UNCHANGED <<final, ledger, batch, pumping, recovered, ready, sports, cycle,
                   recheck, stop>>

\* mark_success
Ok == "ok"

\* mark_recovered takes back no gap but that of the startup
Recovered == IF sports = "startup" THEN Ok ELSE sports

ClearStartup ==
    /\ pc = "clear"
    /\ sports' = Recovered
    /\ recovered' = TRUE
    /\ Goto("probe")
    /\ UNCHANGED <<final, ledger, batch, pumping, ready, marketGap, cycle, recheck,
                   stop, faults>>
-----------------------------------------------------------------------------
(* The beginning of tick_once.                                             *)

\* A failed probe ends the tick
Probe ==
    /\ pc = "probe"
    /\ \/ ready' = TRUE /\ Goto("jobs") /\ UNCHANGED <<stop, faults>>
       \/ Fault /\ ready' = FALSE /\ Goto("end") /\ UNCHANGED stop
       \/ Fault /\ ready' = FALSE /\ Goto("closing") /\ stop' = "done"
    /\ UNCHANGED <<final, ledger, batch, pumping, recovered, sports, marketGap, cycle,
                   recheck>>

IntervalIsOver ==
    /\ ~due /\ due' = TRUE
    /\ UNCHANGED <<final, ledger, pc, batch, pumping, recovered, health, offset,
                   published, hints, stop, faults>>

Sorted(S) == LET In(m) == m \in S IN SelectSeq(Order, In)

\* From the cursor on and around, as long as the budget goes
Picked(class, S, budget) ==
    LET ordered == Sorted(S)
        from == offset[class] % Len(ordered)
    IN  IF Len(ordered) <= budget THEN ordered
        ELSE SubSeq(SubSeq(ordered, from + 1, Len(ordered))
                        \o SubSeq(ordered, 1, from), 1, budget)

\* Faulty variant: the cursor stays
KeptCursor(class, S, budget) == offset[class]

Cursor(class, S, budget) ==
    LET n == Len(Sorted(S))
    IN  IF n <= budget THEN offset[class] ELSE ((offset[class] % n) + budget) % n

Unsettled == {m \in Markets : position[m] \in {"open", "stranded"}}

\* Positions first, then links; no market is ever noted as recently closed
SelectTargets ==
    /\ pc = "jobs" /\ due
    /\ LET first == Picked("unsettled", Unsettled, Budget)
           rest == Budget - Len(first)
       IN  /\ todo' = first \o Picked("active", Linked \ Unsettled, rest)
           /\ offset' = [unsettled |-> Cursor("unsettled", Unsettled, Budget),
                         active |-> Cursor("active", Linked \ Unsettled, rest)]
    /\ due' = FALSE
    /\ mode' = "job"
    /\ Goto("fetch")
    /\ UNCHANGED <<final, ledger, pumping, recovered, health, published, hints,
                   stop, faults>>

NothingIsDue ==
    /\ pc = "jobs" /\ ~due
    /\ Goto("sports")
    /\ UNCHANGED <<final, ledger, batch, pumping, recovered, health, recheck, stop, faults>>
-----------------------------------------------------------------------------
(* Resolutions: the job and the hints.                                     *)

BatchIsOver ==
    /\ todo' = <<>> /\ mode' = "job"
    /\ Goto(IF mode = "job" THEN "sports" ELSE "end")

Skip == todo' = Tail(todo) /\ Goto("fetch") /\ UNCHANGED mode

\* An answer that is not final, or none, is passed over
Fetch ==
    /\ pc = "fetch"
    /\ \/ todo = <<>> /\ BatchIsOver /\ UNCHANGED faults
       \/ todo # <<>> /\ Head(todo) \in final
              /\ Goto("apply") /\ UNCHANGED <<batch, faults>>
       \/ todo # <<>> /\ Head(todo) \notin final /\ Skip /\ UNCHANGED faults
       \/ todo # <<>> /\ Fault /\ Skip
    /\ UNCHANGED <<final, ledger, pumping, recovered, health, recheck, stop>>

\* settle_market raises, and the markets after this one wait for the next time
Raise == BatchIsOver

Apply ==
    /\ pc = "apply"
    /\ LET m == Head(todo)
       IN  \/ /\ position[m] # "stranded"
              /\ position' = IF position[m] = "open"
                             THEN [position EXCEPT ![m] = "settled"] ELSE position
              /\ Goto("publish")
              /\ UNCHANGED <<batch, faults>>
           \/ position[m] = "stranded" /\ Raise /\ UNCHANGED <<position, faults>>
           \/ Fault /\ Raise /\ UNCHANGED position
    /\ UNCHANGED <<final, old, pumping, recovered, health, recheck, stop>>

\* A market that is announced again leaves the set as it is
Announced == published \cup {Head(todo)}

Publish ==
    /\ pc = "publish"
    /\ \/ published' = Announced /\ Skip /\ UNCHANGED faults
       \/ /\ Head(todo) \notin published
          /\ Fault /\ BatchIsOver
          /\ UNCHANGED published
    /\ UNCHANGED <<final, ledger, pumping, recovered, health, due, offset, hints, stop>>

\* The targets are no longer hints, whatever comes of them
TakeHints ==
    /\ pc = "hints"
    /\ LET listed == Sorted(hints)
       IN  todo' = SubSeq(listed, 1, IF Len(listed) < Budget THEN Len(listed)
                                     ELSE Budget)
    /\ hints' = hints \ {todo'[i] : i \in DOMAIN todo'}
    /\ mode' = "hints"
    /\ Goto("fetch")
    /\ UNCHANGED <<final, ledger, pumping, recovered, health, due, offset, published,
                   stop, faults>>

\* A message of the stream, which may be ahead of the provider's answer
Hint(m) ==
    /\ pc # "off"
    /\ hints' = hints \cup {m}
    /\ UNCHANGED <<final, ledger, pc, batch, pumping, recovered, health, due, offset,
                   published, stop, faults>>

Resolve(m) ==
    /\ final' = final \cup {m}
    /\ UNCHANGED <<ledger, pc, batch, pumping, recovered, health, recheck, stop, faults>>
-----------------------------------------------------------------------------
(* The matches and the markets.                                            *)

Gate(source) == ready /\ source = Ok /\ ~marketGap

Enter(m) == position[m] = "none" /\ position' = [position EXCEPT ![m] = "entry"]

\* SportsBridge.on_snapshot, within a reconcile of the matches: an event or a
\* baseline ends the gap of the source and is decided on at once
Snapshot ==
    /\ pc \in {"reconcile", "sports"}
    /\ sports' = Ok
    /\ \/ UNCHANGED position
       \/ Gate(Ok) /\ \E m \in Markets : Enter(m)
    /\ UNCHANGED <<final, old, pc, batch, pumping, recovered, ready, marketGap, cycle,
                   recheck, stop, faults>>

Gap == "gap"

\* SportsBridge.on_connection, of any match
ConnectionLost ==
    /\ pc \in {"reconcile", "sports"}
    /\ Fault
    /\ sports' = Gap
    /\ UNCHANGED <<final, ledger, pc, batch, pumping, recovered, ready, marketGap,
                   cycle, recheck, stop>>

\* Faulty variant: a failed reconcile is only logged
NoGap == sports

\* mark_gap of a reconcile that raises
Failed == Gap

\* The markets of the matches that are viewed, hold an order or a position, or
\* are live: any set of them
Demanded == SUBSET Markets

\* The worker of the markets then decides what is active
ReconcileDemand ==
    /\ pc = "sports"
    /\ \/ cycle' = "done" /\ UNCHANGED <<sports, faults>>
       \/ Fault /\ sports' = Failed /\ cycle' = "failed"
    /\ marketGap' = FALSE
    /\ active' \in Demanded
    /\ Goto("pump")
    /\ UNCHANGED <<final, ledger, batch, kept, recovered, ready, recheck, stop>>

\* The order of a market is due: with a book it may fill, without it never does
Execute(m, book) ==
    IF position[m] = "entry" /\ m \in old
    THEN \/ position' = [position EXCEPT ![m] = "missed"]
         \/ book /\ position' = [position EXCEPT ![m] = "open"]
    ELSE UNCHANGED position

Trade(m) == Execute(m, Gate(sports)) \/ (Gate(sports) /\ Enter(m))

\* The decision on the newest book, then the orders of the market; a failure,
\* of the one or the other, leaves the market to the orders without a book
Pump(m) ==
    /\ pc = "pump" /\ m \in active
    /\ active' = active \ {m}
    /\ \/ Trade(m) /\ kept' = kept \cup {m} /\ UNCHANGED faults
       \/ Fault /\ (Trade(m) \/ UNCHANGED position) /\ UNCHANGED kept
    /\ UNCHANGED <<final, old, pc, batch, recovered, health, recheck, stop>>

\* Faulty variant: only active markets have their orders executed
ActiveOnly == {}

\* Orders outlive the stream of their market
Pending == {m \in Markets : position[m] = "entry"}

PumpIsOver ==
    /\ pc = "pump" /\ active = {}
    /\ active' = Pending \ kept
    /\ kept' = {} /\ cycle' = "none"
    /\ Goto("late")
    /\ UNCHANGED <<final, ledger, batch, recovered, ready, sports, marketGap, recheck,
                   stop, faults>>

ExecuteWithoutBook(m) ==
    /\ pc = "late" /\ m \in active
    /\ active' = active \ {m}
    /\ \/ Execute(m, FALSE) /\ UNCHANGED faults
       \/ Fault /\ UNCHANGED position
    /\ UNCHANGED <<final, old, pc, batch, kept, recovered, health, recheck, stop>>

LateIsOver ==
    /\ pc = "late" /\ active = {}
    /\ Goto("hints")
    /\ UNCHANGED <<final, ledger, batch, pumping, recovered, health, recheck, stop, faults>>

DelayPasses(m) ==
    /\ position[m] = "entry" /\ m \notin old
    /\ old' = old \cup {m}
    /\ UNCHANGED <<final, position, pc, batch, pumping, recovered, health, recheck,
                   stop, faults>>

\* run()
NextTick ==
    /\ pc = "end"
    /\ Goto(IF stop # "no" THEN "closing" ELSE IF recovered THEN "probe"
            ELSE "recover")
    /\ UNCHANGED <<final, ledger, batch, pumping, recovered, health, recheck, stop, faults>>
-----------------------------------------------------------------------------
Loop ==
    \/ MarkStartup \/ RecoverCursors \/ RecoverReconcile \/ ClearStartup
    \/ Probe \/ SelectTargets \/ NothingIsDue
    \/ Fetch \/ Apply \/ Publish \/ TakeHints
    \/ ReconcileDemand \/ PumpIsOver \/ LateIsOver \/ NextTick \/ Close
    \/ \E m \in Markets : Pump(m) \/ ExecuteWithoutBook(m)

Next ==
    \/ Loop \/ Start \/ Crash \/ RequestStop \/ StopEnds \/ IntervalIsOver
    \/ Snapshot \/ ConnectionLost
    \/ \E m \in Markets : Hint(m) \/ Resolve(m) \/ DelayPasses(m)

\* The launcher starts the process again, the loop goes on, time passes; no
\* market is ever resolved by assumption
Fairness ==
    /\ WF_vars(Loop) /\ WF_vars(Start) /\ WF_vars(StopEnds) /\ WF_vars(IntervalIsOver)
    /\ \A m \in Markets : WF_vars(DelayPasses(m))

Spec == Init /\ [][Next]_vars /\ Fairness
-----------------------------------------------------------------------------
\* Nothing is bought while recover_once runs, although the first snapshot of
\* its reconcile ends the gap of the matches and is decided on: the gap of the
\* markets holds it.  And in the pump orders are placed and filled only in a
\* tick whose reconcile of the matches came to its end, although snapshots
\* before its failure have cleared the source (tick_once: mark_gap).
OrderNeedsReconcile ==
    \A m \in Markets :
        position'[m] # position[m] /\ position'[m] \in {"entry", "open"} =>
            \/ pc = "sports" /\ position'[m] = "entry"
            \/ pc = "pump" /\ cycle = "done"
OrdersNeedReconcile == [][OrderNeedsReconcile]_vars

\* A position whose market is final is settled in the end, by the job or a
\* hint, after failures, crashes and stops, with more markets than the budget
\* (_select_resolution_targets: "so every target is eventually rechecked").
PositionsSettle ==
    \A m \in Markets : m \in final /\ position[m] = "open" ~> position[m] # "open"

\* An order is decided in the end, also after its market has no stream any
\* more (_pump_markets: "Delayed intents remain durable after their quote
\* stream retires").
OrdersAreDecided ==
    \A m \in Markets : position[m] = "entry" ~> position[m] # "entry"
=============================================================================
