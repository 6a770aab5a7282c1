------------------------- MODULE MarketSubscription -------------------------
(***************************************************************************)
(* The subscription of one market in backend/app/markets/worker.py, with   *)
(* its stream reader, its bounded queue, its recoveries and the freshness  *)
(* overlay of backend/app/runtime/health.py that gates the decisions on it.*)
(*                                                                         *)
(* The reader is a task of its own; the worker's coroutine is one step     *)
(* between two awaits, and the reader, Redis and the demand move at every  *)
(* await.  An awaited call succeeds, fails or runs into the timeout of the *)
(* recovery, which is a failure.                                           *)
(*                                                                         *)
(* The exchange is external; a new stream sends the full book of each      *)
(* outcome at some time.  The model follows the book of one outcome: a     *)
(* "full" event replaces it, a "change" is any event that does not.  What  *)
(* is in a book is left out: `missed' says that it lacks an event.         *)
(*                                                                         *)
(* The cycles are those of the daemon: one of recover_once, which an       *)
(* exception leaves without a word to the overlay, then one in each tick.  *)
(*                                                                         *)
(* The other markets only clear the gap that all markets share             *)
(* (OtherMarketLive); how they share capacity, cursors and the time of a   *)
(* cycle is in MarketCycle.  Observations and metrics are not modelled.    *)
(***************************************************************************)
EXTENDS Naturals, Sequences

CONSTANT QueueSize  \* queue_size

ASSUME QueueAssumption == QueueSize \in Nat \ {0}

VARIABLES
    demand,      \* the market is in demand
    sub,         \* the state of its subscription, "none" when there is none
    reader,      \* the reader task runs
    opening,     \* its stream has not sent the full book yet
    queue,       \* received events
    needs,       \* needs_reconcile
    missed,      \* the book lacks an event, and no full book in the queue is newer
    hot,         \* the hot book is in Redis
    retry,       \* the market has a failed recovery, and when it is tried again
    retired,     \* the market is retired
    job,         \* what the worker does next
    recordGap,   \* the reconcile under way records a gap
    daemon,      \* "recovering", "aborted" from a recovery that has failed until
                 \* the next one, or "recovered"
    sourceGap,   \* the source polymarket, shared by all markets: "ok", "startup"
                 \* or another "gap"
    recoveryGap, \* the gap of the source polymarket_recovery
    closedMark   \* the market is in _closed_markets of the overlay

feed == <<reader, opening, queue, needs, missed>>
overlay == <<sourceGap, recoveryGap, closedMark>>
vars == <<demand, sub, feed, hot, retry, retired, job, recordGap, daemon, overlay>>

Events == {"full", "change", "resolution"}
Jobs == {"idle", "start", "repair", "probe", "rest", "publish", "restart",
         "pump", "pump_publish", "others", "raised", "decide"}

TypeOK ==
    /\ demand \in BOOLEAN
    /\ sub \in {"none", "live", "reconnecting", "closed"}
    /\ reader \in BOOLEAN /\ opening \in BOOLEAN
    /\ queue \in Seq(Events) /\ Len(queue) <= QueueSize
    /\ needs \in BOOLEAN /\ missed \in BOOLEAN
    /\ hot \in BOOLEAN
    /\ retry \in {"none", "waiting", "due"}
    /\ retired \in BOOLEAN
    /\ job \in Jobs
    /\ recordGap \in BOOLEAN
    /\ daemon \in {"recovering", "aborted", "recovered"}
    /\ sourceGap \in {"ok", "startup", "gap"} /\ recoveryGap \in BOOLEAN
    /\ closedMark \in BOOLEAN

Init ==
    /\ demand = FALSE
    /\ sub = "none"
    /\ reader = FALSE /\ opening = FALSE /\ queue = <<>>
    /\ needs = FALSE /\ missed = FALSE
    /\ hot = FALSE
    /\ retry = "none" /\ retired = FALSE
    /\ job = "idle" /\ recordGap = FALSE
    /\ daemon = "recovering" /\ sourceGap = "startup"
    /\ recoveryGap = FALSE /\ closedMark = FALSE

-----------------------------------------------------------------------------
(* The reader *)

Fits == Len(queue) < QueueSize

\* An event does not fit: a full book still in the queue is older than it.
Drop(event) ==
    /\ needs' = TRUE
    /\ IF event = "resolution" THEN UNCHANGED <<missed, queue>>
       ELSE /\ missed' = TRUE
            /\ queue' = [i \in DOMAIN queue |->
                            IF queue[i] = "full" THEN "change" ELSE queue[i]]

Receive(event) ==
    /\ reader
    /\ opening' = (opening /\ event # "full")
    /\ IF Fits THEN queue' = Append(queue, event) /\ UNCHANGED <<needs, missed>>
       ELSE Drop(event)
    /\ UNCHANGED <<demand, sub, reader, hot, retry, retired, job, recordGap, daemon,
                   overlay>>

\* The provider closes the stream of a finished market.
FeedCloses ==
    /\ reader
    /\ reader' = FALSE /\ opening' = FALSE
    /\ sub' = "closed"
    /\ closedMark' = TRUE
    /\ UNCHANGED <<demand, queue, needs, missed, hot, retry, retired, job,
                   recordGap, daemon, sourceGap, recoveryGap>>

FeedBreaks ==
    /\ reader
    /\ reader' = FALSE /\ opening' = FALSE
    /\ sub' = "reconnecting"
    /\ UNCHANGED <<demand, queue, needs, missed, hot, retry, retired, job,
                   recordGap, daemon, overlay>>

-----------------------------------------------------------------------------
(* The rest of the system *)

DemandChanges ==
    /\ demand' = ~demand
    /\ UNCHANGED <<sub, feed, hot, retry, retired, job, recordGap, daemon, overlay>>

RedisLosesBook ==
    /\ hot /\ hot' = FALSE
    /\ UNCHANGED <<demand, sub, feed, retry, retired, job, recordGap, daemon, overlay>>

RetryFallsDue ==
    /\ retry = "waiting" /\ retry' = "due"
    /\ UNCHANGED <<demand, sub, feed, hot, retired, job, recordGap, daemon, overlay>>

\* A book or a reconnection of another market marks the source successful,
\* when its turn in the cycle comes.
OtherMarketLive ==
    /\ job \in {"start", "repair", "others"}
    /\ sourceGap # "ok" /\ sourceGap' = "ok"
    /\ UNCHANGED <<demand, sub, feed, hot, retry, retired, job, recordGap, daemon,
                   recoveryGap, closedMark>>

-----------------------------------------------------------------------------
(* The worker *)

Goto(from, to) == job = from /\ job' = to

RetryDue == retry # "waiting"

\* _close: the subscription is forgotten, its reader cancelled.
Close ==
    /\ sub' = "none"
    /\ reader' = FALSE /\ opening' = FALSE
    /\ needs' = FALSE /\ missed' = FALSE

\* reconcile_demand_once up to the start of a new subscription.
BeginCycle ==
    /\ job = "idle"
    /\ retired' = (retired /\ demand)
    /\ retry' = IF demand THEN retry ELSE "none"
    /\ IF demand THEN UNCHANGED <<sub, feed>> ELSE Close /\ queue' = <<>>
    /\ job' = IF demand /\ sub = "none" /\ ~retired /\ RetryDue
              THEN "start" ELSE "repair"
    /\ UNCHANGED <<demand, hot, recordGap, daemon, overlay>>

DemandUnknown ==
    /\ Goto("idle", "raised")
    /\ UNCHANGED <<demand, sub, feed, hot, retry, retired, recordGap, daemon, overlay>>

\* The hot gap is published, then the connection is reported; a publication
\* that fails leaves the cycle, and the overlay hears of nothing
Announce ==
    \/ job' = "others" /\ sourceGap' = "gap"
    \/ job' = "raised" /\ UNCHANGED sourceGap

\* The failure branch of _recover_market.
Fail ==
    /\ Announce
    /\ recordGap' = FALSE
    /\ retry' = "waiting"
    /\ IF sub = "none" THEN UNCHANGED sub /\ queue' = <<>>
       ELSE sub' = "reconnecting" /\ UNCHANGED queue
    /\ UNCHANGED <<demand, reader, opening, needs, missed, retired, daemon, recoveryGap,
                   closedMark>>

\* Every await of a recovery may fail but those of a retirement.  A book that
\* was to be published before may be there or not.
CallFails ==
    /\ job \in {"start", "probe", "rest", "publish", "pump_publish"}
    /\ hot' \in IF job \in {"probe", "rest"} THEN {hot} ELSE {hot, TRUE}
    /\ Fail

\* _retire: REST reports a closed market, or the stream its resolution.
Retire(to) ==
    /\ job' = to /\ recordGap' = FALSE
    /\ retired' = TRUE /\ retry' = "none"
    /\ Close
    /\ closedMark' = TRUE
    /\ UNCHANGED <<demand, hot, daemon, sourceGap, recoveryGap>>

RestClosed ==
    /\ job \in {"start", "rest"}
    /\ Retire("others") /\ queue' = <<>>

\* The retirement fails after the subscription is closed: the market is
\* retired, and neither the overlay nor the resolution recheck hears of it.
RestClosedFails ==
    /\ job \in {"start", "rest"}
    /\ job' = "raised" /\ recordGap' = FALSE
    /\ retired' = TRUE /\ retry' = "none"
    /\ Close /\ queue' = <<>>
    /\ UNCHANGED <<demand, hot, daemon, overlay>>

\* MarketBridge.on_state: a book it has not seen yet ends the source's gap.
BookSeen == sourceGap' \in {"ok", sourceGap}

\* _start, whose awaits nothing here interferes with.
Start ==
    /\ Goto("start", "repair")
    /\ hot' = TRUE /\ BookSeen
    /\ sub' = "live"
    /\ reader' = TRUE /\ opening' = TRUE
    /\ queue' = <<>> /\ needs' = FALSE /\ missed' = FALSE
    /\ retry' = "none"
    /\ UNCHANGED <<demand, retired, recordGap, daemon, recoveryGap, closedMark>>

\* Faulty variant: a dropped event is no reason to reconcile.
MustReconcileOnBreakOnly == sub = "reconnecting"

MustReconcile == sub = "reconnecting" \/ needs

\* _reconcile_subscription
Repair ==
    /\ job = "repair"
    /\ IF sub \in {"none", "closed"} \/ ~RetryDue
       THEN job' = "others" /\ UNCHANGED <<recordGap, sourceGap>>
       ELSE IF MustReconcile
       THEN job' = "rest" /\ recordGap' = TRUE /\ sourceGap' = "gap"
       ELSE job' = "probe" /\ UNCHANGED <<recordGap, sourceGap>>
    /\ UNCHANGED <<demand, sub, feed, hot, retry, retired, daemon, recoveryGap,
                   closedMark>>

\* Faulty variant: a lost hot book is left to the next change of the book.
ProbeNothing ==
    /\ Goto("probe", "pump")
    /\ UNCHANGED <<demand, sub, feed, hot, retry, retired, recordGap, daemon, overlay>>

Probe ==
    /\ Goto("probe", IF hot THEN "pump" ELSE "rest")
    /\ UNCHANGED <<demand, sub, feed, hot, retry, retired, recordGap, daemon, overlay>>

\* _rest_reconcile
Rest ==
    /\ Goto("rest", "publish")
    /\ missed' = FALSE
    /\ UNCHANGED <<demand, sub, reader, opening, queue, needs, hot, retry,
                   retired, recordGap, daemon, overlay>>

\* The publication of the rebuilt book, the hook and the record of the gap.
Publish ==
    /\ Goto("publish", "restart")
    /\ hot' = TRUE /\ BookSeen
    /\ UNCHANGED <<demand, sub, feed, retry, retired, recordGap, daemon, recoveryGap,
                   closedMark>>

\* The events that are drained came after the baseline.
Drain ==
    /\ queue' = <<>> /\ needs' = FALSE
    /\ missed' = (missed \/ \E i \in DOMAIN queue : queue[i] # "resolution")

\* Faulty variant: a reader that still runs keeps its stream.
RestartIfDown ==
    /\ Goto("restart", "pump")
    /\ Drain
    /\ IF sub = "closed" \/ reader
       THEN UNCHANGED <<sub, reader, opening, sourceGap, closedMark>>
       ELSE /\ sub' = "live"
            /\ reader' = TRUE /\ opening' = TRUE
            /\ sourceGap' = IF recordGap THEN "ok" ELSE sourceGap
            /\ closedMark' = (closedMark /\ ~recordGap)
    /\ recordGap' = FALSE
    /\ UNCHANGED <<demand, hot, retry, retired, daemon, recoveryGap>>

Restart ==
    /\ Goto("restart", "pump")
    /\ Drain
    /\ IF sub = "closed"
       THEN UNCHANGED <<sub, reader, opening, sourceGap, closedMark>>
       ELSE /\ sub' = "live"
            /\ reader' = TRUE /\ opening' = TRUE
            /\ sourceGap' = IF recordGap THEN "ok" ELSE sourceGap
            /\ closedMark' = (closedMark /\ ~recordGap)
    /\ recordGap' = FALSE
    /\ UNCHANGED <<demand, hot, retry, retired, daemon, recoveryGap>>

\* _pump and _apply: a full book makes up for what was missed before it; an
\* event may leave the book as it is, and then nothing is published.
PumpBook ==
    /\ job = "pump" /\ queue # <<>> /\ Head(queue) # "resolution"
    /\ queue' = Tail(queue)
    /\ missed' = (missed /\ Head(queue) # "full")
    /\ job' \in {"pump", "pump_publish"}
    /\ UNCHANGED <<demand, sub, reader, opening, needs, hot, retry, retired,
                   recordGap, daemon, overlay>>

PumpPublish ==
    /\ Goto("pump_publish", "pump")
    /\ hot' = TRUE /\ BookSeen
    /\ UNCHANGED <<demand, sub, feed, retry, retired, recordGap, daemon, recoveryGap,
                   closedMark>>

\* The pump goes on with the queue of a subscription it has retired.
PumpResolution ==
    /\ job = "pump" /\ queue # <<>> /\ Head(queue) = "resolution"
    /\ queue' = Tail(queue)
    /\ IF retired
       THEN UNCHANGED <<demand, sub, reader, opening, needs, missed, hot,
                        retry, retired, job, recordGap, daemon, overlay>>
       ELSE Retire("pump")

PumpResolutionFails ==
    /\ job = "pump" /\ queue # <<>> /\ Head(queue) = "resolution" /\ ~retired
    /\ Announce
    /\ retired' = TRUE /\ retry' = "waiting"
    /\ Close /\ queue' = <<>>
    /\ UNCHANGED <<demand, hot, recordGap, daemon, recoveryGap, closedMark>>

PumpDone ==
    /\ job = "pump" /\ queue = <<>>
    /\ job' = "others"
    /\ retry' = "none"
    /\ UNCHANGED <<demand, sub, feed, hot, retired, recordGap, daemon, overlay>>

-----------------------------------------------------------------------------
(* The rest of the tick, or of the recovery *)

\* Another market or the flush of the observations ends the cycle.
CycleRaises ==
    /\ Goto("others", "raised")
    /\ UNCHANGED <<demand, sub, feed, hot, retry, retired, recordGap, daemon, overlay>>

\* Faulty variant: a recovery that is due again counts as made good.
FailingWhileWaiting == retry = "waiting"

Failing == retry # "none"

\* _update_market_recovery
Updated(gap) == IF Failing THEN "gap" ELSE IF recoveryGap THEN "ok" ELSE gap

\* tick_once: mark_gap if the cycle raised, then the update
UpdateRecovery ==
    /\ job \in {"others", "raised"} /\ daemon # "recovering"
    /\ job' = "decide"
    /\ recoveryGap' = Failing
    /\ sourceGap' = Updated(IF job = "raised" THEN "gap" ELSE sourceGap)
    /\ UNCHANGED <<demand, sub, feed, hot, retry, retired, recordGap, daemon, closedMark>>

\* mark_recovered takes back the startup gap only
Recovered(gap) == IF gap = "startup" THEN "ok" ELSE gap

\* The end of recover_once; the tick follows.
Recover ==
    /\ Goto("others", "idle") /\ daemon = "recovering"
    /\ daemon' = "recovered"
    /\ recoveryGap' = Failing
    /\ sourceGap' = Recovered(Updated(sourceGap))
    /\ UNCHANGED <<demand, sub, feed, hot, retry, retired, recordGap, closedMark>>

\* recover_once returns on an exception, of the cycle or before it, and the
\* tick follows with the gaps there are.
AbortRecovery ==
    /\ job \in {"raised", "idle"} /\ daemon = "recovering"
    /\ job' = "idle" /\ daemon' = "aborted"
    /\ UNCHANGED <<demand, sub, feed, hot, retry, retired, recordGap, overlay>>

\* _pump_markets: the decisions on the books of the cycle.  They change
\* nothing here.  The next pass of run() may begin with a recovery; a failed
\* probe ends a tick before its cycle.
EndTick ==
    /\ job = "decide" \/ (job = "idle" /\ daemon = "aborted")
    /\ job' = "idle"
    /\ IF daemon = "aborted" THEN daemon' = "recovering" /\ sourceGap' = "startup"
       ELSE UNCHANGED <<daemon, sourceGap>>
    /\ UNCHANGED <<demand, sub, feed, hot, retry, retired, recordGap, recoveryGap,
                   closedMark>>

-----------------------------------------------------------------------------
Reader == FeedCloses \/ FeedBreaks \/ \E event \in Events : Receive(event)

Worker ==
    \/ BeginCycle \/ DemandUnknown \/ Start
    \/ Repair \/ Probe \/ Rest \/ Publish \/ Restart
    \/ PumpBook \/ PumpPublish
    \/ PumpResolution \/ PumpResolutionFails \/ PumpDone
    \/ CallFails \/ RestClosed \/ RestClosedFails
    \/ CycleRaises \/ UpdateRecovery \/ Recover \/ AbortRecovery \/ EndTick

Next ==
    \/ Reader \/ Worker
    \/ DemandChanges \/ RedisLosesBook \/ RetryFallsDue \/ OtherMarketLive

Spec == Init /\ [][Next]_vars

\* The worker's loop runs on and its timeouts end every cycle; time passes.
\* The demand source does not fail for ever, nor do REST and the publication
\* of a book.
Fairness ==
    /\ WF_vars(Worker)
    /\ []<><<BeginCycle>>_vars
    /\ WF_vars(RetryFallsDue)
    /\ SF_vars(Rest) /\ SF_vars(Publish)

FairSpec == Spec /\ Fairness

-----------------------------------------------------------------------------
(* Properties *)

\* A live subscription whose book lacks an event is marked for a reconcile,
\* or its stream's full book is on the way: no loss in the queue, in a drain
\* or in a restart that fails halfway goes unnoticed.
LossIsFlagged ==
    sub = "live" /\ missed =>
        \/ needs
        \/ opening
        \/ \E i \in DOMAIN queue : queue[i] = "full"

\* A subscription that reads no stream is never live: it would neither be
\* restarted nor receive anything any more.
LiveHasReader == sub = "live" => reader

\* Where decisions are made: on the books of a cycle, and on the sports
\* changes before the next one.
Deciding == job \in {"idle", "decide"}

Gated == sourceGap # "ok" \/ recoveryGap \/ closedMark

\* From a failed recovery of the market to the one that makes it good its
\* decisions are gated, whatever the other markets report in between; but for
\* the sports changes in the tick after a recovery of the daemon that failed.
GatedWhileFailing ==
    Deciding /\ retry # "none" /\ ~(job = "idle" /\ daemon = "aborted") => Gated

\* recover_once, when its reconcile raises: "The gap stays: new BUY/SELL remain
\* revoked until reconciliation actually succeeds", for a market whose own has
\* failed.
RevokedUntilReconciled == Deciding /\ retry # "none" => Gated

\* A flagged loss is followed by a reconcile, unless the stream closes.
LossIsReconciled == needs ~> ~needs \/ sub = "closed"

\* "Redis hot-state loss recovery": the book of a live market returns.
HotBookReturns == sub = "live" /\ ~hot ~> hot \/ sub # "live"
=============================================================================
