--------------------------- MODULE RealtimeWorker ---------------------------
(***************************************************************************)
(* The realtime worker of backend/app/realtime/worker.py, and the reads of *)
(* the API process (TennisService.resolve_match_snapshot) that write the   *)
(* same snapshots.                                                         *)
(*                                                                         *)
(* reconcile_demand_once is one cycle of the daemon's tick: it closes what *)
(* is not demanded, subscribes what is (REST snapshot first, then the      *)
(* stream), recovers the streams that broke and applies what the readers   *)
(* queued.  Each of its awaited calls is a step; a call that raises, or    *)
(* the timeout of the tick, ends the cycle there.  Between the steps the   *)
(* supplier, the readers and the API process go on.                        *)
(*                                                                         *)
(* A snapshot is its version, the supplier's content as a number that only *)
(* grows and is Final when the match is FINISHED, and whether the optional *)
(* metadata has been filled in.  reduce_live_snapshot is the LiveReducer.  *)
(***************************************************************************)
EXTENDS Integers, Sequences, FiniteSets

CONSTANTS
    Matches,
    Durable,     \* matches demanded by the runtime itself (open positions)
    Pages,       \* matches whose page the API process reads
    MaxLive,     \* max_live_subscriptions
    Final,       \* the content with which each match ends
    QueueBound,  \* bound on the envelopes queued for a match
    ApiWrites,   \* bound on the upgrades the API process makes
    Crashes,     \* bound on the restarts of the daemon
    None

ASSUME RealtimeAssumption ==
    /\ IsFiniteSet(Matches)
    /\ Durable \subseteq Matches /\ Pages \subseteq Matches
    /\ MaxLive \in Nat /\ Final \in [Matches -> Nat] /\ QueueBound \in Nat \ {0}
    /\ ApiWrites \in Nat /\ Crashes \in Nat
    /\ None \notin Nat
    /\ None \notin {"live", "reconnecting", "start", "recover", "event"}

VARIABLES
    \* the world
    viewers,    \* viewer leases of a match: "none", "active" or "grace"
    upstream,   \* the supplier's content of a match
    \* subscriptions of the worker (None: no entry in _subs)
    state,      \* Subscription.state
    reader,     \* its reader task: "none", "running" or "ended"
    lost,       \* Subscription.disconnect_detected
    queue,      \* Subscription.queue
    pending,    \* Subscription.pending_envelope
    deferred,   \* _rankings_retry_after, until its time has come
    blocked,    \* _capacity_blocked
    current,    \* _current
    \* the cycle
    at,         \* where the cycle is, "idle" between two of them
    match,      \* the match it works on
    mode,       \* "start", "recover" or "event"
    candidate,  \* the content it applies
    new,        \* the snapshot it saves
    todo,       \* the matches it has still to see in this loop
    active,     \* its count of subscriptions
    \* shared with the API process
    stored,     \* the row of the match
    log,        \* every snapshot ever committed
    hot,        \* the hot snapshot in Redis
    \* a read of the API process
    apiAt, apiMatch, apiNew,
    writes,     \* upgrades made so far
    crashes,    \* restarts so far
    failed      \* a call of a cycle has raised

worldVars == <<viewers, upstream>>
subVars == <<state, reader, lost, queue, pending>>
cycleVars == <<at, match, mode, candidate, new, todo, active>>
apiVars == <<apiAt, apiMatch, apiNew, writes>>
vars == <<worldVars, subVars, deferred, blocked, current, cycleVars, stored,
          log, hot, apiVars, crashes, failed>>

Subscribed == {m \in Matches : state[m] # None}

NoCycle ==
    /\ at = "idle" /\ match = None /\ mode = None /\ candidate = None
    /\ new = None /\ todo = {} /\ active = 0

NoSubscriptions ==
    /\ state = [m \in Matches |-> None]
    /\ reader = [m \in Matches |-> "none"]
    /\ lost = [m \in Matches |-> FALSE]
    /\ queue = [m \in Matches |-> <<>>]
    /\ pending = [m \in Matches |-> None]

Init ==
    /\ viewers = [m \in Matches |-> "none"]
    /\ upstream = [m \in Matches |-> 0]
    /\ NoSubscriptions
    /\ deferred = {} /\ blocked = {}
    /\ current = [m \in Matches |-> None]
    /\ NoCycle
    /\ stored = [m \in Matches |-> None]
    /\ log = [m \in Matches |-> {}]
    /\ hot = [m \in Matches |-> None]
    /\ apiAt = "idle" /\ apiMatch = None /\ apiNew = None /\ writes = 0
    /\ crashes = 0 /\ failed = FALSE

-----------------------------------------------------------------------------
(* The world *)

\* Composed demand: a durable demand is active and is not downgraded.
Demand(m) == IF m \in Durable THEN "active" ELSE viewers[m]

\* Only Begin reads it, so a change during a cycle is a change after it.
ViewersChange(m) ==
    /\ at = "idle" /\ m \notin Durable
    /\ \E v \in {"none", "active", "grace"} : viewers' = [viewers EXCEPT ![m] = v]
    /\ UNCHANGED <<upstream, subVars, deferred, blocked, current, cycleVars,
                   stored, log, hot, apiVars, crashes, failed>>

\* The supplier moves on; a running reader queues the full row.
Advance(m) ==
    /\ upstream[m] < Final[m]
    /\ reader[m] = "running" => Len(queue[m]) < QueueBound
    /\ upstream' = [upstream EXCEPT ![m] = @ + 1]
    /\ queue' = IF reader[m] = "running"
                THEN [queue EXCEPT ![m] = Append(@, upstream[m] + 1)]
                ELSE queue
    /\ UNCHANGED <<viewers, state, reader, lost, pending, deferred, blocked,
                   current, cycleVars, stored, log, hot, apiVars, crashes,
                   failed>>

\* The stream ends or breaks: the reader flags it and returns.
Break(m) ==
    /\ reader[m] = "running"
    /\ reader' = [reader EXCEPT ![m] = "ended"]
    /\ lost' = [lost EXCEPT ![m] = TRUE]
    /\ UNCHANGED <<worldVars, state, queue, pending, deferred, blocked, current,
                   cycleVars, stored, log, hot, apiVars, crashes, failed>>

\* The second of a deferred retry is over.  A cycle reads the time of a match
\* once, so a time that comes during it comes before or after it.
RetryIsDue(m) ==
    /\ at = "idle" /\ m \in deferred
    /\ deferred' = deferred \ {m}
    /\ UNCHANGED <<worldVars, subVars, blocked, current, cycleVars, stored, log,
                   hot, apiVars, crashes, failed>>

-----------------------------------------------------------------------------
(* A cycle: demand and new subscriptions *)

\* Back to one of the two loops, or out of them.
BackTo(loop) ==
    at' = loop /\ match' = None /\ mode' = None /\ candidate' = None /\ new' = None

\* Entries of the dictionary of subscriptions that are removed and closed.
Close(M) ==
    /\ state' = [m \in Matches |-> IF m \in M THEN None ELSE state[m]]
    /\ reader' = [m \in Matches |-> IF m \in M THEN "none" ELSE reader[m]]
    /\ lost' = [m \in Matches |-> IF m \in M THEN FALSE ELSE lost[m]]
    /\ queue' = [m \in Matches |-> IF m \in M THEN <<>> ELSE queue[m]]
    /\ pending' = [m \in Matches |-> IF m \in M THEN None ELSE pending[m]]

Begin ==
    /\ at = "idle"
    /\ LET kept == {m \in Subscribed : Demand(m) # "none"}
       IN /\ Close(Subscribed \ kept)
          /\ active' = Cardinality(kept)
          /\ todo' = {m \in Matches \ kept : Demand(m) = "active"}
    /\ at' = "subscribe"
    /\ UNCHANGED <<worldVars, deferred, blocked, current, match, mode, candidate,
                   new, stored, log, hot, apiVars, crashes, failed>>

Counted(n) == n + 1

\* The subscription is entered, without a reader, before the REST snapshot.
Subscribe(m) ==
    /\ at = "subscribe" /\ m \in todo
    /\ m \notin deferred /\ active < MaxLive
    /\ todo' = todo \ {m}
    /\ blocked' = blocked \ {m}
    /\ state' = [state EXCEPT ![m] = "live"]
    /\ at' = "rest" /\ match' = m /\ mode' = "start"
    /\ UNCHANGED <<worldVars, reader, lost, queue, pending, deferred, current,
                   candidate, new, active, stored, log, hot, apiVars,
                   crashes, failed>>

SkipSubscription(m) ==
    /\ at = "subscribe" /\ m \in todo
    /\ \/ m \in deferred /\ UNCHANGED blocked
       \/ m \notin deferred /\ active >= MaxLive /\ blocked' = blocked \cup {m}
    /\ todo' = todo \ {m}
    /\ UNCHANGED <<worldVars, subVars, deferred, current, at, match, mode,
                   candidate, new, active, stored, log, hot, apiVars,
                   crashes, failed>>

EndSubscribing ==
    /\ at = "subscribe" /\ todo = {}
    /\ at' = "pump" /\ todo' = Subscribed
    /\ active' = 0
    /\ UNCHANGED <<worldVars, subVars, deferred, blocked, current, match, mode,
                   candidate, new, stored, log, hot, apiVars,
                   crashes, failed>>

-----------------------------------------------------------------------------
(* A cycle: recoveries and queued envelopes *)

\* The flag is cleared before anything else is done about it.
DetectLoss(m) ==
    /\ at = "pump" /\ m \in todo /\ lost[m]
    /\ lost' = [lost EXCEPT ![m] = FALSE]
    /\ state' = [state EXCEPT ![m] = "reconnecting"]
    /\ at' = "announce" /\ match' = m /\ todo' = todo \ {m}
    /\ UNCHANGED <<worldVars, reader, queue, pending, deferred, blocked, current,
                   mode, candidate, new, active, stored, log, hot, apiVars,
                   crashes, failed>>

\* The queue is pumped to its end; a loss in the meantime waits for the next
\* cycle.
StartPumping(m) ==
    /\ at = "pump" /\ m \in todo /\ ~lost[m]
    /\ at' = "drain" /\ match' = m /\ mode' = "event" /\ todo' = todo \ {m}
    /\ UNCHANGED <<worldVars, subVars, deferred, blocked, current, candidate, new,
                   active, stored, log, hot, apiVars, crashes, failed>>

\* Faulty variant: what the broken stream queued is kept.
QueueKept(m) == queue[m]
QueueAfterLoss(m) == <<>>

\* "reconnecting" is published, then the queue is drained.
Announce ==
    /\ at = "announce"
    /\ queue' = [queue EXCEPT ![match] = QueueAfterLoss(match)]
    /\ pending' = [pending EXCEPT ![match] = None]
    /\ deferred' = deferred \ {match}
    /\ at' = "rest" /\ mode' = "recover"
    /\ UNCHANGED <<worldVars, state, reader, lost, blocked, current, match,
                   candidate, new, todo, active, stored, log, hot, apiVars,
                   crashes, failed>>

\* An envelope leaves the queue, or the pending place, before it is applied;
\* one that to_candidate cannot read is skipped.
Take ==
    /\ at = "drain" /\ match \notin deferred
    /\ pending[match] # None \/ queue[match] # <<>>
    /\ pending' = [pending EXCEPT ![match] = None]
    /\ queue' = IF pending[match] = None
                THEN [queue EXCEPT ![match] = Tail(@)] ELSE queue
    /\ \/ /\ at' = "apply"
          /\ candidate' = IF pending[match] = None
                          THEN Head(queue[match]) ELSE pending[match]
       \/ UNCHANGED <<at, candidate>>
    /\ UNCHANGED <<worldVars, state, reader, lost, deferred, blocked, current,
                   match, mode, new, todo, active, stored, log, hot, apiVars,
                   crashes, failed>>

Pumped ==
    /\ at = "drain"
    /\ match \in deferred \/ (pending[match] = None /\ queue[match] = <<>>)
    /\ BackTo("pump")
    /\ UNCHANGED <<worldVars, subVars, deferred, blocked, current, todo, active,
                   stored, log, hot, apiVars, crashes, failed>>

EndCycle ==
    /\ at = "pump" /\ todo = {}
    /\ BackTo("idle")
    /\ active' = 0
    /\ UNCHANGED <<worldVars, subVars, deferred, blocked, current, todo, stored,
                   log, hot, apiVars, crashes, failed>>

-----------------------------------------------------------------------------
(* A cycle: _rest_reconcile and _apply *)

RestReconcile ==
    /\ at = "rest"
    /\ candidate' = upstream[match]
    /\ current' = [current EXCEPT ![match] =
                      IF @ = None THEN stored[match] ELSE @]
    /\ at' = "apply"
    /\ UNCHANGED <<worldVars, subVars, deferred, blocked, match, mode, new, todo,
                   active, stored, log, hot, apiVars, crashes, failed>>

\* _apply starts from a newer hot snapshot, if there is one.
Previous ==
    IF /\ current[match] # None /\ hot[match] # None
       /\ hot[match].version > current[match].version
    THEN hot[match] ELSE current[match]

\* reduce_live_snapshot: the same content is no change.
Unchanged == Previous # None /\ Previous.content = candidate
Reduction ==
    IF Previous = None
    THEN [version |-> 1, content |-> candidate, metadata |-> FALSE]
    ELSE [version |-> Previous.version + 1, content |-> candidate,
          metadata |-> Previous.metadata]

Apply ==
    /\ at = "apply"
    /\ current' = [current EXCEPT ![match] = Previous]
    /\ IF Unchanged THEN at' = "applied" /\ new' = None
                    ELSE at' = "save" /\ new' = Reduction
    /\ UNCHANGED <<worldVars, subVars, deferred, blocked, match, mode, candidate,
                   todo, active, stored, log, hot, apiVars, crashes, failed>>

\* The directory cannot answer: the match is tried again after a second, an
\* envelope from its pending place and a subscription from the beginning.
RankingsUnavailable ==
    /\ at = "apply"
    /\ current' = [current EXCEPT ![match] = Previous]
    /\ deferred' = deferred \cup {match}
    /\ IF mode = "event"
       THEN /\ pending' = [pending EXCEPT ![match] = candidate]
            /\ UNCHANGED <<state, reader, lost, queue>>
       ELSE Close({match})
    /\ BackTo(IF mode = "start" THEN "subscribe" ELSE "pump")
    /\ UNCHANGED <<worldVars, blocked, todo, active, stored, log, hot, apiVars, crashes, failed>>

\* Faulty variant: published although nothing is committed.
SaveSkipped ==
    /\ at = "save"
    /\ current' = [current EXCEPT ![match] = new]
    /\ at' = "publish"
    /\ UNCHANGED <<worldVars, subVars, deferred, blocked, match, mode, candidate,
                   new, todo, active, stored, log, hot, apiVars, crashes,
                   failed>>
\* save_reduction commits, then the worker holds the snapshot.
Save ==
    /\ at = "save"
    /\ stored' = [stored EXCEPT ![match] = new]
    /\ log' = [log EXCEPT ![match] = @ \cup {new}]
    /\ current' = [current EXCEPT ![match] = new]
    /\ at' = "publish"
    /\ UNCHANGED <<worldVars, subVars, deferred, blocked, match, mode, candidate,
                   new, todo, active, hot, apiVars, crashes, failed>>

\* publish_delta; the callbacks downstream cannot fail the cycle.
Publish ==
    /\ at = "publish"
    /\ hot' = [hot EXCEPT ![match] = new]
    /\ at' = "applied" /\ new' = None
    /\ UNCHANGED <<worldVars, subVars, deferred, blocked, current, match, mode,
                   candidate, todo, active, stored, log, apiVars, crashes, failed>>

Started ==
    /\ at = "applied" /\ mode = "start"
    /\ reader' = [reader EXCEPT ![match] = "running"]
    /\ active' = Counted(active)
    /\ BackTo("subscribe")
    /\ UNCHANGED <<worldVars, state, lost, queue, pending, deferred, blocked,
                   current, todo, stored, log, hot,
                   apiVars, crashes, failed>>

\* Faulty variant: the new stream is opened and never read.
RecoveredUnread ==
    /\ at = "applied" /\ mode = "recover"
    /\ state' = [state EXCEPT ![match] = "live"]
    /\ at' = "announce_live"
    /\ UNCHANGED <<worldVars, reader, lost, queue, pending, deferred, blocked,
                   current, match, mode, candidate, new, todo, active, stored, log,
                   hot, apiVars, crashes, failed>>
\* The new stream is read and the state is live, then it is published.
Recovered ==
    /\ at = "applied" /\ mode = "recover"
    /\ reader' = [reader EXCEPT ![match] = "running"]
    /\ state' = [state EXCEPT ![match] = "live"]
    /\ at' = "announce_live"
    /\ UNCHANGED <<worldVars, lost, queue, pending, deferred, blocked, current,
                   match, mode, candidate, new, todo, active, stored, log, hot,
                   apiVars, crashes, failed>>

AnnounceLive ==
    /\ at = "announce_live"
    /\ BackTo("pump")
    /\ UNCHANGED <<worldVars, subVars, deferred, blocked, current, todo, active,
                   stored, log, hot, apiVars, crashes, failed>>

\* After an event: the end of the match is published and closes it.
Applied ==
    /\ at = "applied" /\ mode = "event"
    /\ deferred' = deferred \ {match}
    /\ IF candidate = Final[match]
       THEN Close({match}) /\ BackTo("pump")
       ELSE /\ at' = "drain" /\ candidate' = None
            /\ UNCHANGED <<subVars, match, mode, new>>
    /\ UNCHANGED <<worldVars, blocked, current, todo, active, stored, log, hot,
                   apiVars, crashes, failed>>

-----------------------------------------------------------------------------
(* Failures *)

\* A call raises or the tick's timeout cancels it: the cycle ends.  The save
\* may have been committed all the same.
CycleFails ==
    /\ at # "idle"
    /\ \/ UNCHANGED <<stored, log>>
       \/ /\ at = "save"
          /\ stored' = [stored EXCEPT ![match] = new]
          /\ log' = [log EXCEPT ![match] = @ \cup {new}]
    /\ BackTo("idle") /\ active' = 0 /\ todo' = {}
    /\ failed' = TRUE
    /\ UNCHANGED <<worldVars, subVars, deferred, blocked, current, hot, apiVars, crashes>>

Crash ==
    /\ crashes < Crashes
    /\ crashes' = crashes + 1
    /\ BackTo("idle") /\ active' = 0 /\ todo' = {}
    /\ Close(Matches)
    /\ deferred' = {} /\ blocked' = {}
    /\ current' = [m \in Matches |-> None]
    /\ UNCHANGED <<worldVars, stored, log, hot, apiVars, failed>>

-----------------------------------------------------------------------------
(* The API process: resolve_match_snapshot *)

\* Hot first, the row second, the provider last; metadata that is missing is
\* fetched before the snapshot that was read is saved as an upgrade.
ApiRead(m) ==
    /\ m \in Pages /\ apiAt = "idle" /\ writes < ApiWrites
    /\ LET base == IF hot[m] # None THEN hot[m] ELSE stored[m]
       IN IF base = None
          THEN /\ apiAt' = "create"
               /\ apiNew' = [version |-> 1, content |-> upstream[m],
                             metadata |-> TRUE]
          ELSE /\ ~base.metadata
               /\ apiAt' = "upgrade"
               /\ apiNew' = [version |-> base.version + 1, content |-> base.content,
                             metadata |-> TRUE]
    /\ apiMatch' = m
    /\ writes' = writes + 1
    /\ UNCHANGED <<worldVars, subVars, deferred, blocked, current, cycleVars,
                   stored, log, hot, crashes, failed>>

ApiDone == apiAt' = "idle" /\ apiMatch' = None /\ apiNew' = None

ApiSave ==
    /\ apiAt \in {"create", "upgrade"}
    /\ stored' = [stored EXCEPT ![apiMatch] = apiNew]
    /\ log' = [log EXCEPT ![apiMatch] = @ \cup {apiNew}]
    /\ IF apiAt = "create" THEN ApiDone
       ELSE apiAt' = "publish" /\ UNCHANGED <<apiMatch, apiNew>>
    /\ UNCHANGED <<worldVars, subVars, deferred, blocked, current, cycleVars, hot,
                   writes, crashes, failed>>

ApiPublish ==
    /\ apiAt = "publish"
    /\ hot' = [hot EXCEPT ![apiMatch] = apiNew]
    /\ ApiDone
    /\ UNCHANGED <<worldVars, subVars, deferred, blocked, current, cycleVars,
                   stored, log, writes, crashes, failed>>

ApiFails ==
    /\ apiAt # "idle"
    /\ ApiDone
    /\ UNCHANGED <<worldVars, subVars, deferred, blocked, current, cycleVars,
                   stored, log, hot, writes, crashes, failed>>

-----------------------------------------------------------------------------
World == \E m \in Matches : ViewersChange(m) \/ Advance(m) \/ Break(m)

Progress ==
    \/ Begin \/ EndSubscribing \/ EndCycle \/ Announce \/ RestReconcile \/ Apply
    \/ Save \/ Publish \/ Started \/ Recovered \/ AnnounceLive \/ Applied
    \/ Take \/ Pumped
    \/ \E m \in Matches : \/ Subscribe(m) \/ SkipSubscription(m)
                          \/ DetectLoss(m) \/ StartPumping(m)

Next ==
    \/ World \/ Progress
    \/ \E m \in Matches : RetryIsDue(m) \/ ApiRead(m)
    \/ RankingsUnavailable \/ CycleFails \/ Crash
    \/ ApiSave \/ ApiPublish \/ ApiFails

Spec == Init /\ [][Next]_vars

-----------------------------------------------------------------------------
(* Properties *)

Snapshots == [version : Nat \ {0}, content : Nat, metadata : BOOLEAN]

TypeOK ==
    /\ viewers \in [Matches -> {"none", "active", "grace"}]
    /\ upstream \in [Matches -> Nat]
    /\ state \in [Matches -> {None, "live", "reconnecting"}]
    /\ reader \in [Matches -> {"none", "running", "ended"}]
    /\ lost \in [Matches -> BOOLEAN]
    /\ queue \in [Matches -> Seq(Nat)]
    /\ pending \in [Matches -> {None} \cup Nat]
    /\ deferred \subseteq Matches /\ blocked \subseteq Matches
    /\ current \in [Matches -> {None} \cup Snapshots]
    /\ at \in {"idle", "subscribe", "pump", "drain", "announce", "rest", "apply", "save",
               "publish", "applied", "announce_live"}
    /\ at \notin {"idle", "subscribe", "pump"} => match \in Subscribed
    /\ mode \in {None, "start", "recover", "event"}
    /\ candidate \in {None} \cup Nat
    /\ new \in {None} \cup Snapshots
    /\ todo \subseteq Matches
    /\ active \in Nat
    /\ stored \in [Matches -> {None} \cup Snapshots]
    /\ hot \in [Matches -> {None} \cup Snapshots]
    /\ apiAt \in {"idle", "create", "upgrade", "publish"}
    /\ apiNew \in {None} \cup Snapshots
    /\ failed \in BOOLEAN

\* However the worker, the API process, failures and restarts interleave, the
\* hot snapshot is one that was committed before: save_reduction comes first,
\* and a version is not assembled from two writers.
HotIsCommitted ==
    \A m \in Matches : hot[m] # None => hot[m] \in log[m]

\* A subscription without a running reader is one whose loss is flagged, that
\* the cycle is working on, or that a failed cycle left behind.
ReadersRun ==
    \A m \in Subscribed :
        \/ reader[m] = "running"
        \/ lost[m]
        \/ at \notin {"idle", "subscribe", "pump"} /\ match = m
        \/ failed

\* What the worker publishes never shows less than what was shown: the queue
\* of a broken stream is drained before the baseline, and envelopes that wait
\* for rankings are forgotten by it.  Only an upgrade of the API goes back.
OnlyTheApiGoesBack ==
    [][\A m \in Matches :
         /\ hot[m] # None /\ hot'[m] # None
         /\ hot'[m].content < hot[m].content
         => apiAt = "publish" /\ apiMatch = m]_vars

=============================================================================
