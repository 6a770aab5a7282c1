---------------------------- MODULE RuntimeProofs ----------------------------
(***************************************************************************)
(* Theorems about the processes of the runtime, for every set of matches,  *)
(* markets and services: the realtime worker between the supplier, the API *)
(* process and its own failures (RealtimeWorker), and the daemon's         *)
(* recovery and ticks (RuntimeDaemon).                                     *)
(***************************************************************************)
EXTENDS RealtimeWorker, FiniteSetTheorems, TLAPS

-----------------------------------------------------------------------------
(* The realtime worker                                                     *)

Between == {"idle", "subscribe", "pump"}

\* A snapshot is published after it was committed, by the worker as by the API.
CommitInv ==
    /\ log = [m \in Matches |-> log[m]] /\ hot = [m \in Matches |-> hot[m]]
    /\ at \notin Between => match \in Matches
    /\ at = "publish" => new \in log[match]
    /\ apiAt # "idle" => apiMatch \in Matches
    /\ apiAt = "publish" => apiNew \in log[apiMatch]
    /\ HotIsCommitted

LEMMA CommitStart == ASSUME Init PROVE CommitInv
BY DEF Init, NoCycle, CommitInv, HotIsCommitted, Between

LEMMA CommitStep == ASSUME CommitInv, [Next]_vars PROVE CommitInv'
<1> USE DEF CommitInv, HotIsCommitted, BackTo, Between
<1>1. CASE World
  BY <1>1 DEF World, ViewersChange, Advance, Break, cycleVars, apiVars
<1>2. CASE Begin \/ EndSubscribing \/ EndCycle \/ Announce \/ RestReconcile
  BY <1>2 DEF Begin, EndSubscribing, EndCycle, Announce, RestReconcile, cycleVars, apiVars
<1>3. CASE Apply \/ Started \/ Recovered \/ AnnounceLive
  BY <1>3 DEF Apply, Started, Recovered, AnnounceLive, cycleVars, apiVars
<1>4. CASE Applied \/ Take \/ Pumped
  BY <1>4 DEF Applied, Take, Pumped, cycleVars, apiVars
<1>5. CASE Save
  BY <1>5 DEF Save, cycleVars, apiVars
<1>6. CASE Publish
  BY <1>6 DEF Publish, cycleVars, apiVars
<1>7. ASSUME NEW m \in Matches,
             Subscribe(m) \/ SkipSubscription(m) \/ DetectLoss(m) \/ StartPumping(m)
      PROVE  CommitInv'
  BY <1>7 DEF Subscribe, SkipSubscription, DetectLoss, StartPumping, cycleVars, apiVars
<1>8. CASE RankingsUnavailable \/ Crash
  BY <1>8 DEF RankingsUnavailable, Crash, cycleVars, apiVars
<1>9. CASE CycleFails
  BY <1>9 DEF CycleFails, cycleVars, apiVars
<1>10. ASSUME NEW m \in Matches, RetryIsDue(m) \/ ApiRead(m)
       PROVE  CommitInv'
  BY <1>10 DEF RetryIsDue, ApiRead, cycleVars, apiVars
<1>11. CASE ApiSave
  BY <1>11 DEF ApiSave, ApiDone, cycleVars, apiVars
<1>12. CASE ApiPublish
  BY <1>12 DEF ApiPublish, ApiDone, cycleVars, apiVars
<1>13. CASE ApiFails
  BY <1>13 DEF ApiFails, ApiDone, cycleVars, apiVars
<1>14. CASE UNCHANGED vars
  BY <1>14 DEF vars, cycleVars, apiVars
<1> QED
  BY <1>1, <1>2, <1>3, <1>4, <1>5, <1>6, <1>7, <1>8, <1>9, <1>10, <1>11, <1>12, <1>13, <1>14
  DEF Next, Progress

\* However the worker, the API process, failures and restarts interleave, what
\* is hot was committed before (save_reduction before publish_delta).
THEOREM HotSnapshotsAreCommitted == Spec => []HotIsCommitted
<1>1. CommitInv => HotIsCommitted
  BY DEF CommitInv
<1> QED BY <1>1, CommitStart, CommitStep, PTL DEF Spec

\* A subscription that the cycle leaves is read, or its loss is flagged.
Reads(m) == reader[m] = "running" \/ lost[m] \/ failed
WorksOn(m) == at \notin Between /\ match = m
ReadersInv ==
    /\ state = [m \in Matches |-> state[m]] /\ reader = [m \in Matches |-> reader[m]]
    /\ lost = [m \in Matches |-> lost[m]]
    /\ at \notin Between => match \in Matches
    /\ at = "drain" => mode = "event"
    /\ at = "rest" => mode # "event"
    /\ /\ \/ at = "announce_live"
          \/ at \in {"drain", "apply", "save", "publish", "applied"} /\ mode = "event"
       /\ state[match] # None
       => Reads(match)
    /\ \A m \in Matches : state[m] # None => Reads(m) \/ WorksOn(m)

LEMMA ReadersStart == ASSUME Init PROVE ReadersInv
BY DEF Init, NoCycle, NoSubscriptions, ReadersInv, Between

LEMMA ReadsOn ==
    ASSUME UNCHANGED <<reader, lost, failed>> PROVE \A m : Reads(m) => Reads(m)'
BY Zenon DEF Reads

LEMMA ReadersStep == ASSUME ReadersInv, [Next]_vars PROVE ReadersInv'
<1> USE DEF ReadersInv, WorksOn, BackTo, Between, subVars, cycleVars
<1>1. ASSUME NEW m \in Matches, ViewersChange(m) \/ Advance(m) \/ RetryIsDue(m) \/ ApiRead(m)
      PROVE  ReadersInv'
  <2>1. UNCHANGED <<state, reader, lost, at, match, mode, failed>>
    BY <1>1 DEF ViewersChange, Advance, RetryIsDue, ApiRead
  <2> QED BY <2>1, ReadsOn
<1>2. ASSUME NEW m \in Matches, Break(m)
      PROVE  ReadersInv'
  <2>1. /\ UNCHANGED <<state, at, match, mode, failed>>
        /\ reader' = [reader EXCEPT ![m] = "ended"] /\ lost' = [lost EXCEPT ![m] = TRUE]
    BY <1>2 DEF Break
  <2>2. ASSUME NEW x \in Matches, Reads(x) PROVE Reads(x)'
    <3>1. CASE x = m
      <4>1. lost'[x]
        BY <2>1, <3>1
      <4> QED BY <4>1, Zenon DEF Reads
    <3>2. CASE x # m
      <4>1. reader'[x] = reader[x] /\ lost'[x] = lost[x] /\ failed' = failed
        BY <2>1, <3>2
      <4> QED BY <2>2, <4>1, Zenon DEF Reads
    <3> QED BY <3>1, <3>2
  <2> QED BY <2>1, <2>2
<1>3. CASE Begin
  <2>1. /\ state' = [m \in Matches |-> IF m \in Subscribed \ {x \in Subscribed : Demand(x) # "none"}
                                       THEN None ELSE state[m]]
        /\ reader' = [m \in Matches |-> IF m \in Subscribed \ {x \in Subscribed : Demand(x) # "none"}
                                        THEN "none" ELSE reader[m]]
        /\ lost' = [m \in Matches |-> IF m \in Subscribed \ {x \in Subscribed : Demand(x) # "none"}
                                      THEN FALSE ELSE lost[m]]
        /\ at = "idle" /\ at' = "subscribe" /\ UNCHANGED <<match, mode, failed>>
    BY <1>3 DEF Begin, Close
  <2>2. ASSUME NEW m \in Matches, state'[m] # None, Reads(m) PROVE Reads(m)'
    <3>1. reader'[m] = reader[m] /\ lost'[m] = lost[m] /\ failed' = failed
      BY <2>1, <2>2
    <3> QED BY <2>2, <3>1, Zenon DEF Reads
  <2> QED BY <2>1, <2>2
<1>4. CASE EndSubscribing \/ EndCycle
  <2>1. /\ UNCHANGED <<state, reader, lost, failed>> /\ at \in Between /\ at' \in Between
    BY <1>4 DEF EndSubscribing, EndCycle
  <2> QED BY <2>1, ReadsOn
<1>5. CASE Announce \/ RestReconcile
  <2>1. /\ UNCHANGED <<state, reader, lost, match, failed>> /\ at \in {"announce", "rest"}
        /\ at' \in {"rest", "apply"} /\ mode' # "event"
    BY <1>5 DEF Announce, RestReconcile
  <2> QED BY <2>1, ReadsOn
<1>6. CASE Apply \/ Save \/ Publish \/ Take
  <2>1. /\ UNCHANGED <<state, reader, lost, match, mode, failed>>
        /\ at \in {"drain", "apply", "save", "publish"}
        /\ at' \in {"drain", "apply", "save", "publish", "applied"}
        /\ at' = "drain" => at = "drain"
    BY <1>6 DEF Apply, Save, Publish, Take
  <2> QED BY <2>1, ReadsOn
<1>7. CASE Pumped \/ AnnounceLive
  <2>1. /\ UNCHANGED <<state, reader, lost, failed>> /\ at' = "pump"
        /\ state[match] # None => Reads(match)
    BY <1>7 DEF Pumped, AnnounceLive
  <2> QED BY <2>1, ReadsOn
<1>8. CASE Started
  <2>1. /\ at = "applied" /\ at' = "subscribe" /\ reader' = [reader EXCEPT ![match] = "running"]
        /\ UNCHANGED <<state, lost, failed>>
    BY <1>8 DEF Started
  <2>2. ASSUME NEW m \in Matches, Reads(m) \/ m = match PROVE Reads(m)'
    <3>1. CASE m = match
      <4>1. reader'[m] = "running"
        BY <2>1, <3>1
      <4> QED BY <4>1, Zenon DEF Reads
    <3>2. CASE m # match
      <4>1. reader'[m] = reader[m] /\ lost'[m] = lost[m] /\ failed' = failed
        BY <2>1, <3>2
      <4> QED BY <2>2, <3>2, <4>1, Zenon DEF Reads
    <3> QED BY <3>1, <3>2
  <2> QED BY <2>1, <2>2
<1>9. CASE Recovered
  <2>1. /\ at = "applied" /\ at' = "announce_live" /\ UNCHANGED <<match, lost, failed>>
        /\ reader' = [reader EXCEPT ![match] = "running"] /\ state' = [state EXCEPT ![match] = "live"]
    BY <1>9 DEF Recovered
  <2>2. ASSUME NEW m \in Matches, Reads(m) \/ m = match PROVE Reads(m)'
    <3>1. CASE m = match
      <4>1. reader'[m] = "running"
        BY <2>1, <3>1
      <4> QED BY <4>1, Zenon DEF Reads
    <3>2. CASE m # match
      <4>1. reader'[m] = reader[m] /\ lost'[m] = lost[m] /\ failed' = failed
        BY <2>1, <3>2
      <4> QED BY <2>2, <3>2, <4>1, Zenon DEF Reads
    <3> QED BY <3>1, <3>2
  <2> QED BY <2>1, <2>2
<1>10. ASSUME Close({match}), UNCHANGED failed, at \notin Between, at' \in Between
       PROVE  ReadersInv'
  <2>1. ASSUME NEW m \in Matches, state'[m] # None
        PROVE  m # match /\ reader'[m] = reader[m] /\ lost'[m] = lost[m] /\ state'[m] = state[m]
    BY <1>10, <2>1 DEF Close
  <2>2. ASSUME NEW m \in Matches, state'[m] # None PROVE Reads(m)'
    <3>1. Reads(m) /\ failed' = failed
      BY <1>10, <2>1, <2>2
    <3> QED BY <2>1, <2>2, <3>1, Zenon DEF Reads
  <2> QED BY <1>10, <2>2 DEF Close
<1>11. CASE Applied \/ RankingsUnavailable
  <2>1. /\ UNCHANGED failed /\ at \in {"apply", "applied"}
        /\ \/ Close({match}) /\ at' \in {"subscribe", "pump"}
           \/ /\ UNCHANGED <<state, reader, lost>> /\ mode = "event"
              /\ \/ at' = "drain" /\ UNCHANGED <<match, mode>>
                 \/ at' \in {"subscribe", "pump"}
    BY <1>11 DEF Applied, RankingsUnavailable
  <2>2. CASE UNCHANGED <<state, reader, lost>>
    BY <1>10, <2>1, <2>2, ReadsOn
  <2> QED BY <1>10, <2>1, <2>2
<1>12. ASSUME NEW m \in Matches, Subscribe(m) \/ DetectLoss(m)
       PROVE  ReadersInv'
  <2>1. /\ UNCHANGED <<reader, failed>> /\ match' = m /\ at \in Between
        /\ \/ at' = "rest" /\ mode' = "start"
           \/ at' = "announce"
        /\ \E s : state' = [state EXCEPT ![m] = s]
        /\ lost' = [lost EXCEPT ![m] = lost'[m]]
    BY <1>12 DEF Subscribe, DetectLoss
  <2>2. ASSUME NEW x \in Matches, Reads(x), x # m PROVE Reads(x)'
    <3>1. reader'[x] = reader[x] /\ lost'[x] = lost[x] /\ failed' = failed
      BY <2>1, <2>2
    <3> QED BY <2>2, <3>1, Zenon DEF Reads
  <2>3. \A x \in Matches : x # m => state'[x] = state[x]
    BY <2>1
  <2>4. lost' = [x \in Matches |-> lost'[x]] /\ state' = [x \in Matches |-> state'[x]]
    BY <2>1
  <2> QED BY <2>1, <2>2, <2>3, <2>4
<1>13. ASSUME NEW m \in Matches, SkipSubscription(m) \/ StartPumping(m)
       PROVE  ReadersInv'
  <2>1. /\ UNCHANGED <<state, reader, lost, failed>> /\ at \in Between
        /\ \/ at' = at /\ UNCHANGED <<match, mode>>
           \/ at' = "drain" /\ match' = m /\ mode' = "event"
    BY <1>13 DEF SkipSubscription, StartPumping
  <2> QED BY <2>1, ReadsOn
<1>14. CASE CycleFails
  <2>1. UNCHANGED <<state, reader, lost>> /\ at' = "idle" /\ failed' = TRUE
    BY <1>14 DEF CycleFails
  <2>2. \A m : Reads(m)'
    BY <2>1, Zenon DEF Reads
  <2> QED BY <2>1, <2>2
<1>15. CASE Crash
  BY <1>15 DEF Crash, Close
<1>16. CASE ApiSave \/ ApiPublish \/ ApiFails \/ UNCHANGED vars
  <2>1. UNCHANGED <<state, reader, lost, at, match, mode, failed>>
    BY <1>16 DEF ApiSave, ApiPublish, ApiFails, vars
  <2> QED BY <2>1, ReadsOn
<1> QED
  BY <1>1, <1>2, <1>3, <1>4, <1>5, <1>6, <1>7, <1>8, <1>9, <1>11, <1>12, <1>13, <1>14, <1>15,
     <1>16
  DEF Next, World, Progress

\* However often streams break and rankings are missing, a subscription that
\* the cycle leaves has a reader or a loss that the next cycle sees, unless a
\* cycle failed (disconnect_detected, _reconnect).
THEOREM SubscriptionsAreRead == Spec => []ReadersRun
<1>1. ReadersInv => ReadersRun
  BY Zenon DEF ReadersInv, ReadersRun, Reads, WorksOn, Between, Subscribed
<1> QED BY <1>1, ReadersStart, ReadersStep, PTL DEF Spec
\* Contents: what comes is not older than what was shown, nor than what a page
\* may still publish.
IsSnapshot(s) == s = [version |-> s.version, content |-> s.content, metadata |-> s.metadata]
HasMetadata(s) == s.metadata
Flagged(m) == lost[m]

ForwardTypeOK ==
    /\ upstream = [m \in Matches |-> upstream[m]]
    /\ queue = [m \in Matches |-> queue[m]] /\ pending = [m \in Matches |-> pending[m]]
    /\ state = [m \in Matches |-> state[m]] /\ reader = [m \in Matches |-> reader[m]]
    /\ lost = [m \in Matches |-> lost[m]]
    /\ stored = [m \in Matches |-> stored[m]] /\ hot = [m \in Matches |-> hot[m]]
    /\ at \notin Between => match \in Matches
    /\ apiAt # "idle" => apiMatch \in Matches /\ IsSnapshot(apiNew)
    /\ apiAt \in {"create", "upgrade"} => HasMetadata(apiNew)
    /\ at \in {"save", "publish"} => IsSnapshot(new) /\ new.content = candidate

\* The queue of a match is in order, and what is on its way comes before it.
InTransit(m) == match = m /\ at \in {"apply", "save", "publish"}
InOrder(m) ==
    /\ upstream[m] \in Nat /\ queue[m] \in Seq(Nat)
    /\ \A i \in DOMAIN queue[m] : queue[m][i] <= upstream[m]
    /\ \A i, j \in DOMAIN queue[m] : i < j => queue[m][i] <= queue[m][j]
    /\ pending[m] # None =>
           /\ pending[m] \in Nat /\ pending[m] <= upstream[m]
           /\ \A i \in DOMAIN queue[m] : pending[m] <= queue[m][i]
    /\ InTransit(m) =>
           /\ candidate \in Nat /\ candidate <= upstream[m] /\ pending[m] = None
           /\ \A i \in DOMAIN queue[m] : candidate <= queue[m][i]

\* A subscription that is not read has nothing queued: a new one, and one that
\* recovers once its queue was drained.
Quiet(m) == reader[m] # "running" /\ ~Flagged(m) /\ queue[m] = <<>> /\ pending[m] = None
UnreadAreQuiet ==
    /\ at \in Between => mode = None
    /\ at \notin Between => state[match] # None /\ match \notin todo
    /\ at \in {"drain", "announce_live"} => mode \notin {None, "start"}
    /\ at = "drain" => mode = "event"
    /\ at = "rest" => mode \in {"start", "recover"}
    /\ at = "announce" => mode = None /\ reader[match] # "running" /\ ~Flagged(match)
    /\ at \in {"rest", "apply", "save", "publish", "applied"} /\ mode # "event" => Quiet(match)
    /\ \A m \in Matches : /\ state[m] = None => Quiet(m)
                          /\ Flagged(m) => reader[m] = "ended"
                          /\ m \in todo => IF at = "subscribe" \/ mode = "start"
                                           THEN state[m] = None ELSE state[m] # None

\* No content to come is older than c.
NothingOlder(m, c) ==
    /\ c \in Nat /\ c <= upstream[m]
    /\ \A i \in DOMAIN queue[m] : c <= queue[m][i]
    /\ pending[m] # None => c <= pending[m]
    /\ InTransit(m) => c <= candidate

ShownIsOld ==
    \A m \in Matches :
        /\ hot[m] # None => IsSnapshot(hot[m]) /\ NothingOlder(m, hot[m].content)
        /\ stored[m] # None =>
               /\ IsSnapshot(stored[m])
               /\ HasMetadata(stored[m]) \/ NothingOlder(m, stored[m].content)
        /\ apiMatch = m /\ apiAt \in {"upgrade", "publish"} =>
               NothingOlder(m, apiNew.content)

ForwardInv ==
    ForwardTypeOK /\ (\A m \in Matches : InOrder(m)) /\ UnreadAreQuiet /\ ShownIsOld

LEMMA ForwardStart == ASSUME Init PROVE ForwardInv
<1> USE DEF Init, NoCycle, NoSubscriptions
<1>1. ForwardTypeOK
  BY DEF ForwardTypeOK, Between
<1>2. \A m \in Matches : InOrder(m)
  BY DEF InOrder, InTransit
<1>3. UnreadAreQuiet
  BY DEF UnreadAreQuiet, Quiet, Flagged, Between
<1>4. ShownIsOld
  BY DEF ShownIsOld
<1> QED BY <1>1, <1>2, <1>3, <1>4 DEF ForwardInv

\* A step that adds nothing to what is to come
LEMMA NothingIsAdded ==
    ASSUME NEW m, InOrder(m), upstream'[m] = upstream[m],
           queue'[m] = queue[m] \/ queue'[m] = <<>>,
           pending'[m] = pending[m] \/ pending'[m] = None,
           InTransit(m)' => InTransit(m) /\ candidate' = candidate
    PROVE  InOrder(m)' /\ \A c : NothingOlder(m, c) => NothingOlder(m, c)'
<1> DEFINE inTransit == InTransit(m)
           later == InTransit(m)'
<1>1. later => inTransit /\ candidate' = candidate
  OBVIOUS
<1>2. DOMAIN queue'[m] \subseteq DOMAIN queue[m] /\ \A i \in DOMAIN queue'[m] : queue'[m][i] = queue[m][i]
  OBVIOUS
<1> HIDE DEF inTransit, later
<1>3. InOrder(m)'
  <2>1. upstream[m] \in Nat /\ queue[m] \in Seq(Nat) /\ <<>> \in Seq(Nat)
    BY DEF InOrder
  <2>2. queue'[m] \in Seq(Nat)
    BY <2>1
  <2>3. pending'[m] # None => pending'[m] = pending[m]
    OBVIOUS
  <2> QED BY <1>1, <1>2, <2>1, <2>2, <2>3 DEF InOrder, inTransit, later
<1>4. ASSUME NEW c, NothingOlder(m, c) PROVE NothingOlder(m, c)'
  BY <1>1, <1>2, <1>4 DEF NothingOlder, inTransit, later
<1> QED BY <1>3, <1>4
\* What is to come of a match stays in order, and nothing older is added.
Kept(m) == InOrder(m)' /\ \A c : NothingOlder(m, c) => NothingOlder(m, c)'

LEMMA ForwardQueues ==
    ASSUME ForwardInv, [Next]_vars, NEW m \in Matches
    PROVE  Kept(m)
<1> USE DEF subVars, cycleVars, worldVars, apiVars
<1> DEFINE Adds == ~(/\ upstream'[m] = upstream[m]
                     /\ queue'[m] = queue[m] \/ queue'[m] = <<>>
                     /\ pending'[m] = pending[m] \/ pending'[m] = None
                     /\ (InTransit(m)' => InTransit(m) /\ candidate' = candidate))
<1>0. InOrder(m)
  BY DEF ForwardInv
<1>1. CASE ~Adds
  BY <1>0, <1>1, NothingIsAdded DEF Kept
<1>2. ASSUME NEW x \in Matches, ViewersChange(x) \/ Break(x) \/ RetryIsDue(x) \/ ApiRead(x)
      PROVE  ~Adds
  BY <1>2 DEF ViewersChange, Break, RetryIsDue, ApiRead, InTransit
<1>3. ASSUME NEW x \in Matches, Advance(x) PROVE Kept(m)
  <2>1. CASE x = m /\ reader[m] = "running"
    <3>1. /\ upstream'[m] = upstream[m] + 1 /\ queue'[m] = Append(queue[m], upstream[m] + 1)
          /\ pending'[m] = pending[m] /\ candidate' = candidate /\ at' = at /\ match' = match
      BY <1>3, <2>1 DEF Advance, ForwardInv, ForwardTypeOK
    <3>2. /\ upstream[m] \in Nat /\ queue[m] \in Seq(Nat) /\ queue'[m] \in Seq(Nat)
          /\ \A i \in DOMAIN queue'[m] :
                (i \in DOMAIN queue[m] /\ queue'[m][i] = queue[m][i])
                    \/ (i = Len(queue[m]) + 1 /\ queue'[m][i] = upstream[m] + 1)
          /\ Len(queue[m]) \in Nat /\ DOMAIN queue[m] = 1..Len(queue[m])
      BY <1>0, <3>1 DEF InOrder
    <3>3. InOrder(m)'
      <4>1. \A i \in DOMAIN queue'[m] : queue'[m][i] <= upstream'[m]
        BY <1>0, <3>1, <3>2 DEF InOrder
      <4>2. \A i, j \in DOMAIN queue'[m] : i < j => queue'[m][i] <= queue'[m][j]
        BY <1>0, <3>1, <3>2 DEF InOrder
      <4>3. pending'[m] # None =>
                /\ pending'[m] \in Nat /\ pending'[m] <= upstream'[m]
                /\ \A i \in DOMAIN queue'[m] : pending'[m] <= queue'[m][i]
        BY <1>0, <3>1, <3>2 DEF InOrder
      <4>4. InTransit(m)' =>
                /\ candidate' \in Nat /\ candidate' <= upstream'[m] /\ pending'[m] = None
                /\ \A i \in DOMAIN queue'[m] : candidate' <= queue'[m][i]
        BY <1>0, <3>1, <3>2 DEF InOrder, InTransit
      <4>5. upstream'[m] \in Nat
        BY <3>1, <3>2
      <4> QED BY <3>2, <4>1, <4>2, <4>3, <4>4, <4>5 DEF InOrder
    <3>4. ASSUME NEW c, NothingOlder(m, c) PROVE NothingOlder(m, c)'
      BY <3>1, <3>2, <3>4 DEF NothingOlder, InTransit
    <3> QED BY <3>3, <3>4 DEF Kept
  <2>2. CASE x = m /\ reader[m] # "running"
    <3>1. /\ upstream'[m] = upstream[m] + 1 /\ queue'[m] = queue[m]
          /\ pending'[m] = pending[m] /\ candidate' = candidate /\ at' = at /\ match' = match
      BY <1>3, <2>2 DEF Advance, ForwardInv, ForwardTypeOK
    <3>2. InOrder(m)'
      BY <1>0, <3>1 DEF InOrder, InTransit
    <3>3. \A c : NothingOlder(m, c) => NothingOlder(m, c)'
      BY <1>0, <3>1 DEF NothingOlder, InOrder, InTransit
    <3> QED BY <3>2, <3>3 DEF Kept
  <2>3. CASE x # m
    <3>1. ~Adds
      BY <1>3, <2>3 DEF Advance, ForwardInv, ForwardTypeOK, InTransit
    <3> QED BY <1>1, <3>1
  <2> QED BY <2>1, <2>2, <2>3
<1>4. CASE Begin
  <2>1. UNCHANGED upstream /\ at' = "subscribe" /\ \E M : Close(M)
    BY <1>4 DEF Begin
  <2>2. ~Adds
    BY <2>1 DEF Close, InTransit
  <2> QED BY <1>1, <2>2
<1>5. CASE EndSubscribing \/ EndCycle \/ Pumped \/ AnnounceLive \/ Started
  <2>1. ~Adds
    BY <1>5 DEF EndSubscribing, EndCycle, Pumped, AnnounceLive, Started, BackTo, InTransit
  <2> QED BY <1>1, <2>1
<1>6. ASSUME NEW x \in Matches,
             Subscribe(x) \/ SkipSubscription(x) \/ DetectLoss(x) \/ StartPumping(x)
      PROVE  ~Adds
  BY <1>6 DEF Subscribe, SkipSubscription, DetectLoss, StartPumping, InTransit
<1>7. CASE Announce
  <2>1. ~Adds
    BY <1>7 DEF Announce, QueueAfterLoss, InTransit, ForwardInv, ForwardTypeOK
  <2> QED BY <1>1, <2>1
<1>8. CASE Take
  <2>1. CASE m = match
    <3>1. /\ upstream'[m] = upstream[m] /\ pending'[m] = None /\ match' = match
          /\ at = "drain"
          /\ \/ /\ pending[m] = None /\ queue[m] # <<>> /\ queue'[m] = Tail(queue[m])
                /\ (at' = "apply" /\ candidate' = Head(queue[m])) \/ at' = "drain"
             \/ /\ pending[m] # None /\ queue'[m] = queue[m]
                /\ (at' = "apply" /\ candidate' = pending[m]) \/ at' = "drain"
      BY <1>8, <2>1 DEF Take, ForwardInv, ForwardTypeOK
    <3>2. CASE pending[m] # None
      <4>1. InOrder(m)'
        BY <1>0, <3>1, <3>2 DEF InOrder, InTransit
      <4>2. \A c : NothingOlder(m, c) => NothingOlder(m, c)'
        BY <1>0, <3>1, <3>2 DEF NothingOlder, InTransit
      <4> QED BY <4>1, <4>2 DEF Kept
    <3>3. CASE pending[m] = None
      <4> DEFINE q == queue[m]
      <4>1. q \in Seq(Nat) /\ q # <<>>
        BY <1>0, <3>1, <3>3 DEF InOrder
      <4>2. /\ Tail(q) \in Seq(Nat) /\ Head(q) = q[1] /\ 1 \in DOMAIN q /\ q[1] \in Nat
            /\ \A i \in DOMAIN Tail(q) : i + 1 \in DOMAIN q /\ Tail(q)[i] = q[i + 1]
                                         /\ 1 < i + 1 /\ i \in Nat
        BY <4>1
      <4>3. /\ \A i \in DOMAIN q : q[i] <= upstream[m]
            /\ \A i, j \in DOMAIN q : i < j => q[i] <= q[j]
            /\ upstream[m] \in Nat
        BY <1>0 DEF InOrder
      <4> HIDE DEF q
      <4>4. \A i, j \in DOMAIN Tail(q) : i < j => Tail(q)[i] <= Tail(q)[j]
        BY <4>2, <4>3
      <4>5. /\ \A i \in DOMAIN Tail(q) : Tail(q)[i] <= upstream[m]
            /\ \A i \in DOMAIN Tail(q) : q[1] <= Tail(q)[i]
        BY <4>2, <4>3
      <4>6. queue'[m] = Tail(q) /\ (InTransit(m)' => candidate' = q[1])
        BY <3>1, <3>3, <4>2 DEF InTransit, q
      <4>7. InOrder(m)'
        BY <3>1, <4>2, <4>3, <4>4, <4>5, <4>6 DEF InOrder
      <4>8. ASSUME NEW c, NothingOlder(m, c) PROVE NothingOlder(m, c)'
        <5>1. c \in Nat /\ c <= upstream[m] /\ \A i \in DOMAIN q : c <= q[i]
          BY <4>8 DEF NothingOlder, q
        <5> QED BY <3>1, <4>2, <4>6, <5>1 DEF NothingOlder
      <4> QED BY <4>7, <4>8 DEF Kept
    <3> QED BY <3>2, <3>3
  <2>2. CASE m # match
    <3>1. ~Adds
      BY <1>8, <2>2 DEF Take, ForwardInv, ForwardTypeOK, InTransit
    <3> QED BY <1>1, <3>1
  <2> QED BY <2>1, <2>2
<1>9. CASE RestReconcile
  <2>1. CASE m = match
    <3>1. /\ queue[m] = <<>> /\ pending[m] = None /\ UNCHANGED <<upstream, queue, pending>>
          /\ candidate' = upstream[m]
      BY <1>9, <2>1 DEF RestReconcile, ForwardInv, UnreadAreQuiet, Quiet
    <3>2. /\ upstream'[m] \in Nat /\ queue'[m] = <<>> /\ queue'[m] \in Seq(Nat)
          /\ DOMAIN queue'[m] = {} /\ pending'[m] = None
          /\ candidate' = upstream'[m]
      <4>1. upstream[m] \in Nat /\ queue[m] \in Seq(Nat)
        BY <1>0, Zenon DEF InOrder
      <4>2. \A s \in Seq(Nat) : s = <<>> => DOMAIN s = {}
        OBVIOUS
      <4>3. upstream' = upstream /\ queue' = queue /\ pending' = pending
        BY <3>1
      <4>4. DOMAIN queue[m] = {}
        BY <3>1, <4>1, <4>2, Zenon
      <4> QED BY <3>1, <4>1, <4>3, <4>4, Zenon
    <3>3. upstream'[m] <= upstream'[m]
      BY <3>2
    <3>4. InOrder(m)'
      BY <3>2, <3>3, Zenon DEF InOrder
    <3>5. ASSUME NEW c, NothingOlder(m, c) PROVE NothingOlder(m, c)'
      BY <3>1, <3>2, <3>5 DEF NothingOlder
    <3> QED BY <3>4, <3>5 DEF Kept
  <2>2. CASE m # match
    <3>1. ~Adds
      BY <1>9, <2>2 DEF RestReconcile, InTransit
    <3> QED BY <1>1, <3>1
  <2> QED BY <2>1, <2>2
<1>10. CASE Apply \/ Save \/ Publish \/ Recovered
  <2>1. ~Adds
    BY <1>10 DEF Apply, Save, Publish, Recovered, InTransit
  <2> QED BY <1>1, <2>1
<1>11. CASE Applied
  <2>1. ~Adds
    BY <1>11 DEF Applied, Close, BackTo, InTransit
  <2> QED BY <1>1, <2>1
<1>12. CASE RankingsUnavailable
  <2>1. CASE m = match /\ mode = "event"
    <3>1. /\ UNCHANGED <<upstream, queue>> /\ pending'[m] = candidate /\ InTransit(m)
          /\ ~InTransit(m)'
      BY <1>12, <2>1 DEF RankingsUnavailable, ForwardInv, ForwardTypeOK, BackTo, InTransit
    <3>2. InOrder(m)'
      BY <1>0, <3>1 DEF InOrder
    <3>3. \A c : NothingOlder(m, c) => NothingOlder(m, c)'
      BY <3>1 DEF NothingOlder
    <3> QED BY <3>2, <3>3 DEF Kept
  <2>2. CASE mode # "event"
    <3>1. ~Adds
      BY <1>12, <2>2 DEF RankingsUnavailable, Close, BackTo, InTransit
    <3> QED BY <1>1, <3>1
  <2>3. CASE m # match /\ mode = "event"
    <3>1. ~Adds
      BY <1>12, <2>3 DEF RankingsUnavailable, BackTo, InTransit, ForwardInv, ForwardTypeOK
    <3> QED BY <1>1, <3>1
  <2> QED BY <2>1, <2>2, <2>3
<1>13. CASE CycleFails
  <2>1. ~Adds
    BY <1>13 DEF CycleFails, BackTo, InTransit
  <2> QED BY <1>1, <2>1
<1>14. CASE Crash
  <2>1. ~Adds
    BY <1>14 DEF Crash, Close, BackTo, InTransit
  <2> QED BY <1>1, <2>1
<1>15. CASE ApiSave \/ ApiPublish \/ ApiFails \/ UNCHANGED vars
  <2>1. ~Adds
    BY <1>15 DEF ApiSave, ApiPublish, ApiFails, vars, InTransit
  <2> QED BY <1>1, <2>1
<1> QED
  BY <1>1, <1>2, <1>3, <1>4, <1>5, <1>6, <1>7, <1>8, <1>9, <1>10, <1>11, <1>12, <1>13, <1>14,
     <1>15
  DEF Next, World, Progress

\* The types the queues and snapshots keep
LEMMA ForwardTypes == ASSUME ForwardInv, [Next]_vars PROVE ForwardTypeOK'
<1> USE DEF subVars, cycleVars, worldVars, apiVars, Between
<1> DEFINE Worker == /\ upstream' = [m \in Matches |-> upstream'[m]]
                     /\ queue' = [m \in Matches |-> queue'[m]]
                     /\ pending' = [m \in Matches |-> pending'[m]]
                     /\ state' = [m \in Matches |-> state'[m]]
                     /\ reader' = [m \in Matches |-> reader'[m]]
                     /\ lost' = [m \in Matches |-> lost'[m]]
                     /\ stored' = [m \in Matches |-> stored'[m]]
                     /\ hot' = [m \in Matches |-> hot'[m]]
                     /\ at' \notin Between => match' \in Matches
                     /\ at' \in {"save", "publish"} =>
                            IsSnapshot(new') /\ new'.content = candidate'
           Page == /\ apiAt' # "idle" => apiMatch' \in Matches /\ IsSnapshot(apiNew')
                   /\ apiAt' \in {"create", "upgrade"} => HasMetadata(apiNew')
<1>1. Worker /\ Page => ForwardTypeOK'
  BY DEF ForwardTypeOK
<1>2. ForwardTypeOK
  BY DEF ForwardInv
<1>3. CASE UNCHANGED apiVars
  <2>1. Page
    BY <1>2, <1>3 DEF ForwardTypeOK
  <2> HIDE DEF Page
  <2> SUFFICES Worker
    BY <1>1, <2>1
  <2>2. ASSUME NEW m \in Matches, ViewersChange(m) \/ Advance(m) \/ Break(m) \/ RetryIsDue(m)
        PROVE  Worker
    BY <1>2, <2>2 DEF ViewersChange, Advance, Break, RetryIsDue, ForwardTypeOK
  <2>3. CASE Begin \/ EndSubscribing \/ EndCycle \/ Announce \/ RestReconcile
    BY <1>2, <2>3 DEF Begin, Close, BackTo, EndSubscribing, EndCycle, Announce, RestReconcile,
       ForwardTypeOK
  <2>4. CASE Apply
    <3>1. Reduction = [version |-> Reduction.version, content |-> candidate,
                       metadata |-> Reduction.metadata]
      BY DEF Reduction
    <3> QED BY <1>2, <2>4, <3>1 DEF Apply, ForwardTypeOK, IsSnapshot
  <2>5. CASE Save \/ Publish \/ Started \/ Recovered \/ AnnounceLive
    BY <1>2, <2>5 DEF Save, Publish, Started, Recovered, AnnounceLive, BackTo, ForwardTypeOK
  <2>6. CASE Applied \/ Take \/ Pumped \/ RankingsUnavailable
    BY <1>2, <2>6 DEF Applied, Take, Pumped, RankingsUnavailable, Close, BackTo, ForwardTypeOK
  <2>7. ASSUME NEW m \in Matches,
               Subscribe(m) \/ SkipSubscription(m) \/ DetectLoss(m) \/ StartPumping(m)
        PROVE  Worker
    BY <1>2, <2>7 DEF Subscribe, SkipSubscription, DetectLoss, StartPumping, ForwardTypeOK
  <2>8. CASE CycleFails \/ Crash
    BY <1>2, <2>8 DEF CycleFails, Crash, Close, BackTo, ForwardTypeOK
  <2>9. CASE ApiFails \/ ApiSave \/ ApiPublish
    BY <1>2, <2>9 DEF ApiFails, ApiSave, ApiPublish, ForwardTypeOK
  <2>10. CASE UNCHANGED vars
    BY <1>2, <2>10 DEF vars, ForwardTypeOK
  <2>11. ASSUME NEW m \in Matches, ApiRead(m) PROVE Worker
    BY <1>2, <2>11 DEF ApiRead, ForwardTypeOK
  <2> QED
    BY <2>2, <2>3, <2>4, <2>5, <2>6, <2>7, <2>8, <2>9, <2>10, <2>11 DEF Next, World, Progress
<1>4. ASSUME NEW m \in Matches, ApiRead(m) PROVE ForwardTypeOK'
  <2>1. Worker
    BY <1>2, <1>4 DEF ApiRead, ForwardTypeOK
  <2> HIDE DEF Worker
  <2>2. /\ hot[m] # None => IsSnapshot(hot[m])
        /\ stored[m] # None => IsSnapshot(stored[m])
    BY DEF ForwardInv, ShownIsOld
  <2>3. /\ apiMatch' = m
        /\ apiNew' = [version |-> apiNew'.version, content |-> apiNew'.content, metadata |-> TRUE]
    <3>1. /\ apiMatch' = m
          /\ \E v, c : apiNew' = [version |-> v, content |-> c, metadata |-> TRUE]
      BY <1>4, Zenon DEF ApiRead
    <3>2. PICK v, c : apiNew' = [version |-> v, content |-> c, metadata |-> TRUE]
      BY <3>1
    <3>3. apiNew'.version = v /\ apiNew'.content = c
      BY <3>2
    <3> QED BY <3>1, <3>2, <3>3
  <2>4. IsSnapshot(apiNew') /\ apiNew'.metadata
    BY <2>3 DEF IsSnapshot
  <2>5. HasMetadata(apiNew')
    BY <2>4, Zenon DEF HasMetadata
  <2> QED BY <1>1, <2>1, <2>3, <2>4, <2>5
<1>5. CASE ApiSave \/ ApiPublish \/ ApiFails
  <2>1. Worker
    BY <1>2, <1>5 DEF ApiSave, ApiPublish, ApiFails, ForwardTypeOK
  <2>2. Page
    BY <1>2, <1>5 DEF ApiSave, ApiPublish, ApiFails, ApiDone, ForwardTypeOK
  <2> QED BY <1>1, <2>1, <2>2
<1>6. Next => UNCHANGED apiVars \/ (\E m \in Matches : ApiRead(m)) \/ ApiSave \/ ApiPublish \/ ApiFails
  <2>1. ASSUME NEW m \in Matches,
               \/ ViewersChange(m) \/ Advance(m) \/ Break(m) \/ RetryIsDue(m)
               \/ Subscribe(m) \/ SkipSubscription(m) \/ DetectLoss(m) \/ StartPumping(m)
        PROVE  UNCHANGED apiVars
    BY <2>1 DEF ViewersChange, Advance, Break, RetryIsDue, Subscribe, SkipSubscription,
       DetectLoss, StartPumping
  <2>2. CASE Begin \/ EndSubscribing \/ EndCycle \/ Announce \/ RestReconcile \/ Apply \/ Save
    BY <2>2 DEF Begin, EndSubscribing, EndCycle, Announce, RestReconcile, Apply, Save
  <2>3. CASE Publish \/ Started \/ Recovered \/ AnnounceLive \/ Applied \/ Take \/ Pumped
             \/ RankingsUnavailable \/ CycleFails \/ Crash
    BY <2>3 DEF Publish, Started, Recovered, AnnounceLive, Applied, Take, Pumped,
       RankingsUnavailable, CycleFails, Crash
  <2> QED BY <2>1, <2>2, <2>3 DEF Next, World, Progress
<1> QED BY <1>3, <1>4, <1>5, <1>6 DEF vars

\* Nothing is queued of a match that is closed.
LEMMA ClosedAreQuiet ==
    ASSUME NEW M \in SUBSET Matches, Close(M), NEW m \in Matches
    PROVE  /\ m \in M => state'[m] = None /\ Quiet(m)'
           /\ m \notin M => /\ state'[m] = state[m] /\ reader'[m] = reader[m]
                            /\ lost'[m] = lost[m] /\ queue'[m] = queue[m]
                            /\ pending'[m] = pending[m]
<1>1. /\ m \in M => /\ state'[m] = None /\ reader'[m] = "none" /\ lost'[m] = FALSE
                    /\ queue'[m] = <<>> /\ pending'[m] = None
      /\ m \notin M => /\ state'[m] = state[m] /\ reader'[m] = reader[m]
                       /\ lost'[m] = lost[m] /\ queue'[m] = queue[m]
                       /\ pending'[m] = pending[m]
  BY DEF Close
<1>2. "none" # "running"
  OBVIOUS
<1> QED BY <1>1, <1>2, Zenon DEF Quiet, Flagged

LEMMA QuietOn ==
    ASSUME NEW m, lost'[m] = lost[m]
    PROVE  /\ Flagged(m)' <=> Flagged(m)
           /\ /\ reader'[m] = reader[m] \/ reader'[m] # "running"
              /\ queue'[m] = queue[m] /\ pending'[m] = pending[m]
              => (Quiet(m) => Quiet(m)')
<1>1. Flagged(m)' <=> Flagged(m)
  BY Zenon DEF Flagged
<1> QED BY <1>1, Zenon DEF Quiet

LEMMA ForwardQuiet == ASSUME ForwardInv, [Next]_vars PROVE UnreadAreQuiet'
<1> USE DEF subVars, cycleVars, worldVars, apiVars
<1>0. ForwardTypeOK /\ UnreadAreQuiet
  BY DEF ForwardInv
<1>a. None \notin {"live", "reconnecting", "start", "recover", "event"}
  BY RealtimeAssumption
<1>1. ASSUME UNCHANGED <<state, reader, lost, queue, pending, at, match, mode, todo>>
      PROVE  UnreadAreQuiet'
  <2>1. \A m : (Flagged(m)' <=> Flagged(m)) /\ (Quiet(m) => Quiet(m)')
    BY <1>1, QuietOn
  <2> QED BY <1>0, <1>1, <2>1 DEF UnreadAreQuiet
<1>2. CASE \/ ApiSave \/ ApiPublish \/ ApiFails \/ UNCHANGED vars
           \/ \E m \in Matches : ViewersChange(m) \/ RetryIsDue(m) \/ ApiRead(m)
  <2>1. UNCHANGED <<state, reader, lost, queue, pending, at, match, mode, todo>>
    BY <1>2 DEF ApiSave, ApiPublish, ApiFails, ViewersChange, RetryIsDue, ApiRead, vars
  <2> QED BY <1>1, <2>1
<1>3. ASSUME NEW x \in Matches, Advance(x) PROVE UnreadAreQuiet'
  <2>1. /\ UNCHANGED <<state, reader, lost, pending, at, match, mode, todo>>
        /\ \A m \in Matches : reader[m] # "running" => queue'[m] = queue[m]
    BY <1>0, <1>3 DEF Advance, ForwardTypeOK
  <2>2. \A m \in Matches : (Flagged(m)' <=> Flagged(m)) /\ (Quiet(m) => Quiet(m)')
    <3>1. ASSUME NEW m \in Matches
          PROVE  (Flagged(m)' <=> Flagged(m)) /\ (Quiet(m) => Quiet(m)')
      <4>1. Quiet(m) => reader[m] # "running"
        BY Zenon DEF Quiet
      <4> QED BY <2>1, <4>1, QuietOn
    <3> QED BY <3>1
  <2>3. at \notin Between => match \in Matches
    BY <1>0 DEF ForwardTypeOK
  <2> QED BY <1>0, <2>1, <2>2, <2>3 DEF UnreadAreQuiet, Between
<1>4. ASSUME NEW x \in Matches, Break(x) PROVE UnreadAreQuiet'
  <2>1. /\ UNCHANGED <<state, queue, pending, at, match, mode, todo>>
        /\ reader[x] = "running" /\ reader'[x] = "ended"
        /\ \A m \in Matches : m # x => reader'[m] = reader[m] /\ lost'[m] = lost[m]
    BY <1>0, <1>4 DEF Break, ForwardTypeOK
  <2>2. ASSUME NEW m \in Matches, m # x
        PROVE  (Flagged(m)' <=> Flagged(m)) /\ (Quiet(m) => Quiet(m)')
    BY <2>1, <2>2, QuietOn
  <2>3. ~Quiet(x)
    BY <2>1, Zenon DEF Quiet
  <2>4. at \notin Between => match \in Matches
    BY <1>0 DEF ForwardTypeOK
  <2> QED BY <1>0, <2>1, <2>2, <2>3, <2>4 DEF UnreadAreQuiet, Between
<1>5. CASE Begin
  <2> DEFINE kept == {m \in Subscribed : Demand(m) # "none"}
  <2>1. /\ Close(Subscribed \ kept) /\ at = "idle" /\ at' = "subscribe"
        /\ todo' \subseteq Matches \ kept /\ mode' = mode
    BY <1>5 DEF Begin
  <2>2. Subscribed \ kept \in SUBSET Matches
    BY DEF Subscribed
  <2>3. \A m \in todo' : m \in Matches /\ (m \in Subscribed \ kept \/ state[m] = None)
    BY <2>1 DEF Subscribed
  <2> HIDE DEF kept
  <2> DEFINE M == Subscribed \ kept
  <2>4. M \in SUBSET Matches /\ Close(M) /\ \A m \in todo' : m \in Matches /\ (m \in M \/ state[m] = None)
    BY <2>1, <2>2, <2>3
  <2> HIDE DEF M
  <2>5. ASSUME NEW m \in Matches
        PROVE  /\ m \in M => state'[m] = None /\ Quiet(m)'
               /\ m \notin M => /\ state'[m] = state[m] /\ reader'[m] = reader[m]
                                /\ Flagged(m)' <=> Flagged(m)
                                /\ Quiet(m) => Quiet(m)'
    BY <2>4, ClosedAreQuiet, QuietOn
  <2>6. \A m : Quiet(m)' => ~Flagged(m)'
    BY Zenon DEF Quiet
  <2> QED BY <1>0, <2>1, <2>4, <2>5, <2>6 DEF UnreadAreQuiet, Between
<1>6. ASSUME NEW x \in Matches, Subscribe(x) PROVE UnreadAreQuiet'
  <2>1. /\ UNCHANGED <<reader, lost, queue, pending>> /\ x \in todo /\ todo' = todo \ {x}
        /\ at = "subscribe" /\ at' = "rest" /\ match' = x /\ mode' = "start"
        /\ state'[x] = "live" /\ \A m \in Matches : m # x => state'[m] = state[m]
        /\ "live" # None
    BY <1>0, <1>6, <1>a DEF Subscribe, ForwardTypeOK
  <2>2. \A m : (Flagged(m)' <=> Flagged(m)) /\ (Quiet(m) => Quiet(m)')
    BY <2>1, QuietOn
  <2>3. Quiet(x)
    BY <1>0, <2>1 DEF UnreadAreQuiet
  <2> QED BY <1>0, <2>1, <2>2, <2>3 DEF UnreadAreQuiet, Between
<1>7. CASE EndSubscribing \/ EndCycle \/ Pumped \/ AnnounceLive
           \/ \E m \in Matches : SkipSubscription(m) \/ StartPumping(m)
  <2>1. UNCHANGED <<state, reader, lost, queue, pending>>
    BY <1>7 DEF EndSubscribing, EndCycle, Pumped, AnnounceLive, SkipSubscription, StartPumping
  <2>2. \A m : (Flagged(m)' <=> Flagged(m)) /\ (Quiet(m) => Quiet(m)')
    BY <2>1, QuietOn
  <2>3. CASE EndSubscribing \/ EndCycle \/ Pumped \/ AnnounceLive
    <3>1. CASE EndSubscribing
      <4>1. at = "subscribe" /\ at' = "pump" /\ mode' = mode /\ todo' = Subscribed
        BY <3>1 DEF EndSubscribing
      <4>2. \A m \in todo' : state[m] # None
        BY <4>1 DEF Subscribed
      <4>3. mode' = None
        BY <1>0, <4>1 DEF UnreadAreQuiet, Between
      <4> QED BY <1>0, <1>a, <2>1, <2>2, <4>1, <4>2, <4>3 DEF UnreadAreQuiet, Between
    <3>2. CASE EndCycle \/ Pumped \/ AnnounceLive
      <4>1. /\ at \in {"pump", "drain", "announce_live"} /\ at' \in {"pump", "idle"}
            /\ mode' = None /\ todo' = todo
        BY <3>2 DEF EndCycle, Pumped, AnnounceLive, BackTo
      <4>2. mode # "start"
        BY <1>0, <1>a, <4>1 DEF UnreadAreQuiet, Between
      <4>3. \A m \in Matches : m \in todo => state[m] # None
        BY <1>0, <4>1, <4>2 DEF UnreadAreQuiet
      <4> QED BY <1>0, <1>a, <2>1, <2>2, <4>1, <4>3 DEF UnreadAreQuiet, Between
    <3> QED BY <2>3, <3>1, <3>2
  <2>4. ASSUME NEW x \in Matches, SkipSubscription(x) PROVE UnreadAreQuiet'
    <3>1. at = "subscribe" /\ UNCHANGED <<at, match, mode>> /\ todo' = todo \ {x}
      BY <2>4 DEF SkipSubscription
    <3> QED BY <1>0, <2>1, <2>2, <3>1 DEF UnreadAreQuiet, Between
  <2>5. ASSUME NEW x \in Matches, StartPumping(x) PROVE UnreadAreQuiet'
    <3>1. /\ at = "pump" /\ at' = "drain" /\ match' = x /\ mode' = "event" /\ x \in todo
          /\ todo' = todo \ {x}
      BY <2>5 DEF StartPumping
    <3> QED BY <1>0, <1>a, <2>1, <2>2, <3>1 DEF UnreadAreQuiet, Between
  <2> QED BY <1>7, <2>3, <2>4, <2>5
<1>8. ASSUME NEW x \in Matches, DetectLoss(x) PROVE UnreadAreQuiet'
  <2>1. /\ UNCHANGED <<reader, queue, pending>> /\ x \in todo /\ todo' = todo \ {x}
        /\ at = "pump" /\ at' = "announce" /\ match' = x /\ mode' = mode
        /\ state'[x] = "reconnecting" /\ \A m \in Matches : m # x => state'[m] = state[m]
        /\ \A m \in Matches : m # x => lost'[m] = lost[m]
    BY <1>0, <1>8 DEF DetectLoss, ForwardTypeOK
  <2>2. Flagged(x)
    BY <1>8, Zenon DEF DetectLoss, Flagged
  <2>3. ~Flagged(x)'
    <3>1. lost'[x] = FALSE
      BY <1>0, <1>8 DEF DetectLoss, ForwardTypeOK
    <3> QED BY <3>1, Zenon DEF Flagged
  <2>4. ASSUME NEW m \in Matches, m # x
        PROVE  (Flagged(m)' <=> Flagged(m)) /\ (Quiet(m) => Quiet(m)')
    BY <2>1, <2>4, QuietOn
  <2>5. reader[x] = "ended"
    BY <1>0, <2>2 DEF UnreadAreQuiet
  <2>6. mode = None
    BY <1>0, <2>1 DEF UnreadAreQuiet, Between
  <2> QED BY <1>0, <1>a, <2>1, <2>3, <2>4, <2>5, <2>6 DEF UnreadAreQuiet, Between
<1>9. CASE Announce
  <2>1. /\ UNCHANGED <<state, reader, lost, match, todo>> /\ match \in Matches
        /\ at = "announce" /\ at' = "rest" /\ mode' = "recover"
        /\ queue'[match] = <<>> /\ pending'[match] = None
        /\ \A m \in Matches : m # match => queue'[m] = queue[m] /\ pending'[m] = pending[m]
    BY <1>0, <1>9 DEF Announce, QueueAfterLoss, ForwardTypeOK, Between
  <2>2. \A m : Flagged(m)' <=> Flagged(m)
    BY <2>1, QuietOn
  <2>3. \A m \in Matches : m # match => (Quiet(m) => Quiet(m)')
    BY <2>1, QuietOn
  <2>4. reader[match] # "running" /\ ~Flagged(match) /\ mode = None
    BY <1>0, <2>1 DEF UnreadAreQuiet
  <2>5. Quiet(match)'
    BY <2>1, <2>2, <2>4, Zenon DEF Quiet
  <2> QED BY <1>0, <1>a, <2>1, <2>2, <2>3, <2>4, <2>5 DEF UnreadAreQuiet, Between
<1>10. CASE Take
  <2>1. /\ UNCHANGED <<state, reader, lost, match, mode, todo>> /\ match \in Matches
        /\ at = "drain" /\ at' \in {"drain", "apply"}
        /\ \A m \in Matches : m # match => queue'[m] = queue[m] /\ pending'[m] = pending[m]
        /\ pending[match] # None \/ queue[match] # <<>>
    BY <1>0, <1>10 DEF Take, ForwardTypeOK, Between
  <2>2. ~Quiet(match)
    BY <2>1, Zenon DEF Quiet
  <2>3. ASSUME NEW m \in Matches
        PROVE  (Flagged(m)' <=> Flagged(m)) /\ (Quiet(m) => Quiet(m)')
    BY <2>1, <2>2, QuietOn
  <2> QED BY <1>0, <1>a, <2>1, <2>3 DEF UnreadAreQuiet, Between
<1>11. CASE RestReconcile \/ Apply \/ Save \/ Publish
  <2>1. /\ UNCHANGED <<state, reader, lost, queue, pending, match, mode, todo>>
        /\ at \in {"rest", "apply", "save", "publish"}
        /\ at' \in {"apply", "save", "publish", "applied"}
    BY <1>11 DEF RestReconcile, Apply, Save, Publish
  <2>2. \A m : (Flagged(m)' <=> Flagged(m)) /\ (Quiet(m) => Quiet(m)')
    BY <2>1, QuietOn
  <2> QED BY <1>0, <2>1, <2>2 DEF UnreadAreQuiet, Between
<1>12. CASE Started \/ Recovered
  <2>1. /\ UNCHANGED <<lost, queue, pending, todo>> /\ match \in Matches
        /\ at = "applied" /\ reader'[match] = "running"
        /\ \A m \in Matches : m # match => reader'[m] = reader[m]
        /\ \/ mode = "start" /\ at' = "subscribe" /\ mode' = None /\ state' = state
           \/ /\ mode = "recover" /\ at' = "announce_live" /\ mode' = mode /\ match' = match
              /\ state'[match] = "live" /\ \A m \in Matches : m # match => state'[m] = state[m]
    BY <1>0, <1>12 DEF Started, Recovered, BackTo, ForwardTypeOK, Between
  <2>2. ASSUME NEW m \in Matches, m # match
        PROVE  (Flagged(m)' <=> Flagged(m)) /\ (Quiet(m) => Quiet(m)')
    BY <2>1, <2>2, QuietOn
  <2>3. Quiet(match) /\ (Quiet(match) => ~Flagged(match))
    BY <1>0, <2>1, Zenon DEF UnreadAreQuiet, Quiet
  <2>4. \A m : Flagged(m)' <=> Flagged(m)
    BY <2>1, QuietOn
  <2>5. state[match] # None /\ match \notin todo
    BY <1>0, <2>1 DEF UnreadAreQuiet, Between
  <2> QED BY <1>0, <1>a, <2>1, <2>2, <2>3, <2>4, <2>5 DEF UnreadAreQuiet, Between
<1>13. ASSUME Close({match}), match \in Matches, at \notin Between, todo' = todo,
              mode' = None, at' = IF mode = "start" THEN "subscribe" ELSE "pump"
       PROVE  UnreadAreQuiet'
  <2>1. ASSUME NEW m \in Matches
        PROVE  /\ m = match => state'[m] = None /\ Quiet(m)' /\ ~Flagged(m)'
               /\ m # match => /\ state'[m] = state[m] /\ reader'[m] = reader[m]
                               /\ Flagged(m)' <=> Flagged(m)
                               /\ Quiet(m) => Quiet(m)'
    <3>1. Quiet(m)' => ~Flagged(m)'
      BY Zenon DEF Quiet
    <3> QED BY <1>13, <3>1, ClosedAreQuiet, QuietOn
  <2>2. match \notin todo
    BY <1>0, <1>13 DEF UnreadAreQuiet
  <2> QED BY <1>0, <1>a, <1>13, <2>1, <2>2 DEF UnreadAreQuiet, Between
<1>14. CASE Applied
  <2>1. CASE candidate = Final[match]
    <3>1. /\ Close({match}) /\ at = "applied" /\ todo' = todo /\ mode' = None
          /\ mode = "event" /\ at' = "pump"
      BY <1>14, <2>1 DEF Applied, BackTo
    <3> QED BY <1>0, <1>13, <3>1 DEF ForwardTypeOK, Between
  <2>2. CASE candidate # Final[match]
    <3>1. /\ UNCHANGED <<state, reader, lost, queue, pending, match, mode, todo>>
          /\ at = "applied" /\ mode = "event" /\ at' = "drain"
      BY <1>14, <2>2 DEF Applied
    <3>2. \A m : (Flagged(m)' <=> Flagged(m)) /\ (Quiet(m) => Quiet(m)')
      BY <3>1, QuietOn
    <3> QED BY <1>0, <1>a, <3>1, <3>2 DEF UnreadAreQuiet, Between
  <2> QED BY <2>1, <2>2
<1>15. CASE RankingsUnavailable
  <2>1. CASE mode = "event"
    <3>1. /\ UNCHANGED <<state, reader, lost, queue, todo>> /\ match \in Matches
          /\ at = "apply" /\ mode' = None /\ at' = "pump"
          /\ \A m \in Matches : m # match => pending'[m] = pending[m]
      BY <1>0, <1>15, <2>1 DEF RankingsUnavailable, BackTo, ForwardTypeOK, Between
    <3>2. \A m : Flagged(m)' <=> Flagged(m)
      BY <3>1, QuietOn
    <3>3. \A m \in Matches : m # match => (Quiet(m) => Quiet(m)')
      BY <3>1, QuietOn
    <3>4. state[match] # None
      BY <1>0, <3>1 DEF UnreadAreQuiet, Between
    <3> QED BY <1>0, <1>a, <2>1, <3>1, <3>2, <3>3, <3>4 DEF UnreadAreQuiet, Between
  <2>2. CASE mode # "event"
    <3>1. /\ Close({match}) /\ at = "apply" /\ todo' = todo /\ mode' = None
          /\ at' = IF mode = "start" THEN "subscribe" ELSE "pump"
      BY <1>15, <2>2 DEF RankingsUnavailable, BackTo
    <3> QED BY <1>0, <1>13, <3>1 DEF ForwardTypeOK, Between
  <2> QED BY <2>1, <2>2
<1>16. CASE CycleFails
  <2>1. /\ UNCHANGED <<state, reader, lost, queue, pending>> /\ at' = "idle" /\ todo' = {}
        /\ mode' = None
    BY <1>16 DEF CycleFails, BackTo
  <2>2. \A m : (Flagged(m)' <=> Flagged(m)) /\ (Quiet(m) => Quiet(m)')
    BY <2>1, QuietOn
  <2> QED BY <1>0, <1>a, <2>1, <2>2 DEF UnreadAreQuiet, Between
<1>17. CASE Crash
  <2>1. Close(Matches) /\ at' = "idle" /\ todo' = {} /\ mode' = None
    BY <1>17 DEF Crash, BackTo
  <2>2. \A m \in Matches : state'[m] = None /\ Quiet(m)' /\ ~Flagged(m)'
    <3>1. \A m : Quiet(m)' => ~Flagged(m)'
      BY Zenon DEF Quiet
    <3> QED BY <2>1, <3>1, ClosedAreQuiet
  <2> QED BY <2>1, <2>2 DEF UnreadAreQuiet, Between
<1> QED
  BY <1>2, <1>3, <1>4, <1>5, <1>6, <1>7, <1>8, <1>9, <1>10, <1>11, <1>12, <1>14, <1>15, <1>16,
     <1>17
  DEF Next, World, Progress

\* What was shown stays older than what comes.
LEMMA ForwardShown == ASSUME ForwardInv, [Next]_vars PROVE ShownIsOld'
<1> USE DEF subVars, cycleVars, worldVars
<1>0. /\ ForwardTypeOK /\ ShownIsOld /\ (\A m \in Matches : InOrder(m))
      /\ \A m \in Matches : \A c : NothingOlder(m, c) => NothingOlder(m, c)'
  BY ForwardQueues DEF ForwardInv, Kept
<1>1. CASE UNCHANGED <<hot, stored, apiAt, apiMatch, apiNew>>
  BY <1>0, <1>1 DEF ShownIsOld
<1>2. ASSUME NEW m \in Matches,
             \/ ViewersChange(m) \/ Advance(m) \/ Break(m) \/ RetryIsDue(m)
             \/ Subscribe(m) \/ SkipSubscription(m) \/ DetectLoss(m) \/ StartPumping(m)
      PROVE  UNCHANGED <<hot, stored, apiAt, apiMatch, apiNew>>
  BY <1>2 DEF ViewersChange, Advance, Break, RetryIsDue, Subscribe, SkipSubscription,
     DetectLoss, StartPumping, apiVars
<1>3. CASE Begin \/ EndSubscribing \/ EndCycle \/ Announce \/ RestReconcile \/ Apply
           \/ Started \/ Recovered \/ AnnounceLive \/ Applied
  <2>1. UNCHANGED <<hot, stored, apiAt, apiMatch, apiNew>>
    BY <1>3 DEF Begin, EndSubscribing, EndCycle, Announce, RestReconcile, Apply, Started,
       Recovered, AnnounceLive, Applied, apiVars
  <2> QED BY <1>1, <2>1
<1>4. CASE Take \/ Pumped \/ RankingsUnavailable \/ Crash \/ UNCHANGED vars
  <2>1. UNCHANGED <<hot, stored, apiAt, apiMatch, apiNew>>
    BY <1>4 DEF Take, Pumped, RankingsUnavailable, Crash, vars, apiVars
  <2> QED BY <1>1, <2>1
<1>5. ASSUME at \in {"save", "publish"}
      PROVE  match \in Matches /\ IsSnapshot(new) /\ NothingOlder(match, new.content)
  <2>1. match \in Matches /\ IsSnapshot(new) /\ new.content = candidate
    BY <1>0, <1>5 DEF ForwardTypeOK, Between
  <2>2. InTransit(match)
    BY <1>5 DEF InTransit
  <2>3. /\ candidate \in Nat /\ candidate <= upstream[match] /\ pending[match] = None
        /\ \A i \in DOMAIN queue[match] : candidate <= queue[match][i]
    BY <1>0, <2>1, <2>2, Zenon DEF InOrder
  <2>4. candidate <= candidate
    BY <2>3
  <2>5. NothingOlder(match, candidate)
    BY <2>3, <2>4, Zenon DEF NothingOlder
  <2> QED BY <2>1, <2>5
<1>6. ASSUME at = "save", stored' = [stored EXCEPT ![match] = new],
             UNCHANGED <<hot, apiAt, apiMatch, apiNew>>
      PROVE  ShownIsOld'
  <2>1. \A m \in Matches : stored'[m] = IF m = match THEN new ELSE stored[m]
    BY <1>0, <1>6 DEF ForwardTypeOK
  <2> QED BY <1>0, <1>5, <1>6, <2>1 DEF ShownIsOld
<1>7. CASE Save
  <2>1. UNCHANGED <<hot, apiAt, apiMatch, apiNew>>
    BY <1>7 DEF Save, apiVars
  <2> QED BY <1>6, <1>7, <2>1 DEF Save
<1>8. CASE CycleFails
  <2>1. UNCHANGED <<hot, apiAt, apiMatch, apiNew>>
    BY <1>8 DEF CycleFails, apiVars
  <2> QED BY <1>1, <1>6, <1>8, <2>1 DEF CycleFails
<1>9. CASE Publish
  <2>1. /\ UNCHANGED <<stored, apiAt, apiMatch, apiNew>> /\ at = "publish"
        /\ \A m \in Matches : hot'[m] = IF m = match THEN new ELSE hot[m]
    BY <1>0, <1>9 DEF Publish, ForwardTypeOK, apiVars
  <2> QED BY <1>0, <1>5, <2>1 DEF ShownIsOld
<1>10. ASSUME NEW x \in Matches, ApiRead(x) PROVE ShownIsOld'
  <2>1. /\ UNCHANGED <<hot, stored>> /\ apiMatch' = x
        /\ \/ apiAt' = "create"
           \/ /\ apiAt' = "upgrade"
              /\ \E b : /\ b = IF hot[x] # None THEN hot[x] ELSE stored[x]
                        /\ b # None /\ ~HasMetadata(b) /\ apiNew'.content = b.content
    <3> DEFINE b == IF hot[x] # None THEN hot[x] ELSE stored[x]
    <3>1. /\ UNCHANGED <<hot, stored>> /\ apiMatch' = x
          /\ \/ apiAt' = "create"
             \/ /\ apiAt' = "upgrade" /\ b # None /\ ~b.metadata
                /\ apiNew' = [version |-> b.version + 1, content |-> b.content, metadata |-> TRUE]
      BY <1>10, Zenon DEF ApiRead
    <3>2. ~b.metadata => ~HasMetadata(b)
      BY Zenon DEF HasMetadata
    <3> HIDE DEF b
    <3>3. apiAt' = "upgrade" => apiNew'.content = b.content
      BY <3>1
    <3>4. b = IF hot[x] # None THEN hot[x] ELSE stored[x]
      BY DEF b
    <3> QED BY <3>1, <3>2, <3>3, <3>4, Zenon
  <2>2. apiAt' = "upgrade" => NothingOlder(x, apiNew'.content)
    <3>1. SUFFICES ASSUME NEW b, b = (IF hot[x] # None THEN hot[x] ELSE stored[x]),
                          b # None, ~HasMetadata(b), apiNew'.content = b.content
                   PROVE  NothingOlder(x, b.content)
      BY <2>1
    <3> QED BY <1>0, <3>1 DEF ShownIsOld
  <2> QED BY <1>0, <2>1, <2>2 DEF ShownIsOld
<1>11. CASE ApiSave
  <2>1. /\ UNCHANGED hot /\ apiMatch \in Matches /\ IsSnapshot(apiNew) /\ HasMetadata(apiNew)
        /\ \A m \in Matches : stored'[m] = IF m = apiMatch THEN apiNew ELSE stored[m]
        /\ \/ apiAt = "create" /\ apiAt' = "idle"
           \/ apiAt = "upgrade" /\ UNCHANGED <<apiMatch, apiNew>>
    BY <1>0, <1>11 DEF ApiSave, ApiDone, ForwardTypeOK
  <2> QED BY <1>0, <2>1 DEF ShownIsOld
<1>12. CASE ApiPublish
  <2>1. /\ UNCHANGED stored /\ apiMatch \in Matches /\ IsSnapshot(apiNew) /\ apiAt = "publish"
        /\ \A m \in Matches : hot'[m] = IF m = apiMatch THEN apiNew ELSE hot[m]
        /\ apiAt' = "idle"
    BY <1>0, <1>12 DEF ApiPublish, ApiDone, ForwardTypeOK
  <2> QED BY <1>0, <2>1 DEF ShownIsOld
<1>13. CASE ApiFails
  <2>1. UNCHANGED <<hot, stored>> /\ apiAt' = "idle"
    BY <1>13 DEF ApiFails, ApiDone
  <2> QED BY <1>0, <2>1 DEF ShownIsOld
<1> QED
  BY <1>1, <1>2, <1>3, <1>4, <1>7, <1>8, <1>9, <1>10, <1>11, <1>12, <1>13
  DEF Next, World, Progress

LEMMA ForwardStep == ASSUME ForwardInv, [Next]_vars PROVE ForwardInv'
<1>1. \A m \in Matches : InOrder(m)'
  BY ForwardQueues DEF Kept
<1> QED BY <1>1, ForwardTypes, ForwardQuiet, ForwardShown DEF ForwardInv

\* What is published: by the worker nothing older than what is shown.
LEMMA WorkerGoesForward ==
    ASSUME ForwardInv, [Next]_vars, NEW m \in Matches, hot[m] # None, hot'[m] # hot[m]
    PROVE  \/ apiAt = "publish" /\ apiMatch = m
           \/ hot[m].content \in Nat /\ hot'[m].content \in Nat
              /\ hot[m].content <= hot'[m].content
<1> USE DEF subVars, cycleVars, worldVars, apiVars
<1>1. CASE Publish
  <2>1. /\ at = "publish" /\ m = match /\ hot'[m] = new /\ new.content = candidate
    BY <1>1 DEF Publish, ForwardInv, ForwardTypeOK, Between
  <2>2. InTransit(m) /\ InOrder(m) /\ NothingOlder(m, hot[m].content)
    BY <2>1 DEF InTransit, ForwardInv, ShownIsOld
  <2>3. candidate \in Nat /\ hot[m].content \in Nat /\ hot[m].content <= candidate
    BY <2>2, Zenon DEF InOrder, NothingOlder
  <2> QED BY <2>1, <2>3
<1>2. CASE ApiPublish
  BY <1>2 DEF ApiPublish, ForwardInv, ForwardTypeOK
<1>3. ASSUME NEW x \in Matches,
             \/ ViewersChange(x) \/ Advance(x) \/ Break(x) \/ RetryIsDue(x) \/ ApiRead(x)
             \/ Subscribe(x) \/ SkipSubscription(x) \/ DetectLoss(x) \/ StartPumping(x)
      PROVE  hot' = hot
  BY <1>3 DEF ViewersChange, Advance, Break, RetryIsDue, ApiRead, Subscribe, SkipSubscription,
     DetectLoss, StartPumping
<1>4. CASE Begin \/ EndSubscribing \/ EndCycle \/ Announce \/ RestReconcile \/ Apply \/ Save
           \/ Started \/ Recovered \/ AnnounceLive \/ Applied
  BY <1>4 DEF Begin, EndSubscribing, EndCycle, Announce, RestReconcile, Apply, Save, Started,
       Recovered, AnnounceLive, Applied
<1>5. CASE Take \/ Pumped \/ RankingsUnavailable \/ CycleFails \/ Crash \/ ApiSave \/ ApiFails
           \/ UNCHANGED vars
  BY <1>5 DEF Take, Pumped, RankingsUnavailable, CycleFails, Crash, ApiSave, ApiFails, vars
<1> QED BY <1>1, <1>2, <1>3, <1>4, <1>5 DEF Next, World, Progress

\* Whatever is queued, deferred for rankings, lost with a stream or saved by a
\* cycle that fails, what the worker publishes (publish_delta) shows no less
\* than what was shown; only the upgrade of resolve_match_snapshot goes back.
THEOREM OnlyPagesGoBack == Spec => OnlyTheApiGoesBack
<1> DEFINE Forward == \A m \in Matches :
                         /\ hot[m] # None /\ hot'[m] # None
                         /\ hot'[m].content < hot[m].content
                         => apiAt = "publish" /\ apiMatch = m
<1>1. ASSUME ForwardInv, [Next]_vars PROVE Forward
  <2> SUFFICES ASSUME NEW m \in Matches, hot[m] # None, hot'[m] # None,
                      hot'[m].content < hot[m].content, ~(apiAt = "publish" /\ apiMatch = m)
               PROVE  FALSE
    OBVIOUS
  <2>1. CASE hot'[m] = hot[m]
    <3>1. NothingOlder(m, hot[m].content)
      BY <1>1 DEF ForwardInv, ShownIsOld
    <3>2. hot[m].content \in Nat
      BY <3>1, Zenon DEF NothingOlder
    <3> QED BY <2>1, <3>2
  <2>2. CASE hot'[m] # hot[m]
    <3>1. /\ hot[m].content \in Nat /\ hot'[m].content \in Nat
          /\ hot[m].content <= hot'[m].content
      BY <1>1, <2>2, WorkerGoesForward
    <3> QED BY <3>1
  <2> QED BY <2>1, <2>2
<1> QED BY <1>1, ForwardStart, ForwardStep, PTL DEF Spec, OnlyTheApiGoesBack

-----------------------------------------------------------------------------
(* The loop of the daemon                                                  *)

CONSTANTS Markets, Order, Linked, Budget, MaxFaults
VARIABLES final, position, old, pc, purpose, targets, pumped, maintained, recovered, ready,
          sports, marketGap, cycle, due, offset, published, hints, stop, faults

Daemon == INSTANCE RuntimeDaemon
              WITH mode <- purpose, todo <- targets, active <- pumped, kept <- maintained

\* The gate is closed while a recovery reconciles the matches, by the startup
\* gap of the markets, and it is open in the pump only after a reconcile that
\* came to its end: a failed one marks a gap, whatever its snapshots cleared.
GateInv ==
    /\ position = [m \in Markets |-> position[m]]
    /\ pc \in {"cursors", "reconcile"} => marketGap
    /\ pc = "pump" => cycle = "done" \/ sports = Daemon!Gap

LEMMA GateStep ==
    ASSUME GateInv, Daemon!Next
    PROVE  GateInv' /\ Daemon!OrderNeedsReconcile
<1> USE DEF GateInv, Daemon!OrderNeedsReconcile, Daemon!Gap, Daemon!Goto, Daemon!ledger,
            Daemon!health
<1>1. CASE /\ UNCHANGED position
           /\ pc' \in {"cursors", "reconcile"} =>
                  \/ marketGap'
                  \/ pc \in {"cursors", "reconcile"} /\ UNCHANGED marketGap
           /\ pc' = "pump" => pc = "pump" /\ UNCHANGED <<cycle, sports>>
  BY <1>1
<1>2. CASE Daemon!MarkStartup
  BY <1>1, <1>2 DEF Daemon!MarkStartup
<1>3. CASE \/ Daemon!RecoverCursors \/ Daemon!RecoverReconcile
           \/ Daemon!ClearStartup \/ Daemon!Probe \/ Daemon!SelectTargets
           \/ Daemon!NothingIsDue \/ Daemon!TakeHints \/ Daemon!PumpIsOver
           \/ Daemon!LateIsOver \/ Daemon!NextTick \/ Daemon!Start
  BY <1>1, <1>3 DEF Daemon!RecoverCursors, Daemon!RecoverReconcile,
     Daemon!ClearStartup, Daemon!Probe, Daemon!SelectTargets, Daemon!NothingIsDue,
     Daemon!TakeHints, Daemon!PumpIsOver, Daemon!LateIsOver, Daemon!NextTick, Daemon!Start
<1>4. CASE Daemon!Fetch \/ Daemon!Publish
  BY <1>1, <1>4 DEF Daemon!Fetch, Daemon!Publish, Daemon!BatchIsOver, Daemon!Skip
<1>5. CASE Daemon!Apply
  BY <1>5 DEF Daemon!Apply, Daemon!BatchIsOver, Daemon!Raise
<1>6. CASE Daemon!RequestStop \/ Daemon!StopEnds \/ Daemon!IntervalIsOver
           \/ \E m \in Markets : Daemon!Hint(m) \/ Daemon!Resolve(m) \/ Daemon!DelayPasses(m)
  BY <1>1, <1>6 DEF Daemon!RequestStop, Daemon!StopEnds, Daemon!IntervalIsOver, Daemon!Hint,
     Daemon!Resolve, Daemon!DelayPasses
<1>7. CASE Daemon!Close \/ Daemon!Crash
  BY <1>7 DEF Daemon!Close, Daemon!Crash, Daemon!Fresh
<1>8. CASE Daemon!ReconcileDemand
  BY <1>8 DEF Daemon!ReconcileDemand, Daemon!Failed
<1>9. CASE Daemon!ConnectionLost
  BY <1>1, <1>9 DEF Daemon!ConnectionLost
<1>10. CASE Daemon!Snapshot
  <2>1. /\ pc \in {"reconcile", "sports"} /\ UNCHANGED <<pc, marketGap>>
        /\ \/ UNCHANGED position
           \/ /\ ~marketGap
              /\ \E m \in Markets : position' = [position EXCEPT ![m] = "entry"]
    BY <1>10 DEF Daemon!Snapshot, Daemon!Gate, Daemon!Enter
  <2>2. CASE UNCHANGED position
    BY <2>1, <2>2
  <2>3. CASE ~marketGap /\ \E m \in Markets : position' = [position EXCEPT ![m] = "entry"]
    <3>1. pc = "sports"
      BY <2>1, <2>3
    <3>2. PICK m \in Markets : position' = [position EXCEPT ![m] = "entry"]
      BY <2>3
    <3>3. \A x \in Markets : position'[x] # position[x] => position'[x] = "entry"
      BY <3>2
    <3> QED BY <2>1, <3>1, <3>2, <3>3
  <2> QED BY <2>1, <2>2, <2>3
<1>11. ASSUME NEW m \in Markets, Daemon!Pump(m)
       PROVE  GateInv' /\ Daemon!OrderNeedsReconcile
  <2>1. /\ pc = "pump" /\ pc' = pc /\ UNCHANGED <<cycle, sports>>
        /\ Daemon!Trade(m) \/ UNCHANGED position
    BY <1>11 DEF Daemon!Pump
  <2>2. \/ position' = position
        \/ \E p : position' = [position EXCEPT ![m] = p]
                  /\ (Daemon!Gate(sports) \/ p = "missed")
    BY <2>1 DEF Daemon!Trade, Daemon!Execute, Daemon!Enter
  <2>3. Daemon!Gate(sports) => cycle = "done"
    BY <2>1 DEF Daemon!Gate, Daemon!Ok
  <2> QED BY <2>1, <2>2, <2>3
<1>12. ASSUME NEW m \in Markets, Daemon!ExecuteWithoutBook(m)
       PROVE  GateInv' /\ Daemon!OrderNeedsReconcile
  <2>1. /\ pc' = "late"
        /\ position' = position \/ position' = [position EXCEPT ![m] = "missed"]
    BY <1>12 DEF Daemon!ExecuteWithoutBook, Daemon!Execute
  <2> QED BY <2>1
<1> QED BY <1>2, <1>3, <1>4, <1>5, <1>6, <1>7, <1>8, <1>9, <1>10, <1>11, <1>12
        DEF Daemon!Next, Daemon!Loop

\* Nothing is bought while recover_once runs, and nothing bought or filled in
\* the pump of a tick whose reconcile of the matches failed, for any markets,
\* budget and failures, although every snapshot ends the gap of the matches
\* and is decided on at once (SportsBridge.on_snapshot, recover_once).
THEOREM OrdersFollowReconcile == Daemon!Spec => Daemon!OrdersNeedReconcile
<1>1. Daemon!Init => GateInv
  BY DEF Daemon!Init, GateInv
<1>2. ASSUME GateInv, [Daemon!Next]_(Daemon!vars)
      PROVE  GateInv' /\ [Daemon!OrderNeedsReconcile]_(Daemon!vars)
  <2>1. CASE UNCHANGED Daemon!vars
    BY <1>2, <2>1 DEF Daemon!vars, Daemon!ledger, Daemon!health, GateInv
  <2> QED BY <1>2, <2>1, GateStep
<1> QED BY <1>1, <1>2, PTL DEF Daemon!Spec, Daemon!OrdersNeedReconcile

=============================================================================
