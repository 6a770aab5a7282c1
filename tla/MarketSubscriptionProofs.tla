---------------------- MODULE MarketSubscriptionProofs ----------------------
(***************************************************************************)
(* Theorems about the two feeds and the cycle: about MarketSubscription for *)
(* queues of every size, about LiveReducer for every set of points,        *)
(* contents and payloads and however often a match changes, and about      *)
(* MarketCycle for every finite set of markets and every capacity.         *)
(***************************************************************************)
EXTENDS MCMarketSubscription, FiniteSetTheorems, WellFoundedInduction, TLAPS

\* The types in two parts: the flags are a matter of logic, the others of
\* sets and sequences.
Flags ==
    /\ demand \in BOOLEAN
    /\ reader \in BOOLEAN /\ opening \in BOOLEAN
    /\ needs \in BOOLEAN /\ missed \in BOOLEAN
    /\ hot \in BOOLEAN
    /\ retired \in BOOLEAN
    /\ recordGap \in BOOLEAN
    /\ recoveryGap \in BOOLEAN
    /\ closedMark \in BOOLEAN

Data ==
    /\ sub \in {"none", "live", "reconnecting", "closed"}
    /\ queue \in Seq(Events) /\ Len(queue) <= QueueSize
    /\ retry \in {"none", "waiting", "due"}
    /\ job \in Jobs
    /\ daemon \in {"recovering", "aborted", "recovered"}
    /\ sourceGap \in {"ok", "startup", "gap"}

LEMMA TypeParts == TypeOK <=> Flags /\ Data
BY Zenon DEF TypeOK, Flags, Data

LEMMA FlagsNext == ASSUME Flags, [Next]_vars PROVE Flags'
<1> USE DEF Flags, Goto, Close, feed, overlay
<1>1. CASE Reader
    <2>1. CASE FeedCloses \/ FeedBreaks
        BY <2>1, Zenon DEF FeedCloses, FeedBreaks
    <2>2. ASSUME NEW event \in Events, Receive(event) PROVE Flags'
        BY <2>2, Zenon DEF Receive, Drop
    <2> QED BY <1>1, <2>1, <2>2, Zenon DEF Reader
<1>2. CASE Worker
    <2>1. CASE BeginCycle BY <2>1, Zenon DEF BeginCycle
    <2>2. CASE DemandUnknown BY <2>2, Zenon DEF DemandUnknown
    <2>3. CASE Start BY <2>3, Zenon DEF Start, BookSeen
    <2>4. CASE Repair BY <2>4, Zenon DEF Repair
    <2>5. CASE Probe \/ Rest BY <2>5, Zenon DEF Probe, Rest
    <2>6. CASE Publish BY <2>6, Zenon DEF Publish, BookSeen
    <2>7. CASE Restart BY <2>7, Zenon DEF Restart, Drain
    <2>8. CASE PumpBook BY <2>8, Zenon DEF PumpBook
    <2>9. CASE PumpPublish BY <2>9, Zenon DEF PumpPublish, BookSeen
    <2>10. CASE PumpResolution BY <2>10, Zenon DEF PumpResolution, Retire
    <2>11. CASE PumpResolutionFails BY <2>11, Zenon DEF PumpResolutionFails
    <2>12. CASE CallFails BY <2>12, Zenon DEF CallFails, Fail
    <2>13. CASE RestClosed BY <2>13, Zenon DEF RestClosed, Retire
    <2>14. CASE RestClosedFails BY <2>14, Zenon DEF RestClosedFails
    <2>15. CASE PumpDone BY <2>15, Zenon DEF PumpDone
    <2>16. CASE UpdateRecovery BY <2>16, Zenon DEF UpdateRecovery, Failing
    <2>17. CASE EndTick BY <2>17, Zenon DEF EndTick
    <2>18. CASE CycleRaises \/ AbortRecovery BY <2>18, Zenon DEF CycleRaises, AbortRecovery
    <2>19. CASE Recover BY <2>19, Zenon DEF Recover, Failing
    <2> QED BY <1>2, <2>1, <2>2, <2>3, <2>4, <2>5, <2>6, <2>7, <2>8, <2>9,
               <2>10, <2>11, <2>12, <2>13, <2>14, <2>15, <2>16, <2>17,
               <2>18, <2>19, Zenon DEF Worker
<1>3. CASE DemandChanges BY <1>3, Zenon DEF DemandChanges
<1>4. CASE RedisLosesBook BY <1>4, Zenon DEF RedisLosesBook
<1>5. CASE RetryFallsDue BY <1>5, Zenon DEF RetryFallsDue
<1>6. CASE OtherMarketLive BY <1>6, Zenon DEF OtherMarketLive
<1>7. CASE UNCHANGED vars BY <1>7, Zenon DEF vars
<1> QED BY <1>1, <1>2, <1>3, <1>4, <1>5, <1>6, <1>7, Zenon DEF Next

\* What a step does to the queue, without the flags it depends on.
QueueStep ==
    \/ queue' \in {queue, <<>>}
    \/ \E event \in Events : Fits /\ queue' = Append(queue, event)
    \/ queue' = [i \in DOMAIN queue |->
                     IF queue[i] = "full" THEN "change" ELSE queue[i]]
    \/ queue # <<>> /\ queue' = Tail(queue)

LEMMA QueueTypes ==
    ASSUME QueueAssumption, queue \in Seq(Events), Len(queue) <= QueueSize,
           QueueStep
    PROVE  queue' \in Seq(Events) /\ Len(queue') <= QueueSize
<1> USE DEF QueueAssumption, QueueStep, Events
<1>1. CASE queue' \in {queue, <<>>}
    <2>1. CASE queue' = queue BY <2>1
    <2>2. CASE queue' = <<>>
        <3>1. Len(queue') = 0 BY <2>2
        <3> QED BY <2>2, <3>1
    <2> QED BY <1>1, <2>1, <2>2
<1>2. CASE \E event \in Events : Fits /\ queue' = Append(queue, event)
    BY <1>2 DEF Fits
<1>3. CASE queue' = [i \in DOMAIN queue |->
                        IF queue[i] = "full" THEN "change" ELSE queue[i]]
    <2> DEFINE older == [i \in 1..Len(queue) |->
                            IF queue[i] = "full" THEN "change" ELSE queue[i]]
    <2>1. older \in Seq(Events) /\ Len(older) = Len(queue) OBVIOUS
    <2> QED BY <1>3, <2>1
<1>4. CASE queue # <<>> /\ queue' = Tail(queue) BY <1>4
<1> QED BY <1>1, <1>2, <1>3, <1>4

LEMMA DataNext == ASSUME QueueAssumption, Data, [Next]_vars PROVE Data'
<1>1. /\ sub' \in {sub, "none", "live", "reconnecting", "closed"}
      /\ retry' \in {retry, "none", "waiting", "due"}
      /\ job' \in Jobs \cup {job}
      /\ daemon' \in {daemon, "recovering", "aborted", "recovered"}
      /\ sourceGap' \in {sourceGap, "ok", "startup", "gap"}
      /\ QueueStep
    <2> USE DEF Goto, Close, Announce, BookSeen, feed, overlay, Jobs, QueueStep
    <2>1. CASE Reader
        <3>1. CASE FeedCloses \/ FeedBreaks
            BY <3>1, Zenon DEF FeedCloses, FeedBreaks
        <3>2. ASSUME NEW event \in Events, Receive(event)
              PROVE  /\ UNCHANGED <<sub, retry, job, daemon, sourceGap>>
                     /\ QueueStep
            BY <3>2, Zenon DEF Receive, Drop
        <3> QED BY <2>1, <3>1, <3>2, Zenon DEF Reader
    <2>2. CASE Worker
        <3>1. CASE BeginCycle BY <3>1, Zenon DEF BeginCycle
        <3>2. CASE \/ DemandUnknown \/ CycleRaises \/ UpdateRecovery
                   \/ Recover \/ AbortRecovery \/ EndTick
            BY <3>2, Zenon DEF DemandUnknown, CycleRaises, UpdateRecovery, Recover,
                               AbortRecovery, EndTick, Updated, Recovered
        <3>3. CASE Start BY <3>3, Zenon DEF Start
        <3>4. CASE Repair BY <3>4, Zenon DEF Repair
        <3>5. CASE Probe \/ Rest \/ Publish
            BY <3>5, Zenon DEF Probe, Rest, Publish
        <3>6. CASE Restart BY <3>6, Zenon DEF Restart, Drain
        <3>7. CASE PumpBook BY <3>7, Zenon DEF PumpBook
        <3>8. CASE PumpPublish \/ PumpDone
            BY <3>8, Zenon DEF PumpPublish, PumpDone
        <3>9. CASE PumpResolution BY <3>9, Zenon DEF PumpResolution, Retire
        <3>10. CASE PumpResolutionFails BY <3>10, Zenon DEF PumpResolutionFails
        <3>11. CASE CallFails BY <3>11, Zenon DEF CallFails, Fail
        <3>12. CASE RestClosed \/ RestClosedFails
            BY <3>12, Zenon DEF RestClosed, RestClosedFails, Retire
        <3> QED BY <2>2, <3>1, <3>2, <3>3, <3>4, <3>5, <3>6, <3>7, <3>8, <3>9,
                   <3>10, <3>11, <3>12, Zenon DEF Worker
    <2>3. CASE \/ DemandChanges \/ RedisLosesBook \/ RetryFallsDue
               \/ OtherMarketLive
        BY <2>3, Zenon DEF DemandChanges, RedisLosesBook, RetryFallsDue,
                           OtherMarketLive
    <2>4. CASE UNCHANGED vars BY <2>4, Zenon DEF vars
    <2> QED BY <2>1, <2>2, <2>3, <2>4, Zenon DEF Next
<1>2. queue' \in Seq(Events) /\ Len(queue') <= QueueSize
    BY <1>1, QueueTypes DEF Data
<1> QED BY <1>1, <1>2 DEF Data

LEMMA TypeNext == ASSUME QueueAssumption, TypeOK, [Next]_vars PROVE TypeOK'
<1>1. Flags /\ Data BY TypeParts
<1>2. Flags' /\ Data' BY <1>1, FlagsNext, DataNext
<1> QED BY <1>2, TypeParts DEF TypeOK, Flags, Data

\* Every variable keeps its type and the queue its bound, whatever the reader,
\* the failures of the calls and the demand do.
THEOREM TypeCorrect == Spec => []TypeOK
<1>1. Init => TypeOK
    <2>1. Init => Flags BY Zenon DEF Init, Flags
    <2>2. Init => Data BY QueueAssumption DEF QueueAssumption, Init, Data, Jobs
    <2> QED BY <2>1, <2>2, TypeParts
<1>2. TypeOK /\ [Next]_vars => TypeOK' BY QueueAssumption, TypeNext
<1> QED BY <1>1, <1>2, PTL DEF Spec

-----------------------------------------------------------------------------
\* No loss goes unnoticed.  The invariant is inductive next to the types: a
\* full book leaves the queue only by making up for what was missed, or under
\* a flag, or for the full book of a new stream.
LEMMA LossNext ==
    ASSUME QueueAssumption, TypeOK, LossIsFlagged, [Next]_vars
    PROVE  LossIsFlagged'
<1> USE DEF LossIsFlagged, overlay, feed, Goto, Close
<1>1. CASE Reader
    <2>1. CASE FeedCloses \/ FeedBreaks BY <1>1, <2>1 DEF FeedCloses, FeedBreaks
    <2>2. ASSUME NEW event \in Events, Receive(event) PROVE LossIsFlagged'
        <3>1. CASE ~Fits BY <2>2, <3>1 DEF Receive, Drop, TypeOK
        <3>2. CASE Fits
            <4>1. queue' = Append(queue, event) BY <2>2, <3>2 DEF Receive
            <4>2. \A i \in DOMAIN queue : i \in DOMAIN queue'
                                          /\ queue'[i] = queue[i]
                BY <4>1 DEF TypeOK
            <4>3. event = "full" => \E i \in DOMAIN queue' : queue'[i] = "full"
                BY <4>1 DEF TypeOK
            <4> QED BY <2>2, <3>2, <4>2, <4>3 DEF Receive, TypeOK
        <3> QED BY <3>1, <3>2
    <2> QED BY <1>1, <2>1, <2>2 DEF Reader
<1>2. CASE Worker
    <2>1. CASE BeginCycle BY <2>1 DEF BeginCycle
    <2>2. CASE Start BY <2>2 DEF Start
    <2>3. CASE Rest BY <2>3 DEF Rest
    <2>4. CASE Restart BY <2>4 DEF Restart
    <2>5. CASE PumpBook
        <3>1. CASE Head(queue) = "full" BY <2>5, <3>1 DEF PumpBook
        <3>2. CASE Head(queue) # "full"
            <4>1. (\E i \in DOMAIN queue : queue[i] = "full")
                  => \E i \in DOMAIN queue' : queue'[i] = "full"
                <5> SUFFICES ASSUME NEW i \in DOMAIN queue, queue[i] = "full"
                             PROVE  \E k \in DOMAIN queue' : queue'[k] = "full"
                    OBVIOUS
                <5>1. i \in 2..Len(queue) BY <3>2 DEF TypeOK
                <5>2. i - 1 \in DOMAIN queue' /\ queue'[i - 1] = "full"
                    BY <2>5, <5>1 DEF PumpBook, TypeOK
                <5> QED BY <5>2
            <4> QED BY <2>5, <3>2, <4>1 DEF PumpBook
        <3> QED BY <3>1, <3>2
    <2>6. CASE PumpResolution
        <3>1. CASE retired
            <4>1. (\E i \in DOMAIN queue : queue[i] = "full")
                  => \E i \in DOMAIN queue' : queue'[i] = "full"
                <5> SUFFICES ASSUME NEW i \in DOMAIN queue, queue[i] = "full"
                             PROVE  \E k \in DOMAIN queue' : queue'[k] = "full"
                    OBVIOUS
                <5>1. i \in 2..Len(queue)
                    BY <2>6 DEF PumpResolution, TypeOK
                <5>2. i - 1 \in DOMAIN queue' /\ queue'[i - 1] = "full"
                    BY <2>6, <5>1 DEF PumpResolution, TypeOK
                <5> QED BY <5>2
            <4> QED BY <2>6, <3>1, <4>1 DEF PumpResolution
        <3>2. CASE ~retired BY <2>6, <3>2 DEF PumpResolution, Retire
        <3> QED BY <3>1, <3>2
    <2>7. CASE PumpResolutionFails BY <2>7 DEF PumpResolutionFails
    <2>8. CASE CallFails BY <2>8 DEF CallFails, Fail
    <2>9. CASE RestClosed \/ RestClosedFails
        BY <2>9 DEF RestClosed, RestClosedFails, Retire
    <2>10. CASE UNCHANGED <<sub, feed>> BY <2>10
    <2> QED BY <1>2, <2>1, <2>2, <2>3, <2>4, <2>5, <2>6, <2>7, <2>8, <2>9, <2>10
            DEF Worker, DemandUnknown, Repair, Probe, Publish, PumpPublish,
                PumpDone, CycleRaises, UpdateRecovery, Recover, AbortRecovery, EndTick
<1>3. CASE UNCHANGED <<sub, feed>> BY <1>3
<1> QED BY <1>1, <1>2, <1>3
        DEF Next, vars, DemandChanges, RedisLosesBook, RetryFallsDue,
            OtherMarketLive

\* However reader and worker interleave and whichever call of a recovery
\* fails, a live book that lacks an event is flagged or about to be replaced.
THEOREM LossesAreFlagged == Spec => []LossIsFlagged
<1>1. Init => LossIsFlagged BY DEF Init, LossIsFlagged
<1>2. TypeOK /\ LossIsFlagged /\ [Next]_vars => LossIsFlagged'
    BY QueueAssumption, LossNext
<1> QED BY <1>1, <1>2, TypeCorrect, PTL DEF Spec

-----------------------------------------------------------------------------
LEMMA ReaderNext ==
    ASSUME TypeOK, LiveHasReader, [Next]_vars PROVE LiveHasReader'
<1> USE DEF LiveHasReader, overlay, feed, Goto, Close
<1>1. CASE Reader BY <1>1 DEF Reader, FeedCloses, FeedBreaks, Receive
<1>2. CASE BeginCycle \/ Start \/ Restart
    BY <1>2 DEF BeginCycle, Start, Restart
<1>3. CASE PumpResolution \/ PumpResolutionFails
    BY <1>3 DEF PumpResolution, PumpResolutionFails, Retire
<1>4. CASE CallFails \/ RestClosed \/ RestClosedFails
    BY <1>4 DEF CallFails, Fail, RestClosed, RestClosedFails, Retire
<1>5. CASE UNCHANGED <<sub, reader>> BY <1>5
<1> QED BY <1>1, <1>2, <1>3, <1>4, <1>5
        DEF Next, vars, Worker, DemandUnknown, Repair, Probe, Rest, Publish,
            PumpBook, PumpPublish, PumpDone, CycleRaises, UpdateRecovery, Recover,
            AbortRecovery, EndTick, DemandChanges, RedisLosesBook, RetryFallsDue,
            OtherMarketLive

\* A live subscription always reads a stream.
THEOREM LiveHasItsReader == Spec => []LiveHasReader
<1>1. Init => LiveHasReader BY DEF Init, LiveHasReader
<1>2. TypeOK /\ LiveHasReader /\ [Next]_vars => LiveHasReader' BY ReaderNext
<1> QED BY <1>1, <1>2, TypeCorrect, PTL DEF Spec

-----------------------------------------------------------------------------
LEMMA GateNext ==
    ASSUME TypeOK, GatedWhileFailing, [Next]_vars PROVE GatedWhileFailing'
<1> USE DEF GatedWhileFailing, Deciding, Gated, overlay, feed, Goto
<1>1. CASE Reader BY <1>1 DEF Reader, FeedCloses, FeedBreaks, Receive
<1>2. CASE UpdateRecovery BY <1>2 DEF UpdateRecovery, Failing
<1>3. CASE EndTick BY <1>3 DEF EndTick
<1>4. CASE Recover BY <1>4 DEF Recover, Failing
<1>5. CASE AbortRecovery BY <1>5 DEF AbortRecovery
<1>6. CASE Worker /\ ~UpdateRecovery /\ ~EndTick /\ ~Recover /\ ~AbortRecovery
    <2>1. job' \notin {"idle", "decide"}
        BY <1>6 DEF Worker, BeginCycle, DemandUnknown, Start, Repair, Probe,
                    Rest, Publish, Restart, PumpBook, PumpPublish,
                    PumpResolution, PumpResolutionFails, PumpDone, CallFails,
                    Fail, Announce, RestClosed, RestClosedFails, Retire, CycleRaises
    <2> QED BY <2>1
<1>7. CASE RetryFallsDue BY <1>7 DEF RetryFallsDue
<1>8. CASE OtherMarketLive BY <1>8 DEF OtherMarketLive
<1>9. CASE DemandChanges \/ RedisLosesBook \/ UNCHANGED vars
    BY <1>9 DEF DemandChanges, RedisLosesBook, vars
<1> QED BY <1>1, <1>2, <1>3, <1>4, <1>5, <1>6, <1>7, <1>8, <1>9 DEF Next

\* Where decisions are made, a market whose recovery failed is gated, although
\* the other markets clear the gap they share with it; but for the sports
\* changes of the tick after a recovery of the daemon that failed.
THEOREM FailingIsGated == Spec => []GatedWhileFailing
<1>1. Init => GatedWhileFailing BY DEF Init, GatedWhileFailing
<1>2. TypeOK /\ GatedWhileFailing /\ [Next]_vars => GatedWhileFailing'
    BY GateNext
<1> QED BY <1>1, <1>2, TypeCorrect, PTL DEF Spec

-----------------------------------------------------------------------------
(* The points of a match *)

Points == [identity : Identities, content : Contents, id : Reducer!Ids,
           revision : Nat, sequence : Nat \ {0}]
Apart(points) ==
    \A i, j \in DOMAIN points :
        \/ points[i].id = points[j].id
        \/ points[i].identity = points[j].identity
        \/ points[i].sequence = points[j].sequence
        => i = j
Numbered(points) ==
    /\ points \in Seq(Points) /\ Apart(points)
    /\ {points[i].sequence : i \in DOMAIN points} = DOMAIN points

LEMMA SizeIsTheReducers == \A S : Reducer!Cardinality(S) = Cardinality(S)
BY DEF Reducer!Cardinality, Cardinality

\* As many different values as places.
LEMMA ApartAreAsMany ==
    ASSUME NEW n \in Nat, NEW f, DOMAIN f = 1..n,
           \A i, j \in 1..n : f[i] = f[j] => i = j
    PROVE  /\ IsFiniteSet({f[i] : i \in 1..n})
           /\ Cardinality({f[i] : i \in 1..n}) = n
<1> DEFINE T == {f[i] : i \in 1..n}
           g == [i \in 1..n |-> f[i]]
<1>1. g \in Surjection(1..n, T) /\ g \in Injection(1..n, T)
  BY DEF Surjection, Injection, IsInjective
<1>2. IsFiniteSet(1..n) /\ Cardinality(1..n) = n
  BY FS_Interval
<1>3. IsFiniteSet(T) /\ Cardinality(T) = Cardinality(1..n)
  <2> HIDE DEF T, g
  <2> QED BY <1>1, <1>2, FS_Surjection
<1> QED BY <1>2, <1>3

LEMMA SmallestIsThere ==
    ASSUME NEW S, S \subseteq Int, IsFiniteSet(S), S # {}
    PROVE  \E x \in S : \A y \in S : x <= y
<1> DEFINE Bad == {T \in FiniteSubsetsOf(S) :
                      T # {} /\ ~ \E x \in T : \A y \in T : x <= y}
<1>1. Bad = {}
  <2> SUFFICES ASSUME Bad # {} PROVE FALSE
    OBVIOUS
  <2>1. IsWellFoundedOn(StrictSubsetOrdering(S), FiniteSubsetsOf(S))
    BY FS_StrictSubsetOrderingWellFounded
  <2>2. Bad \subseteq FiniteSubsetsOf(S)
    OBVIOUS
  <2> HIDE DEF Bad
  <2>3. PICK T \in Bad : \A U \in Bad : <<U, T>> \notin StrictSubsetOrdering(S)
    BY <2>1, <2>2, WFMin
  <2>4. /\ T \subseteq S /\ IsFiniteSet(T) /\ T # {}
        /\ ~ \E x \in T : \A y \in T : x <= y
    BY DEF Bad, FiniteSubsetsOf
  <2>5. PICK z \in T : TRUE
    BY <2>4
  <2>6. T \ {z} # {}
    BY <2>4
  <2>7. T \ {z} \in FiniteSubsetsOf(S)
    BY <2>4, FS_RemoveElement DEF FiniteSubsetsOf
  <2>8. <<T \ {z}, T>> \in StrictSubsetOrdering(S)
    BY <2>4 DEF StrictSubsetOrdering
  <2>9. PICK x \in T \ {z} : \A y \in T \ {z} : x <= y
    BY <2>3, <2>6, <2>7, <2>8 DEF Bad
  <2>10. x \in Int /\ z \in Int /\ \A y \in T : y \in Int
    BY <2>4
  <2> QED BY <2>4, <2>9, <2>10
<1>2. S \in FiniteSubsetsOf(S)
  BY DEF FiniteSubsetsOf
<1> QED BY <1>1, <1>2

\* An id of the form that _unique_point_id makes is free, whatever is used.
LEMMA UniqueIsFree ==
    ASSUME NEW used, IsFiniteSet(used), NEW id, NEW identity, NEW s
    PROVE  /\ Reducer!UniquePointId(id, identity, s, used) \notin used
           /\ id \notin used => Reducer!UniquePointId(id, identity, s, used) = id
           /\ id \in used =>
                  \E n \in Nat : Reducer!UniquePointId(id, identity, s, used) = <<identity, s, n>>
<1> DEFINE c == Cardinality(used)
           Free == {n \in 0..c : <<identity, s, n>> \notin used}
           g == [n \in 0..c |-> <<identity, s, n>>]
<1>1. c \in Nat /\ IsFiniteSet(0..c) /\ Cardinality(0..c) = c + 1
  BY FS_CardinalityType, FS_Interval
<1>2. Free # {}
  <2> SUFFICES ASSUME Free = {} PROVE FALSE
    OBVIOUS
  <2>1. g \in [0..c -> used]
    OBVIOUS
  <2>2. c < Cardinality(0..c)
    BY <1>1
  <2> HIDE DEF g
  <2>3. PICK x \in 0..c, y \in 0..c : x # y /\ g[x] = g[y]
    BY <1>1, <2>1, <2>2, FS_PigeonHole
  <2> QED BY <2>3 DEF g
<1>3. Free \subseteq Int /\ IsFiniteSet(Free)
  <2>1. Free \in SUBSET (0..c)
    OBVIOUS
  <2>2. IsFiniteSet(Free)
    BY <1>1, <2>1, FS_Subset
  <2> QED BY <2>1, <2>2
<1>4. PICK m \in Free : \A y \in Free : m <= y
  BY <1>2, <1>3, SmallestIsThere
<1>5. /\ m \in 0..c /\ <<identity, s, m>> \notin used
      /\ \A k \in 0..(m - 1) : <<identity, s, k>> \in used
  <2>1. m \in 0..c /\ <<identity, s, m>> \notin used
    BY <1>4
  <2>2. ASSUME NEW k \in 0..(m - 1), <<identity, s, k>> \notin used PROVE FALSE
    <3>1. k \in Free /\ k < m
      BY <1>1, <2>1, <2>2
    <3> QED BY <1>1, <1>4, <2>1, <3>1
  <2> QED BY <2>1, <2>2
<1> HIDE DEF Free, g, c
<1>6. Reducer!Cardinality(used) = c
  BY SizeIsTheReducers DEF c
<1>7. CASE id \in used
  <2> DEFINE n == CHOOSE n \in 0..c :
                     /\ <<identity, s, n>> \notin used
                     /\ \A k \in 0..(n - 1) : <<identity, s, k>> \in used
  <2>1. n \in 0..c /\ <<identity, s, n>> \notin used
    BY <1>5
  <2>2. Reducer!UniquePointId(id, identity, s, used) = <<identity, s, n>>
    BY <1>6, <1>7 DEF Reducer!UniquePointId
  <2> HIDE DEF n
  <2>3. n \in Nat
    BY <1>1, <2>1
  <2> QED BY <1>7, <2>1, <2>2, <2>3
<1>8. CASE id \notin used
  BY <1>8 DEF Reducer!UniquePointId
<1> QED BY <1>7, <1>8

-----------------------------------------------------------------------------
(* The points of a payload against those of the snapshot *)

\* The last sequence is the number of points.
LEMMA LastIsLength ==
    ASSUME NEW points, Numbered(points)
    PROVE  Reducer!LastSequence(points) = Len(points)
<1> DEFINE S == {points[i].sequence : i \in DOMAIN points}
<1>1. points \in Seq(Points) /\ DOMAIN points = 1..Len(points) /\ Len(points) \in Nat
  BY DEF Numbered
<1>2. S = 1..Len(points)
  BY <1>1 DEF Numbered
<1>3. /\ \A i \in DOMAIN points : points[i].sequence \in S
      /\ \A s \in S : \E i \in DOMAIN points : points[i].sequence = s
  OBVIOUS
<1>4. Reducer!LastSequence(points) =
          IF points = <<>> THEN 0
          ELSE CHOOSE n \in S : \A i \in DOMAIN points : points[i].sequence <= n
  BY DEF Reducer!LastSequence
<1> HIDE DEF S
<1>5. CASE points = <<>>
  BY <1>4, <1>5
<1>6. CASE points # <<>>
  <2>1. Len(points) # 0
    BY <1>1, <1>6
  <2>2. Len(points) \in S
    BY <1>1, <1>2, <2>1
  <2>3. \A i \in DOMAIN points : points[i].sequence <= Len(points)
    BY <1>1, <1>2, <1>3
  <2>4. \A n \in S : (\A i \in DOMAIN points : points[i].sequence <= n) => n = Len(points)
    <3> SUFFICES ASSUME NEW n \in S, \A i \in DOMAIN points : points[i].sequence <= n
                 PROVE  n = Len(points)
      OBVIOUS
    <3>1. PICK i \in DOMAIN points : points[i].sequence = Len(points)
      BY <1>3, <2>2
    <3>2. Len(points) <= n
      BY <3>1
    <3>3. n \in 1..Len(points)
      BY <1>2
    <3> QED BY <1>1, <3>2, <3>3
  <2> QED BY <1>4, <1>6, <2>2, <2>3, <2>4
<1> QED BY <1>5, <1>6

\* The stored point of an identity is the one point that has it.
LEMMA StoredIsThere ==
    ASSUME NEW points, points \in Seq(Points), Apart(points), NEW k \in DOMAIN points
    PROVE  Reducer!Stored(points, points[k].identity) = points[k]
<1> DEFINE i == CHOOSE i \in DOMAIN points :
                   /\ points[i].identity = points[k].identity
                   /\ \A j \in DOMAIN points :
                          points[j].identity = points[k].identity => j <= i
<1>1. \A j \in DOMAIN points : points[j].identity = points[k].identity => j = k
  BY DEF Apart
<1>2. k \in Int
  OBVIOUS
<1>3. /\ points[k].identity = points[k].identity
      /\ \A j \in DOMAIN points : points[j].identity = points[k].identity => j <= k
  BY <1>1, <1>2
<1>4. i \in DOMAIN points /\ points[i].identity = points[k].identity
  BY <1>3
<1>5. Reducer!Stored(points, points[k].identity) = points[i]
  BY DEF Reducer!Stored
<1> HIDE DEF i
<1> QED BY <1>1, <1>4, <1>5

Supplied(p) ==
    /\ p.points \in Seq(Identities \X Contents)
    /\ \A i, j \in DOMAIN p.points : p.points[i][1] = p.points[j][1] => i = j
IsNew(p, i) == p.points[i][1] \notin Reducer!IdentitiesOf(snapshot.points)
Places(p) == {i \in 1..Len(p.points) : IsNew(p, i)}
Rank(p, i) == Cardinality({j \in 1..i : IsNew(p, j)})

LEMMA NewAreCounted ==
    ASSUME NEW p, Supplied(p)
    PROVE  /\ Cardinality(Places(p)) \in Nat
           /\ \A i \in Places(p) : Rank(p, i) \in 1..Cardinality(Places(p))
           /\ \A i, j \in Places(p) : Rank(p, i) = Rank(p, j) => i = j
           /\ {Rank(p, i) : i \in Places(p)} = 1..Cardinality(Places(p))
<1> DEFINE n == Len(p.points)
           New == Places(p)
           UpTo(i) == {j \in 1..i : IsNew(p, j)}
           T == {Rank(p, i) : i \in New}
           f == [i \in New |-> Rank(p, i)]
           c == Cardinality(New)
<1>0. \A i : Rank(p, i) = Cardinality(UpTo(i))
  BY DEF Rank
<1>n. n \in Nat /\ New \in SUBSET (1..n) /\ \A i \in 1..n : i \in New <=> IsNew(p, i)
  BY DEF Supplied, Places
<1> HIDE DEF n, New
<1>1. IsFiniteSet(New) /\ c \in Nat
  <2>1. IsFiniteSet(1..n)
    BY <1>n, FS_Interval
  <2>2. IsFiniteSet(New)
    BY <1>n, <2>1, FS_Subset
  <2> QED BY <2>2, FS_CardinalityType
<1>2. ASSUME NEW i \in 1..n
      PROVE  /\ UpTo(i) \subseteq New /\ IsFiniteSet(UpTo(i))
             /\ Cardinality(UpTo(i)) \in Nat /\ Cardinality(UpTo(i)) <= c
  <2>1. UpTo(i) \in SUBSET New
    BY <1>n
  <2> QED BY <1>1, <2>1, FS_Subset, FS_CardinalityType
<1>3. ASSUME NEW i \in New, NEW j \in New, i < j PROVE Rank(p, i) < Rank(p, j)
  <2>1. i \in 1..n /\ j \in 1..n
    BY <1>n
  <2>2. UpTo(i) \in SUBSET UpTo(j)
    BY <1>n, <1>3, <2>1
  <2>3. j \in UpTo(j) /\ j \notin UpTo(i)
    BY <1>n, <1>3, <2>1
  <2>4. Cardinality(UpTo(i)) <= Cardinality(UpTo(j))
        /\ Cardinality(UpTo(i)) # Cardinality(UpTo(j))
    <3>1. IsFiniteSet(UpTo(j))
      BY <1>2, <2>1
    <3>2. UpTo(i) # UpTo(j)
      BY <2>3
    <3> HIDE DEF UpTo
    <3> QED BY <2>2, <3>1, <3>2, FS_Subset
  <2>5. Rank(p, i) = Cardinality(UpTo(i)) /\ Rank(p, j) = Cardinality(UpTo(j))
    BY <1>0, <2>1
  <2>6. Cardinality(UpTo(i)) \in Nat /\ Cardinality(UpTo(j)) \in Nat
    BY <1>2, <2>1
  <2> HIDE DEF UpTo
  <2> QED BY <2>4, <2>5, <2>6
<1>4. ASSUME NEW i \in New PROVE Rank(p, i) \in 1..c
  <2>1. i \in 1..n /\ Rank(p, i) = Cardinality(UpTo(i))
    BY <1>0, <1>n
  <2>2. i \in UpTo(i)
    BY <1>n, <2>1
  <2>3. Cardinality(UpTo(i)) # 0
    <3>1. IsFiniteSet(UpTo(i))
      BY <1>2, <2>1
    <3> HIDE DEF UpTo
    <3> QED BY <2>2, <3>1, FS_EmptySet
  <2>4. Cardinality(UpTo(i)) \in Nat /\ Cardinality(UpTo(i)) <= c
    BY <1>2, <2>1
  <2> HIDE DEF UpTo, c
  <2> QED BY <1>1, <2>1, <2>3, <2>4
<1>5. \A i, j \in New : Rank(p, i) = Rank(p, j) => i = j
  <2> SUFFICES ASSUME NEW i \in New, NEW j \in New, Rank(p, i) = Rank(p, j), i # j PROVE FALSE
    OBVIOUS
  <2>1. i \in Int /\ j \in Int
    BY <1>n
  <2>2. i < j \/ j < i
    BY <2>1
  <2>3. Rank(p, i) \in Int
    BY <1>4
  <2> QED BY <1>3, <2>2, <2>3
<1>6. T = 1..c
  <2>1. f \in Surjection(New, T) /\ f \in Injection(New, T)
    BY <1>5 DEF Surjection, Injection, IsInjective
  <2> HIDE DEF f
  <2>2. Cardinality(T) = c
    BY <1>1, <2>1, FS_Surjection
  <2>3. T \in SUBSET (1..c)
    BY <1>4
  <2>4. IsFiniteSet(1..c) /\ Cardinality(1..c) = c
    BY <1>1, FS_Interval
  <2> HIDE DEF T
  <2> QED BY <2>2, <2>3, <2>4, FS_Subset
<1> QED BY <1>1, <1>4, <1>5, <1>6 DEF New

LEMMA IdsAreFinite ==
    ASSUME NEW points, points \in Seq(Points),
           \A i, j \in DOMAIN points : points[i].id = points[j].id => i = j
    PROVE  IsFiniteSet(Reducer!IdsOf(points))
<1> DEFINE n == Len(points)
           f == [i \in 1..n |-> points[i].id]
<1>1. n \in Nat /\ DOMAIN points = 1..n
  OBVIOUS
<1>2. DOMAIN f = 1..n /\ \A i, j \in 1..n : f[i] = f[j] => i = j
  BY <1>1
<1>3. Reducer!IdsOf(points) = {f[i] : i \in 1..n}
  BY <1>1 DEF Reducer!IdsOf
<1> HIDE DEF f, n
<1> QED BY <1>1, <1>2, <1>3, ApartAreAsMany

\* A point that the snapshot has is the stored one, corrected or not.
LEMMA ReducedOld ==
    ASSUME NEW p, Supplied(p), Numbered(snapshot.points),
           NEW i \in DOMAIN p.points, ~IsNew(p, i)
    PROVE  \E k \in DOMAIN snapshot.points :
               LET was == snapshot.points[k]
                   is == Reducer!Reduced(p)[i]
               IN /\ was.identity = p.points[i][1]
                  /\ Reducer!Stored(snapshot.points, p.points[i][1]) = was
                  /\ is.identity = was.identity /\ is.content = p.points[i][2]
                  /\ is.id = was.id /\ is.sequence = was.sequence
                  /\ is.revision = IF p.points[i][2] = was.content THEN was.revision
                                   ELSE was.revision + 1
                  /\ is \in Points
<1>1. PICK k \in DOMAIN snapshot.points : snapshot.points[k].identity = p.points[i][1]
  BY DEF IsNew, Reducer!IdentitiesOf
<1> DEFINE was == snapshot.points[k]
           content == p.points[i][2]
<1>2. was \in Points /\ content \in Contents
  BY DEF Numbered, Supplied
<1>3. Reducer!Stored(snapshot.points, p.points[i][1]) = was
  BY <1>1, StoredIsThere DEF Numbered
<1>4. Reducer!Reduced(p)[i] =
          IF content = was.content THEN was
          ELSE [was EXCEPT !.content = content, !.revision = was.revision + 1]
  BY <1>1, <1>3 DEF Reducer!Reduced, IsNew
<1> HIDE DEF was, content
<1>5. LET is == Reducer!Reduced(p)[i]
      IN /\ is.identity = was.identity /\ is.content = content
         /\ is.id = was.id /\ is.sequence = was.sequence
         /\ is.revision = IF content = was.content THEN was.revision
                          ELSE was.revision + 1
         /\ is \in Points
  <2>1. CASE content = was.content
    BY <1>2, <1>4, <2>1 DEF Points
  <2>2. CASE content # was.content
    <3> DEFINE is == [was EXCEPT !.content = content, !.revision = was.revision + 1]
    <3>1. was.revision + 1 \in Nat
      BY <1>2 DEF Points
    <3>2. /\ is.identity = was.identity /\ is.content = content /\ is.id = was.id
          /\ is.revision = was.revision + 1 /\ is.sequence = was.sequence
      BY <1>2 DEF Points
    <3>3. is \in Points
      BY <1>2, <3>1 DEF Points
    <3>4. Reducer!Reduced(p)[i] = is
      BY <1>4, <2>2
    <3> HIDE DEF is
    <3> QED BY <2>2, <3>2, <3>3, <3>4
  <2> QED BY <2>1, <2>2
<1> QED BY <1>1, <1>3, <1>5 DEF was, content

\* A new point has the next number, and an id that no point of the snapshot has.
LEMMA ReducedNew ==
    ASSUME NEW p, Supplied(p), 0 \notin Identities, Numbered(snapshot.points),
           NEW i \in DOMAIN p.points, IsNew(p, i)
    PROVE  LET is == Reducer!Reduced(p)[i]
           IN /\ is \in Points
              /\ is.identity = p.points[i][1] /\ is.content = p.points[i][2]
              /\ is.sequence = Len(snapshot.points) + Rank(p, i)
              /\ is.id \notin Reducer!IdsOf(snapshot.points)
              /\ \/ is.id = <<0, i, 0>>
                 \/ \E n \in Nat : is.id = <<is.identity, is.sequence, n>>
<1> DEFINE old == snapshot.points
           s == Len(old) + Rank(p, i)
           identity == p.points[i][1]
           id == Reducer!UniquePointId(<<0, i, 0>>, identity, s, Reducer!IdsOf(old))
<1>1. i \in 1..Len(p.points) /\ Len(p.points) \in Nat /\ identity \in Identities
      /\ p.points[i][2] \in Contents
  BY DEF Supplied
<1>2. i \in Places(p)
  BY <1>1 DEF Places
<1>3. Rank(p, i) \in Nat \ {0}
  BY <1>2, NewAreCounted
<1>4. old \in Seq(Points) /\ Len(old) \in Nat
  BY DEF Numbered
<1>5. s \in Nat \ {0}
  BY <1>3, <1>4
<1>6. Reducer!Reduced(p)[i] =
          [identity |-> identity, content |-> p.points[i][2], revision |-> 1,
           sequence |-> s, id |-> id]
  <2>1. Reducer!LastSequence(old) = Len(old)
    BY LastIsLength
  <2>2. Reducer!Cardinality({j \in 1..i : p.points[j][1] \notin Reducer!IdentitiesOf(old)})
            = Rank(p, i)
    BY SizeIsTheReducers DEF Rank, IsNew
  <2> QED BY <2>1, <2>2 DEF Reducer!Reduced, IsNew
<1>7. IsFiniteSet(Reducer!IdsOf(old))
  BY IdsAreFinite DEF Numbered, Apart
<1>8. /\ id \notin Reducer!IdsOf(old)
      /\ \/ id = <<0, i, 0>>
         \/ \E n \in Nat : id = <<identity, s, n>>
  BY <1>7, UniqueIsFree
<1> HIDE DEF id, s, identity, old
<1>9. id \in Reducer!Ids
  BY <1>1, <1>5, <1>8 DEF Reducer!Ids
<1>10. Reducer!Reduced(p)[i] \in Points
  BY <1>1, <1>5, <1>6, <1>9 DEF Points
<1> QED BY <1>6, <1>8, <1>10 DEF id, s, identity, old

LEMMA ReducedIsApart ==
    ASSUME NEW p, Supplied(p), 0 \notin Identities, Numbered(snapshot.points)
    PROVE  LET points == Reducer!Reduced(p)
           IN /\ points \in Seq(Points) /\ Len(points) = Len(p.points)
              /\ \A i \in DOMAIN points : points[i].identity = p.points[i][1]
              /\ \A i, j \in DOMAIN points :
                     points[i].id = points[j].id \/ points[i].identity = points[j].identity
                     => i = j
<1> DEFINE points == Reducer!Reduced(p)
           old == snapshot.points
           n == Len(p.points)
<1>1. n \in Nat /\ DOMAIN p.points = 1..n
  BY DEF Supplied
<1>2. points = [i \in 1..n |-> points[i]]
  BY <1>1 DEF Reducer!Reduced
<1>3. \A i \in 1..n : points[i] \in Points /\ points[i].identity = p.points[i][1]
  <2> SUFFICES ASSUME NEW i \in 1..n
               PROVE  points[i] \in Points /\ points[i].identity = p.points[i][1]
    OBVIOUS
  <2>1. i \in DOMAIN p.points
    BY <1>1
  <2>2. CASE IsNew(p, i)
    BY <2>1, <2>2, ReducedNew
  <2>3. CASE ~IsNew(p, i)
    <3>1. PICK k \in DOMAIN old :
              /\ old[k].identity = p.points[i][1]
              /\ points[i].identity = old[k].identity
              /\ points[i] \in Points
      BY <2>1, <2>3, ReducedOld
    <3> QED BY <3>1
  <2> QED BY <2>2, <2>3
<1>4. \A i, j \in 1..n : points[i].identity = points[j].identity => i = j
  BY <1>1, <1>3 DEF Supplied
<1>5. \A i, j \in 1..n : points[i].id = points[j].id => i = j
  <2> SUFFICES ASSUME NEW i \in 1..n, NEW j \in 1..n, points[i].id = points[j].id
               PROVE  i = j
    OBVIOUS
  <2>1. i \in DOMAIN p.points /\ j \in DOMAIN p.points
    BY <1>1
  <2>2. ASSUME NEW a \in 1..n, ~IsNew(p, a)
        PROVE  \E k \in DOMAIN old : old[k].identity = points[a].identity
                                     /\ old[k].id = points[a].id
    <3>1. a \in DOMAIN p.points
      BY <1>1
    <3>2. PICK k \in DOMAIN old :
              /\ points[a].identity = old[k].identity /\ points[a].id = old[k].id
      BY <2>2, <3>1, ReducedOld
    <3> QED BY <3>2
  <2>3. ASSUME NEW a \in 1..n, IsNew(p, a)
        PROVE  /\ points[a].id \notin Reducer!IdsOf(old)
               /\ \/ points[a].id = <<0, a, 0>>
                  \/ \E m \in Nat :
                         points[a].id = <<points[a].identity, points[a].sequence, m>>
    <3>1. a \in DOMAIN p.points
      BY <1>1
    <3> QED BY <2>3, <3>1, ReducedNew
  <2>4. CASE ~IsNew(p, i) /\ ~IsNew(p, j)
    <3>1. PICK k \in DOMAIN old : old[k].identity = points[i].identity
                                  /\ old[k].id = points[i].id
      BY <2>2, <2>4
    <3>2. PICK l \in DOMAIN old : old[l].identity = points[j].identity
                                  /\ old[l].id = points[j].id
      BY <2>2, <2>4
    <3>3. k = l
      BY <3>1, <3>2 DEF Numbered, Apart
    <3>4. points[i].identity = points[j].identity
      BY <3>1, <3>2, <3>3
    <3> QED BY <1>4, <3>4
  <2>5. ASSUME NEW a \in 1..n, NEW b \in 1..n, ~IsNew(p, a), IsNew(p, b)
        PROVE  points[a].id # points[b].id
    <3>1. PICK k \in DOMAIN old : old[k].id = points[a].id
      BY <2>2, <2>5
    <3>2. points[a].id \in Reducer!IdsOf(old)
      BY <3>1 DEF Reducer!IdsOf
    <3> QED BY <2>3, <2>5, <3>2
  <2>6. CASE IsNew(p, i) /\ IsNew(p, j)
    <3>1. points[i].identity \in Identities /\ points[j].identity \in Identities
      BY <1>3 DEF Points
    <3>2. /\ points[i].id = <<0, i, 0>>
             \/ \E m \in Nat : points[i].id = <<points[i].identity, points[i].sequence, m>>
          /\ points[j].id = <<0, j, 0>>
             \/ \E m \in Nat : points[j].id = <<points[j].identity, points[j].sequence, m>>
      BY <2>3, <2>6
    <3>3. i = j \/ points[i].identity = points[j].identity
      BY <3>1, <3>2
    <3> QED BY <1>4, <3>3
  <2> QED BY <2>4, <2>5, <2>6
<1> HIDE DEF points, n
<1>6. points \in Seq(Points) /\ Len(points) = n /\ DOMAIN points = 1..n
  BY <1>1, <1>2, <1>3
<1> QED BY <1>3, <1>4, <1>5, <1>6 DEF points, n

\* Without a correction or a drop, the new points go on from the last one.
LEMMA UnbuiltIsNumbered ==
    ASSUME NEW p, Supplied(p), 0 \notin Identities, Numbered(snapshot.points),
           ~Reducer!MustRebuild(p)
    PROVE  Numbered(Reducer!Reduced(p))
<1> DEFINE points == Reducer!Reduced(p)
           old == snapshot.points
           n == Len(p.points)
           c == Cardinality(Places(p))
<1>1. n \in Nat /\ DOMAIN p.points = 1..n
  BY DEF Supplied
<1>2. /\ points \in Seq(Points) /\ DOMAIN points = 1..n
      /\ \A i \in 1..n : points[i].identity = p.points[i][1]
      /\ \A i, j \in 1..n :
             points[i].id = points[j].id \/ points[i].identity = points[j].identity => i = j
  <2>1. points \in Seq(Points) /\ Len(points) = n /\ DOMAIN points = 1..Len(points)
    BY ReducedIsApart
  <2> QED BY <2>1, ReducedIsApart
<1>3. old \in Seq(Points) /\ Len(old) \in Nat /\ DOMAIN old = 1..Len(old)
      /\ {old[k].sequence : k \in DOMAIN old} = DOMAIN old
  BY DEF Numbered
<1>4. ASSUME NEW i \in 1..n, ~IsNew(p, i)
      PROVE  \E k \in DOMAIN old : old[k].identity = p.points[i][1]
                                   /\ points[i].sequence = old[k].sequence
  BY <1>1, <1>4, ReducedOld
<1>5. ASSUME NEW i \in 1..n, IsNew(p, i)
      PROVE  points[i].sequence = Len(old) + Rank(p, i)
  BY <1>1, <1>5, ReducedNew
<1>6. /\ c \in Nat
      /\ \A i \in Places(p) : Rank(p, i) \in 1..c
      /\ \A i, j \in Places(p) : Rank(p, i) = Rank(p, j) => i = j
      /\ \A s \in 1..c : \E i \in Places(p) : Rank(p, i) = s
  <2>1. {Rank(p, i) : i \in Places(p)} = 1..c
    BY NewAreCounted
  <2> QED BY <2>1, NewAreCounted
<1>7. \A i \in 1..n : i \in Places(p) <=> IsNew(p, i)
  BY DEF Places
<1>8. \A k \in DOMAIN old : \E i \in 1..n : p.points[i][1] = old[k].identity
  BY <1>1 DEF Reducer!MustRebuild, Reducer!Dropped, Range, Reducer!Range
<1> HIDE DEF points, old, n, c
<1>9. /\ \A k \in DOMAIN old : old[k].sequence \in 1..Len(old)
      /\ \A s \in 1..Len(old) : \E k \in DOMAIN old : old[k].sequence = s
  BY <1>3
<1>10. \A i, j \in 1..n : points[i].sequence = points[j].sequence => i = j
  <2> SUFFICES ASSUME NEW i \in 1..n, NEW j \in 1..n,
                      points[i].sequence = points[j].sequence
               PROVE  i = j
    OBVIOUS
  <2>1. CASE IsNew(p, i) /\ IsNew(p, j)
    <3>1. Rank(p, i) \in 1..c /\ Rank(p, j) \in 1..c /\ i \in Places(p) /\ j \in Places(p)
      BY <1>6, <1>7, <2>1
    <3>2. Len(old) + Rank(p, i) = Len(old) + Rank(p, j)
      BY <1>5, <2>1
    <3>3. Rank(p, i) = Rank(p, j)
      BY <1>3, <3>1, <3>2
    <3> QED BY <1>6, <3>1, <3>3
  <2>2. ASSUME NEW a \in 1..n, NEW b \in 1..n, ~IsNew(p, a), IsNew(p, b)
        PROVE  points[a].sequence # points[b].sequence
    <3>1. PICK k \in DOMAIN old : points[a].sequence = old[k].sequence
      BY <1>4, <2>2
    <3>2. points[a].sequence \in 1..Len(old)
      BY <1>9, <3>1
    <3>3. Rank(p, b) \in 1..c
      BY <1>6, <1>7, <2>2
    <3>4. points[b].sequence = Len(old) + Rank(p, b)
      BY <1>5, <2>2
    <3> QED BY <1>3, <1>6, <3>2, <3>3, <3>4
  <2>3. CASE ~IsNew(p, i) /\ ~IsNew(p, j)
    <3>1. PICK k \in DOMAIN old : old[k].identity = p.points[i][1]
                                  /\ points[i].sequence = old[k].sequence
      BY <1>4, <2>3
    <3>2. PICK l \in DOMAIN old : old[l].identity = p.points[j][1]
                                  /\ points[j].sequence = old[l].sequence
      BY <1>4, <2>3
    <3>3. k = l
      BY <3>1, <3>2 DEF Numbered, Apart, old
    <3> QED BY <1>2, <3>1, <3>2, <3>3
  <2> QED BY <2>1, <2>2, <2>3
<1>11. \A i \in 1..n : points[i].sequence \in 1..(Len(old) + c)
  <2> SUFFICES ASSUME NEW i \in 1..n PROVE points[i].sequence \in 1..(Len(old) + c)
    OBVIOUS
  <2>1. CASE IsNew(p, i)
    <3>1. Rank(p, i) \in 1..c
      BY <1>6, <1>7, <2>1
    <3>2. points[i].sequence = Len(old) + Rank(p, i)
      BY <1>5, <2>1
    <3> QED BY <1>3, <1>6, <3>1, <3>2
  <2>2. CASE ~IsNew(p, i)
    <3>1. points[i].sequence \in 1..Len(old)
      BY <1>4, <1>9, <2>2
    <3> QED BY <1>3, <1>6, <3>1
  <2> QED BY <2>1, <2>2
<1>12. \A s \in 1..(Len(old) + c) : \E i \in 1..n : points[i].sequence = s
  <2> SUFFICES ASSUME NEW s \in 1..(Len(old) + c)
               PROVE  \E i \in 1..n : points[i].sequence = s
    OBVIOUS
  <2>1. CASE s \in 1..Len(old)
    <3>1. PICK k \in DOMAIN old : old[k].sequence = s
      BY <1>9, <2>1
    <3>2. PICK i \in 1..n : p.points[i][1] = old[k].identity
      BY <1>8
    <3>3. ~IsNew(p, i)
      BY <3>2 DEF IsNew, Reducer!IdentitiesOf, old
    <3>4. PICK l \in DOMAIN old : old[l].identity = p.points[i][1]
                                  /\ points[i].sequence = old[l].sequence
      BY <1>4, <3>3
    <3>5. k = l
      BY <3>2, <3>4 DEF Numbered, Apart, old
    <3> QED BY <3>1, <3>4, <3>5
  <2>2. CASE s \notin 1..Len(old)
    <3>1. s - Len(old) \in 1..c
      BY <1>3, <1>6, <2>2
    <3>2. PICK i \in Places(p) : Rank(p, i) = s - Len(old)
      BY <1>6, <3>1
    <3>3. i \in 1..n /\ IsNew(p, i)
      BY DEF Places, n
    <3>4. points[i].sequence = Len(old) + (s - Len(old))
      BY <1>5, <3>2, <3>3
    <3> QED BY <1>3, <3>3, <3>4
  <2> QED BY <2>1, <2>2
<1>13. {points[i].sequence : i \in 1..n} = 1..(Len(old) + c)
  BY <1>11, <1>12
<1>14. n = Len(old) + c
  <2> DEFINE f == [i \in 1..n |-> points[i].sequence]
  <2>1. {f[i] : i \in 1..n} = 1..(Len(old) + c)
    BY <1>13
  <2>2. DOMAIN f = 1..n /\ \A i, j \in 1..n : f[i] = f[j] => i = j
    BY <1>10
  <2> HIDE DEF f
  <2>3. n \in Nat
    BY <1>1
  <2>4. IsFiniteSet({f[i] : i \in 1..n}) /\ Cardinality({f[i] : i \in 1..n}) = n
    BY <2>2, <2>3, ApartAreAsMany
  <2>5. Cardinality(1..(Len(old) + c)) = Len(old) + c
    BY <1>3, <1>6, FS_Interval
  <2> QED BY <2>1, <2>4, <2>5
<1>15. Apart(points)
  BY <1>2, <1>10 DEF Apart
<1> QED BY <1>2, <1>13, <1>14, <1>15 DEF Numbered, points

\* A rebuild numbers the points in the order of the payload; those that move
\* have ids that neither the snapshot nor the payload has.
LEMMA RebuiltIsNumbered ==
    ASSUME NEW p, Supplied(p), 0 \notin Identities, Numbered(snapshot.points)
    PROVE  LET points == Reducer!Reduced(p)
               built == Reducer!Rebuilt(p)
           IN /\ Numbered(built) /\ Len(built) = Len(p.points) /\ Len(points) = Len(p.points)
              /\ \A i \in DOMAIN built :
                     /\ built[i].identity = points[i].identity
                     /\ built[i].content = points[i].content
                     /\ built[i].revision = points[i].revision
<1> DEFINE points == Reducer!Reduced(p)
           built == Reducer!Rebuilt(p)
           n == Len(p.points)
           used == Reducer!IdsOf(snapshot.points) \cup Reducer!IdsOf(points)
           IsStored(i) == points[i].identity \in Reducer!IdentitiesOf(snapshot.points)
           newId(i) == IF IsStored(i)
                       THEN Reducer!UniquePointId(points[i].id, points[i].identity, i, used)
                       ELSE points[i].id
<1>1. /\ points \in Seq(Points) /\ Len(points) = n
      /\ \A i, j \in DOMAIN points :
             points[i].id = points[j].id \/ points[i].identity = points[j].identity => i = j
  BY ReducedIsApart
<1>2. n \in Nat /\ DOMAIN points = 1..n
  BY <1>1 DEF Supplied
<1>3. CASE ~Reducer!MustRebuild(p)
  <2>1. built = points
    BY <1>3 DEF Reducer!Rebuilt
  <2>2. Numbered(points)
    BY <1>3, UnbuiltIsNumbered
  <2> HIDE DEF points, built, n
  <2> QED BY <1>1, <2>1, <2>2 DEF points, built, n
<1>4. CASE Reducer!MustRebuild(p)
  <2>1. built = [i \in 1..n |-> IF points[i].sequence = i THEN points[i]
                                ELSE [points[i] EXCEPT !.sequence = i, !.id = newId(i)]]
    BY <1>2, <1>4 DEF Reducer!Rebuilt
  <2>2. IsFiniteSet(used)
    <3>1. IsFiniteSet(Reducer!IdsOf(snapshot.points))
      BY IdsAreFinite DEF Numbered, Apart
    <3>2. IsFiniteSet(Reducer!IdsOf(points))
      BY <1>1, IdsAreFinite
    <3> QED BY <3>1, <3>2, FS_Union
  <2>3. \A i \in 1..n : points[i].id \in used
    BY <1>2 DEF Reducer!IdsOf
  <2>4. ASSUME NEW i \in 1..n
        PROVE  \/ newId(i) = points[i].id
               \/ newId(i) \notin used /\ \E m \in Nat : newId(i) = <<points[i].identity, i, m>>
    <3>1. CASE IsStored(i)
      <4>1. newId(i) = Reducer!UniquePointId(points[i].id, points[i].identity, i, used)
        BY <3>1
      <4>2. points[i].id \in used
        BY <2>3
      <4> HIDE DEF used, newId, points, IsStored
      <4> QED BY <2>2, <4>1, <4>2, UniqueIsFree
    <3>2. CASE ~IsStored(i)
      BY <3>2
    <3> QED BY <3>1, <3>2
  <2> HIDE DEF points, used, built, n, newId
  <2>5. ASSUME NEW i \in 1..n PROVE newId(i) \in Reducer!Ids
    <3>1. points[i] \in Points /\ i \in Nat
      BY <1>1, <1>2
    <3>2. points[i].id \in Reducer!Ids /\ points[i].identity \in Identities
      BY <3>1 DEF Points
    <3> QED BY <2>4, <3>1, <3>2 DEF Reducer!Ids
  <2>6. ASSUME NEW i \in 1..n
        PROVE  /\ built[i] \in Points /\ built[i].sequence = i
               /\ built[i].id = points[i].id \/ built[i].id = newId(i)
               /\ built[i].identity = points[i].identity
               /\ built[i].content = points[i].content
               /\ built[i].revision = points[i].revision
    <3>1. points[i] \in Points /\ newId(i) \in Reducer!Ids /\ i \in Nat \ {0}
      BY <1>1, <1>2, <2>5
    <3>2. CASE points[i].sequence = i
      BY <2>1, <3>1, <3>2
    <3>3. CASE points[i].sequence # i
      <4>1. built[i] = [points[i] EXCEPT !.sequence = i, !.id = newId(i)]
        BY <2>1, <3>3
      <4>2. built[i].sequence = i /\ built[i].id = newId(i)
        BY <3>1, <4>1 DEF Points
      <4>3. /\ built[i].identity = points[i].identity
            /\ built[i].content = points[i].content
            /\ built[i].revision = points[i].revision
        BY <3>1, <4>1 DEF Points
      <4>4. built[i] \in Points
        BY <3>1, <4>1 DEF Points
      <4> QED BY <4>2, <4>3, <4>4
    <3> QED BY <3>2, <3>3
  <2>7. ASSUME NEW i \in 1..n, NEW j \in 1..n, built[i].id = built[j].id PROVE i = j
    <3> DEFINE Kept(a) == built[a].id = points[a].id
               Moved(a) == built[a].id \notin used
                           /\ \E m \in Nat : built[a].id = <<points[a].identity, a, m>>
    <3>1. \A a \in 1..n : Kept(a) \/ Moved(a)
      BY <2>4, <2>6
    <3>2. CASE Kept(i) /\ Kept(j)
      BY <1>1, <1>2, <2>7, <3>2
    <3>3. CASE Moved(i) /\ Moved(j)
      <4>1. PICK m \in Nat : built[i].id = <<points[i].identity, i, m>>
        BY <3>3
      <4>2. PICK l \in Nat : built[j].id = <<points[j].identity, j, l>>
        BY <3>3
      <4>3. <<points[i].identity, i, m>> = <<points[j].identity, j, l>>
        BY <2>7, <4>1, <4>2
      <4> QED BY <4>3
    <3>4. CASE Kept(i) /\ Moved(j)
      BY <2>3, <2>7, <3>4
    <3>5. CASE Moved(i) /\ Kept(j)
      BY <2>3, <2>7, <3>5
    <3> QED BY <3>1, <3>2, <3>3, <3>4, <3>5
  <2>8. built \in Seq(Points) /\ Len(built) = n /\ DOMAIN built = 1..n
    <3>1. built = [i \in 1..n |-> built[i]]
      BY <2>1
    <3>2. \A i \in 1..n : built[i] \in Points
      BY <2>6
    <3> QED BY <1>2, <3>1, <3>2
  <2>9. Apart(built)
    <3> SUFFICES ASSUME NEW i \in 1..n, NEW j \in 1..n,
                        \/ built[i].id = built[j].id
                        \/ built[i].identity = built[j].identity
                        \/ built[i].sequence = built[j].sequence
                 PROVE  i = j
      BY <2>8 DEF Apart
    <3> QED BY <1>1, <1>2, <2>6, <2>7
  <2>10. {built[i].sequence : i \in 1..n} = 1..n
    BY <2>6
  <2>11. Numbered(built)
    BY <2>8, <2>9, <2>10 DEF Numbered
  <2> QED BY <1>1, <2>6, <2>8, <2>11 DEF points, built, n
<1> QED BY <1>3, <1>4

-----------------------------------------------------------------------------
(* The rows of the points *)

Rows == [identity : Identities, content : Contents, revision : Nat, id : Reducer!Ids]
Same(row, point) ==
    /\ row.identity = point.identity /\ row.content = point.content
    /\ row.revision = point.revision
Saved(points, kept) ==
    /\ kept \in Seq(Rows)
    /\ \A s, t \in DOMAIN kept : kept[s].id = kept[t].id => s = t
    /\ \A i \in DOMAIN points : points[i].sequence \in DOMAIN kept
                                /\ Same(kept[points[i].sequence], points[i])

LEMMA RowsAreSaved ==
    ASSUME NEW points, Numbered(points), NEW earlier, Saved(earlier, rows),
           ~Reducer!IdTaken(points)
    PROVE  Saved(points, Reducer!SavedRows(points))
<1> DEFINE n == Len(points)
           k == Len(rows)
           top == IF n > k THEN n ELSE k
           saved == Reducer!SavedRows(points)
           bySequence(s) == {i \in DOMAIN points : points[i].sequence = s}
<1>1. /\ points \in Seq(Points) /\ n \in Nat /\ DOMAIN points = 1..n
      /\ rows \in Seq(Rows) /\ k \in Nat /\ DOMAIN rows = 1..k
      /\ top \in Nat /\ n <= top /\ k <= top /\ (top = n \/ top = k)
  BY DEF Numbered, Saved
<1>2. /\ \A i \in DOMAIN points : points[i].sequence \in 1..n
      /\ \A s \in 1..n : \E i \in DOMAIN points : points[i].sequence = s
      /\ \A i, j \in DOMAIN points : points[i].sequence = points[j].sequence => i = j
  <2>1. {points[i].sequence : i \in DOMAIN points} = 1..n
    BY <1>1 DEF Numbered
  <2> QED BY <2>1 DEF Numbered, Apart
<1>3. saved = [s \in 1..top |->
          IF bySequence(s) = {} THEN rows[s]
          ELSE IF s \in DOMAIN rows
               THEN [Reducer!RowOf(points[CHOOSE i \in bySequence(s) : TRUE])
                         EXCEPT !.id = rows[s].id]
               ELSE Reducer!RowOf(points[CHOOSE i \in bySequence(s) : TRUE])]
  BY DEF Reducer!SavedRows
<1> HIDE DEF n, k, top, saved
<1>4. ASSUME NEW i \in DOMAIN points, NEW s, s = points[i].sequence
      PROVE  /\ s \in 1..top /\ saved[s] \in Rows /\ Same(saved[s], points[i])
             /\ saved[s].id = IF s \in DOMAIN rows THEN rows[s].id ELSE points[i].id
  <2>1. s \in 1..n /\ s \in 1..top
    BY <1>1, <1>2, <1>4
  <2>2. bySequence(s) = {i}
    BY <1>2, <1>4
  <2>3. (CHOOSE a \in bySequence(s) : TRUE) = i
    BY <2>2
  <2>4. points[i] \in Points
    BY <1>1
  <2>5. CASE s \in DOMAIN rows
    <3>1. rows[s].id \in Reducer!Ids
      <4>1. rows[s] \in Rows
        BY <1>1, <2>5
      <4> QED BY <4>1 DEF Rows
    <3>2. saved[s] = [Reducer!RowOf(points[i]) EXCEPT !.id = rows[s].id]
      BY <1>3, <2>1, <2>2, <2>3, <2>5
    <3>3. saved[s] = [identity |-> points[i].identity, content |-> points[i].content,
                      revision |-> points[i].revision, id |-> rows[s].id]
      BY <3>2 DEF Reducer!RowOf
    <3> HIDE DEF bySequence
    <3> QED BY <2>1, <2>4, <2>5, <3>1, <3>3 DEF Rows, Points, Same
  <2>6. CASE s \notin DOMAIN rows
    <3>1. saved[s] = Reducer!RowOf(points[i])
      BY <1>3, <2>1, <2>2, <2>3, <2>6
    <3> HIDE DEF bySequence
    <3> QED BY <2>1, <2>4, <2>6, <3>1 DEF Reducer!RowOf, Rows, Points, Same
  <2> QED BY <2>5, <2>6
<1>5. ASSUME NEW s \in 1..top, s \notin 1..n
      PROVE  s \in DOMAIN rows /\ saved[s] = rows[s]
  <2>1. bySequence(s) = {}
    BY <1>2, <1>5
  <2>2. saved[s] = rows[s]
    BY <1>3, <2>1
  <2>3. s \in DOMAIN rows
    BY <1>1, <1>5
  <2> QED BY <2>2, <2>3
<1>6. ASSUME NEW s \in 1..top
      PROVE  /\ saved[s] \in Rows
             /\ s \in DOMAIN rows => saved[s].id = rows[s].id
             /\ s \notin DOMAIN rows =>
                    \E i \in DOMAIN points :
                        /\ points[i].sequence = s /\ saved[s].id = points[i].id
                        /\ saved[s].id \notin Reducer!IdsOf(rows)
  <2>1. CASE s \in 1..n
    <3>1. PICK i \in DOMAIN points : points[i].sequence = s
      BY <1>2, <2>1
    <3>2. s \notin DOMAIN rows => points[i].id \notin Reducer!IdsOf(rows)
      BY <3>1 DEF Reducer!IdTaken
    <3> QED BY <1>4, <3>1, <3>2
  <2>2. CASE s \notin 1..n
    <3>1. s \in DOMAIN rows /\ saved[s] = rows[s]
      BY <1>5, <2>2
    <3> QED BY <1>1, <3>1
  <2> QED BY <2>1, <2>2
<1>7. saved \in Seq(Rows) /\ DOMAIN saved = 1..top
  <2>1. saved = [s \in 1..top |-> saved[s]]
    BY <1>3
  <2> QED BY <1>1, <1>6, <2>1
<1>8. ASSUME NEW s \in 1..top, NEW t \in 1..top, saved[s].id = saved[t].id PROVE s = t
  <2>1. CASE s \in DOMAIN rows /\ t \in DOMAIN rows
    BY <1>6, <1>8, <2>1 DEF Saved
  <2>2. CASE s \notin DOMAIN rows /\ t \notin DOMAIN rows
    <3>1. PICK i \in DOMAIN points : points[i].sequence = s /\ saved[s].id = points[i].id
      BY <1>6, <2>2
    <3>2. PICK j \in DOMAIN points : points[j].sequence = t /\ saved[t].id = points[j].id
      BY <1>6, <2>2
    <3>3. i = j
      BY <1>8, <3>1, <3>2 DEF Numbered, Apart
    <3> QED BY <3>1, <3>2, <3>3
  <2>3. \A a \in DOMAIN rows : rows[a].id \in Reducer!IdsOf(rows)
    BY DEF Reducer!IdsOf
  <2>4. CASE s \in DOMAIN rows /\ t \notin DOMAIN rows
    BY <1>6, <1>8, <2>3, <2>4
  <2>5. CASE s \notin DOMAIN rows /\ t \in DOMAIN rows
    BY <1>6, <1>8, <2>3, <2>5
  <2> QED BY <2>1, <2>2, <2>4, <2>5
<1> HIDE DEF bySequence
<1> QED BY <1>4, <1>7, <1>8 DEF Saved, saved

\* A load without rows behind the last point numbers the same points.
LEMMA LoadIsNumbered ==
    ASSUME NEW points, Numbered(points), Saved(points, rows), Len(rows) <= Len(points)
    PROVE  LET loaded == Reducer!LoadedPoints
           IN /\ Numbered(loaded) /\ Len(loaded) = Len(points) /\ Saved(loaded, rows)
              /\ \A i \in DOMAIN points, j \in DOMAIN loaded :
                     points[i].identity = loaded[j].identity => Same(loaded[j], points[i])
<1> DEFINE n == Len(points)
           loaded == Reducer!LoadedPoints
<1>1. /\ points \in Seq(Points) /\ n \in Nat /\ DOMAIN points = 1..n
      /\ rows \in Seq(Rows) /\ Len(rows) \in Nat /\ DOMAIN rows = 1..Len(rows)
  BY DEF Numbered, Saved
<1>2. \A s \in 1..n : \E i \in DOMAIN points : points[i].sequence = s
  <2>1. {points[i].sequence : i \in DOMAIN points} = 1..n
    BY <1>1 DEF Numbered
  <2> QED BY <2>1
<1>3. \A s \in 1..n : s \in DOMAIN rows /\ \E i \in DOMAIN points :
                          points[i].sequence = s /\ Same(rows[s], points[i])
  BY <1>2 DEF Saved
<1>4. Len(rows) = n
  <2>1. n = 0 \/ n \in 1..Len(rows)
    <3>1. n = 0 \/ n \in 1..n
      BY <1>1
    <3>2. n \in 1..n => n \in DOMAIN rows
      BY <1>3
    <3> QED BY <1>1, <3>1, <3>2
  <2>2. n \in Nat /\ Len(rows) \in Nat
    BY <1>1
  <2>3. Len(rows) <= n
    OBVIOUS
  <2> HIDE DEF n
  <2> QED BY <2>1, <2>2, <2>3
<1>5. loaded = [s \in 1..n |->
          [identity |-> rows[s].identity, content |-> rows[s].content,
           revision |-> rows[s].revision, sequence |-> s, id |-> rows[s].id]]
  BY <1>1, <1>4 DEF Reducer!LoadedPoints
<1> HIDE DEF loaded, n
<1>6. ASSUME NEW s \in 1..n
      PROVE  /\ loaded[s] \in Points /\ loaded[s].sequence = s
             /\ loaded[s].id = rows[s].id /\ Same(rows[s], loaded[s])
  <2>1. rows[s] \in Rows /\ s \in Nat \ {0}
    BY <1>1, <1>4
  <2>2. loaded[s] = [identity |-> rows[s].identity, content |-> rows[s].content,
                     revision |-> rows[s].revision, sequence |-> s, id |-> rows[s].id]
    BY <1>5
  <2> QED BY <2>1, <2>2 DEF Rows, Points, Same
<1>7. loaded \in Seq(Points) /\ DOMAIN loaded = 1..n /\ Len(loaded) = n
  BY <1>1, <1>5, <1>6
<1>8. ASSUME NEW s \in 1..n, NEW t \in 1..n, loaded[s].identity = loaded[t].identity
      PROVE  s = t
  <2>1. PICK i \in DOMAIN points : points[i].sequence = s /\ Same(rows[s], points[i])
    BY <1>3
  <2>2. PICK j \in DOMAIN points : points[j].sequence = t /\ Same(rows[t], points[j])
    BY <1>3
  <2>3. points[i].identity = points[j].identity
    BY <1>6, <1>8, <2>1, <2>2 DEF Same
  <2>4. i = j
    BY <2>3 DEF Numbered, Apart
  <2> QED BY <2>1, <2>2, <2>4
<1>9. \A s, t \in 1..n : loaded[s].id = loaded[t].id => s = t
  BY <1>1, <1>4, <1>6 DEF Saved
<1>10. Numbered(loaded)
  <2>1. {loaded[s].sequence : s \in 1..n} = 1..n
    BY <1>6
  <2>2. Apart(loaded)
    BY <1>6, <1>7, <1>8, <1>9 DEF Apart
  <2> QED BY <1>7, <2>1, <2>2 DEF Numbered
<1>11. Saved(loaded, rows)
  BY <1>1, <1>4, <1>6, <1>7 DEF Saved
<1>12. ASSUME NEW i \in DOMAIN points, NEW j \in 1..n, points[i].identity = loaded[j].identity
       PROVE  Same(loaded[j], points[i])
  <2>1. PICK a \in DOMAIN points : points[a].sequence = j /\ Same(rows[j], points[a])
    BY <1>3
  <2>2. points[a].identity = points[i].identity
    BY <1>6, <1>12, <2>1 DEF Same
  <2>3. a = i
    BY <2>2 DEF Numbered, Apart
  <2> QED BY <1>6, <2>1, <2>3 DEF Same
<1> QED BY <1>7, <1>10, <1>11, <1>12 DEF loaded, n

LEMMA SignatureIsAsLong ==
    ASSUME NEW points, Numbered(points)
    PROVE  Reducer!Cardinality(Reducer!MomentumSignature(points)) = Len(points)
<1> DEFINE n == Len(points)
           f == [i \in 1..n |-> <<points[i].sequence, points[i].content>>]
<1>1. n \in Nat /\ DOMAIN points = 1..n
  BY DEF Numbered
<1>2. DOMAIN f = 1..n /\ \A i, j \in 1..n : f[i] = f[j] => i = j
  <2> SUFFICES ASSUME NEW i \in 1..n, NEW j \in 1..n, f[i] = f[j] PROVE i = j
    OBVIOUS
  <2>1. points[i].sequence = points[j].sequence
    OBVIOUS
  <2> QED BY <1>1, <2>1 DEF Numbered, Apart
<1>3. Reducer!MomentumSignature(points) = {f[i] : i \in 1..n}
  BY <1>1 DEF Reducer!MomentumSignature
<1> HIDE DEF f, n
<1>4. IsFiniteSet({f[i] : i \in 1..n}) /\ Cardinality({f[i] : i \in 1..n}) = n
  BY <1>1, <1>2, ApartAreAsMany
<1> QED BY <1>3, <1>4, SizeIsTheReducers DEF n

-----------------------------------------------------------------------------
(* The reducer's invariant *)

ReducerInv ==
    ~ghosts =>
        /\ Numbered(snapshot.points)
        /\ Saved(snapshot.points, rows)
        /\ Reducer!Cardinality(derived.momentum) = Len(snapshot.points)

LEMMA ReducerStarts == Reducer!Init => ReducerInv
<1> SUFFICES ASSUME Reducer!Init PROVE ReducerInv
  OBVIOUS
<1>1. snapshot.points = <<>> /\ rows = <<>> /\ derived.momentum = {}
  BY DEF Reducer!Init, Reducer!NoSnapshot, Reducer!DerivedOf
<1>2. Numbered(<<>>)
  BY DEF Numbered, Apart
<1>3. Saved(<<>>, <<>>)
  BY DEF Saved
<1>4. Reducer!Cardinality({}) = 0
  BY SizeIsTheReducers, FS_EmptySet
<1> QED BY <1>1, <1>2, <1>3, <1>4 DEF ReducerInv

LEMMA DeliverKeepsInv ==
    ASSUME Reducer!PayloadsAreSupplied, ReducerInv,
           NEW p \in Payloads, NEW clockMoved \in BOOLEAN, Reducer!Deliver(p, clockMoved)
    PROVE  ReducerInv' /\ Reducer!Revises
<1> DEFINE new == Reducer!Candidate(p)
           points == Reducer!Reduced(p)
           built == Reducer!Rebuilt(p)
<1>1. ghosts' = ghosts
  BY DEF Reducer!Deliver
<1>2. CASE UNCHANGED <<snapshot, rows, history, state, derived>>
  <2>1. ReducerInv'
    BY <1>1, <1>2 DEF ReducerInv, Numbered, Saved, Apart
  <2>2. Reducer!Revises
    <3> SUFFICES ASSUME ~ghosts, NEW i \in DOMAIN snapshot.points,
                        NEW j \in DOMAIN snapshot.points,
                        snapshot.points[i].identity = snapshot.points[j].identity
                 PROVE  /\ snapshot.points[j].revision >= snapshot.points[i].revision
                        /\ snapshot.points[i].content = snapshot.points[j].content
      BY <1>1, <1>2 DEF Reducer!Revises
    <3>1. Numbered(snapshot.points)
      BY DEF ReducerInv
    <3>2. i = j /\ snapshot.points[i] \in Points
      BY <3>1 DEF Numbered, Apart
    <3>3. snapshot.points[i].revision \in Nat
      BY <3>2 DEF Points
    <3> QED BY <3>2, <3>3
  <2> QED BY <2>1, <2>2
<1>3. CASE /\ ~ghosts /\ snapshot' = new /\ rows' = Reducer!SavedRows(new.points)
           /\ history' = history \cup Reducer!RevisionsOf(p)
           /\ derived' = Reducer!DerivedOf(new)
           /\ ~Reducer!IdTaken(new.points)
  <2>1. Supplied(p) /\ 0 \notin Identities
    BY DEF Reducer!PayloadsAreSupplied, Supplied
  <2>2. Numbered(snapshot.points) /\ Saved(snapshot.points, rows)
    BY <1>3 DEF ReducerInv
  <2>3. new.points = built /\ new.momentum = Reducer!MomentumSignature(built)
    BY DEF Reducer!Candidate
  <2>4. /\ Numbered(built) /\ Len(built) = Len(p.points) /\ Len(points) = Len(p.points)
        /\ \A j \in DOMAIN built :
               /\ built[j].identity = points[j].identity
               /\ built[j].content = points[j].content
               /\ built[j].revision = points[j].revision
    BY <2>1, <2>2, RebuiltIsNumbered
  <2>5. snapshot'.points = built /\ derived'.momentum = Reducer!MomentumSignature(built)
    BY <1>3, <2>3 DEF Reducer!DerivedOf
  <2>6. Saved(built, rows')
    BY <1>3, <2>2, <2>3, <2>4, RowsAreSaved
  <2>7. Reducer!Cardinality(derived'.momentum) = Len(built)
    BY <2>4, <2>5, SignatureIsAsLong
  <2> HIDE DEF new, points, built
  <2>8. ReducerInv'
    BY <2>4, <2>5, <2>6, <2>7 DEF ReducerInv
  <2>9. Reducer!Revises
    <3> SUFFICES ASSUME NEW i \in DOMAIN snapshot.points, NEW j \in DOMAIN built,
                        snapshot.points[i].identity = built[j].identity
                 PROVE  /\ built[j].revision >= snapshot.points[i].revision
                        /\ snapshot.points[i].content # built[j].content =>
                               <<snapshot.points[i].id, built[j].revision>> \in history'
      BY <2>5 DEF Reducer!Revises
    <3>1. j \in DOMAIN points /\ j \in DOMAIN p.points /\ DOMAIN points = DOMAIN p.points
      <4>1. points \in Seq(Points)
        BY <2>1, <2>2, ReducedIsApart DEF points
      <4>2. built \in Seq(Points) /\ p.points \in Seq(Identities \X Contents)
        BY <2>1, <2>4 DEF Numbered, Supplied
      <4> QED BY <2>4, <4>1, <4>2
    <3>2. p.points[j][1] = snapshot.points[i].identity
      <4>1. points[j].identity = p.points[j][1]
        BY <2>1, <2>2, <3>1, ReducedIsApart DEF points
      <4> QED BY <2>4, <4>1
    <3>3. ~IsNew(p, j)
      BY <3>2 DEF IsNew, Reducer!IdentitiesOf
    <3>4. PICK k \in DOMAIN snapshot.points :
              /\ snapshot.points[k].identity = p.points[j][1]
              /\ Reducer!Stored(snapshot.points, p.points[j][1]) = snapshot.points[k]
              /\ points[j].content = p.points[j][2]
              /\ points[j].revision = IF p.points[j][2] = snapshot.points[k].content
                                      THEN snapshot.points[k].revision
                                      ELSE snapshot.points[k].revision + 1
      BY <2>1, <2>2, <3>1, <3>3, ReducedOld DEF points
    <3>5. k = i
      BY <2>2, <3>2, <3>4 DEF Numbered, Apart
    <3>6. snapshot.points[i].revision \in Nat
      <4>1. snapshot.points[i] \in Points
        BY <2>2 DEF Numbered
      <4> QED BY <4>1 DEF Points
    <3>7. built[j].revision >= snapshot.points[i].revision
      BY <2>4, <3>4, <3>5, <3>6
    <3>8. ASSUME snapshot.points[i].content # built[j].content
          PROVE  <<snapshot.points[i].id, built[j].revision>> \in history'
      <4>1. p.points[j][2] # snapshot.points[i].content
        BY <2>4, <3>4, <3>8
      <4>2. j \in Reducer!Corrected(p)
        BY <3>1, <3>3, <3>4, <3>5, <4>1 DEF Reducer!Corrected, IsNew
      <4>3. <<snapshot.points[i].id, snapshot.points[i].revision + 1>>
                \in Reducer!RevisionsOf(p)
        BY <3>4, <3>5, <4>2 DEF Reducer!RevisionsOf
      <4>4. built[j].revision = snapshot.points[i].revision + 1
        BY <2>4, <3>4, <3>5, <4>1
      <4> QED BY <1>3, <4>3, <4>4
    <3> QED BY <3>7, <3>8
  <2> QED BY <2>8, <2>9
<1>4. \/ UNCHANGED <<snapshot, rows, history, state, derived>>
      \/ /\ snapshot' = new /\ rows' = Reducer!SavedRows(new.points)
         /\ history' = history \cup Reducer!RevisionsOf(p)
         /\ derived' = Reducer!DerivedOf(new)
         /\ ~Reducer!IdTaken(new.points)
  BY DEF Reducer!Deliver
<1>5. CASE ghosts
  BY <1>1, <1>5 DEF ReducerInv, Reducer!Revises
<1> HIDE DEF new
<1> QED BY <1>2, <1>3, <1>4, <1>5

LEMMA LoadKeepsInv ==
    ASSUME ReducerInv, Reducer!LoadSnapshot
    PROVE  ReducerInv' /\ Reducer!Revises
<1> DEFINE loaded == Reducer!LoadedPoints
           points == snapshot.points
<1>1. /\ snapshot'.points = loaded /\ rows' = rows /\ derived' = derived
      /\ ghosts' = (ghosts \/ Len(rows) > Reducer!Cardinality(derived.momentum))
  BY DEF Reducer!LoadSnapshot
<1>2. CASE ghosts'
  BY <1>2 DEF ReducerInv, Reducer!Revises
<1>3. CASE ~ghosts'
  <2>1. /\ Numbered(points) /\ Saved(points, rows)
        /\ Reducer!Cardinality(derived.momentum) = Len(points)
    BY <1>1, <1>3 DEF ReducerInv
  <2>2. Len(rows) <= Len(points)
    <3>1. Len(rows) \in Nat /\ Len(points) \in Nat
      BY <2>1 DEF Numbered, Saved
    <3>2. ~(Len(rows) > Reducer!Cardinality(derived.momentum))
      BY <1>1, <1>3
    <3> QED BY <2>1, <3>1, <3>2
  <2>3. /\ Numbered(loaded) /\ Len(loaded) = Len(points) /\ Saved(loaded, rows)
        /\ \A i \in DOMAIN points, j \in DOMAIN loaded :
               points[i].identity = loaded[j].identity => Same(loaded[j], points[i])
    BY <2>1, <2>2, LoadIsNumbered
  <2> HIDE DEF loaded
  <2>4. ReducerInv'
    BY <1>1, <2>1, <2>3 DEF ReducerInv
  <2>5. Reducer!Revises
    <3> SUFFICES ASSUME NEW i \in DOMAIN points, NEW j \in DOMAIN loaded,
                        points[i].identity = loaded[j].identity
                 PROVE  /\ loaded[j].revision >= points[i].revision
                        /\ points[i].content = loaded[j].content
      BY <1>1 DEF Reducer!Revises
    <3>n. points \in Seq(Points)
      BY <2>1 DEF Numbered
    <3>1. Same(loaded[j], points[i]) /\ points[i] \in Points
      BY <2>3, <3>n
    <3>2. points[i].revision \in Nat
      BY <3>1 DEF Points
    <3> QED BY <3>1, <3>2 DEF Same
  <2> QED BY <2>4, <2>5
<1> QED BY <1>2, <1>3

LEMMA ReducerSteps ==
    ASSUME Reducer!PayloadsAreSupplied, ReducerInv, [Reducer!Next]_match
    PROVE  ReducerInv' /\ (match' = match \/ Reducer!Revises)
<1>1. CASE Reducer!LoadSnapshot
  BY <1>1, LoadKeepsInv
<1>2. CASE \E p \in Payloads, clockMoved \in BOOLEAN : Reducer!Deliver(p, clockMoved)
  BY <1>2, DeliverKeepsInv
<1>3. CASE UNCHANGED match
  BY <1>3 DEF match, ReducerInv, Numbered, Saved, Apart
<1> QED BY <1>1, <1>2, <1>3 DEF Reducer!Next

LEMMA InvNumbersPoints == ASSUME ReducerInv PROVE Reducer!PointsAreNumbered
<1> DEFINE points == snapshot.points
           n == Len(points)
           ids == [i \in 1..n |-> points[i].id]
           identities == [i \in 1..n |-> points[i].identity]
<1> SUFFICES ASSUME ~ghosts
             PROVE  /\ Reducer!Cardinality(Reducer!IdsOf(points)) = n
                    /\ Reducer!Cardinality(Reducer!IdentitiesOf(points)) = n
                    /\ {points[i].sequence : i \in DOMAIN points} = DOMAIN points
  BY DEF Reducer!PointsAreNumbered
<1>1. Numbered(points)
  BY DEF ReducerInv
<1>2. n \in Nat /\ DOMAIN points = 1..n
  BY <1>1 DEF Numbered
<1>3. DOMAIN ids = 1..n /\ \A i, j \in 1..n : ids[i] = ids[j] => i = j
  BY <1>1, <1>2 DEF Numbered, Apart
<1>4. DOMAIN identities = 1..n /\ \A i, j \in 1..n : identities[i] = identities[j] => i = j
  BY <1>1, <1>2 DEF Numbered, Apart
<1>5. /\ Reducer!IdsOf(points) = {ids[i] : i \in 1..n}
      /\ Reducer!IdentitiesOf(points) = {identities[i] : i \in 1..n}
  BY <1>2 DEF Reducer!IdsOf, Reducer!IdentitiesOf
<1> HIDE DEF ids, identities, n
<1>6. IsFiniteSet({ids[i] : i \in 1..n}) /\ Cardinality({ids[i] : i \in 1..n}) = n
  BY <1>2, <1>3, ApartAreAsMany
<1>7. /\ IsFiniteSet({identities[i] : i \in 1..n})
      /\ Cardinality({identities[i] : i \in 1..n}) = n
  BY <1>2, <1>4, ApartAreAsMany
<1> QED BY <1>1, <1>5, <1>6, <1>7, SizeIsTheReducers DEF Numbered

LEMMA InvHoldsRows == ASSUME ReducerInv PROVE Reducer!RowsHoldTheSnapshot
<1> SUFFICES ASSUME ~ghosts, NEW i \in DOMAIN snapshot.points
             PROVE  LET point == snapshot.points[i]
                    IN /\ point.sequence \in DOMAIN rows
                       /\ [rows[point.sequence] EXCEPT !.id = point.id] = Reducer!RowOf(point)
  BY DEF Reducer!RowsHoldTheSnapshot
<1> DEFINE point == snapshot.points[i]
           row == rows[point.sequence]
<1>1. Numbered(snapshot.points) /\ Saved(snapshot.points, rows)
  BY DEF ReducerInv
<1>2. point.sequence \in DOMAIN rows /\ Same(row, point) /\ rows \in Seq(Rows)
  BY <1>1 DEF Saved
<1>3. row \in Rows
  BY <1>2
<1> HIDE DEF point, row
<1>4. row = [identity |-> row.identity, content |-> row.content, revision |-> row.revision,
             id |-> row.id]
  BY <1>3 DEF Rows
<1>5. [row EXCEPT !.id = point.id] =
          [identity |-> row.identity, content |-> row.content, revision |-> row.revision,
           id |-> point.id]
  BY <1>4
<1>6. [row EXCEPT !.id = point.id] = Reducer!RowOf(point)
  BY <1>2, <1>5 DEF Same, Reducer!RowOf
<1> QED BY <1>2, <1>6 DEF point, row

-----------------------------------------------------------------------------
(* The theorems: of the reducer alone, and beside a market's feed           *)

MatchInv == scope = "match" => ReducerInv

LEMMA ReducerIsInductive == Reducer!Spec => []ReducerInv
<1>1. Reducer!Init => ReducerInv
  BY ReducerStarts
<1>2. ReducerInv /\ [Reducer!Next]_match => ReducerInv'
  BY ConstantsAreSound, ReducerSteps
<1>3. UNCHANGED Reducer!vars <=> UNCHANGED match
  BY DEF Reducer!vars, match
<1> QED BY <1>1, <1>2, <1>3, PTL DEF Reducer!Spec

LEMMA MatchSteps ==
    ASSUME [MCNext]_<<scope, vars, match, cycle>>, scope = "match"
    PROVE  [Reducer!Next]_match
BY DEF MCNext, match

LEMMA MatchIsInductive == MCSpec => []MatchInv
<1>1. MCInit => MatchInv
  BY ReducerStarts DEF MCInit, MatchInv
<1>2. MatchInv /\ [MCNext]_<<scope, vars, match, cycle>> => MatchInv'
  <2> SUFFICES ASSUME MatchInv, [MCNext]_<<scope, vars, match, cycle>>, scope' = "match"
               PROVE  ReducerInv'
    BY DEF MatchInv
  <2>1. scope = "match"
    BY DEF MCNext
  <2>2. ReducerInv /\ [Reducer!Next]_match
    BY <2>1, MatchSteps DEF MatchInv
  <2> QED BY <2>2, ConstantsAreSound, ReducerSteps
<1> QED BY <1>1, <1>2, PTL DEF MCSpec

\* While no load has found rows behind the last point, the points of a snapshot
\* are numbered 1..n under different ids and identities, whatever
\* reduce_live_snapshot inserts, corrects, drops and renumbers, and whenever
\* load_snapshot reads the rows back.
THEOREM PointsStayNumbered ==
    (Reducer!Spec => []Reducer!PointsAreNumbered) /\ (MCSpec => []PointsAreNumbered)
<1>1. ReducerInv => Reducer!PointsAreNumbered
  BY InvNumbersPoints
<1>2. MatchInv => PointsAreNumbered
  BY <1>1 DEF MatchInv, PointsAreNumbered
<1> QED BY <1>1, <1>2, ReducerIsInductive, MatchIsInductive, PTL

\* save_reduction upserts by sequence, keeps the id a row has and deletes
\* nothing, and still a reload finds every point of the snapshot under its
\* sequence, with the contents and the revision it is shown with.
THEOREM RowsHoldThePoints ==
    (Reducer!Spec => []Reducer!RowsHoldTheSnapshot) /\ (MCSpec => []RowsHoldTheSnapshot)
<1>1. ReducerInv => Reducer!RowsHoldTheSnapshot
  BY InvHoldsRows
<1>2. MatchInv => RowsHoldTheSnapshot
  BY <1>1 DEF MatchInv, RowsHoldTheSnapshot
<1> QED BY <1>1, <1>2, ReducerIsInductive, MatchIsInductive, PTL

\* No reduction and no reload lowers the revision of a point that stays, and a
\* point whose contents change leaves a revision row under the id it had.
THEOREM CorrectionsAreRevisions ==
    (Reducer!Spec => Reducer!CorrectionIsARevision) /\ (MCSpec => CorrectionIsARevision)
<1>1. ReducerInv /\ [Reducer!Next]_(Reducer!vars) => [Reducer!Revises]_(Reducer!vars)
  BY ConstantsAreSound, ReducerSteps DEF match, Reducer!vars
<1>2. MatchInv /\ [MCNext]_<<scope, vars, match, cycle>>
          => [scope = "match" => Reducer!Revises]_match
  BY ConstantsAreSound, ReducerSteps, MatchSteps DEF MatchInv
<1>3. Reducer!Spec => Reducer!CorrectionIsARevision
  BY <1>1, ReducerIsInductive, PTL DEF Reducer!Spec, Reducer!CorrectionIsARevision
<1>4. MCSpec => CorrectionIsARevision
  BY <1>2, MatchIsInductive, PTL DEF MCSpec, CorrectionIsARevision
<1> QED BY <1>3, <1>4

-----------------------------------------------------------------------------
(* The turns of the markets                                                *)

\* Going around from a market that waits, the others that had a turn since come
\* before the cursor.
SeenInOrder(seen, waiting, cursor) ==
    \A b \in Markets : seen[b] # {} =>
        /\ b \in waiting /\ cursor # b
        /\ \A x \in seen[b] : x \in Markets /\ (x = cursor \/ Cycle!Precedes(b, x, cursor))

\* In a loop over members that began after start, what was passed comes before what
\* is to come, and the cursor in between; who was passed and could have had its
\* turn has only seen what came later.
LoopInOrder(seen, cursor, members, able, todo, start) ==
    /\ \A y \in todo : cursor = start \/ Cycle!Precedes(start, cursor, y)
    /\ \A b \in members \ todo, y \in todo : Cycle!Precedes(start, b, y)
    /\ \A b \in able \ todo, y \in todo : seen[b] # {} =>
           Cycle!Precedes(start, b, cursor) /\ Cycle!Precedes(start, cursor, y)

\* The order in a rotation
LEMMA AroundFromCursor ==
    ASSUME NEW c \in Nat, NEW m \in Nat, NEW b \in Nat, c # b, Cycle!Precedes(c, m, b)
    PROVE  Cycle!Precedes(b, c, m)
BY DEF Cycle!Precedes

LEMMA AroundAhead ==
    ASSUME NEW o \in Nat, NEW c \in Nat, NEW m \in Nat, NEW b \in Nat,
           Cycle!Precedes(o, c, m), Cycle!Precedes(o, m, b)
    PROVE  Cycle!Precedes(b, c, m)
BY DEF Cycle!Precedes

LEMMA AroundBehind ==
    ASSUME NEW o \in Nat, NEW c \in Nat, NEW m \in Nat, NEW b \in Nat,
           Cycle!Precedes(o, b, c), Cycle!Precedes(o, c, m)
    PROVE  Cycle!Precedes(b, c, m)
BY DEF Cycle!Precedes

LEMMA PrecedesIsAnOrder ==
    ASSUME NEW b \in Nat, NEW x \in Nat, NEW y \in Nat, NEW z \in Nat
    PROVE  /\ ~Cycle!Precedes(b, x, x)
           /\ Cycle!Precedes(b, x, y) /\ Cycle!Precedes(b, y, z) => Cycle!Precedes(b, x, z)
BY DEF Cycle!Precedes

LEMMA NoneSeesItself ==
    ASSUME NEW seen, NEW waiting, NEW cursor \in Nat, Markets \subseteq Nat,
           SeenInOrder(seen, waiting, cursor), NEW b \in Markets
    PROVE  b \notin seen[b]
<1> SUFFICES ASSUME b \in seen[b] PROVE FALSE
  OBVIOUS
<1>1. cursor # b /\ (b = cursor \/ Cycle!Precedes(b, b, cursor))
  BY DEF SeenInOrder
<1> QED BY <1>1 DEF Cycle!Precedes

LEMMA SeenStaysInOrder ==
    ASSUME NEW seen, NEW waiting, NEW cursor, SeenInOrder(seen, waiting, cursor),
           NEW waiting2, NEW now, now = Cycle!Seen(seen, waiting2, {})
    PROVE  SeenInOrder(now, waiting2, cursor)
<1>1. \A b \in Markets : now[b] = IF b \in waiting2 THEN seen[b] ELSE {}
  BY DEF Cycle!Seen
<1> QED BY <1>1 DEF SeenInOrder

\* A loop stands before the turn of m.
BeforeTurn(seen, waiting, cursor, members, able, todo, start, m) ==
    /\ Markets \subseteq Nat /\ cursor \in Nat /\ start \in Nat
    /\ able \subseteq members /\ members \subseteq Markets /\ todo \subseteq Markets
    /\ SeenInOrder(seen, waiting, cursor)
    /\ LoopInOrder(seen, cursor, members, able, todo, start)
    /\ m \in todo /\ \A y \in todo \ {m} : Cycle!Precedes(start, m, y)

\* The next of a loop comes after everything that a waiting market has seen.
LEMMA NextIsNew ==
    ASSUME NEW seen, NEW waiting, NEW cursor, NEW members, NEW able, NEW todo, NEW start, NEW m,
           BeforeTurn(seen, waiting, cursor, members, able, todo, start, m)
    PROVE  \A b \in Markets : b # m /\ b \in todo \cup able /\ seen[b] # {} =>
               m \notin seen[b] /\ \A x \in seen[b] : x \in Markets /\ Cycle!Precedes(b, x, m)
<1> SUFFICES ASSUME NEW b \in Markets, b # m, b \in todo \cup able, seen[b] # {}
             PROVE  m \notin seen[b]
                    /\ \A x \in seen[b] : x \in Markets /\ Cycle!Precedes(b, x, m)
  OBVIOUS
<1>1. /\ m \in todo /\ \A y \in todo \ {m} : Cycle!Precedes(start, m, y)
      /\ m \in Nat /\ b \in Nat /\ cursor \in Nat /\ start \in Nat /\ Markets \subseteq Nat
  BY DEF BeforeTurn
<1>2. cursor # b /\ \A x \in seen[b] :
                       x \in Markets /\ x \in Nat /\ (x = cursor \/ Cycle!Precedes(b, x, cursor))
  BY DEF BeforeTurn, SeenInOrder
<1>3. Cycle!Precedes(b, cursor, m)
  <2>1. CASE b \in todo
    <3>1. Cycle!Precedes(start, m, b)
      BY <1>1, <2>1
    <3>2. cursor = start \/ Cycle!Precedes(start, cursor, m)
      BY <1>1 DEF BeforeTurn, LoopInOrder
    <3> QED BY <1>1, <1>2, <3>1, <3>2, AroundFromCursor, AroundAhead
  <2>2. CASE b \in able \ todo
    <3>1. Cycle!Precedes(start, b, cursor) /\ Cycle!Precedes(start, cursor, m)
      BY <1>1, <2>2 DEF BeforeTurn, LoopInOrder
    <3> QED BY <1>1, <3>1, AroundBehind
  <2> QED BY <2>1, <2>2
<1>4. ASSUME NEW x \in seen[b] PROVE x \in Markets /\ Cycle!Precedes(b, x, m)
  BY <1>1, <1>2, <1>3, PrecedesIsAnOrder
<1> QED BY <1>1, <1>4, PrecedesIsAnOrder

\* A turn, a market that is passed, and a step of others keep the order.
LEMMA TurnKeepsOrder ==
    ASSUME NEW seen, NEW waiting, NEW cursor, NEW members, NEW able, NEW todo, NEW start, NEW m,
           BeforeTurn(seen, waiting, cursor, members, able, todo, start, m),
           waiting \subseteq todo \cup able, NEW now, now = Cycle!Seen(seen, waiting, {m})
    PROVE  /\ SeenInOrder(now, waiting, m)
           /\ LoopInOrder(now, m, members, able, todo \ {m}, start)
<1>1. \A b \in Markets : now[b] = IF b \in waiting \ {m} THEN seen[b] \cup {m} ELSE {}
  BY DEF Cycle!Seen
<1>2. SeenInOrder(now, waiting, m)
  <2> SUFFICES ASSUME NEW b \in Markets, now[b] # {}
               PROVE  /\ b \in waiting /\ m # b
                      /\ \A x \in now[b] : x \in Markets /\ (x = m \/ Cycle!Precedes(b, x, m))
    BY DEF SeenInOrder
  <2>1. b \in waiting /\ b # m /\ now[b] = seen[b] \cup {m} /\ b \in todo \cup able
    BY <1>1
  <2>2. \A x \in seen[b] : x \in Markets /\ Cycle!Precedes(b, x, m)
    BY <2>1, NextIsNew
  <2>3. m \in Markets
    BY DEF BeforeTurn
  <2> QED BY <2>1, <2>2, <2>3
<1>3. LoopInOrder(now, m, members, able, todo \ {m}, start)
  <2>1. \A y \in todo \ {m} : Cycle!Precedes(start, m, y)
    BY DEF BeforeTurn
  <2>2. \A b \in members \ todo, y \in todo : Cycle!Precedes(start, b, y)
    BY DEF BeforeTurn, LoopInOrder
  <2>3. m \in todo /\ able \subseteq members /\ members \subseteq Markets
    BY DEF BeforeTurn
  <2>4. \A b \in members \ (todo \ {m}), y \in todo \ {m} : Cycle!Precedes(start, b, y)
    BY <2>1, <2>2
  <2>5. ASSUME NEW b \in able \ (todo \ {m}), NEW y \in todo \ {m}, now[b] # {}
        PROVE  Cycle!Precedes(start, b, m) /\ Cycle!Precedes(start, m, y)
    <3>1. b # m /\ b \in Markets
      BY <1>1, <2>3, <2>5
    <3>2. b \in members \ todo
      BY <2>3, <3>1
    <3> QED BY <2>1, <2>2, <2>3, <3>2
  <2> QED BY <2>1, <2>4, <2>5 DEF LoopInOrder
<1> QED BY <1>2, <1>3

LEMMA PassKeepsOrder ==
    ASSUME NEW seen, NEW waiting, NEW cursor, NEW members, NEW able, NEW todo, NEW start, NEW m,
           BeforeTurn(seen, waiting, cursor, members, able, todo, start, m),
           m \notin waiting \cap able, NEW now, now = Cycle!Seen(seen, waiting, {})
    PROVE  /\ SeenInOrder(now, waiting, cursor)
           /\ LoopInOrder(now, cursor, members, able, todo \ {m}, start)
<1>1. \A b \in Markets : now[b] = IF b \in waiting THEN seen[b] ELSE {}
  BY DEF Cycle!Seen
<1>2. SeenInOrder(now, waiting, cursor)
  BY <1>1 DEF BeforeTurn, SeenInOrder
<1>3. /\ m \in todo /\ able \subseteq members /\ members \subseteq Markets
      /\ \A y \in todo \ {m} : Cycle!Precedes(start, m, y)
      /\ LoopInOrder(seen, cursor, members, able, todo, start)
  BY DEF BeforeTurn
<1>4. ASSUME NEW b \in able \ (todo \ {m}), now[b] # {} PROVE b \in able \ todo /\ seen[b] # {}
  <2>1. b \in waiting /\ seen[b] # {}
    BY <1>1, <1>3, <1>4
  <2> QED BY <1>4, <2>1
<1> QED BY <1>2, <1>3, <1>4 DEF LoopInOrder

LEMMA LoopStaysInOrder ==
    ASSUME NEW seen, NEW cursor, NEW members, NEW able, NEW todo, NEW start,
           members \subseteq Markets, able \subseteq members,
           LoopInOrder(seen, cursor, members, able, todo, start),
           NEW waiting2, NEW members2 \in SUBSET members, NEW able2 \in SUBSET able,
           NEW now, now = Cycle!Seen(seen, waiting2, {})
    PROVE  LoopInOrder(now, cursor, members2, able2, todo, start)
<1>1. \A b \in Markets : now[b] = IF b \in waiting2 THEN seen[b] ELSE {}
  BY DEF Cycle!Seen
<1> QED BY <1>1 DEF LoopInOrder

LEMMA LoopBegins ==
    ASSUME NEW seen, NEW start, NEW members, NEW able \in SUBSET members
    PROVE  LoopInOrder(seen, start, members, able, members, start)
BY DEF LoopInOrder

-----------------------------------------------------------------------------
\* Whose turn it is.
TurnIsItsOwn ==
    /\ phase = "starting" => startCursor \in wanted \ (Cycle!Subscribed \cup resolved)
    /\ phase = "repairing" => repairCursor \in Cycle!Subscribed

\* Both lanes, and the loop of the one that is under way
CanStart == {b \in wanted : active < Max}
Orders ==
    /\ phase = "starting" => active < Max
    /\ SeenInOrder(startedSince, Cycle!StartWaiting, startCursor)
    /\ SeenInOrder(repairedSince, Cycle!RepairWaiting, repairCursor)
    /\ phase \in {"start", "starting"} =>
           LoopInOrder(startedSince, startCursor, wanted, CanStart, left, origin)
    /\ phase \in {"repair", "repairing"} =>
           LoopInOrder(repairedSince, repairCursor, Cycle!Subscribed, Cycle!Subscribed,
                       left, origin)

CycleInv == Cycle!TypeOK /\ TurnIsItsOwn /\ Orders

LEMMA SizeIsTheCycles == \A S : Cycle!Cardinality(S) = Cardinality(S)
BY DEF Cycle!Cardinality, Cardinality
LEMMA FiniteIsTheCycles == \A S : Cycle!IsFiniteSet(S) <=> IsFiniteSet(S)
BY DEF Cycle!IsFiniteSet, IsFiniteSet

LEMMA SeenIsTyped ==
    ASSUME NEW seen \in [Markets -> SUBSET Markets], NEW waiting, NEW taken \in SUBSET Markets
    PROVE  Cycle!Seen(seen, waiting, taken) \in [Markets -> SUBSET Markets]
BY DEF Cycle!Seen

LEMMA CycleTypesNext ==
    ASSUME Cycle!CycleAssumption, Cycle!TypeOK, TurnIsItsOwn, Cycle!Next
    PROVE  Cycle!TypeOK' /\ TurnIsItsOwn'
<1> DEFINE Plain == /\ wanted \subseteq Markets /\ left \subseteq Markets
                    /\ open \subseteq wanted /\ parked \subseteq wanted /\ open \cap parked = {}
                    /\ resolved \subseteq wanted \ Cycle!Subscribed /\ backoff \subseteq wanted
                    /\ phase \in {"idle", "start", "starting", "repair", "repairing"}
                    /\ origin \in Markets \cup {0} /\ active \in Nat /\ late \in BOOLEAN
                    /\ startCursor \in Markets \cup {0} /\ repairCursor \in Markets \cup {0}
<1>1. Plain /\ startedSince \in [Markets -> SUBSET Markets]
      /\ repairedSince \in [Markets -> SUBSET Markets]
  BY DEF Cycle!TypeOK
<1>2. \E t, r \in SUBSET Markets : Cycle!Turns(t, r)
  <2>1. {} \in SUBSET Markets /\ \A m \in Markets : {m} \in SUBSET Markets
    OBVIOUS
  <2> QED BY <2>1 DEF Cycle!Next, Cycle!BeginCycle, Cycle!PassStart, Cycle!StartEnds,
          Cycle!StopStarts, Cycle!PassRepair, Cycle!RepairEnds, Cycle!EndCycle, Cycle!StartTurn,
          Cycle!RepairTurn, Cycle!FeedCloses, Cycle!RetryFallsDue, Cycle!TimeIsUp
<1>3. /\ startedSince' \in [Markets -> SUBSET Markets]
      /\ repairedSince' \in [Markets -> SUBSET Markets]
  BY <1>1, <1>2, SeenIsTyped DEF Cycle!Turns
<1> USE DEF TurnIsItsOwn, Cycle!Subscribed, Cycle!subs, Cycle!loop, Cycle!cursors
<1>4. Plain' /\ TurnIsItsOwn'
  <2>1. CASE Cycle!BeginCycle
    <3>1. PICK d \in SUBSET Markets :
              /\ wanted' = d /\ left' = d /\ open' = open \cap d /\ parked' = parked \cap d
              /\ resolved' = resolved \cap d /\ backoff' = backoff \cap d
      BY <2>1 DEF Cycle!BeginCycle
    <3>2. /\ active' = Cycle!Cardinality(open') /\ phase' = "start" /\ origin' = startCursor
          /\ late' = FALSE /\ UNCHANGED <<startCursor, repairCursor>>
      BY <2>1 DEF Cycle!BeginCycle
    <3>3. active' \in Nat
      <4>1. IsFiniteSet(Markets) /\ open' \subseteq Markets
        BY <1>1, <3>1, FiniteIsTheCycles DEF Cycle!CycleAssumption
      <4>2. Cardinality(open') \in Nat
        BY <4>1, FS_Subset, FS_CardinalityType
      <4> QED BY <3>2, <4>2, SizeIsTheCycles
    <3> QED BY <1>1, <3>1, <3>2, <3>3
  <2>2. CASE Cycle!PassStart
    BY <1>1, <2>2 DEF Cycle!PassStart
  <2>3. ASSUME NEW m \in Markets, Cycle!StartTurn(m) PROVE Plain' /\ TurnIsItsOwn'
    BY <1>1, <2>3 DEF Cycle!StartTurn, Cycle!MayStart, Cycle!StartWaiting
  <2>4. CASE Cycle!StartEnds
    <3>1. phase = "starting" /\ phase' \in {"start", "idle"}
          /\ UNCHANGED <<wanted, parked, left, origin, late, startCursor, repairCursor>>
      BY <2>4 DEF Cycle!StartEnds
    <3>2. \/ /\ open' = open \cup {startCursor} /\ active' = active + 1
             /\ UNCHANGED <<resolved, backoff>>
          \/ backoff' = backoff \cup {startCursor} /\ UNCHANGED <<open, resolved, active>>
          \/ resolved' = resolved \cup {startCursor} /\ UNCHANGED <<open, backoff, active>>
      BY <2>4 DEF Cycle!StartEnds
    <3> QED BY <1>1, <3>1, <3>2
  <2>5. CASE Cycle!StopStarts
    BY <1>1, <2>5 DEF Cycle!StopStarts
  <2>6. CASE Cycle!PassRepair
    BY <1>1, <2>6 DEF Cycle!PassRepair
  <2>7. ASSUME NEW m \in Markets, Cycle!RepairTurn(m) PROVE Plain' /\ TurnIsItsOwn'
    BY <1>1, <2>7 DEF Cycle!RepairTurn, Cycle!RepairWaiting
  <2>8. CASE Cycle!RepairEnds
    <3>1. phase = "repairing" /\ phase' \in {"repair", "idle"}
          /\ UNCHANGED <<wanted, left, origin, active, late, startCursor, repairCursor>>
      BY <2>8 DEF Cycle!RepairEnds
    <3>2. \/ UNCHANGED <<open, parked, resolved, backoff>>
          \/ /\ open' = open \cup ({repairCursor} \cap Cycle!Subscribed)
             /\ parked' = parked \ {repairCursor}
             /\ backoff' = backoff \cup {repairCursor} /\ UNCHANGED resolved
          \/ /\ open' = open \ {repairCursor} /\ parked' = parked \ {repairCursor}
             /\ resolved' = resolved \cup {repairCursor}
             /\ backoff' \in {backoff, backoff \cup {repairCursor}}
      BY <2>8 DEF Cycle!RepairEnds
    <3> QED BY <1>1, <3>1, <3>2
  <2>9. CASE Cycle!EndCycle
    BY <1>1, <2>9 DEF Cycle!EndCycle
  <2>10. CASE Cycle!FeedCloses
    BY <1>1, <2>10 DEF Cycle!FeedCloses
  <2>11. CASE Cycle!RetryFallsDue
    BY <1>1, <2>11 DEF Cycle!RetryFallsDue
  <2>12. CASE Cycle!TimeIsUp
    BY <1>1, <2>12 DEF Cycle!TimeIsUp
  <2> QED BY <2>1, <2>2, <2>3, <2>4, <2>5, <2>6, <2>7, <2>8, <2>9, <2>10, <2>11, <2>12
          DEF Cycle!Next
<1> QED BY <1>3, <1>4 DEF Cycle!TypeOK

LEMMA CycleFacts ==
    ASSUME Cycle!CycleAssumption, Cycle!TypeOK
    PROVE  /\ Markets \subseteq Nat /\ 0 \notin Markets /\ Max \in Nat /\ active \in Nat
           /\ startCursor \in Nat /\ repairCursor \in Nat /\ origin \in Nat
           /\ left \subseteq Markets /\ wanted \subseteq Markets
           /\ Cycle!Subscribed \subseteq wanted /\ Cycle!Subscribed \subseteq Markets
           /\ CanStart \subseteq wanted /\ Cycle!StartWaiting \subseteq wanted
           /\ Cycle!RepairWaiting \subseteq Cycle!Subscribed
BY DEF Cycle!CycleAssumption, Cycle!TypeOK, Cycle!Subscribed, CanStart, Cycle!StartWaiting,
       Cycle!RepairWaiting

\* Nobody has a turn: streams end, retries fall due, a turn ends.
LEMMA QuietKeepsOrders ==
    ASSUME Cycle!CycleAssumption, Cycle!TypeOK, Cycle!TypeOK', Orders, Cycle!Turns({}, {}),
           UNCHANGED <<wanted, left, origin, startCursor, repairCursor>>, active' >= active,
           Cycle!Subscribed' \subseteq Cycle!Subscribed \/ phase' \notin {"repair", "repairing"},
           phase' = phase \/ phase' = "idle" \/ (phase = "starting" /\ phase' = "start")
               \/ (phase = "repairing" /\ phase' = "repair"),
           phase' = "starting" => active' < Max
    PROVE  Orders'
<1>1. /\ startedSince' = Cycle!Seen(startedSince, Cycle!StartWaiting', {})
      /\ repairedSince' = Cycle!Seen(repairedSince, Cycle!RepairWaiting', {})
  BY DEF Cycle!Turns
<1>2. CanStart' \subseteq CanStart
  BY CycleFacts DEF CanStart, Cycle!TypeOK
<1>3. SeenInOrder(startedSince', Cycle!StartWaiting', startCursor)
  BY <1>1, SeenStaysInOrder DEF Orders
<1>4. SeenInOrder(repairedSince', Cycle!RepairWaiting', repairCursor)
  BY <1>1, SeenStaysInOrder DEF Orders
<1>5. ASSUME phase \in {"start", "starting"}
      PROVE  LoopInOrder(startedSince', startCursor, wanted, CanStart', left, origin)
  <2>1. LoopInOrder(startedSince, startCursor, wanted, CanStart, left, origin)
    BY <1>5 DEF Orders
  <2>2. wanted \in SUBSET wanted /\ CanStart' \in SUBSET CanStart
    BY <1>2
  <2> QED BY <1>1, <2>1, <2>2, CycleFacts, LoopStaysInOrder
<1>6. ASSUME phase \in {"repair", "repairing"}, Cycle!Subscribed' \subseteq Cycle!Subscribed
      PROVE  LoopInOrder(repairedSince', repairCursor, Cycle!Subscribed', Cycle!Subscribed',
                         left, origin)
  <2>1. LoopInOrder(repairedSince, repairCursor, Cycle!Subscribed, Cycle!Subscribed, left, origin)
    BY <1>6 DEF Orders
  <2>2. Cycle!Subscribed' \in SUBSET Cycle!Subscribed
    BY <1>6
  <2> QED BY <1>1, <2>1, <2>2, CycleFacts, LoopStaysInOrder
<1>7. /\ UNCHANGED <<wanted, left, origin, startCursor, repairCursor>>
      /\ phase' \in {"start", "starting"} => phase \in {"start", "starting"}
      /\ phase' \in {"repair", "repairing"} => phase \in {"repair", "repairing"}
  OBVIOUS
<1> QED BY <1>3, <1>4, <1>5, <1>6, <1>7 DEF Orders

LEMMA StartTurnKeepsOrders ==
    ASSUME Cycle!CycleAssumption, Cycle!TypeOK, Orders, NEW m, Cycle!StartTurn(m)
    PROVE  /\ Orders'
           /\ \A b \in Cycle!StartWaiting : m \notin startedSince[b]
<1>1. /\ phase = "start" /\ phase' = "starting" /\ left' = left \ {m} /\ startCursor' = m
      /\ UNCHANGED <<wanted, open, parked, resolved, backoff, origin, active, repairCursor>>
      /\ m \in left /\ \A y \in left \ {m} : Cycle!Precedes(origin, m, y)
      /\ m \in Cycle!StartWaiting /\ active < Max
      /\ startedSince' = Cycle!Seen(startedSince, Cycle!StartWaiting', {m})
      /\ repairedSince' = Cycle!Seen(repairedSince, Cycle!RepairWaiting', {})
  BY DEF Cycle!StartTurn, Cycle!IsNext, Cycle!MayStart, Cycle!Turns, Cycle!subs
<1>2. /\ Cycle!StartWaiting' = Cycle!StartWaiting /\ Cycle!RepairWaiting' = Cycle!RepairWaiting
      /\ CanStart' = CanStart /\ CanStart = wanted
  BY <1>1 DEF Cycle!StartWaiting, Cycle!RepairWaiting, Cycle!Subscribed, CanStart
<1>3. BeforeTurn(startedSince, Cycle!StartWaiting, startCursor, wanted, CanStart, left, origin, m)
  BY <1>1, CycleFacts DEF BeforeTurn, Orders
<1>4. Cycle!StartWaiting \subseteq left \cup CanStart
  BY <1>2, CycleFacts
<1>5. /\ SeenInOrder(startedSince', Cycle!StartWaiting, m)
      /\ LoopInOrder(startedSince', m, wanted, CanStart, left \ {m}, origin)
  BY <1>1, <1>2, <1>3, <1>4, TurnKeepsOrder
<1>6. SeenInOrder(repairedSince', Cycle!RepairWaiting, repairCursor)
  BY <1>1, <1>2, SeenStaysInOrder DEF Orders
<1>7. Orders'
  BY <1>1, <1>2, <1>5, <1>6 DEF Orders
<1>8. ASSUME NEW b \in Cycle!StartWaiting PROVE m \notin startedSince[b]
  <2>1. b \in Markets /\ b \in left \cup CanStart
    BY <1>4, CycleFacts
  <2>2. CASE b = m
    BY <2>1, <2>2, CycleFacts, NoneSeesItself DEF Orders
  <2>3. CASE b # m
    BY <1>3, <2>1, <2>3, NextIsNew
  <2> QED BY <2>2, <2>3
<1> QED BY <1>7, <1>8

LEMMA RepairTurnKeepsOrders ==
    ASSUME Cycle!CycleAssumption, Cycle!TypeOK, Orders, NEW m, Cycle!RepairTurn(m)
    PROVE  /\ Orders'
           /\ \A b \in Cycle!RepairWaiting : m \notin repairedSince[b]
<1> DEFINE S == Cycle!Subscribed
<1>1. /\ phase = "repair" /\ phase' = "repairing" /\ left' = left \ {m} /\ repairCursor' = m
      /\ UNCHANGED <<wanted, open, parked, resolved, backoff, origin, active, startCursor>>
      /\ m \in left /\ \A y \in left \ {m} : Cycle!Precedes(origin, m, y)
      /\ m \in Cycle!RepairWaiting
      /\ startedSince' = Cycle!Seen(startedSince, Cycle!StartWaiting', {})
      /\ repairedSince' = Cycle!Seen(repairedSince, Cycle!RepairWaiting', {m})
  BY DEF Cycle!RepairTurn, Cycle!IsNext, Cycle!Turns, Cycle!subs
<1>2. /\ Cycle!StartWaiting' = Cycle!StartWaiting /\ Cycle!RepairWaiting' = Cycle!RepairWaiting
      /\ S' = S
  BY <1>1 DEF Cycle!StartWaiting, Cycle!RepairWaiting, Cycle!Subscribed
<1>3. BeforeTurn(repairedSince, Cycle!RepairWaiting, repairCursor, S, S, left, origin, m)
  BY <1>1, CycleFacts DEF BeforeTurn, Orders
<1>4. Cycle!RepairWaiting \subseteq left \cup S
  BY CycleFacts
<1>5. /\ SeenInOrder(repairedSince', Cycle!RepairWaiting, m)
      /\ LoopInOrder(repairedSince', m, S, S, left \ {m}, origin)
  BY <1>1, <1>2, <1>3, <1>4, TurnKeepsOrder
<1>6. SeenInOrder(startedSince', Cycle!StartWaiting, startCursor)
  BY <1>1, <1>2, SeenStaysInOrder DEF Orders
<1>7. Orders'
  BY <1>1, <1>2, <1>5, <1>6 DEF Orders
<1>8. ASSUME NEW b \in Cycle!RepairWaiting PROVE m \notin repairedSince[b]
  <2>1. b \in Markets /\ b \in left \cup S
    BY <1>4, CycleFacts
  <2>2. CASE b = m
    BY <2>1, <2>2, CycleFacts, NoneSeesItself DEF Orders
  <2>3. CASE b # m
    BY <1>3, <2>1, <2>3, NextIsNew
  <2> QED BY <2>2, <2>3
<1> QED BY <1>7, <1>8

\* A market is passed: it does not wait, or there is no capacity.
LEMMA PassStartKeepsOrders ==
    ASSUME Cycle!CycleAssumption, Cycle!TypeOK, Orders, Cycle!PassStart
    PROVE  Orders'
<1>1. PICK m \in left : Cycle!IsNext(m) /\ ~Cycle!MayStart(m) /\ left' = left \ {m}
  BY DEF Cycle!PassStart
<1>2. /\ phase = "start" /\ phase' = "start"
      /\ UNCHANGED <<wanted, open, parked, resolved, backoff, origin, active, startCursor,
                    repairCursor>>
      /\ \A y \in left \ {m} : Cycle!Precedes(origin, m, y)
      /\ startedSince' = Cycle!Seen(startedSince, Cycle!StartWaiting', {})
      /\ repairedSince' = Cycle!Seen(repairedSince, Cycle!RepairWaiting', {})
  BY <1>1 DEF Cycle!PassStart, Cycle!IsNext, Cycle!Turns, Cycle!subs, Cycle!cursors
<1>3. /\ Cycle!StartWaiting' = Cycle!StartWaiting /\ Cycle!RepairWaiting' = Cycle!RepairWaiting
      /\ CanStart' = CanStart
  BY <1>2 DEF Cycle!StartWaiting, Cycle!RepairWaiting, Cycle!Subscribed, CanStart
<1>4. BeforeTurn(startedSince, Cycle!StartWaiting, startCursor, wanted, CanStart, left, origin, m)
  BY <1>2, CycleFacts DEF BeforeTurn, Orders
<1>5. m \notin Cycle!StartWaiting \cap CanStart
  BY <1>1 DEF Cycle!MayStart, CanStart
<1>6. /\ SeenInOrder(startedSince', Cycle!StartWaiting, startCursor)
      /\ LoopInOrder(startedSince', startCursor, wanted, CanStart, left \ {m}, origin)
  BY <1>2, <1>3, <1>4, <1>5, PassKeepsOrder
<1>7. SeenInOrder(repairedSince', Cycle!RepairWaiting, repairCursor)
  BY <1>2, <1>3, SeenStaysInOrder DEF Orders
<1> QED BY <1>1, <1>2, <1>3, <1>6, <1>7 DEF Orders

LEMMA PassRepairKeepsOrders ==
    ASSUME Cycle!CycleAssumption, Cycle!TypeOK, Orders, Cycle!PassRepair
    PROVE  Orders'
<1> DEFINE S == Cycle!Subscribed
<1>1. PICK m \in left : Cycle!IsNext(m) /\ m \notin Cycle!RepairWaiting /\ left' = left \ {m}
  BY DEF Cycle!PassRepair
<1>2. /\ phase = "repair" /\ phase' = "repair"
      /\ UNCHANGED <<wanted, open, parked, resolved, backoff, origin, active, startCursor,
                    repairCursor>>
      /\ \A y \in left \ {m} : Cycle!Precedes(origin, m, y)
      /\ startedSince' = Cycle!Seen(startedSince, Cycle!StartWaiting', {})
      /\ repairedSince' = Cycle!Seen(repairedSince, Cycle!RepairWaiting', {})
  BY <1>1 DEF Cycle!PassRepair, Cycle!IsNext, Cycle!Turns, Cycle!subs, Cycle!cursors
<1>3. /\ Cycle!StartWaiting' = Cycle!StartWaiting /\ Cycle!RepairWaiting' = Cycle!RepairWaiting
      /\ S' = S
  BY <1>2 DEF Cycle!StartWaiting, Cycle!RepairWaiting, Cycle!Subscribed
<1>4. BeforeTurn(repairedSince, Cycle!RepairWaiting, repairCursor, S, S, left, origin, m)
  BY <1>2, CycleFacts DEF BeforeTurn, Orders
<1>5. m \notin Cycle!RepairWaiting \cap S
  BY <1>1
<1>6. /\ SeenInOrder(repairedSince', Cycle!RepairWaiting, repairCursor)
      /\ LoopInOrder(repairedSince', repairCursor, S, S, left \ {m}, origin)
  BY <1>2, <1>3, <1>4, <1>5, PassKeepsOrder
<1>7. SeenInOrder(startedSince', Cycle!StartWaiting, startCursor)
  BY <1>2, <1>3, SeenStaysInOrder DEF Orders
<1> QED BY <1>1, <1>2, <1>3, <1>6, <1>7 DEF Orders

\* A loop begins after the cursor, with everybody still to come.
LEMMA LoopsBegin ==
    ASSUME Cycle!CycleAssumption, Cycle!TypeOK, Cycle!TypeOK', Orders,
           Cycle!BeginCycle \/ Cycle!StopStarts
    PROVE  Orders'
<1>1. /\ startedSince' = Cycle!Seen(startedSince, Cycle!StartWaiting', {})
      /\ repairedSince' = Cycle!Seen(repairedSince, Cycle!RepairWaiting', {})
      /\ UNCHANGED <<startCursor, repairCursor>>
  BY DEF Cycle!BeginCycle, Cycle!StopStarts, Cycle!Turns, Cycle!cursors
<1>2. /\ SeenInOrder(startedSince', Cycle!StartWaiting', startCursor)
      /\ SeenInOrder(repairedSince', Cycle!RepairWaiting', repairCursor)
  BY <1>1, SeenStaysInOrder DEF Orders
<1>3. CASE Cycle!BeginCycle
  <2>1. phase' = "start" /\ origin' = startCursor /\ left' = wanted'
    BY <1>3 DEF Cycle!BeginCycle
  <2>2. CanStart' \in SUBSET wanted'
    BY DEF CanStart
  <2>3. LoopInOrder(startedSince', startCursor, wanted', CanStart', wanted', startCursor)
    BY <2>2, LoopBegins
  <2> QED BY <1>1, <1>2, <2>1, <2>3 DEF Orders
<1>4. CASE Cycle!StopStarts
  <2> DEFINE S == Cycle!Subscribed
  <2>1. phase' = "repair" /\ origin' = repairCursor /\ left' = S /\ S' = S
    BY <1>4 DEF Cycle!StopStarts, Cycle!Subscribed, Cycle!subs
  <2>2. S \in SUBSET S
    OBVIOUS
  <2>3. LoopInOrder(repairedSince', repairCursor, S, S, S, repairCursor)
    BY <2>2, LoopBegins
  <2> QED BY <1>1, <1>2, <2>1, <2>3 DEF Orders
<1> QED BY <1>3, <1>4

LEMMA CycleInvNext ==
    ASSUME Cycle!CycleAssumption, CycleInv, Cycle!Next
    PROVE  CycleInv' /\ Cycle!TakesTurns
<1>1. Cycle!TypeOK /\ TurnIsItsOwn /\ Orders
  BY DEF CycleInv
<1>2. Cycle!TypeOK' /\ TurnIsItsOwn'
  BY <1>1, CycleTypesNext
<1>3. Orders'
  <2>1. CASE Cycle!BeginCycle \/ Cycle!StopStarts
    BY <1>1, <1>2, <2>1, LoopsBegin
  <2>2. CASE Cycle!PassStart
    BY <1>1, <2>2, PassStartKeepsOrders
  <2>3. CASE Cycle!PassRepair
    BY <1>1, <2>3, PassRepairKeepsOrders
  <2>4. ASSUME NEW m \in Markets, Cycle!StartTurn(m) PROVE Orders'
    BY <1>1, <2>4, StartTurnKeepsOrders
  <2>5. ASSUME NEW m \in Markets, Cycle!RepairTurn(m) PROVE Orders'
    BY <1>1, <2>5, RepairTurnKeepsOrders
  <2> DEFINE Quiet ==
         /\ Cycle!Turns({}, {})
         /\ UNCHANGED <<wanted, left, origin, startCursor, repairCursor>> /\ active' >= active
         /\ Cycle!Subscribed' \subseteq Cycle!Subscribed \/ phase' \notin {"repair", "repairing"}
         /\ phase' = phase \/ phase' = "idle" \/ (phase = "starting" /\ phase' = "start")
               \/ (phase = "repairing" /\ phase' = "repair")
         /\ phase' = "starting" => active' < Max
  <2> USE DEF Cycle!subs, Cycle!loop, Cycle!cursors
  <2>6. CASE Cycle!StartEnds
    <3>1. active' \in {active, active + 1}
      BY <2>6 DEF Cycle!StartEnds
    <3>2. active' >= active
      BY <1>1, <3>1, CycleFacts
    <3>3. phase = "starting" /\ phase' \in {"start", "idle"} /\ Cycle!Turns({}, {})
          /\ UNCHANGED <<wanted, left, origin, startCursor, repairCursor>>
      BY <2>6 DEF Cycle!StartEnds
    <3>4. Quiet
      BY <3>2, <3>3
    <3> QED BY <1>1, <1>2, <3>4, QuietKeepsOrders
  <2>7. CASE Cycle!RepairEnds
    <3>1. phase = "repairing" /\ phase' \in {"repair", "idle"} /\ Cycle!Turns({}, {})
          /\ UNCHANGED <<wanted, left, origin, active, startCursor, repairCursor>>
      BY <2>7 DEF Cycle!RepairEnds
    <3>2. Cycle!Subscribed' \subseteq Cycle!Subscribed
      BY <2>7 DEF Cycle!RepairEnds, Cycle!Subscribed
    <3>3. active' >= active
      BY <1>1, <3>1, CycleFacts
    <3>4. Quiet
      BY <3>1, <3>2, <3>3
    <3> QED BY <1>1, <1>2, <3>4, QuietKeepsOrders
  <2>8. CASE Cycle!EndCycle \/ Cycle!FeedCloses \/ Cycle!RetryFallsDue \/ Cycle!TimeIsUp
    <3>1. /\ Cycle!Turns({}, {}) /\ phase' \in {phase, "idle"}
          /\ UNCHANGED <<wanted, left, origin, active, startCursor, repairCursor>>
      BY <2>8 DEF Cycle!EndCycle, Cycle!FeedCloses, Cycle!RetryFallsDue, Cycle!TimeIsUp
    <3>2. Cycle!Subscribed' \subseteq Cycle!Subscribed
      BY <2>8 DEF Cycle!EndCycle, Cycle!FeedCloses, Cycle!RetryFallsDue, Cycle!TimeIsUp,
                  Cycle!Subscribed
    <3>3. active' >= active
      BY <1>1, <3>1, CycleFacts
    <3>4. Quiet
      BY <1>1, <3>1, <3>2, <3>3 DEF Orders
    <3> QED BY <1>1, <1>2, <3>4, QuietKeepsOrders
  <2> QED BY <2>1, <2>2, <2>3, <2>4, <2>5, <2>6, <2>7, <2>8 DEF Cycle!Next
<1>4. Cycle!TakesTurns
  BY <1>1, StartTurnKeepsOrders, RepairTurnKeepsOrders DEF Cycle!TakesTurns
<1>5. CycleInv'
  BY <1>2, <1>3 DEF CycleInv
<1> QED BY <1>4, <1>5

LEMMA CycleInvInit ==
    ASSUME Cycle!Init
    PROVE  CycleInv
BY DEF Cycle!Init, CycleInv, Cycle!TypeOK, TurnIsItsOwn, Orders, SeenInOrder, Cycle!Subscribed

-----------------------------------------------------------------------------
(* There is room for what is open                                           *)

\* The loop over the starts counts the subscriptions, those of a stream that
\* ends included; a repair may open one that was closed, but only its own.
Room == IF phase = "repairing" THEN open \cup {repairCursor} ELSE open
RoomInv ==
    /\ Cardinality(Room) <= Max
    /\ phase \in {"start", "starting"} => Cardinality(open) <= active
    /\ phase = "starting" => active < Max

LEMMA RoomInvInit ==
    ASSUME Cycle!CycleAssumption, Cycle!Init
    PROVE  RoomInv
BY FS_EmptySet DEF Cycle!Init, RoomInv, Room, Cycle!CycleAssumption

LEMMA FewerFit ==
    ASSUME NEW B, IsFiniteSet(B), NEW A \in SUBSET B, NEW n \in Nat, Cardinality(B) <= n
    PROVE  Cardinality(A) <= n
<1>1. IsFiniteSet(A) /\ Cardinality(A) <= Cardinality(B)
  BY FS_Subset
<1> QED BY <1>1, FS_CardinalityType

LEMMA RoomInvNext ==
    ASSUME Cycle!CycleAssumption, Cycle!TypeOK, RoomInv, Cycle!Next
    PROVE  RoomInv'
<1>1. /\ IsFiniteSet(Markets) /\ open \subseteq Markets /\ Max \in Nat /\ active \in Nat
      /\ IsFiniteSet(open) /\ Cardinality(open) \in Nat
  <2>1. IsFiniteSet(Markets) /\ open \subseteq Markets
    BY FiniteIsTheCycles DEF Cycle!CycleAssumption, Cycle!TypeOK
  <2> QED BY <2>1, FS_Subset, FS_CardinalityType DEF Cycle!CycleAssumption, Cycle!TypeOK
<1>2. IsFiniteSet(Room) /\ open \subseteq Room
  BY <1>1, FS_AddElement DEF Room
<1>3. Cardinality(open) <= Max
  BY <1>1, <1>2, FewerFit DEF RoomInv
<1> USE DEF Cycle!subs, Cycle!loop, Cycle!cursors
<1>4. CASE Cycle!BeginCycle
  <2>1. open' \in SUBSET open /\ active' = Cardinality(open') /\ phase' = "start"
    BY <1>4, SizeIsTheCycles DEF Cycle!BeginCycle
  <2>2. Cardinality(open') <= Max /\ Room' = open' /\ Cardinality(open') \in Nat
    BY <1>1, <1>3, <2>1, FewerFit, FS_Subset, FS_CardinalityType DEF Room
  <2> QED BY <2>1, <2>2 DEF RoomInv
<1>5. CASE Cycle!StartEnds
  <2>1. phase = "starting" /\ phase' \in {"start", "idle"} /\ Room' = open'
    BY <1>5 DEF Cycle!StartEnds, Room
  <2>2. Cardinality(open) <= active /\ active < Max
    BY <2>1 DEF RoomInv
  <2>3. CASE open' = open \cup {startCursor} /\ active' = active + 1
    <3>1. Cardinality(open') <= Cardinality(open) + 1 /\ Cardinality(open') \in Nat
      <4> DEFINE T == open \cup {startCursor}
      <4>1. IsFiniteSet(T) /\ (Cardinality(T) = Cardinality(open)
                               \/ Cardinality(T) = Cardinality(open) + 1)
        BY <1>1, FS_AddElement
      <4>2. Cardinality(T) <= Cardinality(open) + 1 /\ Cardinality(T) \in Nat
        BY <1>1, <4>1, FS_CardinalityType
      <4> QED BY <2>3, <4>2
    <3> QED BY <1>1, <2>1, <2>2, <2>3, <3>1 DEF RoomInv
  <2>4. CASE open' = open /\ active' = active
    BY <1>3, <2>1, <2>2, <2>4 DEF RoomInv
  <2> QED BY <1>5, <2>3, <2>4 DEF Cycle!StartEnds
<1>6. CASE Cycle!RepairEnds
  <2>1. phase = "repairing" /\ phase' \in {"repair", "idle"} /\ Room' = open'
    BY <1>6 DEF Cycle!RepairEnds, Room
  <2>2. open' \in SUBSET Room
    BY <1>6, <2>1 DEF Cycle!RepairEnds, Room
  <2>3. Cardinality(open') <= Max
    BY <1>1, <1>2, <2>2, FewerFit DEF RoomInv
  <2> QED BY <2>1, <2>3 DEF RoomInv
<1>7. CASE Cycle!FeedCloses
  <2>1. open' \in SUBSET open /\ Room' \in SUBSET Room /\ UNCHANGED <<phase, active, repairCursor>>
    BY <1>7 DEF Cycle!FeedCloses, Room
  <2>2. Cardinality(Room') <= Max
    BY <1>1, <1>2, <2>1, FewerFit DEF RoomInv
  <2>3. phase \in {"start", "starting"} => Cardinality(open') <= active
    BY <1>1, <2>1, FewerFit DEF RoomInv
  <2> QED BY <2>1, <2>2, <2>3 DEF RoomInv
<1>8. ASSUME NEW m \in Markets, Cycle!StartTurn(m) PROVE RoomInv'
  <2>1. /\ phase = "start" /\ phase' = "starting" /\ active < Max
        /\ UNCHANGED <<open, active, repairCursor>>
    BY <1>8 DEF Cycle!StartTurn, Cycle!MayStart
  <2> QED BY <1>3, <2>1 DEF RoomInv, Room
<1>9. ASSUME NEW m \in Markets, Cycle!RepairTurn(m) PROVE RoomInv'
  <2>1. /\ phase' = "repairing" /\ repairCursor' = m /\ m \in open /\ open' = open
    BY <1>9 DEF Cycle!RepairTurn, Cycle!RepairWaiting
  <2>2. Room' = open
    BY <2>1 DEF Room
  <2> QED BY <1>3, <2>1, <2>2 DEF RoomInv
<1>10. CASE Cycle!StopStarts \/ Cycle!EndCycle
  <2>1. phase' \in {"repair", "idle"} /\ open' = open
    BY <1>10 DEF Cycle!StopStarts, Cycle!EndCycle
  <2> QED BY <1>3, <2>1 DEF RoomInv, Room
<1>11. CASE Cycle!PassStart \/ Cycle!PassRepair \/ Cycle!RetryFallsDue \/ Cycle!TimeIsUp
  <2>1. UNCHANGED <<phase, open, active, repairCursor>>
    BY <1>11 DEF Cycle!PassStart, Cycle!PassRepair, Cycle!RetryFallsDue, Cycle!TimeIsUp
  <2> QED BY <2>1 DEF RoomInv, Room
<1> QED BY <1>4, <1>5, <1>6, <1>7, <1>8, <1>9, <1>10, <1>11 DEF Cycle!Next

-----------------------------------------------------------------------------
(* The theorems: of the cycle alone, and beside the two feeds               *)

CycleHolds == scope = "cycle" => CycleInv

LEMMA CycleStutters ==
    ASSUME UNCHANGED Cycle!vars
    PROVE  /\ CycleInv => CycleInv'
           /\ RoomInv => RoomInv'
BY DEF Cycle!vars, Cycle!subs, Cycle!loop, Cycle!cursors, Cycle!since, CycleInv, Cycle!TypeOK,
       TurnIsItsOwn, Orders, SeenInOrder, LoopInOrder, Cycle!Subscribed, Cycle!StartWaiting,
       Cycle!RepairWaiting, CanStart, RoomInv, Room

LEMMA CycleIsInductive == Cycle!Spec => [](CycleInv /\ RoomInv)
<1>1. Cycle!Init => CycleInv /\ RoomInv
  BY ConstantsAreSound, CycleInvInit, RoomInvInit
<1>2. CycleInv /\ RoomInv /\ [Cycle!Next]_(Cycle!vars) => (CycleInv /\ RoomInv)'
  <2> SUFFICES ASSUME CycleInv, RoomInv, [Cycle!Next]_(Cycle!vars) PROVE CycleInv' /\ RoomInv'
    OBVIOUS
  <2>1. Cycle!TypeOK
    BY DEF CycleInv
  <2> QED BY <2>1, ConstantsAreSound, CycleInvNext, RoomInvNext, CycleStutters
<1> QED BY <1>1, <1>2, PTL DEF Cycle!Spec

LEMMA CycleSteps ==
    ASSUME [MCNext]_<<scope, vars, match, cycle>>, scope = "cycle"
    PROVE  Cycle!Next \/ UNCHANGED cycle
BY DEF MCNext, cycle

LEMMA CycleTupleIsFlat == UNCHANGED Cycle!vars <=> UNCHANGED cycle
BY DEF cycle, Cycle!vars, Cycle!subs, Cycle!loop, Cycle!cursors, Cycle!since

LEMMA CycleHoldsBeside == MCSpec => []CycleHolds
<1>1. MCInit => CycleHolds
  BY CycleInvInit DEF MCInit, CycleHolds
<1>2. CycleHolds /\ [MCNext]_<<scope, vars, match, cycle>> => CycleHolds'
  <2> SUFFICES ASSUME CycleHolds, [MCNext]_<<scope, vars, match, cycle>>, scope' = "cycle"
               PROVE  CycleInv'
    BY DEF CycleHolds
  <2>1. scope = "cycle"
    BY DEF MCNext
  <2>2. CycleInv /\ (Cycle!Next \/ UNCHANGED cycle)
    BY <2>1, CycleSteps DEF CycleHolds
  <2> QED BY <2>2, ConstantsAreSound, CycleInvNext, CycleStutters, CycleTupleIsFlat
<1> QED BY <1>1, <1>2, PTL DEF MCSpec

\* While a market waits for its turn to be started or repaired, no other has two:
\* not in the same cycle and not over many, whatever fails, whatever demand comes
\* and goes, wherever the time or the capacity runs out.  The cursors, which
\* _recover_market and _start are called after, keep the others in the order of
\* the ids around the one that waits.
THEOREM MarketsTakeTurns ==
    (Cycle!Spec => Cycle!TurnsAreTaken) /\ (MCSpec => TurnsAreTaken)
<1>1. CycleInv /\ [Cycle!Next]_(Cycle!vars) => [Cycle!TakesTurns]_(Cycle!vars)
  BY ConstantsAreSound, CycleInvNext
<1>2. CycleHolds /\ [MCNext]_<<scope, vars, match, cycle>>
          => [scope = "cycle" => Cycle!TakesTurns]_cycle
  BY ConstantsAreSound, CycleInvNext, CycleSteps DEF CycleHolds
<1>3. Cycle!Spec => Cycle!TurnsAreTaken
  BY <1>1, CycleIsInductive, PTL DEF Cycle!Spec, Cycle!TurnsAreTaken
<1>4. MCSpec => TurnsAreTaken
  BY <1>2, CycleHoldsBeside, PTL DEF MCSpec, TurnsAreTaken
<1> QED BY <1>3, <1>4

\* reconcile_demand_once counts the subscriptions when it begins and every start
\* after that, but not the closed one that a repair opens again: there are never
\* more open streams than max_subscriptions all the same.
THEOREM OpenStreamsFit == Cycle!Spec => []Cycle!OpenFits
<1>1. CycleInv /\ RoomInv => Cycle!OpenFits
  <2> SUFFICES ASSUME CycleInv, RoomInv PROVE Cardinality(open) <= Max
    BY SizeIsTheCycles DEF Cycle!OpenFits
  <2>1. IsFiniteSet(open) /\ Max \in Nat
    BY ConstantsAreSound, FiniteIsTheCycles, FS_Subset
       DEF CycleInv, Cycle!TypeOK, Cycle!CycleAssumption
  <2>2. IsFiniteSet(Room) /\ open \in SUBSET Room
    BY <2>1, FS_AddElement DEF Room
  <2> QED BY <2>1, <2>2, FewerFit DEF RoomInv
<1> QED BY <1>1, CycleIsInductive, PTL
=============================================================================
