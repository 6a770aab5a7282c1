----------------------------- MODULE PageProofs ------------------------------
(***************************************************************************)
(* Theorems about what the API does for its clients, for every set of      *)
(* viewers, matches, requests, keys and standings and without the bounds   *)
(* of the run: the leases of the viewers (ViewerLeases), the pages of the  *)
(* ledger (LedgerPages), the cache before the providers (ProviderCache),   *)
(* the rankings of the players (PlayerRankings) and a chat request         *)
(* (ChatStream).                                                           *)
(***************************************************************************)
EXTENDS MCViewerLeases, Integers, Sequences, FiniteSets, SequenceTheorems,
        FiniteSetTheorems, WellFoundedInduction, TLAPS

-----------------------------------------------------------------------------
(* The leases of the viewers *)


\* The steps of one stream.
StreamStep(v) ==
    \/ Connect(v) \/ Acquire(v) \/ Subscribe(v) \/ SubscribeFails(v)
    \/ Renew(v) \/ RenewFails(v) \/ Disconnect(v) \/ Release(v) \/ Die(v)

\* A scan that has read a match knows what it read; one that drops or prunes
\* a match knows which.
LEMMA ScanShape ==
    ASSUME TypeOK
    PROVE  /\ scan.step # "idle" => /\ scan.todo \in SUBSET Matches
                                    /\ scan.found \in [Matches -> DemandStates]
           /\ scan.step = "leases" =>
                  /\ scan.match \in Matches
                  /\ scan.fields \in SUBSET Viewers
                  /\ scan.unread \in SUBSET Viewers
                  /\ scan.alive \in SUBSET Viewers
                  /\ scan.grace \in Nat
                  /\ scan = [step |-> "leases", todo |-> scan.todo,
                             found |-> scan.found, match |-> scan.match,
                             fields |-> scan.fields, unread |-> scan.unread,
                             alive |-> scan.alive, grace |-> scan.grace]
           /\ scan.step = "prune" =>
                  /\ scan.match \in Matches
                  /\ scan.stale \in SUBSET Viewers
                  /\ scan = [step |-> "prune", todo |-> scan.todo,
                             found |-> scan.found, match |-> scan.match,
                             stale |-> scan.stale]
           /\ scan.step \in {"unindex", "forget"} =>
                  /\ scan.match \in Matches
                  /\ scan = [step |-> scan.step, todo |-> scan.todo,
                             found |-> scan.found, match |-> scan.match]
BY DEF TypeOK, Scans

LEMMA TypeInit == LeasesAssumption /\ Init => TypeOK
BY DEF Init, TypeOK, Scans, StreamSteps, DemandStates

LEMMA TypeStream ==
    ASSUME LeasesAssumption, TypeOK, NEW v \in Viewers,
           StreamStep(v)
    PROVE  TypeOK'
<1> USE DEF TypeOK, LeasesAssumption, StreamSteps, AcquireSteps, ReleaseSteps,
            redis, Proceed
<1>1. CASE Connect(v) BY <1>1 DEF Connect
<1>2. CASE Acquire(v)
    <2>1. CASE AcquireLease(v) BY <2>1 DEF AcquireLease
    <2>2. CASE AcquireIndex(v) BY <2>2 DEF AcquireIndex
    <2>3. CASE AcquireMember(v) BY <2>3 DEF AcquireMember
    <2>4. CASE AcquireGrace(v) BY <2>4 DEF AcquireGrace
    <2> QED BY <1>2, <2>1, <2>2, <2>3, <2>4 DEF Acquire
<1>3. CASE Renew(v) BY <1>3 DEF Renew
<1>4. CASE Disconnect(v) BY <1>4 DEF Disconnect
<1>5. CASE Release(v)
    BY <1>5 DEF Release, ReleaseRead, ReleaseMember, ReleaseLease,
                ReleaseCheck, ReleaseGrace
<1>6. CASE RenewFails(v) BY <1>6 DEF RenewFails
<1>7. CASE Die(v) BY <1>7 DEF Die
<1>8. CASE Subscribe(v) \/ SubscribeFails(v)
    BY <1>8 DEF Subscribe, SubscribeFails
<1> QED BY <1>1, <1>2, <1>3, <1>4, <1>5, <1>6, <1>7, <1>8 DEF StreamStep

\* What the scan goes on to is again a scan.
LEMMA ScansOfMatch ==
    ASSUME NEW todo \in SUBSET Matches,
           NEW found \in [Matches -> DemandStates], NEW m \in Matches
    PROVE  /\ [step |-> "idle"] \in Scans
           /\ [step |-> "select", todo |-> todo, found |-> found] \in Scans
           /\ \A f, u, a \in SUBSET Viewers, g \in Nat :
                  [step |-> "leases", todo |-> todo, found |-> found,
                   match |-> m, fields |-> f, unread |-> u, alive |-> a,
                   grace |-> g] \in Scans
           /\ \A s \in SUBSET Viewers :
                  [step |-> "prune", todo |-> todo, found |-> found,
                   match |-> m, stale |-> s] \in Scans
           /\ \A st \in {"unindex", "forget"} :
                  [step |-> st, todo |-> todo, found |-> found,
                   match |-> m] \in Scans
           /\ \A d \in DemandStates :
                  [found EXCEPT ![m] = d] \in [Matches -> DemandStates]
BY DEF Scans

LEMMA TypeScan ==
    ASSUME LeasesAssumption, TypeOK, Scan
    PROVE  TypeOK'
<1>1. CASE ScanIndex
    <2>1. scan' \in Scans
        BY <1>1 DEF ScanIndex, TypeOK, Scans, DemandStates
    <2> QED BY <1>1, <2>1 DEF ScanIndex, TypeOK, redis
<1>2. ASSUME NEW m \in Matches, ScanMembers(m) PROVE TypeOK'
    <2>1. scan' \in Scans
        BY <1>2, ScanShape, ScansOfMatch DEF ScanMembers, TypeOK
    <2> QED BY <1>2, <2>1 DEF ScanMembers, TypeOK, redis
<1>3. ASSUME NEW v \in Viewers, ScanLease(v) PROVE TypeOK'
    <2>1. PICK a \in SUBSET Viewers :
              scan' = [step |-> "leases", todo |-> scan.todo,
                       found |-> scan.found, match |-> scan.match,
                       fields |-> scan.fields, unread |-> scan.unread \ {v},
                       alive |-> a, grace |-> scan.grace]
        <3>1. CASE Alive(v)
            BY <1>3, <3>1, ScanShape DEF ScanLease
        <3>2. CASE ~Alive(v)
            BY <1>3, <3>2, ScanShape DEF ScanLease
        <3> QED BY <3>1, <3>2
    <2>2. /\ scan.todo \in SUBSET Matches
          /\ scan.found \in [Matches -> DemandStates]
          /\ scan.match \in Matches
          /\ scan.fields \in SUBSET Viewers
          /\ scan.unread \ {v} \in SUBSET Viewers
          /\ scan.grace \in Nat
        BY <1>3, ScanShape DEF ScanLease
    <2>3. scan' \in Scans
        BY <2>1, <2>2, ScansOfMatch
    <2> QED BY <1>3, <2>3 DEF ScanLease, TypeOK, redis
<1>4. CASE ScanJudge
    <2> DEFINE stale == scan.fields \ scan.alive
    <2>1. /\ scan.todo \in SUBSET Matches
          /\ scan.found \in [Matches -> DemandStates]
          /\ scan.match \in Matches
          /\ stale \in SUBSET Viewers
        BY <1>4, ScanShape DEF ScanJudge
    <2>2. /\ Found("active") \in [Matches -> DemandStates]
          /\ Found("grace") \in [Matches -> DemandStates]
        BY <2>1, ScansOfMatch DEF Found, DemandStates
    <2>3. \/ scan' = [step |-> "prune", todo |-> scan.todo,
                      found |-> Found("active"), match |-> scan.match,
                      stale |-> stale]
          \/ scan' = Select(Found("active"))
          \/ scan' = Select(Found("grace"))
          \/ scan' = [step |-> "unindex", todo |-> scan.todo,
                      found |-> scan.found, match |-> scan.match]
        BY <1>4 DEF ScanJudge, Verdict
    <2>4. /\ Select(Found("active")) \in Scans
          /\ Select(Found("grace")) \in Scans
        BY <2>1, <2>2, ScansOfMatch DEF Select
    <2>5. /\ [step |-> "prune", todo |-> scan.todo,
              found |-> Found("active"), match |-> scan.match,
              stale |-> stale] \in Scans
          /\ [step |-> "unindex", todo |-> scan.todo,
              found |-> scan.found, match |-> scan.match] \in Scans
        <3> HIDE DEF stale
        <3> QED BY <2>1, <2>2, ScansOfMatch
    <2>6. scan' \in Scans
        BY <2>3, <2>4, <2>5
    <2> QED BY <1>4, <2>6 DEF ScanJudge, TypeOK, redis
<1>5. ASSUME NEW v \in Viewers, ScanPrune(v) PROVE TypeOK'
    <2>1. \/ scan' = Select(scan.found)
          \/ scan' = [step |-> "prune", todo |-> scan.todo,
                      found |-> scan.found, match |-> scan.match,
                      stale |-> scan.stale \ {v}]
        BY <1>5, ScanShape DEF ScanPrune
    <2>2. /\ scan.todo \in SUBSET Matches
          /\ scan.found \in [Matches -> DemandStates]
          /\ scan.match \in Matches
          /\ scan.stale \ {v} \in SUBSET Viewers
        BY <1>5, ScanShape DEF ScanPrune
    <2>3. Select(scan.found) \in Scans
        BY <2>2, ScansOfMatch DEF Select
    <2>4. [step |-> "prune", todo |-> scan.todo, found |-> scan.found,
           match |-> scan.match, stale |-> scan.stale \ {v}] \in Scans
        BY <2>2, ScansOfMatch
    <2>5. scan' \in Scans
        BY <2>1, <2>3, <2>4
    <2> QED BY <1>5, <2>5 DEF ScanPrune, TypeOK
<1>6. CASE ScanUnindex
    <2>1. scan' = [step |-> "forget", todo |-> scan.todo,
                   found |-> scan.found, match |-> scan.match]
        BY <1>6, ScanShape DEF ScanUnindex
    <2>2. /\ scan.todo \in SUBSET Matches
          /\ scan.found \in [Matches -> DemandStates]
          /\ scan.match \in Matches
        BY <1>6, ScanShape DEF ScanUnindex
    <2>3. [step |-> "forget", todo |-> scan.todo, found |-> scan.found,
           match |-> scan.match] \in Scans
        BY <2>2, ScansOfMatch
    <2>4. scan' \in Scans
        BY <2>1, <2>3
    <2> QED BY <1>6, <2>4 DEF ScanUnindex, TypeOK
<1>7. CASE ScanForget
    <2>1. scan' \in Scans
        BY <1>7, ScanShape, ScansOfMatch DEF ScanForget, Select
    <2> QED BY <1>7, <2>1 DEF ScanForget, TypeOK
<1>8. CASE ScanReturn
    BY <1>8, ScanShape DEF ScanReturn, TypeOK, redis, Scans
<1> QED BY <1>1, <1>2, <1>3, <1>4, <1>5, <1>6, <1>7, <1>8 DEF Scan

LEMMA TypeTick ==
    ASSUME LeasesAssumption, TypeOK, Tick
    PROVE  TypeOK'
<1>1. \A n \in Nat : Elapse(n) \in Nat
    BY DEF Elapse
<1>2. scan' \in Scans
    <2>1. CASE scan.step = "leases"
        <3>1. scan' = [step |-> "leases", todo |-> scan.todo,
                       found |-> scan.found, match |-> scan.match,
                       fields |-> scan.fields, unread |-> scan.unread,
                       alive |-> scan.alive, grace |-> Elapse(scan.grace)]
            BY <2>1, ScanShape DEF Tick
        <3> QED BY <1>1, <2>1, <3>1, ScanShape, ScansOfMatch
    <2>2. CASE scan.step # "leases"
        BY <2>2 DEF Tick, TypeOK
    <2> QED BY <2>1, <2>2
<1> QED BY <1>1, <1>2 DEF Tick, TypeOK

LEMMA TypeNext ==
    ASSUME LeasesAssumption, TypeOK, [Next]_vars
    PROVE  TypeOK'
<1>1. CASE ScanDies
    BY <1>1 DEF ScanDies, TypeOK, redis, Scans
<1>2. CASE UNCHANGED vars
    BY <1>2 DEF vars, redis, TypeOK
<1> QED BY <1>1, <1>2, TypeStream, TypeScan, TypeTick
        DEF Next, Work, StreamStep

\* Every reachable state is well typed.
THEOREM TypeCorrect == Spec => []TypeOK
<1>1. Init => TypeOK
    BY TypeInit, LeasesAssumption
<1>2. TypeOK /\ [Next]_vars => TypeOK'
    BY TypeNext, LeasesAssumption
<1> QED BY <1>1, <1>2, PTL DEF Spec

-----------------------------------------------------------------------------
(* A seen viewer stays seen                                                *)

Early == {"new", "acquire_lease", "acquire_index", "acquire_member"}

\* Whoever keeps a lease has one.
HoldersHaveLeases == \A v \in Viewers : Holds(v) => lease[v] > 0

\* A stream that ends its renewal task does so before it releases.
RenewalsOfStreams ==
    \A v \in Viewers :
        renewing[v] => stream[v] \in {"subscribe", "streaming", "gone"}

\* A viewer's field is written after its lease.
MembersHaveAcquired ==
    \A m \in Matches : \A v \in members[m] : stream[v] \notin Early

\* The scan never takes a viewer that keeps its lease for dead.
ScanFindsHolders ==
    /\ scan.step = "leases" =>
           \A v \in scan.fields :
               /\ stream[v] \notin Early
               /\ Holds(v) => v \in scan.unread \cup scan.alive
    /\ scan.step = "prune" =>
           \A v \in scan.stale : stream[v] \notin Early /\ ~Holds(v)

LeaseInv ==
    /\ TypeOK
    /\ HoldersHaveLeases
    /\ RenewalsOfStreams
    /\ MembersHaveAcquired
    /\ ScanFindsHolders

LEMMA LeaseInit == LeasesAssumption /\ Init => LeaseInv
<1> SUFFICES ASSUME LeasesAssumption, Init PROVE LeaseInv
    OBVIOUS
<1> QED BY TypeInit DEF Init, LeaseInv, HoldersHaveLeases, RenewalsOfStreams,
           MembersHaveAcquired, ScanFindsHolders, Holds, AcquireSteps

\* A stream never returns to the start, and one that has given up its lease
\* never keeps it again.
LEMMA StreamMovesOn ==
    ASSUME TypeOK, NEW u \in Viewers, NEW v \in Viewers,
           StreamStep(u),
           stream[v] \notin Early
    PROVE  /\ stream'[v] \notin Early
           /\ Holds(v)' => Holds(v)
<1> USE DEF TypeOK, Early, Holds, AcquireSteps, Proceed
<1>1. CASE Connect(u) BY <1>1 DEF Connect
<1>2. CASE Acquire(u)
    BY <1>2 DEF Acquire, AcquireLease, AcquireIndex, AcquireMember,
                AcquireGrace
<1>3. CASE Renew(u) BY <1>3 DEF Renew
<1>4. CASE Disconnect(u) BY <1>4 DEF Disconnect
<1>5. CASE Release(u)
    BY <1>5 DEF Release, ReleaseRead, ReleaseMember, ReleaseLease,
                ReleaseCheck, ReleaseGrace
<1>6. CASE RenewFails(u) BY <1>6 DEF RenewFails
<1>7. CASE Die(u) BY <1>7 DEF Die
<1>8. CASE Subscribe(u) \/ SubscribeFails(u)
    BY <1>8 DEF Subscribe, SubscribeFails
<1> QED BY <1>1, <1>2, <1>3, <1>4, <1>5, <1>6, <1>7, <1>8 DEF StreamStep

LEMMA StreamKeepsInv ==
    ASSUME LeasesAssumption, LeaseInv, NEW u \in Viewers,
           StreamStep(u)
    PROVE  LeaseInv'
<1>1. TypeOK /\ TypeOK'
    BY TypeStream DEF LeaseInv
<1>2. scan' = scan
    BY DEF Connect, Acquire, AcquireLease, AcquireIndex, AcquireMember,
           AcquireGrace, Renew, Disconnect, Release, ReleaseRead,
           ReleaseMember, ReleaseLease, ReleaseCheck, ReleaseGrace,
           RenewFails, Die, Subscribe, SubscribeFails, StreamStep
<1>3. HoldersHaveLeases'
    <2> USE <1>1 DEF HoldersHaveLeases, RenewalsOfStreams, LeaseInv, TypeOK, Holds, AcquireSteps,
                     Proceed, LeasesAssumption, redis
    <2>1. CASE Connect(u) BY <2>1 DEF Connect
    <2>2. CASE AcquireLease(u) BY <2>2 DEF AcquireLease
    <2>3. CASE AcquireIndex(u) BY <2>3 DEF AcquireIndex
    <2>4. CASE AcquireMember(u) BY <2>4 DEF AcquireMember
    <2>5. CASE AcquireGrace(u) BY <2>5 DEF AcquireGrace
    <2>6. CASE Renew(u) BY <2>6 DEF Renew
    <2>7. CASE Disconnect(u) BY <2>7 DEF Disconnect
    <2>8. CASE Release(u)
        BY <2>8 DEF Release, ReleaseRead, ReleaseMember, ReleaseLease,
                    ReleaseCheck, ReleaseGrace
    <2>9. CASE RenewFails(u) BY <2>9 DEF RenewFails
    <2>10. CASE Die(u) BY <2>10 DEF Die
    <2>11. CASE Subscribe(u) \/ SubscribeFails(u)
        BY <2>11 DEF Subscribe, SubscribeFails
    <2> QED BY <2>1, <2>2, <2>3, <2>4, <2>5, <2>6, <2>7, <2>8, <2>9, <2>10,
               <2>11
            DEF Acquire, StreamStep
<1>4. MembersHaveAcquired'
    <2> SUFFICES ASSUME NEW m \in Matches, NEW v \in members'[m]
                 PROVE  stream'[v] \notin Early
        BY DEF MembersHaveAcquired
    <2>1. v \in Viewers
        BY <1>1 DEF TypeOK
    <2>2. CASE v \in members[m]
        BY <1>1, <2>1, <2>2, StreamMovesOn DEF LeaseInv, MembersHaveAcquired
    <2>3. CASE v \notin members[m]
        <3>1. AcquireMember(u) /\ v = u
            BY <1>1, <2>3
               DEF Connect, Acquire, AcquireLease, AcquireIndex,
                   AcquireMember, AcquireGrace, Renew, Disconnect, Release,
                   ReleaseRead, ReleaseMember, ReleaseLease, ReleaseCheck,
                   ReleaseGrace, RenewFails, Die, TypeOK, redis,
                   LeasesAssumption, Subscribe, SubscribeFails, StreamStep
        <3> QED BY <1>1, <3>1 DEF AcquireMember, Proceed, Early, TypeOK
    <2> QED BY <2>2, <2>3
<1>5. ScanFindsHolders'
    <2>1. \A v \in Viewers : stream[v] \notin Early =>
              stream'[v] \notin Early /\ (Holds(v)' => Holds(v))
        BY <1>1, StreamMovesOn
    <2> QED BY <1>1, <1>2, <2>1, ScanShape DEF ScanFindsHolders, LeaseInv
<1>6. RenewalsOfStreams'
    BY <1>1 DEF RenewalsOfStreams, LeaseInv, TypeOK, Proceed, StreamStep,
                Connect, Acquire, AcquireLease, AcquireIndex, AcquireMember,
                AcquireGrace, Subscribe, SubscribeFails, Renew, Disconnect,
                Release, ReleaseRead, ReleaseMember, ReleaseLease,
                ReleaseCheck, ReleaseGrace, RenewFails, Die
<1> QED BY <1>1, <1>3, <1>4, <1>5, <1>6 DEF LeaseInv

\* Neither the scan nor the clock moves a stream.
LEMMA HoldsFrame ==
    ASSUME stream' = stream, renewing' = renewing
    PROVE  \A v \in Viewers : Holds(v)' <=> Holds(v)
BY DEF Holds

LEMMA ScanKeepsInv ==
    ASSUME LeasesAssumption, LeaseInv, Scan \/ ScanDies
    PROVE  LeaseInv'
<1>1. TypeOK /\ TypeOK'
    BY TypeNext DEF LeaseInv, Next, Work
<1>2. lease' = lease /\ stream' = stream /\ renewing' = renewing
    BY DEF Scan, ScanIndex, ScanJudge, ScanUnindex, ScanForget, ScanReturn,
           ScanMembers, ScanLease, ScanPrune, ScanDies, redis
<1>3. HoldersHaveLeases'
    BY <1>2, HoldsFrame DEF LeaseInv, HoldersHaveLeases
<1>4. \A m \in Matches : members'[m] \subseteq members[m]
    <2>1. ASSUME NEW u \in Viewers, ScanPrune(u), NEW m \in Matches
          PROVE  members'[m] \subseteq members[m]
        BY <1>1, <2>1 DEF ScanPrune, TypeOK
    <2>2. CASE ScanForget
        BY <1>1, <2>2 DEF ScanForget, TypeOK
    <2> QED BY <2>1, <2>2
            DEF Scan, ScanIndex, ScanJudge, ScanUnindex, ScanReturn,
                ScanMembers, ScanLease, ScanDies, redis
<1>5. MembersHaveAcquired'
    BY <1>2, <1>4 DEF LeaseInv, MembersHaveAcquired
<1>6. ScanFindsHolders'
    <2>1. ASSUME NEW m \in Matches, ScanMembers(m) PROVE ScanFindsHolders'
        BY <1>2, <2>1, HoldsFrame
           DEF ScanMembers, ScanFindsHolders, LeaseInv, MembersHaveAcquired
    <2>2. ASSUME NEW u \in Viewers, ScanLease(u) PROVE ScanFindsHolders'
        <3>1. /\ scan'.step = "leases"
              /\ scan'.fields = scan.fields
              /\ scan'.unread = scan.unread \ {u}
              /\ Alive(u) => scan'.alive = scan.alive \cup {u}
              /\ ~Alive(u) => scan'.alive = scan.alive
            BY <1>1, <2>2, ScanShape DEF ScanLease
        <3>2. Holds(u) => Alive(u)
            BY DEF LeaseInv, HoldersHaveLeases, Alive
        <3>3. scan.step = "leases" /\ scan.fields \in SUBSET Viewers
            BY <1>1, <2>2, ScanShape DEF ScanLease
        <3> QED BY <1>2, <3>1, <3>2, <3>3, HoldsFrame
                DEF ScanFindsHolders, LeaseInv
    <2>3. CASE ScanJudge
        <3>1. scan'.step = "prune" =>
                  scan'.stale = scan.fields \ scan.alive
            BY <2>3 DEF ScanJudge, Select, Verdict
        <3>2. scan'.step # "leases"
            BY <2>3 DEF ScanJudge, Select, Verdict
        <3>3. \A v \in scan.fields \ scan.alive :
                  v \in Viewers /\ stream[v] \notin Early /\ ~Holds(v)
            BY <1>1, <2>3, ScanShape DEF ScanJudge, ScanFindsHolders, LeaseInv
        <3> QED BY <1>2, <3>1, <3>2, <3>3, HoldsFrame DEF ScanFindsHolders
    <2>4. ASSUME NEW u \in Viewers, ScanPrune(u) PROVE ScanFindsHolders'
        <3>1. /\ scan'.step \in {"prune", "select"}
              /\ scan'.step = "prune" => scan'.stale \subseteq scan.stale
            BY <1>1, <2>4, ScanShape DEF ScanPrune, Select
        <3>2. \A v \in scan.stale :
                  v \in Viewers /\ stream[v] \notin Early /\ ~Holds(v)
            BY <1>1, <2>4, ScanShape DEF ScanPrune, ScanFindsHolders, LeaseInv
        <3> QED BY <1>2, <3>1, <3>2, HoldsFrame DEF ScanFindsHolders
    <2>5. CASE \/ ScanIndex \/ ScanUnindex \/ ScanForget \/ ScanReturn
               \/ ScanDies
        <3>1. scan'.step \notin {"leases", "prune"}
            BY <1>1, <2>5, ScanShape DEF ScanIndex, ScanUnindex, ScanForget, ScanReturn,
                      ScanDies, Select
        <3> QED BY <3>1 DEF ScanFindsHolders
    <2> QED BY <2>1, <2>2, <2>3, <2>4, <2>5 DEF Scan
<1>7. RenewalsOfStreams'
    BY <1>2 DEF LeaseInv, RenewalsOfStreams
<1> QED BY <1>1, <1>3, <1>5, <1>6, <1>7 DEF LeaseInv

LEMMA TickKeepsInv ==
    ASSUME LeasesAssumption, LeaseInv, Tick
    PROVE  LeaseInv'
<1>1. TypeOK /\ TypeOK'
    BY TypeTick DEF LeaseInv
<1>2. stream' = stream /\ renewing' = renewing /\ members' = members
    BY DEF Tick
<1>3. HoldersHaveLeases'
    BY <1>1, <1>2, HoldsFrame DEF Tick, HoldersHaveLeases, Elapse, TypeOK
<1>4. MembersHaveAcquired' /\ RenewalsOfStreams'
    BY <1>2 DEF LeaseInv, MembersHaveAcquired, RenewalsOfStreams
<1>5. /\ scan'.step = scan.step
      /\ scan.step = "leases" => /\ scan'.fields = scan.fields
                                 /\ scan'.unread = scan.unread
                                 /\ scan'.alive = scan.alive
      /\ scan.step = "prune" => scan'.stale = scan.stale
    BY <1>1, ScanShape DEF Tick
<1>6. ScanFindsHolders'
    BY <1>1, <1>2, <1>5, HoldsFrame, ScanShape DEF ScanFindsHolders, LeaseInv
<1> QED BY <1>1, <1>3, <1>4, <1>6 DEF LeaseInv

LEMMA LeaseNext ==
    ASSUME LeasesAssumption, LeaseInv, [Next]_vars
    PROVE  LeaseInv'
<1>1. CASE UNCHANGED vars
    BY <1>1 DEF vars, redis, LeaseInv, TypeOK, HoldersHaveLeases,
                RenewalsOfStreams, MembersHaveAcquired, ScanFindsHolders,
                Holds
<1> QED BY <1>1, StreamKeepsInv, ScanKeepsInv, TickKeepsInv
        DEF Next, Work, StreamStep

\* No step takes the demand of a seen viewer away.
LEMMA SeenStep ==
    ASSUME LeasesAssumption, LeaseInv, [Next]_vars
    PROVE  StaysSeen
<1> SUFFICES ASSUME NEW v \in Viewers, Seen(v), Watches(v), Watches(v)'
             PROVE  Seen(v)'
    BY DEF StaysSeen
<1> DEFINE m == MatchOf[v]
<1>1. TypeOK /\ m \in Matches
    BY DEF LeaseInv, LeasesAssumption
<1>2. /\ m \in index /\ v \in members[m]
      /\ scan.step = "leases" /\ scan.match = m => v \in scan.fields
      /\ ~(scan.step \in {"unindex", "forget"} /\ scan.match = m)
    BY DEF Seen
<1>3. Holds(v) /\ stream[v] = "streaming"
    BY DEF Watches, Holds
<1>4. ASSUME NEW u \in Viewers,
             StreamStep(u)
      PROVE  Seen(v)'
    <2>1. scan' = scan /\ index \subseteq index'
        BY <1>4
           DEF Connect, Acquire, AcquireLease, AcquireIndex, AcquireMember,
               AcquireGrace, Renew, Disconnect, Release, ReleaseRead,
               ReleaseMember, ReleaseLease, ReleaseCheck, ReleaseGrace,
               RenewFails, Die, redis, Subscribe, SubscribeFails, StreamStep
    <2>2. v \in members'[m]
        BY <1>1, <1>2, <1>3, <1>4
           DEF Connect, Acquire, AcquireLease, AcquireIndex, AcquireMember,
               AcquireGrace, Renew, Disconnect, Release, ReleaseRead,
               ReleaseMember, ReleaseLease, ReleaseCheck, ReleaseGrace,
               RenewFails, Die, redis, TypeOK, Proceed, LeasesAssumption,
               Subscribe, SubscribeFails, StreamStep
    <2> QED BY <1>2, <2>1, <2>2 DEF Seen
<1>5. CASE ScanIndex \/ ScanReturn \/ ScanDies
    BY <1>2, <1>5 DEF ScanIndex, ScanReturn, ScanDies, redis, Seen
<1>6. ASSUME NEW k \in Matches, ScanMembers(k) PROVE Seen(v)'
    BY <1>2, <1>6 DEF ScanMembers, redis, Seen
<1>7. ASSUME NEW u \in Viewers, ScanLease(u) PROVE Seen(v)'
    <2>1. /\ scan'.step = "leases" /\ scan.step = "leases"
          /\ scan'.match = scan.match
          /\ scan'.fields = scan.fields
        BY <1>1, <1>7, ScanShape DEF ScanLease
    <2> QED BY <1>2, <1>7, <2>1 DEF ScanLease, redis, Seen
<1>8. CASE ScanJudge
    <2>1. scan.match = m => scan.alive # {}
        BY <1>2, <1>3, <1>8 DEF ScanJudge, LeaseInv, ScanFindsHolders
    <2>2. scan'.step = "unindex" => scan'.match = scan.match /\ scan.alive = {}
        BY <1>8 DEF ScanJudge, Verdict, Select
    <2>3. scan'.step \in {"prune", "select", "unindex"}
        BY <1>8 DEF ScanJudge, Verdict, Select
    <2> QED BY <1>2, <1>8, <2>1, <2>2, <2>3 DEF ScanJudge, redis, Seen
<1>9. ASSUME NEW u \in Viewers, ScanPrune(u) PROVE Seen(v)'
    <2>1. v # u
        BY <1>3, <1>9 DEF ScanPrune, LeaseInv, ScanFindsHolders
    <2>2. v \in members'[m]
        BY <1>1, <1>2, <1>9, <2>1 DEF ScanPrune, TypeOK
    <2>3. scan'.step \in {"prune", "select"}
        BY <1>1, <1>9, ScanShape DEF ScanPrune, Select
    <2> QED BY <1>2, <1>9, <2>2, <2>3 DEF ScanPrune, Seen
<1>10. CASE ScanUnindex
    <2>1. scan'.match = scan.match /\ scan'.step = "forget" /\ scan.match # m
        BY <1>1, <1>2, <1>10, ScanShape DEF ScanUnindex
    <2> QED BY <1>2, <1>10, <2>1 DEF ScanUnindex, Seen
<1>11. CASE ScanForget
    <2>1. scan'.step = "select" /\ scan.match # m
        BY <1>2, <1>11 DEF ScanForget, Select
    <2>2. v \in members'[m]
        BY <1>1, <1>2, <1>11, <2>1 DEF ScanForget, TypeOK
    <2> QED BY <1>2, <1>11, <2>1, <2>2 DEF ScanForget, Seen
<1>12. CASE Tick
    <2>1. /\ scan'.step = scan.step
          /\ scan.step = "leases" => /\ scan'.fields = scan.fields
                                     /\ scan'.match = scan.match
          /\ scan.step # "leases" => scan' = scan
        BY <1>1, <1>12, ScanShape DEF Tick
    <2> QED BY <1>2, <1>12, <2>1 DEF Tick, Seen
<1>13. CASE UNCHANGED vars
    BY <1>2, <1>13 DEF vars, redis, Seen
<1> QED BY <1>4, <1>5, <1>6, <1>7, <1>8, <1>9, <1>10, <1>11, <1>12, <1>13
        DEF Next, Work, Scan, StreamStep

\* Once seen, a viewer that renews its lease keeps its match in demand, for
\* any number of matches, viewers and any times.
THEOREM SeenViewersStay == Spec => SeenViewerStays
<1>1. Init => LeaseInv
    BY LeaseInit, LeasesAssumption
<1>2. LeaseInv /\ [Next]_vars => LeaseInv'
    BY LeaseNext, LeasesAssumption
<1>3. LeaseInv /\ [Next]_vars => [StaysSeen]_vars
    BY SeenStep, LeasesAssumption
<1> QED BY <1>1, <1>2, <1>3, PTL DEF Spec, SeenViewerStays

-----------------------------------------------------------------------------
(* The pages of the ledger                                                 *)
(*                                                                         *)
(* A page outlives what it read: by the time the orders are read, the      *)
(* position may have gone on.  What makes it right is that the ledger      *)
(* never takes back what stands behind a status.                           *)

OrderStatuses == {None, "pending", "filled", "no_fill"}
PositionStatuses == {None, "open", "exit_pending", "exited", "exit_missed", "settled"}

LedgerTypeOK ==
    /\ intent \in [Matches -> [Pages!Sides -> OrderStatuses]]
    /\ position \in [Matches -> PositionStatuses]
    /\ settled \in SUBSET Matches

\* The fills and tracks that a status stands for
Backed(m, status) ==
    /\ status # None => intent[m]["entry"] = "filled"
    /\ status = "exited" => intent[m]["exit"] = "filled"
    /\ status = "exit_missed" => intent[m]["exit"] = "no_fill"
    /\ status = "settled" => m \in settled

LedgerIsBacked == \A m \in Matches : Backed(m, position[m])

\* The page of a match, as far as it has been read
DecisionPage ==
    /\ step \in {"position", "intents", "fills", "tracks"} =>
           page.kind = "decision" /\ page.match \in Matches
    /\ step \in {"intents", "fills", "tracks"} =>
           page.status \in PositionStatuses /\ Backed(page.match, page.status)
    /\ step \in {"fills", "tracks"} =>
           /\ page.status # None => {"entry_pending", "filled"} \subseteq page.lifecycle
           /\ page.status \in {"exited", "exit_missed", "settled"} =>
                  page.status \in page.lifecycle
    /\ step = "tracks" =>
           /\ "entry" \in page.events /\ page.status # None
           /\ page = [kind |-> "decision", match |-> page.match, action |-> page.action,
                      lifecycle |-> page.lifecycle, pnl |-> page.pnl,
                      status |-> page.status, events |-> page.events]

\* The page of the positions, as far as it has been read
PositionsPage ==
    /\ step \in {"rows", "pending", "recent"} =>
           /\ page.kind = "positions"
           /\ page.status \in [Matches -> PositionStatuses]
           /\ \A m \in Matches : Backed(m, page.status[m])
    /\ step \in {"pending", "recent"} =>
           \A m \in Matches : page.status[m] \in Pages!OpenStatuses => m \in page.priced
    /\ step = "recent" => \A m \in page.waiting : page.status[m] = None

\* A decision to act was made from a prediction, and predictions stay
ActedOnPrediction(m, action) == action \in Pages!EngineActions => prediction[m] # None
ModelTypeOK ==
    /\ prediction \in [Matches -> {None, "available", "unavailable", "unpromoted"}]
    /\ decision \in [Matches -> Pages!EngineActions \cup {None, "no_bet", "unpromoted"}]
    /\ linked \subseteq Matches
MarketsPage ==
    /\ \A m \in Matches : ActedOnPrediction(m, decision[m])
    /\ step \in {"decisions", "predictions"} => page.linked \subseteq Matches
    /\ step = "predictions" =>
           \A m \in Matches : ActedOnPrediction(m, page.decision[m])
    /\ step = "evidence" =>
           page = [kind |-> "opportunities", rows |-> page.rows, reason |-> page.reason]

PagesInv ==
    /\ LedgerTypeOK /\ LedgerIsBacked /\ ModelTypeOK
    /\ DecisionPage /\ PositionsPage /\ MarketsPage
    /\ Pages!StatusIsExplained /\ Pages!RowsAreComplete /\ Pages!ActionHasItsModel

\* What the ledger never takes back
Stands ==
    /\ \A m \in Matches :
        /\ intent[m]["entry"] = "filled" => intent'[m]["entry"] = "filled"
        /\ intent[m]["exit"] = "filled" => intent'[m]["exit"] = "filled"
        /\ intent[m]["exit"] = "no_fill" => intent'[m]["exit"] = "no_fill"
        /\ prediction[m] # None => prediction'[m] # None
    /\ settled \subseteq settled'

LEMMA PagesStart ==
    ASSUME Pages!NoneIsNoStatus, Pages!Init
    PROVE  PagesInv
<1> USE DEF Pages!Init
<1>1. LedgerTypeOK /\ ModelTypeOK
  BY DEF LedgerTypeOK, ModelTypeOK, OrderStatuses, PositionStatuses
<1>2. LedgerIsBacked
  BY DEF LedgerIsBacked, Backed, Pages!NoneIsNoStatus
<1>3. DecisionPage /\ PositionsPage
  BY DEF DecisionPage, PositionsPage
<1>4. MarketsPage
  BY DEF MarketsPage, ActedOnPrediction, Pages!NoneIsNoStatus
<1>5. Pages!StatusIsExplained /\ Pages!RowsAreComplete /\ Pages!ActionHasItsModel
  BY DEF Pages!StatusIsExplained, Pages!RowsAreComplete, Pages!ActionHasItsModel, Pages!Shown
<1> QED BY <1>1, <1>2, <1>3, <1>4, <1>5 DEF PagesInv

\* The daemon's steps keep the ledger consistent and take nothing back.
LEMMA LedgerGoesOn ==
    ASSUME Pages!NoneIsNoStatus, LedgerTypeOK, LedgerIsBacked, ModelTypeOK,
           NEW m \in Matches, Pages!Writes(m)
    PROVE  LedgerTypeOK' /\ LedgerIsBacked' /\ ModelTypeOK' /\ Stands
<1> USE DEF LedgerTypeOK, LedgerIsBacked, Backed, ModelTypeOK, Stands, OrderStatuses,
            PositionStatuses, Pages!NoneIsNoStatus, Pages!Keeps, Pages!Order, Pages!Move,
            Pages!model, Pages!ledger, Pages!Sides, Pages!Changes, Pages!EngineActions
<1>1. CASE Pages!PlaceEntry(m)
  <2>1. LedgerTypeOK' /\ ModelTypeOK' /\ Stands
    BY <1>1 DEF Pages!PlaceEntry
  <2>2. LedgerIsBacked'
    BY <1>1 DEF Pages!PlaceEntry
  <2> QED BY <2>1, <2>2
<1>2. CASE Pages!DecideEntry(m)
  <2>1. CASE Pages!Order(m, "entry", "filled") /\ Pages!Move(m, "open")
    <3>1. LedgerTypeOK' /\ ModelTypeOK' /\ Stands
      BY <1>2, <2>1 DEF Pages!DecideEntry
    <3>2. LedgerIsBacked'
      BY <1>2, <2>1 DEF Pages!DecideEntry
    <3> QED BY <3>1, <3>2
  <2>2. CASE Pages!Order(m, "entry", "no_fill") /\ UNCHANGED position
    <3>1. LedgerTypeOK' /\ ModelTypeOK' /\ Stands
      BY <1>2, <2>2 DEF Pages!DecideEntry
    <3>2. LedgerIsBacked'
      BY <1>2, <2>2 DEF Pages!DecideEntry
    <3> QED BY <3>1, <3>2
  <2> QED BY <1>2, <2>1, <2>2 DEF Pages!DecideEntry
<1>3. CASE Pages!PlaceExit(m)
  <2>1. LedgerTypeOK' /\ ModelTypeOK' /\ Stands
    BY <1>3 DEF Pages!PlaceExit
  <2>2. LedgerIsBacked'
    BY <1>3 DEF Pages!PlaceExit
  <2> QED BY <2>1, <2>2
<1>4. CASE Pages!DecideExit(m)
  <2>1. CASE Pages!Order(m, "exit", "filled")
    BY <1>4, <2>1 DEF Pages!DecideExit
  <2>2. CASE Pages!Order(m, "exit", "no_fill")
    BY <1>4, <2>2 DEF Pages!DecideExit
  <2> QED BY <1>4, <2>1, <2>2 DEF Pages!DecideExit
<1>5. CASE Pages!FollowExit(m)
  BY <1>5 DEF Pages!FollowExit
<1>6. CASE Pages!StoreTrack(m)
  BY <1>6 DEF Pages!StoreTrack
<1>7. CASE Pages!SettlePosition(m)
  BY <1>7 DEF Pages!SettlePosition, Pages!MaySettle
<1>8. CASE Pages!Predict(m)
  BY <1>8 DEF Pages!Predict
<1>9. CASE Pages!Decide(m)
  BY <1>9 DEF Pages!Decide
<1>10. CASE Pages!Link(m)
  BY <1>10 DEF Pages!Link
<1> QED
  BY <1>1, <1>2, <1>3, <1>4, <1>5, <1>6, <1>7, <1>8, <1>9, <1>10 DEF Pages!Writes

\* A page that is half read survives what the daemon writes.
LEMMA PageOutlivesWrites ==
    ASSUME Pages!NoneIsNoStatus, PagesInv, NEW m \in Matches, Pages!Writes(m)
    PROVE  PagesInv'
<1>1. LedgerTypeOK' /\ LedgerIsBacked' /\ ModelTypeOK' /\ Stands
  BY LedgerGoesOn DEF PagesInv
<1>2. UNCHANGED <<step, page>>
  BY DEF Pages!Writes, Pages!PlaceEntry, Pages!DecideEntry, Pages!PlaceExit,
         Pages!DecideExit, Pages!FollowExit, Pages!StoreTrack, Pages!SettlePosition,
         Pages!Predict, Pages!Decide, Pages!Link, Pages!Keeps, Pages!Changes
<1>3. \A n \in Matches, status \in PositionStatuses :
          Backed(n, status) => Backed(n, status)'
  BY <1>1 DEF Stands, Backed
<1>4. DecisionPage'
  BY <1>2, <1>3 DEF PagesInv, DecisionPage
<1>5. PositionsPage'
  BY <1>2, <1>3 DEF PagesInv, PositionsPage
<1>6. MarketsPage'
  <2>1. \A n \in Matches : ActedOnPrediction(n, decision[n])'
    <3>1. CASE decision' = decision
      BY <1>1, <3>1 DEF PagesInv, MarketsPage, ActedOnPrediction, Stands
    <3>2. CASE Pages!Decide(m)
      BY <3>2 DEF PagesInv, ModelTypeOK, MarketsPage, ActedOnPrediction, Pages!Decide,
                  Pages!EngineActions, Pages!NoneIsNoStatus
    <3> QED
      BY <3>1, <3>2 DEF Pages!Writes, Pages!PlaceEntry, Pages!DecideEntry, Pages!PlaceExit,
         Pages!DecideExit, Pages!FollowExit, Pages!StoreTrack, Pages!SettlePosition,
         Pages!Predict, Pages!Link, Pages!Keeps, Pages!Changes, Pages!model
  <2> QED BY <1>1, <1>2, <2>1 DEF PagesInv, MarketsPage, ActedOnPrediction, Stands
<1>7. Pages!StatusIsExplained' /\ Pages!RowsAreComplete' /\ Pages!ActionHasItsModel'
  BY <1>2 DEF PagesInv, Pages!StatusIsExplained, Pages!RowsAreComplete,
              Pages!ActionHasItsModel, Pages!Shown
<1> QED BY <1>1, <1>4, <1>5, <1>6, <1>7 DEF PagesInv

\* A read leaves the ledger alone: what it adds to the page is backed by it.
LEMMA ReadsKeepTheLedger ==
    ASSUME PagesInv, UNCHANGED <<Pages!ledger, Pages!model>>
    PROVE  /\ LedgerTypeOK' /\ LedgerIsBacked' /\ ModelTypeOK'
           /\ \A m \in Matches : ActedOnPrediction(m, decision[m])'
           /\ \A m \in Matches, status \in PositionStatuses :
                  Backed(m, status) => Backed(m, status)'
BY DEF PagesInv, LedgerTypeOK, LedgerIsBacked, ModelTypeOK, MarketsPage, ActedOnPrediction,
       Backed, Pages!ledger, Pages!model

\* The reads of the page of a match
LEMMA DecisionPageIsRead ==
    ASSUME Pages!NoneIsNoStatus, PagesInv,
           \/ \E m \in Matches : Pages!ReadDecision(m)
           \/ Pages!ReadPosition \/ Pages!ReadIntents \/ Pages!ReadFills \/ Pages!ReadTracks
    PROVE  PagesInv'
<1> USE DEF Pages!Reads, Pages!Shown, Pages!StatusIsExplained, Pages!RowsAreComplete,
            Pages!ActionHasItsModel, DecisionPage, PositionsPage, MarketsPage
<1>1. CASE \E m \in Matches : Pages!ReadDecision(m)
  BY <1>1, ReadsKeepTheLedger DEF PagesInv, Pages!ReadDecision
<1>2. CASE Pages!ReadPosition
  <2>1. /\ page.match \in Matches /\ step' = "intents"
        /\ page' = [kind |-> "decision", match |-> page.match, action |-> page.action,
                    status |-> position[page.match]]
        /\ UNCHANGED <<Pages!ledger, Pages!model>>
    BY <1>2 DEF PagesInv, Pages!ReadPosition
  <2>2. position[page.match] \in PositionStatuses /\ Backed(page.match, position[page.match])
    BY <2>1 DEF PagesInv, LedgerTypeOK, LedgerIsBacked
  <2>3. Backed(page.match, position[page.match])'
    BY <2>1, <2>2 DEF Backed, Pages!ledger
  <2> QED BY <2>1, <2>2, ReadsKeepTheLedger DEF PagesInv
<1>3. CASE Pages!ReadIntents
  <2> DEFINE L == Pages!Lifecycle(intent[page.match], page.status)
  <2>1. /\ page.match \in Matches /\ step' = "fills" /\ page.status \in PositionStatuses
        /\ Backed(page.match, page.status)
        /\ page' = [kind |-> "decision", match |-> page.match, action |-> page.action,
                    status |-> page.status, lifecycle |-> L]
        /\ UNCHANGED <<Pages!ledger, Pages!model>>
    BY <1>3 DEF PagesInv, Pages!ReadIntents, Pages!WithIntents
  <2>2. /\ page.status # None => {"entry_pending", "filled"} \subseteq L
        /\ page.status \in {"exited", "exit_missed", "settled"} => page.status \in L
    BY <2>1 DEF Pages!Lifecycle, Backed, PositionStatuses, Pages!NoneIsNoStatus
  <2> HIDE DEF L
  <2> QED BY <2>1, <2>2, ReadsKeepTheLedger DEF PagesInv
<1>4. CASE Pages!ReadFills
  <2>1. /\ page.match \in Matches /\ page.status \in PositionStatuses
        /\ Backed(page.match, page.status) /\ step = "fills"
        /\ page.status # None => {"entry_pending", "filled"} \subseteq page.lifecycle
        /\ page.status \in {"exited", "exit_missed", "settled"} =>
               page.status \in page.lifecycle
        /\ UNCHANGED <<Pages!ledger, Pages!model>>
    BY <1>4 DEF PagesInv, Pages!ReadFills
  <2>2. CASE page.status = None
    <3> DEFINE status == Pages!StatusOfIntent(page.lifecycle, intent[page.match]["entry"])
    <3>1. status \in {None, "missed", "entry_pending"}
      BY DEF Pages!StatusOfIntent
    <3>2. status \notin Pages!OpenStatuses \cup {"exited", "exit_missed", "settled"}
      BY <3>1 DEF Pages!OpenStatuses, Pages!NoneIsNoStatus
    <3> HIDE DEF status
    <3>3. step' = "show" /\ page'.kind = "decision" /\ page'.status = status
      BY <1>4, <2>2 DEF Pages!ReadFills, status
    <3> QED BY <2>1, <3>2, <3>3, ReadsKeepTheLedger DEF PagesInv
  <2>3. CASE page.status # None
    <3> DEFINE E == Pages!EventsOf(page.lifecycle, intent[page.match])
    <3>1. "entry" \in E
      BY <2>1, <2>3 DEF Pages!EventsOf, Backed, Pages!Sides, Pages!PendingOf
    <3> HIDE DEF E
    <3>2. /\ step' = "tracks"
          /\ page' = [kind |-> "decision", match |-> page.match, action |-> page.action,
                      lifecycle |-> page.lifecycle, pnl |-> FALSE,
                      status |-> page.status, events |-> E]
      BY <1>4, <2>3 DEF Pages!ReadFills, E
    <3> QED BY <2>1, <2>3, <3>1, <3>2, ReadsKeepTheLedger DEF PagesInv
  <2> QED BY <2>2, <2>3
<1>5. CASE Pages!ReadTracks
  <2>1. /\ page.match \in Matches /\ page.status \in PositionStatuses
        /\ Backed(page.match, page.status) /\ step' = "show"
        /\ {"entry_pending", "filled"} \subseteq page.lifecycle
        /\ page.status \in {"exited", "exit_missed", "settled"} =>
               page.status \in page.lifecycle
        /\ "entry" \in page.events
        /\ UNCHANGED <<Pages!ledger, Pages!model>>
    BY <1>5 DEF PagesInv, Pages!ReadTracks
  <2>2. /\ page'.kind = "decision" /\ page'.status = page.status
        /\ page'.lifecycle = page.lifecycle /\ page'.events = page.events
        /\ page'.pnl = (page.match \in settled)
    BY <1>5 DEF PagesInv, Pages!ReadTracks
  <2> QED BY <2>1, <2>2, ReadsKeepTheLedger DEF PagesInv, Backed
<1> QED BY <1>1, <1>2, <1>3, <1>4, <1>5

\* The reads of the page of the positions, and of the pulse that goes on from it
LEMMA PositionsPageIsRead ==
    ASSUME Pages!NoneIsNoStatus, PagesInv,
           \/ Pages!ReadPositions \/ Pages!ReadOpenRows \/ Pages!ReadPending
           \/ Pages!ReadRecentRows \/ Pages!ReadPulse
    PROVE  PagesInv'
<1> USE DEF Pages!Reads, Pages!Shown, Pages!StatusIsExplained, Pages!RowsAreComplete,
            Pages!ActionHasItsModel, DecisionPage, PositionsPage, MarketsPage
<1>1. CASE Pages!ReadPositions
  <2>1. /\ step' = "rows" /\ page'.kind = "positions" /\ page'.status = position
        /\ UNCHANGED <<Pages!ledger, Pages!model>>
    BY <1>1 DEF Pages!ReadPositions
  <2>2. /\ position \in [Matches -> PositionStatuses]
        /\ \A m \in Matches : Backed(m, position[m])
    BY DEF PagesInv, LedgerTypeOK, LedgerIsBacked
  <2>3. \A m \in Matches : Backed(m, position[m])'
    BY ReadsKeepTheLedger, <2>1 DEF LedgerIsBacked
  <2>4. \A m \in Matches : Backed(m, page.status[m])'
    BY <2>1, <2>3 DEF Pages!ledger
  <2> QED BY <2>1, <2>2, <2>4, ReadsKeepTheLedger DEF PagesInv
<1>2. CASE Pages!ReadOpenRows
  <2>1. /\ step = "rows" /\ step' = "pending"
        /\ page'.kind = "positions" /\ page'.status = page.status
        /\ page'.priced = Pages!Priced(Pages!OpenPositions)
        /\ UNCHANGED <<Pages!ledger, Pages!model>>
    BY <1>2 DEF Pages!ReadOpenRows
  <2>2. \A m \in Matches : page.status[m] \in Pages!OpenStatuses => m \in page'.priced
    BY <2>1 DEF PagesInv, Backed, Pages!Priced, Pages!OpenPositions, Pages!OpenStatuses,
                Pages!NoneIsNoStatus
  <2>3. \A m \in Matches : Backed(m, page.status[m])'
    BY <2>1, ReadsKeepTheLedger DEF PagesInv
  <2> QED BY <2>1, <2>2, <2>3, ReadsKeepTheLedger DEF PagesInv
<1>3. CASE Pages!ReadPending
  <2>1. /\ step = "pending" /\ step' = "recent"
        /\ page'.kind = "positions" /\ page'.status = page.status
        /\ page'.priced = page.priced
        /\ \A m \in page'.waiting : page.status[m] = None
        /\ UNCHANGED <<Pages!ledger, Pages!model>>
    BY <1>3 DEF Pages!ReadPending
  <2>2. \A m \in Matches : Backed(m, page.status[m])'
    BY <2>1, ReadsKeepTheLedger DEF PagesInv
  <2> QED BY <2>1, <2>2, ReadsKeepTheLedger DEF PagesInv
<1>4. CASE Pages!ReadRecentRows
  <2>1. /\ step = "recent" /\ step' = "show"
        /\ page'.kind = "positions" /\ page'.status = page.status
        /\ page'.waiting = page.waiting
        /\ page'.priced = page.priced \cup Pages!Priced(Pages!RecentPositions)
        /\ page'.pnl = {m \in Pages!RecentPositions : page.status[m] = "settled" /\ m \in settled}
        /\ UNCHANGED <<Pages!ledger, Pages!model>>
    BY <1>4 DEF Pages!ReadRecentRows
  <2> SUFFICES ASSUME NEW m \in Matches
               PROVE /\ page.status[m] # None => m \in page'.priced /\ m \notin page.waiting
                     /\ page.status[m] = "settled" => m \in page'.pnl
    BY <2>1, ReadsKeepTheLedger DEF PagesInv
  <2>2. /\ page.status[m] \in PositionStatuses /\ Backed(m, page.status[m])
        /\ page.status[m] \in Pages!OpenStatuses => m \in page.priced
        /\ m \in page.waiting => page.status[m] = None
    BY <2>1 DEF PagesInv
  <2> QED
    BY <2>1, <2>2 DEF Backed, Pages!Priced, Pages!RecentPositions, Pages!OpenPositions,
                      Pages!OpenStatuses, Pages!NoneIsNoStatus
<1>5. CASE Pages!ReadPulse
  BY <1>5, ReadsKeepTheLedger DEF PagesInv, Pages!ReadPulse
<1> QED BY <1>1, <1>2, <1>3, <1>4, <1>5

\* The reads of the pages of markets and of opportunities
LEMMA MarketsPageIsRead ==
    ASSUME Pages!NoneIsNoStatus, PagesInv,
           \/ Pages!ReadOverviews \/ Pages!ReadDecisions \/ Pages!ReadPredictions
           \/ Pages!ReadOpportunities \/ Pages!ReadEvidence
    PROVE  PagesInv'
<1> USE DEF Pages!Reads, Pages!Shown, Pages!StatusIsExplained, Pages!RowsAreComplete,
            Pages!ActionHasItsModel, DecisionPage, PositionsPage, MarketsPage
<1>1. CASE Pages!ReadOverviews
  BY <1>1, ReadsKeepTheLedger DEF PagesInv, ModelTypeOK, Pages!ReadOverviews
<1>2. CASE Pages!ReadDecisions
  <2>1. /\ step = "decisions" /\ step' = "predictions" /\ page'.decision = decision
        /\ page'.linked = page.linked
        /\ UNCHANGED <<Pages!ledger, Pages!model>>
    BY <1>2 DEF Pages!ReadDecisions
  <2>2. \A m \in Matches : ActedOnPrediction(m, page.decision[m])'
    BY <2>1, ReadsKeepTheLedger DEF ActedOnPrediction, Pages!model
  <2> QED BY <2>1, <2>2, ReadsKeepTheLedger DEF PagesInv
<1>3. CASE Pages!ReadPredictions
  <2> DEFINE A == [m \in Matches |->
                      Pages!ModelAvailability(m, page.linked, page.decision[m], prediction[m])]
  <2>1. /\ step = "predictions" /\ step' = "show" /\ page'.kind = "markets"
        /\ page'.linked = page.linked /\ page'.decision = page.decision
        /\ page'.availability = A
        /\ UNCHANGED <<Pages!ledger, Pages!model>>
    BY <1>3 DEF Pages!ReadPredictions, Pages!WithPredictions
  <2>2. ASSUME NEW m \in Matches, m \in page.linked, page.decision[m] \in Pages!EngineActions
        PROVE  A[m] # "not_evaluated"
    <3>1. prediction[m] \in {"available", "unavailable", "unpromoted"}
      BY <2>1, <2>2 DEF PagesInv, ModelTypeOK, ActedOnPrediction
    <3>2. A[m] = Pages!ModelAvailability(m, page.linked, page.decision[m], prediction[m])
      OBVIOUS
    <3> QED BY <2>2, <3>1, <3>2 DEF Pages!ModelAvailability
  <2> HIDE DEF A
  <2>3. page'.linked \subseteq Matches
    BY <2>1 DEF PagesInv
  <2> QED BY <2>1, <2>2, <2>3, ReadsKeepTheLedger DEF PagesInv
<1>4. CASE Pages!ReadOpportunities
  BY <1>4, ReadsKeepTheLedger DEF PagesInv, Pages!ReadOpportunities
<1>5. CASE Pages!ReadEvidence
  <2>1. /\ step = "evidence" /\ step' = "show" /\ page'.kind = "opportunities"
        /\ UNCHANGED <<Pages!ledger, Pages!model>>
    BY <1>5 DEF PagesInv, Pages!ReadEvidence
  <2> QED BY <2>1, ReadsKeepTheLedger DEF PagesInv
<1> QED BY <1>1, <1>2, <1>3, <1>4, <1>5

LEMMA PagesStep ==
    ASSUME Pages!NoneIsNoStatus, PagesInv, [Pages!Next]_Pages!vars
    PROVE  PagesInv'
<1>1. CASE Pages!Show
  <2>1. step' = "idle" /\ UNCHANGED <<Pages!ledger, Pages!model>>
    BY <1>1 DEF Pages!Show
  <2> QED
    BY <2>1, ReadsKeepTheLedger
       DEF PagesInv, Pages!Shown, Pages!StatusIsExplained, Pages!RowsAreComplete,
           Pages!ActionHasItsModel, DecisionPage, PositionsPage, MarketsPage
<1>2. CASE UNCHANGED Pages!vars
  <2>1. UNCHANGED <<Pages!ledger, Pages!model, step, page>>
    BY <1>2 DEF Pages!vars
  <2>2. DecisionPage' /\ PositionsPage' /\ MarketsPage'
    BY <2>1, ReadsKeepTheLedger DEF PagesInv, DecisionPage, PositionsPage, MarketsPage,
                                    ActedOnPrediction, Pages!model
  <2>3. Pages!StatusIsExplained' /\ Pages!RowsAreComplete' /\ Pages!ActionHasItsModel'
    BY <2>1 DEF PagesInv, Pages!Shown, Pages!StatusIsExplained, Pages!RowsAreComplete,
                Pages!ActionHasItsModel
  <2> QED BY <2>1, <2>2, <2>3, ReadsKeepTheLedger DEF PagesInv
<1> QED
  BY <1>1, <1>2, PageOutlivesWrites, DecisionPageIsRead, PositionsPageIsRead,
     MarketsPageIsRead
     DEF Pages!Next

\* The inductive invariant of the pages: what a page has read so far is still
\* backed by the ledger.
THEOREM PagesInvariant == ASSUME Pages!NoneIsNoStatus PROVE Pages!Spec => []PagesInv
BY PagesStart, PagesStep, PTL DEF Pages!Spec

\* A row of the markets whose decision is to act never says that the model was
\* not evaluated (_model_availability).
THEOREM ActionsHaveTheirModel ==
    ASSUME Pages!NoneIsNoStatus PROVE Pages!Spec => []Pages!ActionHasItsModel
<1>1. PagesInv => Pages!ActionHasItsModel
  BY DEF PagesInv
<1> QED BY <1>1, PagesInvariant, PTL

-----------------------------------------------------------------------------
(* The cache in front of the providers                                     *)
(*                                                                         *)
(* An entry carries the lifetime of the load it came from, and what a load *)
(* brings was loaded after those who wait for it had asked.                *)

Entries == [key : Keys, value : Cache!Values, at : Int, ttl : Int]
Waiting == [phase : {"idle", "wait", "loaded", "failed"}, key : Keys \cup {None}, asked : Int,
            loaded : Entries \cup {None}]

CacheTypeOK ==
    /\ load \in [Keys -> {"lookup", "match", "draw"}]
    /\ time \in Nat
    /\ entries \in Seq(Entries)
    /\ running \in [Keys -> Nat] /\ inflight \in SUBSET Keys
    /\ waiter \in [Requests -> Waiting]

\* An entry's lifetime is that of its key's load.
EntriesKnowTheirTtl ==
    \A i \in 1..Len(entries) :
        entries[i].ttl = Cache!Ttl(load[entries[i].key], entries[i].value)

\* A request that was woken has the answer of its key, loaded since it asked.
WokenInTime ==
    \A r \in Requests :
        LET w == waiter[r] IN
        /\ w.phase # "idle" => w.key \in Keys /\ w.asked <= time
        /\ w.phase = "loaded" =>
               w.loaded \in Entries /\ w.loaded.at + Cache!Ttl(load[w.key], w.loaded.value) >= w.asked

\* A load runs exactly for the keys that can be joined.
JoinableIffRunning == \A k \in Keys : running[k] = IF k \in inflight THEN 1 ELSE 0

CacheInv ==
    /\ CacheTypeOK /\ EntriesKnowTheirTtl /\ WokenInTime /\ JoinableIffRunning
    /\ Cache!AnswersAreRecent

LEMMA TtlIsATime ==
    ASSUME NEW kind \in {"lookup", "match", "draw"}, NEW value \in Cache!Values
    PROVE  Cache!Ttl(kind, value) \in Nat /\ Cache!StaleTtl(kind, value) \in Nat
BY DEF Cache!Values, Cache!Ttl, Cache!StaleTtl, Cache!LookupTtl, Cache!MatchTtl, Cache!DrawTtl,
       Cache!MatchStaleTtl, Cache!DrawStaleTtl, Cache!Short, Cache!Long

LEMMA CacheStart ==
    ASSUME Cache!LoadsAreKnown, Cache!Init
    PROVE  CacheInv
<1>1. CacheTypeOK
  BY DEF Cache!LoadsAreKnown, Cache!Init, CacheTypeOK, Cache!Idle, Waiting
<1>2. EntriesKnowTheirTtl /\ WokenInTime /\ JoinableIffRunning /\ Cache!AnswersAreRecent
  BY DEF Cache!Init, EntriesKnowTheirTtl, WokenInTime, JoinableIffRunning, Cache!Idle,
         Cache!AnswersAreRecent
<1> QED BY <1>1, <1>2 DEF CacheInv

\* The entry of a key is one of the entries.
LEMMA CachedEntry ==
    ASSUME CacheTypeOK, EntriesKnowTheirTtl, NEW key \in Cache!Cached
    PROVE  /\ Cache!IndexOf(key) \in 1..Len(entries)
           /\ Cache!EntryOf(key) \in Entries /\ Cache!EntryOf(key).key = key
           /\ Cache!EntryOf(key).ttl = Cache!Ttl(load[key], Cache!EntryOf(key).value)
<1>1. \E i \in 1..Len(entries) : entries[i].key = key
  BY DEF Cache!Cached, CacheTypeOK
<1>2. /\ Cache!IndexOf(key) \in 1..Len(entries)
      /\ entries[Cache!IndexOf(key)].key = key
  BY <1>1 DEF Cache!IndexOf, CacheTypeOK
<1> QED BY <1>2 DEF Cache!EntryOf, CacheTypeOK, EntriesKnowTheirTtl

\* Moving an entry to the end keeps the lifetimes of all of them.
LEMMA MovedKnowTheirTtl ==
    ASSUME CacheTypeOK, EntriesKnowTheirTtl, NEW key \in Keys, NEW entry \in Entries,
           entry.key = key, entry.ttl = Cache!Ttl(load[key], entry.value)
    PROVE  LET moved == Cache!MovedToEnd(key, entry) IN
           /\ moved \in Seq(Entries)
           /\ \A i \in 1..Len(moved) :
                  moved[i].ttl = Cache!Ttl(load[moved[i].key], moved[i].value)
<1> DEFINE n == Cache!IndexOf(key)
           others == Cache!Others(key)
<1>1. /\ others \in Seq(Entries)
      /\ \A i \in 1..Len(others) : \E j \in 1..Len(entries) : others[i] = entries[j]
  <2>1. CASE key \notin Cache!Cached
    BY <2>1 DEF Cache!Others, CacheTypeOK
  <2>2. CASE key \in Cache!Cached
    <3>1. n \in 1..Len(entries)
      BY <2>2, CachedEntry
    <3>2. others = SubSeq(entries, 1, n - 1) \o SubSeq(entries, n + 1, Len(entries))
      BY <2>2 DEF Cache!Others, Cache!RemoveAt
    <3> HIDE DEF n, others
    <3>3. /\ SubSeq(entries, 1, n - 1) \in Seq(Entries)
          /\ SubSeq(entries, n + 1, Len(entries)) \in Seq(Entries)
      BY <3>1 DEF CacheTypeOK
    <3>4. others \in Seq(Entries)
      BY <3>2, <3>3
    <3>5. PICK a, b \in Seq(Entries) :
              /\ a = SubSeq(entries, 1, n - 1) /\ b = SubSeq(entries, n + 1, Len(entries))
              /\ others = a \o b
      BY <3>2, <3>3
    <3>6. /\ Len(entries) \in Nat /\ n \in Int /\ n >= 1 /\ n <= Len(entries)
          /\ entries \in Seq(Entries)
      BY <3>1 DEF CacheTypeOK
    <3>7. /\ Len(a) = n - 1 /\ Len(b) = Len(entries) - n
          /\ \A i \in 1..Len(a) : a[i] = entries[i]
          /\ \A i \in 1..Len(b) : b[i] = entries[n + i]
      BY <3>5, <3>6
    <3>8. /\ Len(others) = Len(a) + Len(b)
          /\ \A i \in 1..Len(others) :
                others[i] = IF i <= Len(a) THEN a[i] ELSE b[i - Len(a)]
      <4>1. /\ Len(a \o b) = Len(a) + Len(b)
            /\ \A i \in 1..Len(a \o b) : (a \o b)[i] = IF i <= Len(a) THEN a[i] ELSE b[i - Len(a)]
        BY ConcatProperties
      <4> QED BY <3>5, <4>1
    <3>9. ASSUME NEW i \in 1..Len(others)
          PROVE  \E j \in 1..Len(entries) : others[i] = entries[j]
      <4>1. CASE i <= n - 1
        BY <3>6, <3>7, <3>8, <4>1
      <4>2. CASE ~(i <= n - 1)
        <5>1. i - Len(a) \in 1..Len(b) /\ others[i] = b[i - Len(a)]
          BY <3>6, <3>7, <3>8, <4>2
        <5>2. others[i] = entries[n + (i - Len(a))] /\ n + (i - Len(a)) \in 1..Len(entries)
          BY <3>6, <3>7, <5>1
        <5> QED BY <5>2
      <4> QED BY <4>1, <4>2
    <3> QED BY <3>4, <3>9
  <2> QED BY <2>1, <2>2
<1>2. Cache!MovedToEnd(key, entry) = Append(others, entry)
  BY DEF Cache!MovedToEnd
<1> HIDE DEF others
<1> QED BY <1>1, <1>2 DEF EntriesKnowTheirTtl

\* Whoever leaves the cache with an answer leaves the others as they were.
LEMMA OthersWait ==
    ASSUME CacheTypeOK, WokenInTime, NEW r \in Requests, NEW w \in Waiting,
           waiter' = [waiter EXCEPT ![r] = w], UNCHANGED load, UNCHANGED time,
           w.phase = "idle" \/ (w.phase = "wait" /\ w.key \in Keys /\ w.asked <= time)
    PROVE  waiter' \in [Requests -> Waiting] /\ WokenInTime'
<1>1. /\ waiter' \in [Requests -> Waiting]
      /\ \A x \in Requests : waiter'[x] = IF x = r THEN w ELSE waiter[x]
  BY DEF CacheTypeOK
<1> QED BY <1>1 DEF WokenInTime

\* The end of a load takes it from those that run, and wakes who waits for it.
LEMMA LoadIsOver ==
    ASSUME CacheInv, NEW key \in Keys, Cache!EndsLoad(key),
           NEW entry \in Entries \cup {None}, NEW ending \in {"loaded", "failed"},
           waiter' = Cache!Woken(key, ending, entry),
           ending = "loaded" =>
               entry \in Entries /\ entry.at + Cache!Ttl(load[key], entry.value) >= time
    PROVE  /\ running' \in [Keys -> Nat] /\ inflight' \in SUBSET Keys /\ JoinableIffRunning'
           /\ waiter' \in [Requests -> Waiting] /\ WokenInTime'
           /\ Cache!AnswersAreRecent' /\ UNCHANGED <<load, time>>
<1>1. /\ running' = [running EXCEPT ![key] = @ - 1] /\ running[key] > 0
      /\ inflight' = inflight \ {key} /\ answer' = None /\ UNCHANGED <<load, time>>
  BY DEF Cache!EndsLoad
<1>2. running' \in [Keys -> Nat] /\ inflight' \in SUBSET Keys /\ JoinableIffRunning'
  BY <1>1 DEF CacheInv, CacheTypeOK, JoinableIffRunning
<1>3. ASSUME NEW r \in Requests
      PROVE  /\ waiter'[r] \in Waiting
             /\ waiter'[r].phase # "idle" => waiter'[r].key \in Keys /\ waiter'[r].asked <= time
             /\ waiter'[r].phase = "loaded" =>
                    /\ waiter'[r].loaded \in Entries
                    /\ waiter'[r].loaded.at + Cache!Ttl(load[waiter'[r].key], waiter'[r].loaded.value)
                           >= waiter'[r].asked
  <2>1. /\ waiter[r] \in Waiting
        /\ waiter[r].phase # "idle" => waiter[r].key \in Keys /\ waiter[r].asked <= time
        /\ waiter[r].phase = "loaded" =>
               /\ waiter[r].loaded \in Entries
               /\ waiter[r].loaded.at + Cache!Ttl(load[waiter[r].key], waiter[r].loaded.value)
                      >= waiter[r].asked
    BY DEF CacheInv, CacheTypeOK, WokenInTime
  <2>2. CASE waiter[r].phase = "wait" /\ waiter[r].key = key
    <3>1. waiter'[r] = [waiter[r] EXCEPT !.phase = ending, !.loaded = entry]
      BY <2>2 DEF Cache!Woken
    <3>2. /\ waiter'[r] \in Waiting /\ waiter'[r].phase = ending /\ waiter'[r].loaded = entry
          /\ waiter'[r].key = key /\ waiter'[r].asked = waiter[r].asked
      BY <2>1, <2>2, <3>1 DEF Waiting
    <3>3. waiter[r].asked <= time /\ waiter[r].asked \in Int /\ time \in Int
      BY <2>1, <2>2 DEF Waiting, CacheInv, CacheTypeOK
    <3>4. ending = "loaded" => entry.at \in Int /\ Cache!Ttl(load[key], entry.value) \in Nat
      BY TtlIsATime DEF Entries, CacheInv, CacheTypeOK
    <3> QED BY <2>1, <2>2, <3>2, <3>3, <3>4
  <2>3. CASE ~(waiter[r].phase = "wait" /\ waiter[r].key = key)
    <3>1. waiter'[r] = waiter[r]
      BY <2>3 DEF Cache!Woken
    <3> QED BY <2>1, <3>1
  <2> QED BY <2>2, <2>3
<1>4. waiter' \in [Requests -> Waiting]
  BY <1>3 DEF Cache!Woken
<1>5. WokenInTime'
  BY <1>1, <1>3 DEF WokenInTime
<1>6. Cache!AnswersAreRecent'
  BY <1>1 DEF Cache!AnswersAreRecent
<1> QED BY <1>1, <1>2, <1>4, <1>5, <1>6

LEMMA CacheStep ==
    ASSUME Cache!LoadsAreKnown, CacheInv, [Cache!Next]_Cache!vars
    PROVE  CacheInv'
<1> Cache!Idle \in Waiting /\ Cache!Idle.phase = "idle"
  BY DEF Cache!Idle, Waiting
<1>1. ASSUME NEW r \in Requests, NEW key \in Keys, Cache!Hit(r, key)
      PROVE  CacheInv'
  <2>1. /\ key \in Cache!Cached
        /\ Cache!Age(Cache!EntryOf(key)) <= Cache!EntryOf(key).ttl
        /\ entries' = Cache!MovedToEnd(key, Cache!EntryOf(key))
        /\ answer' = [key |-> key, value |-> Cache!EntryOf(key).value,
                      at |-> Cache!EntryOf(key).at, stale |-> FALSE, since |-> time]
        /\ UNCHANGED <<load, time, running, inflight, waiter>>
    BY <1>1 DEF Cache!Hit
  <2>2. /\ Cache!EntryOf(key) \in Entries /\ Cache!EntryOf(key).key = key
        /\ Cache!EntryOf(key).ttl = Cache!Ttl(load[key], Cache!EntryOf(key).value)
    BY <2>1, CachedEntry DEF CacheInv
  <2>3. entries' \in Seq(Entries) /\ EntriesKnowTheirTtl'
    BY <2>1, <2>2, MovedKnowTheirTtl DEF CacheInv, EntriesKnowTheirTtl
  <2>4. Cache!AnswersAreRecent'
    BY <2>1, <2>2 DEF Cache!AnswersAreRecent, Cache!Age, CacheInv, CacheTypeOK, Entries
  <2>5. CacheTypeOK' /\ WokenInTime' /\ JoinableIffRunning'
    BY <2>1, <2>3 DEF CacheInv, CacheTypeOK, WokenInTime, JoinableIffRunning
  <2> QED BY <2>3, <2>4, <2>5 DEF CacheInv
<1>2. ASSUME NEW r \in Requests, NEW key \in Keys, Cache!Miss(r, key)
      PROVE  CacheInv'
  <2> DEFINE w == [phase |-> "wait", key |-> key, asked |-> time, loaded |-> None]
  <2>1. w \in Waiting /\ w.phase = "wait" /\ w.key = key /\ w.asked = time
    BY DEF CacheInv, CacheTypeOK, Waiting
  <2>2. /\ waiter' = [waiter EXCEPT ![r] = w] /\ UNCHANGED <<load, time, entries>>
        /\ inflight' = inflight \cup {key} /\ answer' = None
        /\ running' = IF key \in inflight THEN running ELSE [running EXCEPT ![key] = @ + 1]
    BY <1>2 DEF Cache!Miss, Cache!JoinOrLoad
  <2> HIDE DEF w
  <2>3. waiter' \in [Requests -> Waiting] /\ WokenInTime'
    <3>1. CacheTypeOK /\ WokenInTime /\ w.asked <= time /\ UNCHANGED load /\ UNCHANGED time
      BY <2>1, <2>2 DEF CacheInv, CacheTypeOK
    <3> QED BY <2>1, <2>2, <3>1, OthersWait
  <2>4. running' \in [Keys -> Nat] /\ JoinableIffRunning'
    BY <2>2 DEF CacheInv, CacheTypeOK, JoinableIffRunning
  <2> QED
    BY <2>2, <2>3, <2>4 DEF CacheInv, CacheTypeOK, EntriesKnowTheirTtl, Cache!AnswersAreRecent
<1>3. ASSUME NEW r \in Requests, Cache!Cancel(r)
      PROVE  CacheInv'
  <2>0. /\ waiter' = [waiter EXCEPT ![r] = Cache!Idle] /\ UNCHANGED load /\ UNCHANGED time
        /\ CacheTypeOK /\ WokenInTime
    BY <1>3 DEF CacheInv, Cache!Cancel
  <2>1. waiter' \in [Requests -> Waiting] /\ WokenInTime'
    BY <2>0, OthersWait
  <2> QED
    BY <1>3, <2>1 DEF CacheInv, CacheTypeOK, EntriesKnowTheirTtl, Cache!AnswersAreRecent,
                      JoinableIffRunning, Cache!Cancel
<1>4. ASSUME NEW r \in Requests, Cache!ResumeLoaded(r)
      PROVE  CacheInv'
  <2>0. /\ waiter' = [waiter EXCEPT ![r] = Cache!Idle] /\ UNCHANGED load /\ UNCHANGED time
        /\ CacheTypeOK /\ WokenInTime
    BY <1>4 DEF CacheInv, Cache!ResumeLoaded, Cache!Answers, Cache!Refuses
  <2>1. waiter' \in [Requests -> Waiting] /\ WokenInTime'
    BY <2>0, OthersWait
  <2>2. Cache!AnswersAreRecent'
    <3>1. CASE answer' = None
      BY <3>1 DEF Cache!AnswersAreRecent
    <3>2. CASE Cache!Answers(r, waiter[r].key, waiter[r].loaded, FALSE)
      <4>1. answer' = [key |-> waiter[r].key, value |-> waiter[r].loaded.value,
                       at |-> waiter[r].loaded.at, stale |-> FALSE, since |-> waiter[r].asked]
        BY <3>2 DEF Cache!Answers
      <4>2. waiter[r].loaded.at + Cache!Ttl(load[waiter[r].key], waiter[r].loaded.value)
                >= waiter[r].asked
        BY <1>4 DEF CacheInv, WokenInTime, Cache!ResumeLoaded
      <4> QED BY <1>4, <4>1, <4>2 DEF Cache!AnswersAreRecent, Cache!ResumeLoaded
    <3> QED BY <1>4, <3>1, <3>2 DEF Cache!ResumeLoaded, Cache!Refuses
  <2> QED
    BY <1>4, <2>1, <2>2 DEF CacheInv, CacheTypeOK, EntriesKnowTheirTtl, JoinableIffRunning,
                            Cache!ResumeLoaded
<1>5. ASSUME NEW r \in Requests, Cache!ResumeFailed(r)
      PROVE  CacheInv'
  <2> DEFINE key == waiter[r].key
  <2>0. /\ waiter' = [waiter EXCEPT ![r] = Cache!Idle] /\ UNCHANGED load /\ UNCHANGED time
        /\ CacheTypeOK /\ WokenInTime
    BY <1>5 DEF CacheInv, Cache!ResumeFailed, Cache!Answers, Cache!Refuses
  <2>1. waiter' \in [Requests -> Waiting] /\ WokenInTime'
    BY <2>0, OthersWait
  <2>2. UNCHANGED <<load, time, running, inflight>> /\ key \in Keys
    BY <1>5 DEF CacheInv, WokenInTime, Cache!ResumeFailed
  <2>3. CASE Cache!Refuses(r) /\ UNCHANGED entries
    BY <2>1, <2>2, <2>3 DEF CacheInv, CacheTypeOK, EntriesKnowTheirTtl, JoinableIffRunning,
                            Cache!Refuses, Cache!AnswersAreRecent
  <2>4. CASE /\ Cache!MayFallBack(key)
             /\ entries' = Cache!MovedToEnd(key, Cache!EntryOf(key))
             /\ Cache!Answers(r, key, Cache!EntryOf(key), TRUE)
    <3>1. /\ Cache!EntryOf(key) \in Entries /\ Cache!EntryOf(key).key = key
          /\ Cache!EntryOf(key).ttl = Cache!Ttl(load[key], Cache!EntryOf(key).value)
      BY <2>4, CachedEntry DEF CacheInv, Cache!MayFallBack
    <3>2. entries' \in Seq(Entries) /\ EntriesKnowTheirTtl'
      BY <2>2, <2>4, <3>1, MovedKnowTheirTtl DEF CacheInv, EntriesKnowTheirTtl
    <3>3. answer' = [key |-> key, value |-> Cache!EntryOf(key).value,
                     at |-> Cache!EntryOf(key).at, stale |-> TRUE, since |-> time]
      BY <2>4 DEF Cache!Answers
    <3>4. Cache!EntryOf(key).at + Cache!StaleTtl(load[key], Cache!EntryOf(key).value) >= time
      <4>1. Cache!StaleTtl(load[key], Cache!EntryOf(key).value) \in Nat
        BY <2>2, <3>1, TtlIsATime DEF CacheInv, CacheTypeOK, Entries
      <4> QED
        BY <2>4, <3>1, <4>1 DEF Cache!MayFallBack, Cache!Age, CacheInv, CacheTypeOK, Entries
    <3>5. Cache!AnswersAreRecent'
      BY <2>2, <3>3, <3>4 DEF Cache!AnswersAreRecent
    <3> QED BY <2>1, <2>2, <3>2, <3>5 DEF CacheInv, CacheTypeOK, JoinableIffRunning
  <2> QED BY <1>5, <2>3, <2>4 DEF Cache!ResumeFailed
<1>6. ASSUME NEW key \in Keys, NEW value \in Cache!Values, Cache!LoadEnds(key, value)
      PROVE  CacheInv'
  <2> DEFINE entry == [key |-> key, value |-> value, at |-> time,
                       ttl |-> Cache!Ttl(load[key], value)]
             moved == Cache!MovedToEnd(key, entry)
  <2>1. Cache!Ttl(load[key], value) \in Nat /\ time \in Nat
    BY TtlIsATime DEF CacheInv, CacheTypeOK
  <2>2. /\ entry \in Entries /\ entry.key = key /\ entry.value = value /\ entry.at = time
        /\ entry.ttl = Cache!Ttl(load[key], entry.value)
    BY <2>1 DEF Entries
  <2>3. /\ Cache!EndsLoad(key) /\ entries' = Cache!Trimmed(moved)
        /\ waiter' = Cache!Woken(key, "loaded", entry)
    BY <1>6 DEF Cache!LoadEnds
  <2> HIDE DEF entry
  <2>4. /\ moved \in Seq(Entries)
        /\ \A i \in 1..Len(moved) :
               moved[i].ttl = Cache!Ttl(load[moved[i].key], moved[i].value)
    BY <2>2, MovedKnowTheirTtl DEF CacheInv
  <2> HIDE DEF moved
  <2>5. /\ entries' \in Seq(Entries)
        /\ \A i \in 1..Len(entries') :
               entries'[i].ttl = Cache!Ttl(load[entries'[i].key], entries'[i].value)
    <3>1. CASE Len(moved) > MaxEntries
      <4>1. entries' = SubSeq(moved, 2, Len(moved))
        BY <2>3, <3>1 DEF Cache!Trimmed
      <4>2. /\ entries' \in Seq(Entries)
            /\ \A i \in 1..Len(entries') : i + 1 \in 1..Len(moved) /\ entries'[i] = moved[i + 1]
        BY <2>4, <4>1
      <4> QED BY <2>4, <4>2
    <3>2. CASE ~(Len(moved) > MaxEntries)
      BY <2>3, <2>4, <3>2 DEF Cache!Trimmed
    <3> QED BY <3>1, <3>2
  <2>6. /\ running' \in [Keys -> Nat] /\ inflight' \in SUBSET Keys /\ JoinableIffRunning'
        /\ waiter' \in [Requests -> Waiting] /\ WokenInTime'
        /\ Cache!AnswersAreRecent' /\ UNCHANGED <<load, time>>
    BY <2>1, <2>2, <2>3, LoadIsOver
  <2> QED BY <2>5, <2>6 DEF CacheInv, CacheTypeOK, EntriesKnowTheirTtl
<1>7. ASSUME NEW key \in Keys, Cache!LoadFails(key)
      PROVE  CacheInv'
  <2>1. /\ running' \in [Keys -> Nat] /\ inflight' \in SUBSET Keys /\ JoinableIffRunning'
        /\ waiter' \in [Requests -> Waiting] /\ WokenInTime'
        /\ Cache!AnswersAreRecent' /\ UNCHANGED <<load, time>>
    BY <1>7, LoadIsOver DEF Cache!LoadFails
  <2> QED BY <1>7, <2>1 DEF CacheInv, CacheTypeOK, EntriesKnowTheirTtl, Cache!LoadFails
<1>8. CASE Cache!Tick
  <2>1. /\ time' = time + 1 /\ answer' = None
        /\ UNCHANGED <<load, entries, running, inflight, waiter>>
        /\ time \in Nat /\ \A r \in Requests : waiter[r] \in Waiting
    BY <1>8 DEF Cache!Tick, CacheInv, CacheTypeOK
  <2>2. WokenInTime'
    BY <2>1 DEF CacheInv, WokenInTime, Waiting
  <2> QED
    BY <2>1, <2>2 DEF CacheInv, CacheTypeOK, EntriesKnowTheirTtl, JoinableIffRunning,
                      Cache!AnswersAreRecent
<1>9. CASE UNCHANGED Cache!vars
  BY <1>9 DEF Cache!vars, CacheInv, CacheTypeOK, EntriesKnowTheirTtl, JoinableIffRunning,
              WokenInTime, Cache!AnswersAreRecent
<1> QED
  BY <1>1, <1>2, <1>3, <1>4, <1>5, <1>6, <1>7, <1>8, <1>9 DEF Cache!Next

\* The inductive invariant of the cache: an entry, a load and a woken request
\* hold what was loaded no earlier than they say (get_or_load).
THEOREM CacheInvariant == ASSUME Cache!LoadsAreKnown PROVE Cache!Spec => []CacheInv
BY CacheStart, CacheStep, PTL DEF Cache!Spec

\* Requests for one key share one call of the provider (_inflight).
THEOREM CacheLoadsOnce ==
    ASSUME Cache!LoadsAreKnown PROVE Cache!Spec => []Cache!OneLoadPerKey
<1>1. CacheInv => Cache!OneLoadPerKey
  BY DEF CacheInv, CacheTypeOK, JoinableIffRunning, Cache!OneLoadPerKey
<1> QED BY <1>1, CacheInvariant, PTL

-----------------------------------------------------------------------------
(* The ranking tables                                                      *)
(*                                                                         *)
(* Every snapshot, not only the latest, compares its ranks with the one    *)
(* before it.  A sync writes the snapshot of today, which no other comes   *)
(* after, and pruning takes the oldest.                                    *)

RankingsTypeOK ==
    /\ day \in Rankings!Days
    /\ rows = [t \in Rankings!Tours |-> [d \in Rankings!Days |-> rows[t][d]]]
    /\ sync = [left |-> sync.left, tour |-> sync.tour, date |-> sync.date,
               standing |-> sync.standing, failed |-> sync.failed]
    /\ sync.left \in SUBSET Rankings!Tours

\* A sync saves what it fetched today.
SavesToday ==
    /\ sync.tour # None => sync.tour \in Rankings!Tours /\ sync.date = day
    /\ \A t \in Rankings!Tours : \A d \in Rankings!Dates(t) : d <= day

Compares(t, d) ==
    \A p \in DOMAIN rows[t][d] :
        rows[t][d][p].movement =
            Rankings!MovementFromRankChange(Rankings!PreviousRank(t, d, p), rows[t][d][p].rank)
SnapshotsCompare ==
    \A t \in Rankings!Tours : \A d \in Rankings!Dates(t) :
        Rankings!DatesBefore(t, d) # {} => Compares(t, d)

RankingsInv == RankingsTypeOK /\ SavesToday /\ SnapshotsCompare

\* A finite set of numbers that is not empty has its largest: by induction over
\* its subsets.
LEMMA LargestIsThere ==
    ASSUME NEW S, S \subseteq Int, IsFiniteSet(S), S # {}
    PROVE  Rankings!Max(S) \in S /\ \A y \in S : Rankings!Max(S) >= y
<1> DEFINE Bad == {T \in FiniteSubsetsOf(S) :
                      T # {} /\ ~ \E x \in T : \A y \in T : x >= y}
<1>1. Bad = {}
  <2> SUFFICES ASSUME Bad # {} PROVE FALSE
    OBVIOUS
  <2>1. IsWellFoundedOn(StrictSubsetOrdering(S), FiniteSubsetsOf(S))
    BY FS_StrictSubsetOrderingWellFounded
  <2>2. Bad \subseteq FiniteSubsetsOf(S)
    OBVIOUS
  <2> HIDE DEF Bad
  <2>3. PICK T \in Bad : \A U \in Bad : <<U, T>> \notin StrictSubsetOrdering(S)
    BY <2>1, <2>2, WFMin
  <2>4. /\ T \subseteq S /\ IsFiniteSet(T) /\ T # {}
        /\ ~ \E x \in T : \A y \in T : x >= y
    BY DEF Bad, FiniteSubsetsOf
  <2>5. PICK z \in T : TRUE
    BY <2>4
  <2>6. T \ {z} # {}
    BY <2>4
  <2>7. T \ {z} \in FiniteSubsetsOf(S)
    BY <2>4, FS_RemoveElement DEF FiniteSubsetsOf
  <2>8. <<T \ {z}, T>> \in StrictSubsetOrdering(S)
    BY <2>4 DEF StrictSubsetOrdering
  <2>9. PICK x \in T \ {z} : \A y \in T \ {z} : x >= y
    BY <2>3, <2>6, <2>7, <2>8 DEF Bad
  <2>10. x \in Int /\ z \in Int /\ \A y \in T : y \in Int
    BY <2>4
  <2> QED BY <2>4, <2>9, <2>10
<1>2. S \in FiniteSubsetsOf(S)
  BY DEF FiniteSubsetsOf
<1>3. \E x \in S : \A y \in S : x >= y
  BY <1>1, <1>2
<1> QED BY <1>3 DEF Rankings!Max

LEMMA DatesAreFinite ==
    ASSUME Rankings!RankingsAreFinite, NEW t \in Rankings!Tours
    PROVE  /\ Rankings!Dates(t) \subseteq Int /\ IsFiniteSet(Rankings!Dates(t))
           /\ \A D \in SUBSET Rankings!Dates(t) : IsFiniteSet(D)
<1>1. Rankings!Dates(t) \subseteq 1..MaxDay
  BY DEF Rankings!Dates, Rankings!Days
<1>2. IsFiniteSet(1..MaxDay) /\ 1..MaxDay \subseteq Int
  BY FS_Interval DEF Rankings!RankingsAreFinite
<1>3. PICK I : I = 1..MaxDay
  OBVIOUS
<1>4. \A D \in SUBSET I : IsFiniteSet(D)
  BY <1>2, <1>3, FS_Subset
<1> QED BY <1>1, <1>2, <1>3, <1>4

LEMMA RankingsStart ==
    ASSUME Rankings!RankingsAreFinite, Rankings!Init
    PROVE  RankingsInv
BY DEF Rankings!RankingsAreFinite, Rankings!Init, RankingsInv, RankingsTypeOK, SavesToday,
       SnapshotsCompare, Rankings!Days, Rankings!Dates, Rankings!NoSync

LEMMA SameCardinality == \A S : Rankings!Cardinality(S) = Cardinality(S)
BY DEF Rankings!Cardinality, Cardinality

\* The date before is one, and the latest of those before.
LEMMA DateBefore ==
    ASSUME Rankings!RankingsAreFinite, NEW t \in Rankings!Tours, NEW d \in Int,
           Rankings!DatesBefore(t, d) # {}
    PROVE  /\ Rankings!Max(Rankings!DatesBefore(t, d)) \in Rankings!Dates(t)
           /\ Rankings!Max(Rankings!DatesBefore(t, d)) < d
           /\ \A x \in Rankings!DatesBefore(t, d) : Rankings!Max(Rankings!DatesBefore(t, d)) >= x
<1> DEFINE D == Rankings!DatesBefore(t, d)
<1>1. D \in SUBSET Rankings!Dates(t) /\ \A x \in D : x < d
  BY DEF Rankings!DatesBefore
<1>2. D \subseteq Int /\ IsFiniteSet(D) /\ D # {}
  BY <1>1, DatesAreFinite
<1> HIDE DEF D
<1>3. Rankings!Max(D) \in D /\ \A x \in D : Rankings!Max(D) >= x
  BY <1>2, LargestIsThere
<1> QED BY <1>1, <1>3 DEF D

\* A snapshot whose predecessor stays keeps comparing with it.
LEMMA ComparesOn ==
    ASSUME NEW t, NEW d, Compares(t, d), rows'[t][d] = rows[t][d],
           Rankings!PreviousRows(t, d)' = Rankings!PreviousRows(t, d)
    PROVE  Compares(t, d)'
BY DEF Compares, Rankings!PreviousRank

\* What today's save writes compares with the snapshot before it.
LEMMA SaveCompares ==
    ASSUME Rankings!RankingsAreFinite, RankingsInv, Rankings!Save
    PROVE  RankingsInv'
<1> DEFINE t0 == sync.tour
           new == Rankings!NewRows(t0, day, sync.standing)
<1>1. /\ t0 \in Rankings!Tours /\ day \in Rankings!Days /\ sync.date = day
      /\ rows' = [rows EXCEPT ![t0][day] = new] /\ UNCHANGED <<day, rankings>>
      /\ sync' = [sync EXCEPT !.tour = None, !.date = None, !.standing = None]
  BY DEF Rankings!Save, RankingsInv, SavesToday, RankingsTypeOK
<1>2. \A t \in Rankings!Tours, d \in Rankings!Days :
          rows'[t][d] = IF t = t0 /\ d = day THEN new ELSE rows[t][d]
  BY <1>1 DEF RankingsInv, RankingsTypeOK
<1>3. new = [p \in {q \in DOMAIN sync.standing : Rankings!KeepsRow(sync.standing, q)} |->
                [rank |-> sync.standing[p],
                 movement |-> Rankings!MovementFromRankChange(
                                  Rankings!PreviousRank(t0, day, p), sync.standing[p])]]
  BY DEF Rankings!NewRows
<1> HIDE DEF new, t0
<1>4. RankingsTypeOK'
  BY <1>1 DEF RankingsInv, RankingsTypeOK
<1>5. /\ \A t \in Rankings!Tours : \A d \in Rankings!Dates(t)' :
            d \in Rankings!Dates(t) \/ (t = t0 /\ d = day)
      /\ day \in Int /\ \A d \in Rankings!Days : d \in Int
  BY <1>1, <1>2 DEF Rankings!Dates, Rankings!Days
<1>6. SavesToday'
  BY <1>1, <1>5 DEF RankingsInv, RankingsTypeOK, SavesToday
<1>7. ASSUME NEW t \in Rankings!Tours, NEW d \in Rankings!Dates(t)',
             Rankings!DatesBefore(t, d)' # {}
      PROVE  Compares(t, d)'
  <2>1. d \in Int /\ d <= day /\ d \in Rankings!Days
    BY <1>5 DEF RankingsInv, SavesToday, Rankings!Dates
  <2>2. Rankings!DatesBefore(t, d)' = Rankings!DatesBefore(t, d)
    BY <1>1, <1>2, <1>5, <2>1 DEF Rankings!DatesBefore, Rankings!Dates
  <2>3. /\ Rankings!Max(Rankings!DatesBefore(t, d)) \in Rankings!Dates(t)
        /\ Rankings!Max(Rankings!DatesBefore(t, d)) < d
    BY <1>7, <2>1, <2>2, DateBefore
  <2>4. Rankings!PreviousRows(t, d)' = Rankings!PreviousRows(t, d)
    <3>1. rows'[t][Rankings!Max(Rankings!DatesBefore(t, d))]
              = rows[t][Rankings!Max(Rankings!DatesBefore(t, d))]
      BY <1>2, <1>5, <2>1, <2>3 DEF Rankings!Dates
    <3> QED BY <2>2, <3>1 DEF Rankings!PreviousRows
  <2>5. CASE t = t0 /\ d = day
    <3>1. rows'[t][d] = new
      BY <1>2, <2>1, <2>5
    <3>2. \A p : Rankings!PreviousRank(t, d, p)' = Rankings!PreviousRank(t, d, p)
      BY <2>4 DEF Rankings!PreviousRank
    <3> QED BY <1>3, <2>5, <3>1, <3>2 DEF Compares
  <2>6. CASE ~(t = t0 /\ d = day)
    <3>1. d \in Rankings!Dates(t) /\ rows'[t][d] = rows[t][d]
      BY <1>2, <1>5, <2>1, <2>6
    <3>2. Compares(t, d)
      BY <1>7, <2>2, <3>1 DEF RankingsInv, SnapshotsCompare
    <3> QED BY <2>4, <3>1, <3>2, ComparesOn
  <2> QED BY <2>5, <2>6
<1> QED BY <1>4, <1>6, <1>7 DEF RankingsInv, SnapshotsCompare

\* Pruning keeps what is later than anything it keeps.
LEMMA PruneCompares ==
    ASSUME Rankings!RankingsAreFinite, RankingsInv, Rankings!Prune
    PROVE  RankingsInv'
<1>1. /\ \A t \in Rankings!Tours, d \in Rankings!Days :
             rows'[t][d] = IF d \in Rankings!Kept(t) THEN rows[t][d] ELSE Rankings!NoRows
      /\ rows' = [t \in Rankings!Tours |-> [d \in Rankings!Days |-> rows'[t][d]]]
      /\ UNCHANGED <<day, sync, rankings>>
  BY DEF Rankings!Prune
<1>2. \A t \in Rankings!Tours : Rankings!Dates(t)' = Rankings!Kept(t)
  BY <1>1 DEF Rankings!Dates, Rankings!Kept, Rankings!Days
<1>3. RankingsTypeOK' /\ SavesToday'
  BY <1>1, <1>2 DEF RankingsInv, RankingsTypeOK, SavesToday, Rankings!Kept
<1>4. ASSUME NEW t \in Rankings!Tours, NEW d \in Rankings!Kept(t), NEW e \in Rankings!Dates(t),
             e >= d
      PROVE  e \in Rankings!Kept(t)
  <2> DEFINE D == {x \in Rankings!Dates(t) : x > d}
             E == {x \in Rankings!Dates(t) : x > e}
  <2>1. d \in Int /\ e \in Int /\ \A x \in Rankings!Dates(t) : x \in Int
    BY DatesAreFinite DEF Rankings!Kept
  <2>2. E \in SUBSET D /\ IsFiniteSet(D) /\ IsFiniteSet(E)
    BY <1>4, <2>1, DatesAreFinite
  <2>3. Cardinality(E) <= Cardinality(D) /\ Cardinality(E) \in Nat /\ Cardinality(D) \in Nat
    BY <2>2, FS_Subset, FS_CardinalityType
  <2>4. Cardinality(D) < Keep
    BY <1>4, SameCardinality DEF Rankings!Kept
  <2> HIDE DEF D
  <2> QED BY <1>4, <2>3, <2>4, SameCardinality DEF Rankings!Kept, Rankings!RankingsAreFinite
<1>5. ASSUME NEW t \in Rankings!Tours, NEW d \in Rankings!Dates(t)',
             Rankings!DatesBefore(t, d)' # {}
      PROVE  Compares(t, d)'
  <2>1. d \in Rankings!Kept(t) /\ d \in Rankings!Dates(t) /\ d \in Rankings!Days /\ d \in Int
    BY <1>2, DatesAreFinite DEF Rankings!Kept, Rankings!Dates
  <2> DEFINE B == Rankings!DatesBefore(t, d)
             K == {x \in Rankings!Kept(t) : x < d}
  <2>2. Rankings!DatesBefore(t, d)' = K
    BY <1>2 DEF Rankings!DatesBefore
  <2>3. K # {} /\ K \subseteq B /\ B # {}
    BY <1>5, <2>2 DEF Rankings!DatesBefore, Rankings!Kept
  <2>4. /\ Rankings!Max(B) \in Rankings!Dates(t) /\ Rankings!Max(B) < d
        /\ \A x \in B : Rankings!Max(B) >= x
    BY <2>1, <2>3, DateBefore
  <2>5. Rankings!Max(B) \in Rankings!Kept(t)
    BY <1>4, <2>3, <2>4 DEF Rankings!DatesBefore
  <2>6. Rankings!Max(K) = Rankings!Max(B)
    <3>1. K \subseteq Int /\ IsFiniteSet(K)
      BY DatesAreFinite DEF Rankings!Kept
    <3>2. Rankings!Max(K) \in K /\ \A x \in K : Rankings!Max(K) >= x
      BY <2>3, <3>1, LargestIsThere
    <3>3. Rankings!Max(B) \in K
      BY <2>4, <2>5
    <3>4. Rankings!Max(B) >= Rankings!Max(K) /\ Rankings!Max(K) >= Rankings!Max(B)
      BY <2>3, <2>4, <3>2, <3>3
    <3>5. Rankings!Max(B) \in Int /\ Rankings!Max(K) \in Int
      BY <3>1, <3>2, <3>3
    <3> HIDE DEF B, K
    <3> QED BY <3>4, <3>5
  <2>7. Rankings!PreviousRows(t, d)' = Rankings!PreviousRows(t, d)
    <3>1. rows'[t][Rankings!Max(B)] = rows[t][Rankings!Max(B)]
      BY <1>1, <2>4, <2>5 DEF Rankings!Dates
    <3>2. Rankings!PreviousRows(t, d)' = rows'[t][Rankings!Max(K)]
      BY <2>2, <2>3 DEF Rankings!PreviousRows
    <3>3. Rankings!PreviousRows(t, d) = rows[t][Rankings!Max(B)]
      BY <2>3 DEF Rankings!PreviousRows
    <3> QED BY <2>6, <3>1, <3>2, <3>3
  <2>8. Compares(t, d) /\ rows'[t][d] = rows[t][d]
    BY <1>1, <2>1, <2>3 DEF RankingsInv, SnapshotsCompare
  <2> QED BY <2>7, <2>8, ComparesOn
<1> QED BY <1>3, <1>5 DEF RankingsInv, SnapshotsCompare

LEMMA RankingsStep ==
    ASSUME Rankings!RankingsAreFinite, RankingsInv, [Rankings!Next]_Rankings!vars
    PROVE  RankingsInv'
<1>1. ASSUME UNCHANGED rows, UNCHANGED day \/ day' = day + 1, day' \in Rankings!Days,
             RankingsTypeOK', sync'.tour # None => sync'.tour \in Rankings!Tours /\ sync'.date = day'
      PROVE  RankingsInv'
  <2>1. day \in Int /\ \A t \in Rankings!Tours : \A d \in Rankings!Dates(t) : d \in Int
    BY DEF RankingsInv, RankingsTypeOK, Rankings!Days, Rankings!Dates
  <2>2. \A t : /\ Rankings!Dates(t)' = Rankings!Dates(t)
               /\ \A d : /\ Rankings!DatesBefore(t, d)' = Rankings!DatesBefore(t, d)
                         /\ Rankings!PreviousRows(t, d)' = Rankings!PreviousRows(t, d)
    BY <1>1 DEF Rankings!Dates, Rankings!DatesBefore, Rankings!PreviousRows
  <2>3. SavesToday'
    BY <1>1, <2>1, <2>2 DEF RankingsInv, SavesToday
  <2>4. \A t, d : Compares(t, d) => Compares(t, d)'
    BY <1>1, <2>2, ComparesOn
  <2> QED BY <1>1, <2>2, <2>3, <2>4 DEF RankingsInv, SnapshotsCompare
<1>2. CASE Rankings!Save
  BY <1>2, SaveCompares
<1>3. CASE Rankings!Prune
  BY <1>3, PruneCompares
<1>4. CASE Rankings!StartSync
  BY <1>1, <1>4 DEF Rankings!StartSync, Rankings!NoSync, RankingsInv, RankingsTypeOK
<1>5. ASSUME NEW t \in Rankings!Tours, Rankings!Fetch(t)
      PROVE  RankingsInv'
  <2>1. PICK standing :
            sync' = [sync EXCEPT !.left = @ \ {t}, !.tour = t, !.date = day,
                                 !.standing = standing]
    BY <1>5 DEF Rankings!Fetch
  <2>2. sync' = [left |-> sync.left \ {t}, tour |-> t, date |-> day, standing |-> standing,
                 failed |-> sync.failed]
    BY <2>1 DEF RankingsInv, RankingsTypeOK
  <2>3. UNCHANGED <<day, rows, rankings>>
    BY <1>5 DEF Rankings!Fetch
  <2>4. RankingsTypeOK'
    BY <2>2, <2>3 DEF RankingsInv, RankingsTypeOK
  <2> QED BY <1>1, <2>2, <2>3, <2>4 DEF RankingsInv, RankingsTypeOK
<1>6. ASSUME NEW t \in Rankings!Tours, Rankings!FetchFails(t)
      PROVE  RankingsInv'
  <2>1. /\ sync' = [left |-> sync.left \ {t}, tour |-> sync.tour, date |-> sync.date,
                    standing |-> sync.standing, failed |-> TRUE]
        /\ UNCHANGED <<day, rows, rankings>> /\ sync.tour = None
    BY <1>6 DEF Rankings!FetchFails, RankingsInv, RankingsTypeOK
  <2>2. RankingsTypeOK'
    BY <2>1 DEF RankingsInv, RankingsTypeOK
  <2> QED BY <1>1, <2>1, <2>2 DEF RankingsInv, RankingsTypeOK
<1>7. CASE Rankings!Interrupt
  BY <1>1, <1>7 DEF Rankings!Interrupt, Rankings!NoSync, RankingsInv, RankingsTypeOK
<1>8. CASE Rankings!NextDay
  <2>1. /\ day' = day + 1 /\ day < MaxDay /\ sync.tour = None /\ day \in Rankings!Days
        /\ UNCHANGED <<rows, sync, rankings>>
    BY <1>8 DEF Rankings!NextDay, RankingsInv, RankingsTypeOK
  <2>2. day' \in Rankings!Days
    BY <2>1 DEF Rankings!Days, Rankings!RankingsAreFinite
  <2>3. RankingsTypeOK'
    BY <2>1, <2>2 DEF RankingsInv, RankingsTypeOK
  <2> QED BY <1>1, <2>1, <2>2, <2>3
<1>9. ASSUME UNCHANGED <<day, rows, sync>>
      PROVE  RankingsInv'
  BY <1>1, <1>9 DEF RankingsInv, RankingsTypeOK, SavesToday
<1>10. ASSUME NEW t \in Rankings!Tours, Rankings!ReadDate(t)
       PROVE  RankingsInv'
  BY <1>9, <1>10 DEF Rankings!ReadDate
<1>11. CASE Rankings!ReadRows \/ Rankings!ReadAsOf \/ Rankings!ShowPage
  BY <1>9, <1>11 DEF Rankings!ReadRows, Rankings!ReadAsOf, Rankings!ShowPage
<1>12. CASE UNCHANGED Rankings!vars
  BY <1>9, <1>12 DEF Rankings!vars
<1> QED
  BY <1>2, <1>3, <1>4, <1>5, <1>6, <1>7, <1>8, <1>10, <1>11, <1>12 DEF Rankings!Next

-----------------------------------------------------------------------------
(* A chat request                                                          *)
(*                                                                         *)
(* What one turn leaves to the next is in the cache of the executor and in *)
(* what was shown; within a turn, in the outcomes that are not handled yet.*)

IsListed(s) == s \in Seq({s[i] : i \in DOMAIN s})
IsOutcome(o) ==
    o = [call |-> o.call, status |-> o.status, version |-> o.version, duplicate |-> o.duplicate]

ChatTypeOK ==
    /\ request \in Chat!ChatRequests
    /\ rounds \in Nat /\ unique \in Nat /\ next \in Nat \ {0}
    /\ \E n \in Nat : DOMAIN outcomes = 1..n
    /\ \A i \in DOMAIN outcomes : IsOutcome(outcomes[i])
    /\ \A o \in cache : o.status # "pending"
    /\ IsListed(shown)

\* Where the stream stands
ChatOrder ==
    /\ stage = "resolving" => cache = {} /\ shown = <<>>
    /\ stage \in {"resolving", "planning"} => outcomes = <<>>
    /\ stage = "running" => next = 1
    /\ stage = "handling" => \A i \in DOMAIN outcomes : outcomes[i].status # "pending"
    /\ stage \in {"running", "handling"} => rounds >= 1
    /\ rounds = 0 => cache = {}
    /\ rounds = 0 /\ request.scope = "match" => phase = "context"

SnapshotTools == {"get_match", "get_match_intelligence"}

\* What was read of the match is of the frozen version.
ReadsAreFrozen ==
    request.scope = "match" =>
        /\ \A o \in cache :
              Chat!Succeeded(o) /\ o.call.name \in SnapshotTools => o.version = frozen
        /\ \A i \in DOMAIN outcomes :
              Chat!Succeeded(outcomes[i]) /\ outcomes[i].call.name \in SnapshotTools =>
                  outcomes[i].version = frozen

\* A call that is on its way is one the question asked for.
PendingIsAsked ==
    \A i \in DOMAIN outcomes :
        outcomes[i].status = "pending" /\ outcomes[i].call.name \in Chat!HistoryTools =>
            outcomes[i].call.name \in request.history

\* A fact that is still to be shown was not shown, and is there once.
ToBeShown(i) ==
    /\ outcomes[i].duplicate = "no"
    /\ outcomes[i].status = "pending" \/ Chat!Succeeded(outcomes[i])
EachFactOnce ==
    /\ \A k \in DOMAIN shown : \E o \in cache : o.call = shown[k].call
    /\ \A i \in DOMAIN outcomes : Chat!Succeeded(outcomes[i]) =>
           \E o \in cache : o.call = outcomes[i].call
    /\ \A i \in DOMAIN outcomes : ToBeShown(i) /\ i >= next =>
           \A k \in DOMAIN shown : shown[k].call # outcomes[i].call
    /\ \A i, j \in DOMAIN outcomes :
           ToBeShown(i) /\ ToBeShown(j) /\ outcomes[i].call = outcomes[j].call => i = j

\* A core fact that was read has been shown or is among the outcomes to come.
CoreIsKept ==
    \A o \in cache : Chat!Succeeded(o) /\ Chat!IsCore(o.call.name) =>
        core \/ \E i \in DOMAIN outcomes :
                   /\ i >= next /\ Chat!Succeeded(outcomes[i])
                   /\ Chat!IsCore(outcomes[i].call.name)

\* After the first turn a topic has been read or is among the outcomes to come.
OnItsWay(topic) ==
    \E i \in DOMAIN outcomes :
        /\ i >= next /\ outcomes[i].call = Chat!PlannedCall(topic)
        /\ outcomes[i].status \in {"pending", "empty"}
TopicsAreKept ==
    request.scope = "match" /\ rounds >= 1 /\ unique < MaxCalls =>
        \A k \in DOMAIN request.topics :
            request.topics[k] \in completed \/ OnItsWay(request.topics[k])

ChatInv ==
    /\ ChatTypeOK /\ ChatOrder /\ ReadsAreFrozen /\ PendingIsAsked /\ EachFactOnce
    /\ CoreIsKept /\ TopicsAreKept
    /\ Chat!FactsOfOneSnapshot /\ Chat!FactsShownOnce /\ Chat!HistoryOnlyIfAsked
    /\ Chat!ContextIsCovered

LEMMA ChatStart == ASSUME Chat!ChatLimits, Chat!Init PROVE ChatInv
<1> USE DEF Chat!Init
<1>1. ChatTypeOK
  BY DEF ChatTypeOK, IsListed
<1>2. ChatOrder
  BY DEF ChatOrder
<1>3. ReadsAreFrozen /\ PendingIsAsked /\ EachFactOnce /\ CoreIsKept /\ TopicsAreKept
  BY DEF ReadsAreFrozen, PendingIsAsked, EachFactOnce, CoreIsKept, TopicsAreKept
<1>4. /\ Chat!FactsOfOneSnapshot /\ Chat!FactsShownOnce /\ Chat!HistoryOnlyIfAsked
      /\ Chat!ContextIsCovered
  BY DEF Chat!FactsOfOneSnapshot, Chat!FactsShownOnce, Chat!HistoryOnlyIfAsked,
         Chat!ContextIsCovered
<1> QED BY <1>1, <1>2, <1>3, <1>4 DEF ChatInv

LEMMA ListedAppend ==
    ASSUME NEW s, NEW e, IsListed(s)
    PROVE  /\ IsListed(Append(s, e))
           /\ DOMAIN Append(s, e) = DOMAIN s \cup {Len(s) + 1} /\ Len(s) + 1 \notin DOMAIN s
           /\ \A i \in DOMAIN s : Append(s, e)[i] = s[i]
           /\ Append(s, e)[Len(s) + 1] = e
<1> DEFINE R == {s[i] : i \in DOMAIN s}
           t == Append(s, e)
<1>1. s \in Seq(R \cup {e}) /\ Len(s) \in Nat /\ DOMAIN s = 1..Len(s)
  BY DEF IsListed
<1>2. /\ t \in Seq(R \cup {e}) /\ DOMAIN t = 1..Len(s) + 1 /\ Len(t) = Len(s) + 1
      /\ \A i \in 1..Len(s) : t[i] = s[i]
      /\ t[Len(s) + 1] = e
  BY <1>1
<1> HIDE DEF R, t
<1>3. t \in [1..Len(s) + 1 -> {t[i] : i \in DOMAIN t}]
  BY <1>2
<1>4. IsListed(t)
  BY <1>1, <1>3 DEF IsListed
<1> QED BY <1>1, <1>2, <1>4 DEF t

LEMMA ListedConcat ==
    ASSUME NEW s, NEW t, IsListed(s), IsListed(t)
    PROVE  /\ IsListed(s \o t)
           /\ \A i \in DOMAIN s : i \in DOMAIN (s \o t) /\ (s \o t)[i] = s[i]
           /\ \A i \in DOMAIN t : Len(s) + i \in DOMAIN (s \o t) /\ (s \o t)[Len(s) + i] = t[i]
<1> DEFINE R == {s[i] : i \in DOMAIN s} \cup {t[i] : i \in DOMAIN t}
           u == s \o t
<1>1. /\ s \in Seq(R) /\ Len(s) \in Nat /\ DOMAIN s = 1..Len(s)
      /\ t \in Seq(R) /\ Len(t) \in Nat /\ DOMAIN t = 1..Len(t)
  BY DEF IsListed
<1> HIDE DEF R
<1>2. /\ u \in Seq(R) /\ Len(u) = Len(s) + Len(t)
      /\ \A i \in 1..Len(u) : u[i] = IF i <= Len(s) THEN s[i] ELSE t[i - Len(s)]
  BY <1>1, ConcatProperties
<1> HIDE DEF u
<1>3. Len(u) \in Nat /\ DOMAIN u = 1..Len(u) /\ u \in [1..Len(u) -> {u[i] : i \in DOMAIN u}]
  BY <1>2
<1>4. IsListed(u)
  <2>1. PICK U : U = {u[i] : i \in DOMAIN u}
    OBVIOUS
  <2>2. u \in Seq(U)
    BY <1>3, <2>1
  <2> QED BY <2>1, <2>2 DEF IsListed
<1>5. \A i \in DOMAIN s : i \in DOMAIN u /\ u[i] = s[i]
  BY <1>1, <1>2, <1>3
<1>6. ASSUME NEW i \in DOMAIN t PROVE Len(s) + i \in DOMAIN u /\ u[Len(s) + i] = t[i]
  <2>1. /\ i \in 1..Len(t) /\ Len(s) + i \in 1..Len(u) /\ ~(Len(s) + i <= Len(s))
        /\ (Len(s) + i) - Len(s) = i
    BY <1>1, <1>2
  <2> QED BY <1>2, <1>3, <2>1
<1> QED BY <1>4, <1>5, <1>6 DEF u

LEMMA ChatCardinality == \A S : Chat!Cardinality(S) = Cardinality(S)
BY DEF Chat!Cardinality, Cardinality

\* The planned calls are those of the topics, each at its place.
LEMMA InOrderHasAll ==
    ASSUME Chat!ChatLimits, ChatTypeOK, NEW M \in SUBSET (DOMAIN request.topics)
    PROVE  /\ IsListed(Chat!InOrder(M))
           /\ \A k \in M : \E n \in DOMAIN Chat!InOrder(M) :
                  Chat!InOrder(M)[n] = Chat!PlannedCall(request.topics[k])
<1> DEFINE L(k) == {j \in M : j <= k}
<1>1. PICK n \in Nat : DOMAIN request.topics = 1..n
  BY DEF ChatTypeOK, Chat!ChatRequests, Chat!ChatLimits
<1>2. M \in SUBSET (1..n) /\ M \subseteq Int
  BY <1>1
<1>3. IsFiniteSet(M) /\ \A T \in SUBSET M : IsFiniteSet(T) /\ Cardinality(T) \in Nat
  <2>1. IsFiniteSet(1..n)
    BY FS_Interval
  <2>2. IsFiniteSet(M)
    BY <1>2, <2>1, FS_Subset
  <2> QED BY <2>2, FS_Subset, FS_CardinalityType
<1>4. Chat!InOrder(M) =
        [x \in 1..Chat!Cardinality(M) |->
            Chat!PlannedCall(request.topics[CHOOSE i \in M : Chat!Cardinality(L(i)) = x])]
  BY DEF Chat!InOrder
<1>5. \A k \in M : k \in L(k) /\ L(k) \in SUBSET M
  BY <1>2
<1>6. ASSUME NEW i \in M, NEW k \in M, Cardinality(L(i)) = Cardinality(L(k))
      PROVE  i = k
  <2>1. i <= k \/ k <= i
    BY <1>2
  <2>2. CASE i <= k
    <3>1. L(i) \in SUBSET L(k) /\ IsFiniteSet(L(k))
      BY <1>2, <1>3, <1>5, <2>2
    <3>2. L(i) = L(k)
      BY <1>6, <3>1, FS_Subset
    <3>3. k <= i
      BY <1>5, <3>2
    <3> QED BY <1>2, <2>2, <3>3
  <2>3. CASE k <= i
    <3>1. L(k) \in SUBSET L(i) /\ IsFiniteSet(L(i))
      BY <1>2, <1>3, <1>5, <2>3
    <3>2. L(i) = L(k)
      BY <1>6, <3>1, FS_Subset
    <3>3. i <= k
      BY <1>5, <3>2
    <3> QED BY <1>2, <2>3, <3>3
  <2> QED BY <2>1, <2>2, <2>3
<1>7. \A k \in M : Cardinality(L(k)) \in 1..Cardinality(M)
  <2> TAKE k \in M
  <2>1. L(k) \in SUBSET M /\ L(k) # {}
    BY <1>5
  <2>2. IsFiniteSet(L(k)) /\ Cardinality(L(k)) \in Nat /\ Cardinality(M) \in Nat
    BY <1>3, <2>1
  <2>3. Cardinality(L(k)) # 0
    BY <2>1, <2>2, FS_EmptySet
  <2>4. Cardinality(L(k)) <= Cardinality(M)
    BY <1>3, <2>1, FS_Subset
  <2> QED BY <2>2, <2>3, <2>4
<1>8. IsListed(Chat!InOrder(M))
  <2>1. PICK c \in Nat : c = Chat!Cardinality(M)
    BY <1>3, ChatCardinality
  <2>2. PICK f : f = Chat!InOrder(M) /\ DOMAIN f = 1..c /\ f = [x \in DOMAIN f |-> f[x]]
    BY <1>4, <2>1
  <2>3. PICK F : F = {f[x] : x \in DOMAIN f}
    OBVIOUS
  <2>4. f \in Seq(F)
    BY <2>2, <2>3
  <2> QED BY <2>2, <2>3, <2>4 DEF IsListed
<1>9. ASSUME NEW k \in M
      PROVE  Chat!InOrder(M)[Chat!Cardinality(L(k))] = Chat!PlannedCall(request.topics[k])
  <2>1. \A i \in M : Chat!Cardinality(L(i)) = Chat!Cardinality(L(k)) => i = k
    BY <1>6, ChatCardinality
  <2> DEFINE c == CHOOSE i \in M : Chat!Cardinality(L(i)) = Chat!Cardinality(L(k))
  <2>2. c = k
    BY <2>1
  <2>3. Chat!Cardinality(L(k)) \in 1..Chat!Cardinality(M)
    BY <1>7, ChatCardinality
  <2>4. Chat!InOrder(M)[Chat!Cardinality(L(k))] = Chat!PlannedCall(request.topics[c])
    BY <1>4, <2>3
  <2> QED BY <2>2, <2>4
<1> QED
  <2>1. \A k \in M : Chat!Cardinality(L(k)) \in DOMAIN Chat!InOrder(M)
    BY <1>4, <1>7, ChatCardinality
  <2> QED BY <1>8, <1>9, <2>1

\* The calls of a turn are a sequence; in the context of a match they name every
\* topic that is not read yet.
LEMMA CallsOfTurn ==
    ASSUME Chat!ChatLimits, ChatTypeOK, NEW turn \in Chat!Turns
    PROVE  /\ \E n \in Nat : DOMAIN (turn \o Chat!Planned(turn)) = 1..n
           /\ request.scope = "match" /\ phase = "context" =>
                \A k \in DOMAIN request.topics :
                    request.topics[k] \in completed \/
                        \E i \in DOMAIN (turn \o Chat!Planned(turn)) :
                            (turn \o Chat!Planned(turn))[i] = Chat!PlannedCall(request.topics[k])
<1> DEFINE P == Chat!Planned(turn)
           M == Chat!Missing(turn)
<1>1. IsListed(turn)
  <2>1. PICK n \in 0..MaxPerTurn : turn \in [1..n -> Offers]
    BY DEF Chat!Turns
  <2>2. PICK F : F = {turn[x] : x \in DOMAIN turn}
    OBVIOUS
  <2>3. turn \in Seq(F)
    BY <2>1, <2>2 DEF Chat!ChatLimits
  <2> QED BY <2>2, <2>3 DEF IsListed
<1>2. M \in SUBSET (DOMAIN request.topics)
  BY DEF Chat!Missing
<1>3. /\ IsListed(Chat!InOrder(M))
      /\ \A k \in M : \E n \in DOMAIN Chat!InOrder(M) :
            Chat!InOrder(M)[n] = Chat!PlannedCall(request.topics[k])
  <2> HIDE DEF M
  <2> QED BY <1>2, InOrderHasAll
<1>4. IsListed(P)
  <2>1. IsListed(<<>>)
    BY DEF IsListed
  <2> QED BY <1>3, <2>1 DEF Chat!Planned
<1>5. /\ IsListed(turn \o P)
      /\ \A i \in DOMAIN turn : i \in DOMAIN (turn \o P) /\ (turn \o P)[i] = turn[i]
      /\ \A i \in DOMAIN P :
            Len(turn) + i \in DOMAIN (turn \o P) /\ (turn \o P)[Len(turn) + i] = P[i]
  <2> HIDE DEF P
  <2> QED BY <1>1, <1>4, ListedConcat
<1>6. ASSUME request.scope = "match", phase = "context",
             NEW k \in DOMAIN request.topics, request.topics[k] \notin completed
      PROVE  \E i \in DOMAIN (turn \o P) : (turn \o P)[i] = Chat!PlannedCall(request.topics[k])
  <2>1. CASE \E j \in DOMAIN turn : turn[j] = Chat!PlannedCall(request.topics[k])
    BY <1>5, <2>1
  <2>2. CASE ~ \E j \in DOMAIN turn : turn[j] = Chat!PlannedCall(request.topics[k])
    <3>1. k \in M /\ P = Chat!InOrder(M)
      BY <1>6, <2>2 DEF Chat!Missing, Chat!Planned
    <3>2. PICK n \in DOMAIN P : P[n] = Chat!PlannedCall(request.topics[k])
      BY <1>3, <3>1
    <3> HIDE DEF P, M
    <3> QED BY <1>5, <3>2
  <2> QED BY <2>1, <2>2
<1>7. \E n \in Nat : DOMAIN (turn \o P) = 1..n
  <2> HIDE DEF P
  <2> QED BY <1>5 DEF IsListed
<1> QED BY <1>6, <1>7

\* A set of naturals that is not empty has its smallest.
LEMMA SmallestIsThere ==
    ASSUME NEW S, S \subseteq Nat, S # {}
    PROVE  \E x \in S : \A y \in S : x <= y
<1>1. PICK x \in S : \A y \in S : ~ (<<y, x>> \in OpToRel(<, Nat))
  BY NatLessThanWellFounded, WFMin
<1>2. \A y \in S : ~ (y < x)
  BY <1>1 DEF OpToRel
<1> QED BY <1>2

\* Where a call is over the budget, the affordable ones use it up.
LEMMA BudgetIsUsed ==
    ASSUME Chat!ChatLimits, NEW calls, NEW n \in Nat, DOMAIN calls = 1..n, unique \in Nat
    PROVE  /\ Chat!Cardinality(Chat!Affordable(calls)) \in Nat
           /\ Chat!Fresh(calls) # Chat!Affordable(calls) =>
                unique + Chat!Cardinality(Chat!Affordable(calls)) >= MaxCalls
<1> DEFINE F == Chat!Fresh(calls)
           A == Chat!Affordable(calls)
           Before(i) == {j \in F : j < i}
<1>1. /\ F \in SUBSET (1..n)
      /\ A = {i \in F : unique + Cardinality(Before(i)) < MaxCalls}
  BY ChatCardinality DEF Chat!Fresh, Chat!Affordable
<1> HIDE DEF F, A
<1>2. IsFiniteSet(1..n)
  BY FS_Interval
<1>3. \A T \in SUBSET F : IsFiniteSet(T) /\ Cardinality(T) \in Nat
  BY <1>1, <1>2, FS_Subset, FS_CardinalityType
<1>4. Cardinality(A) \in Nat
  BY <1>1, <1>3
<1>5. ASSUME F # A
      PROVE  unique + Cardinality(A) >= MaxCalls
  <2>1. F \ A # {} /\ F \ A \subseteq Nat
    <3>1. A \in SUBSET F /\ \A i \in F : i \in Nat
      BY <1>1
    <3> QED BY <1>5, <3>1
  <2>2. PICK m \in F \ A : \A i \in F \ A : m <= i
    BY <2>1, SmallestIsThere
  <2>3. m \in Nat /\ \A i \in F : i \in Nat
    BY <1>1
  <2>4. Before(m) \in SUBSET A /\ Before(m) \in SUBSET F
    <3>1. ASSUME NEW j \in F, j < m PROVE j \in A
      BY <2>2, <2>3, <3>1
    <3> QED BY <3>1
  <2>5. Cardinality(Before(m)) <= Cardinality(A)
    BY <1>1, <1>3, <2>4, FS_Subset
  <2>6. unique + Cardinality(Before(m)) >= MaxCalls
    <3>1. ~(unique + Cardinality(Before(m)) < MaxCalls)
      BY <1>1, <2>2
    <3> HIDE DEF Before
    <3> QED BY <1>3, <2>4, <3>1 DEF Chat!ChatLimits
  <2> HIDE DEF Before
  <2> QED BY <1>3, <1>4, <2>4, <2>5, <2>6 DEF Chat!ChatLimits
<1> QED BY <1>4, <1>5, ChatCardinality DEF F, A

\* What execute knows of a call before it runs any
LEMMA CallIsClassified ==
    ASSUME ChatTypeOK, NEW calls, NEW i \in DOMAIN calls
    PROVE  LET o == Chat!Classified(calls)[i] IN
           /\ IsOutcome(o) /\ o.call = calls[i]
           /\ o.status = "pending" =>
                 ~Chat!Refuses(calls[i]) /\ \A c \in cache : c.call # calls[i]
           /\ o.status = "pending" /\ o.duplicate = "no" => i \in Chat!Affordable(calls)
           /\ Chat!Succeeded(o) =>
                 /\ o.duplicate = "yes"
                 /\ \E c \in cache : c.call = calls[i] /\ c.status = o.status /\ c.version = o.version
           /\ \/ o.status = "pending"
              \/ Chat!Refuses(calls[i]) \/ \E c \in cache : c.call = calls[i]
              \/ \A j \in Chat!Affordable(calls) : ~((j < i \/ j = i) /\ calls[j] = calls[i])
<1> DEFINE o == Chat!Classified(calls)[i]
           Entry(status, version, duplicate) ==
               [call |-> calls[i], status |-> status, version |-> version, duplicate |-> duplicate]
<1> USE DEF IsOutcome, Chat!Succeeded
<1>1. CASE Chat!Refuses(calls[i])
  <2>1. o = Entry("rejected", 0, "no")
    BY <1>1 DEF Chat!Classified
  <2> QED BY <1>1, <2>1
<1>2. CASE ~Chat!Refuses(calls[i]) /\ \E c \in cache : c.call = calls[i]
  <2>1. PICK c \in cache : c.call = calls[i] /\ o = Entry(c.status, c.version, "yes")
    BY <1>2 DEF Chat!Classified
  <2>2. c.status # "pending"
    BY DEF ChatTypeOK
  <2> QED BY <1>2, <2>1, <2>2
<1>3. CASE ~Chat!Refuses(calls[i]) /\ ~ \E c \in cache : c.call = calls[i]
  <2>1. CASE i \in Chat!Affordable(calls)
    <3>1. o = Entry("pending", 0, "no")
      BY <1>3, <2>1 DEF Chat!Classified
    <3> QED BY <1>3, <2>1, <3>1
  <2>2. CASE i \notin Chat!Affordable(calls) /\ \E j \in Chat!Affordable(calls) : j < i /\ calls[j] = calls[i]
    <3>1. o = Entry("pending", 0, "yes")
      BY <1>3, <2>2 DEF Chat!Classified
    <3> QED BY <1>3, <3>1
  <2>3. CASE i \notin Chat!Affordable(calls) /\ ~ \E j \in Chat!Affordable(calls) : j < i /\ calls[j] = calls[i]
    <3>1. o = Entry("rejected", 0, "no")
      BY <1>3, <2>3 DEF Chat!Classified
    <3>2. \A j \in Chat!Affordable(calls) : ~((j < i \/ j = i) /\ calls[j] = calls[i])
      BY <2>3
    <3> QED BY <3>1, <3>2
  <2> QED BY <2>1, <2>2, <2>3
<1> QED BY <1>1, <1>2, <1>3

\* A step that only moves the stream on
LEMMA ChatMovesOn ==
    ASSUME ChatInv, ChatOrder', Chat!ContextIsCovered',
           UNCHANGED <<request, frozen, rounds, phase, unique, cache, outcomes, next, shown,
                       core, completed>>
    PROVE  ChatInv'
<1> USE DEF Chat!Succeeded, Chat!IsCore
<1>1. ChatTypeOK' /\ ReadsAreFrozen' /\ PendingIsAsked'
  BY DEF ChatInv, ChatTypeOK, ReadsAreFrozen, PendingIsAsked
<1>2. EachFactOnce' /\ CoreIsKept'
  BY DEF ChatInv, EachFactOnce, CoreIsKept, ToBeShown
<1>3. TopicsAreKept'
  BY DEF ChatInv, TopicsAreKept, OnItsWay
<1>4. Chat!FactsOfOneSnapshot' /\ Chat!FactsShownOnce' /\ Chat!HistoryOnlyIfAsked'
  BY DEF ChatInv, Chat!FactsOfOneSnapshot, Chat!FactsShownOnce, Chat!HistoryOnlyIfAsked
<1> QED BY <1>1, <1>2, <1>3, <1>4 DEF ChatInv

LEMMA ChatFreezes ==
    ASSUME ChatInv, Chat!Freeze
    PROVE  ChatInv'
<1> USE DEF Chat!Freeze, Chat!loop, Chat!executor, Chat!told
<1>1. cache = {} /\ shown = <<>> /\ outcomes = <<>>
  BY DEF ChatInv, ChatOrder
<1>2. ChatTypeOK' /\ ChatOrder'
  BY <1>1 DEF ChatInv, ChatTypeOK, ChatOrder
<1>3. ReadsAreFrozen' /\ PendingIsAsked' /\ EachFactOnce' /\ CoreIsKept'
  BY <1>1 DEF ReadsAreFrozen, PendingIsAsked, EachFactOnce, CoreIsKept
<1>4. TopicsAreKept'
  BY <1>1 DEF ChatInv, TopicsAreKept, OnItsWay
<1>5. /\ Chat!FactsOfOneSnapshot' /\ Chat!FactsShownOnce' /\ Chat!HistoryOnlyIfAsked'
      /\ Chat!ContextIsCovered'
  BY <1>1 DEF Chat!FactsOfOneSnapshot, Chat!FactsShownOnce, Chat!HistoryOnlyIfAsked,
              Chat!ContextIsCovered
<1> QED BY <1>2, <1>3, <1>4, <1>5 DEF ChatInv

\* A turn of the model, with the calls it is planned to make besides its own
LEMMA ChatChooses ==
    ASSUME Chat!ChatLimits, ChatInv, NEW turn \in Chat!Turns, Chat!Choose(turn)
    PROVE  ChatInv'
<1> DEFINE calls == turn \o Chat!Planned(turn)
<1>1. PICK n \in Nat : DOMAIN calls = 1..n
  BY CallsOfTurn DEF ChatInv
<1>2. /\ stage = "planning" /\ outcomes = <<>>
      /\ UNCHANGED <<request, frozen, phase, cache, shown, core, completed>>
      /\ rounds \in Nat /\ unique \in Nat /\ MaxRounds \in Nat \ {0} /\ MaxCalls \in Nat
  BY DEF Chat!Choose, ChatInv, ChatOrder, ChatTypeOK, Chat!told, Chat!ChatLimits
<1>3. request.scope = "match" /\ rounds >= 1 /\ unique < MaxCalls =>
          \A k \in DOMAIN request.topics : request.topics[k] \in completed
  BY <1>2 DEF ChatInv, TopicsAreKept, OnItsWay
<1>4. request.scope = "match" /\ rounds = 0 =>
          \A k \in DOMAIN request.topics :
              request.topics[k] \in completed \/
                  \E i \in DOMAIN calls : calls[i] = Chat!PlannedCall(request.topics[k])
  BY CallsOfTurn DEF ChatInv, ChatOrder
<1>5. CASE calls = <<>> /\ stage' = "generating" /\ UNCHANGED <<rounds, unique, outcomes, next>>
  <2>1. ChatOrder'
    BY <1>2, <1>5 DEF ChatInv, ChatOrder
  <2>2. rounds = 0 \/ rounds >= 1
    BY <1>2
  <2>3. Chat!ContextIsCovered'
    BY <1>2, <1>3, <1>4, <1>5, <2>2 DEF Chat!ContextIsCovered
  <2> QED BY <1>2, <1>5, <2>1, <2>3, ChatMovesOn
<1>6. CASE /\ rounds' = rounds + 1 /\ rounds' > MaxRounds /\ stage' \in {"generating", "error"}
           /\ UNCHANGED <<unique, outcomes, next>>
  <2>1. rounds >= 1 /\ rounds' \in Nat /\ rounds' # 0 /\ rounds' >= 1
    BY <1>2, <1>6
  <2>2. ChatTypeOK' /\ ChatOrder'
    BY <1>2, <1>6, <2>1 DEF ChatInv, ChatTypeOK, ChatOrder
  <2>3. ReadsAreFrozen' /\ PendingIsAsked' /\ EachFactOnce'
    BY <1>2, <1>6 DEF ChatInv, ReadsAreFrozen, PendingIsAsked, EachFactOnce, ToBeShown,
                      Chat!Succeeded
  <2>4. CoreIsKept'
    BY <1>2, <1>6 DEF ChatInv, CoreIsKept, Chat!Succeeded, Chat!IsCore
  <2>5. TopicsAreKept' /\ Chat!ContextIsCovered'
    BY <1>2, <1>3, <1>6, <2>1 DEF TopicsAreKept, Chat!ContextIsCovered
  <2>6. Chat!FactsOfOneSnapshot' /\ Chat!FactsShownOnce' /\ Chat!HistoryOnlyIfAsked'
    BY <1>2 DEF ChatInv, Chat!FactsOfOneSnapshot, Chat!FactsShownOnce, Chat!HistoryOnlyIfAsked
  <2> QED BY <2>2, <2>3, <2>4, <2>5, <2>6 DEF ChatInv
<1>7. CASE /\ rounds' = rounds + 1 /\ stage' = "running" /\ next' = 1
           /\ outcomes' = Chat!Classified(calls)
           /\ unique' = unique + Chat!Cardinality(Chat!Affordable(calls))
  <2>1. DOMAIN outcomes' = 1..n /\ DOMAIN outcomes' = DOMAIN calls
    BY <1>1, <1>7 DEF Chat!Classified
  <2>2. \A i \in DOMAIN outcomes' :
          /\ IsOutcome(outcomes'[i]) /\ outcomes'[i].call = calls[i]
          /\ outcomes'[i].status = "pending" =>
                ~Chat!Refuses(calls[i]) /\ \A c \in cache : c.call # calls[i]
          /\ outcomes'[i].status = "pending" /\ outcomes'[i].duplicate = "no"
                => i \in Chat!Affordable(calls)
          /\ Chat!Succeeded(outcomes'[i]) =>
                /\ outcomes'[i].duplicate = "yes"
                /\ \E c \in cache : /\ c.call = calls[i] /\ c.status = outcomes'[i].status
                                   /\ c.version = outcomes'[i].version
          /\ \/ outcomes'[i].status = "pending"
             \/ Chat!Refuses(calls[i]) \/ \E c \in cache : c.call = calls[i]
             \/ \A j \in Chat!Affordable(calls) : ~((j < i \/ j = i) /\ calls[j] = calls[i])
    <3> HIDE DEF calls
    <3> QED BY <1>7, <2>1, CallIsClassified DEF ChatInv
  <2>3. /\ Chat!Cardinality(Chat!Affordable(calls)) \in Nat
        /\ Chat!Fresh(calls) # Chat!Affordable(calls) =>
             unique + Chat!Cardinality(Chat!Affordable(calls)) >= MaxCalls
    <3> HIDE DEF calls
    <3> QED BY <1>1, <1>2, BudgetIsUsed
  <2> HIDE DEF calls
  <2>4. unique' \in Nat /\ unique' >= unique /\ rounds' \in Nat /\ rounds' >= 1 /\ rounds' # 0
    BY <1>2, <1>7, <2>3
  <2>5. ChatTypeOK' /\ ChatOrder'
    BY <1>2, <1>7, <2>1, <2>2, <2>4 DEF ChatInv, ChatTypeOK, ChatOrder
  <2>6. ReadsAreFrozen'
    BY <1>2, <2>1, <2>2 DEF ChatInv, ReadsAreFrozen, Chat!Succeeded
  <2>7. PendingIsAsked'
    BY <1>2, <2>1, <2>2 DEF PendingIsAsked, Chat!Refuses, Chat!Catalog, Chat!HistoryTools
  <2>8. EachFactOnce'
    <3>1. \A i \in DOMAIN outcomes' : ToBeShown(i)' =>
              /\ outcomes'[i].status = "pending" /\ i \in Chat!Affordable(calls)
              /\ i \in Chat!Fresh(calls)
      BY <2>2 DEF ToBeShown, Chat!Succeeded, Chat!Affordable
    <3>2. \A k \in DOMAIN shown : \E o \in cache : o.call = shown[k].call
      BY DEF ChatInv, EachFactOnce
    <3>3. ASSUME NEW i \in DOMAIN outcomes', NEW j \in DOMAIN outcomes', ToBeShown(i)', ToBeShown(j)',
                 outcomes'[i].call = outcomes'[j].call
          PROVE  i = j
      <4>1. /\ i \in 1..n /\ j \in 1..n /\ calls[i] = calls[j]
            /\ i \in Chat!Fresh(calls) /\ j \in Chat!Fresh(calls)
        BY <2>1, <2>2, <3>1, <3>3
      <4>2. \A x \in 1..i - 1 : calls[x] # calls[i]
        BY <4>1 DEF Chat!Fresh
      <4>3. \A x \in 1..j - 1 : calls[x] # calls[j]
        BY <4>1 DEF Chat!Fresh
      <4> QED BY <4>1, <4>2, <4>3
    <3>4. \A k \in DOMAIN shown' : \E o \in cache' : o.call = shown'[k].call
      BY <1>2, <3>2
    <3>5. \A i \in DOMAIN outcomes' : Chat!Succeeded(outcomes'[i]) =>
             \E o \in cache' : o.call = outcomes'[i].call
      BY <1>2, <2>2
    <3>6. ASSUME NEW i \in DOMAIN outcomes', ToBeShown(i)', NEW k \in DOMAIN shown'
          PROVE  shown'[k].call # outcomes'[i].call
      BY <1>2, <2>2, <3>1, <3>4, <3>6
    <3> QED BY <3>3, <3>4, <3>5, <3>6 DEF EachFactOnce, Chat!Succeeded
  <2>9. CoreIsKept'
    BY <1>2 DEF ChatInv, CoreIsKept, Chat!Succeeded, Chat!IsCore
  <2>10. TopicsAreKept'
    <3> SUFFICES ASSUME request.scope = "match", unique' < MaxCalls,
                        NEW k \in DOMAIN request.topics, request.topics[k] \notin completed
                 PROVE  OnItsWay(request.topics[k])'
      BY <1>2 DEF TopicsAreKept, OnItsWay
    <3>1. unique < MaxCalls /\ Chat!Fresh(calls) = Chat!Affordable(calls) /\ rounds = 0
      BY <1>2, <1>3, <1>7, <2>3, <2>4
    <3>2. PICK i \in DOMAIN calls : calls[i] = Chat!PlannedCall(request.topics[k])
      BY <1>4, <3>1
    <3>3. cache = {} /\ phase = "context"
      BY <3>1 DEF ChatInv, ChatOrder
    <3>4. ~Chat!Refuses(calls[i])
      BY <3>2, <3>3 DEF Chat!Refuses, Chat!PlannedCall, Chat!InScope, Chat!MatchTools, Chat!Catalog,
                  Chat!ToolNames, Chat!Phases, Chat!HistoryTools, Chat!GlobalTools
    <3>5. \E j \in Chat!Affordable(calls) : (j < i \/ j = i) /\ calls[j] = calls[i]
      <4> DEFINE S == {j \in 1..n : calls[j] = calls[i]}
      <4>1. i \in S /\ S \subseteq Nat
        BY <1>1
      <4>2. PICK j \in S : \A x \in S : j <= x
        BY <4>1, SmallestIsThere
      <4>3. \A x \in 1..j - 1 : calls[x] # calls[j]
        BY <4>2
      <4>4. ~Chat!Refuses(calls[j])
        BY <3>4, <4>2
      <4>5. j \in Chat!Fresh(calls)
        BY <1>1, <3>3, <4>2, <4>3, <4>4 DEF Chat!Fresh
      <4>6. j <= i /\ j \in Nat /\ i \in Nat
        BY <1>1, <4>1, <4>2
      <4> QED BY <3>1, <4>2, <4>5, <4>6
    <3>6. outcomes'[i].status = "pending" /\ outcomes'[i].call = calls[i] /\ i \in DOMAIN outcomes'
      BY <2>1, <2>2, <3>3, <3>4, <3>5
    <3>7. i >= next'
      BY <1>1, <1>7
    <3> QED BY <1>2, <3>2, <3>6, <3>7 DEF OnItsWay, Chat!PlannedCall
  <2>11. Chat!ContextIsCovered'
    BY <1>7 DEF Chat!ContextIsCovered
  <2>12. Chat!FactsOfOneSnapshot' /\ Chat!FactsShownOnce' /\ Chat!HistoryOnlyIfAsked'
    BY <1>2 DEF ChatInv, Chat!FactsOfOneSnapshot, Chat!FactsShownOnce, Chat!HistoryOnlyIfAsked
  <2> QED BY <2>5, <2>6, <2>7, <2>8, <2>9, <2>10, <2>11, <2>12 DEF ChatInv
<1> QED BY <1>5, <1>6, <1>7 DEF Chat!Choose, Chat!NextRound
\* A call ends, and what it read is in the cache from now on
LEMMA ChatRunsTool ==
    ASSUME Chat!ChatLimits, ChatInv, NEW i \in DOMAIN outcomes, Chat!RunTool(i)
    PROVE  ChatInv'
<1> DEFINE c == outcomes[i].call
           v == Chat!VersionFor(c)
<1>1. PICK status \in Chat!Endings(c) :
          /\ outcomes' = [j \in DOMAIN outcomes |->
                             IF j = i \/ (outcomes[j].call = c /\ ~Chat!Own(j)
                                              /\ outcomes[j].status = "pending")
                             THEN [outcomes[j] EXCEPT !.status = status, !.version = v]
                             ELSE outcomes[j]]
          /\ cache' = cache \cup {[outcomes[i] EXCEPT !.status = status, !.version = v]}
  BY DEF Chat!RunTool
<1>2. /\ stage = "running" /\ outcomes[i].status = "pending" /\ outcomes[i].duplicate = "no"
      /\ UNCHANGED <<request, frozen, stage, phase, rounds, unique, next, shown, core, completed>>
      /\ next = 1 /\ rounds >= 1 /\ rounds # 0
  <2>1. /\ stage = "running" /\ outcomes[i].status = "pending" /\ outcomes[i].duplicate = "no"
        /\ UNCHANGED <<request, frozen, stage, Chat!loop, unique, next, Chat!told>>
    BY DEF Chat!RunTool, Chat!Runs, Chat!Own
  <2>2. next = 1 /\ rounds >= 1 /\ rounds # 0
    BY <2>1 DEF ChatInv, ChatOrder, ChatTypeOK
  <2> QED BY <2>1, <2>2 DEF Chat!loop, Chat!told
<1>3. /\ status \in {"rejected", "empty", "found", "unavailable", "failed"}
      /\ c.name = "get_match_intelligence" /\ c.arg # "malformed" => status = "empty"
  BY DEF Chat!Endings, Chat!MarketEndings
<1>4. request.scope = "match" /\ c.name \in SnapshotTools => v = frozen
  BY DEF Chat!VersionFor, Chat!ReadsSnapshot, SnapshotTools
<1>5. PICK e : /\ e = [outcomes[i] EXCEPT !.status = status, !.version = v]
               /\ e.call = c /\ e.status = status /\ e.version = v
               /\ cache' = cache \cup {e}
  <2>1. IsOutcome(outcomes[i])
    BY DEF ChatInv, ChatTypeOK
  <2> QED BY <1>1, <2>1 DEF IsOutcome
<1>6. DOMAIN outcomes' = DOMAIN outcomes
  BY <1>1
<1>7. ASSUME NEW j \in DOMAIN outcomes
      PROVE  /\ IsOutcome(outcomes'[j]) /\ outcomes'[j].call = outcomes[j].call
             /\ outcomes'[j].duplicate = outcomes[j].duplicate
             /\ \/ outcomes'[j] = outcomes[j] /\ j # i
                \/ /\ outcomes[j].status = "pending" /\ outcomes[j].call = c
                   /\ outcomes'[j].status = status /\ outcomes'[j].version = v
  <2>1. IsOutcome(outcomes[j])
    BY DEF ChatInv, ChatTypeOK
  <2>2. CASE j = i \/ (outcomes[j].call = c /\ ~Chat!Own(j) /\ outcomes[j].status = "pending")
    <3>1. outcomes'[j] = [outcomes[j] EXCEPT !.status = status, !.version = v]
      BY <1>1, <2>2
    <3>2. outcomes'[j] = [call |-> outcomes[j].call, status |-> status, version |-> v,
                          duplicate |-> outcomes[j].duplicate]
      BY <2>1, <3>1 DEF IsOutcome
    <3> QED BY <1>2, <2>2, <3>2 DEF IsOutcome
  <2>3. CASE ~(j = i \/ (outcomes[j].call = c /\ ~Chat!Own(j) /\ outcomes[j].status = "pending"))
    <3>1. outcomes'[j] = outcomes[j]
      BY <1>1, <2>3
    <3> QED BY <2>1, <2>3, <3>1
  <2> QED BY <2>2, <2>3
<1> HIDE DEF v
<1>8. ChatTypeOK'
  BY <1>2, <1>3, <1>5, <1>6, <1>7 DEF ChatInv, ChatTypeOK
<1>9. ChatOrder'
  BY <1>2 DEF ChatInv, ChatOrder
<1>10. ReadsAreFrozen'
  BY <1>2, <1>4, <1>5, <1>6, <1>7 DEF ChatInv, ReadsAreFrozen, Chat!Succeeded
<1>11. PendingIsAsked'
  BY <1>2, <1>3, <1>6, <1>7 DEF ChatInv, PendingIsAsked
<1>12. EachFactOnce'
  <2>1. \A k \in DOMAIN shown' : \E o \in cache' : o.call = shown'[k].call
    BY <1>2, <1>5 DEF ChatInv, EachFactOnce
  <2>2. ASSUME NEW j \in DOMAIN outcomes', Chat!Succeeded(outcomes'[j])
        PROVE  \E o \in cache' : o.call = outcomes'[j].call
    <3>1. CASE outcomes'[j] = outcomes[j]
      BY <1>5, <1>6, <2>2, <3>1 DEF ChatInv, EachFactOnce
    <3>2. CASE outcomes[j].call = c
      BY <1>5, <1>6, <1>7, <3>2
    <3> QED BY <1>6, <1>7, <3>1, <3>2
  <2>3. ASSUME NEW j \in DOMAIN outcomes', ToBeShown(j)'
        PROVE  ToBeShown(j)
    BY <1>6, <1>7, <2>3 DEF ToBeShown
  <2>4. \A j \in DOMAIN outcomes' : ToBeShown(j)' /\ j >= next' =>
            \A k \in DOMAIN shown' : shown'[k].call # outcomes'[j].call
    BY <1>2, <1>6, <1>7, <2>3 DEF ChatInv, EachFactOnce
  <2>5. \A j, k \in DOMAIN outcomes' :
            ToBeShown(j)' /\ ToBeShown(k)' /\ outcomes'[j].call = outcomes'[k].call => j = k
    BY <1>6, <1>7, <2>3 DEF ChatInv, EachFactOnce
  <2> QED BY <2>1, <2>2, <2>4, <2>5 DEF EachFactOnce, Chat!Succeeded
<1>13. CoreIsKept'
  <2> SUFFICES ASSUME NEW o \in cache', Chat!Succeeded(o), Chat!IsCore(o.call.name), ~core
               PROVE  \E j \in DOMAIN outcomes' :
                          /\ j >= next' /\ Chat!Succeeded(outcomes'[j])
                          /\ Chat!IsCore(outcomes'[j].call.name)
    BY <1>2 DEF CoreIsKept, Chat!Succeeded, Chat!IsCore
  <2>1. CASE o \in cache
    <3>1. PICK j \in DOMAIN outcomes :
              /\ j >= next /\ Chat!Succeeded(outcomes[j]) /\ Chat!IsCore(outcomes[j].call.name)
      BY <2>1 DEF ChatInv, CoreIsKept
    <3>2. outcomes'[j] = outcomes[j]
      BY <1>7, <3>1 DEF Chat!Succeeded
    <3> QED BY <1>2, <1>6, <3>1, <3>2
  <2>2. CASE o = e
    <3>1. i >= next'
      <4>1. i \in Nat /\ i >= 1
        BY DEF ChatInv, ChatTypeOK
      <4> QED BY <1>2, <4>1
    <3>2. outcomes'[i].status = status /\ outcomes'[i].call = c
      BY <1>7
    <3> QED BY <1>5, <1>6, <2>2, <3>1, <3>2 DEF Chat!Succeeded
  <2> QED BY <1>5, <2>1, <2>2
<1>14. TopicsAreKept'
  <2> SUFFICES ASSUME request.scope = "match", unique < MaxCalls,
                      NEW k \in DOMAIN request.topics, request.topics[k] \notin completed
               PROVE  OnItsWay(request.topics[k])'
    BY <1>2 DEF TopicsAreKept, OnItsWay
  <2>1. PICK j \in DOMAIN outcomes :
            /\ j >= next /\ outcomes[j].call = Chat!PlannedCall(request.topics[k])
            /\ outcomes[j].status \in {"pending", "empty"}
    BY <1>2 DEF ChatInv, TopicsAreKept, OnItsWay
  <2>2. request.topics[k] # "malformed"
    <3>1. request.topics = <<>> \/ request.topics = Topics
      BY DEF ChatInv, ChatTypeOK, Chat!ChatRequests
    <3> QED BY <3>1 DEF Chat!ChatLimits
  <2>3. outcomes'[j].call = Chat!PlannedCall(request.topics[k])
    BY <1>7, <2>1
  <2>4. outcomes'[j].status \in {"pending", "empty"}
    BY <1>3, <1>7, <2>1, <2>2 DEF Chat!PlannedCall
  <2> QED BY <1>2, <1>6, <2>1, <2>3, <2>4 DEF OnItsWay, Chat!PlannedCall
<1>15. Chat!FactsOfOneSnapshot' /\ Chat!FactsShownOnce' /\ Chat!ContextIsCovered'
  BY <1>2 DEF ChatInv, Chat!FactsOfOneSnapshot, Chat!FactsShownOnce, Chat!ContextIsCovered
<1>16. Chat!HistoryOnlyIfAsked'
  BY <1>2, <1>5 DEF ChatInv, Chat!HistoryOnlyIfAsked, PendingIsAsked
<1> QED BY <1>8, <1>9, <1>10, <1>11, <1>12, <1>13, <1>14, <1>15, <1>16 DEF ChatInv
LEMMA ChatEndsRunning ==
    ASSUME ChatInv, Chat!AllEnded
    PROVE  ChatInv'
<1>1. /\ UNCHANGED <<request, frozen, rounds, phase, unique, cache, outcomes, next, shown,
                     core, completed>>
      /\ stage = "running" /\ stage' = "handling"
      /\ \A i \in DOMAIN outcomes : outcomes[i].status # "pending"
  BY DEF Chat!AllEnded, Chat!loop, Chat!executor, Chat!told
<1>2. ChatOrder'
  BY <1>1 DEF ChatInv, ChatOrder
<1>3. Chat!ContextIsCovered'
  BY <1>1 DEF Chat!ContextIsCovered
<1> QED BY <1>1, <1>2, <1>3, ChatMovesOn

\* An outcome that is no fact: the next one is handled
LEMMA ChatNotesFailure ==
    ASSUME ChatInv, Chat!NoteFailure
    PROVE  ChatInv'
<1>1. /\ UNCHANGED <<request, frozen, stage, rounds, phase, unique, cache, outcomes, shown,
                     core, completed>>
      /\ stage = "handling" /\ next \in DOMAIN outcomes /\ next' = next + 1
      /\ ~Chat!Succeeded(outcomes[next]) /\ outcomes[next].status # "pending"
  BY DEF Chat!NoteFailure, Chat!Handled, Chat!loop, Chat!executor, Chat!told, ChatInv, ChatOrder
<1>2. next \in Nat \ {0} /\ \A i \in DOMAIN outcomes : i \in Nat /\ (i >= next' => i >= next)
  BY <1>1 DEF ChatInv, ChatTypeOK
<1>3. \A i \in DOMAIN outcomes : i >= next /\ i # next => i >= next'
  BY <1>1, <1>2
<1>4. ChatTypeOK' /\ ChatOrder'
  BY <1>1, <1>2 DEF ChatInv, ChatTypeOK, ChatOrder
<1>5. ReadsAreFrozen' /\ PendingIsAsked'
  BY <1>1 DEF ChatInv, ReadsAreFrozen, PendingIsAsked, Chat!Succeeded
<1>6. EachFactOnce'
  BY <1>1, <1>2 DEF ChatInv, EachFactOnce, ToBeShown, Chat!Succeeded
<1>7. CoreIsKept'
  <2> SUFFICES ASSUME NEW o \in cache, Chat!Succeeded(o), Chat!IsCore(o.call.name), ~core
               PROVE  \E i \in DOMAIN outcomes :
                          /\ i >= next' /\ Chat!Succeeded(outcomes[i])
                          /\ Chat!IsCore(outcomes[i].call.name)
    BY <1>1 DEF CoreIsKept, Chat!Succeeded, Chat!IsCore
  <2>1. PICK i \in DOMAIN outcomes :
            /\ i >= next /\ Chat!Succeeded(outcomes[i]) /\ Chat!IsCore(outcomes[i].call.name)
    BY DEF ChatInv, CoreIsKept
  <2> QED BY <1>1, <1>3, <2>1
<1>8. TopicsAreKept'
  BY <1>1, <1>3 DEF ChatInv, TopicsAreKept, OnItsWay, Chat!Succeeded, Chat!PlannedCall
<1>9. /\ Chat!FactsOfOneSnapshot' /\ Chat!FactsShownOnce' /\ Chat!HistoryOnlyIfAsked'
      /\ Chat!ContextIsCovered'
  BY <1>1 DEF ChatInv, Chat!FactsOfOneSnapshot, Chat!FactsShownOnce, Chat!HistoryOnlyIfAsked,
              Chat!ContextIsCovered
<1> QED BY <1>4, <1>5, <1>6, <1>7, <1>8, <1>9 DEF ChatInv

\* An outcome that is a fact, and that is shown unless it repeats another
LEMMA ChatShowsFact ==
    ASSUME ChatInv, Chat!ShowFact
    PROVE  ChatInv'
<1> DEFINE o == outcomes[next]
           fact == [call |-> o.call, version |-> o.version]
<1>1. /\ UNCHANGED <<request, frozen, stage, rounds, phase, unique, cache, outcomes>>
      /\ stage = "handling" /\ next \in DOMAIN outcomes /\ next' = next + 1
      /\ Chat!Succeeded(o)
      /\ shown' = IF o.duplicate = "no" THEN Append(shown, fact) ELSE shown
      /\ core' = (core \/ Chat!IsCore(o.call.name))
      /\ completed' = completed \cup {t \in {o.call.arg} : o.call.name = "get_match_intelligence"}
  BY DEF Chat!ShowFact, Chat!Own, Chat!Handled, Chat!executor
<1>2. next \in Nat \ {0} /\ \A i \in DOMAIN outcomes : i \in Nat /\ (i >= next' => i >= next)
  BY <1>1 DEF ChatInv, ChatTypeOK
<1>3. \A i \in DOMAIN outcomes : i >= next /\ i # next => i >= next'
  BY <1>1, <1>2
<1>4. /\ IsListed(shown')
      /\ \A k \in DOMAIN shown' :
            \/ k \in DOMAIN shown /\ shown'[k] = shown[k]
            \/ k \notin DOMAIN shown /\ o.duplicate = "no" /\ shown'[k] = fact
      /\ \A k, l \in DOMAIN shown' : k \notin DOMAIN shown /\ l \notin DOMAIN shown => k = l
  <2>1. IsListed(shown)
    BY DEF ChatInv, ChatTypeOK
  <2>2. CASE o.duplicate = "no"
    <3>1. shown' = Append(shown, fact)
      BY <1>1, <2>2
    <3> QED BY <2>1, <2>2, <3>1, ListedAppend
  <2>3. CASE o.duplicate # "no"
    BY <1>1, <2>1, <2>3
  <2> QED BY <2>2, <2>3
<1> HIDE DEF fact
<1>5. fact.call = o.call /\ fact.version = o.version
  BY DEF fact
<1>6. ChatTypeOK' /\ ChatOrder'
  BY <1>1, <1>2, <1>4 DEF ChatInv, ChatTypeOK, ChatOrder
<1>7. ReadsAreFrozen' /\ PendingIsAsked'
  BY <1>1 DEF ChatInv, ReadsAreFrozen, PendingIsAsked, Chat!Succeeded
<1>8. EachFactOnce'
  <2>1. \A k \in DOMAIN shown' : \E e \in cache' : e.call = shown'[k].call
    BY <1>1, <1>4, <1>5 DEF ChatInv, EachFactOnce
  <2>2. \A i \in DOMAIN outcomes' : Chat!Succeeded(outcomes'[i]) =>
            \E e \in cache' : e.call = outcomes'[i].call
    BY <1>1 DEF ChatInv, EachFactOnce
  <2>3. \A i \in DOMAIN outcomes : ToBeShown(i)' <=> ToBeShown(i)
    BY <1>1 DEF ToBeShown, Chat!Succeeded
  <2>4. \A i, j \in DOMAIN outcomes' :
            ToBeShown(i)' /\ ToBeShown(j)' /\ outcomes'[i].call = outcomes'[j].call => i = j
    BY <1>1, <2>3 DEF ChatInv, EachFactOnce
  <2>5. ASSUME NEW i \in DOMAIN outcomes', ToBeShown(i)', i >= next', NEW k \in DOMAIN shown',
               shown'[k].call = outcomes'[i].call
        PROVE  FALSE
    <3>1. ToBeShown(i) /\ i >= next /\ i \in DOMAIN outcomes /\ i # next
      BY <1>1, <1>2, <2>3, <2>5
    <3>2. CASE k \in DOMAIN shown /\ shown'[k] = shown[k]
      BY <1>1, <2>5, <3>1, <3>2 DEF ChatInv, EachFactOnce
    <3>3. CASE o.duplicate = "no" /\ shown'[k] = fact
      <4>1. ToBeShown(next)
        BY <1>1, <3>3 DEF ToBeShown
      <4> QED BY <1>1, <1>5, <2>5, <3>1, <3>3, <4>1 DEF ChatInv, EachFactOnce
    <3> QED BY <1>4, <3>2, <3>3
  <2> QED BY <2>1, <2>2, <2>4, <2>5 DEF EachFactOnce, Chat!Succeeded
<1>9. CoreIsKept'
  <2> SUFFICES ASSUME NEW e \in cache, Chat!Succeeded(e), Chat!IsCore(e.call.name),
                      ~core, ~Chat!IsCore(o.call.name)
               PROVE  \E i \in DOMAIN outcomes :
                          /\ i >= next' /\ Chat!Succeeded(outcomes[i])
                          /\ Chat!IsCore(outcomes[i].call.name)
    BY <1>1 DEF CoreIsKept, Chat!Succeeded, Chat!IsCore
  <2>1. PICK i \in DOMAIN outcomes :
            /\ i >= next /\ Chat!Succeeded(outcomes[i]) /\ Chat!IsCore(outcomes[i].call.name)
    BY DEF ChatInv, CoreIsKept
  <2> QED BY <1>1, <1>3, <2>1
<1>10. TopicsAreKept'
  <2> SUFFICES ASSUME request.scope = "match", rounds >= 1, unique < MaxCalls,
                      NEW k \in DOMAIN request.topics, request.topics[k] \notin completed'
               PROVE  OnItsWay(request.topics[k])'
    BY <1>1 DEF TopicsAreKept, OnItsWay
  <2>1. PICK i \in DOMAIN outcomes :
            /\ i >= next /\ outcomes[i].call = Chat!PlannedCall(request.topics[k])
            /\ outcomes[i].status \in {"pending", "empty"}
    BY <1>1 DEF ChatInv, TopicsAreKept, OnItsWay
  <2>2. i # next
    BY <1>1, <2>1 DEF Chat!PlannedCall
  <2> QED BY <1>1, <1>3, <2>1, <2>2 DEF OnItsWay, Chat!PlannedCall
<1>11. Chat!FactsOfOneSnapshot'
  <2> SUFFICES ASSUME request.scope = "match", NEW k \in DOMAIN shown',
                      shown'[k].call.name \in SnapshotTools
               PROVE  shown'[k].version = frozen
    BY <1>1 DEF Chat!FactsOfOneSnapshot, SnapshotTools
  <2>1. CASE k \in DOMAIN shown /\ shown'[k] = shown[k]
    BY <2>1 DEF ChatInv, Chat!FactsOfOneSnapshot, SnapshotTools
  <2>2. CASE shown'[k] = fact
    BY <1>1, <1>5, <2>2 DEF ChatInv, ReadsAreFrozen
  <2> QED BY <1>4, <2>1, <2>2
<1>12. Chat!FactsShownOnce'
  <2> SUFFICES ASSUME NEW k \in DOMAIN shown', NEW l \in DOMAIN shown',
                      shown'[k].call = shown'[l].call
               PROVE  k = l
    BY DEF Chat!FactsShownOnce
  <2>1. o.duplicate = "no" => \A x \in DOMAIN shown : shown[x].call # o.call
    <3>1. next >= next
      BY <1>2
    <3> QED BY <1>1, <3>1 DEF ChatInv, EachFactOnce, ToBeShown
  <2> QED BY <1>4, <1>5, <2>1 DEF ChatInv, Chat!FactsShownOnce
<1>13. Chat!HistoryOnlyIfAsked' /\ Chat!ContextIsCovered'
  BY <1>1 DEF ChatInv, Chat!HistoryOnlyIfAsked, Chat!ContextIsCovered
<1> QED BY <1>6, <1>7, <1>8, <1>9, <1>10, <1>11, <1>12, <1>13 DEF ChatInv

\* All outcomes of a turn are handled
LEMMA ChatEndsTurn ==
    ASSUME ChatInv, Chat!EndTurn
    PROVE  ChatInv'
<1>1. /\ UNCHANGED <<request, frozen, rounds, unique, cache, shown, core, completed>>
      /\ stage = "handling" /\ next \notin DOMAIN outcomes
      /\ outcomes' = <<>> /\ next' = 1
      /\ stage' \in {"generating", "planning", "error"}
  BY DEF Chat!EndTurn, Chat!executor, Chat!told
<1>2. rounds >= 1 /\ rounds # 0
  BY <1>1 DEF ChatInv, ChatOrder, ChatTypeOK
<1>3. cache = {} \/ cache # {}
  OBVIOUS
<1>4. ChatTypeOK' /\ ChatOrder'
  BY <1>1, <1>2 DEF ChatInv, ChatTypeOK, ChatOrder
<1>5. ReadsAreFrozen' /\ PendingIsAsked'
  BY <1>1 DEF ChatInv, ReadsAreFrozen, PendingIsAsked, Chat!Succeeded
<1>6. EachFactOnce'
  BY <1>1 DEF ChatInv, EachFactOnce, Chat!Succeeded
<1>7. \A i \in DOMAIN outcomes : ~(i >= next)
  BY <1>1 DEF ChatInv, ChatTypeOK
<1>8. CoreIsKept'
  BY <1>1, <1>7 DEF ChatInv, CoreIsKept, Chat!Succeeded, Chat!IsCore
<1>9. request.scope = "match" /\ unique < MaxCalls =>
          \A k \in DOMAIN request.topics : request.topics[k] \in completed
  BY <1>2, <1>7 DEF ChatInv, TopicsAreKept, OnItsWay
<1>10. TopicsAreKept' /\ Chat!ContextIsCovered'
  BY <1>1, <1>9 DEF TopicsAreKept, Chat!ContextIsCovered
<1>11. Chat!FactsOfOneSnapshot' /\ Chat!FactsShownOnce' /\ Chat!HistoryOnlyIfAsked'
  BY <1>1 DEF ChatInv, Chat!FactsOfOneSnapshot, Chat!FactsShownOnce, Chat!HistoryOnlyIfAsked
<1> QED BY <1>4, <1>5, <1>6, <1>8, <1>10, <1>11 DEF ChatInv
LEMMA ChatStep ==
    ASSUME Chat!ChatLimits, ChatInv, [Chat!Next]_(Chat!vars)
    PROVE  ChatInv'
<1> USE DEF Chat!loop, Chat!executor, Chat!told
<1>1. CASE Chat!Refuse
  <2>1. ChatOrder' /\ Chat!ContextIsCovered'
    BY <1>1 DEF Chat!Refuse, ChatInv, ChatOrder, Chat!ContextIsCovered
  <2> QED BY <1>1, <2>1, ChatMovesOn DEF Chat!Refuse
<1>2. CASE Chat!Freeze
  BY <1>2, ChatFreezes
<1>3. CASE Chat!ChooseFails
  <2>1. ChatOrder' /\ Chat!ContextIsCovered'
    BY <1>3 DEF Chat!ChooseFails, ChatInv, ChatOrder, Chat!ContextIsCovered
  <2> QED BY <1>3, <2>1, ChatMovesOn DEF Chat!ChooseFails
<1>4. CASE \E turn \in Chat!Turns : Chat!Choose(turn)
  BY <1>4, ChatChooses
<1>5. CASE \E i \in DOMAIN outcomes : Chat!RunTool(i)
  BY <1>5, ChatRunsTool
<1>6. CASE Chat!AllEnded
  BY <1>6, ChatEndsRunning
<1>7. CASE Chat!ShowFact
  BY <1>7, ChatShowsFact
<1>8. CASE Chat!NoteFailure
  BY <1>8, ChatNotesFailure
<1>9. CASE Chat!ToolFails
  <2>1. ChatOrder' /\ Chat!ContextIsCovered'
    BY <1>9 DEF Chat!ToolFails, ChatInv, ChatOrder, Chat!ContextIsCovered
  <2> QED BY <1>9, <2>1, ChatMovesOn DEF Chat!ToolFails
<1>10. CASE Chat!EndTurn
  BY <1>10, ChatEndsTurn
<1>11. CASE Chat!FinishAnswer \/ Chat!AnswerFails
  <2>1. /\ UNCHANGED <<request, frozen, rounds, phase, unique, cache, outcomes, next, shown,
                       core, completed>>
        /\ stage' \in {"done", "error"}
    BY <1>11 DEF Chat!FinishAnswer, Chat!AnswerFails
  <2>2. ChatOrder' /\ Chat!ContextIsCovered'
    BY <2>1 DEF ChatInv, ChatOrder, Chat!ContextIsCovered
  <2> QED BY <2>1, <2>2, ChatMovesOn
<1>12. CASE Chat!StreamChunk \/ Chat!MatchGoesOn \/ UNCHANGED Chat!vars
  <2>1. UNCHANGED <<request, frozen, stage, rounds, phase, unique, cache, outcomes, next, shown,
                    core, completed>>
    BY <1>12 DEF Chat!StreamChunk, Chat!MatchGoesOn, Chat!vars
  <2>2. ChatOrder' /\ Chat!ContextIsCovered'
    BY <2>1 DEF ChatInv, ChatOrder, Chat!ContextIsCovered
  <2> QED BY <2>1, <2>2, ChatMovesOn
<1> QED
  BY <1>1, <1>2, <1>3, <1>4, <1>5, <1>6, <1>7, <1>8, <1>9, <1>10, <1>11, <1>12
  DEF Chat!Next, Chat!Step

\* The inductive invariant of a chat request: what a turn leaves to the next
\* (ToolBatchExecutor._cache and _unique_calls, the facts shown) agrees with
\* the outcomes that are not handled yet.
THEOREM ChatInvariant ==
    ASSUME Chat!ChatLimits PROVE Chat!Spec => []ChatInv
BY ChatStart, ChatStep, PTL DEF Chat!Spec

\* However often a call is repeated, in its turn or in a later one, its fact is
\* shown once (ToolBatchExecutor.execute, duplicate_of).
THEOREM ChatShowsFactsOnce ==
    ASSUME Chat!ChatLimits PROVE Chat!Spec => []Chat!FactsShownOnce
<1>1. ChatInv => Chat!FactsShownOnce
  BY DEF ChatInv
<1> QED BY <1>1, ChatInvariant, PTL

\* History that the question does not ask for is not read, whatever tools the
\* model names (allowed_tool_names, ToolBatchExecutor.execute).
THEOREM ChatReadsHistoryIfAsked ==
    ASSUME Chat!ChatLimits PROVE Chat!Spec => []Chat!HistoryOnlyIfAsked
<1>1. ChatInv => Chat!HistoryOnlyIfAsked
  BY DEF ChatInv
<1> QED BY <1>1, ChatInvariant, PTL

\* A request that has read a core fact is not ended by a core tool that fails,
\* nor by a turn that is refused (batch_has_core_data, core_data_emitted).
THEOREM ChatKeepsCoreFacts ==
    ASSUME Chat!ChatLimits PROVE Chat!Spec => Chat!CoreFactsSurvive
<1>1. ASSUME ChatInv, [Chat!Next]_(Chat!vars)
      PROVE  [stage = "handling" /\ stage' = "error" =>
                \A o \in cache : ~(Chat!Succeeded(o) /\ Chat!IsCore(o.call.name))]_(Chat!vars)
  <2> SUFFICES ASSUME Chat!Next, stage = "handling", stage' = "error",
                      NEW o \in cache, Chat!Succeeded(o), Chat!IsCore(o.call.name)
               PROVE  FALSE
    BY <1>1
  <2>1. Chat!ToolFails \/ Chat!EndTurn
    BY DEF Chat!Next, Chat!Step, Chat!Refuse, Chat!Freeze, Chat!ChooseFails, Chat!Choose,
           Chat!RunTool, Chat!AllEnded, Chat!ShowFact, Chat!NoteFailure, Chat!FinishAnswer,
           Chat!AnswerFails, Chat!StreamChunk, Chat!MatchGoesOn
  <2>2. core \/ \E i \in DOMAIN outcomes :
                   /\ i >= next /\ Chat!Succeeded(outcomes[i])
                   /\ Chat!IsCore(outcomes[i].call.name)
    BY <1>1 DEF ChatInv, CoreIsKept
  <2>3. CASE Chat!ToolFails
    BY <2>2, <2>3 DEF Chat!ToolFails, Chat!HasCore
  <2>4. CASE Chat!EndTurn
    <3>1. next \notin DOMAIN outcomes /\ ~core
      BY <2>4 DEF Chat!EndTurn
    <3>2. \A i \in DOMAIN outcomes : ~(i >= next)
      BY <1>1, <3>1 DEF ChatInv, ChatTypeOK
    <3> QED BY <2>2, <3>1, <3>2
  <2> QED BY <2>1, <2>3, <2>4
<1> QED BY <1>1, ChatInvariant, PTL DEF Chat!Spec, Chat!CoreFactsSurvive

-----------------------------------------------------------------------------
(* The parts together                                                      *)
(*                                                                         *)
(* A behaviour of MCSpec is one of a single part.                          *)

everything == <<scope, vars, chat, provider, tables, ledger>>

LEMMA PartStarts ==
    ASSUME MCInit
    PROVE  /\ scope = "pages" => Pages!Init
           /\ scope = "cache" => Cache!Init
           /\ scope = "rankings" => Rankings!Init
           /\ scope = "chat" => Chat!Init
BY DEF MCInit

LEMMA PartSteps ==
    ASSUME [MCNext]_everything
    PROVE  /\ scope' = scope
           /\ scope = "pages" => [Pages!Next]_(Pages!vars)
           /\ scope = "cache" => [Cache!Next]_(Cache!vars)
           /\ scope = "rankings" => [Rankings!Next]_(Rankings!vars)
           /\ scope = "chat" => [Chat!Next]_(Chat!vars)
<1>1. UNCHANGED ledger => UNCHANGED Pages!vars
  BY DEF ledger, Pages!vars, Pages!ledger, Pages!model
<1>2. UNCHANGED provider => UNCHANGED Cache!vars
  BY DEF provider, Cache!vars
<1>3. UNCHANGED tables => UNCHANGED Rankings!vars
  BY DEF tables, Rankings!vars
<1>4. UNCHANGED chat => UNCHANGED Chat!vars
  BY DEF chat, Chat!vars, Chat!loop, Chat!executor, Chat!told
<1> QED BY <1>1, <1>2, <1>3, <1>4 DEF MCNext, everything

PartsInv ==
    /\ scope = "pages" => PagesInv
    /\ scope = "cache" => CacheInv
    /\ scope = "rankings" => RankingsInv
    /\ scope = "chat" => ChatInv

\* What the API does for its clients, part by part: each keeps its invariant.
THEOREM PartsKeepTheirInvariants == MCSpec => []PartsInv
<1>1. /\ Pages!NoneIsNoStatus /\ Cache!LoadsAreKnown /\ Rankings!RankingsAreFinite
      /\ Chat!ChatLimits
  BY ConstantsAreSound DEF ConstantsAreSound
<1>2. MCInit => PartsInv
  <2>1. ASSUME Pages!Init PROVE PagesInv
    BY <1>1, <2>1, PagesStart
  <2>2. ASSUME Cache!Init PROVE CacheInv
    BY <1>1, <2>2, CacheStart
  <2>3. ASSUME Rankings!Init PROVE RankingsInv
    BY <1>1, <2>3, RankingsStart
  <2>4. ASSUME Chat!Init PROVE ChatInv
    BY <1>1, <2>4, ChatStart
  <2> QED BY <2>1, <2>2, <2>3, <2>4, PartStarts DEF PartsInv
<1>3. PartsInv /\ [MCNext]_everything => PartsInv'
  <2>1. ASSUME PagesInv, [Pages!Next]_(Pages!vars) PROVE PagesInv'
    BY <1>1, <2>1, PagesStep
  <2>2. ASSUME CacheInv, [Cache!Next]_(Cache!vars) PROVE CacheInv'
    BY <1>1, <2>2, CacheStep
  <2>3. ASSUME RankingsInv, [Rankings!Next]_(Rankings!vars) PROVE RankingsInv'
    BY <1>1, <2>3, RankingsStep
  <2>4. ASSUME ChatInv, [Chat!Next]_(Chat!vars) PROVE ChatInv'
    BY <1>1, <2>4, ChatStep
  <2> QED BY <2>1, <2>2, <2>3, <2>4, PartSteps DEF PartsInv
<1> QED BY <1>2, <1>3, PTL DEF MCSpec, everything

\* However far the ledger has gone between the reads of match_decision, the page
\* of a match explains the status it shows.
THEOREM PageExplainsItsStatus ==
    ASSUME Pages!NoneIsNoStatus
    PROVE  /\ Pages!Spec => []Pages!StatusIsExplained
           /\ MCSpec => []StatusIsExplained
<1>1. PagesInv => Pages!StatusIsExplained
  BY DEF PagesInv
<1>2. PartsInv => StatusIsExplained
  BY <1>1 DEF PartsInv, StatusIsExplained
<1>3. Pages!Spec => []Pages!StatusIsExplained
  BY <1>1, PagesInvariant, PTL
<1>4. MCSpec => []StatusIsExplained
  BY <1>2, PartsKeepTheirInvariants, PTL
<1> QED BY <1>3, <1>4

\* A page of the positions has the price and the result of every row, and lists
\* no match twice, although paper_positions reads them one after the other.
THEOREM PositionsAreComplete ==
    ASSUME Pages!NoneIsNoStatus
    PROVE  /\ Pages!Spec => []Pages!RowsAreComplete
           /\ MCSpec => []RowsAreComplete
<1>1. PagesInv => Pages!RowsAreComplete
  BY DEF PagesInv
<1>2. PartsInv => RowsAreComplete
  BY <1>1 DEF PartsInv, RowsAreComplete
<1>3. Pages!Spec => []Pages!RowsAreComplete
  BY <1>1, PagesInvariant, PTL
<1>4. MCSpec => []RowsAreComplete
  BY <1>2, PartsKeepTheirInvariants, PTL
<1> QED BY <1>3, <1>4

\* However loads fail, requests are cancelled and entries evicted, an answer of
\* get_or_load is within its lifetime, and a stale one within its stale lifetime.
THEOREM CacheAnswersAreRecent ==
    ASSUME Cache!LoadsAreKnown
    PROVE  /\ Cache!Spec => []Cache!AnswersAreRecent
           /\ MCSpec => []AnswersAreRecent
<1>1. CacheInv => Cache!AnswersAreRecent
  BY DEF CacheInv
<1>2. PartsInv => AnswersAreRecent
  BY <1>1 DEF PartsInv, AnswersAreRecent
<1>3. Cache!Spec => []Cache!AnswersAreRecent
  BY <1>1, CacheInvariant, PTL
<1>4. MCSpec => []AnswersAreRecent
  BY <1>2, PartsKeepTheirInvariants, PTL
<1> QED BY <1>3, <1>4

\* The movement that is shown is the one against the snapshot of an earlier day,
\* however often standings are fetched and saved again, and whatever is pruned.
THEOREM RankingsMoveDayOverDay ==
    ASSUME Rankings!RankingsAreFinite
    PROVE  /\ Rankings!Spec => []Rankings!MovementIsDayOverDay
           /\ MCSpec => []MovementIsDayOverDay
<1>1. RankingsInv => Rankings!MovementIsDayOverDay
  <2> SUFFICES ASSUME RankingsInv, NEW t \in Rankings!Tours,
                      {d \in Rankings!Dates(t) : d < Rankings!LatestDate(t)} # {},
                      Rankings!LatestDate(t) # None,
                      NEW p \in DOMAIN rows[t][Rankings!LatestDate(t)]
               PROVE  LET before == rows[t][Rankings!Max({d \in Rankings!Dates(t) :
                                                              d < Rankings!LatestDate(t)})]
                      IN rows[t][Rankings!LatestDate(t)][p].movement =
                             Rankings!MovementFromRankChange(
                                 IF p \in DOMAIN before THEN before[p].rank ELSE Rankings!Unranked,
                                 rows[t][Rankings!LatestDate(t)][p].rank)
    BY DEF Rankings!MovementIsDayOverDay
  <2> DEFINE d == Rankings!LatestDate(t)
  <2>1. Rankings!Dates(t) # {}
    OBVIOUS
  <2>2. d = Rankings!Max(Rankings!Dates(t)) /\ d \in Rankings!Dates(t)
    BY <2>1, DatesAreFinite, LargestIsThere DEF Rankings!LatestDate
  <2> HIDE DEF d
  <2>3. Rankings!DatesBefore(t, d) # {} /\ Compares(t, d)
    BY <2>2 DEF RankingsInv, SnapshotsCompare, Rankings!DatesBefore, d
  <2> QED
    BY <2>3 DEF Compares, Rankings!PreviousRank, Rankings!PreviousRows, Rankings!DatesBefore, d
<1>2. PartsInv => MovementIsDayOverDay
  BY <1>1 DEF PartsInv, MovementIsDayOverDay
<1>3. Rankings!Spec => []Rankings!MovementIsDayOverDay
  BY <1>1, RankingsStart, RankingsStep, PTL DEF Rankings!Spec
<1>4. MCSpec => []MovementIsDayOverDay
  BY <1>2, PartsKeepTheirInvariants, PTL
<1> QED BY <1>3, <1>4

\* Whatever the model calls, in whatever order its tools end and however the
\* match goes on meanwhile, what is shown of the match is of the version that
\* was frozen when the question was asked (freeze_match_context).
THEOREM ChatShowsOneSnapshot ==
    ASSUME Chat!ChatLimits
    PROVE  /\ Chat!Spec => []Chat!FactsOfOneSnapshot
           /\ MCSpec => []FactsOfOneSnapshot
<1>1. ChatInv => Chat!FactsOfOneSnapshot
  BY DEF ChatInv
<1>2. PartsInv => FactsOfOneSnapshot
  BY <1>1 DEF PartsInv, FactsOfOneSnapshot
<1>3. Chat!Spec => []Chat!FactsOfOneSnapshot
  BY <1>1, ChatInvariant, PTL
<1>4. MCSpec => []FactsOfOneSnapshot
  BY <1>2, PartsKeepTheirInvariants, PTL
<1> QED BY <1>3, <1>4

\* The answer to a comprehensive question is begun with every required topic
\* read, for every sequence of topics and every turn of the model, unless the
\* budget of calls is spent (_planned_match_context_calls).
THEOREM ChatCoversItsTopics ==
    ASSUME Chat!ChatLimits
    PROVE  /\ Chat!Spec => []Chat!ContextIsCovered
           /\ MCSpec => []ContextIsCovered
<1>1. ChatInv => Chat!ContextIsCovered
  BY DEF ChatInv
<1>2. PartsInv => ContextIsCovered
  BY <1>1 DEF PartsInv, ContextIsCovered
<1>3. Chat!Spec => []Chat!ContextIsCovered
  BY <1>1, ChatInvariant, PTL
<1>4. MCSpec => []ContextIsCovered
  BY <1>2, PartsKeepTheirInvariants, PTL
<1> QED BY <1>3, <1>4

=============================================================================
