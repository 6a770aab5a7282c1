-------------------------- MODULE PaperLedgerProofs --------------------------
(***************************************************************************)
(* Theorems about PaperLedger for every set of matches, workers and delays *)
(* and every bound of the clock.                                           *)
(***************************************************************************)
EXTENDS PaperLedger, TLAPS

-----------------------------------------------------------------------------
(* Type correctness *)

\* Replacing one row of a table keyed by match and column keeps its type.
LEMMA UpdateRow ==
    ASSUME NEW A, NEW B, NEW R, NEW f \in [A -> [B -> R]],
           NEW a \in A, NEW b \in B, NEW r \in R
    PROVE  [f EXCEPT ![a][b] = r] \in [A -> [B -> R]]
OBVIOUS

\* The calls a coroutine goes on to are calls.
LEMMA CallsOfMatch ==
    ASSUME NEW m \in Matches
    PROVE  /\ Idle \in Calls
           /\ Down \in Calls
           /\ \A state \in Markers : Publish(m, state) \in Calls
           /\ \A then \in {"return", "record_exit_missed"} :
                  PublishNoFill(m, then) \in Calls
           /\ \A status \in PositionStatus \ {"OPEN"} :
                  UpdatePosition(m, status) \in Calls
           /\ \A s \in Sides, t, d \in Nat :
                  [op |-> "create_intent", match |-> m, side |-> s,
                   created |-> t, delay |-> d] \in Calls
           /\ \A s \in Sides, t \in Nat,
                 o \in {"filled", "no_fill", "position_missing"} :
                  [op |-> "record_fill", match |-> m, side |-> s,
                   outcome |-> o, at |-> t] \in Calls
           /\ \A status \in ResolutionStatus, pays \in BOOLEAN :
                  /\ [op |-> "record_resolution", match |-> m,
                      status |-> status, pays |-> pays] \in Calls
                  /\ \A op \in {"upsert_resolution", "load_unsettled"} :
                         [op |-> op, match |-> m,
                          status |-> status, pays |-> pays] \in Calls
           /\ \A t \in TrackNames, k \in ExitKinds :
                  RecordTrack(m, t, k) \in Calls
           /\ [op |-> "publish_blocked", match |-> m] \in Calls
BY DEF Calls, Idle, Down, Publish, PublishNoFill, UpdatePosition, RecordTrack,
       Markers

\* An awaiting worker's call has the fields of its operation.
LEMMA CallFields ==
    ASSUME TypeOK, NEW w \in Workers
    PROVE  /\ call[w] \in Calls
           /\ call[w].op \notin {"idle", "down"} => call[w].match \in Matches
           /\ call[w].op = "create_intent" =>
                  /\ call[w].side \in Sides
                  /\ call[w].created \in Nat
                  /\ call[w].delay \in Nat
           /\ call[w].op = "record_fill" =>
                  /\ call[w].side \in Sides
                  /\ call[w].outcome \in {"filled", "no_fill", "position_missing"}
                  /\ call[w].at \in Nat
           /\ call[w].op = "update_position_status" =>
                  call[w].status \in PositionStatus \ {"OPEN"}
           /\ call[w].op \in {"record_resolution", "upsert_resolution",
                               "load_unsettled"} =>
                  /\ call[w].status \in ResolutionStatus
                  /\ call[w].pays \in BOOLEAN
           /\ call[w].op = "record_track_result" =>
                  /\ call[w].track \in TrackNames
                  /\ call[w].exitKind \in ExitKinds
           /\ call[w].op = "publish" =>
                  /\ call[w].state \in Markers
                  /\ call[w].then \in {"return", "record_exit_missed"}
BY DEF TypeOK, Calls

LEMMA AwaitType ==
    ASSUME TypeOK, NEW w \in Workers, NEW next \in Calls, Await(w, next)
    PROVE  call' \in [Workers -> Calls]
BY DEF TypeOK, Await

LEMMA TypeInit == Init => TypeOK
BY DEF Init, TypeOK, NoIntent, NoFill, Idle, Calls, IntentRows, FillRows,
       IntentStatus, FillKinds, Sides, TrackNames

LEMMA TypeBegin ==
    ASSUME ConstantsAssumption, TypeOK, NEW w \in Workers, NEW m \in Matches,
           Begin(w, m)
    PROVE  TypeOK'
<1>1. CASE BeginEntry(w, m)
    <2>1. PICK d \in Delays :
              Await(w, [op |-> "create_intent", match |-> m, side |-> "ENTRY",
                        created |-> now, delay |-> d])
        BY <1>1 DEF BeginEntry
    <2>2. call' \in [Workers -> Calls]
        BY <2>1, CallsOfMatch, AwaitType DEF TypeOK, Sides, ConstantsAssumption
    <2> QED BY <1>1, <2>2 DEF BeginEntry, TypeOK, ledger
<1>2. CASE BeginExit(w, m)
    <2>1. PICK d \in Delays :
              Await(w, [op |-> "create_intent", match |-> m, side |-> "EXIT",
                        created |-> now, delay |-> d])
        BY <1>2 DEF BeginExit
    <2>2. call' \in [Workers -> Calls]
        BY <2>1, CallsOfMatch, AwaitType DEF TypeOK, Sides, ConstantsAssumption
    <2> QED BY <1>2, <2>2 DEF BeginExit, TypeOK, ledger
<1>3. ASSUME NEW s \in Sides, ExecuteDueIntent(w, m, s)
      PROVE  TypeOK'
    <2>1. PICK o \in {"filled", "no_fill", "position_missing"} :
              Await(w, [op |-> "record_fill", match |-> m, side |-> s,
                        outcome |-> o, at |-> now])
        BY <1>3 DEF ExecuteDueIntent, Outcomes
    <2>2. call' \in [Workers -> Calls]
        BY <2>1, CallsOfMatch, AwaitType DEF TypeOK
    <2> QED BY <1>3, <2>2 DEF ExecuteDueIntent, TypeOK, ledger
<1>4. ASSUME NEW status \in ResolutionStatus, NEW pays \in BOOLEAN,
             SettleMarket(w, m, status, pays)
      PROVE  TypeOK'
    <2>1. call' \in [Workers -> Calls]
        BY <1>4, CallsOfMatch, AwaitType DEF SettleMarket
    <2> QED BY <1>4, <2>1 DEF SettleMarket, TypeOK, ledger
<1> QED BY <1>1, <1>2, <1>3, <1>4 DEF Begin

LEMMA TypeCommit ==
    ASSUME TypeOK, NEW w \in Workers, Commit(w)
    PROVE  TypeOK'
<1> DEFINE c == call[w]
           m == call[w].match
<1>1. CASE CreateIntent(w)
    <2>1. m \in Matches
        BY <1>1, CallFields DEF CreateIntent
    <2>2. intent' \in [Matches -> [Sides -> IntentRows]]
        BY <1>1, CallFields DEF CreateIntent, TypeOK, IntentRows, IntentStatus
    <2>3. call' \in [Workers -> Calls]
        BY <1>1, <2>1, CallsOfMatch, AwaitType
        DEF CreateIntent, Markers, PositionStatus
    <2> QED BY <1>1, <2>2, <2>3 DEF CreateIntent, TypeOK
<1>2. CASE RecordFill(w)
    <2>1. m \in Matches /\ c.side \in Sides
        BY <1>2, CallFields DEF RecordFill,
        FirstFillWins, OpensPosition
    <2>2. fill' \in [Matches -> [Sides -> FillRows]]
        <3>1. c.at \in Nat
            BY <1>2, CallFields DEF RecordFill,
        FirstFillWins, OpensPosition
        <3>2. \A k \in FillKinds : [kind |-> k, at |-> c.at] \in FillRows
            BY <3>1 DEF FillRows
        <3>3. PICK k \in FillKinds :
                  \/ fill' = [fill EXCEPT ![m][c.side] =
                                 [kind |-> k, at |-> c.at]]
                  \/ fill' = fill
            <4>1. CASE c.outcome = "filled"
                BY <1>2, <4>1 DEF RecordFill, FillKinds,
        FirstFillWins, OpensPosition
            <4>2. CASE c.outcome # "filled"
                BY <1>2, <4>2 DEF RecordFill, FillKinds,
        FirstFillWins, OpensPosition
            <4> QED BY <4>1, <4>2
        <3>4. fill \in [Matches -> [Sides -> FillRows]]
            BY DEF TypeOK
        <3>5. [fill EXCEPT ![m][c.side] = [kind |-> k, at |-> c.at]]
                  \in [Matches -> [Sides -> FillRows]]
            BY <2>1, <3>2, <3>4, UpdateRow
        <3> QED BY <3>3, <3>4, <3>5
    <2>6. intent' \in [Matches -> [Sides -> IntentRows]]
        <3>1. ASSUME NEW st \in IntentStatus
              PROVE  [intent EXCEPT ![m][c.side].status = st]
                         \in [Matches -> [Sides -> IntentRows]]
            <4>1. intent[m][c.side] \in IntentRows
                BY <2>1 DEF TypeOK
            <4>2. [intent[m][c.side] EXCEPT !.status = st] \in IntentRows
                BY <4>1 DEF IntentRows
            <4> QED BY <2>1, <4>2 DEF TypeOK
        <3> QED BY <1>2, <3>1 DEF RecordFill, IntentStatus, TypeOK,
        FirstFillWins, OpensPosition
    <2>3. position' \in [Matches -> PositionStatus \cup {"absent"}]
        BY <1>2, <2>1 DEF RecordFill, TypeOK, PositionStatus,
        FirstFillWins, OpensPosition
    <2>4. PICK next : next \in Calls /\ Await(w, next)
        <3>1. CASE c.outcome = "no_fill" /\ c.side = "EXIT"
            BY <1>2, <2>1, <3>1, CallsOfMatch DEF RecordFill,
        FirstFillWins, OpensPosition
        <3>2. CASE /\ c.outcome # "filled"
                   /\ c.side = "ENTRY" \/ c.outcome # "no_fill"
            BY <1>2, <2>1, <3>2, CallsOfMatch DEF RecordFill,
        FirstFillWins, OpensPosition
        <3>3. CASE c.outcome = "filled" /\ c.side = "ENTRY"
            BY <1>2, <2>1, <3>3, CallsOfMatch DEF RecordFill, Markers,
        FirstFillWins, OpensPosition
        <3>4. CASE c.outcome = "filled" /\ c.side = "EXIT"
            BY <1>2, <2>1, <3>4, CallsOfMatch DEF RecordFill, PositionStatus,
        FirstFillWins, OpensPosition
        <3> QED BY <1>2, <2>1, <3>1, <3>2, <3>3, <3>4, CallFields
                DEF RecordFill, Sides,
        FirstFillWins, OpensPosition
    <2>5. call' \in [Workers -> Calls]
        BY <2>4, AwaitType
    <2> QED BY <1>2, <2>2, <2>3, <2>5, <2>6 DEF RecordFill, TypeOK,
        FirstFillWins, OpensPosition
<1>3. CASE UpdatePositionStatus(w)
    <2>1. m \in Matches /\ c.status \in PositionStatus \ {"OPEN"}
        BY <1>3, CallFields DEF UpdatePositionStatus,
        MayMove
    <2>2. position' \in [Matches -> PositionStatus \cup {"absent"}]
        BY <1>3, <2>1 DEF UpdatePositionStatus, TypeOK,
        MayMove
    <2>3. StatusMarker[c.status] \in Markers
        BY <2>1 DEF PositionStatus, StatusMarker, Markers
    <2>4. PICK next : next \in Calls /\ Await(w, next)
        <3>1. /\ Idle \in Calls
              /\ Publish(m, StatusMarker[c.status]) \in Calls
            BY <2>1, <2>3, CallsOfMatch
        <3> QED BY <1>3, <3>1 DEF UpdatePositionStatus,
        MayMove
    <2>5. call' \in [Workers -> Calls]
        BY <2>4, AwaitType
    <2> QED BY <1>3, <2>2, <2>5 DEF UpdatePositionStatus, TypeOK,
        MayMove
<1>4. CASE RecordResolution(w) \/ UpsertResolution(w)
    <2>1. /\ m \in Matches
          /\ c.status \in ResolutionStatus
          /\ c.pays \in BOOLEAN
        BY <1>4, CallFields DEF RecordResolution, UpsertResolution
    <2>2. PICK next : next \in Calls /\ Await(w, next)
        <3>1. /\ Idle \in Calls
              /\ Settle("upsert_resolution", c) \in Calls
              /\ Settle("load_unsettled", c) \in Calls
            BY <2>1, CallsOfMatch DEF Settle
        <3> QED BY <1>4, <3>1 DEF RecordResolution, UpsertResolution
    <2>3. call' \in [Workers -> Calls]
        BY <2>2, AwaitType
    <2>4. resolution' \in [Matches -> ResolutionStatus \cup {"absent"}]
        BY <1>4, <2>1 DEF RecordResolution, UpsertResolution, TypeOK
    <2> QED BY <1>4, <2>3, <2>4 DEF RecordResolution, UpsertResolution, TypeOK
<1>5. CASE LoadUnsettled(w)
    <2>1. m \in Matches
        BY <1>5, CallFields DEF LoadUnsettled
    <2>2. EvExitKind(m) \in ExitKinds
        BY DEF EvExitKind, ExitKinds
    <2>3. call' \in [Workers -> Calls]
        BY <1>5, <2>1, <2>2, CallsOfMatch, AwaitType
        DEF LoadUnsettled, TrackNames
    <2> QED BY <1>5, <2>3 DEF LoadUnsettled, TypeOK, ledger
<1>6. CASE RecordTrackResult(w)
    <2>1. m \in Matches /\ c.track \in TrackNames
        BY <1>6, CallFields DEF RecordTrackResult,
        AfterTrack
    <2>2. tracks' \in [Matches -> [TrackNames -> ExitKinds \cup {"absent"}]]
        BY <1>6, CallFields DEF RecordTrackResult, TypeOK,
        AfterTrack
    <2>3. PICK next : next \in Calls /\ Await(w, next)
        BY <1>6, <2>1, CallsOfMatch
        DEF RecordTrackResult, TrackNames, ExitKinds, PositionStatus,
        AfterTrack
    <2>4. call' \in [Workers -> Calls]
        BY <2>3, AwaitType
    <2> QED BY <1>6, <2>2, <2>4 DEF RecordTrackResult, TypeOK,
        AfterTrack
<1>7. CASE PublishMarker(w)
    <2>1. m \in Matches /\ c.state \in Markers
        BY <1>7, CallFields DEF PublishMarker
    <2>2. call' \in [Workers -> Calls]
        BY <1>7, <2>1, CallsOfMatch, AwaitType DEF PublishMarker, PositionStatus
    <2> QED BY <1>7, <2>1, <2>2 DEF PublishMarker, TypeOK, ledger
<1>8. CASE PublishBlocked(w)
    <2>1. m \in Matches
        BY <1>8, CallFields DEF PublishBlocked
    <2>2. call' \in [Workers -> Calls]
        BY <1>8, <2>1, CallsOfMatch, AwaitType DEF PublishBlocked
    <2> QED BY <1>8, <2>1, <2>2 DEF PublishBlocked, TypeOK, ledger
<1> QED BY <1>1, <1>2, <1>3, <1>4, <1>5, <1>6, <1>7, <1>8 DEF Commit

LEMMA TypeNext == ConstantsAssumption /\ TypeOK /\ [Next]_vars => TypeOK'
<1> SUFFICES ASSUME ConstantsAssumption, TypeOK, [Next]_vars
             PROVE  TypeOK'
    OBVIOUS
<1>1. CASE \E w \in Workers, m \in Matches : Begin(w, m)
    BY <1>1, TypeBegin
<1>2. CASE \E w \in Workers : Commit(w)
    BY <1>2, TypeCommit
<1>3. CASE Tick
    BY <1>3 DEF Tick, TypeOK, ledger
<1>4. CASE \E w \in Workers : Interrupt(w) \/ Restart(w)
    <2> PICK w \in Workers : Interrupt(w) \/ Restart(w)
        BY <1>4
    <2>1. Down \in Calls /\ Idle \in Calls
        BY DEF Down, Idle, Calls
    <2>2. call' \in [Workers -> Calls]
        BY <2>1, AwaitType DEF Interrupt, Restart
    <2> QED BY <2>2 DEF Interrupt, Restart, TypeOK, ledger
<1>5. CASE UNCHANGED vars
    BY <1>5 DEF vars, TypeOK
<1> QED BY <1>1, <1>2, <1>3, <1>4, <1>5 DEF Next, Work

\* The ledger's rows, the markers and the awaited calls always have the
\* shape the models of backend/app/paper/models.py give them.
THEOREM TypeCorrect == Spec => []TypeOK
BY TypeInit, TypeNext, ConstantsAssumption, PTL DEF Spec

-----------------------------------------------------------------------------
(* The inductive invariant for any number of workers *)

\* record_fill writes the fill row and the intent's status together.
RowsAgree ==
    \A m \in Matches, s \in Sides :
        /\ fill[m][s].kind = "absent" <=>
               intent[m][s].status \in {"absent", "PENDING"}
        /\ fill[m][s].kind = "filled" <=> intent[m][s].status = "FILLED"
        /\ fill[m][s].kind = "no_fill" <=> intent[m][s].status = "NO_FILL"

\* A record_fill on its way judges a known intent inside its window.
FillCallInWindow(w) ==
    call[w].op = "record_fill" =>
        LET c == call[w]
            i == intent[c.match][c.side]
        IN  /\ i.status # "absent"
            /\ c.at >= DueAt(i)
            /\ c.outcome = "filled" => c.at <= ExpiresAt(i)

\* Settlement stores the tracks in order and the status last.
SettlementCallInOrder(w) ==
    LET c == call[w] IN
    /\ c.op = "record_track_result" =>
           /\ c.track # "EV_EXIT" => tracks[c.match]["EV_EXIT"] # "absent"
           /\ c.track = "CONVERGENCE_LOCK" =>
                  tracks[c.match]["HODL_BASELINE"] # "absent"
    /\ c.op = "update_position_status" /\ c.status = "SETTLED" =>
           \A t \in TrackNames : tracks[c.match][t] # "absent"

SharedInv ==
    /\ TypeOK
    /\ RowsAgree
    /\ \A w \in Workers : FillCallInWindow(w)
    /\ FillWithinWindow
    /\ \A w \in Workers : SettlementCallInOrder(w)
    /\ SettledHasTracks

\* Only the worker that steps changes its call.
LEMMA AwaitFrame ==
    ASSUME TypeOK, NEW w \in Workers, NEW next, Await(w, next)
    PROVE  /\ call'[w] = next
           /\ \A v \in Workers \ {w} : call'[v] = call[v]
BY DEF TypeOK, Await

\* The rows of an order after the outcome st of its fill, whose kind is k.
Decided(m, s, st, k, at) ==
    /\ intent'[m][s] = [status |-> st, created |-> intent[m][s].created,
                        delay |-> intent[m][s].delay]
    /\ fill'[m][s] = [kind |-> k, at |-> at]

\* The tables of intents and fills after record_fill, row by row: only the
\* order of the call changes, and only when it has no fill yet.
LEMMA RecordFillRows ==
    ASSUME TypeOK, NEW w \in Workers, RecordFill(w),
           NEW m \in Matches, NEW s \in Sides
    PROVE  \/ /\ fill'[m][s] = fill[m][s]
              /\ intent'[m][s] = intent[m][s]
              /\ m = call[w].match /\ s = call[w].side =>
                     fill[m][s].kind # "absent"
           \/ /\ m = call[w].match
              /\ s = call[w].side
              /\ fill[m][s].kind = "absent"
              /\ \/ /\ call[w].outcome = "filled"
                    /\ Decided(m, s, "FILLED", "filled", call[w].at)
                 \/ /\ call[w].outcome # "filled"
                    /\ Decided(m, s, "NO_FILL", "no_fill", call[w].at)
<1> DEFINE c == call[w]
<1>1. c.match \in Matches /\ c.side \in Sides
    BY CallFields DEF RecordFill,
        FirstFillWins, OpensPosition
<1>2. /\ fill \in [Matches -> [Sides -> FillRows]]
      /\ intent \in [Matches -> [Sides -> IntentRows]]
    BY DEF TypeOK
<1>3. ASSUME NEW st, NEW k, fill[c.match][c.side].kind = "absent",
             fill' = [fill EXCEPT ![c.match][c.side] =
                          [kind |-> k, at |-> c.at]],
             intent' = [intent EXCEPT ![c.match][c.side].status = st]
      PROVE  \/ /\ ~(m = c.match /\ s = c.side)
                /\ fill'[m][s] = fill[m][s]
                /\ intent'[m][s] = intent[m][s]
             \/ /\ m = c.match /\ s = c.side
                /\ Decided(m, s, st, k, c.at)
    <2>1. CASE m = c.match /\ s = c.side
        <3>1. /\ fill'[m][s] = [kind |-> k, at |-> c.at]
              /\ intent'[m][s] = [intent[m][s] EXCEPT !.status = st]
            BY <1>1, <1>2, <1>3, <2>1
        <3>2. [intent[m][s] EXCEPT !.status = st] =
                  [status |-> st, created |-> intent[m][s].created,
                   delay |-> intent[m][s].delay]
            BY <1>2 DEF IntentRows
        <3> QED BY <2>1, <3>1, <3>2 DEF Decided
    <2>2. CASE ~(m = c.match /\ s = c.side)
        BY <1>1, <1>2, <1>3, <2>2
    <2> QED BY <2>1, <2>2
<1>4. CASE fill[c.match][c.side].kind # "absent"
    BY <1>4 DEF RecordFill,
        FirstFillWins, OpensPosition
<1>5. CASE fill[c.match][c.side].kind = "absent" /\ c.outcome = "filled"
    BY <1>3, <1>5 DEF RecordFill,
        FirstFillWins, OpensPosition
<1>6. CASE fill[c.match][c.side].kind = "absent" /\ c.outcome # "filled"
    BY <1>3, <1>6 DEF RecordFill,
        FirstFillWins, OpensPosition
<1> QED BY <1>4, <1>5, <1>6

\* The table of intents after create_intent, row by row.
LEMMA CreateIntentRows ==
    ASSUME TypeOK, NEW w \in Workers, CreateIntent(w)
    PROVE  \A m \in Matches, s \in Sides :
               \/ intent'[m][s] = intent[m][s]
               \/ /\ m = call[w].match
                  /\ s = call[w].side
                  /\ intent[m][s].status = "absent"
                  /\ intent'[m][s] = [status |-> "PENDING",
                                      created |-> call[w].created,
                                      delay |-> call[w].delay]
BY CallFields DEF CreateIntent, TypeOK

\* No step of a call rewrites what the ledger holds.
LEMMA CommitWritesOnce ==
    ASSUME TypeOK, RowsAgree, NEW w \in Workers, Commit(w)
    PROVE  WritesOnce
<1>1. CASE CreateIntent(w)
    <2>1. UNCHANGED <<fill, tracks>>
        BY <1>1 DEF CreateIntent
    <2> QED BY <1>1, <2>1, CreateIntentRows DEF WritesOnce
<1>2. CASE RecordFill(w)
    <2>1. UNCHANGED tracks
        BY <1>2 DEF RecordFill,
        FirstFillWins, OpensPosition
    <2>2. ASSUME NEW m \in Matches, NEW s \in Sides
          PROVE  /\ intent[m][s].status # "absent" =>
                        /\ intent'[m][s].status # "absent"
                        /\ intent'[m][s].created = intent[m][s].created
                        /\ intent'[m][s].delay = intent[m][s].delay
                 /\ intent[m][s].status \in {"FILLED", "NO_FILL"} =>
                        intent'[m][s] = intent[m][s]
                 /\ fill[m][s].kind # "absent" => fill'[m][s] = fill[m][s]
        <3>1. CASE /\ fill'[m][s] = fill[m][s]
                   /\ intent'[m][s] = intent[m][s]
            BY <3>1
        <3>2. ASSUME NEW st \in {"FILLED", "NO_FILL"}, NEW k, NEW at,
                     Decided(m, s, st, k, at), fill[m][s].kind = "absent"
              PROVE  /\ intent'[m][s].status # "absent"
                     /\ intent'[m][s].created = intent[m][s].created
                     /\ intent'[m][s].delay = intent[m][s].delay
                     /\ intent[m][s].status \notin {"FILLED", "NO_FILL"}
            BY <3>2 DEF RowsAgree, Decided
        <3> QED BY <1>2, <3>1, <3>2, RecordFillRows
    <2> QED BY <2>1, <2>2 DEF WritesOnce
<1>3. CASE UpdatePositionStatus(w)
    BY <1>3 DEF UpdatePositionStatus, WritesOnce,
        MayMove
<1>4. CASE RecordResolution(w) \/ UpsertResolution(w)
    BY <1>4 DEF RecordResolution, UpsertResolution, WritesOnce
<1>5. CASE LoadUnsettled(w)
    BY <1>5 DEF LoadUnsettled, ledger, WritesOnce
<1>6. CASE RecordTrackResult(w)
    <2>1. UNCHANGED <<intent, fill>>
        BY <1>6 DEF RecordTrackResult,
        AfterTrack
    <2>2. \A m \in Matches, t \in TrackNames :
              tracks[m][t] # "absent" => tracks'[m][t] = tracks[m][t]
        BY <1>6, CallFields DEF RecordTrackResult, TypeOK,
        AfterTrack
    <2> QED BY <2>1, <2>2 DEF WritesOnce
<1>7. CASE PublishMarker(w)
    BY <1>7 DEF PublishMarker, ledger, WritesOnce
<1>8. CASE PublishBlocked(w)
    BY <1>8 DEF PublishBlocked, ledger, WritesOnce
<1> QED BY <1>1, <1>2, <1>3, <1>4, <1>5, <1>6, <1>7, <1>8 DEF Commit

\* No step of a call moves a position backwards.
LEMMA CommitMovesForward ==
    ASSUME TypeOK, NEW w \in Workers, Commit(w)
    PROVE  MovesForward
<1>1. CASE RecordFill(w)
    BY <1>1, CallFields
    DEF RecordFill, FirstFillWins, OpensPosition, TypeOK, MovesForward
<1>2. CASE UpdatePositionStatus(w)
    BY <1>2, CallFields DEF UpdatePositionStatus, MayMove, TypeOK, MovesForward
<1>3. CASE UNCHANGED position
    BY <1>3 DEF MovesForward
<1> QED BY <1>1, <1>2, <1>3
        DEF Commit, CreateIntent, RecordResolution, UpsertResolution,
            LoadUnsettled, RecordTrackResult, PublishMarker, PublishBlocked,
            ledger

\* Every other step leaves the ledger alone.
LEMMA OtherStepsKeepLedger ==
    ASSUME [Next]_vars
    PROVE  UNCHANGED ledger \/ \E w \in Workers : Commit(w)
BY DEF Next, Work, Begin, BeginEntry, BeginExit, ExecuteDueIntent,
       SettleMarket, Tick, Interrupt, Restart, vars, ledger

\* Hence no step rewrites or moves back what the ledger holds.
LEMMA StepWritesOnce ==
    ASSUME TypeOK, RowsAgree, [Next]_vars
    PROVE  WritesOnce /\ MovesForward
<1>1. CASE UNCHANGED ledger
    BY <1>1 DEF ledger, WritesOnce, MovesForward
<1>2. CASE \E w \in Workers : Commit(w)
    BY <1>2, CommitWritesOnce, CommitMovesForward
<1> QED BY <1>1, <1>2, OtherStepsKeepLedger

\* The invariant holds in the empty ledger.
LEMMA SharedInit == Init => SharedInv
<1> SUFFICES ASSUME Init PROVE SharedInv
    OBVIOUS
<1>1. TypeOK
    BY TypeInit
<1>2. RowsAgree /\ FillWithinWindow /\ SettledHasTracks
    BY DEF Init, RowsAgree, FillWithinWindow, SettledHasTracks, NoIntent, NoFill
<1>3. \A w \in Workers : FillCallInWindow(w) /\ SettlementCallInOrder(w)
    BY DEF Init, FillCallInWindow, SettlementCallInOrder, Idle
<1> QED BY <1>1, <1>2, <1>3 DEF SharedInv

\* The rows still agree after a step, and every fill is inside its window.
LEMMA RowsStep ==
    ASSUME SharedInv, [Next]_vars
    PROVE  RowsAgree' /\ FillWithinWindow'
<1>1. CASE UNCHANGED ledger
    BY <1>1 DEF SharedInv, ledger, RowsAgree, FillWithinWindow, DueAt, ExpiresAt
<1>2. ASSUME NEW w \in Workers, RecordFill(w)
      PROVE  RowsAgree' /\ FillWithinWindow'
    <2> DEFINE c == call[w]
    <2>1. SUFFICES ASSUME NEW m \in Matches, NEW s \in Sides
                   PROVE  /\ /\ fill'[m][s].kind = "absent" <=>
                                   intent'[m][s].status \in {"absent", "PENDING"}
                             /\ fill'[m][s].kind = "filled" <=>
                                   intent'[m][s].status = "FILLED"
                             /\ fill'[m][s].kind = "no_fill" <=>
                                   intent'[m][s].status = "NO_FILL"
                          /\ fill'[m][s].kind # "absent" =>
                                /\ fill'[m][s].at >= DueAt(intent'[m][s])
                                /\ fill'[m][s].kind = "filled" =>
                                   fill'[m][s].at <= ExpiresAt(intent'[m][s])
        BY DEF RowsAgree, FillWithinWindow, DueAt, ExpiresAt
    <2>2. CASE fill'[m][s] = fill[m][s] /\ intent'[m][s] = intent[m][s]
        BY <2>2 DEF SharedInv, RowsAgree, FillWithinWindow
    <2>3. ASSUME m = c.match, s = c.side
          PROVE  /\ c.at >= DueAt(intent[m][s])
                 /\ c.outcome = "filled" => c.at <= ExpiresAt(intent[m][s])
        BY <1>2, <2>3 DEF SharedInv, FillCallInWindow, RecordFill,
        FirstFillWins, OpensPosition
    <2>4. CASE /\ m = c.match /\ s = c.side /\ c.outcome = "filled"
               /\ Decided(m, s, "FILLED", "filled", c.at)
        BY <2>3, <2>4 DEF Decided, DueAt, ExpiresAt
    <2>5. CASE /\ m = c.match /\ s = c.side
               /\ Decided(m, s, "NO_FILL", "no_fill", c.at)
        BY <2>3, <2>5 DEF Decided, DueAt, ExpiresAt
    <2> QED BY <1>2, <2>2, <2>4, <2>5, RecordFillRows DEF SharedInv
<1>3. ASSUME NEW w \in Workers, CreateIntent(w)
      PROVE  RowsAgree' /\ FillWithinWindow'
    <2>1. fill' = fill
        BY <1>3 DEF CreateIntent
    <2>2. SUFFICES ASSUME NEW m \in Matches, NEW s \in Sides,
                          intent'[m][s] # intent[m][s]
                   PROVE  /\ fill[m][s].kind = "absent"
                          /\ intent'[m][s].status = "PENDING"
        BY <2>1 DEF SharedInv, RowsAgree, FillWithinWindow, DueAt, ExpiresAt
    <2>3. TypeOK
        BY DEF SharedInv
    <2>4. /\ intent[m][s].status = "absent"
          /\ intent'[m][s] = [status |-> "PENDING", created |-> call[w].created,
                              delay |-> call[w].delay]
        BY <1>3, <2>2, <2>3, CreateIntentRows
    <2> QED BY <2>4 DEF SharedInv, RowsAgree
<1>4. CASE UNCHANGED <<intent, fill>>
    BY <1>4 DEF SharedInv, RowsAgree, FillWithinWindow, DueAt, ExpiresAt
<1> QED BY <1>1, <1>2, <1>3, <1>4, OtherStepsKeepLedger
        DEF Commit, UpdatePositionStatus, RecordResolution, UpsertResolution, LoadUnsettled,
            RecordTrackResult, PublishMarker, PublishBlocked, ledger,
        MayMove, Downgrades, AfterTrack

\* A call that stays as it is keeps what it knows of the ledger.
LEMMA CallFrame ==
    ASSUME TypeOK, WritesOnce, MovesForward, NEW v \in Workers,
           call'[v] = call[v], FillCallInWindow(v), SettlementCallInOrder(v)
    PROVE  FillCallInWindow(v)' /\ SettlementCallInOrder(v)'
<1> DEFINE c == call[v]
<1>1. FillCallInWindow(v)'
    <2> SUFFICES ASSUME c.op = "record_fill"
                 PROVE  FillCallInWindow(v)'
        BY DEF FillCallInWindow
    <2>1. c.match \in Matches /\ c.side \in Sides
        BY CallFields
    <2>2. /\ intent'[c.match][c.side].status # "absent"
          /\ intent'[c.match][c.side].created = intent[c.match][c.side].created
          /\ intent'[c.match][c.side].delay = intent[c.match][c.side].delay
        BY <2>1 DEF FillCallInWindow, WritesOnce
    <2> QED BY <2>2 DEF FillCallInWindow, DueAt, ExpiresAt
<1>2. SettlementCallInOrder(v)'
    <2>1. c.op \in {"record_track_result", "update_position_status"} =>
              c.match \in Matches
        BY CallFields
    <2>2. ASSUME NEW m \in Matches, NEW t \in TrackNames
          PROVE  tracks[m][t] # "absent" => tracks'[m][t] # "absent"
        BY DEF WritesOnce
    <2>3. {"EV_EXIT", "HODL_BASELINE"} \subseteq TrackNames
        BY DEF TrackNames
    <2> QED BY <2>1, <2>2, <2>3 DEF SettlementCallInOrder
<1> QED BY <1>1, <1>2

\* A call a worker has just gone on to knows what it needs of the ledger.
LEMMA NewCall ==
    ASSUME SharedInv, NEW w \in Workers, ConstantsAssumption,
           \/ \E m \in Matches : Begin(w, m)
           \/ Commit(w)
           \/ Interrupt(w)
           \/ Restart(w)
    PROVE  FillCallInWindow(w)' /\ SettlementCallInOrder(w)'
<1> DEFINE c == call[w]
<1> USE DEF FillCallInWindow, SettlementCallInOrder
<1>0. TypeOK
    BY DEF SharedInv
<1>1. ASSUME NEW m \in Matches, BeginEntry(w, m) \/ BeginExit(w, m)
      PROVE  FillCallInWindow(w)' /\ SettlementCallInOrder(w)'
    <2>1. PICK s, d :
              Await(w, [op |-> "create_intent", match |-> m, side |-> s,
                        created |-> now, delay |-> d])
        BY <1>1 DEF BeginEntry, BeginExit
    <2>2. call'[w].op = "create_intent"
        BY <1>0, <2>1, AwaitFrame
    <2> QED BY <2>2
<1>2. ASSUME NEW m \in Matches, NEW s \in Sides, ExecuteDueIntent(w, m, s)
      PROVE  FillCallInWindow(w)' /\ SettlementCallInOrder(w)'
    <2>1. PICK o \in Outcomes(m, s) :
              call'[w] = [op |-> "record_fill", match |-> m, side |-> s,
                          outcome |-> o, at |-> now]
        BY <1>0, <1>2, AwaitFrame DEF ExecuteDueIntent
    <2>2. o = "filled" => now <= ExpiresAt(intent[m][s])
        <3>1. now \in Nat /\ ExpiresAt(intent[m][s]) \in Nat
            BY <1>0 DEF TypeOK, IntentRows, ExpiresAt, ConstantsAssumption
        <3> QED BY <2>1, <3>1 DEF Outcomes
    <2>3. intent' = intent
        BY <1>2 DEF ExecuteDueIntent, ledger
    <2>4. intent[m][s].status = "PENDING" /\ now >= DueAt(intent[m][s])
        BY <1>2 DEF ExecuteDueIntent
    <2> QED BY <2>1, <2>2, <2>3, <2>4 DEF DueAt, ExpiresAt
<1>3. ASSUME NEW m \in Matches, NEW status, NEW pays,
             SettleMarket(w, m, status, pays)
      PROVE  FillCallInWindow(w)' /\ SettlementCallInOrder(w)'
    <2>1. call'[w].op = "record_resolution"
        BY <1>0, <1>3, AwaitFrame DEF SettleMarket
    <2> QED BY <2>1
<1>4. CASE CreateIntent(w)
    <2>1. \/ call'[w].op = "publish"
          \/ /\ call'[w].op = "update_position_status"
             /\ call'[w].status = "EXIT_PENDING"
        BY <1>0, <1>4, AwaitFrame DEF CreateIntent, Publish, UpdatePosition
    <2> QED BY <2>1
<1>5. CASE RecordFill(w)
    <2>1. /\ c.side \in {"ENTRY", "EXIT"}
          /\ c.outcome \in {"filled", "no_fill", "position_missing"}
        BY <1>0, <1>5, CallFields DEF RecordFill, Sides,
        FirstFillWins, OpensPosition
    <2>2. \/ call'[w].op = "publish"
          \/ /\ call'[w].op = "update_position_status"
             /\ call'[w].status = "EXITED"
        <3>1. CASE c.outcome = "filled" /\ c.side = "EXIT"
            <4>1. Await(w, UpdatePosition(c.match, "EXITED"))
                BY <1>5, <3>1 DEF RecordFill,
        FirstFillWins, OpensPosition
            <4> QED BY <1>0, <4>1, AwaitFrame DEF UpdatePosition
        <3>2. CASE ~(c.outcome = "filled" /\ c.side = "EXIT")
            <4>1. PICK next : Await(w, next) /\ next.op = "publish"
                <5>1. CASE c.outcome = "no_fill" /\ c.side = "EXIT"
                    BY <1>5, <5>1 DEF RecordFill, PublishNoFill,
        FirstFillWins, OpensPosition
                <5>2. CASE /\ c.outcome # "filled"
                           /\ c.side = "ENTRY" \/ c.outcome # "no_fill"
                    BY <1>5, <2>1, <5>2 DEF RecordFill, PublishNoFill,
        FirstFillWins, OpensPosition
                <5>3. CASE c.outcome = "filled" /\ c.side = "ENTRY"
                    BY <1>5, <5>3 DEF RecordFill, Publish,
        FirstFillWins, OpensPosition
                <5> QED BY <2>1, <3>2, <5>1, <5>2, <5>3
            <4> QED BY <1>0, <4>1, AwaitFrame
        <3> QED BY <3>1, <3>2
    <2> QED BY <2>2
<1>6. CASE UpdatePositionStatus(w)
    <2>1. call'[w].op \in {"idle", "publish"}
        BY <1>0, <1>6, AwaitFrame DEF UpdatePositionStatus, Publish, Idle,
        MayMove
    <2> QED BY <2>1
<1>7. CASE RecordResolution(w) \/ UpsertResolution(w)
    <2>1. PICK next \in {Idle, Settle("upsert_resolution", c),
                         Settle("load_unsettled", c)} : Await(w, next)
        BY <1>7 DEF RecordResolution, UpsertResolution
    <2>2. call'[w].op \in {"idle", "upsert_resolution", "load_unsettled"}
        BY <1>0, <2>1, AwaitFrame DEF Idle, Settle
    <2> QED BY <2>2
<1>8. CASE LoadUnsettled(w)
    <2>1. PICK next \in {Idle, [op |-> "publish_blocked", match |-> c.match],
                         RecordTrack(c.match, "EV_EXIT", EvExitKind(c.match))} :
              Await(w, next)
        BY <1>8 DEF LoadUnsettled
    <2>2. call'[w] = next
        BY <1>0, <2>1, AwaitFrame
    <2>3. CASE next.op \in {"idle", "publish_blocked"}
        BY <2>2, <2>3
    <2>4. CASE next = RecordTrack(c.match, "EV_EXIT", EvExitKind(c.match))
        BY <2>2, <2>4 DEF RecordTrack
    <2> QED BY <2>1, <2>3, <2>4 DEF Idle
<1>9. CASE RecordTrackResult(w)
    <2>1. c.match \in Matches /\ c.track \in TrackNames /\ c.exitKind \in ExitKinds
        BY <1>0, <1>9, CallFields DEF RecordTrackResult,
        AfterTrack
    <2>2. /\ c.track # "EV_EXIT" => tracks[c.match]["EV_EXIT"] # "absent"
          /\ c.track = "CONVERGENCE_LOCK" =>
                 tracks[c.match]["HODL_BASELINE"] # "absent"
        BY <1>9 DEF RecordTrackResult, SharedInv,
        AfterTrack
    <2>3. /\ tracks'[c.match][c.track] # "absent"
          /\ \A t \in TrackNames : tracks[c.match][t] # "absent" =>
                 tracks'[c.match][t] # "absent"
        BY <1>0, <1>9, <2>1 DEF RecordTrackResult, TypeOK, ExitKinds,
        AfterTrack
    <2>4. {"EV_EXIT", "HODL_BASELINE"} \subseteq TrackNames
        BY DEF TrackNames
    <2>5. CASE c.track = "EV_EXIT"
        <3>1. call'[w] = RecordTrack(c.match, "HODL_BASELINE", "HELD")
            BY <1>0, <1>9, <2>5, AwaitFrame DEF RecordTrackResult,
        AfterTrack
        <3> QED BY <2>2, <2>3, <2>5, <3>1 DEF RecordTrack
    <2>6. CASE c.track = "HODL_BASELINE"
        <3>1. call'[w] = RecordTrack(c.match, "CONVERGENCE_LOCK",
                                     "HELD_TO_SETTLEMENT")
            BY <1>0, <1>9, <2>6, AwaitFrame DEF RecordTrackResult,
        AfterTrack
        <3> QED BY <2>2, <2>3, <2>4, <2>6, <3>1 DEF RecordTrack
    <2>7. CASE c.track = "CONVERGENCE_LOCK"
        <3>1. call'[w] = UpdatePosition(c.match, "SETTLED")
            BY <1>0, <1>9, <2>7, AwaitFrame DEF RecordTrackResult,
        AfterTrack
        <3>2. \A t \in TrackNames : tracks'[c.match][t] # "absent"
            BY <2>2, <2>3, <2>7 DEF TrackNames
        <3> QED BY <2>2, <3>1, <3>2 DEF UpdatePosition
    <2> QED BY <2>1, <2>5, <2>6, <2>7 DEF TrackNames
<1>10. CASE PublishMarker(w)
    <2>1. \/ call'[w] = Idle
          \/ call'[w] = UpdatePosition(c.match, "EXIT_MISSED")
        BY <1>0, <1>10, AwaitFrame DEF PublishMarker
    <2> QED BY <2>1 DEF Idle, UpdatePosition
<1>11. CASE PublishBlocked(w) \/ Interrupt(w) \/ Restart(w)
    <2>1. call'[w] \in {Idle, Down}
        BY <1>0, <1>11, AwaitFrame DEF PublishBlocked, Interrupt, Restart
    <2> QED BY <2>1 DEF Idle, Down
<1> QED BY <1>1, <1>2, <1>3, <1>4, <1>5, <1>6, <1>7, <1>8, <1>9, <1>10, <1>11
        DEF Begin, Commit

\* A step either is one worker's, and the others wait, or changes no call.
LEMMA StepOfOneWorker ==
    ASSUME TypeOK, [Next]_vars
    PROVE  \/ UNCHANGED call
           \/ \E w \in Workers :
                 /\ \A v \in Workers \ {w} : call'[v] = call[v]
                 /\ \/ \E m \in Matches : Begin(w, m)
                    \/ Commit(w)
                    \/ Interrupt(w)
                    \/ Restart(w)
<1>1. ASSUME NEW w \in Workers,
             \/ \E m \in Matches : Begin(w, m)
             \/ Commit(w)
             \/ Interrupt(w)
             \/ Restart(w)
      PROVE  \A v \in Workers \ {w} : call'[v] = call[v]
    <2> SUFFICES \E next : Await(w, next)
        BY AwaitFrame
    <2>1. ASSUME NEW m \in Matches, Begin(w, m)
          PROVE  \E next : Await(w, next)
        BY <2>1 DEF Begin, BeginEntry, BeginExit, ExecuteDueIntent, SettleMarket
    <2>2. CASE Commit(w)
        BY <2>2 DEF Commit, CreateIntent, RecordFill, UpdatePositionStatus,
                    RecordResolution, UpsertResolution, LoadUnsettled, RecordTrackResult,
                    PublishMarker, PublishBlocked,
        FirstFillWins, OpensPosition, MayMove, Downgrades, AfterTrack
    <2> QED BY <1>1, <2>1, <2>2 DEF Interrupt, Restart
<1> QED BY <1>1 DEF Next, Work, Tick, vars

\* A position is settled only by a call that has all it needs.
LEMMA SettledStep ==
    ASSUME SharedInv, [Next]_vars, WritesOnce, MovesForward
    PROVE  SettledHasTracks'
<1> SUFFICES ASSUME NEW m \in Matches, position'[m] = "SETTLED"
             PROVE  \A t \in TrackNames : tracks'[m][t] # "absent"
    BY DEF SettledHasTracks
<1>1. CASE position[m] = "SETTLED"
    <2>1. \A t \in TrackNames : tracks[m][t] # "absent"
        BY <1>1 DEF SharedInv, SettledHasTracks
    <2> QED BY <2>1 DEF WritesOnce
<1>2. CASE position[m] # "SETTLED"
    <2>1. PICK w \in Workers : UpdatePositionStatus(w) \/ RecordFill(w)
        BY <1>2, OtherStepsKeepLedger
        DEF Commit, CreateIntent, RecordResolution, UpsertResolution,
            LoadUnsettled, RecordTrackResult, PublishMarker, PublishBlocked,
            ledger
    <2>2. ~RecordFill(w)
        BY <1>2 DEF RecordFill, FirstFillWins, OpensPosition, SharedInv, TypeOK
    <2>3. UNCHANGED tracks
        BY <2>1, <2>2 DEF UpdatePositionStatus, MayMove
    <2>4. /\ m = call[w].match
          /\ call[w].op = "update_position_status"
          /\ call[w].status = "SETTLED"
        BY <1>2, <2>1, <2>2
        DEF UpdatePositionStatus, MayMove, SharedInv, TypeOK
    <2> QED BY <2>3, <2>4 DEF SharedInv, SettlementCallInOrder
<1> QED BY <1>1, <1>2

\* Every step preserves the invariant.
LEMMA SharedNext == ConstantsAssumption /\ SharedInv /\ [Next]_vars => SharedInv'
<1> SUFFICES ASSUME ConstantsAssumption, SharedInv, [Next]_vars
             PROVE  SharedInv'
    OBVIOUS
<1>1. TypeOK /\ RowsAgree
    BY DEF SharedInv
<1>2. TypeOK'
    BY <1>1, TypeNext
<1>3. RowsAgree' /\ FillWithinWindow'
    BY RowsStep
<1>4. WritesOnce /\ MovesForward
    BY <1>1, StepWritesOnce
<1>5. SettledHasTracks'
    BY <1>4, SettledStep
<1>6. ASSUME NEW v \in Workers
      PROVE  FillCallInWindow(v)' /\ SettlementCallInOrder(v)'
    <2>1. CASE call'[v] = call[v]
        BY <1>1, <1>4, <2>1, CallFrame DEF SharedInv
    <2>2. CASE call'[v] # call[v]
        BY <1>1, <2>2, StepOfOneWorker, NewCall
    <2> QED BY <2>1, <2>2
<1> QED BY <1>2, <1>3, <1>5, <1>6 DEF SharedInv

\* The invariant holds of every run of the service.
LEMMA SharedInvariant == Spec => []SharedInv
BY SharedInit, SharedNext, ConstantsAssumption, PTL DEF Spec

\* A position is settled only with its three tracks committed, however many
\* workers run the service and die in it.
THEOREM SettlementHasTracks == Spec => []SettledHasTracks
<1>1. SharedInv => SettledHasTracks
    BY DEF SharedInv
<1> QED BY <1>1, SharedInvariant, PTL

\* No order is judged before its sports delay or filled after its expiry.
THEOREM OrdersFillInTheirWindow == Spec => []FillWithinWindow
<1>1. SharedInv => FillWithinWindow
    BY DEF SharedInv
<1> QED BY <1>1, SharedInvariant, PTL

\* Orders, fills and tracks are written once by any number of workers.
THEOREM WriteOnce == Spec => LedgerIsWriteOnce
<1>1. SharedInv /\ [Next]_vars => [WritesOnce]_vars
    BY StepWritesOnce DEF SharedInv
<1> QED BY <1>1, SharedInvariant, PTL DEF Spec, LedgerIsWriteOnce

\* Positions only move forward.
THEOREM Forward == Spec => ForwardOnly
<1>1. SharedInv /\ [Next]_vars => [MovesForward]_vars
    BY StepWritesOnce DEF SharedInv
<1> QED BY <1>1, SharedInvariant, PTL DEF Spec, ForwardOnly

-----------------------------------------------------------------------------
(* One worker.                                                             *)
(*                                                                         *)
(* The daemon arranges it so (RuntimeOwnership admits one owner of the     *)
(* runtime).  The worker may still be interrupted before any of its calls. *)

(* The inductive invariant *)

\* An exit order exists only for a position.
ExitNeedsPosition ==
    \A m \in Matches : intent[m]["EXIT"].status # "absent" =>
                           position[m] # "absent"

\* What the coroutine read before it awaited a call still holds when the call
\* commits: nobody else writes.
CallIsCurrent(w) ==
    LET c == call[w]
        m == c.match
    IN
    /\ c.op = "create_intent" /\ c.side = "EXIT" => position[m] # "absent"
    /\ c.op = "record_fill" => intent[m][c.side].status = "PENDING"
    /\ c.op = "update_position_status" =>
           /\ c.status = "EXIT_PENDING" => intent[m]["EXIT"].status # "absent"
           /\ c.status = "EXITED" => fill[m]["EXIT"].kind = "filled"
           /\ c.status = "EXIT_MISSED" => fill[m]["EXIT"].kind = "no_fill"
           /\ c.status = "SETTLED" => resolution[m] = "FINAL"
    /\ c.op = "upsert_resolution" => resolution[m] = "absent"
    /\ c.op = "load_unsettled" /\ c.status = "FINAL" => resolution[m] = "FINAL"
    /\ c.op = "record_track_result" => resolution[m] = "FINAL"
    /\ c.op = "record_track_result" /\ c.track = "EV_EXIT" =>
           /\ c.exitKind = "SOLD" => fill[m]["EXIT"].kind = "filled"
           /\ c.exitKind = "EXIT_MISSED" => fill[m]["EXIT"].kind = "no_fill"

\* What a marker says of the ledger.
Backed(m, state) ==
    /\ state = "entry_pending" => intent[m]["ENTRY"].status # "absent"
    /\ state = "filled" => position[m] # "absent"
    /\ state = "no_fill" => \E s \in Sides : fill[m][s].kind = "no_fill"
    /\ state = "exit_pending" => position[m] \notin {"absent", "OPEN"}
    /\ state = "exited" => position[m] \in {"EXITED", "SETTLED"}
    /\ state = "exit_missed" => position[m] \in {"EXIT_MISSED", "SETTLED"}
    /\ state = "settled" => position[m] = "SETTLED"

\* A publish on its way is backed by the ledger already.
PublishIsBacked(w) ==
    call[w].op = "publish" =>
        /\ Backed(call[w].match, call[w].state)
        /\ call[w].then = "record_exit_missed" =>
               fill[call[w].match]["EXIT"].kind = "no_fill"

\* What the rows of the ledger say of each other.
LedgerInv ==
    /\ PositionIffEntryFilled
    /\ ExitNeedsPosition
    /\ ExitStatusFollowsFill
    /\ EvTrackNeverInvents

CallInv == \A w \in Workers : CallIsCurrent(w) /\ PublishIsBacked(w)

SoleInv ==
    /\ SharedInv
    /\ LedgerInv
    /\ SettledIsFinal
    /\ MarkerBehindLedger
    /\ CallInv

-----------------------------------------------------------------------------
(* The ledger *)

\* The invariant holds in the empty ledger.
LEMMA SoleInit == Init => SoleInv
<1> SUFFICES ASSUME Init PROVE SoleInv
    OBVIOUS
<1>1. SharedInv
    BY SharedInit
<1>2. LedgerInv
    BY DEF Init, LedgerInv, PositionIffEntryFilled, ExitNeedsPosition,
           ExitStatusFollowsFill, EvTrackNeverInvents, NoIntent, NoFill, Sides,
           TrackNames
<1>3. MarkerBehindLedger /\ SettledIsFinal
    BY DEF Init, MarkerBehindLedger, SettledIsFinal
<1>4. CallInv
    BY DEF Init, CallInv, CallIsCurrent, PublishIsBacked, Idle
<1> QED BY <1>1, <1>2, <1>3, <1>4 DEF SoleInv

\* A marker that the ledger backs stays backed: the rows it speaks of are
\* written once and positions only move forward.
LEMMA BackedForEver ==
    ASSUME TypeOK, WritesOnce, MovesForward, NEW m \in Matches, NEW state,
           Backed(m, state)
    PROVE  Backed(m, state)'
<1>1. position[m] # "absent" => position'[m] # "absent"
    BY DEF MovesForward, POSITION_TRANSITIONS
<1>2. position[m] \notin {"absent", "OPEN"} =>
          position'[m] \notin {"absent", "OPEN"}
    BY DEF MovesForward, POSITION_TRANSITIONS
<1>3. \A x \in {"EXITED", "EXIT_MISSED"} :
          position[m] \in {x, "SETTLED"} => position'[m] \in {x, "SETTLED"}
    BY DEF MovesForward, POSITION_TRANSITIONS
<1>4. position[m] = "SETTLED" => position'[m] = "SETTLED"
    BY DEF MovesForward, POSITION_TRANSITIONS
<1>5. intent[m]["ENTRY"].status # "absent" =>
          intent'[m]["ENTRY"].status # "absent"
    BY DEF WritesOnce, Sides
<1>6. \A s \in Sides : fill[m][s].kind = "no_fill" =>
          fill'[m][s].kind = "no_fill"
    BY DEF WritesOnce
<1> QED BY <1>1, <1>2, <1>3, <1>4, <1>5, <1>6 DEF Backed

\* create_intent keeps the ledger consistent.
LEMMA CreateIntentKeeps ==
    ASSUME SoleInv, NEW w \in Workers, CreateIntent(w)
    PROVE  LedgerInv'
<1> USE DEF SoleInv, SharedInv
<1>1. UNCHANGED <<fill, position, tracks>>
    BY DEF CreateIntent
<1>2. ExitNeedsPosition'
    <2> SUFFICES ASSUME NEW m \in Matches, intent'[m]["EXIT"].status # "absent",
                        intent[m]["EXIT"].status = "absent"
                 PROVE  position[m] # "absent"
        BY <1>1 DEF LedgerInv, ExitNeedsPosition
    <2>1. m = call[w].match /\ call[w].side = "EXIT"
        BY CreateIntentRows DEF Sides
    <2> QED BY <2>1 DEF CallInv, CallIsCurrent, CreateIntent
<1>3. \A m \in Matches : intent[m]["EXIT"].status # "absent" =>
                             intent'[m]["EXIT"].status # "absent"
    BY CreateIntentRows DEF Sides
<1>4. PositionIffEntryFilled' /\ EvTrackNeverInvents'
    BY <1>1 DEF LedgerInv, PositionIffEntryFilled, EvTrackNeverInvents
<1>5. ExitStatusFollowsFill'
    BY <1>1, <1>3 DEF LedgerInv, ExitStatusFollowsFill
<1> QED BY <1>2, <1>4, <1>5 DEF LedgerInv

\* The order a record_fill decides is still pending: the call writes its rows.
LEMMA RecordFillDecides ==
    ASSUME SoleInv, NEW w \in Workers, RecordFill(w)
    PROVE  LET c == call[w] IN
           /\ c.match \in Matches
           /\ c.side \in Sides
           /\ c.outcome \in {"filled", "no_fill", "position_missing"}
           /\ fill[c.match][c.side].kind = "absent"
           /\ intent[c.match][c.side].status = "PENDING"
           /\ IF c.outcome = "filled"
              THEN /\ fill'[c.match][c.side].kind = "filled"
                   /\ intent'[c.match][c.side].status = "FILLED"
              ELSE /\ fill'[c.match][c.side].kind = "no_fill"
                   /\ intent'[c.match][c.side].status = "NO_FILL"
           /\ \A m \in Matches, s \in Sides : m # c.match \/ s # c.side =>
                  fill'[m][s] = fill[m][s] /\ intent'[m][s] = intent[m][s]
<1> DEFINE c == call[w]
<1>1. TypeOK
    BY DEF SoleInv, SharedInv
<1>2. /\ c.match \in Matches
      /\ c.side \in Sides
      /\ c.outcome \in {"filled", "no_fill", "position_missing"}
    BY <1>1, CallFields DEF RecordFill,
        FirstFillWins, OpensPosition
<1>3. intent[c.match][c.side].status = "PENDING"
    BY DEF SoleInv, CallInv, CallIsCurrent, RecordFill,
        FirstFillWins, OpensPosition
<1>4. fill[c.match][c.side].kind = "absent"
    BY <1>2, <1>3 DEF SoleInv, SharedInv, RowsAgree
<1>5. /\ c.outcome = "filled" =>
             Decided(c.match, c.side, "FILLED", "filled", c.at)
      /\ c.outcome # "filled" =>
             Decided(c.match, c.side, "NO_FILL", "no_fill", c.at)
    BY <1>1, <1>2, <1>4, RecordFillRows
<1>6. \A m \in Matches, s \in Sides : m # c.match \/ s # c.side =>
          fill'[m][s] = fill[m][s] /\ intent'[m][s] = intent[m][s]
    BY <1>1, RecordFillRows
<1>7. IF c.outcome = "filled"
      THEN /\ fill'[c.match][c.side].kind = "filled"
           /\ intent'[c.match][c.side].status = "FILLED"
      ELSE /\ fill'[c.match][c.side].kind = "no_fill"
           /\ intent'[c.match][c.side].status = "NO_FILL"
    BY <1>5 DEF Decided
<1> QED BY <1>2, <1>3, <1>4, <1>6, <1>7

\* record_fill opens the position of a filled entry and of nothing else.
LEMMA RecordFillOpens ==
    ASSUME SoleInv, NEW w \in Workers, RecordFill(w), NEW m \in Matches
    PROVE  IF m = call[w].match /\ call[w].side = "ENTRY"
              /\ call[w].outcome = "filled"
           THEN position[m] = "absent" /\ position'[m] = "OPEN"
           ELSE position'[m] = position[m]
<1>1. /\ call[w].match \in Matches
      /\ fill[call[w].match][call[w].side].kind = "absent"
    BY RecordFillDecides
<1>2. call[w].side = "ENTRY" => position[call[w].match] = "absent"
    BY <1>1 DEF SoleInv, LedgerInv, PositionIffEntryFilled
<1>3. position \in [Matches -> PositionStatus \cup {"absent"}]
    BY DEF SoleInv, SharedInv, TypeOK
<1> QED BY <1>1, <1>2, <1>3 DEF RecordFill,
        FirstFillWins, OpensPosition

\* record_fill keeps the ledger consistent.
LEMMA RecordFillKeeps ==
    ASSUME SoleInv, NEW w \in Workers, RecordFill(w)
    PROVE  LedgerInv'
<1> DEFINE c == call[w]
<1>1. SUFFICES ASSUME NEW m \in Matches
               PROVE  /\ position'[m] # "absent" <=>
                             fill'[m]["ENTRY"].kind = "filled"
                      /\ intent'[m]["EXIT"].status # "absent" =>
                             position'[m] # "absent"
                      /\ position'[m] = "EXIT_PENDING" =>
                             intent'[m]["EXIT"].status # "absent"
                      /\ position'[m] = "EXITED" =>
                             fill'[m]["EXIT"].kind = "filled"
                      /\ position'[m] = "EXIT_MISSED" =>
                             fill'[m]["EXIT"].kind = "no_fill"
                      /\ tracks'[m]["EV_EXIT"] = "SOLD" =>
                             fill'[m]["EXIT"].kind = "filled"
                      /\ tracks'[m]["EV_EXIT"] = "EXIT_MISSED" =>
                             fill'[m]["EXIT"].kind = "no_fill"
    BY DEF LedgerInv, PositionIffEntryFilled, ExitNeedsPosition,
           ExitStatusFollowsFill, EvTrackNeverInvents
<1>2. /\ position[m] # "absent" <=> fill[m]["ENTRY"].kind = "filled"
      /\ intent[m]["EXIT"].status # "absent" => position[m] # "absent"
      /\ position[m] = "EXIT_PENDING" => intent[m]["EXIT"].status # "absent"
      /\ position[m] = "EXITED" => fill[m]["EXIT"].kind = "filled"
      /\ position[m] = "EXIT_MISSED" => fill[m]["EXIT"].kind = "no_fill"
      /\ tracks[m]["EV_EXIT"] = "SOLD" => fill[m]["EXIT"].kind = "filled"
      /\ tracks[m]["EV_EXIT"] = "EXIT_MISSED" => fill[m]["EXIT"].kind = "no_fill"
    BY DEF SoleInv, LedgerInv, PositionIffEntryFilled, ExitNeedsPosition,
           ExitStatusFollowsFill, EvTrackNeverInvents
<1>3. tracks' = tracks
    BY DEF RecordFill,
        FirstFillWins, OpensPosition
<1>4. Sides = {"ENTRY", "EXIT"} /\ c.match \in Matches /\ c.side \in Sides
    BY RecordFillDecides DEF Sides
<1>5. CASE m = c.match /\ c.side = "ENTRY"
    <2>1. /\ fill'[m]["EXIT"] = fill[m]["EXIT"]
          /\ intent'[m]["EXIT"] = intent[m]["EXIT"]
        BY <1>4, <1>5, RecordFillDecides
    <2>2. fill[m]["ENTRY"].kind = "absent"
        BY <1>5, RecordFillDecides
    <2>3. fill'[m]["ENTRY"].kind =
              IF c.outcome = "filled" THEN "filled" ELSE "no_fill"
        BY <1>5, RecordFillDecides
    <2>4. position'[m] = IF c.outcome = "filled" THEN "OPEN" ELSE position[m]
        BY <1>5, RecordFillOpens
    <2> QED BY <1>2, <1>3, <2>1, <2>2, <2>3, <2>4
<1>6. CASE m = c.match /\ c.side = "EXIT"
    <2>1. fill'[m]["ENTRY"] = fill[m]["ENTRY"]
        BY <1>4, <1>6, RecordFillDecides
    <2>2. /\ fill[m]["EXIT"].kind = "absent"
          /\ intent[m]["EXIT"].status = "PENDING"
        BY <1>6, RecordFillDecides
    <2>3. intent'[m]["EXIT"].status # "absent"
        BY <1>6, RecordFillDecides
    <2>4. position'[m] = position[m]
        BY <1>6, RecordFillOpens
    <2> QED BY <1>2, <1>3, <2>1, <2>2, <2>3, <2>4
<1>7. CASE m # c.match
    <2>1. \A s \in Sides : fill'[m][s] = fill[m][s] /\ intent'[m][s] = intent[m][s]
        BY <1>7, RecordFillDecides
    <2>2. position'[m] = position[m]
        BY <1>7, RecordFillOpens
    <2> QED BY <1>2, <1>3, <1>4, <2>1, <2>2
<1> QED BY <1>4, <1>5, <1>6, <1>7

\* update_position_status keeps the ledger consistent.
LEMMA UpdatePositionKeeps ==
    ASSUME SoleInv, NEW w \in Workers, UpdatePositionStatus(w)
    PROVE  LedgerInv'
<1> DEFINE c == call[w]
<1>1. UNCHANGED <<intent, fill, tracks>>
    BY DEF UpdatePositionStatus,
        MayMove
<1>2. /\ c.match \in Matches
      /\ c.status \in PositionStatus \ {"OPEN"}
      /\ position \in [Matches -> PositionStatus \cup {"absent"}]
    BY CallFields DEF SoleInv, SharedInv, TypeOK, UpdatePositionStatus,
        MayMove
<1>3. /\ c.status = "EXIT_PENDING" => intent[c.match]["EXIT"].status # "absent"
      /\ c.status = "EXITED" => fill[c.match]["EXIT"].kind = "filled"
      /\ c.status = "EXIT_MISSED" => fill[c.match]["EXIT"].kind = "no_fill"
    BY DEF SoleInv, CallInv, CallIsCurrent, UpdatePositionStatus,
        MayMove
<1>4. ASSUME NEW m \in Matches
      PROVE  \/ position'[m] = position[m]
             \/ /\ m = c.match
                /\ position[m] # "absent"
                /\ position'[m] = c.status
                /\ position'[m] # "absent"
    BY <1>2 DEF UpdatePositionStatus, POSITION_TRANSITIONS, PositionStatus,
        MayMove
<1>5. PositionIffEntryFilled' /\ ExitNeedsPosition' /\ EvTrackNeverInvents'
    BY <1>1, <1>4 DEF SoleInv, LedgerInv, PositionIffEntryFilled,
                      ExitNeedsPosition, EvTrackNeverInvents
<1>6. ExitStatusFollowsFill'
    BY <1>1, <1>3, <1>4 DEF SoleInv, LedgerInv, ExitStatusFollowsFill
<1> QED BY <1>5, <1>6 DEF LedgerInv

\* record_track_result keeps the ledger consistent.
LEMMA RecordTrackKeeps ==
    ASSUME SoleInv, NEW w \in Workers, RecordTrackResult(w)
    PROVE  LedgerInv'
<1> DEFINE c == call[w]
<1>1. UNCHANGED <<intent, fill, position>>
    BY DEF RecordTrackResult,
        AfterTrack
<1>2. /\ c.match \in Matches
      /\ c.track \in TrackNames
      /\ tracks \in [Matches -> [TrackNames -> ExitKinds \cup {"absent"}]]
    BY CallFields DEF SoleInv, SharedInv, TypeOK, RecordTrackResult,
        AfterTrack
<1>3. c.track = "EV_EXIT" =>
          /\ c.exitKind = "SOLD" => fill[c.match]["EXIT"].kind = "filled"
          /\ c.exitKind = "EXIT_MISSED" => fill[c.match]["EXIT"].kind = "no_fill"
    BY DEF SoleInv, CallInv, CallIsCurrent, RecordTrackResult,
        AfterTrack
<1>4. ASSUME NEW m \in Matches
      PROVE  \/ tracks'[m]["EV_EXIT"] = tracks[m]["EV_EXIT"]
             \/ /\ m = c.match /\ c.track = "EV_EXIT"
                /\ tracks'[m]["EV_EXIT"] = c.exitKind
    BY <1>2 DEF RecordTrackResult, TrackNames,
        AfterTrack
<1>5. EvTrackNeverInvents'
    BY <1>1, <1>3, <1>4 DEF SoleInv, LedgerInv, EvTrackNeverInvents
<1>6. PositionIffEntryFilled' /\ ExitNeedsPosition' /\ ExitStatusFollowsFill'
    BY <1>1 DEF SoleInv, LedgerInv, PositionIffEntryFilled, ExitNeedsPosition,
                ExitStatusFollowsFill
<1> QED BY <1>5, <1>6 DEF LedgerInv

\* Every step keeps the ledger consistent.
LEMMA LedgerStep ==
    ASSUME SoleInv, [Next]_vars
    PROVE  LedgerInv'
<1>1. CASE UNCHANGED <<intent, fill, position, tracks>>
    BY <1>1 DEF SoleInv, LedgerInv, PositionIffEntryFilled, ExitNeedsPosition,
                ExitStatusFollowsFill, EvTrackNeverInvents
<1>2. CASE UNCHANGED ledger
    BY <1>1, <1>2 DEF ledger
<1>3. ASSUME NEW w \in Workers, Commit(w)
      PROVE  LedgerInv'
    BY <1>1, <1>3, CreateIntentKeeps, RecordFillKeeps, UpdatePositionKeeps,
       RecordTrackKeeps
    DEF Commit, RecordResolution, UpsertResolution, LoadUnsettled, PublishMarker, PublishBlocked,
        ledger,
        Downgrades
<1> QED BY <1>2, <1>3, OtherStepsKeepLedger
\* A final resolution stays final under the only worker: the upsert that
\* checks nothing runs only while there is no row.
LEMMA FinalStep ==
    ASSUME SoleInv, [Next]_vars
    PROVE  FinalStays
<1> SUFFICES ASSUME NEW m \in Matches, resolution[m] = "FINAL"
             PROVE  resolution'[m] = "FINAL"
    BY DEF FinalStays
<1>0. TypeOK
    BY DEF SoleInv, SharedInv
<1>1. ASSUME NEW w \in Workers, RecordResolution(w)
      PROVE  resolution'[m] = "FINAL"
    BY <1>0, <1>1, CallFields DEF RecordResolution, Downgrades, TypeOK
<1>2. ASSUME NEW w \in Workers, UpsertResolution(w)
      PROVE  resolution'[m] = "FINAL"
    <2>1. resolution[call[w].match] = "absent"
        BY <1>2 DEF SoleInv, CallInv, CallIsCurrent, UpsertResolution
    <2> QED BY <1>0, <1>2, <2>1, CallFields DEF UpsertResolution, TypeOK
<1>3. CASE UNCHANGED resolution
    BY <1>3
<1> QED BY <1>1, <1>2, <1>3, OtherStepsKeepLedger
        DEF Commit, CreateIntent, RecordFill, UpdatePositionStatus,
            LoadUnsettled, RecordTrackResult, PublishMarker, PublishBlocked,
            ledger

\* A position is settled by a call that follows a final resolution.
LEMMA SettledFinalStep ==
    ASSUME SoleInv, [Next]_vars
    PROVE  SettledIsFinal'
<1> SUFFICES ASSUME NEW m \in Matches, position'[m] = "SETTLED"
             PROVE  resolution'[m] = "FINAL"
    BY DEF SettledIsFinal
<1>1. resolution[m] = "FINAL" => resolution'[m] = "FINAL"
    BY FinalStep DEF FinalStays
<1>2. CASE position[m] = "SETTLED"
    BY <1>1, <1>2 DEF SoleInv, SettledIsFinal
<1>3. CASE position[m] # "SETTLED"
    <2>1. PICK w \in Workers : UpdatePositionStatus(w) \/ RecordFill(w)
        BY <1>3, OtherStepsKeepLedger
        DEF Commit, CreateIntent, RecordResolution, UpsertResolution,
            LoadUnsettled, RecordTrackResult, PublishMarker, PublishBlocked,
            ledger
    <2>2. ~RecordFill(w)
        BY <1>3, RecordFillOpens
    <2>3. /\ m = call[w].match
          /\ call[w].op = "update_position_status"
          /\ call[w].status = "SETTLED"
        BY <1>3, <2>1, <2>2
        DEF UpdatePositionStatus, MayMove, SoleInv, SharedInv, TypeOK
    <2> QED BY <1>1, <2>3 DEF SoleInv, CallInv, CallIsCurrent
<1> QED BY <1>2, <1>3

-----------------------------------------------------------------------------
(* The markers and the calls *)

\* Every step leaves the markers behind the ledger.
LEMMA MarkerStep ==
    ASSUME SoleInv, [Next]_vars
    PROVE  MarkerBehindLedger'
<1>1. TypeOK /\ WritesOnce /\ MovesForward
    BY StepWritesOnce DEF SoleInv, SharedInv
<1>2. \A m \in Matches : Backed(m, marker[m])
    BY DEF SoleInv, MarkerBehindLedger, Backed
<1>3. ASSUME NEW m \in Matches
      PROVE  \/ marker'[m] = marker[m]
             \/ \E w \in Workers :
                    /\ call[w].op = "publish"
                    /\ call[w].match = m
                    /\ marker'[m] = call[w].state
    <2>1. CASE \E w \in Workers : PublishMarker(w)
        BY <1>1, <2>1 DEF PublishMarker, TypeOK
    <2>2. CASE UNCHANGED marker
        BY <2>2
    <2> QED BY <2>1, <2>2
            DEF Next, Work, Begin, BeginEntry, BeginExit, ExecuteDueIntent,
                SettleMarket, Tick, Interrupt, Restart, vars, Commit,
                CreateIntent, RecordFill, UpdatePositionStatus,
                RecordResolution, UpsertResolution, LoadUnsettled, RecordTrackResult,
                PublishBlocked,
        FirstFillWins, OpensPosition, MayMove, Downgrades, AfterTrack
<1>4. \A m \in Matches : Backed(m, marker'[m])
    BY <1>2, <1>3 DEF SoleInv, CallInv, PublishIsBacked
<1>5. ASSUME NEW m \in Matches, NEW st, st = marker'[m]
      PROVE  Backed(m, st)'
    BY <1>1, <1>4, <1>5, BackedForEver
<1> QED BY <1>5 DEF MarkerBehindLedger, Backed

\* A call a worker has just gone on to is current and its publish backed.
LEMMA NewSoleCall ==
    ASSUME SoleInv, LedgerInv', NEW w \in Workers,
           \/ \E m \in Matches : Begin(w, m)
           \/ Commit(w)
           \/ Interrupt(w)
           \/ Restart(w)
    PROVE  CallIsCurrent(w)' /\ PublishIsBacked(w)'
<1> DEFINE c == call[w]
<1> USE DEF CallIsCurrent, PublishIsBacked
<1>0. TypeOK
    BY DEF SoleInv, SharedInv
<1>1. ASSUME NEW m \in Matches, BeginEntry(w, m) \/ BeginExit(w, m)
      PROVE  CallIsCurrent(w)' /\ PublishIsBacked(w)'
    <2>1. PICK s \in {"ENTRY", "EXIT"}, d \in Delays :
              /\ Await(w, [op |-> "create_intent", match |-> m, side |-> s,
                           created |-> now, delay |-> d])
              /\ s = "EXIT" => position[m] # "absent"
        BY <1>1 DEF BeginEntry, BeginExit
    <2>2. call'[w] = [op |-> "create_intent", match |-> m, side |-> s,
                      created |-> now, delay |-> d]
        BY <1>0, <2>1, AwaitFrame
    <2>3. position' = position
        BY <1>1 DEF BeginEntry, BeginExit, ledger
    <2> QED BY <2>1, <2>2, <2>3
<1>2. ASSUME NEW m \in Matches, NEW s \in Sides, ExecuteDueIntent(w, m, s)
      PROVE  CallIsCurrent(w)' /\ PublishIsBacked(w)'
    <2>1. PICK o :
              call'[w] = [op |-> "record_fill", match |-> m, side |-> s,
                          outcome |-> o, at |-> now]
        BY <1>0, <1>2, AwaitFrame DEF ExecuteDueIntent
    <2>2. intent'[m][s].status = "PENDING"
        BY <1>2 DEF ExecuteDueIntent, ledger
    <2> QED BY <2>1, <2>2
<1>3. ASSUME NEW m \in Matches, NEW status, NEW pays,
             SettleMarket(w, m, status, pays)
      PROVE  CallIsCurrent(w)' /\ PublishIsBacked(w)'
    <2>1. call'[w].op = "record_resolution"
        BY <1>0, <1>3, AwaitFrame DEF SettleMarket
    <2> QED BY <2>1
<1>4. CASE CreateIntent(w)
    <2>1. c.match \in Matches /\ c.side \in Sides
        BY <1>0, <1>4, CallFields DEF CreateIntent
    <2>2. intent'[c.match][c.side].status # "absent"
        BY <1>0, <1>4, <2>1 DEF CreateIntent, TypeOK
    <2>3. CASE c.side = "ENTRY"
        <3>1. call'[w] = Publish(c.match, "entry_pending")
            BY <1>0, <1>4, <2>3, AwaitFrame DEF CreateIntent
        <3> QED BY <2>2, <2>3, <3>1 DEF Publish, Backed
    <2>4. CASE c.side = "EXIT"
        <3>1. call'[w] = UpdatePosition(c.match, "EXIT_PENDING")
            BY <1>0, <1>4, <2>4, AwaitFrame DEF CreateIntent
        <3> QED BY <2>2, <2>4, <3>1 DEF UpdatePosition
    <2> QED BY <2>1, <2>3, <2>4 DEF Sides
<1>5. CASE RecordFill(w)
    <2>1. /\ c.match \in Matches
          /\ c.side \in {"ENTRY", "EXIT"}
          /\ c.outcome \in {"filled", "no_fill", "position_missing"}
          /\ c.outcome = "filled" => fill'[c.match][c.side].kind = "filled"
          /\ c.outcome # "filled" => fill'[c.match][c.side].kind = "no_fill"
        BY <1>5, RecordFillDecides DEF Sides
    <2>2. CASE c.outcome = "no_fill" /\ c.side = "EXIT"
        <3>1. Await(w, PublishNoFill(c.match, "record_exit_missed"))
            BY <1>5, <2>2 DEF RecordFill,
        FirstFillWins, OpensPosition
        <3>2. call'[w] = PublishNoFill(c.match, "record_exit_missed")
            BY <1>0, <3>1, AwaitFrame
        <3>3. \E s \in Sides : fill'[c.match][s].kind = "no_fill"
            BY <2>1, <2>2 DEF Sides
        <3> QED BY <2>1, <2>2, <3>2, <3>3 DEF PublishNoFill, Backed
    <2>3. CASE /\ c.outcome # "filled"
               /\ c.side = "ENTRY" \/ c.outcome # "no_fill"
        <3>1. Await(w, PublishNoFill(c.match, "return"))
            BY <1>5, <2>1, <2>3 DEF RecordFill,
        FirstFillWins, OpensPosition
        <3>2. call'[w] = PublishNoFill(c.match, "return")
            BY <1>0, <3>1, AwaitFrame
        <3>3. \E s \in Sides : fill'[c.match][s].kind = "no_fill"
            BY <2>1, <2>3 DEF Sides
        <3> QED BY <3>2, <3>3 DEF PublishNoFill, Backed
    <2>4. CASE c.outcome = "filled" /\ c.side = "ENTRY"
        <3>1. Await(w, Publish(c.match, "filled"))
            BY <1>5, <2>4 DEF RecordFill,
        FirstFillWins, OpensPosition
        <3>2. call'[w] = Publish(c.match, "filled")
            BY <1>0, <3>1, AwaitFrame
        <3>3. position'[c.match] = "OPEN"
            BY <1>5, <2>1, <2>4, RecordFillOpens
        <3> QED BY <3>2, <3>3 DEF Publish, Backed
    <2>5. CASE c.outcome = "filled" /\ c.side = "EXIT"
        <3>1. Await(w, UpdatePosition(c.match, "EXITED"))
            BY <1>5, <2>5 DEF RecordFill,
        FirstFillWins, OpensPosition
        <3>2. call'[w] = UpdatePosition(c.match, "EXITED")
            BY <1>0, <3>1, AwaitFrame
        <3> QED BY <2>1, <2>5, <3>2 DEF UpdatePosition
    <2> QED BY <2>1, <2>2, <2>3, <2>4, <2>5
<1>6. CASE UpdatePositionStatus(w)
    <2>1. /\ c.match \in Matches
          /\ c.status \in {"EXIT_PENDING", "EXITED", "EXIT_MISSED", "SETTLED"}
        BY <1>0, <1>6, CallFields DEF UpdatePositionStatus, PositionStatus,
        MayMove
    <2>2. CASE call'[w] = Idle
        BY <2>2 DEF Idle
    <2>3. CASE /\ position' = [position EXCEPT ![c.match] = c.status]
               /\ call'[w] = Publish(c.match, StatusMarker[c.status])
        <3>1. position'[c.match] = c.status
            BY <1>0, <2>1, <2>3 DEF TypeOK
        <3> QED BY <2>1, <2>3, <3>1 DEF Publish, Backed, StatusMarker
    <2>4. \/ Await(w, Idle)
          \/ /\ position' = [position EXCEPT ![c.match] = c.status]
             /\ Await(w, Publish(c.match, StatusMarker[c.status]))
        BY <1>6 DEF UpdatePositionStatus,
        MayMove
    <2> QED BY <1>0, <2>2, <2>3, <2>4, AwaitFrame
<1>7. CASE RecordResolution(w) \/ UpsertResolution(w)
    <2>1. c.match \in Matches
        BY <1>0, <1>7, CallFields DEF RecordResolution, UpsertResolution
    <2>2. \/ Await(w, Idle)
          \/ /\ Await(w, Settle("upsert_resolution", c))
             /\ resolution[c.match] = "absent"
             /\ UNCHANGED resolution
          \/ /\ Await(w, Settle("load_unsettled", c))
             /\ resolution' = [resolution EXCEPT ![c.match] = c.status]
        BY <1>7 DEF RecordResolution, UpsertResolution
    <2>3. CASE call'[w] = Idle
        BY <2>3 DEF Idle
    <2>4. CASE /\ call'[w] = Settle("upsert_resolution", c)
               /\ resolution'[c.match] = "absent"
        BY <2>4 DEF Settle
    <2>5. CASE /\ call'[w] = Settle("load_unsettled", c)
               /\ resolution'[c.match] = c.status
        BY <2>5 DEF Settle
    <2> QED BY <1>0, <2>1, <2>2, <2>3, <2>4, <2>5, AwaitFrame DEF TypeOK
<1>8. CASE LoadUnsettled(w)
    <2>1. /\ UNCHANGED <<fill, position, resolution>>
          /\ c.match \in Matches
          /\ c.status = "FINAL" => resolution[c.match] = "FINAL"
        BY <1>0, <1>8, CallFields
        DEF LoadUnsettled, ledger, SoleInv, CallInv, CallIsCurrent
    <2>2. \/ Await(w, Idle)
          \/ Await(w, [op |-> "publish_blocked", match |-> c.match])
          \/ /\ Await(w, RecordTrack(c.match, "EV_EXIT", EvExitKind(c.match)))
             /\ c.status = "FINAL"
        BY <1>8 DEF LoadUnsettled
    <2>3. CASE call'[w].op \in {"idle", "publish_blocked"}
        BY <2>3
    <2>4. CASE /\ call'[w] = RecordTrack(c.match, "EV_EXIT", EvExitKind(c.match))
               /\ c.status = "FINAL"
        <3>1. /\ EvExitKind(c.match) = "SOLD" =>
                     fill[c.match]["EXIT"].kind = "filled"
              /\ EvExitKind(c.match) = "EXIT_MISSED" =>
                     position[c.match] = "EXIT_MISSED"
            BY DEF EvExitKind
        <3>2. EvExitKind(c.match) = "EXIT_MISSED" =>
                  fill[c.match]["EXIT"].kind = "no_fill"
            BY <2>1, <3>1 DEF SoleInv, LedgerInv, ExitStatusFollowsFill
        <3> QED BY <2>1, <2>4, <3>1, <3>2 DEF RecordTrack
    <2> QED BY <1>0, <2>2, <2>3, <2>4, AwaitFrame DEF Idle
<1>9. CASE RecordTrackResult(w)
    <2>1. /\ c.track \in TrackNames
          /\ resolution'[c.match] = "FINAL"
        BY <1>0, <1>9, CallFields
        DEF RecordTrackResult, SoleInv, CallInv, CallIsCurrent
    <2>2. \/ \E t \in TrackNames \ {"EV_EXIT"}, kind \in ExitKinds :
                 Await(w, RecordTrack(c.match, t, kind))
          \/ Await(w, UpdatePosition(c.match, "SETTLED"))
        BY <1>9, <2>1 DEF RecordTrackResult, AfterTrack, TrackNames, ExitKinds
    <2>3. CASE \E t \in TrackNames \ {"EV_EXIT"}, kind \in ExitKinds :
                   Await(w, RecordTrack(c.match, t, kind))
        BY <1>0, <2>1, <2>3, AwaitFrame DEF RecordTrack
    <2>4. CASE Await(w, UpdatePosition(c.match, "SETTLED"))
        BY <1>0, <2>1, <2>4, AwaitFrame DEF UpdatePosition
    <2> QED BY <2>2, <2>3, <2>4
<1>10. CASE PublishMarker(w)
    <2>1. c.then = "record_exit_missed" =>
              fill[c.match]["EXIT"].kind = "no_fill"
        BY <1>10 DEF SoleInv, CallInv, PublishMarker
    <2>2. fill' = fill
        BY <1>10 DEF PublishMarker, ledger
    <2>3. \/ call'[w] = Idle
          \/ /\ call'[w] = UpdatePosition(c.match, "EXIT_MISSED")
             /\ c.then = "record_exit_missed"
        BY <1>0, <1>10, AwaitFrame DEF PublishMarker
    <2> QED BY <2>1, <2>2, <2>3 DEF Idle, UpdatePosition
<1>11. CASE PublishBlocked(w) \/ Interrupt(w) \/ Restart(w)
    <2>1. call'[w] \in {Idle, Down}
        BY <1>0, <1>11, AwaitFrame DEF PublishBlocked, Interrupt, Restart
    <2> QED BY <2>1 DEF Idle, Down
<1> QED BY <1>1, <1>2, <1>3, <1>4, <1>5, <1>6, <1>7, <1>8, <1>9, <1>10, <1>11
        DEF Begin, Commit

\* Between its steps nothing changes under the only worker.
LEMMA SoleWorkerWaits ==
    ASSUME NEW w0, Workers = {w0}, TypeOK, [Next]_vars
    PROVE  \/ UNCHANGED <<ledger, call>>
           \/ \E m \in Matches : Begin(w0, m)
           \/ Commit(w0)
           \/ Interrupt(w0)
           \/ Restart(w0)
BY DEF Next, Work, Tick, vars, ledger

\* Every step of the only worker preserves the invariant.
LEMMA SoleNext ==
    ASSUME NEW w0, Workers = {w0}, ConstantsAssumption, SoleInv, [Next]_vars
    PROVE  SoleInv'
<1>1. SharedInv'
    BY SharedNext DEF SoleInv
<1>2. LedgerInv'
    BY LedgerStep
<1>3. MarkerBehindLedger' /\ SettledIsFinal'
    BY MarkerStep, SettledFinalStep
<1>4. CallIsCurrent(w0)' /\ PublishIsBacked(w0)'
    <2>1. CASE UNCHANGED <<ledger, call>>
        BY <2>1 DEF SoleInv, CallInv, CallIsCurrent, PublishIsBacked, Backed,
                    ledger
    <2>2. TypeOK
        BY DEF SoleInv, SharedInv
    <2> QED BY <1>2, <2>1, <2>2, SoleWorkerWaits, NewSoleCall
<1> QED BY <1>1, <1>2, <1>3, <1>4 DEF SoleInv, CallInv

\* The invariant holds of every run of the only worker.
LEMMA SoleInvariant ==
    ASSUME NEW w0, Workers = {w0}
    PROVE  Spec => []SoleInv
BY SoleInit, SoleNext, ConstantsAssumption, PTL DEF Spec

\* A match holds a position exactly when its entry order was filled, however
\* often the only worker is interrupted between its transactions.
THEOREM SolePositions ==
    ASSUME NEW w0, Workers = {w0}
    PROVE  Spec => []PositionIffEntryFilled
<1>1. SoleInv => PositionIffEntryFilled
    BY DEF SoleInv, LedgerInv
<1> QED BY <1>1, SoleInvariant, PTL

\* The status of an exited position is what its one exit order came to.
THEOREM SoleExitStatus ==
    ASSUME NEW w0, Workers = {w0}
    PROVE  Spec => []ExitStatusFollowsFill
<1>1. SoleInv => ExitStatusFollowsFill
    BY DEF SoleInv, LedgerInv
<1> QED BY <1>1, SoleInvariant, PTL

\* The EV track of a settlement never invents an exit.
THEOREM SoleEvTrack ==
    ASSUME NEW w0, Workers = {w0}
    PROVE  Spec => []EvTrackNeverInvents
<1>1. SoleInv => EvTrackNeverInvents
    BY DEF SoleInv, LedgerInv
<1> QED BY <1>1, SoleInvariant, PTL

\* A settled position's final resolution is still stored.
THEOREM SoleSettlement ==
    ASSUME NEW w0, Workers = {w0}
    PROVE  Spec => []SettledIsFinal
<1>1. SoleInv => SettledIsFinal
    BY DEF SoleInv
<1> QED BY <1>1, SoleInvariant, PTL

\* A final resolution never downgrades under the only worker.
THEOREM SoleFinalIsTerminal ==
    ASSUME NEW w0, Workers = {w0}
    PROVE  Spec => FinalIsTerminal
<1>1. SoleInv /\ [Next]_vars => [FinalStays]_vars
    BY FinalStep
<1> QED BY <1>1, SoleInvariant, PTL DEF Spec, FinalIsTerminal

\* What Redis shows was committed before it was published.
THEOREM SoleMarkers ==
    ASSUME NEW w0, Workers = {w0}
    PROVE  Spec => []MarkerBehindLedger
<1>1. SoleInv => MarkerBehindLedger
    BY DEF SoleInv
<1> QED BY <1>1, SoleInvariant, PTL

-----------------------------------------------------------------------------
(* The refinement: the service run by one worker implements the contract of *)
(* the one-shot state machine, for every set of matches; the rows of a      *)
(* match, read through lifecycle, held and evaluated, move as               *)
(* PaperLifecycle allows.                                                   *)


\* A function that differs from another at one match is its update there.
LEMMA UpdateAt ==
    ASSUME NEW m \in Matches, NEW f, NEW g,
           f = [n \in Matches |-> f[n]], g = [n \in Matches |-> g[n]],
           \A n \in Matches \ {m} : g[n] = f[n]
    PROVE  g = [f EXCEPT ![m] = g[m]]
OBVIOUS

\* The contract's variables are functions of the matches.
LEMMA Views ==
    /\ lifecycle = [n \in Matches |-> lifecycle[n]]
    /\ held = [n \in Matches |-> held[n]]
    /\ evaluated = [n \in Matches |-> evaluated[n]]
    /\ lifecycle' = [n \in Matches |-> lifecycle'[n]]
    /\ held' = [n \in Matches |-> held'[n]]
    /\ evaluated' = [n \in Matches |-> evaluated'[n]]
<1>1. lifecycle = [n \in Matches |-> lifecycle[n]]
    BY DEF lifecycle
<1>2. held = [n \in Matches |-> held[n]]
    BY DEF held
<1>3. evaluated = [n \in Matches |-> evaluated[n]]
    BY DEF evaluated
<1>4. lifecycle' = [n \in Matches |-> lifecycle'[n]]
    BY DEF lifecycle
<1>5. held' = [n \in Matches |-> held'[n]]
    BY DEF held
<1>6. evaluated' = [n \in Matches |-> evaluated'[n]]
    BY DEF evaluated
<1> QED BY <1>1, <1>2, <1>3, <1>4, <1>5, <1>6

\* Where no match moves, no variable of the contract changes.
LEMMA ContractStutters ==
    ASSUME \A n \in Matches : /\ lifecycle'[n] = lifecycle[n]
                              /\ held'[n] = held[n]
                              /\ evaluated'[n] = evaluated[n]
    PROVE  UNCHANGED Contract!vars
BY Views DEF Contract!vars

\* A step is the contract's when it moves one match along its table.
LEMMA ContractMoves ==
    ASSUME NEW m \in Matches,
           \A n \in Matches \ {m} : /\ lifecycle'[n] = lifecycle[n]
                                    /\ held'[n] = held[n]
                                    /\ evaluated'[n] = evaluated[n],
           \/ /\ lifecycle[m] = "NONE" /\ lifecycle'[m] = "ENTRY_PENDING"
              /\ held'[m] = held[m] /\ evaluated'[m] = evaluated[m]
           \/ /\ lifecycle[m] = "ENTRY_PENDING" /\ lifecycle'[m] = "FILLED"
              /\ held'[m] = TRUE /\ evaluated'[m] = evaluated[m]
           \/ /\ lifecycle[m] = "ENTRY_PENDING" /\ lifecycle'[m] = "MISSED"
              /\ held'[m] = FALSE /\ evaluated'[m] = evaluated[m]
           \/ /\ lifecycle[m] = "FILLED" /\ lifecycle'[m] = "EXIT_PENDING"
              /\ held'[m] = held[m] /\ evaluated'[m] = evaluated[m]
           \/ /\ lifecycle[m] = "EXIT_PENDING"
              /\ lifecycle'[m] \in {"EXITED", "EXIT_MISSED"}
              /\ held'[m] = held[m] /\ evaluated'[m] = evaluated[m]
           \/ /\ lifecycle[m] \in {"FILLED", "EXITED", "EXIT_MISSED"}
              /\ lifecycle'[m] = "SETTLED" /\ held'[m] = held[m]
              /\ evaluated'[m] = Contract!REQUIRED_TRACKS
    PROVE  Contract!Next
<1>1. /\ lifecycle' = [lifecycle EXCEPT ![m] = lifecycle'[m]]
      /\ held' = [held EXCEPT ![m] = held'[m]]
      /\ evaluated' = [evaluated EXCEPT ![m] = evaluated'[m]]
    BY Views, UpdateAt
<1>2. held'[m] = held[m] => held' = held
    BY <1>1, Views
<1>3. evaluated'[m] = evaluated[m] => evaluated' = evaluated
    BY <1>1, Views
<1> USE DEF Contract!Advance, Contract!PAPER_LIFECYCLE_TRANSITIONS
<1>4. CASE /\ lifecycle[m] = "NONE" /\ lifecycle'[m] = "ENTRY_PENDING"
           /\ held'[m] = held[m] /\ evaluated'[m] = evaluated[m]
    <2>1. Contract!BeginEntry(m)
        BY <1>1, <1>2, <1>3, <1>4 DEF Contract!BeginEntry
    <2> QED BY <2>1 DEF Contract!Next
<1>5. CASE /\ lifecycle[m] = "ENTRY_PENDING" /\ lifecycle'[m] = "FILLED"
           /\ held'[m] = TRUE /\ evaluated'[m] = evaluated[m]
    <2>1. Contract!ApplyEntryFill(m, TRUE)
        BY <1>1, <1>3, <1>5 DEF Contract!ApplyEntryFill
    <2> QED BY <2>1 DEF Contract!Next
<1>6. CASE /\ lifecycle[m] = "ENTRY_PENDING" /\ lifecycle'[m] = "MISSED"
           /\ held'[m] = FALSE /\ evaluated'[m] = evaluated[m]
    <2>1. Contract!ApplyEntryFill(m, FALSE)
        BY <1>1, <1>3, <1>6 DEF Contract!ApplyEntryFill
    <2> QED BY <2>1 DEF Contract!Next
<1>7. CASE /\ lifecycle[m] = "FILLED" /\ lifecycle'[m] = "EXIT_PENDING"
           /\ held'[m] = held[m] /\ evaluated'[m] = evaluated[m]
    <2>1. Contract!BeginExit(m)
        BY <1>1, <1>2, <1>3, <1>7 DEF Contract!BeginExit
    <2> QED BY <2>1 DEF Contract!Next
<1>8. CASE /\ lifecycle[m] = "EXIT_PENDING"
           /\ lifecycle'[m] \in {"EXITED", "EXIT_MISSED"}
           /\ held'[m] = held[m] /\ evaluated'[m] = evaluated[m]
    <2>1. CASE lifecycle'[m] = "EXITED"
        <3>1. Contract!ApplyExitFill(m, TRUE)
            BY <1>1, <1>2, <1>3, <1>8, <2>1 DEF Contract!ApplyExitFill
        <3> QED BY <3>1 DEF Contract!Next
    <2>2. CASE lifecycle'[m] = "EXIT_MISSED"
        <3>1. Contract!ApplyExitFill(m, FALSE)
            BY <1>1, <1>2, <1>3, <1>8, <2>2 DEF Contract!ApplyExitFill
        <3> QED BY <3>1 DEF Contract!Next
    <2> QED BY <1>8, <2>1, <2>2
<1>9. CASE /\ lifecycle[m] \in {"FILLED", "EXITED", "EXIT_MISSED"}
           /\ lifecycle'[m] = "SETTLED" /\ held'[m] = held[m]
           /\ evaluated'[m] = Contract!REQUIRED_TRACKS
    <2>1. Contract!ApplySettlement(m, Contract!REQUIRED_TRACKS)
        BY <1>1, <1>2, <1>9 DEF Contract!ApplySettlement
    <2>2. Contract!REQUIRED_TRACKS \in SUBSET Contract!REQUIRED_TRACKS
        OBVIOUS
    <2> QED BY <2>1, <2>2 DEF Contract!Next
<1> QED BY <1>4, <1>5, <1>6, <1>7, <1>8, <1>9
\* The contract's variables at one match, before and after a step.
LEMMA ViewAt ==
    ASSUME NEW m \in Matches, SettledHasTracks, SettledHasTracks'
    PROVE  /\ lifecycle[m] = LifecycleOf(m)
           /\ lifecycle'[m] = LifecycleOf(m)'
           /\ position[m] = "absent" => held[m] = FALSE
           /\ position[m] # "absent" => held[m] = TRUE
           /\ position'[m] = "absent" => held'[m] = FALSE
           /\ position'[m] # "absent" => held'[m] = TRUE
           /\ position[m] = "SETTLED" => evaluated[m] = Contract!REQUIRED_TRACKS
           /\ position[m] # "SETTLED" => evaluated[m] = {}
           /\ position'[m] = "SETTLED" => evaluated'[m] = Contract!REQUIRED_TRACKS
           /\ position'[m] # "SETTLED" => evaluated'[m] = {}
<1>1. lifecycle[m] = LifecycleOf(m) /\ lifecycle'[m] = LifecycleOf(m)'
    BY DEF lifecycle
<1>2. /\ position[m] = "absent" => held[m] = FALSE
      /\ position[m] # "absent" => held[m] = TRUE
      /\ position'[m] = "absent" => held'[m] = FALSE
      /\ position'[m] # "absent" => held'[m] = TRUE
    BY DEF held
<1>3. /\ position[m] # "SETTLED" => evaluated[m] = {}
      /\ position'[m] # "SETTLED" => evaluated'[m] = {}
    BY DEF evaluated
<1>4. TrackNames = Contract!REQUIRED_TRACKS
    BY DEF TrackNames, Contract!REQUIRED_TRACKS
<1>5. ASSUME position[m] = "SETTLED"
      PROVE  evaluated[m] = Contract!REQUIRED_TRACKS
    <2>1. evaluated[m] = {t \in TrackNames : tracks[m][t] # "absent"}
        BY <1>5 DEF evaluated
    <2>2. \A t \in TrackNames : tracks[m][t] # "absent"
        BY <1>5 DEF SettledHasTracks
    <2> QED BY <1>4, <2>1, <2>2
<1>6. ASSUME position'[m] = "SETTLED"
      PROVE  evaluated'[m] = Contract!REQUIRED_TRACKS
    <2>1. evaluated'[m] = {t \in TrackNames : tracks'[m][t] # "absent"}
        BY <1>6 DEF evaluated
    <2>2. \A t \in TrackNames : tracks'[m][t] # "absent"
        BY <1>6 DEF SettledHasTracks
    <2> QED BY <1>4, <2>1, <2>2
<1> QED BY <1>1, <1>2, <1>3, <1>5, <1>6

\* A match whose position and entry order stay as they are stays in the view.
LEMMA ViewStays ==
    ASSUME NEW m \in Matches, SettledHasTracks, SettledHasTracks',
           position'[m] = position[m],
           intent'[m]["ENTRY"] = intent[m]["ENTRY"]
    PROVE  /\ lifecycle'[m] = lifecycle[m]
           /\ held'[m] = held[m]
           /\ evaluated'[m] = evaluated[m]
<1>1. lifecycle'[m] = lifecycle[m]
    <2>1. LifecycleOf(m)' = LifecycleOf(m)
        BY DEF LifecycleOf
    <2> QED BY <2>1, ViewAt
<1>2. held'[m] = held[m]
    BY ViewAt
<1>3. evaluated'[m] = evaluated[m]
    BY ViewAt
<1> QED BY <1>1, <1>2, <1>3

\* The entry intent begins the lifecycle; any other intent changes nothing.
LEMMA CreateIntentRefines ==
    ASSUME SoleInv, SoleInv', NEW w \in Workers, CreateIntent(w)
    PROVE  Contract!Next \/ UNCHANGED Contract!vars
<1> PICK m \in Matches : m = call[w].match
    BY CallFields DEF SoleInv, SharedInv, CreateIntent
<1>0. /\ SettledHasTracks /\ SettledHasTracks'
      /\ TypeOK
      /\ UNCHANGED position
    BY CallFields DEF SoleInv, SharedInv, CreateIntent
<1>1. \A n \in Matches \ {m} : intent'[n]["ENTRY"] = intent[n]["ENTRY"]
    BY <1>0, CreateIntentRows DEF Sides
<1>2. \A n \in Matches \ {m} : /\ lifecycle'[n] = lifecycle[n]
                               /\ held'[n] = held[n]
                               /\ evaluated'[n] = evaluated[n]
    BY <1>0, <1>1, ViewStays
<1>3. CASE intent'[m]["ENTRY"] = intent[m]["ENTRY"]
    <2>1. /\ lifecycle'[m] = lifecycle[m]
          /\ held'[m] = held[m]
          /\ evaluated'[m] = evaluated[m]
        BY <1>0, <1>3, ViewStays
    <2> QED BY <1>2, <2>1, ContractStutters
<1>4. CASE intent'[m]["ENTRY"] # intent[m]["ENTRY"]
    <2>1. /\ intent[m]["ENTRY"].status = "absent"
          /\ intent'[m]["ENTRY"].status = "PENDING"
        <3>1. "ENTRY" \in Sides
            BY DEF Sides
        <3>2. /\ intent[m]["ENTRY"].status = "absent"
              /\ intent'[m]["ENTRY"] = [status |-> "PENDING",
                                        created |-> call[w].created,
                                        delay |-> call[w].delay]
            BY <1>0, <1>4, <3>1, CreateIntentRows
        <3> QED BY <3>2
    <2>2. fill[m]["ENTRY"].kind = "absent"
        BY <1>0, <2>1 DEF SoleInv, SharedInv, RowsAgree, Sides
    <2>3. position[m] = "absent"
        BY <1>0, <2>2 DEF SoleInv, LedgerInv, PositionIffEntryFilled
    <2>4. LifecycleOf(m) = "NONE" /\ LifecycleOf(m)' = "ENTRY_PENDING"
        BY <1>0, <2>1, <2>3 DEF LifecycleOf
    <2>5. lifecycle[m] = "NONE" /\ lifecycle'[m] = "ENTRY_PENDING"
        BY <1>0, <2>4, ViewAt
    <2>6. held'[m] = held[m] /\ evaluated'[m] = evaluated[m]
        BY <1>0, <2>3, ViewAt
    <2> QED BY <1>0, <1>2, <2>5, <2>6, ContractMoves
<1> QED BY <1>3, <1>4

\* The fill of an entry opens the position or misses; an exit's changes nothing.
LEMMA RecordFillRefines ==
    ASSUME SoleInv, SoleInv', NEW w \in Workers, RecordFill(w)
    PROVE  Contract!Next \/ UNCHANGED Contract!vars
<1> PICK m \in Matches : m = call[w].match
    BY RecordFillDecides
<1>0. /\ SettledHasTracks /\ SettledHasTracks'
      /\ call[w].side \in Sides
      /\ "ENTRY" \in Sides
    BY RecordFillDecides DEF SoleInv, SharedInv, Sides
<1>1. \A n \in Matches \ {m} : /\ intent'[n]["ENTRY"] = intent[n]["ENTRY"]
                               /\ position'[n] = position[n]
    BY <1>0, RecordFillDecides, RecordFillOpens
<1>2. \A n \in Matches \ {m} : /\ lifecycle'[n] = lifecycle[n]
                               /\ held'[n] = held[n]
                               /\ evaluated'[n] = evaluated[n]
    BY <1>0, <1>1, ViewStays
<1>3. CASE call[w].side # "ENTRY"
    <2>1. /\ intent'[m]["ENTRY"] = intent[m]["ENTRY"]
          /\ position'[m] = position[m]
        BY <1>0, <1>3, RecordFillDecides, RecordFillOpens
    <2>2. /\ lifecycle'[m] = lifecycle[m]
          /\ held'[m] = held[m]
          /\ evaluated'[m] = evaluated[m]
        BY <1>0, <2>1, ViewStays
    <2> QED BY <1>2, <2>2, ContractStutters
<1>4. CASE call[w].side = "ENTRY"
    <2>1. /\ intent[m]["ENTRY"].status = "PENDING"
          /\ fill[m]["ENTRY"].kind = "absent"
        BY <1>4, RecordFillDecides
    <2>2. position[m] = "absent"
        BY <1>0, <2>1 DEF SoleInv, LedgerInv, PositionIffEntryFilled
    <2>3. lifecycle[m] = "ENTRY_PENDING" /\ evaluated[m] = {}
        <3>1. LifecycleOf(m) = "ENTRY_PENDING"
            BY <2>1, <2>2 DEF LifecycleOf
        <3> QED BY <1>0, <2>2, <3>1, ViewAt
    <2>4. CASE call[w].outcome = "filled"
        <3>1. position'[m] = "OPEN"
            BY <1>0, <1>4, <2>4, RecordFillOpens
        <3>2. LifecycleOf(m)' = "FILLED"
            BY <3>1 DEF LifecycleOf
        <3>3. lifecycle'[m] = "FILLED" /\ held'[m] = TRUE /\ evaluated'[m] = {}
            BY <1>0, <3>1, <3>2, ViewAt
        <3> QED BY <1>0, <1>2, <2>3, <3>3, ContractMoves
    <2>5. CASE call[w].outcome # "filled"
        <3>1. position'[m] = "absent" /\ intent'[m]["ENTRY"].status = "NO_FILL"
            BY <1>0, <1>4, <2>2, <2>5, RecordFillDecides, RecordFillOpens
        <3>2. LifecycleOf(m)' = "MISSED"
            BY <3>1 DEF LifecycleOf
        <3>3. lifecycle'[m] = "MISSED" /\ held'[m] = FALSE /\ evaluated'[m] = {}
            BY <1>0, <3>1, <3>2, ViewAt
        <3> QED BY <1>0, <1>2, <2>3, <3>3, ContractMoves
    <2> QED BY <2>4, <2>5
<1> QED BY <1>3, <1>4

\* A position's status moves as the lifecycle does.
LEMMA UpdatePositionRefines ==
    ASSUME SoleInv, SoleInv', NEW w \in Workers, UpdatePositionStatus(w)
    PROVE  Contract!Next \/ UNCHANGED Contract!vars
<1> PICK m \in Matches : m = call[w].match
    BY CallFields DEF SoleInv, SharedInv, UpdatePositionStatus,
        MayMove
<1>0. /\ SettledHasTracks /\ SettledHasTracks'
      /\ TypeOK
      /\ UNCHANGED intent
    BY CallFields DEF SoleInv, SharedInv, UpdatePositionStatus,
        MayMove
<1>1. \A n \in Matches \ {m} : position'[n] = position[n]
    BY <1>0 DEF UpdatePositionStatus, TypeOK,
        MayMove
<1>2. \A n \in Matches \ {m} : /\ lifecycle'[n] = lifecycle[n]
                               /\ held'[n] = held[n]
                               /\ evaluated'[n] = evaluated[n]
    BY <1>0, <1>1, ViewStays
<1>3. CASE position'[m] = position[m]
    <2>1. /\ lifecycle'[m] = lifecycle[m]
          /\ held'[m] = held[m]
          /\ evaluated'[m] = evaluated[m]
        BY <1>0, <1>3, ViewStays
    <2> QED BY <1>2, <2>1, ContractStutters
<1>4. CASE position'[m] # position[m]
    <2>1. <<position[m], position'[m]>> \in POSITION_TRANSITIONS
        BY <1>0, <1>4 DEF UpdatePositionStatus, TypeOK,
        MayMove
    <2>2. /\ position[m] \notin {"absent", "SETTLED"}
          /\ position'[m] \notin {"absent", "OPEN"}
        BY <2>1 DEF POSITION_TRANSITIONS
    <2>3. /\ lifecycle[m] = IF position[m] = "OPEN" THEN "FILLED" ELSE position[m]
          /\ lifecycle'[m] = position'[m]
        <3>1. LifecycleOf(m) = IF position[m] = "OPEN" THEN "FILLED" ELSE position[m]
            BY <2>2 DEF LifecycleOf
        <3>2. LifecycleOf(m)' = position'[m]
            BY <2>2 DEF LifecycleOf
        <3> QED BY <1>0, <3>1, <3>2, ViewAt
    <2>4. held'[m] = held[m]
        BY <1>0, <2>2, ViewAt
    <2>5. /\ evaluated[m] = {}
          /\ position'[m] = "SETTLED" => evaluated'[m] = Contract!REQUIRED_TRACKS
          /\ position'[m] # "SETTLED" => evaluated'[m] = {}
        BY <1>0, <2>2, ViewAt
    <2>6. CASE position'[m] = "SETTLED"
        <3>1. lifecycle[m] \in {"FILLED", "EXITED", "EXIT_MISSED"}
            BY <2>1, <2>3, <2>6 DEF POSITION_TRANSITIONS
        <3> QED BY <1>0, <1>2, <2>3, <2>4, <2>5, <2>6, <3>1, ContractMoves
    <2>7. CASE position'[m] = "EXIT_PENDING"
        <3>1. lifecycle[m] = "FILLED"
            BY <2>1, <2>3, <2>7 DEF POSITION_TRANSITIONS
        <3> QED BY <1>0, <1>2, <2>3, <2>4, <2>5, <2>7, <3>1, ContractMoves
    <2>8. CASE position'[m] \in {"EXITED", "EXIT_MISSED"}
        <3>1. lifecycle[m] = "EXIT_PENDING"
            BY <2>1, <2>3, <2>8 DEF POSITION_TRANSITIONS
        <3> QED BY <1>0, <1>2, <2>3, <2>4, <2>5, <2>8, <3>1, ContractMoves
    <2> QED BY <2>1, <2>6, <2>7, <2>8 DEF POSITION_TRANSITIONS
<1> QED BY <1>3, <1>4

\* Every step of the service is a step of the contract or none.
LEMMA StepRefines ==
    ASSUME SoleInv, SoleInv', [Next]_vars
    PROVE  Contract!Next \/ UNCHANGED Contract!vars
<1>0. SettledHasTracks /\ SettledHasTracks'
    BY DEF SoleInv, SharedInv
<1>1. CASE UNCHANGED <<intent, position>>
    BY <1>0, <1>1, ViewStays, ContractStutters
<1>2. CASE UNCHANGED ledger
    BY <1>1, <1>2 DEF ledger
<1>3. ASSUME NEW w \in Workers, Commit(w)
      PROVE  Contract!Next \/ UNCHANGED Contract!vars
    BY <1>1, <1>3, CreateIntentRefines, RecordFillRefines,
       UpdatePositionRefines
    DEF Commit, RecordResolution, UpsertResolution, LoadUnsettled, RecordTrackResult,
        PublishMarker, PublishBlocked, ledger,
        Downgrades, AfterTrack
<1> QED BY <1>2, <1>3, OtherStepsKeepLedger

\* The empty ledger is the contract's initial state.
LEMMA InitRefines == Init => Contract!Init
<1> SUFFICES ASSUME Init PROVE Contract!Init
    OBVIOUS
<1>1. \A m \in Matches : /\ position[m] = "absent"
                         /\ intent[m]["ENTRY"].status = "absent"
    BY DEF Init, NoIntent, Sides
<1>2. \A m \in Matches : LifecycleOf(m) = "NONE"
    BY <1>1 DEF LifecycleOf
<1>3. lifecycle = [m \in Matches |-> "NONE"]
    BY <1>2 DEF lifecycle
<1>4. held = [m \in Matches |-> FALSE]
    BY <1>1 DEF held
<1>5. evaluated = [m \in Matches |-> {}]
    BY <1>1 DEF evaluated
<1> QED BY <1>3, <1>4, <1>5 DEF Contract!Init

\* The multi-transaction service, run by one worker that may be interrupted
\* before any of its calls, implements the one-shot FOK state machine.
THEOREM ServiceImplementsLifecycle ==
    ASSUME NEW w0, Workers = {w0}
    PROVE  Spec => ImplementsLifecycle
<1>1. SoleInv /\ SoleInv' /\ [Next]_vars => [Contract!Next]_(Contract!vars)
    BY StepRefines
<1> QED BY <1>1, InitRefines, SoleInvariant, PTL
        DEF Spec, ImplementsLifecycle, Contract!Spec

=============================================================================
