------------------------ MODULE DecisionWorkerProofs ------------------------
(***************************************************************************)
(* Theorems about DecisionWorker for queues of every size and any number   *)
(* of books and versions, about DecisionEngine for every input, fee curve  *)
(* and edge, and about RuntimeLauncher for any number of invocations,      *)
(* children and services.                                                  *)
(***************************************************************************)
EXTENDS MCDecisionWorker, Integers, FiniteSetTheorems, WellFoundedInduction, TLAPS

\* The types in two parts: the flags are a matter of logic, the others of
\* numbers, records and sequences.
Flags == predicted \in BOOLEAN /\ linked \in BOOLEAN /\ gap \in BOOLEAN

Data ==
    /\ hot \in Books /\ passedOn \in Books /\ latestBook \in Books
    /\ queue \in Seq(Books) /\ Len(queue) <= QueueSize
    /\ cursor \in Nat \cup {NoCursor}
    /\ evidence \in SUBSET Decisions
    /\ ledger \in SUBSET Decisions
    /\ published \in Decisions
    /\ step \in Steps
    /\ work \in Decisions

LEMMA TypeParts == TypeOK <=> Flags /\ Data
BY Zenon DEF TypeOK, Flags, Data

LEMMA NothingType == DecisionAssumption => Nothing \in Decisions
BY DEF DecisionAssumption, Nothing, Decisions, Books

\* What the assignment of its version leaves of a decision.
LEMMA DecisionUpdate ==
    ASSUME NEW decided \in Decisions, NEW version \in Nat
    PROVE  /\ [decided EXCEPT !.version = version] \in Decisions
           /\ [decided EXCEPT !.version = version].version = version
<1>1. decided = [version |-> decided.version, book |-> decided.book, action |-> decided.action]
      /\ decided.version \in Nat /\ decided.book \in Books
      /\ decided.action \in {"act", "pass"}
    BY DEF Decisions
<1>2. [decided EXCEPT !.version = version]
        = [version |-> version, book |-> decided.book, action |-> decided.action]
    BY <1>1
<1> QED BY <1>1, <1>2 DEF Decisions

LEMMA FlagsNext == ASSUME Flags, [Next]_vars PROVE Flags'
<1> USE DEF Flags, market, caches, stored
<1>1. CASE Worker
    BY <1>1, Zenon DEF Worker, Pump, LookUp, Predict, Read, Version, Save,
                       Apply, Publish, CallFails
<1>2. CASE Sports BY <1>2, Zenon DEF Sports
<1>3. CASE RecoverCursors BY <1>3, Zenon DEF RecoverCursors
<1>4. CASE Restart BY <1>4, Zenon DEF Restart
<1>5. CASE PublishBook BY <1>5, Zenon DEF PublishBook
<1>6. CASE PassOn BY <1>6, Zenon DEF PassOn
<1>7. CASE LinkChanges BY <1>7, Zenon DEF LinkChanges
<1>8. CASE GapChanges BY <1>8, Zenon DEF GapChanges
<1>9. CASE UNCHANGED vars BY <1>9, Zenon DEF vars
<1> QED BY <1>1, <1>2, <1>3, <1>4, <1>5, <1>6, <1>7, <1>8, <1>9, Zenon DEF Next

LEMMA DataNext ==
    ASSUME DecisionAssumption, Data, [Next]_vars PROVE Data'
<1> USE DEF DecisionAssumption, Data, market, caches, stored, Books, Steps
<1>1. CASE Pump
    <2>1. queue[Len(queue)] \in Books BY <1>1 DEF Pump
    <2>2. work' \in Decisions
        BY <1>1, <2>1 DEF Pump, Nothing, Decisions
    <2> QED BY <1>1, <2>2 DEF Pump
<1>2. CASE LookUp
    <2>1. latestBook' \in {latestBook, work.book} /\ work' \in {work, Nothing}
          /\ step' \in {"read", "idle"}
          /\ UNCHANGED <<market, cursor, stored>>
        BY <1>2, Zenon DEF LookUp
    <2>2. work.book \in Books BY DEF Decisions
    <2> QED BY <2>1, <2>2, NothingType
<1>3. CASE Sports \/ Predict BY <1>3 DEF Sports, Predict
<1>4. CASE Read
    <2>1. \E book \in {0, latestBook, hot}, action \in {"act", "pass"} :
            work' = [version |-> 0, book |-> book, action |-> action]
        BY <1>4, Zenon DEF Read, Evaluate
    <2>2. work' \in Decisions BY <2>1 DEF Decisions
    <2> QED BY <1>4, <2>2 DEF Read
<1>5. CASE Version
    <2>1. PICK version \in Versions :
            /\ cursor' = version + 1
            /\ work' = [work EXCEPT !.version = version + 1]
        BY <1>5 DEF Version
    <2>2. version \in Nat BY DEF Versions, Decisions
    <2>3. work' \in Decisions
        BY <2>1, <2>2, version + 1 \in Nat, DecisionUpdate
    <2> QED BY <1>5, <2>1, <2>2, <2>3 DEF Version
<1>6. CASE Save BY <1>6 DEF Save, Saved
<1>7. CASE Apply BY <1>7 DEF Apply
<1>8. CASE Publish BY <1>8, NothingType DEF Publish
<1>9. CASE CallFails BY <1>9, NothingType DEF CallFails, Saved
<1>10. CASE RecoverCursors
    <2>1. PICK version \in Versions : cursor' = version
        BY <1>10 DEF RecoverCursors
    <2>2. version \in Nat BY DEF Versions, Decisions
    <2> QED BY <1>10, <2>1, <2>2 DEF RecoverCursors
<1>11. CASE Restart
    <2>1. queue' = <<>> /\ Len(queue') = 0 BY <1>11 DEF Restart
    <2> QED BY <1>11, <2>1, NothingType DEF Restart
<1>12. CASE PublishBook BY <1>12 DEF PublishBook
<1>13. CASE PassOn
    <2>1. Submit(hot) \in Seq(Books) /\ Len(Submit(hot)) <= QueueSize
        <3>1. CASE Len(queue) < QueueSize BY <3>1 DEF Submit
        <3>2. CASE ~(Len(queue) < QueueSize)
            <4>1. Tail(queue) \in Seq(Books) /\ Len(Tail(queue)) = Len(queue) - 1
                BY <3>2
            <4>2. Len(queue) = QueueSize BY <3>2
            <4> HIDE DEF Books
            <4>3. Submit(hot) = Append(Tail(queue), hot) BY <3>2 DEF Submit
            <4> QED BY <4>1, <4>2, <4>3
        <3> QED BY <3>1, <3>2
    <2> QED BY <1>13, <2>1 DEF PassOn
<1>14. CASE LinkChanges \/ GapChanges BY <1>14 DEF LinkChanges, GapChanges
<1>15. CASE UNCHANGED vars BY <1>15 DEF vars
<1> QED BY <1>1, <1>2, <1>3, <1>4, <1>5, <1>6, <1>7, <1>8, <1>9, <1>10, <1>11,
           <1>12, <1>13, <1>14, <1>15 DEF Next, Worker

\* Queue, caches, rows and the decision under way keep their types, whatever
\* fails and however often the process restarts.
THEOREM TypeCorrect == Spec => []TypeOK
<1>1. Init => TypeOK
    <2>1. Init => Flags BY Zenon DEF Init, Flags
    <2>2. Init => Data
        BY DecisionAssumption, NothingType
        DEF DecisionAssumption, Init, Data, Books, Steps
    <2> QED BY <2>1, <2>2, TypeParts
<1>2. TypeOK /\ [Next]_vars => TypeOK'
    <2> SUFFICES ASSUME TypeOK, [Next]_vars PROVE TypeOK' OBVIOUS
    <2>1. Flags /\ Data BY TypeParts
    <2>2. Flags' /\ Data' BY <2>1, DecisionAssumption, FlagsNext, DataNext
    <2> QED BY <2>2, Zenon DEF TypeOK, Flags, Data
<1> QED BY <1>1, <1>2, PTL DEF Spec

-----------------------------------------------------------------------------
\* The evidence: a version is given out once, to the decision whose row it
\* becomes, and nothing acts or is published before that row is there.
CursorCovers ==
    cursor # NoCursor => \A decided \in evidence : decided.version <= cursor

VersionIsNew ==
    step = "save" => /\ work.version > 0
                     /\ cursor = work.version
                     /\ \A decided \in evidence : decided.version < work.version

WorkIsOnRecord ==
    step \in {"ledger", "publish"} =>
        /\ work \in evidence
        /\ published.version < work.version

DecisionInv ==
    /\ Data
    /\ CursorCovers
    /\ VersionIsNew
    /\ WorkIsOnRecord
    /\ ActionIsTraceable
    /\ PublishedIsOnRecord

LEMMA DecisionNext ==
    ASSUME DecisionAssumption, DecisionInv, [Next]_vars
    PROVE  DecisionInv'
<1>1. Data' BY DataNext DEF DecisionInv
<1> USE DEF DecisionInv, Data, CursorCovers, VersionIsNew, WorkIsOnRecord,
            ActionIsTraceable, PublishedIsOnRecord, market, caches, stored
<1>2. CASE Pump BY <1>1, <1>2 DEF Pump
<1>3. CASE LookUp
    <2>1. step' \in {"read", "idle"} /\ UNCHANGED <<cursor, stored>>
        BY <1>3, Zenon DEF LookUp
    <2> QED BY <1>1, <2>1
<1>4. CASE Sports \/ Predict BY <1>1, <1>4 DEF Sports, Predict
<1>5. CASE Read BY <1>1, <1>5 DEF Read
<1>6. CASE Version
    <2>1. PICK version \in Versions :
            /\ Known(version)
            /\ cursor' = version + 1
            /\ work' = [work EXCEPT !.version = version + 1]
        BY <1>6 DEF Version
    <2>2. version \in Nat BY DEF Versions, Decisions
    <2>3. \A decided \in evidence : decided.version \in Nat /\ decided.version <= version
        BY <2>1 DEF Known, IsLatest, Decisions
    <2>4. work'.version = version + 1 BY <2>1 DEF Decisions
    <2>5. UNCHANGED stored /\ step' = "save" BY <1>6 DEF Version
    <2> QED BY <1>1, <2>1, <2>2, <2>3, <2>4, <2>5
<1>7. CASE Save \/ (step = "save" /\ CallFails)
    <2>1. work \in Decisions /\ \A decided \in evidence : decided \in Decisions OBVIOUS
    <2>2. Saved = evidence \cup {work}
        BY <1>7, <2>1 DEF Save, Saved, Decisions
    <2>3. published.version < work.version
        BY <1>7, <2>1 DEF Save, Decisions, Nothing
    <2>4. cursor' = cursor /\ evidence' \in {evidence, Saved}
        BY <1>7 DEF Save, CallFails
    <2>5. CursorCovers'
        BY <1>7, <2>2, <2>4, work.version <= work.version DEF Save, Decisions
    <2>6. CASE Save BY <1>1, <2>2, <2>3, <2>5, <2>6 DEF Save
    <2>7. CASE CallFails /\ step = "save" BY <1>1, <2>2, <2>5, <2>7 DEF CallFails
    <2> QED BY <1>7, <2>6, <2>7
<1>8. CASE Apply BY <1>1, <1>8 DEF Apply
<1>9. CASE Publish BY <1>1, <1>9 DEF Publish
<1>10. CASE CallFails /\ step # "save" BY <1>1, <1>10 DEF CallFails
<1>11. CASE RecoverCursors
    <2>1. PICK version \in Versions : IsLatest(version) /\ cursor' = version
        BY <1>11 DEF RecoverCursors
    <2>2. UNCHANGED <<stored, step, work>> /\ step = "idle"
        BY <1>11 DEF RecoverCursors
    <2> QED BY <1>1, <2>1, <2>2 DEF IsLatest
<1>12. CASE Restart BY <1>1, <1>12 DEF Restart
<1>13. CASE PublishBook \/ PassOn BY <1>1, <1>13 DEF PublishBook, PassOn
<1>14. CASE LinkChanges \/ GapChanges BY <1>1, <1>14 DEF LinkChanges, GapChanges
<1>15. CASE UNCHANGED vars BY <1>1, <1>15 DEF vars
<1> QED BY <1>2, <1>3, <1>4, <1>5, <1>6, <1>7, <1>8, <1>9, <1>10, <1>11, <1>12,
           <1>13, <1>14, <1>15 DEF Next, Worker

LEMMA DecisionsStayOnRecord == Spec => []DecisionInv
<1>1. Init => DecisionInv
    <2>1. Init => Data
        BY DecisionAssumption, NothingType
        DEF DecisionAssumption, Init, Data, Books, Steps
    <2> QED BY <2>1 DEF Init, DecisionInv, CursorCovers, VersionIsNew,
                        WorkIsOnRecord, ActionIsTraceable, PublishedIsOnRecord
<1>2. DecisionInv /\ [Next]_vars => DecisionInv'
    BY DecisionAssumption, DecisionNext
<1> QED BY <1>1, <1>2, PTL DEF Spec

\* Whatever fails or dies, and whichever version a failure has used up, the
\* paper service is called only with what is on record.
THEOREM ActionsAreTraceable == Spec => []ActionIsTraceable
<1>1. DecisionInv => ActionIsTraceable BY DEF DecisionInv
<1> QED BY <1>1, DecisionsStayOnRecord, PTL

\* Redis shows a decision that is on record.
THEOREM HotDecisionIsOnRecord == Spec => []PublishedIsOnRecord
<1>1. DecisionInv => PublishedIsOnRecord BY DEF DecisionInv
<1> QED BY <1>1, DecisionsStayOnRecord, PTL

\* The hot decision never goes back to an older version, over restarts too.
THEOREM HotDecisionGoesForward == Spec => PublishedGoesForward
<1>1. DecisionInv /\ [Next]_vars
      => [published' # published => published'.version > published.version]_vars
    <2> SUFFICES ASSUME DecisionInv, [Next]_vars, published' # published
                 PROVE  published'.version > published.version
        OBVIOUS
    <2>1. step = "publish" /\ published' = work
        BY DEF Next, Worker, Pump, LookUp, Predict, Read, Version, Save, Apply,
               Publish, CallFails, Sports, RecoverCursors, Restart, PublishBook,
               PassOn, LinkChanges, GapChanges, vars, stored
    <2>2. work.version \in Nat /\ published.version \in Nat
        BY DEF DecisionInv, Data, Decisions
    <2> QED BY <2>1, <2>2 DEF DecisionInv, WorkIsOnRecord
<1> QED BY <1>1, DecisionsStayOnRecord, PTL DEF Spec, PublishedGoesForward

-----------------------------------------------------------------------------
\* The newest book is at the end of the queue, until it is taken.
NewestIsLast == queue # <<>> => queue[Len(queue)] = passedOn

NewestInv == Data /\ NewestIsLast /\ NewestBookWins

LEMMA NewestNext ==
    ASSUME DecisionAssumption, NewestInv, [Next]_vars PROVE NewestInv'
<1>1. Data' BY DataNext DEF NewestInv
<1> USE DEF NewestInv, Data, NewestIsLast, NewestBookWins, market, Steps
<1>2. CASE Pump BY <1>1, <1>2 DEF Pump, Nothing
<1>3. CASE PassOn
    <2>1. ASSUME NEW books \in Seq(Books)
          PROVE  Append(books, hot)[Len(Append(books, hot))] = hot
        OBVIOUS
    <2>2. \E books \in Seq(Books) : queue' = Append(books, hot)
        <3>1. CASE Len(queue) < QueueSize BY <1>3, <3>1 DEF PassOn, Submit
        <3>2. CASE ~(Len(queue) < QueueSize)
            <4>1. Tail(queue) \in Seq(Books)
                BY <3>2 DEF DecisionAssumption
            <4>2. queue' = Append(Tail(queue), hot)
                BY <1>3, <3>2 DEF PassOn, Submit
            <4> QED BY <4>1, <4>2
        <3> QED BY <3>1, <3>2
    <2> QED BY <1>1, <1>3, <2>1, <2>2 DEF PassOn
<1>4. CASE Restart BY <1>1, <1>4 DEF Restart
<1>5. CASE UNCHANGED <<queue, passedOn>> /\ step' # "lookup" BY <1>1, <1>5
<1>6. CASE UNCHANGED <<queue, passedOn, step, work>> BY <1>1, <1>6
<1> QED BY <1>2, <1>3, <1>4, <1>5, <1>6
        DEF Next, Worker, LookUp, Predict, Read, Version, Save, Apply, Publish,
            CallFails, Sports, RecoverCursors, PublishBook, LinkChanges,
            GapChanges, vars

\* For queues of every size: however many books the queue loses, the one that
\* is decided on is the last one passed on.
THEOREM NewestBooksWin == Spec => []NewestBookWins
<1>1. Init => NewestInv
    <2>1. Init => Data
        BY DecisionAssumption, NothingType
        DEF DecisionAssumption, Init, Data, Books, Steps
    <2> QED BY <2>1 DEF Init, NewestInv, NewestIsLast, NewestBookWins
<1>2. NewestInv /\ [Next]_vars => NewestInv'
    BY DecisionAssumption, NewestNext
<1>3. NewestInv => NewestBookWins BY DEF NewestInv
<1> QED BY <1>1, <1>2, <1>3, PTL DEF Spec
-----------------------------------------------------------------------------
(* The parts together: a behaviour of MCSpec is one of a single part.      *)

everything == <<vars, engine, launcher, scope>>

LEMMA PartStarts ==
    ASSUME MCInit
    PROVE  /\ scope = "engine" => Engine!Init
           /\ scope = "launcher" => Launcher!Init
BY DEF MCInit

LEMMA PartSteps ==
    ASSUME [MCNext]_everything
    PROVE  /\ scope' = scope
           /\ scope = "engine" => [Engine!Next]_(Engine!vars)
           /\ scope = "launcher" => [Launcher!Next]_(Launcher!vars)
<1>1. UNCHANGED engine => UNCHANGED Engine!vars
  BY DEF engine, Engine!vars
<1>2. UNCHANGED launcher => UNCHANGED Launcher!vars
  BY DEF launcher, Launcher!vars, Launcher!childVars, Launcher!dockerVars,
         Launcher!baseVars, Launcher!callVars, Launcher!ends
<1> QED BY <1>1, <1>2 DEF MCNext, everything

-----------------------------------------------------------------------------
(* The worker implements the log                                           *)

\* What is acted on and shown is the decision of the last version given out, and
\* it is shown after the action.
WorkIsNewest ==
    /\ step \in {"ledger", "publish"} => cursor = work.version
    /\ step = "ledger" => work.action = "act"
    /\ step = "publish" /\ work.action = "act" => work \in ledger

LogInv == DecisionInv /\ WorkIsNewest

LEMMA LogInvNext ==
    ASSUME DecisionAssumption, LogInv, [Next]_vars PROVE LogInv'
<1>1. DecisionInv'
  BY DecisionNext DEF LogInv
<1> USE DEF LogInv, WorkIsNewest, market, caches, stored
<1>2. CASE LookUp
  <2>1. step' \in {"read", "idle"}
    BY <1>2, Zenon DEF LookUp
  <2> QED BY <1>1, <2>1
<1>3. CASE Save
  <2>1. cursor = work.version
    BY <1>3 DEF DecisionInv, VersionIsNew, Save
  <2>2. work.action \in {"act", "pass"}
    BY DEF DecisionInv, Data, Decisions
  <2> QED BY <1>1, <1>3, <2>1, <2>2 DEF Save
<1>4. CASE Apply
  BY <1>1, <1>4 DEF Apply
<1>5. CASE step' \notin {"ledger", "publish"}
  BY <1>1, <1>5
<1>6. CASE UNCHANGED <<step, work, cursor, ledger>>
  BY <1>1, <1>6
<1> QED BY <1>2, <1>3, <1>4, <1>5, <1>6
        DEF Next, Worker, Pump, Predict, Read, Version, Publish, CallFails, Sports,
            RecoverCursors, Restart, PublishBook, PassOn, LinkChanges, GapChanges, vars

\* Each step of the worker is one of the log, or changes nothing of it.
LEMMA StepsOfTheLog ==
    ASSUME DecisionAssumption, LogInv, [Next]_vars PROVE [Log!Next]_(Log!vars)
<1>1. CASE UNCHANGED stored
  BY <1>1 DEF stored, Log!vars
<1>2. ASSUME evidence' = Saved, UNCHANGED <<ledger, published>>, step = "save"
      PROVE  Log!Record
  <2>1. \A d \in evidence : d.version < work.version /\ d \in Decisions
    BY <1>2 DEF LogInv, DecisionInv, Data, VersionIsNew
  <2>2. ~ \E d \in evidence : d.version = work.version
    BY <2>1 DEF Decisions
  <2>3. evidence' = evidence \cup {work}
    BY <1>2, <2>2 DEF Saved
  <2> QED BY <1>2, <2>1, <2>3 DEF Log!Record
<1>3. ASSUME step \in {"ledger", "publish"}
      PROVE  Log!IsNewest(work) /\ work.version > published.version
  <2>1. work \in evidence /\ published.version < work.version /\ cursor = work.version
    BY <1>3 DEF LogInv, WorkIsNewest, DecisionInv, WorkIsOnRecord
  <2>2. work.version \in Nat /\ published.version \in Nat
    BY DEF LogInv, DecisionInv, Data, Decisions
  <2>3. \A d \in evidence : d.version <= work.version
    BY <2>1, <2>2 DEF LogInv, DecisionInv, CursorCovers, NoCursor
  <2> QED BY <2>1, <2>2, <2>3 DEF Log!IsNewest
<1>4. ASSUME ledger' = ledger \cup {work}, UNCHANGED <<evidence, published>>, step = "ledger"
      PROVE  Log!Act
  BY <1>3, <1>4 DEF Log!Act, Log!IsNewest, LogInv, WorkIsNewest
<1>5. ASSUME published' = work, UNCHANGED <<evidence, ledger>>, step = "publish"
      PROVE  Log!Show
  BY <1>3, <1>5 DEF Log!Show, Log!IsNewest, LogInv, WorkIsNewest
<1>6. CASE Save
  BY <1>2, <1>6 DEF Save, Log!Next
<1>7. CASE Apply
  BY <1>4, <1>7 DEF Apply, Log!Next
<1>8. CASE Publish
  BY <1>5, <1>8 DEF Publish, Log!Next
<1>9. CASE CallFails
  <2>1. CASE step = "save"
    BY <1>1, <1>2, <1>9, <2>1 DEF CallFails, Log!Next, stored
  <2>2. CASE step = "ledger"
    BY <1>1, <1>4, <1>9, <2>2 DEF CallFails, Log!Next, stored
  <2>3. CASE step = "publish"
    BY <1>1, <1>5, <1>9, <2>3 DEF CallFails, Log!Next, stored
  <2> QED BY <1>1, <1>9, <2>1, <2>2, <2>3 DEF CallFails, stored
<1>10. LookUp => UNCHANGED stored
  BY Zenon DEF LookUp
<1> QED BY <1>1, <1>6, <1>7, <1>8, <1>9, <1>10
        DEF Next, Worker, Pump, Predict, Read, Version, Sports, RecoverCursors, Restart,
            PublishBook, PassOn, LinkChanges, GapChanges, vars

\* _decide implements the log of its comment: for queues of every size and any
\* number of books, failures and restarts, evidence, ledger and publication go
\* from one newest decision to the next, in this order.
THEOREM WorkerImplementsLog ==
    /\ Spec => ImplementsDecisionLog
    /\ MCSpec => ImplementsDecisionLog
<1>1. Init => LogInv /\ Log!Init
  <2>1. Init => Data
    BY DecisionAssumption, NothingType
    DEF DecisionAssumption, Init, Data, Books, Steps
  <2> QED BY <2>1 DEF Init, LogInv, WorkIsNewest, DecisionInv, CursorCovers, VersionIsNew,
                      WorkIsOnRecord, ActionIsTraceable, PublishedIsOnRecord, Log!Init
<1>2. LogInv /\ [Next]_vars => LogInv'
  BY DecisionAssumption, LogInvNext
<1>3. LogInv /\ [Next]_vars => [Log!Next]_(Log!vars)
  BY DecisionAssumption, StepsOfTheLog
<1>4. Spec => ImplementsDecisionLog
  BY <1>1, <1>2, <1>3, PTL DEF Spec, ImplementsDecisionLog, Log!Spec
<1>5. MCInit => Init
  BY DEF MCInit
<1>6. [MCNext]_everything => [Next]_vars
  BY DEF MCNext, everything
<1>7. MCSpec => ImplementsDecisionLog
  BY <1>1, <1>2, <1>3, <1>5, <1>6, PTL DEF MCSpec, everything, ImplementsDecisionLog, Log!Spec
<1> QED BY <1>4, <1>7

\* What the log promises the worker keeps: a version has one decision, every
\* action is on record, and the hot decision is on record and was acted on if it
\* calls for it.
THEOREM DecisionsAreConsistent == Spec => []Log!Consistent
<1>1. Log!Init => Log!Consistent
  BY DEF Log!Init, Log!Consistent
<1>2. Data /\ Data' /\ Log!Consistent /\ [Log!Next]_(Log!vars) => Log!Consistent'
  <2> SUFFICES ASSUME Data, Data', Log!Consistent, [Log!Next]_(Log!vars)
               PROVE  Log!Consistent'
    OBVIOUS
  <2>1. CASE Log!Record
    <3>1. PICK d \in evidence' : /\ \A e \in evidence : e.version < d.version
                                 /\ evidence' = evidence \cup {d}
      BY <2>1 DEF Log!Record
    <3>2. \A e \in evidence' : e.version \in Nat
      BY DEF Data, Decisions
    <3>3. \A c, e \in evidence' : c.version = e.version => c = e
      BY <3>1, <3>2 DEF Log!Consistent
    <3> QED BY <2>1, <3>1, <3>3 DEF Log!Record, Log!Consistent
  <2>2. CASE Log!Act
    BY <2>2 DEF Log!Act, Log!IsNewest, Log!Consistent
  <2>3. CASE Log!Show
    BY <2>3 DEF Log!Show, Log!IsNewest, Log!Consistent
  <2>4. CASE UNCHANGED Log!vars
    BY <2>4 DEF Log!vars, Log!Consistent
  <2> QED BY <2>1, <2>2, <2>3, <2>4 DEF Log!Next
<1>3. DecisionInv => Data
  BY DEF DecisionInv
<1> QED BY <1>1, <1>2, <1>3, DecisionsStayOnRecord, WorkerImplementsLog, PTL
        DEF ImplementsDecisionLog, Log!Spec

-----------------------------------------------------------------------------
(* The decision itself                                                     *)

\* The first price of a ladder
Best(ladder) == IF ladder = <<>> THEN 0 ELSE ladder[1].price
Asks(o) == input.book[o].asks
Bids(o) == input.book[o].bids

\* What an entry paid is no less than the asks, up to the rounding, and leaves
\* the edge below the probability
WasBought(o, shares) ==
    /\ o \in Engine!Outcomes /\ shares \in Nat /\ input.book # None /\ Asks(o) # <<>>
    /\ 2 * (Best(Asks(o)) * shares)
         <= 2 * ((Engine!Probability(o) - BuyEdge) * shares) + One * Len(Asks(o))
\* What an exit brings is no more than the bids, and leaves its edge above
WouldSell(o, shares) ==
    /\ o \in Engine!Outcomes /\ shares \in Nat /\ input.book # None /\ Bids(o) # <<>>
    /\ shares >= MinOrder
    /\ 2 * ((Engine!Probability(o) + SellEdge) * shares)
         <= 2 * (Best(Bids(o)) * shares) + One * Len(Bids(o))

\* The quote so far
WalkIsTyped ==
    /\ walk = [side |-> walk.side, outcome |-> walk.outcome, level |-> walk.level,
               left |-> walk.left, shares |-> walk.shares, cost |-> walk.cost, fee |-> walk.fee]
    /\ walk.side \in {"entry", "exit"} /\ walk.outcome \in Engine!Outcomes /\ input.book # None
    /\ walk.level \in Nat /\ walk.level >= 1 /\ walk.level - 1 <= Len(Engine!Ladder(walk))
    /\ walk.left \in Nat /\ walk.shares \in Nat /\ walk.cost \in Nat /\ walk.fee \in Nat
    /\ walk.shares > 0 => walk.level > 1
WalkPays ==
    LET best == Best(Engine!Ladder(walk)) IN
    /\ walk.side = "entry" =>
           2 * (best * walk.shares) <= 2 * walk.cost + One * (walk.level - 1)
    /\ walk.side = "exit" =>
           /\ 2 * walk.cost <= 2 * (best * walk.shares) + One * (walk.level - 1)
           /\ walk.outcome = position.outcome /\ walk.shares + walk.left = position.shares
EngineInv ==
    /\ input \in Inputs /\ (input.book # None => Engine!IsBook(input.book))
    /\ position # None => position.outcome \in Engine!Outcomes /\ position.shares \in Nat
    /\ at \in {"gates", "walk", "done"}
    /\ at = "walk" => WalkIsTyped /\ WalkPays
    /\ at = "done" /\ observation.action = "buy" => WasBought(walk.outcome, walk.shares)
    /\ observation.action = "sell" =>
           /\ at = "done" /\ observation.target = position.outcome
           /\ WouldSell(position.outcome, position.shares)
    /\ at # "done" => observation.action # "buy"
    /\ before.action = "buy" => WasBought(position.outcome, position.shares)

LEMMA HalfUpBounds ==
    ASSUME NEW a \in Nat, NEW b \in Nat \ {0}
    PROVE  Engine!HalfUp(a, b) \in Nat /\ 2 * (b * Engine!HalfUp(a, b)) <= 2 * a + b
<1> DEFINE q == (2 * a + b) \div (2 * b)
<1>1. q \in Nat /\ (2 * b) * q <= 2 * a + b
  OBVIOUS
<1>2. (2 * b) * q = 2 * (b * q)
  BY <1>1
<1> QED BY <1>1, <1>2 DEF Engine!HalfUp

\* An edge below the probability at the asks and one above it at the bids leave
\* no order whose rounding is small, unless the book is crossed.
LEMMA NoRoom ==
    ASSUME NEW S \in Nat, NEW M \in Nat, S >= M, NEW ask \in Nat, NEW bid \in Nat, bid < ask,
           NEW pr \in Int, NEW b \in Int, NEW e \in Int, NEW x \in Nat, NEW y \in Nat,
           2 * (ask * S) <= 2 * ((pr - b) * S) + x,
           2 * ((pr + e) * S) <= 2 * (bid * S) + y,
           x + y < 2 * ((b + e + 1) * M)
    PROVE  FALSE
<1> DEFINE k == b + e + 1
<1>1. bid * S <= ask * S - S
  <2>1. bid <= ask - 1
    OBVIOUS
  <2>2. bid * S <= (ask - 1) * S
    BY <2>1
  <2>3. (ask - 1) * S = ask * S - S
    OBVIOUS
  <2> QED BY <2>2, <2>3
<1>2. (pr - b) * S = pr * S - b * S /\ (pr + e) * S = pr * S + e * S
  OBVIOUS
<1>3. k * S = b * S + e * S + S
  OBVIOUS
<1>4. 2 * (k * S) <= x + y
  <2>1. /\ pr * S \in Int /\ b * S \in Int /\ e * S \in Int /\ ask * S \in Int /\ bid * S \in Int
    OBVIOUS
  <2> QED BY <1>1, <1>2, <1>3, <2>1
<1>5. k * M > 0
  OBVIOUS
<1>6. k > 0
  BY <1>5
<1>7. k * S >= k * M
  BY <1>6
<1> QED BY <1>4, <1>7

\* A decision that neither buys nor sells
LEMMA Concluded ==
    ASSUME NEW a, NEW r, NEW t
    PROVE  [Engine!NoDecision EXCEPT !.action = a, !.reason = r, !.target = t].action = a
BY DEF Engine!NoDecision

LEMMA Passes ==
    ASSUME EngineInv, at' = "done", observation'.action \notin {"buy", "sell"},
           UNCHANGED <<input, position, before>>
    PROVE  EngineInv'
<1>1. \A o, n : WasBought(o, n)' <=> WasBought(o, n)
  BY DEF WasBought, Asks, Engine!Probability
<1> QED BY <1>1 DEF EngineInv

LEMMA GatesStep == ASSUME EngineInv, Engine!Gates PROVE EngineInv'
<1>1. ASSUME NEW a \in {"market_only", "no_bet", "hold"}, NEW r, NEW t, Engine!Decide(a, r, t)
      PROVE  EngineInv'
  <2>1. observation'.action = a /\ at' = "done" /\ UNCHANGED <<input, position, before>>
    BY <1>1, Concluded DEF Engine!Decide
  <2> QED BY <1>1, <2>1, Passes
<1>2. CASE Engine!Unmapped
  BY <1>1, <1>2 DEF Engine!Unmapped
<1>3. CASE Engine!RulesFail
  <2>1. PICK r : Engine!Decide("no_bet", r, None)
    BY <1>3 DEF Engine!RulesFail
  <2> QED BY <1>1, <2>1
<1>4. CASE Engine!ModelAbstains
  <2>1. \/ Engine!Decide("market_only", "OUT_OF_DOMAIN", None)
        \/ Engine!Decide("no_bet", "MODEL_UNPROMOTED", None)
        \/ Engine!Decide("no_bet", "DATA_INCOMPLETE", None)
    BY <1>4 DEF Engine!ModelAbstains
  <2> QED BY <1>1, <2>1
<1>5. CASE Engine!PolicyDisabled \/ Engine!ModelDisagrees
  BY <1>1, <1>5 DEF Engine!PolicyDisabled, Engine!ModelDisagrees
<1>6. CASE Engine!EntryIsStopped
  <2>1. \/ Engine!Decide("no_bet", "DATA_INCOMPLETE", None)
        \/ Engine!Decide("no_bet", Engine!Overlay, None)
        \/ Engine!Decide("no_bet", "STALE", None)
    BY <1>6 DEF Engine!EntryIsStopped
  <2>2. PICK r : Engine!Decide("no_bet", r, None)
    BY <2>1
  <2> QED BY <1>1, <2>2
<1>7. CASE Engine!ExitIsStopped
  <2>1. \/ Engine!Decide("hold", Engine!Overlay, position.outcome)
        \/ Engine!Decide("hold", "DATA_INCOMPLETE", position.outcome)
    BY <1>7 DEF Engine!ExitIsStopped
  <2>2. PICK r, t : Engine!Decide("hold", r, t)
    BY <2>1
  <2> QED BY <1>1, <2>2
<1> QED BY <1>2, <1>3, <1>4, <1>5, <1>6, <1>7 DEF Engine!Gates

\* A quote starts with nothing taken.
LEMMA StartStep ==
    ASSUME Engine!EngineLimits, EngineInv, Engine!StartEntry \/ Engine!StartExit
    PROVE  EngineInv'
<1>1. /\ at = "gates" /\ at' = "walk" /\ input.book # None
      /\ UNCHANGED <<input, position, observation, before>>
  BY DEF Engine!StartEntry, Engine!StartExit, Engine!Allowed, Engine!HasBook
<1>2. PICK side \in {"entry", "exit"}, o \in Engine!Outcomes, n \in Nat :
          /\ walk' = Engine!NewWalk(side, o, n)
          /\ side = "exit" => o = position.outcome /\ n = position.shares
  <2>1. CASE Engine!StartEntry
    BY <2>1 DEF Engine!StartEntry, Engine!EngineLimits, Engine!Favourite, Engine!Outcomes
  <2>2. CASE Engine!StartExit
    BY <2>2 DEF Engine!StartExit, Engine!Allowed, EngineInv
  <2> QED BY <2>1, <2>2
<1>3. /\ walk'.side = side /\ walk'.outcome = o /\ walk'.level = 1 /\ walk'.left = n
      /\ walk'.shares = 0 /\ walk'.cost = 0 /\ walk'.fee = 0
      /\ walk' = [side |-> walk'.side, outcome |-> walk'.outcome, level |-> walk'.level,
                  left |-> walk'.left, shares |-> walk'.shares, cost |-> walk'.cost,
                  fee |-> walk'.fee]
  BY <1>2 DEF Engine!NewWalk
<1>4. Engine!Ladder(walk)' \in Seq(Engine!Levels)
  BY <1>1, <1>3 DEF Engine!Ladder, Engine!EngineLimits, EngineInv
<1>5. Best(Engine!Ladder(walk)') \in Nat /\ Len(Engine!Ladder(walk)') \in Nat
  <2> DEFINE ladder == Engine!Ladder(walk)'
  <2>1. ladder \in Seq(Engine!Levels)
    BY <1>4
  <2> HIDE DEF ladder
  <2>2. ladder # <<>> => ladder[1] \in Engine!Levels
    BY <2>1
  <2> QED BY <2>1, <2>2 DEF Best, Engine!Levels, ladder
<1>6. WalkIsTyped'
  BY <1>1, <1>3, <1>5 DEF WalkIsTyped
<1>7. WalkPays'
  BY <1>1, <1>2, <1>3, <1>5 DEF WalkPays, Best, Engine!EngineLimits
<1>8. \A b, m : WasBought(b, m)' <=> WasBought(b, m)
  BY <1>1 DEF WasBought, Asks, Engine!Probability
<1> QED BY <1>1, <1>6, <1>7, <1>8 DEF EngineInv

\* The levels of a ladder are worse than the first, for who takes them.
LEMMA LadderFacts ==
    ASSUME Engine!EngineLimits, EngineInv, at = "walk"
    PROVE  /\ Engine!Ladder(walk) \in Seq(Engine!Levels)
           /\ \A i \in DOMAIN Engine!Ladder(walk) :
                 LET level == Engine!Ladder(walk)[i] IN
                 /\ level.price \in 1..One /\ level.size \in Nat /\ level.size > 0
                 /\ walk.side = "entry" => Best(Engine!Ladder(walk)) <= level.price
                 /\ walk.side = "exit" => level.price <= Best(Engine!Ladder(walk))
           /\ Best(Engine!Ladder(walk)) \in Nat
<1>1. /\ walk.side \in {"entry", "exit"} /\ walk.outcome \in Engine!Outcomes /\ input.book # None
      /\ input \in Inputs /\ Engine!IsBook(input.book)
  BY DEF EngineInv, WalkIsTyped
<1>l. PICK L : L = Engine!Ladder(walk)
  OBVIOUS
<1>2. PICK d \in {1, -1} :
          /\ L \in Seq(Engine!Levels) /\ Engine!IsLadder(L, d)
          /\ walk.side = "entry" => d = 1
          /\ walk.side = "exit" => d = -1
  <2>0. /\ Asks(walk.outcome) \in Seq(Engine!Levels) /\ Bids(walk.outcome) \in Seq(Engine!Levels)
        /\ Engine!IsLadder(Asks(walk.outcome), 1) /\ Engine!IsLadder(Bids(walk.outcome), -1)
    BY <1>1 DEF Engine!EngineLimits, Engine!IsBook, Asks, Bids
  <2>1. CASE walk.side = "entry"
    <3>1. Engine!Ladder(walk) = Asks(walk.outcome)
      BY <2>1 DEF Engine!Ladder, Asks
    <3> QED BY <1>l, <2>0, <2>1, <3>1
  <2>2. CASE walk.side = "exit"
    <3>1. Engine!Ladder(walk) = Bids(walk.outcome)
      BY <2>2 DEF Engine!Ladder, Bids
    <3> QED BY <1>l, <2>0, <2>2, <3>1
  <2> QED BY <1>1, <2>1, <2>2
<1>3. ASSUME NEW i \in DOMAIN L
      PROVE  /\ L[i].price \in 1..One /\ L[i].size \in Nat /\ L[i].size > 0
             /\ L # <<>> /\ 1 \in DOMAIN L /\ L[1].price \in 1..One /\ Best(L) = L[1].price
             /\ i # 1 => 1 < i
  <2>1. L[i] \in Engine!Levels /\ 1 \in DOMAIN L /\ L # <<>> /\ (i # 1 => 1 < i)
    BY <1>2, <1>3
  <2>2. L[i].size \in Nat
    BY <2>1 DEF Engine!Levels
  <2> QED BY <1>2, <1>3, <2>1, <2>2 DEF Engine!IsLadder, Best
<1>4. ASSUME NEW i \in DOMAIN L
      PROVE  /\ walk.side = "entry" => Best(L) <= L[i].price
             /\ walk.side = "exit" => L[i].price <= Best(L)
  <2>1. CASE i = 1
    BY <1>3, <1>4, <2>1
  <2>2. CASE i # 1
    <3>1. d * L[1].price < d * L[i].price
      BY <1>2, <1>3, <1>4, <2>2 DEF Engine!IsLadder
    <3>2. L[1].price \in Int /\ L[i].price \in Int
      BY <1>3, <1>4
    <3>3. d = 1 => L[1].price < L[i].price
      BY <3>1, <3>2
    <3>4. d = -1 => L[i].price < L[1].price
      BY <3>1, <3>2
    <3> QED BY <1>2, <1>3, <1>4, <3>2, <3>3, <3>4
  <2> QED BY <2>1, <2>2
<1>5. Best(L) \in Nat
  <2>1. CASE L = <<>>
    BY <2>1 DEF Best
  <2>2. CASE L # <<>>
    BY <1>2, <1>3, <2>2
  <2> QED BY <2>1, <2>2
<1> QED BY <1>l, <1>2, <1>3, <1>4, <1>5

\* One level more, for an entry and for an exit.
LEMMA EntryPays ==
    ASSUME NEW best \in Nat, NEW p \in Nat, best <= p, p <= One, One \in Nat, NEW s \in Nat,
           NEW c \in Nat, NEW n \in Nat, NEW s2 \in Nat, NEW c2 \in Nat,
           2 * (best * s) <= 2 * c + One * n, 2 * (p * s2) <= 2 * c2 + p
    PROVE  2 * (best * (s + s2)) <= 2 * (c + c2) + One * (n + 1)
<1>1. best * s2 <= p * s2
  OBVIOUS
<1>2. best * (s + s2) = best * s + best * s2 /\ One * (n + 1) = One * n + One
  OBVIOUS
<1>3. best * s \in Int /\ best * s2 \in Int /\ p * s2 \in Int /\ One * n \in Int
  OBVIOUS
<1> QED BY <1>1, <1>2, <1>3

LEMMA ExitPays ==
    ASSUME NEW best \in Nat, NEW p \in Nat, p <= best, One \in Nat, NEW s \in Nat,
           NEW c \in Nat, NEW n \in Nat, NEW s2 \in Nat, NEW c2 \in Nat,
           2 * c <= 2 * (best * s) + One * n, 2 * c2 <= 2 * (s2 * p) + One
    PROVE  2 * (c + c2) <= 2 * (best * (s + s2)) + One * (n + 1)
<1>1. s2 * p <= best * s2
  OBVIOUS
<1>2. best * (s + s2) = best * s + best * s2 /\ One * (n + 1) = One * n + One
  OBVIOUS
<1>3. best * s \in Int /\ best * s2 \in Int /\ s2 * p \in Int /\ One * n \in Int
  OBVIOUS
<1> QED BY <1>1, <1>2, <1>3

\* What a level gives: never more than is left, at its price up to the rounding
LEMMA TakeFacts ==
    ASSUME Engine!EngineLimits, NEW w, w.side \in {"entry", "exit"}, w.left \in Nat,
           NEW level, level.price \in 1..One, level.size \in Nat,
           NEW take, take = Engine!Take(w, level)
    PROVE  /\ take.cost \in Nat /\ take.shares \in Nat /\ take.used \in Nat
           /\ take.used <= w.left
           /\ w.side = "entry" => 2 * (level.price * take.shares) <= 2 * take.cost + level.price
           /\ w.side = "exit" => /\ take.used = take.shares
                                 /\ 2 * take.cost <= 2 * (take.shares * level.price) + One
<1>1. CASE w.side = "entry"
  <2> DEFINE c == Engine!Least(w.left, level.size * level.price)
  <2>0. level.price \in Nat \ {0}
    BY DEF Engine!EngineLimits
  <2>1. c \in Nat /\ c <= w.left
    BY <2>0 DEF Engine!Least
  <2> HIDE DEF c
  <2>2. /\ Engine!HalfUp(c, level.price) \in Nat
        /\ 2 * (level.price * Engine!HalfUp(c, level.price)) <= 2 * c + level.price
    BY <2>0, <2>1, HalfUpBounds
  <2>3. /\ Engine!Take(w, level).cost = c /\ Engine!Take(w, level).used = c
        /\ Engine!Take(w, level).shares = Engine!HalfUp(c, level.price)
    BY <1>1 DEF Engine!Take, Engine!EntryTake, c
  <2> QED BY <1>1, <2>1, <2>2, <2>3
<1>2. CASE w.side = "exit"
  <2> DEFINE n == Engine!Least(w.left, level.size)
             h == Engine!HalfUp(n * level.price, One)
  <2>1. n \in Nat /\ n <= w.left /\ n * level.price \in Nat /\ One \in Nat \ {0}
    BY DEF Engine!Least, Engine!EngineLimits
  <2> HIDE DEF n
  <2>2. h \in Nat /\ 2 * (One * h) <= 2 * (n * level.price) + One
    BY <2>1, HalfUpBounds
  <2>3. /\ Engine!Take(w, level).cost = h * One /\ Engine!Take(w, level).used = n
        /\ Engine!Take(w, level).shares = n
    BY <1>2 DEF Engine!Take, Engine!ExitTake, n
  <2> HIDE DEF h
  <2>4. h * One = One * h /\ h * One \in Nat
    BY <2>1, <2>2
  <2> QED BY <1>2, <2>1, <2>2, <2>3, <2>4
<1> QED BY <1>1, <1>2

LEMMA WalkStep ==
    ASSUME Engine!EngineLimits, EngineInv, Engine!WalkLevel
    PROVE  EngineInv'
<1>1. /\ at = "walk" /\ walk.level <= Len(Engine!Ladder(walk))
      /\ UNCHANGED <<input, position, at, observation, before>>
  BY DEF Engine!WalkLevel, Engine!InWalk
<1>2. WalkIsTyped /\ WalkPays
  BY <1>1 DEF EngineInv
<1>3. PICK L, level, take :
          /\ L = Engine!Ladder(walk) /\ level = L[walk.level] /\ take = Engine!Take(walk, level)
  OBVIOUS
<1>4. PICK best : best = Best(L)
  OBVIOUS
<1>5. /\ L \in Seq(Engine!Levels) /\ walk.level \in DOMAIN L
      /\ level.price \in 1..One /\ level.size \in Nat /\ level.size > 0 /\ best \in Nat
      /\ walk.side = "entry" => best <= level.price
      /\ walk.side = "exit" => level.price <= best
  <2>1. L \in Seq(Engine!Levels) /\ walk.level \in DOMAIN L
    BY <1>1, <1>2, <1>3, LadderFacts DEF WalkIsTyped
  <2> QED BY <1>1, <1>3, <1>4, <2>1, LadderFacts
<1>7. /\ One \in Nat /\ One > 0 /\ Engine!FeeOf(level.price) \in Nat
  BY <1>5 DEF Engine!EngineLimits
<1>8. PICK w : w = walk
  OBVIOUS
<1>9. /\ w = [side |-> w.side, outcome |-> w.outcome, level |-> w.level, left |-> w.left,
              shares |-> w.shares, cost |-> w.cost, fee |-> w.fee]
      /\ w.side \in {"entry", "exit"} /\ w.outcome \in Engine!Outcomes /\ input.book # None
      /\ w.level \in Nat /\ w.level >= 1 /\ w.left \in Nat /\ w.shares \in Nat /\ w.cost \in Nat
      /\ w.fee \in Nat /\ (w.shares > 0 => w.level > 1)
  BY <1>2, <1>8 DEF WalkIsTyped
<1>6. /\ take.cost \in Nat /\ take.shares \in Nat /\ take.used \in Nat /\ take.used <= w.left
      /\ w.side = "entry" => 2 * (level.price * take.shares) <= 2 * take.cost + level.price
      /\ w.side = "exit" => /\ take.used = take.shares
                            /\ 2 * take.cost <= 2 * (take.shares * level.price) + One
  <2>1. /\ take = Engine!Take(w, level) /\ w.side \in {"entry", "exit"} /\ w.left \in Nat
        /\ level.price \in 1..One /\ level.size \in Nat
    BY <1>3, <1>5, <1>8, <1>9
  <2> QED BY <2>1, TakeFacts, SMTT(30)
<1>a. level.price \in Nat /\ level.price <= One
  BY <1>5, <1>7
<1>n. PICK n \in Nat : n = w.level - 1
  BY <1>9
<1>m. One * (n + 1) = One * n + One /\ One * n \in Nat
  BY <1>7
<1>10. PICK unsold \in Nat, shares \in Nat, cost \in Nat, fee \in Nat :
          /\ walk' = [side |-> w.side, outcome |-> w.outcome, level |-> w.level + 1,
                      left |-> unsold, shares |-> shares, cost |-> cost, fee |-> fee]
          /\ \/ unsold = w.left /\ shares = w.shares /\ cost = w.cost
             \/ /\ unsold = w.left - take.used /\ shares = w.shares + take.shares
                /\ cost = w.cost + take.cost
  <2> DEFINE next == [w EXCEPT !.level = @ + 1]
             passed == [side |-> w.side, outcome |-> w.outcome, level |-> w.level + 1,
                        left |-> w.left, shares |-> w.shares, cost |-> w.cost, fee |-> w.fee]
             more == Engine!FeeOf(level.price) * take.shares
             taken == [side |-> w.side, outcome |-> w.outcome, level |-> w.level + 1,
                       left |-> w.left - take.used, shares |-> w.shares + take.shares,
                       cost |-> w.cost + take.cost, fee |-> w.fee + more]
  <2>1. walk' = IF take.shares <= 0 THEN next ELSE taken
    BY <1>3, <1>8 DEF Engine!WalkLevel
  <2>2. next = passed
    BY <1>9
  <2>3. more \in Nat
    BY <1>6, <1>7
  <2> HIDE DEF more
  <2>5. walk' = passed \/ walk' = taken
    BY <2>1, <2>2
  <2>6. CASE walk' = passed
    BY <1>9, <2>6
  <2>7. CASE walk' = taken
    <3>1. /\ w.left - take.used \in Nat /\ w.shares + take.shares \in Nat
          /\ w.cost + take.cost \in Nat /\ w.fee + more \in Nat
      BY <1>6, <1>8, <1>9, <2>3
    <3> QED BY <2>7, <3>1
  <2> QED BY <2>5, <2>6, <2>7
<1>11. /\ walk'.side = w.side /\ walk'.outcome = w.outcome /\ walk'.level = w.level + 1
       /\ walk'.left = unsold /\ walk'.shares = shares /\ walk'.cost = cost /\ walk'.fee = fee
       /\ walk' = [side |-> walk'.side, outcome |-> walk'.outcome, level |-> walk'.level,
                   left |-> walk'.left, shares |-> walk'.shares, cost |-> walk'.cost,
                   fee |-> walk'.fee]
  BY <1>10
<1>12. Engine!Ladder(walk)' = L
  BY <1>1, <1>3, <1>8, <1>11 DEF Engine!Ladder
<1>13. WalkIsTyped'
  <2>1. w.level + 1 - 1 <= Len(L) /\ w.level + 1 \in Nat /\ w.level + 1 >= 1 /\ w.level + 1 > 1
    BY <1>1, <1>3, <1>5, <1>8, <1>9
  <2> QED BY <1>1, <1>9, <1>11, <1>12, <2>1 DEF WalkIsTyped
<1>14. WalkPays'
  <2>1. (w.level + 1) - 1 = n + 1 /\ walk.level - 1 = n
    BY <1>8, <1>9, <1>n
  <2>2. ASSUME w.side = "entry"
        PROVE  2 * (best * shares) <= 2 * cost + One * (n + 1)
    <3>1. 2 * (best * w.shares) <= 2 * w.cost + One * n
      BY <1>2, <1>3, <1>4, <1>8, <2>1, <2>2 DEF WalkPays
    <3>2. CASE shares = w.shares /\ cost = w.cost
      <4>1. best * w.shares \in Nat
        BY <1>5, <1>9
      <4> QED BY <1>7, <1>9, <1>m, <3>1, <3>2, <4>1
    <3>3. CASE shares = w.shares + take.shares /\ cost = w.cost + take.cost
      <4>1. 2 * (level.price * take.shares) <= 2 * take.cost + level.price
        BY <1>6, <2>2
      <4>2. best \in Nat /\ best <= level.price /\ One \in Nat
        BY <1>5, <1>7, <1>8, <2>2
      <4>3. 2 * (best * (w.shares + take.shares)) <= 2 * (w.cost + take.cost) + One * (n + 1)
        BY <1>6, <1>9, <1>a, <3>1, <4>1, <4>2, EntryPays, Zenon
      <4> QED BY <3>3, <4>3
    <3> QED BY <1>10, <3>2, <3>3
  <2>3. ASSUME w.side = "exit"
        PROVE  2 * cost <= 2 * (best * shares) + One * (n + 1)
    <3>1. 2 * w.cost <= 2 * (best * w.shares) + One * n
      BY <1>2, <1>3, <1>4, <1>8, <2>1, <2>3 DEF WalkPays
    <3>2. CASE shares = w.shares /\ cost = w.cost
      <4>1. best * w.shares \in Nat
        BY <1>5, <1>9
      <4> QED BY <1>7, <1>9, <1>m, <3>1, <3>2, <4>1
    <3>3. CASE shares = w.shares + take.shares /\ cost = w.cost + take.cost
      <4>1. 2 * take.cost <= 2 * (take.shares * level.price) + One
        BY <1>6, <2>3
      <4>2. best \in Nat /\ level.price <= best /\ One \in Nat
        BY <1>5, <1>7, <1>8, <2>3
      <4>3. 2 * (w.cost + take.cost) <= 2 * (best * (w.shares + take.shares)) + One * (n + 1)
        BY <1>6, <1>9, <1>a, <3>1, <4>1, <4>2, ExitPays, Zenon
      <4> QED BY <3>3, <4>3
    <3> QED BY <1>10, <3>2, <3>3
  <2>4. ASSUME w.side = "exit"
        PROVE  w.outcome = position.outcome /\ shares + unsold = position.shares
    <3>1. w.outcome = position.outcome /\ w.shares + w.left = position.shares
      BY <1>2, <1>8, <2>4 DEF WalkPays
    <3> QED BY <1>6, <1>9, <1>10, <2>4, <3>1
  <2> QED BY <1>1, <1>4, <1>11, <1>12, <2>1, <2>2, <2>3, <2>4 DEF WalkPays
<1>15. \A b, m : WasBought(b, m)' <=> WasBought(b, m)
  BY <1>1 DEF WasBought, Asks, Engine!Probability
<1> QED BY <1>1, <1>13, <1>14, <1>15 DEF EngineInv

\* What is left after fees is not negative.
LEMMA AfterFees ==
    ASSUME NEW unit \in Nat \ {0}, NEW d \in Int, NEW fee \in Nat, unit * d >= fee
    PROVE  d >= 0
<1>1. CASE d < 0
  <2>1. unit * d < 0
    BY <1>1
  <2> QED BY <2>1
<1> QED BY <1>1

\* What a quote that fills its order says
LEMMA QuoteFacts ==
    ASSUME Engine!EngineLimits, EngineInv, Engine!Quoted, Engine!IsFillable(walk)
    PROVE  /\ at = "walk" /\ WalkIsTyped /\ WalkPays
           /\ walk.outcome \in Engine!Outcomes /\ input.book # None
           /\ walk.left = 0 /\ walk.shares \in Nat /\ walk.shares >= MinOrder
           /\ walk.cost \in Nat /\ walk.fee \in Nat /\ Engine!Ladder(walk) # <<>>
           /\ Best(Engine!Ladder(walk)) \in Nat /\ Engine!Probability(walk.outcome) \in Int
           /\ One * (walk.level - 1) <= One * Len(Engine!Ladder(walk))
           /\ One * (walk.level - 1) \in Nat /\ One * Len(Engine!Ladder(walk)) \in Nat
<1>1. at = "walk" /\ WalkIsTyped /\ WalkPays
  BY DEF Engine!Quoted, EngineInv
<1>2. PICK L : L = Engine!Ladder(walk)
  OBVIOUS
<1>3. L \in Seq(Engine!Levels) /\ Best(L) \in Nat
  BY <1>1, <1>2, LadderFacts
<1>4. /\ walk.left = 0 /\ walk.shares > 0 /\ walk.shares >= MinOrder
  BY DEF Engine!IsFillable
<1>5. PICK n \in Nat : n = walk.level - 1
  BY <1>1 DEF WalkIsTyped
<1>6. n > 0 /\ n <= Len(L) /\ Len(L) \in Nat
  BY <1>1, <1>2, <1>3, <1>4, <1>5 DEF WalkIsTyped
<1>7. L # <<>>
  BY <1>6
<1>8. One \in Nat /\ One * n <= One * Len(L) /\ One * n \in Nat /\ One * Len(L) \in Nat
  BY <1>6 DEF Engine!EngineLimits
<1>9. Engine!Probability(walk.outcome) \in Int
  BY <1>1 DEF Engine!EngineLimits, EngineInv, Engine!Probability
<1>10. /\ walk.outcome \in Engine!Outcomes /\ input.book # None /\ walk.shares \in Nat
       /\ walk.cost \in Nat /\ walk.fee \in Nat
  BY <1>1 DEF WalkIsTyped
<1> QED BY <1>1, <1>2, <1>3, <1>4, <1>5, <1>7, <1>8, <1>9, <1>10

LEMMA BuyStep ==
    ASSUME Engine!EngineLimits, EngineInv, Engine!Buy PROVE EngineInv'
<1>1. /\ at = "walk" /\ at' = "done" /\ observation'.action = "buy"
      /\ Engine!Quoted /\ Engine!IsFillable(walk) /\ walk.side = "entry" /\ Engine!Buys(walk)
      /\ UNCHANGED <<input, position, walk, before>>
  BY DEF Engine!Buy, Engine!Conclude, Engine!NoDecision, Engine!Quoted
<1>2. PICK o, S, C, best, L, k, F, P :
          /\ o = walk.outcome /\ S = walk.shares /\ C = walk.cost /\ L = Engine!Ladder(walk)
          /\ best = Best(L) /\ k = One * (walk.level - 1) /\ F = walk.fee
          /\ P = Engine!Probability(o)
  OBVIOUS
<1>3. /\ S \in Nat /\ C \in Nat /\ F \in Nat /\ best \in Nat /\ P \in Int /\ k \in Nat
      /\ o \in Engine!Outcomes /\ input.book # None /\ L # <<>> /\ k <= One * Len(L)
      /\ One * Len(L) \in Nat /\ WalkPays
  BY <1>1, <1>2, QuoteFacts
<1>4. L = Asks(o)
  BY <1>1, <1>2 DEF Engine!Ladder, Asks
<1>5. 2 * (best * S) <= 2 * C + k
  BY <1>1, <1>2, <1>3 DEF WalkPays
<1>6. (P - BuyEdge) * S - C >= 0
  <2>1. Engine!FeeUnit \in Nat \ {0} /\ BuyEdge \in Int
    BY DEF Engine!EngineLimits
  <2>2. PICK d : d = (P - BuyEdge) * S - C
    OBVIOUS
  <2>3. d \in Int
    BY <1>3, <2>1, <2>2
  <2>4. Engine!FeeUnit * d >= F
    BY <1>1, <1>2, <2>2 DEF Engine!Buys, Engine!EdgeAtLeast
  <2>5. d >= 0
    BY <1>3, <2>1, <2>3, <2>4, AfterFees
  <2> QED BY <2>2, <2>5
<1>7. 2 * (best * S) <= 2 * ((P - BuyEdge) * S) + One * Len(L)
  <2>1. best * S \in Int /\ (P - BuyEdge) * S \in Int
    BY <1>3 DEF Engine!EngineLimits
  <2> QED BY <1>3, <1>5, <1>6, <2>1
<1>8. WasBought(o, S)
  BY <1>2, <1>3, <1>4, <1>7 DEF WasBought
<1>9. \A b, m : WasBought(b, m)' <=> WasBought(b, m)
  BY <1>1 DEF WasBought, Asks, Engine!Probability
<1> QED BY <1>1, <1>2, <1>8, <1>9 DEF EngineInv

LEMMA SellStep ==
    ASSUME Engine!EngineLimits, EngineInv, Engine!Sell PROVE EngineInv'
<1>1. /\ at = "walk" /\ at' = "done" /\ observation'.action = "sell"
      /\ observation'.target = walk.outcome
      /\ Engine!Quoted /\ Engine!IsFillable(walk) /\ walk.side = "exit" /\ Engine!Sells(walk)
      /\ UNCHANGED <<input, position, walk, before>>
  BY DEF Engine!Sell, Engine!Conclude, Engine!NoDecision, Engine!Quoted
<1>2. PICK o, S, C, best, L, k, F, P :
          /\ o = walk.outcome /\ S = walk.shares /\ C = walk.cost /\ L = Engine!Ladder(walk)
          /\ best = Best(L) /\ k = One * (walk.level - 1) /\ F = walk.fee
          /\ P = Engine!Probability(o)
  OBVIOUS
<1>3. /\ S \in Nat /\ C \in Nat /\ F \in Nat /\ best \in Nat /\ P \in Int /\ k \in Nat
      /\ o \in Engine!Outcomes /\ input.book # None /\ L # <<>> /\ k <= One * Len(L)
      /\ One * Len(L) \in Nat /\ WalkPays /\ S >= MinOrder /\ walk.left = 0
  BY <1>1, <1>2, QuoteFacts
<1>4. L = Bids(o)
  BY <1>1, <1>2 DEF Engine!Ladder, Bids
<1>5. 2 * C <= 2 * (best * S) + k /\ o = position.outcome /\ S = position.shares
  BY <1>1, <1>2, <1>3 DEF WalkPays
<1>6. C - (P + SellEdge) * S >= 0
  <2>1. Engine!FeeUnit \in Nat \ {0} /\ SellEdge \in Int
    BY DEF Engine!EngineLimits
  <2>2. PICK d : d = C - (P + SellEdge) * S
    OBVIOUS
  <2>3. d \in Int
    BY <1>3, <2>1, <2>2
  <2>4. Engine!FeeUnit * d >= F
    BY <1>1, <1>2, <2>2 DEF Engine!Sells
  <2>5. d >= 0
    BY <1>3, <2>1, <2>3, <2>4, AfterFees
  <2> QED BY <2>2, <2>5
<1>7. 2 * ((P + SellEdge) * S) <= 2 * (best * S) + One * Len(L)
  <2>1. PICK X, Y, Z : X = (P + SellEdge) * S /\ Y = best * S /\ Z = One * Len(L)
    OBVIOUS
  <2>2. X \in Int /\ Y \in Int /\ Z \in Int /\ k <= Z
    BY <1>3, <2>1 DEF Engine!EngineLimits
  <2>3. C - X >= 0 /\ 2 * C <= 2 * Y + k
    BY <1>5, <1>6, <2>1
  <2>4. 2 * X <= 2 * Y + Z
    BY <1>3, <2>2, <2>3
  <2> QED BY <2>1, <2>4
<1>8. WouldSell(o, S)
  BY <1>2, <1>3, <1>4, <1>7 DEF WouldSell
<1>9. \A b, m : /\ WasBought(b, m)' <=> WasBought(b, m)
                /\ WouldSell(b, m)' <=> WouldSell(b, m)
  BY <1>1 DEF WasBought, WouldSell, Asks, Bids, Engine!Probability
<1> QED BY <1>1, <1>2, <1>5, <1>8, <1>9 DEF EngineInv

\* The entry is filled, and becomes the position that is decided about.
LEMMA FillStep ==
    ASSUME Engine!EngineLimits, EngineInv, Engine!Fill PROVE EngineInv'
<1>1. /\ at = "done" /\ observation.action = "buy" /\ at' = "gates"
      /\ position'.outcome = walk.outcome /\ position'.shares = walk.shares
      /\ observation' = Engine!NoDecision /\ UNCHANGED input
  BY DEF Engine!Fill
<1>2. WasBought(walk.outcome, walk.shares)
  BY <1>1 DEF EngineInv
<1>3. \A b, m : WasBought(b, m)' <=> WasBought(b, m)
  BY <1>1 DEF WasBought, Asks, Engine!Probability
<1>4. WasBought(position.outcome, position.shares)'
  BY <1>1, <1>2, <1>3
<1>5. position'.outcome \in Engine!Outcomes /\ position'.shares \in Nat
  BY <1>1, <1>2 DEF WasBought
<1>6. observation'.action = None /\ None # "buy" /\ None # "sell"
  BY <1>1 DEF Engine!NoDecision, Engine!EngineLimits
<1> QED BY <1>1, <1>4, <1>5, <1>6 DEF EngineInv

LEMMA EngineNext ==
    ASSUME Engine!EngineLimits, EngineInv, [Engine!Next]_(Engine!vars) PROVE EngineInv'
<1>1. CASE Engine!Gates
  BY <1>1, GatesStep
<1>2. CASE Engine!StartEntry \/ Engine!StartExit
  BY <1>2, StartStep
<1>3. CASE Engine!WalkLevel
  BY <1>3, WalkStep
<1>4. CASE Engine!EntryIsUnfillable \/ Engine!WaitOrPass \/ Engine!Hold
  <2>1. /\ at' = "done" /\ observation'.action \in {"no_bet", "wait", "hold"}
        /\ UNCHANGED <<input, position, before>>
    BY <1>4 DEF Engine!EntryIsUnfillable, Engine!WaitOrPass, Engine!Hold, Engine!Decide,
                Engine!Conclude, Engine!NoDecision
  <2> QED BY <2>1, Passes
<1>5. CASE Engine!Buy
  BY <1>5, BuyStep
<1>6. CASE Engine!Sell
  BY <1>6, SellStep
<1>7. CASE Engine!Fill
  BY <1>7, FillStep
<1>8. CASE UNCHANGED Engine!vars
  <2>1. UNCHANGED <<input, position, at, walk, observation, before>>
    BY <1>8 DEF Engine!vars
  <2>2. Engine!Ladder(walk)' = Engine!Ladder(walk)
    BY <2>1 DEF Engine!Ladder
  <2>3. (WalkIsTyped' <=> WalkIsTyped) /\ (WalkPays' <=> WalkPays)
    BY <2>1, <2>2 DEF WalkIsTyped, WalkPays
  <2>4. \A b, m : /\ WasBought(b, m)' <=> WasBought(b, m)
                  /\ WouldSell(b, m)' <=> WouldSell(b, m)
    BY <2>1 DEF WasBought, WouldSell, Asks, Bids, Engine!Probability
  <2> QED BY <2>1, <2>3, <2>4 DEF EngineInv
<1> QED BY <1>1, <1>2, <1>3, <1>4, <1>5, <1>6, <1>7, <1>8
        DEF Engine!Next, Engine!Quote, Engine!Action, Engine!Stands

LEMMA EngineInit ==
    ASSUME Engine!EngineLimits, Engine!Init PROVE EngineInv
<1>1. /\ input \in Inputs /\ position = input.position /\ at = "gates"
      /\ (input.book # None => Engine!IsBook(input.book))
      /\ observation = Engine!NoDecision /\ before = Engine!NoDecision
  BY DEF Engine!Init
<1>2. position # None => position.outcome \in Engine!Outcomes /\ position.shares \in Nat
  BY <1>1 DEF Engine!EngineLimits
<1>3. observation.action = None /\ before.action = None /\ None # "buy" /\ None # "sell"
  BY <1>1 DEF Engine!NoDecision, Engine!EngineLimits
<1> QED BY <1>1, <1>2, <1>3 DEF EngineInv

\* DecisionEngine.evaluate does not sell what it has just bought: on the book
\* the entry was filled on, with the probability it was bought at, a sale means
\* that the best bid is not below the best ask.
THEOREM NoSaleOfWhatWasBought ==
    ASSUME Engine!EngineLimits, Engine!RoundingIsSmall
    PROVE  /\ Engine!Spec => []Engine!NoRoundTrip
           /\ MCSpec => []NoRoundTrip
<1>1. ASSUME EngineInv PROVE Engine!NoRoundTrip
  <2>0. SUFFICES ASSUME observation.action = "sell", before.action = "buy",
                        ~Engine!IsCrossed(input.book[observation.target])
                 PROVE  FALSE
    BY DEF Engine!NoRoundTrip
  <2>1. PICK o, S : o = position.outcome /\ S = position.shares
    OBVIOUS
  <2>2. WasBought(o, S) /\ WouldSell(o, S) /\ observation.target = o
    BY <1>1, <2>0, <2>1 DEF EngineInv
  <2>3. PICK A, B, P : A = Asks(o) /\ B = Bids(o) /\ P = Engine!Probability(o)
    OBVIOUS
  <2>4. /\ A \in Seq(Engine!Levels) /\ B \in Seq(Engine!Levels) /\ P \in Int
        /\ One \in Nat /\ MinOrder \in Nat /\ BuyEdge \in Int /\ SellEdge \in Int
    <3>1. /\ input \in Inputs /\ input.book # None /\ o \in Engine!Outcomes
          /\ A = input.book[o].asks /\ B = input.book[o].bids
      BY <1>1, <2>2, <2>3 DEF EngineInv, WasBought, Asks, Bids
    <3>2. A \in Seq(Engine!Levels) /\ B \in Seq(Engine!Levels)
      BY <3>1 DEF Engine!EngineLimits
    <3>3. One \in Nat /\ input.prediction.first \in Int
      BY <3>1 DEF Engine!EngineLimits
    <3>4. P \in Int
      BY <2>3, <3>3 DEF Engine!Probability
    <3>5. MinOrder \in Nat /\ BuyEdge \in Int /\ SellEdge \in Int
      BY DEF Engine!EngineLimits
    <3> QED BY <3>2, <3>3, <3>4, <3>5
  <2>5. PICK ask, bid, x, y :
            ask = Best(A) /\ bid = Best(B) /\ x = One * Len(A) /\ y = One * Len(B)
    OBVIOUS
  <2>6. /\ S \in Nat /\ S >= MinOrder /\ A # <<>> /\ B # <<>>
        /\ 2 * (ask * S) <= 2 * ((P - BuyEdge) * S) + x
        /\ 2 * ((P + SellEdge) * S) <= 2 * (bid * S) + y
    BY <2>2, <2>3, <2>5 DEF WasBought, WouldSell
  <2>7. ask \in Nat /\ bid \in Nat /\ x \in Nat /\ y \in Nat
    <3>1. ASSUME NEW ladder \in Seq(Engine!Levels), ladder # <<>>
          PROVE  Best(ladder) \in Nat /\ One * Len(ladder) \in Nat
      <4>1. ladder[1] \in Engine!Levels
        BY <3>1
      <4>2. Best(ladder) \in Nat
        BY <3>1, <4>1 DEF Best, Engine!Levels
      <4>3. Len(ladder) \in Nat
        BY <3>1
      <4> QED BY <2>4, <4>2, <4>3
    <3> QED BY <2>4, <2>5, <2>6, <3>1
  <2>8. bid < ask
    <3>1. PICK b : b = input.book[o]
      OBVIOUS
    <3>2. A = b.asks /\ B = b.bids /\ ~Engine!IsCrossed(b)
      BY <2>0, <2>2, <2>3, <3>1 DEF Asks, Bids
    <3>3. ask = A[1].price /\ bid = B[1].price
      BY <2>5, <2>6 DEF Best
    <3>4. ~(bid >= ask)
      BY <2>6, <3>2, <3>3 DEF Engine!IsCrossed
    <3> QED BY <2>7, <3>4
  <2>9. x + y < 2 * ((BuyEdge + SellEdge + 1) * MinOrder)
    <3>1. One * (Len(A) + Len(B)) < 2 * ((BuyEdge + SellEdge + 1) * MinOrder)
      BY <1>1, <2>2, <2>3 DEF Engine!RoundingIsSmall, EngineInv, WasBought, Asks, Bids
    <3>2. One * (Len(A) + Len(B)) = One * Len(A) + One * Len(B)
      BY <2>4
    <3> QED BY <2>5, <3>1, <3>2
  <2> QED BY <2>4, <2>6, <2>7, <2>8, <2>9, NoRoom, Zenon
<1>2. Engine!Init => EngineInv
  BY EngineInit
<1>3. EngineInv /\ [Engine!Next]_(Engine!vars) => EngineInv'
  BY EngineNext
<1>4. EngineInv => Engine!NoRoundTrip
  BY <1>1
<1>5. Engine!Spec => []Engine!NoRoundTrip
  BY <1>2, <1>3, <1>4, PTL DEF Engine!Spec
<1>6. MCInit => (scope = "engine" => EngineInv)
  BY <1>2, PartStarts
<1>7. (scope = "engine" => EngineInv) /\ [MCNext]_everything => (scope = "engine" => EngineInv)'
  BY <1>3, PartSteps
<1>8. (scope = "engine" => EngineInv) => NoRoundTrip
  BY <1>4 DEF NoRoundTrip
<1>9. MCSpec => []NoRoundTrip
  BY <1>6, <1>7, <1>8, PTL DEF MCSpec, everything
<1> QED BY <1>5, <1>9

\* A finite set of numbers that is not empty has its largest: by induction over
\* its subsets.
LEMMA LargestIsThere ==
    ASSUME NEW S, S \subseteq Int, IsFiniteSet(S), S # {}
    PROVE  Engine!Max(S) \in S /\ \A y \in S : Engine!Max(S) >= y
<1> DEFINE Bad == {T \in FiniteSubsetsOf(S) :
                      T # {} /\ ~ \E x \in T : \A y \in T : x >= y}
<1>1. Bad = {}
  <2> SUFFICES ASSUME Bad # {} PROVE FALSE
    OBVIOUS
  <2>1. IsWellFoundedOn(StrictSubsetOrdering(S), FiniteSubsetsOf(S))
    BY FS_StrictSubsetOrderingWellFounded
  <2>2. Bad \subseteq FiniteSubsetsOf(S)
    OBVIOUS
  <2> HIDE DEF Bad
  <2>3. PICK T \in Bad : \A U \in Bad : <<U, T>> \notin StrictSubsetOrdering(S)
    BY <2>1, <2>2, WFMin
  <2>4. /\ T \subseteq S /\ IsFiniteSet(T) /\ T # {}
        /\ ~ \E x \in T : \A y \in T : x >= y
    BY DEF Bad, FiniteSubsetsOf
  <2>5. PICK z \in T : TRUE
    BY <2>4
  <2>6. T \ {z} # {}
    BY <2>4
  <2>7. T \ {z} \in FiniteSubsetsOf(S)
    BY <2>4, FS_RemoveElement DEF FiniteSubsetsOf
  <2>8. <<T \ {z}, T>> \in StrictSubsetOrdering(S)
    BY <2>4 DEF StrictSubsetOrdering
  <2>9. PICK x \in T \ {z} : \A y \in T \ {z} : x >= y
    BY <2>3, <2>6, <2>7, <2>8 DEF Bad
  <2>10. x \in Int /\ z \in Int /\ \A y \in T : y \in Int
    BY <2>4
  <2> QED BY <2>4, <2>9, <2>10
<1>2. S \in FiniteSubsetsOf(S)
  BY DEF FiniteSubsetsOf
<1>3. \E x \in S : \A y \in S : x >= y
  BY <1>1, <1>2
<1> QED BY <1>3 DEF Engine!Max

LEMMA CapIsANumber ==
    ASSUME Engine!EngineLimits, NEW probability PROVE Engine!CapOf(probability) \in Nat
<1> DEFINE worth == {p \in 1..One : Engine!FeeUnit * (probability - p - BuyEdge)
                                        >= Engine!FeeOf(p)}
<1>1. IsFiniteSet(1..One) /\ 1..One \subseteq Nat
  BY FS_Interval DEF Engine!EngineLimits
<1>2. worth \subseteq 1..One
  OBVIOUS
<1>3. Engine!CapOf(probability) = IF worth = {} THEN 0 ELSE Engine!Max(worth)
  BY DEF Engine!CapOf
<1> HIDE DEF worth
<1>4. worth \subseteq Nat /\ worth \subseteq Int /\ worth \in SUBSET (1..One)
  BY <1>1, <1>2
<1>5. IsFiniteSet(worth)
  BY <1>1, <1>4, FS_Subset
<1>6. worth # {} => Engine!Max(worth) \in worth
  BY <1>4, <1>5, LargestIsThere
<1>7. CASE worth = {}
  BY <1>3, <1>7
<1>8. CASE worth # {}
  <2>1. Engine!CapOf(probability) = Engine!Max(worth)
    BY <1>3, <1>8
  <2> QED BY <1>4, <1>6, <1>8, <2>1
<1> QED BY <1>7, <1>8

\* Nothing is quoted on stale data, and what is concluded is accepted.
AcceptInv ==
    /\ at = "walk" => ~input.stale /\ ~input.gap
    /\ Engine!ObservationIsAccepted

\* A decision that neither buys nor sells and has its reason is accepted.
LEMMA DecideStep ==
    ASSUME NEW a \in {"market_only", "no_bet", "hold"}, NEW r, NEW t,
           Engine!Decide(a, r, t), Engine!NoneIsNoValue, a = "hold" \/ r # None
    PROVE  AcceptInv'
<1>1. /\ observation'.action = a /\ observation'.reason = r /\ observation'.quote = None
      /\ at' = "done" /\ input' = input
  BY DEF Engine!Decide, Engine!NoDecision
<1> QED BY <1>1 DEF AcceptInv, Engine!ObservationIsAccepted, Engine!IsAccepted

\* A quote is no missing value.
LEMMA QuoteIsThere ==
    ASSUME Engine!EngineLimits, Engine!NoneIsNoValue, EngineInv, at = "walk"
    PROVE  walk # None /\ walk.outcome # None
<1>1. WalkIsTyped
  BY DEF EngineInv
<1>2. PICK s \in {"entry", "exit"}, o \in Engine!Outcomes, l \in Nat, n \in Nat, x \in Nat,
            c \in Nat, f \in Nat :
          /\ walk = [side |-> s, outcome |-> o, level |-> l, left |-> n, shares |-> x,
                     cost |-> c, fee |-> f]
          /\ walk.outcome = o
  BY <1>1 DEF WalkIsTyped
<1>3. walk \in Engine!Walks
  BY <1>2 DEF Engine!Walks
<1> QED BY <1>2, <1>3 DEF Engine!NoneIsNoValue, Engine!Outcomes

LEMMA AcceptNext ==
    ASSUME Engine!EngineLimits, Engine!NoneIsNoValue, EngineInv, AcceptInv,
           [Engine!Next]_(Engine!vars)
    PROVE  AcceptInv'
<1>n. \A r \in Engine!Reasons : r # None
  BY DEF Engine!NoneIsNoValue
<1>d. ASSUME NEW a \in {"market_only", "no_bet", "hold"}, NEW r \in Engine!Reasons, NEW t,
             Engine!Decide(a, r, t)
      PROVE  AcceptInv'
  BY <1>n, <1>d, DecideStep
<1>s. Engine!Overlay # None => Engine!Overlay \in Engine!Reasons
  BY DEF Engine!Overlay, Engine!Reasons
<1>1. CASE Engine!Unmapped
  BY <1>1, <1>d DEF Engine!Unmapped, Engine!Reasons
<1>2. CASE Engine!RulesFail
  <2>1. PICK r \in {"RULE_CHANGED", "RULES_UNAVAILABLE"} : Engine!Decide("no_bet", r, None)
    BY <1>2 DEF Engine!RulesFail
  <2> QED BY <1>d, <2>1 DEF Engine!Reasons
<1>3. CASE Engine!ModelAbstains
  <2>1. \/ Engine!Decide("market_only", "OUT_OF_DOMAIN", None)
        \/ Engine!Decide("no_bet", "MODEL_UNPROMOTED", None)
        \/ Engine!Decide("no_bet", "DATA_INCOMPLETE", None)
    BY <1>3 DEF Engine!ModelAbstains
  <2> QED BY <1>d, <2>1 DEF Engine!Reasons
<1>4. CASE Engine!PolicyDisabled \/ Engine!ModelDisagrees
  BY <1>4, <1>d DEF Engine!PolicyDisabled, Engine!ModelDisagrees, Engine!Reasons
<1>5. CASE Engine!EntryIsStopped
  <2>1. \/ Engine!Decide("no_bet", "DATA_INCOMPLETE", None)
        \/ Engine!Overlay # None /\ Engine!Decide("no_bet", Engine!Overlay, None)
        \/ Engine!Decide("no_bet", "STALE", None)
    BY <1>5 DEF Engine!EntryIsStopped
  <2>2. PICK r \in Engine!Reasons : Engine!Decide("no_bet", r, None)
    BY <1>s, <2>1 DEF Engine!Reasons
  <2> QED BY <1>d, <2>2
<1>6. CASE Engine!ExitIsStopped
  <2>1. PICK r, t : Engine!Decide("hold", r, t)
    BY <1>6 DEF Engine!ExitIsStopped
  <2> QED BY <2>1, DecideStep
<1>7. CASE Engine!StartEntry \/ Engine!StartExit
  <2>1. Engine!Overlay = None /\ at' = "walk" /\ input' = input
    BY <1>7 DEF Engine!StartEntry, Engine!StartExit
  <2>2. None # "STALE" /\ None # "GAP"
    BY <1>n DEF Engine!Reasons
  <2>3. ~input.stale /\ ~input.gap
    BY <2>1, <2>2 DEF Engine!Overlay
  <2> QED BY <2>1, <2>3 DEF AcceptInv, Engine!ObservationIsAccepted
<1>8. CASE Engine!WalkLevel
  <2>1. at = "walk" /\ at' = "walk" /\ input' = input
    BY <1>8 DEF Engine!WalkLevel, Engine!InWalk
  <2> QED BY <2>1 DEF AcceptInv, Engine!ObservationIsAccepted
<1>9. CASE Engine!EntryIsUnfillable
  BY <1>9, <1>d DEF Engine!EntryIsUnfillable, Engine!Reasons
<1>10. CASE Engine!WaitOrPass
  <2>1. CASE Engine!Decide("no_bet", "NO_NET_EDGE", None)
    BY <1>d, <2>1 DEF Engine!Reasons
  <2>2. CASE Engine!Conclude([Engine!NoDecision EXCEPT !.action = "wait",
                 !.target = walk.outcome, !.cap = Engine!CapOf(Engine!Probability(walk.outcome))])
    <3>1. /\ observation'.action = "wait" /\ observation'.target = walk.outcome
          /\ observation'.cap = Engine!CapOf(Engine!Probability(walk.outcome))
          /\ observation'.quote = None /\ input' = input /\ at' = "done"
      BY <2>2 DEF Engine!Conclude, Engine!NoDecision
    <3>2. walk.outcome # None
      BY <1>10, QuoteIsThere DEF Engine!WaitOrPass, Engine!Quoted
    <3>3. observation'.cap # None
      BY <3>1, CapIsANumber DEF Engine!NoneIsNoValue
    <3> QED BY <3>1, <3>2, <3>3
            DEF AcceptInv, Engine!ObservationIsAccepted, Engine!IsAccepted
  <2> QED BY <1>10, <2>1, <2>2 DEF Engine!WaitOrPass
<1>11. CASE Engine!Buy
  <2>1. /\ observation'.action = "buy" /\ observation'.target = walk.outcome
        /\ observation'.quote = walk /\ observation'.edge
        /\ input' = input /\ at' = "done" /\ at = "walk" /\ walk.side = "entry"
    BY <1>11 DEF Engine!Buy, Engine!Conclude, Engine!NoDecision, Engine!Quoted
  <2>2. walk # None /\ walk.outcome # None /\ ~input.stale /\ ~input.gap
    BY <2>1, QuoteIsThere DEF AcceptInv
  <2> QED BY <2>1, <2>2 DEF AcceptInv, Engine!ObservationIsAccepted, Engine!IsAccepted
<1>12. CASE Engine!Sell
  <2>1. /\ observation'.action = "sell" /\ observation'.target = walk.outcome
        /\ observation'.quote = walk
        /\ input' = input /\ at' = "done" /\ at = "walk" /\ walk.side = "exit"
    BY <1>12 DEF Engine!Sell, Engine!Conclude, Engine!NoDecision, Engine!Quoted
  <2>2. walk # None /\ walk.outcome # None /\ ~input.stale /\ ~input.gap
    BY <2>1, QuoteIsThere DEF AcceptInv
  <2> QED BY <2>1, <2>2 DEF AcceptInv, Engine!ObservationIsAccepted, Engine!IsAccepted
<1>13. CASE Engine!Hold
  <2>1. /\ observation'.action = "hold" /\ observation'.quote = None
        /\ input' = input /\ at' = "done"
    BY <1>13 DEF Engine!Hold, Engine!Conclude, Engine!NoDecision
  <2> QED BY <2>1 DEF AcceptInv, Engine!ObservationIsAccepted, Engine!IsAccepted
<1>14. CASE Engine!Fill
  BY <1>14 DEF Engine!Fill, AcceptInv, Engine!ObservationIsAccepted
<1>15. CASE UNCHANGED Engine!vars
  BY <1>15 DEF Engine!vars, AcceptInv, Engine!ObservationIsAccepted, Engine!IsAccepted
<1> QED BY <1>1, <1>2, <1>3, <1>4, <1>5, <1>6, <1>7, <1>8, <1>9, <1>10, <1>11, <1>12, <1>13,
           <1>14, <1>15
        DEF Engine!Next, Engine!Gates, Engine!Quote, Engine!Action, Engine!Stands

\* DecisionEngine.evaluate concludes nothing that the validator of
\* DecisionObservation raises for: no BUY or SELL on stale data, each action
\* with what it needs.
THEOREM ObservationsAreAccepted ==
    ASSUME Engine!EngineLimits, Engine!NoneIsNoValue
    PROVE  Engine!Spec => []Engine!ObservationIsAccepted
<1>1. Engine!Init => EngineInv /\ AcceptInv
  BY EngineInit DEF Engine!Init, AcceptInv, Engine!ObservationIsAccepted
<1>2. EngineInv /\ AcceptInv /\ [Engine!Next]_(Engine!vars) => (EngineInv /\ AcceptInv)'
  BY EngineNext, AcceptNext
<1>3. AcceptInv => Engine!ObservationIsAccepted
  BY DEF AcceptInv
<1> QED BY <1>1, <1>2, <1>3, PTL DEF Engine!Spec

-----------------------------------------------------------------------------
(* The cap of a WAIT against the gate of a BUY                             *)

\* An entry pays for what it holds: no lot rounds to shares that cost nothing.
SharesCost(w) == w.shares > 0 => w.cost > 0
CapInv == EngineInv /\ (at = "walk" /\ walk.side = "entry" => SharesCost(walk))

LEMMA Scaled ==
    ASSUME NEW r \in Nat, NEW a \in Int, NEW b \in Int, a <= b
    PROVE  r * a <= r * b /\ r * a \in Int /\ r * b \in Int
<1>1. r * (b - a) >= 0
  OBVIOUS
<1>2. r * (b - a) = r * b - r * a
  OBVIOUS
<1> QED BY <1>1, <1>2

LEMMA LotCosts ==
    ASSUME NEW w, w.left \in Nat, NEW level, level.price \in Nat \ {0},
           level.size \in Nat, NEW take, take = Engine!EntryTake(w, level)
    PROVE  /\ take.cost \in Nat /\ take.shares \in Nat
           /\ take.shares > 0 => take.cost > 0
<1> DEFINE p == level.price
           full == level.size * p
           c == Engine!Least(w.left, full)
           s == Engine!HalfUp(c, p)
<1>1. full \in Nat
  OBVIOUS
<1> HIDE DEF full
<1>2. c \in Nat
  BY <1>1 DEF Engine!Least
<1>3. take.cost = c /\ take.shares = s
  BY DEF Engine!EntryTake, full
<1> HIDE DEF c
<1>4. s = (2 * c + p) \div (2 * p)
  BY DEF Engine!HalfUp
<1>5. s \in Nat
  BY <1>2, <1>4
<1>6. c = 0 => s = 0
  BY <1>4
<1> QED BY <1>2, <1>3, <1>5, <1>6

LEMMA CapStep ==
    ASSUME Engine!EngineLimits, CapInv, Engine!WalkLevel
    PROVE  CapInv'
<1>1. /\ at = "walk" /\ walk.level <= Len(Engine!Ladder(walk))
      /\ UNCHANGED <<input, at>>
  BY DEF Engine!WalkLevel, Engine!InWalk
<1>2. EngineInv' /\ WalkIsTyped
  BY <1>1, WalkStep DEF CapInv, EngineInv
<1>3. PICK level, take :
          level = Engine!Ladder(walk)[walk.level] /\ take = Engine!Take(walk, level)
  OBVIOUS
<1>4. walk.side \in {"entry", "exit"} /\ walk.left \in Nat /\ walk.shares \in Nat /\ walk.cost \in Nat
  BY <1>2 DEF WalkIsTyped
<1>5. /\ walk'.side = walk.side
      /\ IF take.shares <= 0 THEN walk'.shares = walk.shares /\ walk'.cost = walk.cost
         ELSE walk'.shares = walk.shares + take.shares /\ walk'.cost = walk.cost + take.cost
  BY <1>2, <1>3 DEF Engine!WalkLevel, WalkIsTyped
<1> SUFFICES ASSUME walk.side = "entry" PROVE SharesCost(walk')
  BY <1>1, <1>2, <1>5 DEF CapInv, SharesCost
<1>6. level.price \in Nat \ {0} /\ level.size \in Nat
  BY <1>1, <1>2, <1>3, LadderFacts DEF CapInv, WalkIsTyped
<1>7. take.cost \in Nat /\ take.shares \in Nat /\ (take.shares > 0 => take.cost > 0)
  BY <1>3, <1>4, <1>6, LotCosts DEF Engine!Take
<1> QED BY <1>1, <1>4, <1>5, <1>7 DEF CapInv, SharesCost

LEMMA CapNext ==
    ASSUME Engine!EngineLimits, CapInv, [Engine!Next]_(Engine!vars)
    PROVE  CapInv'
<1>1. EngineInv'
  BY EngineNext DEF CapInv
<1>2. CASE Engine!WalkLevel
  BY <1>2, CapStep
<1>3. CASE Engine!StartEntry \/ Engine!StartExit
  <2>1. walk'.shares = 0
    BY <1>3 DEF Engine!StartEntry, Engine!StartExit, Engine!NewWalk
  <2> QED BY <1>1, <2>1 DEF CapInv, SharesCost
<1>4. CASE at' # "walk"
  BY <1>1, <1>4 DEF CapInv
<1>5. CASE UNCHANGED Engine!vars
  BY <1>1, <1>5 DEF CapInv, Engine!vars, SharesCost
<1>6. ASSUME Engine!Gates \/ Engine!Action \/ Engine!Fill PROVE at' # "walk"
  BY <1>6 DEF Engine!Gates, Engine!Action, Engine!Fill, Engine!Unmapped, Engine!RulesFail,
      Engine!ModelAbstains, Engine!PolicyDisabled, Engine!ModelDisagrees, Engine!EntryIsStopped,
      Engine!ExitIsStopped, Engine!EntryIsUnfillable, Engine!Buy, Engine!WaitOrPass, Engine!Sell,
      Engine!Hold, Engine!Decide, Engine!Conclude
<1> QED BY <1>2, <1>3, <1>4, <1>5, <1>6 DEF Engine!Next, Engine!Quote, Engine!Stands

\* The cap is zero, or a price that leaves the edge.
LEMMA CapLeavesTheEdge ==
    ASSUME Engine!EngineLimits, NEW probability
    PROVE  LET cap == Engine!CapOf(probability) IN
           cap = 0 \/ /\ cap \in 1..One
                      /\ Engine!FeeUnit * (probability - cap - BuyEdge) >= Engine!FeeOf(cap)
<1> DEFINE worth == {p \in 1..One : Engine!FeeUnit * (probability - p - BuyEdge)
                                        >= Engine!FeeOf(p)}
<1>1. IsFiniteSet(1..One) /\ 1..One \subseteq Int
  <2>1. 1 \in Int /\ One \in Int
    BY DEF Engine!EngineLimits
  <2>2. IsFiniteSet(1..One)
    BY <2>1, FS_Interval
  <2> QED BY <2>1, <2>2
<1>2. worth \subseteq 1..One
  OBVIOUS
<1>3. Engine!CapOf(probability) = IF worth = {} THEN 0 ELSE Engine!Max(worth)
  BY DEF Engine!CapOf
<1>4. \A p \in worth : /\ p \in 1..One
                       /\ Engine!FeeUnit * (probability - p - BuyEdge) >= Engine!FeeOf(p)
  OBVIOUS
<1> HIDE DEF worth
<1>5. worth \subseteq Int /\ IsFiniteSet(worth)
  BY <1>1, <1>2, FS_Subset
<1>6. worth # {} => Engine!Max(worth) \in worth
  BY <1>5, LargestIsThere
<1> QED BY <1>3, <1>4, <1>6

\* max_acceptable_average_price solves for one price the gate that evaluate
\* applies to an order charged level by level.  For every fee rate and exponent,
\* every edge, stake and book, an order that is on average within the highest price
\* shown with a WAIT, and is charged on average no more than the fee of that
\* price, is one that a BUY would take.
THEOREM CapsAreSafeAtTheirFee ==
    ASSUME Engine!EngineLimits
    PROVE  Engine!Spec => []Engine!CapIsSafeAtItsFee
<1>1. ASSUME CapInv PROVE Engine!CapIsSafeAtItsFee
  <2>1. PICK pr, cap, s, c :
            /\ pr = Engine!Probability(walk.outcome) /\ cap = Engine!CapOf(pr)
            /\ s = walk.shares /\ c = walk.cost
    OBVIOUS
  <2> SUFFICES ASSUME Engine!Quoted, walk.side = "entry", Engine!IsFillable(walk),
                      c <= cap * s, walk.fee <= Engine!FeeOf(cap) * s
               PROVE  Engine!Buys(walk)
    BY <2>1 DEF Engine!CapIsSafeAtItsFee
  <2>2. /\ s \in Nat \ {0} /\ c \in Nat \ {0} /\ walk.fee \in Nat /\ pr \in Int
    <3>1. EngineInv /\ at = "walk" /\ SharesCost(walk) /\ walk.shares > 0
      BY <1>1 DEF CapInv, Engine!Quoted, Engine!IsFillable
    <3>2. walk.shares \in Nat /\ walk.cost \in Nat /\ walk.fee \in Nat /\ pr \in Int
      BY <2>1, <3>1, QuoteFacts
    <3> QED BY <2>1, <3>1, <3>2 DEF SharesCost
  <2>3. cap = 0 \/ /\ cap \in 1..One
                   /\ Engine!FeeUnit * (pr - cap - BuyEdge) >= Engine!FeeOf(cap)
    BY <2>1, CapLeavesTheEdge
  <2>4. cap # 0
    BY <2>2
  <2>5. PICK u, fee : u = Engine!FeeUnit /\ fee = Engine!FeeOf(cap)
    OBVIOUS
  <2>6. u \in Nat /\ One \in Nat /\ BuyEdge \in Int /\ fee \in Nat /\ cap \in Nat
    BY <2>3, <2>4, <2>5 DEF Engine!EngineLimits
  <2>7. PICK rest \in Int : rest = pr - cap - BuyEdge
    BY <2>2, <2>6
  <2>8. fee <= u * rest /\ u * rest \in Int
    BY <2>3, <2>4, <2>5, <2>6, <2>7
  <2>9. fee * s <= u * (rest * s)
    <3>1. s * fee <= s * (u * rest)
      BY <2>2, <2>6, <2>8, Scaled
    <3>2. s * (u * rest) = u * (rest * s) /\ s * fee = fee * s
      BY <2>2, <2>6
    <3> QED BY <3>1, <3>2
  <2>10. u * (rest * s) <= u * ((pr - BuyEdge) * s - c)
    <3>1. rest * s = (pr - BuyEdge) * s - cap * s
      BY <2>2, <2>6, <2>7
    <3>2. cap * s \in Int /\ (pr - BuyEdge) * s \in Int
      BY <2>2, <2>6
    <3>3. rest * s <= (pr - BuyEdge) * s - c
      BY <2>2, <3>1, <3>2
    <3> QED BY <2>2, <2>6, <3>1, <3>2, <3>3, Scaled
  <2>11. u * ((pr - BuyEdge) * s - c) >= walk.fee
    <3>1. u * (rest * s) \in Int /\ u * ((pr - BuyEdge) * s - c) \in Int /\ fee * s \in Int
      BY <2>2, <2>6
    <3> QED BY <2>2, <2>5, <2>9, <2>10, <3>1
  <2> QED BY <2>1, <2>5, <2>11 DEF Engine!Buys, Engine!EdgeAtLeast
<1>2. Engine!Init => CapInv
  BY EngineInit DEF CapInv, Engine!Init
<1>3. CapInv /\ [Engine!Next]_(Engine!vars) => CapInv'
  BY CapNext
<1>4. CapInv => Engine!CapIsSafeAtItsFee
  BY <1>1
<1> QED BY <1>2, <1>3, <1>4, PTL DEF Engine!Spec

-----------------------------------------------------------------------------
(* The launcher and its children                                           *)

\* A signal is sent only in a step that has just proved whose the PID is.
LEMMA SignalsAreOwned ==
    ASSUME Launcher!ForeignIsSpared, [Launcher!Next]_(Launcher!vars)
    PROVE  Launcher!ForeignIsSpared'
<1> USE DEF Launcher!ForeignIsSpared, Launcher!childVars
<1>1. ASSUME NEW t \in Launcher!Tokens,
             \/ Launcher!ChildExits(t) \/ Launcher!WrapperDies(t) \/ Launcher!PidIsReused(t)
             \/ Launcher!Acquire(t) \/ Launcher!ProbeSucceeds(t) \/ Launcher!PersistHealth(t)
             \/ Launcher!OwnerIsLost(t)
      PROVE  ~hurt'
  BY <1>1 DEF Launcher!ChildExits, Launcher!WrapperDies, Launcher!PidIsReused,
     Launcher!Acquire, Launcher!ProbeSucceeds, Launcher!PersistHealth, Launcher!OwnerIsLost
<1>2. ASSUME NEW l \in Launchers, NEW t \in Launcher!Tokens,
             Launcher!Terminate(l, t) \/ Launcher!Kill(l, t)
      PROVE  ~hurt'
  BY <1>2 DEF Launcher!Terminate, Launcher!Kill, Launcher!Signalled, Launcher!Owned,
     Launcher!ProvedAgain
<1>3. ASSUME NEW l \in Launchers,
             \/ Launcher!Invoke(l) \/ Launcher!Killed(l) \/ Launcher!Compose(l)
             \/ Launcher!Record(l) \/ Launcher!Migrate(l) \/ Launcher!Fill(l)
             \/ Launcher!MarkInitialized(l) \/ Launcher!Probe(l) \/ Launcher!Check(l)
             \/ Launcher!Spawn(l)
      PROVE  ~hurt'
  BY <1>3 DEF Launcher!Invoke, Launcher!Killed, Launcher!Compose, Launcher!Record,
     Launcher!Migrate, Launcher!Fill, Launcher!MarkInitialized, Launcher!Probe,
     Launcher!Check, Launcher!Spawn
<1>4. ASSUME NEW l \in Launchers,
             \/ Launcher!SpawnFails(l) \/ Launcher!SaveSpawned(l) \/ Launcher!WaitForChild(l)
             \/ Launcher!FailedUp(l) \/ Launcher!ProcessesDown(l) \/ Launcher!ContainersDown(l)
             \/ Launcher!Forget(l)
      PROVE  ~hurt'
  BY <1>4 DEF Launcher!SpawnFails, Launcher!SaveSpawned, Launcher!WaitForChild,
     Launcher!FailedUp, Launcher!ProcessesDown, Launcher!ContainersDown, Launcher!Forget
<1>5. CASE \/ Launcher!SessionIsLost \/ UNCHANGED Launcher!vars
           \/ \E s \in Services : Launcher!UserCompose(s)
  BY <1>5 DEF Launcher!SessionIsLost, Launcher!UserCompose, Launcher!vars
<1> QED BY <1>1, <1>2, <1>3, <1>4, <1>5 DEF Launcher!Next

\* Whatever becomes of PIDs between the record, the check and the end of the
\* grace period, and however commands overlap or are killed, _stop_process
\* signals no process that is not a child of the launcher.
THEOREM OnlyChildrenAreSignalled ==
    /\ Launcher!Spec => []Launcher!ForeignIsSpared
    /\ MCSpec => []ForeignIsSpared
<1>1. Launcher!Init => Launcher!ForeignIsSpared
  BY DEF Launcher!Init, Launcher!ForeignIsSpared
<1>2. Launcher!Spec => []Launcher!ForeignIsSpared
  BY <1>1, SignalsAreOwned, PTL DEF Launcher!Spec
<1>3. MCInit => ForeignIsSpared
  BY <1>1, PartStarts DEF ForeignIsSpared
<1>4. ForeignIsSpared /\ [MCNext]_everything => ForeignIsSpared'
  BY PartSteps, SignalsAreOwned DEF ForeignIsSpared
<1>5. MCSpec => []ForeignIsSpared
  BY <1>3, <1>4, PTL DEF MCSpec, everything
<1> QED BY <1>2, <1>5

\* A child that is not starting any more has had the lock, or has ended: up
\* went on from its first child, the runtime, only then.
Size(l) == Cardinality(DOMAIN fresh[l])
Waits(l) == Size(l) = 1 /\ phase[l] # "spawn"
Early == {"idle", "compose", "record", "probe", "check"}
Child(l) ==
    /\ phase[l] \in Early => fresh[l] = <<>>
    /\ Size(l) \in Nat /\ DOMAIN fresh[l] = 1..Size(l)
    /\ Size(l) > 0 =>
           /\ fresh[l][1] \in 1..spawned /\ role[fresh[l][1]] = "runtime"
           /\ Waits(l) \/ daemon[fresh[l][1]] # "starting"
UpInv ==
    /\ spawned \in 0..MaxSpawns /\ row \in 0..spawned
    /\ daemon = [t \in 1..MaxSpawns |-> daemon[t]] /\ role = [t \in 1..MaxSpawns |-> role[t]]
    /\ phase = [l \in Launchers |-> phase[l]] /\ fresh = [l \in Launchers |-> fresh[l]]
    /\ row # 0 => daemon[row] # "starting"
    /\ \A t \in 1..MaxSpawns : daemon[t] # "gone" => t <= spawned
    /\ \A l \in Launchers : Child(l)

LEMMA SizeIsTheLaunchers == \A S : Launcher!Cardinality(S) = Cardinality(S)
BY DEF Launcher!Cardinality, Cardinality

LEMMA NothingSpawned == Cardinality(DOMAIN <<>>) = 0 /\ DOMAIN <<>> = 1..0
<1>1. DOMAIN <<>> = 1..0 /\ 1..0 = {}
  OBVIOUS
<1> QED BY <1>1, FS_EmptySet

\* A step that spawns nothing
LEMMA UpKept ==
    ASSUME MaxSpawns \in Nat, UpInv, spawned' = spawned, role' = role,
           daemon' = [t \in 1..MaxSpawns |-> daemon'[t]],
           \A t \in 1..MaxSpawns : /\ daemon'[t] = "starting" => daemon[t] = "starting"
                                   /\ daemon'[t] # "gone" => daemon[t] # "gone",
           row' \in {0, row} \/ (row' \in 1..spawned /\ daemon'[row'] # "starting"),
           phase' = [l \in Launchers |-> phase'[l]], fresh' = [l \in Launchers |-> fresh'[l]],
           \A l \in Launchers :
               \/ fresh'[l] = <<>>
               \/ /\ fresh'[l] = fresh[l]
                  /\ phase'[l] \in Early => phase[l] \in Early
                  /\ \/ phase'[l] # "spawn" \/ phase[l] = "spawn" \/ Size(l) # 1
                     \/ daemon[fresh[l][1]] # "starting"
    PROVE  UpInv'
<1>1. ASSUME NEW l \in Launchers PROVE Child(l)'
  <2>1. CASE fresh'[l] = <<>>
    <3>1. Size(l)' = 0 /\ DOMAIN fresh'[l] = 1..0
      BY <2>1, NothingSpawned, Zenon DEF Size
    <3> QED BY <2>1, <3>1 DEF Child
  <2>2. CASE fresh'[l] # <<>>
    <3>1. fresh'[l] = fresh[l] /\ Size(l)' = Size(l)
      BY <2>2, Zenon DEF Size
    <3>2. Child(l) /\ spawned \in 0..MaxSpawns
      BY DEF UpInv
    <3>3. /\ Size(l)' \in Nat /\ DOMAIN fresh'[l] = 1..Size(l)'
          /\ Size(l)' > 0 => fresh'[l][1] \in 1..spawned' /\ role'[fresh'[l][1]] = "runtime"
      BY <3>1, <3>2 DEF Child
    <3>4. ASSUME Size(l) > 0, ~Waits(l)' PROVE daemon'[fresh[l][1]] # "starting"
      <4>1. daemon[fresh[l][1]] # "starting"
        BY <2>2, <3>1, <3>2, <3>4 DEF Child, Waits
      <4> QED BY <3>2, <3>4, <4>1 DEF Child
    <3>5. Size(l)' > 0 => Waits(l)' \/ daemon'[fresh'[l][1]] # "starting"
      BY <3>1, <3>4, Zenon
    <3>6. phase'[l] \in Early => fresh'[l] = <<>>
      BY <2>2, <3>1, <3>2 DEF Child
    <3> QED BY <3>3, <3>5, <3>6, Zenon DEF Child
  <2> QED BY <2>1, <2>2
<1>2. row' \in 0..spawned' /\ (row' # 0 => daemon'[row'] # "starting")
  <2>1. spawned \in 0..MaxSpawns /\ row \in 0..spawned /\ (row # 0 => daemon[row] # "starting")
    BY DEF UpInv
  <2>2. CASE row' = row
    <3>1. row # 0 => row \in 1..MaxSpawns
      BY <2>1
    <3> QED BY <2>1, <2>2, <3>1
  <2>3. CASE row' = 0
    BY <2>1, <2>3
  <2>4. CASE row' \in 1..spawned /\ daemon'[row'] # "starting"
    BY <2>1, <2>4
  <2> QED BY <2>2, <2>3, <2>4
<1>3. \A t \in 1..MaxSpawns : daemon'[t] # "gone" => t <= spawned'
  BY DEF UpInv
<1>4. /\ spawned' \in 0..MaxSpawns /\ role' = [t \in 1..MaxSpawns |-> role'[t]]
  BY DEF UpInv
<1> QED BY <1>1, <1>2, <1>3, <1>4, Zenon DEF UpInv

LEMMA UpStep ==
    ASSUME Launcher!LauncherLimits, UpInv, [Launcher!Next]_(Launcher!vars) PROVE UpInv'
<1> USE DEF Launcher!childVars, Launcher!callVars, Launcher!Tokens, Launcher!Goto, Launcher!ends
<1>0. /\ spawned \in 0..MaxSpawns /\ row \in 0..spawned
      /\ daemon = [t \in 1..MaxSpawns |-> daemon[t]] /\ role = [t \in 1..MaxSpawns |-> role[t]]
      /\ phase = [l \in Launchers |-> phase[l]] /\ fresh = [l \in Launchers |-> fresh[l]]
      /\ row # 0 => daemon[row] # "starting"
      /\ \A t \in 1..MaxSpawns : daemon[t] # "gone" => t <= spawned
  BY DEF UpInv
<1> DEFINE Lives == /\ spawned' = spawned /\ role' = role
                    /\ daemon' = [t \in 1..MaxSpawns |-> daemon'[t]]
                    /\ \A t \in 1..MaxSpawns :
                           /\ daemon'[t] = "starting" => daemon[t] = "starting"
                           /\ daemon'[t] # "gone" => daemon[t] # "gone"
                    /\ \/ row' \in {0, row}
                       \/ row' \in 1..spawned /\ daemon'[row'] # "starting"
           Goes(l) == \/ fresh'[l] = <<>>
                      \/ /\ fresh'[l] = fresh[l]
                         /\ phase'[l] \in Early => phase[l] \in Early
                         /\ \/ phase'[l] # "spawn" \/ phase[l] = "spawn" \/ Size(l) # 1
                            \/ daemon[fresh[l][1]] # "starting"
           Calls == /\ phase' = [l \in Launchers |-> phase'[l]]
                    /\ fresh' = [l \in Launchers |-> fresh'[l]]
                    /\ \A l \in Launchers : Goes(l)
<1>1. Lives /\ Calls => UpInv'
  BY UpKept DEF Launcher!LauncherLimits
<1>2. UNCHANGED <<spawned, role, daemon, row>> => Lives
  BY <1>0
<1>3. UNCHANGED <<phase, fresh>> => Calls
  BY <1>0
<1>4. ASSUME NEW t \in Launcher!Tokens,
             \/ Launcher!ChildExits(t) \/ Launcher!WrapperDies(t) \/ Launcher!PidIsReused(t)
             \/ Launcher!Acquire(t) \/ Launcher!ProbeSucceeds(t) \/ Launcher!PersistHealth(t)
             \/ Launcher!OwnerIsLost(t)
      PROVE  UpInv'
  <2>1. /\ UNCHANGED <<spawned, role, phase, fresh>> /\ t \in 1..MaxSpawns
        /\ \/ daemon' = daemon
           \/ \E d \in {"gone", "owner", "ready"} :
                 /\ daemon' = [daemon EXCEPT ![t] = d]
                 /\ d = "gone" \/ daemon[t] # "gone"
        /\ row' \in {0, row} \/ (row' = t /\ daemon[t] = "ready" /\ daemon' = daemon)
    BY <1>4 DEF Launcher!ChildExits, Launcher!WrapperDies, Launcher!PidIsReused, Launcher!Gone,
       Launcher!Acquire, Launcher!ProbeSucceeds, Launcher!PersistHealth, Launcher!OwnerIsLost
  <2>2. /\ daemon' = [x \in 1..MaxSpawns |-> daemon'[x]]
        /\ \A x \in 1..MaxSpawns : /\ daemon'[x] = "starting" => daemon[x] = "starting"
                                   /\ daemon'[x] # "gone" => daemon[x] # "gone"
    BY <1>0, <2>1
  <2>3. row' \in {0, row} \/ (row' \in 1..spawned /\ daemon'[row'] # "starting")
    <3>1. CASE row' = t /\ daemon[t] = "ready" /\ daemon' = daemon
      <4>1. t <= spawned /\ t \in 1..MaxSpawns /\ spawned \in Nat
        BY <1>0, <2>1, <3>1
      <4> QED BY <3>1, <4>1
    <3> QED BY <2>1, <3>1
  <2>4. Lives
    BY <2>1, <2>2, <2>3
  <2>5. Calls
    BY <1>3, <2>1
  <2> QED BY <1>1, <2>4, <2>5
<1>5. CASE \/ Launcher!SessionIsLost \/ UNCHANGED Launcher!vars
           \/ \E s \in Services : Launcher!UserCompose(s)
  <2>1. UNCHANGED <<spawned, role, daemon, row, phase, fresh>>
    BY <1>5 DEF Launcher!SessionIsLost, Launcher!UserCompose, Launcher!vars
  <2> QED BY <1>1, <1>2, <1>3, <2>1
<1>6. ASSUME NEW l \in Launchers, UNCHANGED <<spawned, role, daemon, row>>,
             \E p : phase' = [phase EXCEPT ![l] = p],
             \/ fresh' = [fresh EXCEPT ![l] = <<>>]
             \/ /\ fresh' = fresh /\ (phase'[l] \in Early => phase[l] \in Early)
                /\ phase'[l] = "spawn" => Size(l) # 1 \/ daemon[fresh[l][1]] # "starting"
      PROVE  UpInv'
  <2>1. \A k \in Launchers : Goes(k)
    BY <1>0, <1>6
  <2> HIDE DEF Goes
  <2>2. Calls
    BY <1>0, <1>6, <2>1
  <2> QED BY <1>1, <1>2, <1>6, <2>2
<1>7. ASSUME NEW l \in Launchers, UNCHANGED <<spawned, role, daemon, row>>, Launcher!Return(l)
      PROVE  UpInv'
  BY <1>6, <1>7 DEF Launcher!Return
<1>8. ASSUME NEW l \in Launchers, UNCHANGED <<spawned, role, daemon, row>>, fresh' = fresh,
             \E p : /\ p # "spawn" /\ (p \in Early => phase[l] \in Early)
                    /\ phase' = [phase EXCEPT ![l] = p]
      PROVE  UpInv'
  <2>1. /\ phase'[l] # "spawn" /\ (phase'[l] \in Early => phase[l] \in Early)
        /\ \E p : phase' = [phase EXCEPT ![l] = p]
    BY <1>0, <1>8
  <2> QED BY <1>6, <1>8, <2>1
<1>9. ASSUME NEW l \in Launchers,
             \/ Launcher!Invoke(l) \/ Launcher!Compose(l) \/ Launcher!Record(l)
             \/ Launcher!Migrate(l) \/ Launcher!Fill(l) \/ Launcher!Probe(l)
      PROVE  UpInv'
  <2>1. /\ UNCHANGED <<spawned, role, daemon, row>>
        /\ \/ Launcher!Return(l)
           \/ /\ fresh' = fresh
              /\ \E p \in {"down", "compose", "record", "migrate", "probe", "fill", "mark", "check"} :
                    phase' = [phase EXCEPT ![l] = p]
              /\ phase[l] \in Early \/ phase'[l] \notin Early
    BY <1>0, <1>9 DEF Launcher!Invoke, Launcher!Compose, Launcher!Record, Launcher!Migrate,
       Launcher!Fill, Launcher!Probe, Early
  <2> QED BY <1>0, <1>7, <1>8, <2>1
<1>10. ASSUME NEW l \in Launchers, Launcher!Check(l) PROVE UpInv'
  <2>1. /\ UNCHANGED <<spawned, role, daemon, row>>
        /\ \/ Launcher!Return(l)
           \/ fresh' = fresh /\ phase[l] = "check" /\ phase' = [phase EXCEPT ![l] = "spawn"]
    BY <1>10 DEF Launcher!Check
  <2>2. CASE Launcher!Return(l)
    BY <1>7, <2>1, <2>2
  <2>3. CASE ~Launcher!Return(l)
    <3>1. fresh[l] = <<>>
      BY <2>1, <2>3 DEF UpInv, Child, Early
    <3>2. Size(l) # 1
      BY <3>1, NothingSpawned DEF Size
    <3>3. phase'[l] \in Early => phase[l] \in Early
      BY <2>1, <2>3 DEF Early
    <3> QED BY <1>6, <2>1, <2>3, <3>2, <3>3
  <2> QED BY <2>2, <2>3
<1>11. ASSUME NEW l \in Launchers,
              \/ Launcher!Killed(l) \/ Launcher!MarkInitialized(l) \/ Launcher!SpawnFails(l)
              \/ Launcher!FailedUp(l) \/ Launcher!Forget(l)
       PROVE  UpInv'
  <2>1. UNCHANGED <<spawned, role, daemon, row>> /\ Launcher!Return(l)
    BY <1>11 DEF Launcher!Killed, Launcher!MarkInitialized, Launcher!SpawnFails,
       Launcher!FailedUp, Launcher!Forget
  <2> QED BY <1>7, <2>1
<1>12. ASSUME NEW l \in Launchers,
              Launcher!SaveSpawned(l) \/ Launcher!ProcessesDown(l) \/ Launcher!ContainersDown(l)
       PROVE  UpInv'
  <2>1. /\ UNCHANGED <<spawned, role, daemon, row, fresh>>
        /\ \E p \in {"wait", "containers", "forget"} : phase' = [phase EXCEPT ![l] = p]
    BY <1>12 DEF Launcher!SaveSpawned, Launcher!ProcessesDown, Launcher!ContainersDown
  <2> QED BY <1>8, <2>1 DEF Early
<1>13. ASSUME NEW l \in Launchers, NEW t \in Launcher!Tokens,
              Launcher!Terminate(l, t) \/ Launcher!Kill(l, t)
       PROVE  UpInv'
  <2>1. /\ UNCHANGED <<spawned, role, row, fresh>>
        /\ daemon' = daemon \/ daemon' = [daemon EXCEPT ![t] = "gone"]
        /\ \E p \in {"fail", "down", "grace"} : phase' = [phase EXCEPT ![l] = p]
    BY <1>13 DEF Launcher!Terminate, Launcher!Kill, Launcher!Stopped, Launcher!NotStopped,
       Launcher!Gone
  <2>2. Lives
    <3>1. /\ daemon' = [x \in 1..MaxSpawns |-> daemon'[x]]
          /\ \A x \in 1..MaxSpawns : /\ daemon'[x] = "starting" => daemon[x] = "starting"
                                     /\ daemon'[x] # "gone" => daemon[x] # "gone"
      BY <1>0, <2>1
    <3> QED BY <2>1, <3>1
  <2>3. \A k \in Launchers : phase'[k] = phase[k] \/ phase'[k] \in {"fail", "down", "grace"}
    BY <1>0, <2>1
  <2>4. phase' = [k \in Launchers |-> phase'[k]] /\ fresh' = [k \in Launchers |-> fresh'[k]]
    BY <1>0, <2>1
  <2>5. Calls
    BY <2>1, <2>3, <2>4 DEF Early
  <2> QED BY <1>1, <2>2, <2>5
<1>14. ASSUME NEW l \in Launchers, Launcher!WaitForChild(l) PROVE UpInv'
  <2>1. /\ UNCHANGED <<spawned, role, daemon, row>>
        /\ \/ Launcher!Return(l)
           \/ fresh' = fresh /\ phase' = [phase EXCEPT ![l] = "fail"]
           \/ /\ fresh' = fresh /\ phase' = [phase EXCEPT ![l] = "spawn"] /\ phase[l] = "wait"
              /\ Launcher!Succeeds(Launcher!Newest(l))
    BY <1>14 DEF Launcher!WaitForChild
  <2>2. CASE Launcher!Return(l)
    BY <1>7, <2>1, <2>2
  <2>3. CASE fresh' = fresh /\ phase' = [phase EXCEPT ![l] = "fail"]
    BY <1>8, <2>1, <2>3 DEF Early
  <2>4. CASE /\ fresh' = fresh /\ phase' = [phase EXCEPT ![l] = "spawn"] /\ phase[l] = "wait"
             /\ Launcher!Succeeds(Launcher!Newest(l))
    <3>1. Size(l) = 1 => daemon[fresh[l][1]] # "starting"
      <4> SUFFICES ASSUME Size(l) = 1 PROVE daemon[fresh[l][1]] # "starting"
        OBVIOUS
      <4>1. Launcher!Newest(l) = fresh[l][1]
        BY SizeIsTheLaunchers DEF Launcher!Newest, Size
      <4>2. fresh[l][1] \in 1..spawned /\ role[fresh[l][1]] = "runtime"
        BY DEF UpInv, Child
      <4>3. row = fresh[l][1]
        BY <2>4, <4>1, <4>2 DEF Launcher!Succeeds, Launcher!ReadyHealth
      <4> QED BY <1>0, <4>2, <4>3
    <3>2. phase'[l] = "spawn" /\ "spawn" \notin Early
      BY <1>0, <2>4 DEF Early
    <3> QED BY <1>6, <2>1, <2>4, <3>1, <3>2
  <2> QED BY <2>1, <2>2, <2>3, <2>4
<1>15. ASSUME NEW l \in Launchers, Launcher!Spawn(l) PROVE UpInv'
  <2> DEFINE n == Size(l)
             t == spawned + 1
             kind == Roles[n + 1]
             grown == [i \in 1..(n + 1) |-> IF i \in DOMAIN fresh[l] THEN fresh[l][i] ELSE t]
  <2>1. /\ spawned < MaxSpawns /\ phase[l] = "spawn" /\ spawned' = t /\ row' = row
        /\ role' = [role EXCEPT ![t] = kind]
        /\ daemon' = [daemon EXCEPT ![t] = IF kind = "runtime" THEN "starting" ELSE "gone"]
        /\ fresh' = [fresh EXCEPT ![l] = grown]
        /\ phase' = [phase EXCEPT ![l] = "save"]
    BY <1>15, SizeIsTheLaunchers DEF Launcher!Spawn, Size
  <2>2. MaxSpawns \in Nat /\ Roles[1] = "runtime"
    BY DEF Launcher!LauncherLimits
  <2>3. Child(l) /\ \A k \in Launchers : Child(k)
    BY DEF UpInv
  <2>4. t \in 1..MaxSpawns /\ row # t /\ \A k \in 1..spawned : k # t /\ k \in 1..MaxSpawns /\ k \in 1..t
    BY <1>0, <2>1, <2>2
  <2>5. n \in Nat /\ DOMAIN fresh[l] = 1..n
    BY <2>3 DEF Child
  <2>6. DOMAIN grown = 1..(n + 1) /\ Cardinality(1..(n + 1)) = n + 1
    <3>1. Cardinality(1..(n + 1)) = (n + 1) - 1 + 1
      BY <2>5, FS_Interval
    <3> QED BY <2>5, <3>1
  <2>7. grown[1] = IF n = 0 THEN t ELSE fresh[l][1]
    BY <2>5
  <2>8. /\ fresh'[l] = grown /\ phase'[l] = "save"
        /\ \A k \in Launchers : k # l => fresh'[k] = fresh[k] /\ phase'[k] = phase[k]
    BY <1>0, <2>1
  <2>9. /\ \A k \in 1..MaxSpawns : k # t => daemon'[k] = daemon[k] /\ role'[k] = role[k]
        /\ role'[t] = kind
    BY <1>0, <2>1, <2>4
  <2>10. Child(l)'
    <3>1. Size(l)' = n + 1
      BY <2>6, <2>8 DEF Size
    <3>2. CASE n = 0
      <4>1. fresh'[l][1] = t /\ role'[t] = "runtime" /\ Waits(l)'
        BY <2>2, <2>5, <2>7, <2>8, <2>9, <3>1, <3>2 DEF Waits
      <4> QED BY <2>1, <2>4, <2>5, <2>6, <2>8, <3>1, <3>2, <4>1 DEF Child, Early
    <3>3. CASE n # 0
      <4>1. /\ fresh[l][1] \in 1..spawned /\ role[fresh[l][1]] = "runtime"
            /\ daemon[fresh[l][1]] # "starting"
        BY <2>1, <2>3, <2>5, <3>3 DEF Child, Waits
      <4>2. /\ fresh'[l][1] \in 1..spawned' /\ role'[fresh'[l][1]] = "runtime"
            /\ daemon'[fresh'[l][1]] # "starting"
        BY <2>1, <2>4, <2>7, <2>8, <2>9, <3>3, <4>1
      <4> QED BY <2>5, <2>6, <2>8, <3>1, <4>2 DEF Child, Early
    <3> QED BY <3>2, <3>3
  <2>11. ASSUME NEW k \in Launchers, k # l PROVE Child(k)'
    <3>1. Size(k)' = Size(k) /\ (Waits(k)' <=> Waits(k))
      BY <2>8, <2>11 DEF Size, Waits
    <3> QED BY <2>1, <2>3, <2>4, <2>8, <2>9, <2>11, <3>1 DEF Child
  <2>12. /\ spawned' \in 0..MaxSpawns /\ row' \in 0..spawned'
         /\ row' # 0 => daemon'[row'] # "starting"
    BY <1>0, <2>1, <2>2, <2>4, <2>9
  <2>13. \A k \in 1..MaxSpawns : daemon'[k] # "gone" => k <= spawned'
    BY <1>0, <2>1, <2>2, <2>4, <2>9
  <2>14. /\ daemon' = [k \in 1..MaxSpawns |-> daemon'[k]]
         /\ role' = [k \in 1..MaxSpawns |-> role'[k]]
         /\ phase' = [k \in Launchers |-> phase'[k]] /\ fresh' = [k \in Launchers |-> fresh'[k]]
    BY <1>0, <2>1
  <2>15. \A k \in Launchers : Child(k)'
    BY <2>10, <2>11
  <2> QED BY <2>12, <2>13, <2>14, <2>15, Zenon DEF UpInv
<1> QED
  BY <1>4, <1>5, <1>9, <1>10, <1>11, <1>12, <1>13, <1>14, <1>15 DEF Launcher!Next

\* up goes on to the API only after its own runtime had the lock: neither the
\* health row of an earlier or another runtime nor a runtime that refused the
\* lock lets it (_wait_runtime_ready), for any number of overlapping commands.
THEOREM UpWaitsForItsRuntime ==
    ASSUME Launcher!LauncherLimits
    PROVE  /\ Launcher!Spec => []Launcher!UpMeansReady
           /\ MCSpec => []UpMeansReady
<1>1. Launcher!Init => UpInv
  <2> SUFFICES ASSUME Launcher!Init PROVE UpInv
    OBVIOUS
  <2>1. \A l \in Launchers : fresh[l] = <<>>
    BY DEF Launcher!Init
  <2>2. \A l \in Launchers : Child(l)
    <3> SUFFICES ASSUME NEW l \in Launchers PROVE Child(l)
      OBVIOUS
    <3>1. Size(l) = 0 /\ DOMAIN fresh[l] = 1..0
      BY <2>1, NothingSpawned, Zenon DEF Size
    <3> QED BY <2>1, <3>1 DEF Child
  <2> QED BY <2>2 DEF UpInv, Launcher!Init, Launcher!Tokens, Launcher!LauncherLimits
<1>2. UpInv => Launcher!UpMeansReady
  <2> SUFFICES ASSUME UpInv, NEW l \in Launchers, Cardinality(DOMAIN fresh[l]) > 1
               PROVE  daemon[fresh[l][1]] # "starting"
    BY SizeIsTheLaunchers DEF Launcher!UpMeansReady
  <2>1. Child(l) /\ Size(l) > 1
    BY DEF UpInv, Size
  <2> QED BY <2>1 DEF Child, Waits
<1>3. Launcher!Spec => []Launcher!UpMeansReady
  BY <1>1, <1>2, UpStep, PTL DEF Launcher!Spec
<1>4. MCInit => (scope = "launcher" => UpInv)
  BY <1>1, PartStarts
<1>5. (scope = "launcher" => UpInv) /\ [MCNext]_everything => (scope = "launcher" => UpInv)'
  BY PartSteps, UpStep
<1>6. (scope = "launcher" => UpInv) => UpMeansReady
  BY <1>2 DEF UpMeansReady
<1>7. MCSpec => []UpMeansReady
  BY <1>4, <1>5, <1>6, PTL DEF MCSpec, everything
<1> QED BY <1>3, <1>7

\* The schema a child finds was initialised.
Upward == {"check", "spawn", "save", "wait"}
Prepared ==
    /\ phase = [l \in Launchers |-> phase[l]]
    /\ spawned > 0 \/ (\E l \in Launchers : phase[l] \in Upward) =>
           marker = NewHead /\ schema = NewHead

LEMMA PreparedStep ==
    ASSUME Prepared, [Launcher!Next]_(Launcher!vars) PROVE Prepared'
<1> USE DEF Prepared, Upward, Launcher!childVars, Launcher!callVars, Launcher!baseVars,
            Launcher!Goto, Launcher!Return
<1>1. ASSUME NEW t \in Launcher!Tokens,
             \/ Launcher!ChildExits(t) \/ Launcher!WrapperDies(t) \/ Launcher!PidIsReused(t)
             \/ Launcher!Acquire(t) \/ Launcher!ProbeSucceeds(t) \/ Launcher!PersistHealth(t)
             \/ Launcher!OwnerIsLost(t)
      PROVE  Prepared'
  <2>1. UNCHANGED <<phase, spawned, marker, schema>>
    BY <1>1 DEF Launcher!ChildExits, Launcher!WrapperDies, Launcher!PidIsReused,
       Launcher!Acquire, Launcher!ProbeSucceeds, Launcher!PersistHealth, Launcher!OwnerIsLost
  <2> QED BY <2>1
<1>2. CASE \/ Launcher!SessionIsLost \/ UNCHANGED Launcher!vars
           \/ \E s \in Services : Launcher!UserCompose(s)
  <2>1. UNCHANGED <<phase, spawned, marker, schema>>
    BY <1>2 DEF Launcher!SessionIsLost, Launcher!UserCompose, Launcher!vars
  <2> QED BY <2>1
<1>3. ASSUME NEW l \in Launchers, spawned' = spawned,
             marker' \in {marker, NewHead}, schema' \in {schema, NewHead},
             NEW p, phase' = [phase EXCEPT ![l] = p],
             p \in Upward => \/ phase[l] \in Upward
                             \/ marker = NewHead /\ schema = NewHead
      PROVE  Prepared'
  <2>1. \A k \in Launchers : phase'[k] = phase[k] \/ (k = l /\ phase'[k] = p)
    BY <1>3
  <2> QED BY <1>3, <2>1
<1>4. ASSUME NEW l \in Launchers,
             \/ Launcher!Killed(l) \/ Launcher!Compose(l) \/ Launcher!Record(l)
             \/ Launcher!Migrate(l) \/ Launcher!Fill(l) \/ Launcher!MarkInitialized(l)
             \/ Launcher!Probe(l) \/ Launcher!Check(l) \/ Launcher!SpawnFails(l)
      PROVE  Prepared'
  <2>1. PICK p : /\ phase' = [phase EXCEPT ![l] = p] /\ spawned' = spawned
                 /\ marker' \in {marker, NewHead} /\ schema' \in {schema, NewHead}
                 /\ p \in Upward => \/ phase[l] \in Upward
                                    \/ marker = NewHead /\ schema = NewHead
    BY <1>4 DEF Launcher!Killed, Launcher!Compose, Launcher!Record, Launcher!Migrate,
       Launcher!Fill, Launcher!MarkInitialized, Launcher!Probe, Launcher!Initialized,
       Launcher!Check, Launcher!SpawnFails
  <2> QED BY <1>3, <2>1
<1>5. ASSUME NEW l \in Launchers,
             \/ Launcher!Invoke(l) \/ Launcher!FailedUp(l)
             \/ Launcher!ProcessesDown(l) \/ Launcher!ContainersDown(l) \/ Launcher!Forget(l)
      PROVE  Prepared'
  <2>1. PICK p : /\ phase' = [phase EXCEPT ![l] = p] /\ p \notin Upward
                 /\ UNCHANGED <<spawned, marker, schema>>
    BY <1>5 DEF Launcher!Invoke, Launcher!FailedUp,
       Launcher!ProcessesDown, Launcher!ContainersDown, Launcher!Forget
  <2> QED BY <1>3, <2>1
<1>6. ASSUME NEW l \in Launchers, Launcher!SaveSpawned(l) \/ Launcher!WaitForChild(l)
      PROVE  Prepared'
  <2>1. PICK p : /\ phase' = [phase EXCEPT ![l] = p] /\ UNCHANGED <<spawned, marker, schema>>
                 /\ phase[l] \in Upward
    BY <1>6 DEF Launcher!SaveSpawned, Launcher!WaitForChild
  <2> QED BY <1>3, <2>1
<1>7. ASSUME NEW l \in Launchers, Launcher!Spawn(l) PROVE Prepared'
  BY <1>7 DEF Launcher!Spawn
<1>8. ASSUME NEW l \in Launchers, NEW t \in Launcher!Tokens,
             Launcher!Terminate(l, t) \/ Launcher!Kill(l, t)
      PROVE  Prepared'
  <2>1. PICK p : /\ phase' = [phase EXCEPT ![l] = p] /\ p \notin Upward
                 /\ UNCHANGED <<spawned, marker, schema>>
    BY <1>8 DEF Launcher!Terminate, Launcher!Kill, Launcher!Stopped, Launcher!NotStopped
  <2> QED BY <1>3, <2>1
<1> QED BY <1>1, <1>2, <1>4, <1>5, <1>6, <1>7, <1>8 DEF Launcher!Next

\* Children run on a database whose schema is the repository's and whose last
\* complete initialisation was for it, whatever became of other attempts of
\* init and however commands overlap (probe_database_status).
THEOREM ChildrenRunOnInitialized == Launcher!Spec => []Launcher!RunsOnInitialized
<1>1. Launcher!Init => Prepared
  BY DEF Launcher!Init, Prepared, Upward
<1>2. Prepared => Launcher!RunsOnInitialized
  BY DEF Prepared, Launcher!RunsOnInitialized
<1> QED BY <1>1, <1>2, PreparedStep, PTL DEF Launcher!Spec

=============================================================================
