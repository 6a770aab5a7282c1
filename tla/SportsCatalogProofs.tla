------------------------- MODULE SportsCatalogProofs -------------------------
(***************************************************************************)
(* Theorems about SportsCatalog for every set of matches and any limits of *)
(* age and number.                                                         *)
(***************************************************************************)
EXTENDS SportsCatalog, FiniteSetTheorems, TLAPS

\* Two transactions hold no lock together and each holds those of the matches
\* it writes; what a sync has read of a match is still its status, and what it
\* is about to write is not behind it.  Between two jobs no transaction is open.
Locked(w, m) == \A i \in DOMAIN Locks(m) : Locks(m)[i] \in tx[w].held
Transaction(w) ==
    /\ tx[w] = [kind |-> tx[w].kind, todo |-> tx[w].todo, held |-> tx[w].held,
                read |-> tx[w].read, writes |-> tx[w].writes]
    /\ \A r \in tx[w].writes : Locked(w, r.match)
ReadIsCurrent ==
    tx["daemon"].read # None =>
        /\ Busy("daemon") /\ Locked("daemon", Head(tx["daemon"].todo).match)
        /\ Head(tx["daemon"].todo).match \in Matches =>
               tx["daemon"].read.status = Status(Head(tx["daemon"].todo).match)
WritesGoForward ==
    tx["daemon"].kind = "sync" =>
        \A r \in tx["daemon"].writes :
            r.match \in Matches =>
                ~IsRegression(Status(r.match), r.status)
TransactionsAreApart ==
    /\ tx = [w \in Writers |-> tx[w]]
    /\ Transaction("daemon") /\ Transaction("api")
    /\ tx["daemon"].held \cap tx["api"].held = {}
NoJobNoTransaction == job = "idle" => tx["daemon"] = NoTx
CatalogInv == TransactionsAreApart /\ ReadIsCurrent /\ WritesGoForward /\ NoJobNoTransaction

LEMMA CatalogStart == ASSUME Init PROVE CatalogInv
BY DEF Init, CatalogInv, TransactionsAreApart, ReadIsCurrent, WritesGoForward,
       NoJobNoTransaction, Transaction, NoTx, Writers

LEMMA OtherIsTheOther == Other("daemon") = "api" /\ Other("api") = "daemon"
BY DEF Other, Writers

\* What the daemon holds the locks of, the API does not write.
LEMMA HeldIsUnwritten ==
    ASSUME TransactionsAreApart, NEW m, Locked("daemon", m)
    PROVE  Written("api", m) = {}
<1> SUFFICES ASSUME NEW r \in tx["api"].writes, r.match = m PROVE FALSE
  BY DEF Written
<1>1. Locked("api", m)
  BY DEF TransactionsAreApart, Transaction
<1>2. 1 \in DOMAIN Locks(m)
  BY DEF Locks
<1>3. Locks(m)[1] \in tx["daemon"].held /\ Locks(m)[1] \in tx["api"].held
  BY <1>1, <1>2 DEF Locked
<1> QED BY <1>3 DEF TransactionsAreApart

\* A transaction that is replaced by one that holds nothing leaves the rest apart.
LEMMA FreshTransaction ==
    ASSUME TransactionsAreApart, NEW w \in {"daemon", "api"}, NEW k, NEW t,
           tx' = [tx EXCEPT ![w] = [kind |-> k, todo |-> t, held |-> {}, read |-> None,
                                    writes |-> {}]]
    PROVE  /\ TransactionsAreApart'
           /\ w = "daemon" => ReadIsCurrent' /\ WritesGoForward'
           /\ w = "api" => tx'["daemon"] = tx["daemon"]
<1> DEFINE empty == [kind |-> k, todo |-> t, held |-> {}, read |-> None, writes |-> {}]
<1>1. /\ tx' = [v \in Writers |-> tx'[v]]
      /\ tx'[w] = empty
      /\ \A v \in {"daemon", "api"} : v # w => tx'[v] = tx[v]
  BY DEF TransactionsAreApart, Writers
<1>2. /\ empty = [kind |-> empty.kind, todo |-> empty.todo, held |-> empty.held,
                  read |-> empty.read, writes |-> empty.writes]
      /\ empty.held = {} /\ empty.read = None /\ empty.writes = {}
  OBVIOUS
<1> HIDE DEF empty
<1>3. Transaction(w)'
  BY <1>1, <1>2 DEF Transaction
<1>4. ASSUME NEW v \in {"daemon", "api"}, v # w PROVE Transaction(v)'
  <2>1. tx'[v] = tx[v] /\ Transaction(v)
    BY <1>1, <1>4 DEF TransactionsAreApart
  <2> QED BY <2>1 DEF Transaction, Locked
<1>5. tx'["daemon"].held \cap tx'["api"].held = {}
  BY <1>1, <1>2 DEF TransactionsAreApart
<1> QED BY <1>1, <1>2, <1>3, <1>4, <1>5 DEF TransactionsAreApart, ReadIsCurrent, WritesGoForward

\* What the daemon has read and is about to write stays current while its
\* transaction is the same and the rows it holds the locks of keep their status.
LEMMA SameTransaction ==
    ASSUME TransactionsAreApart, ReadIsCurrent, WritesGoForward, tx'["daemon"] = tx["daemon"],
           \A m \in Matches :
               Locked("daemon", m) => Status(m)' = Status(m)
    PROVE  ReadIsCurrent' /\ WritesGoForward'
<1>1. ReadIsCurrent'
  BY DEF ReadIsCurrent, Locked, Busy, Matches
<1>2. \A r \in tx["daemon"].writes : Locked("daemon", r.match)
  BY DEF TransactionsAreApart, Transaction
<1>3. WritesGoForward'
  BY <1>2 DEF WritesGoForward, IsRegression, Matches
<1> QED BY <1>1, <1>3

\* A statement of a transaction: it locks a row nobody else holds, reads the
\* status of a match it holds the locks of, or writes one.
LEMMA StatementStep ==
    ASSUME TransactionsAreApart, ReadIsCurrent, WritesGoForward, NEW w \in {"daemon", "api"},
           Statement(w)
    PROVE  /\ TransactionsAreApart' /\ ReadIsCurrent' /\ WritesGoForward'
           /\ tx[w] # NoTx /\ rows' = rows /\ job' = job
           /\ w = "api" => tx'["daemon"] = tx["daemon"]
<1>1. /\ Busy(w) /\ rows' = rows /\ job' = job
  BY DEF Statement, Lock, ReadStatus, UpsertMatch
<1>2. tx[w] # NoTx
  BY <1>1 DEF Busy, NoTx
<1>3. \A m : Status(m)' = Status(m)
  BY <1>1 DEF Status
<1>o. PICK v \in {"daemon", "api"} : v # w /\ Other(w) = v
  BY OtherIsTheOther
<1>4. ASSUME tx' = [u \in Writers |-> tx'[u]], tx'[v] = tx[v],
             tx'[w] = [kind |-> tx'[w].kind, todo |-> tx'[w].todo, held |-> tx'[w].held,
                       read |-> tx'[w].read, writes |-> tx'[w].writes],
             tx[w].held \subseteq tx'[w].held, tx'[w].held \cap tx[v].held = {},
             \A x \in tx'[w].writes : Locked(w, x.match)
      PROVE  TransactionsAreApart'
  <2>1. Transaction(v)'
    <3>1. Transaction(v)
      BY DEF TransactionsAreApart
    <3> QED BY <1>4, <3>1 DEF Transaction, Locked
  <2>2. \A m : Locked(w, m) => Locked(w, m)'
    BY <1>4 DEF Locked
  <2>3. Transaction(w)'
    BY <1>4, <2>2 DEF Transaction
  <2>4. tx'["daemon"].held \cap tx'["api"].held = {}
    BY <1>4, <1>o
  <2> QED BY <1>4, <1>o, <2>1, <2>3, <2>4 DEF TransactionsAreApart
<1>w. \A x \in tx[w].writes : Locked(w, x.match)
  BY DEF TransactionsAreApart, Transaction
<1>5. CASE Lock(w)
  <2>1. /\ Missing(w) # {} /\ ~Waits(w)
        /\ tx' = [tx EXCEPT ![w].held = @ \cup {Wanted(w)}]
    BY <1>5 DEF Lock
  <2>2. Wanted(w) \notin tx[v].held
    BY <1>1, <1>o, <2>1 DEF Waits
  <2> DEFINE h == tx[w].held \cup {Wanted(w)}
  <2>3. h \cap tx[v].held = {}
    BY <1>o, <2>2 DEF TransactionsAreApart
  <2>4. tx' = [tx EXCEPT ![w] = [kind |-> tx[w].kind, todo |-> tx[w].todo, held |-> h,
                                 read |-> tx[w].read, writes |-> tx[w].writes]]
    <3> DEFINE was == tx[w]
               grown == [kind |-> was.kind, todo |-> was.todo, held |-> h,
                         read |-> was.read, writes |-> was.writes]
    <3>1. was = [kind |-> was.kind, todo |-> was.todo, held |-> was.held,
                 read |-> was.read, writes |-> was.writes]
      BY DEF TransactionsAreApart, Transaction
    <3>2. tx' = [tx EXCEPT ![w] = [was EXCEPT !.held = h]]
      BY <2>1
    <3> HIDE DEF h, was
    <3>3. [was EXCEPT !.held = h] = grown
      BY <3>1
    <3> QED BY <3>2, <3>3 DEF was
  <2> HIDE DEF h
  <2>5. tx[w].held \subseteq h
    BY DEF h
  <2>6. /\ TransactionsAreApart' /\ tx'[v] = tx[v]
        /\ tx'[w] = [kind |-> tx[w].kind, todo |-> tx[w].todo, held |-> h,
                     read |-> tx[w].read, writes |-> tx[w].writes]
    <3>1. /\ tx'[w] = [kind |-> tx[w].kind, todo |-> tx[w].todo, held |-> h,
                       read |-> tx[w].read, writes |-> tx[w].writes]
          /\ tx' = [u \in Writers |-> tx'[u]] /\ tx'[v] = tx[v]
      BY <1>o, <2>4 DEF TransactionsAreApart, Writers
    <3> QED BY <1>4, <1>w, <2>3, <2>5, <3>1
  <2>7. \A m : Locked("daemon", m) => Locked("daemon", m)'
    BY <1>o, <2>5, <2>6 DEF Locked
  <2>8. ReadIsCurrent'
    BY <1>3, <1>o, <2>6, <2>7 DEF ReadIsCurrent, Busy
  <2>9. WritesGoForward'
    BY <1>3, <1>o, <2>6 DEF WritesGoForward, IsRegression
  <2> QED BY <1>1, <1>2, <1>o, <2>6, <2>8, <2>9
<1>l. Missing(w) = {} => Locked(w, Head(tx[w].todo).match)
  BY DEF Missing, Locked
<1>6. CASE ReadStatus(w)
  <2> DEFINE r == [status |-> Status(Head(tx[w].todo).match)]
  <2>1. Missing(w) = {} /\ tx' = [tx EXCEPT ![w].read = r]
    BY <1>6 DEF ReadStatus
  <2>2. r.status = Status(Head(tx[w].todo).match)
    OBVIOUS
  <2> HIDE DEF r
  <2>3. tx' = [tx EXCEPT ![w] = [kind |-> tx[w].kind, todo |-> tx[w].todo, held |-> tx[w].held,
                                 read |-> r, writes |-> tx[w].writes]]
    <3> DEFINE was == tx[w]
               informed == [kind |-> was.kind, todo |-> was.todo, held |-> was.held,
                            read |-> r, writes |-> was.writes]
    <3>1. was = [kind |-> was.kind, todo |-> was.todo, held |-> was.held,
                 read |-> was.read, writes |-> was.writes]
      BY DEF TransactionsAreApart, Transaction
    <3>2. tx' = [tx EXCEPT ![w] = [was EXCEPT !.read = r]]
      BY <2>1
    <3> HIDE DEF was
    <3>3. [was EXCEPT !.read = r] = informed
      BY <3>1
    <3> QED BY <3>2, <3>3 DEF was
  <2>4. tx[w].held \cap tx[v].held = {}
    BY <1>o DEF TransactionsAreApart
  <2>5. /\ TransactionsAreApart' /\ tx'[v] = tx[v]
        /\ tx'[w] = [kind |-> tx[w].kind, todo |-> tx[w].todo, held |-> tx[w].held,
                     read |-> r, writes |-> tx[w].writes]
    <3>1. /\ tx'[w] = [kind |-> tx[w].kind, todo |-> tx[w].todo, held |-> tx[w].held,
                       read |-> r, writes |-> tx[w].writes]
          /\ tx' = [u \in Writers |-> tx'[u]] /\ tx'[v] = tx[v]
      BY <1>o, <2>3 DEF TransactionsAreApart, Writers
    <3> QED BY <1>4, <1>w, <2>4, <3>1
  <2>6. \A m : Locked("daemon", m)' <=> Locked("daemon", m)
    BY <1>o, <2>5 DEF Locked
  <2>7. ReadIsCurrent'
    BY <1>1, <1>3, <1>l, <1>o, <2>1, <2>2, <2>5, <2>6 DEF ReadIsCurrent, Busy
  <2>8. WritesGoForward'
    BY <1>3, <1>o, <2>5 DEF WritesGoForward, IsRegression
  <2> QED BY <1>1, <1>2, <1>o, <2>5, <2>7, <2>8
<1>7. CASE UpsertMatch(w)
  <2> DEFINE next == Head(tx[w].todo)
             keeps == tx[w].kind = "sync" /\ IsRegression(tx[w].read.status, next.status)
             W == tx[w].writes \cup (IF keeps THEN {} ELSE {next})
  <2>1. /\ Missing(w) = {}
        /\ tx[w].kind = "sync" => tx[w].read # None
        /\ tx' = [tx EXCEPT ![w] = [kind |-> tx[w].kind, todo |-> Tail(tx[w].todo),
                                    held |-> tx[w].held, read |-> None, writes |-> W]]
    BY <1>7 DEF UpsertMatch
  <2>2. \A x \in W \ tx[w].writes : x = next /\ ~keeps
    OBVIOUS
  <2> HIDE DEF next, keeps, W
  <2>3. \A x \in W : Locked(w, x.match)
    BY <1>l, <1>w, <2>1, <2>2 DEF next
  <2>4. tx[w].held \cap tx[v].held = {}
    BY <1>o DEF TransactionsAreApart
  <2>5. /\ TransactionsAreApart' /\ tx'[v] = tx[v]
        /\ tx'[w] = [kind |-> tx[w].kind, todo |-> Tail(tx[w].todo), held |-> tx[w].held,
                     read |-> None, writes |-> W]
    <3>1. /\ tx'[w] = [kind |-> tx[w].kind, todo |-> Tail(tx[w].todo), held |-> tx[w].held,
                       read |-> None, writes |-> W]
          /\ tx' = [u \in Writers |-> tx'[u]] /\ tx'[v] = tx[v]
      BY <1>o, <2>1 DEF TransactionsAreApart, Writers
    <3> QED BY <1>4, <2>3, <2>4, <3>1
  <2>6. ReadIsCurrent'
    <3>1. CASE w = "daemon"
      BY <2>5, <3>1 DEF ReadIsCurrent
    <3>2. CASE w = "api"
      BY <1>3, <1>o, <2>5, <3>2 DEF ReadIsCurrent, Busy, Locked
    <3> QED BY <3>1, <3>2
  <2>7. WritesGoForward'
    <3>1. CASE w = "daemon"
      <4>1. SUFFICES ASSUME tx["daemon"].kind = "sync", NEW x \in W, x.match \in Matches
                     PROVE  ~IsRegression(Status(x.match), x.status)
        BY <1>3, <2>5, <3>1 DEF WritesGoForward, IsRegression
      <4>2. CASE x \in tx[w].writes
        BY <3>1, <4>1, <4>2 DEF WritesGoForward
      <4>3. CASE x \notin tx[w].writes
        BY <2>1, <2>2, <3>1, <4>1, <4>3 DEF ReadIsCurrent, next, keeps
      <4> QED BY <4>2, <4>3
    <3>2. CASE w = "api"
      BY <1>3, <1>o, <2>5, <3>2 DEF WritesGoForward, IsRegression
    <3> QED BY <3>1, <3>2
  <2> QED BY <1>1, <1>2, <1>o, <2>5, <2>6, <2>7
<1> QED BY <1>5, <1>6, <1>7 DEF Statement

\* What SyncGoesForward says of a step.
CommitGoesForward ==
    (tx["daemon"].kind = "sync" /\ tx'["daemon"] = NoTx)
    => \A m \in Matches :
           rows[m] # None => ~IsRegression(Status(m), rows'[m].status)

LEMMA SameRows == ASSUME rows' = rows PROVE CommitGoesForward
BY DEF CommitGoesForward, IsRegression, Status, Rank

LEMMA SameRowsAndTransactions ==
    ASSUME CatalogInv, UNCHANGED <<rows, tx>>, job' = "idle" => job = "idle"
    PROVE  CatalogInv' /\ CommitGoesForward
<1>1. TransactionsAreApart'
  BY DEF CatalogInv, TransactionsAreApart, Transaction, Locked
<1>2. ReadIsCurrent' /\ WritesGoForward'
  BY SameTransaction DEF CatalogInv, Status
<1> QED BY <1>1, <1>2, SameRows DEF CatalogInv, NoJobNoTransaction

\* A process opens a transaction; no job is between two jobs then.
LEMMA Opens ==
    ASSUME CatalogInv, NEW w \in {"daemon", "api"}, NEW k, NEW l, NEW s,
           Open(w, k, l, s), rows' = rows,
           IF w = "daemon" THEN job' # "idle" ELSE job' = job
    PROVE  CatalogInv' /\ CommitGoesForward
<1> DEFINE t == [i \in DOMAIN l |-> [match |-> l[i], status |-> s[l[i]]]]
<1>1. tx' = [tx EXCEPT ![w] = [kind |-> k, todo |-> t, held |-> {}, read |-> None,
                               writes |-> {}]]
  BY DEF Open
<1> HIDE DEF t
<1>2. /\ TransactionsAreApart'
      /\ w = "daemon" => ReadIsCurrent' /\ WritesGoForward'
      /\ w = "api" => tx'["daemon"] = tx["daemon"]
  BY <1>1, FreshTransaction DEF CatalogInv
<1>3. ReadIsCurrent' /\ WritesGoForward'
  BY <1>2, SameTransaction DEF CatalogInv, Status
<1> QED BY <1>2, <1>3, SameRows DEF CatalogInv, NoJobNoTransaction

LEMMA Closes ==
    ASSUME TransactionsAreApart, NEW w \in {"daemon", "api"}, tx' = [tx EXCEPT ![w] = NoTx]
    PROVE  /\ TransactionsAreApart'
           /\ tx'[w] = NoTx
           /\ w = "daemon" => ReadIsCurrent' /\ WritesGoForward'
           /\ w = "api" => tx'["daemon"] = tx["daemon"]
<1>1. tx' = [tx EXCEPT ![w] = [kind |-> None, todo |-> <<>>, held |-> {}, read |-> None,
                               writes |-> {}]]
  BY DEF NoTx
<1>2. tx'[w] = NoTx
  BY DEF TransactionsAreApart, Writers
<1> QED BY <1>1, <1>2, FreshTransaction

\* The daemon commits: what it writes was compared with what is stored.
LEMMA DaemonCommits ==
    ASSUME CatalogInv, Commit("daemon")
    PROVE  CatalogInv' /\ CommitGoesForward
<1>1. rows' = Committed("daemon") /\ tx' = [tx EXCEPT !["daemon"] = NoTx]
  BY DEF Commit
<1>2. CatalogInv'
  BY <1>1, Closes DEF CatalogInv, NoJobNoTransaction
<1>3. CommitGoesForward
  <2> SUFFICES ASSUME tx["daemon"].kind = "sync", NEW m \in Matches, rows[m] # None
               PROVE  ~IsRegression(Status(m), rows'[m].status)
    BY DEF CommitGoesForward
  <2>1. CASE Written("daemon", m) = {}
    <3>1. rows'[m] = rows[m]
      BY <1>1, <2>1 DEF Committed
    <3> QED BY <3>1 DEF IsRegression, Status, Rank
  <2>2. CASE Written("daemon", m) # {}
    <3> DEFINE r == CHOOSE r \in Written("daemon", m) : TRUE
    <3>1. r \in Written("daemon", m)
      BY <2>2
    <3>2. rows'[m] = [status |-> r.status, age |-> 0]
      BY <1>1, <2>2 DEF Committed
    <3> HIDE DEF r
    <3>3. r \in tx["daemon"].writes /\ r.match = m
      BY <3>1 DEF Written
    <3> QED BY <3>2, <3>3 DEF CatalogInv, WritesGoForward
  <2> QED BY <2>1, <2>2
<1> QED BY <1>2, <1>3

\* The API commits: what it overwrites, the daemon holds no lock of.
LEMMA ApiCommits ==
    ASSUME NoneIsNoKind, CatalogInv, Commit("api"), job' = job
    PROVE  CatalogInv' /\ CommitGoesForward
<1>1. rows' = Committed("api") /\ tx' = [tx EXCEPT !["api"] = NoTx]
  BY DEF Commit
<1>2. TransactionsAreApart' /\ tx'["daemon"] = tx["daemon"]
  BY <1>1, Closes DEF CatalogInv
<1>3. ASSUME NEW m \in Matches, Locked("daemon", m)
      PROVE  Status(m)' = Status(m)
  <2>1. Written("api", m) = {}
    BY <1>3, HeldIsUnwritten DEF CatalogInv
  <2>2. rows'[m] = rows[m]
    BY <1>1, <2>1 DEF Committed
  <2> QED BY <2>2 DEF Status
<1>4. ReadIsCurrent' /\ WritesGoForward'
  BY <1>2, <1>3, SameTransaction DEF CatalogInv
<1>5. CommitGoesForward
  BY <1>2 DEF CommitGoesForward, NoTx, NoneIsNoKind
<1> QED BY <1>2, <1>4, <1>5 DEF CatalogInv, NoJobNoTransaction

\* The database breaks a deadlock: the API is rolled back, the daemon goes on.
LEMMA PageGivesWay ==
    ASSUME CatalogInv, PageFails
    PROVE  CatalogInv' /\ CommitGoesForward
<1> DEFINE was == tx["daemon"]
           h == was.held \cup {Wanted("daemon")}
           more == [kind |-> was.kind, todo |-> was.todo, held |-> h,
                    read |-> was.read, writes |-> was.writes]
<1>1. was = [kind |-> was.kind, todo |-> was.todo, held |-> was.held,
             read |-> was.read, writes |-> was.writes]
  BY DEF CatalogInv, TransactionsAreApart, Transaction
<1>2. /\ rows' = rows /\ job' = job
      /\ tx' = [tx EXCEPT !["api"] = NoTx, !["daemon"] = [was EXCEPT !.held = h]]
  BY DEF PageFails, TransactionsAreApart, Writers
<1>3. was.held \subseteq h
  OBVIOUS
<1> HIDE DEF was, h
<1>4. [was EXCEPT !.held = h] = more
  BY <1>1
<1>5. /\ tx' = [w \in Writers |-> tx'[w]]
      /\ tx'["daemon"] = more /\ tx'["api"] = NoTx
  BY <1>2, <1>4 DEF CatalogInv, TransactionsAreApart, Writers
<1>6. \A m : Locked("daemon", m) => Locked("daemon", m)'
  BY <1>3, <1>5 DEF Locked, was
<1>7. Transaction("daemon")'
  BY <1>5, <1>6 DEF Transaction, CatalogInv, TransactionsAreApart, was
<1>8. Transaction("api")' /\ tx'["api"].held = {}
  BY <1>5 DEF Transaction, NoTx
<1>9. \A m : Status(m)' = Status(m)
  BY <1>2 DEF Status
<1>10. ReadIsCurrent'
  BY <1>5, <1>6, <1>9 DEF CatalogInv, ReadIsCurrent, Busy, was
<1>11. WritesGoForward'
  BY <1>5, <1>9 DEF CatalogInv, WritesGoForward, IsRegression, was
<1>12. job # "idle"
  BY DEF CatalogInv, NoJobNoTransaction, PageFails, Waits, Busy,
         NoTx
<1> QED BY <1>2, <1>5, <1>7, <1>8, <1>10, <1>11, <1>12, SameRows
        DEF CatalogInv, TransactionsAreApart, NoJobNoTransaction

LEMMA CatalogStep ==
    ASSUME NoneIsNoKind, CatalogInv, Next
    PROVE  CatalogInv' /\ CommitGoesForward
<1>1. CASE Tick
  <2>1. /\ job = "idle" /\ job' = "due" /\ tx' = tx
    BY <1>1 DEF Tick
  <2>2. tx["daemon"] = NoTx
    BY <2>1 DEF CatalogInv, NoJobNoTransaction
  <2>3. TransactionsAreApart'
    BY <2>1 DEF CatalogInv, TransactionsAreApart, Transaction, Locked
  <2>4. ReadIsCurrent' /\ WritesGoForward'
    BY <2>1, <2>2 DEF ReadIsCurrent, WritesGoForward, NoTx
  <2>5. CommitGoesForward
    BY <2>2 DEF CommitGoesForward, NoTx, NoneIsNoKind
  <2> QED BY <2>1, <2>3, <2>4, <2>5 DEF CatalogInv, NoJobNoTransaction
<1>2. CASE FetchLive
  <2>1. PICK l : Open("daemon", "sync", l, actual)
    BY <1>2 DEF FetchLive
  <2>2. rows' = rows /\ job' = "live"
    BY <1>2 DEF FetchLive
  <2> QED BY <2>1, <2>2, Opens
<1>3. CASE LiveIsStored \/ TargetIsStored \/ FixturesAreStored
           \/ SnapshotIsStored
  BY <1>3, DaemonCommits
  DEF LiveIsStored, TargetIsStored, FixturesAreStored,
      SnapshotIsStored
<1>4. CASE SelectStale \/ NothingToUpgrade
  <2>1. UNCHANGED <<rows, tx>> /\ (job' = "idle" => job = "idle")
    BY <1>4 DEF SelectStale, NothingToUpgrade
  <2> QED BY <2>1, SameRowsAndTransactions
<1>5. CASE Calibrate
  <2>1. CASE Head(targets).match \in Silent
    <3>1. UNCHANGED <<rows, tx>> /\ job' = job
      BY <1>5, <2>1 DEF Calibrate
    <3> QED BY <3>1, SameRowsAndTransactions
  <2>2. CASE Head(targets).match \notin Silent
    <3>1. /\ Open("daemon", "sync", <<Head(targets).match>>, actual)
          /\ rows' = rows /\ job' = "lookup"
      BY <1>5, <2>2 DEF Calibrate, Lookup
    <3> QED BY <3>1, Opens
  <2> QED BY <2>1, <2>2
<1>6. CASE FetchFixtures
  <2>1. PICK l : Open("daemon", "sync", l, Scheduled)
    BY <1>6 DEF FetchFixtures
  <2>2. rows' = rows /\ job' = "upcoming"
    BY <1>6 DEF FetchFixtures
  <2> QED BY <2>1, <2>2, Opens
<1>7. CASE JobFails \/ SnapshotFails
  <2>1. rows' = rows /\ tx' = [tx EXCEPT !["daemon"] = NoTx]
    BY <1>7 DEF JobFails, SnapshotFails
  <2> QED BY <2>1, Closes, SameRows DEF CatalogInv, NoJobNoTransaction
<1>8. ASSUME NEW w \in {"daemon", "api"}, Statement(w)
      PROVE  CatalogInv' /\ CommitGoesForward
  <2>1. /\ TransactionsAreApart' /\ ReadIsCurrent' /\ WritesGoForward'
        /\ tx[w] # NoTx /\ rows' = rows /\ job' = job
        /\ w = "api" => tx'["daemon"] = tx["daemon"]
    BY <1>8, StatementStep DEF CatalogInv
  <2>2. NoJobNoTransaction'
    BY <2>1 DEF CatalogInv, NoJobNoTransaction
  <2> QED BY <2>1, <2>2, SameRows DEF CatalogInv
<1>9. CASE PageIsStored
  BY <1>9, ApiCommits DEF PageIsStored
<1>10. CASE PageFails
  BY <1>10, PageGivesWay
<1>11. CASE Normalize \/ Complete
  <2>1. /\ Open("api", "save", <<page.match>>, [m \in {page.match} |-> page.status])
        /\ rows' = rows /\ job' = job
    BY <1>11 DEF Normalize, Complete, SaveUpgrade
  <2> QED BY <2>1, Opens
<1>12. ASSUME NEW x \in Matches, Proceed(x)
       PROVE  CatalogInv' /\ CommitGoesForward
  BY <1>12, SameRowsAndTransactions DEF Proceed
<1>13. ASSUME NEW x \in Matches, StoreSnapshot(x)
       PROVE  CatalogInv' /\ CommitGoesForward
  <2>1. Open("daemon", "save", <<x>>, actual) /\ rows' = rows /\ job' = "snapshot"
    BY <1>13 DEF StoreSnapshot
  <2> QED BY <2>1, Opens
<1>14. ASSUME NEW x \in Matches, OpenPage(x)
       PROVE  CatalogInv' /\ CommitGoesForward
  <2>1. rows' = rows /\ job' = job
    BY <1>14 DEF OpenPage
  <2>2. UNCHANGED tx \/ Open("api", "save", <<x>>, actual)
    BY <1>14 DEF OpenPage, FirstSnapshot
  <2> QED BY <2>1, <2>2, Opens, SameRowsAndTransactions
<1> QED
  BY <1>1, <1>2, <1>3, <1>4, <1>5, <1>6, <1>7, <1>8, <1>9, <1>10, <1>11, <1>12, <1>13, <1>14
  DEF Next, Daemon, Api

\* For every number of matches, order of the feeds and moment the API stores a
\* page's snapshot: what a sync of the daemon commits never takes a match back
\* behind the status that is committed then, although it compares the two in
\* statements of their own before the commit (upsert_match behind the locks of
\* players and tournament, persistence/repositories.py).
THEOREM SyncsGoForward ==
    ASSUME NoneIsNoKind
    PROVE  Spec => SyncGoesForward
<1>1. Init => CatalogInv
  BY CatalogStart
<1>2. ASSUME CatalogInv, [Next]_(vars)
      PROVE  /\ CatalogInv'
             /\ [CommitGoesForward]_(vars)
  <2>1. CASE UNCHANGED vars
    BY <1>2, <2>1, SameRowsAndTransactions DEF vars
  <2> QED BY <1>2, <2>1, CatalogStep
<1>3. CommitGoesForward <=>
        (tx["daemon"].kind = "sync" /\ tx'["daemon"] = NoTx
         => \A m \in Matches :
                rows[m] # None => ~IsRegression(Status(m), rows'[m].status))
  BY DEF CommitGoesForward
<1> QED BY <1>1, <1>2, <1>3, PTL DEF Spec, SyncGoesForward

=============================================================================
