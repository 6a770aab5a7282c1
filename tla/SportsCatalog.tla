---------------------------- MODULE SportsCatalog ----------------------------
(***************************************************************************)
(* The catalog of matches: the rows of the table matches, who writes them, *)
(* and the list the API reads from them.                                   *)
(*                                                                         *)
(* The daemon writes the rows of the supplier's live and upcoming feeds    *)
(* (_sync_live_catalog, _sync_upcoming_catalog), looks up the live rows no *)
(* feed confirms any more, and stores the snapshots of its realtime        *)
(* worker, one after the other.  The API process stores snapshots too,     *)
(* when the page of a match fills in what the snapshot lacks               *)
(* (TennisService._refresh_missing_match_metadata).                        *)
(*                                                                         *)
(* Both write in transactions that lock the rows of the players and of the *)
(* tournament one by one, in the order of the code; a transaction sees     *)
(* what is committed when each of its statements runs.  Times are ages,    *)
(* counted in intervals of the live catalog job; only live rows' matter.    *)
(***************************************************************************)
EXTENDS Naturals, Sequences, SequencesExt

CONSTANTS
    Order,      \* the matches, in the order feeds list them and ids sort
    Sides,      \* the two players of a match
    Event,      \* its tournament
    Pages,      \* matches whose page is opened
    Silent,     \* matches the supplier's lookup never answers for
    LiveMaxAge, \* _live_max_age
    StaleLimit, \* stale_limit of the list of live matches
    Targets,    \* how many stale rows a job looks up
    MaxExtras,  \* bound: snapshots stored but for the first of a page, and jobs that
                \* fail or run out of time, together
    None

\* None is not the kind of a transaction.
NoneIsNoKind == None # "sync"

Matches == Range(Order)
\* The rank of a status: _MATCH_STATUS_RANK
Rank(status) == IF status = "finished" THEN 2 ELSE IF status = "live" THEN 1 ELSE 0
Oldest == StaleLimit + 1

VARIABLES
    actual,  \* the status of a match at the supplier
    rows,    \* the row of a match: its status and the age of updated_at
    hot,     \* the status in the hot snapshot of a match
    job,     \* what the daemon does
    feed,    \* the matches its feed listed
    offset,  \* _stale_live_offset
    targets, \* the stale rows it still has to look up, and the offset after each
    stored,  \* the matches that have a snapshot row
    page,    \* what the API process does, and for which match
    tx,      \* the transaction of each process
    extras   \* how often MaxExtras counted

vars == <<actual, rows, hot, stored, job, feed, offset, targets, page, tx, extras>>

Writers == {"daemon", "api"}
NoTx == [kind |-> None, todo |-> <<>>, held |-> {}, read |-> None, writes |-> {}]
Idle(w) == tx[w] = NoTx
CountExtra == extras < MaxExtras /\ extras' = extras + 1
Status(m) == IF rows[m] = None THEN None ELSE rows[m].status

Init ==
    /\ actual = [m \in Matches |-> "scheduled"]
    /\ rows = [m \in Matches |-> None]
    /\ hot = [m \in Matches |-> None] /\ stored = {}
    /\ job = "idle" /\ feed = {} /\ offset = 0 /\ targets = <<>>
    /\ page = [at |-> "closed", match |-> None, status |-> None]
    /\ tx = [w \in Writers |-> NoTx]
    /\ extras = 0

-----------------------------------------------------------------------------
(* The world *)

\* A match starts and ends (map_status reads it off the supplier's row).
Proceed(m) ==
    /\ actual[m] # "finished"
    /\ actual' = [actual EXCEPT ![m] = IF @ = "scheduled" THEN "live" ELSE "finished"]
    /\ UNCHANGED <<rows, hot, stored, job, feed, offset, targets, page, tx, extras>>

\* Time passes between two runs of the jobs.
Tick ==
    /\ job = "idle"
    /\ rows' = [m \in Matches |->
                  IF Status(m) # "live" \/ rows[m].age = Oldest THEN rows[m]
                  ELSE [rows[m] EXCEPT !.age = @ + 1]]
    /\ job' = "due"
    /\ UNCHANGED <<actual, hot, stored, feed, offset, targets, page, tx, extras>>

-----------------------------------------------------------------------------
(* Transactions *)

\* The rows a write of match m locks, in order: its players and tournament.
\* Faulty variant: they are only inserted if missing, which locks nothing.
LocksNothing(m) == <<>>
Locks(m) == <<Sides[m][1], Sides[m][2], Event[m]>>

Open(w, kind, list, statuses) ==
    tx' = [tx EXCEPT ![w] =
              [kind |-> kind,
               todo |-> [i \in DOMAIN list |-> [match |-> list[i], status |-> statuses[list[i]]]],
               held |-> {}, read |-> None, writes |-> {}]]

Other(w) == CHOOSE v \in Writers : v # w
Busy(w) == tx[w].todo # <<>>
Missing(w) ==
    LET locks == Locks(Head(tx[w].todo).match)
    IN {i \in DOMAIN locks : locks[i] \notin tx[w].held}
Wanted(w) == Locks(Head(tx[w].todo).match)[Min(Missing(w))]
Waits(w) == Busy(w) /\ Missing(w) # {} /\ Wanted(w) \in tx[Other(w)].held

\* INSERT ... ON CONFLICT DO UPDATE of a player or of the tournament
Lock(w) ==
    /\ Busy(w) /\ Missing(w) # {} /\ ~Waits(w)
    /\ tx' = [tx EXCEPT ![w].held = @ \cup {Wanted(w)}]
    /\ UNCHANGED <<actual, rows, hot, stored, job, feed, offset, targets, page, extras>>

\* A sync reads the status that is stored ...
ReadStatus(w) ==
    /\ Busy(w) /\ Missing(w) = {}
    /\ tx[w].kind = "sync" /\ tx[w].read = None
    /\ tx' = [tx EXCEPT ![w].read = [status |-> Status(Head(tx[w].todo).match)]]
    /\ UNCHANGED <<actual, rows, hot, stored, job, feed, offset, targets, page, extras>>

IsRegression(old, new) == old # None /\ Rank(old) > Rank(new)

\* ... and leaves a row alone that is further on; a snapshot overwrites it.
UpsertMatch(w) ==
    /\ Busy(w) /\ Missing(w) = {}
    /\ tx[w].kind = "sync" => tx[w].read # None
    /\ LET next == Head(tx[w].todo)
           keeps == tx[w].kind = "sync" /\ IsRegression(tx[w].read.status, next.status)
       IN tx' = [tx EXCEPT
                   ![w] = [kind |-> @.kind, todo |-> Tail(@.todo), held |-> @.held, read |-> None,
                           writes |-> @.writes \cup (IF keeps THEN {} ELSE {next})]]
    /\ UNCHANGED <<actual, rows, hot, stored, job, feed, offset, targets, page, extras>>

Written(w, m) == {r \in tx[w].writes : r.match = m}
Committed(w) ==
    [m \in Matches |->
        IF Written(w, m) = {} THEN rows[m]
        ELSE [status |-> (CHOOSE r \in Written(w, m) : TRUE).status, age |-> 0]]

Commit(w) ==
    /\ tx[w].kind # None /\ ~Busy(w)
    /\ rows' = Committed(w)
    /\ tx' = [tx EXCEPT ![w] = NoTx]

-----------------------------------------------------------------------------
(* The daemon *)

Scheduled == [m \in Matches |-> "scheduled"]

\* get_live_matches: what livescore lists, of the matches that are live.
FetchLive ==
    /\ job = "due"
    /\ \E S \in SUBSET {m \in Matches : actual[m] = "live"} :
          /\ feed' = S
          /\ Open("daemon", "sync", SelectSeq(Order, LAMBDA m : m \in S), actual)
    /\ job' = "live"
    /\ UNCHANGED <<actual, rows, hot, stored, offset, targets, page, extras>>

StaleRows ==
    SelectSeq(Order, LAMBDA m : /\ m \notin feed
                                /\ Status(m) = "live"
                                /\ rows[m].age > LiveMaxAge)

Window(old) == IF Targets < Len(old) THEN Targets ELSE Len(old)
\* Faulty variant: the first stale rows are looked up every time.
First(old) == [i \in 1..Window(old) |-> [match |-> old[i], next |-> 0]]
\* A window of the stale rows that starts where the last one stopped.
Rotated(old) ==
    [i \in 1..Window(old) |->
        LET at == (offset % Len(old)) + i
        IN [match |-> old[((at - 1) % Len(old)) + 1], next |-> at % Len(old)]]

LiveIsStored ==
    /\ job = "live" /\ Commit("daemon")
    /\ job' = "stale"
    /\ UNCHANGED <<actual, hot, stored, feed, offset, targets, page, extras>>

SelectStale ==
    /\ job = "stale"
    /\ targets' = IF StaleRows = <<>> THEN <<>> ELSE Rotated(StaleRows)
    /\ job' = "calibrate" /\ feed' = {}
    /\ UNCHANGED <<actual, rows, hot, stored, offset, page, tx, extras>>

Lookup(m) == Open("daemon", "sync", <<m>>, actual)

\* The offset moves on before the lookup, whatever comes of it.
Calibrate ==
    /\ job = "calibrate" /\ targets # <<>>
    /\ offset' = Head(targets).next
    /\ IF Head(targets).match \in Silent
       THEN targets' = Tail(targets) /\ UNCHANGED <<job, tx>>
       ELSE Lookup(Head(targets).match) /\ job' = "lookup" /\ UNCHANGED targets
    /\ UNCHANGED <<actual, rows, hot, stored, feed, page, extras>>

TargetIsStored ==
    /\ job = "lookup" /\ Commit("daemon")
    /\ targets' = Tail(targets) /\ job' = "calibrate"
    /\ UNCHANGED <<actual, hot, stored, feed, offset, page, extras>>

\* get_fixtures lists what is scheduled, and what it has not seen start yet.
FetchFixtures ==
    /\ job = "calibrate" /\ targets = <<>>
    /\ \E late \in SUBSET {m \in Matches : actual[m] = "live"} :
          Open("daemon", "sync",
               SelectSeq(Order, LAMBDA m : actual[m] = "scheduled" \/ m \in late), Scheduled)
    /\ job' = "upcoming"
    /\ UNCHANGED <<actual, rows, hot, stored, feed, offset, targets, page, extras>>

FixturesAreStored ==
    /\ job = "upcoming" /\ Commit("daemon")
    /\ job' = "idle"
    /\ UNCHANGED <<actual, hot, stored, feed, offset, targets, page, extras>>

\* A call raises, the job's time is up or a deadlock ends its transaction, which
\* is rolled back.  A failed lookup is counted and the next target follows.
JobFails ==
    /\ job \in {"live", "stale", "calibrate", "lookup", "upcoming"}
    /\ CountExtra
    /\ tx' = [tx EXCEPT !["daemon"] = NoTx]
    /\ feed' = {}
    /\ \/ job = "lookup" /\ job' = "calibrate" /\ targets' = Tail(targets)
       \/ job' = "idle" /\ targets' = <<>>
    /\ UNCHANGED <<actual, rows, hot, stored, offset, page>>

\* The realtime worker, later in the same tick, stores what it has received.
StoreSnapshot(m) ==
    /\ job = "idle" /\ Idle("daemon")
    /\ CountExtra
    /\ actual[m] # "scheduled"
    /\ Open("daemon", "save", <<m>>, actual)
    /\ job' = "snapshot"
    /\ UNCHANGED <<actual, rows, hot, stored, feed, offset, targets, page>>

\* The hot snapshot has no expiry.
SnapshotIsStored ==
    /\ job = "snapshot" /\ Commit("daemon")
    /\ LET s == CHOOSE r \in tx["daemon"].writes : TRUE
       IN /\ hot' = [hot EXCEPT ![s.match] = s.status]
          /\ stored' = stored \cup {s.match}
    /\ job' = "idle"
    /\ UNCHANGED <<actual, feed, offset, targets, page, extras>>

SnapshotFails ==
    /\ job = "snapshot" /\ Waits("daemon") /\ Waits("api")
    /\ tx' = [tx EXCEPT !["daemon"] = NoTx]
    /\ job' = "idle"
    /\ UNCHANGED <<actual, rows, hot, stored, feed, offset, targets, page, extras>>

-----------------------------------------------------------------------------
(* The API process *)

Turn(at) == page' = [page EXCEPT !.at = at]
ClosePage == page' = [at |-> "closed", match |-> None, status |-> None]

\* The hot snapshot, or the stored one, whose status is the row's
Known(m) == hot[m] # None \/ m \in stored
KnownStatus(m) == IF hot[m] # None THEN hot[m] ELSE Status(m)

\* The supplier's snapshot of a match nobody followed, which is stored.
FirstSnapshot(m) == Open("api", "save", <<m>>, actual)

\* resolve_match_snapshot
OpenPage(m) ==
    /\ page.at = "closed" /\ m \in Pages
    /\ IF Known(m)
       THEN page' = [at |-> "normalize", match |-> m, status |-> KnownStatus(m)] /\ UNCHANGED tx
       ELSE page' = [at |-> "first", match |-> m, status |-> actual[m]] /\ FirstSnapshot(m)
    /\ UNCHANGED <<actual, rows, hot, stored, job, feed, offset, targets, extras>>

SaveUpgrade ==
    /\ CountExtra
    /\ Open("api", "save", <<page.match>>, [m \in {page.match} |-> page.status])
    /\ UNCHANGED <<actual, rows, hot, stored, job, feed, offset, targets>>

\* Names, photos and rankings of the players make it a new snapshot ...
Normalize == page.at = "normalize" /\ Turn("normalizing") /\ SaveUpgrade

\* ... and so does what the supplier adds to schedule, round, surface and the
\* final score.
Complete == page.at = "metadata" /\ Turn("completing") /\ SaveUpgrade

NothingToUpgrade ==
    /\ page.at \in {"normalize", "metadata"}
    /\ IF page.at = "normalize" THEN Turn("metadata") ELSE ClosePage
    /\ UNCHANGED <<actual, rows, hot, stored, job, feed, offset, targets, tx, extras>>

\* An upgrade is published, a first snapshot is not.
PageIsStored ==
    /\ page.at \in {"first", "normalizing", "completing"} /\ Commit("api")
    /\ stored' = stored \cup {page.match}
    /\ hot' = IF page.at = "first" THEN hot ELSE [hot EXCEPT ![page.match] = page.status]
    /\ IF page.at = "normalizing" THEN Turn("metadata") ELSE ClosePage
    /\ UNCHANGED <<actual, job, feed, offset, targets, extras>>

\* The lock the daemon waits for is handed to it.
PageFails ==
    /\ Waits("daemon") /\ Waits("api")
    /\ tx' = [tx EXCEPT !["api"] = NoTx, !["daemon"].held = @ \cup {Wanted("daemon")}]
    /\ ClosePage
    /\ UNCHANGED <<actual, rows, hot, stored, job, feed, offset, targets, extras>>

-----------------------------------------------------------------------------
(* The list of the API *)

\* Faulty variant: a row is shown whatever its age.
AnyAge(m) == TRUE
IsRecent(m) == rows[m].age <= StaleLimit

\* _list_by_player_id("live"), for everybody's matches
ListedLive == {m \in Matches : Status(m) = "live" /\ IsRecent(m)}

-----------------------------------------------------------------------------

Statement(w) == Lock(w) \/ ReadStatus(w) \/ UpsertMatch(w)

Daemon ==
    \/ Tick \/ FetchLive \/ LiveIsStored \/ SelectStale \/ Calibrate \/ TargetIsStored
    \/ FetchFixtures \/ FixturesAreStored \/ SnapshotIsStored
    \/ JobFails \/ SnapshotFails \/ Statement("daemon")
Api == NothingToUpgrade \/ PageIsStored \/ PageFails \/ Statement("api")

Next ==
    \/ Daemon \/ Api \/ Normalize \/ Complete
    \/ \E m \in Matches : Proceed(m) \/ StoreSnapshot(m) \/ OpenPage(m)

\* The loop of the daemon goes on and a request of the API comes to its end;
\* the database answers and breaks deadlocks.  Nothing makes anybody open a
\* page, or a match start or end.
Fairness == WF_vars(Daemon) /\ WF_vars(Api)

Spec == Init /\ [][Next]_vars /\ Fairness

-----------------------------------------------------------------------------
(* Properties *)

\* A sync never takes a match back to an earlier status than the one committed
\* when it commits: the status it compares with is read after the players and
\* the tournament are locked, so no snapshot is committed in between.
SyncGoesForward ==
    [][tx["daemon"].kind = "sync" /\ tx'["daemon"] = NoTx
       => \A m \in Matches : rows[m] # None => ~IsRegression(Status(m), rows'[m].status)]_vars

\* A match that is over does not stay live in the table: the feed that no
\* longer lists it is no result, but its lookup is, and the window of lookups
\* reaches it behind any match whose lookup never answers.
StaleLiveIsCalibrated ==
    \A m \in Matches \ Silent :
        (actual[m] = "finished" /\ Status(m) = "live") ~> (Status(m) # "live")

\* A match that is over leaves the list of live matches, whether or not the
\* supplier ever answers for it: the list leaves out what nothing confirms.
FinishedLeavesTheList ==
    \A m \in Matches : (actual[m] = "finished") ~> (m \notin ListedLive)

=============================================================================
