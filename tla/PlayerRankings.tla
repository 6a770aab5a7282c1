---------------------------- MODULE PlayerRankings ----------------------------
(***************************************************************************)
(* The ranking tables of the player directory: the sync of                 *)
(* backend/app/players/sync.py with the snapshots that                     *)
(* persistence/player_directory.py keeps, and a page of the rankings that  *)
(* backend/app/service.py puts together in three reads.                    *)
(*                                                                         *)
(* A standing is a rank, or Unranked for a player the supplier leaves out; *)
(* tied players have the same one.  Rows hold the rank and the movement.   *)
(* Points, countries and photos are left out, and so is players.ranking:   *)
(* every read puts the rank of the latest snapshot in its place.           *)
(***************************************************************************)
EXTENDS Integers, FiniteSetsExt

CONSTANTS
    Standings,   \* [the tours -> the standings that may be fetched]
    Keep,        \* keep_per_tour
    MaxDay,      \* bound: days
    None

VARIABLES
    day,
    rows,    \* [tours -> [days -> [players with a row -> rank and movement]]]
    sync,    \* the sync under way: tours left, what was fetched, whether one failed
    page     \* a page being read: tour, date, whether it has rows, and as_of

vars == <<day, rows, sync, page>>

Tours == DOMAIN Standings
Days == 1..MaxDay
Unranked == 0
\* There is a day, and a number of snapshots to keep.
RankingsAreFinite == MaxDay \in Nat \ {0} /\ Keep \in Nat
NoRows == <<>>

NoSync == [left |-> {}, tour |-> None, date |-> None, standing |-> None, failed |-> FALSE]
NoPage == [tour |-> None, date |-> None, rows |-> None, asOf |-> None]

Init ==
    /\ day = 1
    /\ rows = [t \in Tours |-> [d \in Days |-> NoRows]]
    /\ sync = NoSync /\ page = NoPage

Dates(t) == {d \in Days : rows[t][d] # NoRows}
LatestDate(t) == IF Dates(t) = {} THEN None ELSE Max(Dates(t))

-----------------------------------------------------------------------------
(* The sync *)

StartSync ==
    /\ sync.left = {} /\ sync.tour = None
    /\ sync' = [NoSync EXCEPT !.left = Tours]
    /\ UNCHANGED <<day, rows, page>>

\* The standings as of the day they are fetched.
Fetch(t) ==
    /\ sync.tour = None /\ t \in sync.left
    /\ \E standing \in Standings[t] :
        sync' = [sync EXCEPT !.left = @ \ {t}, !.tour = t, !.date = day,
                             !.standing = standing]
    /\ UNCHANGED <<day, rows, page>>

\* A failing or an empty answer keeps the tour's last snapshot.
FetchFails(t) ==
    /\ sync.tour = None /\ t \in sync.left
    /\ sync' = [sync EXCEPT !.left = @ \ {t}, !.failed = TRUE]
    /\ UNCHANGED <<day, rows, page>>

\* Faulty variant: the snapshot of the same day counts as the one before.
DatesUntil(t, d) == {x \in Dates(t) : x <= d}
DatesBefore(t, d) == {x \in Dates(t) : x < d}
PreviousRows(t, d) == IF DatesBefore(t, d) = {} THEN NoRows ELSE rows[t][Max(DatesBefore(t, d))]

MovementFromRankChange(previous, rank) ==
    CASE previous = Unranked -> "unknown"
      [] previous # Unranked /\ rank < previous -> "up"
      [] previous # Unranked /\ rank > previous -> "down"
      [] OTHER -> "same"
PreviousRank(t, d, p) ==
    IF p \in DOMAIN PreviousRows(t, d) THEN PreviousRows(t, d)[p].rank ELSE Unranked

\* Of the players tied at a rank, the first one alone gets a row.
KeepsRow(standing, p) ==
    /\ standing[p] # Unranked
    /\ \A q \in DOMAIN standing : standing[q] = standing[p] => p <= q
NewRows(t, d, standing) ==
    [p \in {q \in DOMAIN standing : KeepsRow(standing, q)} |->
        [rank |-> standing[p],
         movement |-> MovementFromRankChange(PreviousRank(t, d, p), standing[p])]]

Save ==
    LET t == sync.tour
        d == sync.date
    IN /\ t # None
       /\ rows' = [rows EXCEPT ![t][d] = NewRows(t, d, sync.standing)]
       /\ sync' = [sync EXCEPT !.tour = None, !.date = None, !.standing = None]
       /\ UNCHANGED <<day, page>>

\* The snapshots that are kept: the latest
Kept(t) == {d \in Dates(t) : Cardinality({x \in Dates(t) : x > d}) < Keep}

\* Snapshots are pruned when the sync of every tour has been saved.
Prune ==
    /\ sync.left = {} /\ sync.tour = None /\ ~sync.failed
    /\ rows' = [t \in Tours |-> [d \in Days |-> IF d \in Kept(t) THEN rows[t][d] ELSE NoRows]]
    /\ UNCHANGED <<day, sync, page>>

\* The process stops, or a save fails.
Interrupt ==
    /\ sync # NoSync
    /\ sync' = [NoSync EXCEPT !.failed = TRUE]
    /\ UNCHANGED <<day, rows, page>>

\* Neither a page nor the fetch and save of a tour goes on over midnight; in the
\* code they would have to take as many days as snapshots are kept.
NextDay ==
    /\ day < MaxDay /\ page.tour = None /\ sync.tour = None
    /\ day' = day + 1
    /\ UNCHANGED <<rows, sync, page>>

-----------------------------------------------------------------------------
(* A page of the rankings *)

ReadDate(t) ==
    /\ page.tour = None
    /\ page' = [NoPage EXCEPT !.tour = t, !.date = LatestDate(t)]
    /\ UNCHANGED <<day, rows, sync>>

ReadRows ==
    /\ page.tour # None /\ page.rows = None
    /\ page' = [page EXCEPT !.rows = page.date # None /\ rows[page.tour][page.date] # NoRows]
    /\ UNCHANGED <<day, rows, sync>>

\* as_of is read once the missing photos have been fetched, in a later table
\* perhaps.
ReadAsOf ==
    /\ page.tour # None /\ page.rows # None /\ page.asOf = None
    /\ page' = [page EXCEPT !.asOf = IF LatestDate(page.tour) = None THEN 0 ELSE LatestDate(page.tour)]
    /\ UNCHANGED <<day, rows, sync>>

ShowPage ==
    /\ page.asOf # None
    /\ page' = NoPage
    /\ UNCHANGED <<day, rows, sync>>

-----------------------------------------------------------------------------

Next ==
    \/ StartSync \/ Save \/ Prune \/ Interrupt \/ NextDay
    \/ \E t \in Tours : Fetch(t) \/ FetchFails(t) \/ ReadDate(t)
    \/ ReadRows \/ ReadAsOf \/ ShowPage

Spec == Init /\ [][Next]_vars

-----------------------------------------------------------------------------
(* Properties *)

\* The movement shown compares a rank with the snapshot of an earlier day,
\* however often the day's standings are fetched again and whatever is pruned.
MovementIsDayOverDay ==
    \A t \in Tours :
        LET earlier == {d \in Dates(t) : d < LatestDate(t)} IN
        LatestDate(t) # None /\ earlier # {} =>
            \A p \in DOMAIN rows[t][LatestDate(t)] :
                LET before == rows[t][Max(earlier)]
                IN rows[t][LatestDate(t)][p].movement =
                       MovementFromRankChange(
                           IF p \in DOMAIN before THEN before[p].rank ELSE Unranked,
                           rows[t][LatestDate(t)][p].rank)

=============================================================================
