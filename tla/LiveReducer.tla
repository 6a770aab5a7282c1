---------------------------- MODULE LiveReducer ----------------------------
(***************************************************************************)
(* The canonical live reducer of backend/app/realtime/reducer.py and the   *)
(* rows that SnapshotRepository keeps of what it returns.                  *)
(*                                                                         *)
(* A supplier payload is a full snapshot of one match.  reduce_live_snapshot*)
(* compares it with the previous snapshot, keeps the identity, sequence    *)
(* and revision of the points it has seen before, numbers the new ones,    *)
(* and renumbers from the first difference when a point was corrected or   *)
(* dropped; save_reduction upserts the points by sequence, and             *)
(* load_snapshot reads the rows back after a restart.                      *)
(*                                                                         *)
(* Point ids: the supplier's are positions in the payload,                 *)
(* "pe_<match>_<n>", here <<0, n, 0>>; the ids that _unique_point_id makes *)
(* are digests of identity, sequence and attempt, here the triple.         *)
(***************************************************************************)
EXTENDS Integers, Sequences, FiniteSets, Functions

CONSTANTS
    Identities,  \* (set, game, point) of a point, as an increasing number
    Contents,    \* what _point_fingerprint compares
    Payloads,    \* the payloads of the supplier
    MaxVersion,  \* bound on the semantic changes
    None,        \* a value the supplier did not report
    NoScore      \* a payload without any score

VARIABLES
    snapshot,   \* MatchSnapshot the process holds; version 0 is none
    rows,       \* point_events of the match by sequence
    history,    \* point_event_revisions, as <<point_event_id, revision>>
    state,      \* players, matches, match_state_snapshots
    derived,    \* match_statistics, momentum_observations
    payload,    \* the last payload reduced since the snapshot was loaded
    rejected,   \* the last save violated a key of the database
    ghosts      \* a load found rows behind the last point of the snapshot

vars == <<snapshot, rows, history, state, derived, payload, rejected, ghosts>>

\* A payload names a point once: a number that a game's points repeat is raised
\* until it is free (providers/api_tennis.py).
PayloadsAreSupplied ==
    /\ 0 \notin Identities
    /\ \A p \in Payloads :
        /\ p.points \in Seq(Identities \X Contents)
        /\ \A i, j \in DOMAIN p.points : p.points[i][1] = p.points[j][1] => i = j

NoSnapshot ==
    [version |-> 0, points |-> <<>>, momentum |-> {}, status |-> None,
     games |-> None, name |-> None, statistic |-> None]

\* The part of a snapshot in the rows that hold one value per match, and in
\* those that are upserted by key; retained statistics are in every reduction,
\* and momentum rows behind it are deleted, so both are the snapshot's.
StateOf(s) ==
    [version |-> s.version, status |-> s.status, games |-> s.games, name |-> s.name]
DerivedOf(s) == [statistic |-> s.statistic, momentum |-> s.momentum]

Init ==
    /\ snapshot = NoSnapshot
    /\ rows = <<>>
    /\ history = {}
    /\ state = StateOf(NoSnapshot)
    /\ derived = DerivedOf(NoSnapshot)
    /\ payload = None
    /\ rejected = FALSE
    /\ ghosts = FALSE

-----------------------------------------------------------------------------
(* Sparse payloads: what was known is not erased by what is not reported *)

Known(incoming, stored) == IF incoming = None THEN stored ELSE incoming

\* A payload without any score replaces the score; one with a score keeps the
\* games it does not report.
MergeSetScores(p) ==
    IF p.games = NoScore THEN None ELSE Known(p.games, snapshot.games)

\* A full name is not replaced by an initial.
PreferredName(p) ==
    IF snapshot.name = "full" THEN "full" ELSE p.name

\* A statistic that is not reported stays, marked stale.
MergeStatistics(p) ==
    IF p.statistic # None THEN <<p.statistic, "available">>
    ELSE IF snapshot.statistic = None THEN None
    ELSE <<snapshot.statistic[1], "stale">>

-----------------------------------------------------------------------------
(* Points *)

IdentitiesOf(points) == {points[i].identity : i \in DOMAIN points}
IdsOf(points) == {points[i].id : i \in DOMAIN points}
\* The dictionary by identity keeps the last of several points.
Stored(points, identity) ==
    points[CHOOSE i \in DOMAIN points :
              /\ points[i].identity = identity
              /\ \A j \in DOMAIN points : points[j].identity = identity => j <= i]
LastSequence(points) ==
    IF points = <<>> THEN 0
    ELSE CHOOSE n \in {points[i].sequence : i \in DOMAIN points} :
             \A i \in DOMAIN points : points[i].sequence <= n

\* Faulty variant: the supplier's id is kept.
SupplierPointId(id, identity, sequence, used) == id
\* Digests of different points differ, so the ids handed out earlier in the
\* same reduction can only meet the supplier's, which are positions.
UniquePointId(id, identity, sequence, used) ==
    IF id \notin used THEN id
    ELSE <<identity, sequence,
           CHOOSE n \in 0..Cardinality(used) :
               /\ <<identity, sequence, n>> \notin used
               /\ \A k \in 0..(n - 1) : <<identity, sequence, k>> \in used>>
\* The payload's points before a rebuild: the stored ones, corrected where
\* their contents differ, and the new ones after the last sequence.
Reduced(p) ==
    LET old == snapshot.points
        isNew(i) == p.points[i][1] \notin IdentitiesOf(old)
        sequence(i) == LastSequence(old)
                       + Cardinality({j \in 1..i : isNew(j)})
    IN [i \in DOMAIN p.points |->
          LET identity == p.points[i][1]
              content == p.points[i][2]
          IN IF isNew(i)
             THEN [identity |-> identity, content |-> content, revision |-> 1,
                   sequence |-> sequence(i),
                   id |-> UniquePointId(<<0, i, 0>>, identity, sequence(i), IdsOf(old))]
             ELSE LET was == Stored(old, identity)
                  IN IF content = was.content THEN was
                     ELSE [was EXCEPT !.content = content,
                                      !.revision = was.revision + 1]]

Corrected(p) ==
    {i \in DOMAIN p.points :
        /\ p.points[i][1] \in IdentitiesOf(snapshot.points)
        /\ Stored(snapshot.points, p.points[i][1]).content # p.points[i][2]}
Dropped(p) ==
    {was \in Range(snapshot.points) :
        \A i \in DOMAIN p.points : p.points[i][1] # was.identity}
Appended(p) ==
    {i \in DOMAIN p.points : p.points[i][1] \notin IdentitiesOf(snapshot.points)}

MustRebuild(p) == Corrected(p) # {} \/ Dropped(p) # {}

\* Contiguous sequences in the payload's order; a stored point that moves
\* gets an id of its own, a new one keeps the one it was given.
Rebuilt(p) ==
    LET points == Reduced(p)
        old == snapshot.points
        used == IdsOf(old) \cup IdsOf(points)
    IN IF ~MustRebuild(p) THEN points
       ELSE [i \in DOMAIN points |->
               LET point == points[i]
               IN IF point.sequence = i THEN point
                  ELSE [point EXCEPT
                          !.sequence = i,
                          !.id = IF point.identity \in IdentitiesOf(old)
                                 THEN UniquePointId(point.id, point.identity, i, used)
                                 ELSE point.id]]

\* What the momentum index is computed from; the index stands for its input.
MomentumSignature(points) ==
    {<<points[i].sequence, points[i].content>> : i \in DOMAIN points}

-----------------------------------------------------------------------------
(* reduce_live_snapshot *)

Candidate(p) ==
    [version |-> snapshot.version + 1,
     points |-> Rebuilt(p),
     momentum |-> MomentumSignature(Rebuilt(p)),
     status |-> p.status,
     games |-> MergeSetScores(p),
     name |-> PreferredName(p),
     statistic |-> MergeStatistics(p)]

\* Every item of the quality carries the time of its candidate, so a clock
\* that has moved changes it.
QualityChanges(p, clockMoved) ==
    \/ clockMoved
    \/ (p.points = <<>>) # (snapshot.points = <<>>)

Changed(p, clockMoved) ==
    \/ snapshot.version = 0
    \/ Appended(p) # {}
    \/ Corrected(p) # {}
    \/ Dropped(p) # {}
    \/ QualityChanges(p, clockMoved)
    \/ \E f \in {"status", "games", "name", "statistic"} :
           Candidate(p)[f] # snapshot[f]

-----------------------------------------------------------------------------
(* save_reduction *)

RowOf(point) ==
    [identity |-> point.identity, content |-> point.content,
     revision |-> point.revision, id |-> point.id]

\* Faulty variant: an existing row keeps its contents.
InsertedRows(points) ==
    LET top == IF Len(points) > Len(rows) THEN Len(points) ELSE Len(rows)
    IN [s \in 1..top |->
          IF s \in DOMAIN rows THEN rows[s]
          ELSE RowOf(points[CHOOSE i \in DOMAIN points : points[i].sequence = s])]
\* Upserted by sequence: an existing row keeps its id, and the rows behind
\* the last point stay.
SavedRows(points) ==
    LET top == IF Len(points) > Len(rows) THEN Len(points) ELSE Len(rows)
        bySequence(s) == {i \in DOMAIN points : points[i].sequence = s}
    IN [s \in 1..top |->
          IF bySequence(s) = {} THEN rows[s]
          ELSE LET row == RowOf(points[CHOOSE i \in bySequence(s) : TRUE])
               IN IF s \in DOMAIN rows THEN [row EXCEPT !.id = rows[s].id]
                  ELSE row]
\* Faulty variant: the revision before the correction.
OldRevisionsOf(p) ==
    {LET was == Stored(snapshot.points, p.points[i][1])
     IN <<was.id, was.revision>> : i \in Corrected(p)}
RevisionsOf(p) ==
    {LET was == Stored(snapshot.points, p.points[i][1])
     IN <<was.id, was.revision + 1>> : i \in Corrected(p)}

\* point_events.id is the primary key, and a revision refers to it.
IdTaken(points) ==
    \E i \in DOMAIN points :
        /\ points[i].sequence \notin DOMAIN rows
        /\ points[i].id \in IdsOf(rows)
NoSuchPoint(p, saved) ==
    \E r \in RevisionsOf(p) : r[1] \notin IdsOf(saved)

\* A reduction, and its transaction: it commits, or nothing changes.
Deliver(p, clockMoved) ==
    /\ payload' = p
    /\ UNCHANGED ghosts
    /\ IF ~Changed(p, clockMoved)
       THEN /\ rejected' = FALSE
            /\ UNCHANGED <<snapshot, rows, history, state, derived>>
       ELSE LET new == Candidate(p)
                saved == SavedRows(new.points)
            IN /\ snapshot.version < MaxVersion
               /\ IF IdTaken(new.points) \/ NoSuchPoint(p, saved)
                  THEN /\ rejected' = TRUE
                       /\ UNCHANGED <<snapshot, rows, history, state, derived>>
                  ELSE /\ rejected' = FALSE
                       /\ snapshot' = new
                       /\ rows' = saved
                       /\ history' = history \cup RevisionsOf(p)
                       /\ state' = StateOf(new)
                       /\ derived' = DerivedOf(new)

\* load_snapshot: every point row of the match, in the order of sequences.
LoadedPoints ==
    [s \in DOMAIN rows |->
        [identity |-> rows[s].identity, content |-> rows[s].content,
         revision |-> rows[s].revision, sequence |-> s, id |-> rows[s].id]]

\* The process restarts, or the hot snapshot is gone.
LoadSnapshot ==
    /\ state.version > 0
    /\ snapshot' = [version |-> state.version, status |-> state.status,
                    games |-> state.games, name |-> state.name,
                    statistic |-> derived.statistic,
                    momentum |-> derived.momentum, points |-> LoadedPoints]
    /\ payload' = None
    /\ rejected' = FALSE
    /\ ghosts' = (ghosts \/ Len(rows) > Cardinality(derived.momentum))
    /\ UNCHANGED <<rows, history, state, derived>>

Next ==
    \/ \E p \in Payloads, clockMoved \in BOOLEAN : Deliver(p, clockMoved)
    \/ LoadSnapshot

Spec == Init /\ [][Next]_vars

-----------------------------------------------------------------------------
(* Properties *)

Ids == (Identities \cup {0}) \X Nat \X Nat

TypeOK ==
    /\ snapshot.version \in 0..MaxVersion
    /\ state.version \in 0..MaxVersion
    /\ \A i \in DOMAIN snapshot.points :
           snapshot.points[i] \in
               [identity : Identities, content : Contents, id : Ids,
                revision : 1..(MaxVersion + 1), sequence : Nat \ {0}]
    /\ \A s \in DOMAIN rows :
           rows[s] \in [identity : Identities, content : Contents, id : Ids,
                        revision : 1..(MaxVersion + 1)]
    /\ history \subseteq (Ids \X Nat)
    /\ rejected \in BOOLEAN
    /\ ghosts \in BOOLEAN

\* Whatever is inserted, corrected and dropped in whatever order, the points
\* of a snapshot have different ids and identities, and their sequences are
\* 1..n: what save_reduction's upsert by sequence and the two unique keys of
\* point_events rely on.
PointsAreNumbered ==
    LET points == snapshot.points
    IN ~ghosts =>
         /\ Cardinality(IdsOf(points)) = Len(points)
         /\ Cardinality(IdentitiesOf(points)) = Len(points)
         /\ {points[i].sequence : i \in DOMAIN points} = DOMAIN points

\* A reload finds every point that is shown, with its contents and revision,
\* under its sequence, although rows are upserted and never deleted.
RowsHoldTheSnapshot ==
    ~ghosts => \A i \in DOMAIN snapshot.points :
        LET point == snapshot.points[i]
        IN /\ point.sequence \in DOMAIN rows
           /\ [rows[point.sequence] EXCEPT !.id = point.id] = RowOf(point)

\* The revision of a point that stays is never lowered, and a point whose
\* contents change has a revision row under the id it had (an older one, if
\* the id of its row was another point's before: the insert then does nothing).
Revises ==
    ~ghosts' => \A i \in DOMAIN snapshot.points, j \in DOMAIN snapshot'.points :
        LET was == snapshot.points[i]
            is == snapshot'.points[j]
        IN was.identity = is.identity =>
             /\ is.revision >= was.revision
             /\ was.content # is.content => <<was.id, is.revision>> \in history'
CorrectionIsARevision == [][Revises]_vars

\* Every reduction can be saved: _unique_point_id exists so that a rebuild
\* does not reuse an id of the database.
EverySaveCommits == ~rejected

=============================================================================
