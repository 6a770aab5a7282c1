---------------------------- MODULE MarketQuotes ----------------------------
(***************************************************************************)
(* The quotes the pages show: the one row a market has in the projection   *)
(* of persistence/market_repositories.py, the three lanes that write it    *)
(* and the rule of markets/quotes.py by which it is read.  The lanes are   *)
(* the coverage rounds of runtime/market_snapshot.py, run by the daemon's  *)
(* job and as the baseline of the feed; the feed of                        *)
(* runtime/market_catalog_quote_feed.py; and the daemon's mirror of hot    *)
(* books.  They are coroutines of one process, each step ends at an await. *)
(*                                                                         *)
(* Prices and labels are left out: a quote is the instant it is labelled   *)
(* with and the one at which its oldest part was read from the provider.   *)
(* The latter nobody knows of a hot book: it is labelled with the instant  *)
(* at which the pump built it, of events that waited in the queue and of   *)
(* an outcome that may not have changed for long.  How hot books come and  *)
(* go is in MarketSubscription; here the mirror finds any book built so    *)
(* far.  A batch holds one market, an outcome has one side.                *)
(***************************************************************************)
EXTENDS Integers, Sequences

CONSTANTS
    Markets,
    Order,         \* the markets by their sort_key
    Routed,        \* the markets whose tokens the feed can tell apart
    Linked,        \* the markets the decision lane keeps hot books of
    Cap,           \* max_markets
    RealtimeFresh, \* realtime_fresh_seconds
    SnapshotFresh, \* quote_fresh_seconds
    None,          \* no quote, no book, no instant
    MaxTime,       \* bound: the clock
    MaxFaults      \* bound: failures, refusals, lost connections, relistings

\* Who runs rounds: the scheduler and the feed, on one MarketQuoteSnapshotJob
Rounds == {"job", "baseline"}
Outcomes == {1, 2}

VARIABLES
    clock,
    listed,  \* the open and scheduled markets
    row,     \* the row of each market, or None
    offset,  \* _rotation_offset
    until,   \* _retry_after_until
    at,      \* where each round stands
    now,     \* the instant it began
    backoff, \* the rounds that began before _retry_after_until
    todo,    \* the selected markets whose batch is still to come
    beyond,  \* the markets the cap did not reach
    fetched, \* the market whose batch was read, and when
    failed,  \* the rounds with a failed batch or a refusal
    feed,    \* where MarketCatalogQuoteFeed.run stands
    side,    \* the instant of each outcome's last frame, or None
    dirty,   \* the markets with frames that were not flushed
    faults

shared == <<offset, until>>
round == <<at, now, backoff, todo, beyond, fetched, failed>>
stream == <<feed, side, dirty>>
vars == <<clock, listed, row, shared, round, stream, faults>>

Instants == 0..MaxTime

Records == [source : {"snapshot", "realtime"}, asOf : Instants,
            read : Instants \cup {None}]

TypeOK ==
    /\ clock \in Instants
    /\ listed \subseteq Markets
    /\ row \in [Markets -> Records \cup {None}]
    /\ offset \in Nat
    /\ until \in Instants
    /\ at \in [Rounds -> {"idle", "select", "limit", "fetch", "write", "end"}]
    /\ now \in [Rounds -> Instants]
    /\ backoff \subseteq Rounds
    /\ todo \in [Rounds -> Seq(Markets)]
    /\ beyond \in [Rounds -> SUBSET Markets]
    /\ fetched \in [Rounds -> Instants \cup {None}]
    /\ failed \subseteq Rounds
    /\ feed \in {"down", "baseline", "up"}
    /\ side \in [Markets -> [Outcomes -> Instants \cup {None}]]
    /\ dirty \subseteq Markets
    /\ faults \in 0..MaxFaults

\* There is no quote and no instant that is taken for none.
NoneIsNoQuote ==
    /\ None \notin Nat
    /\ None \notin [source : {"snapshot", "realtime"}, asOf : Nat, read : Nat \cup {None}]

NoFrames == [o \in Outcomes |-> None]

Init ==
    /\ clock = 0
    /\ listed = Markets
    /\ row = [m \in Markets |-> None]
    /\ offset = 0 /\ until = 0
    /\ at = [r \in Rounds |-> "idle"] /\ now = [r \in Rounds |-> 0]
    /\ backoff = {}
    /\ todo = [r \in Rounds |-> <<>>] /\ beyond = [r \in Rounds |-> {}]
    /\ fetched = [r \in Rounds |-> None] /\ failed = {}
    /\ feed = "down"
    /\ side = [m \in Markets |-> NoFrames] /\ dirty = {}
    /\ faults = 0

Fault == faults < MaxFaults /\ faults' = faults + 1
-----------------------------------------------------------------------------
(* The row.                                                                *)

Rank(record) == IF record.source = "realtime" THEN 1 ELSE 0

\* Faulty variant: the quote that is written last is the newest
AlwaysSupersedes(m, record) == TRUE

\* decide_quote_write; writing the same quote again would change nothing
Supersedes(m, record) ==
    row[m] # None =>
        \/ record.asOf > row[m].asOf
        \/ record.asOf = row[m].asOf /\ Rank(record) >= Rank(row[m])

Upsert(m, record) ==
    row' = [row EXCEPT ![m] = IF Supersedes(m, record) THEN record ELSE @]

\* A row keeps its quote under the label limited; a market without a row gets
\* an empty one
Marked(m, instant) ==
    IF row[m] # None THEN row[m]
    ELSE [source |-> "snapshot", asOf |-> instant, read |-> instant]
-----------------------------------------------------------------------------
(* A coverage round.                                                       *)

StartRound(r) ==
    /\ at[r] = "idle"
    /\ r = "baseline" => feed = "down" /\ listed \cap Routed # {}
    /\ at' = [at EXCEPT ![r] = "select"]
    /\ now' = [now EXCEPT ![r] = clock]
    /\ backoff' = IF clock < until THEN backoff \cup {r} ELSE backoff \ {r}
    /\ failed' = failed \ {r}
    /\ feed' = IF r = "baseline" THEN "baseline" ELSE feed
    /\ UNCHANGED <<clock, listed, row, shared, todo, beyond, fetched, side,
                   dirty, faults>>

Eligible == LET Listed(m) == m \in listed IN SelectSeq(Order, Listed)

\* The candidates from the offset on, and around
Rotated ==
    LET start == offset % Len(Eligible)
    IN  SubSeq(Eligible, start + 1, Len(Eligible)) \o SubSeq(Eligible, 1, start)

Selected ==
    IF Eligible = <<>> THEN <<>>
    ELSE SubSeq(Rotated, 1, IF Len(Eligible) < Cap THEN Len(Eligible) ELSE Cap)

NextOffset == ((offset % Len(Eligible)) + Len(Selected)) % Len(Eligible)

\* During a backoff the window neither moves nor is it read
SelectMarkets(r) ==
    /\ at[r] = "select"
    /\ offset' = IF Selected # <<>> /\ r \notin backoff THEN NextOffset ELSE offset
    /\ todo' = [todo EXCEPT ![r] = IF r \in backoff THEN <<>> ELSE Selected]
    /\ beyond' = [beyond EXCEPT ![r] =
                     listed \ {Selected[i] : i \in DOMAIN Selected}]
    /\ at' = [at EXCEPT ![r] = "limit"]
    /\ UNCHANGED <<clock, listed, row, until, now, backoff, fetched, failed,
                   stream, faults>>

MarkLimited(r) ==
    /\ at[r] = "limit"
    /\ row' = [m \in Markets |-> IF m \in beyond[r] THEN Marked(m, now[r])
                                 ELSE row[m]]
    /\ beyond' = [beyond EXCEPT ![r] = {}]
    /\ at' = [at EXCEPT ![r] = "fetch"]
    /\ UNCHANGED <<clock, listed, shared, now, backoff, todo, fetched, failed,
                   stream, faults>>

FetchBatch(r) ==
    /\ at[r] = "fetch"
    /\ todo[r] # <<>>
    /\ fetched' = [fetched EXCEPT ![r] = clock]
    /\ at' = [at EXCEPT ![r] = "write"]
    /\ UNCHANGED <<clock, listed, row, shared, now, backoff, todo, beyond,
                   failed, stream, faults>>

\* The next batch is tried all the same
BatchFails(r) ==
    /\ at[r] = "fetch"
    /\ todo[r] # <<>>
    /\ Fault
    /\ todo' = [todo EXCEPT ![r] = Tail(@)]
    /\ failed' = failed \cup {r}
    /\ UNCHANGED <<clock, listed, row, shared, at, now, backoff, beyond,
                   fetched, stream>>

\* A 429 ends the round and names the instant of the next one
RateLimited(r) ==
    /\ at[r] = "fetch"
    /\ todo[r] # <<>>
    /\ Fault
    /\ \E t \in now[r] + 1 .. MaxTime : until' = t
    /\ todo' = [todo EXCEPT ![r] = <<>>]
    /\ failed' = failed \cup {r}
    /\ UNCHANGED <<clock, listed, row, offset, at, now, backoff, beyond,
                   fetched, stream>>

\* Faulty variant: a quote is as of the instant it is written
AsOfWrite(r) == clock

\* Books are as of the beginning of their round
AsOfRound(r) == now[r]

\* Where the provider knows no book of the market the quote is empty
WriteQuote(r) ==
    /\ at[r] = "write"
    /\ Upsert(Head(todo[r]), [source |-> "snapshot", asOf |-> AsOfRound(r),
                              read |-> fetched[r]])
    /\ fetched' = [fetched EXCEPT ![r] = None]
    /\ todo' = [todo EXCEPT ![r] = Tail(@)]
    /\ at' = [at EXCEPT ![r] = "fetch"]
    /\ UNCHANGED <<clock, listed, shared, now, backoff, beyond, failed, stream, faults>>

RoundIsOver(r) ==
    /\ at' = [at EXCEPT ![r] = "idle"]
    /\ now' = [now EXCEPT ![r] = 0]
    /\ todo' = [todo EXCEPT ![r] = <<>>]
    /\ beyond' = [beyond EXCEPT ![r] = {}]
    /\ fetched' = [fetched EXCEPT ![r] = None]
    /\ backoff' = backoff \ {r}
    /\ failed' = failed \ {r}

\* The baseline of the feed must be whole before it connects
EndRound(r) ==
    /\ at[r] = "fetch"
    /\ todo[r] = <<>>
    /\ RoundIsOver(r)
    /\ IF r = "baseline"
       THEN IF r \in failed \cup backoff
            THEN feed' = "down" /\ UNCHANGED <<side, dirty>>
            ELSE /\ feed' = "up"
                 /\ side' = [m \in Markets |-> NoFrames] /\ dirty' = {}
       ELSE UNCHANGED stream
    /\ UNCHANGED <<clock, listed, row, shared, faults>>

\* A statement fails or the scheduler's time is over
RoundFails(r) ==
    /\ at[r] # "idle"
    /\ Fault
    /\ RoundIsOver(r)
    /\ feed' = IF r = "baseline" THEN "down" ELSE feed
    /\ UNCHANGED <<clock, listed, row, shared, side, dirty>>
-----------------------------------------------------------------------------
(* The feed.                                                               *)

Frame(m, o) ==
    /\ feed = "up"
    /\ m \in listed \cap Routed
    /\ side' = [side EXCEPT ![m][o] = clock]
    /\ dirty' = dirty \cup {m}
    /\ UNCHANGED <<clock, listed, row, shared, round, feed, faults>>

Ready(m) == \A o \in Outcomes : side[m][o] # None

OldestFrame(m) == IF side[m][1] < side[m][2] THEN side[m][1] ELSE side[m][2]

\* A quote is as old as its oldest part
AsOfFrames(m) == OldestFrame(m)

Flush(m) ==
    /\ feed = "up"
    /\ m \in dirty /\ Ready(m)
    /\ dirty' = dirty \ {m}
    /\ Upsert(m, [source |-> "realtime", asOf |-> AsOfFrames(m),
                  read |-> OldestFrame(m)])
    /\ UNCHANGED <<clock, listed, shared, round, feed, side, faults>>

Disconnect ==
    /\ feed = "up"
    /\ Fault
    /\ feed' = "down"
    /\ UNCHANGED <<clock, listed, row, shared, round, side, dirty>>

\* A market is closed or opened again; the feed forgets what it knew of it
Relist(m) ==
    /\ Fault
    /\ listed' = IF m \in listed THEN listed \ {m} ELSE listed \cup {m}
    /\ IF feed = "up"
       THEN side' = [side EXCEPT ![m] = NoFrames] /\ dirty' = dirty \ {m}
       ELSE UNCHANGED <<side, dirty>>
    /\ UNCHANGED <<clock, row, shared, round, feed>>
-----------------------------------------------------------------------------
(* The mirror of hot books.                                                *)

\* A hot book is labelled with the instant it was built.  Its hash may be the one
\* mirrored last, or a statement may fail: then nothing is written
MirrorHotBook(m) ==
    /\ m \in Linked
    /\ \E built \in 0..clock :
        Upsert(m, [source |-> "realtime", asOf |-> built, read |-> None])
    /\ UNCHANGED <<clock, listed, shared, round, stream, faults>>

Tick ==
    /\ clock < MaxTime
    /\ clock' = clock + 1
    /\ UNCHANGED <<listed, row, shared, round, stream, faults>>
-----------------------------------------------------------------------------
Work(r) ==
    \/ StartRound(r) \/ SelectMarkets(r) \/ MarkLimited(r)
    \/ FetchBatch(r) \/ WriteQuote(r) \/ EndRound(r)

Faulty(r) == BatchFails(r) \/ RateLimited(r) \/ RoundFails(r)

Next ==
    \/ \E r \in Rounds : Work(r) \/ Faulty(r)
    \/ \E m \in Markets :
        \/ \E o \in Outcomes : Frame(m, o)
        \/ Flush(m) \/ Relist(m) \/ MirrorHotBook(m)
    \/ Disconnect \/ Tick

Spec == Init /\ [][Next]_vars
-----------------------------------------------------------------------------
(* What a page shows of a market.                                          *)

Bound(record) ==
    IF record.source = "realtime" THEN RealtimeFresh ELSE SnapshotFresh

\* The row of a market, and whether it is labelled stale; a page that finds a
\* fresh hot book shows that one instead
DisplayQuote(m) ==
    [source |-> row[m].source, read |-> row[m].read,
     stale |-> clock - row[m].asOf > Bound(row[m])]
-----------------------------------------------------------------------------
\* A quote of a round or of the feed that is shown without the label stale was
\* read from the provider no longer ago than its lane allows, in each of its
\* parts, however long the write took, whatever marked it since and whichever
\* lanes wrote before and after it (display_quote: "the slower window must never
\* vouch for a quote that was only ever valid for a moment").  Of hot and
\* mirrored books it says nothing.
ShownIsFresh ==
    \A m \in Markets :
        row[m] # None /\ ~DisplayQuote(m).stale /\ DisplayQuote(m).read # None =>
            clock - DisplayQuote(m).read
                <= IF DisplayQuote(m).source = "realtime"
                   THEN RealtimeFresh ELSE SnapshotFresh

\* No lane takes a row back to an older quote, nor a realtime row to a
\* snapshot of the same instant, while rounds, frames and mirrored books
\* overtake each other (decide_quote_write, mark_limited).
GoesForward ==
    \A m \in Markets :
        row[m] # None =>
            /\ row'[m] # None
            /\ \/ row'[m].asOf > row[m].asOf
               \/ row'[m].asOf = row[m].asOf /\ Rank(row'[m]) >= Rank(row[m])
RowGoesForward == [][GoesForward]_vars
=============================================================================
