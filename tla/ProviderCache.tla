---------------------------- MODULE ProviderCache ----------------------------
(***************************************************************************)
(* The cache in front of the sports providers: AsyncTTLCache of            *)
(* backend/app/cache.py, and the lifetimes the API's loads give it in      *)
(* backend/app/service.py and providers/api_tennis.py.                     *)
(*                                                                         *)
(* A request that finds no fresh entry joins the load of its key or starts *)
(* it; the load goes on when a request is cancelled.  Between the end of a *)
(* load and the moment a request that waited for it resumes, other         *)
(* coroutines run.  A value is told apart by what its lifetime depends on, *)
(* and by when it was loaded.                                              *)
(***************************************************************************)
EXTENDS Integers, Sequences, SequencesExt

CONSTANTS
    Keys,
    Loads,      \* the loads that the keys may belong to: functions from Keys
    Requests,
    MaxEntries, \* cache_max_entries
    MaxTime,    \* bound on the clock
    None

VARIABLES
    load,     \* the load that each key belongs to
    time,
    entries,  \* _entries, the least recently used first
    running,  \* how many loads of a key run
    inflight, \* _inflight: keys with a load to join
    request,  \* what each request does
    answer    \* the answer that the last step gave, if any

vars == <<load, time, entries, running, inflight, request, answer>>

Values == {"none", "live", "full"}

\* Lifetimes in the order of the code's, 30 s to an hour: an empty answer and a
\* live match are kept for one unit of time, anything else for two.  Searches,
\* profiles and histories have no stale fallback.
Short == 1
Long == 2
LookupTtl(value) == IF value = "none" THEN Short ELSE Long
MatchTtl(value) == IF value = "full" THEN Long ELSE Short
MatchStaleTtl(value) == [none |-> 0, live |-> 3, full |-> 4][value]
DrawTtl(value) == IF value = "none" THEN Short ELSE Long
DrawStaleTtl == 4

Ttl(kind, value) ==
    CASE kind = "lookup" -> LookupTtl(value)
      [] kind = "match" -> MatchTtl(value)
      [] kind = "draw" -> DrawTtl(value)
StaleTtl(kind, value) ==
    CASE kind = "lookup" -> 0
      [] kind = "match" -> MatchStaleTtl(value)
      [] kind = "draw" -> DrawStaleTtl

Idle == [phase |-> "idle", key |-> None, asked |-> 0, loaded |-> None]
\* A key belongs to one load for good: its prefix names it.
LoadsAreKnown == Loads \subseteq [Keys -> {"lookup", "match", "draw"}]

Init ==
    /\ load \in Loads
    /\ time = 0 /\ entries = <<>>
    /\ running = [k \in Keys |-> 0] /\ inflight = {}
    /\ request = [r \in Requests |-> Idle]
    /\ answer = None

Cached == {entries[i].key : i \in DOMAIN entries}
IndexOf(key) == CHOOSE i \in DOMAIN entries : entries[i].key = key
EntryOf(key) == entries[IndexOf(key)]
Others(key) == IF key \in Cached THEN RemoveAt(entries, IndexOf(key)) ELSE entries
MovedToEnd(key, entry) == Append(Others(key), entry)
Age(entry) == time - entry.at

Answers(r, key, entry, stale) ==
    /\ answer' = [key |-> key, value |-> entry.value, at |-> entry.at, stale |-> stale,
                  since |-> IF stale THEN time ELSE request[r].asked]
    /\ request' = [request EXCEPT ![r] = Idle]
Refuses(r) ==
    /\ answer' = None
    /\ request' = [request EXCEPT ![r] = Idle]

-----------------------------------------------------------------------------
(* Requests *)

\* A fresh entry answers at once.
Hit(r, key) ==
    /\ request[r] = Idle /\ key \in Cached
    /\ LET entry == EntryOf(key) IN
        /\ Age(entry) <= entry.ttl
        /\ entries' = MovedToEnd(key, entry)
        /\ answer' = [key |-> key, value |-> entry.value, at |-> entry.at, stale |-> FALSE,
                      since |-> time]
    /\ UNCHANGED <<load, time, running, inflight, request>>

Missing(key) == key \in Cached => Age(EntryOf(key)) > EntryOf(key).ttl

JoinOrLoad(key) ==
    running' = IF key \in inflight THEN running ELSE [running EXCEPT ![key] = @ + 1]

Miss(r, key) ==
    /\ request[r] = Idle /\ Missing(key)
    /\ JoinOrLoad(key)
    /\ inflight' = inflight \cup {key}
    /\ request' = [request EXCEPT ![r] =
                      [phase |-> "wait", key |-> key, asked |-> time, loaded |-> None]]
    /\ answer' = None
    /\ UNCHANGED <<load, time, entries>>

\* The client goes away: the load is shielded and goes on.
Cancel(r) ==
    /\ request[r].phase = "wait"
    /\ request' = [request EXCEPT ![r] = Idle]
    /\ answer' = None
    /\ UNCHANGED <<load, time, entries, running, inflight>>

-----------------------------------------------------------------------------
(* Loads *)

\* Who waits for a load, and what it brings them
Woken(key, phase, entry) ==
    [r \in Requests |->
        IF request[r].phase = "wait" /\ request[r].key = key
        THEN [request[r] EXCEPT !.phase = phase, !.loaded = entry]
        ELSE request[r]]

EndsLoad(key) ==
    /\ running[key] > 0
    /\ running' = [running EXCEPT ![key] = @ - 1]
    /\ inflight' = inflight \ {key}
    /\ answer' = None
    /\ UNCHANGED <<load, time>>

\* The least recently used entries over the limit go.
Trimmed(seq) == IF Len(seq) > MaxEntries THEN SubSeq(seq, 2, Len(seq)) ELSE seq

LoadEnds(key, value) ==
    LET entry == [key |-> key, value |-> value, at |-> time, ttl |-> Ttl(load[key], value)]
    IN /\ EndsLoad(key)
       /\ entries' = Trimmed(MovedToEnd(key, entry))
       /\ request' = Woken(key, "loaded", entry)

LoadFails(key) ==
    /\ EndsLoad(key)
    /\ request' = Woken(key, "failed", None)
    /\ UNCHANGED entries

\* A loaded value is answered; the age is that of the entry, and a request whose
\* entry has been evicted meanwhile ends in a KeyError.
ResumeLoaded(r) ==
    /\ request[r].phase = "loaded"
    /\ IF request[r].key \in Cached
       THEN Answers(r, request[r].key, request[r].loaded, FALSE)
       ELSE Refuses(r)
    /\ UNCHANGED <<load, time, entries, running, inflight>>

\* Faulty variant: however old it is.
FallsBackAnyhow(key) == key \in Cached
MayFallBack(key) ==
    /\ key \in Cached
    /\ Age(EntryOf(key)) <= StaleTtl(load[key], EntryOf(key).value)

ResumeFailed(r) ==
    /\ request[r].phase = "failed"
    /\ LET key == request[r].key IN
        \/ /\ MayFallBack(key)
           /\ entries' = MovedToEnd(key, EntryOf(key))
           /\ Answers(r, key, EntryOf(key), TRUE)
        \/ ~MayFallBack(key) /\ Refuses(r) /\ UNCHANGED entries
    /\ UNCHANGED <<load, time, running, inflight>>

\* The requests that a load has woken resume before the clock goes on.
Tick ==
    /\ time < MaxTime
    /\ \A r \in Requests : request[r].phase \in {"idle", "wait"}
    /\ time' = time + 1 /\ answer' = None
    /\ UNCHANGED <<load, entries, running, inflight, request>>

-----------------------------------------------------------------------------

Next ==
    \/ \E r \in Requests, key \in Keys : Hit(r, key) \/ Miss(r, key)
    \/ \E r \in Requests : Cancel(r) \/ ResumeLoaded(r) \/ ResumeFailed(r)
    \/ \E key \in Keys, value \in Values : LoadEnds(key, value)
    \/ \E key \in Keys : LoadFails(key)
    \/ Tick

Spec == Init /\ [][Next]_vars

-----------------------------------------------------------------------------
(* Properties *)

\* Requests for one key share one call of the provider, although requests are
\* cancelled, loads fail and entries are evicted between them.
OneLoadPerKey == \A k \in Keys : running[k] <= 1

\* An answer that is not marked stale was loaded at most its lifetime before it
\* was asked for, and one that is marked stale at most its stale lifetime before
\* it is given: a failing provider never makes an old answer current.
AnswersAreRecent ==
    answer # None =>
        IF answer.stale
        THEN answer.at + StaleTtl(load[answer.key], answer.value) >= answer.since
        ELSE answer.at + Ttl(load[answer.key], answer.value) >= answer.since
=============================================================================
