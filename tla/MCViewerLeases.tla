--------------------------- MODULE MCViewerLeases ---------------------------
(***************************************************************************)
(* The instance for TLC of what the API process does for its clients.      *)
(* `scope' says which part a behaviour is about; the parts share no state. *)
(*                                                                         *)
(* ViewerLeases: two streams on one match and the worker's scan.           *)
(* ChatStream: questions on the page of a match and in general.            *)
(* ProviderCache: two requests, two keys and room for one entry.           *)
(* PlayerRankings: two tours, standings that tie, swap and leave out, and  *)
(* one more day than snapshots are kept.                                   *)
(* LedgerPages: a match from its first order to its settlement.            *)
(***************************************************************************)
EXTENDS ViewerLeases

CONSTANTS
    m1, v1, v2, None,
    Offers, Histories, Topics, MaxPerTurn, MaxCalls, MaxBatch, MaxRounds,
    MaxReplans, MaxVersion,
    Keys, Loads, Requests, MaxEntries, MaxTime,
    Standings, Keep, MaxDay,
    MaxDecisions

VARIABLES
    scope,
    request, live, frozen, stage, phase, rounds, replans, known, discovered,
    unique, cache, outcomes, next, shown, core, completed, text,
    load, time, entries, running, inflight, waiter, answer,
    day, rows, sync, rankings,
    intent, position, settled, prediction, decision, linked, changes, step, page

Chat == INSTANCE ChatStream
Cache == INSTANCE ProviderCache WITH request <- waiter
Rankings == INSTANCE PlayerRankings WITH page <- rankings
Pages == INSTANCE LedgerPages

\* What the proofs assume of the constants holds here.
ASSUME ConstantsAreSound ==
    /\ Chat!ChatLimits /\ Cache!LoadsAreKnown /\ Rankings!RankingsAreFinite
    /\ Pages!NoneIsNoStatus

OneMatch == [v \in {v1, v2} |-> m1]
MCOffers == {[name |-> n, arg |-> "none"] :
                n \in {"get_live_matches", "get_match", "get_match_decision",
                       "get_player_results"}}
            \cup {[name |-> "find_player_matches", arg |-> "malformed"]}
MCHistories == {{}, {"broad_history"}, {"get_player_results"}}
MCTopics == <<"overview", "points">>
MCLoads == {[a |-> "match", b |-> "draw"], [a |-> "lookup", b |-> "match"]}
MCStandings == [ATP |-> {<<1, 2>>, <<2, 1>>, <<1, 1>>, <<1, 0>>}, WTA |-> {<<1>>}]

chat == <<request, live, frozen, stage, phase, rounds, replans, known, discovered,
          unique, cache, outcomes, next, shown, core, completed, text>>
provider == <<load, time, entries, running, inflight, waiter, answer>>
tables == <<day, rows, sync, rankings>>
ledger == <<intent, position, settled, prediction, decision, linked, changes, step, page>>

NoChat ==
    /\ request = None /\ live = None /\ frozen = None /\ stage = None /\ phase = None
    /\ rounds = None /\ replans = None /\ known = None /\ discovered = None
    /\ unique = None /\ cache = None /\ outcomes = None /\ next = None /\ shown = None
    /\ core = None /\ completed = None /\ text = None
NoProvider ==
    /\ load = None /\ time = None /\ entries = None /\ running = None /\ inflight = None
    /\ waiter = None /\ answer = None
NoTables == day = None /\ rows = None /\ sync = None /\ rankings = None
NoLedger ==
    /\ intent = None /\ position = None /\ settled = None /\ prediction = None
    /\ decision = None /\ linked = None /\ changes = None /\ step = None /\ page = None

MCInit ==
    /\ Init
    /\ \/ scope = "leases" /\ NoChat /\ NoProvider /\ NoTables /\ NoLedger
       \/ scope = "chat" /\ Chat!Init /\ NoProvider /\ NoTables /\ NoLedger
       \/ scope = "cache" /\ Cache!Init /\ NoChat /\ NoTables /\ NoLedger
       \/ scope = "rankings" /\ Rankings!Init /\ NoChat /\ NoProvider /\ NoLedger
       \/ scope = "pages" /\ Pages!Init /\ NoChat /\ NoProvider /\ NoTables

MCNext ==
    \/ scope = "leases" /\ Next /\ UNCHANGED <<scope, chat, provider, tables, ledger>>
    \/ scope = "chat" /\ Chat!Next /\ UNCHANGED <<scope, vars, provider, tables, ledger>>
    \/ scope = "cache" /\ Cache!Next /\ UNCHANGED <<scope, vars, chat, tables, ledger>>
    \/ scope = "rankings" /\ Rankings!Next /\ UNCHANGED <<scope, vars, chat, provider, ledger>>
    \/ scope = "pages" /\ Pages!Next /\ UNCHANGED <<scope, vars, chat, provider, tables>>

\* The fairness is that of ViewerLeases!FairSpec; the rest has safety only.
Leases(A) == scope = "leases" /\ A
MCProgress ==
    /\ \A v \in Viewers :
        /\ WF_vars(Leases(Acquire(v))) /\ WF_vars(Leases(Subscribe(v)))
        /\ WF_vars(Leases(Renew(v))) /\ WF_vars(Leases(Release(v)))
    /\ WF_vars(Leases(Scan))
    /\ WF_vars(Leases(Tick))
    /\ []<>(scope # "leases") \/ []<><<ScanReturn>>_vars

MCSpec ==
    /\ MCInit
    /\ [][MCNext]_<<scope, vars, chat, provider, tables, ledger>>
    /\ MCProgress

\* What an answer shows of its match is of one version: ChatStream!FactsOfOneSnapshot.
FactsOfOneSnapshot == scope = "chat" => Chat!FactsOfOneSnapshot
\* The planned topics are covered before the answer: ChatStream!ContextIsCovered.
ContextIsCovered == scope = "chat" => Chat!ContextIsCovered
\* A failing provider makes no old answer current: ProviderCache!AnswersAreRecent.
AnswersAreRecent == scope = "cache" => Cache!AnswersAreRecent
\* The movement is against an earlier day: PlayerRankings!MovementIsDayOverDay.
MovementIsDayOverDay == scope = "rankings" => Rankings!MovementIsDayOverDay
\* The page of a match explains its status: LedgerPages!StatusIsExplained.
StatusIsExplained == scope = "pages" => Pages!StatusIsExplained
\* Rows of positions have price and result: LedgerPages!RowsAreComplete.
RowsAreComplete == scope = "pages" => Pages!RowsAreComplete
=============================================================================
