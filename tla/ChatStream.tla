----------------------------- MODULE ChatStream -----------------------------
(***************************************************************************)
(* One chat request: ChatOrchestrator.stream of                            *)
(* backend/app/chat/orchestrator.py, the batches of chat/executor.py, the  *)
(* gates of chat/capabilities.py and chat/history.py, and what the tools   *)
(* of chat/tools.py read.                                                  *)
(*                                                                         *)
(* The language model answers each turn with any sequence of calls, also   *)
(* of tools it was not offered; tools end in any way their code allows,    *)
(* the calls of a batch in any order, and the match goes on meanwhile.     *)
(* Texts are left out: what a call shows is the call and the version of    *)
(* the match its data was read from.                                       *)
(***************************************************************************)
EXTENDS Naturals, Sequences, FiniteSets

CONSTANTS
    Offers,     \* the calls a turn of the model is made of: [name, arg]
    Histories,  \* the kinds of history a question may ask for
    Topics,     \* the sequence of topics a comprehensive question requires
    MaxPerTurn, \* bound: calls in a turn of the model
    MaxCalls,   \* max_calls of the executor
    MaxBatch,   \* max_batch_size of the executor
    MaxRounds,  \* MAX_TOOL_ROUNDS
    MaxReplans, \* MAX_REPLANS
    MaxVersion  \* bound: versions of the match

HistoryTools == {"get_player_results", "get_player_season_record",
                 "get_head_to_head"}
GlobalTools == {"find_player_matches", "get_live_matches",
                "list_market_opportunities"}
MatchTools == {"get_match_intelligence", "get_match_decision"}
ToolNames == HistoryTools \cup GlobalTools \cup MatchTools \cup {"get_match"}

VARIABLES
    request,   \* scope, kinds of history it asks for, topics
    live,      \* the version of the match that is stored now
    frozen,    \* the version of context.snapshot
    stage,     \* where the stream stands
    phase,     \* the phase of the tool loop
    rounds, replans,
    known,     \* known_match_ids is not empty
    discovered,\* has_discovered_matches
    unique,    \* ToolBatchExecutor._unique_calls
    cache,     \* ToolBatchExecutor._cache: outcomes by their call
    outcomes,  \* the outcomes of the current turn
    next,      \* the outcome that is handled next
    shown,     \* the data events: the fact and the version it was read from
    core,      \* core_data_emitted
    completed, \* completed_topics
    text       \* what the answer's text consists of

loop == <<phase, rounds, replans, known, discovered>>
executor == <<unique, cache>>
told == <<shown, core, completed, text>>
vars == <<request, live, frozen, stage, loop, executor, outcomes, next, told>>

\* The phases in which a tool is offered; searching goes on in enrichment
Phases(name) ==
    CASE name \in HistoryTools \cup GlobalTools -> {"discovery", "enrichment"}
      [] name \in {"get_match", "get_match_decision"} -> {"context", "enrichment"}
      [] name = "get_match_intelligence" -> {"context"}

IsCore(name) == name \notin HistoryTools

InScope(name) ==
    \/ name \in HistoryTools \cup {"get_match"}
    \/ name \in (IF request.scope = "match" THEN MatchTools ELSE GlobalTools)

\* The tools a turn is offered; in match scope the match is a given
Catalog ==
    {name \in ToolNames :
        /\ InScope(name)
        /\ phase \in Phases(name)
        /\ name \in HistoryTools => name \in request.history
        /\ name = "get_match" => request.scope = "global" /\ discovered}

Statuses == {"found", "empty", "unavailable", "failed", "rejected"}

\* A topic is no argument that cannot be read, and there is a turn at least.
ChatLimits ==
    /\ Topics \in Seq({Topics[i] : i \in DOMAIN Topics})
    /\ \A i \in DOMAIN Topics : Topics[i] # "malformed"
    /\ MaxCalls \in Nat /\ MaxPerTurn \in Nat /\ MaxRounds \in Nat \ {0}

Succeeded(o) == o.status \in {"found", "empty"}

\* In match scope the snapshot answers; anything else is read when it runs
ReadsSnapshot(call) ==
    request.scope = "match" /\ call.name \in {"get_match", "get_match_intelligence"}

\* Faulty variant: the snapshot is resolved anew by every tool
ReadsNewest(call) == live

VersionFor(call) == IF ReadsSnapshot(call) THEN frozen ELSE live

\* A market tool may be disabled, and finds no matches
MarketEndings == {"empty", "unavailable", "failed"}

\* How a tool may end: malformed arguments are an invalid_request, a name that
\* is not resolved is a result without matches
Endings(call) ==
    IF call.arg = "malformed" THEN {"rejected"}
    ELSE CASE call.name = "get_match_intelligence" -> {"empty"}
           [] call.name = "get_match" /\ request.scope = "match" -> {"found"}
           [] call.name \in {"get_match_decision", "list_market_opportunities"} ->
                MarketEndings
           [] OTHER -> {"found", "empty", "unavailable", "failed"}

Outcomes == [call : Offers \cup {[name |-> "get_match_intelligence", arg |-> t] :
                                    t \in {Topics[i] : i \in DOMAIN Topics}},
             status : Statuses \cup {"pending"},
             version : 0..MaxVersion,
             duplicate : {"no", "yes"}]

\* Its scope, the kinds of history it asks for and the topics it calls for
ChatRequests == [scope : {"global", "match"}, history : Histories, topics : {<<>>, Topics}]

TypeOK ==
    /\ request \in ChatRequests
    /\ live \in 0..MaxVersion /\ frozen \in 0..MaxVersion
    /\ stage \in {"resolving", "planning", "running", "handling", "generating",
                  "done", "error"}
    /\ phase \in {"discovery", "context", "enrichment"}
    /\ rounds \in 0..MaxRounds + 1 /\ replans \in 0..MaxReplans + 1
    /\ known \in BOOLEAN /\ discovered \in BOOLEAN
    /\ unique \in 0..MaxCalls
    /\ cache \subseteq Outcomes
    /\ outcomes \in Seq(Outcomes)
    /\ next \in 1..Len(outcomes) + 1
    /\ shown \in Seq([call : {o.call : o \in Outcomes}, version : 0..MaxVersion])
    /\ core \in BOOLEAN
    /\ completed \subseteq {Topics[i] : i \in DOMAIN Topics}
    /\ text \in {"none", "prose", "fallback"}

Init ==
    /\ request \in ChatRequests
    /\ live = 0 /\ frozen = 0
    /\ stage = "resolving"
    /\ phase = IF request.scope = "match" THEN "context" ELSE "discovery"
    /\ rounds = 0 /\ replans = 0
    /\ known = (request.scope = "match") /\ discovered = known
    /\ unique = 0 /\ cache = {}
    /\ outcomes = <<>> /\ next = 1
    /\ shown = <<>> /\ core = FALSE /\ completed = {}
    /\ text = "none"
-----------------------------------------------------------------------------
Over == stage \in {"done", "error"}

\* The provider moves the match on
MatchGoesOn ==
    /\ ~Over
    /\ live < MaxVersion
    /\ live' = live + 1
    /\ UNCHANGED <<request, frozen, stage, loop, executor, outcomes, next, told>>

\* Nothing but all of history is asked for: the deterministic refusal
HistoryIsRefused == request.history = {"broad_history"}

Refuse ==
    /\ stage = "resolving"
    /\ HistoryIsRefused
    /\ stage' = "done" /\ text' = "fallback"
    /\ UNCHANGED <<request, live, frozen, loop, executor, outcomes, next, shown,
                   core, completed>>

\* freeze_match_context; the snapshot may be neither stored nor available
Freeze ==
    /\ stage = "resolving"
    /\ ~HistoryIsRefused
    /\ \/ stage' = "planning" /\ frozen' = live
       \/ request.scope = "match" /\ stage' = "error" /\ UNCHANGED frozen
    /\ UNCHANGED <<request, live, loop, executor, outcomes, next, told>>
-----------------------------------------------------------------------------
(* A turn.                                                                 *)

Turns == UNION {[1..n -> Offers] : n \in 0..MaxPerTurn}

PlannedCall(topic) == [name |-> "get_match_intelligence", arg |-> topic]

\* The calls for these of the required topics, in their order
InOrder(topics) ==
    LET At(n) == CHOOSE i \in topics : Cardinality({j \in topics : j <= i}) = n
    IN  [n \in 1..Cardinality(topics) |-> PlannedCall(request.topics[At(n)])]

\* The required topics that are neither read nor among the model's calls
Missing(turn) ==
    {i \in DOMAIN request.topics :
        /\ request.topics[i] \notin completed
        /\ \A j \in DOMAIN turn : turn[j] # PlannedCall(request.topics[i])}

\* Faulty variant: the context is planned only when the model asks for nothing
PlannedIfIdle(turn) ==
    IF request.scope = "match" /\ phase = "context" /\ turn = <<>>
    THEN InOrder(Missing(turn)) ELSE <<>>

Planned(turn) ==
    IF request.scope = "match" /\ phase = "context" THEN InOrder(Missing(turn)) ELSE <<>>

\* What is not run: tools that were not offered, or whose match is not known
Refuses(call) ==
    \/ ~InScope(call.name)
    \/ /\ call.name \notin Catalog
       /\ ~(request.scope = "match" /\ call.name = "get_match")
    \/ call.name = "get_match" /\ call.arg = "none" /\ ~known

\* The calls that are run: not answered before, and not twice
Fresh(calls) ==
    {i \in DOMAIN calls : /\ ~Refuses(calls[i])
                          /\ \A o \in cache : o.call # calls[i]
                          /\ \A j \in 1..i - 1 : calls[j] # calls[i]}

\* Those the budget of the request is enough for
Affordable(calls) ==
    {i \in Fresh(calls) : unique + Cardinality({j \in Fresh(calls) : j < i}) < MaxCalls}

\* What execute knows of each call before it runs any
Classified(calls) ==
    [i \in DOMAIN calls |->
        LET call == calls[i]
            Entry(status, version, duplicate) ==
                [call |-> call, status |-> status, version |-> version,
                 duplicate |-> duplicate]
        IN  IF Refuses(call) THEN Entry("rejected", 0, "no")
            ELSE IF \E o \in cache : o.call = call
            THEN LET o == CHOOSE o \in cache : o.call = call
                 IN  Entry(o.status, o.version, "yes")
            ELSE IF i \in Affordable(calls) THEN Entry("pending", 0, "no")
            ELSE IF \E j \in Affordable(calls) : j < i /\ calls[j] = call
            THEN Entry("pending", 0, "yes")
            ELSE Entry("rejected", 0, "no")]

NextRound == rounds + 1

Choose(turn) ==
    /\ stage = "planning"
    /\ LET calls == turn \o Planned(turn)
       IN  \/ /\ calls = <<>>
              /\ stage' = "generating"
              /\ UNCHANGED <<rounds, unique, outcomes, next>>
           \/ /\ calls # <<>>
              /\ rounds' = NextRound
              /\ \/ /\ rounds' > MaxRounds
                    /\ stage' = IF core THEN "generating" ELSE "error"
                    /\ UNCHANGED <<unique, outcomes, next>>
                 \/ /\ rounds' <= MaxRounds
                    /\ stage' = "running"
                    /\ outcomes' = Classified(calls)
                    /\ next' = 1
                    /\ unique' = unique + Cardinality(Affordable(calls))
    /\ UNCHANGED <<request, live, frozen, phase, replans, known, discovered, cache,
                   told>>

\* The model does not answer in time, or its arguments do not parse
ChooseFails ==
    /\ stage = "planning"
    /\ stage' = "error"
    /\ UNCHANGED <<request, live, frozen, loop, executor, outcomes, next, told>>
-----------------------------------------------------------------------------
(* The batches.                                                            *)

Own(i) == outcomes[i].duplicate = "no"

Runs(i) == outcomes[i].status = "pending" /\ Own(i)

\* A batch is started when the one before it is over; in a batch, get_match
\* comes after the others
Started(i) ==
    LET before == {j \in 1..i - 1 : Runs(j)}
    IN  /\ Cardinality(before) < MaxBatch
        /\ outcomes[i].call.name = "get_match"
            => \A j \in DOMAIN outcomes : Runs(j) /\ j # i
                    => outcomes[j].call.name = "get_match"

\* A call ends, and with it the calls of the turn that repeat it
RunTool(i) ==
    /\ stage = "running"
    /\ Runs(i) /\ Started(i)
    /\ \E status \in Endings(outcomes[i].call) :
        LET call == outcomes[i].call
            Ended(o) == [o EXCEPT !.status = status, !.version = VersionFor(call)]
        IN  /\ outcomes' = [j \in DOMAIN outcomes |->
                               IF j = i \/ (outcomes[j].call = call /\ ~Own(j)
                                                /\ outcomes[j].status = "pending")
                               THEN Ended(outcomes[j]) ELSE outcomes[j]]
            /\ cache' = cache \cup {Ended(outcomes[i])}
    /\ UNCHANGED <<request, live, frozen, stage, loop, unique, next, told>>

AllEnded ==
    /\ stage = "running"
    /\ \A i \in DOMAIN outcomes : outcomes[i].status # "pending"
    /\ stage' = "handling"
    /\ UNCHANGED <<request, live, frozen, loop, executor, outcomes, next, told>>
-----------------------------------------------------------------------------
(* The outcomes of a turn, in the order of its calls.                      *)

\* There is a core fact, shown before or in this turn
HasCore ==
    core \/ \E i \in DOMAIN outcomes :
                Succeeded(outcomes[i]) /\ IsCore(outcomes[i].call.name)

Handled == next' = next + 1

ShowFact ==
    /\ stage = "handling"
    /\ next \in DOMAIN outcomes
    /\ LET o == outcomes[next]
       IN  /\ Succeeded(o)
           /\ shown' = IF Own(next)
                       THEN Append(shown, [call |-> o.call, version |-> o.version])
                       ELSE shown
           /\ known' = (known \/ o.status = "found")
           /\ core' = (core \/ IsCore(o.call.name))
           /\ discovered' = (discovered \/ (IsCore(o.call.name)
                                               /\ o.status = "found"))
           /\ completed' = completed
                \cup {t \in {o.call.arg} : o.call.name = "get_match_intelligence"}
    /\ Handled
    /\ UNCHANGED <<request, live, frozen, stage, phase, rounds, replans, executor,
                   outcomes, text>>

\* A refusal is told to the model, a missing optional fact to the viewer
NoteFailure ==
    /\ stage = "handling"
    /\ next \in DOMAIN outcomes
    /\ LET o == outcomes[next]
       IN  /\ ~Succeeded(o)
           /\ o.status = "rejected" \/ ~IsCore(o.call.name) \/ HasCore
    /\ Handled
    /\ UNCHANGED <<request, live, frozen, stage, loop, executor, outcomes, told>>

\* Without a core fact a core tool that failed ends the request
ToolFails ==
    /\ stage = "handling"
    /\ next \in DOMAIN outcomes
    /\ LET o == outcomes[next]
       IN  /\ o.status \in {"unavailable", "failed"}
           /\ IsCore(o.call.name) /\ ~HasCore
    /\ stage' = "error"
    /\ UNCHANGED <<request, live, frozen, loop, executor, outcomes, next, told>>

Received == \E i \in DOMAIN outcomes : Succeeded(outcomes[i])

Rejected == \E i \in DOMAIN outcomes : outcomes[i].status = "rejected"

\* What comes after discovery, or after the context when history is asked for
NextPhase ==
    IF Received /\ (request.scope = "global" \/ request.history # {})
    THEN "enrichment" ELSE phase

\* The context of the match is complete
ContextIsRead ==
    /\ request.scope = "match" /\ NextPhase = "context" /\ Received
    /\ \A i \in DOMAIN request.topics : request.topics[i] \in completed

EndTurn ==
    /\ stage = "handling"
    /\ next \notin DOMAIN outcomes
    /\ replans' = IF Rejected THEN replans + 1 ELSE replans
    /\ \/ /\ replans' > MaxReplans /\ Rejected
          /\ stage' = IF core THEN "generating" ELSE "error"
          /\ UNCHANGED phase
       \/ /\ ~(replans' > MaxReplans /\ Rejected)
          /\ phase' = NextPhase
          /\ stage' = IF ContextIsRead THEN "generating" ELSE "planning"
    /\ outcomes' = <<>> /\ next' = 1
    /\ UNCHANGED <<request, live, frozen, rounds, known, discovered, executor, told>>
-----------------------------------------------------------------------------
(* The answer.                                                             *)

\* A part of the text
StreamChunk ==
    /\ stage = "generating"
    /\ text' = "prose"
    /\ UNCHANGED <<request, live, frozen, stage, loop, executor, outcomes, next,
                   shown, core, completed>>

\* The stream ends: without any text the fallback is sent; where a fact lacks
\* its format, the text is checked and sent only now
FinishAnswer ==
    /\ stage = "generating"
    /\ stage' = "done"
    /\ \/ text = "none" /\ text' = "fallback"
       \/ text = "none" /\ text' = "prose"
       \/ text = "prose" /\ UNCHANGED text
    /\ UNCHANGED <<request, live, frozen, loop, executor, outcomes, next, shown,
                   core, completed>>

\* The model breaks off: what was read is the answer, if there is anything
AnswerFails ==
    /\ stage = "generating"
    /\ \/ shown # <<>> /\ stage' = "done" /\ text' = "fallback"
       \/ shown = <<>> /\ stage' = "error" /\ UNCHANGED text
    /\ UNCHANGED <<request, live, frozen, loop, executor, outcomes, next, shown,
                   core, completed>>
-----------------------------------------------------------------------------
Step ==
    \/ Refuse \/ Freeze
    \/ ChooseFails \/ \E turn \in Turns : Choose(turn)
    \/ \E i \in DOMAIN outcomes : RunTool(i)
    \/ AllEnded \/ ShowFact \/ NoteFailure \/ ToolFails \/ EndTurn
    \/ FinishAnswer \/ AnswerFails

Next == Step \/ StreamChunk \/ MatchGoesOn

\* Every request to the model and every tool has its timeout, and the text is
\* cut off after the model's
Spec == Init /\ [][Next]_vars /\ WF_vars(Step)
-----------------------------------------------------------------------------
\* Whatever is shown of the match on whose page the question is asked is of
\* one version, the one it had when the question was asked, however long the
\* tools take (freeze_match_context, BusinessTools.execute).
FactsOfOneSnapshot ==
    request.scope = "match" =>
        \A i \in DOMAIN shown :
            shown[i].call.name \in {"get_match", "get_match_intelligence"}
                => shown[i].version = frozen

\* No fact is shown twice, whether a call is repeated in its turn or in a
\* later one (ToolBatchExecutor.execute, duplicate_of).
FactsShownOnce ==
    \A i, j \in DOMAIN shown : shown[i].call = shown[j].call => i = j

\* History is read only when the question asks for it, whatever tools the
\* model names (classify_history_capabilities, allowed_tool_names, execute).
HistoryOnlyIfAsked ==
    \A o \in cache : o.call.name \in HistoryTools => o.call.name \in request.history

\* A core tool that fails does not end a request that has a core fact, also
\* when that fact comes later in the same turn (batch_has_core_data).
CoreFactsSurvive ==
    [][stage = "handling" /\ stage' = "error"
        => \A o \in cache : ~(Succeeded(o) /\ IsCore(o.call.name))]_vars

\* A comprehensive question about a match is answered with all of its topics
\* read, unless the model spent the budget of calls on others
\* (_requested_match_topics, _planned_match_context_calls).
ContextIsCovered ==
    request.scope = "match" /\ stage = "generating" /\ unique < MaxCalls
        => \A i \in DOMAIN request.topics : request.topics[i] \in completed

=============================================================================
