-------------------------- MODULE MarketDiscovery --------------------------
(***************************************************************************)
(* Which market a match is traded on, and under which rules: the job       *)
(* market_discovery of backend/app/runtime/daemon.py, the scan of          *)
(* markets/polymarket.py, markets/mapping.py, markets/rules_index.py, the  *)
(* rows of persistence/market_repositories.py, and the reads by which a    *)
(* decision comes to name a market and its rules.                          *)
(*                                                                         *)
(* The scan reads the provider's pages one after the other while the       *)
(* provider changes.  A page holds one market here.  The job and the       *)
(* decisions are coroutines of one process: each step below ends at an     *)
(* await.  A market fits a match when the pair, the discipline and the     *)
(* schedule agree (Fits); which matches are candidates changes with the    *)
(* match catalogue.  A rules text stands for its hash.                     *)
(***************************************************************************)
EXTENDS Naturals, Sequences

CONSTANTS
    Markets, Matches,
    Texts,     \* the rules texts the provider may publish
    Fits,      \* for each market, the matches it could be mapped to
    None,      \* no market, no match, no authorization
    MaxEdits,  \* bound: changes at the provider and in the match catalogue
    MaxFaults  \* bound: failures, interruptions, restarts, malformed pages

ASSUME DiscoveryAssumption ==
    /\ Fits \in [Markets -> SUBSET Matches]
    /\ None \notin Markets /\ None \notin Matches /\ None \notin Texts
    /\ MaxEdits \in Nat
    /\ MaxFaults \in Nat

VARIABLES
    listed,     \* the open markets at the provider
    delisted,   \* the markets that were not listed at some time
    text,       \* the rules text of each market at the provider, or None
    named,      \* the markets whose outcome names resolve to two players
    candidates, \* the matches that are live or scheduled in the catalogue
    row,        \* the status of each market's row
    rules,      \* the stored versions of each market's rules
    linkedTo,   \* the match of each market's link row, or None
    active,     \* the markets whose link row is active
    intent,     \* for each match, the market its entry intent names, or None
    index,      \* MarketRulesIndex._rules; None: nothing is published
    job,        \* where the job stands
    pages,      \* the pages still to be read
    seen,       \* scan.listings
    strict,     \* those with two distinct resolved players
    scanned,    \* scan.rules: the text read for each market, or None
    missed,     \* the malformed ones: scan.complete when there is none
    eligible,   \* the job's list of candidates
    current,    \* current_by_match
    todo,       \* the listings still to be mapped
    target,     \* the listing that is mapped
    failed,     \* the listings counted in failures
    auth,       \* authorizations
    deciding,   \* where the decision on each match stands
    chosen,     \* the market it names
    edits, faults

provider == <<listed, delisted, text, named, candidates>>
links == <<linkedTo, active>>
rows == <<row, rules, links, intent>>
scan == <<pages, seen, strict, scanned, missed>>
work == <<eligible, current, todo, target, failed, auth>>
decision == <<deciding, chosen>>
vars == <<provider, rows, index, job, scan, work, decision, edits, faults>>

Authorizations == [hash : Texts, version : Nat \ {0}]

\* No market is authorized
NoAuthority == [m \in Markets |-> None]

Jobs == {"idle", "scan", "reconcile", "read", "map", "link", "commit", "rules"}

TypeOK ==
    /\ listed \subseteq Markets /\ delisted \subseteq Markets
    /\ named \subseteq Markets /\ candidates \subseteq Matches
    /\ text \in [Markets -> Texts \cup {None}]
    /\ row \in [Markets -> {"none", "unknown", "open", "closed"}]
    /\ rules \in [Markets -> Seq(Texts)]
    /\ linkedTo \in [Markets -> Matches \cup {None}]
    /\ active \subseteq Markets
    /\ intent \in [Matches -> Markets \cup {None}]
    /\ index \in [Markets -> Authorizations \cup {None}]
    /\ job \in Jobs
    /\ pages \subseteq Markets /\ seen \subseteq Markets
    /\ strict \subseteq seen
    /\ scanned \in [Markets -> Texts \cup {None}]
    /\ missed \subseteq Markets /\ failed \subseteq Markets
    /\ eligible \subseteq Matches
    /\ current \in [Matches -> Markets \cup {None}]
    /\ todo \subseteq seen
    /\ target \in Markets \cup {None}
    /\ auth \in [Markets -> Authorizations \cup {None}]
    /\ deciding \in [Matches -> {"idle", "rules", "act"}]
    /\ chosen \in [Matches -> Markets \cup {None}]
    /\ edits \in 0..MaxEdits
    /\ faults \in 0..MaxFaults

Init ==
    /\ listed = Markets /\ delisted = {}
    /\ text \in [Markets -> Texts]
    /\ named = Markets /\ candidates = Matches
    /\ row = [m \in Markets |-> "none"]
    /\ rules = [m \in Markets |-> <<>>]
    /\ linkedTo = [m \in Markets |-> None] /\ active = {}
    /\ intent = [mt \in Matches |-> None]
    /\ index = NoAuthority
    /\ job = "idle"
    /\ pages = {} /\ seen = {} /\ strict = {}
    /\ scanned = NoAuthority /\ missed = {}
    /\ eligible = {} /\ current = [mt \in Matches |-> None]
    /\ todo = {} /\ target = None /\ failed = {}
    /\ auth = NoAuthority
    /\ deciding = [mt \in Matches |-> "idle"]
    /\ chosen = [mt \in Matches |-> None]
    /\ edits = 0 /\ faults = 0
-----------------------------------------------------------------------------
(* What happens at the provider and in the match catalogue.                *)

Edit ==
    /\ edits < MaxEdits
    /\ edits' = edits + 1
    /\ UNCHANGED <<rows, index, job, scan, work, decision, faults>>

\* A text is rewritten, or its description or source becomes blank
EditRules(m) ==
    /\ Edit
    /\ \E t \in (Texts \cup {None}) \ {text[m]} :
        text' = [text EXCEPT ![m] = t]
    /\ UNCHANGED <<listed, delisted, named, candidates>>

Delist(m) ==
    /\ Edit
    /\ m \in listed
    /\ listed' = listed \ {m}
    /\ delisted' = delisted \cup {m}
    /\ UNCHANGED <<text, named, candidates>>

Relist(m) ==
    /\ Edit
    /\ m \notin listed
    /\ listed' = listed \cup {m}
    /\ UNCHANGED <<delisted, text, named, candidates>>

\* A name is ambiguous once a second player answers to it
NameIsLost(m) ==
    /\ Edit
    /\ m \in named
    /\ named' = named \ {m}
    /\ UNCHANGED <<listed, delisted, text, candidates>>

MatchEnds(mt) ==
    /\ Edit
    /\ mt \in candidates
    /\ candidates' = candidates \ {mt}
    /\ UNCHANGED <<listed, delisted, text, named>>
-----------------------------------------------------------------------------
(* The job.                                                                *)

\* Faulty variant: the index answers from the last scan until the next ends
StillPublished == index

\* The scan may disagree with what is published from its first page on
Invalidated == NoAuthority

StartDiscovery ==
    /\ job = "idle"
    /\ index' = Invalidated
    /\ job' = "scan"
    /\ pages' = Markets
    /\ UNCHANGED <<seen, strict, scanned, missed>>
    /\ UNCHANGED <<provider, rows, work, decision, edits, faults>>

\* A valid listing is registered: its row is there before it is reconciled
Registered(m) == IF row[m] = "none" THEN "unknown" ELSE row[m]

ReadPage(m) ==
    /\ job = "scan"
    /\ m \in pages
    /\ pages' = pages \ {m}
    /\ IF m \in listed
       THEN /\ seen' = seen \cup {m}
            /\ strict' = strict \cup ({m} \cap named)
            /\ scanned' = [scanned EXCEPT ![m] = text[m]]
            /\ row' = [row EXCEPT ![m] = Registered(m)]
       ELSE UNCHANGED <<seen, strict, scanned, row>>
    /\ UNCHANGED <<provider, rules, links, intent, index, job, missed, work,
                   decision, edits, faults>>

\* Outcomes or tokens do not parse, or a condition appears twice
ReadMalformed(m) ==
    /\ job = "scan"
    /\ m \in pages \cap listed
    /\ faults < MaxFaults
    /\ faults' = faults + 1
    /\ pages' = pages \ {m}
    /\ missed' = missed \cup {m}
    /\ UNCHANGED <<provider, rows, index, job, seen, strict, scanned, work,
                   decision, edits>>

ScanEnds ==
    /\ job = "scan"
    /\ pages = {}
    /\ job' = "reconcile"
    /\ UNCHANGED <<provider, rows, index, scan, work, decision, edits, faults>>

\* The rows a scan retires: open ones it did not see, if it saw everything
Retired == {m \in Markets \ seen : missed = {} /\ row[m] = "open"}

\* One transaction; the row's status goes back to open when it is listed again
ReconcileListings ==
    /\ job = "reconcile"
    /\ row' = [m \in Markets |-> IF m \in seen THEN "open"
                                 ELSE IF m \in Retired THEN "closed"
                                 ELSE row[m]]
    /\ job' = "read"
    /\ UNCHANGED <<provider, rules, links, intent, index, scan, work, decision,
                   edits, faults>>

\* The market that is actively linked to a match, None if there is none
MarketFor(mt) ==
    IF \E m \in active : linkedTo[m] = mt
    THEN CHOOSE m \in active : linkedTo[m] = mt
    ELSE None

ReadCatalog ==
    /\ job = "read"
    /\ eligible' = candidates
    /\ current' = [mt \in Matches |-> MarketFor(mt)]
    /\ todo' = strict
    /\ job' = "map"
    /\ UNCHANGED <<provider, rows, index, scan, target, failed, auth, decision,
                   edits, faults>>

\* The matches a market is mapped to: exactly one, or it stays market-only
MappedTo(m) == {mt \in Fits[m] : Fits[m] \cap eligible = {mt}}

\* map_market, count_intents_for_match and evaluate_link_change
MapMarket(m) ==
    /\ job = "map"
    /\ m \in todo
    /\ todo' = todo \ {m}
    /\ \/ /\ MappedTo(m) = {}
          /\ UNCHANGED <<job, target>>
       \/ \E mt \in MappedTo(m) :
            /\ target' = m
            /\ job' = IF current[mt] = m \/ intent[mt] # None
                      THEN "rules" ELSE "link"
    /\ UNCHANGED <<provider, rows, index, scan, eligible, current, failed, auth,
                   decision, edits, faults>>

\* An intent references the match or the market
IsFrozen(m, mt) == intent[mt] # None \/ \E other \in Matches : intent[other] = m

\* link_match: the row as it is, and the count of the intents
CheckLink ==
    /\ job = "link"
    /\ \E mt \in MappedTo(target) :
        job' = IF (target \in active /\ linkedTo[target] = mt)
                    \/ IsFrozen(target, mt)
               THEN "rules" ELSE "commit"
    /\ UNCHANGED <<provider, rows, index, scan, work, decision, edits, faults>>

\* The two updates of link_match; the intents are not read again
CommitLink ==
    /\ job = "commit"
    /\ \E mt \in MappedTo(target) :
        /\ linkedTo' = [linkedTo EXCEPT ![target] = mt]
        /\ active' = {m \in active : linkedTo[m] # mt} \cup {target}
        /\ current' = [current EXCEPT ![mt] = target]
    /\ job' = "rules"
    /\ UNCHANGED <<provider, row, rules, intent, index, scan, eligible, todo,
                   target, failed, auth, decision, edits, faults>>

\* Faulty variant: a text that comes back is its old version again
ConfirmsAny(m) == {v \in DOMAIN rules[m] : rules[m][v] = scanned[m]}

\* The stored versions a text confirms: the latest, if it is the same text
Confirms(m) == {v \in DOMAIN rules[m] :
                    v = Len(rules[m]) /\ rules[m][v] = scanned[m]}

Authorize(version) ==
    auth' = [auth EXCEPT ![target] = [hash |-> scanned[target],
                                      version |-> version]]

SaveRules ==
    /\ job = "rules"
    /\ job' = "map"
    /\ \/ /\ scanned[target] = None
          /\ UNCHANGED <<rules, auth>>
       \/ /\ scanned[target] # None
          /\ \E v \in Confirms(target) : Authorize(v)
          /\ UNCHANGED rules
       \/ /\ scanned[target] # None
          /\ Confirms(target) = {}
          /\ rules' = [rules EXCEPT ![target] = Append(@, scanned[target])]
          /\ Authorize(Len(rules[target]) + 1)
    /\ UNCHANGED <<provider, row, links, intent, index, scan, eligible, current,
                   todo, target, failed, decision, edits, faults>>

\* One market's failure is counted and the next one is mapped
MarketFails ==
    /\ job \in {"link", "commit", "rules"}
    /\ faults < MaxFaults
    /\ faults' = faults + 1
    /\ failed' = failed \cup {target}
    /\ job' = "map"
    /\ UNCHANGED <<provider, rows, index, scan, eligible, current, todo, target,
                   auth, decision, edits>>

\* The job's variables go with it
JobEnds ==
    /\ job' = "idle"
    /\ pages' = {} /\ seen' = {} /\ strict' = {}
    /\ scanned' = NoAuthority /\ missed' = {}
    /\ eligible' = {} /\ current' = [mt \in Matches |-> None]
    /\ todo' = {} /\ target' = None /\ failed' = {}
    /\ auth' = NoAuthority

\* What the scan confirmed is published when nothing of it failed
FinishDiscovery ==
    /\ job = "map"
    /\ todo = {}
    /\ index' = IF failed # {} \/ missed # {} THEN index ELSE auth
    /\ JobEnds
    /\ UNCHANGED <<provider, rows, decision, edits, faults>>

\* A request or a statement fails, or the scheduler's minute is over
JobFails ==
    /\ job # "idle"
    /\ faults < MaxFaults
    /\ faults' = faults + 1
    /\ JobEnds
    /\ UNCHANGED <<provider, rows, index, decision, edits>>

\* The index is older than two intervals of the job
IndexExpires ==
    /\ index # NoAuthority
    /\ index' = NoAuthority
    /\ UNCHANGED <<provider, rows, job, scan, work, decision, edits, faults>>

Restart ==
    /\ faults < MaxFaults
    /\ faults' = faults + 1
    /\ index' = NoAuthority
    /\ JobEnds
    /\ deciding' = [mt \in Matches |-> "idle"]
    /\ chosen' = [mt \in Matches |-> None]
    /\ UNCHANGED <<provider, rows, edits>>
-----------------------------------------------------------------------------
(* The decision on a match, from the link to the entry intent.             *)

ReadLink(mt) ==
    /\ deciding[mt] = "idle"
    /\ MarketFor(mt) # None
    /\ chosen' = [chosen EXCEPT ![mt] = MarketFor(mt)]
    /\ deciding' = [deciding EXCEPT ![mt] = "rules"]
    /\ UNCHANGED <<provider, rows, index, job, scan, work, edits, faults>>

DecisionEnds(mt) ==
    /\ deciding' = [deciding EXCEPT ![mt] = "idle"]
    /\ chosen' = [chosen EXCEPT ![mt] = None]

\* The rules gate: a text is known, and it is the first one
MayAct(a) == a # None /\ a.version = 1

ReadRules(mt) ==
    /\ deciding[mt] = "rules"
    /\ \/ /\ MayAct(index[chosen[mt]])
          /\ deciding' = [deciding EXCEPT ![mt] = "act"]
          /\ UNCHANGED chosen
       \/ /\ ~MayAct(index[chosen[mt]])
          /\ DecisionEnds(mt)
    /\ UNCHANGED <<provider, rows, index, job, scan, work, edits, faults>>

\* The other gates let the entry pass; only a match's first intent is stored
BeginEntry(mt) ==
    /\ deciding[mt] = "act"
    /\ intent' = [intent EXCEPT ![mt] = IF @ = None THEN chosen[mt] ELSE @]
    /\ DecisionEnds(mt)
    /\ UNCHANGED <<provider, row, rules, links, index, job, scan, work, edits,
                   faults>>

\* Another gate refuses
NoEntry(mt) ==
    /\ deciding[mt] = "act"
    /\ DecisionEnds(mt)
    /\ UNCHANGED <<provider, rows, index, job, scan, work, edits, faults>>
-----------------------------------------------------------------------------
Discover ==
    \/ StartDiscovery
    \/ \E m \in Markets : ReadPage(m) \/ ReadMalformed(m) \/ MapMarket(m)
    \/ ScanEnds \/ ReconcileListings \/ ReadCatalog
    \/ CheckLink \/ CommitLink \/ SaveRules \/ MarketFails
    \/ FinishDiscovery \/ JobFails

Decide ==
    \E mt \in Matches : ReadLink(mt) \/ ReadRules(mt) \/ BeginEntry(mt)
                            \/ NoEntry(mt)

Environment ==
    \/ \E m \in Markets : EditRules(m) \/ Delist(m) \/ Relist(m) \/ NameIsLost(m)
    \/ \E mt \in Matches : MatchEnds(mt)

Next == Discover \/ Decide \/ Environment \/ IndexExpires \/ Restart

Spec == Init /\ [][Next]_vars
-----------------------------------------------------------------------------
\* What the index answers for a market is the latest rules that are stored
\* for it, with their version: no decision is authorized by a text that a
\* scan under way, or one that failed, has already replaced
\* (MarketRulesIndex.invalidate, save_rules, _discover_markets).
RulesAreCurrent ==
    \A m \in Markets :
        index[m] # None =>
            /\ rules[m] # <<>>
            /\ index[m].version = Len(rules[m])
            /\ index[m].hash = rules[m][Len(rules[m])]

\* A decision is let through only on a market whose rules never changed,
\* even where the text later returns to what it was
\* (RuleAuthorization.rules_changed, _PublisherBookSource).
ActsOnlyOnFirstRules ==
    [][\A mt \in Matches :
        deciding[mt] = "rules" /\ deciding'[mt] = "act"
            => Len(rules[chosen[mt]]) = 1]_vars

\* A market is closed only when it was missing from the provider's list:
\* a malformed page, a failed scan or an interruption closes nothing
\* (reconcile_market_listings).
ClosedOnceDelisted ==
    \A m \in Markets : row[m] = "closed" => m \in delisted

\* The entry of a match stays on the market the match is linked to
\* (link_match: "Once any paper intent references the match or the market,
\* the relationship is frozen").
LinkFollowsIntent ==
    \A mt \in Matches : intent[mt] # None => MarketFor(mt) = intent[mt]
=============================================================================
