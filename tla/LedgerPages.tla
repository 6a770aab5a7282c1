----------------------------- MODULE LedgerPages -----------------------------
(***************************************************************************)
(* The pages that P3QueryService of backend/app/service.py puts together   *)
(* from the paper ledger, the decisions and the market links, while the    *)
(* daemon goes on writing them.  A page is a sequence of reads, each a     *)
(* transaction of its own; `page' holds what has been read so far and      *)
(* `step' what is read next.                                               *)
(*                                                                         *)
(* The ledger's own steps are those of PaperLedger with their calls taken  *)
(* together as far as one transaction commits them.  Prices, names, hot    *)
(* books and the order of rows are left out.                               *)
(***************************************************************************)
EXTENDS Naturals, FiniteSets

CONSTANTS
    Matches,
    MaxDecisions, \* bound: decisions and links changed
    None

VARIABLES
    intent,     \* the status of each order, None without one
    position,   \* the status of each position, None without one
    settled,    \* matches whose EV track is stored
    prediction, \* the availability of the last prediction, or None
    decision,   \* the action of the last decision, or None
    linked,     \* matches with an actively linked main-tour market
    changes,    \* decisions and links so far
    step, page

ledger == <<intent, position, settled>>
model == <<prediction, decision, linked, changes>>
vars == <<ledger, model, step, page>>

Sides == {"entry", "exit"}
OpenStatuses == {"open", "exit_pending"}
EngineActions == {"buy", "wait", "hold", "sell"}
PendingOf == [entry |-> "entry_pending", exit |-> "exit_pending"]
NoPage == [kind |-> None]
\* None is a value of its own.
NoneIsNoStatus ==
    None \notin {"pending", "filled", "no_fill", "missed", "entry_pending",
                 "open", "exit_pending", "exited", "exit_missed", "settled",
                 "available", "unavailable", "unpromoted", "no_bet",
                 "decision", "positions", "markets", "opportunities", "pulse"}
                \cup EngineActions

Init ==
    /\ intent = [m \in Matches |-> [s \in Sides |-> None]]
    /\ position = [m \in Matches |-> None]
    /\ settled = {}
    /\ prediction = [m \in Matches |-> None]
    /\ decision = [m \in Matches |-> None]
    /\ linked = {} /\ changes = 0
    /\ step = "idle" /\ page = NoPage

-----------------------------------------------------------------------------
(* What the daemon writes meanwhile *)

Order(m, side, status) == intent' = [intent EXCEPT ![m][side] = status]
Move(m, status) == position' = [position EXCEPT ![m] = status]
Keeps(v) == UNCHANGED <<model, step, page, v>>

PlaceEntry(m) ==
    /\ intent[m]["entry"] = None /\ Order(m, "entry", "pending")
    /\ Keeps(<<position, settled>>)
\* Faulty variant: the position is opened before its fill is stored.
PositionFirst(m) ==
    /\ intent[m]["entry"] = "pending"
    /\ \/ position[m] = None /\ Move(m, "open") /\ UNCHANGED intent
       \/ position[m] = "open" /\ Order(m, "entry", "filled") /\ UNCHANGED position
    /\ Keeps(settled)
\* The fill, the order's status and the position are one transaction.
DecideEntry(m) ==
    /\ intent[m]["entry"] = "pending"
    /\ \/ Order(m, "entry", "filled") /\ Move(m, "open")
       \/ Order(m, "entry", "no_fill") /\ UNCHANGED position
    /\ Keeps(settled)
PlaceExit(m) ==
    /\ position[m] = "open" /\ intent[m]["exit"] = None /\ Order(m, "exit", "pending")
    /\ Keeps(<<position, settled>>)
DecideExit(m) ==
    /\ intent[m]["exit"] = "pending" /\ position[m] = "exit_pending"
    /\ \/ Order(m, "exit", "filled") \/ Order(m, "exit", "no_fill")
    /\ Keeps(<<position, settled>>)
\* The position's status follows in a transaction of its own.
FollowExit(m) ==
    /\ \/ position[m] = "open" /\ intent[m]["exit"] = "pending" /\ Move(m, "exit_pending")
       \/ position[m] = "exit_pending" /\ intent[m]["exit"] = "filled" /\ Move(m, "exited")
       \/ position[m] = "exit_pending" /\ intent[m]["exit"] = "no_fill" /\ Move(m, "exit_missed")
    /\ Keeps(<<intent, settled>>)
StoreTrack(m) ==
    /\ position[m] # None /\ m \notin settled /\ settled' = settled \cup {m}
    /\ Keeps(<<intent, position>>)
\* Faulty variant: the status comes before the tracks.
SettlesFirst(m) == position[m] \in {"open", "exited", "exit_missed"}
MaySettle(m) == m \in settled /\ position[m] \in {"open", "exited", "exit_missed"}
SettlePosition(m) ==
    /\ MaySettle(m) /\ Move(m, "settled")
    /\ Keeps(<<intent, settled>>)

Changes ==
    /\ changes < MaxDecisions /\ changes' = changes + 1
    /\ UNCHANGED <<ledger, step, page>>
Predict(m) ==
    /\ Changes
    /\ \E a \in {"available", "unavailable", "unpromoted"} :
           prediction' = [prediction EXCEPT ![m] = a]
    /\ UNCHANGED <<decision, linked>>
\* A decision is stored after the prediction it was made from; "unpromoted" is
\* the NO_BET for want of a promoted model.
Decide(m) ==
    /\ Changes
    /\ \E a \in IF prediction[m] = "available" THEN EngineActions \cup {"no_bet"}
                ELSE {IF prediction[m] = "unpromoted" THEN "unpromoted" ELSE "no_bet"} :
           decision' = [decision EXCEPT ![m] = a]
    /\ UNCHANGED <<prediction, linked>>
Link(m) ==
    /\ Changes
    /\ linked' = IF m \in linked THEN linked \ {m} ELSE linked \cup {m}
    /\ UNCHANGED <<prediction, decision>>

Writes(m) ==
    \/ PlaceEntry(m) \/ DecideEntry(m) \/ PlaceExit(m) \/ DecideExit(m) \/ FollowExit(m)
    \/ StoreTrack(m) \/ SettlePosition(m)
    \/ Predict(m) \/ Decide(m) \/ Link(m)

-----------------------------------------------------------------------------
(* The pages *)

Reads(from, to, contents) ==
    /\ step = from /\ step' = to
    /\ page' = contents
    /\ UNCHANGED <<ledger, model>>

\* match_decision: the decision, the position, the orders, the fills, the tracks.
ReadDecision(m) ==
    /\ decision[m] # None
    /\ Reads("idle", "position", [kind |-> "decision", match |-> m, action |-> decision[m]])
ReadPosition ==
    Reads("position", "intents",
          [kind |-> "decision", match |-> page.match, action |-> page.action,
           status |-> position[page.match]])

\* The lifecycle that the orders show
Lifecycle(orders, status) ==
    {s \in {"entry_pending", "filled", "missed", "exit_pending", "exited", "exit_missed", "settled"} :
        \/ s = "entry_pending" /\ orders["entry"] # None
        \/ s = "filled" /\ orders["entry"] = "filled"
        \/ s = "missed" /\ orders["entry"] = "no_fill"
        \/ s = "exit_pending" /\ orders["exit"] # None
        \/ s = "exited" /\ orders["exit"] = "filled"
        \/ s = "exit_missed" /\ orders["exit"] = "no_fill"
        \/ s = "settled" /\ status = "settled"}

WithIntents ==
    [kind |-> "decision", match |-> page.match, action |-> page.action, status |-> page.status,
     lifecycle |-> Lifecycle(intent[page.match], page.status)]
ReadIntents == Reads("intents", "fills", WithIntents)

\* Without a position the entry order alone is shown, as its fill has it now.
StatusOfIntent(lifecycle, status) ==
    CASE "entry_pending" \notin lifecycle -> None
      [] "entry_pending" \in lifecycle /\ status = "no_fill" -> "missed"
      [] OTHER -> "entry_pending"
\* The fills are those of the orders read before.
EventsOf(lifecycle, orders) ==
    {s \in Sides : PendingOf[s] \in lifecycle /\ orders[s] \in {"filled", "no_fill"}}
ReadFills ==
    Reads("fills", IF page.status = None THEN "show" ELSE "tracks",
          [kind |-> "decision", match |-> page.match, action |-> page.action,
           lifecycle |-> page.lifecycle, pnl |-> FALSE,
           status |-> IF page.status = None
                      THEN StatusOfIntent(page.lifecycle, intent[page.match]["entry"])
                      ELSE page.status,
           events |-> EventsOf(page.lifecycle, intent[page.match])])
ReadTracks ==
    Reads("tracks", "show", [page EXCEPT !.pnl = page.match \in settled])

\* paper_positions: every position, then the fills of the open ones, then the
\* pending entries of matches that had none, then fills and tracks of the rest.
Priced(matches) == {m \in matches : intent[m]["entry"] = "filled"}
OpenPositions == {m \in Matches : page.status[m] \in OpenStatuses}
RecentPositions == {m \in Matches : page.status[m] # None} \ OpenPositions

ReadPositions ==
    Reads("idle", "rows", [kind |-> "positions", status |-> position])
ReadOpenRows ==
    Reads("rows", "pending",
          [kind |-> "positions", status |-> page.status, priced |-> Priced(OpenPositions)])
ReadPending ==
    Reads("pending", "recent",
          [kind |-> "positions", status |-> page.status, priced |-> page.priced,
           waiting |-> {m \in Matches : intent[m]["entry"] = "pending" /\ page.status[m] = None}])
ReadRecentRows ==
    Reads("recent", "show",
          [kind |-> "positions", status |-> page.status, waiting |-> page.waiting,
           priced |-> page.priced \cup Priced(RecentPositions),
           pnl |-> {m \in RecentPositions : page.status[m] = "settled" /\ m \in settled}])

\* The pulse goes on to the decision of each open row and shows the most urgent;
\* whether the decision locks a profit or is stale is left open.
OpenRows == OpenPositions \cup page.waiting
Urgencies(m) ==
    IF decision[m] = "sell" THEN {0}
    ELSE {IF page.status[m] = "exit_pending" THEN 3 ELSE IF m \in page.waiting THEN 5 ELSE 4}
         \cup (IF decision[m] # None THEN {1, 2} ELSE {})
ReadPulse ==
    /\ step = "show" /\ page.kind = "positions" /\ OpenRows # {}
    /\ \E m \in OpenRows :
        /\ \E u \in Urgencies(m) : \A n \in OpenRows \ {m} : \E v \in Urgencies(n) : u <= v
        /\ Reads("show", "show",
                 [kind |-> "pulse", match |-> m,
                  action |-> IF decision[m] = None THEN "hold" ELSE decision[m]])

\* markets: the linked markets of a page, then the decisions, then the predictions.
ReadOverviews ==
    Reads("idle", "decisions", [kind |-> "markets", linked |-> linked])
ReadDecisions ==
    Reads("decisions", "predictions",
          [kind |-> "markets", linked |-> page.linked, decision |-> decision])

\* Never inferred from an action: what evidence there is of the model
ModelAvailability(m, links, action, predicted) ==
    CASE m \notin links -> "not_evaluated"
      [] m \in links /\ predicted = "available" -> "available"
      [] m \in links /\ predicted \in {"unavailable", "unpromoted"} -> "eligible_unpromoted"
      [] m \in links /\ predicted = None /\ action = "unpromoted" -> "eligible_unpromoted"
      [] OTHER -> "not_evaluated"

WithPredictions ==
    [kind |-> "markets", linked |-> page.linked, decision |-> page.decision,
     availability |-> [m \in Matches |->
         ModelAvailability(m, page.linked, page.decision[m], prediction[m])]]
ReadPredictions == Reads("predictions", "show", WithPredictions)

\* opportunity_view: the actionable decisions; without one, why there is none,
\* from the decisions read again, the links and the predictions.
ReadOpportunities ==
    LET rows == {m \in Matches : decision[m] \in {"buy", "wait"}} IN
    Reads("idle", IF rows = {} THEN "evidence" ELSE "show",
          [kind |-> "opportunities", rows |-> rows,
           reason |-> IF rows = {} THEN None ELSE "HAS_OPPORTUNITIES"])
OpportunityReason(unpromoted, covered, gapped) ==
    CASE unpromoted -> "ELIGIBLE_UNPROMOTED"
      [] ~unpromoted /\ gapped -> "DECISION_GAP"
      [] ~unpromoted /\ ~gapped /\ ~covered -> "NO_COVERED_MARKET"
      [] OTHER -> "NO_ELIGIBLE_ACTION"
\* The deployment may be known to have no promoted model, and the decisions may
\* all be stale or gapped.
ReadEvidence ==
    \E deployment, gapped \in BOOLEAN :
        LET evident == \E m \in Matches : decision[m] = "unpromoted"
            covered == linked # {}
            decided == \E m \in Matches : decision[m] # None IN
        Reads("evidence", "show",
              [page EXCEPT !.reason = OpportunityReason(evident \/ (covered /\ deployment),
                                                        covered, decided /\ gapped)])

Show ==
    /\ step = "show" /\ step' = "idle" /\ page' = NoPage
    /\ UNCHANGED <<ledger, model>>

Next ==
    \/ \E m \in Matches : Writes(m) \/ ReadDecision(m)
    \/ ReadPosition \/ ReadIntents \/ ReadFills \/ ReadTracks
    \/ ReadPositions \/ ReadOpenRows \/ ReadPending \/ ReadRecentRows \/ ReadPulse
    \/ ReadOverviews \/ ReadDecisions \/ ReadPredictions
    \/ ReadOpportunities \/ ReadEvidence \/ Show

Spec == Init /\ [][Next]_vars

-----------------------------------------------------------------------------
(* Properties *)

\* The workbench page of a match explains the status it shows, however far the
\* ledger has gone between its reads: a position is shown with the fill it came
\* from, an ended exit with how it ended, a settlement with its result.
Shown(kind) == step = "show" /\ page.kind = kind
StatusIsExplained ==
    Shown("decision") =>
        /\ page.status \in OpenStatuses \cup {"exited", "exit_missed", "settled"} =>
               "filled" \in page.lifecycle /\ "entry" \in page.events
        /\ page.status \in {"exited", "exit_missed"} => page.status \in page.lifecycle
        /\ page.status = "settled" => page.pnl /\ "settled" \in page.lifecycle

\* Every row of the positions page has its entry price, every settled one its
\* result, and no match is listed both as a position and as a pending entry.
RowsAreComplete ==
    Shown("positions") =>
        \A m \in Matches :
            /\ page.status[m] # None => m \in page.priced /\ m \notin page.waiting
            /\ page.status[m] = "settled" => m \in page.pnl

\* A market row with an action that only a prediction leads to never says that
\* the model was not evaluated.
ActionHasItsModel ==
    Shown("markets") =>
        \A m \in page.linked :
            page.decision[m] \in EngineActions => page.availability[m] # "not_evaluated"
=============================================================================
