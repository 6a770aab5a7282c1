----------------------------- MODULE PaperLedger -----------------------------
(***************************************************************************)
(* The paper trading service (backend/app/paper/service.py) over its       *)
(* PostgreSQL repository (backend/app/persistence/paper_repositories.py).  *)
(*                                                                         *)
(* A service call is a coroutine that reads the ledger and then awaits a   *)
(* sequence of repository transactions and Redis publishes.  call[w] is    *)
(* the next awaited call of worker w; every transaction is one atomic      *)
(* step, so other workers run between any two of them.  A worker can be    *)
(* cut off before any of its calls (process death, the daemon's            *)
(* asyncio.timeout, a failing store or publisher): the service keeps no    *)
(* state of its own, so this is the whole effect of a crash and a restart. *)
(*                                                                         *)
(* The market of a match is left out: the link is frozen by the first      *)
(* intent and a market has one link row, so a market carries the intents   *)
(* and the position of one match.  Prices, depth and fees are the outcome  *)
(* of a requote; rules, quote and metadata that make an early return are   *)
(* decisions that never start.                                             *)
(***************************************************************************)
EXTENDS Naturals

CONSTANTS
    Matches,   \* match identifiers
    Workers,   \* processes running a PaperTradingService
    Delays,    \* sports_delay_seconds a market may demand
    Grace,     \* INTENT_GRACE_SECONDS
    MaxTime    \* bound of the clock

ASSUME ConstantsAssumption ==
    /\ Delays \subseteq Nat
    /\ Grace \in Nat \ {0}
    /\ MaxTime \in Nat

VARIABLES
    now,           \* the service clock
    intent,        \* paper_order_intents, by match and side
    fill,          \* paper_fills, by match and side
    position,      \* paper_positions.status, by match
    tracks,        \* paper_track_results.exit_kind, by match and track
    resolution,    \* market_resolutions.status, by match
    marker,        \* the hot paper marker of the match in Redis
    marketMarker,  \* the hot paper marker of the market in Redis
    call           \* the call each worker awaits

ledger == <<intent, fill, position, tracks, resolution>>
vars == <<now, intent, fill, position, tracks, resolution, marker,
          marketMarker, call>>

-----------------------------------------------------------------------------
(* Rows and calls *)

Sides == {"ENTRY", "EXIT"}
IntentStatus == {"absent", "PENDING", "FILLED", "NO_FILL"}
FillKinds == {"absent", "filled", "no_fill"}
PositionStatus == {"OPEN", "EXIT_PENDING", "EXITED", "EXIT_MISSED", "SETTLED"}
TrackNames == {"EV_EXIT", "HODL_BASELINE", "CONVERGENCE_LOCK"}
ExitKinds == {"SOLD", "EXIT_MISSED", "HELD", "HELD_TO_SETTLEMENT"}
\* PENDING, PROPOSED and DISPUTED all block a settlement and differ only in
\* the reason given.
ResolutionStatus == {"NOT_FINAL", "FINAL"}
Markers == {"entry_pending", "filled", "no_fill", "exit_pending", "exited",
            "exit_missed", "settled"}

NoIntent == [status |-> "absent", created |-> 0, delay |-> 0]
NoFill == [kind |-> "absent", at |-> 0]

IntentRows == [status : IntentStatus, created : Nat, delay : Nat]
FillRows == [kind : FillKinds, at : Nat]

\* Faulty variant: an exit that is still pending may be settled.
PendingExitsSettle ==
    {<<"OPEN", "EXIT_PENDING">>, <<"OPEN", "SETTLED">>,
     <<"EXIT_PENDING", "EXITED">>, <<"EXIT_PENDING", "EXIT_MISSED">>,
     <<"EXIT_PENDING", "SETTLED">>,
     <<"EXITED", "SETTLED">>, <<"EXIT_MISSED", "SETTLED">>}

POSITION_TRANSITIONS ==
    {<<"OPEN", "EXIT_PENDING">>, <<"OPEN", "SETTLED">>,
     <<"EXIT_PENDING", "EXITED">>, <<"EXIT_PENDING", "EXIT_MISSED">>,
     <<"EXITED", "SETTLED">>, <<"EXIT_MISSED", "SETTLED">>}

Idle == [op |-> "idle"]
Down == [op |-> "down"]

Calls ==
    [op : {"idle", "down"}]
    \cup [op : {"create_intent"}, match : Matches, side : Sides,
          created : Nat, delay : Nat]
    \cup [op : {"record_fill"}, match : Matches, side : Sides,
          outcome : {"filled", "no_fill", "position_missing"}, at : Nat]
    \cup [op : {"update_position_status"}, match : Matches,
          status : PositionStatus \ {"OPEN"}]
    \cup [op : {"record_resolution", "upsert_resolution", "load_unsettled"},
          match : Matches, status : ResolutionStatus, pays : BOOLEAN]
    \cup [op : {"record_track_result"}, match : Matches, track : TrackNames,
          exitKind : ExitKinds]
    \cup [op : {"publish"}, match : Matches, state : Markers,
          then : {"return", "record_exit_missed"}]
    \cup [op : {"publish_blocked"}, match : Matches]

Await(w, next) == call' = [call EXCEPT ![w] = next]

Publish(m, state) ==
    [op |-> "publish", match |-> m, state |-> state, then |-> "return"]

PublishNoFill(m, then) ==
    [op |-> "publish", match |-> m, state |-> "no_fill", then |-> then]

UpdatePosition(m, status) ==
    [op |-> "update_position_status", match |-> m, status |-> status]

DueAt(i) == i.created + i.delay
ExpiresAt(i) == i.created + i.delay + Grace

TypeOK ==
    /\ now \in Nat
    /\ intent \in [Matches -> [Sides -> IntentRows]]
    /\ fill \in [Matches -> [Sides -> FillRows]]
    /\ position \in [Matches -> PositionStatus \cup {"absent"}]
    /\ tracks \in [Matches -> [TrackNames -> ExitKinds \cup {"absent"}]]
    /\ resolution \in [Matches -> ResolutionStatus \cup {"absent"}]
    /\ marker \in [Matches -> Markers \cup {"absent"}]
    /\ marketMarker \in [Matches -> {"absent", "settlement_blocked"}]
    /\ call \in [Workers -> Calls]

Init ==
    /\ now = 0
    /\ intent = [m \in Matches |-> [s \in Sides |-> NoIntent]]
    /\ fill = [m \in Matches |-> [s \in Sides |-> NoFill]]
    /\ position = [m \in Matches |-> "absent"]
    /\ tracks = [m \in Matches |-> [t \in TrackNames |-> "absent"]]
    /\ resolution = [m \in Matches |-> "absent"]
    /\ marker = [m \in Matches |-> "absent"]
    /\ marketMarker = [m \in Matches |-> "absent"]
    /\ call = [w \in Workers |-> Idle]

-----------------------------------------------------------------------------
(* Service entry points: read the ledger, await the first call.            *)
(* MaxTime bounds the time at which an intent may be created.              *)

\* on_decision(BUY): no position yet.  An existing entry intent is not looked
\* up; create_intent is relied upon to keep the entry one-shot.
BeginEntry(w, m) ==
    /\ call[w] = Idle
    /\ position[m] = "absent"
    /\ \E d \in Delays :
        /\ now + d + Grace < MaxTime
        /\ Await(w, [op |-> "create_intent", match |-> m, side |-> "ENTRY",
                     created |-> now, delay |-> d])
    /\ UNCHANGED <<now, ledger, marker, marketMarker>>

\* on_decision(SELL): an OPEN position and no exit intent.
BeginExit(w, m) ==
    /\ call[w] = Idle
    /\ position[m] = "OPEN"
    /\ intent[m]["EXIT"].status = "absent"
    /\ \E d \in Delays :
        /\ now + d + Grace < MaxTime
        /\ Await(w, [op |-> "create_intent", match |-> m, side |-> "EXIT",
                     created |-> now, delay |-> d])
    /\ UNCHANGED <<now, ledger, marker, marketMarker>>

\* What a due intent may come to: after its expiry, or against a book or
\* metadata that cannot be verified, a no-fill; an exit without a position is
\* a no-fill too; else the requote fills the whole order or nothing.
Outcomes(m, s) ==
    IF now > ExpiresAt(intent[m][s]) THEN {"no_fill"}
    ELSE IF s = "EXIT" /\ position[m] = "absent"
         THEN {"no_fill", "position_missing"}
         ELSE {"no_fill", "filled"}

\* execute_due_intents: one pending intent whose sports delay has passed.
ExecuteDueIntent(w, m, s) ==
    /\ call[w] = Idle
    /\ intent[m][s].status = "PENDING"
    /\ now >= DueAt(intent[m][s])
    /\ \E outcome \in Outcomes(m, s) :
        Await(w, [op |-> "record_fill", match |-> m, side |-> s,
                  outcome |-> outcome, at |-> now])
    /\ UNCHANGED <<now, ledger, marker, marketMarker>>

\* settle_market: the provider's resolution, which may lack the payout of
\* the held outcome; the payouts of one that is not final are not looked at.
SettleMarket(w, m, status, pays) ==
    /\ call[w] = Idle
    /\ pays => status = "FINAL"
    /\ Await(w, [op |-> "record_resolution", match |-> m,
                 status |-> status, pays |-> pays])
    /\ UNCHANGED <<now, ledger, marker, marketMarker>>

-----------------------------------------------------------------------------
(* Repository transactions and publishes: the awaited call commits, and the *)
(* coroutine goes on to its next call.                                      *)

\* create_intent: INSERT ... ON CONFLICT (idempotency_key) DO NOTHING.
CreateIntent(w) ==
    LET c == call[w] IN
    /\ c.op = "create_intent"
    /\ intent' = IF intent[c.match][c.side].status = "absent"
                 THEN [intent EXCEPT ![c.match][c.side] =
                          [status |-> "PENDING", created |-> c.created,
                           delay |-> c.delay]]
                 ELSE intent
    /\ Await(w, IF c.side = "ENTRY"
                THEN Publish(c.match, "entry_pending")
                ELSE UpdatePosition(c.match, "EXIT_PENDING"))
    /\ UNCHANGED <<now, fill, position, tracks, resolution, marker,
                   marketMarker>>

\* The fill row of an order is written by the first record_fill.
FirstFillWins(c) == fill[c.match][c.side].kind = "absent"

OpensPosition(c) == c.outcome = "filled" /\ c.side = "ENTRY"

\* record_fill: one transaction.  The first fill row wins and moves the
\* intent; the position of a filled entry is inserted ON CONFLICT DO NOTHING
\* whether or not this call wrote the fill row.
RecordFill(w) ==
    LET c == call[w]
        filled == c.outcome = "filled"
    IN
    /\ c.op = "record_fill"
    /\ IF FirstFillWins(c)
       THEN /\ fill' = [fill EXCEPT ![c.match][c.side] =
                            [kind |-> IF filled THEN "filled" ELSE "no_fill",
                             at |-> c.at]]
            /\ intent' = [intent EXCEPT ![c.match][c.side].status =
                              IF filled THEN "FILLED" ELSE "NO_FILL"]
       ELSE UNCHANGED <<fill, intent>>
    /\ position' = IF OpensPosition(c) /\ position[c.match] = "absent"
                   THEN [position EXCEPT ![c.match] = "OPEN"]
                   ELSE position
    /\ Await(w, CASE c.outcome = "no_fill" /\ c.side = "EXIT" ->
                        PublishNoFill(c.match, "record_exit_missed")
                  [] ~filled /\ (c.side = "ENTRY" \/ c.outcome # "no_fill") ->
                        PublishNoFill(c.match, "return")
                  [] filled /\ c.side = "ENTRY" ->
                        Publish(c.match, "filled")
                  [] filled /\ c.side = "EXIT" ->
                        UpdatePosition(c.match, "EXITED"))
    /\ UNCHANGED <<now, tracks, resolution, marker, marketMarker>>

\* The marker published once the position has reached a status.
StatusMarker ==
    [EXIT_PENDING |-> "exit_pending", EXITED |-> "exited",
     EXIT_MISSED |-> "exit_missed", SETTLED |-> "settled"]

\* Forward only; repeating the status is allowed.
MayMove(c) ==
    \/ position[c.match] = c.status
    \/ <<position[c.match], c.status>> \in POSITION_TRANSITIONS

\* Faulty variant: a status that may not be written is published anyway.
UpdateSwallowsError(w) ==
    LET c == call[w] IN
    /\ c.op = "update_position_status"
    /\ position' = IF MayMove(c) THEN [position EXCEPT ![c.match] = c.status]
                   ELSE position
    /\ Await(w, Publish(c.match, StatusMarker[c.status]))
    /\ UNCHANGED <<now, intent, fill, tracks, resolution, marker,
                   marketMarker>>

\* update_position_status: a missing position or an illegal transition raises
\* out of the coroutine.
UpdatePositionStatus(w) ==
    LET c == call[w] IN
    /\ c.op = "update_position_status"
    /\ \/ /\ MayMove(c)
          /\ position' = [position EXCEPT ![c.match] = c.status]
          /\ Await(w, Publish(c.match, StatusMarker[c.status]))
       \/ /\ ~MayMove(c)
          /\ Await(w, Idle)
          /\ UNCHANGED position
    /\ UNCHANGED <<now, intent, fill, tracks, resolution, marker,
                   marketMarker>>

Settle(op, c) ==
    [op |-> op, match |-> c.match, status |-> c.status, pays |-> c.pays]

Downgrades(c) == resolution[c.match] = "FINAL" /\ c.status # "FINAL"

\* record_resolution: a stored row is locked, checked and replaced (FINAL
\* never downgrades: the call raises).  A row that is not there cannot be
\* locked, so the upsert comes later and checks nothing.
RecordResolution(w) ==
    LET c == call[w]
        stored == resolution[c.match] # "absent"
    IN
    /\ c.op = "record_resolution"
    /\ \/ /\ stored /\ ~Downgrades(c)
          /\ resolution' = [resolution EXCEPT ![c.match] = c.status]
          /\ Await(w, Settle("load_unsettled", c))
       \/ /\ stored /\ Downgrades(c)
          /\ Await(w, Idle)
          /\ UNCHANGED resolution
       \/ /\ ~stored
          /\ Await(w, Settle("upsert_resolution", c))
          /\ UNCHANGED resolution
    /\ UNCHANGED <<now, intent, fill, position, tracks, marker, marketMarker>>

\* The upsert of record_resolution after it found no row.
UpsertResolution(w) ==
    LET c == call[w] IN
    /\ c.op = "upsert_resolution"
    /\ resolution' = [resolution EXCEPT ![c.match] = c.status]
    /\ Await(w, Settle("load_unsettled", c))
    /\ UNCHANGED <<now, intent, fill, position, tracks, marker, marketMarker>>

\* Faulty variant: a pending exit counts as a sale.
EvExitKindCountsPending(m) ==
    CASE position[m] \in {"EXIT_PENDING", "EXITED"} -> "SOLD"
      [] position[m] = "EXIT_MISSED" -> "EXIT_MISSED"
      [] OTHER -> "HELD_TO_SETTLEMENT"

\* How settle_market classifies the exit of a position, and the kind that
\* interpret_settlement gives the EV track.
EvExitKind(m) ==
    CASE position[m] = "EXITED" /\ fill[m]["EXIT"].kind = "filled" -> "SOLD"
      [] position[m] = "EXIT_MISSED" -> "EXIT_MISSED"
      [] OTHER -> "HELD_TO_SETTLEMENT"

RecordTrack(m, t, kind) ==
    [op |-> "record_track_result", match |-> m, track |-> t,
     exitKind |-> kind]

\* settle_market after the upsert: the unsettled position is interpreted; a
\* resolution that is not final or lacks the payout blocks it.
LoadUnsettled(w) ==
    LET c == call[w] IN
    /\ c.op = "load_unsettled"
    /\ Await(w, IF position[c.match] \in {"absent", "SETTLED"} THEN Idle
                ELSE IF c.status = "FINAL" /\ c.pays
                     THEN RecordTrack(c.match, "EV_EXIT", EvExitKind(c.match))
                     ELSE [op |-> "publish_blocked", match |-> c.match])
    /\ UNCHANGED <<now, ledger, marker, marketMarker>>

StopsAtStoredTrack(c) ==
    IF tracks[c.match][c.track] # "absent" THEN Idle
    ELSE CASE c.track = "EV_EXIT" ->
                 RecordTrack(c.match, "HODL_BASELINE", "HELD")
           [] c.track = "HODL_BASELINE" ->
                 RecordTrack(c.match, "CONVERGENCE_LOCK", "HELD_TO_SETTLEMENT")
           [] c.track = "CONVERGENCE_LOCK" -> UpdatePosition(c.match, "SETTLED")

\* The tracks in the order of interpret_settlement, then the position.  No
\* convergence lock price is ever passed, so that track is held.
AfterTrack(c) ==
    CASE c.track = "EV_EXIT" -> RecordTrack(c.match, "HODL_BASELINE", "HELD")
      [] c.track = "HODL_BASELINE" ->
            RecordTrack(c.match, "CONVERGENCE_LOCK", "HELD_TO_SETTLEMENT")
      [] c.track = "CONVERGENCE_LOCK" -> UpdatePosition(c.match, "SETTLED")

\* record_track_result: the first committed result of a track wins.
RecordTrackResult(w) ==
    LET c == call[w] IN
    /\ c.op = "record_track_result"
    /\ tracks' = IF tracks[c.match][c.track] = "absent"
                 THEN [tracks EXCEPT ![c.match][c.track] = c.exitKind]
                 ELSE tracks
    /\ Await(w, AfterTrack(c))
    /\ UNCHANGED <<now, intent, fill, position, resolution, marker,
                   marketMarker>>

\* publish_marker: the hot key of the match.  After the no-fill of an exit
\* comes _record_exit_missed; every other publish ends the coroutine.
PublishMarker(w) ==
    LET c == call[w] IN
    /\ c.op = "publish"
    /\ marker' = [marker EXCEPT ![c.match] = c.state]
    /\ Await(w, IF c.then = "record_exit_missed"
                THEN UpdatePosition(c.match, "EXIT_MISSED")
                ELSE Idle)
    /\ UNCHANGED <<now, ledger, marketMarker>>

\* settlement_blocked is published under the market's own key.
PublishBlocked(w) ==
    LET c == call[w] IN
    /\ c.op = "publish_blocked"
    /\ marketMarker' = [marketMarker EXCEPT ![c.match] = "settlement_blocked"]
    /\ Await(w, Idle)
    /\ UNCHANGED <<now, ledger, marker>>

-----------------------------------------------------------------------------
\* The coroutine is cut off before its next call: a crash, a timeout that
\* cancels it, or a store or publisher that raises.
Interrupt(w) ==
    /\ call[w] \notin {Idle, Down}
    /\ Await(w, Down)
    /\ UNCHANGED <<now, ledger, marker, marketMarker>>

\* The worker takes up work again, from the ledger alone.
Restart(w) ==
    /\ call[w] = Down
    /\ Await(w, Idle)
    /\ UNCHANGED <<now, ledger, marker, marketMarker>>

\* MaxTime bounds the clock.
Tick ==
    /\ now < MaxTime
    /\ now' = now + 1
    /\ UNCHANGED <<ledger, marker, marketMarker, call>>

Begin(w, m) ==
    \/ BeginEntry(w, m)
    \/ BeginExit(w, m)
    \/ \E s \in Sides : ExecuteDueIntent(w, m, s)
    \/ \E status \in ResolutionStatus, pays \in BOOLEAN :
            SettleMarket(w, m, status, pays)

Commit(w) ==
    \/ CreateIntent(w)
    \/ RecordFill(w)
    \/ UpdatePositionStatus(w)
    \/ RecordResolution(w)
    \/ UpsertResolution(w)
    \/ LoadUnsettled(w)
    \/ RecordTrackResult(w)
    \/ PublishMarker(w)
    \/ PublishBlocked(w)

\* Steps of the service itself, in the order the code gives them.
Work ==
    \/ \E w \in Workers : (\E m \in Matches : Begin(w, m)) \/ Commit(w)
    \/ Tick

Next ==
    \/ Work
    \/ \E w \in Workers : Interrupt(w) \/ Restart(w)

Spec == Init /\ [][Next]_vars

\* The daemon keeps every job going: each tick executes the due intents of
\* every market that has one and rechecks the resolution of every unsettled
\* position (_pump_markets, _resolution_recheck), and the provider ends with
\* a final resolution that pays the held outcome.  Workers may be interrupted
\* any number of times, but not for ever.
Fairness ==
    /\ WF_vars(Tick)
    /\ \A w \in Workers :
        /\ WF_vars(Commit(w))
        /\ WF_vars(Restart(w))
        /\ \A m \in Matches :
            /\ \A s \in Sides : SF_vars(ExecuteDueIntent(w, m, s))
            /\ SF_vars(SettleMarket(w, m, "FINAL", TRUE))
    /\ <>[][\A w \in Workers : ~Interrupt(w)]_vars

FairSpec == Spec /\ Fairness

-----------------------------------------------------------------------------
(* Properties of the service run by one worker *)

\* A match holds a position exactly when its entry intent was filled: no
\* synthetic position, no lost one (record_fill commits both at once).
PositionIffEntryFilled ==
    \A m \in Matches :
        position[m] # "absent" <=> fill[m]["ENTRY"].kind = "filled"

\* The status of an exited position is what the one exit order came to:
\* EXITED only over a filled exit, EXIT_MISSED only over a no-fill, although
\* the fill and the status are committed by separate transactions.
ExitStatusFollowsFill ==
    \A m \in Matches :
        /\ position[m] = "EXIT_PENDING" => intent[m]["EXIT"].status # "absent"
        /\ position[m] = "EXITED" => fill[m]["EXIT"].kind = "filled"
        /\ position[m] = "EXIT_MISSED" => fill[m]["EXIT"].kind = "no_fill"

\* A position is settled only under a final resolution that is still stored,
\* whatever was interrupted and replayed on the way.
SettledIsFinal ==
    \A m \in Matches : position[m] = "SETTLED" => resolution[m] = "FINAL"

\* The EV track never invents an exit: SOLD needs a filled exit order and
\* EXIT_MISSED one that came to nothing.
EvTrackNeverInvents ==
    \A m \in Matches :
        /\ tracks[m]["EV_EXIT"] = "SOLD" => fill[m]["EXIT"].kind = "filled"
        /\ tracks[m]["EV_EXIT"] = "EXIT_MISSED" =>
               fill[m]["EXIT"].kind = "no_fill"

\* What Redis shows was committed before it was published: a marker is never
\* ahead of the ledger, even when the worker dies at any point.
MarkerBehindLedger ==
    \A m \in Matches :
        /\ marker[m] = "entry_pending" => intent[m]["ENTRY"].status # "absent"
        /\ marker[m] = "filled" => position[m] # "absent"
        /\ marker[m] = "no_fill" =>
               \E s \in Sides : fill[m][s].kind = "no_fill"
        /\ marker[m] = "exit_pending" => position[m] \notin {"absent", "OPEN"}
        /\ marker[m] = "exited" => position[m] \in {"EXITED", "SETTLED"}
        /\ marker[m] = "exit_missed" =>
               position[m] \in {"EXIT_MISSED", "SETTLED"}
        /\ marker[m] = "settled" => position[m] = "SETTLED"

\* The committed rows as the contract's lifecycle.
LifecycleOf(m) ==
    IF position[m] # "absent"
    THEN IF position[m] = "OPEN" THEN "FILLED" ELSE position[m]
    ELSE CASE intent[m]["ENTRY"].status = "absent" -> "NONE"
           [] intent[m]["ENTRY"].status = "PENDING" -> "ENTRY_PENDING"
           [] intent[m]["ENTRY"].status = "NO_FILL" -> "MISSED"
           [] intent[m]["ENTRY"].status = "FILLED" -> "FILLED"
lifecycle == [m \in Matches |-> LifecycleOf(m)]
held == [m \in Matches |-> position[m] # "absent"]
evaluated == [m \in Matches |->
    IF position[m] = "SETTLED" THEN {t \in TrackNames : tracks[m][t] # "absent"}
    ELSE {}]

Contract == INSTANCE PaperLifecycle
    WITH lifecycle <- lifecycle, held <- held, evaluated <- evaluated

\* Every transaction moves the ledger of a match by one legal step of the
\* one-shot state machine or not at all, and a position becomes SETTLED only
\* with all the required tracks.
ImplementsLifecycle == Contract!Spec

\* Interrupted settlements are replayed to the end: a position that does not
\* wait for its exit order is settled, or an exit begins.
OpenPositionsSettle ==
    \A m \in Matches :
        position[m] \in {"OPEN", "EXITED", "EXIT_MISSED"} ~>
            position[m] \in {"SETTLED", "EXIT_PENDING"}

-----------------------------------------------------------------------------
(* Properties that also hold when several workers run the service *)

\* An order is never filled before its sports delay nor after its expiry,
\* and never judged before the delay.
FillWithinWindow ==
    \A m \in Matches, s \in Sides : fill[m][s].kind # "absent" =>
        /\ fill[m][s].at >= DueAt(intent[m][s])
        /\ fill[m][s].kind = "filled" => fill[m][s].at <= ExpiresAt(intent[m][s])

\* A position is settled only with its three tracks committed.
SettledHasTracks ==
    \A m \in Matches : position[m] = "SETTLED" =>
        \A t \in TrackNames : tracks[m][t] # "absent"

\* What one step may do to rows that are already there: an intent keeps its
\* window and is decided once, a fill and a track are never rewritten.
WritesOnce ==
    \A m \in Matches :
        /\ \A s \in Sides :
            /\ intent[m][s].status # "absent" =>
                   /\ intent'[m][s].status # "absent"
                   /\ intent'[m][s].created = intent[m][s].created
                   /\ intent'[m][s].delay = intent[m][s].delay
            /\ intent[m][s].status \in {"FILLED", "NO_FILL"} =>
                   intent'[m][s] = intent[m][s]
            /\ fill[m][s].kind # "absent" => fill'[m][s] = fill[m][s]
        /\ \A t \in TrackNames :
            tracks[m][t] # "absent" => tracks'[m][t] = tracks[m][t]

\* Orders are one-shot and the record of what happened to them is written
\* once: no retry, no re-quote, no second fill, no rewritten track.
LedgerIsWriteOnce == [][WritesOnce]_vars

\* What one step may do to a position.
MovesForward ==
    \A m \in Matches : position'[m] # position[m] =>
        \/ position[m] = "absent" /\ position'[m] = "OPEN"
        \/ <<position[m], position'[m]>> \in POSITION_TRANSITIONS

\* Positions only move forward along the transition table.
ForwardOnly == [][MovesForward]_vars

-----------------------------------------------------------------------------
(* What the repository's documents say and the code does not do *)

\* "FINAL is terminal and never downgrades": no step replaces a final
\* resolution by another status.
FinalStays ==
    \A m \in Matches : resolution[m] = "FINAL" => resolution'[m] = "FINAL"

FinalIsTerminal == [][FinalStays]_vars

\* "An exit intent that can never fill is terminal ... holds to settlement",
\* also across a crash: every position is eventually settled.
EveryPositionSettles ==
    \A m \in Matches : position[m] # "absent" ~> position[m] = "SETTLED"
=============================================================================
