---------------------------- MODULE DecisionEngine ----------------------------
(***************************************************************************)
(* One decision: the gates of DecisionEngine.evaluate in their order, the  *)
(* walk down the levels of a book that quotes the whole order, and the     *)
(* action that the quote and the model's probability lead to.  A BUY is    *)
(* followed by its fill on the same book and a second decision, about the  *)
(* position.                                                               *)
(*                                                                         *)
(* Numbers are whole: a price is in ticks of 1/One, a size in the smallest *)
(* fraction of a share (SHARE_SCALE), a cost in ticks times such fractions.*)
(* The fee of a share is FeeRate/FeeScale of min(p, 1 - p) ^ Exponent.     *)
(* Average prices and fees per share are left as fractions and compared by *)
(* cross-multiplying; the code rounds them to six decimals.                *)
(***************************************************************************)
EXTENDS Integers, Sequences, FiniteSetsExt

CONSTANTS
    Inputs,    \* the inputs of a decision (DecisionInput)
    Stake,     \* what an entry costs
    One,       \* the ticks of a price of 1
    FeeRate, FeeScale, Exponent, \* the fee curve of the market
    MinOrder,  \* min_order_size
    BuyEdge,   \* buy_min_conservative_net_edge
    BuyGap,    \* buy_min_model_probability_gap
    SellEdge,  \* sell_min_exit_net_edge
    None

VARIABLES
    input,       \* the input of the decision
    position,    \* the position on record: outcome, shares and entry cost
    at,          \* how far the decision is
    walk,        \* the quote being put together
    observation, \* the last decision, and the one before it
    before

vars == <<input, position, at, walk, observation, before>>

Outcomes == {"first", "second"}
NoDecision == [action |-> None, reason |-> None, target |-> None, quote |-> None,
               edge |-> FALSE, cap |-> None, lock |-> FALSE]

\* What PolicyArtifact.load refuses an artifact for: there is no policy then.
PolicyRejections ==
    {"POLICY_HASH_MISMATCH", "POLICY_UNREADABLE", "THRESHOLD_SELECTED_ON_TEST",
     "MISSING_SHADOW_EVIDENCE", "MISSING_VALIDATION_SHADOW_EVIDENCE",
     "NON_POSITIVE_NET_EV_LOWER_BOUND"}

\* What OutcomeBook accepts: levels of some size, asks that rise, bids that fall
IsLadder(ladder, direction) ==
    /\ \A i \in DOMAIN ladder : ladder[i].price \in 1..One /\ ladder[i].size > 0
    /\ \A i, j \in DOMAIN ladder :
           i < j => direction * ladder[i].price < direction * ladder[j].price
IsBook(b) ==
    \A o \in Outcomes : IsLadder(b[o].asks, 1) /\ IsLadder(b[o].bids, -1)

Init ==
    /\ input \in {i \in Inputs : i.book # None => IsBook(i.book)}
    /\ position = input.position
    /\ at = "gates" /\ walk = None
    /\ observation = NoDecision /\ before = NoDecision

\* The validator of DecisionObservation: no BUY or SELL on stale data, each
\* action with what it needs, the quote of its side
IsAccepted(o) ==
    /\ (input.stale \/ input.gap) => o.action \notin {"buy", "sell"}
    /\ o.action = "buy" => o.target # None /\ o.quote # None /\ o.edge
    /\ o.action = "sell" => o.target # None /\ o.quote # None
    /\ o.action = "wait" => o.target # None /\ o.cap # None
    /\ o.action \in {"no_bet", "market_only"} => o.reason # None
    /\ o.quote # None => o.quote.side = IF o.action = "sell" THEN "exit" ELSE "entry"

-----------------------------------------------------------------------------
(* The gates *)

Decide(action, reason, target) ==
    /\ observation' = [NoDecision EXCEPT !.action = action, !.reason = reason, !.target = target]
    /\ at' = "done"
    /\ UNCHANGED <<input, position, walk, before>>

Mapped == input.mapped
RulesHold == input.rules = "current"
Predicts == input.prediction.kind = "available"
HasPolicy == input.policy \notin PolicyRejections
HasBook == input.book # None /\ input.metadata

Overlay ==
    CASE input.stale -> "STALE" [] ~input.stale /\ input.gap -> "GAP" [] OTHER -> None

Unmapped ==
    /\ at = "gates" /\ ~Mapped
    /\ Decide("market_only", "MARKET_UNMAPPED", None)

RulesFail ==
    /\ at = "gates" /\ Mapped /\ ~RulesHold
    /\ Decide("no_bet", IF input.rules = "changed" THEN "RULE_CHANGED" ELSE "RULES_UNAVAILABLE",
              None)

ModelAbstains ==
    /\ at = "gates" /\ Mapped /\ RulesHold /\ ~Predicts
    /\ CASE input.prediction.kind = "out_of_domain" -> Decide("market_only", "OUT_OF_DOMAIN", None)
         [] input.prediction.kind = "unpromoted" -> Decide("no_bet", "MODEL_UNPROMOTED", None)
         [] OTHER -> Decide("no_bet", "DATA_INCOMPLETE", None)

\* Mapping, rules, model and policy let the decision go on.
Allowed == at = "gates" /\ Mapped /\ RulesHold /\ Predicts /\ HasPolicy

PolicyDisabled ==
    /\ at = "gates" /\ Mapped /\ RulesHold /\ Predicts /\ ~HasPolicy
    /\ Decide("no_bet", "POLICY_DISABLED", None)

Probability(o) == IF o = "first" THEN input.prediction.first ELSE One - input.prediction.first
Favourite == IF Probability("first") >= Probability("second") THEN "first" ELSE "second"
Spread == Probability(Favourite) - (One - Probability(Favourite))

ModelDisagrees ==
    /\ Allowed /\ position = None /\ Spread < BuyGap
    /\ Decide("no_bet", "MODEL_DISAGREEMENT", None)

\* STALE or GAP of the input, or a book that is stale itself
EntryIsStopped ==
    /\ Allowed /\ position = None /\ Spread >= BuyGap
    /\ \/ ~HasBook /\ Decide("no_bet", "DATA_INCOMPLETE", None)
       \/ HasBook /\ Overlay # None /\ Decide("no_bet", Overlay, None)
       \/ HasBook /\ Overlay = None /\ input.book.stale /\ Decide("no_bet", "STALE", None)

ExitIsStopped ==
    /\ Allowed /\ position # None
    /\ \/ Overlay # None /\ Decide("hold", Overlay, position.outcome)
       \/ Overlay = None /\ ~HasBook /\ Decide("hold", "DATA_INCOMPLETE", position.outcome)

-----------------------------------------------------------------------------
(* The quote *)

\* Rounded to the nearest whole, halves up
HalfUp(a, b) == (2 * a + b) \div (2 * b)
Least(a, b) == IF a < b THEN a ELSE b
\* What a share pays at a price, in FeeUnit-ths of a tick
FeeUnit == FeeScale * One ^ (Exponent - 1)
FeeOf(price) == FeeRate * Least(price, One - price) ^ Exponent

\* What the numbers are: fees are not negative and an input is whole.
Levels == [price : Nat, size : Nat]
EngineLimits ==
    /\ Stake \in Nat /\ One \in Nat \ {0} /\ MinOrder \in Nat /\ BuyEdge \in Int /\ SellEdge \in Int
    /\ FeeUnit \in Nat \ {0} /\ \A p \in 1..One : FeeOf(p) \in Nat
    /\ None \notin {"buy", "sell"}
    /\ \A i \in Inputs :
          /\ i.prediction.first \in Int
          /\ i.position # None => i.position.outcome \in Outcomes /\ i.position.shares \in Nat
          /\ i.book # None =>
                \A o \in Outcomes : i.book[o].asks \in Seq(Levels) /\ i.book[o].bids \in Seq(Levels)
\* What is rounded on the way, up to half a tick a level, is small against the
\* edges of the smallest order.
RoundingIsSmall ==
    \A i \in Inputs : i.book # None =>
        \A o \in Outcomes : One * (Len(i.book[o].asks) + Len(i.book[o].bids))
                                < 2 * ((BuyEdge + SellEdge + 1) * MinOrder)

\* None stands for what is missing, and is no value.
Reasons ==
    {"MARKET_UNMAPPED", "RULE_CHANGED", "RULES_UNAVAILABLE", "OUT_OF_DOMAIN", "MODEL_UNPROMOTED",
     "DATA_INCOMPLETE", "POLICY_DISABLED", "MODEL_DISAGREEMENT", "STALE", "GAP",
     "INSUFFICIENT_LIQUIDITY", "NO_NET_EDGE"}
Walks == [side : {"entry", "exit"}, outcome : Outcomes, level : Nat, left : Nat,
          shares : Nat, cost : Nat, fee : Nat]
NoneIsNoValue == None \notin Reasons \cup Outcomes \cup Nat /\ None \notin Walks

NewWalk(side, outcome, want) ==
    [side |-> side, outcome |-> outcome, level |-> 1, left |-> want,
     shares |-> 0, cost |-> 0, fee |-> 0]

StartEntry ==
    /\ Allowed /\ position = None /\ Spread >= BuyGap
    /\ HasBook /\ Overlay = None /\ ~input.book.stale
    /\ walk' = NewWalk("entry", Favourite, Stake)
    /\ at' = "walk"
    /\ UNCHANGED <<input, position, observation, before>>

StartExit ==
    /\ Allowed /\ position # None /\ Overlay = None /\ HasBook
    /\ walk' = NewWalk("exit", position.outcome, position.shares)
    /\ at' = "walk"
    /\ UNCHANGED <<input, position, observation, before>>

Ladder(w) == IF w.side = "entry" THEN input.book[w.outcome].asks ELSE input.book[w.outcome].bids

\* What an entry takes of a level: as much as is left of the stake pays for
EntryTake(w, level) ==
    LET cost == Least(w.left, level.size * level.price)
    IN [cost |-> cost, shares |-> HalfUp(cost, level.price), used |-> cost]

\* ... and what an exit takes: the shares that are left, as far as the level goes
ExitTake(w, level) ==
    LET shares == Least(w.left, level.size)
    IN [cost |-> HalfUp(shares * level.price, One) * One, shares |-> shares, used |-> shares]

Take(w, level) == IF w.side = "entry" THEN EntryTake(w, level) ELSE ExitTake(w, level)

InWalk == at = "walk" /\ walk.left > 0 /\ walk.level <= Len(Ladder(walk))

\* A level that would give nothing is passed over.
WalkLevel ==
    /\ InWalk
    /\ LET level == Ladder(walk)[walk.level]
           take == Take(walk, level)
       IN walk' = IF take.shares <= 0 THEN [walk EXCEPT !.level = @ + 1]
                  ELSE [side |-> walk.side, outcome |-> walk.outcome, level |-> walk.level + 1,
                        left |-> walk.left - take.used, shares |-> walk.shares + take.shares,
                        cost |-> walk.cost + take.cost,
                        fee |-> walk.fee + FeeOf(level.price) * take.shares]
    /\ UNCHANGED <<input, position, at, observation, before>>

Quoted == at = "walk" /\ ~InWalk
IsFillable(w) == w.shares > 0 /\ w.left = 0 /\ ~input.book.stale /\ w.shares >= MinOrder

-----------------------------------------------------------------------------
(* The action *)

\* probability - average price - fee per share >= edge, over FeeUnit * shares
EdgeAtLeast(w, probability, edge) ==
    FeeUnit * ((probability - edge) * w.shares - w.cost) >= w.fee

\* Faulty variant: the highest price before fees.
CapBeforeFees(probability) == Least(One, probability - BuyEdge)
\* max_acceptable_average_price: the highest price that leaves the edge
CapOf(probability) ==
    LET worth == {p \in 1..One : FeeUnit * (probability - p - BuyEdge) >= FeeOf(p)}
    IN IF worth = {} THEN 0 ELSE Max(worth)

Conclude(decision) ==
    /\ observation' = decision
    /\ at' = "done"
    /\ UNCHANGED <<input, position, walk, before>>

EntryIsUnfillable ==
    /\ Quoted /\ walk.side = "entry" /\ ~IsFillable(walk)
    /\ Decide("no_bet", "INSUFFICIENT_LIQUIDITY", walk.outcome)

Buys(w) == EdgeAtLeast(w, Probability(w.outcome), BuyEdge)

Buy ==
    /\ Quoted /\ walk.side = "entry" /\ IsFillable(walk) /\ Buys(walk)
    /\ Conclude([NoDecision EXCEPT !.action = "buy", !.target = walk.outcome,
                                   !.quote = walk, !.edge = TRUE])

\* Half of the edge is there against the best ask.
IsUnderpriced(w) == 2 * (Probability(w.outcome) - Ladder(w)[1].price) >= BuyEdge

WaitOrPass ==
    /\ Quoted /\ walk.side = "entry" /\ IsFillable(walk) /\ ~Buys(walk)
    /\ IF IsUnderpriced(walk)
       THEN Conclude([NoDecision EXCEPT !.action = "wait", !.target = walk.outcome,
                                        !.cap = CapOf(Probability(walk.outcome))])
       ELSE Decide("no_bet", "NO_NET_EDGE", None)

\* Faulty variant: the probability of the other outcome is what holding is worth.
SellsAgainstOther(w) ==
    FeeUnit * (w.cost - (One - Probability(w.outcome) + SellEdge) * w.shares) >= w.fee
\* average price - fee per share >= probability + the edge of a sale
Sells(w) == FeeUnit * (w.cost - (Probability(w.outcome) + SellEdge) * w.shares) >= w.fee

\* The sale would bring 1.25 times the cost of the entry: shown, never acted on.
IsLocked(w) == 4 * w.cost * position.shares >= 5 * position.cost * w.shares

Sell ==
    /\ Quoted /\ walk.side = "exit" /\ IsFillable(walk) /\ Sells(walk)
    /\ Conclude([NoDecision EXCEPT !.action = "sell", !.target = walk.outcome,
                                   !.quote = walk, !.edge = TRUE, !.lock = IsLocked(walk)])

Hold ==
    /\ Quoted /\ walk.side = "exit" /\ ~(IsFillable(walk) /\ Sells(walk))
    /\ Conclude([NoDecision EXCEPT !.action = "hold", !.target = walk.outcome,
                                   !.lock = IsFillable(walk) /\ IsLocked(walk)])

\* The paper service fills the order on the book it was quoted on, and the
\* position is decided about.
Fill ==
    /\ at = "done" /\ observation.action = "buy"
    /\ position' = [outcome |-> walk.outcome, shares |-> walk.shares,
                    cost |-> HalfUp(walk.cost, One) * One]
    /\ before' = observation /\ observation' = NoDecision
    /\ at' = "gates" /\ walk' = None
    /\ UNCHANGED input

-----------------------------------------------------------------------------

Gates ==
    \/ Unmapped \/ RulesFail \/ ModelAbstains \/ PolicyDisabled
    \/ ModelDisagrees \/ EntryIsStopped \/ ExitIsStopped
Quote == StartEntry \/ StartExit \/ WalkLevel
Action == EntryIsUnfillable \/ Buy \/ WaitOrPass \/ Sell \/ Hold

\* The last decision stands.
Stands == at = "done" /\ UNCHANGED vars

Next == Gates \/ Quote \/ Action \/ Fill \/ Stands

Spec == Init /\ [][Next]_vars

-----------------------------------------------------------------------------
(* Properties *)

\* The highest price shown with a WAIT is never looser than the gate of a BUY:
\* an order whose average price is within it would be bought, whatever the
\* levels the fees are charged at.  It is the fee curve's concavity that makes
\* this so: with an exponent above one it fails.
CapIsSafe ==
    (Quoted /\ walk.side = "entry" /\ IsFillable(walk)
        /\ walk.cost <= CapOf(Probability(walk.outcome)) * walk.shares)
    => Buys(walk)

\* Whatever the fee's exponent is, an order whose average price is within the cap
\* is bought if its shares are charged, on average, no more than the fee of the
\* cap: an order at one price within the cap of a WAIT passes the gate of a BUY
\* wherever a lower price costs no more in fees.
CapIsSafeAtItsFee ==
    LET cap == CapOf(Probability(walk.outcome))
    IN (Quoted /\ walk.side = "entry" /\ IsFillable(walk)
           /\ walk.cost <= cap * walk.shares /\ walk.fee <= FeeOf(cap) * walk.shares)
       => Buys(walk)

\* What was just bought is not sold on the same book for the same probability,
\* unless the book is crossed: the entry paid the asks and an edge below the
\* probability, the exit needs the bids an edge above it.
IsCrossed(b) == b.bids # <<>> /\ b.asks # <<>> /\ b.bids[1].price >= b.asks[1].price
NoRoundTrip ==
    observation.action = "sell" /\ before.action = "buy"
    => IsCrossed(input.book[observation.target])

\* The engine concludes nothing that DecisionObservation refuses, which would
\* fail the decision of the book: a BUY or SELL on stale data above all.
ObservationIsAccepted == at = "done" => IsAccepted(observation)

=============================================================================
