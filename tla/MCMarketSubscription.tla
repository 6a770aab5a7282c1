------------------------ MODULE MCMarketSubscription ------------------------
(***************************************************************************)
(* The instance for TLC of the two feeds, a market's stream and a match's, *)
(* and of the cycle in which the markets take turns.  `scope' says which a *)
(* behaviour is about; they share no state.                                *)
(*                                                                         *)
(* MarketSubscription has the smallest queue that can hold a full book and *)
(* a change behind it.  LiveReducer has three points, each absent or with  *)
(* one of two contents, and payloads in which other fields are missing, or *)
(* come back, or the match ends.  MarketCycle has three markets that share *)
(* two subscriptions.                                                      *)
(***************************************************************************)
EXTENDS MarketSubscription

CONSTANTS Identities, Contents, Payloads, MaxVersion, None, NoScore, Markets, Max

VARIABLES scope, snapshot, rows, history, state, derived, payload, rejected, ghosts,
          wanted, open, parked, resolved, backoff, phase, left, origin, active, late,
          startCursor, repairCursor, startedSince, repairedSince

Reducer == INSTANCE LiveReducer
Cycle == INSTANCE MarketCycle

match == <<snapshot, rows, history, state, derived, payload, rejected, ghosts>>

\* The supplier lists the points it reports in the order of the match.
Listed(contents) ==
    SelectSeq([i \in Identities |-> <<i, contents[i]>>], LAMBDA x : x[2] # "absent")

\* The last point always has the same contents.
PointPayloads ==
    {[points |-> Listed(c), status |-> "LIVE", games |-> 0, name |-> "full",
      statistic |-> None] :
        c \in {x \in [Identities -> {"absent", "ace", "fault"}] : x[3] # "fault"}}
SparsePayloads ==
    {[points |-> <<<<1, "ace">>>>, status |-> d[1], games |-> g, name |-> d[2],
      statistic |-> d[3]] :
        g \in {NoScore, None, 1},
        d \in {<<"LIVE", "full", 1>>, <<"FINISHED", "initial", None>>}}
MCPayloads == PointPayloads \cup SparsePayloads

\* What the proofs assume of the constants holds here.
ASSUME ConstantsAreSound == Reducer!PayloadsAreSupplied /\ Cycle!CycleAssumption

NoMatch ==
    /\ snapshot = None /\ rows = None /\ history = None /\ state = None
    /\ derived = None /\ payload = None /\ rejected = None /\ ghosts = None

cycle == <<wanted, open, parked, resolved, backoff, phase, left, origin, active, late,
           startCursor, repairCursor, startedSince, repairedSince>>

NoCycle ==
    /\ wanted = None /\ open = None /\ parked = None /\ resolved = None /\ backoff = None
    /\ phase = None /\ left = None /\ origin = None /\ active = None /\ late = None
    /\ startCursor = None /\ repairCursor = None
    /\ startedSince = None /\ repairedSince = None

MCInit ==
    /\ Init
    /\ \/ scope = "market" /\ NoMatch /\ NoCycle
       \/ scope = "match" /\ Reducer!Init /\ NoCycle
       \/ scope = "cycle" /\ NoMatch /\ Cycle!Init
MCNext ==
    \/ scope = "market" /\ Next /\ UNCHANGED <<scope, match, cycle>>
    \/ scope = "match" /\ Reducer!Next /\ UNCHANGED <<scope, vars, cycle>>
    \/ scope = "cycle" /\ Cycle!Next /\ UNCHANGED <<scope, vars, match>>

\* The fairness is that of MarketSubscription!FairSpec.
Market(A) == scope = "market" /\ A
MCFairness ==
    /\ WF_vars(Market(Worker))
    /\ []<>(scope # "market") \/ []<><<BeginCycle>>_vars
    /\ WF_vars(Market(RetryFallsDue))
    /\ SF_vars(Market(Rest)) /\ SF_vars(Market(Publish))

MCSpec == MCInit /\ [][MCNext]_<<scope, vars, match, cycle>> /\ MCFairness

\* The points of a snapshot are numbered 1..n under different ids, whatever is
\* inserted, corrected and dropped: LiveReducer!PointsAreNumbered.
PointsAreNumbered == scope = "match" => Reducer!PointsAreNumbered
\* A reload finds every point under its sequence: LiveReducer!RowsHoldTheSnapshot.
RowsHoldTheSnapshot == scope = "match" => Reducer!RowsHoldTheSnapshot
\* A corrected point has a revision row: LiveReducer!CorrectionIsARevision.
CorrectionIsARevision == [][scope = "match" => Reducer!Revises]_match
\* While a market waits for its turn, no other has two: MarketCycle!TurnsAreTaken.
TurnsAreTaken == [][scope = "cycle" => Cycle!TakesTurns]_cycle
=============================================================================
