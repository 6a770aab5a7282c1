---------------------------- MODULE MarketCycle ----------------------------
(***************************************************************************)
(* How the markets in demand share a cycle of backend/app/markets/worker.py*)
(* (reconcile_demand_once): first a turn for each that is not subscribed,  *)
(* as long as there is capacity, then one for each subscription, both      *)
(* beginning after the last market that had its turn, both until the       *)
(* deadline of the cycle.  What a turn does to its market is in            *)
(* MarketSubscription; here it succeeds, fails or finds the market closed. *)
(*                                                                         *)
(* A market is a number, in the order of the ids.  Streams end, retries    *)
(* fall due and the time runs out between any two steps.                   *)
(***************************************************************************)
EXTENDS Naturals, FiniteSets

CONSTANTS
    Markets,  \* the markets, from 1
    Max       \* max_subscriptions

CycleAssumption == Markets \subseteq Nat \ {0} /\ IsFiniteSet(Markets) /\ Max \in Nat

VARIABLES
    wanted,       \* the demand of the cycle
    open,         \* the subscriptions that are not closed
    parked,       \* those whose stream the provider has closed
    resolved,     \* _retired
    backoff,      \* the markets whose retry is not due
    phase,        \* where the cycle stands
    left,         \* the markets of its loop that are still to come
    origin,       \* the cursor the loop began after
    active,       \* the subscriptions counted against max_subscriptions
    late,         \* the deadline of the cycle is over
    startCursor,  \* _start_cursor and _repair_cursor, 0 for None
    repairCursor,
    startedSince, \* history: for a market that waits for a turn, the others
    repairedSince \* that had one since

subs == <<open, parked>>
loop == <<phase, left, origin>>
cursors == <<startCursor, repairCursor>>
since == <<startedSince, repairedSince>>
vars == <<wanted, subs, resolved, backoff, loop, active, late, cursors, since>>

Subscribed == open \cup parked
StartWaiting == wanted \ (Subscribed \cup resolved \cup backoff)
RepairWaiting == open \ backoff

TypeOK ==
    /\ wanted \subseteq Markets /\ left \subseteq Markets
    /\ open \subseteq wanted /\ parked \subseteq wanted /\ open \cap parked = {}
    /\ resolved \subseteq wanted \ Subscribed /\ backoff \subseteq wanted
    /\ phase \in {"idle", "start", "starting", "repair", "repairing"}
    /\ origin \in Markets \cup {0} /\ active \in Nat /\ late \in BOOLEAN
    /\ startCursor \in Markets \cup {0} /\ repairCursor \in Markets \cup {0}
    /\ startedSince \in [Markets -> SUBSET Markets]
    /\ repairedSince \in [Markets -> SUBSET Markets]

Init ==
    /\ wanted = {} /\ open = {} /\ parked = {} /\ resolved = {} /\ backoff = {}
    /\ phase = "idle" /\ left = {} /\ origin = 0 /\ active = 0 /\ late = FALSE
    /\ startCursor = 0 /\ repairCursor = 0
    /\ startedSince = [b \in Markets |-> {}] /\ repairedSince = [b \in Markets |-> {}]

-----------------------------------------------------------------------------
(* Turns *)

\* Faulty variant: every loop begins with the first market.
Sorted(c, x, y) == x < y
\* _rotated: from the first market after c up, then from the smallest to c
Precedes(c, x, y) == IF (x > c) <=> (y > c) THEN x < y ELSE x > c

IsNext(m) == m \in left /\ \A y \in left \ {m} : Precedes(origin, m, y)

\* What those that wait have seen, after a turn of the markets in taken.
Seen(before, waiting, taken) ==
    [b \in Markets |-> IF b \in waiting \ taken THEN before[b] \cup taken ELSE {}]
Turns(started, repaired) ==
    /\ startedSince' = Seen(startedSince, StartWaiting', started)
    /\ repairedSince' = Seen(repairedSince, RepairWaiting', repaired)

-----------------------------------------------------------------------------
(* The world around the worker *)

FeedCloses ==
    /\ \E m \in open : open' = open \ {m} /\ parked' = parked \cup {m}
    /\ UNCHANGED <<wanted, resolved, backoff, loop, active, late, cursors>>
    /\ Turns({}, {})

RetryFallsDue ==
    /\ \E m \in backoff : backoff' = backoff \ {m}
    /\ UNCHANGED <<wanted, subs, resolved, loop, active, late, cursors>>
    /\ Turns({}, {})

TimeIsUp ==
    /\ phase # "idle" /\ ~late /\ late' = TRUE
    /\ UNCHANGED <<wanted, subs, resolved, backoff, loop, active, cursors>>
    /\ Turns({}, {})

-----------------------------------------------------------------------------
(* The cycle *)

\* What is no longer in demand is closed and forgotten.
BeginCycle ==
    /\ phase = "idle"
    /\ \E demand \in SUBSET Markets :
         /\ wanted' = demand /\ left' = demand
         /\ open' = open \cap demand /\ parked' = parked \cap demand
         /\ resolved' = resolved \cap demand /\ backoff' = backoff \cap demand
    /\ active' = Cardinality(open')
    /\ phase' = "start" /\ origin' = startCursor
    /\ late' = FALSE
    /\ UNCHANGED cursors
    /\ Turns({}, {})

MayStart(m) == m \in StartWaiting /\ active < Max

PassStart ==
    /\ phase = "start"
    /\ \E m \in left : IsNext(m) /\ ~MayStart(m) /\ left' = left \ {m}
    /\ UNCHANGED <<wanted, subs, resolved, backoff, phase, origin, active, late, cursors>>
    /\ Turns({}, {})

StartTurn(m) ==
    /\ phase = "start" /\ IsNext(m) /\ MayStart(m) /\ ~late
    /\ phase' = "starting" /\ left' = left \ {m} /\ startCursor' = m
    /\ UNCHANGED <<wanted, subs, resolved, backoff, origin, active, late, repairCursor>>
    /\ Turns({m}, {})

\* The report of a failure or of a closed market may fail itself, and the cycle
\* with it.
StartEnds ==
    /\ phase = "starting"
    /\ \/ /\ open' = open \cup {startCursor} /\ active' = active + 1 /\ phase' = "start"
          /\ UNCHANGED <<resolved, backoff>>
       \/ /\ backoff' = backoff \cup {startCursor} /\ phase' \in {"start", "idle"}
          /\ UNCHANGED <<open, resolved, active>>
       \/ /\ resolved' = resolved \cup {startCursor} /\ phase' \in {"start", "idle"}
          /\ UNCHANGED <<open, backoff, active>>
    /\ UNCHANGED <<wanted, parked, left, origin, late, cursors>>
    /\ Turns({}, {})

StopStarts ==
    /\ phase = "start"
    /\ \/ left = {}
       \/ late /\ \E m \in left : IsNext(m) /\ MayStart(m)
    /\ phase' = "repair" /\ left' = Subscribed /\ origin' = repairCursor
    /\ UNCHANGED <<wanted, subs, resolved, backoff, active, late, cursors>>
    /\ Turns({}, {})

PassRepair ==
    /\ phase = "repair"
    /\ \E m \in left : IsNext(m) /\ m \notin RepairWaiting /\ left' = left \ {m}
    /\ UNCHANGED <<wanted, subs, resolved, backoff, phase, origin, active, late, cursors>>
    /\ Turns({}, {})

RepairTurn(m) ==
    /\ phase = "repair" /\ IsNext(m) /\ m \in RepairWaiting /\ ~late
    /\ phase' = "repairing" /\ left' = left \ {m} /\ repairCursor' = m
    /\ UNCHANGED <<wanted, subs, resolved, backoff, origin, active, late, startCursor>>
    /\ Turns({}, {m})

\* A subscription that fails is "reconnecting", even when its stream was closed
\* meanwhile; one that finds its market closed goes, and may fail after that.
RepairEnds ==
    /\ phase = "repairing"
    /\ \/ phase' = "repair" /\ UNCHANGED <<subs, resolved, backoff>>
       \/ /\ open' = open \cup ({repairCursor} \cap Subscribed)
          /\ parked' = parked \ {repairCursor}
          /\ backoff' = backoff \cup {repairCursor} /\ phase' \in {"repair", "idle"}
          /\ UNCHANGED resolved
       \/ /\ open' = open \ {repairCursor} /\ parked' = parked \ {repairCursor}
          /\ resolved' = resolved \cup {repairCursor}
          /\ backoff' \in {backoff, backoff \cup {repairCursor}}
          /\ phase' \in {"repair", "idle"}
    /\ UNCHANGED <<wanted, left, origin, active, late, cursors>>
    /\ Turns({}, {})

EndCycle ==
    /\ phase = "repair"
    /\ \/ left = {}
       \/ late /\ \E m \in left : IsNext(m) /\ m \in RepairWaiting
    /\ phase' = "idle"
    /\ UNCHANGED <<wanted, subs, resolved, backoff, left, origin, active, late, cursors>>
    /\ Turns({}, {})

Next ==
    \/ BeginCycle \/ PassStart \/ StartEnds \/ StopStarts \/ PassRepair \/ RepairEnds \/ EndCycle
    \/ \E m \in Markets : StartTurn(m) \/ RepairTurn(m)
    \/ FeedCloses \/ RetryFallsDue \/ TimeIsUp

Spec == Init /\ [][Next]_vars

-----------------------------------------------------------------------------
(* Properties *)

\* No market starves: while one waits for its turn, no other has two, however
\* often others fail, the time runs out or the capacity is used up.
TakesTurns ==
    \A m \in Markets :
        /\ StartTurn(m) => \A b \in StartWaiting : m \notin startedSince[b]
        /\ RepairTurn(m) => \A b \in RepairWaiting : m \notin repairedSince[b]
TurnsAreTaken == [][TakesTurns]_vars

\* There are never more open streams than max_subscriptions, although one that
\* was closed may come back in its own turn.
OpenFits == Cardinality(open) <= Max

=============================================================================
