-------------------------- MODULE MCDecisionWorker --------------------------
(***************************************************************************)
(* The instance for TLC of the decisions and of what runs them: worker,    *)
(* engine and launcher.  `scope' says which module a behaviour is about;   *)
(* they share no state.                                                    *)
(*                                                                         *)
(* DecisionWorker has a queue of two that three books overflow, and enough *)
(* versions for a decision before and after a failed one and a restart.    *)
(* DecisionEngine has books of up to two asks and two bids, crossed or     *)
(* not, under several probabilities, with and without a position, and      *)
(* every way a gate fails.                                                 *)
(* RuntimeLauncher has two overlapping invocations, a child for each of    *)
(* the three roles, one container, the launcher's or the user's, and one   *)
(* fault.                                                                  *)
(***************************************************************************)
EXTENDS DecisionWorker, TLC

CONSTANTS None, Inputs, Stake, One, FeeRate, FeeScale, Exponent, MinOrder,
          BuyEdge, BuyGap, SellEdge,
          Launchers, Services, Roles, MaxSpawns, MaxIds, MaxFaults, OldHead, NewHead, NoHead

VARIABLES scope,
          input, position, at, walk, observation, before,
          spawned, role, pid, daemon, lock, row, hurt, running, ids, ours, schema, marker,
          file, phase, command, copy, found, fresh, left, kept, lossy, faults

Engine == INSTANCE DecisionEngine
Launcher == INSTANCE RuntimeLauncher WITH at <- phase, before <- found

\* What the proofs assume of the constants holds here.
ASSUME ConstantsAreSound ==
    /\ Engine!EngineLimits /\ Engine!RoundingIsSmall /\ Engine!NoneIsNoValue
    /\ Launcher!LauncherLimits

MCRoles == <<"runtime", "api", "frontend">>
Symmetry == Permutations(Launchers)

Ladders(prices, sizes) ==
    {<<>>} \cup {<<[price |-> p, size |-> z]>> : p \in prices, z \in sizes}
    \cup {<<[price |-> p, size |-> y], [price |-> q, size |-> z]>> :
             p \in prices, q \in prices, y \in sizes, z \in sizes}
MCAsks == {l \in Ladders({4, 5, 7}, {7, 20, 33}) : Len(l) = 2 => l[1].price < l[2].price}
MCBids == {l \in Ladders({3, 6, 8}, {7, 20}) : Len(l) = 2 => l[1].price > l[2].price}
BookOf(asks, bids) ==
    [first |-> [asks |-> asks, bids |-> bids], second |-> [asks |-> asks, bids |-> <<>>],
     stale |-> FALSE]
Fine == [mapped |-> TRUE, rules |-> "current", policy |-> "loaded", metadata |-> TRUE,
         prediction |-> [kind |-> "available", first |-> 8], stale |-> FALSE, gap |-> FALSE,
         book |-> BookOf(<<[price |-> 5, size |-> 33]>>, <<[price |-> 3, size |-> 33]>>),
         position |-> None]
Positions == {[outcome |-> o, shares |-> 20, cost |-> 100] : o \in {"first", "second"}}

MCInputs ==
    {[Fine EXCEPT !.book = BookOf(a, b), !.prediction.first = m] :
        a \in MCAsks, b \in MCBids, m \in {3, 6, 8, 9}}
    \cup {[Fine EXCEPT !.book = BookOf(<<>>, b), !.prediction.first = m, !.position = p] :
        b \in MCBids, m \in {3, 5}, p \in Positions}
    \cup {[mapped |-> mapped, rules |-> rules, policy |-> policy, metadata |-> metadata,
           prediction |-> [kind |-> kind, first |-> m], stale |-> stale, gap |-> gapped,
           book |-> book, position |-> held] :
        mapped \in BOOLEAN, rules \in {"current", "changed", "unavailable"},
        policy \in {"loaded", "POLICY_UNREADABLE"}, metadata \in BOOLEAN,
        stale \in BOOLEAN, gapped \in BOOLEAN,
        kind \in {"available", "unpromoted", "out_of_domain", "unavailable"}, m \in {5, 8},
        book \in {None, Fine.book, [Fine.book EXCEPT !.stale = TRUE]},
        held \in {None} \cup Positions}

NoEngine ==
    /\ input = None /\ position = None /\ at = None
    /\ walk = None /\ observation = None /\ before = None

NoLauncher ==
    /\ spawned = None /\ role = None /\ pid = None /\ daemon = None /\ lock = None
    /\ row = None /\ hurt = None /\ running = None /\ ids = None /\ ours = None
    /\ schema = None /\ marker = None /\ file = None /\ phase = None /\ command = None
    /\ copy = None /\ found = None /\ fresh = None /\ left = None /\ kept = None
    /\ lossy = None /\ faults = None

engine == <<input, position, at, walk, observation, before>>
launcher == <<spawned, role, pid, daemon, lock, row, hurt, running, ids, ours, schema, marker,
              file, phase, command, copy, found, fresh, left, kept, lossy, faults>>

MCInit ==
    /\ Init
    /\ \/ scope = "worker" /\ NoEngine /\ NoLauncher
       \/ scope = "engine" /\ Engine!Init /\ NoLauncher
       \/ scope = "launcher" /\ NoEngine /\ Launcher!Init
MCNext ==
    \/ scope = "worker" /\ Next /\ UNCHANGED <<engine, launcher, scope>>
    \/ scope = "engine" /\ Engine!Next /\ UNCHANGED <<vars, launcher, scope>>
    \/ scope = "launcher" /\ Launcher!Next /\ UNCHANGED <<vars, engine, scope>>
MCSpec == MCInit /\ [][MCNext]_<<vars, engine, launcher, scope>>

\* The cap shown with a WAIT is no looser than the gate of a BUY, at the fee
\* exponent of one: DecisionEngine!CapIsSafe.
CapIsSafe == scope = "engine" => Engine!CapIsSafe
\* No sale of what was just bought unless the book is crossed:
\* DecisionEngine!NoRoundTrip.
NoRoundTrip == scope = "engine" => Engine!NoRoundTrip
\* No signal reaches a process that is not a child of the launcher:
\* RuntimeLauncher!ForeignIsSpared.
ForeignIsSpared == scope = "launcher" => Launcher!ForeignIsSpared
\* up goes on only after its own runtime had the lock:
\* RuntimeLauncher!UpMeansReady.
UpMeansReady == scope = "launcher" => Launcher!UpMeansReady
=============================================================================
