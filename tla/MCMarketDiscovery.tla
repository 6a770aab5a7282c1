------------------------- MODULE MCMarketDiscovery -------------------------
(***************************************************************************)
(* The instance for TLC of a market that is found, of its book and of the  *)
(* quotes the pages show.  `scope' says which a behaviour is about; they   *)
(* share no state.                                                         *)
(*                                                                         *)
(* MarketDiscovery: two markets that both fit the one match, and two rules *)
(* texts.  MarketBook: two levels a token, and changes in the same         *)
(* millisecond and in later ones.  MarketQuotes: a market that feed and     *)
(* mirror write and one they do not; a round reaches one of the two.       *)
(***************************************************************************)
EXTENDS MarketDiscovery, TLC

CONSTANTS Levels, MaxMoves,
          Quoted, Order, Routed, Linked, Cap, RealtimeFresh, SnapshotFresh, MaxTime

VARIABLES scope, venue, stamped, clock, wire, pc, rest, books, hash, stamp, sequence,
          hot, doubted, moves, troubles,
          time, open, quote, offset, until, at, now, backoff, batches, beyond, fetched,
          unwell, feed, side, dirty, mishaps

Book == INSTANCE MarketBook WITH faults <- troubles
Quotes == INSTANCE MarketQuotes
              WITH Markets <- Quoted, clock <- time, listed <- open, row <- quote,
                   todo <- batches, failed <- unwell, faults <- mishaps

\* What the proofs assume of the constants holds here.
ASSUME ConstantsAreSound == Book!NoneIsNoHash /\ Quotes!NoneIsNoQuote

book == <<venue, stamped, clock, wire, pc, rest, books, hash, stamp, sequence, hot,
          doubted, moves, troubles>>
quotes == <<time, open, quote, offset, until, at, now, backoff, batches, beyond, fetched,
            unwell, feed, side, dirty, mishaps>>

BothFit == [m \in Markets |-> Matches]
MCOrder == <<1, 2>>
Symmetry == Permutations(Markets) \cup Permutations(Texts)

NoBook ==
    /\ venue = None /\ stamped = None /\ clock = None /\ wire = None /\ pc = None
    /\ rest = None /\ books = None /\ hash = None /\ stamp = None /\ sequence = None
    /\ hot = None /\ doubted = None /\ moves = None /\ troubles = None

\* What the texts are matters to the mapping alone.
OneText == \A m, n \in Markets : text[m] = text[n]

MCInit ==
    /\ Init /\ Quotes!Init
    /\ \/ scope = "mapping" /\ NoBook
       \/ scope = "book" /\ Book!Init /\ OneText
       \/ scope = "quotes" /\ NoBook /\ OneText
MCNext ==
    \/ scope = "mapping" /\ Next /\ UNCHANGED <<scope, book, quotes>>
    \/ scope = "book" /\ Book!Next /\ UNCHANGED <<scope, vars, quotes>>
    \/ scope = "quotes" /\ Quotes!Next /\ UNCHANGED <<scope, vars, book>>

MCSpec == MCInit /\ [][MCNext]_<<scope, vars, book, quotes>>

\* The hot book is the venue's, unless a message was refused or ignored:
\* MarketBook!HotIsTheVenues.
HotIsTheVenues == scope = "book" => Book!HotIsTheVenues
\* What a round or the feed wrote and a page shows without the label stale was
\* read within the time of its lane: MarketQuotes!ShownIsFresh.
ShownIsFresh == Quotes!ShownIsFresh
\* No lane takes a row back to an older quote: MarketQuotes!RowGoesForward.
RowGoesForward == Quotes!RowGoesForward
=============================================================================
