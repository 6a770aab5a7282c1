----------------------------- MODULE MarketBook -----------------------------
(***************************************************************************)
(* The book of one market: MarketBookReducer of markets/reducer.py between *)
(* the venue's messages and the hot book, with the baselines that          *)
(* markets/polymarket.py reads over REST.  When a subscription reconciles  *)
(* is the business of MarketSubscription; here it may do so at any time.   *)
(*                                                                         *)
(* A level is a side and a price; bids and asks are handled alike, so the  *)
(* sides are not told apart.  The venue is external: a stream of its       *)
(* begins with the book of each token and goes on with the changes, in     *)
(* their order; a message may come twice, or with a level that cannot be   *)
(* parsed.  A hash stands for the book it is the hash of and its stamp.    *)
(***************************************************************************)
EXTENDS Naturals, Sequences

CONSTANTS
    Levels,   \* the places of a token's book
    None,     \* no hash, no hot book
    MaxMoves, \* bound: changes at the venue
    MaxFaults \* bound: repeated and malformed messages, failed requests

\* The outcome tokens, in the order in which they are read
Tokens == {1, 2}

\* The size at a level: 0 is no level
Sizes == 0..1

VARIABLES
    venue,    \* the venue's book of each token
    stamped,  \* when it last changed
    clock,    \* the venue's, in milliseconds
    wire,     \* the messages that the reducer has not seen
    pc,       \* where the subscription stands
    rest,     \* what was read over REST so far
    books,    \* bids and asks of each _TokenState
    hash,     \* last_hash
    stamp,    \* last_timestamp
    sequence,
    hot,      \* the hot book and its sequence, or None
    doubted,  \* the tokens of which a whole book was refused as stale, or a
              \* malformed message ignored, since a whole book was taken
    moves, faults

provider == <<venue, stamped, clock, moves>>
reducer == <<books, hash, stamp, sequence>>
vars == <<provider, wire, pc, rest, reducer, hot, doubted, faults>>

Books == [Levels -> Sizes]

\* changed: the levels a message names; parsed: those before a malformed one
Messages ==
    [token : Tokens, whole : BOOLEAN, changed : SUBSET Levels, parsed : SUBSET Levels,
     book : Books, stamp : Nat]

TypeOK ==
    /\ venue \in [Tokens -> Books] /\ stamped \in [Tokens -> Nat]
    /\ clock \in Nat /\ moves \in 0..MaxMoves /\ faults \in 0..MaxFaults
    /\ wire \in Seq(Messages)
    /\ pc \in {"first", "second", "publish", "subscribe", "live"}
    /\ rest \in [Tokens -> [book : Books, stamp : Nat]]
    /\ books \in [Tokens -> Books]
    /\ hash \in [Tokens -> (Books \X Nat) \cup {None}]
    /\ stamp \in [Tokens -> Nat]
    /\ sequence \in Nat
    /\ hot \in [books : [Tokens -> Books], sequence : Nat] \cup {None}
    /\ doubted \subseteq Tokens

Empty == [l \in Levels |-> 0]

Init ==
    /\ venue = [t \in Tokens |-> Empty] /\ stamped = [t \in Tokens |-> 0]
    /\ clock = 0 /\ moves = 0 /\ faults = 0
    /\ wire = <<>>
    /\ pc = "first"
    /\ rest = [t \in Tokens |-> [book |-> Empty, stamp |-> 0]]
    /\ books = [t \in Tokens |-> Empty]
    /\ hash = [t \in Tokens |-> None] /\ stamp = [t \in Tokens |-> 0]
    /\ sequence = 0
    /\ hot = None
    /\ doubted = {}

Fault == faults < MaxFaults /\ faults' = faults + 1

HashOf(message) == <<message.book, message.stamp>>
\* None is the hash of no book
NoneIsNoHash == None \notin Books \X Nat
-----------------------------------------------------------------------------
(* The venue.                                                              *)

BookOf(t) ==
    [token |-> t, whole |-> TRUE, changed |-> Levels, parsed |-> Levels,
     book |-> venue[t], stamp |-> stamped[t]]

\* Several changes may fall into one millisecond
Move(t, book) ==
    LET changed == {l \in Levels : book[l] # venue[t][l]}
    IN  /\ changed # {}
        /\ moves < MaxMoves /\ moves' = moves + 1
        /\ clock' \in {clock, clock + 1}
        /\ venue' = [venue EXCEPT ![t] = book]
        /\ stamped' = [stamped EXCEPT ![t] = clock']
        /\ \E parsed \in {changed} \cup SUBSET changed :
            /\ IF parsed # changed THEN pc = "live" /\ Fault ELSE UNCHANGED faults
            /\ wire' = IF pc # "live" THEN wire
                       ELSE Append(wire, [token |-> t, whole |-> FALSE,
                                          changed |-> changed, parsed |-> parsed,
                                          book |-> book, stamp |-> clock'])
        /\ UNCHANGED <<pc, rest, reducer, hot, doubted>>

\* The message that is still to be read last comes twice
Repeat ==
    /\ wire # <<>>
    /\ Fault
    /\ wire' = Append(wire, wire[Len(wire)])
    /\ UNCHANGED <<provider, pc, rest, reducer, hot, doubted>>

\* A whole book with a malformed level
Garble(t) ==
    /\ pc = "live"
    /\ Fault
    /\ wire' = Append(wire, [BookOf(t) EXCEPT !.parsed = {}])
    /\ UNCHANGED <<provider, pc, rest, reducer, hot, doubted>>
-----------------------------------------------------------------------------
(* A reconcile: get_order_book, baseline_from_rest, a new stream.          *)

\* A gap, an overflow, a hot book that is gone; what is on the wire waits
Reconcile ==
    /\ pc = "live"
    /\ pc' = "first"
    /\ UNCHANGED <<provider, wire, rest, reducer, hot, doubted, faults>>

\* One request a token
ReadToken(t, here, after) ==
    /\ pc = here
    /\ rest' = [rest EXCEPT ![t] = [book |-> venue[t], stamp |-> stamped[t]]]
    /\ pc' = after
    /\ UNCHANGED <<provider, wire, reducer, hot, doubted, faults>>

\* A failure anywhere begins anew
RestFails ==
    /\ pc \in {"second", "publish", "subscribe"}
    /\ Fault
    /\ pc' = "first"
    /\ UNCHANGED <<provider, wire, rest, reducer, hot, doubted>>

\* provider_timestamp: one for both tokens
Later == IF rest[1].stamp > rest[2].stamp THEN rest[1].stamp ELSE rest[2].stamp

Baseline ==
    /\ pc = "publish"
    /\ books' = [t \in Tokens |-> rest[t].book]
    /\ hash' = [t \in Tokens |-> None]
    /\ stamp' = [t \in Tokens |-> Later]
    /\ sequence' = 0
    /\ hot' = [books |-> books', sequence |-> 0]
    /\ doubted' = {}
    /\ pc' = "subscribe"
    /\ UNCHANGED <<provider, wire, rest, faults>>

\* The queue is drained, then the stream is read
Subscribe ==
    /\ pc = "subscribe"
    /\ wire' = <<BookOf(1), BookOf(2)>>
    /\ pc' = "live"
    /\ UNCHANGED <<provider, rest, reducer, hot, doubted, faults>>
-----------------------------------------------------------------------------
(* apply_event.                                                            *)

Duplicate(message) == hash[message.token] = HashOf(message)

\* Faulty variant: what happens in the same millisecond is stale
StaleWhenEqual(message) == message.stamp <= stamp[message.token]

Stale(message) == message.stamp < stamp[message.token]

Rejects(message) == Duplicate(message) \/ Stale(message)

\* A change sets its levels, and deletes those of size zero; a whole book names
\* all there are
Applied(message) ==
    [l \in Levels |-> IF l \in message.parsed THEN message.book[l]
                      ELSE books[message.token][l]]

Malformed(message) == message.parsed # message.changed

Reject(message) ==
    /\ Rejects(message)
    /\ doubted' = IF message.whole /\ ~Duplicate(message)
                  THEN doubted \cup {message.token} ELSE doubted
    /\ UNCHANGED <<reducer, hot>>

\* The levels before the malformed one have been set; nobody is told
Ignore(message) ==
    /\ ~Rejects(message) /\ Malformed(message)
    /\ books' = IF message.whole THEN books
                ELSE [books EXCEPT ![message.token] = Applied(message)]
    /\ doubted' = doubted \cup {message.token}
    /\ UNCHANGED <<hash, stamp, sequence, hot>>

\* A change that changes nothing is not published
Take(message) ==
    LET t == message.token
    IN  /\ ~Rejects(message) /\ ~Malformed(message)
        /\ books' = [books EXCEPT ![t] = Applied(message)]
        /\ hash' = [hash EXCEPT ![t] = HashOf(message)]
        /\ stamp' = [stamp EXCEPT ![t] = message.stamp]
        /\ doubted' = IF message.whole THEN doubted \ {t} ELSE doubted
        /\ IF message.whole \/ books' # books
           THEN /\ sequence' = sequence + 1
                /\ hot' = [books |-> books', sequence |-> sequence']
           ELSE UNCHANGED <<sequence, hot>>

ApplyEvent ==
    /\ pc = "live" /\ wire # <<>>
    /\ wire' = Tail(wire)
    /\ Reject(Head(wire)) \/ Ignore(Head(wire)) \/ Take(Head(wire))
    /\ UNCHANGED <<provider, pc, rest, faults>>
-----------------------------------------------------------------------------
Next ==
    \/ \E t \in Tokens :
        \/ Garble(t)
        \/ \E book \in Books : Move(t, book)
    \/ Repeat \/ Reconcile \/ RestFails
    \/ ReadToken(1, "first", "second") \/ ReadToken(2, "second", "publish")
    \/ Baseline \/ Subscribe \/ ApplyEvent

Spec == Init /\ [][Next]_vars
-----------------------------------------------------------------------------
\* With nothing of a token on the wire, the hot book of a live stream has what
\* the venue has, whatever happened between the reads of a baseline and its
\* stream, in one millisecond or twice; unless a whole book of the token was
\* refused because the other token's baseline was later (get_order_book stamps
\* both with the later one), or a malformed message was ignored.
HotIsTheVenues ==
    pc = "live" =>
        \A t \in Tokens \ doubted :
            (\A i \in DOMAIN wire : wire[i].token # t) => hot.books[t] = venue[t]
=============================================================================
