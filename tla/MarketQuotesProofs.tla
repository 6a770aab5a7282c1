------------------------- MODULE MarketQuotesProofs --------------------------
(***************************************************************************)
(* Theorems about MarketQuotes for every set of markets, every cap and any *)
(* lifetimes of quotes, without the bounds of the run.                     *)
(*                                                                         *)
(* A round and the feed may label a quote older than what it shows, never  *)
(* younger than its oldest part.                                           *)
(***************************************************************************)
EXTENDS MCMarketDiscovery, TLAPS

IsQuote(record) ==
    /\ record = [source |-> record.source, asOf |-> record.asOf, read |-> record.read]
    /\ record.source \in {"snapshot", "realtime"}
    /\ record.asOf \in Nat
    /\ record.read # None => record.read \in Nat /\ record.asOf <= record.read

RowsHoldQuotes ==
    /\ quote = [m \in Quoted |-> quote[m]]
    /\ \A m \in Quoted : quote[m] # None => IsQuote(quote[m])

\* The frames of a side
SidesAreTimed ==
    /\ side = [m \in Quoted |-> side[m]]
    /\ \A m \in Quoted : /\ side[m] = [o \in Quotes!Outcomes |-> side[m][o]]
                         /\ \A o \in Quotes!Outcomes : side[m][o] # None => side[m][o] \in Nat

\* A round reads its books after it began.
RoundsAreTimed ==
    /\ at = [r \in Quotes!Rounds |-> at[r]] /\ now = [r \in Quotes!Rounds |-> now[r]]
    /\ fetched = [r \in Quotes!Rounds |-> fetched[r]]
    /\ \A r \in Quotes!Rounds :
           /\ now[r] \in Nat /\ now[r] <= time
           /\ at[r] = "write" => fetched[r] \in Nat /\ now[r] <= fetched[r]

QuotesInv ==
    time \in Nat /\ RowsHoldQuotes /\ SidesAreTimed /\ RoundsAreTimed

LEMMA QuotesStart == ASSUME Quotes!NoneIsNoQuote, Quotes!Init PROVE QuotesInv
BY DEF Quotes!Init, Quotes!NoneIsNoQuote, QuotesInv, RowsHoldQuotes, SidesAreTimed,
       RoundsAreTimed, Quotes!NoFrames

\* What a lane writes
LEMMA QuoteIsWritten ==
    ASSUME Quotes!NoneIsNoQuote, RowsHoldQuotes, NEW m, NEW record, Quotes!Upsert(m, record),
           IsQuote(record)
    PROVE  RowsHoldQuotes' /\ Quotes!GoesForward
<1>1. /\ quote' = [quote EXCEPT ![m] = IF Quotes!Supersedes(m, record) THEN record ELSE @]
      /\ quote' = [x \in Quoted |-> quote'[x]]
  BY DEF Quotes!Upsert, RowsHoldQuotes
<1>2. \A x \in Quoted :
          quote'[x] = IF x = m /\ Quotes!Supersedes(m, record) THEN record ELSE quote[x]
  BY <1>1 DEF RowsHoldQuotes
<1>3. RowsHoldQuotes'
  BY <1>1, <1>2 DEF RowsHoldQuotes, IsQuote
<1>4. ASSUME NEW x \in Quoted, quote[x] # None
      PROVE  /\ quote'[x] # None
             /\ \/ quote'[x].asOf > quote[x].asOf
                \/ /\ quote'[x].asOf = quote[x].asOf
                   /\ Quotes!Rank(quote'[x]) >= Quotes!Rank(quote[x])
  <2>1. record # None
    BY DEF IsQuote, Quotes!NoneIsNoQuote
  <2>2. IsQuote(quote[x]) /\ Quotes!Rank(quote[x]) >= Quotes!Rank(quote[x])
    BY <1>4 DEF RowsHoldQuotes, Quotes!Rank
  <2>3. CASE x = m /\ Quotes!Supersedes(m, record)
    BY <1>2, <1>4, <2>1, <2>3 DEF Quotes!Supersedes
  <2>4. CASE ~(x = m /\ Quotes!Supersedes(m, record))
    BY <1>2, <1>4, <2>2, <2>4
  <2> QED BY <2>3, <2>4
<1> QED BY <1>3, <1>4 DEF Quotes!GoesForward

\* Each step, on the rows and on the rest
LEMMA QuotesStep ==
    ASSUME Quotes!NoneIsNoQuote, QuotesInv, [Quotes!Next]_(Quotes!vars)
    PROVE  QuotesInv' /\ [Quotes!GoesForward]_(Quotes!vars)
<1> USE DEF Quotes!shared, Quotes!round, Quotes!stream
<1>1. ASSUME UNCHANGED quote, RowsHoldQuotes
      PROVE  RowsHoldQuotes' /\ Quotes!GoesForward
  <2>1. \A m \in Quoted :
            quote[m] # None => /\ IsQuote(quote[m])
                               /\ Quotes!Rank(quote[m]) >= Quotes!Rank(quote[m])
    BY <1>1 DEF RowsHoldQuotes, Quotes!Rank
  <2> QED BY <1>1, <2>1 DEF RowsHoldQuotes, Quotes!GoesForward, IsQuote
<1>2. ASSUME NEW r \in Quotes!Rounds, Quotes!StartRound(r)
      PROVE  QuotesInv' /\ Quotes!GoesForward
  <2>1. /\ SidesAreTimed' /\ time' \in Nat /\ UNCHANGED quote
    BY <1>2 DEF Quotes!StartRound, QuotesInv, SidesAreTimed
  <2>2. RoundsAreTimed'
    <3>1. /\ at' = [at EXCEPT ![r] = "select"] /\ now' = [now EXCEPT ![r] = time]
          /\ time \in Nat /\ UNCHANGED <<time, fetched>>
      BY <1>2 DEF Quotes!StartRound, QuotesInv
    <3>2. time <= time /\ time' = time
      BY <3>1
    <3>3. \A x \in Quotes!Rounds : /\ now'[x] \in {time, now[x]}
                                    /\ at'[x] = "write" => at[x] = "write" /\ now'[x] = now[x]
      BY <3>1 DEF QuotesInv, RoundsAreTimed
    <3>4. at' = [x \in Quotes!Rounds |-> at'[x]] /\ now' = [x \in Quotes!Rounds |-> now'[x]]
      BY <3>1 DEF QuotesInv, RoundsAreTimed
    <3> QED BY <3>1, <3>2, <3>3, <3>4 DEF QuotesInv, RoundsAreTimed
  <2> QED BY <1>1, <2>1, <2>2 DEF QuotesInv
<1>3. ASSUME NEW r \in Quotes!Rounds, Quotes!SelectMarkets(r)
      PROVE  QuotesInv' /\ Quotes!GoesForward
  BY <1>1, <1>3 DEF Quotes!SelectMarkets, QuotesInv, SidesAreTimed, RoundsAreTimed
<1>4. ASSUME NEW r \in Quotes!Rounds, Quotes!MarkLimited(r)
      PROVE  QuotesInv' /\ Quotes!GoesForward
  <2>1. /\ SidesAreTimed' /\ RoundsAreTimed' /\ time' \in Nat
    BY <1>4 DEF Quotes!MarkLimited, QuotesInv, SidesAreTimed, RoundsAreTimed
  <2>2. /\ quote' = [m \in Quoted |-> quote'[m]] /\ now[r] \in Nat
        /\ \A m \in Quoted : \/ quote'[m] = quote[m]
                              \/ /\ quote[m] = None
                                 /\ quote'[m] = [source |-> "snapshot", asOf |-> now[r],
                                                read |-> now[r]]
    BY <1>4 DEF Quotes!MarkLimited, Quotes!Marked, QuotesInv, RoundsAreTimed
  <2>3. RowsHoldQuotes'
    BY <2>2 DEF QuotesInv, RowsHoldQuotes, IsQuote
  <2>4. Quotes!GoesForward
    <3>1. \A m \in Quoted :
              quote[m] # None => /\ IsQuote(quote[m])
                                 /\ Quotes!Rank(quote[m]) >= Quotes!Rank(quote[m])
      BY DEF QuotesInv, RowsHoldQuotes, Quotes!Rank
    <3> QED BY <2>2, <3>1 DEF Quotes!GoesForward, IsQuote
  <2> QED BY <2>1, <2>3, <2>4 DEF QuotesInv
<1>5. ASSUME NEW r \in Quotes!Rounds, Quotes!FetchBatch(r)
      PROVE  QuotesInv' /\ Quotes!GoesForward
  BY <1>1, <1>5 DEF Quotes!FetchBatch, QuotesInv, SidesAreTimed, RoundsAreTimed
<1>6. ASSUME NEW r \in Quotes!Rounds, Quotes!WriteQuote(r)
      PROVE  QuotesInv' /\ Quotes!GoesForward
  <2>1. /\ SidesAreTimed' /\ RoundsAreTimed' /\ time' \in Nat
    BY <1>6 DEF Quotes!WriteQuote, QuotesInv, SidesAreTimed, RoundsAreTimed
  <2>2. now[r] \in Nat /\ fetched[r] \in Nat /\ now[r] <= fetched[r]
    BY <1>6 DEF Quotes!WriteQuote, QuotesInv, RoundsAreTimed
  <2>3. Quotes!Upsert(Head(batches[r]),
                      [source |-> "snapshot", asOf |-> now[r], read |-> fetched[r]])
    BY <1>6 DEF Quotes!WriteQuote, Quotes!AsOfRound
  <2>4. RowsHoldQuotes' /\ Quotes!GoesForward
    BY <2>2, <2>3, QuoteIsWritten DEF IsQuote, QuotesInv
  <2> QED BY <2>1, <2>4 DEF QuotesInv
<1>7. ASSUME NEW r \in Quotes!Rounds, Quotes!EndRound(r) \/ Quotes!RoundFails(r)
      PROVE  QuotesInv' /\ Quotes!GoesForward
  <2>1. /\ at' = [at EXCEPT ![r] = "idle"] /\ now' = [now EXCEPT ![r] = 0]
        /\ fetched' = [fetched EXCEPT ![r] = None] /\ UNCHANGED <<time, quote>>
    BY <1>7 DEF Quotes!EndRound, Quotes!RoundFails, Quotes!RoundIsOver
  <2>2. RoundsAreTimed' /\ time' \in Nat
    <3>1. /\ RoundsAreTimed /\ time \in Nat /\ 0 <= time /\ time' = time
      BY <2>1 DEF QuotesInv
    <3>2. \A x \in Quotes!Rounds :
              /\ now'[x] = IF x = r THEN 0 ELSE now[x]
              /\ at'[x] = "write" => x # r /\ at[x] = "write"
              /\ x # r => fetched'[x] = fetched[x]
      BY <2>1, <3>1 DEF RoundsAreTimed
    <3>3. /\ at' = [x \in Quotes!Rounds |-> at'[x]] /\ now' = [x \in Quotes!Rounds |-> now'[x]]
          /\ fetched' = [x \in Quotes!Rounds |-> fetched'[x]]
      BY <2>1, <3>1 DEF RoundsAreTimed
    <3> QED BY <3>1, <3>2, <3>3 DEF RoundsAreTimed
  <2>3. SidesAreTimed'
    BY <1>7 DEF Quotes!EndRound, Quotes!RoundFails, QuotesInv, SidesAreTimed, Quotes!NoFrames
  <2> QED BY <1>1, <2>1, <2>2, <2>3 DEF QuotesInv
<1>8. ASSUME NEW r \in Quotes!Rounds, Quotes!BatchFails(r) \/ Quotes!RateLimited(r)
      PROVE  QuotesInv' /\ Quotes!GoesForward
  BY <1>1, <1>8 DEF Quotes!BatchFails, Quotes!RateLimited, QuotesInv, SidesAreTimed,
                    RoundsAreTimed
<1>9. ASSUME NEW m \in Quoted, NEW o \in Quotes!Outcomes, Quotes!Frame(m, o)
      PROVE  QuotesInv' /\ Quotes!GoesForward
  BY <1>1, <1>9 DEF Quotes!Frame, QuotesInv, SidesAreTimed, RoundsAreTimed
<1>10. ASSUME NEW m \in Quoted, Quotes!Flush(m)
       PROVE  QuotesInv' /\ Quotes!GoesForward
  <2>1. /\ SidesAreTimed' /\ RoundsAreTimed' /\ time' \in Nat
    BY <1>10 DEF Quotes!Flush, QuotesInv, SidesAreTimed, RoundsAreTimed
  <2>2. Quotes!OldestFrame(m) \in Nat
    BY <1>10 DEF Quotes!Flush, Quotes!Ready, Quotes!Outcomes, Quotes!OldestFrame, QuotesInv,
                 SidesAreTimed
  <2>3. Quotes!Upsert(m, [source |-> "realtime", asOf |-> Quotes!OldestFrame(m),
                          read |-> Quotes!OldestFrame(m)])
    BY <1>10 DEF Quotes!Flush, Quotes!AsOfFrames
  <2>4. RowsHoldQuotes' /\ Quotes!GoesForward
    BY <2>2, <2>3, QuoteIsWritten DEF IsQuote, QuotesInv
  <2> QED BY <2>1, <2>4 DEF QuotesInv
<1>11. ASSUME NEW m \in Quoted, Quotes!Relist(m)
       PROVE  QuotesInv' /\ Quotes!GoesForward
  <2>1. /\ RoundsAreTimed' /\ time' \in Nat /\ UNCHANGED quote
    BY <1>11 DEF Quotes!Relist, QuotesInv, RoundsAreTimed
  <2>2. SidesAreTimed'
    BY <1>11 DEF Quotes!Relist, QuotesInv, SidesAreTimed, Quotes!NoFrames
  <2> QED BY <1>1, <2>1, <2>2 DEF QuotesInv
<1>12. ASSUME NEW m \in Quoted, Quotes!MirrorHotBook(m)
       PROVE  QuotesInv' /\ Quotes!GoesForward
  <2>1. /\ SidesAreTimed' /\ RoundsAreTimed' /\ time' \in Nat
    BY <1>12 DEF Quotes!MirrorHotBook, QuotesInv, SidesAreTimed, RoundsAreTimed
  <2>2. PICK built \in 0..time :
            Quotes!Upsert(m, [source |-> "realtime", asOf |-> built, read |-> None])
    BY <1>12 DEF Quotes!MirrorHotBook
  <2>3. RowsHoldQuotes' /\ Quotes!GoesForward
    BY <2>2, QuoteIsWritten DEF IsQuote, QuotesInv
  <2> QED BY <2>1, <2>3 DEF QuotesInv
<1>13. CASE Quotes!Disconnect \/ Quotes!Tick
  BY <1>1, <1>13 DEF Quotes!Disconnect, Quotes!Tick, QuotesInv, SidesAreTimed,
                     RoundsAreTimed
<1>14. CASE UNCHANGED Quotes!vars
  BY <1>1, <1>14 DEF Quotes!vars, QuotesInv, SidesAreTimed, RoundsAreTimed
<1> QED
  BY <1>2, <1>3, <1>4, <1>5, <1>6, <1>7, <1>8, <1>9, <1>10, <1>11, <1>12, <1>13, <1>14
  DEF Quotes!Next, Quotes!Work, Quotes!Faulty

\* The other scopes leave the quotes alone.
LEMMA QuotesHold ==
    ASSUME Quotes!NoneIsNoQuote
    PROVE  MCSpec => []QuotesInv /\ [][Quotes!GoesForward]_(Quotes!vars)
<1>1. MCInit => Quotes!Init
  BY DEF MCInit
<1>2. [MCNext]_<<scope, vars, book, quotes>> => [Quotes!Next]_(Quotes!vars)
  BY DEF MCNext, quotes, Quotes!vars, Quotes!shared, Quotes!round, Quotes!stream
<1> QED BY <1>1, <1>2, QuotesStart, QuotesStep, PTL DEF MCSpec

\* A quote of a round or of the feed that is shown without the label stale was
\* read within the time of its lane, whichever of the lanes wrote before and
\* after it and in whatever order their rounds, frames and mirrored books end
\* (display_quote).
THEOREM QuotesAreFresh ==
    ASSUME Quotes!NoneIsNoQuote, RealtimeFresh \in Nat, SnapshotFresh \in Nat
    PROVE  MCSpec => []ShownIsFresh
<1>1. ASSUME QuotesInv PROVE ShownIsFresh
  <2> SUFFICES ASSUME NEW m \in Quoted, quote[m] # None, ~Quotes!DisplayQuote(m).stale,
                      Quotes!DisplayQuote(m).read # None
               PROVE  time - Quotes!DisplayQuote(m).read
                          <= IF Quotes!DisplayQuote(m).source = "realtime"
                             THEN RealtimeFresh ELSE SnapshotFresh
    BY DEF ShownIsFresh, Quotes!ShownIsFresh
  <2>1. /\ time \in Nat /\ IsQuote(quote[m])
    BY <1>1 DEF QuotesInv, RowsHoldQuotes
  <2>2. /\ Quotes!DisplayQuote(m).source = quote[m].source
        /\ Quotes!DisplayQuote(m).read = quote[m].read
        /\ Quotes!DisplayQuote(m).stale = (time - quote[m].asOf > Quotes!Bound(quote[m]))
    BY DEF Quotes!DisplayQuote
  <2>3. ~(time - quote[m].asOf > Quotes!Bound(quote[m]))
    BY <2>2
  <2> QED BY <2>1, <2>2, <2>3 DEF Quotes!Bound, IsQuote
<1> QED BY <1>1, QuotesHold, PTL

\* No lane takes a row back to an older quote, although rounds, frames and
\* mirrored books overtake each other (decide_quote_write, mark_limited).
THEOREM QuotesGoForward ==
    ASSUME Quotes!NoneIsNoQuote PROVE MCSpec => RowGoesForward
<1>1. MCSpec => [][Quotes!GoesForward]_(Quotes!vars)
  BY QuotesHold
<1> QED BY <1>1 DEF RowGoesForward, Quotes!RowGoesForward

=============================================================================
