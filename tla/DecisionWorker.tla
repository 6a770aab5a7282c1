--------------------------- MODULE DecisionWorker ---------------------------
(***************************************************************************)
(* The decisions on one match: backend/app/decision/worker.py, fed by the  *)
(* bridges of backend/app/runtime/daemon.py, with the decision rows of     *)
(* persistence/market_repositories.py and the hot decision in Redis.       *)
(*                                                                         *)
(* One coroutine at a time works on a match; `step' says before which call *)
(* it stands.  A call may fail, with or without its effect, and the        *)
(* process may die before any of them; rows, ledger and Redis stay, queue, *)
(* caches and the version cursor are lost.                                 *)
(*                                                                         *)
(* Books are numbered in the order of their publication; a book's number   *)
(* stands for its hash.  A decision is "act" (BUY or SELL) or "pass".      *)
(* What makes a prediction or a quote is left out: where the gates let it, *)
(* the engine may act or not.  What on_decision does is in PaperLedger.    *)
(***************************************************************************)
EXTENDS Naturals, Sequences

CONSTANTS
    QueueSize,  \* queue_size
    MaxBook,    \* bound: books published
    MaxVersion  \* bound: no sports change or book after this version

ASSUME DecisionAssumption ==
    /\ QueueSize \in Nat \ {0}
    /\ MaxBook \in Nat
    /\ MaxVersion \in Nat

VARIABLES
    hot,        \* the newest book published to Redis, 0 for none
    passedOn,   \* MarketBridge._last_hash: the last book passed on, or 0
    queue,      \* the books submitted
    latestBook, \* _latest_book, or 0
    predicted,  \* a prediction is in _latest_prediction
    cursor,     \* _versions, NoCursor before the first
    linked,     \* the market is actively linked to the match
    gap,        \* the freshness overlay shows a gap
    evidence,   \* the decision rows
    ledger,     \* the decisions the paper service was called with
    published,  \* the hot decision
    step,       \* where the coroutine stands
    work        \* the decision under way

market == <<hot, passedOn, queue>>
caches == <<latestBook, predicted>>
stored == <<evidence, ledger, published>>
vars == <<market, caches, cursor, linked, gap, stored, step, work>>

Books == 0..MaxBook

NoCursor == 0 - 1

Decisions == [version : Nat, book : Books, action : {"act", "pass"}]

Nothing == [version |-> 0, book |-> 0, action |-> "pass"]

Steps == {"idle", "lookup", "predict", "read", "version",
          "save", "ledger", "publish"}

TypeOK ==
    /\ hot \in Books /\ passedOn \in Books /\ latestBook \in Books
    /\ queue \in Seq(Books) /\ Len(queue) <= QueueSize
    /\ predicted \in BOOLEAN /\ linked \in BOOLEAN /\ gap \in BOOLEAN
    /\ cursor \in Nat \cup {NoCursor}
    /\ evidence \in SUBSET Decisions
    /\ ledger \in SUBSET Decisions
    /\ published \in Decisions
    /\ step \in Steps
    /\ work \in Decisions

Init ==
    /\ hot = 0 /\ passedOn = 0 /\ queue = <<>>
    /\ latestBook = 0 /\ predicted = FALSE
    /\ cursor = NoCursor
    /\ linked = TRUE /\ gap = TRUE
    /\ evidence = {} /\ ledger = {} /\ published = Nothing
    /\ step = "idle" /\ work = Nothing

-----------------------------------------------------------------------------
(* The world around the worker *)

LinkChanges ==
    /\ linked' = ~linked
    /\ UNCHANGED <<market, caches, cursor, gap, stored, step, work>>

GapChanges ==
    /\ gap' = ~gap
    /\ UNCHANGED <<market, caches, cursor, linked, stored, step, work>>

\* The market worker publishes a new book.
PublishBook ==
    /\ step = "idle" /\ hot < MaxBook
    /\ hot' = hot + 1
    /\ UNCHANGED <<passedOn, queue, caches, cursor, linked, gap, stored, step,
                   work>>

\* Bounds the model.
WithinBound ==
    cursor < MaxVersion /\ \A row \in evidence : row.version < MaxVersion

\* submit_book: a full queue loses its oldest book.
Submit(book) ==
    Append(IF Len(queue) < QueueSize THEN queue ELSE Tail(queue), book)

\* MarketBridge.on_state, now or with the baseline of a later recovery: a book
\* whose hash was the last one is a duplicate.
PassOn ==
    /\ step = "idle" /\ WithinBound
    /\ hot # 0 /\ passedOn # hot
    /\ passedOn' = hot
    /\ queue' = Submit(hot)
    /\ UNCHANGED <<hot, caches, cursor, linked, gap, stored, step, work>>

-----------------------------------------------------------------------------
(* The triggers *)

\* pump_once: the newest book is taken, the others are forgotten.
Pump ==
    /\ step = "idle" /\ queue # <<>>
    /\ step' = "lookup"
    /\ work' = [Nothing EXCEPT !.book = queue[Len(queue)]]
    /\ queue' = <<>>
    /\ UNCHANGED <<hot, passedOn, caches, cursor, linked, gap, stored>>

\* handle_book: without a link or a prediction the book is dropped.
LookUp ==
    /\ step = "lookup"
    /\ IF linked /\ predicted
       THEN step' = "read" /\ latestBook' = work.book
       ELSE step' = "idle" /\ UNCHANGED latestBook
    /\ work' = IF linked /\ predicted THEN work ELSE Nothing
    /\ UNCHANGED <<market, predicted, cursor, linked, gap, stored>>

\* handle_sports, for a change the predictor has something to say about.
Sports ==
    /\ step = "idle" /\ WithinBound
    /\ step' = "predict"
    /\ UNCHANGED <<market, caches, cursor, linked, gap, stored, work>>

Predict ==
    /\ step = "predict"
    /\ step' = "read" /\ predicted' = TRUE
    /\ UNCHANGED <<market, latestBook, cursor, linked, gap, stored, work>>

-----------------------------------------------------------------------------
(* _decide *)

\* The engine: the market must be linked, its rules stable, the model and the
\* policy there, the book there and fresh, the quote good enough.
Evaluate(book) ==
    IF linked /\ ~gap /\ book # 0 THEN {"act", "pass"} ELSE {"pass"}

Read ==
    /\ step = "read"
    /\ LET book == IF ~linked THEN 0
                   ELSE IF latestBook # 0 THEN latestBook ELSE hot
       IN  \E action \in Evaluate(book) :
             work' = [version |-> 0, book |-> book, action |-> action]
    /\ step' = "version"
    /\ UNCHANGED <<market, caches, cursor, linked, gap, stored>>

\* latest_observation_version
IsLatest(version) ==
    /\ version = 0 \/ \E row \in evidence : row.version = version
    /\ \A row \in evidence : row.version <= version

\* Faulty variant: a worker without a cursor begins at the beginning.
KnownFromZero(version) == version = IF cursor = NoCursor THEN 0 ELSE cursor

Known(version) ==
    IF cursor = NoCursor THEN IsLatest(version) ELSE version = cursor

Versions == {0} \cup {row.version : row \in evidence} \cup ({cursor} \cap Nat)

\* _next_version
Version ==
    /\ step = "version"
    /\ \E version \in Versions :
         /\ Known(version)
         /\ cursor' = version + 1
         /\ work' = [work EXCEPT !.version = version + 1]
    /\ step' = "save"
    /\ UNCHANGED <<market, caches, linked, gap, stored>>

\* save_decision_observation: the first row of a version stays.
Saved ==
    IF \E row \in evidence : row.version = work.version THEN evidence
    ELSE evidence \cup {work}

\* Faulty variant: the decision is published before it is applied, and the
\* evidence comes last.
SaveLater ==
    /\ step = "save"
    /\ published' = work
    /\ step' = IF work.action = "act" THEN "ledger" ELSE "publish"
    /\ UNCHANGED <<market, caches, cursor, linked, gap, evidence, ledger, work>>

Save ==
    /\ step = "save"
    /\ evidence' = Saved
    /\ step' = IF work.action = "act" THEN "ledger" ELSE "publish"
    /\ UNCHANGED <<market, caches, cursor, linked, gap, ledger, published, work>>

Apply ==
    /\ step = "ledger"
    /\ ledger' = ledger \cup {work}
    /\ step' = "publish"
    /\ UNCHANGED <<market, caches, cursor, linked, gap, evidence, published, work>>

\* publish_decision
Publish ==
    /\ step = "publish"
    /\ published' = work
    /\ step' = "idle" /\ work' = Nothing
    /\ UNCHANGED <<market, caches, cursor, linked, gap, evidence, ledger>>

\* A call raises or is cut off; its effect may have happened.
CallFails ==
    /\ step # "idle"
    /\ step' = "idle" /\ work' = Nothing
    /\ evidence' \in {evidence, IF step = "save" THEN Saved ELSE evidence}
    /\ ledger' \in {ledger, IF step = "ledger" THEN ledger \cup {work} ELSE ledger}
    /\ published' \in {published, IF step = "publish" THEN work ELSE published}
    /\ UNCHANGED <<market, caches, cursor, linked, gap>>

-----------------------------------------------------------------------------
(* The life of the process *)

\* recover_cursors, once or more often: a recovery that fails is repeated.
RecoverCursors ==
    /\ step = "idle" /\ linked
    /\ \E version \in Versions : IsLatest(version) /\ cursor' = version
    /\ UNCHANGED <<market, caches, linked, gap, stored, step, work>>

\* The new process begins with the gap of its startup.
Restart ==
    /\ passedOn' = 0 /\ queue' = <<>>
    /\ latestBook' = 0 /\ predicted' = FALSE /\ cursor' = NoCursor
    /\ gap' = TRUE
    /\ step' = "idle" /\ work' = Nothing
    /\ UNCHANGED <<hot, linked, stored>>

-----------------------------------------------------------------------------
Worker ==
    \/ Pump \/ LookUp \/ Predict
    \/ Read \/ Version \/ Save \/ Apply \/ Publish \/ CallFails

Next ==
    \/ Worker \/ Sports \/ RecoverCursors \/ Restart
    \/ PublishBook \/ PassOn \/ LinkChanges \/ GapChanges

Spec == Init /\ [][Next]_vars

-----------------------------------------------------------------------------
(* Properties *)

\* A BUY or SELL can be traced back (decision/models.py): what the paper service
\* was called with is what the row of its version says, whatever failed or died
\* before and whichever version was used up by it.
ActionIsTraceable == ledger \subseteq evidence

\* What Redis shows is a decision that is on record.
PublishedIsOnRecord == published = Nothing \/ published \in evidence

\* The hot decision is never replaced by an older one.
PublishedGoesForward ==
    [][published' # published => published'.version > published.version]_vars

\* Whatever fails or dies, the calls of _decide come to the steps of a log: the
\* newest decision on record, and no other, is acted on and then shown.
Log == INSTANCE DecisionLog
ImplementsDecisionLog == Log!Spec

\* Bounded queues coalesce to the newest book: the book that is taken is the
\* last one passed on, however many the queue has lost.
NewestBookWins == step = "lookup" => work.book = passedOn

=============================================================================
