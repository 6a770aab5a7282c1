---------------------------- MODULE ViewerLeases ----------------------------
(***************************************************************************)
(* Viewer leases and the demand index in Redis                             *)
(* (backend/app/realtime/leases.py) as the API process uses them for its   *)
(* match streams (backend/app/api/routes.py) and the realtime worker scans *)
(* them (demanded_matches).                                                *)
(*                                                                         *)
(* acquire, release and demanded_matches are sequences of Redis commands;  *)
(* a command is one atomic step and the streams and the scan, which run in *)
(* different processes, interleave between any two of them.  A stream ends *)
(* by a disconnect, which releases, or by the death of its process or of   *)
(* its task, which does not.  Its renewals run in a task of their own.     *)
(*                                                                         *)
(* Times are the seconds that are left, so the clock is not a variable.    *)
(* The demanded_at stamps, which only order the result of the scan, are    *)
(* left out; the matches of a scan are taken in any order.                 *)
(***************************************************************************)
EXTENDS Integers

CONSTANTS
    Matches,     \* match identifiers
    Viewers,     \* stream identifiers, a fresh one per connection
    MatchOf,     \* the match a stream is about
    LeaseTtl,    \* viewer_lease_seconds
    RenewEvery,  \* VIEWER_RENEW_SECONDS
    GraceTime    \* subscription_grace_seconds

ASSUME LeasesAssumption ==
    /\ MatchOf \in [Viewers -> Matches]
    /\ LeaseTtl \in Nat
    /\ RenewEvery \in 1 .. LeaseTtl - 1
    /\ GraceTime \in Nat

VARIABLES
    lease,     \* tnx:lease:{match}:{viewer}, the time left, 0 when there is none
    index,     \* tnx:demand, the demanded matches
    members,   \* the viewer fields of tnx:demand:{match}
    grace,     \* its grace_until field, the time left
    stream,    \* what each stream does next
    renewing,  \* the renewal task that the stream has started runs
    scan,      \* demanded_matches under way
    demanded   \* the result of the last demanded_matches

redis == <<lease, index, members, grace>>
vars == <<redis, stream, renewing, scan, demanded>>

AcquireSteps == {"acquire_lease", "acquire_index", "acquire_member",
                 "acquire_grace"}
ReleaseSteps == {"release_read", "release_member", "release_lease",
                 "release_check", "release_grace"}
StreamSteps ==
    {"new", "subscribe", "streaming", "gone"} \cup AcquireSteps \cup ReleaseSteps
DemandStates == {"none", "grace", "active"}

Scans ==
    [step : {"idle"}]
    \cup [step : {"select"}, todo : SUBSET Matches,
          found : [Matches -> DemandStates]]
    \cup [step : {"leases"}, todo : SUBSET Matches,
          found : [Matches -> DemandStates], match : Matches,
          fields : SUBSET Viewers, unread : SUBSET Viewers,
          alive : SUBSET Viewers, grace : Nat]
    \cup [step : {"prune"}, todo : SUBSET Matches,
          found : [Matches -> DemandStates], match : Matches,
          stale : SUBSET Viewers]
    \cup [step : {"unindex", "forget"}, todo : SUBSET Matches,
          found : [Matches -> DemandStates], match : Matches]

TypeOK ==
    /\ lease \in [Viewers -> Nat]
    /\ index \subseteq Matches
    /\ members \in [Matches -> SUBSET Viewers]
    /\ grace \in [Matches -> Nat]
    /\ stream \in [Viewers -> StreamSteps]
    /\ renewing \in [Viewers -> BOOLEAN]
    /\ scan \in Scans
    /\ demanded \in [Matches -> DemandStates]

Init ==
    /\ lease = [v \in Viewers |-> 0]
    /\ index = {}
    /\ members = [m \in Matches |-> {}]
    /\ grace = [m \in Matches |-> 0]
    /\ stream = [v \in Viewers |-> "new"]
    /\ renewing = [v \in Viewers |-> FALSE]
    /\ scan = [step |-> "idle"]
    /\ demanded = [m \in Matches |-> "none"]

-----------------------------------------------------------------------------
(* The match stream and its lease *)

Proceed(v, from, to) ==
    /\ stream[v] = from
    /\ stream' = [stream EXCEPT ![v] = to]

Connect(v) ==
    /\ Proceed(v, "new", "acquire_lease")
    /\ UNCHANGED <<redis, renewing, scan, demanded>>

AcquireLease(v) ==
    /\ Proceed(v, "acquire_lease", "acquire_index")
    /\ lease' = [lease EXCEPT ![v] = LeaseTtl]
    /\ UNCHANGED <<index, members, grace, renewing, scan, demanded>>

AcquireIndex(v) ==
    /\ Proceed(v, "acquire_index", "acquire_member")
    /\ index' = index \cup {MatchOf[v]}
    /\ UNCHANGED <<lease, members, grace, renewing, scan, demanded>>

AcquireMember(v) ==
    /\ Proceed(v, "acquire_member", "acquire_grace")
    /\ members' = [members EXCEPT ![MatchOf[v]] = @ \cup {v}]
    /\ UNCHANGED <<lease, index, grace, renewing, scan, demanded>>

\* The end of acquire; the stream starts its renewal task.
AcquireGrace(v) ==
    /\ Proceed(v, "acquire_grace", "subscribe")
    /\ grace' = [grace EXCEPT ![MatchOf[v]] = 0]
    /\ renewing' = [renewing EXCEPT ![v] = TRUE]
    /\ UNCHANGED <<lease, index, members, scan, demanded>>

\* The stream subscribes to the channel of its match.
Subscribe(v) ==
    /\ Proceed(v, "subscribe", "streaming")
    /\ UNCHANGED <<redis, renewing, scan, demanded>>

\* The subscription raises or is cancelled: the stream is not yet in the block
\* that ends its renewal task and releases its lease.
SubscribeFails(v) ==
    /\ Proceed(v, "subscribe", "gone")
    /\ UNCHANGED <<redis, renewing, scan, demanded>>

\* renew, once per interval.  It sets the lease key and nothing else.
Renew(v) ==
    /\ renewing[v]
    /\ lease[v] <= LeaseTtl - RenewEvery
    /\ lease' = [lease EXCEPT ![v] = LeaseTtl]
    /\ UNCHANGED <<index, members, grace, stream, renewing, scan, demanded>>

\* The first renewal that raises ends the renewal task; the stream goes on.
RenewFails(v) ==
    /\ renewing[v]
    /\ renewing' = [renewing EXCEPT ![v] = FALSE]
    /\ UNCHANGED <<redis, stream, scan, demanded>>

\* The client disconnects or the match ends.  Awaiting a renewal task that
\* has failed raises its error again, past the release.
Disconnect(v) ==
    /\ Proceed(v, "streaming", IF renewing[v] THEN "release_read" ELSE "gone")
    /\ renewing' = [renewing EXCEPT ![v] = FALSE]
    /\ UNCHANGED <<redis, scan, demanded>>

\* The process or the tasks of the stream die.
Die(v) ==
    /\ stream[v] \notin {"new", "gone"} \/ renewing[v]
    /\ stream' = [stream EXCEPT ![v] = "gone"]
    /\ renewing' = [renewing EXCEPT ![v] = FALSE]
    /\ UNCHANGED <<redis, scan, demanded>>

\* release returns at once when the viewer's field is not there.
ReleaseRead(v) ==
    /\ Proceed(v, "release_read",
               IF v \in members[MatchOf[v]] THEN "release_member" ELSE "gone")
    /\ UNCHANGED <<redis, renewing, scan, demanded>>

ReleaseMember(v) ==
    /\ Proceed(v, "release_member", "release_lease")
    /\ members' = [members EXCEPT ![MatchOf[v]] = @ \ {v}]
    /\ UNCHANGED <<lease, index, grace, renewing, scan, demanded>>

ReleaseLease(v) ==
    /\ Proceed(v, "release_lease", "release_check")
    /\ lease' = [lease EXCEPT ![v] = 0]
    /\ UNCHANGED <<index, members, grace, renewing, scan, demanded>>

\* Only the last viewer starts the grace.
ReleaseCheck(v) ==
    /\ Proceed(v, "release_check",
               IF members[MatchOf[v]] = {} THEN "release_grace" ELSE "gone")
    /\ UNCHANGED <<redis, renewing, scan, demanded>>

ReleaseGrace(v) ==
    /\ Proceed(v, "release_grace", "gone")
    /\ grace' = [grace EXCEPT ![MatchOf[v]] = GraceTime]
    /\ UNCHANGED <<lease, index, members, renewing, scan, demanded>>

-----------------------------------------------------------------------------
(* demanded_matches *)

ScanIndex ==
    /\ scan.step = "idle"
    /\ scan' = [step |-> "select", todo |-> index,
                found |-> [m \in Matches |-> "none"]]
    /\ UNCHANGED <<redis, stream, renewing, demanded>>

\* HGETALL of one of the matches: its viewers and its grace.
ScanMembers(m) ==
    /\ scan.step = "select" /\ m \in scan.todo
    /\ scan' = [step |-> "leases", todo |-> scan.todo \ {m},
                found |-> scan.found, match |-> m, fields |-> members[m],
                unread |-> members[m], alive |-> {}, grace |-> grace[m]]
    /\ UNCHANGED <<redis, stream, renewing, demanded>>

\* Faulty variant: a lease that is about to expire counts as expired.
AliveOffByOne(v) == lease[v] > 1

Alive(v) == lease[v] > 0

ScanLease(v) ==
    /\ scan.step = "leases" /\ v \in scan.unread
    /\ scan' = [scan EXCEPT !.unread = @ \ {v},
                            !.alive = IF Alive(v) THEN @ \cup {v} ELSE @]
    /\ UNCHANGED <<redis, stream, renewing, demanded>>

Select(found) ==
    [step |-> "select", todo |-> scan.todo, found |-> found]

Found(state) == [scan.found EXCEPT ![scan.match] = state]

\* Faulty variant: a match that still has viewer fields is kept, but only a
\* match with a live viewer has its fields pruned.
KeptByFields ==
    IF scan.alive # {} THEN "active"
    ELSE IF scan.grace > 0 \/ scan.fields # {} THEN "grace" ELSE "none"

\* What the scan makes of what it read of the match.
Verdict ==
    IF scan.alive # {} THEN "active"
    ELSE IF scan.grace > 0 THEN "grace" ELSE "none"

\* A match with a live lease is active, and the expired viewers are pruned;
\* one in its grace is kept; any other is dropped.
ScanJudge ==
    LET stale == scan.fields \ scan.alive IN
    /\ scan.step = "leases" /\ scan.unread = {}
    /\ scan' = CASE Verdict = "active" /\ stale # {} ->
                        [step |-> "prune", todo |-> scan.todo,
                         found |-> Found("active"), match |-> scan.match,
                         stale |-> stale]
                 [] Verdict = "active" /\ stale = {} -> Select(Found("active"))
                 [] Verdict = "grace" -> Select(Found("grace"))
                 [] Verdict = "none" ->
                        [step |-> "unindex", todo |-> scan.todo,
                         found |-> scan.found, match |-> scan.match]
    /\ UNCHANGED <<redis, stream, renewing, demanded>>

ScanPrune(v) ==
    /\ scan.step = "prune" /\ v \in scan.stale
    /\ members' = [members EXCEPT ![scan.match] = @ \ {v}]
    /\ scan' = IF scan.stale = {v} THEN Select(scan.found)
               ELSE [scan EXCEPT !.stale = @ \ {v}]
    /\ UNCHANGED <<lease, index, grace, stream, renewing, demanded>>

ScanUnindex ==
    /\ scan.step = "unindex"
    /\ index' = index \ {scan.match}
    /\ scan' = [scan EXCEPT !.step = "forget"]
    /\ UNCHANGED <<lease, members, grace, stream, renewing, demanded>>

ScanForget ==
    /\ scan.step = "forget"
    /\ members' = [members EXCEPT ![scan.match] = {}]
    /\ grace' = [grace EXCEPT ![scan.match] = 0]
    /\ scan' = Select(scan.found)
    /\ UNCHANGED <<lease, index, stream, renewing, demanded>>

ScanReturn ==
    /\ scan.step = "select" /\ scan.todo = {}
    /\ demanded' = scan.found
    /\ scan' = [step |-> "idle"]
    /\ UNCHANGED <<redis, stream, renewing>>

\* The scan is cut off: the worker dies, or the daemon's timeout cancels it.
ScanDies ==
    /\ scan.step # "idle"
    /\ scan' = [step |-> "idle"]
    /\ UNCHANGED <<redis, stream, renewing, demanded>>

-----------------------------------------------------------------------------
(* Time *)

\* A stream that has set its lease and keeps it.
Holds(v) ==
    \/ stream[v] \in AcquireSteps \ {"acquire_lease"}
    \/ renewing[v]

Elapse(n) == IF n > 0 THEN n - 1 ELSE 0

\* An acquire and a renewal take less than the time the renewal interval
\* leaves: no stream that keeps its lease lets it expire.
Tick ==
    /\ \A v \in Viewers : Holds(v) => lease[v] > 1
    /\ lease' = [v \in Viewers |-> Elapse(lease[v])]
    /\ grace' = [m \in Matches |-> Elapse(grace[m])]
    /\ scan' = IF scan.step = "leases"
               THEN [scan EXCEPT !.grace = Elapse(@)] ELSE scan
    /\ UNCHANGED <<index, members, stream, renewing, demanded>>

-----------------------------------------------------------------------------
Acquire(v) ==
    AcquireLease(v) \/ AcquireIndex(v) \/ AcquireMember(v) \/ AcquireGrace(v)

Release(v) ==
    \/ ReleaseRead(v) \/ ReleaseMember(v) \/ ReleaseLease(v)
    \/ ReleaseCheck(v) \/ ReleaseGrace(v)

Scan ==
    \/ ScanIndex \/ ScanJudge \/ ScanUnindex \/ ScanForget \/ ScanReturn
    \/ \E m \in Matches : ScanMembers(m)
    \/ \E v \in Viewers : ScanLease(v) \/ ScanPrune(v)

\* Steps without any failure.
Work ==
    \/ \E v \in Viewers :
        \/ Connect(v) \/ Acquire(v) \/ Subscribe(v) \/ Renew(v)
        \/ Disconnect(v) \/ Release(v)
    \/ Scan
    \/ Tick

Next ==
    \/ Work
    \/ \E v \in Viewers : SubscribeFails(v) \/ RenewFails(v) \/ Die(v)
    \/ ScanDies

Spec == Init /\ [][Next]_vars

\* A command that was sent returns, a renewal task wakes up, time goes on and
\* the worker scans again and again (each daemon tick reconciles the demand).
Progress ==
    /\ \A v \in Viewers :
        /\ WF_vars(Acquire(v)) /\ WF_vars(Subscribe(v))
        /\ WF_vars(Renew(v)) /\ WF_vars(Release(v))
    /\ WF_vars(Scan)
    /\ WF_vars(Tick)

\* Scans may be cut off, but again and again one is completed.
FairSpec == Spec /\ Progress /\ []<><<ScanReturn>>_vars

-----------------------------------------------------------------------------
(* Properties *)

Watches(v) == stream[v] = "streaming" /\ renewing[v]

\* The viewer is registered, and the scan under way has read its field if it
\* has read the match at all.
Seen(v) ==
    LET m == MatchOf[v] IN
    /\ m \in index
    /\ v \in members[m]
    /\ scan.step = "leases" /\ scan.match = m => v \in scan.fields
    /\ ~(scan.step \in {"unindex", "forget"} /\ scan.match = m)

StaysSeen ==
    \A v \in Viewers :
        Seen(v) /\ Watches(v) /\ Watches(v)' => Seen(v)'

\* Once the scan has seen a viewer whose lease is renewed, neither the scan
\* nor another stream that comes, goes or dies takes its demand away: the
\* demand can only be lost between a scan's read of the match and the
\* registration of the viewer.
SeenViewerStays == [][StaysSeen]_vars

\* "A process that ends abnormally must not hold a subscription for ever": a
\* match whose viewers are gone, their renewals with them, is dropped, wherever
\* in acquire, in the stream or in release they ended.
AbandonedMatchIsDropped ==
    \A m \in Matches :
        (\A v \in Viewers :
            MatchOf[v] = m => stream[v] = "gone" /\ ~renewing[v])
            ~> m \notin index /\ demanded[m] = "none"

=============================================================================
