-------------------------- MODULE RuntimeLauncher --------------------------
(***************************************************************************)
(* The launcher of the local runtime (backend/app/runtime/launcher.py),    *)
(* the children it spawns (child.py, daemon_main.py), the advisory lock by *)
(* which one runtime owns the suppliers (RuntimeOwnership in assembly.py)  *)
(* and the order of initialisation (bootstrap.py).                         *)
(*                                                                         *)
(* A launcher is one invocation of the command line.  It loads state.json, *)
(* works on its copy and writes the whole copy back; there is no lock, so  *)
(* two invocations may overlap, and one may be killed at any step, also    *)
(* while it writes the file (a file that cannot be read is an empty one).  *)
(*                                                                         *)
(* A child is its token.  Its PID is held by the child, by nobody, or by a *)
(* foreign process that got the same number later; a record in state.json  *)
(* is a token (role, PID and log path go with it).  Checking the command   *)
(* line of a PID and signalling it is one step; the grace period between   *)
(* SIGTERM and SIGKILL is not.                                             *)
(***************************************************************************)
EXTENDS Integers, FiniteSets

CONSTANTS
    Launchers,   \* invocations that may overlap
    Services,    \* COMPOSE_SERVICES
    Roles,       \* MANAGED_ROLES, in the order they are started and stopped
    MaxSpawns,   \* bound on the children ever spawned
    MaxIds,      \* bound on the containers ever created
    MaxFaults,   \* bound on kills, reused PIDs, lost sessions and overlaps
    OldHead, NewHead, \* an earlier schema revision, and the repository's
    NoHead       \* no revision: no marker, or no schema

Tokens == 1..MaxSpawns
Ids == 1..MaxIds
Steps == {"idle", "compose", "record", "probe", "check", "spawn", "save", "wait",
          "fail", "down", "grace", "containers", "forget", "migrate", "fill", "mark"}

\* The runtime is the first of MANAGED_ROLES.
LauncherLimits == MaxSpawns \in Nat /\ Roles[1] = "runtime"

VARIABLES
    \* children
    spawned,    \* how many tokens there are
    role,       \* the role of a token
    pid,        \* who has its PID: "child", "free" or "foreign"
    daemon,     \* of a runtime: "starting", "owner", "ready" or "gone"
    lock,       \* the token whose session holds the advisory lock, or 0
    row,        \* the token whose ready health is persisted, or 0
    hurt,       \* a foreign process has been signalled
    \* containers
    running,    \* the container that runs a service, or 0
    ids,        \* how many containers there have been
    ours,       \* those a launcher's compose command created
    \* the database
    schema,     \* alembic_version
    marker,     \* the revision of the initialisation record
    \* state.json
    file,       \* tokens recorded, and the containers of the services
    \* an invocation
    at, command, copy, before, fresh, left, kept,
    lossy,      \* an invocation was killed, or two overlapped
    faults      \* kills, reused PIDs, lost sessions and overlaps so far

childVars == <<spawned, role, pid, daemon, lock, row, hurt>>
dockerVars == <<running, ids, ours>>
baseVars == <<schema, marker>>
callVars == <<at, command, copy, before, fresh, left, kept>>
ends == <<lossy, faults>>
vars == <<childVars, dockerVars, baseVars, file, callVars, ends>>

\* One more fault, if there may be one.
Fault == faults < MaxFaults /\ faults' = faults + 1

Nothing == [processes |-> {}, containers |-> [s \in Services |-> 0]]
NoContainers == [s \in Services |-> 0]

Init ==
    /\ spawned = 0
    /\ role = [t \in Tokens |-> "runtime"]
    /\ pid = [t \in Tokens |-> "free"]
    /\ daemon = [t \in Tokens |-> "gone"]
    /\ lock = 0 /\ row = 0 /\ hurt = FALSE
    /\ running = NoContainers /\ ids = 0 /\ ours = {}
    /\ schema \in {NoHead, OldHead, NewHead} /\ marker = schema
    /\ file = Nothing
    /\ at = [l \in Launchers |-> "idle"]
    /\ command = [l \in Launchers |-> "none"]
    /\ copy = [l \in Launchers |-> Nothing]
    /\ before = [l \in Launchers |-> NoContainers]
    /\ fresh = [l \in Launchers |-> <<>>]
    /\ left = [l \in Launchers |-> {}]
    /\ kept = [l \in Launchers |-> {}]
    /\ lossy = FALSE /\ faults = 0

-----------------------------------------------------------------------------
(* Children *)

\* The command line of the PID carries the wrapper and the token.
Owned(t) == pid[t] = "child"
\* os.kill(pid, 0), after a zombie of ours has been reaped.
Alive(t) == pid[t] # "free"

\* Wrapper and inner process are gone, and the session of a runtime with them.
Gone(t) ==
    /\ pid' = [pid EXCEPT ![t] = IF @ = "child" THEN "free" ELSE @]
    /\ daemon' = [daemon EXCEPT ![t] = "gone"]
    /\ lock' = IF lock = t THEN 0 ELSE lock

\* Any child may end by itself, or upon a SIGTERM it was sent, and a daemon
\* without its wrapper too.
ChildExits(t) ==
    /\ pid[t] = "child" \/ daemon[t] # "gone"
    /\ Gone(t)
    /\ UNCHANGED <<spawned, role, row, hurt, dockerVars, baseVars, file, callVars, ends>>

\* The wrapper is killed from outside; its daemon goes on without it.
WrapperDies(t) ==
    /\ Fault /\ pid[t] = "child" /\ role[t] = "runtime"
    /\ pid' = [pid EXCEPT ![t] = "free"]
    /\ UNCHANGED <<spawned, role, daemon, lock, row, hurt, dockerVars, baseVars, file,
                   callVars, lossy>>

\* The number of a PID that is free is given to somebody else's process, and
\* that process ends some time.
PidIsReused(t) ==
    /\ Fault /\ t <= spawned /\ pid[t] = "free"
    /\ pid' = [pid EXCEPT ![t] = "foreign"]
    /\ UNCHANGED <<spawned, role, daemon, lock, row, hurt, dockerVars, baseVars, file,
                   callVars, lossy>>

\* The runtime child takes the lock, or refuses to start.
Acquire(t) ==
    /\ daemon[t] = "starting"
    /\ IF lock = 0
       THEN lock' = t /\ daemon' = [daemon EXCEPT ![t] = "owner"] /\ UNCHANGED pid
       ELSE /\ daemon' = [daemon EXCEPT ![t] = "gone"]
            /\ pid' = [pid EXCEPT ![t] = IF @ = "child" THEN "free" ELSE @]
            /\ UNCHANGED lock
    /\ UNCHANGED <<spawned, role, row, hurt, dockerVars, baseVars, file, callVars, ends>>

\* The readiness probe of a recovery or a tick finds the session alive.
ProbeSucceeds(t) ==
    /\ daemon[t] = "owner" /\ lock = t
    /\ daemon' = [daemon EXCEPT ![t] = "ready"]
    /\ UNCHANGED <<spawned, role, pid, lock, row, hurt, dockerVars, baseVars, file,
                   callVars, ends>>

\* Jobs and the end of a tick persist the health that the probe left.
PersistHealth(t) ==
    /\ daemon[t] = "ready"
    /\ row' = t
    /\ UNCHANGED <<spawned, role, pid, daemon, lock, hurt, dockerVars, baseVars, file,
                   callVars, ends>>

\* The database ends the session, and the lock with it; the daemon goes on
\* until its next probe.
SessionIsLost ==
    /\ Fault /\ lock # 0
    /\ lock' = 0
    /\ UNCHANGED <<spawned, role, pid, daemon, row, hurt, dockerVars, baseVars, file,
                   callVars, lossy>>

\* LOCAL_RUNTIME_OWNER_LOST: degraded health is persisted and the daemon stops.
OwnerIsLost(t) ==
    /\ daemon[t] \in {"owner", "ready"} /\ lock # t
    /\ row' = 0
    /\ daemon' = [daemon EXCEPT ![t] = "gone"]
    /\ pid' = [pid EXCEPT ![t] = IF @ = "child" THEN "free" ELSE @]
    /\ UNCHANGED <<spawned, role, lock, hurt, dockerVars, baseVars, file, callVars, ends>>

-----------------------------------------------------------------------------
(* Steps every command shares *)

Goto(l, step) == at' = [at EXCEPT ![l] = step]
Return(l) ==
    /\ Goto(l, "idle")
    /\ command' = [command EXCEPT ![l] = "none"]
    /\ copy' = [copy EXCEPT ![l] = Nothing]
    /\ before' = [before EXCEPT ![l] = NoContainers]
    /\ fresh' = [fresh EXCEPT ![l] = <<>>]
    /\ left' = [left EXCEPT ![l] = {}]
    /\ kept' = [kept EXCEPT ![l] = {}]

\* The constructor loads state.json; init takes the initialised flag out of it
\* first, which is not read again.
Invoke(l) ==
    /\ at[l] = "idle"
    /\ \E c \in {"init", "up", "down"} :
         /\ command' = [command EXCEPT ![l] = c]
         /\ Goto(l, IF c = "down" THEN "down" ELSE "compose")
         /\ left' = [left EXCEPT ![l] = IF c = "down" THEN file.processes ELSE {}]
    /\ copy' = [copy EXCEPT ![l] = file]
    /\ IF \A k \in Launchers : at[k] = "idle"
       THEN UNCHANGED ends
       ELSE Fault /\ lossy' = TRUE
    /\ UNCHANGED <<childVars, dockerVars, baseVars, file, before, fresh, kept>>

\* The process of the command is killed; while it saves, the file is torn.
Killed(l) ==
    /\ Fault /\ at[l] # "idle"
    /\ file' \in {file} \cup
                 (IF at[l] \in {"record", "probe", "save", "forget"} THEN {Nothing} ELSE {})
    /\ Return(l)
    /\ lossy' = TRUE
    /\ UNCHANGED <<childVars, dockerVars, baseVars>>

\* docker compose up --wait starts what does not run; when it fails, some of
\* it may run all the same and nothing is recorded.
Compose(l) ==
    /\ at[l] = "compose"
    /\ \E S \in SUBSET {s \in Services : running[s] = 0} :
         /\ ids + Cardinality(S) <= MaxIds
         /\ \E f \in [S -> (ids + 1)..(ids + Cardinality(S))] :
              /\ \A s, r \in S : s # r => f[s] # f[r]
              /\ running' = [s \in Services |-> IF s \in S THEN f[s] ELSE running[s]]
         /\ ids' = ids + Cardinality(S)
         /\ ours' = ours \cup (ids + 1)..(ids + Cardinality(S))
    /\ \/ /\ \A s \in Services : running'[s] # 0
          /\ before' = [before EXCEPT ![l] = running]
          /\ Goto(l, "record")
          /\ UNCHANGED <<command, copy, fresh, left, kept>>
       \/ Return(l)
    /\ UNCHANGED <<childVars, baseVars, file, ends>>

\* Containers that were not there before are recorded.
NewContainer(l, s) ==
    IF running[s] # before[l][s] THEN running[s] ELSE copy[l].containers[s]

Record(l) ==
    /\ at[l] = "record"
    /\ IF \E s \in Services : running[s] = 0
       THEN Return(l) /\ UNCHANGED file
       ELSE LET c == [copy[l] EXCEPT !.containers = [s \in Services |-> NewContainer(l, s)]]
            IN /\ copy' = [copy EXCEPT ![l] = c] /\ file' = c
               /\ before' = [before EXCEPT ![l] = NoContainers]
               /\ Goto(l, IF command[l] = "init" THEN "migrate" ELSE "probe")
               /\ UNCHANGED <<command, fresh, left, kept>>
    /\ UNCHANGED <<childVars, dockerVars, baseVars, ends>>

\* The user brings a container of his own up, or takes one down; not in the
\* moment between the two looks of a command.
UserCompose(s) ==
    /\ \A l \in Launchers : at[l] # "record"
    /\ \/ /\ running[s] = 0 /\ ids < MaxIds
          /\ running' = [running EXCEPT ![s] = ids + 1] /\ ids' = ids + 1
       \/ /\ running[s] # 0
          /\ running' = [running EXCEPT ![s] = 0] /\ UNCHANGED ids
    /\ UNCHANGED <<ours, childVars, baseVars, file, callVars, ends>>

-----------------------------------------------------------------------------
(* init *)

\* The database is created when it is missing and migrated to the head.
Migrate(l) ==
    /\ at[l] = "migrate"
    /\ \/ schema' = NewHead /\ Goto(l, "fill")
            /\ UNCHANGED <<command, copy, before, fresh, left, kept>>
       \/ Return(l) /\ UNCHANGED schema
    /\ UNCHANGED <<childVars, dockerVars, marker, file, ends>>

\* Rankings, aliases, catalog and names: any of them may fail.
Fill(l) ==
    /\ at[l] = "fill"
    /\ \/ Goto(l, "mark") /\ UNCHANGED <<command, copy, before, fresh, left, kept>>
       \/ Return(l)
    /\ UNCHANGED <<childVars, dockerVars, baseVars, file, ends>>

MarkInitialized(l) ==
    /\ at[l] = "mark"
    /\ marker' = NewHead
    /\ file' = copy[l]
    /\ Return(l)
    /\ UNCHANGED <<childVars, dockerVars, schema, ends>>

-----------------------------------------------------------------------------
(* up *)

\* The marker carries the revision of the schema, which is the repository's.
Initialized == marker = schema /\ schema = NewHead

Probe(l) ==
    /\ at[l] = "probe"
    /\ IF Initialized
       THEN /\ file' = copy[l] /\ Goto(l, "check")
            /\ UNCHANGED <<command, copy, before, fresh, left, kept>>
       ELSE Return(l) /\ UNCHANGED file
    /\ UNCHANGED <<childVars, dockerVars, baseVars, ends>>

\* No recorded PID is alive, ours or not.
NoneAlive(l) == \A t \in copy[l].processes : ~Alive(t)

\* Recorded processes, ports and the frontend's executable are checked; the
\* last two may refuse.
Check(l) ==
    /\ at[l] = "check"
    /\ \/ /\ NoneAlive(l)
          /\ Goto(l, "spawn")
          /\ UNCHANGED <<command, copy, before, fresh, left, kept>>
       \/ Return(l)
    /\ UNCHANGED <<childVars, dockerVars, baseVars, file, ends>>

Spawn(l) ==
    /\ at[l] = "spawn" /\ spawned < MaxSpawns
    /\ LET t == spawned + 1
           r == Roles[Cardinality(DOMAIN fresh[l]) + 1]
       IN /\ spawned' = t
          /\ role' = [role EXCEPT ![t] = r]
          /\ pid' = [pid EXCEPT ![t] = "child"]
          /\ daemon' = [daemon EXCEPT ![t] = IF r = "runtime" THEN "starting" ELSE "gone"]
          /\ fresh' = [fresh EXCEPT ![l] = [i \in 1..(Cardinality(DOMAIN @) + 1) |->
                          IF i \in DOMAIN @ THEN @[i] ELSE t]]
    /\ Goto(l, "save")
    /\ UNCHANGED <<lock, row, hurt, dockerVars, baseVars, file, command, copy, before,
                   left, kept, ends>>

\* Popen raises, and nothing in up handles it.
SpawnFails(l) ==
    /\ at[l] = "spawn"
    /\ Return(l)
    /\ UNCHANGED <<childVars, dockerVars, baseVars, file, ends>>

Range(f) == {f[i] : i \in DOMAIN f}
Newest(l) == fresh[l][Cardinality(DOMAIN fresh[l])]

SaveSpawned(l) ==
    /\ at[l] = "save"
    /\ LET c == [copy[l] EXCEPT !.processes = Range(fresh[l])]
       IN copy' = [copy EXCEPT ![l] = c] /\ file' = c
    /\ Goto(l, "wait")
    /\ UNCHANGED <<childVars, dockerVars, baseVars, command, before, fresh, left, kept, ends>>

\* Faulty variant: any ready health in the table will do.
AnyReady(t) == row # 0
\* The persisted health is ready and carries the instance of this child.
ReadyHealth(t) == row = t

\* The runtime must be ready, the API must answer, the frontend stay alive.
\* Other outcomes, the timeout included, stop what was spawned.
Succeeds(t) ==
    CASE role[t] = "runtime" -> Alive(t) /\ ReadyHealth(t)
      [] role[t] = "api" -> TRUE
      [] role[t] = "frontend" -> Alive(t)

WaitForChild(l) ==
    /\ at[l] = "wait"
    /\ \/ /\ Succeeds(Newest(l))
          /\ IF role[Newest(l)] = "frontend"
             THEN Return(l)
             ELSE Goto(l, "spawn") /\ UNCHANGED <<command, copy, before, fresh, left, kept>>
       \/ /\ Goto(l, "fail")
          /\ left' = [left EXCEPT ![l] = Range(fresh[l])]
          /\ UNCHANGED <<command, copy, before, fresh, kept>>
    /\ UNCHANGED <<childVars, dockerVars, baseVars, file, ends>>

-----------------------------------------------------------------------------
(* _stop_process, in the roles' order, for down and for a failing up *)

Earlier(t, u) == \E i, j \in DOMAIN Roles : i < j /\ Roles[i] = role[t] /\ Roles[j] = role[u]
FirstLeft(l, t) == t \in left[l] /\ \A u \in left[l] : ~Earlier(u, t)

Signalled(t) == hurt' = (hurt \/ pid[t] = "foreign")

\* The record may be cleared, or must be kept.
Stopped(l, t) ==
    /\ left' = [left EXCEPT ![l] = @ \ {t}]
    /\ Goto(l, IF command[l] = "up" THEN "fail" ELSE "down")
    /\ UNCHANGED <<command, copy, before, fresh, kept>>
NotStopped(l, t) ==
    /\ left' = [left EXCEPT ![l] = @ \ {t}]
    /\ kept' = [kept EXCEPT ![l] = @ \cup {t}]
    /\ Goto(l, IF command[l] = "up" THEN "fail" ELSE "down")
    /\ UNCHANGED <<command, copy, before, fresh>>

Terminate(l, t) ==
    /\ at[l] \in {"down", "fail"} /\ FirstLeft(l, t)
    /\ \/ ~Alive(t) /\ Stopped(l, t) /\ UNCHANGED hurt
       \/ Alive(t) /\ ~Owned(t) /\ NotStopped(l, t) /\ UNCHANGED hurt
       \/ /\ Owned(t) /\ Signalled(t)
          /\ Goto(l, "grace")
          /\ UNCHANGED <<command, copy, before, fresh, left, kept>>
    /\ UNCHANGED <<spawned, role, pid, daemon, lock, row, dockerVars, baseVars, file, ends>>

\* Faulty variant: the PID was checked before the grace period.
StillThere(t) == Alive(t)
\* Ownership is proved again before SIGKILL.
ProvedAgain(t) == Owned(t)

Kill(l, t) ==
    /\ at[l] = "grace" /\ FirstLeft(l, t)
    /\ \/ ~Alive(t) /\ Stopped(l, t) /\ UNCHANGED <<pid, daemon, lock, hurt>>
       \/ /\ Alive(t) /\ ~ProvedAgain(t)
          /\ NotStopped(l, t) /\ UNCHANGED <<pid, daemon, lock, hurt>>
       \/ /\ ProvedAgain(t)
          /\ \/ Signalled(t) /\ Gone(t) /\ Stopped(l, t)
             \/ NotStopped(l, t) /\ UNCHANGED <<pid, daemon, lock, hurt>>
    /\ UNCHANGED <<spawned, role, row, dockerVars, baseVars, file, ends>>

\* A failing up ends here; its records stay in the file.
FailedUp(l) ==
    /\ at[l] = "fail" /\ left[l] = {}
    /\ Return(l)
    /\ UNCHANGED <<childVars, dockerVars, baseVars, file, ends>>

-----------------------------------------------------------------------------
(* down *)

ProcessesDown(l) ==
    /\ at[l] = "down" /\ left[l] = {}
    /\ Goto(l, "containers")
    /\ UNCHANGED <<childVars, dockerVars, baseVars, file, command, copy, before, fresh,
                   left, kept, ends>>

\* Recorded containers that still are the current ones are stopped; docker
\* may refuse, and the record is kept.
ContainersDown(l) ==
    /\ at[l] = "containers"
    /\ LET mine == {s \in Services : running[s] # 0 /\ running[s] = copy[l].containers[s]}
       IN \E S \in SUBSET mine :
            /\ running' = [s \in Services |-> IF s \in S THEN 0 ELSE running[s]]
            /\ copy' = [copy EXCEPT ![l].containers =
                           [s \in Services |-> IF s \in mine \ S THEN @[s] ELSE 0]]
    /\ Goto(l, "forget")
    /\ UNCHANGED <<childVars, ids, ours, baseVars, file, command, before, fresh, left,
                   kept, ends>>

Kept(l) == kept[l]

Forget(l) ==
    /\ at[l] = "forget"
    /\ file' = [copy[l] EXCEPT !.processes = Kept(l)]
    /\ Return(l)
    /\ UNCHANGED <<childVars, dockerVars, baseVars, ends>>

-----------------------------------------------------------------------------
Next ==
    \/ \E t \in Tokens :
         \/ ChildExits(t) \/ WrapperDies(t) \/ PidIsReused(t) \/ Acquire(t)
         \/ ProbeSucceeds(t) \/ PersistHealth(t) \/ OwnerIsLost(t)
    \/ SessionIsLost
    \/ \E s \in Services : UserCompose(s)
    \/ \E l \in Launchers :
         \/ Invoke(l) \/ Killed(l) \/ Compose(l) \/ Record(l)
         \/ Migrate(l) \/ Fill(l) \/ MarkInitialized(l)
         \/ Probe(l) \/ Check(l) \/ Spawn(l) \/ SpawnFails(l) \/ SaveSpawned(l) \/ WaitForChild(l)
         \/ FailedUp(l) \/ ProcessesDown(l) \/ ContainersDown(l) \/ Forget(l)
         \/ \E t \in Tokens : Terminate(l, t) \/ Kill(l, t)

Spec == Init /\ [][Next]_vars

-----------------------------------------------------------------------------
(* Properties *)

TypeOK ==
    /\ spawned \in 0..MaxSpawns /\ lock \in 0..spawned /\ row \in 0..spawned
    /\ role \in [Tokens -> {"runtime", "api", "frontend"}]
    /\ pid \in [Tokens -> {"child", "free", "foreign"}]
    /\ daemon \in [Tokens -> {"starting", "owner", "ready", "gone"}]
    /\ running \in [Services -> 0..ids] /\ ours \subseteq 1..ids
    /\ file.processes \subseteq 1..spawned
    /\ file.containers \in [Services -> 0..ids]
    /\ at \in [Launchers -> Steps]

\* However PIDs are reused while children end, launchers are killed and files
\* are torn, no signal reaches a process that is not a child of the launcher.
ForeignIsSpared == ~hurt

\* up goes on to the API only after its own runtime had the lock: neither a
\* stale health row nor that of another daemon counts.
UpMeansReady ==
    \A l \in Launchers :
        Cardinality(DOMAIN fresh[l]) > 1 => daemon[fresh[l][1]] # "starting"

\* Children run only on a database whose last complete initialisation was for
\* the schema it has, whatever became of other attempts.
RunsOnInitialized == spawned > 0 => marker = NewHead /\ schema = NewHead

=============================================================================
