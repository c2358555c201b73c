---------------------------- MODULE ProcessManager ----------------------------
(***************************************************************************)
(* The life of one local service under the supervisor:                     *)
(*                                                                         *)
(*  - process/manager.ts keeps who runs it (processes, adopted), the wish   *)
(*    (desiredStates), the spawn in flight (spawnReservations) and the      *)
(*    timer of an automatic restart;                                       *)
(*  - control/manager.ts carries out start, stop and restart, one at a time *)
(*    in the service's queue; the reaper of adopted-process-reaper.ts goes  *)
(*    through the same queue, automatic restarts do not;                   *)
(*  - process/reconcile.ts takes running processes back at boot, from the   *)
(*    row of service_instances or by the declared port.                    *)
(*                                                                         *)
(* A service is detached: it outlives the supervisor.  One action is the   *)
(* code between two awaits that give up the event loop; an await of a       *)
(* statement of SQLite, which runs at once, is not one of them.             *)
(***************************************************************************)
EXTENDS Naturals, FiniteSets

CONSTANTS
    Insts,       \* slots for processes of the service
    None,        \* no process
    Outside,     \* the spawn strategies to look at: {TRUE} is win32, {FALSE} POSIX
    MaxRestart,  \* catalog: max_restart
    Policy,      \* catalog: restart_policy
    FaultKinds,  \* the kinds of faults that may happen
    MaxFaults    \* how many of them

AllFaults == {"die", "crash", "close", "build", "spawn", "kill", "unreadable"}

ASSUME ProcessAssumption ==
    /\ IsFiniteSet(Insts) /\ None \notin Insts
    /\ Outside \subseteq BOOLEAN
    /\ Policy \in {"no", "on-failure", "always"}
    /\ MaxRestart \in Nat /\ MaxFaults \in Nat /\ FaultKinds \subseteq AllFaults

VARIABLES
    outside,    \* spawnsOutsideJob(): the breakaway strategy
    live,       \* the processes of the service that are alive
    up,         \* the supervisor: "up", "closing" or "down"
    processes,  \* processes: the spawned child
    adopted,    \* adopted: the pid that is managed without a ChildProcess
    desired,    \* desiredStates.state
    holder,     \* who was given the current desiredStates.generation
    timer,      \* restartTimers: restarts so far of the child it is for
    spawn,      \* spawnReservations, and how far spawnReservedService is
    auto,       \* autoRestartService
    cmd,        \* the operation of the service's queue
    retry,      \* retryCounts of the reaper; 0 is no entry
    row,        \* service_instances: state and pid
    raised,     \* an error task has been raised for the restart limit
    answer,     \* history: the last answer or failure, if nothing was asked since
    lost,       \* history: live processes that have been given up
    autos,      \* history: spawns since a request came or spawned, or the reaper found it healthy
    faults      \* faults injected so far

memory  == <<processes, adopted, desired, holder, timer, spawn, auto, cmd, retry>>
history == <<answer, lost, autos>>
vars    == <<outside, live, up, memory, row, raised, history, faults>>

-----------------------------------------------------------------------------
NoTimer == MaxRestart + 1
NoChild == [inst |-> None, count |-> 0, intentional |-> FALSE]
NoSpawn == [by |-> "none", pc |-> "none", inst |-> None, count |-> 0]
NoAuto  == [pc |-> "idle", count |-> 0]
NoCmd   == [kind |-> "none", pc |-> "idle", cancels |-> FALSE]

Managed  == processes # NoChild \/ adopted # None
Reserved == spawn # NoSpawn
\* A process somebody can still point to.
Known(i) == i \in {processes.inst, adopted, spawn.inst, row.pid}
Alive(i) == i \in live

\* isCurrentRunningGeneration for the generation `who' was given.
Current(who) == up = "up" /\ desired = "running" /\ holder = who

Fault(k) == k \in FaultKinds /\ faults < MaxFaults /\ faults' = faults + 1

\* checkProcessIdentity: a process that is alive may still fail to answer.
Identity(i, result) ==
    \/ result = "verified"   /\ Alive(i)  /\ UNCHANGED faults
    \/ result = "unreadable" /\ Alive(i)  /\ Fault("unreadable")
    \/ result = "exited"     /\ ~Alive(i) /\ UNCHANGED faults

\* updateDesiredState: a new generation, which ends the timer.
MarkDesired(state, who) == desired' = state /\ holder' = who /\ timer' = NoTimer
Row(state, pid) == row' = [state |-> state, pid |-> pid]
\* A live process is given up.
Forget(S) == lost' = lost \cup (S \cap live)

To(pc)  == cmd' = [cmd EXCEPT !.pc = pc]
\* The operation answers.
Answer(ok) ==
    /\ cmd' = NoCmd
    /\ answer' = IF ~ok THEN "failed" ELSE IF cmd.kind = "stop" THEN "stopped" ELSE "ok"

\* An automatic restart fails with an error in the log; a stop is not undone by it.
Log == answer' = IF answer = "stopped" THEN answer ELSE "failed"

Init ==
    /\ outside \in Outside
    /\ live = {} /\ up = "down"
    /\ processes = NoChild /\ adopted = None
    /\ desired = "none" /\ holder = "none" /\ timer = NoTimer
    /\ spawn = NoSpawn /\ auto = NoAuto /\ cmd = NoCmd /\ retry = 0
    /\ row = [state |-> "stopped", pid |-> None] /\ raised = FALSE
    /\ answer = "none" /\ lost = {} /\ autos = 0 /\ faults = 0

-----------------------------------------------------------------------------
(* spawnService: one reservation, by an operation or an automatic restart  *)

\* spawnService settles.  A failed operation withdraws its wish; autostart
\* and the automatic restart only log.
SettleOk ==
    /\ spawn' = NoSpawn
    /\ IF spawn.by = "auto" THEN auto' = NoAuto /\ UNCHANGED <<cmd, answer>>
                            ELSE Answer(TRUE) /\ UNCHANGED auto
    /\ UNCHANGED <<desired, holder, timer>>
SettleKeeps ==   \* mutant: a failed spawn keeps its reservation
    /\ UNCHANGED <<spawn, desired, holder, timer>>
    /\ IF spawn.by = "auto" THEN auto' = NoAuto /\ Log /\ UNCHANGED cmd
                            ELSE Answer(FALSE) /\ UNCHANGED auto
SettleFailed ==
    /\ spawn' = NoSpawn
    /\ IF spawn.by = "auto" THEN auto' = NoAuto /\ Log /\ UNCHANGED cmd
                            ELSE Answer(FALSE) /\ UNCHANGED auto
    /\ IF spawn.by = "cmd" /\ cmd.kind # "autostart"
       THEN MarkDesired("stopped", "none")
       ELSE UNCHANGED <<desired, holder, timer>>

\* An operation calls spawnService, which may refuse at once.
Begin(managed) ==
    IF up = "up" /\ ~managed /\ ~Reserved
    THEN /\ MarkDesired("running", "cmd")
         /\ spawn' = [by |-> "cmd", pc |-> "port", inst |-> None, count |-> 0]
         /\ cmd' = [cmd EXCEPT !.pc = "spawn"] /\ answer' = "none"
         /\ autos' = IF cmd.kind = "reap" THEN autos + 1 ELSE 0
    ELSE /\ MarkDesired(IF cmd.kind = "autostart" THEN desired ELSE "stopped", "none")
         /\ Answer(FALSE) /\ UNCHANGED <<spawn, autos>>

AtSpawn(pc) == spawn.pc = pc /\ UNCHANGED <<outside, up, retry, raised, autos>>
SpawnGoes(pc) == spawn' = [spawn EXCEPT !.pc = pc] /\ UNCHANGED <<auto, cmd, desired, holder, timer, answer>>

\* clearDeclaredPort: a process on the declared port is killed; nothing is
\* spawned while it survives.  Which process holds the port, if there is one,
\* is left open.
ClearPort ==
    /\ AtSpawn("port") /\ UNCHANGED <<processes, adopted, row>>
    /\ \/ SpawnGoes("prep") /\ UNCHANGED <<live, lost, faults>>
       \/ \E i \in live :
            /\ live' = live \ {i} /\ lost' = lost \ {i}
            /\ SpawnGoes("prep") /\ UNCHANGED faults
       \/ live # {} /\ Fault("kill")
          /\ SettleFailed /\ UNCHANGED <<live, lost>>

\* A slot for a process that nobody knows.
Free(i) == ~Known(i) /\ ~Alive(i)

\* The last check of the generation, the pending row and the spawn itself are
\* one segment.
Prepared ==
    /\ AtSpawn("prep") /\ UNCHANGED <<processes, adopted>>
    /\ \/ /\ ~Current(spawn.by)
          /\ SettleFailed /\ UNCHANGED <<live, row, lost, faults>>
       \/ /\ Fault("spawn")                     \* environment, command, hot reload
          /\ SettleFailed /\ UNCHANGED <<live, row, lost>>
       \/ /\ Current(spawn.by) /\ outside
          /\ Row("pending", None)
          /\ SpawnGoes("launch") /\ UNCHANGED <<live, lost, faults>>
       \/ \E i \in Insts :
            /\ Current(spawn.by) /\ ~outside /\ Free(i)
            /\ live' = live \cup {i} /\ Row("pending", i)
            /\ spawn' = [spawn EXCEPT !.pc = "wait", !.inst = i]
            /\ UNCHANGED <<auto, cmd, desired, holder, timer, answer, lost, faults>>
       \/ /\ Current(spawn.by) /\ ~outside /\ Fault("spawn")
          /\ Row("crashed", None) /\ SettleFailed /\ UNCHANGED <<live, lost>>

\* The launcher creates the process at some moment while it is awaited.
Launched ==
    /\ AtSpawn("launch") /\ spawn.inst = None
    /\ \E i \in Insts : Free(i) /\ live' = live \cup {i}
                        /\ spawn' = [spawn EXCEPT !.inst = i]
    /\ UNCHANGED <<processes, adopted, auto, cmd, desired, holder, timer, row, answer, lost, faults>>

\* spawnOutsideJob returns the pid, or fails although the process may exist.
LaunchUnrecorded ==  \* mutant: the pid is written to the row at the end only
    /\ AtSpawn("launch") /\ spawn.inst # None
    /\ SpawnGoes("verify") /\ UNCHANGED <<live, processes, adopted, row, lost, faults>>
LaunchEnds ==
    /\ AtSpawn("launch") /\ UNCHANGED <<live, processes, adopted>>
    /\ \/ /\ spawn.inst # None
          /\ Row("pending", spawn.inst)
          /\ SpawnGoes("verify") /\ UNCHANGED <<lost, faults>>
       \/ /\ Fault("spawn")
          /\ Row("crashed", None) /\ Forget({spawn.inst})
          /\ SettleFailed

\* The process has been spawned: it is registered for the current generation,
\* and otherwise terminated before the reservation ends.
StillWanted == Current(spawn.by)
Register ==
    IF StillWanted
    THEN /\ Row("running", spawn.inst)
         /\ IF outside
            THEN adopted' = spawn.inst /\ UNCHANGED processes
            ELSE /\ adopted' = None
                 /\ processes' = [inst |-> spawn.inst, count |-> spawn.count, intentional |-> FALSE]
         /\ SettleOk
    ELSE SpawnGoes("cancel") /\ UNCHANGED <<processes, adopted, row>>

\* POSIX: the spawn event; win32: waitForProcessIdentityOutcome.  A process
\* whose identity cannot be read is left as an orphan whose pid the row keeps.
Spawned ==
    \/ AtSpawn("wait") /\ Register /\ UNCHANGED <<live, lost, faults>>
    \/ /\ AtSpawn("verify") /\ Identity(spawn.inst, "verified")
       /\ Register /\ UNCHANGED <<live, lost>>
    \/ /\ AtSpawn("verify") /\ Identity(spawn.inst, "unreadable")
       /\ Row("crashed", spawn.inst) /\ Forget({spawn.inst}) /\ SettleFailed
       /\ UNCHANGED <<live, processes, adopted>>
    \/ /\ AtSpawn("verify") /\ Identity(spawn.inst, "exited")
       /\ Row("crashed", None) /\ SettleFailed
       /\ UNCHANGED <<live, processes, adopted, lost>>

CancelDrops ==      \* mutant: a process that could not be terminated is dropped
    /\ AtSpawn("cancel") /\ UNCHANGED <<live, processes, adopted, row, lost, faults>>
    /\ SettleFailed
Cancel ==
    /\ AtSpawn("cancel") /\ UNCHANGED <<processes, lost>>
    /\ \/ /\ live' = live \ {spawn.inst}
          /\ IF outside THEN Row("stopped", None) ELSE UNCHANGED row
          /\ UNCHANGED <<adopted, faults>>
       \/ /\ Alive(spawn.inst) /\ Fault("kill")
          /\ adopted' = spawn.inst /\ UNCHANGED <<live, row>>
    /\ SettleFailed

SpawnStep == ClearPort \/ Prepared \/ Launched \/ LaunchEnds \/ Spawned \/ Cancel

-----------------------------------------------------------------------------
(* killService: for stop, and inside restart                               *)

KillBegins ==
    /\ MarkDesired("stopped", "none")
    /\ cmd' = [cmd EXCEPT !.pc = "killwait", !.cancels = (timer # NoTimer \/ Reserved)]

AtKill(pc) == cmd.pc = pc /\ UNCHANGED <<outside, up, auto, retry, raised>>
StillKilling == UNCHANGED <<desired, holder, timer, spawn, answer, autos>>

\* killService has returned: stop answers, restart goes on to spawn.
KillReturns(ok, managed) ==
    IF cmd.kind = "restart" /\ ok
    THEN Begin(managed)
    ELSE Answer(ok) /\ UNCHANGED <<desired, holder, timer, spawn, autos>>
KillThrows == Answer(FALSE) /\ UNCHANGED <<desired, holder, timer, spawn, autos>>

SpawnSettledAlways ==  \* mutant: the spawn in flight is not awaited
    TRUE
\* waitForPendingSpawn: the spawn in flight is awaited first.
SpawnSettled == ~Reserved

KillWait ==
    /\ AtKill("killwait") /\ SpawnSettled /\ UNCHANGED <<live, adopted, row, lost, faults>>
    /\ \/ /\ processes # NoChild
          /\ processes' = [processes EXCEPT !.intentional = TRUE]
          /\ To("term") /\ StillKilling
       \/ /\ processes = NoChild /\ adopted # None
          /\ To("verify") /\ StillKilling /\ UNCHANGED processes
       \/ /\ ~Managed
          /\ KillReturns(cmd.cancels, FALSE) /\ UNCHANGED processes

\* terminateManagedProcess: the signal takes effect; it returns after the exit
\* has been handled, or throws with the process still there.
Terminate ==
    /\ AtKill("term") /\ Alive(processes.inst)
    /\ live' = live \ {processes.inst}
    /\ UNCHANGED <<processes, adopted, cmd, row, lost, faults>> /\ StillKilling
TerminateEnds ==
    /\ AtKill("term") /\ UNCHANGED <<live, adopted, row, lost>>
    /\ \/ processes = NoChild /\ KillReturns(TRUE, Managed) /\ UNCHANGED <<processes, faults>>
       \/ /\ processes # NoChild /\ Alive(processes.inst) /\ Fault("kill")
          /\ processes' = [processes EXCEPT !.intentional = FALSE]
          /\ KillThrows

\* An adopted process is killed only after its identity has been verified.
\* One that cannot be verified is dropped, alive or not.
Verify ==
    /\ AtKill("verify") /\ UNCHANGED <<live, processes>>
    /\ \/ /\ Identity(adopted, "verified") /\ To("tree") /\ StillKilling
          /\ UNCHANGED <<adopted, row, lost>>
       \/ /\ Identity(adopted, "unreadable")
          /\ Row("crashed", None) /\ Forget({adopted}) /\ adopted' = None
          /\ KillThrows
       \/ /\ Identity(adopted, "exited")
          /\ Row("stopped", None) /\ adopted' = None
          /\ KillReturns(TRUE, FALSE) /\ UNCHANGED lost
TreeKill ==
    /\ AtKill("tree") /\ UNCHANGED <<processes, lost>>
    /\ \/ /\ live' = live \ {adopted} /\ adopted' = None /\ Row("stopped", None)
          /\ KillReturns(TRUE, FALSE) /\ UNCHANGED faults
       \/ /\ Alive(adopted) /\ Fault("kill")
          /\ KillThrows /\ UNCHANGED <<live, adopted, row>>

KillStep == KillWait \/ Terminate \/ TerminateEnds \/ Verify \/ TreeKill

-----------------------------------------------------------------------------
(* The operations of the service's queue                                   *)

\* What validateManagedProcess answers, and the dead adoption it drops.
ValidChild ==    \* mutant: an adopted process is taken for dead
    processes # NoChild
Valid == processes # NoChild \/ (adopted # None /\ Alive(adopted))
Prune ==
    IF adopted # None /\ ~Valid
    THEN adopted' = None /\ Row("crashed", None)
    ELSE UNCHANGED <<adopted, row>>

OpensQueue == up = "up" /\ cmd = NoCmd
UnchangedWorld == UNCHANGED <<outside, live, up, processes, raised, lost>>

Requests == {"start", "stop", "restart", "status", "kill-port"}
Command(kind) ==
    /\ OpensQueue
    /\ CASE kind = "start"   -> /\ cmd' = [NoCmd EXCEPT !.kind = kind, !.pc = "settle"]
                                /\ UNCHANGED <<desired, holder, timer>>
         [] kind = "restart" -> /\ cmd' = [NoCmd EXCEPT !.kind = kind, !.pc = "settle"]
                                /\ MarkDesired(IF desired = "none" THEN "running" ELSE desired, "none")
         [] kind = "status"  -> /\ cmd' = [NoCmd EXCEPT !.kind = kind, !.pc = "validate"]
                                /\ UNCHANGED <<desired, holder, timer>>
         [] kind = "kill-port" -> /\ cmd' = [NoCmd EXCEPT !.kind = kind, !.pc = "port"]
                                  /\ MarkDesired("stopped", "none")
         [] kind = "stop"    -> /\ cmd' = [kind |-> kind, pc |-> "killwait",
                                           cancels |-> (timer # NoTimer \/ Reserved)]
                                /\ MarkDesired("stopped", "none")
    /\ answer' = "none" /\ autos' = 0 /\ raised' = FALSE
    /\ UNCHANGED <<outside, live, up, processes, adopted, spawn, auto, retry, row, lost, faults>>

Settled ==
    /\ cmd.pc = "settle" /\ SpawnSettled
    /\ To(IF cmd.kind = "restart" THEN "env" ELSE "validate")
    /\ UnchangedWorld
    /\ UNCHANGED <<adopted, desired, holder, timer, spawn, auto, retry, row, answer, autos, faults>>

\* start: already running, or the wish is recorded.  restart: first stop it.
\* status only reports, but what it finds gone is dropped all the same.
Validate ==
    /\ cmd.pc = "validate" /\ Prune
    /\ CASE cmd.kind = "restart" /\ Valid ->
              KillBegins /\ UNCHANGED <<spawn, answer, autos>>
         [] cmd.kind = "restart" /\ ~Valid -> Begin(FALSE)
         [] cmd.kind = "status" ->
              /\ cmd' = NoCmd /\ answer' = IF ~Valid /\ adopted # None THEN "pruned" ELSE answer
              /\ UNCHANGED <<desired, holder, timer, spawn, autos>>
         [] cmd.kind \in {"start", "reap"} /\ Valid ->
              Answer(TRUE) /\ UNCHANGED <<desired, holder, timer, spawn, autos>>
         [] OTHER ->
              /\ MarkDesired("running", "cmd") /\ To("env") /\ answer' = "none"
              /\ UNCHANGED <<spawn, autos>>
    /\ UnchangedWorld /\ UNCHANGED <<auto, retry, faults>>

\* resolveInjectEnv, assertStartupEnv and runServiceBuild.  A start that fails
\* here withdraws its wish, a restart leaves everything as it is.
EnvBuild ==
    /\ cmd.pc = "env"
    /\ \/ /\ cmd.kind = "restart" /\ To("validate")
          /\ UNCHANGED <<desired, holder, timer, spawn, answer, autos, faults>>
       \/ /\ cmd.kind # "restart" /\ (cmd.kind = "autostart" \/ Current("cmd"))
          /\ Begin(Managed) /\ UNCHANGED faults
       \/ /\ cmd.kind \in {"start", "reap"} /\ ~Current("cmd")
          /\ MarkDesired("stopped", "none") /\ Answer(FALSE)
          /\ UNCHANGED <<spawn, autos, faults>>
       \/ /\ Fault("build") /\ Answer(FALSE)
          /\ IF cmd.kind \in {"start", "reap"} THEN MarkDesired("stopped", "none")
                                               ELSE UNCHANGED <<desired, holder, timer>>
          /\ UNCHANGED <<spawn, autos>>
    /\ UnchangedWorld /\ UNCHANGED <<adopted, auto, retry, row>>

ReapTickRetries == \* mutant: only entries of the reaper are looked at
    /\ OpensQueue /\ retry > 0 /\ desired = "running"
    /\ cmd' = [NoCmd EXCEPT !.kind = "reap", !.pc = "check"]
    /\ UnchangedWorld
    /\ UNCHANGED <<adopted, desired, holder, timer, spawn, auto, retry, row, answer, autos, faults>>
\* kill-port: whatever holds a declared port is killed.
KillPort ==
    /\ cmd.pc = "port"
    /\ \/ UNCHANGED <<live, lost>>
       \/ \E i \in live : live' = live \ {i} /\ lost' = lost \ {i}
    /\ \E ok \in BOOLEAN : Answer(ok)
    /\ UNCHANGED <<outside, up, processes, raised, adopted, desired, holder, timer, spawn, auto, retry, row, autos, faults>>

\* A tick of the reaper finds an adopted process or an entry of its own.
ReapTick ==
    /\ OpensQueue /\ (adopted # None \/ retry > 0)
    /\ IF desired = "running" THEN cmd' = [NoCmd EXCEPT !.kind = "reap", !.pc = "check"] /\ retry' = retry
                              ELSE cmd' = cmd /\ retry' = 0
    /\ UnchangedWorld
    /\ UNCHANGED <<adopted, desired, holder, timer, spawn, auto, row, answer, autos, faults>>

\* reap: a process that is gone is started again, max_restart times at most.
ReapCheck ==
    /\ cmd.pc = "check" /\ Prune
    /\ IF ~Valid /\ Policy # "no" /\ retry < MaxRestart
       THEN /\ retry' = retry + 1 /\ To("settle") /\ UNCHANGED <<answer, autos>>
       ELSE /\ retry' = IF Valid \/ Policy = "no" THEN 0 ELSE retry
            /\ autos' = IF Valid THEN 0 ELSE autos
            /\ cmd' = NoCmd /\ UNCHANGED answer
    /\ UnchangedWorld /\ UNCHANGED <<desired, holder, timer, spawn, auto, faults>>

QueueStep == Settled \/ Validate \/ EnvBuild \/ KillPort \/ ReapCheck \/ KillStep

-----------------------------------------------------------------------------
(* The exit of a child and the automatic restart                           *)

Die ==
    /\ Fault("die") /\ \E i \in live : live' = live \ {i} /\ lost' = lost \ {i}
    /\ UNCHANGED <<outside, up, memory, row, raised, answer, autos>>

\* child.once('exit') and onExit.
LimitLate == processes.count > MaxRestart   \* mutant: one restart too many
Limit == processes.count + 1 > MaxRestart
ChildExit(clean) ==
    LET again == Policy = "always" \/ (Policy = "on-failure" /\ ~clean)
    IN
    /\ up # "down" /\ processes # NoChild /\ ~Alive(processes.inst)
    /\ processes' = NoChild
    /\ Row(IF processes.intentional \/ clean THEN "stopped" ELSE "crashed", None)
    /\ raised' = (raised \/ (~processes.intentional /\ again /\ Limit))
    /\ timer' = IF ~processes.intentional /\ again /\ ~Limit /\ up = "up" /\ desired = "running"
                THEN processes.count ELSE timer
    /\ answer' = IF answer = "failed" THEN "none" ELSE answer
    /\ UNCHANGED <<outside, live, up, adopted, desired, holder, spawn, auto, cmd, retry, lost, autos, faults>>

TimerFires ==
    /\ timer # NoTimer
    /\ auto' = [pc |-> "build", count |-> timer] /\ holder' = "auto" /\ timer' = NoTimer
    /\ UnchangedWorld
    /\ UNCHANGED <<adopted, desired, spawn, cmd, retry, row, answer, autos, faults>>

\* The build, the check of the generation and reserveSpawn.
AutoRestart ==
    /\ auto.pc = "build"
    /\ \/ Fault("build") /\ auto' = NoAuto /\ Log /\ UNCHANGED <<spawn, autos>>
       \/ /\ ~Current("auto") \/ Managed \/ Reserved
          /\ auto' = NoAuto /\ UNCHANGED <<spawn, answer, autos, faults>>
       \/ /\ Current("auto") /\ ~Managed /\ ~Reserved
          /\ spawn' = [by |-> "auto", pc |-> "port", inst |-> None, count |-> auto.count + 1]
          /\ auto' = [auto EXCEPT !.pc = "spawn"] /\ autos' = autos + 1
          /\ UNCHANGED <<answer, faults>>
    /\ UnchangedWorld
    /\ UNCHANGED <<adopted, desired, holder, timer, cmd, retry, row>>

-----------------------------------------------------------------------------
(* The supervisor's own life                                               *)

\* closeInternal: suspendProcessRestarts; the queue is drained.
Close ==
    /\ up = "up" /\ Fault("close")
    /\ up' = "closing" /\ timer' = NoTimer /\ holder' = "none" /\ retry' = 0
    /\ UNCHANGED <<outside, live, processes, adopted, desired, spawn, auto, cmd, row, raised, history>>

\* The process ends.  A process it had launched but not recorded is lost.
Down ==
    /\ up' = "down" /\ Forget(IF spawn.pc = "launch" THEN {spawn.inst} ELSE {})
    /\ processes' = NoChild /\ adopted' = None /\ desired' = "none" /\ holder' = "none"
    /\ timer' = NoTimer /\ spawn' = NoSpawn /\ auto' = NoAuto /\ cmd' = NoCmd /\ retry' = 0
    /\ UNCHANGED <<outside, live, row, raised, answer, autos>>
Exit  == up = "closing" /\ cmd = NoCmd /\ Down /\ UNCHANGED faults
Crash == up # "down" /\ Fault("crash") /\ Down

\* reconcileProcesses.  A recorded process is adopted if its identity can be
\* verified, and otherwise crossed out; then the owner of the declared port
\* is adopted.
Recorded == row.state \in {"running", "pending"} \/ row.pid # None
Reconcile(kept, owner) ==
    LET pid == IF kept THEN row.pid ELSE owner IN
    /\ adopted' = pid
    /\ row' = IF pid # None THEN [state |-> "running", pid |-> pid]
              ELSE IF Recorded THEN [state |-> "crashed", pid |-> None] ELSE row
    /\ lost' = (lost \cup ({row.pid} \cap live)) \ {pid}
    /\ desired' = IF pid # None THEN "running" ELSE desired
ReconcileRow ==
    \/ Recorded /\ Identity(row.pid, "verified") /\ Reconcile(TRUE, None)
    \/ \E owner \in {None} \cup live :       \* adoptDeclaredPortOwners
         /\ Recorded /\ (Identity(row.pid, "unreadable") \/ Identity(row.pid, "exited"))
         /\ Reconcile(FALSE, owner)
    \/ \E owner \in {None} \cup live :
         ~Recorded /\ Reconcile(FALSE, owner) /\ UNCHANGED faults
Boot ==
    /\ up = "down" /\ up' = "up" /\ ReconcileRow
    /\ \E go \in BOOLEAN :          \* runAutostart
         cmd' = IF go /\ adopted' = None THEN [NoCmd EXCEPT !.kind = "autostart", !.pc = "env"] ELSE NoCmd
    /\ answer' = "none" /\ autos' = 0
    /\ UNCHANGED <<outside, live, processes, holder, timer, spawn, auto, retry, raised>>

Next ==
    \/ SpawnStep \/ QueueStep \/ ReapTick
    \/ \E kind \in Requests : Command(kind)
    \/ \E clean \in BOOLEAN : ChildExit(clean)
    \/ TimerFires \/ AutoRestart
    \/ Die \/ Close \/ Exit \/ Crash \/ Boot

Spec == Init /\ [][Next]_vars
\* Awaits end, exits are delivered, timers fire and the OS service manager
\* starts the supervisor again.
Fairness ==
    /\ WF_vars(SpawnStep) /\ WF_vars(QueueStep) /\ WF_vars(ReapTick)
    /\ WF_vars(\E clean \in BOOLEAN : ChildExit(clean))
    /\ WF_vars(TimerFires) /\ WF_vars(AutoRestart)
    /\ WF_vars(Exit) /\ WF_vars(Boot)
FairSpec == Spec /\ Fairness

-----------------------------------------------------------------------------
(* Properties                                                              *)

TypeOK ==
    /\ outside \in BOOLEAN /\ live \subseteq Insts /\ up \in {"up", "closing", "down"}
    /\ processes \in [inst : Insts \cup {None}, count : 0..MaxRestart, intentional : BOOLEAN]
    /\ adopted \in Insts \cup {None}
    /\ desired \in {"none", "running", "stopped"} /\ holder \in {"none", "cmd", "auto"}
    /\ timer \in 0..NoTimer
    /\ spawn \in [by : {"none", "cmd", "auto"}, inst : Insts \cup {None}, count : 0..MaxRestart,
                  pc : {"none", "port", "prep", "launch", "wait", "verify", "cancel"}]
    /\ auto \in [pc : {"idle", "build", "spawn"}, count : 0..MaxRestart]
    /\ cmd \in [kind : {"none", "start", "stop", "restart", "reap", "autostart", "status", "kill-port"}, cancels : BOOLEAN,
                pc : {"idle", "settle", "validate", "env", "spawn", "check", "port",
                      "killwait", "term", "verify", "tree"}]
    /\ retry \in 0..MaxRestart
    /\ row \in [state : {"stopped", "pending", "running", "crashed"}, pid : Insts \cup {None}]
    /\ raised \in BOOLEAN /\ answer \in {"none", "ok", "stopped", "failed", "pruned"} /\ lost \subseteq Insts
    /\ autos \in Nat /\ faults \in 0..MaxFaults

\* Apart from processes the supervisor has given up with an error, the service
\* never runs twice: not for a restart timer that fires beside a start, a stop that
\* meets a spawn, a cancelled spawn that survives, or a supervisor crash.
NoTwin == \A i, j \in live \ lost : i = j

\* A live process that was not given up is managed, being spawned, or recorded
\* for the next boot, at whatever step the supervisor dies; and what is managed
\* in memory is also in the row, where that boot finds it.
NothingLeaks ==
    /\ \A i \in live : i \in lost \/ Known(i)
    /\ Managed => row.pid = IF processes # NoChild THEN processes.inst ELSE adopted

\* After a stop has answered ok nothing of the service runs and nothing
\* brings it back, until somebody asks for it or a boot takes it up: not the
\* timer, not an automatic restart that was building or spawning, not the reaper.
StopSticks == answer = "stopped" => live \subseteq lost

\* Since the last request came or spawned it, or the reaper last found it
\* healthy, a service is spawned a bounded number of times, although every
\* spawn of the reaper starts a restart count of its own.
AutomaticSpawnsBounded == autos <= MaxRestart * (MaxRestart + 1)

\* A request is answered, whatever spawn or exit it has to wait for.
RequestAnswered == cmd # NoCmd ~> cmd = NoCmd

Gone == \/ processes # NoChild /\ ~Alive(processes.inst)
        \/ adopted # None /\ ~Alive(adopted)
Wanted == up = "up" /\ desired = "running"
Answered ==
    \/ Managed /\ ~Gone                                          \* replaced
    \/ raised \/ answer = "failed" \/ row.state = "stopped"       \* told, or a clean exit
    \/ desired = "stopped" \/ up # "up"                          \* no longer wanted
    \/ cmd = NoCmd /\ adopted = None /\ retry = MaxRestart        \* the reaper's limit
\* A process that is wanted and dies is replaced, unless the limit is reached,
\* an attempt failed, the wish is withdrawn, it had ended cleanly, the
\* supervisor ends, or a status request finds the dead process first.
DeathIsAnswered == Wanted /\ Gone ~> Answered \/ answer = "pruned"

\* The same, whatever is asked meanwhile: the reaper restarts an adopted
\* process that has died.
WantedIsRecovered == Wanted /\ Gone ~> Answered

\* A process whose identity cannot be read is not taken for dead: it stays
\* managed, or recorded.
UnreadableIsKept ==
    [][\A i \in {adopted, row.pid} \cap live \cap live' :
         up' = "up" => i \in {adopted', row'.pid}]_vars
=============================================================================
