--------------------------- MODULE UpdateExclusion ---------------------------
(***************************************************************************)
(* Who may change the repositories and services of a site.  Two processes  *)
(* share one database:                                                     *)
(*                                                                         *)
(*  - the backend runs the accepted operations one by one                  *)
(*    (src/src/federation/operations/runner.ts) and the manual updates     *)
(*    (src/src/update/apply.ts); it restarts itself through the supervisor *)
(*    and settles such an operation after its own boot (self-recovery.ts); *)
(*  - the supervisor runs the daily update (src/src/update/daily/) and     *)
(*    carries out local control requests (supervisor.ts dispatch).         *)
(*                                                                         *)
(* One action is one commit of the database together with the code around  *)
(* it: what separates two actions is an await or a commit, so each process *)
(* can die between any two of them.                                        *)
(***************************************************************************)
EXTENDS Naturals, FiniteSets

CONSTANTS
    NumOps,      \* operations a behaviour may enqueue
    NumApplies,  \* manual updates a behaviour may make
    Controls,    \* local control requests a behaviour may make
    NumDays,     \* days a behaviour may see
    Faults,      \* the kinds of faults that may happen
    MaxFaults    \* how many of them

FaultKinds == {"crash", "torn", "supcrash", "noreply"}

ASSUME BoundsAssumption ==
    /\ NumOps \in Nat /\ NumApplies \in Nat /\ NumDays \in Nat /\ MaxFaults \in Nat
    /\ Faults \subseteq FaultKinds

Ops     == 1..NumOps
Applies == (NumOps + 1)..(NumOps + NumApplies)
Days    == 1..NumDays

VARIABLES
    status,   \* federation_operations: the status per operation, in id order
    phase,    \* per operation: meta.service_recovery.phase
    manual,   \* daily_manual_updates: the ids in the table
    daily,    \* daily_update_runs: the status per day
    kept,     \* the days whose run holds a repository checkpoint
    enabled,  \* daily settings: enabled
    up,       \* the backend process is alive
    stopped,  \* the runner has been stopped for a shutdown
    run,      \* where the runner is: the program point and its operation
    todo,     \* operations recover() still has to settle
    retry,    \* the retry timer of a deferred operation is armed
    apply,    \* per manual update: "new", "busy" or "done"
    sup,      \* the supervisor: "down", "boot", "up" or "closing"
    ask,      \* it has accepted a backend restart it still has to carry out
    renewed,  \* operations whose recovery has seen the supervisor replaced
    ctl,      \* per control request: where it is
    sched,    \* the daily scheduler: the program point and its day
    day,      \* the calendar day; its update is due once it has come
    effects,  \* history: restarts carried out for an operation's recovery
    faults    \* faults injected so far

db      == <<status, phase, manual>>
journal == <<daily, kept, enabled>>
backend == <<up, stopped, run, todo, retry, apply>>
superv  == <<sup, ask, renewed, ctl, sched>>
rest    == <<day, effects, faults>>
vars    == <<db, journal, backend, superv, rest>>

-----------------------------------------------------------------------------
Idle  == [pc |-> "idle", op |-> 0]
Rest  == [pc |-> "idle", day |-> 0]
Final == {"succeeded", "failed"}

Queue == {o \in Ops : status[o] = "queued"}
IsFirst(o, S) == o \in S /\ \A p \in S : o <= p
Active == {d \in Days : daily[d] = "running"}
\* The operations that keep a daily run from beginning.
Unsettled == {o \in Ops : status[o] \in {"queued", "running", "restarting"}}

\* The runner waits for something: other callbacks of the backend can run.
\* Elsewhere it is in the middle of a synchronous segment.
Waiting == run.pc \in {"idle", "exec", "ask", "ready", "replace", "viewer"}

Fault(f) == f \in Faults /\ faults < MaxFaults /\ faults' = faults + 1

Init ==
    /\ status = [o \in Ops |-> "none"] /\ phase = [o \in Ops |-> "none"]
    /\ manual = {}
    /\ daily = [d \in Days |-> "none"] /\ kept = {} /\ enabled = TRUE
    /\ up = FALSE /\ stopped = FALSE /\ run = Idle /\ todo = {} /\ retry = FALSE
    /\ apply = [a \in Applies |-> "new"]
    /\ sup = "down" /\ ask = FALSE /\ renewed = {}
    /\ ctl = [c \in Controls |-> "new"] /\ sched = Rest
    /\ day = 0 /\ faults = 0
    /\ effects = [o \in Ops |-> [supervisor |-> 0, viewer |-> 0]]

To(pc) == run' = [run EXCEPT !.pc = pc]
SetStatus(o, s) == status' = [status EXCEPT ![o] = s]

-----------------------------------------------------------------------------
(* The runner: enqueue, kick, drain, runOne                                *)

KickAlways ==   \* mutant: a kick does not look whether a drain is active
    run' = [pc |-> "drain", op |-> 0]
Kick == run' = IF run = Idle /\ ~stopped THEN [pc |-> "drain", op |-> 0] ELSE run

\* An accepted request is recorded and wakes the runner.
Enqueue(o) ==
    /\ up /\ Waiting
    /\ status[o] = "none" /\ \A p \in Ops : p < o => status[p] # "none"
    /\ SetStatus(o, "queued")
    /\ Kick
    /\ UNCHANGED <<phase, manual, journal, up, stopped, todo, retry, apply, superv, rest>>

RetryTimer ==
    /\ up /\ Waiting /\ retry
    /\ retry' = FALSE
    /\ Kick
    /\ UNCHANGED <<db, journal, up, stopped, todo, apply, superv, rest>>

FinishAndStop ==   \* mutant: the drain ends with the first operation
    /\ up /\ run.pc \in {"finishOk", "finishFail"}
    /\ SetStatus(run.op, IF run.pc = "finishOk" THEN "succeeded" ELSE "failed")
    /\ run' = Idle
    /\ UNCHANGED <<phase, manual, journal, up, stopped, todo, retry, apply, superv, rest>>

FinishStoresKind ==   \* mutant: the outcome's kind is stored, not its result
    /\ up /\ run.pc \in {"finishOk", "finishFail"}
    /\ SetStatus(run.op, "finished")
    /\ run' = [pc |-> IF todo = {} THEN "drain" ELSE "recover", op |-> 0]
    /\ UNCHANGED <<phase, manual, journal, up, stopped, todo, retry, apply, superv, rest>>

\* Nothing queued, or the runner is stopped: the drain ends.
DrainEnds ==
    /\ up /\ run.pc = "drain"
    /\ stopped \/ Queue = {}
    /\ run' = Idle
    /\ UNCHANGED <<db, journal, up, stopped, todo, retry, apply, superv, rest>>

\* The first queued operation takes its row, is deferred while a daily run is
\* active, or finds a row of its own left behind: the insert throws and the
\* drain ends with the operation still queued.
BeginManualUpdate ==
    /\ up /\ run.pc = "drain" /\ ~stopped /\ Queue # {}
    /\ \E o \in Ops :
       /\ IsFirst(o, Queue)
       /\ \/ /\ Active = {} /\ o \notin manual
             /\ manual' = manual \cup {o} /\ run' = [pc |-> "begun", op |-> o]
             /\ retry' = retry
          \/ /\ Active # {}
             /\ run' = Idle /\ retry' = TRUE /\ manual' = manual
          \/ /\ Active = {} /\ o \in manual
             /\ run' = Idle /\ UNCHANGED <<retry, manual>>
    /\ UNCHANGED <<status, phase, journal, up, stopped, todo, apply, superv, rest>>

MarkRunning ==
    /\ up /\ run.pc = "begun"
    /\ SetStatus(run.op, "running") /\ To("exec")
    /\ UNCHANGED <<phase, manual, journal, up, stopped, todo, retry, apply, superv, rest>>

\* The executor returns or throws, or the authorization is denied.
Executed ==
    /\ up /\ run.pc = "exec"
    /\ \/ To("endOk")
       \/ To("endFail")
    /\ UNCHANGED <<db, journal, up, stopped, todo, retry, apply, superv, rest>>

\* selfRestart: the operation is marked before the restart is asked for.
MarkRestarting ==
    /\ up /\ run.pc = "exec"
    /\ SetStatus(run.op, "restarting") /\ To("ask")
    /\ UNCHANGED <<phase, manual, journal, up, stopped, todo, retry, apply, superv, rest>>

\* The supervisor accepts the restart; or it refuses or is not reachable; or
\* it accepts and its reply is lost.
RequestRestart ==
    /\ up /\ run.pc = "ask"
    /\ \/ /\ sup \in {"boot", "up"} /\ Active = {} /\ ask' = TRUE
          /\ \/ To("handedOff") /\ UNCHANGED faults
             \/ Fault("noreply") /\ To("endFail")
       \/ /\ sup \in {"down", "closing"} \/ Active # {}
          /\ To("endFail") /\ UNCHANGED <<ask, faults>>
    /\ UNCHANGED <<db, journal, up, stopped, todo, retry, apply, sup, renewed, ctl, sched,
                   day, effects>>

Ends == [handedOff |-> "parked", endOk |-> "finishOk", endFail |-> "finishFail"]

EndManualUpdate ==
    /\ up /\ run.pc \in DOMAIN Ends
    /\ manual' = manual \ {run.op} /\ To(Ends[run.pc])
    /\ UNCHANGED <<status, phase, journal, up, stopped, todo, retry, apply, superv, rest>>

\* A handed-off restart ends the drain, whatever is still queued.
HandedOff ==
    /\ up /\ run.pc = "parked"
    /\ run' = Idle
    /\ UNCHANGED <<db, journal, up, stopped, todo, retry, apply, superv, rest>>

\* finishOperation: recover() goes on with the next restarted operation, a
\* drain with the queue.
FinishOperation ==
    /\ up /\ run.pc \in {"finishOk", "finishFail"}
    /\ SetStatus(run.op, IF run.pc = "finishOk" THEN "succeeded" ELSE "failed")
    /\ run' = [pc |-> IF todo = {} THEN "drain" ELSE "recover", op |-> 0]
    /\ UNCHANGED <<phase, manual, journal, up, stopped, todo, retry, apply, superv, rest>>

RunnerNext ==
    \/ RetryTimer \/ DrainEnds \/ BeginManualUpdate \/ MarkRunning \/ Executed
    \/ MarkRestarting \/ RequestRestart \/ EndManualUpdate \/ HandedOff
    \/ FinishOperation

-----------------------------------------------------------------------------
(* The backend's boot: recover(), and recoverSelfService for an operation  *)
(* that restarted it.  Each phase is durable before its side effect.       *)

RequeueInterrupted ==   \* mutant: an interrupted operation is queued again
    [o \in Ops |-> IF status[o] = "running" THEN "queued" ELSE status[o]]
Interrupted == [o \in Ops |-> IF status[o] = "running" THEN "failed" ELSE status[o]]

\* Operations left running are failed, restarted ones are to be settled.
BackendBoot ==
    /\ ~up /\ sup \in {"boot", "up"}
    /\ up' = TRUE /\ stopped' = FALSE
    /\ status' = Interrupted
    /\ todo' = {o \in Ops : status[o] = "restarting"}
    /\ run' = [pc |-> IF todo' = {} THEN "drain" ELSE "recover", op |-> 0]
    /\ UNCHANGED <<phase, manual, journal, retry, apply, superv, rest>>

\* The version that booted is not the expected one, or it is.
RecoverNextOp ==
    /\ up /\ run.pc = "recover"
    /\ \E o \in Ops :
       /\ IsFirst(o, todo) /\ todo' = todo \ {o}
       /\ \/ run' = [pc |-> "finishFail", op |-> o]
          \/ run' = [pc |-> IF phase[o] = "none" THEN "ready" ELSE "replace", op |-> o]
    /\ UNCHANGED <<db, journal, up, stopped, retry, apply, superv, rest>>

SetPhase(p) == phase' = [phase EXCEPT ![run.op] = p]
Reachable == sup \in {"boot", "up"}

SupervisorIssuedLate ==   \* mutant: the intent is recorded after the restart
    /\ up /\ run.pc = "ready" /\ Reachable /\ ~stopped
    /\ To("issued") /\ phase' = phase /\ renewed' = renewed \ {run.op}
    /\ UNCHANGED <<status, manual, journal, up, stopped, todo, retry, apply, sup, ask,
                   ctl, sched, rest>>

\* "Durable intent before mutation": the old supervisor is noted, then its OS
\* service is restarted.  (The catalog is taken to name an ExView service;
\* without one the viewer phases fall away.)
SupervisorIssued ==
    /\ up /\ run.pc = "ready" /\ Reachable /\ ~stopped
    /\ SetPhase("supervisor-issued") /\ To("issued")
    /\ renewed' = renewed \ {run.op}
    /\ UNCHANGED <<status, manual, journal, up, stopped, todo, retry, apply, sup, ask,
                   ctl, sched, rest>>

\* What the supervisor loses with its process.
SupervisorGone ==
    /\ sup' = "down" /\ ask' = FALSE /\ sched' = Rest
    /\ ctl' = [c \in Controls |-> IF ctl[c] = "new" THEN "new" ELSE "done"]

RestartInstalledSupervisor ==
    /\ up /\ run.pc = "issued"
    /\ SupervisorGone /\ renewed' = renewed
    /\ effects' = [effects EXCEPT ![run.op].supervisor = @ + 1]
    /\ To("replace") \/ To("finishFail")
    /\ UNCHANGED <<db, journal, up, stopped, todo, retry, apply, day, faults>>

SupervisorVerifiedTrusts ==   \* mutant: an issued viewer restart counts as done
    /\ up /\ run.pc = "replace" /\ Reachable /\ run.op \in renewed
    /\ \/ phase[run.op] \in {"viewer-issued", "viewer-verified"}
          /\ To("finishOk") /\ UNCHANGED phase
       \/ phase[run.op] \in {"supervisor-issued", "supervisor-verified"}
          /\ SetPhase("supervisor-verified") /\ To("verified")
    /\ UNCHANGED <<status, manual, journal, up, stopped, todo, retry, apply, superv, rest>>

\* The replacement is verified; a viewer restart whose result is unknown is
\* not repeated.
SupervisorVerified ==
    /\ up /\ run.pc = "replace" /\ Reachable /\ run.op \in renewed
    /\ \/ phase[run.op] = "viewer-issued" /\ To("finishFail") /\ UNCHANGED phase
       \/ phase[run.op] = "viewer-verified" /\ To("finishOk") /\ UNCHANGED phase
       \/ phase[run.op] \in {"supervisor-issued", "supervisor-verified"}
          /\ SetPhase("supervisor-verified") /\ To("verified")
    /\ UNCHANGED <<status, manual, journal, up, stopped, todo, retry, apply, superv, rest>>

ViewerIssued ==
    /\ up /\ run.pc = "verified" /\ ~stopped
    /\ SetPhase("viewer-issued") /\ To("viewer")
    /\ UNCHANGED <<status, manual, journal, up, stopped, todo, retry, apply, superv, rest>>

RefreshViewer ==
    /\ up /\ run.pc = "viewer"
    /\ effects' = [effects EXCEPT ![run.op].viewer = @ + 1]
    /\ To("refreshed")
    /\ UNCHANGED <<db, journal, up, stopped, todo, retry, apply, superv, day, faults>>

ViewerVerified ==
    /\ up /\ run.pc = "refreshed"
    /\ \/ SetPhase("viewer-verified") /\ To("finishOk")
       \/ phase' = phase /\ To("finishFail")
    /\ UNCHANGED <<status, manual, journal, up, stopped, todo, retry, apply, superv, rest>>

\* A wait of the recovery times out, is interrupted by a stop, or the viewer
\* cannot be reached.
RecoveryFails ==
    /\ up
    /\ \/ run.pc \in {"ready", "issued", "replace", "viewer"}
       \/ run.pc = "verified" /\ stopped
    /\ To("finishFail")
    /\ UNCHANGED <<db, journal, up, stopped, todo, retry, apply, superv, rest>>

RecoveryNext ==
    \/ RecoverNextOp \/ SupervisorIssued \/ RestartInstalledSupervisor
    \/ SupervisorVerified \/ ViewerIssued \/ RefreshViewer \/ ViewerVerified
    \/ RecoveryFails

-----------------------------------------------------------------------------
(* The other changes of the backend process                                *)

\* applyUpdate: the row is taken and given back around the whole update.
ApplyBegin(a) ==
    /\ up /\ Waiting /\ apply[a] = "new"
    /\ Active = {}
    /\ manual' = manual \cup {a} /\ apply' = [apply EXCEPT ![a] = "busy"]
    /\ UNCHANGED <<status, phase, journal, up, stopped, run, todo, retry, superv, rest>>

ApplyEnd(a) ==
    /\ up /\ Waiting /\ apply[a] = "busy"
    /\ manual' = manual \ {a} /\ apply' = [apply EXCEPT ![a] = "done"]
    /\ UNCHANGED <<status, phase, journal, up, stopped, run, todo, retry, superv, rest>>

\* The supervisor stops the backend to restart it, because it was asked to, or
\* because the daily update is at Excubitor itself.  The backend's shutdown
\* stops the runner first.
Mutating == sched.pc \in {"update", "rollback"}
StopBackend ==
    /\ up /\ Waiting /\ ~stopped
    /\ \/ Reachable /\ ask /\ ask' = FALSE
       \/ Mutating /\ ask' = ask
    /\ stopped' = TRUE
    /\ UNCHANGED <<db, journal, up, run, todo, retry, apply, sup, renewed, ctl, sched, rest>>

\* The process is gone with its memory; rows and statuses stay as they are.
BackendGone ==
    /\ up' = FALSE /\ stopped' = FALSE /\ run' = Idle /\ todo' = {} /\ retry' = FALSE
    /\ apply' = [a \in Applies |-> IF apply[a] = "busy" THEN "done" ELSE apply[a]]
    /\ UNCHANGED <<db, journal, superv, day, effects>>

BackendExit == up /\ stopped /\ Waiting /\ BackendGone /\ UNCHANGED faults
\* A crash hits the backend while it waits, or between two commits.
BackendCrash ==
    /\ up /\ BackendGone
    /\ \/ Waiting /\ Fault("crash")
       \/ ~Waiting /\ Fault("torn")

BackendNext ==
    \/ BackendBoot \/ StopBackend \/ BackendExit \/ BackendCrash
    \/ \E a \in Applies : ApplyBegin(a) \/ ApplyEnd(a)
    \/ \E o \in Ops : Enqueue(o)

-----------------------------------------------------------------------------
(* The supervisor: boot, local control requests, shutdown                  *)

\* Rows of interrupted manual updates are cleared "only during supervisor boot".
SupervisorBoot ==
    /\ sup = "down"
    /\ sup' = "boot" /\ manual' = {}
    /\ renewed' = {o \in Ops : phase[o] # "none"}
    /\ UNCHANGED <<status, phase, journal, backend, ask, ctl, sched, rest>>

\* The scheduler rests, or recovers an active run.
Resume == IF Active = {} THEN {Rest} ELSE {[pc |-> "await", day |-> d] : d \in Active}

\* catalogReady resolves and the daily scheduler starts: an interrupted run is
\* recovered first.
CatalogReady ==
    /\ sup = "boot"
    /\ sup' = "up" /\ sched' \in Resume
    /\ UNCHANGED <<db, journal, backend, ask, renewed, ctl, rest>>

\* dispatch: the daily run is looked up; then a request for a service awaits
\* the catalog, one for Excubitor does not.
ControlArrives(c) ==
    /\ sup \in {"boot", "up"} /\ ctl[c] = "new"
    /\ Active = {}
    /\ \/ ctl' = [ctl EXCEPT ![c] = "inflight"]
       \/ sup = "boot" /\ ctl' = [ctl EXCEPT ![c] = "parked"]
    /\ UNCHANGED <<db, journal, backend, sup, ask, renewed, sched, rest>>

ControlResumes(c) ==
    /\ sup \in {"up", "closing"} /\ ctl[c] = "parked"
    /\ ctl' = [ctl EXCEPT ![c] = IF sup = "up" THEN "inflight" ELSE "done"]
    /\ UNCHANGED <<db, journal, backend, sup, ask, renewed, sched, rest>>

ControlDone(c) ==
    /\ ctl[c] = "inflight"
    /\ ctl' = [ctl EXCEPT ![c] = "done"]
    /\ UNCHANGED <<db, journal, backend, sup, ask, renewed, sched, rest>>

Drained == \A c \in Controls : ctl[c] # "inflight"

\* close(): a closing supervisor lets the active run end and the operations
\* drain before it gives up its ownership.
SupervisorClose ==
    /\ sup = "up" /\ Fault("supcrash")
    /\ sup' = "closing" /\ ask' = FALSE
    /\ UNCHANGED <<db, journal, backend, renewed, ctl, sched, day, effects>>

SupervisorExit ==
    /\ sup = "closing" /\ sched = Rest /\ Drained
    /\ SupervisorGone
    /\ UNCHANGED <<db, journal, backend, renewed, rest>>

SupervisorCrash ==
    /\ sup # "down" /\ Fault("supcrash")
    /\ SupervisorGone
    /\ UNCHANGED <<db, journal, backend, renewed, day, effects>>

SupervisorNext ==
    \/ SupervisorBoot \/ CatalogReady \/ SupervisorClose \/ SupervisorExit
    \/ SupervisorCrash
    \/ \E c \in Controls : ControlArrives(c) \/ ControlResumes(c) \/ ControlDone(c)

-----------------------------------------------------------------------------
(* The daily scheduler                                                     *)

NextDay ==
    /\ day < NumDays
    /\ day' = day + 1
    /\ UNCHANGED <<db, journal, backend, superv, effects, faults>>

BeginIgnoresQueued ==   \* mutant: queued operations do not hold a daily run off
    /\ sup = "up" /\ sched = Rest /\ day # 0 /\ enabled
    /\ Active = {} /\ {o \in Unsettled : status[o] # "queued"} = {} /\ manual = {}
    /\ daily[day] = "none"
    /\ daily' = [daily EXCEPT ![day] = "running"]
    /\ sched' = [pc |-> "drain", day |-> day]
    /\ UNCHANGED <<db, kept, enabled, backend, sup, ask, renewed, ctl, rest>>

\* tick: the update of today is due; beginDailyRun checks and inserts in one
\* transaction.
BeginDailyRun ==
    /\ sup = "up" /\ sched = Rest /\ day # 0 /\ enabled
    /\ Active = {} /\ Unsettled = {} /\ manual = {}
    /\ daily[day] = "none"
    /\ daily' = [daily EXCEPT ![day] = "running"]
    /\ sched' = [pc |-> "drain", day |-> day]
    /\ UNCHANGED <<db, kept, enabled, backend, sup, ask, renewed, ctl, rest>>

\* tick: a run that an administrator asked to recover again.
TickRecovers ==
    /\ sup = "up" /\ sched = Rest /\ Active # {}
    /\ sched' \in Resume
    /\ UNCHANGED <<db, journal, backend, sup, ask, renewed, ctl, rest>>

DrainControls ==
    /\ sched.pc \in {"drain", "await"} /\ Drained
    /\ sched' = [sched EXCEPT !.pc = IF @ = "drain" THEN "update" ELSE "rollback"]
    /\ UNCHANGED <<db, journal, backend, sup, ask, renewed, ctl, rest>>

\* A repository transaction persists its checkpoint, and clears it when the
\* repository is updated or rolled back.
Checkpoint ==
    /\ sched.pc = "update"
    /\ kept' = IF sched.day \in kept THEN kept \ {sched.day} ELSE kept \cup {sched.day}
    /\ UNCHANGED <<db, daily, enabled, backend, superv, rest>>

\* finish: a run without a checkpoint ends.
Finish ==
    /\ \/ sched.pc = "update" /\ sched.day \notin kept
          /\ \E s \in Final : daily' = [daily EXCEPT ![sched.day] = s]
       \/ sched.pc = "rollback"
          /\ daily' = [daily EXCEPT ![sched.day] = "failed"]
    /\ kept' = kept \ {sched.day} /\ sched' = Rest
    /\ UNCHANGED <<db, enabled, backend, sup, ask, renewed, ctl, rest>>

\* failRecovery: the daily update is switched off first, ...
DisableDaily ==
    /\ Mutating /\ sched.day \in kept
    /\ enabled' = FALSE /\ sched' = [sched EXCEPT !.pc = "broken"]
    /\ UNCHANGED <<db, daily, kept, backend, sup, ask, renewed, ctl, rest>>

\* ... then the run fails and keeps its checkpoint.
FailRecovery ==
    /\ sched.pc = "broken"
    /\ daily' = [daily EXCEPT ![sched.day] = "failed"] /\ sched' = Rest
    /\ UNCHANGED <<db, kept, enabled, backend, sup, ask, renewed, ctl, rest>>

RetryIgnoresRuns ==   \* mutant: a recovery is retried beside the run of another day
    /\ up /\ Waiting /\ faults < MaxFaults /\ faults' = faults + 1
    /\ manual = {} /\ Unsettled = {}
    /\ \E d \in kept : daily[d] = "failed" /\ daily' = [daily EXCEPT ![d] = "running"]
    /\ UNCHANGED <<db, kept, enabled, backend, superv, day, effects>>

\* retryDailyRecovery, asked for at the backend; it counts against the bound
\* on faults.
RetryDailyRecovery ==
    /\ up /\ Waiting /\ faults < MaxFaults /\ faults' = faults + 1
    /\ Active = {} /\ manual = {} /\ Unsettled = {}
    /\ \E d \in kept : daily[d] = "failed" /\ daily' = [daily EXCEPT ![d] = "running"]
    /\ UNCHANGED <<db, kept, enabled, backend, superv, day, effects>>

\* The setting is saved again, unless a failed recovery needs attention.
Enable ==
    /\ up /\ Waiting /\ ~enabled
    /\ \A d \in kept : daily[d] # "failed"
    /\ enabled' = TRUE
    /\ UNCHANGED <<db, daily, kept, backend, superv, rest>>

DailyNext ==
    \/ NextDay \/ BeginDailyRun \/ TickRecovers \/ DrainControls \/ Checkpoint
    \/ Finish \/ DisableDaily \/ FailRecovery \/ RetryDailyRecovery \/ Enable

Next == RunnerNext \/ RecoveryNext \/ BackendNext \/ SupervisorNext \/ DailyNext

\* Each process makes progress: the runner and its timer, the boot of the
\* backend by the supervisor and of the supervisor by the operating system,
\* accepted restarts, and the scheduler's interval.  A run has finitely many
\* repositories, so it comes to an end however often it sets a checkpoint.
Fairness ==
    /\ WF_vars(RunnerNext) /\ WF_vars(RecoveryNext)
    /\ WF_vars(BackendBoot) /\ WF_vars(BackendExit) /\ WF_vars(StopBackend /\ ask)
    /\ \A a \in Applies : WF_vars(ApplyEnd(a))
    /\ WF_vars(SupervisorBoot) /\ WF_vars(CatalogReady) /\ WF_vars(SupervisorExit)
    /\ \A c \in Controls : WF_vars(ControlDone(c))
    /\ WF_vars(TickRecovers) /\ WF_vars(DrainControls) /\ WF_vars(FailRecovery)
    /\ SF_vars(Finish \/ DisableDaily)

Spec     == Init /\ [][Next]_vars
FairSpec == Spec /\ Fairness

-----------------------------------------------------------------------------
(* Properties                                                              *)

Statuses == {"none", "queued", "running", "restarting"} \cup Final
Phases == {"none", "supervisor-issued", "supervisor-verified", "viewer-issued",
           "viewer-verified"}
RunPcs == {"idle", "drain", "begun", "exec", "ask", "handedOff", "endOk", "endFail",
           "parked", "finishOk", "finishFail", "recover", "ready", "issued", "replace",
           "verified", "viewer", "refreshed"}
SchedPcs == {"idle", "drain", "update", "await", "rollback", "broken"}

\* The tables, both processes and the history keep their types.
TypeOK ==
    /\ status \in [Ops -> Statuses] /\ phase \in [Ops -> Phases]
    /\ manual \subseteq Ops \cup Applies
    /\ daily \in [Days -> {"none", "running"} \cup Final]
    /\ kept \subseteq Days /\ enabled \in BOOLEAN
    /\ up \in BOOLEAN /\ stopped \in BOOLEAN /\ retry \in BOOLEAN
    /\ run \in [pc : RunPcs, op : Ops \cup {0}] /\ todo \subseteq Ops
    /\ apply \in [Applies -> {"new", "busy", "done"}]
    /\ sup \in {"down", "boot", "up", "closing"} /\ ask \in BOOLEAN
    /\ renewed \subseteq Ops
    /\ ctl \in [Controls -> {"new", "parked", "inflight", "done"}]
    /\ sched \in [pc : SchedPcs, day : Days \cup {0}]
    /\ day \in Days \cup {0} /\ faults \in 0..MaxFaults
    /\ effects \in [Ops -> [supervisor : Nat, viewer : Nat]]

\* While a daily run changes repositories and services no accepted operation
\* is being carried out or settled, although the two processes share only the
\* tables, and a supervisor boot clears the rows of running operations.
NoOperationOverlap == Mutating => run.op = 0

\* Manual updates are excluded from a daily run as well.
NoApplyOverlap == Mutating => \A a \in Applies : apply[a] # "busy"

\* Local control requests are excluded from a daily run as well.
NoControlOverlap == Mutating => Drained

\* The scheduler works on the one active run, and no second one is active.
OneActiveRun ==
    /\ \A d, e \in Active : d = e
    /\ sched # Rest => sched.day \in Active

\* An operation is started at most once and settled at most once: not again
\* after a crash, a restart or a late answer.
RunsAtMostOnce ==
    [][\A o \in Ops :
        /\ status[o] \in {"running", "restarting"} => status'[o] # "queued"
        /\ status[o] \in Final => status'[o] = status[o]]_vars

\* Operations are carried out one at a time, across crashes: none starts while
\* another one is recorded as running.
OneAtATime ==
    [][\A o, p \in Ops :
        status[o] = "queued" /\ status'[o] = "running" => status[p] # "running"]_vars

\* "Never reissue an ambiguous restart": for one operation the supervisor and
\* the viewer are restarted at most once, wherever the backend dies.
RestartsIssuedOnce ==
    \A o \in Ops : effects[o].supervisor <= 1 /\ effects[o].viewer <= 1

\* A restart that succeeded did refresh the viewer.
SuccessIsComplete ==
    [][\A o \in Ops : status[o] = "restarting" /\ status'[o] = "succeeded" =>
          effects[o].viewer = 1]_vars

\* "The remaining requests continue after the restart": none is started while
\* an operation is restarting the backend.
QueueWaitsForRestart ==
    [][\A o, p \in Ops :
        status[o] = "queued" /\ status'[o] = "running" => status[p] # "restarting"]_vars

\* A site whose recovery failed stays switched off.
BrokenSiteStaysOff == (\E d \in kept : daily[d] = "failed") => ~enabled

\* "Excubitor restarts and continues where it was": an accepted operation gets
\* its turn, unless one before it is still restarting the backend.
OpGetsItsTurn == \A o \in Ops :
    status[o] = "queued" ~> status[o] # "queued" \/ \E p \in Ops : status[p] = "restarting"
=============================================================================
