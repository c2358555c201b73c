------------------------- MODULE BackendController -------------------------
(***************************************************************************)
(* The supervisor's lifecycle controller of the Excubitor backend          *)
(* (src/src/local-control/excubitor-backend.ts), the durable status slot   *)
(* it keeps through the supervisor's state store, and the operating system *)
(* it acts on.  The backend is spawned detached: it survives the death of  *)
(* the supervisor, and the next supervisor has to find it again.           *)
(*                                                                         *)
(* One action is one uninterrupted segment of the code: what runs between  *)
(* two awaits.  Exit events, timers, monitor ticks and status writes       *)
(* interleave between the segments, and the supervisor can die anywhere.   *)
(*                                                                         *)
(* An instance is one launch attempt: its number stands for the random     *)
(* token reserved for it and for the pid it gets (pid reuse is not         *)
(* modelled); 0 is null.                                                   *)
(***************************************************************************)
EXTENDS Naturals, Sequences

CONSTANTS
    N,            \* launch attempts a behaviour may make
    Threshold,    \* failed health checks in a row before the monitor acts
    Faults,       \* the kinds of faults the environment may inject
    MaxFaults,    \* how many faults a behaviour may contain
    MaxCommands   \* how many operator commands a behaviour may contain

FaultKinds == {"crash", "die", "hang", "slow", "write", "kill", "spawn"}

ASSUME BoundsAssumption ==
    /\ N \in Nat \ {0}
    /\ Threshold \in Nat \ {0}
    /\ Faults \subseteq FaultKinds
    /\ MaxFaults \in Nat
    /\ MaxCommands \in Nat

VARIABLES
    os,         \* per instance: what the operating system knows of the process
    last,       \* launch tokens drawn so far
    child,      \* this.child: the instance this supervisor spawned
    adopted,    \* this.adoptedPid: the instance an earlier supervisor spawned
    token,      \* this.instanceToken
    state,      \* this.state
    desired,    \* this.desiredState
    mon,        \* the monitor interval whose generation is current
    ochk,       \* the owned health check in flight
    achk,       \* the adopted identity check in flight
    misses,     \* failed checks in a row of the current monitor
    timer,      \* this.restartTimer is armed
    preserving, \* this.preserving
    op,         \* the lifecycle operation that runs
    lq,         \* lifecycle operations that wait behind it (lifecycleTail)
    sq,         \* status snapshots still to be written (statusTail)
    disk,       \* the durable excubitor slot of supervisor-state.json
    unsaved,    \* the slot in memory when its last write failed, or NoRecord
    published,  \* history: instances whose pid has been in the durable slot
    up,         \* the supervisor process is alive
    closing,    \* orderly shutdown: "no", "asked" or "kept"
    prev,       \* the snapshot recover() was called with
    faults,     \* faults injected so far
    cmds        \* commands given so far

host   == <<os, last>>
ident  == <<child, adopted, token>>
phase  == <<state, desired>>
watch  == <<mon, ochk, achk, misses>>
sched  == <<timer, preserving>>
store  == <<disk, unsaved, published>>
sup    == <<up, closing, prev>>
budget == <<faults, cmds>>
vars   == <<host, ident, phase, watch, sched, op, lq, sq, store, sup, budget>>

-----------------------------------------------------------------------------
Inst   == 1..N
Ref    == 0..N
States == {"stopped", "starting", "running", "stopping", "restarting", "crashed"}
Kinds  == {"start", "timer", "stop", "restart", "preserve",
           "ownedKill", "adoptedStop"}
Commands == {"start", "stop", "restart"}

\* What one status write carries; restart counters, exit codes and messages
\* steer delays and wording only and are left out.
Snapshots == [state : States, desired : {"none", "running", "stopped"},
              pid : Ref, token : Ref]
NoRecord  == [state |-> "stopped", desired |-> "none", pid |-> 0, token |-> 0]

Live(i)    == i \in Inst /\ os[i] \in {"booting", "serving", "hung"}
Serving(i) == i \in Inst /\ os[i] = "serving"
PortHeld   == \E i \in Inst : os[i] \in {"serving", "hung"}
Pid        == IF child # 0 THEN child ELSE adopted

\* Where the running operation is suspended.
Idle == [k |-> "none", pc |-> "idle", tgt |-> 0, io |-> "none"]
NoCheck == [ph |-> "idle", inst |-> 0, fresh |-> FALSE, io |-> "none"]

\* A readiness wait may time out on a live process; not counted as a fault.
Slow == "slow" \in Faults /\ UNCHANGED budget
\* A fault of the given kind happens now.
Fault(f) == /\ f \in Faults
            /\ faults < MaxFaults
            /\ faults' = faults + 1
            /\ cmds' = cmds

Init ==
    /\ os = [i \in Inst |-> "none"] /\ last = 0
    /\ child = 0 /\ adopted = 0 /\ token = 0
    /\ state = "stopped" /\ desired = "stopped"
    /\ mon = "none" /\ ochk = NoCheck /\ achk = NoCheck /\ misses = 0
    /\ timer = FALSE /\ preserving = FALSE
    /\ op = Idle /\ lq = << >> /\ sq = << >>
    /\ disk = NoRecord /\ unsaved = NoRecord /\ published = {}
    /\ up = FALSE /\ closing = "no" /\ prev = NoRecord
    /\ faults = 0 /\ cmds = 0

-----------------------------------------------------------------------------
(* Building blocks of the segments.                                        *)

\* emitStatus(): snapshot the fields as they are at the end of the segment and
\* queue the write; w names who awaits it ("op", "achk" or nobody).
Emit(w) == sq' = Append(sq,
    [w |-> w, state |-> state', desired |-> desired',
     pid |-> IF child' # 0 THEN child' ELSE adopted', token |-> token'])

Go(pc, io) == op' = [op EXCEPT !.pc = pc, !.io = io]
\* The operation queues a snapshot and suspends until it is written.
EmitThen(pc) == Emit("op") /\ Go(pc, "wait")
EmitFor(pc, i) == Emit("op") /\ op' = [op EXCEPT !.pc = pc, !.tgt = i, !.io = "wait"]
\* The operation suspends on a health probe; the answer is the truth now.
ProbeThen(pc, i) ==
    /\ op' = [op EXCEPT !.pc = pc, !.tgt = i,
                        !.io = IF Serving(i) THEN "hit" ELSE "miss"]
\* The operation signals instance i and suspends until it exits.
TerminateThen(pc, i) == op' = [op EXCEPT !.pc = pc, !.tgt = i, !.io = "none"]

\* Timers, events and answers are delivered between the promise continuations,
\* never in the middle of a chain of them.
Ready == {"return", "throw", "recover", "start", "stop", "restart", "preserve",
          "ownedKill", "adoptedStop"}
Quiet == up /\ op.pc \notin Ready /\ (op = Idle => lq = << >>)

At(pc) == up /\ op.pc = pc
Written(pc)  == At(pc) /\ op.io = "ok"
Rejected(pc) == At(pc) /\ op.io = "fail"

\* ++monitorGeneration: whatever check or interval holds the old generation
\* returns at its first guard, which is the same as there being none.
NewGenerationKeepsMisses(m) ==   \* mutant: the failure counter is not reset
    /\ mon' = m /\ misses' = misses
    /\ ochk' = [ochk EXCEPT !.fresh = FALSE]
    /\ achk' = [achk EXCEPT !.fresh = FALSE]
NewGeneration(m) ==
    /\ mon' = m
    /\ ochk' = [ochk EXCEPT !.fresh = FALSE]
    /\ achk' = [achk EXCEPT !.fresh = FALSE]
    /\ misses' = 0

ScheduleRestart ==
    /\ timer' = (timer \/ (~preserving /\ desired' = "running"))
    /\ preserving' = preserving

ClearAdopted == adopted' = 0 /\ token' = 0 /\ child' = child

-----------------------------------------------------------------------------
(* recover(): find the backend an earlier supervisor left, or start one.   *)

Recover ==
    /\ At("recover")
    /\ prev.desired # "stopped"
    /\ UNCHANGED <<host, ident, phase, watch, sched, lq, sq, store, sup, budget>>
    /\ \/ prev.pid # 0 /\ prev.token # 0 /\ Live(prev.pid)
          /\ ProbeThen("adoptProbe", prev.pid)
       \/ ~(prev.pid # 0 /\ prev.token # 0 /\ Live(prev.pid))
          /\ Go(IF prev.token # 0 /\ prev.state = "starting" /\ prev.pid = 0
                THEN "waitIdentity" ELSE "start", "none")

\* acceptAdoptedIdentity, up to its status write.
Accept(i) ==
    /\ child' = 0 /\ adopted' = i /\ token' = i
    /\ state' = "running" /\ desired' = "running"
    /\ EmitThen("adoptAccept")

AdoptProbe ==
    /\ At("adoptProbe")
    /\ UNCHANGED <<host, watch, sched, lq, store, sup, budget>>
    /\ \/ op.io = "hit" /\ Accept(prev.pid)
       \/ op.io = "miss" /\ Go(IF Live(prev.pid) THEN "waitIdentity" ELSE "start", "none")
          /\ UNCHANGED <<ident, phase, sq>>

\* The adoption is durable: watch the adopted pid.
Adopted ==
    /\ Written("adoptAccept")
    /\ NewGeneration("adopted")
    /\ Go("return", "none")
    /\ UNCHANGED <<host, ident, phase, sched, lq, sq, store, sup, budget>>

\* waitForPersistedIdentity: the reserved token shows up at /health, ...
IdentityFound ==
    /\ At("waitIdentity")
    /\ Serving(prev.token) /\ prev.pid \in {0, prev.token}
    /\ Accept(prev.token)
    /\ UNCHANGED <<host, watch, sched, lq, store, sup, budget>>

\* ... or the persisted pid exits, ...
IdentityGone ==
    /\ At("waitIdentity")
    /\ prev.pid # 0 /\ ~Live(prev.pid)
    /\ token' = 0 /\ Go("start", "none")
    /\ UNCHANGED <<host, child, adopted, phase, watch, sched, lq, sq, store, sup, budget>>

\* ... or the readiness timeout elapses with nothing known to be alive, ...
IdentityAbsent ==
    /\ At("waitIdentity")
    /\ prev.pid = 0 /\ ~Serving(prev.token)
    /\ IF Live(prev.token) THEN Slow ELSE UNCHANGED budget
    /\ token' = 0 /\ Go("start", "none")
    /\ UNCHANGED <<host, child, adopted, phase, watch, sched, lq, sq, store, sup>>

\* ... or it elapses while the persisted pid is alive: replacing is refused.
IdentityUnverified ==
    /\ At("waitIdentity")
    /\ prev.pid # 0 /\ Live(prev.pid) /\ ~Serving(prev.pid)
    /\ Slow
    /\ adopted' = prev.pid /\ token' = prev.token /\ child' = child
    /\ state' = "crashed" /\ desired' = "running"
    /\ EmitThen("recoverRefuse")
    /\ UNCHANGED <<host, watch, sched, lq, store, sup>>

RecoverRefuse ==
    /\ Written("recoverRefuse")
    /\ NewGeneration("adopted")
    /\ Go("throw", "none")
    /\ UNCHANGED <<host, ident, phase, sched, lq, sq, store, sup, budget>>

\* recoverStopped: the last supervisor was told to stop the backend.
RecoverStopped ==
    /\ At("recover")
    /\ prev.desired = "stopped"
    /\ NewGeneration("none")
    /\ desired' = "stopped" /\ timer' = FALSE /\ preserving' = preserving
    /\ adopted' = 0 /\ token' = 0 /\ child' = child
    /\ IF prev.pid # 0 /\ prev.token # 0 /\ Live(prev.pid)
       THEN Go("waitStopped", "none") /\ UNCHANGED <<state, sq>>
       ELSE state' = "stopped" /\ EmitThen("recoverEnd")
    /\ UNCHANGED <<host, lq, store, sup, budget>>

\* The persisted pid is verified: the stopped intent is persisted before it
\* is terminated.
StoppedFound ==
    /\ At("waitStopped")
    /\ Serving(prev.pid) /\ prev.pid = prev.token
    /\ adopted' = prev.pid /\ token' = prev.token /\ child' = child
    /\ state' = "stopping" /\ desired' = desired
    /\ EmitThen("recoverStopping")
    /\ UNCHANGED <<host, watch, sched, lq, store, sup, budget>>

StoppedGone ==
    /\ At("waitStopped")
    /\ ~Live(prev.pid)
    /\ state' = "stopped" /\ desired' = desired /\ token' = 0
    /\ child' = child /\ adopted' = adopted
    /\ EmitThen("recoverEnd")
    /\ UNCHANGED <<host, watch, sched, lq, store, sup, budget>>

StoppedUnverifiedDiscards ==   \* mutant: the unverified pid is discarded as stopped
    /\ At("waitStopped")
    /\ Live(prev.pid) /\ ~Serving(prev.pid)
    /\ Slow
    /\ UNCHANGED ident
    /\ state' = "stopped" /\ desired' = desired
    /\ EmitThen("recoverEnd")
    /\ UNCHANGED <<host, watch, sched, lq, store, sup>>

StoppedUnverified ==
    /\ At("waitStopped")
    /\ Live(prev.pid) /\ ~Serving(prev.pid)
    /\ Slow
    /\ adopted' = prev.pid /\ token' = prev.token /\ child' = child
    /\ state' = "crashed" /\ desired' = desired
    /\ EmitThen("recoverRefuse")
    /\ UNCHANGED <<host, watch, sched, lq, store, sup>>

RecoverStopping ==
    /\ Written("recoverStopping")
    /\ TerminateThen("recoverKill", adopted)
    /\ UNCHANGED <<host, ident, phase, watch, sched, lq, sq, store, sup, budget>>

RecoverKilled ==
    /\ At("recoverKill")
    /\ ~Live(op.tgt)
    /\ NewGeneration("none") /\ ClearAdopted
    /\ state' = "stopped" /\ desired' = desired
    /\ EmitThen("recoverEnd")
    /\ UNCHANGED <<host, sched, lq, store, sup, budget>>

RecoverKillFails ==
    /\ At("recoverKill")
    /\ Fault("kill")
    /\ state' = "crashed" /\ desired' = desired /\ UNCHANGED ident
    /\ EmitThen("throwAfterWrite")
    /\ UNCHANGED <<host, watch, sched, lq, store, sup>>

RecoverNext ==
    \/ Recover \/ AdoptProbe \/ Adopted \/ IdentityFound \/ IdentityGone
    \/ IdentityAbsent \/ IdentityUnverified \/ RecoverRefuse \/ RecoverStopped
    \/ StoppedFound \/ StoppedGone \/ StoppedUnverified \/ RecoverStopping
    \/ RecoverKilled \/ RecoverKillFails

-----------------------------------------------------------------------------
(* startInternal                                                           *)

PortProbe == [op EXCEPT !.pc = "startPort",
                        !.io = IF \E i \in Inst : Serving(i) THEN "hit" ELSE "miss"]

\* A live adopted pid is verified, a dead one forgotten.  An own child is kept
\* when it runs or starts, else terminated first; without one the port is
\* probed for an occupant.
Start ==
    /\ At("start")
    /\ desired' = "running" /\ timer' = FALSE /\ preserving' = preserving
    /\ UNCHANGED <<host, state, lq, sq, store, sup, budget>>
    /\ IF Live(adopted)
       THEN ProbeThen("startProbe", adopted) /\ UNCHANGED <<ident, watch>>
       ELSE /\ IF adopted # 0 THEN ClearAdopted /\ NewGeneration("none")
               ELSE UNCHANGED <<ident, watch>>
            /\ \/ child = 0 /\ op' = PortProbe
               \/ child # 0 /\ state \in {"running", "starting"} /\ Go("return", "none")
               \/ child # 0 /\ state \notin {"running", "starting"}
                  /\ TerminateThen("startReplace", child)

StartProbeReplaces ==   \* mutant: an unverified live pid is replaced
    /\ At("startProbe")
    /\ UNCHANGED <<host, phase, watch, sched, lq, sq, store, sup, budget>>
    /\ ClearAdopted /\ op' = PortProbe

StartProbe ==
    /\ At("startProbe")
    /\ UNCHANGED <<host, ident, desired, watch, sched, lq, store, sup, budget>>
    /\ \/ op.io = "hit" /\ state' = "running" /\ EmitThen("startAdopted")
       \/ op.io = "miss" /\ Go("throw", "none") /\ UNCHANGED <<state, sq>>

StartAdopted ==
    /\ Written("startAdopted")
    /\ NewGeneration("adopted")
    /\ Go("return", "none")
    /\ UNCHANGED <<host, ident, phase, sched, lq, sq, store, sup, budget>>

StartReplaced ==
    /\ At("startReplace")
    /\ \/ child # op.tgt /\ op' = PortProbe /\ UNCHANGED budget
       \/ child = op.tgt /\ Fault("kill") /\ Go("throw", "none")
    /\ UNCHANGED <<host, ident, phase, watch, sched, lq, sq, store, sup>>

\* The port is served by something this supervisor does not own: refuse.
StartOccupied ==
    /\ At("startPort") /\ op.io = "hit"
    /\ state' = "crashed" /\ desired' = desired /\ UNCHANGED ident
    /\ EmitThen("throwAfterWrite")
    /\ UNCHANGED <<host, watch, sched, lq, store, sup, budget>>

StartReserveUnawaited ==   \* mutant: the spawn does not wait for the reservation
    /\ At("startPort") /\ op.io = "miss"
    /\ last < N
    /\ last' = last + 1 /\ os' = os
    /\ token' = last + 1 /\ child' = child /\ adopted' = adopted
    /\ state' = "starting" /\ desired' = desired
    /\ Emit("nobody") /\ Go("startReserve", "ok")
    /\ UNCHANGED <<watch, sched, lq, store, sup, budget>>

\* Draw a token and persist it before the spawn.
StartReserve ==
    /\ At("startPort") /\ op.io = "miss"
    /\ last < N
    /\ last' = last + 1 /\ os' = os
    /\ token' = last + 1 /\ child' = child /\ adopted' = adopted
    /\ state' = "starting" /\ desired' = desired
    /\ EmitThen("startReserve")
    /\ UNCHANGED <<watch, sched, lq, store, sup, budget>>

StartReserveFails ==
    /\ Rejected("startReserve")
    /\ state' = "crashed" /\ desired' = desired
    /\ token' = 0 /\ child' = child /\ adopted' = adopted
    /\ ScheduleRestart
    /\ Go("throw", "none")
    /\ UNCHANGED <<host, watch, lq, sq, store, sup, budget>>

\* The spawn and the publication of its pid.
StartSpawn ==
    /\ Written("startReserve")
    /\ os' = [os EXCEPT ![last] = "booting"] /\ last' = last
    /\ child' = last /\ adopted' = adopted /\ token' = token
    /\ UNCHANGED phase
    /\ EmitThen("startPublish")
    /\ UNCHANGED <<watch, sched, lq, store, sup, budget>>

\* The spawn throws, or the child reports a spawn error (handleSpawnError, which
\* starts a new monitor generation).
StartSpawnFails ==
    /\ Written("startReserve")
    /\ Fault("spawn")
    /\ child' = 0 /\ token' = 0 /\ adopted' = adopted
    /\ state' = "crashed" /\ desired' = desired
    /\ Emit("nobody")
    /\ ScheduleRestart
    /\ Go("throw", "none")
    /\ UNCHANGED watch \/ NewGeneration("none")
    /\ UNCHANGED <<host, lq, store, sup>>

StartPublished ==
    /\ Written("startPublish")
    /\ Go("startReady", "none")
    /\ UNCHANGED <<host, ident, phase, watch, sched, lq, sq, store, sup, budget>>

StartReady ==
    /\ At("startReady")
    /\ child = last /\ Serving(last)
    /\ state' = "running" /\ desired' = desired /\ UNCHANGED ident
    /\ NewGeneration("owned")
    /\ EmitThen("startFinal")
    /\ UNCHANGED <<host, sched, lq, store, sup, budget>>

\* waitForHealth gives up: the child exited, or twice the readiness timeout
\* elapsed while it was alive.
StartNotReady ==
    /\ At("startReady")
    /\ \/ child # last /\ Go("throw", "none") /\ UNCHANGED budget
       \/ child = last /\ ~Serving(last)
          /\ (IF Live(last) THEN Slow ELSE UNCHANGED budget)
          /\ TerminateThen("startCleanup", last)
    /\ UNCHANGED <<host, ident, phase, watch, sched, lq, sq, store, sup>>

\* A publication or the final status could not be written: the readiness
\* error path terminates the child it still has.
StartUnwritten ==
    /\ Rejected("startPublish") \/ Rejected("startFinal")
    /\ IF child = last THEN TerminateThen("startCleanup", last) ELSE Go("throw", "none")
    /\ UNCHANGED <<host, ident, phase, watch, sched, lq, sq, store, sup, budget>>

StartCleaned ==
    /\ At("startCleanup")
    /\ child # op.tgt
    /\ Go("throw", "none")
    /\ UNCHANGED <<host, ident, phase, watch, sched, lq, sq, store, sup, budget>>

StartCleanupFails ==
    /\ At("startCleanup")
    /\ child = op.tgt
    /\ Fault("kill")
    /\ state' = "crashed" /\ desired' = desired /\ UNCHANGED ident
    /\ Emit("nobody")
    /\ ScheduleRestart
    /\ Go("throw", "none")
    /\ UNCHANGED <<host, watch, lq, store, sup>>

StartNext ==
    \/ Start \/ StartProbe \/ StartAdopted \/ StartReplaced
    \/ StartOccupied \/ StartReserve \/ StartReserveFails \/ StartSpawn
    \/ StartSpawnFails \/ StartPublished \/ StartReady \/ StartNotReady
    \/ StartUnwritten \/ StartCleaned \/ StartCleanupFails

-----------------------------------------------------------------------------
(* stopInternal, restart, preserveForSupervisorShutdown                    *)

Stop ==
    /\ At("stop") \/ Written("restartEmit")
    /\ desired' = "stopped" /\ timer' = FALSE /\ preserving' = preserving
    /\ NewGeneration("none")
    /\ UNCHANGED ident
    /\ \/ adopted # 0 /\ state' = "stopping" /\ EmitFor("stopAdopted", adopted)
       \/ adopted = 0 /\ child # 0 /\ state' = "stopping" /\ EmitFor("stopChild", child)
       \/ Pid = 0 /\ state' = "stopped" /\ EmitThen("stopEnd")
    /\ UNCHANGED <<host, lq, store, sup, budget>>

StopAdopted ==
    /\ Written("stopAdopted")
    /\ ProbeThen("stopProbe", op.tgt)
    /\ UNCHANGED <<host, ident, phase, watch, sched, lq, sq, store, sup, budget>>

StopProbeClears ==   \* mutant: an unverified adopted pid counts as stopped
    /\ At("stopProbe")
    /\ UNCHANGED <<host, desired, watch, sched, lq, store, sup, budget>>
    /\ \/ op.io = "hit" /\ TerminateThen("stopKill", op.tgt) /\ UNCHANGED <<ident, state, sq>>
       \/ op.io = "miss" /\ ClearAdopted /\ state' = "crashed" /\ EmitThen("throwAfterWrite")

StopProbe ==
    /\ At("stopProbe")
    /\ UNCHANGED <<host, ident, desired, watch, sched, lq, store, sup, budget>>
    /\ \/ op.io = "hit" /\ TerminateThen("stopKill", op.tgt) /\ UNCHANGED <<state, sq>>
       \/ op.io = "miss" /\ state' = "crashed" /\ EmitThen("throwAfterWrite")

StopKilled ==
    /\ At("stopKill")
    /\ ~Live(op.tgt)
    /\ NewGeneration("none") /\ ClearAdopted
    /\ state' = "stopped" /\ desired' = desired
    /\ EmitThen("stopCleared")
    /\ UNCHANGED <<host, sched, lq, store, sup, budget>>

StopFailsForgets ==   \* mutant: a backend that could not be stopped is forgotten
    /\ \/ At("stopKill") /\ Fault("kill")
       \/ At("stopTerm") /\ child = op.tgt /\ Fault("kill")
       \/ Rejected("stopCleared") /\ UNCHANGED budget
    /\ state' = "crashed" /\ desired' = desired
    /\ child' = 0 /\ adopted' = 0 /\ token' = 0
    /\ EmitThen("throwAfterWrite")
    /\ UNCHANGED <<host, watch, sched, lq, store, sup>>

\* Terminating failed, or the write after it did.
StopFails ==
    /\ \/ At("stopKill") /\ Fault("kill")
       \/ At("stopTerm") /\ child = op.tgt /\ Fault("kill")
       \/ Rejected("stopCleared") /\ UNCHANGED budget
    /\ state' = "crashed" /\ desired' = desired /\ UNCHANGED ident
    /\ EmitThen("throwAfterWrite")
    /\ UNCHANGED <<host, watch, sched, lq, store, sup>>

StopChild ==
    /\ Written("stopChild")
    /\ TerminateThen("stopTerm", op.tgt)
    /\ UNCHANGED <<host, ident, phase, watch, sched, lq, sq, store, sup, budget>>

StopTerminated ==
    /\ At("stopTerm")
    /\ child # op.tgt
    /\ state' = "stopped" /\ desired' = desired /\ UNCHANGED ident
    /\ EmitThen("stopEnd")
    /\ UNCHANGED <<host, watch, sched, lq, store, sup, budget>>

Restart ==
    /\ At("restart")
    /\ state' = "restarting" /\ desired' = desired /\ UNCHANGED ident
    /\ EmitThen("restartEmit")
    /\ UNCHANGED <<host, watch, sched, lq, store, sup, budget>>

Preserve ==
    /\ At("preserve")
    /\ timer' = FALSE /\ preserving' = preserving
    /\ NewGeneration("none")
    /\ UNCHANGED <<ident, phase>>
    /\ EmitThen("preserveEnd")
    /\ UNCHANGED <<host, lq, store, sup, budget>>

\* A status write is the last thing an operation does: it settles with it.
\* The stop half of a restart goes on with the start half.
LastWrite ==
    /\ up /\ op.io \in {"ok", "fail"}
    /\ \/ /\ op.pc \in {"recoverEnd", "startFinal", "stopEnd", "stopCleared", "preserveEnd",
                        "adoptedEnd", "returnAfterWrite"}
          /\ op.io = "ok"
          /\ Go(IF op.k = "restart" /\ op.pc \in {"stopEnd", "stopCleared"}
                THEN "start" ELSE "return", "none")
       \/ /\ op.pc \in {"recoverEnd", "stopEnd", "preserveEnd", "adoptAccept",
                        "recoverRefuse", "recoverStopping", "startAdopted",
                        "stopAdopted", "stopChild", "restartEmit", "ownedEmit",
                        "ownedFail", "adoptedEmit", "returnAfterWrite"}
          /\ op.io = "fail"
          /\ Go("throw", "none")
       \/ op.pc = "throwAfterWrite" /\ Go("throw", "none")
    /\ UNCHANGED <<host, ident, phase, watch, sched, lq, sq, store, sup, budget>>

StopNext ==
    \/ Stop \/ StopAdopted \/ StopProbe \/ StopKilled \/ StopFails \/ StopChild
    \/ StopTerminated \/ Restart \/ Preserve \/ LastWrite

-----------------------------------------------------------------------------
(* Monitors: a tick samples health and comes back to a state that may have *)
(* moved on; terminating is queued as a lifecycle operation.               *)

OwnedTick ==
    /\ Quiet /\ mon = "owned" /\ ochk.ph = "idle"
    /\ ~preserving /\ state = "running" /\ child # 0
    /\ ochk' = [ph |-> "probe", inst |-> child, fresh |-> TRUE,
                io |-> IF Serving(child) THEN "hit" ELSE "miss"]
    /\ UNCHANGED <<host, ident, phase, mon, achk, misses, sched, op, lq, sq, store, sup, budget>>

OwnedCurrent == ~preserving /\ ochk.fresh /\ child = ochk.inst

\* The probe answered: too many misses in a row clear the interval and queue
\* the termination.
OwnedChecked ==
    /\ Quiet /\ ochk.ph = "probe"
    /\ UNCHANGED <<host, ident, phase, achk, sched, op, sq, store, sup, budget>>
    /\ \/ /\ ~OwnedCurrent \/ state # "running"
          /\ ochk' = NoCheck /\ UNCHANGED <<mon, misses, lq>>
       \/ /\ OwnedCurrent /\ state = "running" /\ ochk.io = "hit"
          /\ misses' = 0 /\ ochk' = NoCheck /\ UNCHANGED <<mon, lq>>
       \/ /\ OwnedCurrent /\ state = "running" /\ ochk.io = "miss"
          /\ misses' = misses + 1
          /\ IF misses' < Threshold
             THEN ochk' = NoCheck /\ UNCHANGED <<mon, lq>>
             ELSE ochk' = [ochk EXCEPT !.ph = "queued"] /\ mon' = "none"
                  /\ lq' = Append(lq, "ownedKill")

\* The queued termination runs: the guards are read again.
OwnedKill ==
    /\ At("ownedKill")
    /\ UNCHANGED <<host, ident, desired, watch, sched, lq, store, sup, budget>>
    /\ \/ OwnedCurrent /\ desired = "running"
          /\ state' = "crashed" /\ EmitFor("ownedEmit", ochk.inst)
       \/ ~(OwnedCurrent /\ desired = "running")
          /\ Go("return", "none") /\ UNCHANGED <<state, sq>>

OwnedTerminate ==
    /\ Written("ownedEmit")
    /\ TerminateThen("ownedTerm", op.tgt)
    /\ UNCHANGED <<host, ident, phase, watch, sched, lq, sq, store, sup, budget>>

OwnedTerminated ==
    /\ At("ownedTerm")
    /\ child # op.tgt
    /\ Go("return", "none")
    /\ UNCHANGED <<host, ident, phase, watch, sched, lq, sq, store, sup, budget>>

OwnedKillFails ==
    /\ At("ownedTerm")
    /\ child = op.tgt
    /\ Fault("kill")
    /\ UNCHANGED <<ident, phase>>
    /\ EmitThen("ownedFail")
    /\ UNCHANGED <<host, watch, sched, lq, store, sup>>

OwnedRetry ==
    /\ Written("ownedFail")
    /\ UNCHANGED phase
    /\ ScheduleRestart
    /\ Go("return", "none")
    /\ UNCHANGED <<host, ident, watch, lq, sq, store, sup, budget>>

\* A tick that finds the adopted pid dead acts in the same segment.
AdoptedTick ==
    /\ Quiet /\ mon = "adopted" /\ achk.ph = "idle"
    /\ ~preserving /\ adopted # 0 /\ token # 0
    /\ UNCHANGED <<host, desired, sched, op, lq, store, sup, budget>>
    /\ IF Live(adopted)
       THEN /\ achk' = [ph |-> "probe", inst |-> adopted, fresh |-> TRUE,
                        io |-> IF Serving(adopted) THEN "hit" ELSE "miss"]
            /\ UNCHANGED <<ident, state, mon, ochk, misses, sq>>
       ELSE /\ ClearAdopted
            /\ mon' = "none" /\ misses' = 0 /\ ochk' = [ochk EXCEPT !.fresh = FALSE]
            /\ achk' = [ph |-> IF desired = "running" THEN "gone" ELSE "told",
                        inst |-> adopted, fresh |-> FALSE, io |-> "wait"]
            /\ state' = (IF desired = "running" THEN "crashed" ELSE "stopped")
            /\ Emit("achk")

AdoptedCurrent == ~preserving /\ achk.fresh /\ adopted = achk.inst

AdoptedChecked ==
    /\ Quiet /\ achk.ph = "probe"
    /\ UNCHANGED <<host, ident, desired, mon, ochk, sched, op, store, sup, budget>>
    /\ \/ /\ ~AdoptedCurrent
          /\ achk' = NoCheck /\ UNCHANGED <<state, misses, lq, sq>>
       \/ /\ AdoptedCurrent /\ achk.io = "hit" /\ desired = "stopped"
          /\ misses' = 0 /\ achk' = [achk EXCEPT !.ph = "queued"]
          /\ lq' = Append(lq, "adoptedStop") /\ UNCHANGED <<state, sq>>
       \/ /\ AdoptedCurrent /\ achk.io = "hit" /\ desired = "running"
          /\ misses' = 0 /\ lq' = lq
          /\ IF state = "running" THEN achk' = NoCheck /\ UNCHANGED <<state, sq>>
             ELSE /\ state' = "running" /\ Emit("achk")
                  /\ achk' = [achk EXCEPT !.ph = "told", !.io = "wait"]
       \/ /\ AdoptedCurrent /\ achk.io = "miss"
          /\ misses' = (IF misses < Threshold THEN misses + 1 ELSE misses) /\ lq' = lq
          /\ IF misses' < Threshold THEN achk' = NoCheck /\ UNCHANGED <<state, sq>>
             ELSE /\ state' = "crashed" /\ Emit("achk")
                  /\ achk' = [achk EXCEPT !.ph = "told", !.io = "wait"]

AdoptedToldNoRestart ==   \* mutant: a dead adopted backend is only reported
    /\ Quiet /\ achk.ph \in {"told", "gone"} /\ achk.io \in {"ok", "fail"}
    /\ achk' = NoCheck
    /\ UNCHANGED <<host, ident, phase, mon, ochk, misses, sched, op, lq, sq, store, sup, budget>>

\* The write a check awaited is over.  Only a dead adopted pid schedules a
\* restart after it, and only when the write went through.
AdoptedTold ==
    /\ Quiet /\ achk.ph \in {"told", "gone"} /\ achk.io \in {"ok", "fail"}
    /\ achk' = NoCheck
    /\ UNCHANGED desired
    /\ IF achk.ph = "gone" /\ achk.io = "ok" THEN ScheduleRestart ELSE UNCHANGED sched
    /\ UNCHANGED <<host, ident, state, mon, ochk, misses, op, lq, sq, store, sup, budget>>

\* The stop an unverified adopted pid refused earlier, once it is verified.
AdoptedStop ==
    /\ At("adoptedStop")
    /\ UNCHANGED <<host, ident, desired, watch, sched, lq, store, sup, budget>>
    /\ \/ AdoptedCurrent /\ desired = "stopped"
          /\ state' = "stopping" /\ EmitFor("adoptedEmit", achk.inst)
       \/ ~(AdoptedCurrent /\ desired = "stopped")
          /\ Go("return", "none") /\ UNCHANGED <<state, sq>>

AdoptedTerminate ==
    /\ Written("adoptedEmit")
    /\ TerminateThen("adoptedKill", op.tgt)
    /\ UNCHANGED <<host, ident, phase, watch, sched, lq, sq, store, sup, budget>>

AdoptedKilled ==
    /\ At("adoptedKill")
    /\ ~Live(op.tgt)
    /\ NewGeneration("none") /\ ClearAdopted
    /\ state' = "stopped" /\ desired' = desired
    /\ EmitThen("adoptedEnd")
    /\ UNCHANGED <<host, sched, lq, store, sup, budget>>

AdoptedKillFails ==
    /\ \/ At("adoptedKill") /\ Fault("kill")
       \/ Rejected("adoptedEnd") /\ UNCHANGED budget
    /\ state' = "crashed" /\ desired' = desired /\ UNCHANGED ident
    /\ EmitThen("returnAfterWrite")
    /\ UNCHANGED <<host, watch, sched, lq, store, sup>>

MonitorNext ==
    \/ OwnedTick \/ OwnedChecked \/ OwnedKill \/ OwnedTerminate \/ OwnedTerminated
    \/ OwnedKillFails \/ OwnedRetry \/ AdoptedTick \/ AdoptedChecked \/ AdoptedTold
    \/ AdoptedStop \/ AdoptedTerminate \/ AdoptedKilled \/ AdoptedKillFails

-----------------------------------------------------------------------------
(* Events, the lifecycle queue, status writes                              *)

\* handleExit of the current child; the exit of any other is ignored.
ExitEvent ==
    /\ Quiet /\ child # 0 /\ ~Live(child)
    /\ NewGeneration("none")
    /\ child' = 0 /\ token' = 0 /\ adopted' = adopted
    /\ state' = (IF desired = "running" THEN "crashed" ELSE "stopped")
    /\ desired' = desired
    /\ Emit("nobody")
    /\ ScheduleRestart
    /\ UNCHANGED <<host, op, lq, store, sup, budget>>

\* The restart timer calls start(), which also withdraws a preservation.
TimerFires ==
    /\ Quiet /\ timer
    /\ timer' = FALSE /\ preserving' = FALSE
    /\ lq' = Append(lq, "timer")
    /\ UNCHANGED <<host, ident, phase, watch, op, sq, store, sup, budget>>

\* runLifecycle: the next operation starts when the one before has settled.
Begin ==
    /\ up /\ op = Idle /\ lq # << >>
    /\ op' = [k |-> Head(lq), tgt |-> 0, io |-> "none",
              pc |-> IF Head(lq) = "timer" THEN "start" ELSE Head(lq)]
    /\ lq' = Tail(lq)
    /\ UNCHANGED <<host, ident, phase, watch, sched, sq, store, sup, budget>>

\* An operation settles: a failed timed start schedules the next one, a
\* monitor check ends with the operation it queued, the supervisor persists
\* what a recovery left, and a preservation ends the orderly shutdown.
Settle ==
    /\ up /\ op.pc \in {"return", "throw"}
    /\ op' = Idle
    /\ UNCHANGED <<ident, phase>>
    /\ IF op.k = "timer" /\ op.pc = "throw" THEN ScheduleRestart ELSE UNCHANGED sched
    /\ ochk' = IF op.k = "ownedKill" THEN NoCheck ELSE ochk
    /\ achk' = IF op.k = "adoptedStop" THEN NoCheck ELSE achk
    /\ IF op.k \in {"recover", "preserve"} THEN Emit("nobody") ELSE sq' = sq
    /\ closing' = IF op.k = "preserve" THEN "kept" ELSE closing
    /\ UNCHANGED <<host, mon, misses, lq, store, up, prev, budget>>

Queued(k) == op.k = k \/ \E n \in DOMAIN lq : lq[n] = k

\* A start, stop or restart arrives at the supervisor.
Command(k) ==
    /\ Quiet /\ closing = "no" /\ cmds < MaxCommands
    /\ cmds' = cmds + 1 /\ faults' = faults
    /\ lq' = Append(lq, k)
    /\ preserving' = (IF k = "start" THEN FALSE ELSE preserving) /\ timer' = timer
    /\ UNCHANGED <<host, ident, phase, watch, op, sq, store, sup>>

\* preserveForSupervisorShutdown, asked for once the commands are drained.
Shutdown ==
    /\ Quiet /\ closing = "no" /\ cmds < MaxCommands
    /\ \A k \in Commands \cup {"recover"} : ~Queued(k)
    /\ cmds' = cmds + 1 /\ faults' = faults
    /\ closing' = "asked" /\ up' = up /\ prev' = prev
    /\ preserving' = TRUE /\ timer' = timer
    /\ NewGeneration("none")
    /\ lq' = Append(lq, "preserve")
    /\ UNCHANGED <<host, ident, phase, op, sq, store>>

Snapshot(e) == [state |-> e.state, desired |-> e.desired, pid |-> e.pid, token |-> e.token]

\* The oldest queued snapshot is written, or its write fails; whoever awaits
\* it is told.
Tell(result) ==
    /\ op' = IF Head(sq).w = "op" THEN [op EXCEPT !.io = result] ELSE op
    /\ achk' = IF Head(sq).w = "achk" THEN [achk EXCEPT !.io = result] ELSE achk
    /\ sq' = Tail(sq)
    /\ UNCHANGED <<host, ident, phase, mon, ochk, misses, sched, lq, sup>>

Save(s) ==
    /\ disk' = s /\ unsaved' = NoRecord
    /\ published' = published \cup ({s.pid} \ {0})

WriteStatus ==
    /\ Quiet /\ sq # << >>
    /\ Save(Snapshot(Head(sq)))
    /\ Tell("ok")
    /\ UNCHANGED budget

WriteFails ==
    /\ Quiet /\ sq # << >>
    /\ Fault("write")
    /\ Tell("fail")
    /\ unsaved' = Snapshot(Head(sq)) /\ UNCHANGED <<disk, published>>

\* The slot keeps a failed status in memory (commitOnPersistFailure): the next
\* write of the state file, for an operation record, saves it after all.
OtherWrite ==
    /\ Quiet /\ unsaved # NoRecord
    /\ Save(unsaved)
    /\ UNCHANGED <<host, ident, phase, watch, sched, op, lq, sq, sup, budget>>

EventNext ==
    \/ ExitEvent \/ TimerFires \/ Begin \/ Settle \/ Shutdown \/ WriteStatus \/ WriteFails
    \/ OtherWrite
    \/ \E k \in Commands : Command(k)

-----------------------------------------------------------------------------
(* The supervisor process and the operating system                         *)

\* The supervisor is gone with everything it had in memory.
Forget ==
    /\ up' = FALSE /\ closing' = "no" /\ prev' = NoRecord
    /\ child' = 0 /\ adopted' = 0 /\ token' = 0
    /\ state' = "stopped" /\ desired' = "stopped"
    /\ mon' = "none" /\ ochk' = NoCheck /\ achk' = NoCheck /\ misses' = 0
    /\ timer' = FALSE /\ preserving' = FALSE
    /\ op' = Idle /\ lq' = << >> /\ sq' = << >>
    /\ unsaved' = NoRecord /\ UNCHANGED <<host, disk, published>>

Crash == up /\ Fault("crash") /\ Forget

\* The end of an orderly shutdown: the last status is on disk.
Exit == up /\ closing = "kept" /\ sq = << >> /\ Forget /\ UNCHANGED budget

\* The next supervisor reads the slot and recovers before anything else.
Boot ==
    /\ ~up
    /\ up' = TRUE /\ closing' = "no" /\ prev' = disk
    /\ op' = [k |-> "recover", pc |-> "recover", tgt |-> 0, io |-> "none"]
    /\ UNCHANGED <<host, ident, phase, watch, sched, lq, sq, store, budget>>

\* The backend listens and answers /health, unless the port is taken.
Listen(i) ==
    /\ os[i] = "booting" /\ ~PortHeld
    /\ os' = [os EXCEPT ![i] = "serving"]
    /\ UNCHANGED budget

\* A backend that finds the port taken exits.
PortTaken(i) ==
    /\ os[i] = "booting" /\ PortHeld
    /\ os' = [os EXCEPT ![i] = "dead"]
    /\ UNCHANGED budget

Die(i) ==
    /\ Live(i) /\ Fault("die")
    /\ os' = [os EXCEPT ![i] = "dead"]

Hang(i) ==
    /\ os[i] = "serving" /\ Fault("hang")
    /\ os' = [os EXCEPT ![i] = "hung"]

Unhang(i) ==
    /\ os[i] = "hung"
    /\ os' = [os EXCEPT ![i] = "serving"]
    /\ UNCHANGED budget

\* A termination signal the running operation sent takes effect.
TerminatePcs == {"recoverKill", "startReplace", "startCleanup", "stopKill",
                 "stopTerm", "ownedTerm", "adoptedKill"}
Killed(i) ==
    /\ up /\ op.pc \in TerminatePcs /\ op.tgt = i
    /\ Live(i)
    /\ os' = [os EXCEPT ![i] = "dead"]
    /\ UNCHANGED budget

HostNext ==
    /\ \E i \in Inst : \/ Listen(i) \/ PortTaken(i) \/ Die(i) \/ Hang(i)
                       \/ Unhang(i) \/ Killed(i)
    /\ last' = last
    /\ UNCHANGED <<ident, phase, watch, sched, op, lq, sq, store, sup>>

Next ==
    \/ RecoverNext \/ StartNext \/ StopNext \/ MonitorNext \/ EventNext
    \/ Crash \/ Exit \/ Boot \/ HostNext

\* Promise continuations run, events are delivered, timers and ticks fire,
\* writes complete, the OS manager restarts the supervisor, a signalled
\* process dies, and a backend left alone comes up or recovers.
Fairness ==
    /\ WF_vars(RecoverNext) /\ WF_vars(StartNext) /\ WF_vars(StopNext)
    /\ WF_vars(Begin) /\ WF_vars(Settle) /\ WF_vars(WriteStatus)
    /\ WF_vars(ExitEvent) /\ WF_vars(TimerFires)
    /\ WF_vars(OwnedTick) /\ WF_vars(OwnedChecked)
    /\ WF_vars(OwnedKill \/ OwnedTerminate \/ OwnedTerminated \/ OwnedRetry)
    /\ WF_vars(AdoptedTick) /\ WF_vars(AdoptedChecked) /\ WF_vars(AdoptedTold)
    /\ WF_vars(AdoptedStop \/ AdoptedTerminate \/ AdoptedKilled)
    /\ WF_vars(Exit) /\ WF_vars(Boot)
    /\ \A i \in Inst :
        /\ WF_vars(HostNext /\ Listen(i)) /\ WF_vars(HostNext /\ PortTaken(i))
        /\ WF_vars(HostNext /\ Unhang(i)) /\ WF_vars(HostNext /\ Killed(i))

Spec     == Init /\ [][Next]_vars
FairSpec == Spec /\ Fairness

-----------------------------------------------------------------------------
(* Properties                                                              *)

CheckPhases == {"idle", "probe", "queued", "told", "gone"}
Results == {"none", "wait", "ok", "fail", "hit", "miss"}
Pcs == {"idle", "return", "throw", "throwAfterWrite", "returnAfterWrite",
        "recover", "adoptProbe", "adoptAccept", "waitIdentity", "recoverRefuse",
        "waitStopped", "recoverStopping", "recoverKill", "recoverEnd",
        "start", "startProbe", "startAdopted", "startReplace", "startPort",
        "startReserve", "startPublish", "startReady", "startFinal", "startCleanup",
        "stop", "stopAdopted", "stopProbe", "stopKill", "stopCleared", "stopChild",
        "stopTerm", "stopEnd", "restart", "restartEmit", "preserve", "preserveEnd",
        "ownedKill", "ownedEmit", "ownedTerm", "ownedFail",
        "adoptedStop", "adoptedEmit", "adoptedKill", "adoptedEnd"}
Checks == [ph : CheckPhases, inst : Ref, fresh : BOOLEAN, io : Results]
Entries == [w : {"op", "achk", "nobody"}, state : States,
            desired : {"running", "stopped"}, pid : Ref, token : Ref]

Ops == [k : Kinds \cup {"none", "recover"}, pc : Pcs, tgt : Ref, io : Results]

\* Every field of the controller, of the slot and of the host keeps its type.
TypeOK ==
    /\ os \in [Inst -> {"none", "booting", "serving", "hung", "dead"}]
    /\ last \in Ref /\ child \in Ref /\ adopted \in Ref /\ token \in Ref
    /\ state \in States /\ desired \in {"running", "stopped"}
    /\ mon \in {"none", "owned", "adopted"}
    /\ ochk \in Checks /\ achk \in Checks /\ misses \in 0..Threshold
    /\ timer \in BOOLEAN /\ preserving \in BOOLEAN
    /\ op \in Ops
    /\ lq \in Seq(Kinds) /\ sq \in Seq(Entries)
    /\ disk \in Snapshots /\ unsaved \in Snapshots /\ published \subseteq Inst
    /\ up \in BOOLEAN /\ closing \in {"no", "asked", "kept"} /\ prev \in Snapshots
    /\ faults \in 0..MaxFaults /\ cmds \in 0..MaxCommands

\* Of the backends whose pid ever reached the durable slot at most one is
\* alive: no restart, recovery or stale event puts a second one beside it.
AtMostOnePublished ==
    \A i, j \in published : Live(i) /\ Live(j) => i = j

\* A live published backend can be found again: whatever the supervisor still
\* has to write or loses in a crash, the slot names its pid and its token.
LiveIsRecorded ==
    \A i \in published : Live(i) => disk.pid = i /\ disk.token = i

\* A durable "stopped" is true: no published backend is alive behind it, be it
\* hung, unverified or slow to exit.
DurableStopIsTrue ==
    disk.state = "stopped" => \A i \in published : ~Live(i)

\* A spawn happens only on a durable reservation of exactly its token, which
\* is what the next supervisor waits for if this one dies before publishing;
\* and no recovery turns a durable stopped intent into a running one, not even
\* one that follows a crash in the middle of an earlier recovery.
StartsAreIntended ==
    [][/\ \A i \in Inst : os[i] = "none" /\ os'[i] = "booting" =>
             disk.token = i /\ disk.desired = "running" /\ disk.pid = 0
       /\ disk.desired = "stopped" /\ disk'.desired = "running" => op.k # "recover"]_vars

\* "explicit stop does not fire the restart policy": the restart timer is no
\* operator, so a start it queued must not withdraw the stopped intent.
StopBeatsRestartPolicy ==
    [][disk.desired = "stopped" /\ disk'.desired = "running" =>
          op.k # "timer"]_vars

\* After recovery there is no duplicate spawn: at most one backend is alive,
\* published or not.
AtMostOneLive == \A i, j \in Inst : Live(i) /\ Live(j) => i = j

\* The durable intent is reached across supervisor crashes and backend deaths:
\* a running one is served in the end, unless the launch attempts of the model
\* run out, and a stopped one leaves no backend behind.
DurableIntentReached ==
    /\ disk.desired = "running" ~>
           \/ disk.desired = "stopped" \/ last = N
           \/ \E i \in Inst : Serving(i) /\ up /\ state = "running" /\ Pid = i
    /\ disk.desired = "stopped" ~>
           disk.desired = "running" \/ \A i \in Inst : ~Live(i)

\* The controller keeps the promise of the durable slot.
Current == {i \in published : Live(i)}
Promise == INSTANCE BackendPromise WITH
    Instances <- Inst, Nobody <- 0,
    cur <- IF Current = {} THEN 0 ELSE CHOOSE i \in Current : TRUE,
    used <- published, intent <- disk.desired
KeepsPromise == Promise!Spec
=============================================================================
