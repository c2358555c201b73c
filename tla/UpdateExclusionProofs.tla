------------------------ MODULE UpdateExclusionProofs ------------------------
(***************************************************************************)
(* The safety of UpdateExclusion, for every number of operations, manual   *)
(* updates, control requests, days and faults.  The inductive invariant    *)
(* says what the tables hold at each program point of the runner: this is  *)
(* what lets the supervisor, which sees the tables only, keep its daily    *)
(* run apart from an operation it cannot see.                              *)
(***************************************************************************)
EXTENDS UpdateExclusion, TLAPS

\* The runner holds an operation.
Working == RunPcs \ {"idle", "drain", "recover"}
Busy == {o \in Ops : status[o] \in {"running", "restarting"}}

\* The status of the runner's operation follows its program point, and no
\* other operation is running; a dead backend holds nothing.
RunInv ==
    /\ run.op # 0 <=> run.pc \in Working
    /\ run.pc = "begun" => status[run.op] = "queued"
    /\ run.pc \in {"exec", "endOk"} => status[run.op] = "running"
    /\ run.pc \in {"ask", "handedOff", "parked"} => status[run.op] = "restarting"
    /\ run.pc \in Working \ {"begun"} => run.op \in Busy
    /\ ~up => run = Idle /\ todo = {}
    /\ up => \A o \in Ops : status[o] = "running" => run.op = o

\* What recover() still has to settle is restarting, and not in hand.
TodoInv == \A o \in todo : status[o] = "restarting" /\ o # run.op

\* An operation in hand, or left in the middle, keeps daily runs away.
ExclInv == run.op # 0 \/ Busy # {} => Active = {}

\* The restarts carried out for an operation follow its recorded phase.
EffectInv ==
    /\ \A o \in Ops :
        /\ effects[o].supervisor \in {0, 1} /\ effects[o].viewer \in {0, 1}
        /\ phase[o] = "none" => effects[o].supervisor = 0
        /\ phase[o] \in {"none", "supervisor-issued", "supervisor-verified"} =>
              effects[o].viewer = 0
        /\ phase[o] = "viewer-verified" => effects[o].viewer = 1
    /\ run.pc = "ready" => phase[run.op] = "none"
    /\ run.pc = "issued" =>
          phase[run.op] = "supervisor-issued" /\ effects[run.op].supervisor = 0
    /\ run.pc = "verified" => phase[run.op] = "supervisor-verified"
    /\ run.pc = "viewer" => phase[run.op] = "viewer-issued" /\ effects[run.op].viewer = 0
    /\ run.pc = "refreshed" => phase[run.op] = "viewer-issued" /\ effects[run.op].viewer = 1
    /\ run.pc = "finishOk" =>
          status[run.op] = "running" \/ effects[run.op].viewer = 1

IInv == TypeOK /\ RunInv /\ TodoInv /\ ExclInv /\ OneActiveRun /\ EffectInv

-----------------------------------------------------------------------------
(* Types                                                                   *)

USE DEF Idle, Rest, Kick

LEMMA ToTypes == ASSUME TypeOK, NEW pc \in RunPcs, To(pc)
                 PROVE run' \in [pc : RunPcs, op : Ops \cup {0}]
  BY DEF TypeOK, To

LEMMA StatusTypes == ASSUME TypeOK, NEW o, NEW s \in Statuses, SetStatus(o, s)
                     PROVE status' \in [Ops -> Statuses]
  BY DEF TypeOK, SetStatus

LEMMA PhaseTypes == ASSUME TypeOK, NEW p \in Phases, SetPhase(p)
                    PROVE phase' \in [Ops -> Phases]
  BY DEF TypeOK, SetPhase

LEMMA FaultTypes == ASSUME BoundsAssumption, TypeOK,
                           faults < MaxFaults /\ faults' = faults + 1
                    PROVE faults' \in 0..MaxFaults
  BY DEF TypeOK, BoundsAssumption

LEMMA EffectTypes == ASSUME TypeOK, NEW o
                     PROVE /\ [effects EXCEPT ![o].supervisor = @ + 1]
                                 \in [Ops -> [supervisor : Nat, viewer : Nat]]
                           /\ [effects EXCEPT ![o].viewer = @ + 1]
                                 \in [Ops -> [supervisor : Nat, viewer : Nat]]
  <1>1. CASE o \in Ops
    <2>1. effects[o].supervisor \in Nat /\ effects[o].viewer \in Nat
      BY <1>1 DEF TypeOK
    <2>2. /\ effects[o].supervisor + 1 \in Nat /\ effects[o].viewer + 1 \in Nat
      BY <2>1
    <2>. QED BY <1>1, <2>1, <2>2 DEF TypeOK
  <1>2. CASE o \notin Ops
    <2>1. ASSUME NEW x PROVE [effects EXCEPT ![o] = x] = effects
      BY <1>2 DEF TypeOK
    <2>. QED BY <2>1, Zenon DEF TypeOK
  <1>. QED BY <1>1, <1>2

USE DEF To, SetStatus, SetPhase, Fault, Final

LEMMA TypesRunner == ASSUME BoundsAssumption, TypeOK, RunnerNext PROVE TypeOK'
  <1>. USE DEF TypeOK, Statuses, Phases, RunPcs, SchedPcs, db, journal, backend,
           superv, rest
  <1>1. CASE RetryTimer
    BY <1>1 DEF RetryTimer
  <1>2. CASE DrainEnds
    BY <1>2 DEF DrainEnds
  <1>3. CASE BeginManualUpdate
    <2>1. PICK o \in Ops : \/ /\ manual' = manual \cup {o} /\ run' = [pc |-> "begun", op |-> o]
                              /\ retry' = retry
                           \/ run' = Idle /\ retry' = TRUE /\ manual' = manual
                           \/ run' = Idle /\ retry' = retry /\ manual' = manual
      BY <1>3 DEF BeginManualUpdate
    <2>2. run' \in [pc : RunPcs, op : Ops \cup {0}] /\ manual' \subseteq Ops \cup Applies
      BY <2>1
    <2>3. retry' \in BOOLEAN
      BY <2>1, Zenon
    <2>. QED BY <1>3, <2>2, <2>3 DEF BeginManualUpdate
  <1>4. CASE MarkRunning
    BY <1>4 DEF MarkRunning
  <1>5. CASE Executed
    BY <1>5 DEF Executed
  <1>6. CASE MarkRestarting
    BY <1>6 DEF MarkRestarting
  <1>7. CASE RequestRestart
    <2>1. run' \in [pc : RunPcs, op : Ops \cup {0}] /\ ask' \in BOOLEAN
      BY <1>7, ToTypes DEF RequestRestart
    <2>2. faults' \in 0..MaxFaults
      BY <1>7, FaultTypes DEF RequestRestart
    <2>. QED BY <1>7, <2>1, <2>2 DEF RequestRestart
  <1>8. CASE EndManualUpdate
    BY <1>8 DEF EndManualUpdate, Ends
  <1>9. CASE HandedOff
    BY <1>9 DEF HandedOff
  <1>10. CASE FinishOperation
    <2>1. status' \in [Ops -> Statuses]
      BY <1>10, StatusTypes DEF FinishOperation
    <2>. QED BY <1>10, <2>1 DEF FinishOperation
  <1>. QED BY <1>1, <1>2, <1>3, <1>4, <1>5, <1>6, <1>7, <1>8, <1>9, <1>10 DEF RunnerNext

LEMMA TypesRecovery == ASSUME BoundsAssumption, TypeOK, RecoveryNext PROVE TypeOK'
  <1>. USE DEF TypeOK, Statuses, Phases, RunPcs, SchedPcs, db, journal, backend,
           superv, rest
  <1>1. CASE RecoverNextOp
    BY <1>1 DEF RecoverNextOp, IsFirst
  <1>2. CASE SupervisorIssued
    BY <1>2 DEF SupervisorIssued
  <1>3. CASE RestartInstalledSupervisor
    <2>1. run' \in [pc : RunPcs, op : Ops \cup {0}]
      BY <1>3, ToTypes DEF RestartInstalledSupervisor
    <2>2. effects' \in [Ops -> [supervisor : Nat, viewer : Nat]]
      BY <1>3, EffectTypes DEF RestartInstalledSupervisor
    <2>. QED BY <1>3, <2>1, <2>2 DEF RestartInstalledSupervisor, SupervisorGone
  <1>4. CASE SupervisorVerified
    BY <1>4 DEF SupervisorVerified
  <1>5. CASE ViewerIssued
    BY <1>5 DEF ViewerIssued
  <1>6. CASE RefreshViewer
    <2>1. run' \in [pc : RunPcs, op : Ops \cup {0}]
      BY <1>6, ToTypes DEF RefreshViewer
    <2>2. effects' \in [Ops -> [supervisor : Nat, viewer : Nat]]
      BY <1>6, EffectTypes DEF RefreshViewer
    <2>. QED BY <1>6, <2>1, <2>2 DEF RefreshViewer
  <1>7. CASE ViewerVerified
    <2>1. run' \in [pc : RunPcs, op : Ops \cup {0}]
      BY <1>7, ToTypes DEF ViewerVerified
    <2>2. phase' \in [Ops -> Phases]
      BY <1>7, PhaseTypes DEF ViewerVerified
    <2>. QED BY <1>7, <2>1, <2>2 DEF ViewerVerified
  <1>8. CASE RecoveryFails
    BY <1>8 DEF RecoveryFails
  <1>. QED BY <1>1, <1>2, <1>3, <1>4, <1>5, <1>6, <1>7, <1>8 DEF RecoveryNext

LEMMA TypesBackend == ASSUME BoundsAssumption, TypeOK, BackendNext PROVE TypeOK'
  <1>. USE DEF TypeOK, Statuses, Phases, RunPcs, SchedPcs, db, journal, backend,
           superv, rest
  <1>1. CASE BackendBoot
    BY <1>1 DEF BackendBoot, Interrupted
  <1>2. CASE StopBackend
    <2>1. ask' \in BOOLEAN
      BY <1>2 DEF StopBackend
    <2>. QED BY <1>2, <2>1 DEF StopBackend
  <1>3. CASE BackendExit
    BY <1>3 DEF BackendExit, BackendGone
  <1>4. CASE BackendCrash
    <2>1. faults' \in 0..MaxFaults
      BY <1>4, FaultTypes DEF BackendCrash
    <2>. QED BY <1>4, <2>1 DEF BackendCrash, BackendGone
  <1>5. ASSUME NEW a \in Applies, ApplyBegin(a) PROVE TypeOK'
    BY <1>5 DEF ApplyBegin, Applies
  <1>6. ASSUME NEW a \in Applies, ApplyEnd(a) PROVE TypeOK'
    BY <1>6 DEF ApplyEnd, Applies
  <1>7. ASSUME NEW o \in Ops, Enqueue(o) PROVE TypeOK'
    BY <1>7 DEF Enqueue, Applies
  <1>. QED BY <1>1, <1>2, <1>3, <1>4, <1>5, <1>6, <1>7 DEF BackendNext

LEMMA TypesSupervisor ==
  ASSUME BoundsAssumption, TypeOK, SupervisorNext
  PROVE  TypeOK'
  <1>. USE DEF TypeOK, Statuses, Phases, RunPcs, SchedPcs, db, journal, backend,
           superv, rest
  <1>1. CASE SupervisorBoot
    BY <1>1 DEF SupervisorBoot
  <1>2. CASE CatalogReady
    BY <1>2 DEF CatalogReady, Resume, Active
  <1>3. CASE SupervisorClose
    <2>1. faults' \in 0..MaxFaults
      BY <1>3, FaultTypes DEF SupervisorClose
    <2>2. ask' \in BOOLEAN
      BY <1>3 DEF SupervisorClose
    <2>. QED BY <1>3, <2>1, <2>2 DEF SupervisorClose
  <1>4. CASE SupervisorExit
    BY <1>4 DEF SupervisorExit, SupervisorGone
  <1>5. CASE SupervisorCrash
    <2>1. faults' \in 0..MaxFaults
      BY <1>5, FaultTypes DEF SupervisorCrash
    <2>. QED BY <1>5, <2>1 DEF SupervisorCrash, SupervisorGone
  <1>6. ASSUME NEW c \in Controls, ControlArrives(c) PROVE TypeOK'
    <2>1. ctl' \in [Controls -> {"new", "parked", "inflight", "done"}]
      BY <1>6 DEF ControlArrives
    <2>. QED BY <1>6, <2>1 DEF ControlArrives
  <1>7. ASSUME NEW c \in Controls, ControlResumes(c) PROVE TypeOK'
    BY <1>7 DEF ControlResumes, Applies
  <1>8. ASSUME NEW c \in Controls, ControlDone(c) PROVE TypeOK'
    BY <1>8 DEF ControlDone, Applies
  <1>. QED BY <1>1, <1>2, <1>3, <1>4, <1>5, <1>6, <1>7, <1>8 DEF SupervisorNext

LEMMA TypesDaily ==
  ASSUME BoundsAssumption, TypeOK, OneActiveRun, DailyNext
  PROVE  TypeOK'
  <1>. USE DEF TypeOK, Statuses, Phases, RunPcs, SchedPcs, db, journal, backend,
           superv, rest
  <1>1. CASE NextDay
    <2>1. day' \in Days \cup {0}
      BY <1>1 DEF NextDay, Days, BoundsAssumption
    <2>. QED BY <1>1, <2>1 DEF NextDay
  <1>2. CASE BeginDailyRun
    BY <1>2 DEF BeginDailyRun
  <1>3. CASE TickRecovers
    BY <1>3 DEF TickRecovers, Resume, Active
  <1>4. CASE DrainControls
    BY <1>4 DEF DrainControls
  <1>5. CASE Checkpoint
    <2>1. kept' \subseteq Days
      BY <1>5 DEF Checkpoint, OneActiveRun, Active
    <2>. QED BY <1>5, <2>1 DEF Checkpoint
  <1>6. CASE Finish
    BY <1>6 DEF Finish
  <1>7. CASE DisableDaily
    <2>1. sched' \in [pc : SchedPcs, day : Days \cup {0}]
      BY <1>7 DEF DisableDaily
    <2>2. enabled' \in BOOLEAN
      BY <1>7 DEF DisableDaily
    <2>. QED BY <1>7, <2>1, <2>2 DEF DisableDaily
  <1>8. CASE FailRecovery
    <2>1. daily' \in [Days -> {"none", "running"} \cup Final]
      BY <1>8 DEF FailRecovery
    <2>. QED BY <1>8, <2>1 DEF FailRecovery
  <1>9. CASE RetryDailyRecovery
    BY <1>9 DEF RetryDailyRecovery
  <1>10. CASE Enable
    BY <1>10 DEF Enable
  <1>. QED BY <1>1, <1>2, <1>3, <1>4, <1>5, <1>6, <1>7, <1>8, <1>9, <1>10 DEF DailyNext

-----------------------------------------------------------------------------
(* The program points of the runner                                        *)

LEMMA NoOpZero == BoundsAssumption => 0 \notin Ops
  BY DEF BoundsAssumption, Ops

LEMMA RunInvRunner ==
  ASSUME BoundsAssumption, TypeOK, RunInv, TodoInv, RunnerNext
  PROVE  RunInv'
  <1>. USE NoOpZero DEF TypeOK, RunInv, Working, Busy, RunPcs, Statuses, db,
           journal, backend, superv, rest
  <1>1. CASE RetryTimer
    BY <1>1 DEF RetryTimer
  <1>2. CASE DrainEnds
    BY <1>2 DEF DrainEnds
  <1>3. CASE BeginManualUpdate
    BY <1>3 DEF BeginManualUpdate, IsFirst, Queue
  <1>4. CASE MarkRunning
    BY <1>4 DEF MarkRunning
  <1>5. CASE Executed
    BY <1>5 DEF Executed
  <1>6. CASE MarkRestarting
    BY <1>6 DEF MarkRestarting
  <1>7. CASE RequestRestart
    BY <1>7 DEF RequestRestart
  <1>8. CASE EndManualUpdate
    BY <1>8 DEF EndManualUpdate, Ends
  <1>9. CASE HandedOff
    BY <1>9 DEF HandedOff
  <1>10. CASE FinishOperation
    BY <1>10 DEF FinishOperation
  <1>. QED BY <1>1, <1>2, <1>3, <1>4, <1>5, <1>6, <1>7, <1>8, <1>9, <1>10 DEF RunnerNext

LEMMA RunInvRecovery ==
  ASSUME BoundsAssumption, TypeOK, RunInv, TodoInv, RecoveryNext
  PROVE  RunInv'
  <1>. USE NoOpZero DEF TypeOK, RunInv, Working, Busy, RunPcs, Statuses, db,
           journal, backend, superv, rest
  <1>1. CASE RecoverNextOp
    <2>1. PICK o \in todo : \/ run' = [pc |-> "finishFail", op |-> o]
                            \/ run' = [pc |-> "ready", op |-> o]
                            \/ run' = [pc |-> "replace", op |-> o]
      BY <1>1, Zenon DEF RecoverNextOp, IsFirst
    <2>2. run.op = 0 /\ (\A p \in Ops : status[p] # "running")
      BY <1>1 DEF RecoverNextOp
    <2>3. o \in Ops /\ status[o] = "restarting" /\ o # 0
      BY DEF TodoInv
    <2>4. run'.op = o /\ run'.pc \in {"finishFail", "ready", "replace"}
      BY <2>1
    <2>. QED BY <1>1, <2>2, <2>3, <2>4 DEF RecoverNextOp
  <1>2. CASE SupervisorIssued
    BY <1>2 DEF SupervisorIssued
  <1>3. CASE RestartInstalledSupervisor
    BY <1>3 DEF RestartInstalledSupervisor, SupervisorGone
  <1>4. CASE SupervisorVerified
    BY <1>4 DEF SupervisorVerified
  <1>5. CASE ViewerIssued
    BY <1>5 DEF ViewerIssued
  <1>6. CASE RefreshViewer
    BY <1>6 DEF RefreshViewer
  <1>7. CASE ViewerVerified
    BY <1>7 DEF ViewerVerified
  <1>8. CASE RecoveryFails
    BY <1>8 DEF RecoveryFails
  <1>. QED BY <1>1, <1>2, <1>3, <1>4, <1>5, <1>6, <1>7, <1>8 DEF RecoveryNext

LEMMA RunInvBackend ==
  ASSUME BoundsAssumption, TypeOK, RunInv, TodoInv, BackendNext
  PROVE  RunInv'
  <1>. USE NoOpZero DEF TypeOK, RunInv, Working, Busy, RunPcs, Statuses, db,
           journal, backend, superv, rest
  <1>1. CASE BackendBoot
    BY <1>1 DEF BackendBoot, Interrupted
  <1>2. CASE BackendExit
    BY <1>2 DEF BackendExit, BackendGone
  <1>3. CASE BackendCrash
    BY <1>3 DEF BackendCrash, BackendGone
  <1>4. ASSUME NEW o \in Ops, Enqueue(o) PROVE RunInv'
    BY <1>4 DEF Enqueue
  <1>5. CASE \/ StopBackend
            \/ \E a \in Applies : ApplyBegin(a) \/ ApplyEnd(a)
    BY <1>5 DEF StopBackend, ApplyBegin, ApplyEnd
  <1>. QED BY <1>1, <1>2, <1>3, <1>4, <1>5 DEF BackendNext

LEMMA RunInvSupervisor ==
  ASSUME BoundsAssumption, TypeOK, RunInv, TodoInv, SupervisorNext
  PROVE  RunInv'
  <1>. USE NoOpZero DEF TypeOK, RunInv, Working, Busy, RunPcs, Statuses, db,
           journal, backend, superv, rest
  <1>1. CASE \/ SupervisorBoot
            \/ CatalogReady
            \/ SupervisorClose
            \/ SupervisorExit
            \/ SupervisorCrash
            \/ \E c \in Controls : ControlArrives(c) \/ ControlResumes(c) \/ ControlDone(c)
    BY <1>1 DEF SupervisorBoot, CatalogReady, Resume, Active, SupervisorClose,
        SupervisorExit, SupervisorGone, SupervisorCrash, ControlArrives,
        ControlResumes, ControlDone
  <1>. QED BY <1>1 DEF SupervisorNext

LEMMA RunInvDaily ==
  ASSUME BoundsAssumption, TypeOK, RunInv, TodoInv, DailyNext
  PROVE  RunInv'
  <1>. USE NoOpZero DEF TypeOK, RunInv, Working, Busy, RunPcs, Statuses, db,
           journal, backend, superv, rest
  <1>1. CASE \/ NextDay
            \/ BeginDailyRun
            \/ TickRecovers
            \/ DrainControls
            \/ Checkpoint
            \/ Finish
            \/ DisableDaily
            \/ FailRecovery
            \/ RetryDailyRecovery
            \/ Enable
    BY <1>1 DEF NextDay, BeginDailyRun, TickRecovers, Resume, Active,
        DrainControls, Checkpoint, Finish, DisableDaily, FailRecovery,
        RetryDailyRecovery, Enable
  <1>. QED BY <1>1 DEF DailyNext

LEMMA TodoInvRunner ==
  ASSUME BoundsAssumption, TypeOK, RunInv, TodoInv, RunnerNext
  PROVE  TodoInv'
  <1>. USE NoOpZero DEF TypeOK, RunInv, TodoInv, Working, Busy, RunPcs, Statuses,
           db, journal, backend, superv, rest
  <1>1. CASE RetryTimer
    BY <1>1 DEF RetryTimer
  <1>2. CASE DrainEnds
    BY <1>2 DEF DrainEnds
  <1>3. CASE BeginManualUpdate
    BY <1>3 DEF BeginManualUpdate, IsFirst, Queue
  <1>4. CASE MarkRunning
    BY <1>4 DEF MarkRunning
  <1>5. CASE Executed
    BY <1>5 DEF Executed
  <1>6. CASE MarkRestarting
    BY <1>6 DEF MarkRestarting
  <1>7. CASE RequestRestart
    BY <1>7 DEF RequestRestart
  <1>8. CASE EndManualUpdate
    BY <1>8 DEF EndManualUpdate, Ends
  <1>9. CASE HandedOff
    BY <1>9 DEF HandedOff
  <1>10. CASE FinishOperation
    BY <1>10 DEF FinishOperation
  <1>. QED BY <1>1, <1>2, <1>3, <1>4, <1>5, <1>6, <1>7, <1>8, <1>9, <1>10 DEF RunnerNext

LEMMA TodoInvRecovery ==
  ASSUME BoundsAssumption, TypeOK, RunInv, TodoInv, RecoveryNext
  PROVE  TodoInv'
  <1>. USE NoOpZero DEF TypeOK, RunInv, TodoInv, Working, Busy, RunPcs, Statuses,
           db, journal, backend, superv, rest
  <1>1. CASE RecoverNextOp
    BY <1>1 DEF RecoverNextOp, IsFirst
  <1>2. CASE SupervisorIssued
    BY <1>2 DEF SupervisorIssued
  <1>3. CASE RestartInstalledSupervisor
    BY <1>3 DEF RestartInstalledSupervisor, SupervisorGone
  <1>4. CASE SupervisorVerified
    BY <1>4 DEF SupervisorVerified
  <1>5. CASE ViewerIssued
    BY <1>5 DEF ViewerIssued
  <1>6. CASE RefreshViewer
    BY <1>6 DEF RefreshViewer
  <1>7. CASE ViewerVerified
    BY <1>7 DEF ViewerVerified
  <1>8. CASE RecoveryFails
    BY <1>8 DEF RecoveryFails
  <1>. QED BY <1>1, <1>2, <1>3, <1>4, <1>5, <1>6, <1>7, <1>8 DEF RecoveryNext

LEMMA TodoInvBackend ==
  ASSUME BoundsAssumption, TypeOK, RunInv, TodoInv, BackendNext
  PROVE  TodoInv'
  <1>. USE NoOpZero DEF TypeOK, RunInv, TodoInv, Working, Busy, RunPcs, Statuses,
           db, journal, backend, superv, rest
  <1>1. CASE BackendBoot
    BY <1>1 DEF BackendBoot, Interrupted
  <1>2. CASE BackendExit
    BY <1>2 DEF BackendExit, BackendGone
  <1>3. CASE BackendCrash
    BY <1>3 DEF BackendCrash, BackendGone
  <1>4. ASSUME NEW o \in Ops, Enqueue(o) PROVE TodoInv'
    BY <1>4 DEF Enqueue
  <1>5. CASE \/ StopBackend
            \/ \E a \in Applies : ApplyBegin(a) \/ ApplyEnd(a)
    BY <1>5 DEF StopBackend, ApplyBegin, ApplyEnd
  <1>. QED BY <1>1, <1>2, <1>3, <1>4, <1>5 DEF BackendNext

LEMMA TodoInvSupervisor ==
  ASSUME BoundsAssumption, TypeOK, RunInv, TodoInv, SupervisorNext
  PROVE  TodoInv'
  <1>. USE NoOpZero DEF TypeOK, RunInv, TodoInv, Working, Busy, RunPcs, Statuses,
           db, journal, backend, superv, rest
  <1>1. CASE \/ SupervisorBoot
            \/ CatalogReady
            \/ SupervisorClose
            \/ SupervisorExit
            \/ SupervisorCrash
            \/ \E c \in Controls : ControlArrives(c) \/ ControlResumes(c) \/ ControlDone(c)
    BY <1>1 DEF SupervisorBoot, CatalogReady, Resume, Active, SupervisorClose,
        SupervisorExit, SupervisorGone, SupervisorCrash, ControlArrives,
        ControlResumes, ControlDone
  <1>. QED BY <1>1 DEF SupervisorNext

LEMMA TodoInvDaily ==
  ASSUME BoundsAssumption, TypeOK, RunInv, TodoInv, DailyNext
  PROVE  TodoInv'
  <1>. USE NoOpZero DEF TypeOK, RunInv, TodoInv, Working, Busy, RunPcs, Statuses,
           db, journal, backend, superv, rest
  <1>1. CASE \/ NextDay
            \/ BeginDailyRun
            \/ TickRecovers
            \/ DrainControls
            \/ Checkpoint
            \/ Finish
            \/ DisableDaily
            \/ FailRecovery
            \/ RetryDailyRecovery
            \/ Enable
    BY <1>1 DEF NextDay, BeginDailyRun, TickRecovers, Resume, Active,
        DrainControls, Checkpoint, Finish, DisableDaily, FailRecovery,
        RetryDailyRecovery, Enable
  <1>. QED BY <1>1 DEF DailyNext

LEMMA ExclInvRunner ==
  ASSUME BoundsAssumption, TypeOK, RunInv, TodoInv, ExclInv, OneActiveRun,
         RunnerNext
  PROVE  ExclInv'
  <1>. USE NoOpZero DEF TypeOK, RunInv, TodoInv, ExclInv, Working, Busy, RunPcs,
           Statuses, Active, Unsettled, db, journal, backend, superv, rest
  <1>1. CASE RetryTimer
    BY <1>1 DEF RetryTimer
  <1>2. CASE DrainEnds
    BY <1>2 DEF DrainEnds
  <1>3. CASE BeginManualUpdate
    BY <1>3 DEF BeginManualUpdate, IsFirst, Queue
  <1>4. CASE MarkRunning
    BY <1>4 DEF MarkRunning
  <1>5. CASE Executed
    BY <1>5 DEF Executed
  <1>6. CASE MarkRestarting
    BY <1>6 DEF MarkRestarting
  <1>7. CASE RequestRestart
    BY <1>7 DEF RequestRestart
  <1>8. CASE EndManualUpdate
    BY <1>8 DEF EndManualUpdate, Ends
  <1>9. CASE HandedOff
    BY <1>9 DEF HandedOff
  <1>10. CASE FinishOperation
    BY <1>10 DEF FinishOperation
  <1>. QED BY <1>1, <1>2, <1>3, <1>4, <1>5, <1>6, <1>7, <1>8, <1>9, <1>10 DEF RunnerNext

LEMMA ExclInvRecovery ==
  ASSUME BoundsAssumption, TypeOK, RunInv, TodoInv, ExclInv, OneActiveRun,
         RecoveryNext
  PROVE  ExclInv'
  <1>. USE NoOpZero DEF TypeOK, RunInv, TodoInv, ExclInv, Working, Busy, RunPcs,
           Statuses, Active, Unsettled, db, journal, backend, superv, rest
  <1>1. CASE RecoverNextOp
    BY <1>1 DEF RecoverNextOp, IsFirst
  <1>2. CASE SupervisorIssued
    BY <1>2 DEF SupervisorIssued
  <1>3. CASE RestartInstalledSupervisor
    BY <1>3 DEF RestartInstalledSupervisor, SupervisorGone
  <1>4. CASE SupervisorVerified
    BY <1>4 DEF SupervisorVerified
  <1>5. CASE ViewerIssued
    BY <1>5 DEF ViewerIssued
  <1>6. CASE RefreshViewer
    BY <1>6 DEF RefreshViewer
  <1>7. CASE ViewerVerified
    BY <1>7 DEF ViewerVerified
  <1>8. CASE RecoveryFails
    BY <1>8 DEF RecoveryFails
  <1>. QED BY <1>1, <1>2, <1>3, <1>4, <1>5, <1>6, <1>7, <1>8 DEF RecoveryNext

LEMMA ExclInvBackend ==
  ASSUME BoundsAssumption, TypeOK, RunInv, TodoInv, ExclInv, OneActiveRun,
         BackendNext
  PROVE  ExclInv'
  <1>. USE NoOpZero DEF TypeOK, RunInv, TodoInv, ExclInv, Working, Busy, RunPcs,
           Statuses, Active, Unsettled, db, journal, backend, superv, rest
  <1>1. CASE BackendBoot
    BY <1>1 DEF BackendBoot, Interrupted
  <1>2. CASE BackendExit
    BY <1>2 DEF BackendExit, BackendGone
  <1>3. CASE BackendCrash
    BY <1>3 DEF BackendCrash, BackendGone
  <1>4. ASSUME NEW o \in Ops, Enqueue(o) PROVE ExclInv'
    BY <1>4 DEF Enqueue
  <1>5. CASE \/ StopBackend
            \/ \E a \in Applies : ApplyBegin(a) \/ ApplyEnd(a)
    BY <1>5 DEF StopBackend, ApplyBegin, ApplyEnd
  <1>. QED BY <1>1, <1>2, <1>3, <1>4, <1>5 DEF BackendNext

LEMMA ExclInvSupervisor ==
  ASSUME BoundsAssumption, TypeOK, RunInv, TodoInv, ExclInv, OneActiveRun,
         SupervisorNext
  PROVE  ExclInv'
  <1>. USE NoOpZero DEF TypeOK, RunInv, TodoInv, ExclInv, Working, Busy, RunPcs,
           Statuses, Active, Unsettled, db, journal, backend, superv, rest
  <1>1. CASE \/ SupervisorBoot
            \/ CatalogReady
            \/ SupervisorClose
            \/ SupervisorExit
            \/ SupervisorCrash
            \/ \E c \in Controls : ControlArrives(c) \/ ControlResumes(c) \/ ControlDone(c)
    BY <1>1 DEF SupervisorBoot, CatalogReady, Resume, Active, SupervisorClose,
        SupervisorExit, SupervisorGone, SupervisorCrash, ControlArrives,
        ControlResumes, ControlDone
  <1>. QED BY <1>1 DEF SupervisorNext

LEMMA ExclInvDaily ==
  ASSUME BoundsAssumption, TypeOK, RunInv, TodoInv, ExclInv, OneActiveRun,
         DailyNext
  PROVE  ExclInv'
  <1>. USE NoOpZero DEF TypeOK, RunInv, TodoInv, ExclInv, Working, Busy, RunPcs,
           Statuses, Active, Unsettled, db, journal, backend, superv, rest
  <1>1. CASE BeginDailyRun
    BY <1>1 DEF BeginDailyRun
  <1>2. CASE Finish
    BY <1>2 DEF Finish
  <1>3. CASE FailRecovery
    BY <1>3 DEF FailRecovery
  <1>4. CASE RetryDailyRecovery
    BY <1>4 DEF RetryDailyRecovery
  <1>5. CASE \/ NextDay
            \/ TickRecovers
            \/ DrainControls
            \/ Checkpoint
            \/ DisableDaily
            \/ Enable
    BY <1>5 DEF NextDay, TickRecovers, Resume, Active, DrainControls, Checkpoint,
        DisableDaily, Enable
  <1>. QED BY <1>1, <1>2, <1>3, <1>4, <1>5 DEF DailyNext

LEMMA OneActiveRunRunner ==
  ASSUME BoundsAssumption, TypeOK, OneActiveRun, RunnerNext
  PROVE  OneActiveRun'
  <1>. USE NoOpZero DEF TypeOK, OneActiveRun, Active, SchedPcs, db, journal,
           backend, superv, rest
  <1>1. CASE \/ RetryTimer
            \/ DrainEnds
            \/ BeginManualUpdate
            \/ MarkRunning
            \/ Executed
            \/ MarkRestarting
            \/ RequestRestart
            \/ EndManualUpdate
            \/ HandedOff
            \/ FinishOperation
    BY <1>1 DEF RetryTimer, DrainEnds, BeginManualUpdate, IsFirst, Queue,
        MarkRunning, Executed, MarkRestarting, RequestRestart, EndManualUpdate,
        Ends, HandedOff, FinishOperation
  <1>. QED BY <1>1 DEF RunnerNext

LEMMA OneActiveRunRecovery ==
  ASSUME BoundsAssumption, TypeOK, OneActiveRun, RecoveryNext
  PROVE  OneActiveRun'
  <1>. USE NoOpZero DEF TypeOK, OneActiveRun, Active, SchedPcs, db, journal,
           backend, superv, rest
  <1>1. CASE RestartInstalledSupervisor
    BY <1>1 DEF RestartInstalledSupervisor, SupervisorGone
  <1>2. CASE \/ RecoverNextOp
            \/ SupervisorIssued
            \/ SupervisorVerified
            \/ ViewerIssued
            \/ RefreshViewer
            \/ ViewerVerified
            \/ RecoveryFails
    BY <1>2 DEF RecoverNextOp, IsFirst, SupervisorIssued, SupervisorVerified,
        ViewerIssued, RefreshViewer, ViewerVerified, RecoveryFails
  <1>. QED BY <1>1, <1>2 DEF RecoveryNext

LEMMA OneActiveRunBackend == ASSUME OneActiveRun, BackendNext PROVE OneActiveRun'
  <1>1. daily' = daily /\ sched' = sched
    BY DEF BackendNext, BackendBoot, StopBackend, BackendExit, BackendGone,
        BackendCrash,
           ApplyBegin, ApplyEnd, Enqueue, journal, superv
  <1>. QED BY <1>1 DEF OneActiveRun, Active

LEMMA OneActiveRunSupervisor ==
  ASSUME BoundsAssumption, TypeOK, OneActiveRun, SupervisorNext
  PROVE  OneActiveRun'
  <1>. USE NoOpZero DEF TypeOK, OneActiveRun, Active, SchedPcs, db, journal,
           backend, superv, rest
  <1>1. CASE CatalogReady
    BY <1>1 DEF CatalogReady, Resume, Active
  <1>2. CASE SupervisorExit
    BY <1>2 DEF SupervisorExit, SupervisorGone
  <1>3. CASE SupervisorCrash
    BY <1>3 DEF SupervisorCrash, SupervisorGone
  <1>4. CASE \/ SupervisorBoot
            \/ SupervisorClose
            \/ \E c \in Controls : ControlArrives(c) \/ ControlResumes(c) \/ ControlDone(c)
    BY <1>4 DEF SupervisorBoot, SupervisorClose, ControlArrives, ControlResumes,
        ControlDone
  <1>. QED BY <1>1, <1>2, <1>3, <1>4 DEF SupervisorNext

LEMMA OneActiveRunDaily ==
  ASSUME BoundsAssumption, TypeOK, OneActiveRun, DailyNext
  PROVE  OneActiveRun'
  <1>. USE NoOpZero DEF TypeOK, OneActiveRun, Active, SchedPcs, db, journal,
           backend, superv, rest
  <1>1. CASE BeginDailyRun
    BY <1>1 DEF BeginDailyRun
  <1>2. CASE TickRecovers
    BY <1>2 DEF TickRecovers, Resume, Active
  <1>3. CASE DrainControls
    BY <1>3 DEF DrainControls
  <1>4. CASE Finish
    BY <1>4 DEF Finish
  <1>5. CASE DisableDaily
    <2>1. sched # Rest /\ sched'.day = sched.day /\ daily' = daily
      BY <1>5 DEF DisableDaily, Mutating
    <2>. QED BY <2>1
  <1>6. CASE FailRecovery
    BY <1>6 DEF FailRecovery
  <1>7. CASE RetryDailyRecovery
    BY <1>7 DEF RetryDailyRecovery
  <1>8. CASE \/ NextDay
            \/ Checkpoint
            \/ Enable
    BY <1>8 DEF NextDay, Checkpoint, Enable
  <1>. QED BY <1>1, <1>2, <1>3, <1>4, <1>5, <1>6, <1>7, <1>8 DEF DailyNext

LEMMA EffectInvRunner ==
  ASSUME BoundsAssumption, TypeOK, RunInv, TodoInv, EffectInv, RunnerNext
  PROVE  EffectInv'
  <1>. USE NoOpZero DEF TypeOK, RunInv, TodoInv, EffectInv, Working, Busy, RunPcs,
           Statuses, Phases, db, journal, backend, superv, rest
  <1>1. CASE RetryTimer
    BY <1>1 DEF RetryTimer
  <1>2. CASE DrainEnds
    BY <1>2 DEF DrainEnds
  <1>3. CASE BeginManualUpdate
    BY <1>3 DEF BeginManualUpdate, IsFirst, Queue
  <1>4. CASE MarkRunning
    BY <1>4 DEF MarkRunning
  <1>5. CASE Executed
    BY <1>5 DEF Executed
  <1>6. CASE MarkRestarting
    BY <1>6 DEF MarkRestarting
  <1>7. CASE RequestRestart
    BY <1>7 DEF RequestRestart
  <1>8. CASE EndManualUpdate
    BY <1>8 DEF EndManualUpdate, Ends
  <1>9. CASE HandedOff
    BY <1>9 DEF HandedOff
  <1>10. CASE FinishOperation
    BY <1>10 DEF FinishOperation
  <1>. QED BY <1>1, <1>2, <1>3, <1>4, <1>5, <1>6, <1>7, <1>8, <1>9, <1>10 DEF RunnerNext

LEMMA EffectInvRecovery ==
  ASSUME BoundsAssumption, TypeOK, RunInv, TodoInv, EffectInv, RecoveryNext
  PROVE  EffectInv'
  <1>. USE NoOpZero DEF TypeOK, RunInv, TodoInv, EffectInv, Working, Busy, RunPcs,
           Statuses, Phases, db, journal, backend, superv, rest
  <1>1. CASE RecoverNextOp
    BY <1>1 DEF RecoverNextOp, IsFirst
  <1>2. CASE SupervisorIssued
    BY <1>2 DEF SupervisorIssued
  <1>3. CASE RestartInstalledSupervisor
    BY <1>3 DEF RestartInstalledSupervisor, SupervisorGone
  <1>4. CASE SupervisorVerified
    BY <1>4 DEF SupervisorVerified
  <1>5. CASE ViewerIssued
    BY <1>5 DEF ViewerIssued
  <1>6. CASE RefreshViewer
    BY <1>6 DEF RefreshViewer
  <1>7. CASE ViewerVerified
    BY <1>7 DEF ViewerVerified
  <1>8. CASE RecoveryFails
    BY <1>8 DEF RecoveryFails
  <1>. QED BY <1>1, <1>2, <1>3, <1>4, <1>5, <1>6, <1>7, <1>8 DEF RecoveryNext

LEMMA EffectInvBackend ==
  ASSUME BoundsAssumption, TypeOK, RunInv, TodoInv, EffectInv, BackendNext
  PROVE  EffectInv'
  <1>. USE NoOpZero DEF TypeOK, RunInv, TodoInv, EffectInv, Working, Busy, RunPcs,
           Statuses, Phases, db, journal, backend, superv, rest
  <1>1. CASE BackendBoot
    BY <1>1 DEF BackendBoot, Interrupted
  <1>2. CASE BackendExit
    BY <1>2 DEF BackendExit, BackendGone
  <1>3. CASE BackendCrash
    BY <1>3 DEF BackendCrash, BackendGone
  <1>4. ASSUME NEW o \in Ops, Enqueue(o) PROVE EffectInv'
    BY <1>4 DEF Enqueue
  <1>5. CASE \/ StopBackend
            \/ \E a \in Applies : ApplyBegin(a) \/ ApplyEnd(a)
    BY <1>5 DEF StopBackend, ApplyBegin, ApplyEnd
  <1>. QED BY <1>1, <1>2, <1>3, <1>4, <1>5 DEF BackendNext

LEMMA EffectInvSupervisor ==
  ASSUME BoundsAssumption, TypeOK, RunInv, TodoInv, EffectInv, SupervisorNext
  PROVE  EffectInv'
  <1>. USE NoOpZero DEF TypeOK, RunInv, TodoInv, EffectInv, Working, Busy, RunPcs,
           Statuses, Phases, db, journal, backend, superv, rest
  <1>1. CASE \/ SupervisorBoot
            \/ CatalogReady
            \/ SupervisorClose
            \/ SupervisorExit
            \/ SupervisorCrash
            \/ \E c \in Controls : ControlArrives(c) \/ ControlResumes(c) \/ ControlDone(c)
    BY <1>1 DEF SupervisorBoot, CatalogReady, Resume, Active, SupervisorClose,
        SupervisorExit, SupervisorGone, SupervisorCrash, ControlArrives,
        ControlResumes, ControlDone
  <1>. QED BY <1>1 DEF SupervisorNext

LEMMA EffectInvDaily ==
  ASSUME BoundsAssumption, TypeOK, RunInv, TodoInv, EffectInv, DailyNext
  PROVE  EffectInv'
  <1>. USE NoOpZero DEF TypeOK, RunInv, TodoInv, EffectInv, Working, Busy, RunPcs,
           Statuses, Phases, db, journal, backend, superv, rest
  <1>1. CASE \/ NextDay
            \/ BeginDailyRun
            \/ TickRecovers
            \/ DrainControls
            \/ Checkpoint
            \/ Finish
            \/ DisableDaily
            \/ FailRecovery
            \/ RetryDailyRecovery
            \/ Enable
    BY <1>1 DEF NextDay, BeginDailyRun, TickRecovers, Resume, Active,
        DrainControls, Checkpoint, Finish, DisableDaily, FailRecovery,
        RetryDailyRecovery, Enable
  <1>. QED BY <1>1 DEF DailyNext

-----------------------------------------------------------------------------
(* The inductive invariant                                                 *)

LEMMA Stutters == ASSUME IInv, UNCHANGED vars PROVE IInv'
  <1>. USE DEF vars, db, journal, backend, superv, rest
  <1>1. TypeOK'
    BY DEF IInv, TypeOK
  <1>2. RunInv' /\ TodoInv'
    BY DEF IInv, RunInv, TodoInv, Busy
  <1>3. ExclInv' /\ OneActiveRun'
    BY DEF IInv, ExclInv, OneActiveRun, Active, Busy
  <1>4. EffectInv'
    BY DEF IInv, EffectInv
  <1>. QED BY <1>1, <1>2, <1>3, <1>4 DEF IInv

LEMMA InvariantInit == ASSUME BoundsAssumption, Init PROVE IInv
  <1>1. TypeOK
    <2>1. run \in [pc : RunPcs, op : Ops \cup {0}] /\ sched \in [pc : SchedPcs, day : Days \cup {0}]
      BY DEF Init, RunPcs, SchedPcs
    <2>2. faults \in 0..MaxFaults /\ day \in Days \cup {0}
      BY DEF Init, BoundsAssumption
    <2>3. effects \in [Ops -> [supervisor : Nat, viewer : Nat]]
      BY DEF Init
    <2>4. /\ enabled \in BOOLEAN /\ up \in BOOLEAN /\ stopped \in BOOLEAN
          /\ retry \in BOOLEAN /\ ask \in BOOLEAN
      BY DEF Init
    <2>. QED BY <2>1, <2>2, <2>3, <2>4 DEF Init, TypeOK, Statuses, Phases
  <1>2. RunInv /\ TodoInv
    BY NoOpZero DEF Init, RunInv, TodoInv, Working, Busy
  <1>3. ExclInv /\ OneActiveRun
    BY DEF Init, ExclInv, OneActiveRun, Active, Busy
  <1>4. EffectInv
    BY DEF Init, EffectInv
  <1>. QED BY <1>1, <1>2, <1>3, <1>4 DEF IInv

LEMMA InvariantNext == ASSUME BoundsAssumption, IInv, [Next]_vars PROVE IInv'
  <1>. USE DEF IInv
  <1>1. CASE RunnerNext
    BY <1>1, TypesRunner, RunInvRunner, TodoInvRunner, ExclInvRunner,
        OneActiveRunRunner,
       EffectInvRunner
  <1>2. CASE RecoveryNext
    BY <1>2, TypesRecovery, RunInvRecovery, TodoInvRecovery, ExclInvRecovery,
       OneActiveRunRecovery, EffectInvRecovery
  <1>3. CASE BackendNext
    BY <1>3, TypesBackend, RunInvBackend, TodoInvBackend, ExclInvBackend,
       OneActiveRunBackend, EffectInvBackend
  <1>4. CASE SupervisorNext
    BY <1>4, TypesSupervisor, RunInvSupervisor, TodoInvSupervisor,
        ExclInvSupervisor,
       OneActiveRunSupervisor, EffectInvSupervisor
  <1>5. CASE DailyNext
    BY <1>5, TypesDaily, RunInvDaily, TodoInvDaily, ExclInvDaily, OneActiveRunDaily,
       EffectInvDaily
  <1>6. CASE UNCHANGED vars
    BY <1>6, Stutters
  <1>. QED BY <1>1, <1>2, <1>3, <1>4, <1>5, <1>6 DEF Next

\* The inductive invariant holds in every reachable state.
THEOREM UpdateInvariant == Spec => []IInv
  BY BoundsAssumption, InvariantInit, InvariantNext, PTL DEF Spec

\* The tables, both processes and the history keep their types.
THEOREM UpdateTypes == Spec => []TypeOK
  BY UpdateInvariant, PTL DEF IInv

\* A daily run that changes something never overlaps an accepted operation:
\* the scheduler's run is active, and an operation in hand rules that out.
THEOREM OperationsExcludeDaily == Spec => []NoOperationOverlap
  <1>1. IInv => NoOperationOverlap
    BY DEF IInv, ExclInv, OneActiveRun, NoOperationOverlap, Mutating, Active
  <1>. QED BY <1>1, UpdateInvariant, PTL

\* At most one daily run is active, and it is the one the scheduler works on.
THEOREM SingleDailyRun == Spec => []OneActiveRun
  BY UpdateInvariant, PTL DEF IInv

\* No restart of the supervisor or of ExView is issued twice for an operation.
THEOREM NoRestartReissued == Spec => []RestartsIssuedOnce
  <1>1. IInv => RestartsIssuedOnce
    BY DEF IInv, EffectInv, RestartsIssuedOnce
  <1>. QED BY <1>1, UpdateInvariant, PTL

-----------------------------------------------------------------------------
(* Action properties                                                       *)

\* Every way in which a step changes the recorded statuses.
StatusStep ==
    \/ status' = status
    \/ \E o \in Ops : status[o] = "none" /\ status' = [status EXCEPT ![o] = "queued"]
    \/ /\ up /\ run.pc = "begun"
       /\ status' = [status EXCEPT ![run.op] = "running"]
    \/ /\ run.pc = "exec"
       /\ status' = [status EXCEPT ![run.op] = "restarting"]
    \/ /\ run.pc = "finishOk"
       /\ status' = [status EXCEPT ![run.op] = "succeeded"]
    \/ /\ run.pc = "finishFail"
       /\ status' = [status EXCEPT ![run.op] = "failed"]
    \/ status' = Interrupted

LEMMA StatusSteps == ASSUME [Next]_vars PROVE StatusStep
  <1>. USE DEF StatusStep, db, journal, backend, superv, rest
  <1>1. CASE RunnerNext
    BY <1>1 DEF RunnerNext, RetryTimer, DrainEnds, BeginManualUpdate, MarkRunning,
        Executed, MarkRestarting, RequestRestart, EndManualUpdate, HandedOff,
        FinishOperation
  <1>2. CASE RecoveryNext
    BY <1>2 DEF RecoveryNext, RecoverNextOp, SupervisorIssued,
        RestartInstalledSupervisor, SupervisorVerified, ViewerIssued,
        RefreshViewer, ViewerVerified, RecoveryFails
  <1>3. CASE BackendNext
    BY <1>3 DEF BackendNext, BackendBoot, StopBackend, BackendExit, BackendCrash,
        BackendGone, ApplyBegin, ApplyEnd, Enqueue
  <1>4. CASE SupervisorNext
    BY <1>4 DEF SupervisorNext, SupervisorBoot, CatalogReady, SupervisorClose,
        SupervisorExit, SupervisorCrash, ControlArrives, ControlResumes,
        ControlDone
  <1>5. CASE DailyNext
    BY <1>5 DEF DailyNext, NextDay, BeginDailyRun, TickRecovers, DrainControls,
        Checkpoint, Finish, DisableDaily, FailRecovery, RetryDailyRecovery, Enable
  <1>6. CASE UNCHANGED vars
    BY <1>6 DEF vars
  <1>. QED BY <1>1, <1>2, <1>3, <1>4, <1>5, <1>6 DEF Next

LEMMA OnceStep ==
  ASSUME IInv, StatusStep, NEW o \in Ops
  PROVE  /\ status[o] \in {"running", "restarting"} => status'[o] # "queued"
         /\ status[o] \in {"succeeded", "failed"} => status'[o] = status[o]
  BY DEF IInv, TypeOK, StatusStep, RunInv, Working, Busy, RunPcs, Interrupted

\* An operation is started once and settled once, wherever the backend dies.
THEOREM OperationsRunOnce == Spec => RunsAtMostOnce
  <1>1. IInv /\ [Next]_vars =>
          [\A o \in Ops :
             /\ status[o] \in {"running", "restarting"} => status'[o] # "queued"
             /\ status[o] \in {"succeeded", "failed"} => status'[o] = status[o]]_vars
    BY StatusSteps, OnceStep
  <1>. QED BY <1>1, UpdateInvariant, PTL DEF RunsAtMostOnce, Spec

LEMMA AloneStep ==
  ASSUME BoundsAssumption, IInv, StatusStep, NEW o \in Ops, NEW p \in Ops,
         status[o] = "queued", status'[o] = "running"
  PROVE  status[p] # "running"
  <1>1. up /\ run.pc = "begun" /\ status[run.op] = "queued"
    BY DEF IInv, TypeOK, StatusStep, RunInv, Interrupted
  <1>. QED BY <1>1 DEF IInv, RunInv

\* Operations are carried out one at a time, across crashes.
THEOREM OperationsRunAlone == Spec => OneAtATime
  <1>1. IInv /\ [Next]_vars =>
          [\A o, p \in Ops :
             status[o] = "queued" /\ status'[o] = "running" => status[p] # "running"]_vars
    BY BoundsAssumption, StatusSteps, AloneStep
  <1>. QED BY <1>1, UpdateInvariant, PTL DEF OneAtATime, Spec

LEMMA CompleteStep ==
  ASSUME IInv, StatusStep, NEW o \in Ops,
         status[o] = "restarting", status'[o] = "succeeded"
  PROVE  effects[o].viewer = 1
  BY DEF IInv, TypeOK, StatusStep, RunInv, EffectInv, Interrupted

\* A self restart that is recorded as succeeded has refreshed the viewer.
THEOREM SuccessRefreshedViewer == Spec => SuccessIsComplete
  <1>1. IInv /\ [Next]_vars =>
          [\A o \in Ops : status[o] = "restarting" /\ status'[o] = "succeeded" =>
             effects[o].viewer = 1]_vars
    BY StatusSteps, CompleteStep
  <1>. QED BY <1>1, UpdateInvariant, PTL DEF SuccessIsComplete, Spec
=============================================================================
