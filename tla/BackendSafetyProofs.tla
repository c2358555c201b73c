------------------------ MODULE BackendSafetyProofs ------------------------
(***************************************************************************)
(* The safety of BackendController for every value of its constants: the   *)
(* invariant IInv of BackendControllerProofs is inductive, and it implies  *)
(* that at most one published backend is alive, that the durable slot      *)
(* names it, and that a durable "stopped" is true.                         *)
(*                                                                         *)
(* The second part adds what the suspended operation and the queued        *)
(* snapshots know of the intent: PromiseInv is inductive, a backend is     *)
(* spawned only on a durable reservation with the intent "running", and    *)
(* what a reader of the slot sees implements BackendPromise.               *)
(***************************************************************************)
EXTENDS BackendControllerProofs

-----------------------------------------------------------------------------
(* A segment of the supervisor: what every step of its code has in common  *)

Emitted == sq' = sq \/ \E w \in Writers : Emit(w)

\* The operating system and the slot stay; at most one snapshot of the fields
\* after the step is queued; a live backend is not let go of; and recovery
\* decides in favour of the live backend the slot named, if there is one.
Segment ==
    /\ UNCHANGED <<os, store, prev>> /\ up /\ up'
    /\ last' \in {last, last + 1}
    /\ Emitted
    /\ child' = 0 \/ adopted' = 0
    /\ Pid' # 0 => token' = Pid' /\ os[Pid'] # "none"
    /\ Live(Pid) => Pid' = Pid
    /\ Undecided' => Undecided /\ sq' = sq
    /\ Undecided /\ ~Undecided' /\ Live(prev.pid) => Pid' = prev.pid
    /\ state' = "stopped" => ~Live(Pid')
    /\ op'.pc = "startReserve" =>
          last' # 0 /\ os[last'] = "none" /\ token' = last' /\ state' = "starting"

\* What a snapshot adds to the queue.
LEMMA EmitFacts ==
  ASSUME sq \in Seq(Entries), Emitted
  PROVE  /\ \A n \in DOMAIN sq : n \in DOMAIN sq' /\ sq'[n] = sq[n]
         /\ \A n \in DOMAIN sq' :
               \/ n \in DOMAIN sq /\ n \in 1..Len(sq)
               \/ /\ n = Len(sq) + 1 /\ sq' # sq
                  /\ sq'[n].pid = Pid' /\ sq'[n].token = token' /\ sq'[n].state = state'
         /\ Len(sq) \in Nat /\ DOMAIN sq = 1..Len(sq) /\ DOMAIN sq' \subseteq 1..(Len(sq) + 1)
<1>1. CASE sq' = sq
  BY <1>1
<1>2. CASE \E w \in Writers : Emit(w)
  <2>1. PICK w \in Writers : Emit(w)
    BY <1>2
  <2> DEFINE e == [w |-> w, state |-> state', desired |-> desired',
                   pid |-> IF child' # 0 THEN child' ELSE adopted', token |-> token']
  <2>2. sq' = Append(sq, e) /\ e.pid = Pid' /\ e.token = token' /\ e.state = state'
    BY <2>1 DEF Emit, Pid
  <2> HIDE DEF e
  <2>3. /\ Len(sq') = Len(sq) + 1 /\ Len(sq) \in Nat
        /\ DOMAIN sq = 1..Len(sq) /\ DOMAIN sq' = 1..(Len(sq) + 1)
        /\ \A n \in 1..Len(sq) : sq'[n] = sq[n]
        /\ sq'[Len(sq) + 1] = e
    BY <2>2
  <2>4. sq' # sq
    BY <2>3
  <2>5. \A n \in DOMAIN sq : n \in DOMAIN sq' /\ sq'[n] = sq[n]
    BY <2>3
  <2>6. ASSUME NEW n \in DOMAIN sq'
        PROVE  \/ n \in DOMAIN sq /\ n \in 1..Len(sq)
               \/ /\ n = Len(sq) + 1 /\ sq' # sq
                  /\ sq'[n].pid = Pid' /\ sq'[n].token = token' /\ sq'[n].state = state'
    <3>1. n \in 1..Len(sq) \/ n = Len(sq) + 1
      BY <2>3
    <3>2. CASE n = Len(sq) + 1
      BY <2>2, <2>3, <2>4, <3>2
    <3> QED BY <2>3, <3>1, <3>2
  <2> QED BY <2>3, <2>5, <2>6
<1> QED BY <1>1, <1>2 DEF Emitted

\* A segment that is right about its own fields keeps the whole invariant.
LEMMA SegmentKeeps ==
  ASSUME IInv, Segment
  PROVE  OwnInv' /\ LaunchInv' /\ QueueInv' /\ TrackedInv'
<1> USE DEF IInv
<1>0. (\A i : Live(i)' <=> Live(i)) /\ (Live(Pid)' <=> Live(Pid'))
  BY DEF Segment, Live
<1>1. sq \in Seq(Entries) /\ published \subseteq Inst /\ last \in Nat
  BY BoundsAssumption DEF TypeOK, Ref
<1>2. LaunchInv'
  <2>1. \A i \in Inst : i > last' => os'[i] = "none"
    BY <1>1, BoundsAssumption DEF Segment, LaunchInv, TypeOK, Ref, Inst
  <2>2. \A n \in DOMAIN sq' : sq'[n].pid # 0 => sq'[n].token = sq'[n].pid /\ os'[sq'[n].pid] # "none"
    BY <1>1, EmitFacts DEF Segment, LaunchInv
  <2> QED BY <2>1, <2>2 DEF LaunchInv, Segment, store
<1>3. QueueInv'
  <2>1. ASSUME NEW m \in DOMAIN sq', Live(sq'[m].pid)
        PROVE  Pid' = sq'[m].pid /\ \A n \in DOMAIN sq' : n >= m => sq'[n].pid = sq'[m].pid
    <3>1. CASE m \in DOMAIN sq
      <4>1. Pid' = sq[m].pid /\ sq'[m] = sq[m]
        BY <1>1, <2>1, <3>1, EmitFacts DEF QueueInv, Segment
      <4>2. ASSUME NEW n \in DOMAIN sq', n >= m PROVE sq'[n].pid = sq'[m].pid
        BY <1>1, <2>1, <3>1, <4>1, <4>2, EmitFacts DEF QueueInv, Segment
      <4> QED BY <4>1, <4>2
    <3>2. CASE m \notin DOMAIN sq
      BY <1>1, <2>1, <3>2, EmitFacts DEF Segment
    <3> QED BY <3>1, <3>2
  <2>2. ASSUME NEW m \in DOMAIN sq', sq'[m].state = "stopped" PROVE ~Live(sq'[m].pid)
    BY <1>1, <2>2, EmitFacts DEF QueueInv, Segment
  <2>3. ASSUME Live(unsaved.pid)
        PROVE  Pid' = unsaved.pid /\ \A n \in DOMAIN sq' : sq'[n].pid = unsaved.pid
    BY <1>1, <2>3, EmitFacts DEF QueueInv, Segment
  <2> QED BY <1>0, <2>1, <2>2, <2>3 DEF QueueInv, Segment, store
<1>4. TrackedInv'
  <2> SUFFICES ASSUME NEW i \in published, Live(i)
               PROVE  /\ disk'.pid = i
                      /\ unsaved' # NoRecord => unsaved'.pid = i
                      /\ \A n \in DOMAIN sq' : sq'[n].pid = i
                      /\ Pid' = i \/ (Undecided' /\ prev'.pid = i)
    BY <1>0 DEF TrackedInv, Segment, store
  <2>1. disk.pid = i /\ (unsaved # NoRecord => unsaved.pid = i) /\ (\A n \in DOMAIN sq : sq[n].pid = i) /\ (Pid = i \/ (Undecided /\ prev.pid = i))
    BY DEF TrackedInv, Segment
  <2>2. Pid' = i \/ (Undecided' /\ prev'.pid = i)
    BY <2>1 DEF Segment
  <2>3. sq' = sq \/ Pid' = i
    BY <2>2 DEF Segment
  <2>4. \A n \in DOMAIN sq' : sq'[n].pid = i
    BY <1>1, <2>1, <2>3, EmitFacts DEF Segment
  <2> QED BY <2>1, <2>2, <2>4 DEF Segment, store
<1>5. OwnInv'
  BY <1>0 DEF OwnInv, Segment
<1> QED BY <1>2, <1>3, <1>4, <1>5

-----------------------------------------------------------------------------
(* The segments                                                            *)

\* What the building blocks leave in the operation and in the queue.
LEMMA OpFacts ==
  ASSUME op \in Ops
  PROVE  /\ \A pc, io : Go(pc, io) => op'.pc = pc /\ op'.tgt = op.tgt
         /\ \A pc, i : ProbeThen(pc, i) \/ TerminateThen(pc, i) => op'.pc = pc /\ op'.tgt = i
         /\ op' = PortProbe => op'.pc = "startPort"
<1>1. ASSUME NEW pc, NEW io, Go(pc, io) PROVE op'.pc = pc /\ op'.tgt = op.tgt
  BY <1>1 DEF Go, Ops
<1>2. ASSUME NEW pc, NEW i, ProbeThen(pc, i) \/ TerminateThen(pc, i) PROVE op'.pc = pc /\ op'.tgt = i
  BY <1>2 DEF ProbeThen, TerminateThen, Ops
<1>3. op' = PortProbe => op'.pc = "startPort"
  BY DEF PortProbe, Ops
<1> QED BY <1>1, <1>2, <1>3

LEMMA EmitOpFacts ==
  ASSUME op \in Ops
  PROVE  /\ \A pc : EmitThen(pc) => Emitted /\ op'.pc = pc /\ op'.tgt = op.tgt
         /\ \A pc, i : EmitFor(pc, i) => Emitted /\ op'.pc = pc /\ op'.tgt = i
         /\ sq' = sq \/ Emit("nobody") \/ Emit("achk") => Emitted
<1>1. Emit("op") \/ Emit("nobody") \/ Emit("achk") \/ sq' = sq => Emitted
  BY DEF Emitted, Writers
<1>2. ASSUME NEW pc, EmitThen(pc) PROVE Emitted /\ op'.pc = pc /\ op'.tgt = op.tgt
  BY <1>1, <1>2, OpFacts DEF EmitThen
<1>3. ASSUME NEW pc, NEW i, EmitFor(pc, i) PROVE Emitted /\ op'.pc = pc /\ op'.tgt = i
  BY <1>1, <1>3 DEF EmitFor, Ops
<1> QED BY <1>1, <1>2, <1>3

LEMMA LiveFacts == /\ \A i : Serving(i) => Live(i)
                   /\ \A i : Live(i) => i # 0 /\ i \in Inst /\ os[i] # "none"
  BY BoundsAssumption DEF Live, Serving, Inst

LEMMA SegmentRecover ==
  ASSUME IInv, RecoverNext
  PROVE  Segment /\ SuspendInv'
<1>0. op \in Ops
  BY DEF IInv, TypeOK
<1>1. CASE Recover
  BY <1>0, <1>1, OpFacts, EmitOpFacts, LiveFacts DEF Recover, At, Segment,
    IInv, OwnInv, SuspendInv, Undecided, Pid, host, ident, phase, watch,
    sched, sup, budget
<1>2. CASE AdoptProbe
  BY <1>0, <1>2, OpFacts, EmitOpFacts, LiveFacts DEF AdoptProbe, Accept, At,
    Segment, IInv, OwnInv, SuspendInv, Undecided, Pid, host, ident, phase,
    watch, sched, sup, budget
<1>3. CASE Adopted
  BY <1>0, <1>3, OpFacts, EmitOpFacts, LiveFacts DEF Adopted, Written, At,
    Segment, IInv, OwnInv, SuspendInv, Undecided, Pid, host, ident, phase,
    sched, sup, budget
<1>4. CASE IdentityFound
  BY <1>0, <1>4, EmitOpFacts, LiveFacts DEF IdentityFound, Accept, At,
    Segment, IInv, OwnInv, SuspendInv, Undecided, Pid, host, watch, sched,
    sup, budget
<1>5. CASE IdentityGone
  BY <1>0, <1>5, OpFacts, EmitOpFacts, LiveFacts DEF IdentityGone, At,
    Segment, IInv, OwnInv, SuspendInv, Undecided, Pid, host, phase, watch,
    sched, sup, budget
<1>6. CASE IdentityAbsent
  BY <1>0, <1>6, OpFacts, EmitOpFacts, LiveFacts DEF IdentityAbsent, At,
    Segment, IInv, OwnInv, SuspendInv, Undecided, Pid, host, phase, watch,
    sched, sup, budget
<1>7. CASE IdentityUnverified
  BY <1>0, <1>7, EmitOpFacts, LiveFacts DEF IdentityUnverified, At, Segment,
    IInv, OwnInv, SuspendInv, Undecided, Pid, host, watch, sched, sup, budget
<1>8. CASE RecoverRefuse
  BY <1>0, <1>8, OpFacts, EmitOpFacts, LiveFacts DEF RecoverRefuse, Written,
    At, Segment, IInv, OwnInv, SuspendInv, Undecided, Pid, host, ident,
    phase, sched, sup, budget
<1>9. CASE RecoverStopped
  BY <1>0, <1>9, OpFacts, EmitOpFacts, LiveFacts DEF RecoverStopped, At,
    Segment, IInv, OwnInv, SuspendInv, Undecided, Pid, host, sup, budget
<1>10. CASE StoppedFound
  BY <1>0, <1>10, EmitOpFacts, LiveFacts DEF StoppedFound, At, Segment, IInv,
    OwnInv, SuspendInv, Undecided, Pid, host, watch, sched, sup, budget
<1>11. CASE StoppedGone
  BY <1>0, <1>11, EmitOpFacts, LiveFacts DEF StoppedGone, At, Segment, IInv,
    OwnInv, SuspendInv, Undecided, Pid, host, watch, sched, sup, budget
<1>12. CASE StoppedUnverified
  BY <1>0, <1>12, EmitOpFacts, LiveFacts DEF StoppedUnverified, At, Segment,
    IInv, OwnInv, SuspendInv, Undecided, Pid, host, watch, sched, sup, budget
<1>13. CASE RecoverStopping
  BY <1>0, <1>13, OpFacts, EmitOpFacts, LiveFacts DEF RecoverStopping,
    Written, At, Segment, IInv, OwnInv, SuspendInv, Undecided, Pid, host,
    ident, phase, watch, sched, sup, budget
<1>14. CASE RecoverKilled
  BY <1>0, <1>14, EmitOpFacts, LiveFacts DEF RecoverKilled, ClearAdopted, At,
    Segment, IInv, OwnInv, SuspendInv, Undecided, Pid, host, sched, sup,
    budget
<1>15. CASE RecoverKillFails
  BY <1>0, <1>15, EmitOpFacts, LiveFacts DEF RecoverKillFails, At, Segment,
    IInv, OwnInv, SuspendInv, Undecided, Pid, host, ident, watch, sched, sup
<1> QED BY <1>1, <1>2, <1>3, <1>4, <1>5, <1>6, <1>7, <1>8, <1>9, <1>10, <1>11, <1>12,
  <1>13, <1>14, <1>15 DEF RecoverNext

LEMMA SegmentStart ==
  ASSUME IInv, StartNext, ~StartSpawn
  PROVE  Segment /\ SuspendInv'
<1>0. op \in Ops
  BY DEF IInv, TypeOK
<1>1. CASE Start
  BY <1>0, <1>1, OpFacts, EmitOpFacts, LiveFacts DEF Start, ClearAdopted, At,
    Segment, IInv, OwnInv, SuspendInv, Undecided, Pid, host, ident, watch,
    sup, budget
<1>2. CASE StartProbe
  BY <1>0, <1>2, OpFacts, EmitOpFacts, LiveFacts DEF StartProbe, At, Segment,
    IInv, OwnInv, SuspendInv, Undecided, Pid, host, ident, watch, sched, sup,
    budget
<1>3. CASE StartAdopted
  BY <1>0, <1>3, OpFacts, EmitOpFacts, LiveFacts DEF StartAdopted, Written,
    At, Segment, IInv, OwnInv, SuspendInv, Undecided, Pid, host, ident,
    phase, sched, sup, budget
<1>4. CASE StartReplaced
  BY <1>0, <1>4, OpFacts, EmitOpFacts, LiveFacts DEF StartReplaced, At,
    Segment, IInv, OwnInv, SuspendInv, Undecided, Pid, host, ident, phase,
    watch, sched, sup, budget
<1>5. CASE StartOccupied
  BY <1>0, <1>5, EmitOpFacts, LiveFacts DEF StartOccupied, At, Segment, IInv,
    OwnInv, SuspendInv, Undecided, Pid, host, ident, watch, sched, sup,
    budget
<1>6. CASE StartReserve
  <2>1. /\ Emitted /\ op'.pc = "startReserve" /\ child = 0 /\ adopted = 0 /\ up
        /\ ~Undecided
    BY <1>0, <1>6, EmitOpFacts DEF StartReserve, At, IInv, SuspendInv, Undecided
  <2>2. last' # 0 /\ last' \in Inst /\ os[last'] = "none"
    BY <1>6, BoundsAssumption DEF StartReserve, IInv, LaunchInv, TypeOK, Ref, Inst
  <2> QED
    BY <1>6, <2>1, <2>2, LiveFacts DEF StartReserve, Segment, SuspendInv, Undecided,
      Pid, sup
<1>7. CASE StartReserveFails
  BY <1>0, <1>7, OpFacts, EmitOpFacts, LiveFacts DEF StartReserveFails,
    ScheduleRestart, Rejected, At, Segment, IInv, OwnInv, SuspendInv,
    Undecided, Pid, host, watch, sup, budget
<1>8. CASE StartSpawnFails
  BY <1>0, <1>8, OpFacts, EmitOpFacts, LiveFacts DEF StartSpawnFails,
    ScheduleRestart, Written, At, Segment, IInv, OwnInv, SuspendInv,
    Undecided, Pid, host, watch, sup
<1>9. CASE StartPublished
  BY <1>0, <1>9, OpFacts, EmitOpFacts, LiveFacts DEF StartPublished, Written,
    At, Segment, IInv, OwnInv, SuspendInv, Undecided, Pid, host, ident,
    phase, watch, sched, sup, budget
<1>10. CASE StartReady
  BY <1>0, <1>10, EmitOpFacts, LiveFacts DEF StartReady, At, Segment, IInv,
    OwnInv, SuspendInv, Undecided, Pid, host, ident, sched, sup, budget
<1>11. CASE StartNotReady
  BY <1>0, <1>11, OpFacts, EmitOpFacts, LiveFacts DEF StartNotReady, At,
    Segment, IInv, OwnInv, SuspendInv, Undecided, Pid, host, ident, phase,
    watch, sched, sup, budget
<1>12. CASE StartUnwritten
  BY <1>0, <1>12, OpFacts, EmitOpFacts, LiveFacts DEF StartUnwritten,
    Rejected, At, Segment, IInv, OwnInv, SuspendInv, Undecided, Pid, host,
    ident, phase, watch, sched, sup, budget
<1>13. CASE StartCleaned
  BY <1>0, <1>13, OpFacts, EmitOpFacts, LiveFacts DEF StartCleaned, At,
    Segment, IInv, OwnInv, SuspendInv, Undecided, Pid, host, ident, phase,
    watch, sched, sup, budget
<1>14. CASE StartCleanupFails
  BY <1>0, <1>14, OpFacts, EmitOpFacts, LiveFacts DEF StartCleanupFails,
    ScheduleRestart, At, Segment, IInv, OwnInv, SuspendInv, Undecided, Pid,
    host, ident, watch, sup
<1> QED BY <1>1, <1>2, <1>3, <1>4, <1>5, <1>6, <1>7, <1>8, <1>9, <1>10, <1>11, <1>12,
  <1>13, <1>14 DEF StartNext

LEMMA SegmentStop ==
  ASSUME IInv, StopNext
  PROVE  Segment /\ SuspendInv'
<1>0. op \in Ops
  BY DEF IInv, TypeOK
<1>1. CASE Stop
  BY <1>0, <1>1, EmitOpFacts, LiveFacts DEF Stop, Written, At, Segment, IInv,
    OwnInv, SuspendInv, Undecided, Pid, host, ident, sup, budget
<1>2. CASE StopAdopted
  BY <1>0, <1>2, OpFacts, EmitOpFacts, LiveFacts DEF StopAdopted, Written,
    At, Segment, IInv, OwnInv, SuspendInv, Undecided, Pid, host, ident,
    phase, watch, sched, sup, budget
<1>3. CASE StopProbe
  BY <1>0, <1>3, OpFacts, EmitOpFacts, LiveFacts DEF StopProbe, At, Segment,
    IInv, OwnInv, SuspendInv, Undecided, Pid, host, ident, watch, sched, sup,
    budget
<1>4. CASE StopKilled
  BY <1>0, <1>4, EmitOpFacts, LiveFacts DEF StopKilled, ClearAdopted, At,
    Segment, IInv, OwnInv, SuspendInv, Undecided, Pid, host, sched, sup,
    budget
<1>5. CASE StopFails
  BY <1>0, <1>5, EmitOpFacts, LiveFacts DEF StopFails, Rejected, At, Segment,
    IInv, OwnInv, SuspendInv, Undecided, Pid, host, ident, watch, sched, sup,
    budget
<1>6. CASE StopChild
  BY <1>0, <1>6, OpFacts, EmitOpFacts, LiveFacts DEF StopChild, Written, At,
    Segment, IInv, OwnInv, SuspendInv, Undecided, Pid, host, ident, phase,
    watch, sched, sup, budget
<1>7. CASE StopTerminated
  BY <1>0, <1>7, EmitOpFacts, LiveFacts DEF StopTerminated, At, Segment,
    IInv, OwnInv, SuspendInv, Undecided, Pid, host, ident, watch, sched, sup,
    budget
<1>8. CASE Restart
  BY <1>0, <1>8, EmitOpFacts, LiveFacts DEF Restart, At, Segment, IInv,
    OwnInv, SuspendInv, Undecided, Pid, host, ident, watch, sched, sup,
    budget
<1>9. CASE Preserve
  BY <1>0, <1>9, EmitOpFacts, LiveFacts DEF Preserve, At, Segment, IInv,
    OwnInv, SuspendInv, Undecided, Pid, host, ident, phase, sup, budget
<1>10. CASE LastWrite
  BY <1>0, <1>10, OpFacts, EmitOpFacts, LiveFacts DEF LastWrite, Segment,
    IInv, OwnInv, SuspendInv, Undecided, Pid, host, ident, phase, watch,
    sched, sup, budget
<1> QED BY <1>1, <1>2, <1>3, <1>4, <1>5, <1>6, <1>7, <1>8, <1>9, <1>10 DEF StopNext

LEMMA SegmentMonitor ==
  ASSUME IInv, MonitorNext
  PROVE  Segment /\ SuspendInv'
<1>0. op \in Ops
  BY DEF IInv, TypeOK
<1>1. CASE OwnedTick
  BY <1>0, <1>1, EmitOpFacts, LiveFacts DEF OwnedTick, Quiet, Segment, IInv,
    OwnInv, SuspendInv, Undecided, Pid, host, ident, phase, sched, sup,
    budget
<1>2. CASE OwnedChecked
  BY <1>0, <1>2, EmitOpFacts, LiveFacts DEF OwnedChecked, OwnedCurrent,
    Quiet, Segment, IInv, OwnInv, SuspendInv, Undecided, Pid, host, ident,
    phase, sched, sup, budget, MonitorInv
<1>3. CASE OwnedKill
  BY <1>0, <1>3, OpFacts, EmitOpFacts, LiveFacts DEF OwnedKill, OwnedCurrent,
    At, Segment, IInv, OwnInv, SuspendInv, Undecided, Pid, host, ident,
    watch, sched, sup, budget, MonitorInv
<1>4. CASE OwnedTerminate
  BY <1>0, <1>4, OpFacts, EmitOpFacts, LiveFacts DEF OwnedTerminate, Written,
    At, Segment, IInv, OwnInv, SuspendInv, Undecided, Pid, host, ident,
    phase, watch, sched, sup, budget
<1>5. CASE OwnedTerminated
  BY <1>0, <1>5, OpFacts, EmitOpFacts, LiveFacts DEF OwnedTerminated, At,
    Segment, IInv, OwnInv, SuspendInv, Undecided, Pid, host, ident, phase,
    watch, sched, sup, budget
<1>6. CASE OwnedKillFails
  BY <1>0, <1>6, EmitOpFacts, LiveFacts DEF OwnedKillFails, At, Segment,
    IInv, OwnInv, SuspendInv, Undecided, Pid, host, ident, phase, watch,
    sched, sup
<1>7. CASE OwnedRetry
  BY <1>0, <1>7, OpFacts, EmitOpFacts, LiveFacts DEF OwnedRetry,
    ScheduleRestart, Written, At, Segment, IInv, OwnInv, SuspendInv,
    Undecided, Pid, host, ident, phase, watch, sup, budget
<1>8. CASE AdoptedTick
  BY <1>0, <1>8, EmitOpFacts, LiveFacts DEF AdoptedTick, ClearAdopted, Quiet,
    Segment, IInv, OwnInv, SuspendInv, Undecided, Pid, host, ident, sched,
    sup, budget
<1>9. CASE AdoptedChecked
  BY <1>0, <1>9, EmitOpFacts, LiveFacts DEF AdoptedChecked, AdoptedCurrent,
    Quiet, Segment, IInv, OwnInv, SuspendInv, Undecided, Pid, host, ident,
    sched, sup, budget, MonitorInv
<1>10. CASE AdoptedTold
  BY <1>0, <1>10, EmitOpFacts, LiveFacts DEF AdoptedTold, ScheduleRestart,
    Quiet, Segment, IInv, OwnInv, SuspendInv, Undecided, Pid, host, ident,
    sched, sup, budget
<1>11. CASE AdoptedStop
  BY <1>0, <1>11, OpFacts, EmitOpFacts, LiveFacts DEF AdoptedStop,
    AdoptedCurrent, At, Segment, IInv, OwnInv, SuspendInv, Undecided, Pid,
    host, ident, watch, sched, sup, budget, MonitorInv
<1>12. CASE AdoptedTerminate
  BY <1>0, <1>12, OpFacts, EmitOpFacts, LiveFacts DEF AdoptedTerminate,
    Written, At, Segment, IInv, OwnInv, SuspendInv, Undecided, Pid, host,
    ident, phase, watch, sched, sup, budget
<1>13. CASE AdoptedKilled
  BY <1>0, <1>13, EmitOpFacts, LiveFacts DEF AdoptedKilled, ClearAdopted, At,
    Segment, IInv, OwnInv, SuspendInv, Undecided, Pid, host, sched, sup,
    budget
<1>14. CASE AdoptedKillFails
  BY <1>0, <1>14, EmitOpFacts, LiveFacts DEF AdoptedKillFails, Rejected, At,
    Segment, IInv, OwnInv, SuspendInv, Undecided, Pid, host, ident, watch,
    sched, sup, budget
<1> QED BY <1>1, <1>2, <1>3, <1>4, <1>5, <1>6, <1>7, <1>8, <1>9, <1>10, <1>11, <1>12,
  <1>13, <1>14 DEF MonitorNext

LEMMA SegmentEvent ==
  ASSUME IInv, EventNext, ~WriteStatus, ~WriteFails, ~OtherWrite
  PROVE  Segment /\ SuspendInv'
<1>0. op \in Ops
  BY DEF IInv, TypeOK
<1>1. CASE ExitEvent
  BY <1>0, <1>1, EmitOpFacts, LiveFacts DEF ExitEvent, ScheduleRestart,
    Quiet, Segment, IInv, OwnInv, SuspendInv, Undecided, Pid, host, sup,
    budget
<1>2. CASE TimerFires
  BY <1>0, <1>2, EmitOpFacts, LiveFacts DEF TimerFires, Quiet, Segment, IInv,
    OwnInv, SuspendInv, Undecided, Pid, host, ident, phase, watch, sup,
    budget
<1>3. CASE Begin
  <2>1. Head(lq) \in Kinds /\ op' = [k |-> Head(lq), tgt |-> 0, io |-> "none",
              pc |-> IF Head(lq) = "timer" THEN "start" ELSE Head(lq)]
    BY <1>3 DEF Begin, IInv, TypeOK
  <2>2. op'.pc \in Kinds
    BY <2>1 DEF Kinds
  <2>3. /\ ~Undecided' /\ op'.pc # "startReserve"
        /\ op'.pc \in Kinds \cup {"start"} /\ ~Undecided
    BY <1>3, <2>2 DEF Begin, Undecided, Kinds, Idle
  <2> QED
    BY <1>3, <2>3, EmitOpFacts, <1>0, LiveFacts DEF Begin, Segment, IInv, OwnInv,
      SuspendInv, Kinds, Pid, host, ident, phase, sup
<1>4. CASE Settle
  BY <1>0, <1>4, EmitOpFacts, LiveFacts DEF Settle, ScheduleRestart, Segment,
    IInv, OwnInv, SuspendInv, Undecided, Pid, host, ident, phase, sched,
    budget, Idle
<1>5. CASE Shutdown
  BY <1>0, <1>5, EmitOpFacts, LiveFacts DEF Shutdown, Quiet, Segment, IInv,
    OwnInv, SuspendInv, Undecided, Pid, host, ident, phase
<1>6. CASE \E k \in Commands : Command(k)
  BY <1>0, <1>6, EmitOpFacts, LiveFacts DEF Command, Quiet, Segment, IInv,
    OwnInv, SuspendInv, Undecided, Pid, host, ident, phase, sup
<1> QED BY <1>1, <1>2, <1>3, <1>4, <1>5, <1>6 DEF EventNext

-----------------------------------------------------------------------------
(* The steps that change the operating system or the slot                  *)

LEMMA EntryFacts == ASSUME sq \in Seq(Entries) PROVE \A n \in DOMAIN sq : sq[n].pid \in Ref
<1> SUFFICES ASSUME NEW n \in DOMAIN sq PROVE sq[n].pid \in Ref
  OBVIOUS
<1>1. sq[n] \in Entries
  OBVIOUS
<1> QED BY <1>1 DEF Entries

\* The spawned instance is new: nothing published or queued names it, and no
\* published backend is alive, because this supervisor holds none.
LEMMA SpawnKeeps == ASSUME IInv, StartSpawn PROVE IInv'
<1> USE DEF IInv
<1>0. TypeOK' /\ MonitorInv'
  BY TypesNext DEF Next, StartNext
<1>1. /\ op \in Ops /\ up /\ op.pc = "startReserve" /\ child = 0 /\ adopted = 0
      /\ last # 0 /\ last \in Inst /\ os[last] = "none" /\ token = last /\ state = "starting"
  BY BoundsAssumption DEF StartSpawn, Written, At, SuspendInv, OwnInv, TypeOK, Ref, Inst
<1>2. /\ os' = [os EXCEPT ![last] = "booting"] /\ last' = last /\ child' = last /\ adopted' = 0
      /\ token' = last /\ state' = "starting" /\ UNCHANGED <<disk, unsaved, published, prev, up>>
  BY <1>1 DEF StartSpawn, phase, store, sup
<1>3. Emitted /\ op'.pc = "startPublish"
  BY <1>1, EmitOpFacts DEF StartSpawn
<1>4. Pid = 0 /\ Pid' = last /\ ~Undecided /\ ~Undecided'
  BY <1>1, <1>2, <1>3 DEF Pid, Undecided
<1>5. /\ \A i : i # last => (Live(i)' <=> Live(i))
      /\ \A i \in Inst : i # last => os'[i] = os[i]
      /\ os'[last] = "booting"
  BY <1>1, <1>2 DEF Live, TypeOK
<1>6. sq \in Seq(Entries) /\ published \subseteq Inst /\ disk.pid \in Ref /\ prev.pid \in Ref
      /\ unsaved.pid \in Ref
  BY DEF TypeOK, Snapshots
<1>7. /\ \A n \in DOMAIN sq : sq[n].pid # last
      /\ disk.pid # last /\ unsaved.pid # last /\ prev.pid # last /\ last \notin published
  BY <1>1, <1>6 DEF LaunchInv, OwnInv
<1>8. \A i \in Ref : i # 0 => i \in Inst
  BY BoundsAssumption DEF Ref, Inst
<1>9. \A n \in DOMAIN sq : sq[n].pid \in Ref
  BY <1>6, EntryFacts
<1>10. OwnInv'
  <2>1. ~(state' = "stopped") /\ op'.pc # "startReserve"
    BY <1>2, <1>3
  <2> QED BY <1>1, <1>2, <1>4, <1>5, <1>6, <1>7, <1>8, <2>1 DEF OwnInv
<1>11. SuspendInv'
  BY <1>1, <1>2, <1>3, <1>4 DEF SuspendInv
<1>12. LaunchInv'
  <2>1. \A i \in Inst : i > last' => os'[i] = "none"
    BY <1>1, <1>2, <1>5 DEF LaunchInv, Inst
  <2>2. \A i \in published' : os'[i] # "none"
    BY <1>2, <1>5, <1>6, <1>7 DEF LaunchInv
  <2>3. ASSUME NEW n \in DOMAIN sq', sq'[n].pid # 0
        PROVE  sq'[n].token = sq'[n].pid /\ os'[sq'[n].pid] # "none"
    BY <1>2, <1>3, <1>4, <1>5, <1>6, <1>7, <1>8, <1>9, <2>3, EmitFacts DEF LaunchInv
  <2>4. /\ disk'.pid # 0 => disk'.token = disk'.pid /\ os'[disk'.pid] # "none"
        /\ unsaved'.pid # 0 => unsaved'.token = unsaved'.pid /\ os'[unsaved'.pid] # "none"
    BY <1>2, <1>5, <1>6, <1>7, <1>8 DEF LaunchInv
  <2> QED BY <2>1, <2>2, <2>3, <2>4 DEF LaunchInv
<1>13. QueueInv'
  <2>0. \A n \in DOMAIN sq : ~Live(sq[n].pid) /\ ~Live(sq[n].pid)'
    BY <1>2, <1>4, <1>5, <1>6, <1>7, LiveFacts, EmitFacts, <1>3 DEF QueueInv, Live
  <2>1. \A n \in DOMAIN sq' :
           \/ n \in DOMAIN sq /\ sq'[n] = sq[n]
           \/ n = Len(sq) + 1 /\ sq'[n].pid = last /\ sq'[n].state = "starting"
    BY <1>2, <1>3, <1>4, <1>6, EmitFacts
  <2>2. ASSUME NEW m \in DOMAIN sq', Live(sq[m].pid)'
        PROVE  Pid' = sq'[m].pid /\ \A n \in DOMAIN sq' : n >= m => sq'[n].pid = sq'[m].pid
    <3>1. m = Len(sq) + 1 /\ sq'[m].pid = last
      BY <1>2, <1>5, <1>7, <2>0, <2>1, <2>2 DEF Live
    <3>2. \A n \in DOMAIN sq' : n >= m => n = m
      BY <1>3, <1>6, <3>1, EmitFacts
    <3> QED BY <1>4, <3>1, <3>2
  <2>3. ASSUME NEW m \in DOMAIN sq', sq'[m].state = "stopped" PROVE ~Live(sq[m].pid)'
    BY <1>5, <1>7, <2>0, <2>1, <2>3 DEF Live
  <2>4. /\ disk'.state = "stopped" => ~Live(disk.pid)'
        /\ unsaved'.state = "stopped" => ~Live(unsaved.pid)'
    BY <1>2, <1>5, <1>7 DEF QueueInv, Live
  <2>5. ~Live(unsaved.pid)'
    BY <1>2, <1>4, <1>5, <1>7, LiveFacts DEF QueueInv, Live
  <2> QED BY <2>2, <2>3, <2>4, <2>5 DEF QueueInv, Live, Pid
<1>14. TrackedInv'
  <2>1. \A i \in published : ~Live(i)
    BY <1>1, <1>4, <1>6, LiveFacts DEF TrackedInv
  <2> QED BY <1>2, <1>5, <1>7, <2>1 DEF TrackedInv
<1> QED BY <1>0, <1>10, <1>11, <1>12, <1>13, <1>14

\* Nothing but a spawn brings a process to life.
LEMMA HostKeeps == ASSUME IInv, HostNext PROVE IInv'
<1> USE DEF IInv
<1>0. TypeOK' /\ MonitorInv'
  BY TypesNext DEF Next
<1>1. /\ UNCHANGED <<last, child, adopted, token, state, op, achk, lq, sq, disk, unsaved, published, up, prev>>
  BY DEF HostNext, ident, phase, watch, store, sup, Listen, PortTaken, Die, Hang, Unhang, Killed
<1>2. /\ \A i : Live(i)' => Live(i)
      /\ \A i \in Inst : os'[i] = "none" <=> os[i] = "none"
  <2>1. PICK i \in Inst, v \in {"serving", "dead", "hung"} :
           os' = [os EXCEPT ![i] = v] /\ (os[i] = "booting" \/ Live(i) \/ os[i] \in {"serving", "hung"})
    BY DEF HostNext, Listen, PortTaken, Die, Hang, Unhang, Killed
  <2> QED BY <2>1 DEF Live, TypeOK
<1>3. /\ sq \in Seq(Entries) /\ published \subseteq Inst /\ disk.pid \in Ref /\ unsaved.pid \in Ref /\ prev.pid \in Ref
      /\ Pid \in Ref /\ last \in Ref
      /\ \A i \in Ref : i # 0 => i \in Inst
  BY BoundsAssumption DEF TypeOK, Snapshots, Pid, Ref, Inst
<1>4. \A n \in DOMAIN sq : sq[n].pid \in Ref
  BY <1>3, EntryFacts
<1>5. Pid' = Pid /\ (Undecided' <=> Undecided)
  BY <1>1 DEF Pid, Undecided
<1>6. OwnInv'
  BY <1>1, <1>2, <1>3, <1>5 DEF OwnInv
<1>7. SuspendInv'
  BY <1>1, <1>5 DEF SuspendInv
<1>8. LaunchInv'
  BY <1>1, <1>2, <1>3, <1>4 DEF LaunchInv
<1>9. QueueInv'
  <2>1. \A m \in DOMAIN sq' : Live(sq[m].pid)' => Live(sq[m].pid)
    BY <1>1, <1>2
  <2> QED BY <1>1, <1>2, <1>5, <2>1 DEF QueueInv
<1>10. TrackedInv'
  BY <1>1, <1>2, <1>5 DEF TrackedInv
<1> QED BY <1>0, <1>6, <1>7, <1>8, <1>9, <1>10

\* What is left of the queue once its head is written or rejected.
LEMMA TailFacts ==
  ASSUME NEW S, NEW s \in Seq(S), s # << >>
  PROVE  /\ Len(s) \in Nat \ {0} /\ DOMAIN s = 1..Len(s)
         /\ 1 \in DOMAIN s /\ Head(s) = s[1]
         /\ \A n \in DOMAIN Tail(s) : n \in Nat /\ n + 1 \in DOMAIN s /\ Tail(s)[n] = s[n + 1]
  OBVIOUS

LEMMA TellKeeps ==
  ASSUME IInv, up, sq # << >>, NEW r, Tell(r)
  PROVE  /\ UNCHANGED <<os, last, child, adopted, token, state, lq, up, prev>>
         /\ op'.pc = op.pc /\ op'.tgt = op.tgt
         /\ OwnInv' /\ SuspendInv'
         /\ \A n \in DOMAIN sq' : n \in Nat /\ n + 1 \in DOMAIN sq /\ sq'[n] = sq[n + 1]
         /\ Pid' = Pid /\ (Undecided' <=> Undecided)
         /\ \A i : Live(i)' <=> Live(i)
         /\ Len(sq) \in Nat /\ DOMAIN sq = 1..Len(sq)
<1> USE DEF IInv
<1>1. /\ UNCHANGED <<os, last, child, adopted, token, state, lq, up, prev>>
      /\ op'.pc = op.pc /\ op'.tgt = op.tgt
  BY DEF Tell, host, ident, phase, sup, TypeOK, Ops
<1>2. Pid' = Pid /\ (Undecided' <=> Undecided) /\ \A i : Live(i)' <=> Live(i)
  BY <1>1 DEF Pid, Undecided, Live
<1>3. OwnInv' /\ SuspendInv'
  BY <1>1, <1>2 DEF OwnInv, SuspendInv
<1>4. sq \in Seq(Entries) /\ sq' = Tail(sq)
  BY DEF TypeOK, Tell
<1> QED BY <1>1, <1>2, <1>3, <1>4, TailFacts

\* A lost write leaves the slot behind, but still naming the live backend.
LEMMA WriteFailsKeeps == ASSUME IInv, WriteFails PROVE IInv'
<1> USE DEF IInv
<1>0. TypeOK' /\ MonitorInv'
  BY TypesNext DEF Next, EventNext
<1>1. up /\ sq # << >> /\ Tell("fail") /\ UNCHANGED <<disk, published>> /\ sq \in Seq(Entries)
  BY DEF WriteFails, Quiet, TypeOK
<1> DEFINE e == sq[1]
<1>5. 1 \in DOMAIN sq /\ unsaved'.state = e.state /\ unsaved'.pid = e.pid /\ unsaved'.token = e.token
  BY <1>1, TailFacts DEF WriteFails, Snapshot
<1> HIDE DEF e
<1>2. LaunchInv'
  <2>1. e.pid # 0 => e.token = e.pid /\ os[e.pid] # "none"
    BY <1>5 DEF LaunchInv, e
  <2> QED BY <1>1, <1>5, <2>1, TellKeeps DEF LaunchInv
<1>3. QueueInv'
  <2>1. ASSUME NEW m \in DOMAIN sq', Live(sq'[m].pid)
        PROVE  Pid = sq'[m].pid /\ \A n \in DOMAIN sq' : n >= m => sq'[n].pid = sq'[m].pid
    <3>1. m \in Nat /\ m + 1 \in DOMAIN sq /\ sq'[m] = sq[m + 1]
      BY <1>1, TellKeeps
    <3>2. Pid = sq[m + 1].pid /\ \A n \in DOMAIN sq : n >= m + 1 => sq[n].pid = sq[m + 1].pid
      BY <2>1, <3>1 DEF QueueInv
    <3>3. ASSUME NEW n \in DOMAIN sq', n >= m PROVE sq'[n].pid = sq'[m].pid
      <4>1. n \in Nat /\ n + 1 \in DOMAIN sq /\ sq'[n] = sq[n + 1]
        BY <1>1, TellKeeps
      <4> QED BY <3>1, <3>2, <3>3, <4>1
    <3> QED BY <3>1, <3>2, <3>3
  <2>2. ASSUME NEW m \in DOMAIN sq', sq'[m].state = "stopped" PROVE ~Live(sq'[m].pid)
    BY <1>1, <2>2, TellKeeps DEF QueueInv
  <2>3. unsaved'.state = "stopped" => ~Live(unsaved'.pid)
    BY <1>5 DEF QueueInv, e
  <2>4. ASSUME Live(unsaved'.pid)
        PROVE  Pid = unsaved'.pid /\ \A n \in DOMAIN sq' : sq'[n].pid = unsaved'.pid
    <3>1. Pid = e.pid /\ \A n \in DOMAIN sq : n >= 1 => sq[n].pid = e.pid
      BY <1>5, <2>4 DEF QueueInv, e
    <3>2. ASSUME NEW n \in DOMAIN sq' PROVE sq'[n].pid = e.pid
      <4>1. n \in Nat /\ n + 1 \in DOMAIN sq /\ sq'[n] = sq[n + 1]
        BY <1>1, TellKeeps
      <4> QED BY <3>1, <4>1
    <3> QED BY <1>5, <3>1, <3>2
  <2> QED BY <1>1, <2>1, <2>2, <2>3, <2>4, TellKeeps DEF QueueInv
<1>4. TrackedInv'
  <2> SUFFICES ASSUME NEW i \in published, Live(i)
               PROVE  /\ disk'.pid = i /\ unsaved'.pid = i
                      /\ \A n \in DOMAIN sq' : sq'[n].pid = i
                      /\ Pid' = i \/ (Undecided' /\ prev'.pid = i)
    BY <1>1, TellKeeps DEF TrackedInv
  <2>1. /\ disk.pid = i /\ \A n \in DOMAIN sq : sq[n].pid = i
        /\ Pid = i \/ (Undecided /\ prev.pid = i)
    BY <1>1 DEF TrackedInv
  <2> QED BY <1>1, <1>5, <2>1, TellKeeps DEF e
<1> QED BY <1>0, <1>1, <1>2, <1>3, <1>4, TellKeeps DEF IInv

\* A write makes its pid published; if that is alive, it is the current one,
\* and everything queued behind names it too.
LEMMA WriteKeeps == ASSUME IInv, WriteStatus PROVE IInv'
<1> USE DEF IInv
<1>0. TypeOK' /\ MonitorInv'
  BY TypesNext DEF Next, EventNext
<1>1. /\ up /\ sq # << >> /\ Tell("ok") /\ sq \in Seq(Entries)
      /\ disk' = Snapshot(Head(sq)) /\ unsaved' = NoRecord
      /\ published' = published \cup ({Snapshot(Head(sq)).pid} \ {0})
  BY DEF WriteStatus, Save, Quiet, TypeOK
<1> DEFINE e == sq[1]
<1>2. /\ 1 \in DOMAIN sq /\ disk'.state = e.state /\ disk'.pid = e.pid /\ disk'.token = e.token
      /\ published' = published \cup ({e.pid} \ {0}) /\ unsaved' = NoRecord
      /\ unsaved'.pid = 0
  BY <1>1, TailFacts DEF Snapshot, NoRecord
<1> HIDE DEF e
<1>3. LaunchInv'
  <2>1. e.pid # 0 => e.token = e.pid /\ os[e.pid] # "none"
    BY <1>2 DEF LaunchInv, e
  <2>2. \A i \in published' : os[i] # "none"
    BY <1>2, <2>1 DEF LaunchInv
  <2>3. /\ \A i \in Inst : i > last => os[i] = "none"
        /\ \A n \in DOMAIN sq' : sq'[n].pid # 0 => sq'[n].token = sq'[n].pid /\ os[sq'[n].pid] # "none"
    BY <1>1, TellKeeps DEF LaunchInv
  <2>4. disk'.pid # 0 => disk'.token = disk'.pid /\ os[disk'.pid] # "none"
    BY <1>2, <2>1
  <2>5. UNCHANGED <<os, last>>
    BY <1>1, TellKeeps
  <2> QED BY <1>2, <2>2, <2>3, <2>4, <2>5 DEF LaunchInv
<1>4. QueueInv'
  <2>1. ASSUME NEW m \in DOMAIN sq', Live(sq'[m].pid)
        PROVE  Pid = sq'[m].pid /\ \A n \in DOMAIN sq' : n >= m => sq'[n].pid = sq'[m].pid
    <3>1. m \in Nat /\ m + 1 \in DOMAIN sq /\ sq'[m] = sq[m + 1]
      BY <1>1, TellKeeps
    <3>2. Pid = sq[m + 1].pid /\ \A n \in DOMAIN sq : n >= m + 1 => sq[n].pid = sq[m + 1].pid
      BY <2>1, <3>1 DEF QueueInv
    <3>3. ASSUME NEW n \in DOMAIN sq', n >= m PROVE sq'[n].pid = sq'[m].pid
      <4>1. n \in Nat /\ n + 1 \in DOMAIN sq /\ sq'[n] = sq[n + 1]
        BY <1>1, TellKeeps
      <4> QED BY <3>1, <3>2, <3>3, <4>1
    <3> QED BY <3>1, <3>2, <3>3
  <2>2. ASSUME NEW m \in DOMAIN sq', sq'[m].state = "stopped" PROVE ~Live(sq'[m].pid)
    BY <1>1, <2>2, TellKeeps DEF QueueInv
  <2>3. disk'.state = "stopped" => ~Live(disk'.pid)
    BY <1>2 DEF QueueInv, e
  <2> QED BY <1>1, <1>2, <2>1, <2>2, <2>3, LiveFacts, TellKeeps DEF QueueInv
<1>5. TrackedInv'
  <2> SUFFICES ASSUME NEW i \in published', Live(i)
               PROVE  /\ disk'.pid = i
                      /\ \A n \in DOMAIN sq' : sq'[n].pid = i
                      /\ up' => Pid' = i \/ (Undecided' /\ prev'.pid = i)
    BY <1>1, <1>2, TellKeeps DEF TrackedInv
  <2>1. CASE i \in published
    <3>1. /\ \A n \in DOMAIN sq : sq[n].pid = i
          /\ Pid = i \/ (Undecided /\ prev.pid = i)
      BY <1>1, <2>1 DEF TrackedInv
    <3> QED BY <1>1, <1>2, <3>1, TellKeeps DEF e
  <2>2. CASE i = e.pid
    <3>1. Pid = e.pid /\ \A n \in DOMAIN sq : n >= 1 => sq[n].pid = e.pid
      BY <1>2, <2>2 DEF QueueInv, e
    <3>2. ASSUME NEW n \in DOMAIN sq' PROVE sq'[n].pid = e.pid
      <4>1. n \in Nat /\ n + 1 \in DOMAIN sq /\ sq'[n] = sq[n + 1]
        BY <1>1, TellKeeps
      <4> QED BY <3>1, <4>1
    <3> QED BY <1>1, <1>2, <2>2, <3>1, <3>2, TellKeeps
  <2> QED BY <1>2, <2>1, <2>2
<1> QED BY <1>0, <1>1, <1>3, <1>4, <1>5, TellKeeps

\* A supervisor that dies takes its queue with it; the slot is enough.
LEMMA ForgetKeeps == ASSUME IInv, Crash \/ Exit PROVE IInv'
<1> USE DEF IInv
<1>0. TypeOK' /\ MonitorInv'
  BY TypesNext DEF Next
<1>1. /\ ~up' /\ child' = 0 /\ adopted' = 0 /\ op' = Idle /\ lq' = << >> /\ sq' = << >>
      /\ prev' = NoRecord /\ unsaved' = NoRecord /\ UNCHANGED <<os, last, disk, published>>
  BY DEF Crash, Exit, Forget, host
<1>2. Pid' = 0 /\ DOMAIN sq' = {} /\ op'.pc = "idle" /\ prev'.pid = 0 /\ unsaved'.pid = 0
  BY <1>1 DEF Pid, Idle, NoRecord
<1>3. \A i : Live(i)' <=> Live(i)
  BY <1>1 DEF Live
<1>4. OwnInv' /\ SuspendInv'
  BY <1>1, <1>2 DEF OwnInv, SuspendInv, Undecided
<1>5. LaunchInv'
  BY <1>1, <1>2 DEF LaunchInv
<1>6. QueueInv' /\ TrackedInv'
  <2>1. ~Live(0)
    BY LiveFacts
  <2>2. ~Live(unsaved.pid)'
    BY <1>1, <1>2, <2>1 DEF Live
  <2> QED BY <1>1, <1>2, <1>3, <2>2 DEF QueueInv, TrackedInv
<1> QED BY <1>0, <1>4, <1>5, <1>6

\* The next supervisor starts undecided about the backend the slot names.
LEMMA BootKeeps == ASSUME IInv, Boot PROVE IInv'
<1> USE DEF IInv
<1>0. TypeOK' /\ MonitorInv'
  BY TypesNext DEF Next
<1>1. /\ ~up /\ up' /\ prev' = disk /\ op'.pc = "recover"
      /\ sq = << >> /\ child = 0 /\ adopted = 0
      /\ UNCHANGED <<os, last, child, adopted, token, sq, disk, unsaved, published>>
      /\ unsaved = NoRecord
  BY DEF Boot, SuspendInv, host, ident, store
<1>2. Pid = 0 /\ Pid' = 0 /\ DOMAIN sq' = {} /\ Undecided'
  BY <1>1 DEF Pid, Undecided
<1>3. (\A i : Live(i)' <=> Live(i)) /\ ~Live(Pid)'
  BY <1>1, <1>2, LiveFacts DEF Live
<1>4. OwnInv' /\ SuspendInv'
  BY <1>1, <1>2, <1>3 DEF OwnInv, SuspendInv, LaunchInv
<1>5. LaunchInv'
  BY <1>1, <1>2 DEF LaunchInv
<1>6. QueueInv' /\ TrackedInv'
  BY <1>1, <1>2, <1>3 DEF QueueInv, TrackedInv
<1> QED BY <1>0, <1>4, <1>5, <1>6

\* A snapshot saved late names the current backend if it names a live one.
LEMMA OtherWriteKeeps == ASSUME IInv, OtherWrite PROVE IInv'
<1> USE DEF IInv
<1>0. TypeOK' /\ MonitorInv'
  BY TypesNext DEF Next, EventNext
<1>1. /\ up /\ unsaved # NoRecord /\ disk' = unsaved /\ unsaved' = NoRecord /\ unsaved'.pid = 0
      /\ published' = published \cup ({unsaved.pid} \ {0})
      /\ UNCHANGED <<os, last, child, adopted, token, state, op, lq, sq, up, prev>>
  BY DEF OtherWrite, Save, Quiet, NoRecord, host, ident, phase, sup
<1>2. /\ Pid' = Pid /\ (Undecided' <=> Undecided) /\ \A i : Live(i)' <=> Live(i)
      /\ ~Live(unsaved.pid)'
  BY <1>1, LiveFacts DEF Pid, Undecided, Live
<1>3. OwnInv' /\ SuspendInv'
  BY <1>1, <1>2 DEF OwnInv, SuspendInv
<1>4. LaunchInv'
  BY <1>1 DEF LaunchInv
<1>5. QueueInv'
  BY <1>1, <1>2 DEF QueueInv
<1>6. TrackedInv'
  BY <1>1, <1>2 DEF TrackedInv, QueueInv
<1> QED BY <1>0, <1>3, <1>4, <1>5, <1>6

LEMMA StutterKeeps == ASSUME IInv, UNCHANGED vars PROVE IInv'
<1> USE DEF IInv
<1>0. TypeOK' /\ MonitorInv'
  BY TypesNext
<1>1. UNCHANGED <<os, last, child, adopted, token, state, op, lq, sq, disk, unsaved, published, up, prev>>
  BY DEF vars, host, ident, phase, store, sup
<1>2. OwnInv' /\ SuspendInv'
  BY <1>1 DEF OwnInv, SuspendInv, Undecided, Pid, Live
<1>3. LaunchInv' /\ QueueInv' /\ TrackedInv'
  BY <1>1 DEF LaunchInv, QueueInv, TrackedInv, Undecided, Pid, Live
<1> QED BY <1>0, <1>2, <1>3

-----------------------------------------------------------------------------
(* The invariant, and what it implies                                      *)

LEMMA InvariantInit == Init => IInv
<1> SUFFICES ASSUME Init PROVE IInv
  OBVIOUS
<1>1. TypeOK /\ MonitorInv
  BY TypesInit
<1>2. OwnInv /\ SuspendInv
  BY DEF Init, OwnInv, SuspendInv, Undecided, Pid, Idle, NoRecord
<1>3. LaunchInv /\ QueueInv /\ TrackedInv
  BY LiveFacts DEF Init, LaunchInv, QueueInv, TrackedInv, NoRecord
<1> QED BY <1>1, <1>2, <1>3 DEF IInv

LEMMA InvariantNext == IInv /\ [Next]_vars => IInv'
<1> SUFFICES ASSUME IInv, [Next]_vars PROVE IInv'
  OBVIOUS
<1>1. ASSUME Segment, SuspendInv', Next PROVE IInv'
  <2>1. TypeOK' /\ MonitorInv'
    BY TypesNext DEF IInv
  <2> QED BY <1>1, <2>1, SegmentKeeps DEF IInv
<1>2. CASE RecoverNext
  BY <1>1, <1>2, SegmentRecover DEF Next
<1>3. CASE StartNext
  BY <1>1, <1>3, SegmentStart, SpawnKeeps DEF Next
<1>4. CASE StopNext
  BY <1>1, <1>4, SegmentStop DEF Next
<1>5. CASE MonitorNext
  BY <1>1, <1>5, SegmentMonitor DEF Next
<1>6. CASE EventNext
  BY <1>1, <1>6, SegmentEvent, WriteKeeps, WriteFailsKeeps, OtherWriteKeeps DEF Next
<1>7. CASE Crash \/ Exit
  BY <1>7, ForgetKeeps
<1>8. CASE Boot
  BY <1>8, BootKeeps
<1>9. CASE HostNext
  BY <1>9, HostKeeps
<1>10. CASE UNCHANGED vars
  BY <1>10, StutterKeeps
<1> QED BY <1>2, <1>3, <1>4, <1>5, <1>6, <1>7, <1>8, <1>9, <1>10 DEF Next

THEOREM Invariant == Spec => []IInv
  BY InvariantInit, InvariantNext, PTL DEF Spec

\* No restart, recovery, late exit event or lost write puts a second backend
\* beside a live one whose pid was ever durable.
THEOREM NoSecondPublished == Spec => []AtMostOnePublished
<1>1. IInv => AtMostOnePublished
  BY DEF IInv, TrackedInv, AtMostOnePublished
<1> QED BY <1>1, Invariant, PTL

\* Whatever the supervisor still has to write or loses in a crash, the slot
\* names the pid and the token of the live published backend.
THEOREM SlotFindsBackend == Spec => []LiveIsRecorded
<1>1. IInv => LiveIsRecorded
  <2> SUFFICES ASSUME IInv, NEW i \in published, Live(i) PROVE disk.pid = i /\ disk.token = i
    BY DEF LiveIsRecorded
  <2> QED BY LiveFacts DEF IInv, TrackedInv, LaunchInv
<1> QED BY <1>1, Invariant, PTL

\* A durable "stopped" has no live published backend behind it.
THEOREM StoppedIsTrue == Spec => []DurableStopIsTrue
<1>1. IInv => DurableStopIsTrue
  BY DEF IInv, TrackedInv, QueueInv, DurableStopIsTrue
<1> QED BY <1>1, Invariant, PTL

-----------------------------------------------------------------------------
(* The intent: what the snapshots still to be written say                  *)

\* The program points at which the running operation waits for a status write.
WaitPcs == {"adoptAccept", "recoverRefuse", "recoverStopping", "recoverEnd", "startAdopted",
            "startReserve", "startPublish", "startFinal", "stopAdopted", "stopChild",
            "stopCleared", "stopEnd", "restartEmit", "preserveEnd", "ownedEmit", "ownedFail",
            "adoptedEmit", "adoptedEnd", "throwAfterWrite", "returnAfterWrite"}

\* It waits for at most one of the queued snapshots, and only there.
AwaitInv ==
    /\ op.io = "wait" => op.pc \in WaitPcs
    /\ \A m \in DOMAIN sq : sq[m].w = "op" =>
          /\ op.io = "wait"
          /\ \A n \in DOMAIN sq : sq[n].w = "op" => n = m

\* A reservation stays the last snapshot queued until it is written, and once
\* it is there is nothing else to write.
Reservation == [state |-> "starting", desired |-> "running", pid |-> 0, token |-> last]
ReserveInv ==
    op.pc = "startReserve" =>
        /\ op.io = "wait" =>
              sq # << >> /\ sq[Len(sq)].w = "op" /\ Snapshot(sq[Len(sq)]) = Reservation
        /\ op.io = "ok" => sq = << >> /\ unsaved = NoRecord /\ disk = Reservation

\* Who starts a backend wants one to run, and a recovery wants what it has read:
\* a durable "stopped" confines it to the branch that stops.
StartPcs == {"startProbe", "startAdopted", "startReplace", "startPort", "startReserve",
             "startPublish", "startReady", "startFinal", "startCleanup"}
StopPcs == {"recover", "waitStopped", "recoverStopping", "recoverKill", "recoverEnd",
            "recoverRefuse", "throwAfterWrite", "return", "throw"}
WishInv ==
    /\ op.pc \in StartPcs \/ state = "starting" => desired = "running"
    /\ ~up \/ op.pc = "recover" => state = "stopped"
    /\ ~up => desired = "stopped"
    /\ Undecided => op.k = "recover"
    /\ op.pc \in {"stop", "restart", "restartEmit"} => op.k # "recover"
    /\ op.pc \in {"adoptProbe", "waitIdentity"} => prev.desired # "stopped"
    /\ op.pc = "waitIdentity" /\ prev.pid = 0 => prev.state = "starting"
    /\ op.pc = "waitStopped" => prev.desired = "stopped"
    /\ op.k = "recover" /\ prev.desired = "stopped" => op.pc \in StopPcs /\ desired = "stopped"
    /\ op.k = "recover" /\ prev.desired # "stopped" =>
          desired = "running" \/ Undecided \/ (op.pc = "start" /\ sq = << >> /\ Pid = 0)

\* A recovery writes nothing before it has decided, and only its own intent then.
IntentInv ==
    /\ \A n \in DOMAIN sq : sq[n].state = "starting" => sq[n].desired = "running"
    /\ disk.state = "starting" => disk.desired = "running"
    /\ unsaved.state = "starting" => unsaved.desired = "running"
    /\ Undecided => sq = << >> /\ unsaved = NoRecord /\ disk = prev
    /\ op.k = "recover" /\ prev.desired = "stopped" =>
          unsaved.desired # "running" /\ \A n \in DOMAIN sq : sq[n].desired = "stopped"
    /\ op.k = "recover" /\ prev.desired # "stopped" =>
          /\ disk.desired # "stopped" /\ unsaved.desired # "stopped"
          /\ \A n \in DOMAIN sq : sq[n].desired = "running"

\* What the slot names by pid is published.  A live backend that is not was
\* launched on a durable intent, and whatever is still to be written names it.
FreshInv ==
    /\ disk.pid # 0 => disk.pid \in published
    /\ prev.pid # 0 => prev.pid \in published
    /\ Live(Pid) /\ Pid \notin published =>
          /\ disk.desired = "running"
          /\ unsaved # NoRecord => unsaved.pid = Pid
          /\ \A n \in DOMAIN sq : sq[n].pid = Pid

PromiseInv == IInv /\ AwaitInv /\ ReserveInv /\ WishInv /\ IntentInv /\ FreshInv

-----------------------------------------------------------------------------
(* What the steps of the supervisor's code do to the intent                *)

\* The running operation waits for the snapshot it queues; others go on, and
\* nobody else changes what it waits for.
AwaitMove ==
    \/ op' = op /\ (sq' = sq \/ Emit("nobody") \/ Emit("achk"))
    \/ op.io # "wait" /\ op'.io # "wait" /\ (sq' = sq \/ Emit("nobody"))
    \/ op.io # "wait" /\ op'.io = "wait" /\ op'.pc \in WaitPcs /\ Emit("op")

\* At a reservation nothing but it is queued; a recovery goes on undecided or
\* with its intent; a new live backend is one the slot names, or a durable
\* reservation of an earlier supervisor.
IntentStep ==
    /\ AwaitMove
    /\ op'.pc = "startReserve" =>
          \/ op' = op /\ sq' = sq /\ last' = last
          \/ /\ op.io # "wait" /\ op'.io = "wait" /\ Emit("op")
             /\ state' = "starting" /\ desired' = "running" /\ Pid' = 0 /\ token' = last'
    /\ op'.k = "recover" => op.k = "recover"
    /\ Live(Pid') /\ Pid' \notin published =>
          Pid' = Pid \/ (disk.desired = "running" /\ unsaved = NoRecord /\ sq = << >>)

\* Where the operation goes by Go, a probe, a termination, and the probe of the
\* port.
LEMMA OpMoves ==
  ASSUME op \in Ops
  PROVE  /\ \A pc, io : Go(pc, io) => op'.pc = pc /\ op'.io = io /\ op'.k = op.k
         /\ \A pc, i : ProbeThen(pc, i) => op'.pc = pc /\ op'.io \in {"hit", "miss"} /\ op'.k = op.k
         /\ \A pc, i : TerminateThen(pc, i) => op'.pc = pc /\ op'.io = "none" /\ op'.k = op.k
         /\ op' = PortProbe => op'.pc = "startPort" /\ op'.io \in {"hit", "miss"} /\ op'.k = op.k
<1>1. ASSUME NEW pc, NEW io, Go(pc, io) PROVE op'.pc = pc /\ op'.io = io /\ op'.k = op.k
  BY <1>1 DEF Go
<1>2. ASSUME NEW pc, NEW i, ProbeThen(pc, i)
      PROVE  op'.pc = pc /\ op'.io \in {"hit", "miss"} /\ op'.k = op.k
  BY <1>2 DEF ProbeThen
<1>3. ASSUME NEW pc, NEW i, TerminateThen(pc, i)
      PROVE  op'.pc = pc /\ op'.io = "none" /\ op'.k = op.k
  BY <1>3 DEF TerminateThen
<1>4. op' = PortProbe => op'.pc = "startPort" /\ op'.io \in {"hit", "miss"} /\ op'.k = op.k
  BY DEF PortProbe
<1> QED BY <1>1, <1>2, <1>3, <1>4

\* An emit queues a snapshot for the operation, which waits for it.
LEMMA EmitMoves ==
  ASSUME op \in Ops
  PROVE  /\ \A pc : EmitThen(pc) =>
               Emit("op") /\ op'.pc = pc /\ op'.io = "wait" /\ op'.k = op.k
         /\ \A pc, i : EmitFor(pc, i) =>
               Emit("op") /\ op'.pc = pc /\ op'.io = "wait" /\ op'.k = op.k
<1>1. ASSUME NEW pc, EmitThen(pc)
      PROVE  Emit("op") /\ op'.pc = pc /\ op'.io = "wait" /\ op'.k = op.k
  BY <1>1, OpMoves DEF EmitThen
<1>2. ASSUME NEW pc, NEW i, EmitFor(pc, i)
      PROVE  Emit("op") /\ op'.pc = pc /\ op'.io = "wait" /\ op'.k = op.k
  BY <1>2 DEF EmitFor
<1> QED BY <1>1, <1>2

\* While a recovery is undecided nothing is held and nothing is to be written.
LEMMA UndecidedFacts ==
  ASSUME PromiseInv, Undecided
  PROVE  /\ child = 0 /\ adopted = 0 /\ op.k = "recover"
         /\ sq = << >> /\ unsaved = NoRecord /\ disk = prev
         /\ prev.pid # 0 => prev.pid \in published
         /\ op.pc \in {"adoptProbe", "waitIdentity"} => prev.desired # "stopped"
         /\ op.pc = "waitStopped" => prev.desired = "stopped"
         /\ op.pc = "waitIdentity" /\ prev.pid = 0 => disk.desired = "running"
<1>1. child = 0 /\ adopted = 0
  BY DEF PromiseInv, IInv, SuspendInv
<1>2. sq = << >> /\ unsaved = NoRecord /\ disk = prev /\ op.k = "recover"
  BY DEF PromiseInv, IntentInv, WishInv
<1>3. /\ op.pc \in {"adoptProbe", "waitIdentity"} => prev.desired # "stopped"
      /\ op.pc = "waitStopped" => prev.desired = "stopped"
      /\ op.pc = "waitIdentity" /\ prev.pid = 0 => disk.desired = "running"
  BY <1>2 DEF PromiseInv, WishInv, IntentInv
<1> QED BY <1>1, <1>2, <1>3 DEF PromiseInv, FreshInv

\* The steps of recover, adopt and recoverStopped are intent steps.
LEMMA IntentRecover ==
  ASSUME PromiseInv, RecoverNext
  PROVE  IntentStep /\ WishInv'
<1>0. PromiseInv /\ op \in Ops /\ IInv /\ AwaitInv /\ WishInv /\ IntentInv /\ FreshInv
  BY DEF PromiseInv, IInv, TypeOK
<1>1. CASE Recover
  BY <1>0, <1>1, UndecidedFacts, OpMoves, EmitMoves, LiveFacts DEF Recover, At, ident, phase, sup,
     IntentStep, AwaitMove, AwaitInv, WaitPcs, WishInv, StartPcs, Undecided, Pid
<1>2. CASE AdoptProbe
  BY <1>0, <1>2, UndecidedFacts, OpMoves, EmitMoves, LiveFacts DEF AdoptProbe, At, sup, Accept,
     ident, phase, IntentStep, AwaitMove, WaitPcs, WishInv, StartPcs, Undecided, Pid
<1>3. CASE Adopted
  BY <1>0, <1>3, UndecidedFacts, OpMoves, EmitMoves, LiveFacts DEF Adopted, Written, ident, phase,
     sup, At, IntentStep, AwaitMove, WishInv, StartPcs, StopPcs, Undecided, Pid
<1>4. CASE IdentityFound
  BY <1>0, <1>4, UndecidedFacts, OpMoves, EmitMoves, LiveFacts DEF IdentityFound, At, Accept, sup,
     IntentStep, AwaitMove, AwaitInv, WaitPcs, WishInv, Undecided, Pid
<1>5. CASE IdentityGone
  BY <1>0, <1>5, UndecidedFacts, OpMoves, EmitMoves, LiveFacts DEF IdentityGone, At, phase, sup,
     IntentStep, AwaitMove, AwaitInv, WaitPcs, WishInv, StartPcs, Undecided, Pid
<1>6. CASE IdentityAbsent
  BY <1>0, <1>6, UndecidedFacts, OpMoves, EmitMoves, LiveFacts DEF IdentityAbsent, At, phase, sup,
     IntentStep, AwaitMove, AwaitInv, WaitPcs, WishInv, StartPcs, Undecided, Pid
<1>7. CASE IdentityUnverified
  BY <1>0, <1>7, UndecidedFacts, OpMoves, EmitMoves, LiveFacts DEF IdentityUnverified, At, sup,
     IntentStep, AwaitMove, AwaitInv, WaitPcs, WishInv, Undecided, Pid
<1>8. CASE RecoverRefuse
  BY <1>0, <1>8, UndecidedFacts, OpMoves, EmitMoves, LiveFacts DEF RecoverRefuse, Written, ident,
     phase, sup, At, IntentStep, AwaitMove, WishInv, StartPcs, StopPcs, Undecided, Pid
<1>9. CASE RecoverStopped
  BY <1>0, <1>9, UndecidedFacts, OpMoves, EmitMoves, LiveFacts DEF RecoverStopped, At, sup,
     IntentStep, AwaitMove, AwaitInv, WaitPcs, WishInv, StartPcs, StopPcs, Undecided, Pid
<1>10. CASE StoppedFound
  BY <1>0, <1>10, UndecidedFacts, OpMoves, EmitMoves, LiveFacts DEF StoppedFound, At, sup,
     IntentStep, AwaitMove, AwaitInv, WaitPcs, WishInv, StartPcs, StopPcs, Undecided, Pid
<1>11. CASE StoppedGone
  BY <1>0, <1>11, UndecidedFacts, OpMoves, EmitMoves, LiveFacts DEF StoppedGone, At, sup,
     IntentStep, AwaitMove, AwaitInv, WaitPcs, WishInv, StartPcs, StopPcs, Undecided, Pid
<1>12. CASE StoppedUnverified
  BY <1>0, <1>12, UndecidedFacts, OpMoves, EmitMoves, LiveFacts DEF StoppedUnverified, At, sup,
     IntentStep, AwaitMove, AwaitInv, WaitPcs, WishInv, StartPcs, StopPcs, Undecided, Pid
<1>13. CASE RecoverStopping
  BY <1>0, <1>13, UndecidedFacts, OpMoves, EmitMoves, LiveFacts DEF RecoverStopping, Written,
     ident, phase, sup, At, IntentStep, AwaitMove, WishInv, StartPcs, StopPcs, Undecided, Pid
<1>14. CASE RecoverKilled
  BY <1>0, <1>14, UndecidedFacts, OpMoves, EmitMoves, LiveFacts DEF RecoverKilled, At,
     ClearAdopted, sup, IntentStep, AwaitMove, AwaitInv, WaitPcs, WishInv, StartPcs, StopPcs,
     Undecided, Pid
<1>15. CASE RecoverKillFails
  BY <1>0, <1>15, UndecidedFacts, OpMoves, EmitMoves, LiveFacts DEF RecoverKillFails, At, ident,
     sup, IntentStep, AwaitMove, AwaitInv, WaitPcs, WishInv, StartPcs, StopPcs, Undecided, Pid
<1> QED BY <1>1, <1>2, <1>3, <1>4, <1>5, <1>6, <1>7, <1>8, <1>9, <1>10, <1>11, <1>12, <1>13,
    <1>14, <1>15 DEF RecoverNext

\* So are those of start; the spawn is not a segment and comes later.
LEMMA IntentStart ==
  ASSUME PromiseInv, StartNext, ~StartSpawn
  PROVE  IntentStep /\ WishInv'
<1>0. PromiseInv /\ op \in Ops /\ IInv /\ AwaitInv /\ WishInv /\ IntentInv /\ FreshInv
  BY DEF PromiseInv, IInv, TypeOK
<1>1. CASE Start
  BY <1>0, <1>1, OpMoves, EmitMoves, LiveFacts DEF Start, At, sup, ident, ClearAdopted,
     IntentStep, AwaitMove, AwaitInv, WaitPcs, WishInv, StopPcs, Undecided, Pid
<1>2. CASE StartProbe
  BY <1>0, <1>2, OpMoves, EmitMoves, LiveFacts DEF StartProbe, At, ident, sup, IntentStep,
     AwaitMove, WaitPcs, WishInv, StartPcs, Undecided, Pid
<1>3. CASE StartAdopted
  BY <1>0, <1>3, OpMoves, EmitMoves, LiveFacts DEF StartAdopted, Written, ident, phase, sup, At,
     IntentStep, AwaitMove, WishInv, StartPcs, Undecided, Pid
<1>4. CASE StartReplaced
  BY <1>0, <1>4, OpMoves, EmitMoves, LiveFacts DEF StartReplaced, At, ident, phase, sup,
     IntentStep, AwaitMove, AwaitInv, WaitPcs, WishInv, StartPcs, Undecided, Pid
<1>5. CASE StartOccupied
  BY <1>0, <1>5, OpMoves, EmitMoves, LiveFacts DEF StartOccupied, At, ident, sup, IntentStep,
     AwaitMove, WaitPcs, WishInv, StartPcs, Undecided, Pid
<1>6. CASE StartReserve
  BY <1>0, <1>6, OpMoves, EmitMoves, LiveFacts DEF StartReserve, At, sup, IntentStep, AwaitMove,
     IInv, WaitPcs, WishInv, StartPcs, Undecided, SuspendInv, Pid
<1>7. CASE StartReserveFails
  BY <1>0, <1>7, OpMoves, EmitMoves, LiveFacts DEF StartReserveFails, Rejected, sup, At,
     IntentStep, AwaitMove, WishInv, StartPcs, Undecided, Pid
<1>8. CASE StartSpawnFails
  BY <1>0, <1>8, OpMoves, EmitMoves, LiveFacts DEF StartSpawnFails, Written, sup, At, IntentStep,
     AwaitMove, IInv, WishInv, StartPcs, Undecided, SuspendInv, Pid
<1>9. CASE StartPublished
  BY <1>0, <1>9, OpMoves, EmitMoves, LiveFacts DEF StartPublished, Written, ident, phase, sup, At,
     IntentStep, AwaitMove, WishInv, StartPcs, Undecided, Pid
<1>10. CASE StartReady
  BY <1>0, <1>10, OpMoves, EmitMoves, LiveFacts DEF StartReady, At, ident, sup, IntentStep,
     AwaitMove, AwaitInv, WaitPcs, WishInv, StartPcs, Undecided, Pid
<1>11. CASE StartNotReady
  BY <1>0, <1>11, OpMoves, EmitMoves, LiveFacts DEF StartNotReady, At, ident, phase, sup,
     IntentStep, AwaitMove, AwaitInv, WaitPcs, WishInv, StartPcs, Undecided, Pid
<1>12. CASE StartUnwritten
  BY <1>0, <1>12, OpMoves, EmitMoves, LiveFacts DEF StartUnwritten, Rejected, ident, phase, sup,
     At, IntentStep, AwaitMove, WishInv, StartPcs, Undecided, Pid
<1>13. CASE StartCleaned
  BY <1>0, <1>13, OpMoves, EmitMoves, LiveFacts DEF StartCleaned, At, ident, phase, sup,
     IntentStep, AwaitMove, AwaitInv, WaitPcs, WishInv, StartPcs, Undecided, Pid
<1>14. CASE StartCleanupFails
  BY <1>0, <1>14, OpMoves, EmitMoves, LiveFacts DEF StartCleanupFails, At, ident, sup, IntentStep,
     AwaitMove, AwaitInv, WaitPcs, WishInv, StartPcs, Undecided, Pid
<1> QED BY <1>1, <1>2, <1>3, <1>4, <1>5, <1>6, <1>7, <1>8, <1>9, <1>10, <1>11, <1>12, <1>13,
    <1>14 DEF StartNext

\* So are those of stop, restart and preserve,
LEMMA IntentStop ==
  ASSUME PromiseInv, StopNext
  PROVE  IntentStep /\ WishInv'
<1>0. PromiseInv /\ op \in Ops /\ IInv /\ AwaitInv /\ WishInv /\ IntentInv /\ FreshInv
  BY DEF PromiseInv, IInv, TypeOK
<1>1. CASE Stop
  BY <1>0, <1>1, OpMoves, EmitMoves, LiveFacts DEF Stop, At, Written, ident, sup, IntentStep,
     AwaitMove, AwaitInv, WaitPcs, WishInv, StartPcs, Undecided, Pid
<1>2. CASE StopAdopted
  BY <1>0, <1>2, OpMoves, EmitMoves, LiveFacts DEF StopAdopted, Written, ident, phase, sup, At,
     IntentStep, AwaitMove, WishInv, StartPcs, StopPcs, Undecided, Pid
<1>3. CASE StopProbe
  BY <1>0, <1>3, OpMoves, EmitMoves, LiveFacts DEF StopProbe, At, ident, sup, IntentStep,
     AwaitMove, WaitPcs, WishInv, StartPcs, StopPcs, Undecided, Pid
<1>4. CASE StopKilled
  BY <1>0, <1>4, OpMoves, EmitMoves, LiveFacts DEF StopKilled, At, ClearAdopted, sup, IntentStep,
     AwaitMove, AwaitInv, WaitPcs, WishInv, StartPcs, StopPcs, Undecided, Pid
<1>5. CASE StopFails
  BY <1>0, <1>5, OpMoves, EmitMoves, LiveFacts DEF StopFails, At, Rejected, ident, sup,
     IntentStep, AwaitMove, AwaitInv, WaitPcs, WishInv, StartPcs, StopPcs, Undecided, Pid
<1>6. CASE StopChild
  BY <1>0, <1>6, OpMoves, EmitMoves, LiveFacts DEF StopChild, Written, ident, phase, sup, At,
     IntentStep, AwaitMove, WishInv, StartPcs, StopPcs, Undecided, Pid
<1>7. CASE StopTerminated
  BY <1>0, <1>7, OpMoves, EmitMoves, LiveFacts DEF StopTerminated, At, ident, sup, IntentStep,
     AwaitMove, AwaitInv, WaitPcs, WishInv, StartPcs, StopPcs, Undecided, Pid
<1>8. CASE Restart
  BY <1>0, <1>8, OpMoves, EmitMoves, LiveFacts DEF Restart, At, ident, sup, IntentStep, AwaitMove,
     AwaitInv, WaitPcs, WishInv, StartPcs, Undecided, Pid
<1>9. CASE Preserve
  BY <1>0, <1>9, OpMoves, EmitMoves, LiveFacts DEF Preserve, At, ident, phase, sup, IntentStep,
     AwaitMove, AwaitInv, WaitPcs, WishInv, StartPcs, StopPcs, Undecided, Pid
<1>10. CASE LastWrite
  BY <1>0, <1>10, OpMoves, EmitMoves, LiveFacts DEF LastWrite, ident, phase, sup, IntentStep,
     AwaitMove, WishInv, StartPcs, StopPcs, Undecided, Pid
<1> QED BY <1>1, <1>2, <1>3, <1>4, <1>5, <1>6, <1>7, <1>8, <1>9, <1>10 DEF StopNext

\* those of the monitors,
LEMMA IntentMonitor ==
  ASSUME PromiseInv, MonitorNext
  PROVE  IntentStep /\ WishInv'
<1>0. PromiseInv /\ op \in Ops /\ IInv /\ AwaitInv /\ WishInv /\ IntentInv /\ FreshInv
  BY DEF PromiseInv, IInv, TypeOK
<1>1. CASE OwnedTick
  BY <1>0, <1>1, OpMoves, EmitMoves, LiveFacts DEF OwnedTick, host, ident, phase, sup, IntentStep,
     AwaitMove, WishInv, Undecided, Pid
<1>2. CASE OwnedChecked
  BY <1>0, <1>2, OpMoves, EmitMoves, LiveFacts DEF OwnedChecked, host, ident, phase, sup,
     IntentStep, AwaitMove, WishInv, Undecided, Pid
<1>3. CASE OwnedKill
  BY <1>0, <1>3, OpMoves, EmitMoves, LiveFacts DEF OwnedKill, At, ident, sup, IntentStep,
     AwaitMove, AwaitInv, WaitPcs, WishInv, StartPcs, StopPcs, Undecided, Pid
<1>4. CASE OwnedTerminate
  BY <1>0, <1>4, OpMoves, EmitMoves, LiveFacts DEF OwnedTerminate, Written, ident, phase, sup, At,
     IntentStep, AwaitMove, WishInv, StartPcs, StopPcs, Undecided, Pid
<1>5. CASE OwnedTerminated
  BY <1>0, <1>5, OpMoves, EmitMoves, LiveFacts DEF OwnedTerminated, At, ident, phase, sup,
     IntentStep, AwaitMove, AwaitInv, WaitPcs, WishInv, StartPcs, StopPcs, Undecided, Pid
<1>6. CASE OwnedKillFails
  BY <1>0, <1>6, OpMoves, EmitMoves, LiveFacts DEF OwnedKillFails, At, ident, phase, sup,
     IntentStep, AwaitMove, AwaitInv, WaitPcs, WishInv, StartPcs, StopPcs, Undecided, Pid
<1>7. CASE OwnedRetry
  BY <1>0, <1>7, OpMoves, EmitMoves, LiveFacts DEF OwnedRetry, Written, phase, ident, sup, At,
     IntentStep, AwaitMove, WishInv, StartPcs, StopPcs, Undecided, Pid
<1>8. CASE AdoptedTick
  BY <1>0, <1>8, OpMoves, EmitMoves, LiveFacts DEF AdoptedTick, sup, ident, ClearAdopted,
     IntentStep, AwaitMove, IInv, WishInv, Undecided, SuspendInv, Pid
<1>9. CASE AdoptedChecked
  BY <1>0, <1>9, OpMoves, EmitMoves, LiveFacts DEF AdoptedChecked, host, ident, sup,
     AdoptedCurrent, IntentStep, AwaitMove, IInv, WishInv, Undecided, SuspendInv, Pid, MonitorInv
<1>10. CASE AdoptedTold
  BY <1>0, <1>10, OpMoves, EmitMoves, LiveFacts DEF AdoptedTold, host, ident, sup, IntentStep,
     AwaitMove, WishInv, Undecided, Pid
<1>11. CASE AdoptedStop
  BY <1>0, <1>11, OpMoves, EmitMoves, LiveFacts DEF AdoptedStop, At, ident, sup, IntentStep,
     AwaitMove, AwaitInv, WaitPcs, WishInv, StartPcs, StopPcs, Undecided, Pid
<1>12. CASE AdoptedTerminate
  BY <1>0, <1>12, OpMoves, EmitMoves, LiveFacts DEF AdoptedTerminate, Written, ident, phase, sup,
     At, IntentStep, AwaitMove, WishInv, StartPcs, StopPcs, Undecided, Pid
<1>13. CASE AdoptedKilled
  BY <1>0, <1>13, OpMoves, EmitMoves, LiveFacts DEF AdoptedKilled, At, ClearAdopted, sup,
     IntentStep, AwaitMove, AwaitInv, WaitPcs, WishInv, StartPcs, StopPcs, Undecided, Pid
<1>14. CASE AdoptedKillFails
  BY <1>0, <1>14, OpMoves, EmitMoves, LiveFacts DEF AdoptedKillFails, At, Rejected, ident, sup,
     IntentStep, AwaitMove, AwaitInv, WaitPcs, WishInv, StartPcs, StopPcs, Undecided, Pid
<1> QED BY <1>1, <1>2, <1>3, <1>4, <1>5, <1>6, <1>7, <1>8, <1>9, <1>10, <1>11, <1>12, <1>13,
    <1>14 DEF MonitorNext

\* and the events.
LEMMA IntentEvent ==
  ASSUME PromiseInv, EventNext, ~WriteStatus, ~WriteFails, ~OtherWrite
  PROVE  IntentStep /\ WishInv'
<1>0. PromiseInv /\ op \in Ops /\ IInv /\ AwaitInv /\ WishInv /\ IntentInv /\ FreshInv
  BY DEF PromiseInv, IInv, TypeOK
<1>1. CASE ExitEvent
  BY <1>0, <1>1, OpMoves, EmitMoves, LiveFacts DEF ExitEvent, Quiet, sup, Ready, IntentStep,
     AwaitMove, IInv, WishInv, Undecided, Pid, OwnInv
<1>2. CASE TimerFires
  BY <1>0, <1>2, OpMoves, EmitMoves, LiveFacts DEF TimerFires, host, ident, phase, sup,
     IntentStep, AwaitMove, WishInv, Undecided, Pid
<1>3. CASE Begin
  <2>1. Head(lq) \in Kinds
    BY <1>0, <1>3 DEF Begin, IInv, TypeOK
  <2>2. /\ op'.k = Head(lq) /\ op'.pc = (IF Head(lq) = "timer" THEN "start" ELSE Head(lq))
        /\ op'.io = "none" /\ op.io = "none"
        /\ UNCHANGED <<child, adopted, state, desired, sq, up, prev>>
    BY <1>3 DEF Begin, Idle, ident, phase, sup
  <2>3. /\ op'.k # "recover" /\ op'.pc \notin StartPcs /\ ~Undecided' /\ op'.pc # "startReserve"
        /\ op'.pc # "recover"
    BY <2>1, <2>2 DEF Kinds, StartPcs, Undecided
  <2>4. WishInv'
    BY <1>0, <2>2, <2>3 DEF WishInv, Undecided
  <2>5. IntentStep
    BY <2>2, <2>3 DEF IntentStep, AwaitMove, Pid
  <2> QED BY <2>4, <2>5
<1>4. CASE Settle
  BY <1>0, <1>4, OpMoves, EmitMoves, LiveFacts DEF Settle, Idle, ident, phase, IntentStep,
     AwaitMove, AwaitInv, WaitPcs, WishInv, StartPcs, Undecided, Pid
<1>5. CASE Shutdown
  BY <1>0, <1>5, OpMoves, EmitMoves, LiveFacts DEF Shutdown, host, ident, phase, IntentStep,
     AwaitMove, WishInv, Undecided, Pid
<1>6. CASE \E k \in Commands : Command(k)
  BY <1>0, <1>6, OpMoves, EmitMoves, LiveFacts DEF Command, host, ident, phase, sup, IntentStep,
     AwaitMove, WishInv, Undecided, Pid
<1> QED BY <1>1, <1>2, <1>3, <1>4, <1>5, <1>6 DEF EventNext

-----------------------------------------------------------------------------
(* Every step keeps it                                                     *)

\* One entry more at the end of the queue.
LEMMA EmitEntry ==
  ASSUME sq \in Seq(Entries), NEW w, Emit(w)
  PROVE  /\ Len(sq) \in Nat /\ Len(sq') = Len(sq) + 1 /\ sq' # << >>
         /\ DOMAIN sq = 1..Len(sq) /\ DOMAIN sq' = 1..(Len(sq) + 1)
         /\ \A n \in DOMAIN sq : sq'[n] = sq[n]
         /\ sq'[Len(sq) + 1].w = w /\ sq'[Len(sq) + 1].state = state'
         /\ sq'[Len(sq) + 1].desired = desired' /\ sq'[Len(sq) + 1].pid = Pid'
         /\ sq'[Len(sq) + 1].token = token'
         /\ \A n \in DOMAIN sq' : n \in DOMAIN sq \/ n = Len(sq) + 1
<1> DEFINE e == [w |-> w, state |-> state', desired |-> desired',
                 pid |-> IF child' # 0 THEN child' ELSE adopted', token |-> token']
<1>1. /\ sq' = Append(sq, e) /\ e.w = w /\ e.pid = Pid' /\ e.token = token' /\ e.state = state'
      /\ e.desired = desired'
  BY DEF Emit, Pid
<1> HIDE DEF e
<1>2. /\ Len(sq') = Len(sq) + 1 /\ Len(sq) \in Nat
      /\ DOMAIN sq = 1..Len(sq) /\ DOMAIN sq' = 1..(Len(sq) + 1)
      /\ \A n \in 1..Len(sq) : sq'[n] = sq[n]
      /\ sq'[Len(sq) + 1] = e
  BY <1>1
<1>3. sq' # << >>
  BY <1>2
<1> QED BY <1>1, <1>2, <1>3

\* A step of the supervisor's code keeps who waits for what.
LEMMA AwaitKeeps ==
  ASSUME sq \in Seq(Entries), AwaitInv, AwaitMove
  PROVE  AwaitInv'
<1>1. CASE op' = op /\ sq' = sq
  BY <1>1 DEF AwaitInv
<1>2. ASSUME op' = op, NEW w \in {"nobody", "achk"}, Emit(w) PROVE AwaitInv'
  BY <1>2, EmitEntry DEF AwaitInv
<1>3. CASE op.io # "wait" /\ op'.io # "wait" /\ sq' = sq
  BY <1>3 DEF AwaitInv
<1>4. CASE op.io # "wait" /\ op'.io # "wait" /\ Emit("nobody")
  BY <1>4, EmitEntry DEF AwaitInv
<1>5. CASE op.io # "wait" /\ op'.io = "wait" /\ op'.pc \in WaitPcs /\ Emit("op")
  BY <1>5, EmitEntry DEF AwaitInv
<1> QED BY <1>1, <1>2, <1>3, <1>4, <1>5 DEF AwaitMove

\* A segment that is an intent step keeps the invariant.
LEMMA IntentSegmentKeeps ==
  ASSUME PromiseInv, Segment, IntentStep, WishInv', IInv'
  PROVE  PromiseInv'
<1>1. /\ sq \in Seq(Entries) /\ UNCHANGED <<os, disk, unsaved, published, prev>>
      /\ \A i : Live(i)' <=> Live(i)
  BY DEF PromiseInv, IInv, TypeOK, Segment, store, Live
<1>2. sq' = sq \/ \E w \in Writers : Emit(w)
  BY DEF Segment, Emitted
<1>3. AwaitInv'
  BY <1>1, AwaitKeeps DEF PromiseInv, IntentStep
<1>4. ReserveInv'
  <2> SUFFICES ASSUME op'.pc = "startReserve"
               PROVE  /\ op'.io = "wait" => /\ sq' # << >> /\ sq'[Len(sq')].w = "op"
                                            /\ Snapshot(sq[Len(sq)])' = Reservation'
                      /\ op'.io = "ok" => sq' = << >> /\ unsaved' = NoRecord /\ disk' = Reservation'
    BY DEF ReserveInv
  <2>1. CASE op' = op /\ sq' = sq /\ last' = last
    BY <1>1, <2>1 DEF PromiseInv, ReserveInv, Reservation
  <2>2. CASE /\ op'.io = "wait" /\ Emit("op")
             /\ state' = "starting" /\ desired' = "running" /\ Pid' = 0 /\ token' = last'
    BY <1>1, <2>2, EmitEntry DEF Snapshot, Reservation
  <2> QED BY <2>1, <2>2 DEF IntentStep
<1>5. IntentInv'
  <2>1. ASSUME NEW n \in DOMAIN sq', sq'[n].state = "starting" PROVE sq'[n].desired = "running"
    BY <1>1, <1>2, <2>1, EmitEntry DEF PromiseInv, IntentInv, WishInv
  <2>2. Undecided' => sq' = << >> /\ unsaved' = NoRecord /\ disk' = prev'
    BY <1>1 DEF PromiseInv, IntentInv, Segment
  <2>3. ASSUME op'.k = "recover", prev'.desired = "stopped"
        PROVE  unsaved'.desired # "running" /\ \A n \in DOMAIN sq' : sq'[n].desired = "stopped"
    BY <1>1, <1>2, <2>3, EmitEntry DEF PromiseInv, IntentInv, WishInv, IntentStep
  <2>4. ASSUME op'.k = "recover", prev'.desired # "stopped"
        PROVE  /\ disk'.desired # "stopped" /\ unsaved'.desired # "stopped"
               /\ \A n \in DOMAIN sq' : sq'[n].desired = "running"
    <3>1. op.k = "recover" /\ prev.desired # "stopped"
      BY <1>1, <2>4 DEF IntentStep
    <3>2. sq' = sq \/ sq' # << >>
      BY <1>1, <1>2, EmitEntry
    <3>3. sq' = sq \/ desired' = "running"
      BY <2>4, <3>2 DEF WishInv, Segment
    <3> QED BY <1>1, <1>2, <3>1, <3>3, EmitEntry DEF PromiseInv, IntentInv
  <2> QED BY <1>1, <2>1, <2>2, <2>3, <2>4 DEF PromiseInv, IntentInv
<1>6. FreshInv'
  <2> SUFFICES ASSUME Live(Pid'), Pid' \notin published
               PROVE  /\ disk.desired = "running"
                      /\ unsaved # NoRecord => unsaved.pid = Pid'
                      /\ \A n \in DOMAIN sq' : sq'[n].pid = Pid'
    BY <1>1 DEF PromiseInv, FreshInv
  <2>1. /\ disk.desired = "running"
        /\ unsaved # NoRecord => unsaved.pid = Pid'
        /\ \A n \in DOMAIN sq : sq[n].pid = Pid'
    <3>1. CASE Pid' = Pid
      BY <3>1 DEF PromiseInv, FreshInv
    <3>2. CASE Pid' # Pid
      BY <3>2 DEF IntentStep
    <3> QED BY <3>1, <3>2
  <2> QED BY <1>1, <1>2, <2>1, EmitEntry
<1> QED BY <1>3, <1>4, <1>5, <1>6 DEF PromiseInv

\* The remaining steps: the spawn on its reservation, ...
LEMMA IntentSpawn ==
  ASSUME PromiseInv, StartSpawn, IInv'
  PROVE  PromiseInv'
<1>1. /\ op \in Ops /\ up /\ op.pc = "startReserve" /\ op.io = "ok" /\ child = 0 /\ adopted = 0
      /\ sq = << >> /\ unsaved = NoRecord /\ disk = Reservation /\ desired = "running"
      /\ disk.desired = "running" /\ disk.pid = 0 /\ sq \in Seq(Entries)
  BY DEF PromiseInv, IInv, TypeOK, SuspendInv, ReserveInv, WishInv, StartPcs, StartSpawn, Written, At,
     Reservation
<1>2. /\ Emit("op") /\ op'.pc = "startPublish" /\ op'.io = "wait" /\ op'.k = op.k
      /\ child' = last /\ UNCHANGED <<adopted, state, desired, disk, unsaved, published, prev, up>>
  BY <1>1, EmitMoves DEF StartSpawn, phase, store, sup
<1>3. /\ DOMAIN sq' = {1} /\ sq'[1].w = "op" /\ sq'[1].state = state' /\ sq'[1].pid = Pid'
      /\ sq'[1].desired = desired'
  <2>1. Len(sq) = 0
    BY <1>1
  <2> QED BY <1>1, <1>2, <2>1, EmitEntry
<1>4. ~Undecided /\ ~Undecided'
  BY <1>1, <1>2 DEF Undecided
<1>5. AwaitInv'
  BY <1>2, <1>3 DEF AwaitInv, WaitPcs
<1>6. ReserveInv'
  BY <1>2 DEF ReserveInv
<1>7. WishInv'
  BY <1>1, <1>2, <1>4 DEF PromiseInv, WishInv
<1>8. IntentInv'
  BY <1>1, <1>2, <1>3, <1>4 DEF PromiseInv, IntentInv, WishInv
<1>9. FreshInv'
  BY <1>1, <1>2, <1>3 DEF PromiseInv, FreshInv
<1> QED BY <1>5, <1>6, <1>7, <1>8, <1>9 DEF PromiseInv

\* ... the writes, ...
LEMMA TellMoves ==
  ASSUME PromiseInv, up, sq # << >>, NEW r \in {"ok", "fail"}, Tell(r)
  PROVE  /\ UNCHANGED <<child, adopted, state, desired, prev, up, last>>
         /\ op'.pc = op.pc /\ op'.k = op.k
         /\ op'.io = (IF sq[1].w = "op" THEN r ELSE op.io)
         /\ 1 \in DOMAIN sq /\ Len(sq) \in Nat \ {0} /\ DOMAIN sq = 1..Len(sq)
         /\ \A n \in DOMAIN sq' : n \in Nat /\ n + 1 \in DOMAIN sq /\ sq'[n] = sq[n + 1]
         /\ Len(sq') = Len(sq) - 1 /\ DOMAIN sq' = 1..Len(sq')
         /\ sq' = << >> <=> Len(sq) = 1
         /\ ~Undecided /\ ~Undecided' /\ Pid' = Pid
         /\ AwaitInv' /\ WishInv'
<1>1. /\ UNCHANGED <<child, adopted, state, desired, prev, up, last>>
      /\ op'.pc = op.pc /\ op'.k = op.k
  BY DEF Tell, host, ident, phase, sup
<1>2. sq \in Seq(Entries) /\ sq' = Tail(sq) /\ op \in Ops
  BY DEF PromiseInv, IInv, TypeOK, Tell
<1>3. /\ 1 \in DOMAIN sq /\ Len(sq) \in Nat \ {0} /\ DOMAIN sq = 1..Len(sq) /\ Head(sq) = sq[1]
      /\ \A n \in DOMAIN sq' : n \in Nat /\ n + 1 \in DOMAIN sq /\ sq'[n] = sq[n + 1]
      /\ Len(sq') = Len(sq) - 1 /\ DOMAIN sq' = 1..Len(sq')
      /\ sq' = << >> <=> Len(sq) = 1
  <2>1. sq' \in Seq(Entries) /\ Len(sq') = Len(sq) - 1
    BY <1>1, <1>2
  <2>2. DOMAIN sq' = 1..Len(sq') /\ (sq' = << >> <=> Len(sq') = 0)
    BY <2>1
  <2> QED BY <1>2, <2>1, <2>2, TailFacts
<1>4. op'.io = (IF sq[1].w = "op" THEN r ELSE op.io)
  BY <1>2, <1>3 DEF Tell
<1>5. ~Undecided /\ ~Undecided' /\ Pid' = Pid
  BY <1>1 DEF PromiseInv, IntentInv, Undecided, Pid
<1>6. AwaitInv'
  BY <1>1, <1>3, <1>4 DEF PromiseInv, AwaitInv
<1>7. WishInv'
  BY <1>1, <1>3, <1>5 DEF PromiseInv, WishInv
<1> QED BY <1>1, <1>3, <1>4, <1>5, <1>6, <1>7

\* WriteStatus and WriteFails: what is written is the head of the queue.
LEMMA IntentWrite ==
  ASSUME PromiseInv, WriteStatus \/ WriteFails, IInv'
  PROVE  PromiseInv'
<1>1. PICK r \in {"ok", "fail"} :
         /\ up /\ sq # << >> /\ Tell(r) /\ os' = os
         /\ r = "ok" => Save(Snapshot(Head(sq)))
         /\ r = "fail" => unsaved' = Snapshot(Head(sq)) /\ UNCHANGED <<disk, published>>
  BY DEF WriteStatus, WriteFails, Quiet, Tell, host
<1> DEFINE e == sq[1]
<1>2. /\ e.pid \in Ref /\ e.desired \in {"running", "stopped"} /\ Head(sq) = e /\ 1 \in DOMAIN sq
      /\ sq \in Seq(Entries)
  <2>1. sq \in Seq(Entries)
    BY DEF PromiseInv, IInv, TypeOK
  <2>2. 1 \in DOMAIN sq /\ Head(sq) = e
    BY <1>1, <2>1, TailFacts
  <2>3. e \in Entries
    BY <2>1, <2>2
  <2> QED BY <2>1, <2>2, <2>3 DEF Entries
<1>3. /\ r = "ok" => /\ disk' = Snapshot(e) /\ unsaved' = NoRecord
                     /\ published' = published \cup ({e.pid} \ {0})
      /\ r = "fail" => unsaved' = Snapshot(e) /\ UNCHANGED <<disk, published>>
      /\ Snapshot(e).pid = e.pid /\ Snapshot(e).state = e.state /\ Snapshot(e).desired = e.desired
  BY <1>1, <1>2 DEF Save, Snapshot
<1> HIDE DEF e
<1>4. AwaitInv' /\ WishInv'
  BY <1>1, TellMoves
<1>5. ReserveInv'
  <2> SUFFICES ASSUME op.pc = "startReserve"
               PROVE  /\ op'.io = "wait" => /\ sq' # << >> /\ sq'[Len(sq')].w = "op"
                                            /\ Snapshot(sq[Len(sq)])' = Reservation
                      /\ op'.io = "ok" => sq' = << >> /\ unsaved' = NoRecord /\ disk' = Reservation
    BY <1>1, TellMoves DEF ReserveInv, Reservation
  <2>1. /\ op'.pc = op.pc /\ op'.io = (IF e.w = "op" THEN r ELSE op.io) /\ last' = last
        /\ Len(sq) \in Nat \ {0} /\ DOMAIN sq = 1..Len(sq) /\ (sq' = << >> <=> Len(sq) = 1)
        /\ Len(sq') = Len(sq) - 1 /\ DOMAIN sq' = 1..Len(sq')
        /\ \A n \in DOMAIN sq' : sq'[n] = sq[n + 1]
    BY <1>1, TellMoves DEF e
  <2>2. e.w = "op" => op.io = "wait"
    BY <1>2 DEF PromiseInv, AwaitInv
  <2>3. op.io # "ok"
    BY <1>1 DEF PromiseInv, ReserveInv
  <2>4. CASE op.io # "wait"
    BY <2>1, <2>2, <2>3, <2>4
  <2>5. CASE op.io = "wait"
    <3>1. sq[Len(sq)].w = "op" /\ Snapshot(sq[Len(sq)]) = Reservation
      BY <2>5 DEF PromiseInv, ReserveInv
    <3>2. CASE e.w = "op"
      <4>1. Len(sq) = 1
        BY <2>1, <3>1, <3>2 DEF PromiseInv, AwaitInv, e
      <4>2. Snapshot(e) = Reservation
        BY <3>1, <4>1 DEF e
      <4> QED BY <1>1, <1>3, <2>1, <3>2, <4>1, <4>2
    <3>3. CASE e.w # "op"
      <4>1. Len(sq) # 1 /\ op'.io = "wait"
        BY <2>1, <2>5, <3>1, <3>3 DEF e
      <4>2. sq'[Len(sq')] = sq[Len(sq)]
        BY <2>1, <4>1
      <4> QED BY <2>1, <3>1, <4>1, <4>2 DEF Snapshot
    <3> QED BY <3>2, <3>3
  <2> QED BY <2>4, <2>5
<1>6. IntentInv'
  <2>1. /\ ~Undecided' /\ op'.k = op.k /\ UNCHANGED prev
        /\ \A n \in DOMAIN sq' : n + 1 \in DOMAIN sq /\ sq'[n] = sq[n + 1]
    BY <1>1, TellMoves
  <2>2. /\ e.state = "starting" => e.desired = "running"
        /\ op.k = "recover" /\ prev.desired = "stopped" => e.desired = "stopped"
        /\ op.k = "recover" /\ prev.desired # "stopped" => e.desired = "running"
    BY <1>2 DEF PromiseInv, IntentInv
  <2>3. NoRecord.state = "stopped" /\ NoRecord.desired = "none"
    BY DEF NoRecord
  <2>4. CASE r = "ok"
    BY <1>3, <2>1, <2>2, <2>3, <2>4 DEF PromiseInv, IntentInv
  <2>5. CASE r = "fail"
    BY <1>3, <2>1, <2>2, <2>5 DEF PromiseInv, IntentInv
  <2> QED BY <2>4, <2>5
<1>7. FreshInv'
  <2>1. /\ Pid' = Pid /\ UNCHANGED <<prev, os>>
        /\ \A n \in DOMAIN sq' : n + 1 \in DOMAIN sq /\ sq'[n] = sq[n + 1]
        /\ Live(Pid)' <=> Live(Pid)
    BY <1>1, TellMoves DEF Live
  <2>2. Live(Pid) /\ Pid \notin published => e.pid = Pid
    BY <1>2 DEF PromiseInv, FreshInv
  <2>3. Live(Pid) => Pid # 0
    BY LiveFacts
  <2>4. CASE r = "ok"
    BY <1>3, <2>1, <2>2, <2>3, <2>4 DEF PromiseInv, FreshInv
  <2>5. CASE r = "fail"
    BY <1>3, <2>1, <2>2, <2>5 DEF PromiseInv, FreshInv
  <2> QED BY <2>4, <2>5
<1> QED BY <1>4, <1>5, <1>6, <1>7 DEF PromiseInv

\* OtherWrite: what is written is what a failed write left in memory.
LEMMA IntentOtherWrite ==
  ASSUME PromiseInv, OtherWrite, IInv'
  PROVE  PromiseInv'
<1>1. /\ disk' = unsaved /\ unsaved' = NoRecord /\ unsaved # NoRecord
      /\ published' = published \cup ({unsaved.pid} \ {0})
      /\ UNCHANGED <<os, last, child, adopted, state, desired, op, sq, up, prev>>
  BY DEF OtherWrite, Save, host, ident, phase, sup
<1>2. NoRecord.state = "stopped" /\ NoRecord.desired = "none"
  BY DEF NoRecord
<1>3. /\ Pid' = Pid /\ (Live(Pid)' <=> Live(Pid)) /\ ~Undecided /\ ~Undecided'
  BY <1>1 DEF PromiseInv, IntentInv, Undecided, Pid, Live
<1>4. AwaitInv' /\ WishInv'
  BY <1>1, <1>3 DEF PromiseInv, AwaitInv, WishInv
<1>5. ReserveInv'
  BY <1>1 DEF PromiseInv, ReserveInv, Reservation
<1>6. IntentInv'
  BY <1>1, <1>2, <1>3 DEF PromiseInv, IntentInv
<1>7. FreshInv'
  BY <1>1, <1>3, LiveFacts DEF PromiseInv, FreshInv
<1> QED BY <1>4, <1>5, <1>6, <1>7 DEF PromiseInv

\* ... the lives of the supervisor ...
LEMMA IntentLives ==
  ASSUME PromiseInv, Crash \/ Exit \/ Boot, IInv'
  PROVE  PromiseInv'
<1>0. NoRecord.state = "stopped" /\ NoRecord.desired = "none" /\ NoRecord.pid = 0
  BY DEF NoRecord
<1>1. CASE Crash \/ Exit
  <2>1. /\ ~up' /\ child' = 0 /\ adopted' = 0 /\ state' = "stopped" /\ desired' = "stopped"
        /\ sq' = << >>
        /\ op'.pc = "idle" /\ op'.k = "none" /\ op'.io = "none" /\ prev' = NoRecord
        /\ unsaved' = NoRecord /\ UNCHANGED <<os, disk, published>>
    BY <1>1 DEF Crash, Exit, Forget, Idle, host
  <2>2. Pid' = 0 /\ ~Live(Pid)' /\ ~Undecided'
    BY <2>1, LiveFacts DEF Pid, Undecided, Live
  <2>3. AwaitInv' /\ ReserveInv'
    BY <2>1 DEF AwaitInv, ReserveInv
  <2>4. WishInv'
    BY <2>1, <2>2 DEF WishInv, StartPcs
  <2>5. IntentInv' /\ FreshInv'
    BY <1>0, <2>1, <2>2 DEF PromiseInv, IntentInv, FreshInv
  <2> QED BY <2>3, <2>4, <2>5 DEF PromiseInv
<1>2. CASE Boot
  <2>1. /\ ~up /\ up' /\ prev' = disk /\ sq = << >> /\ unsaved = NoRecord
        /\ child = 0 /\ adopted = 0
        /\ op'.pc = "recover" /\ op'.k = "recover" /\ op'.io = "none"
        /\ UNCHANGED <<os, child, adopted, state, desired, sq, disk, unsaved, published>>
    BY <1>2 DEF PromiseInv, IInv, SuspendInv, Boot, host, ident, phase, store
  <2>2. Pid' = 0 /\ ~Live(Pid)' /\ Undecided' /\ desired \in {"running", "stopped"}
    BY <2>1, LiveFacts DEF IInv, TypeOK, Pid, Undecided, Live
  <2>3. AwaitInv' /\ ReserveInv'
    BY <2>1 DEF AwaitInv, ReserveInv
  <2>4. WishInv'
    BY <2>1, <2>2 DEF PromiseInv, WishInv, StartPcs, StopPcs
  <2>5. IntentInv' /\ FreshInv'
    BY <1>0, <2>1, <2>2 DEF PromiseInv, IntentInv, FreshInv
  <2> QED BY <2>3, <2>4, <2>5 DEF PromiseInv
<1> QED BY <1>1, <1>2

\* ... and those of the processes.
LEMMA IntentHost ==
  ASSUME PromiseInv, HostNext, IInv'
  PROVE  PromiseInv'
<1>1. UNCHANGED <<last, child, adopted, state, desired, op, sq, disk, unsaved, published, up, prev>>
  BY DEF HostNext, ident, phase, store, sup
<1>2. \A i : Live(i)' => Live(i)
  <2>1. PICK i \in Inst, v \in {"serving", "dead", "hung"} :
           os' = [os EXCEPT ![i] = v] /\ Live(i)
    BY DEF HostNext, Listen, PortTaken, Die, Hang, Unhang, Killed, Live
  <2> QED BY <2>1 DEF Live, PromiseInv, IInv, TypeOK
<1>3. Pid' = Pid /\ (Undecided' <=> Undecided)
  BY <1>1 DEF Pid, Undecided
<1>4. AwaitInv' /\ WishInv'
  BY <1>1, <1>3 DEF PromiseInv, AwaitInv, WishInv
<1>5. ReserveInv' /\ IntentInv'
  BY <1>1, <1>3 DEF PromiseInv, ReserveInv, Reservation, IntentInv
<1>6. FreshInv'
  BY <1>1, <1>2, <1>3 DEF PromiseInv, FreshInv
<1> QED BY <1>4, <1>5, <1>6 DEF PromiseInv

\* A step of nobody.
LEMMA IntentStutter ==
  ASSUME PromiseInv, UNCHANGED vars
  PROVE  PromiseInv'
<1>1. UNCHANGED <<os, last, child, adopted, state, desired, op, sq, disk, unsaved, published,
                  up, prev>>
  BY DEF vars, host, ident, phase, store, sup
<1>2. Pid' = Pid /\ (Undecided' <=> Undecided) /\ (Live(Pid)' <=> Live(Pid))
  BY <1>1 DEF Pid, Undecided, Live
<1>3. IInv'
  BY StutterKeeps DEF PromiseInv
<1>4. AwaitInv' /\ WishInv'
  BY <1>1, <1>2 DEF PromiseInv, AwaitInv, WishInv
<1>5. ReserveInv' /\ IntentInv'
  BY <1>1, <1>2 DEF PromiseInv, ReserveInv, Reservation, IntentInv
<1>6. FreshInv'
  BY <1>1, <1>2 DEF PromiseInv, FreshInv
<1> QED BY <1>3, <1>4, <1>5, <1>6 DEF PromiseInv

\* The initial states.
LEMMA IntentInit == Init => PromiseInv
<1> SUFFICES ASSUME Init PROVE PromiseInv
  OBVIOUS
<1>1. IInv
  BY InvariantInit
<1>2. /\ child = 0 /\ adopted = 0 /\ state = "stopped" /\ desired = "stopped" /\ sq = << >>
      /\ disk = NoRecord /\ prev = NoRecord
      /\ unsaved = NoRecord /\ op.pc = "idle" /\ op.k = "none" /\ op.io = "none" /\ ~up
      /\ NoRecord.state = "stopped" /\ NoRecord.pid = 0
  BY DEF Init, Idle, NoRecord
<1>3. Pid = 0 /\ ~Live(Pid) /\ ~Undecided
  BY <1>2, LiveFacts DEF Pid, Undecided
<1>4. AwaitInv /\ ReserveInv
  BY <1>2 DEF AwaitInv, ReserveInv
<1>5. WishInv
  BY <1>2, <1>3 DEF WishInv, StartPcs
<1>6. IntentInv /\ FreshInv
  BY <1>2, <1>3 DEF IntentInv, FreshInv
<1> QED BY <1>1, <1>4, <1>5, <1>6 DEF PromiseInv

\* Every step.
LEMMA IntentNext == PromiseInv /\ [Next]_vars => PromiseInv'
<1> SUFFICES ASSUME PromiseInv, [Next]_vars PROVE PromiseInv'
  OBVIOUS
<1>1. IInv /\ IInv'
  BY InvariantNext DEF PromiseInv
<1>2. ASSUME Segment, IntentStep, WishInv' PROVE PromiseInv'
  BY <1>1, <1>2, IntentSegmentKeeps
<1>3. CASE RecoverNext
  BY <1>1, <1>2, <1>3, SegmentRecover, IntentRecover
<1>4. CASE StartNext
  BY <1>1, <1>2, <1>4, SegmentStart, IntentStart, IntentSpawn
<1>5. CASE StopNext
  BY <1>1, <1>2, <1>5, SegmentStop, IntentStop
<1>6. CASE MonitorNext
  BY <1>1, <1>2, <1>6, SegmentMonitor, IntentMonitor
<1>7. CASE EventNext
  BY <1>1, <1>2, <1>7, SegmentEvent, IntentEvent, IntentWrite, IntentOtherWrite
<1>8. CASE Crash \/ Exit \/ Boot
  BY <1>1, <1>8, IntentLives
<1>9. CASE HostNext
  BY <1>1, <1>9, IntentHost
<1>10. CASE UNCHANGED vars
  BY <1>10, IntentStutter
<1> QED BY <1>3, <1>4, <1>5, <1>6, <1>7, <1>8, <1>9, <1>10 DEF Next

\* The inductive invariant behind the intent and the promise, for any number of
\* launches, commands and faults.
THEOREM PromiseInvariant == Spec => []PromiseInv
  BY IntentInit, IntentNext, PTL DEF Spec

-----------------------------------------------------------------------------
(* What follows of the steps                                               *)

\* Which steps touch the processes and the slot.
LEMMA Touches ==
  ASSUME PromiseInv, [Next]_vars
  PROVE  \/ UNCHANGED <<os, disk, published>>
         \/ StartSpawn \/ WriteStatus \/ OtherWrite \/ HostNext
<1>1. CASE RecoverNext
  BY <1>1, SegmentRecover DEF PromiseInv, Segment, store
<1>2. CASE StartNext
  BY <1>2, SegmentStart DEF PromiseInv, Segment, store
<1>3. CASE StopNext
  BY <1>3, SegmentStop DEF PromiseInv, Segment, store
<1>4. CASE MonitorNext
  BY <1>4, SegmentMonitor DEF PromiseInv, Segment, store
<1>5. CASE EventNext
  <2>1. CASE WriteFails
    BY <2>1 DEF WriteFails, Tell, host
  <2> QED BY <1>5, <2>1, SegmentEvent DEF PromiseInv, Segment, store
<1>6. CASE Crash \/ Exit \/ Boot
  BY <1>6 DEF Crash, Exit, Boot, Forget, host, store
<1>7. CASE UNCHANGED vars
  BY <1>7 DEF vars, host, store
<1> QED BY <1>1, <1>2, <1>3, <1>4, <1>5, <1>6, <1>7 DEF Next

\* A spawn happens on a durable reservation of its own token, with the durable
\* intent "running"; no recovery turns a durable "stopped" into "running".
THEOREM StartsIntended == Spec => StartsAreIntended
<1> DEFINE A == /\ \A i \in Inst : os[i] = "none" /\ os'[i] = "booting" =>
                      disk.token = i /\ disk.desired = "running" /\ disk.pid = 0
                /\ disk.desired = "stopped" /\ disk'.desired = "running" => op.k # "recover"
<1>1. ASSUME PromiseInv, [Next]_vars PROVE A
  <2>1. CASE UNCHANGED <<os, disk, published>>
    BY <2>1
  <2>2. CASE StartSpawn
    <3>1. os' = [os EXCEPT ![last] = "booting"] /\ disk' = disk /\ disk = Reservation
      BY <1>1, <2>2 DEF StartSpawn, Written, At, store, PromiseInv, ReserveInv
    <3>2. disk.token = last /\ disk.desired = "running" /\ disk.pid = 0
      BY <3>1 DEF Reservation
    <3>3. \A i \in Inst : os[i] = "none" /\ os'[i] = "booting" => i = last
      BY <1>1, <3>1
    <3> QED BY <3>1, <3>2, <3>3
  <2>3. CASE WriteStatus
    <3>1. sq # << >> /\ sq \in Seq(Entries) /\ disk' = Snapshot(Head(sq)) /\ os' = os
      BY <1>1, <2>3 DEF WriteStatus, Save, Tell, host, PromiseInv, IInv, TypeOK
    <3>2. 1 \in DOMAIN sq /\ Head(sq) = sq[1]
      BY <3>1, TailFacts
    <3>3. disk'.desired = sq[1].desired
      BY <3>1, <3>2 DEF Snapshot
    <3>4. op.k = "recover" /\ disk.desired = "stopped" => sq[1].desired = "stopped"
      BY <1>1, <3>2 DEF PromiseInv, IntentInv
    <3> QED BY <3>1, <3>3, <3>4
  <2>4. CASE OtherWrite
    <3>1. os' = os /\ disk' = unsaved
      BY <2>4 DEF OtherWrite, Save, host
    <3> QED BY <1>1, <3>1 DEF PromiseInv, IntentInv
  <2>5. CASE HostNext
    <3>1. disk' = disk
      BY <2>5 DEF HostNext, store
    <3>2. PICK i \in Inst, v \in {"serving", "dead", "hung"} : os' = [os EXCEPT ![i] = v]
      BY <2>5 DEF HostNext, Listen, PortTaken, Die, Hang, Unhang, Killed
    <3>3. \A j \in Inst : os'[j] = "booting" => os[j] = "booting"
      BY <1>1, <3>2
    <3> QED BY <3>1, <3>3
  <2> QED BY <1>1, <2>1, <2>2, <2>3, <2>4, <2>5, Touches
<1>2. PromiseInv /\ [Next]_vars => [A]_vars
  BY <1>1
<1> QED BY <1>2, PromiseInvariant, PTL DEF Spec, StartsAreIntended

-----------------------------------------------------------------------------
(* The controller implements BackendPromise                                *)

\* The promise's one backend: the published one that lives.
cur == IF Current = {} THEN 0 ELSE CHOOSE i \in Current : TRUE

\* The published live backend is one at most.
LEMMA CurFacts ==
  ASSUME PromiseInv
  PROVE  /\ Current = {} => cur = 0
         /\ \A i \in Current : Current = {i} /\ cur = i /\ i # 0 /\ i \in Inst
<1>1. \A i, j \in Current : i = j
  BY DEF PromiseInv, IInv, TrackedInv, Current
<1>2. \A i \in Current : i # 0 /\ i \in Inst
  BY LiveFacts DEF Current
<1> QED BY <1>1, <1>2 DEF cur

\* The slot gets the pid p: that of a new backend, which is a launch, or one
\* it has had, or of a dead one.
LEMMA Recorded ==
  ASSUME PromiseInv, PromiseInv', NEW p \in Ref, os' = os,
         published' = published \cup ({p} \ {0}),
         disk'.desired \in {"none", "running", "stopped"},
         Live(p) => Pid = p, \A i \in Current : p = i
  PROVE  Promise!Next
<1>1. \A i : Live(i)' <=> Live(i)
  BY DEF Live
<1>2. published \subseteq Inst /\ published' \subseteq Inst
  BY DEF PromiseInv, IInv, TypeOK
<1>3. CASE Live(p) /\ p \notin published
  <2>1. disk.desired = "running" /\ p # 0 /\ p \in Inst
    BY <1>3, LiveFacts DEF PromiseInv, FreshInv
  <2>2. Current = {}
    BY <1>3 DEF Current
  <2>3. Current' = {p}
    BY <1>1, <1>3, <2>1, <2>2 DEF Current
  <2>4. cur = 0 /\ cur' = p
    BY <2>2, <2>3 DEF cur
  <2> QED BY <1>3, <2>1, <2>4 DEF Promise!Next, Promise!Launch, Promise!Intents, cur
<1>4. CASE ~(Live(p) /\ p \notin published)
  <2>1. Current' = Current
    BY <1>1, <1>4 DEF Current
  <2>2. cur' = cur
    BY <2>1 DEF cur
  <2> QED BY <1>2, <2>2 DEF Promise!Next, Promise!Record, Promise!Intents, cur
<1> QED BY <1>3, <1>4

\* Every step of the controller is one of the promise, or a stutter.
LEMMA PromiseStep ==
  ASSUME PromiseInv, PromiseInv', [Next]_vars
  PROVE  Promise!Next \/ UNCHANGED <<cur, published, disk.desired>>
<1>1. published \subseteq Inst /\ disk \in Snapshots /\ disk' \in Snapshots
  BY DEF PromiseInv, IInv, TypeOK
<1>2. CASE UNCHANGED <<os, disk, published>>
  <2>1. Current' = Current
    BY <1>2 DEF Current, Live
  <2> QED BY <1>2, <2>1 DEF cur
<1>3. CASE StartSpawn
  <2>1. /\ os' = [os EXCEPT ![last] = "booting"] /\ UNCHANGED <<disk, published>>
        /\ os[last] = "none"
    BY <1>3 DEF StartSpawn, Written, At, store, PromiseInv, IInv, OwnInv
  <2>2. \A i \in published : i # last /\ (Live(i)' <=> Live(i))
    BY <1>1, <2>1 DEF PromiseInv, IInv, LaunchInv, Live
  <2>3. Current' = Current
    BY <2>1, <2>2 DEF Current
  <2> QED BY <2>1, <2>3 DEF cur
<1>4. CASE WriteStatus
  <2>1. sq # << >> /\ sq \in Seq(Entries) /\ Save(Snapshot(Head(sq))) /\ os' = os
    BY <1>4 DEF WriteStatus, Tell, host, PromiseInv, IInv, TypeOK
  <2>2. 1 \in DOMAIN sq /\ Head(sq) = sq[1] /\ sq[1].pid \in Ref
    BY <2>1, TailFacts, EntryFacts
  <2>3. /\ published' = published \cup ({sq[1].pid} \ {0})
        /\ disk'.desired \in {"none", "running", "stopped"}
    BY <1>1, <2>1, <2>2 DEF Save, Snapshot, Snapshots
  <2>4. Live(sq[1].pid) => Pid = sq[1].pid
    BY <2>2 DEF PromiseInv, IInv, QueueInv
  <2>5. \A i \in Current : sq[1].pid = i
    BY <2>2 DEF PromiseInv, IInv, TrackedInv, Current
  <2> QED BY <2>1, <2>2, <2>3, <2>4, <2>5, Recorded
<1>5. CASE OtherWrite
  <2>1. /\ unsaved # NoRecord /\ disk' = unsaved /\ os' = os
        /\ published' = published \cup ({unsaved.pid} \ {0})
    BY <1>5 DEF OtherWrite, Save, host
  <2>2. unsaved.pid \in Ref /\ disk'.desired \in {"none", "running", "stopped"}
    BY <1>1 DEF Snapshots, PromiseInv, IInv, TypeOK
  <2>3. Live(unsaved.pid) => Pid = unsaved.pid
    BY DEF PromiseInv, IInv, QueueInv
  <2>4. \A i \in Current : unsaved.pid = i
    BY <2>1 DEF PromiseInv, IInv, TrackedInv, Current
  <2> QED BY <2>1, <2>2, <2>3, <2>4, Recorded
<1>6. CASE HostNext
  <2>1. UNCHANGED <<disk, published>>
    BY <1>6 DEF HostNext, store
  <2>2. PICK i \in Inst, v \in {"serving", "dead", "hung"} : os' = [os EXCEPT ![i] = v] /\ Live(i)
    BY <1>6 DEF HostNext, Listen, PortTaken, Die, Hang, Unhang, Killed, Live
  <2>3. Current' \subseteq Current
    BY <2>1, <2>2 DEF Current, Live
  <2>4. CASE Current' = Current
    BY <2>1, <2>4 DEF cur
  <2>5. CASE Current' # Current
    <3>1. PICK j \in Current : j \notin Current'
      BY <2>3, <2>5
    <3>2. Current' = {} /\ cur' = 0 /\ cur # 0
      BY <2>3, <3>1, CurFacts DEF cur
    <3> QED BY <2>1, <3>2 DEF Promise!Next, Promise!End, cur
  <2> QED BY <2>4, <2>5
<1> QED BY <1>2, <1>3, <1>4, <1>5, <1>6, Touches

\* At most one backend; a new one enters the slot only while the durable intent
\* is "running" and none is alive; none comes back: the slot of the controller
\* is an implementation of BackendPromise.
THEOREM Refinement == Spec => KeepsPromise
<1>1. Init => Promise!Init
  BY DEF Init, Promise!Init, Current, NoRecord
<1>2. PromiseInv /\ PromiseInv' /\ [Next]_vars => [Promise!Next]_<<cur, published, disk.desired>>
  BY PromiseStep
<1>3. PromiseInv /\ PromiseInv' /\ [Next]_vars
          => [Promise!Next]_<<IF Current = {} THEN 0 ELSE CHOOSE i \in Current : TRUE,
                              published, disk.desired>>
  BY <1>2 DEF cur
<1> QED BY <1>1, <1>3, PromiseInvariant, PTL DEF Spec, KeepsPromise, Promise!Spec
=============================================================================
