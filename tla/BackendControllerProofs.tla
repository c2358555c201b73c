---------------------- MODULE BackendControllerProofs ----------------------
(***************************************************************************)
(* Machine-checked proofs about BackendController: type correctness, and   *)
(* that of the backends whose pid ever was durable at most one is alive,   *)
(* the slot names it, and "stopped" in the slot is true - for any number   *)
(* of launches, faults of every kind and commands.                         *)
(***************************************************************************)
EXTENDS BackendController, TLAPS

-----------------------------------------------------------------------------
(* The inductive invariant                                                 *)

\* The recovery of this supervisor life has not yet decided about the backend
\* the slot named at boot.
Undecided == op.pc \in {"recover", "adoptProbe", "waitIdentity", "waitStopped"}

\* At most one of child and adopted is set and the token is its token; what the
\* suspended operation relies on still holds.
OwnInv ==
    /\ child = 0 \/ adopted = 0
    /\ Pid # 0 => token = Pid /\ os[Pid] # "none"
    /\ prev.pid # 0 => prev.token = prev.pid /\ os[prev.pid] # "none"
    /\ up /\ state = "stopped" => ~Live(Pid)
    /\ op.pc = "startReserve" =>
          last # 0 /\ os[last] = "none" /\ token = last /\ state = "starting"

SuspendInv ==
    /\ ~up => op = Idle /\ lq = << >> /\ sq = << >> /\ unsaved = NoRecord
             /\ child = 0 /\ adopted = 0
    /\ Undecided \/ op.pc \in {"startPort", "startReserve"} => child = 0 /\ adopted = 0
    /\ op.pc \in {"stopAdopted", "stopProbe", "stopKill", "recoverKill",
                  "adoptedEmit", "adoptedKill"}
         => child = 0 /\ adopted \in {0, op.tgt}
    /\ op.pc \in {"stopChild", "stopTerm", "startReplace"} => adopted = 0 /\ child \in {0, op.tgt}
    /\ op.pc = "recoverStopping" => child = 0
    /\ op.pc = "stopEnd" => Pid = 0

\* Instances are numbered in the order of their reservations, and whatever a
\* snapshot or the slot names by pid has been spawned and has its own token.
LaunchInv ==
    /\ \A i \in Inst : i > last => os[i] = "none"
    /\ \A i \in published : os[i] # "none"
    /\ \A n \in DOMAIN sq : sq[n].pid # 0 => sq[n].token = sq[n].pid /\ os[sq[n].pid] # "none"
    /\ disk.pid # 0 => disk.token = disk.pid /\ os[disk.pid] # "none"
    /\ unsaved.pid # 0 => unsaved.token = unsaved.pid /\ os[unsaved.pid] # "none"

\* A check of the current generation belongs to the current monitor and to an
\* instance.
MonitorInv ==
    /\ mon = "owned" => misses < Threshold
    /\ ochk.ph = "probe" /\ ochk.fresh => mon = "owned"
    /\ achk.ph = "probe" /\ achk.fresh => mon = "adopted"
    /\ achk.ph = "probe" \/ achk.fresh => achk.inst # 0

\* A snapshot that names a live backend names the current one, and so do all
\* snapshots behind it.
QueueInv ==
    /\ \A m \in DOMAIN sq : Live(sq[m].pid) =>
          /\ Pid = sq[m].pid
          /\ \A n \in DOMAIN sq : n >= m => sq[n].pid = sq[m].pid
    /\ \A m \in DOMAIN sq : sq[m].state = "stopped" => ~Live(sq[m].pid)
    /\ Live(unsaved.pid) => Pid = unsaved.pid /\ \A n \in DOMAIN sq : sq[n].pid = unsaved.pid
    /\ disk.state = "stopped" => ~Live(disk.pid)
    /\ unsaved.state = "stopped" => ~Live(unsaved.pid)

\* A live published backend is named by the slot and by every snapshot still
\* to be written; this supervisor has it, or has still to decide about it.
TrackedInv ==
    \A i \in published : Live(i) =>
        /\ disk.pid = i
        /\ unsaved # NoRecord => unsaved.pid = i
        /\ \A n \in DOMAIN sq : sq[n].pid = i
        /\ up => Pid = i \/ (Undecided /\ prev.pid = i)

IInv == TypeOK /\ OwnInv /\ LaunchInv /\ SuspendInv /\ MonitorInv
        /\ QueueInv /\ TrackedInv

-----------------------------------------------------------------------------
(* Type correctness: first what the building blocks of the segments do to  *)
(* the typed fields, then one step per action.                             *)

Writers == {"op", "achk", "nobody"}

LEMMA GoTypes == ASSUME op \in Ops, NEW pc \in Pcs, NEW io \in Results, Go(pc, io)
                 PROVE op' \in Ops
  BY DEF Go, Ops

LEMMA ProbeTypes == ASSUME op \in Ops, NEW pc \in Pcs, NEW i \in Ref, ProbeThen(pc, i)
                 PROVE op' \in Ops
  BY DEF ProbeThen, Ops, Results

LEMMA TerminateTypes == ASSUME op \in Ops, NEW pc \in Pcs, NEW i \in Ref, TerminateThen(pc, i)
                 PROVE op' \in Ops
  BY DEF TerminateThen, Ops, Results

LEMMA PortTypes == op \in Ops => PortProbe \in Ops
  BY DEF PortProbe, Ops, Results, Pcs

LEMMA EmitTypes ==
  ASSUME sq \in Seq(Entries), NEW w \in Writers, Emit(w), state' \in States,
         desired' \in {"running", "stopped"}, child' \in Ref, adopted' \in Ref, token' \in Ref
  PROVE sq' \in Seq(Entries)
  BY DEF Emit, Entries, Writers

LEMMA EmitThenTypes ==
  ASSUME sq \in Seq(Entries), op \in Ops, NEW pc \in Pcs, EmitThen(pc), state' \in States,
         desired' \in {"running", "stopped"}, child' \in Ref, adopted' \in Ref, token' \in Ref
  PROVE sq' \in Seq(Entries) /\ op' \in Ops
  BY EmitTypes, GoTypes DEF EmitThen, Writers, Results

LEMMA EmitForTypes ==
  ASSUME sq \in Seq(Entries), op \in Ops, NEW pc \in Pcs, NEW i \in Ref, EmitFor(pc, i),
         state' \in States,
         desired' \in {"running", "stopped"}, child' \in Ref, adopted' \in Ref, token' \in Ref
  PROVE sq' \in Seq(Entries) /\ op' \in Ops
  BY EmitTypes DEF EmitFor, Writers, Results, Ops

LEMMA GenerationTypes ==
  ASSUME TypeOK, NEW m \in {"none", "owned", "adopted"}, NewGeneration(m)
  PROVE mon' \in {"none", "owned", "adopted"} /\ ochk' \in Checks /\ achk' \in Checks
        /\ misses' \in 0..Threshold
<1>1. mon' \in {"none", "owned", "adopted"} /\ misses' \in 0..Threshold
  BY BoundsAssumption DEF NewGeneration
<1>2. ochk' \in Checks /\ achk' \in Checks
  BY DEF NewGeneration, TypeOK, Checks
<1> QED BY <1>1, <1>2

LEMMA RefTypes == 0 \in Ref /\ Inst \subseteq Ref
  BY BoundsAssumption DEF Ref, Inst

LEMMA TargetTypes == op \in Ops => op.tgt \in Ref
  BY DEF Ops

LEMMA ConstantTypes == /\ Idle \in Ops /\ NoCheck \in Checks /\ NoRecord \in Snapshots
                       /\ 0 \in 0..Threshold
<1>1. Idle \in Ops
  BY RefTypes DEF Idle, Ops, Pcs, Results
<1>2. NoCheck \in Checks
  BY RefTypes DEF NoCheck, Checks, CheckPhases, Results
<1>3. NoRecord \in Snapshots
  BY RefTypes DEF NoRecord, Snapshots, States
<1>4. 0 \in 0..Threshold
  BY BoundsAssumption
<1> QED BY <1>1, <1>2, <1>3, <1>4

LEMMA HeadTypes == ASSUME sq \in Seq(Entries), sq # << >>
                   PROVE /\ Snapshot(Head(sq)) \in Snapshots /\ Head(sq).pid \in Ref
                         /\ Tail(sq) \in Seq(Entries)
<1>1. Head(sq) \in Entries /\ Tail(sq) \in Seq(Entries)
  OBVIOUS
<1> QED BY <1>1 DEF Snapshot, Snapshots, Entries

LEMMA QueueTypes == ASSUME lq \in Seq(Kinds), NEW k \in Kinds
                    PROVE Append(lq, k) \in Seq(Kinds)
  OBVIOUS

LEMMA CheckTypes == ASSUME NEW c \in Checks, NEW r \in Results, NEW ph \in CheckPhases
                    PROVE /\ [c EXCEPT !.fresh = FALSE] \in Checks
                          /\ [c EXCEPT !.io = r] \in Checks
                          /\ [c EXCEPT !.ph = ph] \in Checks
                          /\ [c EXCEPT !.ph = ph, !.io = r] \in Checks
                          /\ c.inst \in Ref
  BY DEF Checks

LEMMA TellTypes == ASSUME op \in Ops, achk \in Checks, NEW r \in Results
                   PROVE /\ [op EXCEPT !.io = r] \in Ops
                         /\ [achk EXCEPT !.io = r] \in Checks
  BY DEF Ops, Checks

LEMMA InstTypes == ochk \in Checks /\ achk \in Checks => ochk.inst \in Ref /\ achk.inst \in Ref
  BY DEF Checks

LEMMA TStartSpawn == TypeOK /\ StartSpawn => TypeOK'
<1> SUFFICES ASSUME TypeOK, StartSpawn PROVE TypeOK'
  OBVIOUS
<1>1. os' \in [Inst -> {"none", "booting", "serving", "hung", "dead"}]
  BY DEF StartSpawn, TypeOK
<1>2. child' \in Ref /\ adopted' \in Ref /\ token' \in Ref /\ last' \in Ref
  BY DEF StartSpawn, TypeOK
<1>3. state' \in States /\ desired' \in {"running", "stopped"}
  BY DEF StartSpawn, TypeOK, phase
<1>4. sq' \in Seq(Entries) /\ op' \in Ops
  BY <1>2, <1>3, EmitThenTypes DEF StartSpawn, TypeOK, Pcs
<1> QED
  BY <1>1, <1>2, <1>3, <1>4 DEF StartSpawn, TypeOK, watch, sched, store, sup, budget

LEMMA TOwnedTick == TypeOK /\ OwnedTick => TypeOK'
<1> SUFFICES ASSUME TypeOK, OwnedTick PROVE TypeOK'
  OBVIOUS
<1>1. ochk' \in Checks
  BY DEF OwnedTick, TypeOK, Checks, CheckPhases, Results
<1> QED
  BY <1>1 DEF OwnedTick, TypeOK, host, ident, phase, sched, store, sup, budget

LEMMA TOwnedChecked == TypeOK /\ MonitorInv /\ OwnedChecked => TypeOK'
<1> SUFFICES ASSUME TypeOK, MonitorInv, OwnedChecked PROVE TypeOK'
  OBVIOUS
<1>1. ochk' \in Checks
  <2>1. [ochk EXCEPT !.ph = "queued"] \in Checks
    BY DEF TypeOK, Checks, CheckPhases
  <2> QED BY <2>1, ConstantTypes DEF OwnedChecked
<1>2. misses' \in 0..Threshold
  BY BoundsAssumption DEF OwnedChecked, OwnedCurrent, TypeOK, MonitorInv
<1>3. mon' \in {"none", "owned", "adopted"}
  BY DEF OwnedChecked, TypeOK
<1>4. lq' \in Seq(Kinds)
  BY QueueTypes DEF OwnedChecked, TypeOK, Kinds
<1> QED
  BY <1>1, <1>2, <1>3, <1>4 DEF OwnedChecked, TypeOK, host, ident, phase, sched, store, sup, budget

LEMMA TAdoptedTick == TypeOK /\ AdoptedTick => TypeOK'
<1> SUFFICES ASSUME TypeOK, AdoptedTick PROVE TypeOK'
  OBVIOUS
<1>1. CASE Live(adopted)
  <2>0. achk' = [ph |-> "probe", inst |-> adopted, fresh |-> TRUE,
                 io |-> IF Serving(adopted) THEN "hit" ELSE "miss"]
    BY <1>1 DEF AdoptedTick
  <2>1. achk' \in Checks
    BY <2>0 DEF TypeOK, Checks, CheckPhases, Results
  <2> QED
    BY <1>1, <2>1 DEF AdoptedTick, TypeOK, host, ident, sched, store, sup, budget
<1>2. CASE ~Live(adopted)
  <2>0. /\ achk' = [ph |-> IF desired = "running" THEN "gone" ELSE "told",
                    inst |-> adopted, fresh |-> FALSE, io |-> "wait"]
        /\ ochk' = [ochk EXCEPT !.fresh = FALSE]
    BY <1>2 DEF AdoptedTick
  <2>1. achk' \in Checks /\ ochk' \in Checks
    BY <2>0 DEF TypeOK, Checks, CheckPhases, Results
  <2>2. child' \in Ref /\ adopted' \in Ref /\ token' \in Ref
    BY <1>2, RefTypes DEF AdoptedTick, ClearAdopted, TypeOK
  <2>3. state' \in States /\ desired' \in {"running", "stopped"}
    BY <1>2 DEF AdoptedTick, TypeOK, States
  <2>4. sq' \in Seq(Entries)
    BY <1>2, <2>2, <2>3, EmitTypes DEF AdoptedTick, TypeOK, Writers
  <2>5. mon' \in {"none", "owned", "adopted"} /\ misses' \in 0..Threshold
    BY <1>2, ConstantTypes DEF AdoptedTick
  <2> QED
    BY <2>1, <2>2, <2>3, <2>4, <2>5 DEF AdoptedTick, TypeOK, host, sched, store, sup, budget
<1> QED BY <1>1, <1>2

LEMMA TAdoptedChecked == TypeOK /\ AdoptedChecked => TypeOK'
<1> SUFFICES ASSUME TypeOK, AdoptedChecked PROVE TypeOK'
  OBVIOUS
<1>1. achk' \in Checks
  BY ConstantTypes, CheckTypes DEF AdoptedChecked, TypeOK, CheckPhases, Results
<1>2. misses' \in 0..Threshold
  BY BoundsAssumption DEF AdoptedChecked, TypeOK
<1>3. state' \in States /\ desired' \in {"running", "stopped"}
  BY DEF AdoptedChecked, TypeOK, States
<1>4. child' \in Ref /\ adopted' \in Ref /\ token' \in Ref
  BY DEF AdoptedChecked, TypeOK, ident
<1>5. sq' \in Seq(Entries)
  BY <1>3, <1>4, EmitTypes DEF AdoptedChecked, TypeOK, Writers
<1>6. lq' \in Seq(Kinds)
  BY QueueTypes DEF AdoptedChecked, TypeOK, Kinds
<1> QED
  BY <1>1, <1>2, <1>3, <1>4, <1>5, <1>6 DEF AdoptedChecked, TypeOK, host, sched, store, sup, budget

LEMMA TAdoptedTold == TypeOK /\ AdoptedTold => TypeOK'
<1> SUFFICES ASSUME TypeOK, AdoptedTold PROVE TypeOK'
  OBVIOUS
<1>1. timer' \in BOOLEAN /\ preserving' \in BOOLEAN
  <2>1. CASE achk.ph = "gone" /\ achk.io = "ok"
    BY <2>1 DEF AdoptedTold, ScheduleRestart, TypeOK
  <2>2. CASE ~(achk.ph = "gone" /\ achk.io = "ok")
    BY <2>2 DEF AdoptedTold, TypeOK, sched
  <2> QED BY <2>1, <2>2
<1>2. achk' \in Checks
  BY ConstantTypes DEF AdoptedTold
<1> QED
  BY <1>1, <1>2 DEF AdoptedTold, TypeOK, host, ident, store, sup, budget

LEMMA TBegin == TypeOK /\ Begin => TypeOK'
<1> SUFFICES ASSUME TypeOK, Begin PROVE TypeOK'
  OBVIOUS
<1>1. Head(lq) \in Kinds /\ Tail(lq) \in Seq(Kinds)
  BY DEF Begin, TypeOK
<1>2. op' \in Ops
  BY <1>1, RefTypes DEF Begin, Ops, Kinds, Pcs, Results
<1> QED
  BY <1>1, <1>2 DEF Begin, TypeOK, host, ident, phase, watch, sched, store, sup, budget

LEMMA TTell == ASSUME TypeOK, sq # << >>, NEW r \in {"ok", "fail"}, Tell(r)
               PROVE op' \in Ops /\ achk' \in Checks /\ sq' \in Seq(Entries)
<1>1. r \in Results
  BY DEF Results
<1> QED BY <1>1, TellTypes, HeadTypes DEF Tell, TypeOK

LEMMA SaveTypes ==
  ASSUME TypeOK, NEW s \in Snapshots, Save(s)
  PROVE  disk' \in Snapshots /\ unsaved' \in Snapshots /\ published' \subseteq Inst
<1>1. disk' \in Snapshots /\ unsaved' \in Snapshots
  BY ConstantTypes DEF Save
<1>2. s.pid \in Ref /\ \A r \in Ref : {r} \ {0} \subseteq Inst
  BY BoundsAssumption DEF Ref, Inst, Snapshots
<1> QED BY <1>1, <1>2 DEF Save, TypeOK


LEMMA TWriteStatus == TypeOK /\ WriteStatus => TypeOK'
<1> SUFFICES ASSUME TypeOK, WriteStatus PROVE TypeOK'
  OBVIOUS
<1>1. op' \in Ops /\ achk' \in Checks /\ sq' \in Seq(Entries)
  BY TTell DEF WriteStatus
<1>2. disk' \in Snapshots /\ unsaved' \in Snapshots /\ published' \subseteq Inst
  BY HeadTypes, SaveTypes DEF WriteStatus, TypeOK
<1> QED
  BY <1>1, <1>2 DEF WriteStatus, Tell, TypeOK, host, ident, phase, sched, sup, budget

LEMMA TWriteFails == TypeOK /\ WriteFails => TypeOK'
<1> SUFFICES ASSUME TypeOK, WriteFails PROVE TypeOK'
  OBVIOUS
<1>1. op' \in Ops /\ achk' \in Checks /\ sq' \in Seq(Entries)
  BY TTell DEF WriteFails
<1>2. unsaved' \in Snapshots
  BY HeadTypes DEF WriteFails, TypeOK
<1> QED
  BY <1>1, <1>2, BoundsAssumption DEF WriteFails, Fault, Tell, TypeOK, host, ident, phase, sched, sup


LEMMA TOtherWrite == TypeOK /\ OtherWrite => TypeOK'
  BY SaveTypes DEF OtherWrite, TypeOK, host, ident, phase, watch, sched, sup, budget

LEMMA TForget == TypeOK /\ Forget /\ faults' \in 0..MaxFaults /\ cmds' \in 0..MaxCommands => TypeOK'
<1> SUFFICES ASSUME TypeOK, Forget, faults' \in 0..MaxFaults, cmds' \in 0..MaxCommands PROVE TypeOK'
  OBVIOUS
<1>1. /\ op' \in Ops /\ ochk' \in Checks /\ achk' \in Checks /\ prev' \in Snapshots
      /\ unsaved' \in Snapshots
      /\ misses' \in 0..Threshold /\ child' \in Ref /\ adopted' \in Ref /\ token' \in Ref
  BY ConstantTypes, RefTypes DEF Forget
<1>2. lq' \in Seq(Kinds) /\ sq' \in Seq(Entries)
  BY DEF Forget
<1> QED
  BY <1>1, <1>2 DEF Forget, TypeOK, host, store, States

LEMMA TCrash == TypeOK /\ Crash => TypeOK'
  BY TForget, BoundsAssumption DEF Crash, Fault, TypeOK

LEMMA TExit == TypeOK /\ Exit => TypeOK'
  BY TForget DEF Exit, TypeOK, budget

LEMMA TCommand == TypeOK /\ (\E k \in Commands : Command(k)) => TypeOK'
<1> SUFFICES ASSUME TypeOK, NEW k \in Commands, Command(k) PROVE TypeOK'
  OBVIOUS
<1>1. lq' \in Seq(Kinds)
  BY QueueTypes DEF Command, Commands, Kinds, TypeOK
<1>2. preserving' \in BOOLEAN /\ timer' \in BOOLEAN
  <2>1. CASE k = "start"
    BY <2>1 DEF Command, TypeOK
  <2>2. CASE k # "start"
    BY <2>2 DEF Command, TypeOK
  <2> QED BY <2>1, <2>2
<1>3. cmds' \in 0..MaxCommands
  BY BoundsAssumption DEF Command, TypeOK
<1> QED
  BY <1>1, <1>2, <1>3 DEF Command, TypeOK, host, ident, phase, watch, store, sup

LEMMA TypesRecover == ASSUME TypeOK, MonitorInv, RecoverNext PROVE TypeOK'
<1>1. CASE Recover
  BY <1>1, GoTypes, ProbeTypes, RefTypes DEF Recover, TypeOK, host, ident,
    phase, watch, sched, store, sup, budget, Pcs, Results, Snapshots
<1>2. CASE AdoptProbe
  BY <1>2, GoTypes, EmitThenTypes, RefTypes DEF AdoptProbe, Accept, TypeOK,
    host, ident, phase, watch, sched, store, sup, budget, Pcs, Results,
    States, Snapshots
<1>3. CASE Adopted
  BY <1>3, GoTypes, GenerationTypes DEF Adopted, Written, TypeOK, host,
    ident, phase, sched, store, sup, budget, Pcs, Results
<1>4. CASE IdentityFound
  BY <1>4, EmitThenTypes, RefTypes DEF IdentityFound, Accept, TypeOK, host,
    watch, sched, store, sup, budget, Pcs, States, Snapshots
<1>5. CASE IdentityGone
  BY <1>5, GoTypes, RefTypes DEF IdentityGone, TypeOK, host, phase, watch,
    sched, store, sup, budget, Pcs, Results, Snapshots
<1>6. CASE IdentityAbsent
  BY <1>6, GoTypes, RefTypes DEF IdentityAbsent, Slow, TypeOK, host, phase,
    watch, sched, store, sup, budget, Pcs, Results, Snapshots
<1>7. CASE IdentityUnverified
  BY <1>7, EmitThenTypes, RefTypes DEF IdentityUnverified, Slow, TypeOK,
    host, watch, sched, store, sup, budget, Pcs, States, Snapshots
<1>8. CASE RecoverRefuse
  BY <1>8, GoTypes, GenerationTypes DEF RecoverRefuse, Written, TypeOK, host,
    ident, phase, sched, store, sup, budget, Pcs, Results
<1>9. CASE RecoverStopped
  <2>1. child' \in Ref /\ adopted' \in Ref /\ token' \in Ref
    BY <1>9, RefTypes DEF RecoverStopped, TypeOK
  <2>2. state' \in States /\ desired' \in {"running", "stopped"}
    BY <1>9 DEF RecoverStopped, TypeOK, States
  <2>3. sq' \in Seq(Entries) /\ op' \in Ops
    BY <1>9, <2>1, <2>2, GoTypes, EmitThenTypes DEF RecoverStopped, TypeOK, Pcs, Results
  <2> QED
    BY <1>9, <2>1, <2>2, <2>3, GenerationTypes DEF RecoverStopped, TypeOK, host,
      store, sup, budget
<1>10. CASE StoppedFound
  BY <1>10, EmitThenTypes, RefTypes DEF StoppedFound, TypeOK, host, watch,
    sched, store, sup, budget, Pcs, States, Snapshots
<1>11. CASE StoppedGone
  BY <1>11, EmitThenTypes, RefTypes DEF StoppedGone, TypeOK, host, watch,
    sched, store, sup, budget, Pcs, States, Snapshots
<1>12. CASE StoppedUnverified
  BY <1>12, EmitThenTypes, RefTypes DEF StoppedUnverified, Slow, TypeOK,
    host, watch, sched, store, sup, budget, Pcs, States, Snapshots
<1>13. CASE RecoverStopping
  BY <1>13, TerminateTypes DEF RecoverStopping, Written, TypeOK, host, ident,
    phase, watch, sched, store, sup, budget, Pcs
<1>14. CASE RecoverKilled
  BY <1>14, EmitThenTypes, GenerationTypes, RefTypes DEF RecoverKilled,
    ClearAdopted, TypeOK, host, sched, store, sup, budget, Pcs, States
<1>15. CASE RecoverKillFails
  BY <1>15, EmitThenTypes, BoundsAssumption DEF RecoverKillFails, Fault,
    TypeOK, host, ident, watch, sched, store, sup, Pcs, States
<1> QED BY <1>1, <1>2, <1>3, <1>4, <1>5, <1>6, <1>7, <1>8, <1>9, <1>10, <1>11, <1>12,
  <1>13, <1>14, <1>15 DEF RecoverNext

LEMMA TypesStart == ASSUME TypeOK, MonitorInv, StartNext PROVE TypeOK'
<1>1. CASE Start
  BY <1>1, GoTypes, ProbeTypes, TerminateTypes, PortTypes, GenerationTypes,
    RefTypes DEF Start, ClearAdopted, TypeOK, host, ident, watch, store, sup,
    budget, Pcs, Results
<1>2. CASE StartProbe
  BY <1>2, GoTypes, EmitThenTypes DEF StartProbe, TypeOK, host, ident, watch,
    sched, store, sup, budget, Pcs, Results, States
<1>3. CASE StartAdopted
  BY <1>3, GoTypes, GenerationTypes DEF StartAdopted, Written, TypeOK, host,
    ident, phase, sched, store, sup, budget, Pcs, Results
<1>4. CASE StartReplaced
  BY <1>4, GoTypes, PortTypes, RefTypes, BoundsAssumption DEF StartReplaced,
    Fault, TypeOK, host, ident, phase, watch, sched, store, sup, budget, Pcs,
    Results
<1>5. CASE StartOccupied
  BY <1>5, EmitThenTypes DEF StartOccupied, TypeOK, host, ident, watch,
    sched, store, sup, budget, Pcs, States
<1>6. CASE StartReserve
  BY <1>6, EmitThenTypes, RefTypes, BoundsAssumption DEF StartReserve,
    TypeOK, watch, sched, store, sup, budget, Pcs, States, Ref
<1>7. CASE StartReserveFails
  BY <1>7, GoTypes, RefTypes DEF StartReserveFails, ScheduleRestart,
    Rejected, TypeOK, host, watch, store, sup, budget, Pcs, Results, States
<1>8. CASE StartSpawn
  BY <1>8, TStartSpawn
<1>9. CASE StartSpawnFails
  BY <1>9, GoTypes, EmitTypes, GenerationTypes, RefTypes, BoundsAssumption
    DEF StartSpawnFails, Fault, ScheduleRestart, Written, TypeOK, host,
    watch, store, sup, Pcs, Results, States, Writers
<1>10. CASE StartPublished
  BY <1>10, GoTypes DEF StartPublished, Written, TypeOK, host, ident, phase,
    watch, sched, store, sup, budget, Pcs, Results
<1>11. CASE StartReady
  BY <1>11, EmitThenTypes, GenerationTypes DEF StartReady, TypeOK, host,
    ident, sched, store, sup, budget, Pcs, States
<1>12. CASE StartNotReady
  BY <1>12, GoTypes, TerminateTypes DEF StartNotReady, Slow, TypeOK, host,
    ident, phase, watch, sched, store, sup, budget, Pcs, Results
<1>13. CASE StartUnwritten
  BY <1>13, GoTypes, TerminateTypes DEF StartUnwritten, Rejected, TypeOK,
    host, ident, phase, watch, sched, store, sup, budget, Pcs, Results
<1>14. CASE StartCleaned
  BY <1>14, GoTypes, RefTypes DEF StartCleaned, TypeOK, host, ident, phase,
    watch, sched, store, sup, budget, Pcs, Results
<1>15. CASE StartCleanupFails
  BY <1>15, GoTypes, EmitTypes, RefTypes, BoundsAssumption DEF
    StartCleanupFails, Fault, ScheduleRestart, TypeOK, host, ident, watch,
    store, sup, Pcs, Results, States, Writers
<1> QED BY <1>1, <1>2, <1>3, <1>4, <1>5, <1>6, <1>7, <1>8, <1>9, <1>10, <1>11, <1>12,
  <1>13, <1>14, <1>15 DEF StartNext

LEMMA TypesStop == ASSUME TypeOK, MonitorInv, StopNext PROVE TypeOK'
<1>1. CASE Stop
  BY <1>1, EmitThenTypes, EmitForTypes, GenerationTypes DEF Stop, Written,
    TypeOK, host, ident, store, sup, budget, Pcs, States
<1>2. CASE StopAdopted
  BY <1>2, ProbeTypes, RefTypes, TargetTypes DEF StopAdopted, Written,
    TypeOK, host, ident, phase, watch, sched, store, sup, budget, Pcs
<1>3. CASE StopProbe
  BY <1>3, TerminateTypes, EmitThenTypes, RefTypes, TargetTypes DEF
    StopProbe, TypeOK, host, ident, watch, sched, store, sup, budget, Pcs,
    States
<1>4. CASE StopKilled
  BY <1>4, EmitThenTypes, GenerationTypes, RefTypes DEF StopKilled,
    ClearAdopted, TypeOK, host, sched, store, sup, budget, Pcs, States
<1>5. CASE StopFails
  BY <1>5, EmitThenTypes, RefTypes, BoundsAssumption DEF StopFails, Fault,
    Rejected, TypeOK, host, ident, watch, sched, store, sup, budget, Pcs,
    States
<1>6. CASE StopChild
  BY <1>6, TerminateTypes, RefTypes, TargetTypes DEF StopChild, Written,
    TypeOK, host, ident, phase, watch, sched, store, sup, budget, Pcs
<1>7. CASE StopTerminated
  BY <1>7, EmitThenTypes, RefTypes DEF StopTerminated, TypeOK, host, ident,
    watch, sched, store, sup, budget, Pcs, States
<1>8. CASE Restart
  BY <1>8, EmitThenTypes DEF Restart, TypeOK, host, ident, watch, sched,
    store, sup, budget, Pcs, States
<1>9. CASE Preserve
  BY <1>9, EmitThenTypes, GenerationTypes DEF Preserve, TypeOK, host, ident,
    phase, store, sup, budget, Pcs
<1>10. CASE LastWrite
  BY <1>10, GoTypes DEF LastWrite, TypeOK, host, ident, phase, watch, sched,
    store, sup, budget, Pcs, Results
<1> QED BY <1>1, <1>2, <1>3, <1>4, <1>5, <1>6, <1>7, <1>8, <1>9, <1>10 DEF StopNext

LEMMA TypesMonitor == ASSUME TypeOK, MonitorInv, MonitorNext PROVE TypeOK'
<1>1. CASE OwnedTick
  BY <1>1, TOwnedTick
<1>2. CASE OwnedChecked
  BY <1>2, TOwnedChecked
<1>3. CASE OwnedKill
  BY <1>3, GoTypes, EmitForTypes, InstTypes DEF OwnedKill, OwnedCurrent,
    TypeOK, host, ident, watch, sched, store, sup, budget, Pcs, Results,
    States
<1>4. CASE OwnedTerminate
  BY <1>4, TerminateTypes, RefTypes, TargetTypes DEF OwnedTerminate, Written,
    TypeOK, host, ident, phase, watch, sched, store, sup, budget, Pcs
<1>5. CASE OwnedTerminated
  BY <1>5, GoTypes, RefTypes DEF OwnedTerminated, TypeOK, host, ident, phase,
    watch, sched, store, sup, budget, Pcs, Results
<1>6. CASE OwnedKillFails
  BY <1>6, EmitThenTypes, RefTypes, BoundsAssumption DEF OwnedKillFails,
    Fault, TypeOK, host, ident, phase, watch, sched, store, sup, Pcs
<1>7. CASE OwnedRetry
  BY <1>7, GoTypes DEF OwnedRetry, ScheduleRestart, Written, TypeOK, host,
    ident, phase, watch, store, sup, budget, Pcs, Results
<1>8. CASE AdoptedTick
  BY <1>8, TAdoptedTick
<1>9. CASE AdoptedChecked
  BY <1>9, TAdoptedChecked
<1>10. CASE AdoptedTold
  BY <1>10, TAdoptedTold
<1>11. CASE AdoptedStop
  BY <1>11, GoTypes, EmitForTypes, InstTypes DEF AdoptedStop, AdoptedCurrent,
    TypeOK, host, ident, watch, sched, store, sup, budget, Pcs, Results,
    States
<1>12. CASE AdoptedTerminate
  BY <1>12, TerminateTypes, RefTypes, TargetTypes DEF AdoptedTerminate,
    Written, TypeOK, host, ident, phase, watch, sched, store, sup, budget,
    Pcs
<1>13. CASE AdoptedKilled
  BY <1>13, EmitThenTypes, GenerationTypes, RefTypes DEF AdoptedKilled,
    ClearAdopted, TypeOK, host, sched, store, sup, budget, Pcs, States
<1>14. CASE AdoptedKillFails
  BY <1>14, EmitThenTypes, BoundsAssumption DEF AdoptedKillFails, Fault,
    Rejected, TypeOK, host, ident, watch, sched, store, sup, budget, Pcs,
    States
<1> QED BY <1>1, <1>2, <1>3, <1>4, <1>5, <1>6, <1>7, <1>8, <1>9, <1>10, <1>11, <1>12,
  <1>13, <1>14 DEF MonitorNext

LEMMA TypesEvent == ASSUME TypeOK, MonitorInv, EventNext PROVE TypeOK'
<1>1. CASE ExitEvent
  BY <1>1, EmitTypes, GenerationTypes, RefTypes DEF ExitEvent,
    ScheduleRestart, TypeOK, host, store, sup, budget, Pcs, States, Writers
<1>2. CASE TimerFires
  BY <1>2, QueueTypes DEF TimerFires, TypeOK, host, ident, phase, watch,
    store, sup, budget, Kinds
<1>3. CASE Begin
  BY <1>3, TBegin
<1>4. CASE Settle
  BY <1>4, EmitTypes, ConstantTypes DEF Settle, ScheduleRestart, TypeOK,
    host, ident, phase, sched, store, budget, Pcs, Writers, Kinds
<1>5. CASE Shutdown
  BY <1>5, GenerationTypes, QueueTypes, BoundsAssumption DEF Shutdown,
    TypeOK, host, ident, phase, store, Kinds
<1>6. CASE WriteStatus
  BY <1>6, TWriteStatus
<1>7. CASE WriteFails
  BY <1>7, TWriteFails
<1>8. CASE OtherWrite
  BY <1>8, TOtherWrite
<1>9. CASE \E k \in Commands : Command(k)
  BY <1>9, TCommand
<1> QED BY <1>1, <1>2, <1>3, <1>4, <1>5, <1>6, <1>7, <1>8, <1>9 DEF EventNext

LEMMA TypesBoot == ASSUME TypeOK, Boot PROVE TypeOK'
<1>1. op' \in Ops /\ prev' \in Snapshots
  BY RefTypes DEF Boot, TypeOK, Ops, Pcs, Results
<1> QED
  BY <1>1 DEF Boot, TypeOK, host, ident, phase, watch, sched, store, budget

LEMMA TypesHost == ASSUME TypeOK, HostNext PROVE TypeOK'
  BY BoundsAssumption DEF HostNext, Listen, PortTaken, Die, Hang, Unhang, Killed, Fault,
     TypeOK, ident, phase, watch, sched, sup, store, budget

-----------------------------------------------------------------------------
(* The monitor                                                             *)

LEMMA SameMonitor == ASSUME MonitorInv, UNCHANGED watch PROVE MonitorInv'
  BY DEF MonitorInv, watch

LEMMA NewMonitor == ASSUME TypeOK, MonitorInv, NEW m, NewGeneration(m) PROVE MonitorInv'
<1>1. /\ ochk'.fresh = FALSE /\ achk'.fresh = FALSE
      /\ achk'.ph = achk.ph /\ achk'.inst = achk.inst
  BY DEF NewGeneration, TypeOK, Checks
<1>2. mon' = "owned" => misses' < Threshold
  BY BoundsAssumption DEF NewGeneration
<1> QED BY <1>1, <1>2 DEF MonitorInv

LEMMA MonitorRecover == ASSUME TypeOK, MonitorInv, RecoverNext PROVE MonitorInv'
<1>1. CASE Recover
  BY <1>1, SameMonitor DEF Recover
<1>2. CASE AdoptProbe
  BY <1>2, SameMonitor DEF AdoptProbe
<1>3. CASE Adopted
  BY <1>3, NewMonitor DEF Adopted
<1>4. CASE IdentityFound
  BY <1>4, SameMonitor DEF IdentityFound
<1>5. CASE IdentityGone
  BY <1>5, SameMonitor DEF IdentityGone
<1>6. CASE IdentityAbsent
  BY <1>6, SameMonitor DEF IdentityAbsent
<1>7. CASE IdentityUnverified
  BY <1>7, SameMonitor DEF IdentityUnverified
<1>8. CASE RecoverRefuse
  BY <1>8, NewMonitor DEF RecoverRefuse
<1>9. CASE RecoverStopped
  BY <1>9, NewMonitor DEF RecoverStopped
<1>10. CASE StoppedFound
  BY <1>10, SameMonitor DEF StoppedFound
<1>11. CASE StoppedGone
  BY <1>11, SameMonitor DEF StoppedGone
<1>12. CASE StoppedUnverified
  BY <1>12, SameMonitor DEF StoppedUnverified
<1>13. CASE RecoverStopping
  BY <1>13, SameMonitor DEF RecoverStopping
<1>14. CASE RecoverKilled
  BY <1>14, NewMonitor DEF RecoverKilled
<1>15. CASE RecoverKillFails
  BY <1>15, SameMonitor DEF RecoverKillFails
<1> QED BY <1>1, <1>2, <1>3, <1>4, <1>5, <1>6, <1>7, <1>8, <1>9, <1>10, <1>11, <1>12,
  <1>13, <1>14, <1>15 DEF RecoverNext

LEMMA MonitorStart == ASSUME TypeOK, MonitorInv, StartNext PROVE MonitorInv'
<1>1. CASE Start
  BY <1>1, SameMonitor, NewMonitor DEF Start, ClearAdopted
<1>2. CASE StartProbe
  BY <1>2, SameMonitor DEF StartProbe
<1>3. CASE StartAdopted
  BY <1>3, NewMonitor DEF StartAdopted
<1>4. CASE StartReplaced
  BY <1>4, SameMonitor DEF StartReplaced
<1>5. CASE StartOccupied
  BY <1>5, SameMonitor DEF StartOccupied
<1>6. CASE StartReserve
  BY <1>6, SameMonitor DEF StartReserve
<1>7. CASE StartReserveFails
  BY <1>7, SameMonitor DEF StartReserveFails
<1>8. CASE StartSpawn
  BY <1>8, SameMonitor DEF StartSpawn
<1>9. CASE StartSpawnFails
  BY <1>9, SameMonitor, NewMonitor DEF StartSpawnFails
<1>10. CASE StartPublished
  BY <1>10, SameMonitor DEF StartPublished
<1>11. CASE StartReady
  BY <1>11, NewMonitor DEF StartReady
<1>12. CASE StartNotReady
  BY <1>12, SameMonitor DEF StartNotReady
<1>13. CASE StartUnwritten
  BY <1>13, SameMonitor DEF StartUnwritten
<1>14. CASE StartCleaned
  BY <1>14, SameMonitor DEF StartCleaned
<1>15. CASE StartCleanupFails
  BY <1>15, SameMonitor DEF StartCleanupFails
<1> QED BY <1>1, <1>2, <1>3, <1>4, <1>5, <1>6, <1>7, <1>8, <1>9, <1>10, <1>11, <1>12,
  <1>13, <1>14, <1>15 DEF StartNext

LEMMA MonitorStop == ASSUME TypeOK, MonitorInv, StopNext PROVE MonitorInv'
<1>1. CASE Stop
  BY <1>1, NewMonitor DEF Stop
<1>2. CASE StopAdopted
  BY <1>2, SameMonitor DEF StopAdopted
<1>3. CASE StopProbe
  BY <1>3, SameMonitor DEF StopProbe
<1>4. CASE StopKilled
  BY <1>4, NewMonitor DEF StopKilled
<1>5. CASE StopFails
  BY <1>5, SameMonitor DEF StopFails
<1>6. CASE StopChild
  BY <1>6, SameMonitor DEF StopChild
<1>7. CASE StopTerminated
  BY <1>7, SameMonitor DEF StopTerminated
<1>8. CASE Restart
  BY <1>8, SameMonitor DEF Restart
<1>9. CASE Preserve
  BY <1>9, NewMonitor DEF Preserve
<1>10. CASE LastWrite
  BY <1>10, SameMonitor DEF LastWrite
<1> QED BY <1>1, <1>2, <1>3, <1>4, <1>5, <1>6, <1>7, <1>8, <1>9, <1>10 DEF StopNext

LEMMA MonitorMonitor == ASSUME TypeOK, MonitorInv, MonitorNext PROVE MonitorInv'
<1>1. CASE OwnedTick
  BY <1>1 DEF OwnedTick, MonitorInv
<1>2. CASE OwnedChecked
  <2>1. ochk' = NoCheck \/ ochk'.ph = "queued"
    BY <1>2 DEF OwnedChecked, TypeOK, Checks
  <2>2. mon' = "owned" => misses' < Threshold
    BY <1>2, BoundsAssumption DEF OwnedChecked, MonitorInv
  <2>3. mon' = "adopted" <=> mon = "adopted"
    BY <1>2 DEF OwnedChecked, OwnedCurrent, MonitorInv
  <2> QED BY <1>2, <2>1, <2>2, <2>3 DEF OwnedChecked, MonitorInv, NoCheck
<1>3. CASE OwnedKill
  BY <1>3, SameMonitor DEF OwnedKill
<1>4. CASE OwnedTerminate
  BY <1>4, SameMonitor DEF OwnedTerminate
<1>5. CASE OwnedTerminated
  BY <1>5, SameMonitor DEF OwnedTerminated
<1>6. CASE OwnedKillFails
  BY <1>6, SameMonitor DEF OwnedKillFails
<1>7. CASE OwnedRetry
  BY <1>7, SameMonitor DEF OwnedRetry
<1>8. CASE AdoptedTick
  <2>1. CASE Live(adopted)
    BY <1>8, <2>1 DEF AdoptedTick, MonitorInv
  <2>2. CASE ~Live(adopted)
    BY <1>8, <2>2 DEF AdoptedTick, MonitorInv, TypeOK, Checks
  <2> QED BY <2>1, <2>2
<1>9. CASE AdoptedChecked
  <2>1. \/ achk' = NoCheck
        \/ /\ achk'.ph \in {"queued", "told"} /\ achk.ph = "probe"
           /\ achk'.inst = achk.inst
    BY <1>9 DEF AdoptedChecked, TypeOK, Checks
  <2>2. mon = "owned" => misses' = misses
    BY <1>9 DEF AdoptedChecked, AdoptedCurrent, MonitorInv
  <2> QED BY <1>9, <2>1, <2>2 DEF AdoptedChecked, MonitorInv, NoCheck
<1>10. CASE AdoptedTold
  BY <1>10 DEF AdoptedTold, MonitorInv, NoCheck
<1>11. CASE AdoptedStop
  BY <1>11, SameMonitor DEF AdoptedStop
<1>12. CASE AdoptedTerminate
  BY <1>12, SameMonitor DEF AdoptedTerminate
<1>13. CASE AdoptedKilled
  BY <1>13, NewMonitor DEF AdoptedKilled
<1>14. CASE AdoptedKillFails
  BY <1>14, SameMonitor DEF AdoptedKillFails
<1> QED BY <1>1, <1>2, <1>3, <1>4, <1>5, <1>6, <1>7, <1>8, <1>9, <1>10, <1>11, <1>12,
  <1>13, <1>14 DEF MonitorNext

LEMMA MonitorEvent == ASSUME TypeOK, MonitorInv, EventNext PROVE MonitorInv'
<1>1. CASE ExitEvent
  BY <1>1, NewMonitor DEF ExitEvent
<1>2. CASE TimerFires
  BY <1>2, SameMonitor DEF TimerFires
<1>3. CASE Begin
  BY <1>3, SameMonitor DEF Begin
<1>4. CASE Settle
  BY <1>4 DEF Settle, MonitorInv, NoCheck
<1>5. CASE Shutdown
  BY <1>5, NewMonitor DEF Shutdown
<1>6. CASE WriteStatus
  <2>1. achk'.ph = achk.ph /\ achk'.fresh = achk.fresh /\ achk'.inst = achk.inst
    BY <1>6 DEF WriteStatus, Tell, TypeOK, Checks
  <2> QED BY <1>6, <2>1 DEF WriteStatus, Tell, MonitorInv
<1>7. CASE WriteFails
  <2>1. achk'.ph = achk.ph /\ achk'.fresh = achk.fresh /\ achk'.inst = achk.inst
    BY <1>7 DEF WriteFails, Tell, TypeOK, Checks
  <2> QED BY <1>7, <2>1 DEF WriteFails, Tell, MonitorInv
<1>8. CASE OtherWrite
  BY <1>8, SameMonitor DEF OtherWrite
<1>9. CASE \E k \in Commands : Command(k)
  BY <1>9, SameMonitor DEF Command
<1> QED BY <1>1, <1>2, <1>3, <1>4, <1>5, <1>6, <1>7, <1>8, <1>9 DEF EventNext

LEMMA TypesNext == ASSUME TypeOK, MonitorInv, [Next]_vars PROVE TypeOK' /\ MonitorInv'
<1>1. CASE RecoverNext
  BY <1>1, TypesRecover, MonitorRecover
<1>2. CASE StartNext
  BY <1>2, TypesStart, MonitorStart
<1>3. CASE StopNext
  BY <1>3, TypesStop, MonitorStop
<1>4. CASE MonitorNext
  BY <1>4, TypesMonitor, MonitorMonitor
<1>5. CASE EventNext
  BY <1>5, TypesEvent, MonitorEvent
<1>6. CASE Crash \/ Exit
  <2>1. MonitorInv'
    BY <1>6 DEF Crash, Exit, Forget, MonitorInv, NoCheck
  <2> QED BY <1>6, <2>1, TCrash, TExit
<1>7. CASE Boot
  BY <1>7, TypesBoot, SameMonitor DEF Boot
<1>8. CASE HostNext
  BY <1>8, TypesHost, SameMonitor DEF HostNext
<1>9. CASE UNCHANGED vars
  BY <1>9, SameMonitor DEF TypeOK, vars, host, ident, phase, watch, sched, store, sup, budget
<1> QED BY <1>1, <1>2, <1>3, <1>4, <1>5, <1>6, <1>7, <1>8, <1>9 DEF Next

LEMMA TypesInit == Init => TypeOK /\ MonitorInv
<1> SUFFICES ASSUME Init PROVE TypeOK /\ MonitorInv
  OBVIOUS
<1>1. 0 \in 0..MaxFaults /\ 0 \in 0..MaxCommands /\ os \in [Inst -> {"none", "booting", "serving", "hung", "dead"}]
  BY BoundsAssumption DEF Init
<1>2. lq \in Seq(Kinds) /\ sq \in Seq(Entries)
  BY DEF Init
<1> QED
  BY <1>1, <1>2, ConstantTypes, RefTypes DEF Init, TypeOK, MonitorInv, NoCheck, States

\* Every field of the controller, of the durable slot and of the host keeps its
\* type, however the segments, events, writes and crashes interleave.  A failed
\* check never counts past the threshold because the interval that counts it
\* ends with the generation (MonitorInv).
THEOREM TypeCorrect == Spec => []TypeOK
<1>1. TypeOK /\ MonitorInv /\ [Next]_vars => (TypeOK /\ MonitorInv)'
  BY TypesNext
<1> QED BY TypesInit, <1>1, PTL DEF Spec
=============================================================================
