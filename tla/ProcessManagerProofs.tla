------------------------- MODULE ProcessManagerProofs -------------------------
(***************************************************************************)
(* What module ProcessManager promises, proved for any finite set of       *)
(* processes, both spawn strategies, any restart policy and limit and any  *)
(* number of faults.                                                       *)
(*                                                                         *)
(* The invariants of its runs are not inductive.  SafeInv names the one    *)
(* Owner the service has at every step and keeps every other live process  *)
(* among those given up: a spawn excludes a managed process, and the row   *)
(* knows the process of a spawn from the moment its pid is known.          *)
(* LimitInv is a budget: the automatic spawns so far, those the child of   *)
(* today has left and those the reaper may still grant never exceed what   *)
(* max_restart gives; a start that will be refused and a restart that a    *)
(* start has overtaken do not count.  Types first, then the owner, then    *)
(* the budget, each by one lemma per action.                               *)
(***************************************************************************)
EXTENDS ProcessManager, Integers, TLAPS

\* Who runs the service: the process in memory or being spawned, and while
\* there is no supervisor the one in the row.
Owner ==
    IF up = "down" THEN row.pid
    ELSE IF processes # NoChild THEN processes.inst
    ELSE IF adopted # None THEN adopted ELSE spawn.inst

\* Without a supervisor there is no memory.
DownInv ==
    up = "down" =>
        /\ processes = NoChild /\ adopted = None /\ desired = "none" /\ holder = "none"
        /\ timer = NoTimer /\ spawn = NoSpawn /\ auto = NoAuto /\ cmd = NoCmd /\ retry = 0

\* The operation of the queue: which steps belong to which kind.
CmdInv ==
    /\ cmd.pc = "idle" \/ cmd.kind = "none" => cmd = NoCmd
    /\ cmd.pc \in {"killwait", "term", "verify", "tree"} => cmd.kind \in {"stop", "restart"}
    /\ cmd.pc = "settle" => cmd.kind \in {"start", "restart", "reap"}
    /\ cmd.pc = "validate" => cmd.kind \in {"start", "restart", "reap", "status"}
    /\ cmd.pc \in {"env", "spawn"} => cmd.kind \in {"start", "restart", "reap", "autostart"}
    /\ cmd.pc = "check" => cmd.kind = "reap"
    /\ cmd.pc = "port" => cmd.kind = "kill-port"

\* A stop has withdrawn the wish, and from its first signal on nothing is
\* being spawned.
KillInv ==
    /\ cmd.pc \in {"killwait", "term", "verify", "tree"} => desired = "stopped"
    /\ cmd.pc \in {"term", "verify", "tree"} => spawn = NoSpawn
    /\ cmd.pc = "term" => adopted = None
    /\ cmd.pc \in {"verify", "tree"} => processes = NoChild /\ adopted # None

\* One spawn at a time, by the operation or by the automatic restart, and only
\* while nothing is managed; from its first process on the row knows it.
SpawnInv ==
    /\ spawn.by = "none" \/ spawn.pc = "none" => spawn = NoSpawn
    /\ spawn.pc \in {"none", "port", "prep"} => spawn.inst = None
    /\ spawn.pc \in {"wait", "verify", "cancel"} => spawn.inst # None /\ row.pid = spawn.inst
    /\ spawn.pc = "wait" => ~outside
    /\ spawn.pc \in {"launch", "verify"} => outside
    /\ spawn.pc = "cancel" => ~Current(spawn.by)
    /\ Reserved => ~Managed /\ timer = NoTimer
    /\ spawn.by = "auto" <=> auto.pc = "spawn"
    /\ spawn.by = "cmd" <=> cmd.pc = "spawn"
    /\ spawn.by = "cmd" /\ up = "up" => desired = "running" /\ holder = "cmd"

\* When autostart runs, nothing else has happened since the boot.
BootInv ==
    cmd.kind = "autostart" /\ cmd.pc = "env" =>
        /\ ~Managed /\ ~Reserved /\ timer = NoTimer /\ auto = NoAuto
        /\ desired = "none" /\ holder = "none" /\ retry = 0 /\ autos = 0

\* A child or an adopted process, not both, and the row says which.
ManageInv ==
    /\ processes = NoChild \/ (processes.inst # None /\ adopted = None /\ ~outside)
    /\ Managed => row.pid = IF processes # NoChild THEN processes.inst ELSE adopted

\* The automatic restart goes on only while it is wanted and nothing else runs.
AutoInv ==
    /\ timer # NoTimer => /\ ~Managed /\ ~Reserved /\ up = "up" /\ desired = "running"
                          /\ timer < MaxRestart /\ ~outside /\ Policy # "no"
                          /\ (holder = "auto" => auto.pc = "idle")
    /\ holder = "auto" => up = "up" /\ desired = "running"
    /\ holder = "auto" /\ Managed => auto.pc = "idle"
    /\ holder = "auto" /\ auto.pc = "build" => ~Reserved
    /\ auto.pc # "idle" => ~outside /\ auto.count < MaxRestart /\ Policy # "no"

\* Of the live processes only the owner has not been given up.
LiveInv ==
    /\ lost \subseteq live
    /\ up # "down" => Owner \notin lost
    /\ live \ lost \subseteq {Owner}

\* After a stop nothing is left that could start the service.
StopInv ==
    answer = "stopped" =>
        cmd = NoCmd /\ desired # "running" /\ spawn = NoSpawn /\ live \ lost = {}

\* Automatic restarts the child of today has left.
Left ==
    IF outside THEN 0
    ELSE IF timer # NoTimer THEN MaxRestart - timer
    ELSE IF auto.pc = "build" /\ holder = "auto" THEN MaxRestart - auto.count
    ELSE IF Reserved THEN MaxRestart - spawn.count
    ELSE IF processes # NoChild THEN MaxRestart - processes.count ELSE 0
\* The reaper has counted a restart and not spawned yet.
Pending == IF cmd.kind = "reap" /\ cmd.pc \in {"settle", "validate", "env"} THEN MaxRestart + 1 ELSE 0
\* The spawns that r restarts of the reaper leave to it.
Allowed(r) == (MaxRestart - r) * (MaxRestart + 1)
\* A start that has found nothing and will find something: it will be refused.
Refused == retry = 0 /\ cmd.kind = "start" /\ cmd.pc = "env"

\* The reaper works for a wish, and its count says so.
ReapInv ==
    /\ up = "up" /\ cmd.kind = "reap" =>
           desired = "running" /\ (retry > 0 \/ (cmd.pc = "check" /\ adopted # None))
    /\ Policy = "no" => retry = 0 /\ autos = 0 /\ (cmd.kind = "reap" => cmd.pc = "check")
\* The budget: what has been spent, what the child of today has left, and what
\* the reaper may still grant.
BudgetInv ==
    up = "up" /\ desired = "running" =>
        IF retry > 0 \/ adopted # None
        THEN autos + Left + Pending + Allowed(retry) <= Allowed(0) \/ Refused
        ELSE autos + Left <= IF outside THEN 0 ELSE MaxRestart
\* A start that has to wake the service has just been asked for.
FreshInv ==
    up = "up" /\ desired # "running" /\ cmd.kind = "start" /\ cmd.pc \in {"settle", "validate"}
        => autos = 0
\* An automatic restart that a start has overtaken does not count.
OvertakenInv ==
    spawn.by = "auto" /\ holder # "auto" /\ up = "up" /\ desired = "running" /\ retry = 0
        => autos = 0 \/ Refused
LimitInv == autos <= Allowed(0) /\ BudgetInv /\ FreshInv /\ OvertakenInv

\* One owner at most, whatever steps overlap.
SafeInv ==
    /\ DownInv /\ CmdInv /\ KillInv /\ SpawnInv /\ BootInv /\ ManageInv /\ AutoInv
    /\ LiveInv /\ StopInv

IInv == TypeOK /\ SafeInv /\ ReapInv /\ LimitInv

-----------------------------------------------------------------------------
(* The records of the state                                                *)

\* The empty records, and what they say of the fields.
LEMMA Nothing ==
    /\ NoChild.inst = None /\ NoChild.count = 0 /\ NoChild.intentional = FALSE
    /\ NoSpawn.by = "none" /\ NoSpawn.pc = "none" /\ NoSpawn.inst = None /\ NoSpawn.count = 0
    /\ NoAuto.pc = "idle" /\ NoAuto.count = 0
    /\ NoCmd.kind = "none" /\ NoCmd.pc = "idle" /\ NoCmd.cancels = FALSE
BY DEF NoChild, NoSpawn, NoAuto, NoCmd

\* The types of the parts of the memory, by field.
LEMMA Fields ==
    ASSUME TypeOK
    PROVE  /\ processes.inst \in Insts \cup {None} /\ processes.count \in 0..MaxRestart
           /\ processes.intentional \in BOOLEAN
           /\ spawn.by \in {"none", "cmd", "auto"} /\ spawn.inst \in Insts \cup {None}
           /\ spawn.count \in 0..MaxRestart
           /\ spawn.pc \in {"none", "port", "prep", "launch", "wait", "verify", "cancel"}
           /\ auto.pc \in {"idle", "build", "spawn"} /\ auto.count \in 0..MaxRestart
           /\ row.pid \in Insts \cup {None} /\ timer \in 0..NoTimer
           /\ NoTimer = MaxRestart + 1 /\ NoTimer \in Nat
           /\ cmd.kind \in {"none", "start", "stop", "restart", "reap", "autostart", "status", "kill-port"}
<1>1. /\ processes.inst \in Insts \cup {None} /\ processes.count \in 0..MaxRestart
      /\ processes.intentional \in BOOLEAN
    BY DEF TypeOK
<1>2. /\ spawn.by \in {"none", "cmd", "auto"} /\ spawn.inst \in Insts \cup {None}
      /\ spawn.count \in 0..MaxRestart
      /\ spawn.pc \in {"none", "port", "prep", "launch", "wait", "verify", "cancel"}
    BY DEF TypeOK
<1>3. auto.pc \in {"idle", "build", "spawn"} /\ auto.count \in 0..MaxRestart /\ row.pid \in Insts \cup {None}
    BY DEF TypeOK
<1>4. timer \in 0..NoTimer /\ NoTimer = MaxRestart + 1 /\ NoTimer \in Nat
    BY ProcessAssumption DEF TypeOK, NoTimer
<1>5. cmd.kind \in {"none", "start", "stop", "restart", "reap", "autostart", "status", "kill-port"}
    BY DEF TypeOK
<1> QED BY <1>1, <1>2, <1>3, <1>4, <1>5

\* The typed parts of the state that steps replace as a whole.
TypeMemory ==
    /\ processes \in [inst : Insts \cup {None}, count : 0..MaxRestart, intentional : BOOLEAN]
    /\ adopted \in Insts \cup {None}
    /\ retry \in 0..MaxRestart
    /\ row \in [state : {"stopped", "pending", "running", "crashed"}, pid : Insts \cup {None}]
TypeWorld ==
    /\ outside \in BOOLEAN /\ live \subseteq Insts /\ up \in {"up", "closing", "down"}
    /\ raised \in BOOLEAN /\ lost \subseteq Insts /\ faults \in 0..MaxFaults
TypeControl ==
    /\ desired \in {"none", "running", "stopped"} /\ holder \in {"none", "cmd", "auto"}
    /\ timer \in 0..NoTimer
    /\ auto \in [pc : {"idle", "build", "spawn"}, count : 0..MaxRestart]
    /\ answer \in {"none", "ok", "stopped", "failed", "pruned"}
    /\ autos \in Nat
TypeSpawn ==
    spawn \in [by : {"none", "cmd", "auto"}, inst : Insts \cup {None}, count : 0..MaxRestart,
               pc : {"none", "port", "prep", "launch", "wait", "verify", "cancel"}]
TypeCmd ==
    cmd \in [kind : {"none", "start", "stop", "restart", "reap", "autostart", "status", "kill-port"}, cancels : BOOLEAN,
             pc : {"idle", "settle", "validate", "env", "spawn", "check", "port",
                   "killwait", "term", "verify", "tree"}]
Types == TypeMemory /\ TypeWorld /\ TypeControl /\ TypeSpawn /\ TypeCmd

\* TypeOK by parts.
LEMMA TypesAgree == TypeOK <=> Types
BY DEF TypeOK, Types, TypeMemory, TypeWorld, TypeControl, TypeSpawn, TypeCmd

\* A fault is counted.
LEMMA FaultTypes ==
    ASSUME TypeWorld, NEW k, Fault(k)
    PROVE  faults' \in 0..MaxFaults
BY ProcessAssumption DEF TypeWorld, Fault

\* Asking for an identity costs a fault at most.
LEMMA IdentityTypes ==
    ASSUME TypeWorld, NEW i, NEW result, Identity(i, result)
    PROVE  faults' \in 0..MaxFaults
BY FaultTypes DEF Identity, TypeWorld

\* What a row may hold.
LEMMA RowTypes ==
    ASSUME NEW s \in {"stopped", "pending", "running", "crashed"}, NEW p \in Insts \cup {None}, Row(s, p)
    PROVE  /\ row' \in [state : {"stopped", "pending", "running", "crashed"}, pid : Insts \cup {None}]
           /\ row'.pid = p /\ row'.state = s
BY DEF Row

\* A new wish ends the timer.
LEMMA MarkTypes ==
    ASSUME NEW s \in {"none", "running", "stopped"}, NEW who \in {"none", "cmd", "auto"}, MarkDesired(s, who)
    PROVE  /\ desired' = s /\ holder' = who /\ timer' = NoTimer
           /\ desired' \in {"none", "running", "stopped"} /\ holder' \in {"none", "cmd", "auto"}
           /\ timer' \in 0..NoTimer
BY ProcessAssumption DEF MarkDesired, NoTimer

-----------------------------------------------------------------------------
(* What the helpers do                                                     *)

\* An operation that answers leaves the queue.
LEMMA Answers ==
    ASSUME NEW ok \in BOOLEAN, Answer(ok)
    PROVE  /\ cmd' = NoCmd /\ TypeCmd'
           /\ answer' \in {"ok", "stopped", "failed"}
           /\ answer' = "stopped" => ok /\ cmd.kind = "stop"
           /\ ~ok => answer' = "failed"
BY DEF Answer, TypeCmd, NoCmd

\* An operation goes to its next step.
LEMMA Moves ==
    ASSUME TypeCmd, NEW pc \in {"idle", "settle", "validate", "env", "spawn", "check", "port",
                                "killwait", "term", "verify", "tree"}, To(pc)
    PROVE  cmd'.pc = pc /\ cmd'.kind = cmd.kind /\ TypeCmd'
BY DEF To, TypeCmd

\* A spawn goes to its next step.
LEMMA Goes ==
    ASSUME TypeSpawn, NEW pc \in {"none", "port", "prep", "launch", "wait", "verify", "cancel"},
           SpawnGoes(pc)
    PROVE  /\ spawn'.pc = pc /\ spawn'.by = spawn.by /\ spawn'.inst = spawn.inst
           /\ spawn'.count = spawn.count /\ TypeSpawn'
           /\ UNCHANGED <<auto, cmd, desired, holder, timer, answer>>
BY DEF SpawnGoes, TypeSpawn

\* A spawn that fails ends the operation, or the automatic restart, it is for.
LEMMA Fails ==
    ASSUME Types, SettleFailed, spawn.by # "none"
    PROVE  /\ spawn' = NoSpawn /\ TypeSpawn'
           /\ auto' \in [pc : {"idle", "build", "spawn"}, count : 0..MaxRestart]
           /\ TypeCmd'
           /\ desired' \in {"none", "running", "stopped"} /\ holder' \in {"none", "cmd", "auto"}
           /\ timer' \in 0..NoTimer /\ answer' \in {"stopped", "failed"}
           /\ answer' = "stopped" => answer = "stopped"
           /\ spawn.by = "auto" => /\ auto' = NoAuto
                                   /\ UNCHANGED <<cmd, desired, holder, timer>>
           /\ spawn.by = "cmd" => auto' = auto /\ cmd' = NoCmd /\ answer' = "failed"
           /\ spawn.by = "cmd" /\ cmd.kind # "autostart"
                  => desired' = "stopped" /\ holder' = "none" /\ timer' = NoTimer
           /\ cmd.kind = "autostart" => desired' = desired /\ holder' = holder /\ timer' = timer
           /\ (desired' = desired /\ holder' = holder /\ timer' = timer) \/ (desired' = "stopped" /\ holder' = "none" /\ timer' = NoTimer)
<1>1. spawn.by \in {"cmd", "auto"}
    BY DEF Types, TypeSpawn
<1>2. spawn' = NoSpawn /\ TypeSpawn'
    BY ProcessAssumption DEF SettleFailed, NoSpawn, TypeSpawn
<1>3. CASE spawn.by = "auto"
  <2>1. auto' = NoAuto /\ Log /\ UNCHANGED <<cmd, desired, holder, timer>>
      BY <1>3 DEF SettleFailed
  <2>2. auto' \in [pc : {"idle", "build", "spawn"}, count : 0..MaxRestart]
      BY <2>1, ProcessAssumption DEF NoAuto
  <2>3. answer' \in {"stopped", "failed"} /\ (answer' = "stopped" => answer = "stopped")
      BY <2>1 DEF Log
  <2>4. /\ TypeCmd' /\ desired' \in {"none", "running", "stopped"}
        /\ holder' \in {"none", "cmd", "auto"} /\ timer' \in 0..NoTimer
      BY <2>1 DEF Types, TypeControl, TypeCmd
  <2> QED BY <1>2, <1>3, <2>1, <2>2, <2>3, <2>4
<1>4. CASE spawn.by = "cmd"
  <2>1. Answer(FALSE) /\ UNCHANGED auto
      BY <1>4 DEF SettleFailed
  <2>2. cmd' = NoCmd /\ TypeCmd' /\ answer' = "failed"
      BY <2>1, Answers
  <2>3. /\ cmd.kind # "autostart" => desired' = "stopped" /\ holder' = "none" /\ timer' = NoTimer
        /\ cmd.kind = "autostart" => desired' = desired /\ holder' = holder /\ timer' = timer
      BY <1>4 DEF SettleFailed, MarkDesired
  <2>4. NoTimer \in 0..NoTimer
      BY ProcessAssumption DEF NoTimer
  <2>5. /\ auto' \in [pc : {"idle", "build", "spawn"}, count : 0..MaxRestart]
        /\ desired' \in {"none", "running", "stopped"}
        /\ holder' \in {"none", "cmd", "auto"} /\ timer' \in 0..NoTimer
      BY <2>1, <2>3, <2>4 DEF Types, TypeControl
  <2>6. (desired' = desired /\ holder' = holder /\ timer' = timer) \/ (desired' = "stopped" /\ holder' = "none" /\ timer' = NoTimer)
      BY <2>3
  <2> QED BY <1>2, <1>4, <2>1, <2>2, <2>3, <2>5, <2>6
<1> QED BY <1>1, <1>3, <1>4

\* A spawn that ends well leaves the wish alone.
LEMMA Succeeds ==
    ASSUME Types, SettleOk, spawn.by # "none"
    PROVE  /\ spawn' = NoSpawn /\ TypeSpawn'
           /\ auto' \in [pc : {"idle", "build", "spawn"}, count : 0..MaxRestart]
           /\ TypeCmd' /\ UNCHANGED <<desired, holder, timer>>
           /\ spawn.by = "auto" => auto' = NoAuto /\ UNCHANGED <<cmd, answer>>
           /\ spawn.by = "cmd" => /\ auto' = auto /\ cmd' = NoCmd
                                  /\ answer' \in {"ok", "stopped", "failed"}
                                  /\ answer' = "stopped" => cmd.kind = "stop"
<1>1. spawn.by \in {"cmd", "auto"}
    BY DEF Types, TypeSpawn
<1>2. spawn' = NoSpawn /\ TypeSpawn' /\ UNCHANGED <<desired, holder, timer>>
    BY ProcessAssumption DEF SettleOk, NoSpawn, TypeSpawn
<1>3. CASE spawn.by = "auto"
  <2>1. auto' = NoAuto /\ UNCHANGED <<cmd, answer>>
      BY <1>3 DEF SettleOk
  <2>2. auto' \in [pc : {"idle", "build", "spawn"}, count : 0..MaxRestart]
      BY <2>1, ProcessAssumption DEF NoAuto
  <2> QED BY <1>2, <1>3, <2>1, <2>2 DEF Types, TypeCmd
<1>4. CASE spawn.by = "cmd"
  <2>1. Answer(TRUE) /\ UNCHANGED auto
      BY <1>4 DEF SettleOk
  <2> QED BY <1>2, <1>4, <2>1, Answers DEF Types, TypeControl
<1> QED BY <1>1, <1>3, <1>4

\* An operation begins its spawn, or is refused.
Begun ==
    /\ up = "up" /\ ~Reserved
    /\ desired' = "running" /\ holder' = "cmd" /\ timer' = NoTimer
    /\ spawn'.by = "cmd" /\ spawn'.pc = "port" /\ spawn'.inst = None /\ spawn'.count = 0
    /\ cmd'.pc = "spawn" /\ cmd'.kind = cmd.kind /\ answer' = "none"
    /\ autos' = IF cmd.kind = "reap" THEN autos + 1 ELSE 0
Denied ==
    /\ desired' = (IF cmd.kind = "autostart" THEN desired ELSE "stopped")
    /\ holder' = "none" /\ timer' = NoTimer
    /\ cmd' = NoCmd /\ answer' = "failed" /\ UNCHANGED <<spawn, autos>>
\* An operation that calls spawnService begins its spawn or is denied.
LEMMA Begins ==
    ASSUME Types, NEW managed \in BOOLEAN, Begin(managed)
    PROVE  /\ (Begun /\ ~managed) \/ (Denied /\ (up # "up" \/ managed \/ Reserved))
           /\ TypeSpawn' /\ TypeCmd' /\ autos' \in Nat
           /\ desired' \in {"none", "running", "stopped"} /\ holder' \in {"none", "cmd", "auto"}
           /\ timer' \in 0..NoTimer /\ answer' \in {"none", "failed"}
<1>0. NoTimer \in 0..NoTimer
    BY ProcessAssumption DEF NoTimer
<1>1. CASE up = "up" /\ ~managed /\ ~Reserved
  <2>1. /\ MarkDesired("running", "cmd")
        /\ spawn' = [by |-> "cmd", pc |-> "port", inst |-> None, count |-> 0]
        /\ cmd' = [cmd EXCEPT !.pc = "spawn"] /\ answer' = "none"
        /\ autos' = IF cmd.kind = "reap" THEN autos + 1 ELSE 0
      BY <1>1 DEF Begin
  <2>2. /\ spawn'.by = "cmd" /\ spawn'.pc = "port" /\ spawn'.inst = None /\ spawn'.count = 0
        /\ TypeSpawn'
      BY <2>1, ProcessAssumption DEF TypeSpawn
  <2>3. cmd'.pc = "spawn" /\ cmd'.kind = cmd.kind /\ TypeCmd'
      BY <2>1, Moves DEF Types, To
  <2> QED BY <1>0, <1>1, <2>1, <2>2, <2>3 DEF Begun, MarkDesired, Types, TypeControl
<1>2. CASE ~(up = "up" /\ ~managed /\ ~Reserved)
  <2>1. /\ MarkDesired(IF cmd.kind = "autostart" THEN desired ELSE "stopped", "none")
        /\ Answer(FALSE) /\ UNCHANGED <<spawn, autos>>
      BY <1>2 DEF Begin
  <2>2. cmd' = NoCmd /\ TypeCmd' /\ answer' = "failed"
      BY <2>1, Answers
  <2>3. TypeSpawn'
      BY <2>1 DEF Types, TypeSpawn
  <2> QED BY <1>0, <1>2, <2>1, <2>2, <2>3 DEF Denied, MarkDesired, Types, TypeControl
<1> QED BY <1>1, <1>2

\* A dead adoption is dropped, or nothing changes.
LEMMA Prunes ==
    ASSUME TypeMemory, Prune
    PROVE  /\ \/ UNCHANGED <<adopted, row>> /\ (adopted = None \/ Valid)
              \/ /\ adopted # None /\ ~Valid /\ adopted' = None
                 /\ row'.pid = None /\ row'.state = "crashed"
           /\ adopted' \in Insts \cup {None}
           /\ row' \in [state : {"stopped", "pending", "running", "crashed"}, pid : Insts \cup {None}]
BY ProcessAssumption DEF Prune, Row, TypeMemory

\* A stop begins.
LEMMA KillStarts ==
    ASSUME TypeCmd, KillBegins
    PROVE  /\ desired' = "stopped" /\ holder' = "none" /\ timer' = NoTimer
           /\ cmd'.pc = "killwait" /\ cmd'.kind = cmd.kind /\ TypeCmd'
<1>1. (timer # NoTimer \/ Reserved) \in BOOLEAN
    OBVIOUS
<1> QED BY <1>1 DEF KillBegins, MarkDesired, TypeCmd

-----------------------------------------------------------------------------
(* Every step keeps the types                                              *)

\* The steps of a spawn keep the types.
LEMMA SpawnTypes ==
    ASSUME Types, CmdInv, SpawnInv, SpawnStep
    PROVE  Types'
<1> USE DEF Types
<1>0. /\ spawn.inst \in Insts \cup {None} /\ None \in Insts \cup {None}
      /\ spawn.count \in 0..MaxRestart
    BY TypesAgree, Fields
<1>a. ASSUME NEW pc, pc # "none", AtSpawn(pc)
      PROVE  spawn.by # "none"
    BY <1>a, Nothing DEF AtSpawn, SpawnInv
<1>1. CASE ClearPort
  <2>1. AtSpawn("port") /\ UNCHANGED <<processes, adopted, row>>
      BY <1>1 DEF ClearPort
  <2>2. CASE SpawnGoes("prep") /\ live' \subseteq live /\ lost' \subseteq lost /\ UNCHANGED faults
      BY <2>1, <2>2, Goes DEF AtSpawn, TypeMemory, TypeWorld, TypeControl, TypeCmd
  <2>3. CASE Fault("kill") /\ SettleFailed /\ UNCHANGED <<live, lost>>
      BY <1>a, <2>1, <2>3, Fails, FaultTypes DEF AtSpawn, TypeMemory, TypeWorld, TypeControl
  <2> QED BY <1>1, <2>2, <2>3 DEF ClearPort
<1>2. CASE Prepared
  <2>1. AtSpawn("prep") /\ UNCHANGED <<processes, adopted>>
      BY <1>2 DEF Prepared
  <2>2. CASE SettleFailed /\ UNCHANGED <<live, row, lost, faults>>
      BY <1>a, <2>1, <2>2, Fails DEF AtSpawn, TypeMemory, TypeWorld, TypeControl
  <2>3. CASE Fault("spawn") /\ SettleFailed /\ UNCHANGED <<live, row, lost>>
      BY <1>a, <2>1, <2>3, Fails, FaultTypes DEF AtSpawn, TypeMemory, TypeWorld, TypeControl
  <2>4. CASE Row("pending", None) /\ SpawnGoes("launch") /\ UNCHANGED <<live, lost, faults>>
      BY <1>0, <2>1, <2>4, Goes, RowTypes DEF AtSpawn, TypeMemory, TypeWorld, TypeControl, TypeCmd
  <2>5. ASSUME NEW i \in Insts, live' = live \cup {i}, Row("pending", i),
               spawn' = [spawn EXCEPT !.pc = "wait", !.inst = i],
               UNCHANGED <<auto, cmd, desired, holder, timer, answer, lost, faults>>
        PROVE  Types'
    <3>1. TypeSpawn'
        BY <2>5 DEF TypeSpawn
    <3> QED BY <2>1, <2>5, <3>1, RowTypes DEF AtSpawn, TypeMemory, TypeWorld, TypeControl, TypeCmd
  <2>6. CASE Fault("spawn") /\ Row("crashed", None) /\ SettleFailed /\ UNCHANGED <<live, lost>>
      BY <1>0, <1>a, <2>1, <2>6, Fails, FaultTypes, RowTypes DEF AtSpawn, TypeMemory, TypeWorld, TypeControl
  <2> QED BY <1>2, <2>2, <2>3, <2>4, <2>5, <2>6 DEF Prepared
<1>3. CASE Launched
  <2>1. PICK i \in Insts : /\ live' = live \cup {i} /\ spawn' = [spawn EXCEPT !.inst = i]
      BY <1>3 DEF Launched
  <2>2. TypeSpawn'
      BY <2>1 DEF TypeSpawn
  <2> QED BY <1>3, <2>1, <2>2 DEF Launched, AtSpawn, TypeMemory, TypeWorld, TypeControl, TypeCmd
<1>4. CASE LaunchEnds
  <2>1. AtSpawn("launch") /\ UNCHANGED <<live, processes, adopted>>
      BY <1>4 DEF LaunchEnds
  <2>2. CASE Row("pending", spawn.inst) /\ SpawnGoes("verify") /\ UNCHANGED <<lost, faults>>
      BY <1>0, <2>1, <2>2, Goes, RowTypes DEF AtSpawn, TypeMemory, TypeWorld, TypeControl, TypeCmd
  <2>3. CASE Fault("spawn") /\ Row("crashed", None) /\ Forget({spawn.inst}) /\ SettleFailed
    <3>1. lost' \subseteq Insts
        BY <2>3 DEF Forget, TypeWorld
    <3> QED BY <1>0, <1>a, <2>1, <2>3, <3>1, Fails, FaultTypes, RowTypes
            DEF AtSpawn, TypeMemory, TypeWorld, TypeControl
  <2> QED BY <1>4, <2>2, <2>3 DEF LaunchEnds
<1>5. CASE Spawned
  <2>1. ASSUME NEW pc, pc # "none", AtSpawn(pc), Register, UNCHANGED <<live, lost>>, faults' \in 0..MaxFaults
        PROVE  Types'
    <3>1. CASE StillWanted
      <4>1. Row("running", spawn.inst) /\ SettleOk
          BY <2>1, <3>1 DEF Register
      <4>2. /\ adopted' \in Insts \cup {None}
            /\ processes' \in [inst : Insts \cup {None}, count : 0..MaxRestart, intentional : BOOLEAN]
        <5>1. CASE outside
            BY <1>0, <2>1, <3>1, <5>1 DEF Register, TypeMemory
        <5>2. CASE ~outside
          <6>1. /\ adopted' = None
                /\ processes' = [inst |-> spawn.inst, count |-> spawn.count, intentional |-> FALSE]
              BY <2>1, <3>1, <5>2 DEF Register
          <6> QED BY <1>0, <6>1
        <5> QED BY <5>1, <5>2
      <4>3. spawn.by \in {"cmd", "auto"}
          BY <1>a, <2>1 DEF TypeSpawn
      <4>4. /\ TypeSpawn' /\ TypeCmd'
            /\ auto' \in [pc : {"idle", "build", "spawn"}, count : 0..MaxRestart]
            /\ UNCHANGED <<desired, holder, timer>>
            /\ answer' \in {"none", "ok", "stopped", "failed", "pruned"}
          BY <4>1, <4>3, Succeeds DEF TypeControl
      <4> QED BY <1>0, <2>1, <4>1, <4>2, <4>4, RowTypes DEF AtSpawn, TypeMemory, TypeWorld, TypeControl
    <3>2. CASE ~StillWanted
      <4>1. SpawnGoes("cancel") /\ UNCHANGED <<processes, adopted, row>>
          BY <2>1, <3>2 DEF Register
      <4> QED BY <2>1, <4>1, Goes DEF AtSpawn, TypeMemory, TypeWorld, TypeControl, TypeCmd
    <3> QED BY <3>1, <3>2
  <2>2. CASE AtSpawn("wait") /\ Register /\ UNCHANGED <<live, lost, faults>>
      BY <2>1, <2>2 DEF TypeWorld
  <2>3. CASE AtSpawn("verify") /\ Identity(spawn.inst, "verified") /\ Register /\ UNCHANGED <<live, lost>>
      BY <2>1, <2>3, IdentityTypes
  <2>4. CASE /\ AtSpawn("verify") /\ Identity(spawn.inst, "unreadable")
             /\ Row("crashed", spawn.inst) /\ Forget({spawn.inst}) /\ SettleFailed
             /\ UNCHANGED <<live, processes, adopted>>
    <3>1. lost' \subseteq Insts
        BY <2>4 DEF Forget, TypeWorld
    <3> QED BY <1>0, <1>a, <2>4, <3>1, Fails, IdentityTypes, RowTypes
            DEF AtSpawn, TypeMemory, TypeWorld, TypeControl
  <2>5. CASE /\ AtSpawn("verify") /\ Identity(spawn.inst, "exited")
             /\ Row("crashed", None) /\ SettleFailed
             /\ UNCHANGED <<live, processes, adopted, lost>>
      BY <1>0, <1>a, <2>5, Fails, IdentityTypes, RowTypes
         DEF AtSpawn, TypeMemory, TypeWorld, TypeControl
  <2> QED BY <1>5, <2>2, <2>3, <2>4, <2>5 DEF Spawned
<1>6. CASE Cancel
  <2>1. AtSpawn("cancel") /\ UNCHANGED <<processes, lost>> /\ SettleFailed
      BY <1>6 DEF Cancel
  <2>2. live' \subseteq Insts /\ faults' \in 0..MaxFaults
      BY <1>6, FaultTypes DEF Cancel, TypeWorld
  <2>3. /\ adopted' \in Insts \cup {None}
        /\ row' \in [state : {"stopped", "pending", "running", "crashed"}, pid : Insts \cup {None}]
      BY <1>0, <1>6, RowTypes DEF Cancel, TypeMemory
  <2> QED BY <1>a, <2>1, <2>2, <2>3, Fails DEF AtSpawn, TypeMemory, TypeWorld, TypeControl
<1> QED BY <1>1, <1>2, <1>3, <1>4, <1>5, <1>6 DEF SpawnStep

\* What an operation leaves behind when it returns from a kill.
LEMMA KillReturnTypes ==
    ASSUME Types, NEW ok \in BOOLEAN, NEW managed \in BOOLEAN, KillReturns(ok, managed) \/ KillThrows
    PROVE  /\ TypeSpawn' /\ TypeCmd' /\ autos' \in Nat
           /\ desired' \in {"none", "running", "stopped"} /\ holder' \in {"none", "cmd", "auto"}
           /\ timer' \in 0..NoTimer /\ answer' \in {"none", "ok", "stopped", "failed", "pruned"}
<1>1. CASE Begin(managed)
    BY <1>1, Begins
<1>2. ASSUME NEW b \in BOOLEAN, Answer(b), UNCHANGED <<desired, holder, timer, spawn, autos>>
      PROVE  /\ TypeSpawn' /\ TypeCmd' /\ autos' \in Nat
             /\ desired' \in {"none", "running", "stopped"} /\ holder' \in {"none", "cmd", "auto"}
             /\ timer' \in 0..NoTimer /\ answer' \in {"none", "ok", "stopped", "failed", "pruned"}
    BY <1>2, Answers DEF Types, TypeControl, TypeSpawn
<1> QED BY <1>1, <1>2 DEF KillReturns, KillThrows

\* The steps of killService keep the types.
LEMMA KillTypes ==
    ASSUME Types, KillStep
    PROVE  Types'
<1> USE DEF Types
<1>0. None \in Insts \cup {None} /\ Managed \in BOOLEAN /\ cmd.cancels \in BOOLEAN
    BY DEF Managed, TypeCmd
<1>a. ASSUME TypeControl, UNCHANGED auto, autos' \in Nat,
             desired' \in {"none", "running", "stopped"}, holder' \in {"none", "cmd", "auto"},
             timer' \in 0..NoTimer, answer' \in {"none", "ok", "stopped", "failed", "pruned"}
      PROVE  TypeControl'
    BY <1>a DEF TypeControl
<1>b. ASSUME StillKilling, UNCHANGED auto
      PROVE  TypeControl' /\ TypeSpawn'
    BY <1>b DEF StillKilling, TypeControl, TypeSpawn
<1>1. CASE KillWait
  <2>1. AtKill("killwait") /\ UNCHANGED <<live, adopted, row, lost, faults>>
      BY <1>1 DEF KillWait
  <2>2. CASE /\ processes' = [processes EXCEPT !.intentional = TRUE] /\ To("term") /\ StillKilling
    <3>1. processes' \in [inst : Insts \cup {None}, count : 0..MaxRestart, intentional : BOOLEAN]
        BY <2>2 DEF TypeMemory
    <3> QED BY <1>b, <2>1, <2>2, <3>1, Moves DEF AtKill, TypeMemory, TypeWorld
  <2>3. CASE To("verify") /\ StillKilling /\ UNCHANGED processes
      BY <1>b, <2>1, <2>3, Moves DEF AtKill, TypeMemory, TypeWorld
  <2>4. CASE KillReturns(cmd.cancels, FALSE) /\ UNCHANGED processes
      BY <1>0, <1>a, <2>1, <2>4, KillReturnTypes DEF AtKill, TypeMemory, TypeWorld
  <2> QED BY <1>1, <2>2, <2>3, <2>4 DEF KillWait
<1>2. CASE Terminate
  <2>1. /\ UNCHANGED <<outside, up, auto, retry, raised, processes, adopted, cmd, row, lost, faults>>
        /\ live' \subseteq live /\ StillKilling
      BY <1>2 DEF Terminate, AtKill
  <2> QED BY <1>b, <2>1 DEF TypeMemory, TypeWorld, TypeCmd
<1>3. CASE TerminateEnds
  <2>1. AtKill("term") /\ UNCHANGED <<live, adopted, row, lost>>
      BY <1>3 DEF TerminateEnds
  <2>2. CASE KillReturns(TRUE, Managed) /\ UNCHANGED <<processes, faults>>
      BY <1>0, <1>a, <2>1, <2>2, KillReturnTypes DEF AtKill, TypeMemory, TypeWorld
  <2>3. CASE Fault("kill") /\ processes' = [processes EXCEPT !.intentional = FALSE] /\ KillThrows
    <3>1. processes' \in [inst : Insts \cup {None}, count : 0..MaxRestart, intentional : BOOLEAN]
        BY <2>3 DEF TypeMemory
    <3> QED BY <1>0, <1>a, <2>1, <2>3, <3>1, KillReturnTypes, FaultTypes DEF AtKill, TypeMemory, TypeWorld
  <2> QED BY <1>3, <2>2, <2>3 DEF TerminateEnds
<1>4. CASE Verify
  <2>1. AtKill("verify") /\ UNCHANGED <<live, processes>>
      BY <1>4 DEF Verify
  <2>2. CASE Identity(adopted, "verified") /\ To("tree") /\ StillKilling /\ UNCHANGED <<adopted, row, lost>>
      BY <1>b, <2>1, <2>2, Moves, IdentityTypes DEF AtKill, TypeMemory, TypeWorld
  <2>3. CASE /\ Identity(adopted, "unreadable")
             /\ Row("crashed", None) /\ Forget({adopted}) /\ adopted' = None /\ KillThrows
    <3>1. lost' \subseteq Insts
        BY <2>3 DEF Forget, TypeWorld
    <3> QED BY <1>0, <1>a, <2>1, <2>3, <3>1, KillReturnTypes, RowTypes, IdentityTypes
            DEF AtKill, TypeMemory, TypeWorld
  <2>4. CASE /\ Identity(adopted, "exited") /\ Row("stopped", None) /\ adopted' = None
             /\ KillReturns(TRUE, FALSE) /\ UNCHANGED lost
      BY <1>0, <1>a, <2>1, <2>4, KillReturnTypes, RowTypes, IdentityTypes
         DEF AtKill, TypeMemory, TypeWorld
  <2> QED BY <1>4, <2>2, <2>3, <2>4 DEF Verify
<1>5. CASE TreeKill
  <2>1. AtKill("tree") /\ UNCHANGED <<processes, lost>>
      BY <1>5 DEF TreeKill
  <2>2. CASE /\ live' = live \ {adopted} /\ adopted' = None /\ Row("stopped", None)
             /\ KillReturns(TRUE, FALSE) /\ UNCHANGED faults
      BY <1>0, <1>a, <2>1, <2>2, KillReturnTypes, RowTypes DEF AtKill, TypeMemory, TypeWorld
  <2>3. CASE Fault("kill") /\ KillThrows /\ UNCHANGED <<live, adopted, row>>
      BY <1>0, <1>a, <2>1, <2>3, KillReturnTypes, FaultTypes DEF AtKill, TypeMemory, TypeWorld
  <2> QED BY <1>5, <2>2, <2>3 DEF TreeKill
<1> QED BY <1>1, <1>2, <1>3, <1>4, <1>5 DEF KillStep

\* A request keeps the types.
LEMMA CommandTypes ==
    ASSUME Types, NEW kind \in Requests, Command(kind)
    PROVE  Types'
<1> USE DEF Types
<1>1. TypeCmd'
  <2>1. \E pc \in {"settle", "validate", "port", "killwait"}, b \in BOOLEAN :
            cmd' = [kind |-> kind, pc |-> pc, cancels |-> b]
      BY DEF Command, NoCmd, Requests
  <2> QED BY <2>1 DEF TypeCmd, Requests
<1>2. TypeControl'
  <2>1. /\ desired' \in {"none", "running", "stopped"} /\ holder' \in {"none", "cmd", "auto"}
        /\ timer' \in 0..NoTimer
      BY MarkTypes DEF Command, Requests, TypeControl
  <2> QED BY <2>1 DEF Command, TypeControl
<1>3. TypeMemory' /\ TypeWorld' /\ TypeSpawn'
  <2>1. /\ UNCHANGED <<outside, live, up, processes, adopted, spawn, auto, retry, row, lost, faults>>
        /\ raised' = FALSE
      BY DEF Command
  <2>2. TypeMemory' /\ TypeSpawn'
      BY <2>1 DEF TypeMemory, TypeSpawn
  <2>3. TypeWorld'
      BY <2>1 DEF TypeWorld
  <2> QED BY <2>2, <2>3
<1> QED BY <1>1, <1>2, <1>3

\* The operations of the queue keep the types.
LEMMA QueueTypes ==
    ASSUME Types, QueueStep
    PROVE  Types'
<1> USE DEF Types
<1>0. Managed \in BOOLEAN /\ NoTimer \in 0..NoTimer
    BY ProcessAssumption DEF Managed, NoTimer
<1>a. ASSUME UnchangedWorld, TypeMemory, TypeWorld, UNCHANGED <<retry, faults>>,
             adopted' \in Insts \cup {None},
             row' \in [state : {"stopped", "pending", "running", "crashed"}, pid : Insts \cup {None}]
      PROVE  TypeMemory' /\ TypeWorld'
    BY <1>a DEF UnchangedWorld, TypeMemory, TypeWorld
<1>1. CASE Settled
  <2>1. TypeCmd'
      BY <1>1, Moves DEF Settled
  <2> QED BY <1>1, <2>1 DEF Settled, UnchangedWorld, TypeMemory, TypeWorld, TypeControl, TypeSpawn
<1>2. CASE Validate
  <2>1. TypeMemory' /\ TypeWorld' /\ UNCHANGED auto
      BY <1>2, <1>a, Prunes DEF Validate
  <2>2. CASE Begin(FALSE)
      BY <2>1, <2>2, Begins DEF TypeControl
  <2>3. CASE KillBegins /\ UNCHANGED <<spawn, answer, autos>>
      BY <1>0, <2>1, <2>3, KillStarts DEF TypeControl, TypeSpawn
  <2>4. CASE /\ cmd' = NoCmd /\ answer' \in {"pruned", answer}
             /\ UNCHANGED <<desired, holder, timer, spawn, autos>>
    <3>1. TypeCmd'
        BY <2>4 DEF NoCmd, TypeCmd
    <3> QED BY <2>1, <2>4, <3>1 DEF TypeControl, TypeSpawn
  <2>5. CASE Answer(TRUE) /\ UNCHANGED <<desired, holder, timer, spawn, autos>>
      BY <2>1, <2>5, Answers DEF TypeControl, TypeSpawn
  <2>6. CASE /\ MarkDesired("running", "cmd") /\ To("env") /\ answer' = "none"
             /\ UNCHANGED <<spawn, autos>>
      BY <2>1, <2>6, Moves, MarkTypes DEF TypeControl, TypeSpawn
  <2> QED BY <1>2, <2>2, <2>3, <2>4, <2>5, <2>6 DEF Validate
<1>3. CASE EnvBuild
  <2>1. UnchangedWorld /\ UNCHANGED <<adopted, auto, retry, row>>
      BY <1>3 DEF EnvBuild
  <2>2. faults' \in 0..MaxFaults
      BY <1>3, FaultTypes DEF EnvBuild, TypeWorld
  <2>3. TypeMemory' /\ TypeWorld'
      BY <2>1, <2>2 DEF UnchangedWorld, TypeMemory, TypeWorld
  <2>4. CASE To("validate") /\ UNCHANGED <<desired, holder, timer, spawn, answer, autos, faults>>
      BY <2>1, <2>3, <2>4, Moves DEF TypeControl, TypeSpawn
  <2>5. CASE Begin(Managed)
      BY <1>0, <2>1, <2>3, <2>5, Begins DEF TypeControl
  <2>6. CASE MarkDesired("stopped", "none") /\ Answer(FALSE) /\ UNCHANGED <<spawn, autos>>
      BY <2>1, <2>3, <2>6, MarkTypes, Answers DEF TypeControl, TypeSpawn
  <2>7. CASE Answer(FALSE) /\ UNCHANGED <<desired, holder, timer>> /\ UNCHANGED <<spawn, autos>>
      BY <2>1, <2>3, <2>7, Answers DEF TypeControl, TypeSpawn
  <2> QED BY <1>3, <2>4, <2>5, <2>6, <2>7 DEF EnvBuild
<1>4. CASE KillPort
  <2>1. TypeCmd' /\ answer' \in {"ok", "stopped", "failed"}
      BY <1>4, Answers DEF KillPort
  <2>2. live' \subseteq live /\ lost' \subseteq lost
      BY <1>4 DEF KillPort
  <2> QED BY <1>4, <2>1, <2>2 DEF KillPort, TypeMemory, TypeWorld, TypeControl, TypeSpawn
<1>5. CASE ReapCheck
  <2>1. /\ UnchangedWorld /\ UNCHANGED <<desired, holder, timer, spawn, auto, faults>>
        /\ UNCHANGED answer /\ Prune
      BY <1>5 DEF ReapCheck
  <2>2. retry' \in 0..MaxRestart /\ autos' \in Nat
      BY <1>5, ProcessAssumption DEF ReapCheck, TypeMemory, TypeControl
  <2>3. TypeCmd'
    <3>1. CASE To("settle")
        BY <3>1, Moves
    <3>2. CASE cmd' = NoCmd
        BY <3>2 DEF NoCmd, TypeCmd
    <3> QED BY <1>5, <3>1, <3>2 DEF ReapCheck
  <2>4. TypeMemory'
      BY <2>1, <2>2, Prunes DEF UnchangedWorld, TypeMemory
  <2> QED BY <2>1, <2>2, <2>3, <2>4 DEF UnchangedWorld, TypeWorld, TypeControl, TypeSpawn
<1> QED BY <1>1, <1>2, <1>3, <1>4, <1>5, KillTypes DEF QueueStep

\* Exits, timers and the life of the supervisor keep the types.
LEMMA OtherTypes ==
    ASSUME Types, AutoInv,
           \/ ReapTick \/ (\E clean \in BOOLEAN : ChildExit(clean)) \/ TimerFires \/ AutoRestart
           \/ Die \/ Close \/ Exit \/ Crash \/ Boot
    PROVE  Types'
<1> USE DEF Types
<1>0. /\ MaxRestart \in Nat /\ NoTimer = MaxRestart + 1 /\ NoTimer \in 0..NoTimer
      /\ None \in Insts \cup {None}
    BY ProcessAssumption DEF NoTimer
<1>n. /\ NoChild \in [inst : Insts \cup {None}, count : 0..MaxRestart, intentional : BOOLEAN]
      /\ NoAuto \in [pc : {"idle", "build", "spawn"}, count : 0..MaxRestart]
  <2>1. 0 \in 0..MaxRestart
      BY <1>0
  <2> QED BY <2>1 DEF NoChild, NoAuto
<1>c. NoCmd \in [kind : {"none", "start", "stop", "restart", "reap", "autostart", "status", "kill-port"}, cancels : BOOLEAN,
                 pc : {"idle", "settle", "validate", "env", "spawn", "check", "port",
                       "killwait", "term", "verify", "tree"}]
    BY DEF NoCmd
<1>1. CASE ReapTick
  <2>1. TypeCmd' /\ retry' \in 0..MaxRestart
    <3>1. cmd' = [NoCmd EXCEPT !.kind = "reap", !.pc = "check"] \/ cmd' = cmd
        BY <1>1 DEF ReapTick
    <3>2. TypeCmd'
        BY <1>c, <3>1 DEF TypeCmd
    <3>3. retry' \in 0..MaxRestart
        BY <1>0, <1>1 DEF ReapTick, TypeMemory
    <3> QED BY <3>2, <3>3
  <2> QED BY <1>1, <2>1 DEF ReapTick, UnchangedWorld, TypeMemory, TypeWorld, TypeControl, TypeSpawn
<1>2. ASSUME NEW clean \in BOOLEAN, ChildExit(clean)
      PROVE  Types'
  <2>1. processes.count \in 0..MaxRestart /\ processes.intentional \in BOOLEAN
      BY DEF TypeMemory
  <2>2. timer' \in 0..NoTimer
      BY <1>0, <1>2, <2>1 DEF ChildExit, TypeControl
  <2>3. row' \in [state : {"stopped", "pending", "running", "crashed"}, pid : Insts \cup {None}]
      BY <1>0, <1>2, RowTypes DEF ChildExit
  <2>4. TypeMemory' /\ TypeSpawn' /\ TypeCmd'
      BY <1>2, <1>n, <2>3 DEF ChildExit, TypeMemory, TypeSpawn, TypeCmd
  <2>5. raised' \in BOOLEAN
      BY <1>2 DEF ChildExit, TypeWorld
  <2> QED BY <1>2, <2>2, <2>4, <2>5 DEF ChildExit, TypeWorld, TypeControl
<1>3. CASE TimerFires
  <2>1. timer \in 0..MaxRestart /\ auto' = [pc |-> "build", count |-> timer]
      BY <1>0, <1>3 DEF TimerFires, TypeControl
  <2>2. auto' \in [pc : {"idle", "build", "spawn"}, count : 0..MaxRestart]
      BY <2>1
  <2> QED BY <1>0, <1>3, <2>2
          DEF TimerFires, UnchangedWorld, TypeMemory, TypeWorld, TypeControl, TypeSpawn, TypeCmd
<1>4. CASE AutoRestart
  <2>1. auto.pc = "build" /\ auto.count \in 0..MaxRestart /\ auto.count < MaxRestart
      BY <1>4 DEF AutoRestart, AutoInv, TypeControl
  <2>2. faults' \in 0..MaxFaults
      BY <1>4, FaultTypes DEF AutoRestart, TypeWorld
  <2>3. auto' \in [pc : {"idle", "build", "spawn"}, count : 0..MaxRestart]
      BY <1>4, <1>n DEF AutoRestart, TypeControl
  <2>4. TypeSpawn'
    <3>1. auto.count + 1 \in 0..MaxRestart /\ None \in Insts \cup {None}
        BY <1>0, <2>1
    <3> QED BY <1>4, <3>1 DEF AutoRestart, TypeSpawn
  <2>5. answer' \in {"none", "ok", "stopped", "failed", "pruned"} /\ autos' \in Nat
      BY <1>4 DEF AutoRestart, Log, TypeControl
  <2> QED BY <1>4, <2>2, <2>3, <2>4, <2>5
          DEF AutoRestart, UnchangedWorld, TypeMemory, TypeWorld, TypeControl, TypeCmd
<1>5. CASE Die
  <2>1. live' \subseteq live /\ lost' \subseteq lost /\ faults' \in 0..MaxFaults
      BY <1>5, FaultTypes DEF Die
  <2> QED BY <1>5, <2>1 DEF Die, memory, TypeMemory, TypeWorld, TypeControl, TypeSpawn, TypeCmd
<1>6. CASE Close
  <2>1. faults' \in 0..MaxFaults
      BY <1>6, FaultTypes DEF Close
  <2> QED BY <1>0, <1>6, <2>1 DEF Close, history, TypeMemory, TypeWorld, TypeControl, TypeSpawn, TypeCmd
<1>7. ASSUME Down, faults' \in 0..MaxFaults
      PROVE  Types'
  <2>1. lost' \subseteq Insts
      BY <1>7 DEF Down, Forget, TypeWorld
  <2>2. TypeSpawn' /\ TypeCmd'
      BY <1>0, <1>7 DEF Down, NoSpawn, NoCmd, TypeSpawn, TypeCmd
  <2>3. TypeMemory' /\ TypeControl'
      BY <1>0, <1>7, <1>n DEF Down, TypeMemory, TypeControl
  <2> QED BY <1>7, <2>1, <2>2, <2>3 DEF Down, TypeWorld
<1>8. CASE Exit \/ Crash
    BY <1>7, <1>8, FaultTypes DEF Exit, Crash, TypeWorld
<1>9. CASE Boot
  <2>1. PICK kept \in BOOLEAN, owner \in Insts \cup {None} : Reconcile(kept, owner)
    <3>1. live \subseteq Insts
        BY DEF TypeWorld
    <3> QED BY <1>9, <3>1 DEF Boot, ReconcileRow
  <2>2. faults' \in 0..MaxFaults
      BY <1>9, IdentityTypes DEF Boot, ReconcileRow, TypeWorld
  <2> DEFINE pid == IF kept THEN row.pid ELSE owner
  <2>3. pid \in Insts \cup {None}
      BY DEF TypeMemory
  <2>4. /\ adopted' = pid /\ lost' = (lost \cup ({row.pid} \cap live)) \ {pid}
        /\ desired' = IF pid # None THEN "running" ELSE desired
      BY <2>1 DEF Reconcile
  <2>5. row' \in [state : {"stopped", "pending", "running", "crashed"}, pid : Insts \cup {None}]
      BY <2>1, <2>3 DEF Reconcile, TypeMemory
  <2>6. TypeCmd'
    <3>1. cmd' = [NoCmd EXCEPT !.kind = "autostart", !.pc = "env"] \/ cmd' = NoCmd
        BY <1>9 DEF Boot
    <3> QED BY <1>c, <3>1 DEF TypeCmd
  <2>7. lost' \subseteq Insts
      BY <2>4 DEF TypeWorld
  <2> HIDE DEF pid
  <2> QED BY <1>9, <2>2, <2>3, <2>4, <2>5, <2>6, <2>7
          DEF Boot, TypeMemory, TypeWorld, TypeControl, TypeSpawn
<1> QED BY <1>1, <1>2, <1>3, <1>4, <1>5, <1>6, <1>8, <1>9

\* The parts of the state keep their types.
LEMMA TypesKept ==
    ASSUME TypeOK, CmdInv, SpawnInv, AutoInv, Next
    PROVE  TypeOK'
<1>1. Types
    BY TypesAgree
<1>2. Types'
    BY <1>1, SpawnTypes, QueueTypes, CommandTypes, OtherTypes DEF Next
<1> QED BY <1>2 DEF TypeOK, Types, TypeMemory, TypeWorld, TypeControl, TypeSpawn, TypeCmd

-----------------------------------------------------------------------------
(* Steps of one shape keep SafeInv                                         *)

\* What SafeInv says of the parts of the memory, in the form the steps use.
LEMMA Shapes ==
    ASSUME TypeOK, SafeInv
    PROVE  /\ Reserved => spawn.by \in {"cmd", "auto"} /\ spawn.pc # "none"
           /\ spawn.by # "none" \/ spawn.pc # "none" => Reserved
           /\ cmd # NoCmd => cmd.pc # "idle" /\ cmd.kind # "none"
           /\ Reserved => ~Managed /\ up # "down" /\ processes = NoChild /\ adopted = None
           /\ up # "down" /\ Reserved => Owner = spawn.inst
           /\ ~Reserved => spawn.inst = None
           /\ None \notin live
           /\ timer # NoTimer => timer \in 0..(MaxRestart - 1)
           /\ up \in {"up", "closing", "down"}
<1>1. spawn.by \in {"none", "cmd", "auto"} /\ timer \in 0..NoTimer /\ up \in {"up", "closing", "down"}
    BY Fields DEF TypeOK
<1>2. None \notin live
    BY ProcessAssumption DEF TypeOK
<1>3. timer # NoTimer => timer \in 0..(MaxRestart - 1)
    BY <1>1, Fields, ProcessAssumption DEF SafeInv, AutoInv
<1>4. /\ Reserved => spawn.by \in {"cmd", "auto"} /\ spawn.pc # "none"
      /\ spawn.by # "none" \/ spawn.pc # "none" => Reserved
      /\ cmd # NoCmd => cmd.pc # "idle" /\ cmd.kind # "none"
    BY <1>1, Nothing DEF SafeInv, SpawnInv, CmdInv, Reserved
<1>5. Reserved => ~Managed /\ up # "down" /\ processes = NoChild /\ adopted = None
    BY DEF SafeInv, SpawnInv, DownInv, Reserved, Managed
<1>6. up # "down" /\ Reserved => Owner = spawn.inst
    BY <1>5 DEF Owner
<1>7. ~Reserved => spawn.inst = None
    BY Nothing DEF Reserved
<1> QED BY <1>1, <1>2, <1>3, <1>4, <1>5, <1>6, <1>7

\* The spawn in flight goes on.
LEMMA SpawnGoesOn ==
    ASSUME TypeOK, SafeInv, TypeOK', Reserved,
           UNCHANGED <<outside, up, processes, adopted, desired, holder, timer, auto, cmd, answer, retry, autos>>,
           spawn'.by = spawn.by, spawn'.pc # "none",
           spawn'.pc \in {"port", "prep"} => spawn'.inst = None,
           spawn'.pc \in {"wait", "verify", "cancel"} => spawn'.inst # None /\ row'.pid = spawn'.inst,
           spawn'.pc = "wait" => ~outside, spawn'.pc \in {"launch", "verify"} => outside,
           spawn'.pc = "cancel" => ~Current(spawn.by),
           lost' \subseteq live', spawn'.inst \notin lost', live' \ lost' \subseteq {spawn'.inst}
    PROVE  SafeInv'
<1> USE DEF SafeInv
<1>0. Reserved' /\ ~Managed /\ ~Managed' /\ up # "down" /\ spawn.by \in {"cmd", "auto"} /\ spawn' # NoSpawn
    BY Shapes, Nothing DEF Reserved, Managed
<1>1. DownInv' BY <1>0 DEF DownInv
<1>2. CmdInv' BY DEF CmdInv
<1>3. KillInv' BY <1>0 DEF KillInv, Reserved
<1>4. SpawnInv'
  <2>1. timer = NoTimer /\ NoTimer' = NoTimer
      BY DEF SpawnInv, NoTimer
  <2> QED BY <1>0, <2>1 DEF SpawnInv, Current
<1>5. BootInv' BY <1>0 DEF BootInv
<1>6. ManageInv' BY <1>0 DEF ManageInv, Managed
<1>7. AutoInv'
  <2>1. timer' = NoTimer' BY DEF SpawnInv, NoTimer
  <2> QED BY <1>0, <2>1 DEF AutoInv
<1>8. LiveInv' BY <1>0 DEF LiveInv, Owner, Managed
<1>9. StopInv' BY <1>0 DEF StopInv, Reserved
<1> QED BY <1>1, <1>2, <1>3, <1>4, <1>5, <1>6, <1>7, <1>8, <1>9

\* The spawn fails: nothing runs, or a cancelled process is kept.
LEMMA SpawnGivesUp ==
    ASSUME TypeOK, SafeInv, TypeOK', Reserved, SettleFailed,
           UNCHANGED <<outside, up, processes, retry, autos>>,
           adopted' \in {None, spawn.inst},
           adopted' # None => spawn.pc = "cancel" /\ row'.pid = adopted',
           lost' \subseteq live', adopted' \notin lost', live' \ lost' \subseteq {adopted'}
    PROVE  SafeInv'
<1> USE DEF SafeInv
<1>0. /\ ~Managed /\ processes = NoChild /\ adopted = None /\ up # "down"
      /\ spawn.by \in {"cmd", "auto"}
    BY Shapes
<1>f. /\ spawn' = NoSpawn
      /\ answer' = "stopped" => answer = "stopped"
      /\ spawn.by = "auto" => /\ auto' = NoAuto
                              /\ UNCHANGED <<cmd, desired, holder, timer>>
      /\ spawn.by = "cmd" => auto' = auto /\ cmd' = NoCmd
      /\ spawn.by = "cmd" /\ cmd.kind # "autostart"
             => desired' = "stopped" /\ holder' = "none" /\ timer' = NoTimer
      /\ cmd.kind = "autostart" => desired' = desired /\ holder' = holder /\ timer' = timer
      /\ \/ desired' = desired /\ holder' = holder /\ timer' = timer
         \/ desired' = "stopped" /\ holder' = "none" /\ timer' = NoTimer
    BY <1>0, TypesAgree, Fails
<1>n. ~Reserved' /\ spawn'.by = "none" /\ spawn'.pc = "none" /\ spawn'.inst = None /\ timer = NoTimer
      /\ NoTimer' = NoTimer /\ timer' = NoTimer /\ NoChild' = NoChild /\ NoCmd' = NoCmd /\ NoSpawn' = NoSpawn
    BY <1>f, Nothing DEF Reserved, SpawnInv, NoTimer, NoChild, NoCmd, NoSpawn
<1>1. DownInv' BY <1>0 DEF DownInv
<1>2. CmdInv' BY <1>0, <1>f, <1>n, Nothing DEF CmdInv
<1>3. KillInv' BY <1>0, <1>f, <1>n, Nothing DEF KillInv, SpawnInv
<1>4. SpawnInv' BY <1>0, <1>f, <1>n, Nothing DEF SpawnInv
<1>5. BootInv' BY <1>0, <1>f, <1>n, Nothing DEF BootInv
<1>6. ManageInv' BY <1>0, <1>n DEF ManageInv, Managed
<1>7. AutoInv'
  <2>1. holder' = "auto" => holder = "auto" /\ desired' = desired
      BY <1>f
  <2>2. auto'.pc # "idle" => auto'.pc = auto.pc /\ auto'.count = auto.count
      BY <1>0, <1>f, Nothing
  <2>3. holder' = "auto" /\ Managed' => auto'.pc = "idle"
    <3>1. SUFFICES ASSUME holder' = "auto", adopted' # None PROVE auto'.pc = "idle"
        BY <1>0 DEF Managed
    <3>2. spawn.pc = "cancel" /\ ~Current(spawn.by) /\ up = "up" /\ desired = "running" /\ holder = "auto"
        BY <2>1, <3>1 DEF SpawnInv, AutoInv
    <3>3. spawn.by = "auto"
        BY <1>0, <3>2 DEF SpawnInv
    <3> QED BY <1>f, <3>3, Nothing
  <2> QED BY <1>n, <2>1, <2>2, <2>3 DEF AutoInv
<1>8. LiveInv' BY <1>0, <1>n DEF LiveInv, Owner
<1>9. StopInv' BY <1>f DEF StopInv, Reserved
<1> QED BY <1>1, <1>2, <1>3, <1>4, <1>5, <1>6, <1>7, <1>8, <1>9

\* A process ends: only the live processes change.
LEMMA ProcessEnds ==
    ASSUME TypeOK, SafeInv, UNCHANGED <<outside, up, memory, row, answer, autos>>,
           live' \subseteq live, lost' = lost \cap live'
    PROVE  SafeInv'
<1> USE DEF SafeInv, memory
<1>1. DownInv' BY DEF DownInv
<1>2. CmdInv' BY DEF CmdInv
<1>3. KillInv' BY DEF KillInv
<1>4. SpawnInv' BY DEF SpawnInv, Current, Reserved, Managed
<1>5. BootInv' BY DEF BootInv, Reserved, Managed
<1>6. ManageInv' BY DEF ManageInv, Managed
<1>7. AutoInv' BY DEF AutoInv, Reserved, Managed
<1>8. LiveInv' BY DEF LiveInv, Owner
<1>9. StopInv' BY DEF StopInv
<1> QED BY <1>1, <1>2, <1>3, <1>4, <1>5, <1>6, <1>7, <1>8, <1>9

\* The operation of the queue goes on, ends, or begins, without a spawn.  What
\* is managed stays, or is found dead or killed.
LEMMA CmdGoesOn ==
    ASSUME TypeOK, SafeInv, TypeOK', CmdInv', up = "up" \/ up = "closing",
           cmd.pc # "spawn", cmd'.pc # "spawn", ~(cmd'.kind = "autostart" /\ cmd'.pc = "env"),
           UNCHANGED <<outside, up, spawn, auto>>,
           \/ desired' = desired /\ holder' = holder /\ timer' = timer
           \/ timer' = NoTimer /\ holder' # "auto",
           processes'.inst = processes.inst, processes' = NoChild <=> processes = NoChild,
           \/ adopted' = adopted /\ row'.pid = row.pid /\ live' \ lost' \subseteq {Owner}
           \/ /\ adopted # None /\ adopted' = None /\ live' \ lost' = {},
           lost' \subseteq live', Owner \notin lost' \/ adopted' # adopted,
           cmd'.pc \in {"killwait", "term", "verify", "tree"} => desired' = "stopped",
           cmd'.pc \in {"term", "verify", "tree"} => spawn' = NoSpawn,
           cmd'.pc = "term" => adopted' = None,
           cmd'.pc \in {"verify", "tree"} => processes' = NoChild /\ adopted' # None,
           answer' = "stopped" => cmd' = NoCmd /\ desired' # "running" /\ spawn' = NoSpawn /\ live' \ lost' = {}
    PROVE  SafeInv'
<1> USE DEF SafeInv
<1>n. /\ NoTimer' = NoTimer /\ NoChild' = NoChild /\ NoCmd' = NoCmd /\ NoSpawn' = NoSpawn /\ NoAuto' = NoAuto
      /\ (Reserved' <=> Reserved) /\ (Managed' => Managed)
    BY DEF Reserved, Managed, NoTimer, NoChild, NoCmd, NoSpawn, NoAuto
<1>r. Reserved => adopted' = None /\ processes = NoChild /\ row'.pid = row.pid /\ ~Managed'
    BY <1>n, Shapes
<1>1. DownInv' BY DEF DownInv
<1>3. KillInv' BY <1>n DEF KillInv
<1>4. SpawnInv'
  <2>1. spawn.by # "cmd" BY DEF SpawnInv
  <2>2. spawn.by = "auto" /\ Current(spawn.by)' => Current(spawn.by)
      BY DEF Current
  <2>3. spawn.pc = "cancel" => spawn.by = "auto"
      BY <2>1, Shapes, Nothing DEF SpawnInv, Reserved
  <2>4. Reserved' => ~Managed' /\ timer' = NoTimer'
      BY <1>n, <1>r DEF SpawnInv
  <2>5. spawn.pc \in {"wait", "verify", "cancel"} => row'.pid = spawn.inst
      BY <1>r, Shapes DEF SpawnInv
  <2>6. spawn'.pc = "cancel" => ~Current(spawn.by)'
      BY <2>2, <2>3 DEF SpawnInv
  <2>7. spawn'.by = "cmd" <=> cmd'.pc = "spawn"
      BY <2>1
  <2> QED BY <1>n, <2>1, <2>4, <2>5, <2>6, <2>7 DEF SpawnInv
<1>5. BootInv' BY DEF BootInv
<1>6. ManageInv'
  <2>1. processes' = NoChild \/ (processes'.inst # None /\ adopted' = None /\ ~outside')
      BY DEF ManageInv
  <2>2. Managed' => adopted' = adopted /\ row'.pid = row.pid
      BY DEF Managed, ManageInv
  <2>3. Managed' => row'.pid = IF processes' # NoChild THEN processes'.inst ELSE adopted'
      BY <1>n, <2>2 DEF ManageInv
  <2> QED BY <1>n, <2>1, <2>3 DEF ManageInv
<1>7. AutoInv' BY <1>n DEF AutoInv
<1>8. LiveInv'
  <2>1. CASE adopted' = adopted /\ row'.pid = row.pid /\ live' \ lost' \subseteq {Owner}
    <3>1. Owner' = Owner
        BY <1>n, <2>1 DEF Owner
    <3> QED BY <2>1, <3>1 DEF LiveInv
  <2>2. CASE adopted # None /\ adopted' = None /\ live' \ lost' = {}
    <3>1. processes = NoChild /\ processes' = NoChild /\ spawn'.inst = None
        BY <2>2, Shapes DEF ManageInv
    <3>2. Owner' = None /\ None \notin lost'
        BY <1>n, <2>2, <3>1, ProcessAssumption DEF Owner, TypeOK
    <3> QED BY <2>2, <3>2 DEF LiveInv
  <2> QED BY <2>1, <2>2
<1>9. StopInv' BY <1>n DEF StopInv
<1> QED BY <1>1, <1>3, <1>4, <1>5, <1>6, <1>7, <1>8, <1>9

\* The operation begins its spawn.
LEMMA CmdBegins ==
    ASSUME TypeOK, SafeInv, TypeOK', Begun, cmd.pc # "spawn",
           cmd.kind \in {"start", "restart", "reap", "autostart"},
           UNCHANGED <<outside, up, auto>>,
           processes' = NoChild, adopted' = None, processes = NoChild,
           row'.pid = row.pid \/ adopted # None,
           lost' = lost, live' \ lost' \subseteq {}, lost' \subseteq live'
    PROVE  SafeInv'
<1> USE DEF SafeInv, Begun
<1>n. /\ NoTimer' = NoTimer /\ NoChild' = NoChild /\ NoCmd' = NoCmd /\ NoSpawn' = NoSpawn /\ NoAuto' = NoAuto
      /\ Reserved' /\ ~Managed' /\ spawn' # NoSpawn /\ cmd'.kind # "none" /\ cmd' # NoCmd
    BY Nothing DEF Reserved, Managed, NoTimer, NoChild, NoCmd, NoSpawn, NoAuto
<1>1. DownInv' BY DEF DownInv
<1>2. CmdInv' BY <1>n DEF CmdInv
<1>3. KillInv' BY DEF KillInv
<1>4. SpawnInv'
  <2>1. auto.pc # "spawn"
      BY Shapes DEF SpawnInv
  <2> QED BY <1>n, <2>1 DEF SpawnInv
<1>5. BootInv' BY DEF BootInv
<1>6. ManageInv' BY <1>n DEF ManageInv
<1>7. AutoInv' BY <1>n DEF AutoInv
<1>8. LiveInv'
  <2>1. Owner' = None /\ None \notin lost'
      BY <1>n, ProcessAssumption DEF Owner, TypeOK
  <2> QED BY <2>1 DEF LiveInv
<1>9. StopInv' BY DEF StopInv
<1> QED BY <1>1, <1>2, <1>3, <1>4, <1>5, <1>6, <1>7, <1>8, <1>9

-----------------------------------------------------------------------------
(* The steps of a spawn keep SafeInv                                       *)

\* A process that has been spawned is managed from then on.
LEMMA SpawnRegisters ==
    ASSUME TypeOK, SafeInv, TypeOK', Reserved, spawn.pc \in {"wait", "verify"},
           StillWanted, SettleOk, row'.pid = spawn.inst,
           IF outside
           THEN adopted' = spawn.inst /\ UNCHANGED processes
           ELSE /\ adopted' = None
                /\ processes' = [inst |-> spawn.inst, count |-> spawn.count, intentional |-> FALSE],
           UNCHANGED <<outside, up, retry, autos, live, lost>>
    PROVE  SafeInv'
<1> USE DEF SafeInv
<1>0. /\ up = "up" /\ desired = "running" /\ holder = spawn.by /\ spawn.inst # None
      /\ processes = NoChild /\ adopted = None /\ spawn.by \in {"cmd", "auto"}
      /\ Owner = spawn.inst /\ spawn # NoSpawn
    BY Shapes DEF StillWanted, Current, SpawnInv, Reserved
<1>f. /\ spawn' = NoSpawn /\ UNCHANGED <<desired, holder, timer>>
      /\ spawn.by = "auto" => auto' = NoAuto /\ cmd' = cmd /\ answer' = answer
      /\ spawn.by = "cmd" => auto' = auto /\ cmd' = NoCmd /\ (answer' = "stopped" => cmd.kind = "stop")
    BY <1>0, TypesAgree, Succeeds
<1>n. /\ ~Reserved' /\ spawn'.by = "none" /\ spawn'.pc = "none" /\ timer = NoTimer
      /\ NoTimer' = NoTimer /\ timer' = NoTimer /\ NoChild' = NoChild /\ NoCmd' = NoCmd /\ NoSpawn' = NoSpawn
      /\ spawn'.inst = None
    BY <1>f, Nothing DEF Reserved, SpawnInv, NoTimer, NoChild, NoCmd, NoSpawn
<1>p. /\ outside => adopted' = spawn.inst /\ processes' = NoChild
      /\ ~outside => adopted' = None /\ processes'.inst = spawn.inst /\ processes' # NoChild
    BY <1>0, Nothing
<1>1. DownInv' BY <1>0 DEF DownInv
<1>2. CmdInv' BY <1>0, <1>f, <1>n, Nothing DEF CmdInv
<1>3. KillInv' BY <1>0, <1>f, <1>n, Nothing DEF KillInv
<1>4. SpawnInv' BY <1>0, <1>f, <1>n, Nothing DEF SpawnInv
<1>5. BootInv'
  <2>1. ~(cmd'.kind = "autostart" /\ cmd'.pc = "env")
      BY <1>0, <1>f, Nothing DEF BootInv, Reserved
  <2> QED BY <2>1 DEF BootInv
<1>6. ManageInv' BY <1>0, <1>n, <1>p DEF ManageInv
<1>7. AutoInv'
  <2>1. holder' = "auto" => auto'.pc = "idle" /\ up' = "up" /\ desired' = "running"
      BY <1>0, <1>f, Nothing
  <2>2. auto'.pc # "idle" => ~outside' /\ auto'.count < MaxRestart /\ Policy # "no"
      BY <1>0, <1>f, Nothing DEF AutoInv
  <2> QED BY <1>n, <2>1, <2>2 DEF AutoInv
<1>8. LiveInv'
  <2>1. Owner' = Owner
      BY <1>0, <1>n, <1>p DEF Owner
  <2> QED BY <1>0, <2>1 DEF LiveInv
<1>9. StopInv' BY <1>0, <1>f DEF StopInv, CmdInv, SpawnInv
<1> QED BY <1>1, <1>2, <1>3, <1>4, <1>5, <1>6, <1>7, <1>8, <1>9

\* The steps of a spawn keep SafeInv.
LEMMA SpawnSafe ==
    ASSUME TypeOK, SafeInv, TypeOK', SpawnStep
    PROVE  SafeInv'
<1> USE DEF SafeInv
<1>0. None \notin live /\ None \notin live'
    BY ProcessAssumption DEF TypeOK
<1>a. ASSUME NEW pc, pc # "none", AtSpawn(pc)
      PROVE  /\ Reserved /\ spawn.pc = pc /\ UNCHANGED <<outside, up, retry, raised, autos>>
             /\ processes = NoChild /\ adopted = None /\ spawn.by \in {"cmd", "auto"}
             /\ lost \subseteq live /\ spawn.inst \notin lost /\ live \ lost \subseteq {spawn.inst}
             /\ Owner = spawn.inst
    BY <1>a, Shapes DEF AtSpawn, LiveInv
<1>g. ASSUME NEW pc \in {"port", "prep", "launch", "wait", "verify", "cancel"}, SpawnGoes(pc)
      PROVE  /\ spawn'.pc = pc /\ spawn'.by = spawn.by /\ spawn'.inst = spawn.inst
             /\ UNCHANGED <<auto, cmd, desired, holder, timer, answer>>
    BY <1>g, Goes, TypesAgree DEF Types
<1>1. CASE ClearPort
  <2>1. AtSpawn("port") /\ UNCHANGED <<processes, adopted, row>> /\ spawn.inst = None /\ live = lost
      BY <1>0, <1>1, <1>a DEF ClearPort, SpawnInv, AtSpawn
  <2>2. CASE SpawnGoes("prep") /\ live' = lost'
      BY <1>0, <1>a, <1>g, <2>1, <2>2, SpawnGoesOn
  <2>3. CASE SettleFailed /\ UNCHANGED <<live, lost>>
      BY <1>0, <1>a, <2>1, <2>3, SpawnGivesUp
  <2> QED BY <1>1, <2>1, <2>2, <2>3 DEF ClearPort
<1>2. CASE Prepared
  <2>1. AtSpawn("prep") /\ UNCHANGED <<processes, adopted>> /\ spawn.inst = None /\ live = lost
      BY <1>0, <1>2, <1>a DEF Prepared, SpawnInv, AtSpawn
  <2>2. CASE SettleFailed /\ UNCHANGED <<live, lost>>
      BY <1>0, <1>a, <2>1, <2>2, SpawnGivesUp
  <2>3. CASE outside /\ Row("pending", None) /\ SpawnGoes("launch") /\ UNCHANGED <<live, lost, faults>>
      BY <1>0, <1>a, <1>g, <2>1, <2>3, SpawnGoesOn
  <2>4. ASSUME NEW i \in Insts, ~outside, Free(i), live' = live \cup {i}, Row("pending", i),
               spawn' = [spawn EXCEPT !.pc = "wait", !.inst = i],
               UNCHANGED <<auto, cmd, desired, holder, timer, answer, lost, faults>>
        PROVE  SafeInv'
    <3>1. row'.pid = i /\ i \notin live /\ i # None
        BY <2>4, ProcessAssumption DEF Row, Free, Alive
    <3>2. spawn'.by = spawn.by /\ spawn'.pc = "wait" /\ spawn'.inst = i
        BY <2>4 DEF TypeOK
    <3>3. lost' \subseteq live' /\ i \notin lost' /\ live' \ lost' \subseteq {i}
        BY <2>1, <2>4, <3>1
    <3> QED BY <1>a, <2>1, <2>4, <3>1, <3>2, <3>3, SpawnGoesOn
  <2> QED BY <1>2, <2>2, <2>3, <2>4 DEF Prepared
<1>3. CASE Launched
  <2>1. PICK i \in Insts : Free(i) /\ live' = live \cup {i} /\ spawn' = [spawn EXCEPT !.inst = i]
      BY <1>3 DEF Launched
  <2>2. /\ AtSpawn("launch") /\ spawn.inst = None /\ live = lost
        /\ UNCHANGED <<processes, adopted, auto, cmd, desired, holder, timer, row, answer, lost, faults>>
      BY <1>0, <1>3, <1>a DEF Launched
  <2>3. spawn'.by = spawn.by /\ spawn'.pc = spawn.pc /\ spawn'.inst = i /\ i \notin live
      BY <2>1 DEF TypeOK, Free, Alive
  <2>4. lost' \subseteq live' /\ i \notin lost' /\ live' \ lost' \subseteq {i}
      BY <2>1, <2>2, <2>3
  <2>5. outside
      BY <2>2 DEF AtSpawn, SpawnInv
  <2>6. /\ Reserved /\ spawn'.pc = "launch" /\ spawn'.by = spawn.by
        /\ UNCHANGED <<outside, up, retry, autos>>
      BY <1>a, <2>2, <2>3, <2>5
  <2> QED BY <2>2, <2>3, <2>4, <2>5, <2>6, SpawnGoesOn
<1>4. CASE LaunchEnds
  <2>1. AtSpawn("launch") /\ UNCHANGED <<live, processes, adopted>> /\ outside
      BY <1>4 DEF LaunchEnds, AtSpawn, SpawnInv
  <2>2. CASE spawn.inst # None /\ Row("pending", spawn.inst) /\ SpawnGoes("verify") /\ UNCHANGED <<lost, faults>>
    <3>1. row'.pid = spawn.inst
        BY <2>2 DEF Row
    <3> QED BY <1>a, <1>g, <2>1, <2>2, <3>1, SpawnGoesOn
  <2>3. CASE Forget({spawn.inst}) /\ SettleFailed
    <3>1. lost' = live
        BY <1>a, <2>1, <2>3 DEF Forget
    <3> QED BY <1>0, <1>a, <2>1, <2>3, <3>1, SpawnGivesUp
  <2> QED BY <1>4, <2>2, <2>3 DEF LaunchEnds
<1>5. CASE Spawned
  <2>1. ASSUME NEW pc \in {"wait", "verify"}, AtSpawn(pc), Register, UNCHANGED <<live, lost>>
        PROVE  SafeInv'
    <3>0. spawn.inst # None /\ row.pid = spawn.inst /\ Reserved
        BY <1>a, <2>1 DEF SpawnInv
    <3>1. CASE StillWanted
      <4>1. row'.pid = spawn.inst
          BY <2>1, <3>1 DEF Register, Row
      <4> QED BY <1>a, <2>1, <3>0, <3>1, <4>1, SpawnRegisters DEF Register
    <3>2. CASE ~StillWanted
      <4>1. SpawnGoes("cancel") /\ UNCHANGED <<processes, adopted, row>>
          BY <2>1, <3>2 DEF Register
      <4> QED BY <1>a, <1>g, <2>1, <3>0, <3>2, <4>1, SpawnGoesOn DEF StillWanted
    <3> QED BY <3>1, <3>2
  <2>2. ASSUME AtSpawn("verify"), SettleFailed, UNCHANGED <<live, processes, adopted>>,
               lost' = live
        PROVE  SafeInv'
      BY <1>0, <1>a, <2>2, SpawnGivesUp
  <2>3. CASE /\ AtSpawn("verify") /\ Identity(spawn.inst, "unreadable")
             /\ Row("crashed", spawn.inst) /\ Forget({spawn.inst}) /\ SettleFailed
             /\ UNCHANGED <<live, processes, adopted>>
    <3>1. lost' = live
        BY <1>a, <2>3 DEF Forget
    <3> QED BY <2>2, <2>3, <3>1
  <2>4. CASE /\ AtSpawn("verify") /\ Identity(spawn.inst, "exited")
             /\ Row("crashed", None) /\ SettleFailed
             /\ UNCHANGED <<live, processes, adopted, lost>>
    <3>1. lost' = live
        BY <1>a, <2>4 DEF Identity, Alive
    <3> QED BY <2>2, <2>4, <3>1
  <2> QED BY <1>5, <2>1, <2>3, <2>4 DEF Spawned
<1>6. CASE Cancel
  <2>1. AtSpawn("cancel") /\ UNCHANGED <<processes, lost>> /\ SettleFailed
      BY <1>6 DEF Cancel
  <2>2. CASE live' = live \ {spawn.inst} /\ UNCHANGED adopted
    <3>1. lost' \subseteq live' /\ adopted' = None /\ live' \ lost' \subseteq {} /\ adopted' \notin lost'
        BY <1>0, <1>a, <2>1, <2>2
    <3> QED BY <1>a, <2>1, <3>1, SpawnGivesUp
  <2>3. CASE adopted' = spawn.inst /\ UNCHANGED <<live, row>>
    <3>1. row.pid = spawn.inst /\ spawn.pc = "cancel"
        BY <1>a, <2>1 DEF SpawnInv
    <3> QED BY <1>a, <2>1, <2>3, <3>1, SpawnGivesUp
  <2> QED BY <1>6, <2>2, <2>3 DEF Cancel
<1> QED BY <1>1, <1>2, <1>3, <1>4, <1>5, <1>6 DEF SpawnStep

-----------------------------------------------------------------------------
(* The steps of the queue keep SafeInv                                     *)

\* The data of the service as a step of the queue may leave it.
DataKept ==
    /\ processes'.inst = processes.inst /\ (processes' = NoChild <=> processes = NoChild)
    /\ \/ adopted' = adopted /\ row'.pid = row.pid /\ live' \ lost' \subseteq {Owner} /\ Owner \notin lost'
       \/ adopted # None /\ adopted' = None /\ live' \ lost' = {}
    /\ lost' \subseteq live'

\* A step that leaves the processes and the row alone keeps the data.
LEMMA DataStays ==
    ASSUME TypeOK, SafeInv, up # "down", UNCHANGED <<processes, adopted, row>>,
           live' \subseteq live, lost' = lost \cap live'
    PROVE  DataKept
BY DEF SafeInv, LiveInv, DataKept

\* A dead adoption is dropped.
LEMMA DataPruned ==
    ASSUME TypeOK, SafeInv, up # "down", Prune, UNCHANGED <<live, lost, processes>>
    PROVE  /\ DataKept
           /\ ~Valid => /\ processes' = NoChild /\ adopted' = None /\ processes = NoChild
                        /\ row'.pid = row.pid \/ adopted # None
                        /\ ~Reserved => live' \ lost' = {}
<1> USE DEF SafeInv
<1>0. TypeMemory /\ None \notin live
    BY TypesAgree, Shapes DEF Types
<1>1. CASE UNCHANGED <<adopted, row>> /\ (adopted = None \/ Valid)
  <2>1. DataKept
      BY <1>1 DEF LiveInv, DataKept
  <2>2. ASSUME ~Valid
        PROVE  /\ processes' = NoChild /\ adopted' = None /\ processes = NoChild
               /\ ~Reserved => live' \ lost' = {}
    <3>1. processes = NoChild /\ adopted = None
        BY <1>1, <2>2 DEF Valid
    <3>2. ~Reserved => Owner = None
        BY <3>1, Shapes DEF Owner
    <3> QED BY <1>0, <1>1, <3>1, <3>2 DEF LiveInv
  <2> QED BY <1>1, <2>1, <2>2
<1>2. CASE adopted # None /\ ~Valid /\ adopted' = None /\ row'.pid = None /\ row'.state = "crashed"
  <2>1. processes = NoChild /\ adopted \notin live /\ Owner = adopted
      BY <1>2 DEF Valid, Alive, Owner
  <2>2. live \ lost = {} /\ lost \subseteq live
      BY <2>1 DEF LiveInv
  <2> QED BY <1>2, <2>1, <2>2 DEF DataKept
<1> QED BY <1>0, <1>1, <1>2, Prunes

\* An operation of the queue that ends without a spawn.
LEMMA CmdEnds ==
    ASSUME TypeOK, SafeInv, TypeOK', DataKept, cmd # NoCmd, cmd.pc # "spawn", cmd' = NoCmd,
           UNCHANGED <<outside, up, spawn, auto>>,
           \/ desired' = desired /\ holder' = holder /\ timer' = timer
           \/ timer' = NoTimer /\ holder' # "auto",
           answer' = "stopped" => desired' # "running" /\ spawn' = NoSpawn /\ live' \ lost' = {}
    PROVE  SafeInv'
<1>1. up = "up" \/ up = "closing"
    BY Shapes DEF SafeInv, DownInv
<1>2. CmdInv'
    BY Nothing DEF CmdInv, NoCmd
<1>3. cmd'.pc = "idle" /\ cmd'.kind = "none"
    BY Nothing
<1> QED BY <1>1, <1>2, <1>3, CmdGoesOn DEF DataKept

\* An operation that is refused its spawn, or begins it.
LEMMA CmdSpawns ==
    ASSUME TypeOK, SafeInv, TypeOK', DataKept, cmd # NoCmd, cmd.pc # "spawn",
           cmd.kind \in {"start", "restart", "reap", "autostart"},
           NEW managed \in BOOLEAN, Begin(managed), UNCHANGED <<outside, up, auto>>,
           ~managed => /\ processes' = NoChild /\ adopted' = None /\ processes = NoChild
                       /\ row'.pid = row.pid \/ adopted # None
                       /\ ~Reserved => live' \ lost' = {},
           lost' = lost
    PROVE  SafeInv'
<1>1. (Begun /\ ~managed) \/ Denied
    BY TypesAgree, Begins
<1>2. CASE Begun /\ ~managed
  <2>1. ~Reserved
      BY <1>2 DEF Begun
  <2> QED BY <1>2, <2>1, CmdBegins DEF DataKept
<1>3. CASE Denied
    BY <1>3, CmdEnds DEF Denied
<1> QED BY <1>1, <1>2, <1>3

\* A kill returns, and stop or restart goes on.
LEMMA KillReturned ==
    ASSUME TypeOK, SafeInv, TypeOK', DataKept, cmd.pc \in {"killwait", "term", "verify", "tree"},
           NEW ok \in BOOLEAN, NEW managed \in BOOLEAN, KillReturns(ok, managed) \/ KillThrows,
           KillThrows \/ (lost' = lost /\ (ok => /\ processes' = NoChild /\ adopted' = None /\ processes = NoChild
                                                 /\ row'.pid = row.pid \/ adopted # None
                                                 /\ live' \ lost' = {})),
           ~Reserved, UNCHANGED <<outside, up, auto>>
    PROVE  SafeInv'
<1>0. /\ cmd # NoCmd /\ cmd.kind \in {"stop", "restart"} /\ desired = "stopped" /\ spawn = NoSpawn
    BY Nothing DEF SafeInv, CmdInv, KillInv, Reserved
<1>1. CASE KillThrows
    BY <1>0, <1>1, Answers, CmdEnds DEF KillThrows
<1>2. CASE ~KillThrows /\ Begin(managed) /\ ok /\ cmd.kind = "restart"
    BY <1>0, <1>2, CmdSpawns
<1>3. CASE ~KillThrows /\ Answer(ok) /\ UNCHANGED <<desired, holder, timer, spawn, autos>>
    BY <1>0, <1>3, Answers, CmdEnds
<1> QED BY <1>1, <1>2, <1>3 DEF KillReturns

\* The steps of killService keep SafeInv.
LEMMA KillSafe ==
    ASSUME TypeOK, SafeInv, TypeOK', KillStep
    PROVE  SafeInv'
<1> USE DEF SafeInv
<1>0. None \notin live /\ cmd.cancels \in BOOLEAN /\ Managed \in BOOLEAN
    BY ProcessAssumption DEF TypeOK, Managed
<1>a. ASSUME NEW pc \in {"killwait", "term", "verify", "tree"}, AtKill(pc)
      PROVE  /\ cmd.pc = pc /\ cmd # NoCmd /\ cmd.kind \in {"stop", "restart"} /\ desired = "stopped"
             /\ up # "down" /\ (up = "up" \/ up = "closing") /\ answer # "stopped"
             /\ UNCHANGED <<outside, up, auto, retry, raised>>
             /\ lost \subseteq live /\ Owner \notin lost /\ live \ lost \subseteq {Owner}
    BY <1>a, Nothing, Shapes DEF AtKill, CmdInv, KillInv, DownInv, StopInv, LiveInv
<1>b. ASSUME NEW pc \in {"killwait", "term", "verify", "tree"}, AtKill(pc), DataKept, StillKilling,
             NEW to \in {"term", "verify", "tree"}, To(to), ~Reserved,
             to = "term" => adopted' = None,
             to \in {"verify", "tree"} => processes' = NoChild /\ adopted' # None
      PROVE  SafeInv'
  <2>1. cmd'.pc = to /\ cmd'.kind = cmd.kind
      BY <1>b, Moves, TypesAgree DEF Types
  <2>2. CmdInv'
      BY <1>a, <1>b, <2>1, Nothing DEF CmdInv, NoCmd
  <2>3. spawn' = NoSpawn
      BY <1>b DEF StillKilling, Reserved
  <2> QED BY <1>a, <1>b, <2>1, <2>2, <2>3, CmdGoesOn DEF DataKept, StillKilling
<1>1. CASE KillWait
  <2>1. AtKill("killwait") /\ ~Reserved /\ UNCHANGED <<live, adopted, row, lost, faults>>
      BY <1>1 DEF KillWait, SpawnSettled
  <2>2. CASE /\ processes # NoChild /\ processes' = [processes EXCEPT !.intentional = TRUE]
             /\ To("term") /\ StillKilling
    <3>1. processes.inst # None /\ adopted = None
        BY <2>2 DEF ManageInv
    <3>2. processes'.inst = processes.inst /\ processes' # NoChild
        BY <2>2, <3>1, Nothing DEF TypeOK
    <3>3. DataKept
        BY <1>a, <2>1, <2>2, <3>2 DEF DataKept
    <3> QED BY <1>b, <2>1, <2>2, <3>1, <3>3
  <2>3. CASE processes = NoChild /\ adopted # None /\ To("verify") /\ StillKilling /\ UNCHANGED processes
    <3>1. DataKept
        BY <1>a, <2>1, <2>3, DataStays DEF LiveInv
    <3> QED BY <1>b, <2>1, <2>3, <3>1
  <2>4. CASE ~Managed /\ KillReturns(cmd.cancels, FALSE) /\ UNCHANGED processes
    <3>1. DataKept
        BY <1>a, <2>1, <2>4 DEF DataKept
    <3>2. processes = NoChild /\ adopted = None /\ live \ lost = {}
        BY <1>0, <1>a, <2>1, <2>4, Shapes DEF Managed, Owner
    <3> QED BY <1>0, <1>a, <2>1, <2>4, <3>1, <3>2, KillReturned
  <2> QED BY <1>1, <2>2, <2>3, <2>4 DEF KillWait
<1>2. CASE Terminate
  <2>1. /\ UNCHANGED <<outside, up, memory, row, answer, autos>>
        /\ live' = live \ {processes.inst} /\ UNCHANGED lost
      BY <1>2 DEF Terminate, AtKill, StillKilling, memory
  <2>2. processes # NoChild
      BY <1>0, <1>2, Nothing DEF Terminate, Alive
  <2>3. lost' = lost \cap live'
      BY <1>2, <1>a, <2>1, <2>2 DEF Terminate, Owner
  <2> QED BY <2>1, <2>3, ProcessEnds
<1>3. CASE TerminateEnds
  <2>1. AtKill("term") /\ UNCHANGED <<live, adopted, row, lost>> /\ ~Reserved /\ adopted = None
      BY <1>3 DEF TerminateEnds, AtKill, KillInv, Reserved
  <2>2. CASE processes = NoChild /\ KillReturns(TRUE, Managed) /\ UNCHANGED processes
    <3>1. DataKept /\ live \ lost = {}
        BY <1>0, <1>a, <2>1, <2>2, Shapes DEF DataKept, Owner
    <3> QED BY <1>0, <1>a, <2>1, <2>2, <3>1, KillReturned
  <2>3. CASE processes # NoChild /\ processes' = [processes EXCEPT !.intentional = FALSE] /\ KillThrows
    <3>1. processes.inst # None
        BY <2>3 DEF ManageInv
    <3>2. processes'.inst = processes.inst /\ processes' # NoChild
        BY <2>3, <3>1, Nothing DEF TypeOK
    <3>3. DataKept
        BY <1>a, <2>1, <2>3, <3>2 DEF DataKept
    <3> QED BY <1>a, <2>1, <2>3, <3>3, KillReturned
  <2> QED BY <1>3, <2>2, <2>3 DEF TerminateEnds
<1>4. CASE Verify
  <2>1. /\ AtKill("verify") /\ UNCHANGED <<live, processes>> /\ ~Reserved
        /\ processes = NoChild /\ adopted # None /\ Owner = adopted
      BY <1>4, <1>a DEF Verify, AtKill, KillInv, Reserved, Owner
  <2>2. CASE To("tree") /\ StillKilling /\ UNCHANGED <<adopted, row, lost>>
    <3>1. DataKept
        BY <1>a, <2>1, <2>2 DEF DataKept
    <3> QED BY <1>b, <2>1, <2>2, <3>1
  <2>3. CASE Forget({adopted}) /\ adopted' = None /\ KillThrows
    <3>1. lost' = live
        BY <1>a, <2>1, <2>3 DEF Forget
    <3>2. DataKept
        BY <2>1, <2>3, <3>1 DEF DataKept
    <3> QED BY <1>a, <2>1, <2>3, <3>2, KillReturned
  <2>4. CASE Identity(adopted, "exited") /\ adopted' = None /\ KillReturns(TRUE, FALSE) /\ UNCHANGED lost
    <3>1. live \ lost = {}
        BY <1>a, <2>1, <2>4 DEF Identity, Alive
    <3>2. DataKept
        BY <1>a, <2>1, <2>4, <3>1 DEF DataKept
    <3> QED BY <1>a, <2>1, <2>4, <3>1, <3>2, KillReturned
  <2> QED BY <1>4, <2>2, <2>3, <2>4 DEF Verify
<1>5. CASE TreeKill
  <2>1. /\ AtKill("tree") /\ UNCHANGED <<processes, lost>> /\ ~Reserved
        /\ processes = NoChild /\ adopted # None /\ Owner = adopted
      BY <1>5, <1>a DEF TreeKill, AtKill, KillInv, Reserved, Owner
  <2>2. CASE live' = live \ {adopted} /\ adopted' = None /\ KillReturns(TRUE, FALSE)
    <3>1. live' \ lost' = {} /\ lost' \subseteq live'
        BY <1>a, <2>1, <2>2
    <3>2. DataKept
        BY <2>1, <2>2, <3>1 DEF DataKept
    <3> QED BY <1>a, <2>1, <2>2, <3>1, <3>2, KillReturned
  <2>3. CASE KillThrows /\ UNCHANGED <<live, adopted, row>>
    <3>1. DataKept
        BY <1>a, <2>1, <2>3 DEF DataKept
    <3> QED BY <1>a, <2>1, <2>3, <3>1, KillReturned
  <2> QED BY <1>5, <2>2, <2>3 DEF TreeKill
<1> QED BY <1>1, <1>2, <1>3, <1>4, <1>5 DEF KillStep

\* The fields of no operation.
LEMMA EmptyCmd == NoCmd \in [kind : {"none"}, pc : {"idle"}, cancels : {FALSE}]
BY DEF NoCmd

\* A request keeps SafeInv.
LEMMA CommandSafe ==
    ASSUME TypeOK, SafeInv, TypeOK', NEW kind \in Requests, Command(kind)
    PROVE  SafeInv'
<1> USE DEF SafeInv
<1>0. /\ up = "up" /\ cmd = NoCmd /\ cmd.pc # "spawn" /\ answer' = "none"
      /\ UNCHANGED <<outside, live, up, processes, adopted, spawn, auto, row, lost>>
    BY Nothing DEF Command, OpensQueue
<1>1. DataKept
    BY <1>0 DEF DataKept, LiveInv
<1>2. \/ desired' = desired /\ holder' = holder /\ timer' = timer
      \/ timer' = NoTimer /\ holder' # "auto"
    BY DEF Command, Requests, MarkDesired
<1>3. \/ /\ kind = "start" /\ cmd' = [NoCmd EXCEPT !.kind = kind, !.pc = "settle"]
      \/ /\ kind = "restart" /\ cmd' = [NoCmd EXCEPT !.kind = kind, !.pc = "settle"]
      \/ /\ kind = "status" /\ cmd' = [NoCmd EXCEPT !.kind = kind, !.pc = "validate"]
      \/ /\ kind = "kill-port" /\ cmd' = [NoCmd EXCEPT !.kind = kind, !.pc = "port"]
      \/ /\ kind = "stop" /\ desired' = "stopped"
         /\ cmd' = [kind |-> kind, pc |-> "killwait", cancels |-> (timer # NoTimer \/ Reserved)]
    BY DEF Command, Requests, MarkDesired
<1>4. /\ CmdInv' /\ cmd'.pc \notin {"spawn", "env", "term", "verify", "tree"}
      /\ cmd'.pc = "killwait" => desired' = "stopped"
  <2>2. /\ cmd'.kind = kind
        /\ \/ kind \in {"start", "restart"} /\ cmd'.pc = "settle"
           \/ kind = "status" /\ cmd'.pc = "validate"
           \/ kind = "kill-port" /\ cmd'.pc = "port"
           \/ kind = "stop" /\ cmd'.pc = "killwait" /\ desired' = "stopped"
    <3>1. CASE kind = "stop"
        BY <1>3, <3>1
    <3>2. CASE kind = "status"
        BY <1>3, <3>2, EmptyCmd
    <3>3. CASE kind = "kill-port"
        BY <1>3, <3>3, EmptyCmd
    <3>4. CASE kind \in {"start", "restart"}
      <4>1. cmd' = [NoCmd EXCEPT !.kind = kind, !.pc = "settle"]
          BY <1>3, <3>4
      <4> QED BY <3>4, <4>1, EmptyCmd
    <3> QED BY <3>1, <3>2, <3>3, <3>4 DEF Requests
  <2> QED BY <2>2, Nothing DEF CmdInv, Requests
<1> QED BY <1>0, <1>1, <1>2, <1>4, CmdGoesOn DEF DataKept

\* The operations of the queue keep SafeInv.
LEMMA QueueSafe ==
    ASSUME TypeOK, SafeInv, TypeOK', QueueStep
    PROVE  SafeInv'
<1> USE DEF SafeInv
<1>0. Managed \in BOOLEAN /\ TypeCmd
    BY TypesAgree DEF Managed, Types
\* The operation goes on.
<1>g. ASSUME cmd # NoCmd, cmd.pc # "spawn", UNCHANGED <<outside, up, spawn, auto>>, DataKept,
             \/ desired' = desired /\ holder' = holder /\ timer' = timer
             \/ timer' = NoTimer /\ holder' # "auto",
             answer' # "stopped", cmd'.kind = cmd.kind,
             \/ cmd'.pc = "settle" /\ cmd.kind \in {"start", "restart", "reap"}
             \/ cmd'.pc = "validate" /\ cmd.kind \in {"start", "restart", "reap", "status"}
             \/ cmd'.pc = "env" /\ cmd.kind \in {"start", "restart", "reap"}
             \/ cmd'.pc = "killwait" /\ cmd.kind \in {"stop", "restart"} /\ desired' = "stopped"
      PROVE  SafeInv'
  <2>1. CmdInv' /\ cmd'.pc \notin {"spawn", "term", "verify", "tree"}
      BY <1>g, Nothing DEF CmdInv
  <2>2. ~(cmd'.kind = "autostart" /\ cmd'.pc = "env")
      BY <1>g
  <2>3. up = "up" \/ up = "closing"
      BY <1>g, Shapes DEF DownInv
  <2> QED BY <1>g, <2>1, <2>2, <2>3, CmdGoesOn DEF DataKept
<1>n. ASSUME cmd.pc \in {"settle", "validate", "env", "port", "check"}
      PROVE  cmd # NoCmd /\ up # "down" /\ answer # "stopped" /\ cmd.pc # "spawn"
    BY <1>n, Nothing DEF DownInv, StopInv
<1>1. CASE Settled
  <2>1. /\ cmd.pc = "settle" /\ UnchangedWorld /\ cmd.kind \in {"start", "restart", "reap"}
        /\ UNCHANGED <<adopted, desired, holder, timer, spawn, auto, row, answer>>
      BY <1>1 DEF Settled, CmdInv
  <2>2. DataKept
      BY <1>n, <2>1 DEF DataKept, LiveInv, UnchangedWorld
  <2>3. cmd'.kind = cmd.kind /\ (\/ cmd'.pc = "env"
                                 \/ cmd'.pc = "validate" /\ cmd.kind \in {"start", "reap"})
      BY <1>0, <1>1, <2>1, Moves DEF Settled
  <2> QED BY <1>g, <1>n, <2>1, <2>2, <2>3 DEF UnchangedWorld
<1>2. CASE Validate
  <2>1. /\ cmd.pc = "validate" /\ Prune /\ UnchangedWorld /\ UNCHANGED auto
        /\ cmd.kind \in {"start", "restart", "reap", "status"}
      BY <1>2 DEF Validate, CmdInv
  <2>2. /\ DataKept
        /\ ~Valid => /\ processes' = NoChild /\ adopted' = None /\ processes = NoChild
                     /\ row'.pid = row.pid \/ adopted # None
                     /\ ~Reserved => live' \ lost' = {}
      BY <1>n, <2>1, DataPruned DEF UnchangedWorld
  <2>3. CASE cmd.kind = "restart" /\ KillBegins /\ UNCHANGED <<spawn, answer, autos>>
    <3>1. /\ desired' = "stopped" /\ holder' = "none" /\ timer' = NoTimer
          /\ cmd'.pc = "killwait" /\ cmd'.kind = cmd.kind
        BY <1>0, <2>3, KillStarts
    <3> QED BY <1>g, <1>n, <2>1, <2>2, <2>3, <3>1 DEF UnchangedWorld
  <2>4. CASE cmd.kind = "restart" /\ ~Valid /\ Begin(FALSE)
      BY <1>n, <2>1, <2>2, <2>4, CmdSpawns DEF UnchangedWorld
  <2>5. CASE /\ cmd' = NoCmd /\ answer' \in {"pruned", answer}
             /\ UNCHANGED <<desired, holder, timer, spawn, autos>>
      BY <1>n, <2>1, <2>2, <2>5, CmdEnds DEF UnchangedWorld
  <2>6. CASE /\ cmd.kind \in {"start", "reap"} /\ Answer(TRUE)
             /\ UNCHANGED <<desired, holder, timer, spawn, autos>>
      BY <1>n, <2>1, <2>2, <2>6, Answers, CmdEnds DEF UnchangedWorld
  <2>7. CASE /\ cmd.kind \in {"start", "reap"}
             /\ MarkDesired("running", "cmd") /\ To("env") /\ answer' = "none" /\ UNCHANGED <<spawn, autos>>
    <3>1. holder' = "cmd" /\ timer' = NoTimer /\ cmd'.pc = "env" /\ cmd'.kind = cmd.kind
        BY <1>0, <2>7, Moves, MarkTypes
    <3> QED BY <1>g, <1>n, <2>1, <2>2, <2>7, <3>1 DEF UnchangedWorld
  <2> QED BY <1>2, <2>1, <2>3, <2>4, <2>5, <2>6, <2>7 DEF Validate
<1>3. CASE EnvBuild
  <2>1. /\ cmd.pc = "env" /\ UnchangedWorld /\ UNCHANGED <<adopted, auto, retry, row>>
        /\ cmd.kind \in {"start", "restart", "reap", "autostart"}
      BY <1>3 DEF EnvBuild, CmdInv
  <2>2. DataKept
      BY <1>n, <2>1 DEF DataKept, LiveInv, UnchangedWorld
  <2>3. CASE /\ cmd.kind = "restart" /\ To("validate")
             /\ UNCHANGED <<desired, holder, timer, spawn, answer, autos, faults>>
    <3>1. cmd'.pc = "validate" /\ cmd'.kind = cmd.kind
        BY <1>0, <2>3, Moves
    <3> QED BY <1>g, <1>n, <2>1, <2>2, <2>3, <3>1 DEF UnchangedWorld
  <2>4. CASE Begin(Managed)
    <3>1. ASSUME ~Managed
          PROVE  /\ processes' = NoChild /\ adopted' = None /\ processes = NoChild
                 /\ ~Reserved => live' \ lost' = {}
      <4>1. /\ processes' = NoChild /\ adopted' = None /\ processes = NoChild
          BY <2>1, <3>1 DEF Managed, UnchangedWorld
      <4>2. ~Reserved => Owner = None
          BY <1>n, <2>1, <3>1, Shapes DEF Owner, Managed
      <4> QED BY <1>n, <2>1, <4>1, <4>2, Shapes DEF LiveInv, UnchangedWorld
    <3> QED BY <1>0, <1>n, <2>1, <2>2, <2>4, <3>1, CmdSpawns DEF UnchangedWorld
  <2>5. CASE MarkDesired("stopped", "none") /\ Answer(FALSE) /\ UNCHANGED <<spawn, autos>>
      BY <1>n, <2>1, <2>2, <2>5, Answers, MarkTypes, CmdEnds DEF UnchangedWorld
  <2>6. CASE Answer(FALSE) /\ UNCHANGED <<desired, holder, timer>> /\ UNCHANGED <<spawn, autos>>
      BY <1>n, <2>1, <2>2, <2>6, Answers, CmdEnds DEF UnchangedWorld
  <2> QED BY <1>3, <2>3, <2>4, <2>5, <2>6 DEF EnvBuild
<1>4. CASE KillPort
  <2>1. /\ cmd.pc = "port" /\ cmd.kind = "kill-port" /\ live' \subseteq live /\ lost' = lost \cap live'
        /\ UNCHANGED <<outside, up, processes, adopted, desired, holder, timer, spawn, auto, row>>
    <3>1. lost \subseteq live
        BY DEF LiveInv
    <3> QED BY <1>4, <3>1 DEF KillPort, CmdInv
  <2>2. DataKept
      BY <1>n, <2>1, DataStays
  <2>3. cmd' = NoCmd /\ answer' # "stopped"
      BY <1>4, <2>1, Answers DEF KillPort
  <2> QED BY <1>n, <2>1, <2>2, <2>3, CmdEnds
<1>5. CASE ReapCheck
  <2>1. /\ cmd.pc = "check" /\ cmd.kind = "reap" /\ Prune /\ UnchangedWorld
        /\ UNCHANGED <<desired, holder, timer, spawn, auto, answer>>
      BY <1>5 DEF ReapCheck, CmdInv
  <2>2. DataKept
      BY <1>n, <2>1, DataPruned DEF UnchangedWorld
  <2>3. CASE To("settle")
    <3>1. cmd'.pc = "settle" /\ cmd'.kind = cmd.kind
        BY <1>0, <2>3, Moves
    <3> QED BY <1>g, <1>n, <2>1, <2>2, <3>1 DEF UnchangedWorld
  <2>4. CASE cmd' = NoCmd
      BY <1>n, <2>1, <2>2, <2>4, CmdEnds DEF UnchangedWorld
  <2> QED BY <1>5, <2>3, <2>4 DEF ReapCheck
<1> QED BY <1>1, <1>2, <1>3, <1>4, <1>5, KillSafe DEF QueueStep

\* A tick of the reaper begins an operation or forgets its count.
LEMMA ReapTickSafe ==
    ASSUME TypeOK, SafeInv, TypeOK', ReapTick
    PROVE  SafeInv'
<1> USE DEF SafeInv
<1>1. /\ up = "up" /\ cmd = NoCmd /\ UnchangedWorld
      /\ UNCHANGED <<adopted, desired, holder, timer, spawn, auto, row, answer, autos>>
    BY DEF ReapTick, OpensQueue
<1>2. DataKept
    BY <1>1 DEF DataKept, LiveInv, UnchangedWorld
<1>3. cmd.pc # "spawn"
    BY <1>1, Nothing
<1>4. \/ cmd' = NoCmd /\ cmd'.pc = "idle"
      \/ desired = "running" /\ cmd'.kind = "reap" /\ cmd'.pc = "check"
  <2>1. \/ cmd' = NoCmd
        \/ desired = "running" /\ cmd' = [NoCmd EXCEPT !.kind = "reap", !.pc = "check"]
      BY <1>1 DEF ReapTick
  <2> QED BY <2>1, EmptyCmd, Nothing
<1>5. CmdInv'
    BY <1>4, Nothing DEF CmdInv, NoCmd
<1>6. answer' = "stopped" => cmd' = NoCmd /\ desired' # "running" /\ spawn' = NoSpawn /\ live' \ lost' = {}
    BY <1>1, <1>4 DEF StopInv, UnchangedWorld
<1> QED BY <1>1, <1>2, <1>3, <1>4, <1>5, <1>6, CmdGoesOn DEF DataKept, UnchangedWorld

-----------------------------------------------------------------------------
(* The remaining steps keep SafeInv                                        *)

\* A child that has exited is the owner no longer.
LEMMA ChildExitSafe ==
    ASSUME TypeOK, SafeInv, TypeOK', NEW clean \in BOOLEAN, ChildExit(clean)
    PROVE  SafeInv'
<1> USE DEF SafeInv
<1>0. /\ up # "down" /\ processes # NoChild /\ processes.inst \notin live /\ adopted = None /\ ~outside
      /\ Managed /\ ~Reserved /\ timer = NoTimer /\ spawn = NoSpawn /\ spawn.inst = None
      /\ UNCHANGED <<outside, live, up, adopted, desired, holder, spawn, auto, cmd, retry, lost, autos>>
      /\ answer' = "stopped" => answer = "stopped"
    BY Shapes DEF ChildExit, Alive, ManageInv, SpawnInv, AutoInv, Managed, Reserved
<1>n. /\ processes' = NoChild /\ ~Managed' /\ ~Reserved'
      /\ NoTimer' = NoTimer /\ NoChild' = NoChild /\ NoCmd' = NoCmd /\ NoSpawn' = NoSpawn /\ NoAuto' = NoAuto
    BY <1>0 DEF ChildExit, Managed, Reserved, NoTimer, NoChild, NoCmd, NoSpawn, NoAuto
<1>t. timer' # NoTimer => /\ up = "up" /\ desired = "running" /\ timer' < MaxRestart /\ Policy # "no"
  <2>1. processes.count \in Nat /\ MaxRestart \in Nat
      BY Fields, ProcessAssumption
  <2>2. timer' # NoTimer => /\ up = "up" /\ desired = "running" /\ Policy # "no" /\ ~Limit
                            /\ timer' = processes.count
      BY <1>0 DEF ChildExit
  <2> QED BY <2>1, <2>2 DEF Limit
<1>1. DownInv' BY <1>0 DEF DownInv
<1>2. CmdInv' BY <1>0, <1>n DEF CmdInv
<1>3. KillInv' BY <1>0, <1>n DEF KillInv
<1>4. SpawnInv' BY <1>0, <1>n, Nothing DEF SpawnInv
<1>5. BootInv' BY <1>0 DEF BootInv
<1>6. ManageInv' BY <1>n DEF ManageInv
<1>7. AutoInv' BY <1>0, <1>n, <1>t DEF AutoInv
<1>8. LiveInv'
  <2>1. Owner = processes.inst /\ Owner' = None /\ None \notin lost
      BY <1>0, <1>n, Shapes DEF Owner, LiveInv
  <2> QED BY <1>0, <2>1 DEF LiveInv
<1>9. StopInv' BY <1>0, <1>n DEF StopInv
<1> QED BY <1>1, <1>2, <1>3, <1>4, <1>5, <1>6, <1>7, <1>8, <1>9

\* The automatic restart takes over the generation.
LEMMA TimerFiresSafe ==
    ASSUME TypeOK, SafeInv, TypeOK', TimerFires
    PROVE  SafeInv'
<1> USE DEF SafeInv
<1>0. /\ timer # NoTimer /\ ~Managed /\ ~Reserved /\ up = "up" /\ desired = "running" /\ timer < MaxRestart
      /\ ~outside /\ Policy # "no" /\ spawn = NoSpawn
      /\ auto'.pc = "build" /\ auto'.count = timer /\ holder' = "auto" /\ timer' = NoTimer
      /\ UNCHANGED <<outside, live, up, processes, lost, adopted, desired, spawn, cmd, retry, row, answer, autos>>
    BY DEF TimerFires, AutoInv, UnchangedWorld, Reserved
<1>n. /\ ~Managed' /\ ~Reserved'
      /\ NoTimer' = NoTimer /\ NoChild' = NoChild /\ NoCmd' = NoCmd /\ NoSpawn' = NoSpawn /\ NoAuto' = NoAuto
    BY <1>0 DEF Managed, Reserved, NoTimer, NoChild, NoCmd, NoSpawn, NoAuto
<1>1. DownInv' BY <1>0 DEF DownInv
<1>2. CmdInv' BY <1>0, <1>n DEF CmdInv
<1>3. KillInv' BY <1>0, <1>n DEF KillInv
<1>4. SpawnInv' BY <1>0, <1>n, Nothing DEF SpawnInv
<1>5. BootInv' BY <1>0 DEF BootInv
<1>6. ManageInv' BY <1>0, <1>n DEF ManageInv
<1>7. AutoInv' BY <1>0, <1>n DEF AutoInv
<1>8. LiveInv' BY <1>0, <1>n DEF LiveInv, Owner
<1>9. StopInv' BY <1>0, <1>n DEF StopInv
<1> QED BY <1>1, <1>2, <1>3, <1>4, <1>5, <1>6, <1>7, <1>8, <1>9

\* The automatic restart spawns only while nothing else does.
LEMMA AutoRestartSafe ==
    ASSUME TypeOK, SafeInv, TypeOK', AutoRestart
    PROVE  SafeInv'
<1> USE DEF SafeInv
<1>0. /\ auto.pc = "build" /\ spawn.by # "auto"
      /\ UNCHANGED <<outside, live, up, processes, lost, adopted, desired, holder, timer, cmd, retry, row>>
      /\ ~(cmd.kind = "autostart" /\ cmd.pc = "env")
    BY Nothing DEF AutoRestart, UnchangedWorld, SpawnInv, BootInv
<1>n. /\ NoTimer' = NoTimer /\ NoChild' = NoChild /\ NoCmd' = NoCmd /\ NoSpawn' = NoSpawn /\ NoAuto' = NoAuto
      /\ (Managed' <=> Managed)
    BY <1>0 DEF Managed, NoTimer, NoChild, NoCmd, NoSpawn, NoAuto
<1>u. up # "down"
    BY <1>0, Nothing DEF DownInv
<1>1. DownInv' BY <1>0, <1>u DEF DownInv
<1>2. CmdInv' BY <1>0, <1>n DEF CmdInv
<1>5. BootInv' BY <1>0 DEF BootInv
<1>6. ManageInv' BY <1>0, <1>n DEF ManageInv
<1>a. CASE auto' = NoAuto /\ UNCHANGED spawn /\ (answer' = "stopped" => answer = "stopped")
  <2>0. auto'.pc = "idle" /\ (Reserved' <=> Reserved)
      BY <1>a, <1>n, Nothing DEF Reserved
  <2>3. KillInv' BY <1>0, <1>n, <1>a DEF KillInv
  <2>4. SpawnInv' BY <1>0, <1>n, <1>a, <2>0 DEF SpawnInv, Current
  <2>7. AutoInv' BY <1>0, <1>n, <1>a, <2>0 DEF AutoInv
  <2>8. LiveInv' BY <1>0, <1>n, <1>a DEF LiveInv, Owner
  <2>9. StopInv' BY <1>0, <1>n, <1>a DEF StopInv
  <2> QED BY <1>1, <1>2, <1>5, <1>6, <2>3, <2>4, <2>7, <2>8, <2>9
<1>b. CASE /\ Current("auto") /\ ~Managed /\ ~Reserved
           /\ spawn' = [by |-> "auto", pc |-> "port", inst |-> None, count |-> auto.count + 1]
           /\ auto' = [auto EXCEPT !.pc = "spawn"] /\ UNCHANGED answer
  <2>0. /\ spawn'.by = "auto" /\ spawn'.pc = "port" /\ spawn'.inst = None
        /\ spawn' # NoSpawn /\ Reserved'
        /\ auto'.pc = "spawn" /\ auto'.count = auto.count
      BY <1>b, <1>n, Nothing DEF TypeOK, Reserved
  <2>1. up = "up" /\ desired = "running" /\ holder = "auto" /\ timer = NoTimer /\ spawn = NoSpawn
      BY <1>0, <1>b DEF Current, AutoInv, Reserved
  <2>2. cmd.pc # "spawn" /\ spawn.inst = None
      BY <2>1, Nothing DEF SpawnInv
  <2>3. KillInv' BY <1>0, <1>n, <2>1 DEF KillInv
  <2>4. SpawnInv' BY <1>0, <1>n, <1>b, <2>0, <2>1, <2>2 DEF SpawnInv
  <2>7. AutoInv' BY <1>0, <1>n, <1>b, <2>0, <2>1 DEF AutoInv
  <2>8. LiveInv' BY <1>0, <1>n, <2>0, <2>2 DEF LiveInv, Owner
  <2>9. StopInv' BY <1>0, <1>b, <2>1 DEF StopInv
  <2> QED BY <1>1, <1>2, <1>5, <1>6, <2>3, <2>4, <2>7, <2>8, <2>9
<1> QED BY <1>a, <1>b DEF AutoRestart, Log

\* A closing supervisor ends every wish to restart.
LEMMA CloseSafe ==
    ASSUME TypeOK, SafeInv, TypeOK', Close
    PROVE  SafeInv'
<1> USE DEF SafeInv
<1>0. /\ up = "up" /\ up' = "closing" /\ timer' = NoTimer /\ holder' = "none" /\ retry' = 0
      /\ UNCHANGED <<outside, live, processes, adopted, desired, spawn, auto, cmd, row, raised, answer, lost, autos>>
    BY DEF Close, history
<1>n. /\ NoTimer' = NoTimer /\ NoChild' = NoChild /\ NoCmd' = NoCmd /\ NoSpawn' = NoSpawn /\ NoAuto' = NoAuto
      /\ (Managed' <=> Managed) /\ (Reserved' <=> Reserved)
    BY <1>0 DEF Managed, Reserved, NoTimer, NoChild, NoCmd, NoSpawn, NoAuto
<1>1. DownInv' BY <1>0 DEF DownInv
<1>2. CmdInv' BY <1>0, <1>n DEF CmdInv
<1>3. KillInv' BY <1>0, <1>n DEF KillInv
<1>4. SpawnInv' BY <1>0, <1>n DEF SpawnInv, Current
<1>5. BootInv' BY <1>0, <1>n DEF BootInv
<1>6. ManageInv' BY <1>0, <1>n DEF ManageInv
<1>7. AutoInv' BY <1>0, <1>n DEF AutoInv
<1>8. LiveInv' BY <1>0, <1>n DEF LiveInv, Owner
<1>9. StopInv' BY <1>0, <1>n DEF StopInv
<1> QED BY <1>1, <1>2, <1>3, <1>4, <1>5, <1>6, <1>7, <1>8, <1>9

\* The process in memory or being spawned is in the row, unless its launcher
\* had not returned; that one is given up.
LEMMA DownSafe ==
    ASSUME TypeOK, SafeInv, up # "down", Down
    PROVE  SafeInv'
<1> USE DEF SafeInv
<1>0. /\ up' = "down"
      /\ processes' = NoChild /\ adopted' = None /\ desired' = "none" /\ holder' = "none"
      /\ timer' = NoTimer /\ spawn' = NoSpawn /\ auto' = NoAuto /\ cmd' = NoCmd /\ retry' = 0
      /\ UNCHANGED <<outside, live, row, answer, autos>>
    BY DEF Down
<1>n. /\ NoTimer' = NoTimer /\ NoChild' = NoChild /\ NoCmd' = NoCmd /\ NoSpawn' = NoSpawn /\ NoAuto' = NoAuto
      /\ ~Managed' /\ ~Reserved'
    BY <1>0 DEF Managed, Reserved, NoTimer, NoChild, NoCmd, NoSpawn, NoAuto
<1>1. DownInv' BY <1>0, <1>n DEF DownInv
<1>2. CmdInv' BY <1>0, <1>n, Nothing DEF CmdInv
<1>3. KillInv' BY <1>0, <1>n, Nothing DEF KillInv
<1>4. SpawnInv' BY <1>0, <1>n, Nothing DEF SpawnInv
<1>5. BootInv' BY <1>0, Nothing DEF BootInv
<1>6. ManageInv' BY <1>0, <1>n DEF ManageInv
<1>7. AutoInv' BY <1>0, <1>n, Nothing DEF AutoInv
<1>8. LiveInv'
  <2>1. lost' = lost \cup ((IF spawn.pc = "launch" THEN {spawn.inst} ELSE {}) \cap live) /\ lost \subseteq live
      BY DEF Down, Forget, LiveInv
  <2>2. None \notin live /\ live \ lost \subseteq {Owner}
      BY Shapes DEF LiveInv
  <2>3. CASE Managed
    <3>1. Owner = row.pid
        BY <2>3 DEF Owner, ManageInv, Managed
    <3> QED BY <1>0, <2>1, <2>2, <3>1 DEF LiveInv, Owner
  <2>4. CASE ~Managed
    <3>1. Owner = spawn.inst
        BY <2>4 DEF Owner, Managed
    <3>2. spawn.inst = None \/ spawn.inst = row.pid \/ spawn.pc = "launch"
        BY Fields DEF SpawnInv
    <3>3. Owner' = row.pid
        BY <1>0 DEF Owner
    <3> QED BY <1>0, <2>1, <2>2, <3>1, <3>2, <3>3 DEF LiveInv
  <2> QED BY <2>3, <2>4
<1>9. StopInv'
  <2>1. lost \subseteq lost'
      BY DEF Down, Forget
  <2> QED BY <1>0, <1>n, <2>1 DEF StopInv
<1> QED BY <1>1, <1>2, <1>3, <1>4, <1>5, <1>6, <1>7, <1>8, <1>9

\* A boot adopts one process and gives up the one it does not.
LEMMA BootSafe ==
    ASSUME TypeOK, SafeInv, TypeOK', Boot
    PROVE  SafeInv'
<1> USE DEF SafeInv
<1>0. /\ up = "down" /\ up' = "up" /\ answer' = "none" /\ autos' = 0
      /\ UNCHANGED <<outside, live, processes, holder, timer, spawn, auto, retry>>
      /\ processes = NoChild /\ adopted = None /\ desired = "none" /\ holder = "none"
      /\ timer = NoTimer /\ spawn = NoSpawn /\ auto = NoAuto /\ cmd = NoCmd /\ retry = 0
    BY DEF Boot, DownInv
<1>p. PICK pid \in Insts \cup {None} :
          /\ adopted' = pid /\ row'.pid = pid
          /\ lost' = (lost \cup ({row.pid} \cap live)) \ {pid}
          /\ desired' = IF pid # None THEN "running" ELSE desired
  <2>1. PICK kept \in BOOLEAN, owner \in Insts \cup {None} : Reconcile(kept, owner)
    <3>1. live \subseteq Insts
        BY DEF TypeOK
    <3> QED BY <3>1 DEF Boot, ReconcileRow
  <2> DEFINE pid == IF kept THEN row.pid ELSE owner
  <2>2. pid \in Insts \cup {None} /\ row.pid \in Insts \cup {None}
      BY Fields
  <2>3. /\ adopted' = pid /\ lost' = (lost \cup ({row.pid} \cap live)) \ {pid}
        /\ desired' = IF pid # None THEN "running" ELSE desired
        /\ row' = IF pid # None THEN [state |-> "running", pid |-> pid]
                  ELSE IF Recorded THEN [state |-> "crashed", pid |-> None] ELSE row
      BY <2>1 DEF Reconcile
  <2>4. ~Recorded => row.pid = None
      BY DEF Recorded
  <2> HIDE DEF pid
  <2>5. row'.pid = pid
      BY <2>3, <2>4
  <2> QED BY <2>2, <2>3, <2>5
<1>c. \/ cmd' = NoCmd
      \/ adopted' = None /\ cmd'.kind = "autostart" /\ cmd'.pc = "env"
  <2>1. \/ cmd' = NoCmd
        \/ adopted' = None /\ cmd' = [NoCmd EXCEPT !.kind = "autostart", !.pc = "env"]
      BY DEF Boot
  <2> QED BY <2>1, EmptyCmd
<1>n. /\ NoTimer' = NoTimer /\ NoChild' = NoChild /\ NoCmd' = NoCmd /\ NoSpawn' = NoSpawn /\ NoAuto' = NoAuto
      /\ ~Reserved' /\ (Managed' <=> pid # None)
    BY <1>0, <1>p DEF Managed, Reserved, NoTimer, NoChild, NoCmd, NoSpawn, NoAuto
<1>1. DownInv' BY <1>0 DEF DownInv
<1>2. CmdInv' BY <1>c, <1>n, Nothing DEF CmdInv
<1>3. KillInv' BY <1>0, <1>c, <1>n, Nothing DEF KillInv
<1>4. SpawnInv' BY <1>0, <1>c, <1>n, Nothing DEF SpawnInv
<1>5. BootInv' BY <1>0, <1>c, <1>n, <1>p, Nothing DEF BootInv
<1>6. ManageInv' BY <1>0, <1>n, <1>p DEF ManageInv
<1>7. AutoInv' BY <1>0, <1>n, Nothing DEF AutoInv
<1>8. LiveInv'
  <2>1. Owner = row.pid /\ Owner' = pid
      BY <1>0, <1>n, <1>p, Nothing DEF Owner
  <2> QED BY <1>0, <1>p, <2>1 DEF LiveInv
<1>9. StopInv' BY <1>0 DEF StopInv
<1> QED BY <1>1, <1>2, <1>3, <1>4, <1>5, <1>6, <1>7, <1>8, <1>9

\* Every step keeps SafeInv.
LEMMA SafeKept ==
    ASSUME TypeOK, SafeInv, TypeOK', Next
    PROVE  SafeInv'
<1>1. CASE Die
  <2>1. UNCHANGED <<outside, up, memory, row, answer, autos>> /\ live' \subseteq live /\ lost' = lost \cap live'
    <3>1. lost \subseteq live
        BY DEF SafeInv, LiveInv
    <3> QED BY <1>1, <3>1 DEF Die
  <2> QED BY <2>1, ProcessEnds
<1>2. CASE Exit \/ Crash
    BY <1>2, DownSafe DEF Exit, Crash
<1> QED BY <1>1, <1>2, SpawnSafe, QueueSafe, ReapTickSafe, CommandSafe, ChildExitSafe, TimerFiresSafe,
           AutoRestartSafe, CloseSafe, BootSafe DEF Next

-----------------------------------------------------------------------------
(* The budget of automatic spawns                                          *)

\* The arithmetic of the budget.
LEMMA Allowance ==
    /\ MaxRestart \in Nat
    /\ Allowed(0) = MaxRestart * (MaxRestart + 1) /\ Allowed(0) \in Nat
    /\ MaxRestart <= Allowed(0)
    /\ \A r \in 0..MaxRestart :
          /\ Allowed(r) \in Nat
          /\ r < MaxRestart => Allowed(r) = Allowed(r + 1) + MaxRestart + 1
          /\ r > 0 => Allowed(r) + MaxRestart <= Allowed(0)
<1>1. MaxRestart \in Nat
    BY ProcessAssumption
<1>2. \A a, b \in Nat : a * b \in Nat
    OBVIOUS
<1>3. Allowed(0) = MaxRestart * (MaxRestart + 1) /\ Allowed(0) \in Nat
    BY <1>1, <1>2 DEF Allowed
<1>4. MaxRestart <= Allowed(0)
  <2>1. Allowed(0) = MaxRestart * MaxRestart + MaxRestart /\ MaxRestart * MaxRestart \in Nat
      BY <1>1, <1>2, <1>3
  <2> QED BY <1>1, <2>1
<1>5. ASSUME NEW r \in 0..MaxRestart
      PROVE  /\ Allowed(r) \in Nat
             /\ r < MaxRestart => Allowed(r) = Allowed(r + 1) + MaxRestart + 1
             /\ r > 0 => Allowed(r) + MaxRestart <= Allowed(0)
  <2>1. Allowed(r) \in Nat
      BY <1>1, <1>2 DEF Allowed
  <2>2. r < MaxRestart => Allowed(r) = Allowed(r + 1) + MaxRestart + 1
      BY <1>1 DEF Allowed
  <2>3. ASSUME r > 0 PROVE Allowed(r) + MaxRestart <= Allowed(0)
    <3>1. r - 1 \in Nat /\ (r - 1) * (MaxRestart + 1) \in Nat
        BY <1>1, <1>2, <2>3
    <3>2. Allowed(0) = Allowed(r) + (r - 1) * (MaxRestart + 1) + MaxRestart + 1
        BY <1>1 DEF Allowed
    <3> QED BY <1>1, <1>3, <2>1, <3>1, <3>2
  <2> QED BY <2>1, <2>2, <2>3
<1> QED BY <1>1, <1>3, <1>4, <1>5

\* What the child of today has left is at most a budget of restarts; an adopted
\* process has none.
LEMMA LeftBound ==
    ASSUME TypeOK, SafeInv
    PROVE  /\ Left \in 0..MaxRestart /\ (outside \/ adopted # None => Left = 0)
           /\ Pending \in {0, MaxRestart + 1}
<1> USE DEF SafeInv
<1>1. MaxRestart \in Nat
    BY ProcessAssumption
<1>2. timer # NoTimer => MaxRestart - timer \in 0..MaxRestart
    BY <1>1, Shapes
<1>3. /\ MaxRestart - auto.count \in 0..MaxRestart /\ MaxRestart - spawn.count \in 0..MaxRestart
      /\ MaxRestart - processes.count \in 0..MaxRestart
    BY <1>1, Fields
<1>4. Left \in 0..MaxRestart
    BY <1>1, <1>2, <1>3 DEF Left
<1>5. outside => Left = 0
    BY DEF Left
<1>6. ASSUME adopted # None PROVE Left = 0
  <2>1. Managed /\ ~Reserved /\ timer = NoTimer /\ processes = NoChild
      BY <1>6 DEF Managed, SpawnInv, AutoInv, ManageInv
  <2>2. ~(auto.pc = "build" /\ holder = "auto")
      BY <2>1 DEF AutoInv
  <2> QED BY <2>1, <2>2 DEF Left
<1> QED BY <1>1, <1>4, <1>5, <1>6 DEF Pending

\* Somebody asked, or the service is healthy: the count starts again.
LEMMA CountRestarts ==
    ASSUME TypeOK', SafeInv', autos' = 0, Pending' = 0
    PROVE  LimitInv'
<1>1. \E l \in 0..MaxRestart : Left' = l /\ (outside' \/ adopted' # None => l = 0)
  <2>1. MaxRestart \in Nat /\ NoTimer = MaxRestart + 1
      BY ProcessAssumption DEF NoTimer
  <2>2. PICK t \in 0..NoTimer, a \in 0..MaxRestart, s \in 0..MaxRestart, p \in 0..MaxRestart :
            timer' = t /\ auto'.count = a /\ spawn'.count = s /\ processes'.count = p
      BY DEF TypeOK, NoTimer
  <2>3. /\ t # NoTimer => MaxRestart - t \in 0..MaxRestart
        /\ MaxRestart - a \in 0..MaxRestart /\ MaxRestart - s \in 0..MaxRestart
        /\ MaxRestart - p \in 0..MaxRestart /\ 0 \in 0..MaxRestart
      BY <2>1
  <2>4. \E l \in 0..MaxRestart : Left' = l
      BY <2>1, <2>2, <2>3 DEF Left, NoTimer
  <2>5. outside' => Left' = 0
      BY DEF Left
  <2>6. ASSUME adopted' # None PROVE Left' = 0
    <3>1. Managed' /\ ~Reserved' /\ timer' = NoTimer' /\ processes' = NoChild'
        BY <2>6 DEF SafeInv, Managed, SpawnInv, AutoInv, ManageInv
    <3>2. ~(auto'.pc = "build" /\ holder' = "auto")
        BY <3>1 DEF SafeInv, AutoInv
    <3> QED BY <3>1, <3>2 DEF Left
  <2> QED BY <2>4, <2>5, <2>6
<1>2. \E r \in 0..MaxRestart : retry' = r
    BY DEF TypeOK
<1>3. autos' <= Allowed(0)
    BY Allowance
<1>4. BudgetInv'
  <2>1. PICK l \in 0..MaxRestart, r \in 0..MaxRestart :
            Left' = l /\ retry' = r /\ (outside' \/ adopted' # None => l = 0)
      BY <1>1, <1>2
  <2>2. CASE r > 0
    <3>1. 0 + l + 0 + Allowed(r) <= Allowed(0)
        BY <2>1, <2>2, Allowance
    <3> QED BY <2>1, <2>2, <3>1 DEF BudgetInv
  <2>3. CASE r = 0 /\ adopted' # None
    <3>1. 0 + l + 0 + Allowed(r) <= Allowed(0)
        BY <2>1, <2>3, Allowance
    <3> QED BY <2>1, <2>3, <3>1 DEF BudgetInv
  <2>4. CASE r = 0 /\ adopted' = None
    <3>1. 0 + l <= (IF outside' THEN 0 ELSE MaxRestart)
        BY <2>1, Allowance
    <3> QED BY <2>1, <2>4, <3>1 DEF BudgetInv
  <2> QED BY <2>2, <2>3, <2>4, Allowance
<1>5. FreshInv' /\ OvertakenInv'
    BY DEF FreshInv, OvertakenInv
<1> QED BY <1>3, <1>4, <1>5 DEF LimitInv

\* The wish is withdrawn, or the supervisor ends: nothing more is spent.
LEMMA WishEnds ==
    ASSUME LimitInv, autos' = autos, desired' # "running" \/ up' # "up",
           up' = "up" /\ cmd'.kind = "start" /\ cmd'.pc \in {"settle", "validate"} => autos = 0
    PROVE  LimitInv'
BY DEF LimitInv, BudgetInv, FreshInv, OvertakenInv

\* Nothing is spent, and nothing more is left.
LEMMA NothingSpent ==
    ASSUME TypeOK, SafeInv, LimitInv, UNCHANGED <<outside, up, desired, retry, autos>>,
           Left' \in {0, Left}, Pending' \in {0, Pending},
           \/ adopted' = adopted /\ (Refused => Refused')
           \/ adopted # None /\ adopted' = None /\ ~Refused,
           spawn'.by = "auto" /\ holder' # "auto"
               => (spawn.by = "auto" /\ holder # "auto") \/ retry > 0 \/ Refused',
           cmd'.kind = "start" /\ cmd'.pc \in {"settle", "validate"}
               => desired = "running" \/ (cmd.kind = "start" /\ cmd.pc \in {"settle", "validate"})
    PROVE  LimitInv'
<1>1. PICK l \in Nat, p \in Nat, a \in Nat : Left = l /\ Pending = p /\ autos = a
    BY LeftBound, Allowance DEF TypeOK
<1>2. PICK l1 \in Nat, p1 \in Nat : Left' = l1 /\ Pending' = p1 /\ l1 <= l /\ p1 <= p
    BY <1>1
<1>3. autos' <= Allowed(0)
    BY DEF LimitInv
<1>4. FreshInv'
    BY DEF LimitInv, FreshInv
<1>5. OvertakenInv'
  <2>1. retry > 0 => retry # 0
      BY Allowance DEF TypeOK
  <2> QED BY <2>1 DEF LimitInv, OvertakenInv
<1>6. BudgetInv'
  <2>1. SUFFICES ASSUME up = "up", desired = "running"
        PROVE  BudgetInv'
      BY DEF BudgetInv
  <2>2. PICK r \in 0..MaxRestart : retry = r
      BY DEF TypeOK
  <2>3. Allowed(r) \in Nat /\ Allowed(0) \in Nat /\ MaxRestart \in Nat
      BY Allowance
  <2>4. CASE adopted' = adopted /\ (Refused => Refused')
    <3>1. CASE r > 0 \/ adopted # None
      <4>1. a + l + p + Allowed(r) <= Allowed(0) \/ Refused
          BY <1>1, <2>1, <2>2, <3>1 DEF LimitInv, BudgetInv
      <4>2. a + l1 + p1 + Allowed(r) <= Allowed(0) \/ Refused'
          BY <1>1, <1>2, <2>3, <2>4, <4>1
      <4> QED BY <1>1, <1>2, <2>2, <2>4, <3>1, <4>2 DEF BudgetInv
    <3>2. CASE ~(r > 0 \/ adopted # None)
      <4>1. a + l <= IF outside THEN 0 ELSE MaxRestart
          BY <1>1, <2>1, <2>2, <3>2 DEF LimitInv, BudgetInv
      <4>2. a + l1 <= IF outside THEN 0 ELSE MaxRestart
          BY <1>1, <1>2, <2>3, <4>1
      <4> QED BY <1>1, <1>2, <2>2, <2>4, <3>2, <4>2 DEF BudgetInv
    <3> QED BY <3>1, <3>2
  <2>5. CASE adopted # None /\ adopted' = None /\ ~Refused
    <3>1. a + l + p + Allowed(r) <= Allowed(0)
        BY <1>1, <2>1, <2>2, <2>5 DEF LimitInv, BudgetInv
    <3>2. CASE r > 0
      <4>1. a + l1 + p1 + Allowed(r) <= Allowed(0)
          BY <1>1, <1>2, <2>3, <3>1
      <4> QED BY <1>1, <1>2, <2>2, <3>2, <4>1 DEF BudgetInv
    <3>3. CASE r = 0
      <4>1. a + l1 <= IF outside THEN 0 ELSE MaxRestart
          BY <1>1, <1>2, <2>3, <3>1, <3>3
      <4>2. ~(retry' > 0 \/ adopted' # None)
          BY <2>2, <2>5, <3>3
      <4> QED BY <1>1, <1>2, <4>1, <4>2 DEF BudgetInv
    <3> QED BY <2>2, <2>3, <3>2, <3>3
  <2> QED BY <2>4, <2>5
<1> QED BY <1>3, <1>4, <1>5, <1>6 DEF LimitInv

-----------------------------------------------------------------------------
(* A spawn keeps the budget                                                *)

\* What a step of a spawn may be.
LEMMA SpawnKinds ==
    ASSUME TypeOK, SafeInv, SpawnStep
    PROVE  /\ Reserved /\ UNCHANGED <<outside, up, retry, autos>>
           /\ \/ /\ spawn'.by = spawn.by /\ spawn'.count = spawn.count /\ spawn' # NoSpawn
                 /\ UNCHANGED <<processes, adopted, auto, cmd, desired, holder, timer>>
              \/ /\ SettleFailed /\ UNCHANGED processes
                 /\ adopted' = None \/ ~Current(spawn.by)
              \/ /\ SettleOk /\ StillWanted
                 /\ IF outside
                    THEN UNCHANGED processes
                    ELSE /\ adopted' = None
                         /\ processes' = [inst |-> spawn.inst, count |-> spawn.count, intentional |-> FALSE]
<1> USE DEF SafeInv
<1>a. ASSUME NEW pc, pc # "none", AtSpawn(pc)
      PROVE  /\ Reserved /\ UNCHANGED <<outside, up, retry, autos>>
             /\ adopted = None /\ spawn.pc = pc /\ spawn.by # "none"
    BY <1>a, Shapes DEF AtSpawn
<1>g. ASSUME NEW pc \in {"port", "prep", "launch", "wait", "verify", "cancel"}, SpawnGoes(pc)
      PROVE  /\ spawn'.pc = pc /\ spawn'.by = spawn.by /\ spawn'.count = spawn.count /\ spawn' # NoSpawn
             /\ UNCHANGED <<auto, cmd, desired, holder, timer>>
    BY <1>g, Goes, TypesAgree, Nothing DEF Types
<1>1. CASE ClearPort
    BY <1>1, <1>a, <1>g DEF ClearPort
<1>2. CASE Prepared
  <2>1. AtSpawn("prep") /\ UNCHANGED <<processes, adopted>>
      BY <1>2 DEF Prepared
  <2>2. CASE SettleFailed
      BY <1>a, <2>1, <2>2
  <2>3. CASE SpawnGoes("launch")
      BY <1>a, <1>g, <2>1, <2>3
  <2>4. ASSUME NEW i \in Insts, spawn' = [spawn EXCEPT !.pc = "wait", !.inst = i],
               UNCHANGED <<auto, cmd, desired, holder, timer>>
        PROVE  spawn'.by = spawn.by /\ spawn'.count = spawn.count /\ spawn' # NoSpawn
      BY <2>4, Nothing DEF TypeOK
  <2> QED BY <1>2, <1>a, <2>1, <2>2, <2>3, <2>4 DEF Prepared
<1>3. CASE Launched
  <2>1. PICK i \in Insts : spawn' = [spawn EXCEPT !.inst = i]
      BY <1>3 DEF Launched
  <2>2. spawn'.by = spawn.by /\ spawn'.count = spawn.count
      BY <2>1 DEF TypeOK
  <2>3. /\ AtSpawn("launch")
        /\ UNCHANGED <<processes, adopted, auto, cmd, desired, holder, timer, row, answer, lost, faults>>
      BY <1>3 DEF Launched
  <2>4. spawn' # NoSpawn
      BY <1>a, <2>2, <2>3, Nothing
  <2> QED BY <1>a, <2>2, <2>3, <2>4
<1>4. CASE LaunchEnds
    BY <1>4, <1>a, <1>g DEF LaunchEnds
<1>5. CASE Spawned
  <2>1. ASSUME NEW pc \in {"wait", "verify"}, AtSpawn(pc), Register
        PROVE  \/ /\ spawn'.by = spawn.by /\ spawn'.count = spawn.count /\ spawn' # NoSpawn
                  /\ UNCHANGED <<processes, adopted, auto, cmd, desired, holder, timer>>
               \/ /\ SettleOk /\ StillWanted
                  /\ IF outside
                     THEN UNCHANGED processes
                     ELSE /\ adopted' = None
                          /\ processes' = [inst |-> spawn.inst, count |-> spawn.count, intentional |-> FALSE]
      BY <1>g, <2>1 DEF Register
  <2> QED BY <1>5, <1>a, <2>1 DEF Spawned
<1>6. CASE Cancel
  <2>1. ~Current(spawn.by) /\ AtSpawn("cancel") /\ SettleFailed /\ UNCHANGED processes
      BY <1>6, <1>a DEF Cancel, SpawnInv
  <2> QED BY <1>a, <2>1
<1> QED BY <1>1, <1>2, <1>3, <1>4, <1>5, <1>6 DEF SpawnStep

\* The steps of a spawn keep the budget.
LEMMA SpawnSpends ==
    ASSUME TypeOK, SafeInv, ReapInv, LimitInv, TypeOK', SafeInv', SpawnStep
    PROVE  ReapInv' /\ LimitInv'
<1>b. Left \in Nat /\ Pending \in Nat
    BY LeftBound, Allowance
<1> USE DEF SafeInv
<1>0. /\ Reserved /\ ~Managed /\ UNCHANGED <<outside, up, retry, autos>> /\ timer = NoTimer
      /\ processes = NoChild /\ adopted = None /\ spawn.by \in {"cmd", "auto"}
      /\ ~(holder = "auto" /\ auto.pc = "build") /\ NoTimer' = NoTimer /\ NoChild' = NoChild
      /\ NoSpawn' = NoSpawn
    BY SpawnKinds, Shapes DEF AutoInv, SpawnInv, NoTimer, NoChild, NoSpawn
<1>l. Left = IF outside THEN 0 ELSE MaxRestart - spawn.count
    BY <1>0 DEF Left
<1>1. CASE /\ spawn'.by = spawn.by /\ spawn'.count = spawn.count /\ spawn' # NoSpawn
           /\ UNCHANGED <<processes, adopted, auto, cmd, desired, holder, timer>>
  <2>1. Left' = Left /\ Pending' = Pending /\ (Refused => Refused')
      BY <1>0, <1>1, <1>l DEF Left, Reserved, Pending, Refused
  <2>2. ReapInv'
      BY <1>0, <1>1 DEF ReapInv
  <2> QED BY <1>0, <1>1, <2>1, <2>2, NothingSpent DEF LimitInv, FreshInv
<1>2. CASE SettleFailed /\ UNCHANGED processes /\ (adopted' = None \/ ~Current(spawn.by))
  <2>f. /\ spawn' = NoSpawn
        /\ spawn.by = "auto" => /\ auto' = NoAuto
                                /\ UNCHANGED <<cmd, desired, holder, timer>>
        /\ spawn.by = "cmd" => auto' = auto /\ cmd' = NoCmd
        /\ spawn.by = "cmd" /\ cmd.kind # "autostart" => desired' = "stopped"
        /\ cmd.kind = "autostart" => desired' = desired /\ holder' = holder /\ timer' = timer
        /\ \/ desired' = desired /\ holder' = holder /\ timer' = timer
           \/ desired' = "stopped" /\ holder' = "none" /\ timer' = NoTimer
      BY <1>0, <1>2, TypesAgree, Fails
  <2>0. ~Reserved' /\ spawn'.by = "none"
      BY <1>0, <2>f, Nothing DEF Reserved
  <2>1. Left' = 0
      BY <1>0, <1>2, <2>f, <2>0, Nothing DEF Left
  <2>2. ReapInv'
    <3>1. CASE cmd' = NoCmd
        BY <1>0, <3>1, Nothing DEF ReapInv
    <3>2. CASE cmd' = cmd /\ desired' = desired
        BY <1>0, <3>2 DEF ReapInv
    <3> QED BY <1>0, <2>f, <3>1, <3>2
  <2>3. cmd' = NoCmd \/ cmd' = cmd
      BY <1>0, <2>f
  <2>4. CASE desired' # "running" \/ up # "up"
    <3>1. desired' # "running" /\ desired = "running" => cmd' = NoCmd
        BY <1>0, <2>f
    <3>2. up' = "up" /\ cmd'.kind = "start" /\ cmd'.pc \in {"settle", "validate"} => autos = 0
      <4>1. SUFFICES ASSUME up = "up", cmd'.kind = "start", cmd'.pc \in {"settle", "validate"}
            PROVE  autos = 0
          BY <1>0
      <4>2. cmd' = cmd /\ desired # "running"
          BY <2>3, <2>4, <3>1, <4>1, Nothing
      <4> QED BY <4>1, <4>2 DEF LimitInv, FreshInv
    <3> QED BY <1>0, <2>2, <2>4, <3>2, WishEnds
  <2>5. CASE desired' = "running" /\ up = "up"
    <3>1. desired' = desired /\ holder' = holder
        BY <2>f, <2>5
    <3>2. CASE adopted' = None
      <4>1. Pending' \in {0, Pending} /\ (Refused => Refused')
        <5>1. CASE cmd' = cmd
            BY <1>0, <5>1 DEF Pending, Refused
        <5>2. CASE cmd' = NoCmd
          <6>1. Pending' = 0
              BY <5>2, Nothing DEF Pending
          <6>2. ~Refused
              BY <1>0, <2>f, <5>2, Nothing DEF Refused, SpawnInv, CmdInv
          <6> QED BY <6>1, <6>2
        <5> QED BY <2>3, <5>1, <5>2
      <4>2. Left' \in {0, Left} /\ adopted' = adopted /\ spawn'.by # "auto"
          BY <1>0, <2>0, <2>1, <3>2
      <4>3. cmd'.kind = "start" => desired = "running"
          BY <2>5, <3>1
      <4> QED BY <1>0, <2>2, <3>1, <4>1, <4>2, <4>3, NothingSpent
    <3>3. CASE adopted' # None
      <4>1. spawn.by = "auto" /\ holder # "auto" /\ cmd' = cmd
          BY <1>0, <1>2, <2>f, <2>5, <3>1, <3>3 DEF Current, SpawnInv
      <4>2. PICK r \in 0..MaxRestart, a \in Nat : retry = r /\ autos = a
          BY DEF TypeOK
      <4>3. CASE r > 0
        <5>1. autos + Left + Pending + Allowed(retry) <= Allowed(0) \/ Refused
            BY <2>5, <3>1, <4>2, <4>3 DEF LimitInv, BudgetInv
        <5>2. ~Refused
            BY <4>2, <4>3 DEF Refused
        <5>3. PICK l \in Nat, p \in Nat : Left = l /\ Pending = p
            BY <1>b
        <5>4. a + 0 + p + Allowed(r) <= Allowed(0)
            BY <4>2, <5>1, <5>2, <5>3, Allowance
        <5>5. Pending' = p
            BY <4>1, <5>3 DEF Pending
        <5>6. BudgetInv'
            BY <1>0, <2>1, <4>2, <4>3, <5>4, <5>5 DEF BudgetInv
        <5>7. FreshInv' /\ OvertakenInv'
            BY <2>0, <2>5 DEF FreshInv, OvertakenInv
        <5> QED BY <1>0, <2>2, <5>6, <5>7 DEF LimitInv
      <4>4. CASE r = 0
        <5>1. autos = 0 \/ Refused
            BY <2>5, <3>1, <4>1, <4>2, <4>4 DEF LimitInv, OvertakenInv
        <5>2. Pending' = 0
            BY <1>0, <2>5, <3>1, <4>1, <4>2, <4>4 DEF Pending, ReapInv
        <5>3. CASE autos = 0
            BY <1>0, <2>2, <5>2, <5>3, CountRestarts
        <5>4. CASE Refused
          <6>1. Refused'
              BY <1>0, <4>1, <5>4 DEF Refused
          <6>2. BudgetInv'
              BY <3>3, <6>1 DEF BudgetInv
          <6>3. FreshInv' /\ OvertakenInv'
              BY <2>0, <2>5 DEF FreshInv, OvertakenInv
          <6> QED BY <1>0, <2>2, <6>2, <6>3 DEF LimitInv
        <5> QED BY <5>1, <5>3, <5>4
      <4> QED BY <4>2, <4>3, <4>4, Allowance
    <3> QED BY <3>2, <3>3
  <2> QED BY <1>0, <2>4, <2>5
<1>3. CASE /\ SettleOk /\ StillWanted
           /\ IF outside
              THEN UNCHANGED processes
              ELSE /\ adopted' = None
                   /\ processes' = [inst |-> spawn.inst, count |-> spawn.count, intentional |-> FALSE]
  <2>0. up = "up" /\ desired = "running" /\ holder = spawn.by
      BY <1>3 DEF StillWanted, Current
  <2>f. /\ spawn' = NoSpawn /\ UNCHANGED <<desired, holder, timer>>
        /\ spawn.by = "auto" => auto' = NoAuto /\ cmd' = cmd
        /\ spawn.by = "cmd" => auto' = auto /\ cmd' = NoCmd
      BY <1>0, <1>3, TypesAgree, Succeeds
  <2>1. /\ ~Reserved' /\ spawn'.by = "none" /\ holder' = holder /\ desired' = desired
        /\ ~(auto'.pc = "build" /\ holder' = "auto")
      BY <1>0, <2>f, Nothing DEF Reserved
  <2>2. cmd' = cmd \/ (cmd' = NoCmd /\ cmd.pc = "spawn")
      BY <1>0, <2>f DEF SpawnInv
  <2>3. Pending' \in {0, Pending} /\ (Refused => Refused')
      BY <1>0, <2>2, Nothing DEF Pending, Refused
  <2>4. Left' \in {0, Left}
    <3>1. CASE outside
        BY <1>0, <3>1 DEF Left
    <3>2. CASE ~outside
      <4>1. processes'.count = spawn.count
          BY <1>3, <3>2
      <4>2. Left' \in {0, MaxRestart - processes'.count}
          BY <1>0, <2>1, <2>f, <3>2 DEF Left
      <4> QED BY <1>l, <3>2, <4>1, <4>2
    <3> QED BY <3>1, <3>2
  <2>5. ReapInv'
    <3>1. CASE cmd' = NoCmd
        BY <1>0, <3>1, Nothing DEF ReapInv
    <3>2. CASE cmd' = cmd
        BY <1>0, <2>1, <3>2 DEF ReapInv
    <3> QED BY <2>2, <3>1, <3>2
  <2>6. CASE adopted' = None
    <3>1. adopted' = adopted /\ spawn'.by # "auto" /\ UNCHANGED <<outside, up, desired, retry, autos>>
        BY <1>0, <2>1, <2>6
    <3> QED BY <2>0, <2>3, <2>4, <2>5, <3>1, NothingSpent
  <2>7. CASE adopted' # None /\ retry > 0
    <3>1. PICK r \in 0..MaxRestart, a \in Nat, l \in Nat, p \in Nat :
              retry = r /\ autos = a /\ Left = l /\ Pending = p
        BY <1>b DEF TypeOK
    <3>2. a + l + p + Allowed(r) <= Allowed(0)
        BY <2>0, <2>7, <3>1 DEF LimitInv, BudgetInv, Refused
    <3>3. outside /\ Left' = 0
        BY <1>0, <1>3, <2>7 DEF Left
    <3>4. PICK p1 \in Nat : Pending' = p1 /\ p1 <= p
        BY <2>3, <3>1
    <3>5. a + 0 + p1 + Allowed(r) <= Allowed(0)
        BY <3>1, <3>2, <3>4, Allowance
    <3>6. BudgetInv'
        BY <1>0, <2>7, <3>1, <3>3, <3>4, <3>5 DEF BudgetInv
    <3>7. FreshInv' /\ OvertakenInv'
        BY <2>0, <2>1 DEF FreshInv, OvertakenInv
    <3> QED BY <1>0, <2>5, <3>6, <3>7 DEF LimitInv
  <2>8. CASE adopted' # None /\ ~(retry > 0)
    <3>1. outside
        BY <1>3, <2>8
    <3>2. PICK a \in Nat, l \in Nat : autos = a /\ Left = l
        BY <1>b DEF TypeOK
    <3>3. a + l <= 0
        BY <1>0, <2>0, <2>8, <3>1, <3>2 DEF LimitInv, BudgetInv
    <3>4. autos' = 0
        BY <1>0, <3>2, <3>3
    <3>5. Pending = 0
        BY <1>0, <2>0, <2>8 DEF Pending, ReapInv
    <3>6. Pending' = 0
        BY <2>3, <3>5
    <3> QED BY <2>5, <3>4, <3>6, CountRestarts
  <2> QED BY <2>6, <2>7, <2>8
<1> QED BY <1>1, <1>2, <1>3, SpawnKinds

-----------------------------------------------------------------------------
(* The queue keeps the budget                                              *)

\* What the child of today has left depends on these variables.
LEMMA LeftStays ==
    ASSUME UNCHANGED <<outside, timer, auto, holder, spawn, processes>>
    PROVE  Left' = Left
BY DEF Left, Reserved, NoTimer, NoSpawn, NoChild

\* An operation begins its spawn, the reaper's on its budget.
LEMMA BeginSpends ==
    ASSUME TypeOK, SafeInv, ReapInv, LimitInv, TypeOK', SafeInv', UNCHANGED <<outside, up, retry, auto>>,
           NEW managed \in BOOLEAN, Begin(managed), cmd.pc \notin {"idle", "spawn"},
           cmd.kind \in {"reap", "autostart"} => cmd.pc = "env"
    PROVE  ReapInv' /\ LimitInv'
<1>b. Left \in Nat
    BY LeftBound, Allowance
<1>0. Begun \/ Denied
    BY TypesAgree, Begins
<1>1. CASE Denied
  <2>1. cmd' = NoCmd /\ autos' = autos
      BY <1>1 DEF Denied
  <2>2. ReapInv'
      BY <2>1, Nothing DEF ReapInv
  <2>3. desired' # "running"
      BY <1>1 DEF Denied, SafeInv, BootInv
  <2>4. cmd'.kind # "start"
      BY <2>1, Nothing
  <2> QED BY <2>1, <2>2, <2>3, <2>4, WishEnds
<1>2. CASE Begun
  <2>1. cmd'.pc = "spawn" /\ cmd'.kind = cmd.kind /\ up = "up" /\ desired' = "running"
      BY <1>2 DEF Begun
  <2>2. Pending' = 0
      BY <2>1 DEF Pending
  <2>3. CASE cmd.kind # "reap"
    <3>1. autos' = 0
        BY <1>2, <2>3 DEF Begun
    <3>2. ReapInv'
        BY <2>1, <2>3, <3>1 DEF ReapInv
    <3> QED BY <2>2, <3>1, <3>2, CountRestarts
  <2>4. CASE cmd.kind = "reap"
    <3>1. desired = "running" /\ retry > 0 /\ Policy # "no" /\ Pending = MaxRestart + 1 /\ ~Refused
        BY <2>1, <2>4 DEF ReapInv, Pending, Refused
    <3>2. PICK r \in 0..MaxRestart, a \in Nat, l \in Nat : retry = r /\ autos = a /\ Left = l
        BY <1>b DEF TypeOK
    <3>3. a + l + (MaxRestart + 1) + Allowed(r) <= Allowed(0)
        BY <2>1, <3>1, <3>2 DEF LimitInv, BudgetInv
    <3>4. autos' = a + 1
        BY <1>2, <2>4, <3>2 DEF Begun
    <3>5. Left' \in {0, MaxRestart}
      <4>1. /\ timer' = NoTimer' /\ holder' = "cmd" /\ Reserved' /\ MaxRestart - spawn'.count = MaxRestart
          BY <1>2, Nothing, Allowance DEF Begun, Reserved, NoTimer, NoSpawn
      <4> QED BY <4>1 DEF Left
    <3>6. PICK l1 \in Nat : Left' = l1 /\ l1 <= MaxRestart
        BY <3>5, Allowance
    <3>7. Allowed(r) \in Nat /\ Allowed(0) \in Nat /\ MaxRestart \in Nat
        BY Allowance
    <3>8. (a + 1) + l1 + 0 + Allowed(r) <= Allowed(0) /\ a + 1 <= Allowed(0)
        BY <3>2, <3>3, <3>6, <3>7
    <3>9. BudgetInv'
        BY <2>2, <3>1, <3>2, <3>4, <3>6, <3>8 DEF BudgetInv
    <3>10. FreshInv' /\ OvertakenInv'
      <4>1. spawn'.by = "cmd"
          BY <1>2 DEF Begun
      <4> QED BY <2>1, <4>1 DEF FreshInv, OvertakenInv
    <3>11. ReapInv'
        BY <2>1, <3>1 DEF ReapInv
    <3> QED BY <3>4, <3>8, <3>9, <3>10, <3>11 DEF LimitInv
  <2> QED BY <2>3, <2>4
<1> QED BY <1>0, <1>1, <1>2

\* The steps of killService keep the budget.
LEMMA KillSpends ==
    ASSUME TypeOK, SafeInv, ReapInv, LimitInv, TypeOK', SafeInv', KillStep
    PROVE  ReapInv' /\ LimitInv'
<1>0. TypeCmd /\ cmd.cancels \in BOOLEAN /\ Managed \in BOOLEAN
    BY TypesAgree DEF Types, TypeOK, Managed
<1>1. /\ cmd.kind \in {"stop", "restart"} /\ desired = "stopped"
      /\ cmd.pc \in {"killwait", "term", "verify", "tree"}
      /\ UNCHANGED <<outside, up, auto, retry>>
    BY DEF KillStep, KillWait, Terminate, TerminateEnds, Verify, TreeKill, AtKill, SafeInv, CmdInv, KillInv
<1>2. \/ StillKilling /\ cmd'.kind = cmd.kind
      \/ KillThrows
      \/ \E ok, managed \in BOOLEAN : KillReturns(ok, managed)
  <2>1. ASSUME NEW pc \in {"term", "verify", "tree"}, To(pc) PROVE cmd'.kind = cmd.kind
      BY <1>0, <2>1, Moves
  <2> QED BY <1>0, <2>1 DEF KillStep, KillWait, Terminate, TerminateEnds, Verify, TreeKill
<1>3. CASE StillKilling /\ cmd'.kind = cmd.kind
  <2>1. desired' # "running" /\ autos' = autos
      BY <1>1, <1>3 DEF StillKilling
  <2> QED BY <1>1, <1>3, <2>1, WishEnds DEF ReapInv
<1>4. ASSUME NEW ok \in BOOLEAN, Answer(ok), UNCHANGED <<desired, holder, timer, spawn, autos>>
      PROVE  ReapInv' /\ LimitInv'
  <2>1. cmd'.kind = "none"
      BY <1>4, Answers, Nothing
  <2> QED BY <1>1, <1>4, <2>1, WishEnds DEF ReapInv
<1>5. ASSUME NEW ok \in BOOLEAN, NEW managed \in BOOLEAN, KillReturns(ok, managed)
      PROVE  ReapInv' /\ LimitInv'
    BY <1>1, <1>4, <1>5, BeginSpends DEF KillReturns
<1> QED BY <1>2, <1>3, <1>4, <1>5 DEF KillThrows

\* The operations of the queue keep the budget.
LEMMA QueueSpends ==
    ASSUME TypeOK, SafeInv, ReapInv, LimitInv, TypeOK', SafeInv', QueueStep
    PROVE  ReapInv' /\ LimitInv'
<1>0. Managed \in BOOLEAN /\ TypeCmd /\ TypeMemory
    BY TypesAgree DEF Managed, Types
<1>e. ASSUME cmd' = NoCmd, UNCHANGED <<outside, up, retry, autos, desired, holder, timer, auto, spawn, processes>>,
             adopted' = adopted \/ (adopted # None /\ adopted' = None), ~Refused
      PROVE  ReapInv' /\ LimitInv'
  <2>1. cmd'.kind = "none" /\ Pending' = 0
      BY <1>e, Nothing DEF Pending
  <2>2. Left' = Left
      BY <1>e, LeftStays
  <2> QED BY <1>e, <2>1, <2>2, NothingSpent DEF ReapInv
<1>w. ASSUME cmd' = NoCmd, UNCHANGED <<outside, up, retry, autos>>, desired' # "running"
      PROVE  ReapInv' /\ LimitInv'
    BY <1>w, WishEnds, Nothing DEF ReapInv
<1>1. CASE Settled
  <2>1. /\ cmd.pc = "settle" /\ UnchangedWorld /\ cmd.kind \in {"start", "restart", "reap"}
        /\ UNCHANGED <<adopted, desired, holder, timer, spawn, auto, retry, row, answer, autos, faults>>
      BY <1>1 DEF Settled, SafeInv, CmdInv
  <2>2. cmd'.kind = cmd.kind /\ (\/ cmd'.pc = "env" /\ cmd.kind = "restart"
                                 \/ cmd'.pc = "validate")
      BY <1>0, <1>1, <2>1, Moves DEF Settled
  <2>3. Pending' = Pending /\ ~Refused /\ Left' = Left
      BY <2>1, <2>2, LeftStays DEF Pending, Refused, UnchangedWorld
  <2>4. ReapInv'
      BY <2>1, <2>2 DEF ReapInv, UnchangedWorld
  <2> QED BY <2>1, <2>2, <2>3, <2>4, NothingSpent DEF UnchangedWorld
<1>2. CASE Validate
  <2>1. /\ cmd.pc = "validate" /\ Prune /\ UnchangedWorld /\ UNCHANGED <<auto, retry>>
        /\ cmd.kind \in {"start", "restart", "reap", "status"} /\ ~Refused
      BY <1>2 DEF Validate, SafeInv, CmdInv, Refused
  <2>2. adopted' = adopted \/ (adopted # None /\ adopted' = None)
      BY <1>0, <2>1, Prunes
  <2>3. CASE cmd.kind = "restart" /\ KillBegins /\ UNCHANGED <<spawn, answer, autos>>
    <3>1. desired' = "stopped" /\ cmd'.kind = cmd.kind
        BY <1>0, <2>3, KillStarts
    <3> QED BY <2>1, <2>3, <3>1, WishEnds DEF UnchangedWorld, ReapInv
  <2>4. CASE cmd.kind = "restart" /\ Begin(FALSE)
      BY <2>1, <2>4, BeginSpends DEF UnchangedWorld
  <2>5. CASE cmd' = NoCmd /\ UNCHANGED <<desired, holder, timer, spawn, autos>>
      BY <1>e, <2>1, <2>2, <2>5 DEF UnchangedWorld
  <2>6. CASE Answer(TRUE) /\ UNCHANGED <<desired, holder, timer, spawn, autos>>
      BY <2>5, <2>6, Answers
  <2>7. CASE /\ ~Valid /\ cmd.kind \in {"start", "reap"}
             /\ MarkDesired("running", "cmd") /\ To("env") /\ UNCHANGED <<spawn, autos>>
    <3>1. /\ desired' = "running" /\ holder' = "cmd" /\ timer' = NoTimer
          /\ cmd'.pc = "env" /\ cmd'.kind = cmd.kind
        BY <1>0, <2>7, Moves, MarkTypes
    <3>2. processes = NoChild
        BY <2>7 DEF Valid
    <3>3. ReapInv'
        BY <2>1, <2>7, <3>1 DEF ReapInv, UnchangedWorld
    <3>4. CASE up # "up"
        BY <2>1, <2>7, <3>1, <3>3, <3>4, WishEnds DEF UnchangedWorld
    <3>5. CASE up = "up" /\ desired # "running"
      <4>1. cmd.kind = "start" /\ autos = 0
          BY <2>1, <2>7, <3>5 DEF ReapInv, LimitInv, FreshInv
      <4>2. Pending' = 0
          BY <3>1, <4>1 DEF Pending
      <4> QED BY <2>7, <3>3, <4>1, <4>2, CountRestarts
    <3>6. CASE up = "up" /\ desired = "running"
      <4>1. Pending' = Pending
          BY <2>1, <2>7, <3>1 DEF Pending
      <4>2. Left' \in {0, Left}
        <5>1. Left' = IF outside THEN 0 ELSE IF Reserved THEN MaxRestart - spawn.count ELSE 0
            BY <2>1, <2>7, <3>1, <3>2 DEF Left, Reserved, NoTimer, NoSpawn, NoChild, UnchangedWorld
        <5>2. Reserved => timer = NoTimer /\ ~(auto.pc = "build" /\ holder = "auto")
            BY DEF SafeInv, SpawnInv, AutoInv
        <5>3. CASE Reserved
            BY <5>1, <5>2, <5>3 DEF Left
        <5>4. CASE ~Reserved
            BY <5>1, <5>4
        <5> QED BY <5>3, <5>4
      <4>3. retry > 0 \/ Refused'
        <5>1. retry \in Nat
            BY Allowance DEF TypeOK
        <5> QED BY <2>1, <2>7, <3>1, <3>6, <5>1 DEF ReapInv, Refused
      <4>4. UNCHANGED <<outside, up, desired, retry, autos>>
          BY <2>1, <2>7, <3>1, <3>6 DEF UnchangedWorld
      <4>5. cmd'.pc \notin {"settle", "validate"}
          BY <3>1
      <4>6. \/ adopted' = adopted /\ (Refused => Refused')
            \/ adopted # None /\ adopted' = None /\ ~Refused
          BY <2>1, <2>2
      <4> QED BY <3>3, <4>1, <4>2, <4>3, <4>4, <4>5, <4>6, NothingSpent
    <3> QED BY <3>4, <3>5, <3>6
  <2> QED BY <1>2, <2>1, <2>3, <2>4, <2>5, <2>6, <2>7 DEF Validate
<1>3. CASE EnvBuild
  <2>1. /\ cmd.pc = "env" /\ UnchangedWorld /\ UNCHANGED <<adopted, auto, retry, row>>
        /\ cmd.kind \in {"start", "restart", "reap", "autostart"}
      BY <1>3 DEF EnvBuild, SafeInv, CmdInv
  <2>2. CASE /\ cmd.kind = "restart" /\ To("validate")
             /\ UNCHANGED <<desired, holder, timer, spawn, answer, autos, faults>>
    <3>1. cmd'.pc = "validate" /\ cmd'.kind = "restart"
        BY <1>0, <2>2, Moves
    <3>2. Pending' = 0 /\ ~Refused /\ Left' = Left
        BY <2>1, <2>2, <3>1, LeftStays DEF Pending, Refused, UnchangedWorld
    <3>3. ReapInv'
        BY <2>1, <2>2, <3>1 DEF ReapInv, UnchangedWorld
    <3> QED BY <2>1, <2>2, <3>1, <3>2, <3>3, NothingSpent DEF UnchangedWorld
  <2>3. CASE Begin(Managed)
      BY <1>0, <2>1, <2>3, BeginSpends DEF UnchangedWorld
  <2>4. CASE MarkDesired("stopped", "none") /\ Answer(FALSE) /\ UNCHANGED <<spawn, autos>>
    <3>1. desired' # "running" /\ cmd' = NoCmd
        BY <2>4, MarkTypes, Answers
    <3> QED BY <1>w, <2>1, <2>4, <3>1 DEF UnchangedWorld
  <2>5. CASE /\ cmd.kind \notin {"start", "reap"} /\ Answer(FALSE)
             /\ UNCHANGED <<desired, holder, timer>> /\ UNCHANGED <<spawn, autos>>
    <3>1. cmd' = NoCmd /\ ~Refused
        BY <2>5, Answers DEF Refused
    <3> QED BY <1>e, <2>1, <2>5, <3>1 DEF UnchangedWorld
  <2> QED BY <1>3, <2>2, <2>3, <2>4, <2>5 DEF EnvBuild
<1>4. CASE KillPort
  <2>1. cmd' = NoCmd /\ ~Refused
      BY <1>4, Answers DEF KillPort, Refused
  <2> QED BY <1>4, <1>e, <2>1 DEF KillPort
<1>5. CASE ReapCheck
  <2>1. /\ cmd.pc = "check" /\ cmd.kind = "reap" /\ Prune /\ UnchangedWorld /\ ~Refused
        /\ UNCHANGED <<desired, holder, timer, spawn, auto, answer>>
      BY <1>5 DEF ReapCheck, SafeInv, CmdInv, Refused
  <2>2. adopted' = adopted \/ (adopted # None /\ adopted' = None)
      BY <1>0, <2>1, Prunes
  <2>3. Left' = Left
      BY <2>1, LeftStays DEF UnchangedWorld
  <2>4. CASE ~Valid /\ Policy # "no" /\ retry < MaxRestart
    <3>1. retry' = retry + 1 /\ To("settle") /\ autos' = autos
        BY <1>5, <2>4 DEF ReapCheck
    <3>2. cmd'.pc = "settle" /\ cmd'.kind = "reap"
        BY <1>0, <2>1, <3>1, Moves
    <3>3. PICK r \in 0..MaxRestart, a \in Nat, l \in Nat : retry = r /\ autos = a /\ Left = l
        BY LeftBound, Allowance DEF TypeOK
    <3>4. retry' = r + 1 /\ r + 1 > 0 /\ r < MaxRestart
        BY <2>4, <3>1, <3>3, Allowance
    <3>5. ReapInv'
        BY <2>1, <2>4, <3>2, <3>4 DEF ReapInv, UnchangedWorld
    <3>6. FreshInv' /\ OvertakenInv'
        BY <3>2, <3>4 DEF FreshInv, OvertakenInv
    <3>7. BudgetInv'
      <4>1. SUFFICES ASSUME up = "up" PROVE BudgetInv'
          BY <2>1 DEF BudgetInv, UnchangedWorld
      <4>2. desired = "running" /\ (r > 0 \/ adopted # None)
          BY <2>1, <3>3, <4>1 DEF ReapInv
      <4>3. Pending = 0 /\ Pending' = MaxRestart + 1
          BY <2>1, <3>2 DEF Pending
      <4>4. a + l + 0 + Allowed(r) <= Allowed(0)
          BY <2>1, <3>3, <4>1, <4>2, <4>3 DEF LimitInv, BudgetInv
      <4>5. a + l + (MaxRestart + 1) + Allowed(r + 1) <= Allowed(0)
        <5>1. Allowed(r) = Allowed(r + 1) + MaxRestart + 1 /\ Allowed(r) \in Nat /\ Allowed(r + 1) \in Nat
            BY <3>3, <3>4, Allowance
        <5> QED BY <3>3, <4>4, <5>1, Allowance
      <4> QED BY <2>3, <3>1, <3>3, <3>4, <4>3, <4>5 DEF BudgetInv
    <3> QED BY <3>1, <3>5, <3>6, <3>7 DEF LimitInv
  <2>5. CASE ~(~Valid /\ Policy # "no" /\ retry < MaxRestart)
    <3>1. /\ retry' = (IF Valid \/ Policy = "no" THEN 0 ELSE retry)
          /\ autos' = (IF Valid THEN 0 ELSE autos) /\ cmd' = NoCmd
        BY <1>5, <2>5 DEF ReapCheck
    <3>2. CASE Valid \/ Policy = "no"
      <4>1. autos' = 0 /\ Pending' = 0 /\ cmd'.kind = "none" /\ retry' = 0
          BY <3>1, <3>2, Nothing DEF ReapInv, Pending
      <4>2. ReapInv'
          BY <4>1 DEF ReapInv
      <4> QED BY <4>1, <4>2, CountRestarts
    <3>3. CASE ~(Valid \/ Policy = "no")
        BY <1>e, <2>1, <2>2, <3>1, <3>3 DEF UnchangedWorld
    <3> QED BY <3>2, <3>3
  <2> QED BY <2>4, <2>5
<1> QED BY <1>1, <1>2, <1>3, <1>4, <1>5, KillSpends DEF QueueStep

-----------------------------------------------------------------------------
(* The remaining steps keep the budget                                     *)

\* A request begins its own operation.
LEMMA Asked ==
    ASSUME NEW kind \in Requests, Command(kind)
    PROVE  cmd'.kind = kind
<1>1. \/ kind = "stop" /\ cmd' = [kind |-> kind, pc |-> "killwait", cancels |-> (timer # NoTimer \/ Reserved)]
      \/ \E pc \in {"settle", "validate", "port"} : cmd' = [NoCmd EXCEPT !.kind = kind, !.pc = pc]
    BY DEF Command, Requests
<1>2. CASE kind = "stop" /\ cmd' = [kind |-> kind, pc |-> "killwait", cancels |-> (timer # NoTimer \/ Reserved)]
    BY <1>2
<1>3. ASSUME NEW pc \in {"settle", "validate", "port"}, cmd' = [NoCmd EXCEPT !.kind = kind, !.pc = pc]
      PROVE  cmd'.kind = kind
    BY <1>3, EmptyCmd
<1> QED BY <1>1, <1>2, <1>3

\* A request starts the count again.
LEMMA CommandSpends ==
    ASSUME TypeOK, SafeInv, ReapInv, TypeOK', SafeInv', NEW kind \in Requests, Command(kind)
    PROVE  ReapInv' /\ LimitInv'
<1>1. cmd'.kind = kind /\ kind # "reap" /\ autos' = 0 /\ retry' = retry
    BY Asked DEF Command, Requests
<1>2. Pending' = 0
    BY <1>1 DEF Pending
<1>3. ReapInv'
    BY <1>1 DEF ReapInv
<1> QED BY <1>1, <1>2, <1>3, CountRestarts

\* A tick of the reaper spends nothing.
LEMMA ReapTickSpends ==
    ASSUME TypeOK, SafeInv, ReapInv, LimitInv, TypeOK', SafeInv', ReapTick
    PROVE  ReapInv' /\ LimitInv'
<1>1. /\ up = "up" /\ cmd = NoCmd /\ (adopted # None \/ retry > 0)
      /\ UNCHANGED <<outside, live, up, processes, adopted, desired, holder, timer, spawn, auto, autos>>
    BY DEF ReapTick, OpensQueue, UnchangedWorld
<1>2. Left' = Left
    BY <1>1, LeftStays
<1>3. CASE desired = "running"
  <2>1. cmd' = [NoCmd EXCEPT !.kind = "reap", !.pc = "check"] /\ retry' = retry
      BY <1>3 DEF ReapTick
  <2>2. cmd'.kind = "reap" /\ cmd'.pc = "check"
      BY <2>1, EmptyCmd
  <2>3. Pending' = 0 /\ ~Refused
      BY <1>1, <2>2, Nothing DEF Pending, Refused
  <2>4. ReapInv'
      BY <1>1, <1>3, <2>1, <2>2 DEF ReapInv
  <2> QED BY <1>1, <1>2, <2>1, <2>2, <2>3, <2>4, NothingSpent
<1>4. CASE desired # "running"
  <2>1. cmd' = NoCmd /\ retry' = 0 /\ cmd'.kind = "none"
      BY <1>1, <1>4, Nothing DEF ReapTick
  <2>2. ReapInv'
      BY <1>1, <2>1 DEF ReapInv
  <2> QED BY <1>1, <1>4, <2>1, <2>2, WishEnds
<1> QED BY <1>3, <1>4

\* The restarts a child had left pass to its timer, or are gone.
LEMMA ChildExitSpends ==
    ASSUME TypeOK, SafeInv, ReapInv, LimitInv, TypeOK', SafeInv', NEW clean \in BOOLEAN, ChildExit(clean)
    PROVE  ReapInv' /\ LimitInv'
<1>0. /\ processes # NoChild /\ adopted = None /\ ~outside /\ ~Reserved /\ timer = NoTimer
      /\ ~(auto.pc = "build" /\ holder = "auto") /\ spawn.by # "auto"
      /\ UNCHANGED <<outside, up, adopted, desired, holder, spawn, auto, cmd, retry, autos>>
      /\ processes' = NoChild /\ timer' \in {NoTimer, processes.count}
  <2>1. /\ processes # NoChild /\ processes' = NoChild /\ Managed
        /\ UNCHANGED <<outside, up, adopted, desired, holder, spawn, auto, cmd, retry, autos>>
        /\ timer' \in {timer, processes.count}
      BY DEF ChildExit, Managed
  <2>2. ~Reserved /\ timer = NoTimer
      BY <2>1 DEF SafeInv, SpawnInv, AutoInv
  <2>3. ~(auto.pc = "build" /\ holder = "auto")
      BY <2>1 DEF SafeInv, AutoInv
  <2>4. adopted = None /\ ~outside
      BY <2>1 DEF SafeInv, ManageInv
  <2>5. spawn.by # "auto"
      BY <2>2, Nothing DEF Reserved
  <2> QED BY <2>1, <2>2, <2>3, <2>4, <2>5
<1>1. Left = MaxRestart - processes.count
    BY <1>0 DEF Left
<1>2. Left' \in {0, Left}
  <2>1. NoTimer' = NoTimer /\ NoChild' = NoChild /\ ~Reserved'
      BY <1>0 DEF NoTimer, NoChild, Reserved, NoSpawn
  <2>2. CASE timer' = NoTimer
      BY <1>0, <2>1, <2>2 DEF Left
  <2>3. CASE timer' # NoTimer
      BY <1>0, <1>1, <2>1, <2>3 DEF Left
  <2> QED BY <2>2, <2>3
<1>3. Pending' = Pending /\ (Refused => Refused')
    BY <1>0 DEF Pending, Refused
<1>4. ReapInv'
    BY <1>0 DEF ReapInv
<1>5. cmd'.kind = "start" /\ cmd'.pc \in {"settle", "validate"}
          => desired = "running" \/ (cmd.kind = "start" /\ cmd.pc \in {"settle", "validate"})
    BY <1>0
<1>6. spawn'.by # "auto"
    BY <1>0
<1> QED BY <1>0, <1>2, <1>3, <1>4, <1>5, <1>6, NothingSpent

\* The restarts of the timer pass to the automatic restart.
LEMMA TimerFiresSpends ==
    ASSUME TypeOK, SafeInv, ReapInv, LimitInv, TypeOK', SafeInv', TimerFires
    PROVE  ReapInv' /\ LimitInv'
<1>0. /\ timer # NoTimer /\ ~Reserved /\ ~outside
      /\ auto'.pc = "build" /\ auto'.count = timer /\ holder' = "auto" /\ timer' = NoTimer
      /\ UNCHANGED <<outside, up, processes, adopted, desired, spawn, cmd, retry, autos>>
    BY DEF TimerFires, SafeInv, AutoInv, UnchangedWorld
<1>1. Left = MaxRestart - timer
    BY <1>0 DEF Left
<1>2. Left' = Left
    BY <1>0, <1>1 DEF Left, NoTimer
<1>3. Pending' = Pending /\ (Refused => Refused') /\ spawn'.by # "auto"
    BY <1>0, Nothing DEF Pending, Refused, Reserved
<1>4. ReapInv'
    BY <1>0 DEF ReapInv
<1>5. cmd'.kind = "start" /\ cmd'.pc \in {"settle", "validate"}
          => desired = "running" \/ (cmd.kind = "start" /\ cmd.pc \in {"settle", "validate"})
    BY <1>0
<1> QED BY <1>0, <1>2, <1>3, <1>4, <1>5, NothingSpent

\* An automatic restart takes one of the restarts its child had left.
LEMMA AutoRestartSpends ==
    ASSUME TypeOK, SafeInv, ReapInv, LimitInv, TypeOK', SafeInv', AutoRestart
    PROVE  ReapInv' /\ LimitInv'
<1>b. Left \in Nat /\ Pending \in Nat
    BY LeftBound, Allowance
<1>0. /\ auto.pc = "build" /\ ~outside /\ Policy # "no" /\ auto.count < MaxRestart /\ spawn.by # "auto"
      /\ UNCHANGED <<outside, up, processes, adopted, desired, holder, timer, cmd, retry>>
    BY DEF AutoRestart, UnchangedWorld, SafeInv, AutoInv, SpawnInv
<1>1. Pending' = Pending /\ (Refused => Refused')
    BY <1>0 DEF Pending, Refused
<1>2. cmd'.kind = "start" /\ cmd'.pc \in {"settle", "validate"}
          => desired = "running" \/ (cmd.kind = "start" /\ cmd.pc \in {"settle", "validate"})
    BY <1>0
<1>3. ReapInv'
    BY <1>0 DEF ReapInv
<1>4. CASE auto' = NoAuto /\ spawn' = spawn /\ autos' = autos
  <2>0. auto'.pc = "idle" /\ NoTimer' = NoTimer /\ NoChild' = NoChild /\ (Reserved' <=> Reserved)
      BY <1>4, Nothing DEF NoTimer, NoChild, Reserved, NoSpawn
  <2>1. Left' \in {0, Left}
    <3>1. CASE holder = "auto"
      <4>1. ~Managed /\ ~Reserved
          BY <1>0, <3>1 DEF SafeInv, AutoInv
      <4>2. processes' = NoChild
          BY <1>0, <4>1 DEF Managed
      <4>3. CASE timer = NoTimer
          BY <1>0, <2>0, <4>1, <4>2, <4>3 DEF Left
      <4>4. CASE timer # NoTimer
          BY <1>0, <2>0, <4>4 DEF Left
      <4> QED BY <4>3, <4>4
    <3>2. CASE holder # "auto"
        BY <1>0, <1>4, <2>0, <3>2 DEF Left
    <3> QED BY <3>1, <3>2
  <2>2. spawn'.by # "auto" /\ UNCHANGED <<outside, up, desired, retry, autos>> /\ adopted' = adopted
      BY <1>0, <1>4
  <2> QED BY <1>1, <1>2, <1>3, <2>1, <2>2, NothingSpent
<1>5. CASE /\ Current("auto") /\ ~Managed /\ ~Reserved
           /\ spawn' = [by |-> "auto", pc |-> "port", inst |-> None, count |-> auto.count + 1]
           /\ auto' = [auto EXCEPT !.pc = "spawn"] /\ autos' = autos + 1
  <2>1. /\ up = "up" /\ desired = "running" /\ holder = "auto" /\ adopted = None /\ timer = NoTimer
        /\ processes = NoChild
      BY <1>0, <1>5 DEF Current, Managed, SafeInv, AutoInv
  <2>2. Left = MaxRestart - auto.count
      BY <1>0, <2>1 DEF Left
  <2>3. /\ spawn'.count = auto.count + 1 /\ spawn'.by = "auto" /\ auto'.pc = "spawn"
        /\ NoTimer' = NoTimer /\ Reserved'
      BY <1>5, Nothing DEF TypeOK, NoTimer, Reserved, NoSpawn
  <2>4. Left' = MaxRestart - (auto.count + 1)
      BY <1>0, <2>1, <2>3 DEF Left
  <2>5. PICK a \in Nat, l \in Nat, p \in Nat, r \in 0..MaxRestart :
            autos = a /\ Left = l + 1 /\ Left' = l /\ Pending = p /\ retry = r /\ autos' = a + 1
    <3>1. auto.count \in Nat /\ MaxRestart \in Nat /\ MaxRestart - (auto.count + 1) \in Nat
          /\ MaxRestart - auto.count = (MaxRestart - (auto.count + 1)) + 1
        BY <1>0, Fields, ProcessAssumption
    <3>2. autos \in Nat /\ retry \in 0..MaxRestart
        BY DEF TypeOK
    <3> QED BY <1>5, <1>b, <2>2, <2>4, <3>1, <3>2
  <2>6. Allowed(r) \in Nat /\ Allowed(0) \in Nat /\ MaxRestart \in Nat /\ MaxRestart <= Allowed(0)
      BY <2>5, Allowance
  <2>7. FreshInv' /\ OvertakenInv'
      BY <1>0, <2>1 DEF FreshInv, OvertakenInv
  <2>8. CASE r > 0
    <3>1. a + (l + 1) + p + Allowed(r) <= Allowed(0)
        BY <2>1, <2>5, <2>8 DEF LimitInv, BudgetInv, Refused
    <3>2. (a + 1) + l + p + Allowed(r) <= Allowed(0) /\ a + 1 <= Allowed(0)
        BY <2>5, <2>6, <3>1
    <3>3. BudgetInv'
        BY <1>0, <1>1, <2>5, <2>8, <3>2 DEF BudgetInv
    <3> QED BY <1>3, <2>5, <2>7, <3>2, <3>3 DEF LimitInv
  <2>9. CASE r = 0
    <3>1. a + (l + 1) <= MaxRestart
        BY <1>0, <2>1, <2>5, <2>9 DEF LimitInv, BudgetInv
    <3>2. (a + 1) + l <= MaxRestart /\ a + 1 <= Allowed(0)
        BY <2>5, <2>6, <3>1
    <3>3. BudgetInv'
        BY <1>0, <2>1, <2>5, <2>9, <3>2 DEF BudgetInv
    <3> QED BY <1>3, <2>5, <2>7, <3>2, <3>3 DEF LimitInv
  <2> QED BY <2>5, <2>6, <2>8, <2>9
<1> QED BY <1>4, <1>5 DEF AutoRestart, UnchangedWorld

\* A process that dies by itself spends nothing yet.
LEMMA DieSpends ==
    ASSUME TypeOK, SafeInv, ReapInv, LimitInv, UNCHANGED <<outside, up, memory, autos>>
    PROVE  ReapInv' /\ LimitInv'
<1>1. UNCHANGED <<outside, up, processes, adopted, desired, holder, timer, spawn, auto, cmd, retry, autos>>
    BY DEF memory
<1>2. Left' = Left /\ Pending' = Pending /\ (Refused <=> Refused')
    BY <1>1, LeftStays DEF Pending, Refused
<1>3. ReapInv'
    BY <1>1 DEF ReapInv
<1>4. BudgetInv'
    BY <1>1, <1>2 DEF LimitInv, BudgetInv
<1>5. FreshInv' /\ OvertakenInv'
    BY <1>1, <1>2 DEF LimitInv, FreshInv, OvertakenInv
<1> QED BY <1>1, <1>3, <1>4, <1>5 DEF LimitInv

\* A supervisor that ends spends nothing more.
LEMMA EndSpends ==
    ASSUME ReapInv, LimitInv, Close \/ (up # "down" /\ Down)
    PROVE  ReapInv' /\ LimitInv'
<1>1. up' # "up" /\ autos' = autos /\ retry' = 0 /\ cmd' \in {cmd, NoCmd}
    BY DEF Close, Down, history
<1>2. ReapInv'
    BY <1>1, Nothing DEF ReapInv
<1> QED BY <1>1, <1>2, WishEnds

\* A boot starts the count again.
LEMMA BootSpends ==
    ASSUME TypeOK, SafeInv, ReapInv, TypeOK', SafeInv', Boot
    PROVE  ReapInv' /\ LimitInv'
<1>1. autos' = 0 /\ retry' = retry
    BY DEF Boot
<1>2. cmd'.kind # "reap"
  <2>1. cmd' = NoCmd \/ cmd' = [NoCmd EXCEPT !.kind = "autostart", !.pc = "env"]
      BY DEF Boot
  <2> QED BY <2>1, EmptyCmd
<1>3. ReapInv' /\ Pending' = 0
    BY <1>1, <1>2 DEF ReapInv, Pending
<1> QED BY <1>1, <1>3, CountRestarts

\* Every step keeps the budget.
LEMMA SpendKept ==
    ASSUME TypeOK, SafeInv, ReapInv, LimitInv, TypeOK', SafeInv', Next
    PROVE  ReapInv' /\ LimitInv'
<1>1. CASE Die
    BY <1>1, DieSpends DEF Die
<1>2. CASE Close \/ Exit \/ Crash
    BY <1>2, EndSpends DEF Exit, Crash
<1> QED BY <1>1, <1>2, SpawnSpends, QueueSpends, ReapTickSpends, CommandSpends, ChildExitSpends,
           TimerFiresSpends, AutoRestartSpends, BootSpends DEF Next

-----------------------------------------------------------------------------
(* The theorems                                                            *)

\* The invariant holds before the first boot.
LEMMA InitialState == Init => IInv
<1> SUFFICES ASSUME Init PROVE IInv
    OBVIOUS
<1>1. TypeOK
  <2>1. /\ NoTimer \in 0..NoTimer /\ 0 \in 0..MaxRestart /\ 0 \in 0..MaxFaults /\ Outside \subseteq BOOLEAN
      BY ProcessAssumption DEF NoTimer
  <2> QED BY <2>1 DEF Init, TypeOK, NoChild, NoSpawn, NoAuto, NoCmd
<1>2. ~Managed /\ ~Reserved
    BY DEF Init, Managed, Reserved
<1>3. SafeInv
    BY <1>2, Nothing DEF Init, SafeInv, DownInv, CmdInv, KillInv, SpawnInv, BootInv, ManageInv, AutoInv,
                         LiveInv, StopInv, Owner
<1>4. ReapInv
    BY Nothing DEF Init, ReapInv
<1>5. LimitInv
    BY Allowance DEF Init, LimitInv, BudgetInv, FreshInv, OvertakenInv
<1> QED BY <1>1, <1>3, <1>4, <1>5 DEF IInv

\* A step in which nothing changes.
LEMMA Stutters == IInv /\ UNCHANGED vars => IInv'
<1> SUFFICES ASSUME IInv, UNCHANGED vars PROVE IInv'
    OBVIOUS
<1>1. /\ UNCHANGED <<outside, live, up, processes, adopted, desired, holder, timer, spawn, auto, cmd, retry>>
      /\ UNCHANGED <<row, raised, answer, lost, autos, faults>>
    BY DEF vars, memory, history
<1>2. TypeOK'
    BY <1>1 DEF IInv, TypeOK, NoTimer
<1>3. SafeInv'
    BY <1>1 DEF IInv, SafeInv, DownInv, CmdInv, KillInv, SpawnInv, BootInv, ManageInv, AutoInv,
                LiveInv, StopInv, Owner, Managed, Reserved, Current, NoTimer, NoChild, NoSpawn, NoAuto, NoCmd
<1>4. ReapInv' /\ LimitInv'
    BY <1>1, DieSpends DEF IInv, memory
<1> QED BY <1>2, <1>3, <1>4 DEF IInv

\* Every step keeps the invariant.
LEMMA Step == IInv /\ [Next]_vars => IInv'
<1> SUFFICES ASSUME IInv, [Next]_vars PROVE IInv'
    OBVIOUS
<1>1. CASE Next
  <2>1. TypeOK /\ SafeInv /\ ReapInv /\ LimitInv
      BY DEF IInv
  <2>2. TypeOK'
      BY <1>1, <2>1, TypesKept DEF SafeInv
  <2>3. SafeInv'
      BY <1>1, <2>1, <2>2, SafeKept
  <2>4. ReapInv' /\ LimitInv'
      BY <1>1, <2>1, <2>2, <2>3, SpendKept
  <2> QED BY <2>2, <2>3, <2>4 DEF IInv
<1>2. CASE UNCHANGED vars
    BY <1>2, Stutters
<1> QED BY <1>1, <1>2

\* The supervisor's memory, the rows of the database and the processes that run
\* stay in step: spawns, kills, automatic restarts, the reaper, crashes and
\* boots keep the whole of the inductive invariant.
THEOREM InductiveInvariant == Spec => []IInv
BY InitialState, Step, PTL DEF Spec

\* Every variable keeps the values its field of manager.ts can have; no restart
\* count passes max_restart.
THEOREM TypesHold == Spec => []TypeOK
<1>1. IInv => TypeOK
    BY DEF IInv
<1> QED BY <1>1, InductiveInvariant, PTL

\* What the properties need of the invariant.
LEMMA OwnerAlone ==
    ASSUME IInv
    PROVE  /\ live \ lost \subseteq {Owner} /\ Owner \in {processes.inst, adopted, spawn.inst, row.pid}
           /\ ManageInv /\ StopInv
BY DEF IInv, SafeInv, LiveInv, Owner

\* The service never runs twice, whatever spawns, restarts, stops and supervisor
\* crashes overlap, except for processes that were given up with an error.
THEOREM RunsOnce == Spec => []NoTwin
<1>1. IInv => NoTwin
    BY OwnerAlone DEF NoTwin
<1> QED BY <1>1, InductiveInvariant, PTL

\* A live process that was not given up is managed, being spawned or recorded
\* for the next boot, at whatever step the supervisor dies.
THEOREM KeepsTrack == Spec => []NothingLeaks
<1>1. IInv => NothingLeaks
    BY OwnerAlone DEF NothingLeaks, Known, ManageInv
<1> QED BY <1>1, InductiveInvariant, PTL

\* Once a stop has answered ok nothing of the service runs until somebody asks
\* for it or a boot takes it up.
THEOREM StopsForGood == Spec => []StopSticks
<1>1. IInv => StopSticks
    BY OwnerAlone DEF StopSticks, StopInv
<1> QED BY <1>1, InductiveInvariant, PTL

\* The restarts of onExit and of the reaper, which do not know of each other,
\* together spawn a service a bounded number of times.
THEOREM RestartsEnd == Spec => []AutomaticSpawnsBounded
<1>1. IInv => AutomaticSpawnsBounded
    BY Allowance DEF IInv, LimitInv, AutomaticSpawnsBounded
<1> QED BY <1>1, InductiveInvariant, PTL
===============================================================================
