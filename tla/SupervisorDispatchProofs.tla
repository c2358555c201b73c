----------------------- MODULE SupervisorDispatchProofs -----------------------
(***************************************************************************)
(* What module SupervisorDispatch promises, proved for any ids, any sizes  *)
(* of the journal and any number of faults.                                *)
(*                                                                         *)
(* The invariants of its runs are not inductive: that nothing is executed  *)
(* twice depends on which of the writes, the queues, the claims and the    *)
(* inflight map still know an operation whose record may be evicted.  IInv *)
(* relates them: RunInv counts, for one id and kind, the executions begun, *)
(* the one that waits in a queue and the one that a callback could still   *)
(* queue, against the record in the state file and the times one was       *)
(* evicted; the other parts say why each of these is there at most once.   *)
(***************************************************************************)
EXTENDS SupervisorDispatch, SequenceTheorems, TLAPS

\* Counts a fact.
One(p) == IF p THEN 1 ELSE 0

\* What an id stands for in the journal.
Distinct(ops) == \A i, j \in DOMAIN ops : ops[i].id = ops[j].id => i = j
Holds(ops, id, kind, state) ==
    \E i \in DOMAIN ops : ops[i] = [id |-> id, kind |-> kind, state |-> state]

\* The operation is in its target's queue; it has not begun.
Queued(id, kind) ==
    \E i \in DOMAIN queue[Target(kind)] : queue[Target(kind)][i] = [id |-> id, kind |-> kind]
Waits(id, kind) ==
    \E i \in DOMAIN queue[Target(kind)] :
        /\ queue[Target(kind)][i] = [id |-> id, kind |-> kind]
        /\ i > 1 \/ stage[Target(kind)] = "idle"
\* A callback of a commit would queue it.
Claimable(id) == phase = "up" /\ id \notin claimed /\ StateOf(mem, id) = "accepted"

\* Without a process there is no memory.
OffInv ==
    phase = "off" =>
        /\ mem = <<>> /\ writes = <<>> /\ inflight = NoFlight /\ queue = Empty
        /\ stage = Idle /\ claimed = {} /\ calls = [id \in Ids |-> 0]
\* One record per id; the state file has the records of the memory, older
\* states of them perhaps.
JournalInv ==
    /\ Distinct(mem) /\ Distinct(disk)
    /\ phase # "off" => /\ Len(mem) = Len(disk)
                        /\ \A i \in DOMAIN mem : mem[i].id = disk[i].id
\* Only the head of a queue runs.
StageInv == \A t \in Targets : stage[t] # "idle" => queue[t] # <<>>
\* A result that waits for the store is that of a head, one per target.
FinalWriteInv ==
    \A i \in DOMAIN writes : writes[i].state # "accepted" =>
        LET w == writes[i]  t == Target(w.kind)
        IN  /\ stage[t] = "recording" /\ queue[t] # <<>>
            /\ Head(queue[t]) = [id |-> w.id, kind |-> w.kind]
            /\ \A j \in DOMAIN writes :
                   writes[j].state # "accepted" /\ Target(writes[j].kind) = t => i = j
\* An acceptance that waits for the store is in the inflight map and nowhere else.
AcceptWriteInv ==
    \A i \in DOMAIN writes : writes[i].state = "accepted" =>
        LET w == writes[i]
        IN  /\ inflight[w.id] = w.kind /\ ~Has(mem, w.id)
            /\ ~Queued(w.id, "service") /\ ~Queued(w.id, "excubitor")
            /\ \A j \in DOMAIN writes : writes[j].state = "accepted" /\ writes[j].id = w.id => i = j
\* What is queued is queued once, is known to the inflight map or to the
\* claims, and its record says accepted unless it was evicted.
QueueInv ==
    \A t \in Targets :
        /\ \A i \in DOMAIN queue[t] :
              LET e == queue[t][i]
              IN  /\ Target(e.kind) = t
                  /\ e.kind # "deferred" => inflight[e.id] = e.kind
                  /\ e.kind = "deferred" => e.id \in claimed
                  /\ drops[e.id] > 0 \/ Holds(mem, e.id, e.kind, "accepted")
        /\ \A i, j \in DOMAIN queue[t] : queue[t][i] = queue[t][j] => i = j
\* A claim is held by a queued operation.
ClaimInv == \A id \in claimed : Queued(id, "deferred")
\* An accepted record of the memory is in flight, or waits for its commit.
MemInv ==
    \A i \in DOMAIN mem : mem[i].state = "accepted" /\ mem[i].kind # "deferred"
                          => inflight[mem[i].id] = mem[i].kind
\* A callback is that of a prepared operation.
CallInv ==
    \A id \in Ids : calls[id] > 0 =>
        \/ drops[id] > 0
        \/ \E i \in DOMAIN mem : mem[i].id = id /\ mem[i].kind = "deferred"
\* Executions begun, waiting and still claimable are paid by one record.
RunInv ==
    \A id \in Ids, kind \in Kinds :
        runs[id][kind] + One(Waits(id, kind)) + One(kind = "deferred" /\ Claimable(id))
            <= drops[id] + One(Has(disk, id))
\* The journal that answers now, or will answer the next supervisor's client.
Known == IF phase = "off" THEN disk ELSE mem
\* What a client was told is what the journal says.
ToldInv ==
    \A id \in Ids : told[id] # None /\ drops[id] = 0 /\ id \notin unsaved
                    => StateOf(Known, id) = told[id]
\* The endpoint is given up only when nothing is left.
LeftInv == phase = "leaving" => Drained

IInv ==
    /\ TypeOK /\ OffInv /\ JournalInv /\ StageInv /\ FinalWriteInv /\ AcceptWriteInv
    /\ QueueInv /\ ClaimInv /\ MemInv /\ CallInv /\ RunInv /\ ToldInv /\ LeftInv

-----------------------------------------------------------------------------
(* The journal. *)

\* The record of an id is the one at its index.
LEMMA JournalReads ==
    ASSUME NEW ops \in Seq(Records), Distinct(ops)
    PROVE  /\ \A i \in DOMAIN ops : /\ RecordOf(ops, ops[i].id) = ops[i]
                                    /\ StateOf(ops, ops[i].id) = ops[i].state
                                    /\ ops[i] = [id |-> ops[i].id, kind |-> ops[i].kind, state |-> ops[i].state]
                                    /\ ops[i] \in Records
           /\ \A id : ~Has(ops, id) => StateOf(ops, id) = None
           /\ \A id : Has(ops, id) <=> \E i \in DOMAIN ops : ops[i].id = id
<1>1. ASSUME NEW i \in DOMAIN ops
      PROVE  /\ RecordOf(ops, ops[i].id) = ops[i]
             /\ StateOf(ops, ops[i].id) = ops[i].state
             /\ ops[i] = [id |-> ops[i].id, kind |-> ops[i].kind, state |-> ops[i].state]
             /\ ops[i] \in Records
  <2>1. (CHOOSE j \in DOMAIN ops : ops[j].id = ops[i].id) = i
      BY DEF Distinct
  <2>2. Has(ops, ops[i].id)
      BY DEF Has
  <2>3. ops[i] \in Records
      OBVIOUS
  <2> QED BY <2>1, <2>2, <2>3 DEF RecordOf, StateOf, Records
<1>2. \A id : ~Has(ops, id) => StateOf(ops, id) = None
    BY DEF StateOf
<1> QED BY <1>1, <1>2 DEF Has

\* Appending the record of a new id, and keeping the newest.
LEMMA JournalAccepts ==
    ASSUME NEW ops \in Seq(Records), Len(ops) <= MaxOps, Distinct(ops),
           NEW id \in Ids, NEW kind \in Kinds, ~Has(ops, id),
           NEW new, new = Keep(WithAccepted(ops, id, kind))
    PROVE  /\ new \in Seq(Records) /\ Len(new) <= MaxOps /\ Distinct(new)
           /\ Holds(new, id, kind, "accepted")
           /\ \A i \in DOMAIN new : \/ new[i] = [id |-> id, kind |-> kind, state |-> "accepted"]
                                    \/ \E j \in DOMAIN ops : new[i] = ops[j]
<1> DEFINE r == [id |-> id, kind |-> kind, state |-> "accepted"]
           longer == Append(ops, r)
<1>1. /\ r \in Records /\ longer \in Seq(Records) /\ Len(longer) = Len(ops) + 1
      /\ longer[Len(ops) + 1] = r /\ \A i \in 1..Len(ops) : longer[i] = ops[i]
    BY DEF Records, Finals
<1>2. WithAccepted(ops, id, kind) = longer
    BY DEF WithAccepted
<1>3. Distinct(longer)
    BY <1>1 DEF Distinct, Has
<1> HIDE DEF longer
<1>4. MaxOps \in Nat \ {0} /\ Len(ops) \in Nat
    BY SupervisorAssumption
<1>5. CASE Len(longer) <= MaxOps
  <2>1. new = longer
      BY <1>2, <1>5, <1>4, <1>1 DEF Keep
  <2>2. Holds(new, id, kind, "accepted")
      BY <1>1, <1>4, <2>1 DEF Holds
  <2> QED BY <1>1, <1>3, <1>4, <1>5, <2>1, <2>2
<1>6. CASE Len(longer) > MaxOps
  <2>1. new = SubSeq(longer, Len(longer) - MaxOps + 1, Len(longer)) /\ Len(longer) = MaxOps + 1
      BY <1>1, <1>2, <1>4, <1>6 DEF Keep, Newest
  <2>2. /\ new \in Seq(Records) /\ Len(new) = MaxOps
        /\ \A i \in 1..MaxOps : new[i] = longer[i + 1]
      BY <1>1, <1>4, <2>1, SubSeqProperties
  <2>d. /\ DOMAIN new = 1..MaxOps /\ DOMAIN longer = 1..(MaxOps + 1) /\ DOMAIN ops = 1..MaxOps
        /\ Len(ops) = MaxOps
    <3>1. Len(ops) = MaxOps
        BY <1>1, <1>4, <2>1
    <3>2. DOMAIN new = 1..MaxOps
        BY <2>2, LenProperties
    <3>3. DOMAIN longer = 1..(MaxOps + 1)
        BY <1>1, <2>1, LenProperties
    <3>4. DOMAIN ops = 1..MaxOps
        BY <3>1, LenProperties
    <3> QED BY <3>1, <3>2, <3>3, <3>4
  <2>3. Distinct(new)
    <3> SUFFICES ASSUME NEW i \in 1..MaxOps, NEW j \in 1..MaxOps, new[i].id = new[j].id PROVE i = j
        BY <2>d DEF Distinct
    <3>1. /\ i + 1 \in 1..(MaxOps + 1) /\ j + 1 \in 1..(MaxOps + 1)
          /\ longer[i + 1].id = longer[j + 1].id
        BY <1>4, <2>2
    <3>2. i + 1 = j + 1
        BY <1>3, <2>d, <3>1 DEF Distinct
    <3> QED BY <1>4, <3>2
  <2>4. Holds(new, id, kind, "accepted")
    <3>1. MaxOps \in DOMAIN new /\ new[MaxOps] = r
        BY <1>1, <1>4, <2>2, <2>d
    <3> QED BY <3>1 DEF Holds
  <2>5. ASSUME NEW i \in DOMAIN new PROVE new[i] = r \/ \E j \in DOMAIN ops : new[i] = ops[j]
    <3>1. i \in 1..MaxOps /\ new[i] = longer[i + 1]
        BY <2>2, <2>d
    <3>2. CASE i = MaxOps
        BY <1>1, <2>d, <3>1, <3>2
    <3>3. CASE i < MaxOps
        BY <1>1, <1>4, <2>d, <3>1, <3>3
    <3> QED BY <1>4, <3>1, <3>2, <3>3
  <2> QED BY <1>4, <2>2, <2>3, <2>4, <2>5
<1> QED BY <1>1, <1>4, <1>5, <1>6

\* The result of an operation is written where its record is.
LEMMA JournalEnds ==
    ASSUME NEW ops \in Seq(Records), Distinct(ops), NEW id \in Ids, NEW s \in Finals,
           NEW new, new = WithState(ops, id, s)
    PROVE  /\ new \in Seq(Records) /\ Len(new) = Len(ops) /\ Distinct(new)
           /\ \A i \in DOMAIN ops : /\ new[i].id = ops[i].id /\ new[i].kind = ops[i].kind
                                    /\ new[i].state = IF ops[i].id = id THEN s ELSE ops[i].state
<1>1. \A i \in DOMAIN ops : ops[i] \in Records
    OBVIOUS
<1>2. new = [i \in DOMAIN ops |-> IF ops[i].id = id THEN [ops[i] EXCEPT !.state = s] ELSE ops[i]]
    BY DEF WithState
<1>3. \A i \in DOMAIN ops : new[i] \in Records
    BY <1>1, <1>2 DEF Records
<1>4. new \in Seq(Records) /\ Len(new) = Len(ops)
    BY <1>2, <1>3, LenProperties, SeqDef
<1>5. \A i \in DOMAIN ops : /\ new[i].id = ops[i].id /\ new[i].kind = ops[i].kind
                            /\ new[i].state = IF ops[i].id = id THEN s ELSE ops[i].state
    BY <1>1, <1>2 DEF Records
<1>6. Distinct(new)
    BY <1>4, <1>5 DEF Distinct
<1> QED BY <1>4, <1>5, <1>6

\* A new supervisor interrupts what was accepted, and keeps every record.
LEMMA JournalInterrupts ==
    ASSUME NEW ops \in Seq(Records), Len(ops) <= MaxOps, Distinct(ops),
           NEW new, new = Keep(Interrupt(ops))
    PROVE  /\ new \in Seq(Records) /\ Len(new) = Len(ops) /\ Distinct(new)
           /\ \A i \in DOMAIN ops :
                  /\ new[i].id = ops[i].id /\ new[i].kind = ops[i].kind
                  /\ new[i].state = IF ops[i].state = "accepted" THEN "interrupted" ELSE ops[i].state
<1> DEFINE all == Interrupt(ops)
<1>1. \A i \in DOMAIN ops : ops[i] \in Records
    OBVIOUS
<1>2. all = [i \in DOMAIN ops |-> IF ops[i].state = "accepted"
                                  THEN [ops[i] EXCEPT !.state = "interrupted"] ELSE ops[i]]
    BY DEF Interrupt
<1>3. \A i \in DOMAIN ops : all[i] \in Records
    BY <1>1, <1>2 DEF Records, Finals
<1>4. all \in Seq(Records) /\ Len(all) = Len(ops)
    BY <1>2, <1>3, LenProperties, SeqDef
<1>5. \A i \in DOMAIN ops :
          /\ all[i].id = ops[i].id /\ all[i].kind = ops[i].kind
          /\ all[i].state = IF ops[i].state = "accepted" THEN "interrupted" ELSE ops[i].state
    BY <1>1, <1>2 DEF Records
<1>6. Distinct(all)
    BY <1>4, <1>5 DEF Distinct
<1>7. new = all
    BY <1>4, SupervisorAssumption DEF Keep
<1> QED BY <1>4, <1>5, <1>6, <1>7

-----------------------------------------------------------------------------
(* The queues of the targets. *)

\* Every kind has its target, and an entry is its id and kind.
LEMMA TargetTypes == /\ \A kind \in Kinds : Target(kind) \in Targets
                     /\ Kinds = {"service", "excubitor", "deferred"}
                     /\ \A e \in Entries : e.id \in Ids /\ e.kind \in Kinds /\ e = [id |-> e.id, kind |-> e.kind]
                     /\ \A id \in Ids, kind \in Kinds : [id |-> id, kind |-> kind] \in Entries
BY DEF Kinds, Target, Targets, Entries

\* An operation joins its target's queue behind the others.
LEMMA QueueGrows ==
    ASSUME queue \in [Targets -> Seq(Entries)], StageInv,
           NEW id \in Ids, NEW kind \in Kinds,
           \A t \in Targets : \A i, j \in DOMAIN queue[t] : queue[t][i] = queue[t][j] => i = j,
           ~Queued(id, kind), stage' = stage,
           queue' = [queue EXCEPT ![Target(kind)] = Append(@, [id |-> id, kind |-> kind])]
    PROVE  /\ queue' \in [Targets -> Seq(Entries)]
           /\ StageInv'
           /\ \A t \in Targets : queue[t] # <<>> => queue'[t] # <<>> /\ Head(queue'[t]) = Head(queue[t])
           /\ \A t \in Targets : \A i, j \in DOMAIN queue'[t] : queue'[t][i] = queue'[t][j] => i = j
           /\ \A t \in Targets : \A i \in DOMAIN queue'[t] :
                  \/ \E j \in DOMAIN queue[t] : queue'[t][i] = queue[t][j]
                  \/ t = Target(kind) /\ queue'[t][i] = [id |-> id, kind |-> kind]
           /\ Queued(id, kind)'
           /\ \A u \in Ids, k \in Kinds : Queued(u, k) => Queued(u, k)'
           /\ \A u \in Ids, k \in Kinds : Queued(u, k)' => Queued(u, k) \/ (u = id /\ k = kind)
           /\ \A u \in Ids, k \in Kinds : Waits(u, k)' => Waits(u, k) \/ (u = id /\ k = kind)
<1> DEFINE t == Target(kind)  e == [id |-> id, kind |-> kind]  q == queue[t]
<1>a. t \in Targets /\ e \in Entries
    BY TargetTypes
<1>b. q \in Seq(Entries)
    BY <1>a
<1>1. t \in Targets /\ e \in Entries /\ q \in Seq(Entries) /\ Len(q) \in Nat
    BY <1>a, <1>b, LenProperties
<1>2. /\ Append(q, e) \in Seq(Entries) /\ Len(Append(q, e)) = Len(q) + 1
      /\ DOMAIN Append(q, e) = 1..(Len(q) + 1) /\ DOMAIN q = 1..Len(q)
      /\ \A i \in 1..Len(q) : Append(q, e)[i] = q[i]
      /\ Append(q, e)[Len(q) + 1] = e
      /\ Append(q, e) # <<>> /\ (q # <<>> => Head(Append(q, e)) = Head(q))
    BY <1>1
<1>3. /\ queue' \in [Targets -> Seq(Entries)] /\ queue'[t] = Append(q, e)
      /\ \A u \in Targets : u # t => queue'[u] = queue[u]
    BY <1>1, <1>2
<1>4. \A u \in Targets : queue[u] # <<>> => queue'[u] # <<>> /\ Head(queue'[u]) = Head(queue[u])
    BY <1>2, <1>3
<1>5. \A i \in DOMAIN q : q[i] # e
    BY DEF Queued
<1>6. ASSUME NEW u \in Targets, NEW i \in DOMAIN queue'[u], NEW j \in DOMAIN queue'[u],
             queue'[u][i] = queue'[u][j]
      PROVE  i = j
  <2>1. CASE u = t
    <3>1. \A n \in 1..(Len(q) + 1) : \/ n \in DOMAIN q /\ queue'[t][n] = q[n] /\ q[n] # e
                                     \/ n = Len(q) + 1 /\ queue'[t][n] = e
      <4> SUFFICES ASSUME NEW n \in 1..(Len(q) + 1)
                   PROVE  \/ n \in DOMAIN q /\ queue'[t][n] = q[n] /\ q[n] # e
                          \/ n = Len(q) + 1 /\ queue'[t][n] = e
          OBVIOUS
      <4>1. CASE n = Len(q) + 1
          BY <1>2, <1>3, <4>1
      <4>2. CASE n # Len(q) + 1
        <5>1. n \in 1..Len(q)
            BY <1>1, <4>2
        <5>2. n \in DOMAIN q /\ queue'[t][n] = q[n]
            BY <1>2, <1>3, <5>1
        <5>3. q[n] # e
            BY <1>5, <5>2
        <5> QED BY <5>2, <5>3
      <4> QED BY <4>1, <4>2
    <3>2. i \in 1..(Len(q) + 1) /\ j \in 1..(Len(q) + 1)
        BY <1>2, <1>3, <2>1
    <3> QED BY <1>6, <2>1, <3>1, <3>2
  <2>2. CASE u # t
      BY <1>3, <1>6, <2>2
  <2> QED BY <2>1, <2>2
<1>7. ASSUME NEW u \in Targets, NEW i \in DOMAIN queue'[u]
      PROVE  \/ \E j \in DOMAIN queue[u] : queue'[u][i] = queue[u][j]
             \/ u = t /\ queue'[u][i] = e
  <2>1. CASE u = t
      BY <1>1, <1>2, <1>3, <2>1
  <2>2. CASE u # t
      BY <1>3, <2>2
  <2> QED BY <2>1, <2>2
<1>8. StageInv'
    BY <1>4 DEF StageInv
<1>9. Queued(id, kind)'
    BY <1>1, <1>2, <1>3 DEF Queued
<1>10. ASSUME NEW u \in Ids, NEW k \in Kinds
       PROVE  /\ Queued(u, k) => Queued(u, k)'
              /\ Queued(u, k)' => Queued(u, k) \/ (u = id /\ k = kind)
              /\ Waits(u, k)' => Waits(u, k) \/ (u = id /\ k = kind)
  <2>1. CASE Target(k) = t
    <3>1. Queued(u, k) => Queued(u, k)'
        BY <1>1, <1>2, <1>3, <2>1 DEF Queued
    <3>2. ASSUME NEW i \in DOMAIN queue'[t], queue'[t][i] = [id |-> u, kind |-> k]
          PROVE  (i \in DOMAIN q /\ q[i] = [id |-> u, kind |-> k]) \/ (u = id /\ k = kind)
      <4>1. CASE i = Len(q) + 1
          BY <1>2, <1>3, <3>2, <4>1
      <4>2. CASE i # Len(q) + 1
          BY <1>1, <1>2, <1>3, <3>2, <4>2
      <4> QED BY <4>1, <4>2
    <3>3. Queued(u, k)' => Queued(u, k) \/ (u = id /\ k = kind)
        BY <2>1, <3>2 DEF Queued
    <3>4. Waits(u, k)' => Waits(u, k) \/ (u = id /\ k = kind)
        BY <2>1, <3>2 DEF Waits
    <3> QED BY <3>1, <3>3, <3>4
  <2>2. CASE Target(k) # t
    <3>1. queue'[Target(k)] = queue[Target(k)]
        BY <1>3, <2>2, TargetTypes
    <3> QED BY <3>1 DEF Queued, Waits
  <2> QED BY <2>1, <2>2
<1> QED BY <1>3, <1>4, <1>6, <1>7, <1>8, <1>9, <1>10

\* The head of a queue leaves it.
LEMMA QueueShrinks ==
    ASSUME queue \in [Targets -> Seq(Entries)], StageInv,
           stage \in [Targets -> {"idle", "executing", "recording"}],
           NEW t \in Targets, queue[t] # <<>>,
           \A u \in Targets : \A i, j \in DOMAIN queue[u] : queue[u][i] = queue[u][j] => i = j,
           stage' = [stage EXCEPT ![t] = "idle"],
           queue' = [queue EXCEPT ![t] = Tail(@)]
    PROVE  /\ queue' \in [Targets -> Seq(Entries)]
           /\ StageInv'
           /\ stage' \in [Targets -> {"idle", "executing", "recording"}]
           /\ \A u \in Targets : u # t => queue'[u] = queue[u] /\ stage'[u] = stage[u]
           /\ \A u \in Targets : \A i, j \in DOMAIN queue'[u] : queue'[u][i] = queue'[u][j] => i = j
           /\ \A u \in Targets : \A i \in DOMAIN queue'[u] :
                  /\ \E j \in DOMAIN queue[u] : queue'[u][i] = queue[u][j]
                  /\ u = t => queue'[u][i] # Head(queue[t])
           /\ \A u \in Ids, k \in Kinds : Queued(u, k)' => Queued(u, k)
           /\ \A u \in Ids, k \in Kinds :
                  Queued(u, k) => Queued(u, k)' \/ (Target(k) = t /\ Head(queue[t]) = [id |-> u, kind |-> k])
           /\ \A u \in Ids, k \in Kinds : Waits(u, k)' => Waits(u, k)
<1> DEFINE q == queue[t]
<1>1. /\ q \in Seq(Entries) /\ Len(q) \in Nat \ {0} /\ DOMAIN q = 1..Len(q) /\ Head(q) = q[1]
      /\ Tail(q) \in Seq(Entries) /\ Len(Tail(q)) = Len(q) - 1 /\ DOMAIN Tail(q) = 1..(Len(q) - 1)
      /\ \A i \in 1..(Len(q) - 1) : Tail(q)[i] = q[i + 1]
    OBVIOUS
<1>2. /\ queue' \in [Targets -> Seq(Entries)] /\ queue'[t] = Tail(q) /\ stage'[t] = "idle"
      /\ stage' \in [Targets -> {"idle", "executing", "recording"}]
      /\ \A u \in Targets : u # t => queue'[u] = queue[u] /\ stage'[u] = stage[u]
    BY <1>1
<1>3. StageInv'
    BY <1>2 DEF StageInv
<1>4. ASSUME NEW u \in Targets, NEW i \in DOMAIN queue'[u], NEW j \in DOMAIN queue'[u],
             queue'[u][i] = queue'[u][j]
      PROVE  i = j
  <2>1. CASE u = t
    <3>1. /\ i \in Nat /\ j \in Nat /\ i + 1 \in DOMAIN q /\ j + 1 \in DOMAIN q
          /\ q[i + 1] = q[j + 1]
        BY <1>1, <1>2, <1>4, <2>1
    <3>2. i + 1 = j + 1
        BY <3>1
    <3> QED BY <3>1, <3>2
  <2>2. CASE u # t
      BY <1>2, <1>4, <2>2
  <2> QED BY <2>1, <2>2
<1>5. ASSUME NEW u \in Targets, NEW i \in DOMAIN queue'[u]
      PROVE  /\ \E j \in DOMAIN queue[u] : queue'[u][i] = queue[u][j]
             /\ u = t => queue'[u][i] # Head(queue[t])
  <2>1. CASE u = t
    <3>1. /\ i \in Nat \ {0} /\ i + 1 \in DOMAIN q /\ queue'[u][i] = q[i + 1] /\ 1 \in DOMAIN q
        BY <1>1, <1>2, <2>1
    <3>2. i + 1 # 1
        BY <3>1
    <3>3. q[i + 1] # q[1]
        BY <3>1, <3>2
    <3> QED BY <1>1, <2>1, <3>1, <3>3
  <2>2. CASE u # t
      BY <1>2, <2>2
  <2> QED BY <2>1, <2>2
<1>6. ASSUME NEW u \in Ids, NEW k \in Kinds
      PROVE  /\ Queued(u, k)' => Queued(u, k)
             /\ Queued(u, k) => Queued(u, k)' \/ (Target(k) = t /\ Head(queue[t]) = [id |-> u, kind |-> k])
             /\ Waits(u, k)' => Waits(u, k)
  <2>1. CASE Target(k) = t
    <3>1. \A i \in DOMAIN queue'[t] : /\ i + 1 \in DOMAIN q /\ queue'[t][i] = q[i + 1] /\ i + 1 > 1
        BY <1>1, <1>2
    <3>2. \A i \in DOMAIN q : i # 1 => i - 1 \in DOMAIN queue'[t] /\ queue'[t][i - 1] = q[i]
        BY <1>1, <1>2
    <3>3. Queued(u, k)' => Queued(u, k)
        BY <2>1, <3>1 DEF Queued
    <3>4. Waits(u, k)' => Waits(u, k)
        BY <2>1, <3>1 DEF Waits
    <3>5. Queued(u, k) => Queued(u, k)' \/ (Target(k) = t /\ Head(queue[t]) = [id |-> u, kind |-> k])
      <4> SUFFICES ASSUME Queued(u, k) PROVE Queued(u, k)' \/ Head(queue[t]) = [id |-> u, kind |-> k]
          BY <2>1
      <4>1. PICK i \in DOMAIN q : q[i] = [id |-> u, kind |-> k]
          BY <2>1 DEF Queued
      <4>2. CASE i = 1
          BY <1>1, <4>1, <4>2
      <4>3. CASE i # 1
        <5>1. i - 1 \in DOMAIN queue'[t] /\ queue'[t][i - 1] = [id |-> u, kind |-> k]
            BY <3>2, <4>1, <4>3
        <5> HIDE DEF q
        <5>2. \E j \in DOMAIN queue'[t] : queue'[t][j] = [id |-> u, kind |-> k]
            BY <5>1
        <5> QED BY <2>1, <5>2 DEF Queued
      <4> QED BY <4>2, <4>3
    <3> QED BY <3>3, <3>4, <3>5
  <2>2. CASE Target(k) # t
    <3>1. queue'[Target(k)] = queue[Target(k)] /\ stage'[Target(k)] = stage[Target(k)]
        BY <1>2, <2>2, TargetTypes
    <3> QED BY <3>1 DEF Queued, Waits
  <2> QED BY <2>1, <2>2
<1> QED BY <1>2, <1>3, <1>4, <1>5, <1>6

-----------------------------------------------------------------------------
(* Steps that leave the queues alone. *)

\* The state file has the records of the memory, whatever their states.
LEMMA SameRecords ==
    ASSUME IInv, phase # "off"
    PROVE  /\ \A id : Has(mem, id) <=> Has(disk, id)
           /\ \A id, kind, state : Holds(mem, id, kind, state) => Has(disk, id)
<1>1. DOMAIN mem = DOMAIN disk /\ \A i \in DOMAIN mem : mem[i].id = disk[i].id
    BY LenProperties DEF IInv, TypeOK, JournalInv
<1>2. \A id : Has(mem, id) <=> Has(disk, id)
    BY <1>1 DEF Has
<1> QED BY <1>2 DEF Has, Holds

\* The journal, the writes, the queues and the executions stay.
LEMMA RepliesKeep ==
    ASSUME IInv, UNCHANGED <<mem, writes, inflight, queue, stage, claimed, disk, runs, drops, unsaved, accepts>>,
           phase' = phase \/ (phase # "off" /\ phase' \in {"closing", "held", "leaving"}),
           phase' = "leaving" => Drained,
           told' \in [Ids -> Finals \cup {None}], faults' \in 0..MaxFaults,
           \A id \in Ids : told'[id] = told[id] \/ told'[id] = StateOf(Known, id),
           calls' \in [Ids -> 0..MaxCommits],
           \A id \in Ids : calls'[id] > 0 =>
               \/ calls[id] > 0
               \/ phase = "up" /\ \E i \in DOMAIN mem : mem[i].id = id /\ mem[i].kind = "deferred"
    PROVE  IInv'
<1> USE DEF IInv
<1>1. TypeOK'
    BY DEF TypeOK
<1>2. OffInv'
  <2> SUFFICES ASSUME phase' = "off" PROVE OffInv'
      BY DEF OffInv
  <2>1. phase = "off"
      OBVIOUS
  <2>2. calls' = [id \in Ids |-> 0]
    <3>1. \A id \in Ids : calls[id] = 0 /\ calls'[id] \in 0..MaxCommits /\ ~(calls'[id] > 0)
        BY <2>1 DEF OffInv
    <3>2. MaxCommits \in Nat
        BY SupervisorAssumption
    <3>3. \A id \in Ids : calls'[id] = 0
        BY <3>1, <3>2
    <3> QED BY <3>3
  <2> QED BY <2>1, <2>2 DEF OffInv
<1>3. JournalInv' /\ StageInv' /\ FinalWriteInv' /\ MemInv'
    BY DEF JournalInv, StageInv, FinalWriteInv, MemInv
<1>4. \A u, k : Queued(u, k)' = Queued(u, k) /\ Waits(u, k)' = Waits(u, k)
    BY DEF Queued, Waits
<1>5. AcceptWriteInv' /\ QueueInv' /\ ClaimInv'
    BY <1>4 DEF AcceptWriteInv, QueueInv, ClaimInv, TypeOK
<1>6. CallInv'
    BY DEF CallInv
<1>7. RunInv'
  <2> SUFFICES ASSUME NEW id \in Ids, NEW kind \in Kinds
               PROVE  runs[id][kind] + One(Waits(id, kind)) + One(kind = "deferred" /\ Claimable(id)')
                          <= drops[id] + One(Has(disk, id))
      BY <1>4 DEF RunInv
  <2>1. Claimable(id)' => Claimable(id)
      BY DEF Claimable
  <2>2. /\ runs[id][kind] + One(Waits(id, kind)) + One(kind = "deferred" /\ Claimable(id))
              <= drops[id] + One(Has(disk, id))
        /\ runs[id][kind] \in Nat /\ drops[id] \in Nat
      BY DEF RunInv, TypeOK
  <2> QED BY <2>1, <2>2 DEF One
<1>8. ToldInv'
    BY DEF ToldInv, Known
<1>9. LeftInv'
    BY DEF LeftInv, Drained
<1> QED BY <1>1, <1>2, <1>3, <1>5, <1>6, <1>7, <1>8, <1>9

\* A known request is answered from the journal.
LEMMA RetryKeeps == ASSUME IInv, NEW id \in Ids, NEW kind \in Asked, Retry(id, kind) PROVE IInv'
<1> USE DEF Retry, IInv
<1>1. told' \in [Ids -> Finals \cup {None}]
      /\ \A u \in Ids : told'[u] = told[u] \/ told'[u] = StateOf(Known, u)
    BY DEF Tell, TypeOK, Known, Finals, None
<1> QED BY <1>1, RepliesKeep DEF proc, TypeOK, LeftInv

\* A commit is answered, and its callback will follow.
LEMMA CommitKeeps == ASSUME IInv, NEW id \in Ids, Commit(id) PROVE IInv'
<1> USE DEF Commit, IInv
<1>1. told' \in [Ids -> Finals \cup {None}]
      /\ \A u \in Ids : told'[u] = told[u] \/ told'[u] = StateOf(Known, u)
    BY DEF Tell, TypeOK, Known, Finals, None
<1>2. calls' \in [Ids -> 0..MaxCommits] /\ \A u \in Ids : u # id => calls'[u] = calls[u]
    BY SupervisorAssumption DEF TypeOK
<1>3. \E i \in DOMAIN mem : mem[i].id = id /\ mem[i].kind = "deferred"
    BY JournalReads DEF TypeOK, JournalInv
<1> QED BY <1>1, <1>2, <1>3, RepliesKeep DEF TypeOK, LeftInv

\* A close begins, drains or fails.
LEMMA PhaseKeeps == ASSUME IInv, Close \/ Release \/ DrainTimeout PROVE IInv'
<1> USE DEF Close, Release, DrainTimeout, IInv
<1>1. told' = told /\ calls' = calls
      /\ UNCHANGED <<mem, writes, inflight, queue, stage, claimed, disk, runs, drops, unsaved, accepts, faults>>
    BY DEF ghosts
<1>2. phase' \in {"closing", "held", "leaving"} /\ phase # "off" /\ (phase' = "leaving" => Drained)
    OBVIOUS
<1> QED BY <1>1, <1>2, RepliesKeep DEF TypeOK

\* Nothing happens.
LEMMA StutterKeeps == ASSUME IInv, UNCHANGED vars PROVE IInv'
<1>1. told' = told /\ calls' = calls /\ faults' = faults /\ phase' = phase
      /\ UNCHANGED <<mem, writes, inflight, queue, stage, claimed, disk, runs, drops, unsaved, accepts>>
    BY DEF vars, proc, ghosts
<1> QED BY <1>1, RepliesKeep DEF IInv, TypeOK, LeftInv

\* The backend's status is written with the whole state.
LEMMA StatusWriteKeeps == ASSUME IInv, StatusWrite PROVE IInv'
<1> USE DEF StatusWrite, IInv
<1>0. /\ UNCHANGED <<phase, mem, writes, inflight, queue, stage, claimed, calls>>
      /\ UNCHANGED <<runs, drops, told, unsaved, accepts, faults>>
      /\ disk' = mem /\ phase # "off"
    BY DEF proc, ghosts
<1>1. TypeOK'
    BY <1>0 DEF TypeOK
<1>2. OffInv' /\ JournalInv' /\ StageInv' /\ FinalWriteInv' /\ MemInv' /\ CallInv' /\ LeftInv'
    BY <1>0 DEF OffInv, JournalInv, StageInv, FinalWriteInv, MemInv, CallInv, LeftInv, Drained
<1>3. \A u, k : Queued(u, k)' = Queued(u, k) /\ Waits(u, k)' = Waits(u, k)
    BY <1>0 DEF Queued, Waits
<1>4. AcceptWriteInv' /\ QueueInv' /\ ClaimInv'
    BY <1>0, <1>3 DEF AcceptWriteInv, QueueInv, ClaimInv
<1>5. RunInv'
  <2> SUFFICES ASSUME NEW id \in Ids, NEW kind \in Kinds
               PROVE  runs[id][kind] + One(Waits(id, kind)) + One(kind = "deferred" /\ Claimable(id))
                          <= drops[id] + One(Has(mem, id))
      BY <1>0, <1>3 DEF RunInv, Has, Claimable
  <2>1. Has(disk, id) => Has(mem, id)
      BY <1>0, SameRecords
  <2>2. /\ runs[id][kind] + One(Waits(id, kind)) + One(kind = "deferred" /\ Claimable(id))
              <= drops[id] + One(Has(disk, id))
        /\ runs[id][kind] \in Nat /\ drops[id] \in Nat
      BY DEF RunInv, TypeOK
  <2> QED BY <2>1, <2>2 DEF One
<1>6. ToldInv'
    BY <1>0 DEF ToldInv, Known
<1> QED BY <1>1, <1>2, <1>4, <1>5, <1>6

\* A request for a new id: its acceptance waits for the store.
LEMMA RequestKeeps == ASSUME IInv, NEW id \in Ids, NEW kind \in Asked, Request(id, kind) PROVE IInv'
<1> USE DEF Request, IInv
<1> DEFINE w == [id |-> id, kind |-> kind, state |-> "accepted"]
<1>0. /\ kind \in Kinds /\ kind # None /\ w \in Records
      /\ UNCHANGED <<phase, mem, queue, stage, claimed, calls, disk, runs, drops, told, unsaved, faults>>
    BY SupervisorAssumption DEF Kinds, Records, ghosts, None
<1>1. TypeOK'
  <2>1. accepts' \in 0..MaxAccepts
      BY SupervisorAssumption DEF TypeOK
  <2>2. writes' \in Seq(Records) /\ inflight' \in [Ids -> Kinds \cup {None}]
      BY <1>0 DEF TypeOK
  <2> QED BY <1>0, <2>1, <2>2 DEF TypeOK
<1>2. OffInv' /\ JournalInv' /\ StageInv' /\ CallInv' /\ LeftInv'
    BY <1>0 DEF OffInv, JournalInv, StageInv, CallInv, LeftInv
<1>3. \A u, k : Queued(u, k)' = Queued(u, k) /\ Waits(u, k)' = Waits(u, k)
    BY <1>0 DEF Queued, Waits
<1>4. /\ Len(writes) \in Nat /\ DOMAIN writes = 1..Len(writes) /\ DOMAIN writes' = 1..(Len(writes) + 1)
      /\ writes'[Len(writes) + 1] = w /\ \A i \in 1..Len(writes) : writes'[i] = writes[i]
      /\ \A i \in 1..Len(writes) : writes[i] \in Records
    BY <1>0 DEF TypeOK
<1>5. /\ inflight'[id] = kind /\ inflight[id] = None
      /\ \A u \in Ids : u # id => inflight'[u] = inflight[u]
    BY <1>0 DEF TypeOK
<1>6. FinalWriteInv'
  <2> SUFFICES ASSUME NEW i \in DOMAIN writes', writes'[i].state # "accepted"
               PROVE  LET v == writes'[i]  t == Target(v.kind)
                      IN  /\ stage[t] = "recording" /\ queue[t] # <<>>
                          /\ Head(queue[t]) = [id |-> v.id, kind |-> v.kind]
                          /\ \A j \in DOMAIN writes' :
                                 writes'[j].state # "accepted" /\ Target(writes'[j].kind) = t => i = j
      BY <1>0 DEF FinalWriteInv
  <2>1. \A j \in DOMAIN writes' : writes'[j].state # "accepted" => j \in DOMAIN writes /\ writes'[j] = writes[j]
      BY <1>4
  <2> QED BY <2>1 DEF FinalWriteInv
<1>7. ~Queued(id, "service") /\ ~Queued(id, "excubitor")
    BY <1>5, TargetTypes DEF Queued, QueueInv, None
<1>8. \A i \in DOMAIN writes : writes[i].state = "accepted" => writes[i].id # id
    BY <1>4, <1>5 DEF AcceptWriteInv, Records, Kinds, None
<1>9. AcceptWriteInv'
  <2> SUFFICES ASSUME NEW i \in DOMAIN writes', writes'[i].state = "accepted"
               PROVE  LET v == writes'[i]
                      IN  /\ inflight'[v.id] = v.kind /\ ~Has(mem, v.id)
                          /\ ~Queued(v.id, "service") /\ ~Queued(v.id, "excubitor")
                          /\ \A j \in DOMAIN writes' : writes'[j].state = "accepted" /\ writes'[j].id = v.id => i = j
      BY <1>0, <1>3 DEF AcceptWriteInv
  <2>1. CASE i = Len(writes) + 1
      BY <1>4, <1>5, <1>7, <1>8, <2>1
  <2>2. CASE i # Len(writes) + 1
    <3>1. i \in DOMAIN writes /\ writes'[i] = writes[i] /\ writes[i].id # id /\ writes[i].id \in Ids
        BY <1>4, <1>8, <2>2 DEF Records
    <3>2. \A j \in DOMAIN writes' : writes'[j].id # id => j \in DOMAIN writes /\ writes'[j] = writes[j]
        BY <1>4
    <3> QED BY <1>5, <3>1, <3>2 DEF AcceptWriteInv
  <2> QED BY <2>1, <2>2
<1>10. QueueInv' /\ ClaimInv'
  <2>1. \A t \in Targets : \A i \in DOMAIN queue[t] : queue[t][i] \in Entries
      BY DEF TypeOK
  <2>2. \A t \in Targets : \A i \in DOMAIN queue[t] :
            queue[t][i].kind # "deferred" => inflight'[queue[t][i].id] = inflight[queue[t][i].id]
      BY <1>5, <2>1, TargetTypes DEF QueueInv, None
  <2>3. QueueInv'
      BY <1>0, <2>2 DEF QueueInv
  <2> QED BY <1>0, <1>3, <2>3 DEF ClaimInv
<1>11. MemInv'
  <2>1. \A i \in DOMAIN mem : mem[i].id # id /\ mem[i].id \in Ids
    <3>1. \A i \in DOMAIN mem : mem[i] \in Records
        BY DEF TypeOK
    <3> QED BY <3>1 DEF Has, Records
  <2> QED BY <1>0, <1>5, <2>1 DEF MemInv
<1>12. RunInv'
  <2>1. \A u : Has(disk, u)' = Has(disk, u) /\ Claimable(u)' = Claimable(u)
      BY <1>0 DEF Claimable
  <2> QED BY <1>0, <1>3, <2>1 DEF RunInv
<1>13. ToldInv'
    BY <1>0 DEF ToldInv, Known
<1> QED BY <1>1, <1>2, <1>6, <1>9, <1>10, <1>11, <1>12, <1>13

-----------------------------------------------------------------------------
(* The queue of a target. *)

\* The callback of a commit queues a prepared operation, once.
LEMMA CallbackKeeps == ASSUME IInv, NEW id \in Ids, Callback(id) PROVE IInv'
<1> USE DEF IInv
<1>0. /\ UNCHANGED <<phase, mem, writes, inflight, stage, disk, runs, drops, told, unsaved, accepts, faults>>
      /\ calls' \in [Ids -> 0..MaxCommits] /\ \A u \in Ids : calls'[u] > 0 => calls[u] > 0
      /\ phase # "off"
  <2>1. calls[id] \in 0..MaxCommits /\ calls[id] > 0 /\ calls' = [calls EXCEPT ![id] = calls[id] - 1]
      BY DEF Callback, TypeOK
  <2>2. MaxCommits \in Nat
      BY SupervisorAssumption
  <2>3. calls' \in [Ids -> 0..MaxCommits] /\ \A u \in Ids : calls'[u] > 0 => calls[u] > 0
      BY <2>1, <2>2 DEF TypeOK
  <2> QED BY <2>1, <2>3 DEF Callback, ghosts, OffInv
<1>1. CASE ~(phase = "up" /\ id \notin claimed /\ StateOf(mem, id) = "accepted")
  <2>1. UNCHANGED <<claimed, queue>>
      BY <1>1 DEF Callback
  <2> QED BY <1>0, <2>1, RepliesKeep DEF TypeOK, LeftInv
<1>2. CASE phase = "up" /\ id \notin claimed /\ StateOf(mem, id) = "accepted"
  <2> DEFINE e == [id |-> id, kind |-> "deferred"]
  <2>1. /\ claimed' = claimed \cup {id}
        /\ queue' = [queue EXCEPT ![Target("deferred")] = Append(@, e)]
        /\ "deferred" \in Kinds /\ Target("deferred") = "excubitor" /\ "excubitor" \in Targets
        /\ calls[id] > 0
      BY <1>2 DEF Callback, Kinds, Target, Targets
  <2>2. ~Queued(id, "deferred")
      BY <1>2, <2>1 DEF Queued, QueueInv
  <2>3. /\ queue' \in [Targets -> Seq(Entries)]
        /\ StageInv'
        /\ \A t \in Targets : queue[t] # <<>> => queue'[t] # <<>> /\ Head(queue'[t]) = Head(queue[t])
        /\ \A t \in Targets : \A i, j \in DOMAIN queue'[t] : queue'[t][i] = queue'[t][j] => i = j
        /\ \A t \in Targets : \A i \in DOMAIN queue'[t] :
               \/ \E j \in DOMAIN queue[t] : queue'[t][i] = queue[t][j]
               \/ t = Target("deferred") /\ queue'[t][i] = e
        /\ Queued(id, "deferred")'
        /\ \A u \in Ids, k \in Kinds : Queued(u, k) => Queued(u, k)'
        /\ \A u \in Ids, k \in Kinds : Queued(u, k)' => Queued(u, k) \/ (u = id /\ k = "deferred")
        /\ \A u \in Ids, k \in Kinds : Waits(u, k)' => Waits(u, k) \/ (u = id /\ k = "deferred")
      BY <1>0, <2>1, <2>2, QueueGrows DEF TypeOK, QueueInv
  <2>4. TypeOK'
      BY <1>0, <2>1, <2>3 DEF TypeOK
  <2>5. OffInv' /\ JournalInv' /\ MemInv' /\ CallInv' /\ LeftInv'
      BY <1>0, <1>2 DEF OffInv, JournalInv, MemInv, CallInv, LeftInv
  <2>6. FinalWriteInv'
    <3>1. \A i \in DOMAIN writes : writes[i] \in Records
        BY DEF TypeOK
    <3>2. \A i \in DOMAIN writes : Target(writes[i].kind) \in Targets
        BY <3>1, TargetTypes DEF Records
    <3> QED BY <1>0, <2>3, <3>2 DEF FinalWriteInv
  <2>7. AcceptWriteInv'
    <3>1. \A i \in DOMAIN writes : writes[i] \in Records
        BY DEF TypeOK
    <3>2. \A i \in DOMAIN writes : writes[i].id \in Ids
        BY <3>1 DEF Records
    <3>a. "service" \in Kinds /\ "excubitor" \in Kinds /\ "service" # "deferred" /\ "excubitor" # "deferred"
        BY DEF Kinds
    <3>3. \A u \in Ids : (Queued(u, "service")' => Queued(u, "service")) /\ (Queued(u, "excubitor")' => Queued(u, "excubitor"))
        BY <2>3, <3>a
    <3> QED BY <1>0, <3>2, <3>3 DEF AcceptWriteInv
  <2>8. drops[id] > 0 \/ Holds(mem, id, "deferred", "accepted")
    <3>1. drops[id] > 0 \/ \E i \in DOMAIN mem : mem[i].id = id /\ mem[i].kind = "deferred"
        BY <2>1 DEF CallInv
    <3>2. ASSUME NEW i \in DOMAIN mem, mem[i].id = id, mem[i].kind = "deferred"
          PROVE  Holds(mem, id, "deferred", "accepted")
        BY <1>2, <3>2, JournalReads DEF Holds, TypeOK, JournalInv
    <3> QED BY <3>1, <3>2
  <2>9. QueueInv'
    <3>1. ASSUME NEW t \in Targets, NEW i \in DOMAIN queue'[t]
          PROVE  LET f == queue'[t][i]
                 IN  /\ Target(f.kind) = t
                     /\ f.kind # "deferred" => inflight[f.id] = f.kind
                     /\ f.kind = "deferred" => f.id \in claimed'
                     /\ drops[f.id] > 0 \/ Holds(mem, f.id, f.kind, "accepted")
      <4>1. CASE \E j \in DOMAIN queue[t] : queue'[t][i] = queue[t][j]
          BY <2>1, <4>1 DEF QueueInv
      <4>2. CASE t = Target("deferred") /\ queue'[t][i] = e
          BY <2>1, <2>8, <4>2
      <4> QED BY <2>3, <4>1, <4>2
    <3>2. \A u, k, s : Holds(mem, u, k, s)' = Holds(mem, u, k, s)
        BY <1>0 DEF Holds
    <3> QED BY <1>0, <2>3, <3>1, <3>2 DEF QueueInv
  <2>10. ClaimInv'
      BY <2>1, <2>3 DEF ClaimInv, TypeOK
  <2>11. RunInv'
    <3> SUFFICES ASSUME NEW u \in Ids, NEW k \in Kinds
                 PROVE  runs[u][k] + One(Waits(u, k)') + One(k = "deferred" /\ Claimable(u)')
                            <= drops[u] + One(Has(disk, u))
        BY <1>0 DEF RunInv, Has
    <3>1. /\ runs[u][k] + One(Waits(u, k)) + One(k = "deferred" /\ Claimable(u))
                <= drops[u] + One(Has(disk, u))
          /\ runs[u][k] \in Nat /\ drops[u] \in Nat
        BY DEF RunInv, TypeOK
    <3>2. Claimable(u)' => Claimable(u) /\ u # id
        BY <1>0, <2>1 DEF Claimable
    <3>3. Claimable(id) /\ ~Waits(id, "deferred")
        BY <1>2, <2>2 DEF Claimable, Queued, Waits
    <3>4. Waits(u, k)' => Waits(u, k) \/ (u = id /\ k = "deferred")
        BY <2>3
    <3>5. CASE u = id /\ k = "deferred"
        BY <3>1, <3>2, <3>3, <3>5 DEF One
    <3>6. CASE ~(u = id /\ k = "deferred")
        BY <3>1, <3>2, <3>4, <3>6 DEF One
    <3> QED BY <3>5, <3>6
  <2>12. ToldInv'
      BY <1>0 DEF ToldInv, Known
  <2> QED BY <2>3, <2>4, <2>5, <2>6, <2>7, <2>9, <2>10, <2>11, <2>12
<1> QED BY <1>1, <1>2

\* What the head of a queue leaves behind when it leaves.
LEMMA LeavesKeeps ==
    ASSUME IInv, NEW t \in Targets, queue[t] # <<>>, NEW answer, Leaves(Head(queue[t]), answer)
    PROVE  LET e == Head(queue[t])
           IN  /\ e \in Entries /\ Target(e.kind) = t /\ phase # "off" /\ ~Drained
               /\ e.kind # "deferred" => inflight[e.id] = e.kind
               /\ drops[e.id] > 0 \/ Holds(mem, e.id, e.kind, "accepted")
               /\ queue' \in [Targets -> Seq(Entries)]
               /\ stage' \in [Targets -> {"idle", "executing", "recording"}]
               /\ inflight' \in [Ids -> Kinds \cup {None}] /\ claimed' \subseteq Ids
               /\ StageInv' /\ ClaimInv'
               /\ \A u \in Targets : u # t => queue'[u] = queue[u] /\ stage'[u] = stage[u]
               /\ \A u \in Ids : inflight'[u] = inflight[u] \/ (u = e.id /\ e.kind # "deferred")
               /\ \A u \in Ids : u # e.id => (u \in claimed' <=> u \in claimed)
               /\ \A u \in Ids, k \in Kinds : Queued(u, k)' => Queued(u, k)
               /\ \A u \in Ids, k \in Kinds : Waits(u, k)' => Waits(u, k)
               /\ \A u \in Targets : \A i \in DOMAIN queue'[u] :
                      LET f == queue'[u][i]
                      IN  /\ Target(f.kind) = u /\ f \in Entries /\ f # e
                          /\ f.kind # "deferred" => inflight'[f.id] = f.kind
                          /\ f.kind = "deferred" => f.id \in claimed'
                          /\ drops[f.id] > 0 \/ Holds(mem, f.id, f.kind, "accepted")
               /\ \A u \in Targets : \A i, j \in DOMAIN queue'[u] : queue'[u][i] = queue'[u][j] => i = j
               /\ \A i \in DOMAIN writes : writes[i].state = "accepted" =>
                      inflight'[writes[i].id] = writes[i].kind
<1> USE DEF IInv
<1> DEFINE e == Head(queue[t])
<1>1. /\ queue[t] \in Seq(Entries) /\ 1 \in DOMAIN queue[t] /\ e = queue[t][1] /\ e \in Entries
  <2>1. queue[t] \in Seq(Entries)
      BY DEF TypeOK
  <2> QED BY <2>1
<1>2. /\ Target(e.kind) = t /\ e.id \in Ids /\ e.kind \in Kinds /\ e = [id |-> e.id, kind |-> e.kind]
      /\ e.kind # "deferred" => inflight[e.id] = e.kind
      /\ e.kind = "deferred" => e.id \in claimed
      /\ drops[e.id] > 0 \/ Holds(mem, e.id, e.kind, "accepted")
    BY <1>1, TargetTypes DEF QueueInv
<1>3. phase # "off" /\ ~Drained
    BY DEF OffInv, Drained, Empty
<1> HIDE DEF e
<1>4. /\ queue' = [queue EXCEPT ![t] = Tail(@)]
      /\ stage' = [stage EXCEPT ![t] = "idle"]
      /\ e.kind = "deferred" => claimed' = claimed \ {e.id} /\ inflight' = inflight
      /\ e.kind # "deferred" => claimed' = claimed /\ inflight' = [inflight EXCEPT ![e.id] = None]
    BY <1>2 DEF Leaves, e
<1>5. /\ queue' \in [Targets -> Seq(Entries)]
      /\ StageInv'
      /\ stage' \in [Targets -> {"idle", "executing", "recording"}]
      /\ \A u \in Targets : u # t => queue'[u] = queue[u] /\ stage'[u] = stage[u]
      /\ \A u \in Targets : \A i, j \in DOMAIN queue'[u] : queue'[u][i] = queue'[u][j] => i = j
      /\ \A u \in Targets : \A i \in DOMAIN queue'[u] :
             /\ \E j \in DOMAIN queue[u] : queue'[u][i] = queue[u][j]
             /\ u = t => queue'[u][i] # e
      /\ \A u \in Ids, k \in Kinds : Queued(u, k)' => Queued(u, k)
      /\ \A u \in Ids, k \in Kinds :
             Queued(u, k) => Queued(u, k)' \/ (Target(k) = t /\ e = [id |-> u, kind |-> k])
      /\ \A u \in Ids, k \in Kinds : Waits(u, k)' => Waits(u, k)
    BY <1>4, QueueShrinks DEF TypeOK, QueueInv, e
<1>6. inflight' \in [Ids -> Kinds \cup {None}] /\ claimed' \subseteq Ids
    BY <1>2, <1>4 DEF TypeOK
<1>7. /\ \A u \in Ids : inflight'[u] = inflight[u] \/ (u = e.id /\ e.kind # "deferred")
      /\ \A u \in Ids : u # e.id => (u \in claimed' <=> u \in claimed)
    BY <1>2, <1>4 DEF TypeOK
<1>8. ClaimInv'
  <2> SUFFICES ASSUME NEW u \in claimed' PROVE Queued(u, "deferred")'
      BY DEF ClaimInv
  <2>1. u \in claimed /\ u \in Ids /\ "deferred" \in Kinds /\ (e.kind = "deferred" => u # e.id)
      BY <1>4, <1>6 DEF Kinds
  <2>2. Queued(u, "deferred")
      BY <2>1 DEF ClaimInv
  <2>3. e # [id |-> u, kind |-> "deferred"]
      BY <2>1
  <2> QED BY <1>5, <2>1, <2>2, <2>3
<1>9. ASSUME NEW u \in Targets, NEW i \in DOMAIN queue'[u]
      PROVE  LET f == queue'[u][i]
             IN  /\ Target(f.kind) = u /\ f \in Entries /\ f # e
                 /\ f.kind # "deferred" => inflight'[f.id] = f.kind
                 /\ f.kind = "deferred" => f.id \in claimed'
                 /\ drops[f.id] > 0 \/ Holds(mem, f.id, f.kind, "accepted")
  <2> DEFINE f == queue'[u][i]
  <2>1. PICK j \in DOMAIN queue[u] : f = queue[u][j]
      BY <1>5
  <2>2. queue[u] \in Seq(Entries)
      BY DEF TypeOK
  <2>3. f \in Entries
      BY <2>1, <2>2
  <2>4. /\ Target(f.kind) = u
        /\ f.kind # "deferred" => inflight[f.id] = f.kind
        /\ f.kind = "deferred" => f.id \in claimed
        /\ drops[f.id] > 0 \/ Holds(mem, f.id, f.kind, "accepted")
      BY <2>1 DEF QueueInv
  <2>5. u = t => f # e
      BY <1>5
  <2> HIDE DEF f
  <2>6. f # e
      BY <1>2, <2>4, <2>5
  <2>7. f.id \in Ids /\ f.kind \in Kinds /\ (f.id # e.id \/ f.kind # e.kind)
      BY <1>2, <2>3, <2>6, TargetTypes
  <2>8. f.kind # "deferred" => inflight'[f.id] = f.kind
      BY <1>2, <1>7, <2>4, <2>7
  <2>9. f.kind = "deferred" => f.id \in claimed'
      BY <1>4, <2>4, <2>7
  <2> QED BY <2>3, <2>4, <2>6, <2>8, <2>9 DEF f
<1>10. ASSUME NEW i \in DOMAIN writes, writes[i].state = "accepted"
       PROVE  inflight'[writes[i].id] = writes[i].kind
  <2>1. writes[i] \in Records
      BY DEF TypeOK
  <2>2. writes[i].id \in Ids /\ "service" \in Kinds /\ "excubitor" \in Kinds
      BY <2>1 DEF Records, Kinds
  <2>3. /\ inflight[writes[i].id] = writes[i].kind
        /\ ~Queued(writes[i].id, "service") /\ ~Queued(writes[i].id, "excubitor")
      BY <1>10 DEF AcceptWriteInv
  <2>4. ~(writes[i].id = e.id /\ e.kind # "deferred")
    <3>1. Queued(e.id, e.kind)
        BY <1>1, <1>2 DEF Queued
    <3>2. e.kind # "deferred" => e.kind \in {"service", "excubitor"}
        BY <1>2 DEF Kinds
    <3> QED BY <2>3, <3>1, <3>2
  <2> QED BY <1>5, <1>7, <2>2, <2>3, <2>4
<1> QED BY <1>1, <1>2, <1>3, <1>5, <1>6, <1>7, <1>8, <1>9, <1>10 DEF e

\* A committed operation that reaches the head during a close leaves; any other
\* one is executed, and it waits no more.
LEMMA BeginKeeps == ASSUME IInv, NEW t \in Targets, Begin(t) PROVE IInv'
<1> USE DEF IInv
<1> DEFINE e == Head(queue[t])
<1>0. /\ queue[t] # <<>> /\ stage[t] = "idle"
      /\ UNCHANGED <<phase, mem, writes, calls, disk, drops, unsaved, accepts, faults>>
    BY DEF Begin
<1>w. \A i \in DOMAIN writes : writes[i] \in Records /\ writes[i].id \in Ids /\ Target(writes[i].kind) \in Targets
  <2>1. \A i \in DOMAIN writes : writes[i] \in Records
      BY DEF TypeOK
  <2> QED BY <2>1, TargetTypes DEF Records
<1>1. CASE e.kind = "deferred" /\ phase # "up"
  <2>1. Leaves(e, None) /\ runs' = runs
      BY <1>1 DEF Begin
  <2>2. told' = told /\ inflight' = inflight
      BY <1>1, <2>1 DEF Leaves
  <2>3. /\ e \in Entries /\ Target(e.kind) = t /\ phase # "off" /\ ~Drained
        /\ queue' \in [Targets -> Seq(Entries)]
        /\ stage' \in [Targets -> {"idle", "executing", "recording"}]
        /\ claimed' \subseteq Ids
        /\ StageInv' /\ ClaimInv'
        /\ \A u \in Targets : u # t => queue'[u] = queue[u] /\ stage'[u] = stage[u]
        /\ \A u \in Ids, k \in Kinds : Waits(u, k)' => Waits(u, k)
        /\ \A u \in Targets : \A i \in DOMAIN queue'[u] :
               LET f == queue'[u][i]
               IN  /\ Target(f.kind) = u
                   /\ f.kind # "deferred" => inflight'[f.id] = f.kind
                   /\ f.kind = "deferred" => f.id \in claimed'
                   /\ drops[f.id] > 0 \/ Holds(mem, f.id, f.kind, "accepted")
        /\ \A u \in Targets : \A i, j \in DOMAIN queue'[u] : queue'[u][i] = queue'[u][j] => i = j
        /\ \A i \in DOMAIN writes : writes[i].state = "accepted" =>
               inflight'[writes[i].id] = writes[i].kind
        /\ \A u \in Ids, k \in Kinds : Queued(u, k)' => Queued(u, k)
      BY <1>0, <2>1, LeavesKeeps
  <2>4. TypeOK'
      BY <1>0, <2>1, <2>2, <2>3 DEF TypeOK
  <2>5. OffInv' /\ JournalInv' /\ MemInv' /\ CallInv' /\ ToldInv' /\ LeftInv'
    <3>1. phase' # "off" /\ phase' # "leaving"
        BY <1>0, <2>3 DEF LeftInv
    <3> QED BY <1>0, <2>2, <3>1 DEF OffInv, JournalInv, MemInv, CallInv, ToldInv, Known, LeftInv
  <2>6. FinalWriteInv'
    <3>1. \A i \in DOMAIN writes : writes[i].state # "accepted" => Target(writes[i].kind) # t
        BY <1>0 DEF FinalWriteInv
    <3> QED BY <1>0, <1>w, <2>3, <3>1 DEF FinalWriteInv
  <2>7. AcceptWriteInv'
    <3>1. "service" \in Kinds /\ "excubitor" \in Kinds
        BY DEF Kinds
    <3>2. \A u \in Ids : (Queued(u, "service")' => Queued(u, "service")) /\ (Queued(u, "excubitor")' => Queued(u, "excubitor"))
        BY <2>3, <3>1
    <3> QED BY <1>0, <1>w, <2>3, <3>2 DEF AcceptWriteInv
  <2>8. QueueInv'
    <3>1. \A u, k, s : Holds(mem, u, k, s)' = Holds(mem, u, k, s)
        BY <1>0 DEF Holds
    <3> QED BY <1>0, <2>3, <3>1 DEF QueueInv
  <2>9. RunInv'
    <3> SUFFICES ASSUME NEW u \in Ids, NEW k \in Kinds
                 PROVE  runs[u][k] + One(Waits(u, k)') + One(k = "deferred" /\ Claimable(u)')
                            <= drops[u] + One(Has(disk, u))
        BY <1>0, <2>1 DEF RunInv, Has
    <3>1. /\ runs[u][k] + One(Waits(u, k)) + One(k = "deferred" /\ Claimable(u))
                <= drops[u] + One(Has(disk, u))
          /\ runs[u][k] \in Nat /\ drops[u] \in Nat
        BY DEF RunInv, TypeOK
    <3>2. ~Claimable(u)'
        BY <1>0, <1>1 DEF Claimable
    <3>3. Waits(u, k)' => Waits(u, k)
        BY <2>3
    <3> QED BY <3>1, <3>2, <3>3 DEF One
  <2> QED BY <2>3, <2>4, <2>5, <2>6, <2>7, <2>8, <2>9
<1>2. CASE ~(e.kind = "deferred" /\ phase # "up")
  <2>1. /\ stage' = [stage EXCEPT ![t] = "executing"]
        /\ runs' = [runs EXCEPT ![e.id][e.kind] = @ + 1]
        /\ UNCHANGED <<queue, claimed, inflight, told>>
      BY <1>2 DEF Begin
  <2>2. queue[t] \in Seq(Entries) /\ 1 \in DOMAIN queue[t] /\ e = queue[t][1] /\ e \in Entries
    <3>1. queue[t] \in Seq(Entries)
        BY DEF TypeOK
    <3> QED BY <1>0, <3>1
  <2>3. e.id \in Ids /\ e.kind \in Kinds /\ e = [id |-> e.id, kind |-> e.kind] /\ Target(e.kind) = t
      BY <2>2, TargetTypes DEF QueueInv
  <2> HIDE DEF e
  <2>4. /\ stage' \in [Targets -> {"idle", "executing", "recording"}]
        /\ runs' \in [Ids -> [Kinds -> Nat]]
        /\ runs'[e.id][e.kind] = runs[e.id][e.kind] + 1
        /\ \A u \in Ids, k \in Kinds : u # e.id \/ k # e.kind => runs'[u][k] = runs[u][k]
        /\ \A u \in Targets : u # t => stage'[u] = stage[u]
        /\ stage'[t] = "executing"
      BY <2>1, <2>3 DEF TypeOK
  <2>5. TypeOK'
      BY <1>0, <2>1, <2>4 DEF TypeOK
  <2>6. phase # "off" /\ phase # "leaving"
      BY <1>0 DEF OffInv, LeftInv, Drained, Empty
  <2>7. OffInv' /\ JournalInv' /\ MemInv' /\ CallInv' /\ ToldInv' /\ LeftInv'
      BY <1>0, <2>1, <2>6 DEF OffInv, JournalInv, MemInv, CallInv, ToldInv, Known, LeftInv
  <2>8. StageInv'
      BY <1>0, <2>1, <2>4 DEF StageInv
  <2>9. FinalWriteInv'
    <3>1. \A i \in DOMAIN writes : writes[i].state # "accepted" => Target(writes[i].kind) # t
        BY <1>0 DEF FinalWriteInv
    <3> QED BY <1>0, <1>w, <2>1, <2>4, <3>1 DEF FinalWriteInv
  <2>10. \A u, k : Queued(u, k)' = Queued(u, k)
      BY <2>1 DEF Queued
  <2>11. AcceptWriteInv' /\ ClaimInv'
      BY <1>0, <2>1, <2>10 DEF AcceptWriteInv, ClaimInv
  <2>12. QueueInv'
      BY <1>0, <2>1 DEF QueueInv, Holds
  <2>13. RunInv'
    <3> SUFFICES ASSUME NEW u \in Ids, NEW k \in Kinds
                 PROVE  runs'[u][k] + One(Waits(u, k)') + One(k = "deferred" /\ Claimable(u))
                            <= drops[u] + One(Has(disk, u))
        BY <1>0, <2>1 DEF RunInv, Has, Claimable
    <3>1. /\ runs[u][k] + One(Waits(u, k)) + One(k = "deferred" /\ Claimable(u))
                <= drops[u] + One(Has(disk, u))
          /\ runs[u][k] \in Nat /\ drops[u] \in Nat
        BY DEF RunInv, TypeOK
    <3>2. Waits(u, k)' => Waits(u, k)
      <4>1. Target(k) \in Targets
          BY TargetTypes
      <4>2. stage'[Target(k)] = "idle" => stage[Target(k)] = "idle"
          BY <2>4, <4>1
      <4> QED BY <2>1, <4>2 DEF Waits
    <3>3. CASE u = e.id /\ k = e.kind
      <4>1. Waits(u, k)
          BY <1>0, <2>2, <2>3, <3>3 DEF Waits
      <4>2. ~Waits(u, k)'
        <5> SUFFICES ASSUME NEW i \in DOMAIN queue[t], queue[t][i] = e, i > 1 PROVE FALSE
            BY <2>1, <2>3, <2>4, <3>3 DEF Waits
        <5>1. i = 1
            BY <2>2 DEF QueueInv
        <5> QED BY <5>1
      <4>3. runs'[u][k] = runs[u][k] + 1
          BY <2>4, <3>3
      <4> QED BY <3>1, <4>1, <4>2, <4>3 DEF One
    <3>4. CASE ~(u = e.id /\ k = e.kind)
      <4>1. runs'[u][k] = runs[u][k]
          BY <2>4, <3>4
      <4> QED BY <3>1, <3>2, <4>1 DEF One
    <3> QED BY <3>3, <3>4
  <2> QED BY <2>5, <2>7, <2>8, <2>9, <2>11, <2>12, <2>13
<1> QED BY <1>1, <1>2

\* The result of the operation that ran waits for the store.
LEMMA ExecutionEndsKeeps == ASSUME IInv, NEW t \in Targets, ExecutionEnds(t) PROVE IInv'
<1> USE DEF IInv
<1> DEFINE e == Head(queue[t])
<1>0. /\ stage[t] = "executing" /\ stage' = [stage EXCEPT ![t] = "recording"]
      /\ UNCHANGED <<phase, mem, inflight, queue, claimed, calls, disk, accepts, faults>>
      /\ UNCHANGED <<runs, drops, told, unsaved>>
    BY DEF ExecutionEnds, ghosts
<1>1. PICK result \in {"completed", "failed"} :
          writes' = Append(writes, [id |-> e.id, kind |-> e.kind, state |-> result])
    BY DEF ExecutionEnds
<1> DEFINE w == [id |-> e.id, kind |-> e.kind, state |-> result]
<1>2. queue[t] \in Seq(Entries) /\ queue[t] # <<>> /\ e = queue[t][1] /\ 1 \in DOMAIN queue[t] /\ e \in Entries
  <2>1. queue[t] \in Seq(Entries) /\ queue[t] # <<>>
      BY <1>0 DEF TypeOK, StageInv
  <2> QED BY <2>1
<1>3. e.id \in Ids /\ e.kind \in Kinds /\ e = [id |-> e.id, kind |-> e.kind] /\ Target(e.kind) = t
    BY <1>2, TargetTypes DEF QueueInv
<1>w. w \in Records /\ w.state # "accepted" /\ w.id = e.id /\ w.kind = e.kind
    BY <1>3 DEF Records, Finals
<1>x. writes' = Append(writes, w)
    BY <1>1
<1> HIDE DEF e, w
<1>4. /\ Len(writes) \in Nat /\ DOMAIN writes = 1..Len(writes) /\ DOMAIN writes' = 1..(Len(writes) + 1)
      /\ writes'[Len(writes) + 1] = w /\ \A i \in 1..Len(writes) : writes'[i] = writes[i]
      /\ \A i \in 1..Len(writes) : writes[i] \in Records
      /\ writes' \in Seq(Records)
    BY <1>w, <1>x DEF TypeOK
<1>5. /\ stage' \in [Targets -> {"idle", "executing", "recording"}]
      /\ stage'[t] = "recording" /\ \A u \in Targets : u # t => stage'[u] = stage[u]
    BY <1>0 DEF TypeOK
<1>6. TypeOK'
    BY <1>0, <1>4, <1>5 DEF TypeOK
<1>7. phase # "off" /\ phase # "leaving"
    BY <1>2 DEF OffInv, LeftInv, Drained, Empty
<1>8. OffInv' /\ JournalInv' /\ MemInv' /\ CallInv' /\ ToldInv' /\ LeftInv'
    BY <1>0, <1>7 DEF OffInv, JournalInv, MemInv, CallInv, ToldInv, Known, LeftInv
<1>9. StageInv'
    BY <1>0, <1>2, <1>5 DEF StageInv
<1>10. FinalWriteInv'
  <2>1. \A i \in 1..Len(writes) : writes[i].state # "accepted" =>
            Target(writes[i].kind) \in Targets /\ Target(writes[i].kind) # t
    <3>1. \A i \in 1..Len(writes) : Target(writes[i].kind) \in Targets
        BY <1>4, TargetTypes DEF Records
    <3> QED BY <1>0, <1>4, <3>1 DEF FinalWriteInv
  <2> SUFFICES ASSUME NEW i \in DOMAIN writes', writes'[i].state # "accepted"
               PROVE  LET v == writes'[i]  s == Target(v.kind)
                      IN  /\ stage'[s] = "recording" /\ queue[s] # <<>>
                          /\ Head(queue[s]) = [id |-> v.id, kind |-> v.kind]
                          /\ \A j \in DOMAIN writes' :
                                 writes'[j].state # "accepted" /\ Target(writes'[j].kind) = s => i = j
      BY <1>0 DEF FinalWriteInv
  <2>2. \A j \in DOMAIN writes' : j = Len(writes) + 1 \/ (j \in 1..Len(writes) /\ writes'[j] = writes[j])
      BY <1>4
  <2>3. CASE i = Len(writes) + 1
    <3>1. writes'[i] = w /\ Target(w.kind) = t
        BY <1>3, <1>4, <1>w, <2>3
    <3>2. \A j \in DOMAIN writes' : writes'[j].state # "accepted" /\ Target(writes'[j].kind) = t => i = j
        BY <2>1, <2>2, <2>3
    <3> QED BY <1>2, <1>3, <1>5, <1>w, <3>1, <3>2 DEF e
  <2>4. CASE i \in 1..Len(writes) /\ writes'[i] = writes[i]
    <3>1. Target(writes[i].kind) \in Targets /\ Target(writes[i].kind) # t
        BY <2>1, <2>4
    <3>2. \A j \in DOMAIN writes' : writes'[j].state # "accepted" /\ Target(writes'[j].kind) = Target(writes[i].kind)
                                    => j \in 1..Len(writes) /\ writes'[j] = writes[j]
        BY <1>3, <1>4, <1>w, <2>2, <3>1
    <3> QED BY <1>4, <1>5, <2>4, <3>1, <3>2 DEF FinalWriteInv
  <2> QED BY <2>2, <2>3, <2>4
<1>11. \A u, k : Queued(u, k)' = Queued(u, k)
    BY <1>0 DEF Queued
<1>12. AcceptWriteInv'
  <2>1. \A j \in DOMAIN writes' : writes'[j].state = "accepted" => j \in DOMAIN writes /\ writes'[j] = writes[j]
      BY <1>4, <1>w
  <2> QED BY <1>0, <1>11, <2>1 DEF AcceptWriteInv
<1>13. QueueInv' /\ ClaimInv'
    BY <1>0, <1>11 DEF QueueInv, ClaimInv, Holds
<1>14. RunInv'
  <2> SUFFICES ASSUME NEW u \in Ids, NEW k \in Kinds
               PROVE  runs[u][k] + One(Waits(u, k)') + One(k = "deferred" /\ Claimable(u))
                          <= drops[u] + One(Has(disk, u))
      BY <1>0 DEF RunInv, Has, Claimable
  <2>1. /\ runs[u][k] + One(Waits(u, k)) + One(k = "deferred" /\ Claimable(u))
              <= drops[u] + One(Has(disk, u))
        /\ runs[u][k] \in Nat /\ drops[u] \in Nat
      BY DEF RunInv, TypeOK
  <2>2. Waits(u, k)' => Waits(u, k)
    <3>1. Target(k) \in Targets
        BY TargetTypes
    <3>2. stage'[Target(k)] = "idle" => stage[Target(k)] = "idle"
        BY <1>5, <3>1
    <3> QED BY <1>0, <3>2 DEF Waits
  <2> QED BY <2>1, <2>2 DEF One
<1> QED BY <1>6, <1>8, <1>9, <1>10, <1>12, <1>13, <1>14

-----------------------------------------------------------------------------
(* The store. *)

\* The records that stay are the ones that were there, and the new one.
LEMMA AcceptKeepsRecords ==
    ASSUME NEW ops \in Seq(Records), Len(ops) <= MaxOps, Distinct(ops),
           NEW id \in Ids, NEW kind \in Kinds, ~Has(ops, id),
           NEW new, new = Keep(WithAccepted(ops, id, kind))
    PROVE  /\ new \in Seq(Records) /\ Len(new) <= MaxOps /\ Distinct(new)
           /\ Has(new, id) /\ StateOf(new, id) = "accepted"
           /\ \A i \in DOMAIN new : new[i].id = id => new[i].kind = kind
           /\ \A i \in DOMAIN new : new[i].id # id => \E j \in DOMAIN ops : new[i] = ops[j]
           /\ \A u : u # id /\ Has(new, u) => Has(ops, u) /\ StateOf(new, u) = StateOf(ops, u)
           /\ \A u, k, s : Holds(ops, u, k, s) => Holds(new, u, k, s) \/ ~Has(new, u)
<1>1. /\ new \in Seq(Records) /\ Len(new) <= MaxOps /\ Distinct(new)
      /\ Holds(new, id, kind, "accepted")
      /\ \A i \in DOMAIN new : \/ new[i] = [id |-> id, kind |-> kind, state |-> "accepted"]
                               \/ \E j \in DOMAIN ops : new[i] = ops[j]
    BY JournalAccepts
<1>2. /\ \A i \in DOMAIN new : StateOf(new, new[i].id) = new[i].state
      /\ \A i \in DOMAIN ops : StateOf(ops, ops[i].id) = ops[i].state
    BY <1>1, JournalReads
<1>3. \A i \in DOMAIN ops : ops[i].id # id
    BY DEF Has
<1>4. Has(new, id) /\ StateOf(new, id) = "accepted"
    BY <1>1, <1>2 DEF Holds, Has
<1>5. \A i \in DOMAIN new : new[i].id = id => new[i].kind = kind
    BY <1>1, <1>3
<1>6. \A i \in DOMAIN new : new[i].id # id => \E j \in DOMAIN ops : new[i] = ops[j]
    BY <1>1
<1>7. \A u : u # id /\ Has(new, u) => Has(ops, u) /\ StateOf(new, u) = StateOf(ops, u)
    BY <1>2, <1>6 DEF Has
<1>8. ASSUME NEW u, NEW k, NEW s, Holds(ops, u, k, s), Has(new, u)
      PROVE  Holds(new, u, k, s)
  <2>1. PICK i \in DOMAIN ops : ops[i] = [id |-> u, kind |-> k, state |-> s]
      BY <1>8 DEF Holds
  <2>2. PICK n \in DOMAIN new : new[n].id = u
      BY <1>8 DEF Has
  <2>3. PICK j \in DOMAIN ops : new[n] = ops[j]
      BY <1>3, <1>6, <2>1, <2>2
  <2>4. j = i
      BY <2>1, <2>2, <2>3 DEF Distinct
  <2> QED BY <2>1, <2>3, <2>4 DEF Holds
<1> QED BY <1>1, <1>4, <1>5, <1>6, <1>7, <1>8

\* The first of the writes is taken.
LEMMA WriteTaken ==
    ASSUME IInv, writes # <<>>, writes' = Tail(writes)
    PROVE  /\ 1 \in DOMAIN writes /\ Head(writes) = writes[1]
           /\ Head(writes) \in Records /\ Head(writes).id \in Ids /\ Head(writes).kind \in Kinds
           /\ writes' \in Seq(Records) /\ phase # "off"
           /\ \A i \in DOMAIN writes' : /\ i + 1 \in DOMAIN writes /\ writes'[i] = writes[i + 1] /\ i + 1 # 1
                                        /\ writes'[i] \in Records /\ writes'[i].id \in Ids
                                        /\ i \in Nat /\ Target(writes'[i].kind) \in Targets
<1> USE DEF IInv
<1>1. writes \in Seq(Records)
    BY DEF TypeOK
<1>2. /\ 1 \in DOMAIN writes /\ Head(writes) = writes[1] /\ writes' \in Seq(Records)
      /\ \A i \in DOMAIN writes' : i \in Nat /\ i + 1 \in DOMAIN writes /\ writes'[i] = writes[i + 1] /\ i + 1 # 1
    BY <1>1
<1>3. \A i \in DOMAIN writes : writes[i] \in Records
    BY <1>1
<1>4. \A w \in Records : w.id \in Ids /\ w.kind \in Kinds
    BY DEF Records
<1> QED BY <1>2, <1>3, <1>4, TargetTypes DEF OffInv

\* An operation is accepted; the oldest record may be evicted.
LEMMA AcceptWrittenKeeps ==
    ASSUME IInv, Write, Head(writes).state = "accepted", AcceptWritten
    PROVE  IInv'
<1> USE DEF IInv
<1> DEFINE w == Head(writes)
           ops == Keep(WithAccepted(mem, w.id, w.kind))
<1>0. /\ mem' = ops /\ disk' = ops /\ Forget(ops)
      /\ UNCHANGED <<phase, stage, claimed, calls, runs, told, unsaved, accepts, faults>>
    BY DEF Write, AcceptWritten
<1>1. /\ 1 \in DOMAIN writes /\ w = writes[1]
      /\ w \in Records /\ w.id \in Ids /\ w.kind \in Kinds
      /\ writes' \in Seq(Records) /\ phase # "off"
      /\ \A i \in DOMAIN writes' : /\ i + 1 \in DOMAIN writes /\ writes'[i] = writes[i + 1] /\ i + 1 # 1
                                   /\ writes'[i] \in Records /\ writes'[i].id \in Ids
                                   /\ i \in Nat /\ Target(writes'[i].kind) \in Targets
    BY WriteTaken DEF Write
<1>2. /\ inflight[w.id] = w.kind /\ ~Has(mem, w.id)
      /\ ~Queued(w.id, "service") /\ ~Queued(w.id, "excubitor")
      /\ \A j \in DOMAIN writes : writes[j].state = "accepted" /\ writes[j].id = w.id => j = 1
    BY <1>1 DEF AcceptWriteInv
<1>m. mem \in Seq(Records) /\ Len(mem) <= MaxOps /\ Distinct(mem)
    BY DEF TypeOK, JournalInv
<1>3. /\ ops \in Seq(Records) /\ Len(ops) <= MaxOps /\ Distinct(ops)
      /\ Has(ops, w.id) /\ StateOf(ops, w.id) = "accepted"
      /\ \A i \in DOMAIN ops : ops[i].id = w.id => ops[i].kind = w.kind
      /\ \A i \in DOMAIN ops : ops[i].id # w.id => \E j \in DOMAIN mem : ops[i] = mem[j]
      /\ \A u : u # w.id /\ Has(ops, u) => Has(mem, u) /\ StateOf(ops, u) = StateOf(mem, u)
      /\ \A u, k, s : Holds(mem, u, k, s) => Holds(ops, u, k, s) \/ ~Has(ops, u)
    BY <1>1, <1>2, <1>m, AcceptKeepsRecords
<1>k. StateOf(mem, w.id) = None
    BY <1>2 DEF StateOf
<1> HIDE DEF w, ops
<1>4. /\ drops' \in [Ids -> Nat]
      /\ \A u \in Ids : drops'[u] >= drops[u]
      /\ \A u \in Ids : Has(mem, u) /\ ~Has(ops, u) => drops'[u] = drops[u] + 1
  <2>1. /\ drops' = [id \in Ids |-> IF id \in Dropped(ops) THEN drops[id] + 1 ELSE drops[id]]
        /\ drops \in [Ids -> Nat]
      BY <1>0 DEF Forget, TypeOK
  <2>2. \A u \in Ids : Has(mem, u) /\ ~Has(ops, u) => u \in Dropped(ops)
      BY DEF Dropped
  <2>3. \A u \in Ids : drops[u] \in Nat /\ drops[u] + 1 \in Nat /\ drops[u] + 1 >= drops[u]
      BY <2>1
  <2> HIDE DEF ops
  <2> QED BY <2>1, <2>2, <2>3
<1>5. /\ queue' \in [Targets -> Seq(Entries)] /\ StageInv'
      /\ inflight' \in [Ids -> Kinds \cup {None}]
      /\ \A u \in Ids : u # w.id => inflight'[u] = inflight[u]
      /\ w.kind # "deferred" => inflight' = inflight
      /\ \A t \in Targets : queue[t] # <<>> => queue'[t] # <<>> /\ Head(queue'[t]) = Head(queue[t])
      /\ \A t \in Targets : \A i, j \in DOMAIN queue'[t] : queue'[t][i] = queue'[t][j] => i = j
      /\ \A t \in Targets : \A i \in DOMAIN queue'[t] :
             \/ \E j \in DOMAIN queue[t] : queue'[t][i] = queue[t][j]
             \/ t = Target(w.kind) /\ queue'[t][i] = [id |-> w.id, kind |-> w.kind] /\ w.kind # "deferred"
      /\ \A u \in Ids, k \in Kinds : Queued(u, k) => Queued(u, k)'
      /\ \A u \in Ids, k \in Kinds : Queued(u, k)' => Queued(u, k) \/ u = w.id
      /\ \A u \in Ids, k \in Kinds : Waits(u, k)' => Waits(u, k) \/ (u = w.id /\ k # "deferred")
  <2>1. CASE w.kind = "deferred"
    <3>1. inflight' = [inflight EXCEPT ![w.id] = None] /\ queue' = queue
        BY <2>1 DEF AcceptWritten, w
    <3>2. inflight' \in [Ids -> Kinds \cup {None}] /\ \A u \in Ids : u # w.id => inflight'[u] = inflight[u]
        BY <1>1, <3>1 DEF TypeOK
    <3>3. \A u, k : (Queued(u, k)' <=> Queued(u, k)) /\ (Waits(u, k)' <=> Waits(u, k))
        BY <1>0, <3>1 DEF Queued, Waits
    <3>4. StageInv'
        BY <1>0, <3>1 DEF StageInv
    <3> QED BY <2>1, <3>1, <3>2, <3>3, <3>4 DEF TypeOK, QueueInv
  <2>2. CASE w.kind # "deferred"
    <3>1. /\ queue' = [queue EXCEPT ![Target(w.kind)] = Append(@, [id |-> w.id, kind |-> w.kind])]
          /\ inflight' = inflight
        BY <2>2 DEF AcceptWritten, w
    <3>2. ~Queued(w.id, w.kind)
        BY <1>1, <1>2, <2>2 DEF Kinds
    <3>3. \A t \in Targets : \A i, j \in DOMAIN queue[t] : queue[t][i] = queue[t][j] => i = j
        BY DEF QueueInv
    <3>4. /\ queue' \in [Targets -> Seq(Entries)]
          /\ StageInv'
          /\ \A t \in Targets : queue[t] # <<>> => queue'[t] # <<>> /\ Head(queue'[t]) = Head(queue[t])
          /\ \A t \in Targets : \A i, j \in DOMAIN queue'[t] : queue'[t][i] = queue'[t][j] => i = j
          /\ \A t \in Targets : \A i \in DOMAIN queue'[t] :
                 \/ \E j \in DOMAIN queue[t] : queue'[t][i] = queue[t][j]
                 \/ t = Target(w.kind) /\ queue'[t][i] = [id |-> w.id, kind |-> w.kind]
          /\ \A u \in Ids, k \in Kinds : Queued(u, k) => Queued(u, k)'
          /\ \A u \in Ids, k \in Kinds : Queued(u, k)' => Queued(u, k) \/ (u = w.id /\ k = w.kind)
          /\ \A u \in Ids, k \in Kinds : Waits(u, k)' => Waits(u, k) \/ (u = w.id /\ k = w.kind)
      <4>1. queue \in [Targets -> Seq(Entries)] /\ StageInv /\ stage' = stage /\ w.id \in Ids /\ w.kind \in Kinds
          BY <1>0, <1>1 DEF TypeOK
      <4> HIDE DEF IInv
      <4> QED BY <4>1, <3>1, <3>2, <3>3, QueueGrows
    <3>5. inflight' \in [Ids -> Kinds \cup {None}] /\ \A u \in Ids : u # w.id => inflight'[u] = inflight[u]
        BY <3>1 DEF TypeOK
    <3>6. /\ \A u \in Ids, k \in Kinds : Queued(u, k)' => Queued(u, k) \/ u = w.id
          /\ \A u \in Ids, k \in Kinds : Waits(u, k)' => Waits(u, k) \/ (u = w.id /\ k # "deferred")
        BY <2>2, <3>4
    <3>7. \A t \in Targets : \A i \in DOMAIN queue'[t] :
             \/ \E j \in DOMAIN queue[t] : queue'[t][i] = queue[t][j]
             \/ t = Target(w.kind) /\ queue'[t][i] = [id |-> w.id, kind |-> w.kind] /\ w.kind # "deferred"
        BY <2>2, <3>4
    <3> QED BY <3>1, <3>4, <3>5, <3>6, <3>7
  <2> QED BY <2>1, <2>2
<1>6. TypeOK'
    BY <1>0, <1>1, <1>3, <1>4, <1>5 DEF TypeOK
<1>7. phase # "leaving"
  <2>1. w.kind # None
      BY <1>1 DEF Kinds, None
  <2> QED BY <1>1, <1>2, <2>1 DEF LeftInv, Drained, NoFlight
<1>8. OffInv' /\ LeftInv' /\ ClaimInv'
  <2>1. \A u \in claimed : Queued(u, "deferred")'
      BY <1>5 DEF ClaimInv, TypeOK, Kinds
  <2> QED BY <1>0, <1>1, <1>7, <2>1 DEF OffInv, LeftInv, ClaimInv
<1>9. JournalInv'
    BY <1>0, <1>3 DEF JournalInv
<1>10. FinalWriteInv'
    <2> SUFFICES ASSUME NEW i \in DOMAIN writes', writes'[i].state # "accepted"
                 PROVE  LET v == writes'[i]  t == Target(v.kind)
                        IN  /\ stage[t] = "recording" /\ queue'[t] # <<>>
                            /\ Head(queue'[t]) = [id |-> v.id, kind |-> v.kind]
                            /\ \A j \in DOMAIN writes' :
                                   writes'[j].state # "accepted" /\ Target(writes'[j].kind) = t => i = j
        BY <1>0 DEF FinalWriteInv
    <2> DEFINE v == writes[i + 1]  t == Target(v.kind)
    <2>1. /\ i \in Nat /\ i + 1 \in DOMAIN writes /\ writes'[i] = v /\ t \in Targets /\ v.state # "accepted"
        BY <1>1
    <2>2. /\ stage[t] = "recording" /\ queue[t] # <<>>
          /\ Head(queue[t]) = [id |-> v.id, kind |-> v.kind]
          /\ \A j \in DOMAIN writes :
                 writes[j].state # "accepted" /\ Target(writes[j].kind) = t => i + 1 = j
        BY <2>1 DEF FinalWriteInv
    <2>3. \A j \in DOMAIN writes' : writes'[j].state # "accepted" /\ Target(writes'[j].kind) = t => i + 1 = j + 1
        BY <1>1, <2>2
    <2>4. \A j \in DOMAIN writes' : i + 1 = j + 1 => i = j
        BY <1>1, <2>1
    <2> HIDE DEF v, t
    <2>5. queue'[t] # <<>> /\ Head(queue'[t]) = Head(queue[t])
        BY <1>5, <2>1, <2>2
    <2> QED BY <2>1, <2>2, <2>3, <2>4, <2>5 DEF v, t
<1>11. AcceptWriteInv'
    <2> SUFFICES ASSUME NEW i \in DOMAIN writes', writes'[i].state = "accepted",
                        NEW u \in Ids, u = writes'[i].id
                 PROVE  /\ inflight'[u] = writes'[i].kind /\ ~Has(ops, u)
                        /\ ~Queued(u, "service")' /\ ~Queued(u, "excubitor")'
                        /\ \A j \in DOMAIN writes' : writes'[j].state = "accepted" /\ writes'[j].id = u => i = j
        BY <1>0, <1>1 DEF AcceptWriteInv, Has
    <2> DEFINE v == writes[i + 1]
    <2>1. /\ i \in Nat /\ i + 1 \in DOMAIN writes /\ writes'[i] = v /\ v.state = "accepted" /\ v.id \in Ids /\ i + 1 # 1
        BY <1>1
    <2>2. /\ inflight[v.id] = v.kind /\ ~Has(mem, v.id)
          /\ ~Queued(v.id, "service") /\ ~Queued(v.id, "excubitor")
          /\ \A j \in DOMAIN writes : writes[j].state = "accepted" /\ writes[j].id = v.id => i + 1 = j
        BY <2>1 DEF AcceptWriteInv
    <2>3. v.id # w.id
        BY <1>2, <2>1
    <2>4. \A j \in DOMAIN writes' : writes'[j].state = "accepted" /\ writes'[j].id = v.id => i = j
      <3>1. \A j \in DOMAIN writes' : writes'[j].state = "accepted" /\ writes'[j].id = v.id => i + 1 = j + 1
          BY <1>1, <2>2
      <3>2. \A j \in DOMAIN writes' : i + 1 = j + 1 => i = j
          BY <1>1, <2>1
      <3> QED BY <3>1, <3>2
    <2>5. inflight'[v.id] = v.kind /\ ~Has(ops, v.id)
        BY <1>3, <1>5, <2>1, <2>2, <2>3
    <2>a. v.id = u
        BY <2>1
    <2> HIDE DEF v
    <2>6. u \in Ids /\ u # w.id /\ "service" \in Kinds /\ "excubitor" \in Kinds
        BY <2>a, <2>1, <2>3 DEF Kinds
    <2>8. ~Queued(u, "service") /\ ~Queued(u, "excubitor")
        BY <2>a, <2>2
    <2>9. \A x \in Ids : x # w.id => (Queued(x, "service")' => Queued(x, "service"))
                                     /\ (Queued(x, "excubitor")' => Queued(x, "excubitor"))
        BY <1>5, <2>6
    <2>10. \A x \in Ids : x # w.id /\ ~Queued(x, "service") /\ ~Queued(x, "excubitor")
                          => ~Queued(x, "service")' /\ ~Queued(x, "excubitor")'
        BY <2>9
    <2> QED BY <2>a, <2>1, <2>4, <2>5, <2>6, <2>8, <2>10
<1>12. QueueInv'
  <2>1. ASSUME NEW t \in Targets, NEW i \in DOMAIN queue'[t]
        PROVE  LET f == queue'[t][i]
               IN  /\ Target(f.kind) = t
                   /\ f.kind # "deferred" => inflight'[f.id] = f.kind
                   /\ f.kind = "deferred" => f.id \in claimed
                   /\ drops'[f.id] > 0 \/ Holds(ops, f.id, f.kind, "accepted")
    <3> DEFINE f == queue'[t][i]
    <3>1. CASE \E j \in DOMAIN queue[t] : f = queue[t][j]
      <4>1. PICK j \in DOMAIN queue[t] : f = queue[t][j]
          BY <3>1
      <4>2. queue[t] \in Seq(Entries)
          BY DEF TypeOK
      <4>3. f \in Entries
          BY <4>1, <4>2
      <4>4. /\ Target(f.kind) = t
            /\ f.kind # "deferred" => inflight[f.id] = f.kind
            /\ f.kind = "deferred" => f.id \in claimed
            /\ drops[f.id] > 0 \/ Holds(mem, f.id, f.kind, "accepted")
          BY <4>1 DEF QueueInv
      <4>5. f.kind # "deferred" => f.id # w.id
        <5>1. Queued(f.id, f.kind)
            BY <4>1, <4>3, <4>4, TargetTypes DEF Queued
        <5> HIDE DEF f
        <5> QED BY <1>2, <4>3, <5>1, TargetTypes
      <4> HIDE DEF f
      <4>6. f.id \in Ids
          BY <4>3, TargetTypes
      <4>7. drops'[f.id] > 0 \/ Holds(ops, f.id, f.kind, "accepted")
        <5>1. drops[f.id] \in Nat /\ drops'[f.id] \in Nat /\ drops'[f.id] >= drops[f.id]
            BY <1>4, <4>6 DEF TypeOK
        <5>2. CASE drops[f.id] > 0
            BY <5>1, <5>2
        <5>3. CASE Holds(mem, f.id, f.kind, "accepted")
          <6>1. Has(mem, f.id)
              BY <5>3 DEF Holds, Has
          <6> QED BY <1>3, <1>4, <4>6, <5>1, <5>3, <6>1
        <5> QED BY <4>4, <5>2, <5>3
      <4>8. f.kind # "deferred" => inflight'[f.id] = f.kind
          BY <1>5, <4>4, <4>5, <4>6
      <4> QED BY <4>4, <4>7, <4>8 DEF f
    <3>2. CASE t = Target(w.kind) /\ f = [id |-> w.id, kind |-> w.kind] /\ w.kind # "deferred"
      <4>1. Holds(ops, w.id, w.kind, "accepted")
        <5>1. PICK n \in DOMAIN ops : ops[n].id = w.id
            BY <1>3 DEF Has
        <5>2. ops[n].state = "accepted" /\ ops[n].kind = w.kind
              /\ ops[n] = [id |-> ops[n].id, kind |-> ops[n].kind, state |-> ops[n].state]
            BY <1>3, <5>1, JournalReads
        <5> QED BY <5>1, <5>2 DEF Holds
      <4>2. inflight'[w.id] = w.kind
          BY <1>2, <1>5, <3>2
      <4> QED BY <3>2, <4>1, <4>2
    <3> QED BY <1>5, <3>1, <3>2
  <2>2. \A u, k, s : Holds(ops, u, k, s) => Holds(mem, u, k, s)'
      BY <1>0 DEF Holds
  <2> QED BY <1>0, <1>5, <2>1, <2>2 DEF QueueInv
<1>13. MemInv'
  <2> SUFFICES ASSUME NEW i \in DOMAIN ops, ops[i].state = "accepted", ops[i].kind # "deferred"
               PROVE  inflight'[ops[i].id] = ops[i].kind
      BY <1>0 DEF MemInv
  <2>1. CASE ops[i].id = w.id
      BY <1>2, <1>3, <1>5, <2>1
  <2>2. CASE ops[i].id # w.id
    <3>1. PICK j \in DOMAIN mem : ops[i] = mem[j]
        BY <1>3, <2>2
    <3>2. mem[j] \in Records
        BY <1>m
    <3>3. mem[j].id \in Ids
        BY <3>2 DEF Records
    <3> QED BY <1>5, <2>2, <3>1, <3>3 DEF MemInv
  <2> QED BY <2>1, <2>2
<1>14. CallInv'
  <2> SUFFICES ASSUME NEW u \in Ids, calls[u] > 0
               PROVE  drops'[u] > 0 \/ \E i \in DOMAIN ops : ops[i].id = u /\ ops[i].kind = "deferred"
      BY <1>0 DEF CallInv
  <2>1. drops[u] \in Nat /\ drops'[u] \in Nat /\ drops'[u] >= drops[u]
      BY <1>4 DEF TypeOK
  <2>2. CASE drops[u] > 0
      BY <2>1, <2>2
  <2>3. CASE \E i \in DOMAIN mem : mem[i].id = u /\ mem[i].kind = "deferred"
    <3>1. PICK i \in DOMAIN mem : mem[i].id = u /\ mem[i].kind = "deferred"
        BY <2>3
    <3>2. Holds(mem, u, "deferred", mem[i].state) /\ Has(mem, u)
      <4>1. mem[i] = [id |-> mem[i].id, kind |-> mem[i].kind, state |-> mem[i].state]
          BY <1>m, JournalReads
      <4> QED BY <3>1, <4>1 DEF Holds, Has
    <3>3. CASE Holds(ops, u, "deferred", mem[i].state)
        BY <3>3 DEF Holds
    <3>4. CASE ~Has(ops, u)
        BY <1>4, <2>1, <3>2, <3>4
    <3> QED BY <1>3, <3>2, <3>3, <3>4
  <2> QED BY <2>2, <2>3 DEF CallInv
<1>15. RunInv'
  <2> SUFFICES ASSUME NEW u \in Ids, NEW k \in Kinds
               PROVE  runs[u][k] + One(Waits(u, k)') + One(k = "deferred" /\ Claimable(u)')
                          <= drops'[u] + One(Has(ops, u))
      BY <1>0 DEF RunInv, Has
  <2>1. /\ runs[u][k] + One(Waits(u, k)) + One(k = "deferred" /\ Claimable(u))
              <= drops[u] + One(Has(disk, u))
        /\ runs[u][k] \in Nat /\ drops[u] \in Nat /\ drops'[u] \in Nat /\ drops'[u] >= drops[u]
      BY <1>4 DEF RunInv, TypeOK
  <2>2. Waits(u, k)' => Waits(u, k) \/ (u = w.id /\ k # "deferred")
      BY <1>5
  <2>3. Has(disk, u) => Has(mem, u)
      BY <1>1, SameRecords
  <2>4. CASE u = w.id
    <3>1. ~Has(disk, u) /\ Has(ops, u)
        BY <1>2, <1>3, <2>3, <2>4
    <3> QED BY <2>1, <2>2, <3>1 DEF One
  <2>5. CASE u # w.id
    <3>1. Claimable(u)' => Claimable(u)
      <4>1. Claimable(u)' => phase = "up" /\ u \notin claimed /\ StateOf(ops, u) = "accepted"
          BY <1>0 DEF Claimable
      <4>2. StateOf(ops, u) = "accepted" => Has(ops, u)
          BY DEF StateOf, None
      <4> QED BY <1>3, <2>5, <4>1, <4>2 DEF Claimable
    <3>2. CASE Has(ops, u)
        BY <2>1, <2>2, <2>5, <3>1, <3>2 DEF One
    <3>3. CASE ~Has(ops, u) /\ Has(mem, u)
      <4>1. drops'[u] = drops[u] + 1
          BY <1>4, <3>3
      <4> QED BY <2>1, <2>2, <2>5, <3>1, <3>3, <4>1 DEF One
    <3>4. CASE ~Has(ops, u) /\ ~Has(mem, u)
        BY <2>1, <2>2, <2>3, <2>5, <3>1, <3>4 DEF One
    <3> QED BY <3>2, <3>3, <3>4
  <2> QED BY <2>4, <2>5
<1>16. ToldInv'
  <2> SUFFICES ASSUME NEW u \in Ids, told[u] # None, drops'[u] = 0, u \notin unsaved
               PROVE  StateOf(ops, u) = told[u]
      BY <1>0, <1>1 DEF ToldInv, Known
  <2>1. drops[u] = 0
      BY <1>4 DEF TypeOK
  <2>2. StateOf(mem, u) = told[u]
      BY <1>1, <2>1 DEF ToldInv, Known
  <2>3. u # w.id /\ Has(mem, u)
      BY <1>k, <2>2 DEF StateOf
  <2>4. Has(ops, u)
      BY <1>4, <2>1, <2>3
  <2> QED BY <1>3, <2>2, <2>3, <2>4
<1> QED BY <1>5, <1>6, <1>8, <1>9, <1>10, <1>11, <1>12, <1>13, <1>14, <1>15, <1>16

\* An acceptance that could not be written is rolled back.
LEMMA AcceptFailsKeeps ==
    ASSUME IInv, Write, Head(writes).state = "accepted", AcceptFails
    PROVE  IInv'
<1> USE DEF IInv
<1> DEFINE w == Head(writes)
<1>0. /\ inflight' = [inflight EXCEPT ![w.id] = None] /\ faults' \in 0..MaxFaults
      /\ UNCHANGED <<phase, mem, disk, queue, stage, claimed, calls, runs, drops, told, unsaved, accepts>>
  <2>1. faults < MaxFaults /\ faults' = faults + 1 /\ faults \in 0..MaxFaults /\ MaxFaults \in Nat
      BY SupervisorAssumption DEF AcceptFails, TypeOK
  <2> QED BY <2>1 DEF Write, AcceptFails, ghosts
<1>1. /\ 1 \in DOMAIN writes /\ w = writes[1]
      /\ w \in Records /\ w.id \in Ids /\ w.kind \in Kinds
      /\ writes' \in Seq(Records) /\ phase # "off"
      /\ \A i \in DOMAIN writes' : /\ i + 1 \in DOMAIN writes /\ writes'[i] = writes[i + 1] /\ i + 1 # 1
                                   /\ writes'[i] \in Records /\ writes'[i].id \in Ids
                                   /\ i \in Nat /\ Target(writes'[i].kind) \in Targets
    BY WriteTaken DEF Write
<1>2. /\ inflight[w.id] = w.kind /\ ~Has(mem, w.id)
      /\ ~Queued(w.id, "service") /\ ~Queued(w.id, "excubitor")
      /\ \A j \in DOMAIN writes : writes[j].state = "accepted" /\ writes[j].id = w.id => j = 1
    BY <1>1 DEF AcceptWriteInv
<1> HIDE DEF w
<1>3. inflight' \in [Ids -> Kinds \cup {None}] /\ \A u \in Ids : u # w.id => inflight'[u] = inflight[u]
    BY <1>0, <1>1 DEF TypeOK
<1>4. TypeOK'
    BY <1>0, <1>1, <1>3 DEF TypeOK
<1>5. phase # "leaving"
  <2>1. w.kind # None
      BY <1>1 DEF Kinds, None
  <2> QED BY <1>1, <1>2, <2>1 DEF LeftInv, Drained, NoFlight
<1>6. \A u, k : Queued(u, k)' = Queued(u, k) /\ Waits(u, k)' = Waits(u, k)
    BY <1>0 DEF Queued, Waits
<1>7. OffInv' /\ JournalInv' /\ StageInv' /\ CallInv' /\ ToldInv' /\ LeftInv' /\ ClaimInv'
    BY <1>0, <1>1, <1>5, <1>6 DEF OffInv, JournalInv, StageInv, CallInv, ToldInv, Known, LeftInv, ClaimInv
<1>8. FinalWriteInv'
    <2> SUFFICES ASSUME NEW i \in DOMAIN writes', writes'[i].state # "accepted"
                 PROVE  LET v == writes'[i]  t == Target(v.kind)
                        IN  /\ stage[t] = "recording" /\ queue[t] # <<>>
                            /\ Head(queue[t]) = [id |-> v.id, kind |-> v.kind]
                            /\ \A j \in DOMAIN writes' :
                                   writes'[j].state # "accepted" /\ Target(writes'[j].kind) = t => i = j
        BY <1>0 DEF FinalWriteInv
    <2> DEFINE v == writes[i + 1]  t == Target(v.kind)
    <2>1. /\ i \in Nat /\ i + 1 \in DOMAIN writes /\ writes'[i] = v /\ t \in Targets /\ v.state # "accepted"
        BY <1>1
    <2>2. /\ stage[t] = "recording" /\ queue[t] # <<>>
          /\ Head(queue[t]) = [id |-> v.id, kind |-> v.kind]
          /\ \A j \in DOMAIN writes :
                 writes[j].state # "accepted" /\ Target(writes[j].kind) = t => i + 1 = j
        BY <2>1 DEF FinalWriteInv
    <2>3. \A j \in DOMAIN writes' : writes'[j].state # "accepted" /\ Target(writes'[j].kind) = t => i + 1 = j + 1
        BY <1>1, <2>2
    <2>4. \A j \in DOMAIN writes' : i + 1 = j + 1 => i = j
        BY <1>1, <2>1
    <2> HIDE DEF v, t
    <2> QED BY <2>1, <2>2, <2>3, <2>4 DEF v, t
<1>9. AcceptWriteInv'
    <2> SUFFICES ASSUME NEW i \in DOMAIN writes', writes'[i].state = "accepted"
                 PROVE  LET v == writes'[i]
                        IN  /\ inflight'[v.id] = v.kind /\ ~Has(mem, v.id)
                            /\ ~Queued(v.id, "service") /\ ~Queued(v.id, "excubitor")
                            /\ \A j \in DOMAIN writes' : writes'[j].state = "accepted" /\ writes'[j].id = v.id => i = j
        BY <1>0, <1>6 DEF AcceptWriteInv
    <2> DEFINE v == writes[i + 1]
    <2>1. /\ i \in Nat /\ i + 1 \in DOMAIN writes /\ writes'[i] = v /\ v.state = "accepted" /\ v.id \in Ids /\ i + 1 # 1
        BY <1>1
    <2>2. /\ inflight[v.id] = v.kind /\ ~Has(mem, v.id)
          /\ ~Queued(v.id, "service") /\ ~Queued(v.id, "excubitor")
          /\ \A j \in DOMAIN writes : writes[j].state = "accepted" /\ writes[j].id = v.id => i + 1 = j
        BY <2>1 DEF AcceptWriteInv
    <2>3. v.id # w.id
        BY <1>2, <2>1
    <2>4. \A j \in DOMAIN writes' : writes'[j].state = "accepted" /\ writes'[j].id = v.id => i = j
      <3>1. \A j \in DOMAIN writes' : writes'[j].state = "accepted" /\ writes'[j].id = v.id => i + 1 = j + 1
          BY <1>1, <2>2
      <3>2. \A j \in DOMAIN writes' : i + 1 = j + 1 => i = j
          BY <1>1, <2>1
      <3> QED BY <3>1, <3>2
    <2> HIDE DEF v
    <2> QED BY <1>3, <2>1, <2>2, <2>3, <2>4
<1>10. QueueInv'
  <2>1. ASSUME NEW t \in Targets, NEW i \in DOMAIN queue[t], queue[t][i].kind # "deferred"
        PROVE  inflight'[queue[t][i].id] = queue[t][i].kind
    <3> DEFINE f == queue[t][i]
    <3>1. queue[t] \in Seq(Entries)
        BY DEF TypeOK
    <3>2. f \in Entries /\ Target(f.kind) = t
        BY <3>1 DEF QueueInv
    <3>3. Queued(f.id, f.kind)
        BY <3>2, TargetTypes DEF Queued
    <3>4. inflight[f.id] = f.kind /\ f.kind # "deferred"
        BY <2>1 DEF QueueInv
    <3> HIDE DEF f
    <3>5. f.id \in Ids /\ f.id # w.id
        BY <1>2, <3>2, <3>3, <3>4, TargetTypes
    <3>6. inflight'[f.id] = f.kind
        BY <1>3, <3>4, <3>5
    <3> QED BY <3>6 DEF f
  <2> QED BY <1>0, <2>1 DEF QueueInv, Holds
<1>11. MemInv'
  <2>1. \A i \in DOMAIN mem : mem[i].id # w.id /\ mem[i].id \in Ids
    <3>1. \A i \in DOMAIN mem : mem[i] \in Records
        BY DEF TypeOK
    <3> QED BY <1>2, <3>1 DEF Has, Records
  <2> QED BY <1>0, <1>3, <2>1 DEF MemInv
<1>12. RunInv'
  <2>1. \A u : Has(disk, u)' = Has(disk, u) /\ Claimable(u)' = Claimable(u)
      BY <1>0 DEF Claimable
  <2> QED BY <1>0, <1>6, <2>1 DEF RunInv
<1> QED BY <1>4, <1>7, <1>8, <1>9, <1>10, <1>11, <1>12

\* An operation has its result: it leaves its queue and the waiting are told.
LEMMA CompletionKeeps ==
    ASSUME IInv, Write, Head(writes).state # "accepted", Completion
    PROVE  IInv'
<1> USE DEF IInv
<1> DEFINE w == Head(writes)
           ops == WithState(mem, w.id, w.state)
           t == Target(w.kind)
           e == Head(queue[t])
<1>1. /\ 1 \in DOMAIN writes /\ w = writes[1]
      /\ w \in Records /\ w.id \in Ids /\ w.kind \in Kinds
      /\ writes' \in Seq(Records) /\ phase # "off"
      /\ \A i \in DOMAIN writes' : /\ i + 1 \in DOMAIN writes /\ writes'[i] = writes[i + 1] /\ i + 1 # 1
                                   /\ writes'[i] \in Records /\ writes'[i].id \in Ids
                                   /\ i \in Nat /\ Target(writes'[i].kind) \in Targets
    BY WriteTaken DEF Write
<1>2. /\ t \in Targets /\ stage[t] = "recording" /\ queue[t] # <<>>
      /\ e = [id |-> w.id, kind |-> w.kind]
      /\ \A j \in DOMAIN writes : writes[j].state # "accepted" /\ Target(writes[j].kind) = t => j = 1
    BY <1>1, TargetTypes DEF FinalWriteInv
<1>3. w.state \in Finals
    BY <1>1 DEF Records
<1>4. /\ Leaves(e, w.state) /\ mem' = ops
      /\ (disk' = ops /\ Has(mem, w.id)) \/ disk' = disk
      /\ faults' = faults \/ (faults < MaxFaults /\ faults' = faults + 1)
      /\ UNCHANGED <<phase, calls, accepts, runs, drops, unsaved>>
    BY <1>2 DEF Write, Completion
<1>5. /\ e \in Entries /\ ~Drained
      /\ drops[e.id] > 0 \/ Holds(mem, e.id, e.kind, "accepted")
      /\ queue' \in [Targets -> Seq(Entries)]
      /\ stage' \in [Targets -> {"idle", "executing", "recording"}]
      /\ inflight' \in [Ids -> Kinds \cup {None}] /\ claimed' \subseteq Ids
      /\ StageInv' /\ ClaimInv'
      /\ \A u \in Targets : u # t => queue'[u] = queue[u] /\ stage'[u] = stage[u]
      /\ \A u \in Ids : inflight'[u] = inflight[u] \/ (u = e.id /\ e.kind # "deferred")
      /\ \A u \in Ids : u # e.id => (u \in claimed' <=> u \in claimed)
      /\ \A u \in Ids, k \in Kinds : Queued(u, k)' => Queued(u, k)
      /\ \A u \in Ids, k \in Kinds : Waits(u, k)' => Waits(u, k)
      /\ \A u \in Targets : \A i \in DOMAIN queue'[u] :
             LET f == queue'[u][i]
             IN  /\ Target(f.kind) = u /\ f \in Entries /\ f # e
                 /\ f.kind # "deferred" => inflight'[f.id] = f.kind
                 /\ f.kind = "deferred" => f.id \in claimed'
                 /\ drops[f.id] > 0 \/ Holds(mem, f.id, f.kind, "accepted")
      /\ \A u \in Targets : \A i, j \in DOMAIN queue'[u] : queue'[u][i] = queue'[u][j] => i = j
      /\ \A i \in DOMAIN writes : writes[i].state = "accepted" => inflight'[writes[i].id] = writes[i].kind
    BY <1>2, <1>4, LeavesKeeps
<1>m. mem \in Seq(Records) /\ Len(mem) <= MaxOps /\ Distinct(mem)
    BY DEF TypeOK, JournalInv
<1>6. /\ ops \in Seq(Records) /\ Len(ops) = Len(mem) /\ Distinct(ops) /\ DOMAIN ops = DOMAIN mem
      /\ \A i \in DOMAIN mem : /\ ops[i].id = mem[i].id /\ ops[i].kind = mem[i].kind
                               /\ ops[i].state = IF mem[i].id = w.id THEN w.state ELSE mem[i].state
  <2>1. /\ ops \in Seq(Records) /\ Len(ops) = Len(mem) /\ Distinct(ops)
        /\ \A i \in DOMAIN mem : /\ ops[i].id = mem[i].id /\ ops[i].kind = mem[i].kind
                                 /\ ops[i].state = IF mem[i].id = w.id THEN w.state ELSE mem[i].state
      BY <1>1, <1>3, <1>m, JournalEnds
  <2>2. DOMAIN ops = DOMAIN mem
      BY <2>1, <1>m, LenProperties
  <2> QED BY <2>1, <2>2
<1>t. told' = IF w.kind = "deferred" THEN told ELSE [told EXCEPT ![w.id] = w.state]
    BY <1>2, <1>3, <1>4 DEF Leaves, Tell
<1> HIDE DEF w, ops, t
<1>7. e.id = w.id /\ e.kind = w.kind
    BY <1>2
<1> HIDE DEF e
<1>8. /\ \A u : Has(ops, u) <=> Has(mem, u)
      /\ \A u : u # w.id => StateOf(ops, u) = StateOf(mem, u)
      /\ Has(mem, w.id) => StateOf(ops, w.id) = w.state
      /\ ~Has(mem, w.id) => StateOf(ops, w.id) = None
      /\ \A u, k, s : u # w.id /\ Holds(mem, u, k, s) => Holds(ops, u, k, s)
  <2>1. \A u : Has(ops, u) <=> Has(mem, u)
      BY <1>6 DEF Has
  <2>2. /\ \A i \in DOMAIN mem : StateOf(mem, mem[i].id) = mem[i].state
        /\ \A i \in DOMAIN ops : StateOf(ops, ops[i].id) = ops[i].state
        /\ \A i \in DOMAIN ops : ops[i] = [id |-> ops[i].id, kind |-> ops[i].kind, state |-> ops[i].state]
        /\ \A u : ~Has(mem, u) => StateOf(mem, u) = None
        /\ \A u : ~Has(ops, u) => StateOf(ops, u) = None
      BY <1>6, <1>m, JournalReads
  <2>3. ASSUME NEW u, u # w.id PROVE StateOf(ops, u) = StateOf(mem, u)
    <3>1. CASE Has(mem, u)
        BY <1>6, <2>2, <2>3, <3>1 DEF Has
    <3>2. CASE ~Has(mem, u)
        BY <2>1, <2>2, <3>2
    <3> QED BY <3>1, <3>2
  <2>4. Has(mem, w.id) => StateOf(ops, w.id) = w.state
      BY <1>6, <2>2 DEF Has
  <2>5. ~Has(mem, w.id) => StateOf(ops, w.id) = None
      BY <2>1, <2>2
  <2>6. ASSUME NEW u, NEW k, NEW s, u # w.id, Holds(mem, u, k, s) PROVE Holds(ops, u, k, s)
    <3>1. PICK i \in DOMAIN mem : mem[i] = [id |-> u, kind |-> k, state |-> s]
        BY <2>6 DEF Holds
    <3>2. i \in DOMAIN ops /\ ops[i] = [id |-> u, kind |-> k, state |-> s]
        BY <1>6, <2>2, <2>6, <3>1
    <3> QED BY <3>2 DEF Holds
  <2> QED BY <2>1, <2>3, <2>4, <2>5, <2>6
<1>9. TypeOK'
  <2>1. faults' \in 0..MaxFaults
    <3>1. faults \in 0..MaxFaults /\ MaxFaults \in Nat
        BY SupervisorAssumption DEF TypeOK
    <3> QED BY <1>4, <3>1
  <2>2. told' \in [Ids -> Finals \cup {None}]
      BY <1>1, <1>3, <1>t DEF TypeOK
  <2>3. mem' \in Seq(Records) /\ Len(mem') <= MaxOps /\ disk' \in Seq(Records) /\ Len(disk') <= MaxOps
      BY <1>4, <1>6 DEF TypeOK
  <2> QED BY <1>1, <1>4, <1>5, <2>1, <2>2, <2>3 DEF TypeOK
<1>10. OffInv' /\ LeftInv'
    BY <1>1, <1>4, <1>5 DEF OffInv, LeftInv
<1>11. JournalInv'
    BY <1>4, <1>6 DEF JournalInv
<1>12. FinalWriteInv'
    <2> SUFFICES ASSUME NEW i \in DOMAIN writes', writes'[i].state # "accepted"
                 PROVE  LET v == writes'[i]  s == Target(v.kind)
                        IN  /\ stage'[s] = "recording" /\ queue'[s] # <<>>
                            /\ Head(queue'[s]) = [id |-> v.id, kind |-> v.kind]
                            /\ \A j \in DOMAIN writes' :
                                   writes'[j].state # "accepted" /\ Target(writes'[j].kind) = s => i = j
        BY DEF FinalWriteInv
    <2> DEFINE v == writes[i + 1]  s == Target(v.kind)
    <2>1. /\ i \in Nat /\ i + 1 \in DOMAIN writes /\ writes'[i] = v /\ s \in Targets /\ v.state # "accepted"
          /\ i + 1 # 1
        BY <1>1
    <2>2. /\ stage[s] = "recording" /\ queue[s] # <<>>
          /\ Head(queue[s]) = [id |-> v.id, kind |-> v.kind]
          /\ \A j \in DOMAIN writes :
                 writes[j].state # "accepted" /\ Target(writes[j].kind) = s => i + 1 = j
        BY <2>1 DEF FinalWriteInv
    <2>3. \A j \in DOMAIN writes' : writes'[j].state # "accepted" /\ Target(writes'[j].kind) = s => i + 1 = j + 1
        BY <1>1, <2>2
    <2>4. \A j \in DOMAIN writes' : i + 1 = j + 1 => i = j
        BY <1>1, <2>1
    <2>5. s # t
        BY <1>2, <2>1
    <2> HIDE DEF v, s
    <2>6. stage'[s] = stage[s] /\ queue'[s] = queue[s]
        BY <1>5, <2>1, <2>5
    <2> QED BY <2>1, <2>2, <2>3, <2>4, <2>6 DEF v, s
<1>13. AcceptWriteInv'
    <2> SUFFICES ASSUME NEW i \in DOMAIN writes', writes'[i].state = "accepted",
                        NEW u \in Ids, u = writes'[i].id
                 PROVE  /\ inflight'[u] = writes'[i].kind /\ ~Has(ops, u)
                        /\ ~Queued(u, "service")' /\ ~Queued(u, "excubitor")'
                        /\ \A j \in DOMAIN writes' : writes'[j].state = "accepted" /\ writes'[j].id = u => i = j
        BY <1>1, <1>4 DEF AcceptWriteInv, Has
    <2> DEFINE v == writes[i + 1]
    <2>1. /\ i \in Nat /\ i + 1 \in DOMAIN writes /\ writes'[i] = v /\ v.state = "accepted" /\ v.id = u
        BY <1>1
    <2>2. /\ inflight'[u] = v.kind /\ ~Has(mem, u)
          /\ ~Queued(u, "service") /\ ~Queued(u, "excubitor")
          /\ \A j \in DOMAIN writes : writes[j].state = "accepted" /\ writes[j].id = u => i + 1 = j
        BY <1>5, <2>1 DEF AcceptWriteInv
    <2>4. \A j \in DOMAIN writes' : writes'[j].state = "accepted" /\ writes'[j].id = u => i = j
      <3>1. \A j \in DOMAIN writes' : writes'[j].state = "accepted" /\ writes'[j].id = u => i + 1 = j + 1
          BY <1>1, <2>2
      <3>2. \A j \in DOMAIN writes' : i + 1 = j + 1 => i = j
          BY <1>1, <2>1
      <3> QED BY <3>1, <3>2
    <2> HIDE DEF v
    <2>5. "service" \in Kinds /\ "excubitor" \in Kinds
        BY DEF Kinds
    <2>6. \A x \in Ids : ~Queued(x, "service") /\ ~Queued(x, "excubitor")
                          => ~Queued(x, "service")' /\ ~Queued(x, "excubitor")'
        BY <1>5, <2>5
    <2> QED BY <1>8, <2>1, <2>2, <2>4, <2>6
<1>14. QueueInv'
  <2>1. ASSUME NEW u \in Targets, NEW i \in DOMAIN queue'[u]
        PROVE  LET f == queue'[u][i]
               IN  /\ Target(f.kind) = u
                   /\ f.kind # "deferred" => inflight'[f.id] = f.kind
                   /\ f.kind = "deferred" => f.id \in claimed'
                   /\ drops[f.id] > 0 \/ Holds(ops, f.id, f.kind, "accepted")
    <3> DEFINE f == queue'[u][i]
    <3>1. /\ Target(f.kind) = u /\ f \in Entries /\ f # e
          /\ f.kind # "deferred" => inflight'[f.id] = f.kind
          /\ f.kind = "deferred" => f.id \in claimed'
          /\ drops[f.id] > 0 \/ Holds(mem, f.id, f.kind, "accepted")
        BY <1>5
    <3> HIDE DEF f
    <3>2. CASE f.id # w.id
        BY <1>8, <3>1, <3>2 DEF f
    <3>3. CASE f.id = w.id
      <4>1. f.kind # e.kind
          BY <1>5, <1>7, <3>1, <3>3, TargetTypes
      <4>2. Holds(mem, f.id, f.kind, "accepted") => ~Holds(mem, e.id, e.kind, "accepted")
          BY <1>7, <1>m, <3>3, <4>1 DEF Holds, Distinct
      <4>3. drops[f.id] > 0
          BY <1>5, <1>7, <3>1, <3>3, <4>2
      <4> QED BY <3>1, <4>3 DEF f
    <3> QED BY <3>2, <3>3
  <2>2. \A u, k, s : Holds(ops, u, k, s) => Holds(mem, u, k, s)'
      BY <1>4 DEF Holds
  <2> QED BY <1>4, <1>5, <2>1, <2>2 DEF QueueInv
<1>15. MemInv'
  <2> SUFFICES ASSUME NEW i \in DOMAIN ops, ops[i].state = "accepted", ops[i].kind # "deferred"
               PROVE  inflight'[ops[i].id] = ops[i].kind
      BY <1>4 DEF MemInv
  <2>1. mem[i].id # w.id /\ mem[i].state = "accepted" /\ i \in DOMAIN mem
      BY <1>3, <1>6 DEF Finals
  <2>2. mem[i] \in Records
      BY <1>m, <2>1
  <2>3. mem[i].id \in Ids
      BY <2>2 DEF Records
  <2> QED BY <1>5, <1>6, <1>7, <2>1, <2>3 DEF MemInv
<1>16. CallInv'
    BY <1>4, <1>6 DEF CallInv
<1>17. RunInv'
  <2> SUFFICES ASSUME NEW u \in Ids, NEW k \in Kinds
               PROVE  runs[u][k] + One(Waits(u, k)') + One(k = "deferred" /\ Claimable(u)')
                          <= drops[u] + One(Has(disk, u)')
      BY <1>4 DEF RunInv
  <2>1. /\ runs[u][k] + One(Waits(u, k)) + One(k = "deferred" /\ Claimable(u))
              <= drops[u] + One(Has(disk, u))
        /\ runs[u][k] \in Nat /\ drops[u] \in Nat
      BY DEF RunInv, TypeOK
  <2>2. Waits(u, k)' => Waits(u, k)
      BY <1>5
  <2>3. Has(disk, u) => Has(disk, u)'
    <3>1. CASE disk' = disk
        BY <3>1 DEF Has
    <3>2. CASE disk' = ops
      <4>1. Has(disk, u) => Has(ops, u)
          BY <1>1, <1>8, SameRecords
      <4> QED BY <3>2, <4>1 DEF Has
    <3> QED BY <1>4, <3>1, <3>2
  <2>4. Claimable(u)' => Claimable(u)
    <3>1. Claimable(u)' => phase = "up" /\ u \notin claimed' /\ StateOf(ops, u) = "accepted"
        BY <1>4 DEF Claimable
    <3>2. StateOf(ops, u) = "accepted" => u # w.id
        BY <1>3, <1>8 DEF Finals, None
    <3> QED BY <1>5, <1>7, <1>8, <3>1, <3>2 DEF Claimable
  <2> QED BY <2>1, <2>2, <2>3, <2>4 DEF One
<1>18. ToldInv'
  <2> SUFFICES ASSUME NEW u \in Ids, told'[u] # None, drops[u] = 0, u \notin unsaved
               PROVE  StateOf(ops, u) = told'[u]
      BY <1>1, <1>4 DEF ToldInv, Known
  <2>1. told \in [Ids -> Finals \cup {None}]
      BY DEF TypeOK
  <2>2. CASE u # w.id
    <3>1. told'[u] = told[u]
        BY <1>1, <1>t, <2>1, <2>2
    <3> QED BY <1>1, <1>8, <2>2, <3>1 DEF ToldInv, Known
  <2>3. CASE u = w.id
    <3>1. Holds(mem, w.id, w.kind, "accepted")
        BY <1>5, <1>7, <2>3
    <3>2. Has(mem, w.id) /\ StateOf(mem, w.id) = "accepted"
        BY <1>m, <3>1, JournalReads DEF Holds, Has
    <3>3. CASE w.kind = "deferred"
      <4>1. told'[u] = told[u]
          BY <1>t, <3>3
      <4>2. told[u] = "accepted"
          BY <1>1, <2>3, <3>2, <4>1 DEF ToldInv, Known
      <4> QED BY <2>1, <4>2 DEF Finals, None
    <3>4. CASE w.kind # "deferred"
      <4>1. told'[u] = w.state
          BY <1>t, <2>1, <2>3, <3>4
      <4> QED BY <1>8, <2>3, <3>2, <4>1
    <3> QED BY <3>3, <3>4
  <2> QED BY <2>2, <2>3
<1> QED BY <1>5, <1>9, <1>10, <1>11, <1>12, <1>13, <1>14, <1>15, <1>16, <1>17, <1>18

-----------------------------------------------------------------------------
(* The end of a supervisor and the start of the next. *)

\* Nothing waits and nothing can be claimed while nothing is queued.
LEMMA EmptyQueues ==
    ASSUME queue = Empty, stage = Idle
    PROVE  /\ \A t \in Targets : queue[t] = <<>> /\ DOMAIN queue[t] = {}
           /\ StageInv
           /\ \A id \in Ids, kind \in Kinds : ~Queued(id, kind) /\ ~Waits(id, kind)
<1>1. \A t \in Targets : queue[t] = <<>> /\ DOMAIN queue[t] = {} /\ stage[t] = "idle"
    BY DEF Empty, Idle
<1>2. StageInv
    BY <1>1 DEF StageInv
<1>3. \A id \in Ids, kind \in Kinds : ~Queued(id, kind) /\ ~Waits(id, kind)
    BY <1>1, TargetTypes DEF Queued, Waits
<1> QED BY <1>1, <1>2, <1>3

\* The memory is lost; what was told is in the state file, or counted as unsaved.
LEMMA GoneKeeps == ASSUME IInv, phase # "off", Gone, faults' \in 0..MaxFaults PROVE IInv'
<1> USE DEF IInv
<1>0. /\ phase' = "off" /\ mem' = <<>> /\ writes' = <<>> /\ inflight' = NoFlight
      /\ queue' = Empty /\ stage' = Idle /\ claimed' = {} /\ calls' = [id \in Ids |-> 0]
      /\ unsaved' = unsaved \cup {id \in Ids : StateOf(mem, id) \in Finals
                                               /\ StateOf(disk, id) # StateOf(mem, id)}
      /\ UNCHANGED <<disk, runs, drops, told, accepts>>
    BY DEF Gone
<1>1. TypeOK'
  <2>1. inflight' \in [Ids -> Kinds \cup {None}] /\ calls' \in [Ids -> 0..MaxCommits]
        /\ queue' \in [Targets -> Seq(Entries)] /\ stage' \in [Targets -> {"idle", "executing", "recording"}]
      BY <1>0, SupervisorAssumption DEF NoFlight, Empty, Idle
  <2>2. unsaved' \subseteq Ids
      BY <1>0 DEF TypeOK
  <2>3. mem' \in Seq(Records) /\ Len(mem') <= MaxOps /\ writes' \in Seq(Records)
      BY <1>0, SupervisorAssumption
  <2> QED BY <1>0, <2>1, <2>2, <2>3 DEF TypeOK
<1>2. /\ \A t \in Targets : queue'[t] = <<>> /\ DOMAIN queue'[t] = {}
      /\ StageInv'
      /\ \A id \in Ids, kind \in Kinds : ~Queued(id, kind)' /\ ~Waits(id, kind)'
  <2>1. queue' = Empty /\ stage' = Idle
      BY <1>0
  <2>2. \A t \in Targets : queue'[t] = <<>> /\ DOMAIN queue'[t] = {} /\ stage'[t] = "idle"
      BY <2>1 DEF Empty, Idle
  <2> QED BY <2>2, TargetTypes DEF StageInv, Queued, Waits
<1>3. DOMAIN mem' = {} /\ DOMAIN writes' = {}
    BY <1>0
<1>4. OffInv' /\ JournalInv' /\ LeftInv'
    BY <1>0, <1>3 DEF OffInv, JournalInv, Distinct, LeftInv
<1>5. FinalWriteInv' /\ AcceptWriteInv' /\ MemInv' /\ ClaimInv'
    BY <1>0, <1>3 DEF FinalWriteInv, AcceptWriteInv, MemInv, ClaimInv
<1>6. QueueInv'
    BY <1>2 DEF QueueInv
<1>7. CallInv'
    BY <1>0 DEF CallInv
<1>8. RunInv'
  <2> SUFFICES ASSUME NEW u \in Ids, NEW k \in Kinds
               PROVE  runs[u][k] + One(Waits(u, k)') + One(k = "deferred" /\ Claimable(u)')
                          <= drops[u] + One(Has(disk, u))
      BY <1>0 DEF RunInv, Has
  <2>1. /\ runs[u][k] + One(Waits(u, k)) + One(k = "deferred" /\ Claimable(u))
              <= drops[u] + One(Has(disk, u))
        /\ runs[u][k] \in Nat /\ drops[u] \in Nat
      BY DEF RunInv, TypeOK
  <2>2. ~Waits(u, k)' /\ ~Claimable(u)'
      BY <1>0, <1>2 DEF Claimable
  <2> QED BY <2>1, <2>2 DEF One
<1>9. ToldInv'
  <2> SUFFICES ASSUME NEW u \in Ids, told[u] # None, drops[u] = 0, u \notin unsaved'
               PROVE  StateOf(disk, u) = told[u]
      BY <1>0 DEF ToldInv, Known, StateOf, Has, RecordOf
  <2>1. StateOf(mem, u) = told[u] /\ told[u] \in Finals
      BY <1>0 DEF ToldInv, Known, TypeOK
  <2> QED BY <1>0, <2>1
<1> QED BY <1>1, <1>2, <1>4, <1>5, <1>6, <1>7, <1>8, <1>9

\* The next supervisor: what was accepted is interrupted, and no record is lost.
LEMMA BootKeeps == ASSUME IInv, Boot PROVE IInv'
<1> USE DEF IInv
<1> DEFINE new == Keep(Interrupt(disk))
<1>0. /\ phase = "off" /\ phase' = "up" /\ mem' = new /\ disk' = new
      /\ UNCHANGED <<writes, inflight, queue, stage, claimed, calls, runs, drops, told, unsaved, accepts, faults>>
      /\ writes = <<>> /\ inflight = NoFlight /\ queue = Empty /\ stage = Idle
      /\ claimed = {} /\ calls = [id \in Ids |-> 0]
    BY DEF Boot, ghosts, OffInv
<1>d. disk \in Seq(Records) /\ Len(disk) <= MaxOps /\ Distinct(disk)
    BY DEF TypeOK, JournalInv
<1>1. /\ new \in Seq(Records) /\ Len(new) = Len(disk) /\ Distinct(new) /\ DOMAIN new = DOMAIN disk
      /\ \A i \in DOMAIN disk :
             /\ new[i].id = disk[i].id
             /\ new[i].state = IF disk[i].state = "accepted" THEN "interrupted" ELSE disk[i].state
  <2>1. /\ new \in Seq(Records) /\ Len(new) = Len(disk) /\ Distinct(new)
        /\ \A i \in DOMAIN disk :
             /\ new[i].id = disk[i].id
             /\ new[i].state = IF disk[i].state = "accepted" THEN "interrupted" ELSE disk[i].state
      BY <1>d, JournalInterrupts
  <2>2. DOMAIN new = DOMAIN disk
      BY <1>d, <2>1, LenProperties
  <2> QED BY <2>1, <2>2
<1> HIDE DEF new
<1>2. /\ \A u : Has(new, u) <=> Has(disk, u)
      /\ \A u : StateOf(new, u) # "accepted"
      /\ \A u : StateOf(disk, u) \in Finals => StateOf(new, u) = StateOf(disk, u)
  <2>1. \A u : Has(new, u) <=> Has(disk, u)
      BY <1>1 DEF Has
  <2>2. /\ \A i \in DOMAIN disk : StateOf(disk, disk[i].id) = disk[i].state
        /\ \A i \in DOMAIN new : StateOf(new, new[i].id) = new[i].state
        /\ \A u : ~Has(disk, u) => StateOf(disk, u) = None
        /\ \A u : ~Has(new, u) => StateOf(new, u) = None
      BY <1>1, <1>d, JournalReads
  <2>3. ASSUME NEW u PROVE /\ StateOf(new, u) # "accepted"
                           /\ StateOf(disk, u) \in Finals => StateOf(new, u) = StateOf(disk, u)
    <3>1. CASE Has(disk, u)
      <4>1. PICK i \in DOMAIN disk : disk[i].id = u
          BY <3>1 DEF Has
      <4>2. StateOf(disk, u) = disk[i].state /\ StateOf(new, u) = new[i].state
          BY <1>1, <2>2, <4>1
      <4> QED BY <1>1, <4>1, <4>2 DEF Finals
    <3>2. CASE ~Has(disk, u)
        BY <2>1, <2>2, <3>2 DEF None, Finals
    <3> QED BY <3>1, <3>2
  <2> QED BY <2>1, <2>3
<1>3. TypeOK'
    BY <1>0, <1>1, <1>d DEF TypeOK
<1>4. /\ \A t \in Targets : queue[t] = <<>> /\ DOMAIN queue[t] = {}
      /\ \A id \in Ids, kind \in Kinds : ~Queued(id, kind) /\ ~Waits(id, kind)
    BY <1>0, EmptyQueues
<1>5. OffInv' /\ JournalInv' /\ StageInv' /\ ClaimInv' /\ CallInv' /\ LeftInv'
    BY <1>0, <1>1 DEF OffInv, JournalInv, StageInv, ClaimInv, CallInv, LeftInv
<1>6. FinalWriteInv' /\ AcceptWriteInv'
    BY <1>0 DEF FinalWriteInv, AcceptWriteInv
<1>7. QueueInv'
    BY <1>0, <1>4 DEF QueueInv
<1>8. MemInv'
  <2>1. \A i \in DOMAIN new : new[i].state # "accepted"
      BY <1>1
  <2> QED BY <1>0, <2>1 DEF MemInv
<1>9. RunInv'
  <2> SUFFICES ASSUME NEW u \in Ids, NEW k \in Kinds
               PROVE  runs[u][k] + One(Waits(u, k)') + One(k = "deferred" /\ Claimable(u)')
                          <= drops[u] + One(Has(new, u))
      BY <1>0 DEF RunInv, Has
  <2>1. /\ runs[u][k] + One(Waits(u, k)) + One(k = "deferred" /\ Claimable(u))
              <= drops[u] + One(Has(disk, u))
        /\ runs[u][k] \in Nat /\ drops[u] \in Nat
      BY DEF RunInv, TypeOK
  <2>2. ~Claimable(u)'
    <3>1. Claimable(u)' => StateOf(new, u) = "accepted"
        BY <1>0 DEF Claimable
    <3> QED BY <1>2, <3>1
  <2>3. ~Waits(u, k)'
      BY <1>0, <1>4 DEF Waits
  <2>4. Has(disk, u) => Has(new, u)
      BY <1>2
  <2> QED BY <2>1, <2>2, <2>3, <2>4 DEF One
<1>10. ToldInv'
  <2> SUFFICES ASSUME NEW u \in Ids, told[u] # None, drops[u] = 0, u \notin unsaved
               PROVE  StateOf(new, u) = told[u]
      BY <1>0 DEF ToldInv, Known, StateOf, Has, RecordOf
  <2>1. StateOf(disk, u) = told[u] /\ told[u] \in Finals
      BY <1>0 DEF ToldInv, Known, TypeOK
  <2> QED BY <1>2, <2>1
<1> QED BY <1>3, <1>5, <1>6, <1>7, <1>8, <1>9, <1>10

-----------------------------------------------------------------------------
(* The theorems. *)

\* No supervisor runs and the state file is empty.
LEMMA InitOK == ASSUME Init PROVE IInv
<1> USE DEF Init
<1>1. TypeOK
  <2>1. inflight \in [Ids -> Kinds \cup {None}] /\ told \in [Ids -> Finals \cup {None}]
        /\ calls \in [Ids -> 0..MaxCommits] /\ drops \in [Ids -> Nat]
      BY SupervisorAssumption DEF NoFlight
  <2>2. queue \in [Targets -> Seq(Entries)] /\ stage \in [Targets -> {"idle", "executing", "recording"}]
      BY DEF Empty, Idle
  <2>3. runs \in [Ids -> [Kinds -> Nat]]
      OBVIOUS
  <2>4. mem \in Seq(Records) /\ Len(mem) <= MaxOps /\ writes \in Seq(Records)
        /\ disk \in Seq(Records) /\ Len(disk) <= MaxOps
      BY SupervisorAssumption
  <2> QED BY <2>1, <2>2, <2>3, <2>4, SupervisorAssumption DEF TypeOK
<1>2. /\ \A t \in Targets : DOMAIN queue[t] = {}
      /\ StageInv
      /\ \A id \in Ids, kind \in Kinds : ~Queued(id, kind) /\ ~Waits(id, kind)
    BY EmptyQueues
<1>3. OffInv /\ JournalInv /\ FinalWriteInv /\ AcceptWriteInv /\ ClaimInv /\ MemInv /\ CallInv /\ LeftInv
    BY DEF OffInv, JournalInv, Distinct, FinalWriteInv, AcceptWriteInv, ClaimInv, MemInv, CallInv, LeftInv
<1>4. QueueInv
    BY <1>2 DEF QueueInv
<1>5. RunInv
  <2> SUFFICES ASSUME NEW u \in Ids, NEW k \in Kinds
               PROVE  runs[u][k] + One(Waits(u, k)) + One(k = "deferred" /\ Claimable(u))
                          <= drops[u] + One(Has(disk, u))
      BY DEF RunInv
  <2>1. ~Waits(u, k) /\ ~Claimable(u) /\ ~Has(disk, u)
      BY <1>2 DEF Claimable, Has
  <2> QED BY <2>1 DEF One
<1>6. ToldInv
    BY DEF ToldInv, NoFlight
<1> QED BY <1>1, <1>2, <1>3, <1>4, <1>5, <1>6 DEF IInv

\* Every step of the supervisor keeps the inductive invariant.
LEMMA StepKeeps == ASSUME IInv, [Next]_vars PROVE IInv'
<1>1. CASE Boot
    BY <1>1, BootKeeps
<1>2. CASE Write
  <2>1. CASE Head(writes).state = "accepted"
      BY <1>2, <2>1, AcceptWrittenKeeps, AcceptFailsKeeps DEF Write
  <2>2. CASE Head(writes).state # "accepted"
      BY <1>2, <2>2, CompletionKeeps DEF Write
  <2> QED BY <2>1, <2>2
<1>3. CASE StatusWrite
    BY <1>3, StatusWriteKeeps
<1>4. CASE Close \/ Release \/ DrainTimeout
    BY <1>4, PhaseKeeps
<1>5. CASE Exit \/ Crash
  <2>1. phase # "off" /\ Gone
      BY <1>5 DEF Exit, Crash
  <2>2. faults' \in 0..MaxFaults
    <3>1. faults \in 0..MaxFaults /\ MaxFaults \in Nat
        BY SupervisorAssumption DEF IInv, TypeOK
    <3>2. faults' = faults \/ (faults < MaxFaults /\ faults' = faults + 1)
        BY <1>5 DEF Exit, Crash
    <3> QED BY <3>1, <3>2
  <2> QED BY <2>1, <2>2, GoneKeeps
<1>6. ASSUME NEW id \in Ids, NEW kind \in Asked, Retry(id, kind) \/ Request(id, kind) PROVE IInv'
    BY <1>6, RetryKeeps, RequestKeeps
<1>7. ASSUME NEW id \in Ids, Commit(id) \/ Callback(id) PROVE IInv'
    BY <1>7, CommitKeeps, CallbackKeeps
<1>8. ASSUME NEW t \in Targets, Begin(t) \/ ExecutionEnds(t) PROVE IInv'
    BY <1>8, BeginKeeps, ExecutionEndsKeeps
<1>9. CASE UNCHANGED vars
    BY <1>9, StutterKeeps
<1> QED BY <1>1, <1>2, <1>3, <1>4, <1>5, <1>6, <1>7, <1>8, <1>9 DEF Next

\* The invariant of the supervisor, in every reachable state.
THEOREM InductiveInvariant == Spec => []IInv
<1>1. Init => IInv
    BY InitOK
<1>2. IInv /\ [Next]_vars => IInv'
    BY StepKeeps
<1> QED BY <1>1, <1>2, PTL DEF Spec

\* Every variable of the supervisor holds a value of its type, and neither the
\* journal nor the state file grows beyond maxOperations records.
THEOREM TypesHold == Spec => []TypeOK
<1>1. IInv => TypeOK
    BY DEF IInv
<1> QED BY <1>1, InductiveInvariant, PTL

\* Retries, repeated commits, failed writes, crashes and restarts execute no
\* operation a second time while its record is kept.
THEOREM ExecutesOnce == Spec => []ExecutedOnce
<1>1. ASSUME IInv PROVE ExecutedOnce
  <2> SUFFICES ASSUME NEW id \in Ids, NEW kind \in Kinds PROVE runs[id][kind] <= 1 + drops[id]
      BY DEF ExecutedOnce
  <2>1. /\ runs[id][kind] + One(Waits(id, kind)) + One(kind = "deferred" /\ Claimable(id))
              <= drops[id] + One(Has(disk, id))
        /\ runs[id][kind] \in Nat /\ drops[id] \in Nat
      BY <1>1 DEF IInv, RunInv, TypeOK
  <2> QED BY <2>1 DEF One
<1>2. IInv => ExecutedOnce
    BY <1>1
<1> QED BY <1>2, InductiveInvariant, PTL

\* What is in a queue is in the state file, and it is there once.
THEOREM WritesAhead == Spec => []WrittenAhead
<1>1. ASSUME IInv PROVE WrittenAhead
  <2> SUFFICES ASSUME NEW t \in Targets, NEW i \in DOMAIN queue[t]
               PROVE  /\ drops[queue[t][i].id] = 0 => Has(disk, queue[t][i].id)
                      /\ \A j \in DOMAIN queue[t] : queue[t][i] = queue[t][j] => i = j
      BY DEF WrittenAhead
  <2>1. /\ drops[queue[t][i].id] > 0 \/ Holds(mem, queue[t][i].id, queue[t][i].kind, "accepted")
        /\ \A j \in DOMAIN queue[t] : queue[t][i] = queue[t][j] => i = j
      BY <1>1 DEF IInv, QueueInv
  <2>2. phase # "off"
      BY <1>1 DEF IInv, OffInv, Empty
  <2> QED BY <1>1, <2>1, <2>2, SameRecords
<1>2. IInv => WrittenAhead
    BY <1>1
<1> QED BY <1>2, InductiveInvariant, PTL

\* The supervisor that gave up its endpoint has nothing left that could run.
THEOREM QuietWhenReleased == Spec => []QuietAfterRelease
<1>1. ASSUME IInv PROVE QuietAfterRelease
  <2> SUFFICES ASSUME phase = "leaving"
               PROVE  /\ Drained /\ claimed = {} /\ writes = <<>>
                      /\ \A i \in DOMAIN mem : mem[i].state = "accepted" => mem[i].kind = "deferred"
      BY DEF QuietAfterRelease
  <2> USE <1>1 DEF IInv
  <2>1. Drained /\ inflight = NoFlight /\ queue = Empty
      BY DEF LeftInv, Drained
  <2>2. \A t \in Targets : queue[t] = <<>> /\ DOMAIN queue[t] = {}
      BY <2>1 DEF Empty
  <2>3. claimed = {}
    <3>1. ASSUME NEW id \in claimed PROVE FALSE
      <4>1. Target("deferred") \in Targets
          BY TargetTypes DEF Kinds
      <4> QED BY <2>2, <4>1 DEF ClaimInv, Queued
    <3> QED BY <3>1
  <2>4. \A kind \in Kinds : kind # None
      BY DEF Kinds, None
  <2>5. ASSUME NEW i \in DOMAIN writes PROVE FALSE
    <3>1. writes[i] \in Records
        BY DEF TypeOK
    <3>2. writes[i].id \in Ids /\ writes[i].kind \in Kinds /\ Target(writes[i].kind) \in Targets
        BY <3>1, TargetTypes DEF Records
    <3>3. CASE writes[i].state = "accepted"
        BY <2>1, <2>4, <3>2, <3>3 DEF AcceptWriteInv, NoFlight
    <3>4. CASE writes[i].state # "accepted"
        BY <2>2, <3>2, <3>4 DEF FinalWriteInv
    <3> QED BY <3>3, <3>4
  <2>6. writes = <<>>
    <3>1. writes \in Seq(Records)
        BY DEF TypeOK
    <3>2. writes # <<>> => 1 \in DOMAIN writes
        BY <3>1
    <3> QED BY <2>5, <3>2
  <2>7. ASSUME NEW i \in DOMAIN mem, mem[i].state = "accepted", mem[i].kind # "deferred" PROVE FALSE
    <3>1. mem[i] \in Records
        BY DEF TypeOK
    <3>2. mem[i].id \in Ids /\ mem[i].kind \in Kinds
        BY <3>1 DEF Records
    <3> QED BY <2>1, <2>4, <2>7, <3>2 DEF MemInv, NoFlight
  <2> QED BY <2>1, <2>3, <2>6, <2>7
<1>2. IInv => QuietAfterRelease
    BY <1>1
<1> QED BY <1>2, InductiveInvariant, PTL

\* Every answer about how an operation ended agrees with the one before, as long
\* as its record is kept and was saved.
THEOREM AnswersStay == Spec => AnswersAgree
<1>1. ASSUME IInv, [Next]_vars, NEW id \in Ids,
             told[id] # None, told'[id] # told[id], ~(drops[id] > 0), id \notin unsaved
      PROVE  FALSE
  <2> USE DEF IInv
  <2>1. drops[id] = 0 /\ told \in [Ids -> Finals \cup {None}]
      BY <1>1 DEF TypeOK
  <2>2. StateOf(Known, id) = told[id]
      BY <1>1, <2>1 DEF ToldInv
  <2>3. \A u \in Ids : \A answer : Tell(u, answer) => told'[id] = told[id] \/ (u = id /\ told'[id] = answer)
      BY <2>1 DEF Tell
  <2>4. CASE \E u \in Ids, kind \in Asked : Retry(u, kind)
      BY <1>1, <2>2, <2>3, <2>4 DEF Retry, Tell, Known, Finals, None
  <2>5. CASE \E u \in Ids : Commit(u)
      BY <1>1, <2>2, <2>3, <2>5 DEF Commit, Known
  <2>6. CASE Write /\ Head(writes).state = "accepted"
      BY <1>1, <2>6 DEF Write, AcceptWritten, AcceptFails, ghosts
  <2>7. CASE Write /\ Head(writes).state # "accepted"
    <3> DEFINE w == Head(writes)  t == Target(w.kind)  e == [id |-> w.id, kind |-> w.kind]
    <3>1. /\ writes # <<>> /\ writes' = Tail(writes) /\ Leaves(e, w.state)
        BY <2>7 DEF Write, Completion
    <3>2. /\ 1 \in DOMAIN writes /\ w = writes[1] /\ w.id \in Ids /\ w.kind \in Kinds /\ phase # "off"
        BY <1>1, <3>1, WriteTaken
    <3>3. queue[t] # <<>> /\ Head(queue[t]) = e /\ t \in Targets
        BY <1>1, <2>7, <3>2, TargetTypes DEF FinalWriteInv
    <3>4. w.id = id
        BY <1>1, <2>3, <3>1, <3>2 DEF Leaves
    <3>a. Leaves(Head(queue[t]), w.state) /\ Head(queue[t]).id = id /\ Head(queue[t]).kind = w.kind
        BY <3>1, <3>3, <3>4
    <3>b. drops[Head(queue[t]).id] > 0 \/ Holds(mem, Head(queue[t]).id, Head(queue[t]).kind, "accepted")
      <4> HIDE DEF t, w, e, IInv
      <4> QED BY <1>1, <3>a, <3>3, LeavesKeeps
    <3>5. Holds(mem, id, w.kind, "accepted")
        BY <2>1, <3>a, <3>b
    <3>6. StateOf(mem, id) = "accepted"
        BY <1>1, <3>5, JournalReads DEF Holds, TypeOK, JournalInv
    <3> QED BY <1>1, <2>1, <2>2, <3>2, <3>6 DEF Known, Finals, None
  <2>8. CASE \E t \in Targets : Begin(t)
      BY <1>1, <2>8 DEF Begin, Leaves
  <2>9. CASE told' = told
      BY <1>1, <2>9
  <2>10. Boot \/ StatusWrite \/ Close \/ Release \/ DrainTimeout \/ Exit \/ Crash \/ UNCHANGED vars
         => told' = told
      BY DEF Boot, StatusWrite, Close, Release, DrainTimeout, Exit, Crash, Gone, vars, ghosts
  <2>11. /\ \A u \in Ids, kind \in Asked : Request(u, kind) => told' = told
         /\ \A u \in Ids : Callback(u) => told' = told
         /\ \A t \in Targets : ExecutionEnds(t) => told' = told
      BY DEF Request, Callback, ExecutionEnds, ghosts
  <2> QED BY <1>1, <2>4, <2>5, <2>6, <2>7, <2>8, <2>9, <2>10, <2>11 DEF Next
<1>2. IInv /\ [Next]_vars =>
          [\A id \in Ids : told[id] # None /\ told'[id] # told[id] => drops[id] > 0 \/ id \in unsaved]_vars
    BY <1>1
<1> QED BY <1>2, InductiveInvariant, PTL DEF Spec, AnswersAgree

=============================================================================
