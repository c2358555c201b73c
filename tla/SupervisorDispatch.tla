------------------------- MODULE SupervisorDispatch -------------------------
(***************************************************************************)
(* The dispatch of the local-control supervisor (local-control/            *)
(* supervisor.ts), its journal of operations (state-store.ts), its queue   *)
(* per target (target-queue.ts) and the callback after a reply (server.ts).*)
(*                                                                         *)
(* A client names its operation by an id and may send it again: while it   *)
(* runs, after its answer was lost, after the supervisor was replaced.  An *)
(* operation is accepted in the journal before it runs; an "execute"       *)
(* operation runs at once, a "prepare" (a stop or restart of the backend   *)
(* itself) only after the reply to a later "commit" has been written.      *)
(*                                                                         *)
(* What is left out: status requests (they change nothing here), the       *)
(* refusal during a daily run and the wait for the catalog (module         *)
(* UpdateExclusion), what an operation does (modules BackendController and *)
(* ProcessManager) and the text of an answer.                              *)
(***************************************************************************)
EXTENDS Integers, Sequences

CONSTANTS
    Ids,          \* operation ids clients use
    Asked,        \* the kinds of operation clients ask for
    MaxOps,       \* records the journal keeps (maxOperations, 100)
    MaxAccepts,   \* bound: operations that are accepted
    MaxCommits,   \* bound: commits whose callback is outstanding, per operation
    MaxFaults     \* bound: crashes and failed writes

ASSUME SupervisorAssumption ==
    /\ MaxOps \in Nat \ {0}
    /\ Asked \subseteq {"service", "excubitor", "deferred"}
    /\ MaxAccepts \in Nat /\ MaxCommits \in Nat /\ MaxFaults \in Nat

None == "none"

\* What an id stands for: its target and dispatch mode.
Kinds == {"service", "excubitor", "deferred"}
Targets == {"service", "excubitor"}
Target(kind) == IF kind = "service" THEN "service" ELSE "excubitor"

Finals == {"completed", "failed", "interrupted"}
Records == [id : Ids, kind : Kinds, state : Finals \union {"accepted"}]
Entries == [id : Ids, kind : Kinds]

VARIABLES
    phase,      \* "off", "up", "closing", "held" or "leaving"
    mem,        \* state.operations in its memory
    writes,     \* updates that wait for writeTail
    inflight,   \* the inflight map: id -> kind
    queue,      \* operations of target-queue.ts, the head is the one that runs
    stage,      \* of the head: "idle", "executing" or "recording"
    claimed,    \* committedDeferredOperations
    calls,      \* afterReply callbacks that have not run yet
    disk,       \* the operations in the state file
    runs,       \* ghost: executions begun, per id and kind
    drops,      \* ghost: times the record of an id was evicted
    told,       \* ghost: the last final answer a client got, per id
    unsaved,    \* ghost: ids whose final answer was lost with the memory
    accepts,    \* bound: operations accepted so far
    faults      \* bound: faults so far

proc == <<phase, mem, writes, inflight, queue, stage, claimed, calls>>
ghosts == <<runs, drops, told, unsaved>>
vars == <<proc, disk, ghosts, accepts, faults>>

-----------------------------------------------------------------------------
(* The journal. *)

Has(ops, id) == \E i \in DOMAIN ops : ops[i].id = id
RecordOf(ops, id) == ops[CHOOSE i \in DOMAIN ops : ops[i].id = id]
StateOf(ops, id) == IF Has(ops, id) THEN RecordOf(ops, id).state ELSE None

\* slice(-maxOperations)
Newest(ops) == SubSeq(ops, Len(ops) - MaxOps + 1, Len(ops))
\* Mutant: The store forgets to cut its history.
KeepAll(ops) == ops

Keep(ops) == IF Len(ops) > MaxOps THEN Newest(ops) ELSE ops

WithAccepted(ops, id, kind) ==
    LET record == [id |-> id, kind |-> kind, state |-> "accepted"]
    IN  IF Has(ops, id)
        THEN [i \in DOMAIN ops |-> IF ops[i].id = id THEN record ELSE ops[i]]
        ELSE Append(ops, record)

WithState(ops, id, state) ==
    [i \in DOMAIN ops |-> IF ops[i].id = id THEN [ops[i] EXCEPT !.state = state] ELSE ops[i]]

\* Mutant: A new supervisor interrupts every record, finished or not.
InterruptAll(ops) == [i \in DOMAIN ops |-> [ops[i] EXCEPT !.state = "interrupted"]]

\* Mutant: A new supervisor takes the records as they are.
InterruptNone(ops) == ops

\* initialize(): what the last supervisor accepted and did not finish.
Interrupt(ops) ==
    [i \in DOMAIN ops |-> IF ops[i].state = "accepted"
                          THEN [ops[i] EXCEPT !.state = "interrupted"] ELSE ops[i]]

-----------------------------------------------------------------------------
(* One supervisor. *)

NoFlight == [id \in Ids |-> None]
Idle == [t \in Targets |-> "idle"]
Empty == [t \in Targets |-> <<>>]

Tell(id, answer) == told' = IF answer \in Finals THEN [told EXCEPT ![id] = answer] ELSE told

Init ==
    /\ phase = "off"
    /\ mem = <<>>
    /\ writes = <<>>
    /\ inflight = NoFlight
    /\ queue = Empty
    /\ stage = Idle
    /\ claimed = {}
    /\ calls = [id \in Ids |-> 0]
    /\ disk = <<>>
    /\ runs = [id \in Ids |-> [kind \in Kinds |-> 0]]
    /\ drops = [id \in Ids |-> 0]
    /\ told = NoFlight
    /\ unsaved = {}
    /\ accepts = 0
    /\ faults = 0

\* The endpoint is free: this process listens on it and reads the journal.
Boot ==
    /\ phase = "off"
    /\ phase' = "up"
    /\ mem' = Keep(Interrupt(disk))
    /\ disk' = Keep(Interrupt(disk))
    /\ UNCHANGED <<writes, inflight, queue, stage, claimed, calls, ghosts, accepts, faults>>

\* A request that is known: answered from the journal, refused when the id is
\* another operation's, or joined to the promise of the one in flight.
Retry(id, kind) ==
    /\ phase = "up"
    /\ Has(mem, id)
    /\ Tell(id, IF RecordOf(mem, id).kind = kind THEN StateOf(mem, id) ELSE None)
    /\ UNCHANGED <<proc, disk, runs, drops, unsaved, accepts, faults>>

\* A request that is new: beginDispatch up to the wait for recordAccepted.
Request(id, kind) ==
    /\ phase = "up"
    /\ ~Has(mem, id)
    /\ inflight[id] = None
    /\ accepts < MaxAccepts
    /\ accepts' = accepts + 1
    /\ inflight' = [inflight EXCEPT ![id] = kind]
    /\ writes' = Append(writes, [id |-> id, kind |-> kind, state |-> "accepted"])
    /\ UNCHANGED <<phase, mem, queue, stage, claimed, calls, disk, ghosts, faults>>

\* commitDeferred: the reply is written and its callback will follow.
Commit(id) ==
    /\ phase = "up"
    /\ Has(mem, id)
    /\ RecordOf(mem, id).kind = "deferred"
    /\ Tell(id, StateOf(mem, id))
    /\ IF StateOf(mem, id) = "accepted"
       THEN calls[id] < MaxCommits /\ calls' = [calls EXCEPT ![id] = @ + 1]
       ELSE UNCHANGED calls
    /\ UNCHANGED <<phase, mem, writes, inflight, queue, stage, claimed, disk,
                   runs, drops, unsaved, accepts, faults>>

\* Mutant: The callback of a commit does not look at the claims.
CallbackUnclaimed(id) ==
    /\ calls[id] > 0
    /\ calls' = [calls EXCEPT ![id] = @ - 1]
    /\ IF phase = "up" /\ StateOf(mem, id) = "accepted"
       THEN /\ claimed' = claimed \union {id}
            /\ queue' = [queue EXCEPT !["excubitor"] =
                             Append(@, [id |-> id, kind |-> "deferred"])]
       ELSE UNCHANGED <<claimed, queue>>
    /\ UNCHANGED <<phase, mem, writes, inflight, stage, disk, ghosts, accepts, faults>>

\* afterReply of deferredExecutionDispatch.
Callback(id) ==
    /\ calls[id] > 0
    /\ calls' = [calls EXCEPT ![id] = @ - 1]
    /\ IF phase = "up" /\ id \notin claimed /\ StateOf(mem, id) = "accepted"
       THEN /\ claimed' = claimed \union {id}
            /\ queue' = [queue EXCEPT !["excubitor"] =
                             Append(@, [id |-> id, kind |-> "deferred"])]
       ELSE UNCHANGED <<claimed, queue>>
    /\ UNCHANGED <<phase, mem, writes, inflight, stage, disk, ghosts, accepts, faults>>

-----------------------------------------------------------------------------
(* The store: one update at a time, in the order they were asked for. *)

Dropped(ops) == {id \in Ids : Has(mem, id) /\ ~Has(ops, id)}
Forget(ops) == drops' = [id \in Ids |-> IF id \in Dropped(ops) THEN drops[id] + 1 ELSE drops[id]]

\* recordAccepted was written: a prepared operation waits for its commit, any
\* other one joins its target's queue.
AcceptWritten ==
    LET w == Head(writes)
        ops == Keep(WithAccepted(mem, w.id, w.kind))
    IN  /\ mem' = ops
        /\ disk' = ops
        /\ Forget(ops)
        /\ IF w.kind = "deferred"
           THEN /\ inflight' = [inflight EXCEPT ![w.id] = None]
                /\ UNCHANGED queue
           ELSE /\ queue' = [queue EXCEPT ![Target(w.kind)] =
                                 Append(@, [id |-> w.id, kind |-> w.kind])]
                /\ UNCHANGED inflight
        /\ UNCHANGED <<stage, claimed, runs, told, unsaved, faults>>

\* Mutant: A failed acceptance is logged and the operation runs all the same.
AcceptFailsOpen ==
    LET w == Head(writes)
    IN  /\ faults < MaxFaults
        /\ faults' = faults + 1
        /\ mem' = Keep(WithAccepted(mem, w.id, w.kind))
        /\ Forget(Keep(WithAccepted(mem, w.id, w.kind)))
        /\ queue' = [queue EXCEPT ![Target(w.kind)] = Append(@, [id |-> w.id, kind |-> w.kind])]
        /\ UNCHANGED <<disk, inflight, stage, claimed, runs, told, unsaved>>

\* recordAccepted failed: the acceptance is rolled back.
AcceptFails ==
    /\ faults < MaxFaults
    /\ faults' = faults + 1
    /\ inflight' = [inflight EXCEPT ![Head(writes).id] = None]
    /\ UNCHANGED <<mem, disk, queue, stage, claimed, ghosts>>

\* The operation that runs leaves its queue, and its promise settles.
Leaves(e, answer) ==
    /\ queue' = [queue EXCEPT ![Target(e.kind)] = Tail(@)]
    /\ stage' = [stage EXCEPT ![Target(e.kind)] = "idle"]
    /\ IF e.kind = "deferred"
       THEN /\ claimed' = claimed \ {e.id}
            /\ UNCHANGED <<inflight, told>>
       ELSE /\ inflight' = [inflight EXCEPT ![e.id] = None]
            /\ Tell(e.id, answer)
            /\ UNCHANGED claimed

\* recordCompleted: the memory keeps the result whether or not the write
\* succeeds; a record that was evicted meanwhile is not made again.
Completion ==
    LET w == Head(writes)
        ops == WithState(mem, w.id, w.state)
    IN  /\ Leaves([id |-> w.id, kind |-> w.kind], w.state)
        /\ mem' = ops
        /\ \/ /\ disk' = IF Has(mem, w.id) THEN ops ELSE disk
              /\ UNCHANGED faults
           \/ /\ faults < MaxFaults
              /\ faults' = faults + 1
              /\ UNCHANGED disk
        /\ UNCHANGED <<runs, drops, unsaved>>

Write ==
    /\ writes # <<>>
    /\ writes' = Tail(writes)
    /\ IF Head(writes).state = "accepted"
       THEN AcceptWritten \/ AcceptFails
       ELSE Completion
    /\ UNCHANGED <<phase, calls, accepts>>

\* recordExcubitor: a change of the backend's status writes the whole state.
StatusWrite ==
    /\ phase # "off"
    /\ disk # mem
    /\ disk' = mem
    /\ UNCHANGED <<proc, ghosts, accepts, faults>>

-----------------------------------------------------------------------------
(* The queue of a target. *)

\* A committed operation that reaches the head during a close does not run.
Begin(t) ==
    LET e == Head(queue[t])
    IN  /\ queue[t] # <<>> /\ stage[t] = "idle"
        /\ IF e.kind = "deferred" /\ phase # "up"
           THEN /\ Leaves(e, None)
                /\ UNCHANGED runs
           ELSE /\ stage' = [stage EXCEPT ![t] = "executing"]
                /\ runs' = [runs EXCEPT ![e.id][e.kind] = @ + 1]
                /\ UNCHANGED <<queue, claimed, inflight, told>>
        /\ UNCHANGED <<phase, mem, writes, calls, disk, drops, unsaved, accepts, faults>>

ExecutionEnds(t) ==
    LET e == Head(queue[t])
    IN  /\ stage[t] = "executing"
        /\ stage' = [stage EXCEPT ![t] = "recording"]
        /\ \E result \in {"completed", "failed"} :
               writes' = Append(writes, [id |-> e.id, kind |-> e.kind, state |-> result])
        /\ UNCHANGED <<phase, mem, inflight, queue, claimed, calls, disk, ghosts, accepts, faults>>

-----------------------------------------------------------------------------
(* The end of a supervisor. *)

Close ==
    /\ phase = "up"
    /\ phase' = "closing"
    /\ UNCHANGED <<mem, writes, inflight, queue, stage, claimed, calls, disk, ghosts, accepts, faults>>

\* Mutant: The close waits for the queues and not for the dispatches that have not
\* reached them.
DrainedQueues == queue = Empty

\* drainOperations: every dispatch has answered and every queue is empty.
Drained == inflight = NoFlight /\ queue = Empty

\* The endpoint and the database are given up.
Release ==
    /\ phase = "closing" /\ Drained
    /\ phase' = "leaving"
    /\ UNCHANGED <<mem, writes, inflight, queue, stage, claimed, calls, disk, ghosts, accepts, faults>>

\* The drain takes too long: close fails and everything stays held.
DrainTimeout ==
    /\ phase = "closing" /\ ~Drained
    /\ phase' = "held"
    /\ UNCHANGED <<mem, writes, inflight, queue, stage, claimed, calls, disk, ghosts, accepts, faults>>

Gone ==
    /\ phase' = "off"
    /\ mem' = <<>>
    /\ writes' = <<>>
    /\ inflight' = NoFlight
    /\ queue' = Empty
    /\ stage' = Idle
    /\ claimed' = {}
    /\ calls' = [id \in Ids |-> 0]
    /\ unsaved' = unsaved \union {id \in Ids : StateOf(mem, id) \in Finals
                                               /\ StateOf(disk, id) # StateOf(mem, id)}
    /\ UNCHANGED <<disk, runs, drops, told, accepts>>

Exit == phase = "leaving" /\ Gone /\ UNCHANGED faults

\* A kill, by a fault or by the service manager after a failed close.
Crash ==
    /\ phase # "off"
    /\ \/ phase = "held" /\ UNCHANGED faults
       \/ faults < MaxFaults /\ faults' = faults + 1
    /\ Gone

Next ==
    \/ Boot \/ Write \/ StatusWrite
    \/ Close \/ Release \/ DrainTimeout \/ Exit \/ Crash
    \/ \E id \in Ids, kind \in Asked : Retry(id, kind) \/ Request(id, kind)
    \/ \E id \in Ids : Commit(id) \/ Callback(id)
    \/ \E t \in Targets : Begin(t) \/ ExecutionEnds(t)

Spec == Init /\ [][Next]_vars

\* Promises settle, an operation ends, the close goes on and the service
\* manager starts the supervisor again and kills one that failed to close.
Fairness ==
    /\ WF_vars(Boot) /\ WF_vars(Write) /\ WF_vars(Release) /\ WF_vars(Exit)
    /\ WF_vars(phase = "held" /\ Crash)
    /\ \A id \in Ids : WF_vars(Callback(id))
    /\ \A t \in Targets : WF_vars(Begin(t)) /\ WF_vars(ExecutionEnds(t))

FairSpec == Spec /\ Fairness

-----------------------------------------------------------------------------
(* Properties. *)

\* Every variable holds a value of its type, and the journal is never longer
\* than maxOperations.
TypeOK ==
    /\ phase \in {"off", "up", "closing", "held", "leaving"}
    /\ mem \in Seq(Records) /\ Len(mem) <= MaxOps
    /\ writes \in Seq(Records)
    /\ queue \in [Targets -> Seq(Entries)]
    /\ inflight \in [Ids -> Kinds \union {None}]
    /\ stage \in [Targets -> {"idle", "executing", "recording"}]
    /\ claimed \subseteq Ids
    /\ calls \in [Ids -> 0..MaxCommits]
    /\ disk \in Seq(Records) /\ Len(disk) <= MaxOps
    /\ runs \in [Ids -> [Kinds -> Nat]] /\ drops \in [Ids -> Nat]
    /\ told \in [Ids -> Finals \union {None}]
    /\ unsaved \subseteq Ids
    /\ accepts \in 0..MaxAccepts /\ faults \in 0..MaxFaults

\* An operation is executed again only if its record was evicted: retries,
\* repeated commits, failed writes, crashes and restarts execute nothing twice.
ExecutedOnce == \A id \in Ids, kind \in Kinds : runs[id][kind] <= 1 + drops[id]

\* An operation that may have effects is already in the state file, so that
\* the next supervisor answers INTERRUPTED and does not run it afresh; and even
\* when its record was evicted while it ran, it is not queued a second time
\* beside itself: the inflight map and the claims still know it.
WrittenAhead ==
    \A t \in Targets : \A i \in DOMAIN queue[t] :
        /\ drops[queue[t][i].id] = 0 => Has(disk, queue[t][i].id)
        /\ \A j \in DOMAIN queue[t] : queue[t][i] = queue[t][j] => i = j

\* After the endpoint and the database were given up, nothing is left that
\* could run, and every accepted operation but a prepared one has its result.
QuietAfterRelease ==
    phase = "leaving" =>
        /\ Drained /\ claimed = {} /\ writes = <<>>
        /\ \A i \in DOMAIN mem : mem[i].state = "accepted" => mem[i].kind = "deferred"

\* A client that was told how an operation ended is never told otherwise,
\* unless the record was evicted or its write failed before the memory was lost.
AnswersAgree ==
    [][\A id \in Ids : told[id] # None /\ told'[id] # told[id]
                       => drops[id] > 0 \/ id \in unsaved]_vars

\* The journal as the next request sees it.
Journal == IF phase \in {"up", "closing", "held"} THEN mem ELSE disk
Started(id) ==
    \/ Has(Journal, id) /\ RecordOf(Journal, id).kind # "deferred"
    \/ phase = "up" /\ (calls[id] > 0 \/ id \in claimed)

\* An accepted operation that was asked to run gets its result: by its end, or
\* INTERRUPTED by the next supervisor; a prepared one that is not committed
\* waits.  And whatever fails, no id stays in the inflight map, where every
\* retry would join it.
Settles ==
    \A id \in Ids :
        /\ StateOf(Journal, id) = "accepted" /\ Started(id)
           ~> StateOf(Journal, id) # "accepted" \/ ~Started(id)
        /\ inflight[id] # None ~> inflight[id] = None

=============================================================================
