------------------------ MODULE CrashDispatchProofs ------------------------
(***************************************************************************)
(* Proofs about CrashDispatch: a crash has one repair run, whatever fails  *)
(* and whoever retries, and what is known to be delegated stays so, for    *)
(* every number of tasks, edits and faults.                                *)
(*                                                                         *)
(* The argument: every run that exists, and every request that may still   *)
(* start one for a task, is paid for, by the one run allowed, by an        *)
(* overtaken stray or by a row that was read too early (RunInv).  A second *)
(* request is never made beside the first, since the loop is at a row only *)
(* when the dispatch beside its insertion has ended (OwnInv).              *)
(***************************************************************************)
EXTENDS CrashDispatch, TLAPS, FiniteSetTheorems

One(p) == IF p THEN 1 ELSE 0

\* A request that may start a run: about to be sent or on its way, beside the
\* insertion, or by the loop once it was told that there is no run.
Sending(t) == direct[t] \in {"insert", "wait"}
Asking(t) == loop.at = t /\ (loop.pc = "wait" \/ loop.reply = "not_found")
\* The loop has read the row and is not yet through with it.
AtRow(t) == t \in loop.rows \/ loop.at = t

\* Every run, and every request that will start one, is paid for.
RunOK(t) ==
    runs[t] + One(Sending(t)) + One(Asking(t)) <= 1 + overtaken[t] + One(t \in raced)
RunInv == \A t \in Tasks : RunOK(t)
\* The loop works on a row only when the dispatch beside its insertion has ended.
OwnInv == \A t \in Tasks : AtRow(t) /\ direct[t] # "none" => t \in raced
\* A task without a row has no past.
FreshInv ==
    \A t \in Tasks : state[t] = "none" =>
        /\ fix[t] = "null" /\ direct[t] = "none" /\ runs[t] = 0 /\ stray[t] = 0
        /\ ~AtRow(t) /\ t \notin ripe /\ fixer # t
\* A row is not due while the dispatch beside its insertion is under way.
RipeInv == \A t \in Tasks : t \in ripe => direct[t] = "none"
\* A row that is being inserted was never sent.
InsertInv ==
    \A t \in Tasks : direct[t] = "insert" /\ t \notin raced => runs[t] = 0 /\ stray[t] = 0
\* A row that was sent was marked before.
SentInv ==
    /\ \A t \in Tasks : stray[t] > 0 => fix[t] # "null"
    /\ loop.pc \in {"wait", "ok", "error"} => fix[loop.at] # "null"
\* The loop takes a row once in a tick, and asks for a run when it was told there is none.
LoopInv ==
    /\ loop.at \notin loop.rows
    /\ loop.reply = "not_found" => loop.pc = "reply"
\* Nobody is about to write a row that is known to be delegated.
KnownInv ==
    \A t \in Tasks : (AtRow(t) \/ direct[t] # "none") /\ t \notin raced => fix[t] # "delegated"

IInv ==
    /\ TypeOK /\ RunInv /\ OwnInv /\ FreshInv /\ RipeInv /\ InsertInv /\ SentInv /\ LoopInv /\ KnownInv

-----------------------------------------------------------------------------
(* A step that starts no run and makes no request keeps what is paid for.  *)

LEMMA RunKept ==
    ASSUME IInv, raced \subseteq raced', runs' = runs, overtaken' = overtaken,
           \A u \in Tasks : (Sending(u)' => Sending(u)) /\ (Asking(u)' => Asking(u))
    PROVE  RunInv'
<1> SUFFICES ASSUME NEW u \in Tasks PROVE RunOK(u)'
    BY DEF RunInv
<1>1. runs[u] \in Nat /\ overtaken[u] \in Nat /\ RunOK(u)
    BY DEF IInv, TypeOK, RunInv
<1>2. (Sending(u)' => Sending(u)) /\ (Asking(u)' => Asking(u)) /\ (u \in raced => u \in raced')
    OBVIOUS
<1> QED BY <1>1, <1>2 DEF RunOK, One

(* A step of the loop alone, which goes on with the rows it has and asks    *)
(* for a run only when there is none.                                       *)
LEMMA LoopMoves ==
    ASSUME IInv, UNCHANGED <<db, direct, fixer, listed, concordia, raced, edits>>,
           faults' \in 0..MaxFaults,
           loop' \in [pc : {"idle", "next", "ask", "reply"}, rows : SUBSET loop.rows,
                      at : Tasks \cup {None}, reply : {"none", "found", "not_found", "unavailable"}],
           loop'.at # None <=> loop'.pc \notin {"idle", "next"},
           loop'.at # None => AtRow(loop'.at),
           loop'.at \notin loop'.rows,
           loop'.reply = "not_found" => loop'.pc = "reply" /\ runs[loop'.at] = 0
    PROVE  IInv'
<1> USE DEF db, concordia
<1>1. TypeOK'
    BY DEF IInv, TypeOK
<1>2. \A u \in Tasks : AtRow(u)' => AtRow(u)
    BY DEF AtRow, Tasks, None, IInv, TypeOK
<1>3. RunInv'
  <2> SUFFICES ASSUME NEW u \in Tasks PROVE RunOK(u)'
      BY DEF RunInv
  <2>1. runs[u] \in Nat /\ overtaken[u] \in Nat /\ RunOK(u)
      BY DEF IInv, TypeOK, RunInv
  <2>2. Sending(u)' = Sending(u)
      BY DEF Sending
  <2>3. CASE ~Asking(u)'
      BY <2>1, <2>2, <2>3 DEF RunOK, One
  <2>4. CASE Asking(u)'
    <3>1. runs[u] = 0 /\ AtRow(u)
        BY <2>4 DEF Asking, Tasks, None
    <3>2. Sending(u) => u \in raced
        BY <3>1 DEF IInv, OwnInv, Sending
    <3> QED BY <2>1, <2>2, <3>1, <3>2 DEF RunOK, One
  <2> QED BY <2>3, <2>4
<1>4. OwnInv' /\ FreshInv' /\ KnownInv'
    BY <1>2 DEF IInv, OwnInv, FreshInv, KnownInv
<1>5. RipeInv' /\ InsertInv' /\ SentInv' /\ LoopInv'
    BY DEF IInv, RipeInv, InsertInv, SentInv, LoopInv
<1> QED BY <1>1, <1>3, <1>4, <1>5 DEF IInv

\* The loop goes on to its next row, or rests.
LEMMA LoopNextKeeps == ASSUME IInv, LoopNext PROVE IInv'
<1> USE DEF LoopNext
<1>1. loop \in [pc : {"next"}, rows : SUBSET Tasks, at : {None},
                reply : {"none", "found", "not_found", "unavailable"}]
      /\ loop.reply # "not_found" /\ faults \in 0..MaxFaults /\ None \notin loop.rows
    BY DEF IInv, TypeOK, LoopInv, Tasks, None
<1>2. CASE loop' = Rest
    BY <1>1, <1>2, LoopMoves DEF Rest, None
<1>3. ASSUME NEW t \in loop.rows,
             loop' = [loop EXCEPT !.rows = @ \ {t}, !.pc = IF listed THEN "ask" ELSE "next",
                                  !.at = IF listed THEN t ELSE None]
      PROVE IInv'
  <2>1. loop' = [pc |-> IF listed THEN "ask" ELSE "next", rows |-> loop.rows \ {t},
                 at |-> IF listed THEN t ELSE None, reply |-> loop.reply]
      BY <1>1, <1>3
  <2>2. t \in Tasks /\ t # None
      BY <1>1 DEF Tasks, None
  <2> QED BY <1>1, <2>1, <2>2, LoopMoves DEF AtRow
<1> QED BY <1>2, <1>3

\* The loop is told what Concordia knows of the row: "not_found" only without a run.
LEMMA ReconcileKeeps == ASSUME IInv, Reconcile PROVE IInv'
<1> USE DEF Reconcile
<1>1. loop \in [pc : {"ask"}, rows : SUBSET Tasks, at : Tasks,
                reply : {"none", "found", "not_found", "unavailable"}]
      /\ loop.at \notin loop.rows /\ loop.at # None /\ runs[loop.at] \in Nat
    BY DEF IInv, TypeOK, LoopInv, Tasks, None
<1>2. PICK r \in {"found", "not_found", "unavailable"} :
          /\ loop' = [loop EXCEPT !.pc = "reply", !.reply = r]
          /\ r = "not_found" => ~(runs[loop.at] > 0)
    OBVIOUS
<1>3. loop' = [pc |-> "reply", rows |-> loop.rows, at |-> loop.at, reply |-> r]
    BY <1>1, <1>2
<1>4. faults' \in 0..MaxFaults
    BY CrashDispatchAssumption DEF IInv, TypeOK, Fault
<1> QED BY <1>1, <1>2, <1>3, <1>4, LoopMoves DEF AtRow

\* The loop reads its rows: one that is still being inserted is read too early.
LEMMA LoopReadsKeeps == ASSUME IInv, LoopReads PROVE IInv'
<1> USE DEF IInv, db, concordia
<1> DEFINE R == {t \in Tasks : Due(t)}
<1>1. loop' = [pc |-> "next", rows |-> R, at |-> None, reply |-> "none"]
      /\ UNCHANGED <<db, direct, fixer, listed, concordia, edits, faults>>
    BY DEF LoopReads, Rest
<1>a. R \subseteq Tasks /\ \A t \in R : Due(t)
    OBVIOUS
<1>b. raced \subseteq raced' /\ raced' \subseteq Tasks
      /\ \A t \in R : direct[t] = "insert" => t \in raced'
    BY DEF LoopReads, TypeOK
<1> HIDE DEF R
<1>2. TypeOK'
    BY <1>1, <1>a, <1>b DEF TypeOK
<1>3. RunInv'
    BY <1>1, <1>b, RunKept DEF Sending, Asking, None, Tasks
<1>4. \A t \in R : direct[t] # "none" => t \in raced'
    BY <1>a, <1>b DEF Due, RipeInv, TypeOK
<1>5. \A t \in Tasks : AtRow(t)' => t \in R
    BY <1>1 DEF AtRow, None, Tasks
<1>6. OwnInv' /\ KnownInv'
    BY <1>1, <1>a, <1>b, <1>4, <1>5 DEF OwnInv, KnownInv, Due
<1>7. FreshInv'
    BY <1>1, <1>a, <1>5 DEF FreshInv, Due
<1>8. RipeInv' /\ InsertInv' /\ SentInv' /\ LoopInv'
    BY <1>1, <1>a, <1>b DEF RipeInv, InsertInv, SentInv, LoopInv, None, Tasks
<1> QED BY <1>2, <1>3, <1>6, <1>7, <1>8

-----------------------------------------------------------------------------
(* The loop marks the row it is at, and leaves it or waits for the answer.  *)

LEMMA LoopMarks ==
    ASSUME IInv, NEW v \in Delegation, loop.at # None, Mark(loop.at, v),
           UNCHANGED <<state, origin, direct, fixer, listed, concordia, raced, edits, faults>>,
           \/ loop' = [pc |-> "next", rows |-> loop.rows, at |-> None, reply |-> "none"]
           \/ /\ v # "delegated" /\ Asking(loop.at)
              /\ loop' = [pc |-> "wait", rows |-> loop.rows, at |-> loop.at, reply |-> "none"]
    PROVE  IInv'
<1> DEFINE t == loop.at
<1> USE DEF IInv, concordia
<1>1. /\ t \in Tasks /\ t \notin loop.rows
      /\ fix' = [fix EXCEPT ![t] = v] /\ ripe' = ripe \ {t} /\ fatal' = fatal \ {t}
      /\ fix'[t] = v /\ v # "null" /\ \A u \in Tasks : u # t => fix'[u] = fix[u]
    BY DEF TypeOK, LoopInv, Mark, Delegation
<1>2. TypeOK'
  <2>1. fix' \in [Tasks -> {"null"} \cup Delegation \cup Repair] /\ ripe' \subseteq Tasks /\ fatal' \subseteq Tasks
      BY <1>1 DEF TypeOK
  <2>2. \A u \in Tasks : fix'[u] = "null" => runs[u] = 0 /\ direct[u] \in {"none", "insert"}
      BY <1>1 DEF TypeOK
  <2>3. /\ loop' \in [pc : {"next", "wait"}, rows : SUBSET Tasks, at : Tasks \cup {None}, reply : {"none"}]
        /\ loop'.at # None <=> loop'.pc \notin {"idle", "next"}
      BY <1>1 DEF TypeOK
  <2> QED BY <2>1, <2>2, <2>3 DEF TypeOK
<1>3. \A u \in Tasks : (Asking(u)' => Asking(u)) /\ (AtRow(u)' => AtRow(u))
    BY <1>1 DEF Asking, AtRow, None, Tasks
<1>4. RunInv'
    BY <1>3, RunKept DEF Sending
<1>5. OwnInv' /\ RipeInv' /\ InsertInv'
    BY <1>1, <1>3 DEF OwnInv, RipeInv, InsertInv
<1>6. FreshInv'
    BY <1>1, <1>3 DEF FreshInv, AtRow
<1>7. SentInv' /\ LoopInv'
    BY <1>1 DEF SentInv, LoopInv, None, Tasks, TypeOK
<1>8. KnownInv'
  <2> SUFFICES ASSUME NEW u \in Tasks, (AtRow(u) \/ direct[u] # "none")', u \notin raced
               PROVE  fix'[u] # "delegated"
      BY DEF KnownInv
  <2>1. CASE u # t
      BY <1>1, <1>3, <2>1 DEF KnownInv
  <2>2. CASE u = t
      BY <1>1, <2>2 DEF OwnInv, AtRow, None, Tasks
  <2> QED BY <2>1, <2>2
<1> QED BY <1>2, <1>4, <1>5, <1>6, <1>7, <1>8

\* What reconcileConcordiaDispatch answered is written, and a request follows "not_found".
LEMMA LoopRepliedKeeps == ASSUME IInv, LoopReplied PROVE IInv'
<1> USE DEF LoopReplied, IInv
<1>1. loop.at # None
      /\ loop = [pc |-> loop.pc, rows |-> loop.rows, at |-> loop.at, reply |-> loop.reply]
    BY DEF TypeOK
<1>2. CASE loop.reply \in {"found", "unavailable"}
  <2>1. loop' = [pc |-> "next", rows |-> loop.rows, at |-> None, reply |-> "none"]
      BY <1>1, <1>2 DEF NextRow
  <2>2. PICK v \in Delegation : Mark(loop.at, v)
      BY <1>2 DEF Delegation
  <2> QED BY <1>1, <2>1, <2>2, LoopMarks
<1>3. CASE loop.reply = "not_found"
  <2>1. loop' = [pc |-> "wait", rows |-> loop.rows, at |-> loop.at, reply |-> "none"]
      BY <1>1, <1>3
  <2>2. Mark(loop.at, "dispatching") /\ "dispatching" \in Delegation /\ Asking(loop.at)
      BY <1>3 DEF Delegation, Asking
  <2> QED BY <1>1, <2>1, <2>2, LoopMarks
<1> QED BY <1>2, <1>3

\* The answer to the loop's request is written.
LEMMA LoopEndsKeeps == ASSUME IInv, LoopEnds PROVE IInv'
<1> USE DEF LoopEnds, IInv
<1>1. loop' = [pc |-> "next", rows |-> loop.rows, at |-> None, reply |-> "none"] /\ loop.at # None
    BY DEF NextRow, TypeOK
<1>2. PICK v \in Delegation : Mark(loop.at, v)
    BY DEF Delegation
<1> QED BY <1>1, <1>2, LoopMarks

-----------------------------------------------------------------------------
(* The row, beside the loop. *)

\* A new row of a task, with or without a request for it.
LEMMA RowOpens ==
    ASSUME IInv, NEW t \in Tasks, state[t] = "none",
           state' = [state EXCEPT ![t] = "open"],
           NEW d \in {"none", "insert", "wait"}, direct' = [direct EXCEPT ![t] = d],
           \/ fix' = fix /\ d # "wait"
           \/ fix' = [fix EXCEPT ![t] = "dispatching"],
           ripe' \subseteq ripe, fatal' \subseteq Tasks, origin' \in [Tasks -> Processes],
           UNCHANGED <<loop, fixer, listed, concordia, raced, edits, faults>>
    PROVE  IInv'
<1> USE DEF IInv, concordia
<1>1. /\ direct'[t] = d /\ \A u \in Tasks : u # t => direct'[u] = direct[u] /\ fix'[u] = fix[u]
      /\ fix'[t] \in {"null", "dispatching"} /\ (d = "wait" => fix'[t] = "dispatching")
      /\ fix[t] = "null" /\ direct[t] = "none" /\ runs[t] = 0 /\ stray[t] = 0 /\ ~AtRow(t)
      /\ t \notin ripe
      /\ \A u \in Tasks : (u # t => state'[u] = state[u]) /\ (fix[u] # "null" => fix'[u] # "null")
    BY DEF TypeOK, FreshInv
<1>2. TypeOK'
  <2>1. /\ fix' \in [Tasks -> {"null"} \cup Delegation \cup Repair] /\ ripe' \subseteq Tasks
        /\ direct' \in [Tasks -> {"none", "insert", "wait", "ok", "error"}]
        /\ state' \in [Tasks -> {"none", "open", "closed"}]
      BY DEF TypeOK, Delegation
  <2>2. \A u \in Tasks : fix'[u] = "null" => runs[u] = 0 /\ direct'[u] \in {"none", "insert"}
      BY <1>1 DEF TypeOK
  <2> QED BY <2>1, <2>2 DEF TypeOK
<1>3. RunInv'
  <2> SUFFICES ASSUME NEW u \in Tasks PROVE RunOK(u)'
      BY DEF RunInv
  <2>1. RunOK(u) /\ runs[u] \in Nat /\ overtaken[u] \in Nat /\ Asking(u)' = Asking(u)
      BY DEF RunInv, TypeOK, Asking
  <2>2. CASE u = t
    <3>1. ~Asking(u)
        BY <1>1, <2>2 DEF Asking, AtRow
    <3> QED BY <1>1, <2>1, <2>2, <3>1 DEF RunOK, One
  <2>3. CASE u # t
    <3>1. Sending(u)' = Sending(u)
        BY <1>1, <2>3 DEF Sending
    <3> QED BY <2>1, <3>1 DEF RunOK, One
  <2> QED BY <2>2, <2>3
<1>4. \A u \in Tasks : AtRow(u)' = AtRow(u)
    BY DEF AtRow
<1>5. OwnInv' /\ FreshInv' /\ RipeInv' /\ InsertInv' /\ KnownInv'
    BY <1>1, <1>4 DEF OwnInv, FreshInv, RipeInv, InsertInv, KnownInv, TypeOK
<1>6. SentInv' /\ LoopInv'
    BY <1>1 DEF SentInv, LoopInv, TypeOK
<1> QED BY <1>2, <1>3, <1>5, <1>6

\* The error detector opens a task, and sends it if its service is in the catalog.
LEMMA HitKeeps == ASSUME IInv, NEW t \in Tasks, NEW severe \in BOOLEAN, Hit(t, severe) PROVE IInv'
<1> USE DEF Hit, IInv
<1>1. CASE listed
  <2>1. /\ direct' = [direct EXCEPT ![t] = "wait"] /\ fix' = [fix EXCEPT ![t] = "dispatching"]
        /\ ripe' \subseteq ripe /\ fatal' \subseteq Tasks
      BY <1>1 DEF Mark, TypeOK
  <2> QED BY <2>1, RowOpens DEF TypeOK
<1>2. CASE ~listed
  <2>1. direct' = [direct EXCEPT ![t] = "none"]
      BY <1>2 DEF TypeOK, FreshInv
  <2>2. fix' = fix /\ ripe' \subseteq ripe /\ fatal' \subseteq Tasks
      BY <1>2 DEF TypeOK
  <2> QED BY <2>1, <2>2, RowOpens DEF TypeOK
<1> QED BY <1>1, <1>2

\* The process manager opens a task.
LEMMA RaiseKeeps == ASSUME IInv, NEW t \in Tasks, Raise(t) PROVE IInv'
<1> USE DEF Raise, IInv
<1>1. origin' \in [Tasks -> Processes] /\ fatal' \subseteq Tasks
    BY DEF TypeOK, Processes
<1> QED BY <1>1, RowOpens

\* A row that exists is marked, by the dispatch beside its insertion or by
\* the built-in repair.
LEMMA RowMarked ==
    ASSUME IInv, NEW t \in Tasks, state[t] # "none",
           NEW v \in Delegation \cup Repair, Mark(t, v),
           NEW d \in {"none", "wait", direct[t]}, direct' = [direct EXCEPT ![t] = d],
           d = "wait" => direct[t] \in {"insert", "wait"} /\ v # "delegated",
           v = "delegated" => d = "none" /\ direct[t] # "none",
           state' \in [Tasks -> {"none", "open", "closed"}],
           \A u \in Tasks : state'[u] = "none" <=> state[u] = "none",
           fixer' \in {fixer, None, t}, edits' \in 0..MaxEdits,
           UNCHANGED <<origin, loop, listed, concordia, raced, faults>>
    PROVE  IInv'
<1> USE DEF IInv, concordia
<1>1. /\ fix' = [fix EXCEPT ![t] = v] /\ ripe' = ripe \ {t} /\ fatal' = fatal \ {t}
      /\ fix'[t] = v /\ v # "null" /\ direct'[t] = d
      /\ \A u \in Tasks : u # t => fix'[u] = fix[u] /\ direct'[u] = direct[u]
    BY DEF TypeOK, Mark, Delegation, Repair
<1>2. TypeOK'
    BY <1>1 DEF TypeOK, Delegation, Repair
<1>3. \A u \in Tasks : (Sending(u)' => Sending(u)) /\ (Asking(u)' = Asking(u)) /\ (AtRow(u)' = AtRow(u))
    BY <1>1 DEF Sending, Asking, AtRow
<1>4. RunInv'
    BY <1>3, RunKept
<1>5. \A u \in Tasks : direct'[u] # "none" => direct[u] # "none"
    BY <1>1
<1>6. OwnInv' /\ RipeInv' /\ InsertInv'
    BY <1>1, <1>3, <1>5 DEF OwnInv, RipeInv, InsertInv
<1>f. FreshInv'
    BY <1>1, <1>3, <1>5 DEF FreshInv, None, Tasks
<1>7. SentInv' /\ LoopInv'
    BY <1>1 DEF SentInv, LoopInv, TypeOK
<1>8. KnownInv'
  <2> SUFFICES ASSUME NEW u \in Tasks, (AtRow(u) \/ direct[u] # "none")', u \notin raced
               PROVE  fix'[u] # "delegated"
      BY DEF KnownInv
  <2>1. CASE u # t
      BY <1>1, <1>3, <1>5, <2>1 DEF KnownInv
  <2>2. CASE u = t
      BY <1>1, <1>3, <2>2 DEF OwnInv
  <2> QED BY <2>1, <2>2
<1> QED BY <1>2, <1>4, <1>6, <1>f, <1>7, <1>8

\* The process manager marks and sends the task it opened.
LEMMA RaisedKeeps == ASSUME IInv, NEW t \in Tasks, Raised(t) PROVE IInv'
<1> USE DEF Raised, IInv
<1>1. "dispatching" \in Delegation \cup Repair /\ state[t] # "none"
    BY DEF Delegation, FreshInv
<1> QED BY <1>1, RowMarked DEF TypeOK

\* The answer to the dispatch beside the insertion is written.
LEMMA DirectEndsKeeps == ASSUME IInv, NEW t \in Tasks, DirectEnds(t) PROVE IInv'
<1> USE DEF DirectEnds, IInv
<1>1. state[t] # "none" /\ direct[t] # "none"
    BY DEF FreshInv
<1>2. PICK v \in Delegation \cup Repair : Mark(t, v)
    BY DEF Delegation
<1> QED BY <1>1, <1>2, RowMarked DEF TypeOK

\* The built-in repair takes a task.
LEMMA StartRepairKeeps == ASSUME IInv, NEW t \in Tasks, StartRepair(t) PROVE IInv'
<1> USE DEF StartRepair, IInv
<1>1. "running" \in Delegation \cup Repair /\ "running" # "delegated"
    BY DEF Repair
<1>2. edits' \in 0..MaxEdits
    BY CrashDispatchAssumption DEF Edit, TypeOK
<1>3. direct' = [direct EXCEPT ![t] = direct[t]]
    BY DEF TypeOK
<1> QED BY <1>1, <1>2, <1>3, RowMarked DEF TypeOK

\* The built-in repair ends; it had a row.
LEMMA EndRepairKeeps == ASSUME IInv, NEW o \in Repair, EndRepair(o) PROVE IInv'
<1> USE DEF EndRepair, IInv
<1>1. fixer \in Tasks /\ fixer # None
    BY DEF TypeOK
<1>2. direct' = [direct EXCEPT ![fixer] = direct[fixer]] /\ o # "delegated"
    BY DEF TypeOK, Repair
<1>3. state[fixer] # "none"
    BY <1>1 DEF FreshInv
<1> QED BY <1>1, <1>2, <1>3, RowMarked DEF TypeOK

\* Steps that leave the requests and their rows alone.
LEMMA AsideKeeps ==
    ASSUME IInv, UNCHANGED <<fix, direct, loop, concordia, raced>>,
           state' \in [Tasks -> {"none", "open", "closed"}],
           \A u \in Tasks : state'[u] = "none" <=> state[u] = "none",
           ripe' \subseteq Tasks, \A u \in ripe' \ ripe : direct[u] = "none" /\ state[u] # "none",
           UNCHANGED <<fatal, origin, fixer>>, listed' \in BOOLEAN,
           edits' \in 0..MaxEdits, faults' \in 0..MaxFaults
    PROVE  IInv'
<1> USE DEF IInv, concordia
<1>1. TypeOK'
    BY DEF TypeOK
<1>2. RunInv'
    BY RunKept DEF Sending, Asking
<1>3. \A u \in Tasks : AtRow(u)' = AtRow(u)
    BY DEF AtRow
<1>4. OwnInv' /\ FreshInv' /\ RipeInv' /\ InsertInv' /\ KnownInv'
    BY <1>3 DEF OwnInv, FreshInv, RipeInv, InsertInv, KnownInv
<1>5. SentInv' /\ LoopInv'
    BY DEF SentInv, LoopInv
<1> QED BY <1>1, <1>2, <1>4, <1>5

\* Time passes only for a row that nobody waits for.
LEMMA RipenKeeps == ASSUME IInv, NEW t \in Tasks, Ripen(t) PROVE IInv'
<1> USE DEF Ripen, IInv
<1>1. direct[t] = "none" /\ state[t] # "none"
    BY DEF Waiting, FreshInv
<1> QED BY <1>1, AsideKeeps DEF TypeOK, callers

\* A further hit renews the row's age.
LEMMA HitAgainKeeps == ASSUME IInv, NEW t \in Tasks, HitAgain(t) PROVE IInv'
<1>1. edits' \in 0..MaxEdits
    BY CrashDispatchAssumption DEF HitAgain, Edit, IInv, TypeOK
<1> QED BY <1>1, AsideKeeps DEF HitAgain, IInv, TypeOK, callers

\* A person closes or reopens a task.
LEMMA PatchKeeps == ASSUME IInv, NEW t \in Tasks, Patch(t) PROVE IInv'
<1> USE DEF Patch, IInv
<1>1. edits' \in 0..MaxEdits
    BY CrashDispatchAssumption DEF Edit, TypeOK
<1>2. /\ state' \in [Tasks -> {"none", "open", "closed"}]
      /\ \A u \in Tasks : state'[u] = "none" <=> state[u] = "none"
    BY DEF TypeOK
<1> QED BY <1>1, <1>2, AsideKeeps DEF TypeOK, callers

\* The service enters or leaves the catalog.
LEMMA ReloadCatalogKeeps == ASSUME IInv, ReloadCatalog PROVE IInv'
<1>1. edits' \in 0..MaxEdits
    BY CrashDispatchAssumption DEF ReloadCatalog, Edit, IInv, TypeOK
<1> QED BY <1>1, AsideKeeps DEF ReloadCatalog, IInv, TypeOK, callers, db

-----------------------------------------------------------------------------
(* Concordia and the network. *)

\* What a caller sees of its request: the dispatch is no longer about to send,
\* the loop is not told that there is no run, and a request that was carried
\* out, refused or given up starts no run for its caller any more.
LEMMA Seen ==
    ASSUME IInv, NEW t \in Tasks, NEW from \in {"wait", "ok"}, NEW to \in {"ok", "error"},
           Sees(t, from, to), UNCHANGED raced
    PROVE  /\ direct' \in [Tasks -> {"none", "insert", "wait", "ok", "error"}]
           /\ loop' \in [pc : {"idle", "next", "ask", "reply", "wait", "ok", "error"}, rows : SUBSET Tasks,
                         at : Tasks \cup {None}, reply : {"none", "found", "not_found", "unavailable"}]
           /\ loop'.at # None <=> loop'.pc \notin {"idle", "next"}
           /\ LoopInv'
           /\ loop'.pc \in {"wait", "ok", "error"} => fix[loop'.at] # "null"
           /\ fix[t] # "null" /\ state[t] # "none" /\ (direct[t] = "insert" => t \in raced)
           /\ \A u \in Tasks : /\ AtRow(u)' = AtRow(u)
                               /\ direct'[u] = "none" <=> direct[u] = "none"
                               /\ direct'[u] = "insert" <=> direct[u] = "insert"
                               /\ fix[u] = "null" => direct'[u] = direct[u]
                               /\ Sending(u)' => Sending(u)
                               /\ Asking(u)' => Asking(u)
           /\ from = "wait" => One(Sending(t)) + One(Asking(t)) = 1 + One(Sending(t)') + One(Asking(t)')
<1> USE DEF IInv
<1>1. CASE direct[t] = from /\ direct' = [direct EXCEPT ![t] = to] /\ UNCHANGED loop
  <2>1. /\ direct'[t] = to /\ \A u \in Tasks : u # t => direct'[u] = direct[u]
        /\ fix[t] # "null" /\ state[t] # "none"
      BY <1>1 DEF TypeOK, FreshInv
  <2>2. /\ direct' \in [Tasks -> {"none", "insert", "wait", "ok", "error"}]
        /\ loop' = loop
      BY <1>1 DEF TypeOK
  <2>3. \A u \in Tasks : Asking(u)' = Asking(u) /\ AtRow(u)' = AtRow(u)
      BY <2>2 DEF Asking, AtRow
  <2>4. Sending(t)' = FALSE /\ (from = "wait" => Sending(t) = TRUE)
        /\ \A u \in Tasks : Sending(u)' => Sending(u)
      BY <1>1, <2>1 DEF Sending
  <2>5. from = "wait" => One(Sending(t)) + One(Asking(t)) = 1 + One(Sending(t)') + One(Asking(t)')
      BY <2>3, <2>4 DEF One
  <2> QED BY <1>1, <2>1, <2>2, <2>3, <2>4, <2>5 DEF TypeOK, LoopInv, SentInv
<1>2. CASE loop.at = t /\ loop.pc = from /\ loop' = [loop EXCEPT !.pc = to] /\ UNCHANGED direct
  <2>1. loop' = [pc |-> to, rows |-> loop.rows, at |-> t, reply |-> loop.reply]
        /\ loop.reply # "not_found" /\ t # None /\ t \notin loop.rows
        /\ loop.rows \subseteq Tasks /\ loop.reply \in {"none", "found", "unavailable"}
      BY <1>2 DEF TypeOK, LoopInv, Tasks, None
  <2>2. fix[t] # "null" /\ state[t] # "none" /\ (direct[t] # "none" => t \in raced)
      BY <1>2 DEF SentInv, FreshInv, OwnInv, AtRow
  <2>3. \A u \in Tasks : AtRow(u)' = AtRow(u) /\ Sending(u)' = Sending(u)
      BY <1>2, <2>1 DEF AtRow, Sending
  <2>4. Asking(t)' = FALSE /\ (from = "wait" => Asking(t) = TRUE)
        /\ \A u \in Tasks : Asking(u)' => Asking(u)
      BY <1>2, <2>1 DEF Asking
  <2>5. from = "wait" => One(Sending(t)) + One(Asking(t)) = 1 + One(Sending(t)') + One(Asking(t)')
      BY <2>3, <2>4 DEF One
  <2>6. LoopInv'
      BY <2>1 DEF LoopInv
  <2>7. /\ loop' \in [pc : {"idle", "next", "ask", "reply", "wait", "ok", "error"}, rows : SUBSET Tasks,
                         at : Tasks \cup {None}, reply : {"none", "found", "not_found", "unavailable"}]
        /\ loop'.at # None <=> loop'.pc \notin {"idle", "next"}
      BY <2>1
  <2> QED BY <1>2, <2>1, <2>2, <2>3, <2>4, <2>5, <2>6, <2>7 DEF TypeOK
<1> QED BY <1>1, <1>2 DEF Sees

\* Concordia carries a request out while its caller waits: the request paid for the run.
LEMMA CarryOutKeeps == ASSUME IInv, NEW t \in Tasks, CarryOut(t) PROVE IInv'
<1> USE DEF IInv
<1> DEFINE P(u) == /\ AtRow(u)' = AtRow(u)
                   /\ direct'[u] = "none" <=> direct[u] = "none"
                   /\ direct'[u] = "insert" <=> direct[u] = "insert"
                   /\ fix[u] = "null" => direct'[u] = direct[u]
                   /\ Sending(u)' => Sending(u)
                   /\ Asking(u)' => Asking(u)
<1>1. /\ Sees(t, "wait", "ok") /\ runs' = [runs EXCEPT ![t] = runs[t] + 1]
      /\ UNCHANGED <<state, fatal, origin, fix, ripe, fixer, listed, stray, overtaken, raced, edits, faults>>
    BY DEF CarryOut, db
<1>2. /\ direct' \in [Tasks -> {"none", "insert", "wait", "ok", "error"}]
      /\ loop' \in [pc : {"idle", "next", "ask", "reply", "wait", "ok", "error"}, rows : SUBSET Tasks,
                    at : Tasks \cup {None}, reply : {"none", "found", "not_found", "unavailable"}]
      /\ loop'.at # None <=> loop'.pc \notin {"idle", "next"}
      /\ LoopInv'
      /\ loop'.pc \in {"wait", "ok", "error"} => fix[loop'.at] # "null"
      /\ fix[t] # "null" /\ state[t] # "none" /\ (direct[t] = "insert" => t \in raced)
      /\ \A u \in Tasks : P(u)
      /\ One(Sending(t)) + One(Asking(t)) = 1 + One(Sending(t)') + One(Asking(t)')
    BY <1>1, Seen
<1>3. runs[t] \in Nat /\ runs' \in [Tasks -> Nat] /\ runs'[t] = runs[t] + 1
      /\ \A u \in Tasks : u # t => runs'[u] = runs[u]
    BY <1>1 DEF TypeOK
<1>4. TypeOK'
    BY <1>1, <1>2, <1>3 DEF TypeOK
<1>5. RunInv'
  <2> SUFFICES ASSUME NEW u \in Tasks PROVE RunOK(u)'
      BY DEF RunInv
  <2>1. RunOK(u) /\ runs[u] \in Nat /\ overtaken[u] \in Nat
      BY DEF RunInv, TypeOK
  <2>2. CASE u = t
      BY <1>1, <1>2, <1>3, <2>1, <2>2 DEF RunOK, One
  <2>3. CASE u # t
      BY <1>1, <1>2, <1>3, <2>1, <2>3 DEF RunOK, One
  <2> QED BY <2>2, <2>3
<1>6. OwnInv' /\ FreshInv' /\ KnownInv'
    BY <1>1, <1>2, <1>3 DEF OwnInv, FreshInv, KnownInv
<1>7. RipeInv' /\ InsertInv' /\ SentInv'
    BY <1>1, <1>2, <1>3 DEF RipeInv, InsertInv, SentInv
<1> QED BY <1>2, <1>4, <1>5, <1>6, <1>7

\* A request that fails for its caller may still be carried out later.
LEMMA RequestFails ==
    ASSUME IInv, NEW t \in Tasks, NEW from \in {"wait", "ok"}, Sees(t, from, "error"),
           stray' \in [Tasks -> Nat], \A u \in Tasks : u # t => stray'[u] = stray[u],
           faults' \in 0..MaxFaults,
           UNCHANGED <<state, fatal, origin, fix, ripe, fixer, listed, runs, overtaken, raced, edits>>
    PROVE  IInv'
<1> USE DEF IInv
<1> DEFINE P(u) == /\ AtRow(u)' = AtRow(u)
                   /\ direct'[u] = "none" <=> direct[u] = "none"
                   /\ direct'[u] = "insert" <=> direct[u] = "insert"
                   /\ fix[u] = "null" => direct'[u] = direct[u]
                   /\ Sending(u)' => Sending(u)
                   /\ Asking(u)' => Asking(u)
<1>2. /\ direct' \in [Tasks -> {"none", "insert", "wait", "ok", "error"}]
      /\ loop' \in [pc : {"idle", "next", "ask", "reply", "wait", "ok", "error"}, rows : SUBSET Tasks,
                    at : Tasks \cup {None}, reply : {"none", "found", "not_found", "unavailable"}]
      /\ loop'.at # None <=> loop'.pc \notin {"idle", "next"}
      /\ LoopInv'
      /\ loop'.pc \in {"wait", "ok", "error"} => fix[loop'.at] # "null"
      /\ fix[t] # "null" /\ state[t] # "none" /\ (direct[t] = "insert" => t \in raced)
      /\ \A u \in Tasks : P(u)
    BY Seen
<1>4. TypeOK'
    BY <1>2 DEF TypeOK
<1>5. RunInv'
    BY <1>2, RunKept
<1>6. OwnInv' /\ FreshInv' /\ KnownInv'
    BY <1>2 DEF OwnInv, FreshInv, KnownInv
<1>7. RipeInv' /\ InsertInv' /\ SentInv'
    BY <1>2 DEF RipeInv, InsertInv, SentInv
<1> QED BY <1>2, <1>4, <1>5, <1>6, <1>7

\* The number of faults stays within its bound.
LEMMA FaultTypes == ASSUME IInv, NEW kind, Fault(kind) PROVE faults' \in 0..MaxFaults
BY CrashDispatchAssumption DEF Fault, IInv, TypeOK

\* A request is refused, or its answer is lost.
LEMMA AnswerFailsKeeps == ASSUME IInv, NEW t \in Tasks, AnswerFails(t) PROVE IInv'
<1>1. stray' \in [Tasks -> Nat] /\ faults' \in 0..MaxFaults
    BY FaultTypes DEF AnswerFails, concordia, IInv, TypeOK
<1> QED BY <1>1, RequestFails DEF AnswerFails, concordia, db

\* The caller gives up a request that may still be carried out.
LEMMA TimesOutKeeps == ASSUME IInv, NEW t \in Tasks, TimesOut(t) PROVE IInv'
<1>1. stray' \in [Tasks -> Nat] /\ faults' \in 0..MaxFaults
      /\ \A u \in Tasks : u # t => stray'[u] = stray[u]
    BY FaultTypes DEF TimesOut, IInv, TypeOK
<1> QED BY <1>1, RequestFails DEF TimesOut, db

\* A request whose caller has gone is carried out: it was overtaken, or it is the first run.
LEMMA CarryOutStrayKeeps == ASSUME IInv, NEW t \in Tasks, CarryOutStray(t) PROVE IInv'
<1> USE DEF IInv
<1>1. /\ stray[t] > 0 /\ stray' \in [Tasks -> Nat] /\ \A u \in Tasks : u # t => stray'[u] = stray[u]
      /\ runs' \in [Tasks -> Nat] /\ runs'[t] = runs[t] + 1 /\ \A u \in Tasks : u # t => runs'[u] = runs[u]
      /\ overtaken' \in [Tasks -> Nat] /\ overtaken'[t] = overtaken[t] + One(Overtaken(t))
      /\ \A u \in Tasks : u # t => overtaken'[u] = overtaken[u]
    BY DEF CarryOutStray, TypeOK, One
<1>2. UNCHANGED <<state, fatal, origin, fix, ripe, direct, loop, fixer, listed, raced, edits, faults>>
    BY DEF CarryOutStray, db, callers
<1>3. fix[t] # "null" /\ state[t] # "none" /\ (direct[t] = "insert" => t \in raced)
    BY <1>1 DEF SentInv, FreshInv, InsertInv, TypeOK
<1>4. TypeOK'
    BY <1>1, <1>2, <1>3 DEF TypeOK
<1>5. \A u \in Tasks : AtRow(u)' = AtRow(u) /\ Sending(u)' = Sending(u) /\ Asking(u)' = Asking(u)
    BY <1>2 DEF AtRow, Sending, Asking
<1>6. RunInv'
  <2> SUFFICES ASSUME NEW u \in Tasks PROVE RunOK(u)'
      BY DEF RunInv
  <2>1. RunOK(u) /\ runs[u] \in Nat /\ overtaken[u] \in Nat
      BY DEF RunInv, TypeOK
  <2>2. CASE u = t /\ Overtaken(t)
      BY <1>1, <1>2, <1>5, <2>1, <2>2 DEF RunOK, One
  <2>3. CASE u = t /\ ~Overtaken(t)
    <3>1. runs[t] = 0 /\ ~Asking(t) /\ (Sending(t) => t \in raced)
        BY <1>3, <2>1, <2>3 DEF Overtaken, Asking, Sending
    <3> QED BY <1>1, <1>2, <1>5, <2>1, <2>3, <3>1 DEF RunOK, One
  <2>4. CASE u # t
      BY <1>1, <1>2, <1>5, <2>1, <2>4 DEF RunOK, One
  <2> QED BY <2>2, <2>3, <2>4
<1>7. OwnInv' /\ FreshInv' /\ KnownInv'
    BY <1>1, <1>2, <1>3, <1>5 DEF OwnInv, FreshInv, KnownInv
<1>8. RipeInv' /\ InsertInv' /\ SentInv' /\ LoopInv'
    BY <1>1, <1>2, <1>3 DEF RipeInv, InsertInv, SentInv, LoopInv
<1> QED BY <1>4, <1>6, <1>7, <1>8

\* The elements of a set that equal a given value: one, or none.
LEMMA CountOne ==
    ASSUME NEW S, NEW u
    PROVE  Cardinality({w \in S : w = u}) = IF u \in S THEN 1 ELSE 0
<1>1. CASE u \in S
  <2>1. {w \in S : w = u} = {u}
      BY <1>1
  <2> QED BY <1>1, <2>1, FS_Singleton
<1>2. CASE u \notin S
  <2>1. {w \in S : w = u} = {}
      BY <1>2
  <2> QED BY <1>2, <2>1, FS_EmptySet
<1> QED BY <1>1, <1>2

\* A process dies: its requests are forgotten, and stay under way only for
\* rows that were marked before.
LEMMA CrashKeeps == ASSUME IInv, NEW p \in Processes, Crash(p) PROVE IInv'
<1> USE DEF IInv
<1> DEFINE waits == {t \in Tasks : origin[t] = p /\ direct[t] = "wait"}
           asked == IF p = "backend" /\ loop.pc = "wait" THEN {loop.at} ELSE {}
<1>1. /\ UNCHANGED <<state, fatal, origin, fix, ripe, listed, runs, overtaken, raced, edits>>
      /\ direct' = [t \in Tasks |-> IF origin[t] = p THEN "none" ELSE direct[t]]
      /\ IF p = "backend" THEN loop' = Rest /\ fixer' = None ELSE UNCHANGED <<loop, fixer>>
      /\ faults' \in 0..MaxFaults
    BY FaultTypes DEF Crash, db
<1>2. /\ stray' \in [Tasks -> Nat]
      /\ \A u \in Tasks : u \notin waits /\ u \notin asked => stray'[u] = stray[u]
  <2>1. PICK received \in {TRUE, FALSE} :
            stray' = IF received
                     THEN [t \in Tasks |-> stray[t] + Cardinality({w \in waits : w = t})
                                                    + Cardinality({a \in asked : a = t})]
                     ELSE stray
      BY DEF Crash
  <2>2. CASE received
    <3>1. \A u \in Tasks : stray[u] \in Nat
        BY DEF TypeOK
    <3> HIDE DEF waits, asked
    <3>2. \A u \in Tasks : /\ Cardinality({w \in waits : w = u}) = IF u \in waits THEN 1 ELSE 0
                           /\ Cardinality({a \in asked : a = u}) = IF u \in asked THEN 1 ELSE 0
        BY CountOne
    <3> QED BY <2>1, <2>2, <3>1, <3>2
  <2>3. CASE ~received
      BY <2>1, <2>3 DEF TypeOK
  <2> QED BY <2>2, <2>3
<1>3. \A u \in Tasks : direct'[u] \in {"none", direct[u]}
    BY <1>1
<1>4. loop' \in {loop, Rest} /\ fixer' \in {fixer, None}
    BY <1>1
<1>5. \A u \in Tasks : /\ Sending(u)' => Sending(u)
                       /\ Asking(u)' => Asking(u)
                       /\ AtRow(u)' => AtRow(u)
    BY <1>3, <1>4 DEF Sending, Asking, AtRow, Rest, None, Tasks
<1>6. \A u \in Tasks : u \in waits \/ u \in asked =>
          fix[u] # "null" /\ state[u] # "none" /\ (direct[u] = "insert" => u \in raced)
  <2>1. \A u \in waits : u \in Tasks /\ direct[u] = "wait"
      OBVIOUS
  <2>2. \A u \in asked : u = loop.at /\ loop.pc = "wait"
      OBVIOUS
  <2> HIDE DEF waits, asked
  <2> QED BY <2>1, <2>2 DEF TypeOK, SentInv, FreshInv, OwnInv, AtRow
<1> HIDE DEF waits, asked
<1>7. TypeOK'
  <2>1. direct' \in [Tasks -> {"none", "insert", "wait", "ok", "error"}]
      BY <1>1 DEF TypeOK
  <2>2. fixer' \in Tasks \cup {None}
      BY <1>4 DEF TypeOK
  <2>3. /\ loop' \in [pc : {"idle", "next", "ask", "reply", "wait", "ok", "error"}, rows : SUBSET Tasks,
                      at : Tasks \cup {None}, reply : {"none", "found", "not_found", "unavailable"}]
        /\ loop'.at # None <=> loop'.pc \notin {"idle", "next"}
      BY <1>4 DEF TypeOK, Rest
  <2>4. \A u \in Tasks : fix'[u] = "null" => runs'[u] = 0 /\ direct'[u] \in {"none", "insert"}
      BY <1>1, <1>3 DEF TypeOK
  <2> QED BY <1>1, <1>2, <2>1, <2>2, <2>3, <2>4 DEF TypeOK
<1>8. RunInv'
    BY <1>1, <1>5, RunKept
<1>9. OwnInv' /\ KnownInv'
    BY <1>1, <1>3, <1>5 DEF OwnInv, KnownInv
<1>10. FreshInv'
    BY <1>1, <1>2, <1>3, <1>4, <1>5, <1>6 DEF FreshInv, None, Tasks
<1>11. RipeInv' /\ InsertInv'
    BY <1>1, <1>2, <1>3, <1>6 DEF RipeInv, InsertInv
<1>12. SentInv' /\ LoopInv'
    BY <1>1, <1>2, <1>4, <1>6 DEF SentInv, LoopInv, Rest, None, Tasks
<1> QED BY <1>7, <1>8, <1>9, <1>10, <1>11, <1>12

-----------------------------------------------------------------------------
(* The invariant holds in every state. *)

\* Without rows and requests the invariant holds.
LEMMA InitOK == Init => IInv
<1> SUFFICES ASSUME Init PROVE IInv
    OBVIOUS
<1> USE DEF Init, Rest, None, Tasks
<1>1. TypeOK
    BY CrashDispatchAssumption DEF TypeOK, Processes
<1>2. RunInv
  <2> SUFFICES ASSUME NEW t \in Tasks PROVE RunOK(t)
      BY DEF RunInv
  <2>1. runs[t] = 0 /\ overtaken[t] = 0 /\ ~Sending(t) /\ ~Asking(t)
      BY DEF Sending, Asking
  <2> QED BY <2>1 DEF RunOK, One
<1>3. OwnInv /\ FreshInv /\ RipeInv /\ InsertInv /\ SentInv /\ LoopInv /\ KnownInv
    BY DEF OwnInv, FreshInv, RipeInv, InsertInv, SentInv, LoopInv, KnownInv, AtRow
<1> QED BY <1>1, <1>2, <1>3 DEF IInv

\* A step that changes nothing keeps the invariant.
LEMMA StutterKeeps == ASSUME IInv, UNCHANGED vars PROVE IInv'
<1>1. UNCHANGED <<fix, direct, loop, concordia, raced>> /\ UNCHANGED <<fatal, origin, fixer>>
      /\ state' = state /\ ripe' = ripe /\ listed' = listed /\ edits' = edits /\ faults' = faults
    BY DEF vars, db, callers, concordia
<1> QED BY <1>1, AsideKeeps DEF IInv, TypeOK

\* Every step keeps the invariant.
LEMMA StepKeeps == IInv /\ [Next]_vars => IInv'
<1> SUFFICES ASSUME IInv, [Next]_vars PROVE IInv'
    OBVIOUS
<1>1. CASE LoopStep
    BY <1>1, LoopReadsKeeps, LoopNextKeeps, ReconcileKeeps, LoopRepliedKeeps, LoopEndsKeeps DEF LoopStep
<1>2. CASE ReloadCatalog
    BY <1>2, ReloadCatalogKeeps
<1>3. ASSUME NEW p \in Processes, Crash(p) PROVE IInv'
    BY <1>3, CrashKeeps
<1>4. ASSUME NEW o \in Repair, EndRepair(o) PROVE IInv'
    BY <1>4, EndRepairKeeps
<1>5. ASSUME NEW t \in Tasks,
             Hit(t, TRUE) \/ Hit(t, FALSE) \/ HitAgain(t) \/ Raise(t) \/ DirectStep(t) \/ Ripen(t)
      PROVE IInv'
    BY <1>5, HitKeeps, HitAgainKeeps, RaiseKeeps, RaisedKeeps, DirectEndsKeeps, RipenKeeps DEF DirectStep
<1>6. ASSUME NEW t \in Tasks,
             \/ CarryOut(t) \/ AnswerFails(t) \/ TimesOut(t) \/ CarryOutStray(t)
             \/ Patch(t) \/ StartRepair(t)
      PROVE IInv'
    BY <1>6, CarryOutKeeps, AnswerFailsKeeps, TimesOutKeeps, CarryOutStrayKeeps, PatchKeeps, StartRepairKeeps
<1>7. CASE UNCHANGED vars
    BY <1>7, StutterKeeps
<1> QED BY <1>1, <1>2, <1>3, <1>4, <1>5, <1>6, <1>7 DEF Next

\* The invariant holds in every state of the detector, the loop, Concordia and the
\* repair, for every number of tasks, edits and faults.
THEOREM DispatchInductive == Spec => []IInv
BY InitOK, StepKeeps, PTL DEF Spec

\* Every variable keeps its type (the row of error_tasks, the loop, the dispatch
\* beside the insertion), and a row that was never marked has no run.
THEOREM DispatchTypes == Spec => []TypeOK
<1>1. IInv => TypeOK
    BY DEF IInv
<1> QED BY <1>1, DispatchInductive, PTL

\* A crash has one repair run: failed, late and lost requests, retries, crashes and
\* reopened tasks start no second one, but for a stray that was overtaken and a row
\* that the loop read between its insertion and its mark.
THEOREM CrashRepairedOnce == Spec => []OneDelegation
<1>1. IInv => OneDelegation
  <2> SUFFICES ASSUME IInv, NEW t \in Tasks
               PROVE  runs[t] <= 1 + overtaken[t] + Cardinality({t} \cap raced)
      BY DEF OneDelegation
  <2>1. Cardinality({t} \cap raced) = One(t \in raced)
    <3>1. CASE t \in raced
      <4>1. {t} \cap raced = {t}
          BY <3>1
      <4> QED BY <3>1, <4>1, FS_Singleton DEF One
    <3>2. CASE t \notin raced
      <4>1. {t} \cap raced = {}
          BY <3>2
      <4> QED BY <3>2, <4>1, FS_EmptySet DEF One
    <3> QED BY <3>1, <3>2
  <2>2. RunOK(t) /\ runs[t] \in Nat /\ overtaken[t] \in Nat
      BY DEF IInv, RunInv, TypeOK
  <2> QED BY <2>1, <2>2 DEF RunOK, One
<1> QED BY <1>1, DispatchInductive, PTL

\* No step takes a delegated row back, unless it is the built-in repair's: whoever
\* waits for an answer waits for a row that is not yet known to be delegated.
LEMMA StepSticks ==
    ASSUME IInv, [Next]_vars, NEW t \in Tasks, fix[t] = "delegated", t \notin raced
    PROVE  fix'[t] \in {"delegated"} \cup Repair
<1>1. direct[t] = "none" /\ loop.at # t /\ state[t] # "none"
    BY DEF IInv, KnownInv, AtRow, FreshInv
<1>2. ASSUME NEW u \in Tasks, NEW v, Mark(u, v), u # t \/ v \in Repair
      PROVE  fix'[t] \in {"delegated"} \cup Repair
    BY <1>2 DEF Mark, IInv, TypeOK
<1>3. CASE LoopStep
  <2>1. CASE LoopReads \/ LoopNext \/ Reconcile
      BY <2>1 DEF LoopReads, LoopNext, Reconcile, db
  <2>2. CASE LoopReplied \/ LoopEnds
    <3>1. PICK v : Mark(loop.at, v)
        BY <2>2 DEF LoopReplied, LoopEnds
    <3>2. loop.at \in Tasks
        BY <2>2 DEF LoopReplied, LoopEnds, IInv, TypeOK
    <3> QED BY <1>1, <1>2, <3>1, <3>2
  <2> QED BY <1>3, <2>1, <2>2 DEF LoopStep
<1>4. ASSUME NEW u \in Tasks, Hit(u, TRUE) \/ Hit(u, FALSE) \/ Raise(u) \/ DirectStep(u)
      PROVE  fix'[t] \in {"delegated"} \cup Repair
  <2>1. u # t
      BY <1>1, <1>4 DEF Hit, Raise, DirectStep, Raised, DirectEnds
  <2>2. fix' = fix \/ \E v : Mark(u, v)
      BY <1>4 DEF Hit, Raise, DirectStep, Raised, DirectEnds
  <2> QED BY <1>2, <2>1, <2>2
<1>5. ASSUME NEW u \in Tasks, StartRepair(u) PROVE fix'[t] \in {"delegated"} \cup Repair
    BY <1>2, <1>5 DEF StartRepair, Repair
<1>6. ASSUME NEW o \in Repair, EndRepair(o) PROVE fix'[t] \in {"delegated"} \cup Repair
  <2>1. fixer \in Tasks /\ Mark(fixer, o)
      BY <1>6 DEF EndRepair, IInv, TypeOK
  <2> QED BY <1>2, <2>1
<1>7. ASSUME NEW u \in Tasks,
             \/ HitAgain(u) \/ Ripen(u) \/ CarryOut(u) \/ AnswerFails(u) \/ TimesOut(u)
             \/ CarryOutStray(u) \/ Patch(u)
      PROVE  fix'[t] \in {"delegated"} \cup Repair
    BY <1>7 DEF HitAgain, Ripen, CarryOut, AnswerFails, TimesOut, CarryOutStray, Patch, db
<1>8. CASE ReloadCatalog \/ UNCHANGED vars
    BY <1>8 DEF ReloadCatalog, vars, db
<1>9. ASSUME NEW p \in Processes, Crash(p) PROVE fix'[t] \in {"delegated"} \cup Repair
    BY <1>9 DEF Crash, db
<1> QED BY <1>3, <1>4, <1>5, <1>6, <1>7, <1>8, <1>9 DEF Next

\* A row marked "delegated" is not put back among the failed ones by the late end of
\* another request (markDispatch and markDispatchFailure write it whatever it holds).
THEOREM DelegationSticks == Spec => DelegatedSticks
<1> DEFINE Sticks == \A t \in Tasks : fix[t] = "delegated" =>
                         fix'[t] \in {"delegated"} \cup Repair \/ t \in raced
<1>1. IInv /\ [Next]_vars => Sticks
    BY StepSticks
<1>2. IInv /\ [Next]_vars => [Sticks]_vars
    BY <1>1
<1> QED BY <1>2, DispatchInductive, PTL DEF Spec, DelegatedSticks
=============================================================================
