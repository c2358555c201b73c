--------------------------- MODULE CrashDispatch ---------------------------
(***************************************************************************)
(* From a crash to its repair (log/error-detector.ts, process/manager.ts,  *)
(* auto_fix/): a crash opens an error task and is delegated to Concordia,  *)
(* a service that starts a repair run.  The delegation is an HTTP request  *)
(* that may time out and yet be carried out; a loop in the backend retries *)
(* failed and stuck delegations, and asks Concordia first whether a run    *)
(* for the task exists already.  A person may close or reopen a task and   *)
(* start the built-in repair, which writes the same column of its row.     *)
(*                                                                         *)
(* The error tasks are the crashes of the one service that is delegated    *)
(* (anatomia; its working directory is known, delegation is not disabled). *)
(* The backend's detector and loop and the supervisor's process manager    *)
(* share only the table: a statement is a step, and so is the code between *)
(* two awaits, except that the other process may come between two          *)
(* statements of one.                                                      *)
(***************************************************************************)
EXTENDS Integers, FiniteSets

CONSTANTS
    NumTasks,    \* bound: error tasks ever opened
    MaxEdits,    \* bound: what a person does, catalog changes, recurrences
    MaxFaults,   \* bound: failed, late and lost requests, crashes
    Faults       \* the kinds of faults that happen

ASSUME CrashDispatchAssumption ==
    NumTasks \in Nat \ {0} /\ MaxEdits \in Nat /\ MaxFaults \in Nat

Tasks == 1..NumTasks
None == 0
Processes == {"backend", "supervisor"}
\* auto_fix_state: of the delegation, and of the built-in repair, where
\* "broken" stands for failed and awaiting_human: neither is retried.
Delegation == {"dispatching", "failed", "delegated"}
Repair == {"running", "succeeded", "broken"}

VARIABLES
    state,     \* db: "none" (no row), "open" (ack and snoozed too), "closed"
    fatal,     \* db: rows of severity fatal that were never marked (it is not read later)
    origin,    \* the process that opened the task
    fix,       \* db: auto_fix_state, "null" at first
    ripe,      \* time: a failed row's next attempt is due, a dispatching row is a minute old
    direct,    \* per task, the dispatch beside its insertion: "none", "insert",
               \* "wait" (for the answer), "ok" and "error" (answers on their way)
    loop,      \* the retry loop: pc, the rows it still has, the row it is at, a reply
    fixer,     \* the task the built-in repair works on
    listed,    \* the service is in the backend's catalog
    runs,      \* Concordia: the number of runs it started for a task
    stray,     \* requests whose caller has gone, that Concordia may still carry out
    overtaken, \* ghost: strays carried out after another request or answer
    raced,     \* ghost: rows the loop read between their insertion and their mark
    edits, faults

db == <<state, fatal, origin, fix, ripe>>
callers == <<direct, loop, fixer>>
concordia == <<runs, stray, overtaken>>
vars == <<db, callers, listed, concordia, raced, edits, faults>>

Rest == [pc |-> "idle", rows |-> {}, at |-> None, reply |-> "none"]

Fault(kind) == kind \in Faults /\ faults < MaxFaults /\ faults' = faults + 1
Edit == edits < MaxEdits /\ edits' = edits + 1

Init ==
    /\ state = [t \in Tasks |-> "none"] /\ fatal = {} /\ origin = [t \in Tasks |-> "backend"]
    /\ fix = [t \in Tasks |-> "null"] /\ ripe = {}
    /\ direct = [t \in Tasks |-> "none"] /\ loop = Rest /\ fixer = None /\ listed = TRUE
    /\ runs = [t \in Tasks |-> 0] /\ stray = [t \in Tasks |-> 0]
    /\ overtaken = [t \in Tasks |-> 0] /\ raced = {} /\ edits = 0 /\ faults = 0

-----------------------------------------------------------------------------
(* The row. *)

\* markDispatch and markDispatchFailure write the row whatever it holds.
Mark(t, value) ==
    /\ fix' = [fix EXCEPT ![t] = value]
    /\ ripe' = ripe \ {t} /\ fatal' = fatal \ {t}

\* The request for t is on its way and somebody waits for the answer.
Waiting(t) == direct[t] # "none" \/ (loop.at = t /\ loop.pc \in {"wait", "ok", "error"})

\* Mutant: a dispatch counts as stuck, or is retried, before its timeout.
RipenEarly(t) ==
    /\ fix[t] \in {"dispatching", "failed"} /\ t \notin ripe
    /\ ripe' = ripe \cup {t}
    /\ UNCHANGED <<state, fatal, origin, fix, callers, listed, concordia, raced, edits, faults>>

\* Time passes.  A request's timeout (10 s) is not longer than the shortest
\* retry delay (10 s) and the age at which a dispatch counts as stuck (60 s).
Ripen(t) ==
    /\ fix[t] \in {"dispatching", "failed"} /\ t \notin ripe /\ ~Waiting(t)
    /\ ripe' = ripe \cup {t}
    /\ UNCHANGED <<state, fatal, origin, fix, callers, listed, concordia, raced, edits, faults>>

\* recordHit: a further hit is counted on an open task and renews updated_at;
\* a failed row's next attempt does not depend on that.
HitAgain(t) ==
    /\ state[t] = "open" /\ origin[t] = "backend" /\ fix[t] = "dispatching" /\ t \in ripe
    /\ Edit
    /\ ripe' = ripe \ {t}
    /\ UNCHANGED <<state, fatal, origin, fix, callers, listed, concordia, raced, faults>>

\* recordHit: without an open task a hit opens one, and the same segment marks
\* and sends it if the service is in the catalog.
Hit(t, severe) ==
    /\ state[t] = "none" /\ \A u \in Tasks : u < t => state[u] # "none"
    /\ \A u \in Tasks : ~(state[u] = "open" /\ origin[u] = "backend")
    /\ state' = [state EXCEPT ![t] = "open"]
    /\ \/ listed /\ Mark(t, "dispatching") /\ direct' = [direct EXCEPT ![t] = "wait"]
       \/ /\ ~listed /\ fatal' = IF severe THEN fatal \cup {t} ELSE fatal
          /\ UNCHANGED <<fix, ripe, direct>>
    /\ UNCHANGED <<origin, loop, fixer, listed, concordia, raced, edits, faults>>

\* raiseRestartLimitError, raiseRestartBuildError: in the supervisor, which
\* inserts the row with one statement and marks it with the next.
Raise(t) ==
    /\ state[t] = "none" /\ \A u \in Tasks : u < t => state[u] # "none"
    /\ state' = [state EXCEPT ![t] = "open"] /\ fatal' = fatal \cup {t}
    /\ origin' = [origin EXCEPT ![t] = "supervisor"]
    /\ direct' = [direct EXCEPT ![t] = "insert"]
    /\ UNCHANGED <<fix, ripe, loop, fixer, listed, concordia, raced, edits, faults>>

Raised(t) ==
    /\ direct[t] = "insert"
    /\ Mark(t, "dispatching") /\ direct' = [direct EXCEPT ![t] = "wait"]
    /\ UNCHANGED <<state, origin, loop, fixer, listed, concordia, raced, edits, faults>>

\* The answer, an error or the timeout reaches the dispatch beside the insertion.
DirectEnds(t) ==
    /\ direct[t] \in {"ok", "error"}
    /\ Mark(t, IF direct[t] = "ok" THEN "delegated" ELSE "failed")
    /\ direct' = [direct EXCEPT ![t] = "none"]
    /\ UNCHANGED <<state, origin, loop, fixer, listed, concordia, raced, edits, faults>>

-----------------------------------------------------------------------------
(* The retry loop: one row after the other, each with its awaits. *)

\* Mutant: a dispatch that its process did not survive is not taken up.
DueFailedOnly(t) ==
    /\ state[t] = "open"
    /\ \/ fix[t] = "failed" /\ t \in ripe
       \/ fix[t] = "null" /\ t \in fatal

Due(t) ==
    /\ state[t] = "open"
    /\ \/ fix[t] \in {"dispatching", "failed"} /\ t \in ripe
       \/ fix[t] = "null" /\ t \in fatal

LoopReads ==
    /\ loop.pc = "idle" /\ \E t \in Tasks : Due(t)
    /\ loop' = [Rest EXCEPT !.pc = "next", !.rows = {t \in Tasks : Due(t)}]
    /\ raced' = raced \cup {t \in Tasks : Due(t) /\ direct[t] = "insert"}
    /\ UNCHANGED <<db, direct, fixer, listed, concordia, edits, faults>>

NextRow == [loop EXCEPT !.pc = "next", !.at = None, !.reply = "none"]

\* Mutant: a retry is sent without asking for a run that exists.
LoopNextUnasked ==
    /\ loop.pc = "next"
    /\ \/ loop.rows = {} /\ loop' = Rest
       \/ \E t \in loop.rows :
              loop' = [loop EXCEPT !.rows = @ \ {t},
                                   !.pc = IF listed THEN "reply" ELSE "next",
                                   !.at = IF listed THEN t ELSE None,
                                   !.reply = IF listed THEN "not_found" ELSE "none"]
    /\ UNCHANGED <<db, direct, fixer, listed, concordia, raced, edits, faults>>

\* The rows were read before; the next one is reconciled, or skipped when its
\* service is not in the catalog.
LoopNext ==
    /\ loop.pc = "next"
    /\ \/ loop.rows = {} /\ loop' = Rest
       \/ \E t \in loop.rows :
              loop' = [loop EXCEPT !.rows = @ \ {t},
                                   !.pc = IF listed THEN "ask" ELSE "next",
                                   !.at = IF listed THEN t ELSE None]
    /\ UNCHANGED <<db, direct, fixer, listed, concordia, raced, edits, faults>>

\* Concordia lists its runs, or does not answer usably.
Reconcile ==
    /\ loop.pc = "ask"
    /\ \/ /\ loop' = [loop EXCEPT !.pc = "reply",
                          !.reply = IF runs[loop.at] > 0 THEN "found" ELSE "not_found"]
          /\ UNCHANGED faults
       \/ Fault("fail") /\ loop' = [loop EXCEPT !.pc = "reply", !.reply = "unavailable"]
    /\ UNCHANGED <<db, direct, fixer, listed, concordia, raced, edits>>

\* reconcileConcordiaDispatch returns; only "not_found" is dispatched again.
LoopReplied ==
    /\ loop.pc = "reply"
    /\ \/ loop.reply = "found" /\ Mark(loop.at, "delegated") /\ loop' = NextRow
       \/ loop.reply = "unavailable" /\ Mark(loop.at, "failed") /\ loop' = NextRow
       \/ /\ loop.reply = "not_found" /\ Mark(loop.at, "dispatching")
          /\ loop' = [loop EXCEPT !.pc = "wait", !.reply = "none"]
    /\ UNCHANGED <<state, origin, direct, fixer, listed, concordia, raced, edits, faults>>

\* Mutant: the loop does not let go of the row whose answer came.
LoopEndsHolding ==
    /\ loop.pc \in {"ok", "error"}
    /\ Mark(loop.at, IF loop.pc = "ok" THEN "delegated" ELSE "failed")
    /\ loop' = [loop EXCEPT !.pc = "next"]
    /\ UNCHANGED <<state, origin, direct, fixer, listed, concordia, raced, edits, faults>>

LoopEnds ==
    /\ loop.pc \in {"ok", "error"}
    /\ Mark(loop.at, IF loop.pc = "ok" THEN "delegated" ELSE "failed") /\ loop' = NextRow
    /\ UNCHANGED <<state, origin, direct, fixer, listed, concordia, raced, edits, faults>>

-----------------------------------------------------------------------------
(* Concordia and the network.  A request of either caller is carried out and *)
(* answered; the request or its answer may be lost, refused or come late.    *)

\* The callers that wait for an answer about t, and what they see next.
Sees(t, from, to) ==
    \/ direct[t] = from /\ direct' = [direct EXCEPT ![t] = to] /\ UNCHANGED loop
    \/ loop.at = t /\ loop.pc = from /\ loop' = [loop EXCEPT !.pc = to] /\ UNCHANGED direct

CarryOut(t) ==
    /\ Sees(t, "wait", "ok")
    /\ runs' = [runs EXCEPT ![t] = @ + 1]
    /\ UNCHANGED <<db, fixer, listed, stray, overtaken, raced, edits, faults>>

\* Refused, unreachable, or carried out with the answer lost.
AnswerFails(t) ==
    /\ Fault("fail")
    /\ Sees(t, "wait", "error") \/ Sees(t, "ok", "error")
    /\ UNCHANGED <<db, fixer, listed, concordia, raced, edits>>

\* The caller times out before Concordia has carried the request out.
TimesOut(t) ==
    /\ Fault("late")
    /\ Sees(t, "wait", "error")
    /\ stray' = [stray EXCEPT ![t] = @ + 1]
    /\ UNCHANGED <<db, fixer, listed, runs, overtaken, raced, edits>>

\* A stray is overtaken if a run exists, or Concordia was asked for one since.
Overtaken(t) ==
    \/ runs[t] > 0 \/ direct[t] = "wait"
    \/ loop.at = t /\ (loop.pc = "wait" \/ loop.reply = "not_found")

CarryOutStray(t) ==
    /\ stray[t] > 0 /\ stray' = [stray EXCEPT ![t] = @ - 1]
    /\ runs' = [runs EXCEPT ![t] = @ + 1]
    /\ overtaken' = IF Overtaken(t) THEN [overtaken EXCEPT ![t] = @ + 1] ELSE overtaken
    /\ UNCHANGED <<db, callers, listed, raced, edits, faults>>

\* A process dies and is started again; a request that Concordia has received
\* is carried out all the same.  With nothing under way nothing is lost.
Crash(p) ==
    /\ Fault("crash")
    /\ \/ \E t \in Tasks : origin[t] = p /\ direct[t] # "none"
       \/ p = "backend" /\ (loop # Rest \/ fixer # None)
    /\ LET waits == {t \in Tasks : origin[t] = p /\ direct[t] = "wait"}
           asked == IF p = "backend" /\ loop.pc = "wait" THEN {loop.at} ELSE {}
       IN  \E received \in {TRUE, FALSE} :
               stray' = IF received
                        THEN [t \in Tasks |-> stray[t] + Cardinality({w \in waits : w = t})
                                                       + Cardinality({a \in asked : a = t})]
                        ELSE stray
    /\ direct' = [t \in Tasks |-> IF origin[t] = p THEN "none" ELSE direct[t]]
    /\ IF p = "backend" THEN loop' = Rest /\ fixer' = None ELSE UNCHANGED <<loop, fixer>>
    /\ UNCHANGED <<db, listed, runs, overtaken, raced, edits>>

-----------------------------------------------------------------------------
(* People. *)

\* PATCH of the task's state.
Patch(t) ==
    /\ state[t] # "none" /\ Edit
    /\ state' = [state EXCEPT ![t] = IF @ = "open" THEN "closed" ELSE "open"]
    /\ ripe' = IF fix[t] = "dispatching" THEN ripe \ {t} ELSE ripe
    /\ UNCHANGED <<fatal, origin, fix, callers, listed, concordia, raced, faults>>

\* runAutoFix: one at a time for the service, whatever the row holds.
StartRepair(t) ==
    /\ state[t] # "none" /\ listed /\ fixer = None /\ Edit
    /\ Mark(t, "running") /\ fixer' = t
    /\ UNCHANGED <<state, origin, direct, loop, listed, concordia, raced, faults>>

EndRepair(outcome) ==
    /\ fixer # None /\ outcome \in Repair \ {"running"}
    /\ Mark(fixer, outcome) /\ fixer' = None
    /\ state' = IF outcome = "succeeded" THEN [state EXCEPT ![fixer] = "closed"] ELSE state
    /\ UNCHANGED <<origin, direct, loop, listed, concordia, raced, edits, faults>>

ReloadCatalog ==
    /\ Edit /\ listed' = ~listed
    /\ UNCHANGED <<db, callers, concordia, raced, faults>>

-----------------------------------------------------------------------------
LoopStep == LoopReads \/ LoopNext \/ Reconcile \/ LoopReplied \/ LoopEnds
DirectStep(t) == Raised(t) \/ DirectEnds(t)

Next ==
    \/ LoopStep \/ ReloadCatalog
    \/ \E p \in Processes : Crash(p)
    \/ \E outcome \in Repair : EndRepair(outcome)
    \/ \E t \in Tasks :
           \/ Hit(t, TRUE) \/ Hit(t, FALSE) \/ HitAgain(t) \/ Raise(t) \/ DirectStep(t) \/ Ripen(t)
           \/ CarryOut(t) \/ AnswerFails(t) \/ TimesOut(t) \/ CarryOutStray(t)
           \/ Patch(t) \/ StartRepair(t)

Spec == Init /\ [][Next]_vars

\* The loop is armed again after every tick, time passes, and Concordia answers
\* or the request times out.
Fairness ==
    /\ WF_vars(LoopStep)
    /\ \A t \in Tasks : WF_vars(DirectStep(t)) /\ WF_vars(CarryOut(t)) /\ WF_vars(Ripen(t))

FairSpec == Spec /\ Fairness

-----------------------------------------------------------------------------
(* Properties. *)

\* Every variable holds a value of its type, the loop is at a row exactly when
\* it asks or waits, and a row that was never marked was never delegated.
TypeOK ==
    /\ state \in [Tasks -> {"none", "open", "closed"}] /\ fatal \subseteq Tasks
    /\ origin \in [Tasks -> Processes]
    /\ fix \in [Tasks -> {"null"} \cup Delegation \cup Repair] /\ ripe \subseteq Tasks
    /\ direct \in [Tasks -> {"none", "insert", "wait", "ok", "error"}]
    /\ loop \in [pc : {"idle", "next", "ask", "reply", "wait", "ok", "error"}, rows : SUBSET Tasks,
                 at : Tasks \cup {None}, reply : {"none", "found", "not_found", "unavailable"}]
    /\ loop.at # None <=> loop.pc \notin {"idle", "next"}
    /\ fixer \in Tasks \cup {None} /\ listed \in BOOLEAN
    /\ runs \in [Tasks -> Nat] /\ stray \in [Tasks -> Nat] /\ overtaken \in [Tasks -> Nat]
    /\ \A t \in Tasks : fix[t] = "null" => runs[t] = 0 /\ direct[t] \in {"none", "insert"}
    /\ raced \subseteq Tasks /\ edits \in 0..MaxEdits /\ faults \in 0..MaxFaults

\* A crash is repaired once: failed, timed out and lost requests, retries,
\* crashes, a reopened task and the direct dispatch beside the loop do not
\* start a second run, except for a request that Concordia carried out after
\* it had been asked again, and a row read before it was marked.
OneDelegation ==
    \A t \in Tasks : runs[t] <= 1 + overtaken[t] + Cardinality({t} \cap raced)

\* What is known to be delegated stays so, until the built-in repair takes
\* over: no late failure of another request puts it back among the failed.
DelegatedSticks ==
    [][\A t \in Tasks : fix[t] = "delegated" =>
          fix'[t] \in {"delegated"} \cup Repair \/ t \in raced]_vars

\* An open crash that is fatal, or was ever sent, is delegated in the end,
\* unless it is closed, the built-in repair takes it, or the service leaves
\* the catalog.
CrashIsHandled ==
    \A t \in Tasks :
        state[t] = "open" /\ (t \in fatal \/ fix[t] \in {"dispatching", "failed"}) ~>
            state[t] = "closed" \/ fix[t] \in {"delegated"} \cup Repair \/ ~listed

\* The two repairs of one crash exclude each other.
NoTwoRepairs == \A t \in Tasks : fixer = t => ~Waiting(t)

\* A task that was closed is not delegated any more.
ClosedStaysQuiet ==
    [][\A t \in Tasks : state[t] = "closed" /\ fix'[t] = "dispatching"
                        => fix[t] = "dispatching"]_vars
=============================================================================
