-------------------------- MODULE DailyTransaction --------------------------
(***************************************************************************)
(* A daily update of a site's repositories (update/daily/scheduler.ts,     *)
(* transaction.ts, runtime.ts): one repository after the other is stopped, *)
(* merged, built and started again; a failure at any step rolls it back to *)
(* where it was, and a supervisor that boots over an unfinished run rolls  *)
(* back what its checkpoint names.                                         *)
(*                                                                         *)
(* A repository is its HEAD, its submodules, what its last build made, and *)
(* its services, each stopped or running the build it was started from.    *)
(* Every save of the run is synchronous, so the row in the database is the *)
(* run.  The phase of a checkpoint is left out: no code reads it.  The     *)
(* exclusion of other operations is in module UpdateExclusion; what a stop *)
(* or a start does in ProcessManager and BackendController.                *)
(***************************************************************************)
EXTENDS Integers, FiniteSets

CONSTANTS
    NumRepos,     \* repositories, updated in this order
    Members,      \* the services of one repository
    SelfRepos,    \* repositories with a service "excubitor"
    MaxFaults,    \* bound: steps that fail, crashes, external changes
    MaxRetries    \* bound: recoveries asked for by an operator

ASSUME DailyAssumption ==
    /\ NumRepos \in Nat \ {0}
    /\ IsFiniteSet(Members) /\ SelfRepos \subseteq 1..NumRepos
    /\ MaxFaults \in Nat /\ MaxRetries \in Nat

\* No checkpoint.
None == [repo |-> 0, running |-> {}]

Repos == 1..NumRepos
Services == Repos \X Members
Versions == {"before", "after"}

VARIABLES
    up,          \* the supervisor process runs
    closing,     \* its scheduler is closing
    pc,          \* the next step of the run, "idle" between runs
    dir,         \* "update" or "rollback"
    mode,        \* "tick" (repository after repository) or "recover"
    repo,        \* the repository the run is at
    todo,        \* services of it that are still to be stopped or started
    bad,         \* a stop failed
    status,      \* db: "none" (no run today), "running", "succeeded", "failed"
    checkpoint,  \* db: of the run: its repository and the services that ran
    blemish,     \* db: an event of the run is neither "updated" nor "unchanged"
    head,        \* per repository: a version, or "other" (changed externally)
    dirty,       \* repositories with local changes
    sub,         \* its submodules: a version or "mixed"
    dist,        \* its build: a version or "partial"
    proc,        \* per service: "off" or the build it runs
    wanted,      \* services that ran before the update; the catalog autostarts them
    killed,      \* ghost: services a restart of the machine ended
    foreign,     \* ghost: repositories changed externally during the run
    late,        \* ghost: those changed between a check and the git command after it
    faults, retries

run == <<status, checkpoint, blemish>>
memory == <<pc, dir, mode, repo, todo, bad>>
world == <<head, dirty, sub, dist, proc>>
ghosts == <<wanted, killed, foreign, late>>
vars == <<up, closing, memory, run, world, ghosts, faults, retries>>

To == IF dir = "update" THEN "after" ELSE "before"
Running == {m \in Members : proc[<<repo, m>>] # "off"}

Fault == faults < MaxFaults /\ faults' = faults + 1

Init ==
    /\ up = TRUE /\ closing = FALSE
    /\ pc = "idle" /\ dir = "update" /\ mode = "tick" /\ repo = 1 /\ todo = {} /\ bad = FALSE
    /\ status = "none" /\ checkpoint = None /\ blemish = FALSE
    /\ head = [r \in Repos |-> "before"] /\ dirty = {}
    /\ sub = [r \in Repos |-> "before"] /\ dist = [r \in Repos |-> "before"]
    /\ wanted \in SUBSET Services
    /\ proc = [s \in Services |-> IF s \in wanted THEN "before" ELSE "off"]
    /\ killed = {} /\ foreign = {} /\ late = {}
    /\ faults = 0 /\ retries = 0

-----------------------------------------------------------------------------
(* Steps of the run.  Each is enabled at its pc and goes on to another one. *)

At(step) == up /\ pc = step
Goto(step) == pc' = step /\ UNCHANGED <<dir, mode, repo, todo, bad>>

Rest == <<up, closing, run, ghosts, retries>>

\* tick: a run is due.
Begin ==
    /\ At("idle") /\ ~closing /\ status = "none"
    /\ status' = "running"
    /\ pc' = "next" /\ mode' = "tick" /\ repo' = 1
    /\ UNCHANGED <<up, closing, dir, todo, bad, checkpoint, blemish, world, ghosts, faults, retries>>

\* The services to stop or start, the direction, and where the steps begin.
Enter(direction, step, services) ==
    pc' = step /\ dir' = direction /\ todo' = services /\ bad' = FALSE

\* finish: the run's result is what its events say.
Finish(event) ==
    /\ pc' = "idle"
    /\ blemish' = event
    /\ status' = IF event THEN "failed" ELSE "succeeded"

\* The loop over the repositories ends with the last one or with a close.
Loop ==
    /\ At("next") /\ (closing \/ repo > NumRepos)
    /\ Finish(blemish \/ closing)
    /\ UNCHANGED <<up, closing, dir, mode, repo, todo, bad, checkpoint, world, ghosts, faults, retries>>

\* The requests in flight, the catalog or the list of repositories fail.
Abandon ==
    /\ At("next") /\ repo = 1
    /\ Fault /\ Finish(TRUE)
    /\ UNCHANGED <<up, closing, dir, mode, repo, todo, bad, checkpoint, world, ghosts, retries>>

\* prepareRepository finds nothing new, or refuses the repository.
Skip ==
    /\ At("next") /\ ~closing /\ repo <= NumRepos
    /\ repo' = repo + 1
    /\ \/ blemish' = blemish /\ UNCHANGED faults
       \/ blemish' = TRUE /\ Fault
    /\ UNCHANGED <<up, closing, pc, dir, mode, todo, bad, status, checkpoint, world, ghosts, retries>>

\* There is a newer version: the checkpoint is saved before anything changes.
Prepare ==
    /\ At("next") /\ ~closing /\ repo <= NumRepos
    /\ head[repo] = "before" /\ repo \notin dirty
    /\ checkpoint' = [repo |-> repo, running |-> Running]
    /\ Enter("update", "stop", Running)
    /\ UNCHANGED <<up, closing, mode, repo, status, blemish, world, ghosts, faults, retries>>

\* Mutant: a failed rollback is passed over.
FailsOn ==
    IF dir = "update"
    THEN /\ Enter("rollback", "stop", checkpoint.running)
         /\ blemish' = TRUE
         /\ UNCHANGED <<mode, repo, status, checkpoint>>
    ELSE /\ pc' = "next" /\ repo' = repo + 1
         /\ UNCHANGED <<dir, mode, todo, bad, run>>

\* A step of an update failed: roll back; a step of a rollback: give up.
Fails ==
    IF dir = "update"
    THEN /\ Enter("rollback", "stop", checkpoint.running)
         /\ blemish' = TRUE
         /\ UNCHANGED <<mode, repo, status, checkpoint>>
    ELSE Goto("fail") /\ UNCHANGED run

\* All stops are tried before a failed one is reported.
Stop(m) ==
    /\ up /\ pc \in {"stop", "unwind"} /\ m \in todo
    /\ todo' = todo \ {m}
    /\ \/ proc' = [proc EXCEPT ![<<repo, m>>] = "off"] /\ UNCHANGED <<bad, faults>>
       \/ m \in Running /\ Fault /\ bad' = TRUE /\ UNCHANGED proc
    /\ UNCHANGED <<pc, dir, mode, repo, Rest, head, dirty, sub, dist>>

Stopped ==
    /\ At("stop") /\ todo = {}
    /\ IF bad THEN Fails ELSE Goto("check") /\ UNCHANGED run
    /\ UNCHANGED <<up, closing, world, ghosts, faults, retries>>

\* assertExpectedRepository: the branch is where this run left it.
Mine(versions) == head[repo] \in versions /\ repo \notin dirty

\* Mutant: only the update looks at the repository.
CheckedUpdateOnly == dir = "rollback" \/ Mine({"before"})

Checked == Mine(IF dir = "update" THEN {"before"} ELSE Versions)

Check ==
    /\ At("check")
    /\ \/ Checked /\ Goto("move") /\ UNCHANGED <<run, faults>>
       \/ ~Checked /\ Fails /\ UNCHANGED faults
       \/ Checked /\ Fault /\ Fails
    /\ UNCHANGED <<up, closing, world, ghosts, retries>>

\* git merge --ff-only, or git reset --keep.
Move ==
    /\ At("move")
    /\ \/ /\ dir = "rollback" \/ head[repo] = "before"
          /\ head' = [head EXCEPT ![repo] = To]
          /\ \/ Goto("submodules") /\ UNCHANGED <<run, faults>>
             \/ Fault /\ Fails
       \/ /\ head' = head
          /\ \/ dir = "update" /\ head[repo] # "before" /\ UNCHANGED faults
             \/ Fault
          /\ Fails
    /\ UNCHANGED <<up, closing, dirty, sub, dist, proc, ghosts, retries>>

Submodules ==
    /\ At("submodules")
    /\ \/ sub' = [sub EXCEPT ![repo] = To] /\ Goto("catalog") /\ UNCHANGED <<run, faults>>
       \/ Fault /\ Fails /\ sub' \in {sub, [sub EXCEPT ![repo] = "mixed"]}
    /\ UNCHANGED <<up, closing, head, dirty, dist, proc, ghosts, retries>>

\* Mutant: a rollback does not build again.
AfterCatalogStarts == IF dir = "rollback" THEN "restart" ELSE "build"

AfterCatalog == "build"

\* The catalog is read again; an update accepts no moved or missing service.
ReadCatalog ==
    /\ At("catalog")
    /\ \/ Goto(AfterCatalog) /\ UNCHANGED <<run, faults>>
       \/ Fault /\ Fails
    /\ UNCHANGED <<up, closing, world, ghosts, retries>>

\* A failed build may leave local changes behind.
Build ==
    /\ At("build")
    /\ \/ /\ dist' = [dist EXCEPT ![repo] = To] /\ UNCHANGED <<dirty, run, faults>>
          /\ Goto(IF dir = "update" THEN "recheck" ELSE "restart")
       \/ /\ dist' = [dist EXCEPT ![repo] = "partial"]
          /\ dirty' \in {dirty, dirty \union {repo}}
          /\ Fault /\ Fails
    /\ UNCHANGED <<up, closing, head, sub, proc, ghosts, retries>>

Recheck ==
    /\ At("recheck")
    /\ \/ Mine({"after"}) /\ Goto("restart") /\ UNCHANGED <<run, faults>>
       \/ ~Mine({"after"}) /\ Fails /\ UNCHANGED faults
       \/ Fault /\ Fails
    /\ UNCHANGED <<up, closing, world, ghosts, retries>>

\* Only the services that ran are started.
Restart ==
    /\ At("restart")
    /\ pc' = "start" /\ todo' = checkpoint.running
    /\ UNCHANGED <<dir, mode, repo, bad, Rest, world, faults>>

\* A failed start, or no health within the time: a rollback stops what it
\* started before it gives up.
StartFails ==
    IF dir = "update" THEN Fails
    ELSE /\ pc' = "unwind" /\ todo' = checkpoint.running
         /\ UNCHANGED <<dir, mode, repo, bad, run>>

Start(m) ==
    /\ At("start") /\ m \in todo
    /\ \/ /\ proc' = [proc EXCEPT ![<<repo, m>>] = dist[repo]]
          /\ todo' = todo \ {m}
          /\ UNCHANGED <<pc, dir, mode, repo, bad, run, faults>>
       \/ Fault /\ StartFails /\ UNCHANGED proc
    /\ UNCHANGED <<up, closing, head, dirty, sub, dist, ghosts, retries>>

\* waitDailyHealthy.
Healthy ==
    /\ At("start") /\ todo = {}
    /\ \/ Goto("commit") /\ UNCHANGED <<run, faults>>
       \/ checkpoint.running # {} /\ Fault /\ StartFails
    /\ UNCHANGED <<up, closing, world, ghosts, retries>>

\* The repository is done: the checkpoint is cleared and the run goes on to
\* the next one, or ends when it was a recovery.  An update of Excubitor itself
\* leaves the old supervisor running, and an event says so.
Commit ==
    /\ At("commit")
    /\ checkpoint' = None
    /\ killed' = killed \ {<<repo, m>> : m \in checkpoint.running}
    /\ IF mode = "tick"
       THEN /\ pc' = "next" /\ repo' = repo + 1
            /\ blemish' = (blemish \/ dir = "rollback" \/ repo \in SelfRepos)
            /\ UNCHANGED status
       ELSE Finish(TRUE) /\ UNCHANGED repo
    /\ UNCHANGED <<up, closing, dir, mode, todo, bad, world, wanted, foreign, late, faults, retries>>

Unwound ==
    /\ At("unwind") /\ todo = {}
    /\ Goto("fail")
    /\ UNCHANGED <<Rest, world, faults>>

\* Mutant: a failed recovery does not end the run.
FailAgain ==
    /\ At("fail")
    /\ pc' = "idle" /\ blemish' = TRUE
    /\ UNCHANGED <<up, closing, dir, mode, repo, todo, bad, status, checkpoint, world, ghosts, faults, retries>>

\* failRecovery: the run ends and its checkpoint stays.
Fail ==
    /\ At("fail")
    /\ Finish(TRUE)
    /\ UNCHANGED <<up, closing, dir, mode, repo, todo, bad, checkpoint, world, ghosts, faults, retries>>

\* An unfinished run, found at a boot or reopened by an operator.
Recover ==
    /\ At("idle") /\ ~closing /\ status = "running"
    /\ IF checkpoint = None
       THEN Finish(TRUE) /\ UNCHANGED <<dir, mode, repo, todo, bad, checkpoint>>
       ELSE /\ Enter("rollback", "stop", checkpoint.running)
            /\ mode' = "recover" /\ repo' = checkpoint.repo
            /\ UNCHANGED run
    /\ UNCHANGED <<up, closing, world, ghosts, faults, retries>>

-----------------------------------------------------------------------------
(* The supervisor and what happens around it. *)

Close ==
    /\ up /\ ~closing
    /\ closing' = TRUE
    /\ UNCHANGED <<up, memory, run, world, ghosts, faults, retries>>

Down == up' = FALSE /\ closing' = FALSE /\ Goto("idle") /\ UNCHANGED <<run, head, dirty, sub, dist, retries>>

Exit ==
    /\ closing /\ At("idle") /\ Down
    /\ UNCHANGED <<proc, ghosts, faults>>

\* The supervisor dies at any point, alone or with the whole machine.
Crash ==
    /\ up /\ Fault /\ Down
    /\ \/ UNCHANGED <<proc, killed>>
       \/ /\ proc' = [s \in Services |-> "off"]
          /\ killed' = killed \union {s \in Services : proc[s] # "off"}
    /\ UNCHANGED <<wanted, foreign, late>>

\* A boot starts the services of the catalog, except over an unfinished run.
Autostarts == status # "running"

Boot ==
    /\ ~up /\ up' = TRUE
    /\ IF Autostarts
       THEN /\ proc' = [s \in Services |-> IF s \in wanted /\ proc[s] = "off"
                                           THEN dist[s[1]] ELSE proc[s]]
            /\ killed' = killed \ wanted
       ELSE UNCHANGED <<proc, killed>>
    /\ UNCHANGED <<closing, memory, run, head, dirty, sub, dist, wanted, foreign, late, faults, retries>>

\* retryDailyRecovery (a request of an operator).
Retry ==
    /\ status = "failed" /\ checkpoint # None /\ retries < MaxRetries
    /\ status' = "running" /\ retries' = retries + 1
    /\ UNCHANGED <<up, closing, memory, checkpoint, blemish, world, ghosts, faults>>

\* Somebody commits to, or edits, the repository of the transaction.
External ==
    /\ checkpoint # None /\ Fault
    /\ LET r == checkpoint.repo
       IN  /\ \/ head' = [head EXCEPT ![r] = "other"] /\ UNCHANGED dirty
              \/ dirty' = dirty \union {r} /\ UNCHANGED head
           /\ foreign' = foreign \union {r}
           /\ late' = IF pc = "move" THEN late \union {r} ELSE late
    /\ UNCHANGED <<up, closing, memory, run, sub, dist, proc, wanted, killed, retries>>

Step ==
    \/ Begin \/ Loop \/ Abandon \/ Skip \/ Prepare \/ Stopped \/ Check \/ Move \/ Submodules
    \/ ReadCatalog \/ Build \/ Recheck \/ Restart \/ Healthy \/ Commit \/ Unwound
    \/ Fail \/ Recover
    \/ \E m \in Members : Stop(m) \/ Start(m)

Next == Step \/ Close \/ Exit \/ Crash \/ Boot \/ Retry \/ External

Spec == Init /\ [][Next]_vars

\* A step of the run ends, by its command or its time limit; a supervisor that
\* closed or died is started again, and is not closed each time before its
\* startup has come to the recovery, which a close waits for.
Fairness == WF_vars(Step) /\ SF_vars(Recover) /\ WF_vars(Exit) /\ WF_vars(Boot)

FairSpec == Spec /\ Fairness

-----------------------------------------------------------------------------
(* Properties. *)

\* Every variable holds a value of its type, a run that is not idle is the one
\* in the database, and its steps are at the repository of its checkpoint.
TypeOK ==
    /\ up \in BOOLEAN /\ closing \in BOOLEAN
    /\ dir \in {"update", "rollback"} /\ mode \in {"tick", "recover"} /\ bad \in BOOLEAN
    /\ repo \in 1..(NumRepos + 1) /\ todo \subseteq Members
    /\ status \in {"none", "running", "succeeded", "failed"} /\ blemish \in BOOLEAN
    /\ checkpoint = None \/ checkpoint \in [repo : Repos, running : SUBSET Members]
    /\ head \in [Repos -> Versions \union {"other"}] /\ dirty \subseteq Repos
    /\ sub \in [Repos -> Versions \union {"mixed"}]
    /\ dist \in [Repos -> Versions \union {"partial"}]
    /\ proc \in [Services -> Versions \union {"off", "partial"}]
    /\ killed \subseteq Services /\ foreign \subseteq Repos /\ late \subseteq foreign
    /\ pc # "idle" => up /\ status = "running"
    /\ pc \notin {"idle", "next"} <=> (pc # "idle" /\ checkpoint # None)
    /\ pc \notin {"idle", "next"} => checkpoint.repo = repo

\* The repository is entirely at one version, and exactly the services that
\* ran before run it; a restart of the machine may have ended some.
Whole(r) ==
    \E v \in Versions :
        /\ head[r] = v /\ sub[r] = v /\ dist[r] = v
        /\ \A m \in Members :
               IF <<r, m>> \in wanted
               THEN proc[<<r, m>>] = v \/ (proc[<<r, m>>] = "off" /\ <<r, m>> \in killed)
               ELSE proc[<<r, m>>] = "off"

\* However a run ends - completed, failed, rolled back, or recovered after
\* crashes in any phase of any repository - it leaves every repository whole,
\* or one of them under a checkpoint from which the recovery can be retried.
\* None that succeeded left the supervisor behind the code of its repository.
FinishedIsWhole ==
    status \in {"succeeded", "failed"} =>
        /\ status = "succeeded" =>
              checkpoint = None /\ \A r \in SelfRepos \ foreign : head[r] = "before"
        /\ \A r \in Repos \ foreign :
               \/ Whole(r)
               \/ checkpoint # None /\ checkpoint.repo = r

\* A commit somebody else makes is not reset away, unless it falls between the
\* check and the reset itself (the two are not atomic).  Of edits it says
\* nothing: git reset --keep leaves those alone or fails.
ForeignKept ==
    [][\A r \in Repos : head[r] = "other" /\ head'[r] # "other" => r \in late]_vars

\* A run ends, whatever fails and whenever the supervisor dies.
RunEnds == status = "running" ~> status # "running"

\* Once a supervisor has booted and no run is unfinished or unrecovered, the
\* services the catalog starts run.
AutostartHappens ==
    up /\ pc = "idle" /\ status # "running" /\ checkpoint = None =>
        \A s \in wanted : proc[s] # "off"
=============================================================================
