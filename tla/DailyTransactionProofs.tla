------------------------ MODULE DailyTransactionProofs ------------------------
(***************************************************************************)
(* What module DailyTransaction promises, proved for any number of         *)
(* repositories, any set of services in each and any number of faults.     *)
(*                                                                         *)
(* That a finished run leaves every repository whole is not inductive.     *)
(* RunInv says what the checkpoint stands for: it names exactly the        *)
(* services that ran, nothing else runs, and before the first crash of a   *)
(* run nothing has been killed.  PhaseInv says how far HEAD, the           *)
(* submodules, the build and the services of the repository in work are,   *)
(* and WholeInv that no other repository has been left half done: what is  *)
(* not whole is in the checkpoint.  LateInv says what the check before a   *)
(* reset has seen, and EventInv that a repository of Excubitor's own is    *)
(* not updated in silence.  Types first, then each part, each by one case  *)
(* per step.                                                               *)
(***************************************************************************)
EXTENDS DailyTransaction, TLAPS

\* The services of a repository that ran before the run.
Ran(r) == {m \in Members : <<r, m>> \in wanted}

\* What a run may assume of its checkpoint, and of the machine: until a crash
\* ends it, its first pass over the repositories finds every service running.
RunInv ==
    /\ checkpoint # None => status \in {"running", "failed"}
    /\ pc = "next" => mode = "tick"
    /\ killed \subseteq wanted
    /\ \A s \in Services : proc[s] # "off" => s \in wanted
    /\ up /\ (status = "none" \/ (pc # "idle" /\ mode = "tick")) => killed = {}
    /\ checkpoint # None => checkpoint.running \subseteq Ran(checkpoint.repo)
    /\ checkpoint # None /\ checkpoint.repo \notin foreign
           => Ran(checkpoint.repo) \subseteq checkpoint.running
    /\ pc = "start" => todo \subseteq checkpoint.running

\* How far the repository of the checkpoint is.
PhaseInv ==
    repo \notin foreign =>
        /\ pc \in {"submodules", "catalog", "build", "recheck", "restart", "start", "commit"} => head[repo] = To
        /\ pc \in {"catalog", "build", "recheck", "restart", "start", "commit"} => sub[repo] = To
        /\ pc \in {"recheck", "restart", "start", "commit"} => dist[repo] = To
        /\ pc = "start" => \A m \in checkpoint.running \ todo : proc[<<repo, m>>] = To
        /\ pc = "commit" => \A m \in checkpoint.running : proc[<<repo, m>>] = To

\* Only the repository of the checkpoint is not whole.
WholeInv ==
    \A r \in Repos \ foreign : Whole(r) \/ (checkpoint # None /\ checkpoint.repo = r)

\* The check before a reset has seen the branch.
LateInv == pc = "move" /\ head[repo] = "other" => repo \in late

\* A run whose events are all fine has not updated Excubitor itself, except for
\* a repository it is still at.
EventInv ==
    /\ status = "succeeded" => ~blemish
    /\ \A r \in SelfRepos \ foreign :
           head[r] = "after" => blemish \/ (checkpoint # None /\ checkpoint.repo = r)

IInv == TypeOK /\ RunInv /\ PhaseInv /\ WholeInv /\ LateInv /\ EventInv

-----------------------------------------------------------------------------
(* Every step keeps the invariant                                          *)

\* Its steps are at a repository.
LEMMA RepoTyped ==
    ASSUME TypeOK, pc \notin {"idle", "next"}
    PROVE  repo \in Repos /\ checkpoint # None /\ checkpoint.repo = repo
BY DEF TypeOK

\* Every step keeps the types.
LEMMA TypesKept ==
    ASSUME TypeOK, RunInv, Next
    PROVE  TypeOK'
<1>1. CASE Begin
    BY <1>1, DailyAssumption DEF Begin, At, world, ghosts, TypeOK, RunInv
<1>2. CASE Loop
    BY <1>2, DailyAssumption DEF Loop, At, Finish, world, ghosts, TypeOK
<1>3. CASE Abandon
    BY <1>3, DailyAssumption DEF Abandon, At, Fault, Finish, world, ghosts, TypeOK
<1>4. CASE Skip
  <2>1. repo + 1 \in 1..(NumRepos + 1)
      BY <1>4, DailyAssumption DEF Skip, TypeOK
  <2> QED BY <1>4, <2>1 DEF Skip, At, Fault, world, ghosts, TypeOK
<1>5. CASE Prepare
  <2>1. repo \in Repos /\ repo # 0 /\ Running \subseteq Members
      BY <1>5, DailyAssumption DEF Prepare, At, TypeOK, Repos, Running
  <2>2. /\ checkpoint' \in [repo : Repos, running : SUBSET Members] /\ checkpoint'.repo = repo
        /\ checkpoint' # None
      BY <1>5, <2>1 DEF Prepare, None
  <2> QED BY <1>5, <2>1, <2>2 DEF Prepare, At, Enter, world, ghosts, TypeOK, None
<1>6. ASSUME NEW m \in Members, Stop(m) PROVE TypeOK'
  <2>1. /\ UNCHANGED <<pc, dir, mode, repo, up, closing, status, checkpoint, blemish, wanted,
                     killed, foreign, late, head, dirty, sub, dist>>
        /\ todo' \subseteq todo /\ bad' \in {bad, TRUE}
        /\ proc' \in {proc, [proc EXCEPT ![<<repo, m>>] = "off"]}
      BY <1>6 DEF Stop, Rest, run, ghosts
  <2>2. proc' \in [Services -> Versions \union {"off", "partial"}]
      BY <2>1 DEF TypeOK
  <2> QED BY <2>1, <2>2 DEF TypeOK
<1>7. CASE Stopped
    BY <1>7, DailyAssumption DEF Stopped, At, Fails, Goto, run, world, ghosts, Enter, TypeOK
<1>8. CASE Check
    BY <1>8, DailyAssumption DEF Check, At, Goto, run, Fails, Fault, world, ghosts, Enter,
       TypeOK, To
<1>9. CASE Move
    BY <1>9, DailyAssumption, RepoTyped DEF Move, At, Goto, run, Fault, Fails, ghosts, Enter,
       TypeOK, Versions, To
<1>10. CASE Submodules
    BY <1>10, DailyAssumption, RepoTyped DEF Submodules, At, Goto, run, Fault, Fails, ghosts,
       Enter, TypeOK, Versions, To
<1>11. CASE ReadCatalog
    BY <1>11, DailyAssumption DEF ReadCatalog, At, Goto, AfterCatalog, run, Fault, Fails, world,
       ghosts, Enter, TypeOK
<1>12. CASE Build
    BY <1>12, DailyAssumption, RepoTyped DEF Build, At, run, Goto, Fault, Fails, ghosts, Enter,
       TypeOK, Versions, To
<1>13. CASE Recheck
    BY <1>13, DailyAssumption DEF Recheck, At, Goto, run, Fails, Fault, world, ghosts, Enter,
       TypeOK
<1>14. CASE Restart
    BY <1>14, DailyAssumption DEF Restart, At, Rest, world, run, ghosts, TypeOK
<1>15. ASSUME NEW m \in Members, Start(m) PROVE TypeOK'
    BY <1>15, DailyAssumption, RepoTyped DEF Start, At, run, Fault, StartFails, ghosts, Fails,
       Enter, Goto, TypeOK
<1>16. CASE Healthy
    BY <1>16, DailyAssumption DEF Healthy, At, Goto, run, Fault, StartFails, world, ghosts,
       Fails, Enter, TypeOK
<1>17. CASE Commit
  <2>1. repo + 1 \in 1..(NumRepos + 1)
      BY <1>17, DailyAssumption DEF Commit, At, TypeOK, Repos
  <2> QED BY <1>17, <2>1 DEF Commit, At, Finish, world, TypeOK
<1>18. CASE Unwound
    BY <1>18, DailyAssumption DEF Unwound, At, Goto, Rest, world, run, ghosts, TypeOK
<1>19. CASE Fail
    BY <1>19, DailyAssumption DEF Fail, At, Finish, world, ghosts, TypeOK
<1>20. CASE Recover
  <2>1. CASE checkpoint = None
      BY <1>20, <2>1 DEF Recover, At, Finish, world, ghosts, TypeOK
  <2>2. CASE checkpoint # None
    <3>1. checkpoint.repo \in 1..(NumRepos + 1) /\ checkpoint.running \subseteq Members
        BY <2>2, DailyAssumption DEF TypeOK, Repos
    <3> QED BY <1>20, <2>2, <3>1 DEF Recover, At, Enter, run, world, ghosts, TypeOK
  <2> QED BY <2>1, <2>2
<1>21. CASE Close
    BY <1>21, DailyAssumption DEF Close, memory, run, world, ghosts, TypeOK
<1>22. CASE Exit
    BY <1>22, DailyAssumption DEF Exit, At, Down, ghosts, Goto, run, TypeOK
<1>23. CASE Crash
    BY <1>23, DailyAssumption DEF Crash, Fault, Down, Goto, run, TypeOK
<1>24. CASE Boot
    BY <1>24, DailyAssumption DEF Boot, Autostarts, memory, run, TypeOK, Services
<1>25. CASE Retry
    BY <1>25, DailyAssumption DEF Retry, memory, world, ghosts, TypeOK
<1>26. CASE External
    BY <1>26, DailyAssumption DEF External, Fault, memory, run, TypeOK
<1> QED BY <1>1, <1>2, <1>3, <1>4, <1>5, <1>6, <1>7, <1>8, <1>9, <1>10, <1>11, <1>12, <1>13,
              <1>14, <1>15, <1>16, <1>17, <1>18, <1>19, <1>20, <1>21, <1>22, <1>23, <1>24,
              <1>25, <1>26 DEF Next, Step

\* Every step keeps what a run assumes.
LEMMA RunKept ==
    ASSUME TypeOK, RunInv, WholeInv, Next
    PROVE  RunInv'
<1>1. CASE Begin
    BY <1>1 DEF Begin, At, world, ghosts, RunInv, Ran
<1>2. CASE Loop
    BY <1>2 DEF Loop, At, Finish, world, ghosts, TypeOK, RunInv, Ran
<1>3. CASE Abandon
    BY <1>3 DEF Abandon, At, Fault, Finish, world, ghosts, RunInv, Ran
<1>4. CASE Skip
    BY <1>4 DEF Skip, At, Fault, world, ghosts, RunInv, Ran
<1>5. CASE Prepare
  <2>1. /\ repo \in Repos /\ up /\ mode = "tick" /\ status = "running" /\ pc' = "stop" /\ killed = {}
        /\ checkpoint' = [repo |-> repo, running |-> Running]
        /\ UNCHANGED <<up, mode, repo, status, wanted, killed, foreign, proc>>
      BY <1>5, DailyAssumption DEF Prepare, At, Enter, world, ghosts, TypeOK, RunInv, Repos
  <2>2. Running \subseteq Ran(repo)
      BY <2>1 DEF Running, Ran, RunInv, Services
  <2>3. ASSUME repo \notin foreign PROVE Ran(repo) \subseteq Running
    <3>1. Whole(repo)
        BY <1>5, <2>1, <2>3 DEF WholeInv, At, Prepare, TypeOK
    <3>2. \A m \in Members : <<repo, m>> \in wanted => proc[<<repo, m>>] \in Versions
        BY <2>1, <3>1 DEF Whole
    <3> QED BY <3>2 DEF Ran, Running, Versions
  <2>4. Ran(repo)' = Ran(repo)
      BY <2>1 DEF Ran
  <2> QED BY <2>1, <2>2, <2>3, <2>4 DEF RunInv, Ran
<1>6. ASSUME NEW m \in Members, Stop(m) PROVE RunInv'
    BY <1>6 DEF Stop, Fault, Rest, run, ghosts, TypeOK, RunInv, Ran
<1>7. CASE Stopped
    BY <1>7 DEF Stopped, At, Fails, Goto, run, world, ghosts, Enter, RunInv, Ran
<1>8. CASE Check
    BY <1>8 DEF Check, At, Goto, run, Fails, Fault, world, ghosts, Enter, RunInv, Ran
<1>9. CASE Move
    BY <1>9 DEF Move, At, Goto, run, Fault, Fails, ghosts, Enter, RunInv, Ran
<1>10. CASE Submodules
    BY <1>10 DEF Submodules, At, Goto, run, Fault, Fails, ghosts, Enter, RunInv, Ran
<1>11. CASE ReadCatalog
    BY <1>11 DEF ReadCatalog, At, Goto, AfterCatalog, run, Fault, Fails, world, ghosts, Enter,
       RunInv, Ran
<1>12. CASE Build
    BY <1>12 DEF Build, At, run, Goto, Fault, Fails, ghosts, Enter, RunInv, Ran
<1>13. CASE Recheck
    BY <1>13 DEF Recheck, At, Goto, run, Fails, Fault, world, ghosts, Enter, RunInv, Ran
<1>14. CASE Restart
    BY <1>14 DEF Restart, At, Rest, world, run, ghosts, RunInv, Ran
<1>15. ASSUME NEW m \in Members, Start(m) PROVE RunInv'
    BY <1>15 DEF Start, At, run, Fault, StartFails, ghosts, Fails, Enter, Goto, TypeOK, RunInv,
       Ran
<1>16. CASE Healthy
    BY <1>16 DEF Healthy, At, Goto, run, Fault, StartFails, world, ghosts, Fails, Enter, RunInv,
       Ran
<1>17. CASE Commit
    BY <1>17 DEF Commit, At, Finish, world, RunInv, Ran
<1>18. CASE Unwound
    BY <1>18 DEF Unwound, At, Goto, Rest, world, run, ghosts, RunInv, Ran
<1>19. CASE Fail
    BY <1>19 DEF Fail, At, Finish, world, ghosts, RunInv, Ran
<1>20. CASE Recover
    BY <1>20 DEF Recover, At, Finish, Enter, run, world, ghosts, RunInv, Ran
<1>21. CASE Close
    BY <1>21 DEF Close, memory, run, world, ghosts, RunInv, Ran
<1>22. CASE Exit
    BY <1>22 DEF Exit, At, Down, ghosts, Goto, run, RunInv, Ran
<1>23. CASE Crash
    BY <1>23 DEF Crash, Fault, Down, Goto, run, RunInv, Ran
<1>24. CASE Boot
  <2>1. /\ ~up /\ pc = "idle" /\ UNCHANGED <<pc, mode, status, checkpoint, todo, wanted, foreign>>
      BY <1>24 DEF Boot, memory, run, TypeOK
  <2>2. CASE status # "running"
    <3>1. /\ proc' = [s \in Services |-> IF s \in wanted /\ proc[s] = "off" THEN dist[s[1]] ELSE proc[s]]
          /\ killed' = killed \ wanted
        BY <1>24, <2>2 DEF Boot, Autostarts
    <3>2. killed' = {}
        BY <3>1 DEF RunInv
    <3>3. \A s \in Services : proc'[s] # "off" => s \in wanted'
        BY <2>1, <3>1 DEF RunInv
    <3> QED BY <2>1, <3>2, <3>3 DEF RunInv, Ran
  <2>3. CASE status = "running"
    <3>1. UNCHANGED <<proc, killed>>
        BY <1>24, <2>3 DEF Boot, Autostarts
    <3> QED BY <2>1, <2>3, <3>1 DEF RunInv, Ran
  <2> QED BY <2>2, <2>3
<1>25. CASE Retry
    BY <1>25 DEF Retry, memory, world, ghosts, RunInv, Ran
<1>26. CASE External
    BY <1>26 DEF External, Fault, memory, run, RunInv, Ran
<1> QED BY <1>1, <1>2, <1>3, <1>4, <1>5, <1>6, <1>7, <1>8, <1>9, <1>10, <1>11, <1>12, <1>13,
              <1>14, <1>15, <1>16, <1>17, <1>18, <1>19, <1>20, <1>21, <1>22, <1>23, <1>24,
              <1>25, <1>26 DEF Next, Step

\* Every step keeps the phases.
LEMMA PhaseKept ==
    ASSUME TypeOK, RunInv, PhaseInv, Next
    PROVE  PhaseInv'
<1>1. CASE Begin
    BY <1>1 DEF Begin, At, world, PhaseInv, To
<1>2. CASE Loop
    BY <1>2 DEF Loop, At, Finish, world, PhaseInv, To
<1>3. CASE Abandon
    BY <1>3 DEF Abandon, At, Fault, Finish, world, PhaseInv, To
<1>4. CASE Skip
    BY <1>4 DEF Skip, At, Fault, world, PhaseInv, To
<1>5. CASE Prepare
    BY <1>5 DEF Prepare, At, Enter, world, PhaseInv, To
<1>6. ASSUME NEW m \in Members, Stop(m) PROVE PhaseInv'
    BY <1>6 DEF Stop, Fault, Rest, run, PhaseInv, To
<1>7. CASE Stopped
    BY <1>7 DEF Stopped, At, Fails, Goto, run, world, Enter, PhaseInv, To
<1>8. CASE Check
    BY <1>8 DEF Check, At, Goto, run, Fails, Fault, world, Enter, PhaseInv, To
<1>9. CASE Move
  <2>1. repo \in Repos
      BY <1>9, RepoTyped DEF Move, At
  <2>2. CASE head' = [head EXCEPT ![repo] = To] /\ Goto("submodules")
    <3>1. head'[repo] = To /\ To' = To
        BY <2>1, <2>2 DEF TypeOK, Goto, To
    <3> QED BY <1>9, <2>2, <3>1 DEF Move, At, Goto, ghosts, PhaseInv
  <2>3. CASE Fails
    <3>1. pc' \in {"stop", "fail"}
        BY <2>3 DEF Fails, Enter, Goto
    <3> QED BY <3>1 DEF PhaseInv
  <2> QED BY <1>9, <2>2, <2>3 DEF Move
<1>10. CASE Submodules
  <2>1. repo \in Repos
      BY <1>10, RepoTyped DEF Submodules, At
  <2>2. CASE sub' = [sub EXCEPT ![repo] = To] /\ Goto("catalog")
    <3>1. sub'[repo] = To /\ To' = To
        BY <2>1, <2>2 DEF TypeOK, Goto, To
    <3> QED BY <1>10, <2>2, <3>1 DEF Submodules, At, Goto, ghosts, PhaseInv
  <2>3. CASE Fails
    <3>1. pc' \in {"stop", "fail"}
        BY <2>3 DEF Fails, Enter, Goto
    <3> QED BY <3>1 DEF PhaseInv
  <2> QED BY <1>10, <2>2, <2>3 DEF Submodules
<1>11. CASE ReadCatalog
    BY <1>11 DEF ReadCatalog, At, Goto, AfterCatalog, run, Fault, Fails, world, ghosts, Enter,
       PhaseInv, To
<1>12. CASE Build
  <2>1. repo \in Repos
      BY <1>12, RepoTyped DEF Build, At
  <2>2. CASE dist' = [dist EXCEPT ![repo] = To] /\ Goto(IF dir = "update" THEN "recheck" ELSE "restart")
    <3>1. dist'[repo] = To /\ To' = To
        BY <2>1, <2>2 DEF TypeOK, Goto, To
    <3> QED BY <1>12, <2>2, <3>1 DEF Build, At, Goto, ghosts, PhaseInv
  <2>3. CASE Fails
    <3>1. pc' \in {"stop", "fail"}
        BY <2>3 DEF Fails, Enter, Goto
    <3> QED BY <3>1 DEF PhaseInv
  <2> QED BY <1>12, <2>2, <2>3 DEF Build
<1>13. CASE Recheck
    BY <1>13 DEF Recheck, At, Goto, run, Fails, Fault, world, ghosts, Enter, PhaseInv, To
<1>14. CASE Restart
    BY <1>14 DEF Restart, At, Rest, world, run, ghosts, PhaseInv, To
<1>15. ASSUME NEW m \in Members, Start(m) PROVE PhaseInv'
  <2>1. /\ pc = "start" /\ m \in todo /\ checkpoint # None /\ checkpoint.repo = repo /\ repo \in Repos
        /\ UNCHANGED <<head, sub, dist, foreign>>
      BY <1>15 DEF Start, At, ghosts, TypeOK
  <2>2. CASE /\ proc' = [proc EXCEPT ![<<repo, m>>] = dist[repo]] /\ todo' = todo \ {m}
             /\ UNCHANGED <<pc, dir, mode, repo, bad, run>>
    <3>1. ASSUME repo \notin foreign, NEW n \in checkpoint.running \ todo' PROVE proc'[<<repo, n>>] = To
      <4>1. n \in Members /\ <<repo, n>> \in Services /\ proc \in [Services -> Versions \union {"off", "partial"}]
          BY <2>1 DEF TypeOK, Services
      <4>2. dist[repo] = To
          BY <2>1, <3>1 DEF PhaseInv
      <4>3. CASE n = m
          BY <2>2, <4>1, <4>2, <4>3
      <4>4. CASE n # m
        <5>1. n \notin todo /\ <<repo, n>> # <<repo, m>>
            BY <2>2, <3>1, <4>4
        <5>2. proc[<<repo, n>>] = To
            BY <2>1, <3>1, <5>1 DEF PhaseInv
        <5> QED BY <2>2, <4>1, <5>1, <5>2
      <4> QED BY <4>3, <4>4
    <3> QED BY <2>1, <2>2, <3>1 DEF PhaseInv, run, To
  <2>3. CASE StartFails /\ UNCHANGED proc
      BY <2>1, <2>3 DEF StartFails, Fails, Enter, Goto, PhaseInv
  <2> QED BY <1>15, <2>2, <2>3 DEF Start
<1>16. CASE Healthy
    BY <1>16 DEF Healthy, At, Goto, run, Fault, StartFails, world, ghosts, Fails, Enter,
       PhaseInv, To
<1>17. CASE Commit
    BY <1>17 DEF Commit, At, Finish, world, PhaseInv, To
<1>18. CASE Unwound
    BY <1>18 DEF Unwound, At, Goto, Rest, world, run, PhaseInv, To
<1>19. CASE Fail
    BY <1>19 DEF Fail, At, Finish, world, PhaseInv, To
<1>20. CASE Recover
    BY <1>20 DEF Recover, At, Finish, Enter, run, world, PhaseInv, To
<1>21. CASE Close
    BY <1>21 DEF Close, memory, run, world, ghosts, PhaseInv, To
<1>22. CASE Exit
    BY <1>22 DEF Exit, At, Down, Goto, run, PhaseInv, To
<1>23. CASE Crash
    BY <1>23 DEF Crash, Fault, Down, Goto, run, PhaseInv, To
<1>24. CASE Boot
    BY <1>24 DEF Boot, Autostarts, memory, run, TypeOK, PhaseInv, To
<1>25. CASE Retry
    BY <1>25 DEF Retry, memory, world, ghosts, PhaseInv, To
<1>26. CASE External
    BY <1>26 DEF External, Fault, memory, run, TypeOK, PhaseInv, To
<1> QED BY <1>1, <1>2, <1>3, <1>4, <1>5, <1>6, <1>7, <1>8, <1>9, <1>10, <1>11, <1>12, <1>13,
              <1>14, <1>15, <1>16, <1>17, <1>18, <1>19, <1>20, <1>21, <1>22, <1>23, <1>24,
              <1>25, <1>26 DEF Next, Step

\* Every step keeps LateInv.
LEMMA LateKept ==
    ASSUME TypeOK, LateInv, Next
    PROVE  LateInv'
<1>1. CASE Begin
    BY <1>1 DEF Begin, At, world, LateInv
<1>2. CASE Loop
    BY <1>2 DEF Loop, At, Finish, world, LateInv
<1>3. CASE Abandon
    BY <1>3 DEF Abandon, At, Fault, Finish, world, LateInv
<1>4. CASE Skip
    BY <1>4 DEF Skip, At, Fault, world, LateInv
<1>5. CASE Prepare
    BY <1>5 DEF Prepare, At, world, LateInv
<1>6. ASSUME NEW m \in Members, Stop(m) PROVE LateInv'
    BY <1>6 DEF Stop, Fault, Rest, run, LateInv
<1>7. CASE Stopped
    BY <1>7 DEF Stopped, At, Fails, Goto, run, world, Enter, LateInv
<1>8. CASE Check
    BY <1>8 DEF Check, At, Goto, run, Fails, Fault, world, Enter, LateInv, Versions, Checked,
       Mine
<1>9. CASE Move
    BY <1>9 DEF Move, At, Goto, run, Fault, Fails, Enter, LateInv
<1>10. CASE Submodules
    BY <1>10 DEF Submodules, At, Goto, run, Fault, Fails, Enter, LateInv
<1>11. CASE ReadCatalog
    BY <1>11 DEF ReadCatalog, At, Goto, AfterCatalog, run, Fault, Fails, world, Enter, LateInv
<1>12. CASE Build
    BY <1>12 DEF Build, At, run, Goto, Fault, Fails, Enter, LateInv
<1>13. CASE Recheck
    BY <1>13 DEF Recheck, At, Goto, run, Fails, Fault, world, Enter, LateInv
<1>14. CASE Restart
    BY <1>14 DEF Restart, At, Rest, world, run, LateInv
<1>15. ASSUME NEW m \in Members, Start(m) PROVE LateInv'
    BY <1>15 DEF Start, At, run, Fault, StartFails, Fails, Enter, Goto, LateInv
<1>16. CASE Healthy
    BY <1>16 DEF Healthy, At, Goto, run, Fault, StartFails, world, Fails, Enter, LateInv
<1>17. CASE Commit
    BY <1>17 DEF Commit, At, Finish, world, LateInv
<1>18. CASE Unwound
    BY <1>18 DEF Unwound, At, Goto, Rest, world, run, LateInv
<1>19. CASE Fail
    BY <1>19 DEF Fail, At, Finish, world, LateInv
<1>20. CASE Recover
    BY <1>20 DEF Recover, At, Finish, Enter, run, world, LateInv
<1>21. CASE Close
    BY <1>21 DEF Close, memory, run, world, ghosts, LateInv
<1>22. CASE Exit
    BY <1>22 DEF Exit, At, Down, Goto, run, LateInv
<1>23. CASE Crash
    BY <1>23 DEF Crash, Fault, Down, Goto, run, LateInv
<1>24. CASE Boot
    BY <1>24 DEF Boot, Autostarts, memory, run, LateInv
<1>25. CASE Retry
    BY <1>25 DEF Retry, memory, world, ghosts, LateInv
<1>26. CASE External
    BY <1>26 DEF External, Fault, memory, run, TypeOK, LateInv
<1> QED BY <1>1, <1>2, <1>3, <1>4, <1>5, <1>6, <1>7, <1>8, <1>9, <1>10, <1>11, <1>12, <1>13,
              <1>14, <1>15, <1>16, <1>17, <1>18, <1>19, <1>20, <1>21, <1>22, <1>23, <1>24,
              <1>25, <1>26 DEF Next, Step

\* Every step keeps what the events say of Excubitor's own repository.
LEMMA EventKept ==
    ASSUME TypeOK, RunInv, PhaseInv, EventInv, Next
    PROVE  EventInv'
<1>1. CASE Begin
    BY <1>1 DEF Begin, At, world, EventInv, TypeOK, run, ghosts, memory
<1>2. CASE Loop
    BY <1>2 DEF Loop, At, Finish, world, EventInv, TypeOK, run, ghosts
<1>3. CASE Abandon
    BY <1>3 DEF Abandon, At, Fault, Finish, world, EventInv, TypeOK, run, ghosts
<1>4. CASE Skip
    BY <1>4 DEF Skip, At, Fault, world, EventInv, TypeOK, run, ghosts
<1>5. CASE Prepare
    BY <1>5 DEF Prepare, At, world, EventInv, TypeOK, run, ghosts
<1>6. ASSUME NEW m \in Members, Stop(m) PROVE EventInv'
    BY <1>6 DEF Stop, Fault, Rest, run, EventInv, TypeOK, world, ghosts
<1>7. CASE Stopped
    BY <1>7 DEF Stopped, At, Fails, Goto, run, world, Enter, EventInv, TypeOK, ghosts
<1>8. CASE Check
    BY <1>8 DEF Check, At, Goto, run, Fails, Fault, world, Enter, EventInv, TypeOK, Versions, Checked,
       Mine, ghosts
<1>9. CASE Move
  <2>1. /\ checkpoint' = checkpoint
        /\ head' \in {head, [head EXCEPT ![checkpoint.repo] = To]}
      BY <1>9, RepoTyped DEF Move, At, Goto, run, Fails
  <2>2. UNCHANGED <<status, foreign>> /\ status = "running" /\ (blemish => blemish')
      BY <1>9 DEF Move, At, Goto, run, Fails, Enter, ghosts, TypeOK
  <2>3. \A r \in Repos : head'[r] = head[r] \/ (checkpoint # None /\ checkpoint.repo = r)
      BY <1>9, <2>1, RepoTyped DEF Move, At, TypeOK
  <2>4. SelfRepos \subseteq Repos
      BY DailyAssumption DEF Repos
  <2> QED BY <2>1, <2>2, <2>3, <2>4 DEF EventInv
<1>10. CASE Submodules
    BY <1>10 DEF Submodules, At, Goto, run, Fault, Fails, Enter, EventInv, TypeOK, world, ghosts
<1>11. CASE ReadCatalog
    BY <1>11 DEF ReadCatalog, At, Goto, AfterCatalog, run, Fault, Fails, world, Enter, EventInv,
       TypeOK, ghosts
<1>12. CASE Build
    BY <1>12 DEF Build, At, run, Goto, Fault, Fails, Enter, EventInv, TypeOK, world, ghosts
<1>13. CASE Recheck
    BY <1>13 DEF Recheck, At, Goto, run, Fails, Fault, world, Enter, EventInv, TypeOK, ghosts
<1>14. CASE Restart
    BY <1>14 DEF Restart, At, Rest, world, run, EventInv, TypeOK, ghosts
<1>15. ASSUME NEW m \in Members, Start(m) PROVE EventInv'
    BY <1>15 DEF Start, At, run, Fault, StartFails, Fails, Enter, Goto, EventInv, TypeOK, world,
       ghosts
<1>16. CASE Healthy
    BY <1>16 DEF Healthy, At, Goto, run, Fault, StartFails, world, Fails, Enter, EventInv, TypeOK,
       ghosts
<1>17. CASE Commit
  <2>1. /\ pc = "commit" /\ checkpoint # None /\ checkpoint.repo = repo /\ checkpoint' = None
        /\ UNCHANGED <<head, foreign, dir>> /\ status = "running"
      BY <1>17 DEF Commit, At, world, TypeOK
  <2>2. \/ status' = "running" /\ blemish' = (blemish \/ dir = "rollback" \/ repo \in SelfRepos)
        \/ status' = "failed" /\ blemish' = TRUE
      BY <1>17, <2>1 DEF Commit, Finish
  <2>3. repo \notin foreign /\ dir # "update" => head[repo] = "before"
      BY <2>1 DEF PhaseInv, To
  <2> QED BY <2>1, <2>2, <2>3 DEF EventInv
<1>18. CASE Unwound
    BY <1>18 DEF Unwound, At, Goto, Rest, world, run, EventInv, TypeOK, ghosts
<1>19. CASE Fail
    BY <1>19 DEF Fail, At, Finish, world, EventInv, TypeOK, run, ghosts
<1>20. CASE Recover
    BY <1>20 DEF Recover, At, Finish, Enter, run, world, EventInv, TypeOK, ghosts
<1>21. CASE Close
    BY <1>21 DEF Close, memory, run, world, ghosts, EventInv, TypeOK
<1>22. CASE Exit
    BY <1>22 DEF Exit, At, Down, Goto, run, EventInv, TypeOK, world, ghosts
<1>23. CASE Crash
    BY <1>23 DEF Crash, Fault, Down, Goto, run, EventInv, TypeOK, world, ghosts
<1>24. CASE Boot
    BY <1>24 DEF Boot, Autostarts, memory, run, EventInv, TypeOK, world, ghosts
<1>25. CASE Retry
    BY <1>25 DEF Retry, memory, world, ghosts, EventInv, TypeOK, run
<1>26. CASE External
  <2>1. /\ UNCHANGED <<status, blemish, checkpoint>> /\ foreign' = foreign \union {checkpoint.repo}
        /\ head' \in {head, [head EXCEPT ![checkpoint.repo] = "other"]}
      BY <1>26 DEF External, run
  <2>2. SelfRepos \subseteq DOMAIN head
      BY DailyAssumption DEF Repos, TypeOK
  <2>3. \A r \in SelfRepos \ foreign' : r \notin foreign /\ head'[r] = head[r]
      BY <2>1, <2>2
  <2> QED BY <2>1, <2>3 DEF EventInv
<1> QED BY <1>1, <1>2, <1>3, <1>4, <1>5, <1>6, <1>7, <1>8, <1>9, <1>10, <1>11, <1>12, <1>13,
              <1>14, <1>15, <1>16, <1>17, <1>18, <1>19, <1>20, <1>21, <1>22, <1>23, <1>24,
              <1>25, <1>26 DEF Next, Step

\* What is whole stays whole: no part of it changes, or a crash ends its
\* services and a boot starts them again.
LEMMA WholeStays ==
    ASSUME TypeOK, NEW r \in Repos, Whole(r), UNCHANGED wanted,
           head'[r] = head[r], sub'[r] = sub[r], dist'[r] = dist[r],
           \A m \in Members : LET s == <<r, m>> IN
               \/ proc'[s] = proc[s] /\ (s \in killed /\ proc[s] = "off" => s \in killed')
               \/ proc'[s] = "off" /\ (s \in wanted => s \in killed')
               \/ s \in wanted /\ proc[s] = "off" /\ proc'[s] = dist[r]
    PROVE  Whole(r)'
<1>1. PICK v \in Versions :
          /\ head[r] = v /\ sub[r] = v /\ dist[r] = v
          /\ \A m \in Members :
                 IF <<r, m>> \in wanted
                 THEN proc[<<r, m>>] = v \/ (proc[<<r, m>>] = "off" /\ <<r, m>> \in killed)
                 ELSE proc[<<r, m>>] = "off"
    BY DEF Whole
<1>2. ASSUME NEW m \in Members
      PROVE  IF <<r, m>> \in wanted'
             THEN proc'[<<r, m>>] = v \/ (proc'[<<r, m>>] = "off" /\ <<r, m>> \in killed')
             ELSE proc'[<<r, m>>] = "off"
    BY <1>1
<1> QED BY <1>1, <1>2 DEF Whole

\* No repository but the one of the checkpoint is touched.
LEMMA OthersStay ==
    ASSUME TypeOK, WholeInv, UNCHANGED <<wanted, killed>>, foreign \subseteq foreign',
           checkpoint' = checkpoint \/ checkpoint = None,
           \A r \in Repos :
               \/ checkpoint # None /\ checkpoint.repo = r
               \/ /\ head'[r] = head[r] /\ sub'[r] = sub[r] /\ dist'[r] = dist[r]
                  /\ \A m \in Members : proc'[<<r, m>>] = proc[<<r, m>>]
    PROVE  WholeInv'
<1>1. ASSUME NEW r \in Repos \ foreign', ~(checkpoint' # None /\ checkpoint'.repo = r)
      PROVE  Whole(r)'
  <2>1. Whole(r) /\ r \in Repos /\ ~(checkpoint # None /\ checkpoint.repo = r)
      BY <1>1 DEF WholeInv
  <2> QED BY <2>1, WholeStays
<1> QED BY <1>1 DEF WholeInv

\* At most the repository of the checkpoint is touched.
LEMMA OneTouched ==
    ASSUME TypeOK, WholeInv, UNCHANGED <<wanted, killed, checkpoint>>, foreign \subseteq foreign',
           checkpoint # None,
           \E v : head' \in {head, [head EXCEPT ![checkpoint.repo] = v]},
           \E v : sub' \in {sub, [sub EXCEPT ![checkpoint.repo] = v]},
           \E v : dist' \in {dist, [dist EXCEPT ![checkpoint.repo] = v]},
           \E m, v : proc' \in {proc, [proc EXCEPT ![<<checkpoint.repo, m>>] = v]}
    PROVE  WholeInv'
<1>1. ASSUME NEW r \in Repos, r # checkpoint.repo
      PROVE  /\ head'[r] = head[r] /\ sub'[r] = sub[r] /\ dist'[r] = dist[r]
             /\ \A m \in Members : proc'[<<r, m>>] = proc[<<r, m>>]
  <2>1. head'[r] = head[r] /\ sub'[r] = sub[r] /\ dist'[r] = dist[r]
      BY <1>1 DEF TypeOK
  <2>2. ASSUME NEW m \in Members PROVE proc'[<<r, m>>] = proc[<<r, m>>]
    <3>1. \A n : <<r, m>> # <<checkpoint.repo, n>>
        BY <1>1
    <3>2. <<r, m>> \in Services
        BY DEF Services
    <3> QED BY <3>1, <3>2 DEF TypeOK
  <2> QED BY <2>1, <2>2
<1> QED BY <1>1, OthersStay

\* Every step keeps the repositories whole.
LEMMA WholeKept ==
    ASSUME TypeOK, RunInv, PhaseInv, WholeInv, Next
    PROVE  WholeInv'
<1>1. CASE Begin
    BY <1>1, OthersStay DEF Begin, At, world, ghosts
<1>2. CASE Loop
    BY <1>2, OthersStay DEF Loop, At, Finish, world, ghosts
<1>3. CASE Abandon
    BY <1>3, OthersStay DEF Abandon, At, Fault, Finish, world, ghosts
<1>4. CASE Skip
    BY <1>4, OthersStay DEF Skip, At, Fault, world, ghosts
<1>5. CASE Prepare
    BY <1>5, OthersStay DEF Prepare, At, world, ghosts, TypeOK
<1>6. ASSUME NEW m \in Members, Stop(m) PROVE WholeInv'
  <2>1. /\ checkpoint # None /\ checkpoint.repo = repo
        /\ UNCHANGED <<head, sub, dist, wanted, killed, foreign, checkpoint>>
        /\ proc' \in {proc, [proc EXCEPT ![<<repo, m>>] = "off"]}
      BY <1>6 DEF Stop, Rest, run, ghosts, TypeOK
  <2> QED BY <2>1, OneTouched
<1>7. CASE Stopped
    BY <1>7, OthersStay DEF Stopped, At, Fails, Goto, run, world, ghosts
<1>8. CASE Check
    BY <1>8, OthersStay DEF Check, At, Goto, run, Fails, Fault, world, ghosts
<1>9. CASE Move
  <2>1. /\ checkpoint # None /\ checkpoint.repo = repo
        /\ UNCHANGED <<sub, dist, proc, wanted, killed, foreign, checkpoint>>
        /\ \E v : head' \in {head, [head EXCEPT ![repo] = v]}
      BY <1>9 DEF Move, At, Goto, run, Fails, ghosts, TypeOK
  <2> QED BY <2>1, OneTouched
<1>10. CASE Submodules
  <2>1. /\ checkpoint # None /\ checkpoint.repo = repo
        /\ UNCHANGED <<head, dist, proc, wanted, killed, foreign, checkpoint>>
        /\ \E v : sub' \in {sub, [sub EXCEPT ![repo] = v]}
      BY <1>10 DEF Submodules, At, Goto, run, Fails, ghosts, TypeOK
  <2> QED BY <2>1, OneTouched
<1>11. CASE ReadCatalog
    BY <1>11, OthersStay DEF ReadCatalog, At, Goto, AfterCatalog, run, Fault, Fails, world,
       ghosts
<1>12. CASE Build
  <2>1. /\ checkpoint # None /\ checkpoint.repo = repo
        /\ UNCHANGED <<head, sub, proc, wanted, killed, foreign, checkpoint>>
        /\ \E v : dist' \in {dist, [dist EXCEPT ![repo] = v]}
      BY <1>12 DEF Build, At, run, Goto, Fails, ghosts, TypeOK
  <2> QED BY <2>1, OneTouched
<1>13. CASE Recheck
    BY <1>13, OthersStay DEF Recheck, At, Goto, run, Fails, Fault, world, ghosts
<1>14. CASE Restart
    BY <1>14, OthersStay DEF Restart, At, Rest, world, run, ghosts
<1>15. ASSUME NEW m \in Members, Start(m) PROVE WholeInv'
  <2>1. /\ checkpoint # None /\ checkpoint.repo = repo
        /\ UNCHANGED <<head, sub, dist, wanted, killed, foreign, checkpoint>>
        /\ proc' \in {proc, [proc EXCEPT ![<<repo, m>>] = dist[repo]]}
      BY <1>15 DEF Start, At, StartFails, Fails, Goto, run, ghosts, TypeOK
  <2> QED BY <2>1, OneTouched
<1>16. CASE Healthy
    BY <1>16, OthersStay DEF Healthy, At, Goto, run, Fault, StartFails, world, ghosts, Fails
<1>17. CASE Commit
  <2>1. /\ pc = "commit" /\ checkpoint # None /\ checkpoint.repo = repo /\ repo \in Repos
        /\ checkpoint' = None /\ killed' = killed \ {<<repo, m>> : m \in checkpoint.running}
        /\ UNCHANGED <<head, sub, dist, proc, wanted, foreign>>
      BY <1>17 DEF Commit, At, world, TypeOK
  <2>2. ASSUME NEW r \in Repos \ foreign, r # repo PROVE Whole(r)'
    <3>1. Whole(r)
        BY <2>1, <2>2 DEF WholeInv
    <3>2. \A m \in Members : <<r, m>> \in killed => <<r, m>> \in killed'
        BY <2>1, <2>2
    <3> QED BY <2>1, <3>1, <3>2, WholeStays
  <2>3. ASSUME NEW r \in Repos \ foreign, r = repo PROVE Whole(r)'
    <3>1. To \in Versions
        BY DEF To, Versions
    <3>2. head'[r] = To /\ sub'[r] = To /\ dist'[r] = To
        BY <2>1, <2>3 DEF PhaseInv
    <3>3. ASSUME NEW m \in Members
          PROVE  IF <<r, m>> \in wanted THEN proc[<<r, m>>] = To ELSE proc[<<r, m>>] = "off"
      <4>1. CASE <<r, m>> \in wanted
        <5>1. m \in checkpoint.running
            BY <2>1, <2>3, <4>1 DEF RunInv, Ran
        <5> QED BY <2>1, <2>3, <4>1, <5>1 DEF PhaseInv
      <4>2. CASE <<r, m>> \notin wanted
          BY <2>1, <4>2 DEF RunInv, Services
      <4> QED BY <4>1, <4>2
    <3> QED BY <2>1, <3>1, <3>2, <3>3 DEF Whole
  <2> QED BY <2>1, <2>2, <2>3 DEF WholeInv
<1>18. CASE Unwound
    BY <1>18, OthersStay DEF Unwound, At, Goto, Rest, world, run, ghosts
<1>19. CASE Fail
    BY <1>19, OthersStay DEF Fail, At, Finish, world, ghosts
<1>20. CASE Recover
    BY <1>20, OthersStay DEF Recover, At, Finish, run, world, ghosts
<1>21. CASE Close
    BY <1>21, OthersStay DEF Close, memory, run, world, ghosts
<1>22. CASE Exit
    BY <1>22, OthersStay DEF Exit, At, Down, ghosts, Goto, run
<1>23. CASE Crash
  <2>1. /\ UNCHANGED <<head, sub, dist, wanted, foreign, checkpoint>>
        /\ \/ UNCHANGED <<proc, killed>>
           \/ /\ proc' = [s \in Services |-> "off"]
              /\ killed' = killed \union {s \in Services : proc[s] # "off"}
      BY <1>23 DEF Crash, Down, run
  <2>2. ASSUME NEW r \in Repos, Whole(r) PROVE Whole(r)'
    <3>1. \A m \in Members : <<r, m>> \in Services
        BY DEF Services
    <3>2. CASE UNCHANGED <<proc, killed>>
        BY <2>1, <2>2, <3>2, WholeStays
    <3>3. CASE /\ proc' = [s \in Services |-> "off"]
               /\ killed' = killed \union {s \in Services : proc[s] # "off"}
      <4>1. \A m \in Members : /\ proc'[<<r, m>>] = "off"
                               /\ proc[<<r, m>>] # "off" \/ <<r, m>> \in killed => <<r, m>> \in killed'
          BY <3>1, <3>3
      <4>2. \A m \in Members : \/ proc'[<<r, m>>] = proc[<<r, m>>]
                               \/ proc'[<<r, m>>] = "off" /\ <<r, m>> \in killed'
          BY <4>1
      <4> QED BY <2>1, <2>2, <4>1, <4>2, WholeStays
    <3> QED BY <2>1, <3>2, <3>3
  <2> QED BY <2>1, <2>2 DEF WholeInv
<1>24. CASE Boot
  <2>1. UNCHANGED <<head, sub, dist, wanted, foreign, checkpoint>>
      BY <1>24 DEF Boot, run
  <2>2. ASSUME NEW r \in Repos, Whole(r) PROVE Whole(r)'
    <3>1. \A m \in Members : <<r, m>> \in Services /\ <<r, m>>[1] = r
        BY DEF Services
    <3>2. CASE Autostarts
      <4>1. /\ proc' = [s \in Services |-> IF s \in wanted /\ proc[s] = "off" THEN dist[s[1]] ELSE proc[s]]
            /\ killed' = killed \ wanted
          BY <1>24, <3>2 DEF Boot
      <4>2. \A m \in Members :
                IF <<r, m>> \in wanted /\ proc[<<r, m>>] = "off" THEN proc'[<<r, m>>] = dist[r]
                ELSE /\ proc'[<<r, m>>] = proc[<<r, m>>]
                     /\ <<r, m>> \in killed /\ proc[<<r, m>>] = "off" => <<r, m>> \in killed'
          BY <3>1, <4>1
      <4> QED BY <2>1, <2>2, <4>2, WholeStays
    <3>3. CASE ~Autostarts
      <4>1. UNCHANGED <<proc, killed>>
          BY <1>24, <3>3 DEF Boot
      <4> QED BY <2>1, <2>2, <4>1, WholeStays
    <3> QED BY <3>2, <3>3
  <2> QED BY <2>1, <2>2 DEF WholeInv
<1>25. CASE Retry
    BY <1>25, OthersStay DEF Retry, memory, world, ghosts
<1>26. CASE External
  <2>1. /\ checkpoint # None /\ foreign' = foreign \union {checkpoint.repo}
        /\ UNCHANGED <<sub, dist, proc, wanted, killed, checkpoint>>
        /\ \E v : head' \in {head, [head EXCEPT ![checkpoint.repo] = v]}
      BY <1>26 DEF External, run
  <2> QED BY <2>1, OneTouched
<1> QED BY <1>1, <1>2, <1>3, <1>4, <1>5, <1>6, <1>7, <1>8, <1>9, <1>10, <1>11, <1>12, <1>13,
              <1>14, <1>15, <1>16, <1>17, <1>18, <1>19, <1>20, <1>21, <1>22, <1>23, <1>24,
              <1>25, <1>26 DEF Next, Step

-----------------------------------------------------------------------------
(* The theorems                                                            *)

\* The invariant holds when the day begins.
LEMMA InitialState == Init => IInv
<1> SUFFICES ASSUME Init PROVE IInv
    OBVIOUS
<1>1. TypeOK
  <2>1. 1 \in 1..(NumRepos + 1)
      BY DailyAssumption
  <2>2. /\ head \in [Repos -> Versions \union {"other"}] /\ sub \in [Repos -> Versions \union {"mixed"}]
        /\ dist \in [Repos -> Versions \union {"partial"}]
        /\ proc \in [Services -> Versions \union {"off", "partial"}]
      BY DEF Init, Versions
  <2> QED BY <2>1, <2>2 DEF Init, TypeOK
<1>2. RunInv /\ PhaseInv /\ LateInv /\ EventInv
    BY DailyAssumption DEF Init, RunInv, PhaseInv, LateInv, EventInv, Repos
<1>3. WholeInv
  <2>1. ASSUME NEW r \in Repos PROVE Whole(r)
    <3>1. head[r] = "before" /\ sub[r] = "before" /\ dist[r] = "before"
        BY DEF Init
    <3>2. \A m \in Members : proc[<<r, m>>] = IF <<r, m>> \in wanted THEN "before" ELSE "off"
        BY DEF Init, Services
    <3> QED BY <3>1, <3>2 DEF Whole, Versions
  <2> QED BY <2>1 DEF WholeInv
<1> QED BY <1>1, <1>2, <1>3 DEF IInv

\* Every step keeps the invariant.
LEMMA Kept == IInv /\ [Next]_vars => IInv'
<1> SUFFICES ASSUME IInv, [Next]_vars PROVE IInv'
    OBVIOUS
<1> USE DEF IInv
<1>1. CASE Next
    BY <1>1, TypesKept, RunKept, PhaseKept, LateKept, EventKept, WholeKept
<1>2. CASE UNCHANGED vars
  <2>1. UNCHANGED <<up, memory, run, world, ghosts>>
      BY <1>2 DEF vars
  <2>2. TypeOK'
      BY <1>2 DEF vars, memory, run, world, ghosts, TypeOK
  <2>3. RunInv' /\ PhaseInv' /\ LateInv' /\ EventInv'
      BY <2>1 DEF memory, run, world, ghosts, RunInv, PhaseInv, LateInv, EventInv, Ran, To
  <2>4. WholeInv'
      BY <2>1, OthersStay DEF memory, run, world, ghosts
  <2> QED BY <2>2, <2>3, <2>4
<1> QED BY <1>1, <1>2

\* The checkpoint of the database, the phase of the run and the repositories
\* stay in step, wherever a command fails or the supervisor dies.
THEOREM InductiveInvariant == Spec => []IInv
BY InitialState, Kept, PTL DEF Spec

\* Every variable holds a value of its type, and the steps of a run are at the
\* repository of its checkpoint.
THEOREM TypesHold == Spec => []TypeOK
<1>1. IInv => TypeOK
    BY DEF IInv
<1> QED BY <1>1, InductiveInvariant, PTL

\* A run that succeeded has no checkpoint.
LEMMA SuccessCleared ==
    ASSUME TypeOK, RunInv
    PROVE  status = "succeeded" => checkpoint = None
BY DEF RunInv

\* However a run ends, every repository is whole, or it is the one of the
\* checkpoint from which the recovery can be retried.
THEOREM EndsWhole == Spec => []FinishedIsWhole
<1>1. IInv => FinishedIsWhole
  <2> SUFFICES ASSUME IInv PROVE FinishedIsWhole
      OBVIOUS
  <2>1. status = "succeeded" => checkpoint = None
      BY SuccessCleared DEF IInv
  <2>2. ASSUME status = "succeeded", NEW r \in SelfRepos \ foreign
        PROVE  head[r] = "before"
    <3>1. r \in Repos /\ Whole(r)
        BY <2>1, <2>2, DailyAssumption DEF IInv, WholeInv, Repos
    <3> QED BY <2>1, <2>2, <3>1 DEF IInv, EventInv, Whole, Versions
  <2> QED BY <2>1, <2>2 DEF IInv, WholeInv, FinishedIsWhole
<1> QED BY <1>1, InductiveInvariant, PTL

\* A reset discards somebody else's commit only when that was made after the
\* check.
THEOREM OthersWorkStays == Spec => ForeignKept
<1>1. IInv /\ [Next]_vars =>
          [\A r \in Repos : head[r] = "other" /\ head'[r] # "other" => r \in late]_vars
  <2> SUFFICES ASSUME IInv, Next, NEW r \in Repos, head[r] = "other", head'[r] # "other"
               PROVE  r \in late
      OBVIOUS
  <2>1. TypeOK /\ LateInv
      BY DEF IInv
  <2>2. Move
    <3>1. CASE External
        BY <2>1, <3>1 DEF External, TypeOK
    <3> QED BY <3>1 DEF Next, Step, Begin, Loop, Abandon, Skip, Prepare, Stop, Stopped, Check, Submodules,
               ReadCatalog, Build, Recheck, Restart, Start, Healthy, Commit, Unwound, Fail, Recover,
               Close, Exit, Crash, Boot, Retry, Down, world
  <2>3. pc = "move" /\ head' \in {head, [head EXCEPT ![repo] = To]}
      BY <2>2 DEF Move, At
  <2>4. r = repo
      BY <2>1, <2>3 DEF TypeOK
  <2> QED BY <2>1, <2>3, <2>4 DEF LateInv
<1> QED BY <1>1, InductiveInvariant, PTL DEF Spec, ForeignKept
===============================================================================
