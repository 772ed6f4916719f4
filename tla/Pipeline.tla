------------------------------- MODULE Pipeline -------------------------------
(****************************************************************************)
(* The daily pipeline (pipeline_dag.py, pipeline_dag_dev.py):               *)
(*                                                                          *)
(*     ingest >> list_landing_files >> dbt_build >> publish_to_backend      *)
(*                                                                          *)
(* Airflow runs one run of a DAG at a time and retries a failed task, but   *)
(* never dbt_build.  The two DAGs have warehouse schemas, landing zones and *)
(* Postgres schemas of their own but one dbt project directory, which a     *)
(* build locks with flock.  dbt_build gives up on its shell after a         *)
(* deadline; the dbt process it started keeps the lock file open, goes on,  *)
(* and nobody waits for it.                                                 *)
(*                                                                          *)
(* Ingestion, ContainerJob, Warehouse and Publish describe the inside of    *)
(* the other tasks; here a task succeeds or raises.                         *)
(****************************************************************************)
EXTENDS Integers

CONSTANTS Dags,
          Marts,        \* what publish_to_backend copies
          TestedMarts,  \* those that dbt has tests for
          Selections,   \* what dbt_build_extra_args may select, as sets of marts
          Retries,      \* of a DAG's tasks, dbt_build excepted
          LockWait, BuildTimeout, Slack,   \* in ticks
          Deaths,       \* where its worker may die under dbt_build
          MaxRuns,      \* bound: runs of a DAG
          MaxLandings   \* bound: files landed

ASSUME MartsAssumption ==
  TestedMarts \subseteq Marts /\ Selections \subseteq SUBSET Marts
ASSUME DeathsAssumption == Deaths \subseteq {"wait", "build"}
ASSUME TimesAssumption ==
  LockWait \in Nat /\ BuildTimeout \in Nat /\ Slack \in Nat
ASSUME BoundsAssumption ==
  /\ Retries \in [Dags -> Nat] /\ MaxRuns \in [Dags -> Nat] /\ MaxLandings \in Nat

VARIABLES
  run,        \* run[d]: the current or last run of DAG d
  proc,       \* proc[b]: the dbt process of build b
  lock,       \* the build whose process holds the project lock
  landing,    \* landing[d]: how often files were landed
  mart,       \* mart[d][m]: the table in the warehouse
  published   \* published[d][m]: the copy in Postgres

vars == <<run, proc, lock, landing, mart, published>>

(* A DAG's n-th run has one build at most: dbt_build has retries=0.         *)
Builds == UNION {[dag : {d}, no : 1 .. MaxRuns[d]] : d \in Dags}
Unlocked == [dag |-> "nobody", no |-> 0]

Tasks == {"ingest", "list", "build", "publish"}
Active(d) == run[d].at \in Tasks

(* The order of the tasks.                                                  *)
After(task) == CASE task = "ingest" -> "list"  [] task = "list" -> "build"
                 [] task = "build" -> "publish" [] task = "publish" -> "success"

(* landed is what the run's ingest left; left are the marts to publish yet. *)
Run == [at : Tasks \cup {"never", "success", "failed"}, no : Nat, try : Nat,
        select : SUBSET Marts, landed : Nat, left : SUBSET Marts]

(* todo are the marts to build yet, untested those whose tests are due, bad *)
(* says that a test has failed; age and held are ticks since the start of   *)
(* the shell command and since the lock was taken.                          *)
Process == [at : {"none", "wait", "build", "exit0", "exit1"},
            todo : SUBSET Marts, untested : SUBSET Marts, bad : BOOLEAN,
            age : Nat, held : Nat]

(* no is the run whose build wrote it; "open": its tests have not run.      *)
Version == [no : Nat, landing : Nat, verdict : {"open", "passed", "failed"}]

NoTable == [no |-> 0, landing |-> 0, verdict |-> "open"]

NoProcess(at) == [at |-> at, todo |-> {}, untested |-> {}, bad |-> FALSE,
                  age |-> 0, held |-> 0]

Alive(b) == proc[b].at \in {"wait", "build"}
BuildOf(d) == [dag |-> d, no |-> run[d].no]

Init ==
  /\ run = [d \in Dags |-> [at |-> "never", no |-> 0, try |-> 0, select |-> Marts,
                            landed |-> 0, left |-> {}]]
  /\ proc = [b \in Builds |-> NoProcess("none")]
  /\ lock = Unlocked
  /\ landing = [d \in Dags |-> 0]
  /\ mart = [d \in Dags |-> [m \in Marts |-> NoTable]]
  /\ published = mart

--------------------------------------------------------------------------------
(* max_active_runs=1; a run's conf may select a part of the models.         *)
StartRun(d) ==
  /\ ~Active(d) /\ run[d].no < MaxRuns[d]
  /\ \E s \in Selections :
       run' = [run EXCEPT ![d] = [at |-> "ingest", no |-> @.no + 1, try |-> 0,
                                  select |-> s, landed |-> 0, left |-> Marts]]
  /\ UNCHANGED <<proc, lock, landing, mart, published>>

(* A task has succeeded.                                                    *)
Succeed(d) ==
  run' = [run EXCEPT ![d].at = After(@), ![d].try = 0]

(* A task has raised: it is tried again from its start, or the run fails    *)
(* and nothing downstream is run.                                           *)
Fail(d) ==
  run' = IF run[d].at # "build" /\ run[d].try < Retries[d]
         THEN [run EXCEPT ![d].try = @ + 1, ![d].left = Marts]
         ELSE [run EXCEPT ![d].at = "failed"]

(* Variant: the container job is started and not waited for.                *)
IngestX(d) ==
  /\ run[d].at = "ingest" /\ landing[d] < MaxLandings
  /\ run' = [run EXCEPT ![d].at = After(@), ![d].try = 0,
                        ![d].landed = landing[d] + 1]
  /\ UNCHANGED <<proc, lock, landing, mart, published>>

(* The container job, green, has landed files or, as Ingestion shows,       *)
(* nothing.                                                                 *)
Ingest(d) ==
  /\ run[d].at = "ingest"
  /\ \/ landing[d] < MaxLandings /\ landing' = [landing EXCEPT ![d] = @ + 1]
     \/ UNCHANGED landing
  /\ run' = [run EXCEPT ![d].at = After(@), ![d].try = 0,
                        ![d].landed = landing'[d]]
  /\ UNCHANGED <<proc, lock, mart, published>>

ListLandingFiles(d) ==
  /\ run[d].at = "list"
  /\ Succeed(d)
  /\ UNCHANGED <<proc, lock, landing, mart, published>>

(* A task raises, or its worker dies.                                       *)
Raise(d) ==
  /\ Active(d)
  /\ run[d].at = "build" => proc[BuildOf(d)].at = "none"
  /\ Fail(d)
  /\ UNCHANGED <<proc, lock, landing, mart, published>>

(* Files land outside any run of the DAG.                                   *)
StrayLanding(d) ==
  /\ landing[d] < MaxLandings
  /\ landing' = [landing EXCEPT ![d] = @ + 1]
  /\ UNCHANGED <<run, proc, lock, mart, published>>

--------------------------------------------------------------------------------
(* dbt_build: the shell runs flock, which waits for the lock and runs dbt.  *)
StartBuild(d) ==
  /\ run[d].at = "build" /\ proc[BuildOf(d)].at = "none"
  /\ proc' = [proc EXCEPT ![BuildOf(d)].at = "wait",
                          ![BuildOf(d)].todo = run[d].select]
  /\ UNCHANGED <<run, lock, landing, mart, published>>

Acquire(b) ==
  /\ proc[b].at = "wait" /\ lock = Unlocked
  /\ lock' = b
  /\ proc' = [proc EXCEPT ![b].at = "build"]
  /\ UNCHANGED <<run, landing, mart, published>>

(* flock -w gives up.                                                       *)
LockTimeout(b) ==
  /\ proc[b].at = "wait" /\ proc[b].age >= LockWait
  /\ proc' = [proc EXCEPT ![b] = NoProcess("exit1")]
  /\ UNCHANGED <<run, lock, landing, mart, published>>

(* dbt replaces the table of a mart, from the files landed by then.         *)
WriteMart(b, m) ==
  /\ proc[b].at = "build" /\ m \in proc[b].todo
  /\ mart' = [mart EXCEPT ![b.dag][m] =
                [no |-> b.no, landing |-> landing[b.dag], verdict |-> "open"]]
  /\ proc' = [proc EXCEPT ![b].todo = @ \ {m},
                          ![b].untested = @ \cup ({m} \cap TestedMarts)]
  /\ UNCHANGED <<run, lock, landing, published>>

(* dbt runs the tests of a mart.                                            *)
TestMart(b, m) ==
  /\ proc[b].at = "build" /\ m \in proc[b].untested
  /\ \E pass \in BOOLEAN :
       /\ mart' = [mart EXCEPT ![b.dag][m].verdict = IF pass THEN "passed" ELSE "failed"]
       /\ proc' = [proc EXCEPT ![b].untested = @ \ {m}, ![b].bad = @ \/ ~pass]
  /\ UNCHANGED <<run, lock, landing, published>>

(* The process ends and its lock goes with it; dbt's exit code says whether *)
(* every model was built and every test passed.  It can end early, with an  *)
(* error.                                                                   *)
EndBuild(b) ==
  /\ proc[b].at = "build"
  /\ \/ /\ proc[b].todo = {} /\ proc[b].untested = {} /\ ~proc[b].bad
        /\ proc' = [proc EXCEPT ![b] = NoProcess("exit0")]
     \/ proc' = [proc EXCEPT ![b] = NoProcess("exit1")]
  /\ lock' = Unlocked
  /\ UNCHANGED <<run, landing, mart, published>>

(* Variant: the exit code is not looked at.                                 *)
BuildReturnsX(d) ==
  /\ run[d].at = "build" /\ proc[BuildOf(d)].at \in {"exit0", "exit1"}
  /\ Succeed(d)
  /\ UNCHANGED <<proc, lock, landing, mart, published>>

(* The task sees the process gone.                                          *)
BuildReturns(d) ==
  /\ run[d].at = "build"
  /\ \/ proc[BuildOf(d)].at = "exit0" /\ Succeed(d)
     \/ proc[BuildOf(d)].at = "exit1" /\ Fail(d)
  /\ UNCHANGED <<proc, lock, landing, mart, published>>

(* Variant: the time in the queue for the lock is forgotten.                *)
DeadlineX == BuildTimeout + Slack

(* dbt_build_timeout.                                                       *)
Deadline == LockWait + BuildTimeout + Slack

(* Variant: flock -o, which does not hand the lock to the command: it dies  *)
(* with flock.                                                              *)
KillBuildX(d) ==
  /\ run[d].at = "build" /\ Alive(BuildOf(d)) /\ proc[BuildOf(d)].age > Deadline
  /\ Fail(d)
  /\ lock' = IF lock = BuildOf(d) THEN Unlocked ELSE lock
  /\ UNCHANGED <<proc, landing, mart, published>>

(* Variant: no deadline.                                                    *)
KillBuildY(d) == FALSE /\ UNCHANGED vars

(* Past the deadline the task kills what Popen started, flock, and raises.  *)
(* dbt is a child of flock that has inherited the lock file: it goes on and *)
(* the project stays locked.                                                *)
KillBuild(d) ==
  /\ run[d].at = "build" /\ Alive(BuildOf(d)) /\ proc[BuildOf(d)].age > Deadline
  /\ Fail(d)
  /\ UNCHANGED <<proc, lock, landing, mart, published>>

(* The worker dies under dbt_build: the run fails, and nobody waits for the *)
(* process, which waits for the lock or builds.                             *)
WorkerDies(d) ==
  /\ run[d].at = "build" /\ proc[BuildOf(d)].at \in Deaths
  /\ Fail(d)
  /\ UNCHANGED <<proc, lock, landing, mart, published>>

(* A tick of the clock for every process, until it is past the deadline,    *)
(* where ages are not told apart any more.  flock's time-out is punctual.   *)
Tick ==
  /\ \E b \in Builds : Alive(b) /\ proc[b].age <= Deadline
  /\ \A b \in Builds : proc[b].at = "wait" => proc[b].age < LockWait
  /\ proc' = [b \in Builds |->
                IF Alive(b) /\ proc[b].age <= Deadline
                THEN [proc[b] EXCEPT !.age = @ + 1,
                                     !.held = IF proc[b].at = "build" THEN @ + 1 ELSE @]
                ELSE proc[b]]
  /\ UNCHANGED <<run, lock, landing, mart, published>>

--------------------------------------------------------------------------------
(* publish_to_backend copies one mart after the other, if it is there.      *)
PublishMart(d, m) ==
  /\ run[d].at = "publish" /\ m \in run[d].left /\ mart[d][m] # NoTable
  /\ published' = [published EXCEPT ![d][m] = mart[d][m]]
  /\ run' = [run EXCEPT ![d].left = @ \ {m}]
  /\ UNCHANGED <<proc, lock, landing, mart>>

PublishFails(d) ==
  /\ run[d].at = "publish" /\ \E m \in run[d].left : mart[d][m] = NoTable
  /\ Raise(d)

PublishDone(d) ==
  /\ run[d].at = "publish" /\ run[d].left = {}
  /\ Succeed(d)
  /\ UNCHANGED <<proc, lock, landing, mart, published>>

--------------------------------------------------------------------------------
TaskStep(d) ==
  \/ Ingest(d) \/ ListLandingFiles(d) \/ StartBuild(d) \/ BuildReturns(d)
  \/ KillBuild(d) \/ PublishDone(d) \/ \E m \in Marts : PublishMart(d, m)

DbtStep(b) ==
  \/ EndBuild(b) \/ \E m \in Marts : WriteMart(b, m) \/ TestMart(b, m)

Next ==
  \/ Tick
  \/ \E d \in Dags : \/ StartRun(d) \/ TaskStep(d) \/ Raise(d)
                   \/ WorkerDies(d) \/ StrayLanding(d)
  \/ \E b \in Builds : Acquire(b) \/ LockTimeout(b) \/ DbtStep(b)

Spec == Init /\ [][Next]_vars

(* Time passes, Airflow's worker executes its task and flock's timer fires. *)
(* Nothing is assumed of dbt: a build may hang for ever.  A mart that is not*)
(* there makes its publish raise.                                           *)
Fairness ==
  /\ WF_vars(Tick)
  /\ \A d \in Dags : WF_vars(TaskStep(d)) /\ WF_vars(PublishFails(d))
  /\ \A b \in Builds : WF_vars(LockTimeout(b))

FairSpec == Spec /\ Fairness

--------------------------------------------------------------------------------
TypeOK ==
  /\ run \in [Dags -> Run] /\ proc \in [Builds -> Process]
  /\ \A d \in Dags : run[d].no <= MaxRuns[d] /\ run[d].try <= Retries[d]
  /\ lock \in Builds \cup {Unlocked}
  /\ landing \in [Dags -> 0 .. MaxLandings]
  /\ mart \in [Dags -> [Marts -> Version]]
  /\ published \in [Dags -> [Marts -> Version]]

(* "One lock for deps and build: prod + dev DAGs share this dbt project dir *)
(* on the VM": no two dbt processes are ever at work in it, those that      *)
(* their task has given up or left behind included.                         *)
OneBuildInProject ==
  \A a, b \in Builds : proc[a].at = "build" /\ proc[b].at = "build" => a = b

(* While a DAG publishes, nothing builds its schema, an abandoned build of  *)
(* an earlier run included: what it copies are the marts as its own build   *)
(* left and tested them.                                                    *)
NoBuildUnderPublish ==
  \A d \in Dags : run[d].at = "publish" =>
    \A b \in Builds : b.dag = d => proc[b].at # "build"

(* "Publishing a mart that failed its own tests is worse than publishing    *)
(* nothing, and the dependency is what stops it" (data/README.md:579-580):  *)
(* every mart in Postgres passed its tests.                                 *)
OnlyTestedIsPublished ==
  \A d \in Dags, m \in Marts :
    published[d][m] # NoTable => published[d][m].verdict = "passed"

(* A green run has published what it ingested, or something newer, in every *)
(* mart, whatever failed and was tried again on the way.                    *)
GreenPublishesItsIngest ==
  \A d \in Dags, m \in Marts :
    run[d].at = "success" => published[d][m].landing >= run[d].landed

(* A build is given up only after it has had its whole time with the lock,  *)
(* however long it queued for it: the deadline "includes time spent waiting *)
(* on flock" (pipeline_dag.py:174).                                         *)
BuildGetsItsTime ==
  [][\A d \in Dags : LET b == BuildOf(d) IN
       /\ run[d].at = "build" /\ run'[d].at = "failed"
       /\ Alive(b) /\ proc[b].age > Deadline
       => proc[b].held > BuildTimeout]_vars

(* Every run ends, even if dbt hangs for ever in this build or in an        *)
(* abandoned one that keeps the lock.                                       *)
RunEnds == \A d \in Dags : Active(d) ~> ~Active(d)
================================================================================
