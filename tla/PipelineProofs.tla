---------------------------- MODULE PipelineProofs ----------------------------
(****************************************************************************)
(* Whatever the number of DAGs, marts, runs and retries and whatever the    *)
(* times: the project lock does what it is for, no build is cut short,      *)
(* nothing builds what is being published, only tested marts are published  *)
(* and green runs publish what they ingested.                               *)
(*                                                                          *)
(* The argument is in layers: types (TInv), the lock (LockInv), the clocks  *)
(* (TimeInv), where a run and its build can be (BuildsInStep, OrderInv),    *)
(* and on these the landings (Recorded, BuiltFromIngest) and the verdicts   *)
(* (Verdicts) of the marts.                                                 *)
(****************************************************************************)
EXTENDS Pipeline, TLAPS

(* A run that has begun has a number, so that its build is one of Builds.   *)
RunsNumbered == \A d \in Dags : run[d].at # "never" => run[d].no >= 1

TInv == TypeOK /\ RunsNumbered

--------------------------------------------------------------------------------
(* A build is a DAG and the number of one of its runs.                      *)
LEMMA BuildElements ==
  /\ \A b \in Builds : /\ b.dag \in Dags /\ b.no \in 1 .. MaxRuns[b.dag]
                       /\ b.no \in Nat /\ b.no >= 1
                       /\ b = [dag |-> b.dag, no |-> b.no]
  /\ \A d \in Dags : \A n \in 1 .. MaxRuns[d] : [dag |-> d, no |-> n] \in Builds
  /\ Unlocked \notin Builds
<1>1. ASSUME NEW b \in Builds
      PROVE  /\ b.dag \in Dags /\ b.no \in 1 .. MaxRuns[b.dag]
             /\ b.no \in Nat /\ b.no >= 1
             /\ b = [dag |-> b.dag, no |-> b.no]
  <2>1. PICK d \in Dags : b \in [dag : {d}, no : 1 .. MaxRuns[d]]
    BY DEF Builds
  <2>2. MaxRuns[d] \in Nat
    BY BoundsAssumption
  <2> QED BY <2>1, <2>2
<1>2. ASSUME NEW d \in Dags, NEW n \in 1 .. MaxRuns[d]
      PROVE  [dag |-> d, no |-> n] \in Builds
  <2>1. [dag |-> d, no |-> n] \in [dag : {d}, no : 1 .. MaxRuns[d]]
    OBVIOUS
  <2> QED BY <2>1 DEF Builds
<1>3. Unlocked \notin Builds
  BY <1>1 DEF Unlocked
<1> QED BY <1>1, <1>2, <1>3

(* The build of a run that has begun is one of Builds.                      *)
LEMMA BuildOfRun ==
  ASSUME TInv, NEW d \in Dags, run[d].at # "never"
  PROVE  /\ BuildOf(d) \in Builds
         /\ BuildOf(d).dag = d /\ BuildOf(d).no = run[d].no
<1>1. run[d].no \in Nat /\ run[d].no >= 1 /\ run[d].no <= MaxRuns[d]
  BY DEF TInv, TypeOK, RunsNumbered, Run
<1>2. MaxRuns[d] \in Nat
  BY BoundsAssumption
<1>3. run[d].no \in 1 .. MaxRuns[d]
  BY <1>1, <1>2
<1> QED BY <1>3, BuildElements DEF BuildOf

(* An element of Run with some fields replaced is one of Run.               *)
LEMMA RunFields ==
  ASSUME NEW r \in Run
  PROVE  /\ r.at \in Tasks \cup {"never", "success", "failed"}
         /\ r.no \in Nat /\ r.try \in Nat /\ r.landed \in Nat
         /\ r.select \in SUBSET Marts /\ r.left \in SUBSET Marts
         /\ \A at \in Tasks \cup {"never", "success", "failed"} :
            \A n, t, l \in Nat, p, q \in SUBSET Marts :
              /\ [r EXCEPT !.at = at] \in Run
              /\ [r EXCEPT !.at = at, !.try = t] \in Run
              /\ [r EXCEPT !.try = t, !.left = q] \in Run
              /\ [r EXCEPT !.at = at, !.try = t, !.landed = l] \in Run
              /\ [r EXCEPT !.left = q] \in Run
  BY DEF Run

(* The limits of a DAG, and its run within them.                            *)
LEMMA RunBounds ==
  ASSUME TInv, NEW d \in Dags
  PROVE  /\ MaxRuns[d] \in Nat /\ Retries[d] \in Nat
         /\ run[d] \in Run /\ run[d].no \in Nat /\ run[d].landed \in Nat
         /\ run[d].no <= MaxRuns[d] /\ run[d].try <= Retries[d]
         /\ (run[d].at # "never" => run[d].no >= 1)
<1>1. run[d] \in Run /\ run[d].no <= MaxRuns[d] /\ run[d].try <= Retries[d]
  BY DEF TInv, TypeOK
<1>2. run[d].at # "never" => run[d].no >= 1
  BY DEF TInv, RunsNumbered
<1>3. MaxRuns[d] \in Nat /\ Retries[d] \in Nat
  BY BoundsAssumption
<1>4. run[d].no \in Nat /\ run[d].landed \in Nat
  BY <1>1, RunFields
<1> QED BY <1>1, <1>2, <1>3, <1>4

(* A task that fails fails its run, or is tried again, and moves no other.  *)
LEMMA Fails ==
  ASSUME TInv, NEW d \in Dags, Active(d), Fail(d)
  PROVE  /\ run' \in [Dags -> Run]
         /\ \A e \in Dags : e # d => run'[e] = run[e]
         /\ run'[d].no = run[d].no /\ run'[d].try <= Retries[d]
         /\ run'[d].landed = run[d].landed /\ run'[d].select = run[d].select
         /\ \/ run'[d].at = "failed"
            \/ run'[d].at = run[d].at /\ run[d].at # "build" /\ run'[d].left = Marts
<1>1. run \in [Dags -> Run] /\ run[d].try <= Retries[d]
  BY DEF TInv, TypeOK
<1>2. run[d] \in Run /\ Retries[d] \in Nat /\ run[d].try \in Nat
  BY <1>1, BoundsAssumption DEF Run
<1>3. CASE run[d].at # "build" /\ run[d].try < Retries[d]
  <2>1. run' = [run EXCEPT ![d].try = run[d].try + 1, ![d].left = Marts]
    BY <1>3, <1>1 DEF Fail
  <2>2. run'[d] = [run[d] EXCEPT !.try = run[d].try + 1, !.left = Marts]
    BY <2>1, <1>1
  <2>a. run[d].try + 1 \in Nat /\ Marts \in SUBSET Marts
    BY <1>2
  <2>b. [run[d] EXCEPT !.try = run[d].try + 1, !.left = Marts] \in Run
    BY <2>a, <1>2, RunFields
  <2>3. run'[d] \in Run
    BY <2>2, <2>b
  <2> QED BY <2>1, <2>2, <2>3, <1>1, <1>2, <1>3 DEF Run
<1>4. CASE ~(run[d].at # "build" /\ run[d].try < Retries[d])
  <2>1. run' = [run EXCEPT ![d].at = "failed"]
    BY <1>4 DEF Fail
  <2> QED BY <2>1, <1>1, <1>2 DEF Run
<1> QED BY <1>3, <1>4

(* What a task that ends well does to the runs.                             *)
LEMMA Succeeds ==
  ASSUME TInv, NEW d \in Dags, Active(d), Succeed(d)
  PROVE  /\ run' \in [Dags -> Run]
         /\ \A e \in Dags : e # d => run'[e] = run[e]
         /\ run'[d] = [run[d] EXCEPT !.at = After(run[d].at), !.try = 0]
         /\ After(run[d].at) \in {"list", "build", "publish", "success"}
         /\ run'[d].at = After(run[d].at) /\ run'[d].try = 0
         /\ run'[d].no = run[d].no /\ run'[d].landed = run[d].landed
         /\ run'[d].left = run[d].left /\ run'[d].select = run[d].select
<1>1. run \in [Dags -> Run] /\ run[d] \in Run
  BY DEF TInv, TypeOK
<1>2. After(run[d].at) \in {"list", "build", "publish", "success"}
  BY DEF After, Active, Tasks
<1>3. run' = [run EXCEPT ![d].at = After(run[d].at), ![d].try = 0]
  BY <1>1 DEF Succeed
<1>4. run'[d] = [run[d] EXCEPT !.at = After(run[d].at), !.try = 0]
  BY <1>1, <1>3
<1>a. After(run[d].at) \in Tasks \cup {"never", "success", "failed"} /\ 0 \in Nat
  BY <1>2 DEF Tasks
<1>b. [run[d] EXCEPT !.at = After(run[d].at), !.try = 0] \in Run
  BY <1>1, <1>a, RunFields
<1>5. run'[d] \in Run
  BY <1>4, <1>b
<1>6. /\ run'[d].at = After(run[d].at) /\ run'[d].try = 0
      /\ run'[d].no = run[d].no /\ run'[d].landed = run[d].landed
      /\ run'[d].left = run[d].left /\ run'[d].select = run[d].select
  BY <1>1, <1>4 DEF Run
<1> QED BY <1>1, <1>2, <1>3, <1>4, <1>5, <1>6

(* The types of the fields of a process.                                    *)
LEMMA ProcessFields ==
  ASSUME NEW r \in Process
  PROVE  /\ r.todo \in SUBSET Marts /\ r.untested \in SUBSET Marts
         /\ r.bad \in BOOLEAN /\ r.age \in Nat /\ r.held \in Nat
         /\ r.at \in {"none", "wait", "build", "exit0", "exit1"}
         /\ [r EXCEPT !.at = "build"] \in Process
         /\ \A s, u \in SUBSET Marts :
              /\ [r EXCEPT !.at = "wait", !.todo = s] \in Process
              /\ [r EXCEPT !.todo = s, !.untested = u] \in Process
         /\ NoProcess("none") \in Process
         /\ NoProcess("exit0") \in Process /\ NoProcess("exit1") \in Process
  BY DEF Process, NoProcess

(* A tested mart leaves a process a process.                                *)
LEMMA Tested ==
  ASSUME NEW r \in Process, NEW u \in SUBSET Marts, NEW x \in BOOLEAN
  PROVE  [r EXCEPT !.untested = u, !.bad = x] \in Process
  BY DEF Process

(* A tick leaves a process a process.                                       *)
LEMMA Aged ==
  ASSUME NEW r \in Process, NEW n \in Nat, NEW h \in Nat
  PROVE  [r EXCEPT !.age = n, !.held = h] \in Process
  BY DEF Process

(* What a step of one run has to respect.                                   *)
LEMMA RunTyped ==
  ASSUME TInv, NEW d \in Dags, run' \in [Dags -> Run],
         \A e \in Dags : e # d => run'[e] = run[e],
         run'[d].no <= MaxRuns[d], run'[d].try <= Retries[d],
         run'[d].at # "never" => run'[d].no >= 1,
         proc' \in [Builds -> Process], lock' \in Builds \cup {Unlocked},
         landing' \in [Dags -> 0 .. MaxLandings],
         mart' \in [Dags -> [Marts -> Version]],
         published' \in [Dags -> [Marts -> Version]]
  PROVE  TInv'
  BY DEF TInv, TypeOK, RunsNumbered

(* What a step that leaves the runs alone has to respect.                   *)
LEMMA RestTyped ==
  ASSUME TInv, run' = run,
         proc' \in [Builds -> Process], lock' \in Builds \cup {Unlocked},
         landing' \in [Dags -> 0 .. MaxLandings],
         mart' \in [Dags -> [Marts -> Version]],
         published' \in [Dags -> [Marts -> Version]]
  PROVE  TInv'
  BY DEF TInv, TypeOK, RunsNumbered

(* The types hold at the start.                                             *)
LEMMA TypesInitially == Init => TInv
<1> SUFFICES ASSUME Init PROVE TInv
  OBVIOUS
<1>1. run \in [Dags -> Run]
  BY DEF Init, Run
<1>2. proc \in [Builds -> Process]
  BY DEF Init, Process, NoProcess
<1>3. NoTable \in Version
  BY DEF NoTable, Version
<1>4. mart \in [Dags -> [Marts -> Version]] /\ published \in [Dags -> [Marts -> Version]]
  BY <1>3 DEF Init
<1>5. landing \in [Dags -> 0 .. MaxLandings] /\ lock \in Builds \cup {Unlocked}
  BY BoundsAssumption DEF Init
<1>6. ASSUME NEW d \in Dags
      PROVE  run[d].no <= MaxRuns[d] /\ run[d].try <= Retries[d]
  <2>1. run[d].no = 0 /\ run[d].try = 0
    BY DEF Init
  <2>2. MaxRuns[d] \in Nat /\ Retries[d] \in Nat
    BY BoundsAssumption
  <2> QED BY <2>1, <2>2
<1>7. RunsNumbered
  BY DEF Init, RunsNumbered
<1> QED BY <1>1, <1>2, <1>4, <1>5, <1>6, <1>7 DEF TInv, TypeOK

(* Every step keeps the types.                                              *)
LEMMA TypesPreserved == TInv /\ [Next]_vars => TInv'
<1> SUFFICES ASSUME TInv, [Next]_vars PROVE TInv'
  OBVIOUS
<1>t. /\ run \in [Dags -> Run] /\ proc \in [Builds -> Process]
      /\ lock \in Builds \cup {Unlocked} /\ landing \in [Dags -> 0 .. MaxLandings]
      /\ mart \in [Dags -> [Marts -> Version]]
      /\ published \in [Dags -> [Marts -> Version]]
  BY DEF TInv, TypeOK
<1>b. MaxLandings \in Nat
  BY BoundsAssumption
<1>s. ASSUME NEW d \in Dags, Active(d), Succeed(d),
             UNCHANGED <<proc, lock, landing, mart, published>>
      PROVE  TInv'
  <2>1. /\ run'[d].no = run[d].no /\ run'[d].try = 0 /\ run' \in [Dags -> Run]
        /\ \A e \in Dags : e # d => run'[e] = run[e]
    BY <1>s, Succeeds
  <2>2. run[d].at # "never"
    BY <1>s DEF Active, Tasks
  <2>3. run'[d].no <= MaxRuns[d] /\ run'[d].no >= 1 /\ run'[d].try <= Retries[d]
    BY <2>1, <2>2, RunBounds
  <2>4. UNCHANGED <<proc, lock, landing, mart, published>>
    BY <1>s
  <2> QED BY <2>1, <2>3, <2>4, <1>t, RunTyped
<1>f. ASSUME NEW d \in Dags, Active(d), Fail(d),
             UNCHANGED <<proc, lock, landing, mart, published>>
      PROVE  TInv'
  <2>1. /\ run'[d].no = run[d].no /\ run' \in [Dags -> Run]
        /\ \A e \in Dags : e # d => run'[e] = run[e]
        /\ run'[d].try <= Retries[d]
    BY <1>f, Fails
  <2>2. run[d].at # "never"
    BY <1>f DEF Active, Tasks
  <2>3. run'[d].no <= MaxRuns[d] /\ run'[d].no >= 1
    BY <2>1, <2>2, RunBounds
  <2>4. UNCHANGED <<proc, lock, landing, mart, published>>
    BY <1>f
  <2> QED BY <2>1, <2>3, <2>4, <1>t, RunTyped
<1>1. ASSUME NEW d \in Dags, StartRun(d) PROVE TInv'
  <2>1. PICK s \in Selections :
          run' = [run EXCEPT ![d] = [at |-> "ingest", no |-> @.no + 1, try |-> 0,
                                     select |-> s, landed |-> 0, left |-> Marts]]
    BY <1>1 DEF StartRun
  <2>2. s \in SUBSET Marts
    BY MartsAssumption
  <2>3. run'[d] = [at |-> "ingest", no |-> run[d].no + 1, try |-> 0,
                   select |-> s, landed |-> 0, left |-> Marts]
    BY <2>1, <1>t
  <2>4. run'[d] \in Run
    BY <2>2, <2>3, RunBounds DEF Run, Tasks
  <2>5. run' \in [Dags -> Run] /\ \A e \in Dags : e # d => run'[e] = run[e]
    BY <2>1, <2>3, <2>4, <1>t
  <2>6. run[d].no < MaxRuns[d] /\ UNCHANGED <<proc, lock, landing, mart, published>>
    BY <1>1 DEF StartRun
  <2>7. run'[d].no <= MaxRuns[d] /\ run'[d].try <= Retries[d] /\ run'[d].no >= 1
    BY <2>3, <2>6, RunBounds
  <2> QED BY <2>5, <2>6, <2>7, <1>t, RunTyped
<1>2. ASSUME NEW d \in Dags, Ingest(d) PROVE TInv'
  <2>a. landing[d] \in 0 .. MaxLandings
    BY <1>t
  <2>b. landing[d] < MaxLandings => landing[d] + 1 \in 0 .. MaxLandings
    BY <2>a, <1>b
  <2>1. landing' \in [Dags -> 0 .. MaxLandings]
    BY <1>2, <1>t, <2>b DEF Ingest
  <2>2. landing'[d] \in Nat /\ After(run[d].at) = "list"
    BY <1>2, <2>1, <1>b DEF Ingest, After
  <2>3. run' = [run EXCEPT ![d] = [run[d] EXCEPT !.at = "list", !.try = 0,
                                                 !.landed = landing'[d]]]
    BY <1>2, <2>2, <1>t DEF Ingest
  <2>4. [run[d] EXCEPT !.at = "list", !.try = 0, !.landed = landing'[d]] \in Run
    BY <2>2, <1>t, RunFields DEF Tasks
  <2>5. run'[d] = [run[d] EXCEPT !.at = "list", !.try = 0, !.landed = landing'[d]]
    BY <2>3, <1>t
  <2>6. run'[d].no = run[d].no /\ run'[d].try = 0 /\ run[d].no >= 1
    BY <2>5, <1>2, RunBounds DEF Run, Ingest
  <2>7. run' \in [Dags -> Run] /\ \A e \in Dags : e # d => run'[e] = run[e]
    BY <2>3, <2>4, <1>t
  <2>8. UNCHANGED <<proc, lock, mart, published>>
    BY <1>2 DEF Ingest
  <2>9. run'[d].no <= MaxRuns[d] /\ run'[d].try <= Retries[d]
    BY <2>6, RunBounds
  <2> QED BY <2>1, <2>6, <2>7, <2>8, <2>9, <1>t, RunTyped
<1>3. ASSUME NEW d \in Dags, ListLandingFiles(d) PROVE TInv'
  BY <1>3, <1>s DEF ListLandingFiles, Active, Tasks
<1>4. ASSUME NEW d \in Dags, Raise(d) PROVE TInv'
  BY <1>4, <1>f DEF Raise
<1>5. ASSUME NEW d \in Dags, WorkerDies(d) PROVE TInv'
  BY <1>5, <1>f DEF WorkerDies, Active, Tasks
<1>6. ASSUME NEW d \in Dags, KillBuild(d) PROVE TInv'
  BY <1>6, <1>f DEF KillBuild, Active, Tasks
<1>7. ASSUME NEW d \in Dags, BuildReturns(d) PROVE TInv'
  BY <1>7, <1>f, <1>s DEF BuildReturns, Active, Tasks
<1>8. ASSUME NEW d \in Dags, PublishDone(d) PROVE TInv'
  BY <1>8, <1>s DEF PublishDone, Active, Tasks
<1>9. ASSUME NEW d \in Dags, StrayLanding(d) PROVE TInv'
  <2>1. landing' \in [Dags -> 0 .. MaxLandings]
    BY <1>9, <1>t, <1>b DEF StrayLanding
  <2>2. UNCHANGED <<run, proc, lock, mart, published>>
    BY <1>9 DEF StrayLanding
  <2> QED BY <2>1, <2>2, <1>t, RestTyped
<1>10. ASSUME NEW d \in Dags, StartBuild(d) PROVE TInv'
  <2>1. run[d].at # "never" /\ UNCHANGED <<run, lock, landing, mart, published>>
    BY <1>10 DEF StartBuild
  <2>2. BuildOf(d) \in Builds
    BY <2>1, BuildOfRun
  <2>3. [proc[BuildOf(d)] EXCEPT !.at = "wait", !.todo = run[d].select] \in Process
    BY <2>2, <1>t, ProcessFields, RunFields
  <2>4. proc' = [proc EXCEPT ![BuildOf(d)] =
                   [proc[BuildOf(d)] EXCEPT !.at = "wait", !.todo = run[d].select]]
    BY <1>10, <2>2, <1>t DEF StartBuild
  <2> QED BY <2>1, <2>2, <2>3, <2>4, <1>t, RestTyped
<1>11. ASSUME NEW b \in Builds, Acquire(b) PROVE TInv'
  <2>1. proc' = [proc EXCEPT ![b] = [proc[b] EXCEPT !.at = "build"]]
    BY <1>11, <1>t DEF Acquire
  <2>2. [proc[b] EXCEPT !.at = "build"] \in Process
    BY <1>t, ProcessFields
  <2>3. lock' = b /\ UNCHANGED <<run, landing, mart, published>>
    BY <1>11 DEF Acquire
  <2> QED BY <2>1, <2>2, <2>3, <1>t, RestTyped
<1>12. ASSUME NEW b \in Builds, LockTimeout(b) PROVE TInv'
  <2>1. proc' = [proc EXCEPT ![b] = NoProcess("exit1")]
        /\ UNCHANGED <<run, lock, landing, mart, published>>
    BY <1>12 DEF LockTimeout
  <2>2. NoProcess("exit1") \in Process
    BY <1>t, ProcessFields
  <2> QED BY <2>1, <2>2, <1>t, RestTyped
<1>13. ASSUME NEW b \in Builds, EndBuild(b) PROVE TInv'
  <2>1. /\ lock' = Unlocked /\ UNCHANGED <<run, landing, mart, published>>
        /\ \/ proc' = [proc EXCEPT ![b] = NoProcess("exit0")]
           \/ proc' = [proc EXCEPT ![b] = NoProcess("exit1")]
    BY <1>13 DEF EndBuild
  <2>2. NoProcess("exit0") \in Process /\ NoProcess("exit1") \in Process
    BY <1>t, ProcessFields
  <2> QED BY <2>1, <2>2, <1>t, RestTyped
<1>14. ASSUME NEW b \in Builds, NEW m \in Marts, WriteMart(b, m) PROVE TInv'
  <2>1. b.dag \in Dags /\ b.no \in Nat
    BY BuildElements
  <2>2. landing[b.dag] \in Nat
    BY <2>1, <1>t, <1>b
  <2>3. [no |-> b.no, landing |-> landing[b.dag], verdict |-> "open"] \in Version
    BY <2>1, <2>2 DEF Version
  <2>4. mart' \in [Dags -> [Marts -> Version]]
    BY <2>1, <2>3, <1>14, <1>t DEF WriteMart
  <2>5. proc[b].todo \ {m} \in SUBSET Marts
        /\ proc[b].untested \cup ({m} \cap TestedMarts) \in SUBSET Marts
    BY <1>t, ProcessFields
  <2>6. [proc[b] EXCEPT !.todo = proc[b].todo \ {m},
                        !.untested = proc[b].untested \cup ({m} \cap TestedMarts)]
          \in Process
    BY <2>5, <1>t, ProcessFields
  <2>7. proc' = [proc EXCEPT ![b] =
          [proc[b] EXCEPT !.todo = proc[b].todo \ {m},
                          !.untested = proc[b].untested \cup ({m} \cap TestedMarts)]]
    BY <1>14, <1>t DEF WriteMart
  <2>8. UNCHANGED <<run, lock, landing, published>>
    BY <1>14 DEF WriteMart
  <2> QED BY <2>4, <2>6, <2>7, <2>8, <1>t, RestTyped
<1>15. ASSUME NEW b \in Builds, NEW m \in Marts, TestMart(b, m) PROVE TInv'
  <2>1. b.dag \in Dags /\ mart[b.dag][m] \in Version
    BY BuildElements, <1>t
  <2>2. PICK pass \in BOOLEAN :
          /\ mart' = [mart EXCEPT ![b.dag][m].verdict =
                                     IF pass THEN "passed" ELSE "failed"]
          /\ proc' = [proc EXCEPT ![b].untested = @ \ {m}, ![b].bad = @ \/ ~pass]
    BY <1>15 DEF TestMart
  <2>3. [mart[b.dag][m] EXCEPT !.verdict = IF pass THEN "passed" ELSE "failed"]
          \in Version
    BY <2>1 DEF Version
  <2>4. mart' \in [Dags -> [Marts -> Version]]
    BY <2>1, <2>2, <2>3, <1>t
  <2>5. proc[b].untested \ {m} \in SUBSET Marts /\ (proc[b].bad \/ ~pass) \in BOOLEAN
    BY <1>t, ProcessFields
  <2>6. [proc[b] EXCEPT !.untested = proc[b].untested \ {m},
                        !.bad = proc[b].bad \/ ~pass] \in Process
    <3> DEFINE x == proc[b].bad \/ ~pass
    <3>1. x \in BOOLEAN /\ proc[b] \in Process
      BY <2>5, <1>t
    <3> HIDE DEF x
    <3>2. [proc[b] EXCEPT !.untested = proc[b].untested \ {m}, !.bad = x] \in Process
      BY <3>1, <2>5, Tested
    <3> QED BY <3>2 DEF x
  <2>7. proc' = [proc EXCEPT ![b] =
          [proc[b] EXCEPT !.untested = proc[b].untested \ {m},
                          !.bad = proc[b].bad \/ ~pass]]
    BY <2>2, <1>t
  <2>8. UNCHANGED <<run, lock, landing, published>>
    BY <1>15 DEF TestMart
  <2> QED BY <2>4, <2>6, <2>7, <2>8, <1>t, RestTyped
<1>16. ASSUME NEW d \in Dags, NEW m \in Marts, PublishMart(d, m) PROVE TInv'
  <2>1. published' \in [Dags -> [Marts -> Version]]
    BY <1>16, <1>t DEF PublishMart
  <2>2. run[d].left \ {m} \in SUBSET Marts
    BY <1>t, RunFields
  <2>3. [run[d] EXCEPT !.left = run[d].left \ {m}] \in Run
    BY <2>2, <1>t, RunFields
  <2>4. run' = [run EXCEPT ![d] = [run[d] EXCEPT !.left = run[d].left \ {m}]]
    BY <1>16, <1>t DEF PublishMart
  <2>5. run' \in [Dags -> Run] /\ \A e \in Dags : e # d => run'[e] = run[e]
    BY <2>3, <2>4, <1>t
  <2>6. run'[d].no = run[d].no /\ run'[d].try = run[d].try /\ run'[d].at = run[d].at
    BY <2>4, <1>t DEF Run
  <2>7. UNCHANGED <<proc, lock, landing, mart>>
    BY <1>16 DEF PublishMart
  <2>8. /\ run'[d].no <= MaxRuns[d] /\ run'[d].try <= Retries[d]
        /\ run'[d].at # "never" => run'[d].no >= 1
    BY <2>6, RunBounds
  <2> QED BY <2>1, <2>5, <2>7, <2>8, <1>t, RunTyped
<1>17. CASE Tick
  <2>1. ASSUME NEW b \in Builds PROVE proc'[b] \in Process
    <3> DEFINE h == IF proc[b].at = "build" THEN proc[b].held + 1 ELSE proc[b].held
    <3>1. proc[b] \in Process /\ proc[b].age \in Nat /\ proc[b].held \in Nat
      BY <1>t, ProcessFields
    <3>2. proc[b].age + 1 \in Nat /\ h \in Nat
      BY <3>1
    <3>3. proc'[b] = IF Alive(b) /\ proc[b].age <= Deadline
                     THEN [proc[b] EXCEPT !.age = proc[b].age + 1, !.held = h]
                     ELSE proc[b]
      BY <1>17, <3>1 DEF Tick
    <3> HIDE DEF h
    <3>4. [proc[b] EXCEPT !.age = proc[b].age + 1, !.held = h] \in Process
      BY <3>1, <3>2, Aged
    <3> QED BY <3>1, <3>3, <3>4
  <2>2. proc' \in [Builds -> Process]
    BY <1>17, <2>1 DEF Tick
  <2>3. UNCHANGED <<run, lock, landing, mart, published>>
    BY <1>17 DEF Tick
  <2> QED BY <2>2, <2>3, <1>t, RestTyped
<1>18. CASE UNCHANGED vars
  BY <1>18, <1>t, RestTyped DEF vars
<1> QED
  BY <1>1, <1>2, <1>3, <1>4, <1>5, <1>6, <1>7, <1>8, <1>9, <1>10, <1>11, <1>12,
     <1>13, <1>14, <1>15, <1>16, <1>17, <1>18 DEF Next, TaskStep, DbtStep

(* Every variable keeps its type and every counter its bound: no task is    *)
(* tried more often than Airflow allows, dbt_build once.                    *)
THEOREM TypeCorrect == Spec => []TypeOK
<1>1. TInv => TypeOK
  BY DEF TInv
<1> QED BY <1>1, TypesInitially, TypesPreserved, PTL DEF Spec

--------------------------------------------------------------------------------
(* The process at work is the one that has the lock.                        *)
LockInv == \A b \in Builds : proc[b].at = "build" <=> lock = b

(* A process that has not been started is blank; one that waits has not     *)
(* waited too long; one that builds has waited no longer either.            *)
TimeInv ==
  \A b \in Builds : /\ proc[b].at = "none" => proc[b] = NoProcess("none")
                    /\ proc[b].at = "wait" => proc[b].age <= LockWait
                    /\ proc[b].at = "build" => proc[b].age <= LockWait + proc[b].held

(* What a step can be to one build, and to one run.                         *)
LEMMA BuildView ==
  ASSUME TInv, LockInv, [Next]_vars, NEW b \in Builds
  PROVE  \/ proc'[b] = proc[b] /\ (lock' = b <=> lock = b)
         \/ StartBuild(b.dag) /\ BuildOf(b.dag) = b
         \/ Acquire(b) \/ LockTimeout(b) \/ EndBuild(b)
         \/ \E m \in Marts : WriteMart(b, m) \/ TestMart(b, m)
         \/ Tick
<1>t. proc \in [Builds -> Process] /\ Unlocked \notin Builds
  BY BuildElements DEF TInv, TypeOK
<1>1. ASSUME UNCHANGED <<proc, lock>> PROVE proc'[b] = proc[b] /\ (lock' = b <=> lock = b)
  BY <1>1
<1>2. ASSUME NEW d \in Dags, StartBuild(d), BuildOf(d) # b
      PROVE  proc'[b] = proc[b] /\ (lock' = b <=> lock = b)
  BY <1>2, <1>t DEF StartBuild
<1>3. ASSUME NEW d \in Dags, StartBuild(d), BuildOf(d) = b PROVE b.dag = d
  BY <1>3 DEF BuildOf
<1>4. ASSUME NEW c \in Builds, c # b, Acquire(c) \/ LockTimeout(c)
      PROVE  proc'[b] = proc[b] /\ (lock' = b <=> lock = b)
  BY <1>4, <1>t DEF Acquire, LockTimeout
<1>5. ASSUME NEW c \in Builds, c # b, EndBuild(c)
      PROVE  proc'[b] = proc[b] /\ (lock' = b <=> lock = b)
  BY <1>5, <1>t DEF EndBuild, LockInv
<1>6. ASSUME NEW c \in Builds, c # b, NEW m \in Marts, WriteMart(c, m) \/ TestMart(c, m)
      PROVE  proc'[b] = proc[b] /\ (lock' = b <=> lock = b)
  BY <1>6, <1>t DEF WriteMart, TestMart
<1>7. \/ UNCHANGED <<proc, lock>> \/ Tick
      \/ \E d \in Dags : StartBuild(d)
      \/ \E c \in Builds : \/ Acquire(c) \/ LockTimeout(c) \/ EndBuild(c)
                          \/ \E m \in Marts : WriteMart(c, m) \/ TestMart(c, m)
  BY DEF Next, vars, TaskStep, DbtStep, StartRun, Ingest, ListLandingFiles, Raise,
         WorkerDies, KillBuild, BuildReturns, PublishDone, PublishMart, StrayLanding
<1> QED BY <1>1, <1>2, <1>3, <1>4, <1>5, <1>6, <1>7

(* The steps of a run, as opposed to those of dbt, of files and of time.    *)
RunMoves(d) ==
  \/ StartRun(d) \/ Ingest(d) \/ ListLandingFiles(d) \/ Raise(d) \/ WorkerDies(d)
  \/ KillBuild(d) \/ BuildReturns(d) \/ PublishDone(d)
  \/ \E m \in Marts : PublishMart(d, m)

(* What one step does to one run.                                           *)
LEMMA RunView ==
  ASSUME TInv, [Next]_vars, NEW d \in Dags
  PROVE  run'[d] = run[d] \/ (RunMoves(d) /\ UNCHANGED <<proc, lock, mart>>)
<1>t. run \in [Dags -> Run]
  BY DEF TInv, TypeOK
<1>1. \/ run' = run
      \/ \E e \in Dags : RunMoves(e) /\ UNCHANGED <<proc, lock, mart>>
  BY DEF Next, vars, TaskStep, DbtStep, RunMoves, StartRun, Ingest, ListLandingFiles,
         Raise, WorkerDies, KillBuild, BuildReturns, PublishDone, PublishMart,
         StrayLanding, StartBuild, Acquire, LockTimeout, EndBuild, WriteMart, TestMart,
         Tick
<1>2. ASSUME NEW e \in Dags, e # d, RunMoves(e) PROVE run'[d] = run[d]
  <2>1. CASE StartRun(e)
    BY <1>2, <2>1, <1>t DEF StartRun
  <2>2. CASE Ingest(e) \/ (\E m \in Marts : PublishMart(e, m))
    BY <1>2, <2>2, <1>t DEF Ingest, PublishMart
  <2>3. ASSUME Fail(e) PROVE run'[d] = run[d]
    BY <1>2, <2>3, <1>t DEF Fail
  <2>4. ASSUME Succeed(e) PROVE run'[d] = run[d]
    BY <1>2, <2>4, <1>t DEF Succeed
  <2> QED
    BY <1>2, <2>1, <2>2, <2>3, <2>4 DEF RunMoves, ListLandingFiles, Raise, WorkerDies,
       KillBuild, BuildReturns, PublishDone
<1>3. ASSUME run' = run PROVE run'[d] = run[d]
  BY <1>3
<1>4. ASSUME NEW e \in Dags, RunMoves(e), UNCHANGED <<proc, lock, mart>>
      PROVE  run'[d] = run[d] \/ (RunMoves(d) /\ UNCHANGED <<proc, lock, mart>>)
  BY <1>2, <1>4
<1> QED BY <1>1, <1>3, <1>4

(* The two steps of a build at work, field by field.                        *)
LEMMA Writes ==
  ASSUME TInv, NEW b \in Builds, NEW m \in Marts, WriteMart(b, m)
  PROVE  /\ proc[b].at = "build" /\ proc'[b].at = "build" /\ m \in proc[b].todo
         /\ proc'[b].todo = proc[b].todo \ {m}
         /\ proc'[b].untested = proc[b].untested \cup ({m} \cap TestedMarts)
         /\ proc'[b].bad = proc[b].bad
         /\ proc'[b].age = proc[b].age /\ proc'[b].held = proc[b].held
         /\ UNCHANGED <<run, lock, landing, published>>
<1>1. proc \in [Builds -> Process] /\ proc[b] \in Process
  BY DEF TInv, TypeOK
<1>2. proc'[b] = [proc[b] EXCEPT !.todo = proc[b].todo \ {m},
                                 !.untested = proc[b].untested \cup ({m} \cap TestedMarts)]
  BY <1>1 DEF WriteMart
<1>3. /\ proc[b].at = "build" /\ m \in proc[b].todo
      /\ UNCHANGED <<run, lock, landing, published>>
  BY DEF WriteMart
<1> QED BY <1>1, <1>2, <1>3 DEF Process

(* What testing a mart changes, and what it leaves.                         *)
LEMMA Tests ==
  ASSUME TInv, NEW b \in Builds, NEW m \in Marts, TestMart(b, m)
  PROVE  /\ proc[b].at = "build" /\ proc'[b].at = "build" /\ m \in proc[b].untested
         /\ proc'[b].todo = proc[b].todo
         /\ proc'[b].untested = proc[b].untested \ {m}
         /\ proc'[b].age = proc[b].age /\ proc'[b].held = proc[b].held
         /\ UNCHANGED <<run, lock, landing, published>>
         /\ \E pass \in BOOLEAN :
              /\ proc'[b].bad = (proc[b].bad \/ ~pass)
              /\ mart' = [mart EXCEPT ![b.dag][m].verdict =
                                         IF pass THEN "passed" ELSE "failed"]
<1>1. proc \in [Builds -> Process] /\ proc[b] \in Process
  BY DEF TInv, TypeOK
<1>2. PICK pass \in BOOLEAN :
        /\ mart' = [mart EXCEPT ![b.dag][m].verdict =
                                   IF pass THEN "passed" ELSE "failed"]
        /\ proc' = [proc EXCEPT ![b].untested = @ \ {m}, ![b].bad = @ \/ ~pass]
  BY DEF TestMart
<1>3. proc'[b] = [proc[b] EXCEPT !.untested = proc[b].untested \ {m},
                                 !.bad = proc[b].bad \/ ~pass]
  BY <1>1, <1>2
<1>4. /\ proc[b].at = "build" /\ m \in proc[b].untested
      /\ UNCHANGED <<run, lock, landing, published>>
  BY DEF TestMart
<1>5. /\ proc'[b].at = "build" /\ proc'[b].todo = proc[b].todo
      /\ proc'[b].untested = proc[b].untested \ {m}
      /\ proc'[b].age = proc[b].age /\ proc'[b].held = proc[b].held
      /\ proc'[b].bad = (proc[b].bad \/ ~pass)
  BY <1>1, <1>3, <1>4 DEF Process
<1> QED BY <1>2, <1>4, <1>5

(* A tick lets no process pass from one place to another.                   *)
LEMMA TickStays ==
  ASSUME TInv, Tick, NEW b \in Builds
  PROVE  /\ proc'[b].at = proc[b].at /\ proc'[b].todo = proc[b].todo
         /\ proc'[b].untested = proc[b].untested /\ proc'[b].bad = proc[b].bad
         /\ UNCHANGED <<run, lock, landing, mart, published>>
         /\ \/ proc'[b] = proc[b]
            \/ /\ Alive(b) /\ proc'[b].age = proc[b].age + 1
               /\ proc[b].at = "build" => proc'[b].held = proc[b].held + 1
<1>1. proc[b] \in Process
  BY DEF TInv, TypeOK
<1>2. proc'[b] = IF Alive(b) /\ proc[b].age <= Deadline
                 THEN [proc[b] EXCEPT !.age = @ + 1,
                                      !.held = IF proc[b].at = "build" THEN @ + 1 ELSE @]
                 ELSE proc[b]
  BY DEF Tick
<1> QED BY <1>1, <1>2 DEF Tick, Process

(* The database lock is held by the process that builds.                    *)
LEMMA LockHeld == TInv /\ LockInv /\ [Next]_vars => LockInv'
<1> SUFFICES ASSUME TInv, LockInv, [Next]_vars, NEW b \in Builds
             PROVE  proc'[b].at = "build" <=> lock' = b
  BY DEF LockInv
<1>t. proc[b] \in Process /\ Unlocked \notin Builds /\ proc \in [Builds -> Process]
  BY BuildElements DEF TInv, TypeOK
<1>i. proc[b].at = "build" <=> lock = b
  BY DEF LockInv
<1>1. CASE proc'[b] = proc[b] /\ (lock' = b <=> lock = b)
  BY <1>1, <1>i
<1>2. CASE StartBuild(b.dag) /\ BuildOf(b.dag) = b
  BY <1>2, <1>t, <1>i DEF StartBuild, Process
<1>3. CASE Acquire(b)
  BY <1>3, <1>t DEF Acquire, Process
<1>4. CASE LockTimeout(b)
  BY <1>4, <1>t, <1>i DEF LockTimeout, NoProcess
<1>5. CASE EndBuild(b)
  BY <1>5, <1>t DEF EndBuild, NoProcess
<1>6. ASSUME NEW m \in Marts, WriteMart(b, m) \/ TestMart(b, m)
      PROVE  proc'[b].at = proc[b].at /\ lock' = lock
  BY <1>6, Writes, Tests
<1>7. CASE Tick
  BY <1>7, <1>i, TickStays
<1> QED BY <1>1, <1>2, <1>3, <1>4, <1>5, <1>6, <1>7, <1>i, BuildView

(* Nobody holds the lock at the start.                                      *)
LEMMA LockInitially == Init => LockInv /\ TimeInv
  BY BuildElements DEF Init, LockInv, TimeInv, NoProcess

(* No build waits for longer than the limit.                                *)
LEMMA TimesKept == TInv /\ LockInv /\ TimeInv /\ [Next]_vars => TimeInv'
<1> SUFFICES ASSUME TInv, LockInv, TimeInv, [Next]_vars, NEW b \in Builds
             PROVE  /\ proc'[b].at = "none" => proc'[b] = NoProcess("none")
                    /\ proc'[b].at = "wait" => proc'[b].age <= LockWait
                    /\ proc'[b].at = "build" => proc'[b].age <= LockWait + proc'[b].held
  BY DEF TimeInv
<1>t. /\ proc[b] \in Process /\ proc \in [Builds -> Process] /\ LockWait \in Nat
      /\ proc[b].age \in Nat /\ proc[b].held \in Nat
  BY TimesAssumption, ProcessFields DEF TInv, TypeOK
<1>i. /\ proc[b].at = "none" => proc[b] = NoProcess("none")
      /\ proc[b].at = "wait" => proc[b].age <= LockWait
      /\ proc[b].at = "build" => proc[b].age <= LockWait + proc[b].held
  BY DEF TimeInv
<1>1. CASE proc'[b] = proc[b]
  BY <1>1, <1>i
<1>2. CASE StartBuild(b.dag) /\ BuildOf(b.dag) = b
  <2>1. proc[b] = NoProcess("none")
    BY <1>2, <1>i DEF StartBuild
  <2>2. proc'[b].at = "wait" /\ proc'[b].age = proc[b].age
    BY <1>2, <1>t DEF StartBuild, Process
  <2> QED BY <2>1, <2>2, <1>t DEF NoProcess
<1>3. CASE Acquire(b)
  <2>1. /\ proc'[b].at = "build" /\ proc'[b].age = proc[b].age
        /\ proc'[b].held = proc[b].held /\ proc[b].at = "wait"
    BY <1>3, <1>t DEF Acquire, Process
  <2> QED BY <2>1, <1>t, <1>i
<1>4. CASE LockTimeout(b) \/ EndBuild(b)
  <2>1. proc'[b].at \in {"exit0", "exit1"}
    BY <1>4, <1>t DEF LockTimeout, EndBuild, NoProcess
  <2> QED BY <2>1
<1>5. ASSUME NEW m \in Marts, WriteMart(b, m) \/ TestMart(b, m)
      PROVE  /\ proc'[b].at = "build" /\ proc[b].at = "build"
             /\ proc'[b].age = proc[b].age /\ proc'[b].held = proc[b].held
  BY <1>5, Writes, Tests
<1>6. CASE Tick
  <2>1. proc[b].at = "wait" => proc[b].age < LockWait
    BY <1>6 DEF Tick
  <2>2. CASE proc'[b] = proc[b]
    BY <2>2, <1>i
  <2>3. CASE /\ Alive(b) /\ proc'[b].age = proc[b].age + 1
             /\ proc[b].at = "build" => proc'[b].held = proc[b].held + 1
    <3>1. proc'[b].at = proc[b].at /\ proc[b].at \in {"wait", "build"}
      BY <1>6, <2>3, TickStays DEF Alive
    <3> QED BY <3>1, <2>1, <2>3, <1>t, <1>i
  <2> QED BY <2>2, <2>3, <1>6, TickStays
<1> QED BY <1>1, <1>2, <1>3, <1>4, <1>5, <1>6, <1>i, BuildView

(* No two dbt processes are ever at work in the project, abandoned ones     *)
(* included.                                                                *)
THEOREM OneBuildAtATime == Spec => []OneBuildInProject
<1>1. Init => TInv /\ LockInv
  BY TypesInitially, LockInitially
<1>2. TInv /\ LockInv /\ [Next]_vars => (TInv /\ LockInv)'
  BY TypesPreserved, LockHeld
<1>3. LockInv => OneBuildInProject
  BY DEF LockInv, OneBuildInProject
<1> QED BY <1>1, <1>2, <1>3, PTL DEF Spec

(* No build is given up before it has had its time with the lock.           *)
THEOREM NoBuildCutShort == Spec => BuildGetsItsTime
<1> DEFINE Cut == \A d \in Dags : LET b == BuildOf(d) IN
       /\ run[d].at = "build" /\ run'[d].at = "failed"
       /\ Alive(b) /\ proc[b].age > Deadline
       => proc[b].held > BuildTimeout
<1>1. Init => TInv /\ LockInv /\ TimeInv
  BY TypesInitially, LockInitially
<1>2. TInv /\ LockInv /\ TimeInv /\ [Next]_vars => (TInv /\ LockInv /\ TimeInv)'
  BY TypesPreserved, LockHeld, TimesKept
<1>3. TInv /\ TimeInv => Cut
  <2> SUFFICES ASSUME TInv, TimeInv, NEW d \in Dags, run[d].at = "build",
                      Alive(BuildOf(d)), proc[BuildOf(d)].age > Deadline
               PROVE  proc[BuildOf(d)].held > BuildTimeout
    OBVIOUS
  <2>1. BuildOf(d) \in Builds
    BY BuildOfRun
  <2>2. proc[BuildOf(d)] \in Process
    BY <2>1 DEF TInv, TypeOK
  <2>3. proc[BuildOf(d)].age \in Nat /\ proc[BuildOf(d)].held \in Nat
    BY <2>2, ProcessFields
  <2>4. /\ proc[BuildOf(d)].at = "wait" => proc[BuildOf(d)].age <= LockWait
        /\ proc[BuildOf(d)].at = "build" =>
             proc[BuildOf(d)].age <= LockWait + proc[BuildOf(d)].held
    BY <2>1 DEF TimeInv
  <2> QED BY <2>3, <2>4, TimesAssumption DEF Alive, Deadline
<1>4. TInv /\ TimeInv /\ [Next]_vars => [Cut]_vars
  BY <1>3
<1> QED BY <1>1, <1>2, <1>4, PTL DEF Spec, BuildGetsItsTime
--------------------------------------------------------------------------------
(* The builds of one DAG come one after the other: those of runs to come    *)
(* have not started, one that was published from ended well, and once a     *)
(* build is at work no earlier one is alive.                                *)
BuildsInStep ==
  \A b \in Builds :
    /\ b.no > run[b.dag].no => proc[b].at = "none"
    /\ b.no = run[b.dag].no /\ run[b.dag].at \in {"ingest", "list"} => proc[b].at = "none"
    /\ b.no = run[b.dag].no /\ run[b.dag].at \in {"publish", "success"} => proc[b].at = "exit0"

WaitsForItsRun ==
  \A b \in Builds :
    proc[b].at = "wait" => b.no = run[b.dag].no /\ run[b.dag].at = "build"

EarlierAreGone ==
  \A b, c \in Builds :
    b.dag = c.dag /\ b.no < c.no /\ proc[c].at \in {"build", "exit0"} => ~Alive(b)

OrderInv == WaitsForItsRun /\ EarlierAreGone

(* What a step can be to the place a run is at; it leaves a build that waits *)
(* for the lock only if the worker dies.                                    *)
LEMMA RunPlaces ==
  ASSUME TInv, TimeInv, [Next]_vars, NEW d \in Dags
  PROVE  \/ run'[d].no = run[d].no /\ run'[d].at = run[d].at
         \/ /\ UNCHANGED <<proc, lock>>
            /\ \/ ~Active(d) /\ run'[d].no = run[d].no + 1 /\ run'[d].at = "ingest"
               \/ /\ run'[d].no = run[d].no
                  /\ \/ run[d].at = "ingest" /\ run'[d].at = "list"
                     \/ run[d].at = "list" /\ run'[d].at = "build"
                     \/ run[d].at = "publish" /\ run'[d].at = "success"
                     \/ /\ run[d].at = "build" /\ run'[d].at = "publish"
                        /\ proc[BuildOf(d)].at = "exit0"
                     \/ /\ run'[d].at = "failed" /\ Active(d)
                        /\ \/ "wait" \in Deaths
                           \/ run[d].at = "build" => proc[BuildOf(d)].at # "wait"
<1>t. run \in [Dags -> Run] /\ run[d] \in Run
  BY DEF TInv, TypeOK
<1>f. ASSUME Active(d), Fail(d)
      PROVE  /\ run'[d].no = run[d].no
             /\ run'[d].at = "failed" \/ run'[d].at = run[d].at
  BY <1>f, Fails
<1>s. ASSUME Active(d), Succeed(d)
      PROVE  run'[d].no = run[d].no /\ run'[d].at = After(run[d].at)
  BY <1>s, Succeeds
<1>1. CASE StartRun(d)
  BY <1>1, <1>t DEF StartRun
<1>2. CASE Ingest(d)
  <2>1. run' = [run EXCEPT ![d] = [run[d] EXCEPT !.at = "list", !.try = 0,
                                                 !.landed = landing'[d]]]
    BY <1>2, <1>t DEF Ingest, After
  <2>2. run'[d] = [run[d] EXCEPT !.at = "list", !.try = 0, !.landed = landing'[d]]
    BY <2>1, <1>t
  <2>3. run'[d].at = "list" /\ run'[d].no = run[d].no
    BY <2>2, <1>t DEF Run
  <2> QED BY <2>3, <1>2 DEF Ingest
<1>3. CASE ListLandingFiles(d)
  BY <1>3, <1>s DEF ListLandingFiles, Active, Tasks, After
<1>4. CASE Raise(d)
  BY <1>4, <1>f DEF Raise
<1>5. CASE WorkerDies(d)
  BY <1>5, <1>f DEF WorkerDies, Active, Tasks
<1>6. CASE KillBuild(d)
  <2>1. run[d].at = "build" /\ proc[BuildOf(d)].age > Deadline
    BY <1>6 DEF KillBuild
  <2>2. BuildOf(d) \in Builds
    BY <2>1, BuildOfRun
  <2>3. proc[BuildOf(d)].at = "wait" => proc[BuildOf(d)].age <= LockWait
    BY <2>2 DEF TimeInv
  <2>4. proc[BuildOf(d)].age \in Nat
    BY <2>2, ProcessFields DEF TInv, TypeOK
  <2>5. proc[BuildOf(d)].at # "wait"
    BY <2>1, <2>3, <2>4, TimesAssumption DEF Deadline
  <2> QED BY <2>5, <1>6, <1>f DEF KillBuild, Active, Tasks
<1>7. CASE BuildReturns(d)
  BY <1>7, <1>f, <1>s DEF BuildReturns, Active, Tasks, After
<1>8. CASE PublishDone(d)
  BY <1>8, <1>s DEF PublishDone, Active, Tasks, After
<1>9. ASSUME NEW m \in Marts, PublishMart(d, m)
      PROVE  run'[d].no = run[d].no /\ run'[d].at = run[d].at
  BY <1>9, <1>t DEF PublishMart, Run
<1> QED
  BY <1>1, <1>2, <1>3, <1>4, <1>5, <1>6, <1>7, <1>8, <1>9, RunView DEF RunMoves

(* What a step can be to the place a build is at.                           *)
LEMMA BuildPlaces ==
  ASSUME TInv, LockInv, [Next]_vars, NEW b \in Builds
  PROVE  \/ proc'[b].at = proc[b].at
         \/ /\ UNCHANGED run
            /\ \/ /\ proc[b].at = "none" /\ proc'[b].at = "wait"
                  /\ run[b.dag].at = "build" /\ run[b.dag].no = b.no
               \/ proc[b].at = "wait" /\ proc'[b].at = "build" /\ lock = Unlocked
               \/ proc[b].at = "wait" /\ proc'[b].at = "exit1"
               \/ proc[b].at = "build" /\ proc'[b].at \in {"exit0", "exit1"}
<1>t. proc \in [Builds -> Process] /\ proc[b] \in Process
  BY DEF TInv, TypeOK
<1>1. CASE StartBuild(b.dag) /\ BuildOf(b.dag) = b
  <2>1. run[b.dag].no = b.no
    BY <1>1 DEF BuildOf
  <2> QED BY <2>1, <1>1, <1>t DEF StartBuild, Process
<1>2. CASE Acquire(b)
  BY <1>2, <1>t DEF Acquire, Process
<1>3. CASE LockTimeout(b)
  BY <1>3, <1>t DEF LockTimeout, NoProcess
<1>4. CASE EndBuild(b)
  BY <1>4, <1>t DEF EndBuild, NoProcess
<1>5. ASSUME NEW m \in Marts, WriteMart(b, m) \/ TestMart(b, m)
      PROVE  proc'[b].at = proc[b].at
  BY <1>5, Writes, Tests
<1>6. CASE Tick
  BY <1>6, TickStays
<1> QED BY <1>1, <1>2, <1>3, <1>4, <1>5, <1>6, BuildView

(* Builds stay in step with the runs that start them.                       *)
LEMMA InStepKept ==
  ASSUME TInv, LockInv, TimeInv, BuildsInStep, [Next]_vars
  PROVE  BuildsInStep'
<1> SUFFICES ASSUME NEW b \in Builds
    PROVE  /\ b.no > run'[b.dag].no => proc'[b].at = "none"
           /\ b.no = run'[b.dag].no /\ run'[b.dag].at \in {"ingest", "list"}
                => proc'[b].at = "none"
           /\ b.no = run'[b.dag].no /\ run'[b.dag].at \in {"publish", "success"}
                => proc'[b].at = "exit0"
  BY DEF BuildsInStep
<1>d. b.dag \in Dags /\ b.no \in Nat /\ b.no >= 1 /\ b = [dag |-> b.dag, no |-> b.no]
  BY BuildElements
<1>n. run[b.dag].no \in Nat
  BY <1>d, RunBounds
<1>i. /\ b.no > run[b.dag].no => proc[b].at = "none"
      /\ b.no = run[b.dag].no /\ run[b.dag].at \in {"ingest", "list"} => proc[b].at = "none"
      /\ b.no = run[b.dag].no /\ run[b.dag].at \in {"publish", "success"}
           => proc[b].at = "exit0"
  BY DEF BuildsInStep
<1>o. b.no = run[b.dag].no => BuildOf(b.dag) = b
  BY <1>d DEF BuildOf
<1>1. CASE run'[b.dag].no = run[b.dag].no /\ run'[b.dag].at = run[b.dag].at
  BY <1>1, <1>i, <1>n, <1>d, BuildPlaces
<1>2. CASE /\ UNCHANGED <<proc, lock>> /\ ~Active(b.dag)
           /\ run'[b.dag].no = run[b.dag].no + 1 /\ run'[b.dag].at = "ingest"
  BY <1>2, <1>i, <1>n, <1>d DEF Active, Tasks
<1>3. CASE /\ UNCHANGED <<proc, lock>> /\ run'[b.dag].no = run[b.dag].no
           /\ \/ run[b.dag].at = "ingest" /\ run'[b.dag].at = "list"
              \/ run[b.dag].at = "list" /\ run'[b.dag].at = "build"
              \/ run[b.dag].at = "publish" /\ run'[b.dag].at = "success"
              \/ /\ run[b.dag].at = "build" /\ run'[b.dag].at = "publish"
                 /\ proc[BuildOf(b.dag)].at = "exit0"
              \/ run'[b.dag].at = "failed"
  BY <1>3, <1>i, <1>o, <1>n, <1>d
<1> QED BY <1>1, <1>2, <1>3, <1>d, RunPlaces

(* While no waiting build is orphaned, its run stays at the build.          *)
LEMMA WaitingKept ==
  ASSUME "wait" \notin Deaths, TInv, LockInv, TimeInv, WaitsForItsRun, [Next]_vars
  PROVE  WaitsForItsRun'
<1> SUFFICES ASSUME NEW b \in Builds, proc'[b].at = "wait"
             PROVE  b.no = run'[b.dag].no /\ run'[b.dag].at = "build"
  BY DEF WaitsForItsRun
<1>d. b.dag \in Dags /\ b = [dag |-> b.dag, no |-> b.no]
  BY BuildElements
<1>1. CASE proc[b].at # "wait"
  BY <1>1, BuildPlaces
<1>2. CASE proc[b].at = "wait"
  <2>1. b.no = run[b.dag].no /\ run[b.dag].at = "build"
    BY <1>2 DEF WaitsForItsRun
  <2>2. BuildOf(b.dag) = b
    BY <2>1, <1>d DEF BuildOf
  <2> QED BY <1>2, <2>1, <2>2, <1>d, RunPlaces DEF Active, Tasks
<1> QED BY <1>1, <1>2

(* While a build holds or held the lock, the earlier ones stay gone.        *)
LEMMA GoneKept ==
  ASSUME TInv, LockInv, BuildsInStep, OrderInv, [Next]_vars
  PROVE  EarlierAreGone'
<1> SUFFICES ASSUME NEW b \in Builds, NEW c \in Builds, b.dag = c.dag, b.no < c.no,
                    proc'[c].at \in {"build", "exit0"}
             PROVE  proc'[b].at \notin {"wait", "build"}
  BY DEF EarlierAreGone, Alive
<1>d. /\ b.dag \in Dags /\ b.no \in Nat /\ c.no \in Nat
      /\ run[b.dag].no \in Nat /\ Unlocked \notin Builds
  BY BuildElements, RunBounds
<1>i. proc[c].at \in {"build", "exit0"} => proc[b].at \notin {"wait", "build"}
  BY DEF OrderInv, EarlierAreGone, Alive
<1>l. lock = Unlocked => proc[b].at # "build"
  BY <1>d DEF LockInv
<1>w. proc[b].at = "wait" /\ proc[c].at = "wait" => FALSE
  BY <1>d DEF OrderInv, WaitsForItsRun
<1>n. b.no = run[b.dag].no => proc[c].at = "none"
  BY <1>d DEF BuildsInStep
<1>x. proc'[b].at \in {"wait", "build"} =>
        \/ proc[b].at \in {"wait", "build"}
        \/ proc[b].at = "none" /\ proc[c].at = "none"
  BY <1>n, BuildPlaces
<1>y. \/ proc[c].at \in {"build", "exit0"}
      \/ proc[c].at = "wait" /\ lock = Unlocked
  BY BuildPlaces
<1> QED BY <1>i, <1>l, <1>w, <1>x, <1>y

(* No process is out of order at the start.                                 *)
LEMMA OrderInitially == Init => BuildsInStep /\ OrderInv
<1> SUFFICES ASSUME Init PROVE BuildsInStep /\ OrderInv
  OBVIOUS
<1>1. ASSUME NEW b \in Builds
      PROVE  proc[b].at = "none" /\ run[b.dag].at = "never"
  BY BuildElements DEF Init, NoProcess
<1> QED BY <1>1 DEF OrderInv, WaitsForItsRun, BuildsInStep, EarlierAreGone, Alive

StepInv == TInv /\ LockInv /\ TimeInv /\ BuildsInStep

(* Types, lock, times and step together are inductive.                      *)
LEMMA StepInvKept ==
  /\ Init => StepInv
  /\ StepInv /\ [Next]_vars => StepInv'
<1>1. Init => StepInv
  BY TypesInitially, LockInitially, OrderInitially DEF StepInv
<1>2. ASSUME StepInv, [Next]_vars PROVE StepInv'
  BY <1>2, TypesPreserved, LockHeld, TimesKept, InStepKept DEF StepInv
<1> QED BY <1>1, <1>2

(* So is the order of the builds, while no waiting build is orphaned.       *)
LEMMA OrderKept ==
  ASSUME "wait" \notin Deaths
  PROVE  /\ Init => OrderInv
         /\ StepInv /\ OrderInv /\ [Next]_vars => OrderInv'
<1>1. Init => OrderInv
  BY OrderInitially
<1>2. ASSUME StepInv, OrderInv, [Next]_vars PROVE OrderInv'
  <2>1. TInv /\ LockInv /\ TimeInv /\ BuildsInStep /\ WaitsForItsRun
    BY <1>2 DEF StepInv, OrderInv
  <2> QED BY <1>2, <2>1, WaitingKept, GoneKept DEF OrderInv
<1> QED BY <1>1, <1>2

(* While a run publishes, no build of its DAG is at work, an abandoned one  *)
(* of an earlier run included, provided that no worker dies while its build *)
(* still waits for the lock (with such a death TLC finds it broken).        *)
THEOREM NothingBuildsUnderPublish ==
  ASSUME "wait" \notin Deaths
  PROVE  Spec => []NoBuildUnderPublish
<1>1. StepInv /\ OrderInv => NoBuildUnderPublish
  <2> SUFFICES ASSUME StepInv, OrderInv, NEW d \in Dags, run[d].at = "publish",
                      NEW b \in Builds, b.dag = d
               PROVE  proc[b].at # "build"
    BY DEF NoBuildUnderPublish
  <2>1. TInv /\ BuildsInStep /\ EarlierAreGone
    BY DEF StepInv, OrderInv
  <2>2. BuildOf(d) \in Builds /\ BuildOf(d).dag = d /\ BuildOf(d).no = run[d].no
    BY <2>1, BuildOfRun
  <2>3. proc[BuildOf(d)].at = "exit0"
    BY <2>1, <2>2 DEF BuildsInStep
  <2>4. b.no \in Nat /\ run[d].no \in Nat
    BY <2>1, BuildElements, RunBounds
  <2>5. CASE b.no < run[d].no
    BY <2>1, <2>2, <2>3, <2>5 DEF EarlierAreGone, Alive
  <2>6. CASE b.no = run[d].no
    BY <2>1, <2>6 DEF BuildsInStep
  <2>7. CASE b.no > run[d].no
    BY <2>1, <2>7 DEF BuildsInStep
  <2> QED BY <2>4, <2>5, <2>6, <2>7
<1> QED BY <1>1, StepInvKept, OrderKept, PTL DEF Spec
--------------------------------------------------------------------------------
(* What a step can be to the contents of a run.                             *)
LEMMA RunContents ==
  ASSUME TInv, [Next]_vars, NEW d \in Dags
  PROVE  \/ run'[d] = run[d]
         \/ StartRun(d) /\ run'[d].landed = 0 /\ run'[d].left = Marts
              /\ run'[d].select \in Selections
              /\ run'[d].at = "ingest" /\ run'[d].no = run[d].no + 1
         \/ Ingest(d) /\ run'[d].landed = landing'[d] /\ run'[d].left = run[d].left
              /\ run'[d].select = run[d].select
              /\ run'[d].at = "list" /\ run'[d].no = run[d].no
         \/ \E m \in Marts :
              /\ PublishMart(d, m) /\ run'[d].left = run[d].left \ {m}
              /\ run'[d].at = run[d].at /\ run'[d].no = run[d].no
              /\ run'[d].landed = run[d].landed /\ run'[d].select = run[d].select
         \/ /\ UNCHANGED <<proc, lock, landing, mart, published>>
            /\ run'[d].no = run[d].no /\ run'[d].select = run[d].select
            /\ run'[d].landed = run[d].landed
            /\ \/ run'[d].at = "failed"
               \/ run'[d].at = run[d].at /\ run'[d].left = Marts
               \/ run[d].at = "list" /\ run'[d].at = "build" /\ run'[d].left = run[d].left
               \/ run[d].at = "build" /\ run'[d].at = "publish" /\ run'[d].left = run[d].left
               \/ run[d].at = "publish" /\ run'[d].at = "success" /\ run[d].left = {}
<1>t. run \in [Dags -> Run] /\ run[d] \in Run
  BY DEF TInv, TypeOK
<1>f. ASSUME Active(d), Fail(d)
      PROVE  /\ run'[d].no = run[d].no /\ run'[d].select = run[d].select
             /\ run'[d].landed = run[d].landed
             /\ \/ run'[d].at = "failed"
                \/ run'[d].at = run[d].at /\ run'[d].left = Marts
  BY <1>f, Fails
<1>s. ASSUME Active(d), Succeed(d)
      PROVE  /\ run'[d].no = run[d].no /\ run'[d].select = run[d].select
             /\ run'[d].landed = run[d].landed /\ run'[d].left = run[d].left
             /\ run'[d].at = After(run[d].at)
  BY <1>s, Succeeds
<1>1. CASE StartRun(d)
  <2>1. PICK p \in Selections :
          run' = [run EXCEPT ![d] = [at |-> "ingest", no |-> @.no + 1, try |-> 0,
                                     select |-> p, landed |-> 0, left |-> Marts]]
    BY <1>1 DEF StartRun
  <2>2. run'[d] = [at |-> "ingest", no |-> run[d].no + 1, try |-> 0,
                   select |-> p, landed |-> 0, left |-> Marts]
    BY <2>1, <1>t
  <2> QED BY <1>1, <2>2
<1>2. CASE Ingest(d)
  <2>1. run' = [run EXCEPT ![d] = [run[d] EXCEPT !.at = "list", !.try = 0,
                                                 !.landed = landing'[d]]]
    BY <1>2, <1>t DEF Ingest, After
  <2>2. run'[d] = [run[d] EXCEPT !.at = "list", !.try = 0, !.landed = landing'[d]]
    BY <2>1, <1>t
  <2>3. /\ run'[d].at = "list" /\ run'[d].no = run[d].no
        /\ run'[d].landed = landing'[d] /\ run'[d].left = run[d].left
        /\ run'[d].select = run[d].select
    BY <2>2, <1>t DEF Run
  <2> QED BY <2>3, <1>2
<1>3. CASE ListLandingFiles(d)
  BY <1>3, <1>s DEF ListLandingFiles, Active, Tasks, After
<1>4. CASE Raise(d)
  BY <1>4, <1>f DEF Raise
<1>5. CASE WorkerDies(d) \/ KillBuild(d)
  BY <1>5, <1>f DEF WorkerDies, KillBuild, Active, Tasks
<1>7. CASE BuildReturns(d)
  BY <1>7, <1>f, <1>s DEF BuildReturns, Active, Tasks, After
<1>8. CASE PublishDone(d)
  BY <1>8, <1>s DEF PublishDone, Active, Tasks, After
<1>9. ASSUME NEW m \in Marts, PublishMart(d, m)
      PROVE  /\ run'[d].left = run[d].left \ {m}
             /\ run'[d].at = run[d].at /\ run'[d].no = run[d].no
             /\ run'[d].landed = run[d].landed /\ run'[d].select = run[d].select
  <2>1. run'[d] = [run[d] EXCEPT !.left = run[d].left \ {m}]
    BY <1>9, <1>t DEF PublishMart
  <2> QED BY <2>1, <1>t DEF Run
<1> QED
  BY <1>1, <1>2, <1>3, <1>4, <1>5, <1>7, <1>8, <1>9, RunView DEF RunMoves

(* What a step can be to a mart: a build of its DAG that is at work writes  *)
(* it or tests it.                                                          *)
LEMMA MartView ==
  ASSUME TInv, [Next]_vars, NEW d \in Dags, NEW m \in Marts
  PROVE  \/ mart'[d][m] = mart[d][m]
         \/ \E b \in Builds :
              /\ b.dag = d /\ proc[b].at = "build"
              /\ \/ /\ WriteMart(b, m)
                    /\ mart'[d][m].landing = landing[d]
                 \/ /\ TestMart(b, m)
                    /\ mart'[d][m].landing = mart[d][m].landing
<1>t. /\ mart \in [Dags -> [Marts -> Version]] /\ mart[d] \in [Marts -> Version]
      /\ mart[d][m] \in Version
  BY DEF TInv, TypeOK
<1>1. \/ UNCHANGED mart
      \/ \E b \in Builds, n \in Marts : WriteMart(b, n) \/ TestMart(b, n)
  BY DEF Next, vars, TaskStep, DbtStep, StartRun, Ingest, ListLandingFiles, Raise,
         WorkerDies, KillBuild, BuildReturns, PublishDone, PublishMart, StrayLanding,
         StartBuild, Acquire, LockTimeout, EndBuild, Tick
<1>2. ASSUME NEW b \in Builds, NEW n \in Marts, WriteMart(b, n)
      PROVE  \/ mart'[d][m] = mart[d][m]
             \/ n = m /\ b.dag = d /\ mart'[d][m].landing = landing[d]
  <2>1. mart' = [mart EXCEPT ![b.dag] = [mart[b.dag] EXCEPT ![n] =
                   [no |-> b.no, landing |-> landing[b.dag], verdict |-> "open"]]]
    BY <1>2, BuildElements DEF WriteMart
  <2>2. CASE b.dag # d \/ n # m
    BY <2>1, <2>2, <1>t
  <2>3. CASE b.dag = d /\ n = m
    <3>1. mart'[d][m] = [no |-> b.no, landing |-> landing[d], verdict |-> "open"]
      BY <2>1, <2>3, <1>t
    <3> QED BY <3>1, <2>3
  <2> QED BY <2>2, <2>3
<1>3. ASSUME NEW b \in Builds, NEW n \in Marts, TestMart(b, n)
      PROVE  \/ mart'[d][m] = mart[d][m]
             \/ n = m /\ b.dag = d /\ mart'[d][m].landing = mart[d][m].landing
  <2>1. PICK v \in {"passed", "failed"} :
          mart' = [mart EXCEPT ![b.dag] = [mart[b.dag] EXCEPT ![n] =
                     [mart[b.dag][n] EXCEPT !.verdict = v]]]
    BY <1>3, Tests
  <2>2. CASE b.dag # d \/ n # m
    BY <2>1, <2>2, <1>t
  <2>3. CASE b.dag = d /\ n = m
    <3>1. mart'[d][m] = [mart[d][m] EXCEPT !.verdict = v]
      BY <2>1, <2>3, <1>t
    <3> QED BY <3>1, <2>3, <1>t DEF Version
  <2> QED BY <2>2, <2>3
<1>4. ASSUME NEW b \in Builds, NEW n \in Marts, WriteMart(b, n) \/ TestMart(b, n)
      PROVE  proc[b].at = "build"
  BY <1>4, Writes, Tests
<1> QED BY <1>1, <1>2, <1>3, <1>4

(* Publishing a mart leaves what its run ingested as it was.                *)
LEMMA PublishKeeps ==
  ASSUME TInv, NEW d \in Dags, NEW m \in Marts, PublishMart(d, m)
  PROVE  run'[d].landed = run[d].landed
<1>1. run \in [Dags -> Run] /\ run[d] \in Run
  BY DEF TInv, TypeOK
<1>2. run'[d] = [run[d] EXCEPT !.left = run[d].left \ {m}]
  BY <1>1 DEF PublishMart
<1> QED BY <1>1, <1>2 DEF Run

(* The copies in Postgres change by publishing only.                        *)
LEMMA PublishedView ==
  ASSUME TInv, [Next]_vars, NEW d \in Dags, NEW m \in Marts
  PROVE  \/ published'[d][m] = published[d][m]
         \/ PublishMart(d, m) /\ published'[d][m] = mart[d][m]
<1>t. published \in [Dags -> [Marts -> Version]] /\ published[d] \in [Marts -> Version]
  BY DEF TInv, TypeOK
<1>1. UNCHANGED published \/ \E e \in Dags, n \in Marts : PublishMart(e, n)
  BY DEF Next, vars, TaskStep, DbtStep, StartRun, Ingest, ListLandingFiles, Raise,
         WorkerDies, KillBuild, BuildReturns, PublishDone, StrayLanding, StartBuild,
         Acquire, LockTimeout, EndBuild, WriteMart, TestMart, Tick
<1>2. ASSUME NEW e \in Dags, NEW n \in Marts, PublishMart(e, n)
      PROVE  \/ published'[d][m] = published[d][m]
             \/ e = d /\ n = m /\ published'[d][m] = mart[d][m]
  BY <1>2, <1>t DEF PublishMart
<1> QED BY <1>1, <1>2

WholeSelected == \A d \in Dags : run[d].select = Marts

(* When only whole selections are asked for, every run asks for all.        *)
LEMMA WholeKept ==
  ASSUME Selections \subseteq {Marts}
  PROVE  /\ Init => WholeSelected
         /\ TInv /\ WholeSelected /\ [Next]_vars => WholeSelected'
<1>1. ASSUME TInv, WholeSelected, [Next]_vars, NEW d \in Dags
      PROVE  run'[d].select = Marts
  BY <1>1, RunContents DEF WholeSelected
<1> QED BY <1>1 DEF Init, WholeSelected
--------------------------------------------------------------------------------
(* The landing a run has ingested is not ahead of the zone and no mart is;  *)
(* what is published, but for what is left to publish, is not behind it.    *)
Recorded ==
  \A d \in Dags :
    /\ run[d].landed <= landing[d]
    /\ run[d].at \in {"ingest", "list", "build"} => run[d].left = Marts
    /\ \A m \in Marts :
         /\ mart[d][m].landing <= landing[d]
         /\ \/ run[d].at = "publish" /\ m \in run[d].left
            \/ run[d].at \notin {"publish", "success"}
            \/ published[d][m].landing >= run[d].landed

(* The marts that the build of the current run has written are not behind   *)
(* what the run ingested, and once it has ended well it has written all.    *)
BuiltFromIngest ==
  \A b \in Builds : b.no = run[b.dag].no =>
    /\ proc[b].at = "wait" => proc[b].todo = Marts
    /\ \A m \in Marts :
         /\ proc[b].at = "build" =>
              m \in proc[b].todo \/ mart[b.dag][m].landing >= run[b.dag].landed
         /\ proc[b].at = "exit0" => mart[b.dag][m].landing >= run[b.dag].landed

(* Landings only grow.                                                      *)
LEMMA LandingsGrow ==
  ASSUME TInv, Recorded, [Next]_vars, NEW d \in Dags
  PROVE  /\ landing[d] \in Nat /\ landing'[d] \in Nat /\ landing[d] <= landing'[d]
         /\ \A m \in Marts :
              /\ mart[d][m].landing \in Nat /\ mart'[d][m].landing \in Nat
              /\ mart[d][m].landing <= mart'[d][m].landing
              /\ mart'[d][m].landing <= landing[d]
              /\ published[d][m].landing \in Nat
<1>t. landing \in [Dags -> 0 .. MaxLandings] /\ landing[d] \in Nat /\ MaxLandings \in Nat
  BY BoundsAssumption DEF TInv, TypeOK
<1>1. \/ UNCHANGED landing
      \/ \E e \in Dags : landing' = [landing EXCEPT ![e] = @ + 1]
  BY DEF Next, vars, TaskStep, DbtStep, StartRun, Ingest, ListLandingFiles, Raise,
         WorkerDies, KillBuild, BuildReturns, PublishDone, PublishMart, StrayLanding,
         StartBuild, Acquire, LockTimeout, EndBuild, WriteMart, TestMart, Tick
<1>2. landing'[d] = landing[d] \/ landing'[d] = landing[d] + 1
  BY <1>1, <1>t
<1>3. ASSUME NEW m \in Marts
      PROVE  /\ mart[d][m].landing \in Nat /\ mart'[d][m].landing \in Nat
             /\ mart[d][m].landing <= mart'[d][m].landing
             /\ mart'[d][m].landing <= landing[d]
             /\ published[d][m].landing \in Nat
  <2>1. mart[d][m] \in Version /\ published[d][m] \in Version
    BY DEF TInv, TypeOK
  <2>2. mart[d][m].landing \in Nat /\ published[d][m].landing \in Nat
    BY <2>1 DEF Version
  <2>3. mart[d][m].landing <= landing[d]
    BY DEF Recorded
  <2>4. \/ mart'[d][m].landing = mart[d][m].landing
        \/ mart'[d][m].landing = landing[d]
    BY MartView
  <2> QED BY <2>2, <2>3, <2>4, <1>t
<1> QED BY <1>2, <1>3, <1>t

(* No landing gets ahead of the zone, no publish behind its run.            *)
LEMMA RecordedKept ==
  ASSUME StepInv, Recorded, BuiltFromIngest, [Next]_vars
  PROVE  Recorded'
<1> SUFFICES ASSUME NEW d \in Dags
    PROVE  /\ run'[d].landed <= landing'[d]
           /\ run'[d].at \in {"ingest", "list", "build"} => run'[d].left = Marts
           /\ \A m \in Marts :
                /\ mart'[d][m].landing <= landing'[d]
                /\ \/ run'[d].at = "publish" /\ m \in run'[d].left
                   \/ run'[d].at \notin {"publish", "success"}
                   \/ published'[d][m].landing >= run'[d].landed
  BY DEF Recorded
<1>t. TInv /\ BuildsInStep
  BY DEF StepInv
<1>g. landing[d] \in Nat /\ landing'[d] \in Nat /\ landing[d] <= landing'[d]
  BY <1>t, LandingsGrow
<1>n. run[d].landed \in Nat /\ run[d].landed <= landing[d]
  BY <1>t, RunBounds DEF Recorded
<1>l. run[d].at \in {"ingest", "list", "build"} => run[d].left = Marts
  BY DEF Recorded
<1>1. run'[d].landed <= landing'[d]
  BY <1>t, <1>g, <1>n, RunContents
<1>2. run'[d].at \in {"ingest", "list", "build"} => run'[d].left = Marts
  BY <1>t, <1>l, RunContents DEF PublishMart, Ingest
<1>3. ASSUME NEW m \in Marts
      PROVE  /\ mart'[d][m].landing <= landing'[d]
             /\ \/ run'[d].at = "publish" /\ m \in run'[d].left
                \/ run'[d].at \notin {"publish", "success"}
                \/ published'[d][m].landing >= run'[d].landed
  <2>1. mart'[d][m].landing <= landing'[d]
    BY <1>t, <1>g, LandingsGrow
  <2>i. \/ run[d].at = "publish" /\ m \in run[d].left
        \/ run[d].at \notin {"publish", "success"}
        \/ published[d][m].landing >= run[d].landed
    BY DEF Recorded
  <2>b. run[d].at = "publish" => mart[d][m].landing >= run[d].landed
    <3> SUFFICES ASSUME run[d].at = "publish" PROVE mart[d][m].landing >= run[d].landed
      OBVIOUS
    <3>1. BuildOf(d) \in Builds /\ BuildOf(d).dag = d /\ BuildOf(d).no = run[d].no
      BY <1>t, BuildOfRun
    <3>2. proc[BuildOf(d)].at = "exit0"
      BY <1>t, <3>1 DEF BuildsInStep
    <3> QED BY <3>1, <3>2 DEF BuiltFromIngest
  <2>2. CASE PublishMart(d, m)
    <3>1. run[d].at = "publish" /\ published'[d][m] = mart[d][m]
      BY <1>t, <2>2 DEF PublishMart, TInv, TypeOK
    <3>2. run'[d].landed = run[d].landed
      BY <1>t, <2>2, PublishKeeps
    <3> QED BY <2>1, <2>b, <3>1, <3>2
  <2>3. CASE published'[d][m] = published[d][m] /\ ~PublishMart(d, m)
    <3>1. CASE run'[d] = run[d]
      BY <3>1, <2>1, <2>3, <2>i
    <3>2. CASE run'[d].at \notin {"publish", "success"}
      BY <3>2, <2>1
    <3>3. ASSUME NEW n \in Marts, PublishMart(d, n), run'[d].left = run[d].left \ {n},
                 run'[d].at = run[d].at, run'[d].landed = run[d].landed
          PROVE  \/ run'[d].at = "publish" /\ m \in run'[d].left
                 \/ run'[d].at \notin {"publish", "success"}
                 \/ published'[d][m].landing >= run'[d].landed
      BY <3>3, <2>3, <2>i
    <3>4. CASE /\ run'[d].landed = run[d].landed
               /\ \/ run'[d].at = run[d].at /\ run'[d].left = Marts
                  \/ run[d].at = "build" /\ run'[d].at = "publish"
                     /\ run'[d].left = run[d].left
                  \/ run[d].at = "publish" /\ run'[d].at = "success"
                     /\ run[d].left = {}
      BY <3>4, <2>1, <2>3, <2>i, <1>l
    <3> QED BY <1>t, <2>1, <3>1, <3>2, <3>3, <3>4, RunContents
  <2> QED BY <1>t, <2>2, <2>3, PublishedView
<1> QED BY <1>1, <1>2, <1>3

(* What a build has written stays no older than what its run ingested.      *)
LEMMA BuiltKept ==
  ASSUME Selections \subseteq {Marts},
         StepInv, WholeSelected, Recorded, BuiltFromIngest, [Next]_vars
  PROVE  BuiltFromIngest'
<1> SUFFICES ASSUME NEW b \in Builds, b.no = run'[b.dag].no
    PROVE  /\ proc'[b].at = "wait" => proc'[b].todo = Marts
           /\ \A m \in Marts :
                /\ proc'[b].at = "build" =>
                     m \in proc'[b].todo \/ mart'[b.dag][m].landing >= run'[b.dag].landed
                /\ proc'[b].at = "exit0" => mart'[b.dag][m].landing >= run'[b.dag].landed
  BY DEF BuiltFromIngest
<1>t. TInv /\ LockInv /\ TimeInv /\ BuildsInStep
  BY DEF StepInv
<1>d. /\ b.dag \in Dags /\ b.no \in Nat /\ run[b.dag].no \in Nat
      /\ run[b.dag].landed \in Nat /\ proc[b] \in Process /\ proc \in [Builds -> Process]
  BY <1>t, BuildElements, RunBounds DEF TInv, TypeOK
<1>1. CASE StartRun(b.dag) /\ run'[b.dag].no = run[b.dag].no + 1
  <2>1. proc[b].at = "none" /\ proc' = proc
    BY <1>1, <1>t, <1>d DEF BuildsInStep, StartRun
  <2> QED BY <2>1
<1>2. CASE Ingest(b.dag) /\ run'[b.dag].no = run[b.dag].no
  <2>1. proc[b].at = "none" /\ proc' = proc
    BY <1>2, <1>t, <1>d DEF BuildsInStep, Ingest
  <2> QED BY <2>1
<1>3. CASE run'[b.dag].no = run[b.dag].no /\ run'[b.dag].landed = run[b.dag].landed
  <2>i. /\ proc[b].at = "wait" => proc[b].todo = Marts
        /\ \A m \in Marts :
             /\ proc[b].at = "build" =>
                  m \in proc[b].todo \/ mart[b.dag][m].landing >= run[b.dag].landed
             /\ proc[b].at = "exit0" => mart[b.dag][m].landing >= run[b.dag].landed
    BY <1>3 DEF BuiltFromIngest
  <2>g. \A m \in Marts : /\ mart[b.dag][m].landing \in Nat
                         /\ mart'[b.dag][m].landing \in Nat
                         /\ mart[b.dag][m].landing <= mart'[b.dag][m].landing
    BY <1>t, <1>d, LandingsGrow
  <2>k. \A m \in Marts : mart[b.dag][m].landing >= run[b.dag].landed
          => mart'[b.dag][m].landing >= run'[b.dag].landed
    BY <2>g, <1>d, <1>3
  <2>1. CASE proc'[b] = proc[b]
    BY <2>1, <2>i, <2>k
  <2>2. CASE StartBuild(b.dag) /\ BuildOf(b.dag) = b
    <3>1. proc'[b].at = "wait" /\ proc'[b].todo = run[b.dag].select
      BY <2>2, <1>d DEF StartBuild, Process
    <3> QED BY <3>1, <1>d DEF WholeSelected
  <2>3. CASE Acquire(b)
    <3>1. proc[b].at = "wait" /\ proc'[b].at = "build" /\ proc'[b].todo = proc[b].todo
      BY <2>3, <1>d DEF Acquire, Process
    <3> QED BY <3>1, <2>i
  <2>4. CASE LockTimeout(b)
    BY <2>4, <1>d DEF LockTimeout, NoProcess
  <2>5. CASE EndBuild(b)
    <3>1. proc'[b].at = "exit0" => proc[b].todo = {} /\ proc[b].at = "build"
      BY <2>5, <1>d DEF EndBuild, NoProcess
    <3>2. proc'[b].at \in {"exit0", "exit1"}
      BY <2>5, <1>d DEF EndBuild, NoProcess
    <3> QED BY <3>1, <3>2, <2>i, <2>k
  <2>6. ASSUME NEW n \in Marts, WriteMart(b, n)
        PROVE  /\ proc'[b].at = "build"
               /\ \A m \in Marts : \/ m \in proc'[b].todo
                                  \/ mart'[b.dag][m].landing >= run'[b.dag].landed
    <3>1. /\ proc[b].at = "build" /\ proc'[b].at = "build"
          /\ proc'[b].todo = proc[b].todo \ {n}
      BY <1>t, <2>6, Writes
    <3>2. mart'[b.dag][n].landing = landing[b.dag]
      <4>1. mart' = [mart EXCEPT ![b.dag] = [mart[b.dag] EXCEPT ![n] =
                       [no |-> b.no, landing |-> landing[b.dag], verdict |-> "open"]]]
        BY <1>d, <2>6 DEF WriteMart
      <4> QED BY <4>1, <1>d, <1>t DEF TInv, TypeOK
    <3>3. run[b.dag].landed <= landing[b.dag]
      BY <1>d DEF Recorded
    <3>4. mart'[b.dag][n].landing >= run'[b.dag].landed
      BY <3>2, <3>3, <1>3, <1>d, <1>t, LandingsGrow
    <3> QED BY <3>1, <3>4, <2>i, <2>k
  <2>7. ASSUME NEW n \in Marts, TestMart(b, n)
        PROVE  /\ proc'[b].at = "build"
               /\ \A m \in Marts : \/ m \in proc'[b].todo
                                  \/ mart'[b.dag][m].landing >= run'[b.dag].landed
    <3>1. /\ proc[b].at = "build" /\ proc'[b].at = "build"
          /\ proc'[b].todo = proc[b].todo
      BY <1>t, <2>7, Tests
    <3> QED BY <3>1, <2>i, <2>k
  <2>8. CASE Tick
    <3>1. proc'[b].at = proc[b].at /\ proc'[b].todo = proc[b].todo
      BY <2>8, <1>t, TickStays
    <3> QED BY <3>1, <2>i, <2>k
  <2> QED
    BY <1>t, <2>1, <2>2, <2>3, <2>4, <2>5, <2>6, <2>7, <2>8, BuildView
<1> QED BY <1>1, <1>2, <1>3, <1>t, <1>d, RunContents

(* At the start no landing is ahead of another.                             *)
LEMMA RecordedInitially == Init => Recorded /\ BuiltFromIngest
<1> SUFFICES ASSUME Init PROVE Recorded /\ BuiltFromIngest
  OBVIOUS
<1>1. ASSUME NEW d \in Dags
      PROVE  /\ run[d].landed = 0 /\ landing[d] = 0 /\ run[d].at = "never"
             /\ \A m \in Marts : mart[d][m].landing = 0
  BY DEF Init, NoTable
<1>2. \A b \in Builds : proc[b].at = "none"
  BY DEF Init, NoProcess
<1> QED BY <1>1, <1>2 DEF Recorded, BuiltFromIngest

(* A green run has published what it ingested or something newer, if runs   *)
(* build every model: whatever dies, fails, is retried or is left behind.   *)
THEOREM GreenIsFresh ==
  ASSUME Selections \subseteq {Marts}
  PROVE  Spec => []GreenPublishesItsIngest
<1> DEFINE GreenInv == StepInv /\ WholeSelected /\ Recorded /\ BuiltFromIngest
<1>1. Init => GreenInv
  BY StepInvKept, WholeKept, RecordedInitially
<1>2. GreenInv /\ [Next]_vars => GreenInv'
  <2> SUFFICES ASSUME GreenInv, [Next]_vars PROVE GreenInv'
    OBVIOUS
  <2>1. StepInv' /\ WholeSelected'
    BY StepInvKept, WholeKept DEF StepInv
  <2>2. Recorded'
    BY RecordedKept
  <2>3. BuiltFromIngest'
    BY BuiltKept
  <2> QED BY <2>1, <2>2, <2>3
<1>3. GreenInv => GreenPublishesItsIngest
  BY DEF GreenPublishesItsIngest, Recorded
<1> QED BY <1>1, <1>2, <1>3, PTL DEF Spec
--------------------------------------------------------------------------------
(* A build at work, if no test has failed, has yet to write or to test the  *)
(* marts that have not passed; when it has ended well all have passed, and  *)
(* they stay so until its run has published them.                           *)
Verdicts ==
  \A b \in Builds :
    /\ proc[b].at = "wait" => proc[b].todo = Marts
    /\ \A m \in Marts :
         /\ proc[b].at = "build" =>
              \/ m \in proc[b].todo \cup proc[b].untested
              \/ proc[b].bad \/ mart[b.dag][m].verdict = "passed"
         /\ /\ proc[b].at = "exit0"
            /\ b.no = run[b.dag].no /\ run[b.dag].at \in {"build", "publish"}
            => mart[b.dag][m].verdict = "passed"

(* A build at work is the only one to touch its DAG's marts; none touches   *)
(* them between the end of the build and the end of its run.                *)
LEMMA OwnMarts ==
  ASSUME StepInv, OrderInv, [Next]_vars, NEW b \in Builds, NEW m \in Marts
  PROVE  /\ proc[b].at = "build" =>
              \/ mart'[b.dag][m] = mart[b.dag][m]
              \/ WriteMart(b, m) \/ TestMart(b, m)
         /\ proc[b].at = "exit0" /\ b.no = run[b.dag].no =>
              mart'[b.dag][m] = mart[b.dag][m]
<1>t. TInv /\ LockInv /\ BuildsInStep /\ EarlierAreGone
  BY DEF StepInv, OrderInv
<1>d. b.dag \in Dags /\ b.no \in Nat
  BY BuildElements
<1>1. ASSUME NEW c \in Builds, proc[c].at = "build", proc[b].at = "build" PROVE c = b
  BY <1>1, <1>t DEF LockInv
<1>2. ASSUME NEW c \in Builds, c.dag = b.dag, proc[c].at = "build",
             proc[b].at = "exit0", b.no = run[b.dag].no
      PROVE  FALSE
  <2>1. c.no \in Nat /\ c = [dag |-> c.dag, no |-> c.no] /\ b = [dag |-> b.dag, no |-> b.no]
    BY BuildElements
  <2>2. CASE c.no < b.no
    BY <1>2, <2>2, <1>t DEF EarlierAreGone, Alive
  <2>3. CASE c.no = b.no
    BY <1>2, <2>1, <2>3
  <2>4. CASE c.no > b.no
    BY <1>2, <2>4, <1>t DEF BuildsInStep
  <2> QED BY <2>1, <2>2, <2>3, <2>4, <1>d
<1> QED BY <1>1, <1>2, <1>t, <1>d, MartView

(* A build that ends well stays one that tested every mart.                 *)
LEMMA VerdictsKept ==
  ASSUME TestedMarts = Marts,
         StepInv, OrderInv, WholeSelected, Verdicts, [Next]_vars
  PROVE  Verdicts'
<1> SUFFICES ASSUME NEW b \in Builds
    PROVE  /\ proc'[b].at = "wait" => proc'[b].todo = Marts
           /\ \A m \in Marts :
                /\ proc'[b].at = "build" =>
                     \/ m \in proc'[b].todo \cup proc'[b].untested
                     \/ proc'[b].bad \/ mart'[b.dag][m].verdict = "passed"
                /\ /\ proc'[b].at = "exit0"
                   /\ b.no = run'[b.dag].no /\ run'[b.dag].at \in {"build", "publish"}
                   => mart'[b.dag][m].verdict = "passed"
  BY DEF Verdicts
<1>t. TInv /\ LockInv /\ TimeInv /\ BuildsInStep
  BY DEF StepInv
<1>d. /\ b.dag \in Dags /\ b.no \in Nat /\ run[b.dag].no \in Nat
      /\ proc[b] \in Process /\ proc \in [Builds -> Process]
  BY <1>t, BuildElements, RunBounds DEF TInv, TypeOK
<1>i. /\ proc[b].at = "wait" => proc[b].todo = Marts
      /\ \A m \in Marts : proc[b].at = "build" =>
           \/ m \in proc[b].todo \cup proc[b].untested
           \/ proc[b].bad \/ mart[b.dag][m].verdict = "passed"
  BY DEF Verdicts
<1>1. CASE proc'[b] = proc[b]
  <2>1. ASSUME NEW m \in Marts, proc[b].at = "build"
        PROVE  \/ m \in proc[b].todo \cup proc[b].untested
               \/ proc[b].bad \/ mart'[b.dag][m].verdict = "passed"
    <3>1. ASSUME WriteMart(b, m) \/ TestMart(b, m) PROVE m \in proc[b].todo \cup proc[b].untested
      BY <3>1, <1>t, Writes, Tests
    <3> QED BY <3>1, <2>1, <1>i, OwnMarts
  <2>2. ASSUME NEW m \in Marts, proc[b].at = "exit0", b.no = run'[b.dag].no,
               run'[b.dag].at \in {"build", "publish"}
        PROVE  mart'[b.dag][m].verdict = "passed"
    <3>1. CASE run'[b.dag].no = run[b.dag].no /\ run[b.dag].at \in {"build", "publish"}
      <4>1. mart[b.dag][m].verdict = "passed"
        BY <3>1, <2>2 DEF Verdicts
      <4> QED BY <4>1, <3>1, <2>2, OwnMarts
    <3>2. CASE run'[b.dag].no = run[b.dag].no /\ run[b.dag].at = "list"
      BY <3>2, <2>2, <1>t DEF BuildsInStep
    <3> QED BY <3>1, <3>2, <2>2, <1>t, <1>d, RunPlaces
  <2> QED BY <1>1, <1>i, <2>1, <2>2
<1>2. CASE StartBuild(b.dag) /\ BuildOf(b.dag) = b
  <2>1. proc'[b].at = "wait" /\ proc'[b].todo = run[b.dag].select
    BY <1>2, <1>d DEF StartBuild, Process
  <2> QED BY <2>1, <1>d DEF WholeSelected
<1>3. CASE Acquire(b)
  <2>1. proc[b].at = "wait" /\ proc'[b].at = "build" /\ proc'[b].todo = proc[b].todo
    BY <1>3, <1>d DEF Acquire, Process
  <2> QED BY <2>1, <1>i
<1>4. CASE LockTimeout(b)
  BY <1>4, <1>d DEF LockTimeout, NoProcess
<1>5. CASE EndBuild(b)
  <2>1. /\ proc'[b].at \in {"exit0", "exit1"} /\ proc[b].at = "build" /\ UNCHANGED mart
        /\ proc'[b].at = "exit0" =>
             proc[b].todo = {} /\ proc[b].untested = {} /\ ~proc[b].bad
    BY <1>5, <1>d DEF EndBuild, NoProcess
  <2> QED BY <2>1, <1>i
<1>6. ASSUME NEW n \in Marts, WriteMart(b, n)
      PROVE  /\ proc'[b].at = "build"
             /\ \A m \in Marts : \/ m \in proc'[b].todo \cup proc'[b].untested
                                \/ proc'[b].bad \/ mart'[b.dag][m].verdict = "passed"
  <2>1. /\ proc[b].at = "build" /\ proc'[b].at = "build" /\ proc'[b].bad = proc[b].bad
        /\ proc'[b].todo = proc[b].todo \ {n}
        /\ proc'[b].untested = proc[b].untested \cup {n}
    BY <1>t, <1>6, Writes
  <2>2. ASSUME NEW m \in Marts, m # n PROVE mart'[b.dag][m] = mart[b.dag][m]
    BY <1>6, <2>2, <1>d, <1>t DEF WriteMart, TInv, TypeOK
  <2> QED BY <2>1, <2>2, <1>i
<1>7. ASSUME NEW n \in Marts, TestMart(b, n)
      PROVE  /\ proc'[b].at = "build"
             /\ \A m \in Marts : \/ m \in proc'[b].todo \cup proc'[b].untested
                                \/ proc'[b].bad \/ mart'[b.dag][m].verdict = "passed"
  <2>1. PICK pass \in BOOLEAN :
          /\ proc'[b].bad = (proc[b].bad \/ ~pass)
          /\ mart' = [mart EXCEPT ![b.dag][n].verdict = IF pass THEN "passed" ELSE "failed"]
    BY <1>t, <1>7, Tests
  <2>2. /\ proc[b].at = "build" /\ proc'[b].at = "build"
        /\ proc'[b].todo = proc[b].todo
        /\ proc'[b].untested = proc[b].untested \ {n}
    BY <1>t, <1>7, Tests
  <2>3. ASSUME NEW m \in Marts, m # n PROVE mart'[b.dag][m] = mart[b.dag][m]
    BY <2>1, <2>3, <1>d, <1>t DEF TInv, TypeOK
  <2>4. mart'[b.dag][n].verdict = IF pass THEN "passed" ELSE "failed"
    <3>1. mart[b.dag][n] \in Version /\ mart \in [Dags -> [Marts -> Version]]
      BY <1>d, <1>t DEF TInv, TypeOK
    <3>2. mart'[b.dag][n] = [mart[b.dag][n] EXCEPT !.verdict =
                               IF pass THEN "passed" ELSE "failed"]
      BY <2>1, <3>1, <1>d
    <3> QED BY <3>1, <3>2 DEF Version
  <2>5. ~proc'[b].bad => mart'[b.dag][n].verdict = "passed" /\ ~proc[b].bad
    BY <2>1, <2>4
  <2> QED BY <2>2, <2>3, <2>5, <1>i
<1>8. CASE Tick
  <2>1. /\ proc'[b].at = proc[b].at /\ proc'[b].todo = proc[b].todo
        /\ proc'[b].untested = proc[b].untested /\ proc'[b].bad = proc[b].bad
        /\ UNCHANGED <<run, mart>>
    BY <1>8, <1>t, TickStays
  <2> QED BY <2>1 DEF Verdicts
<1> QED BY <1>t, <1>1, <1>2, <1>3, <1>4, <1>5, <1>6, <1>7, <1>8, BuildView

(* The tests gate what is published: with tests on every mart and no part   *)
(* selected, every mart that is published has passed its tests, provided    *)
(* that no worker dies while its build waits for the lock.  Without any one *)
(* of these conditions TLC finds it broken; pipeline_untested is one case.  *)
THEOREM TestsGatePublishing ==
  ASSUME TestedMarts = Marts, Selections \subseteq {Marts}, "wait" \notin Deaths
  PROVE  Spec => []OnlyTestedIsPublished
<1> DEFINE GateInv == /\ StepInv /\ OrderInv /\ WholeSelected /\ Verdicts
                      /\ OnlyTestedIsPublished
<1>1. Init => GateInv
  <2> SUFFICES ASSUME Init PROVE Verdicts /\ OnlyTestedIsPublished
    BY StepInvKept, OrderKept, WholeKept
  <2>1. Verdicts
    BY DEF Init, NoProcess, Verdicts
  <2>2. OnlyTestedIsPublished
    BY DEF Init, OnlyTestedIsPublished
  <2> QED BY <2>1, <2>2
<1>2. GateInv /\ [Next]_vars => GateInv'
  <2> SUFFICES ASSUME GateInv, [Next]_vars PROVE GateInv'
    OBVIOUS
  <2>t. TInv /\ BuildsInStep
    BY DEF StepInv
  <2>1. StepInv' /\ OrderInv' /\ WholeSelected' /\ Verdicts'
    BY <2>t, StepInvKept, OrderKept, WholeKept, VerdictsKept
  <2>2. ASSUME NEW d \in Dags, NEW m \in Marts, published'[d][m] # NoTable
        PROVE  published'[d][m].verdict = "passed"
    <3>1. CASE published'[d][m] = published[d][m]
      BY <2>2, <3>1 DEF OnlyTestedIsPublished
    <3>2. CASE PublishMart(d, m) /\ published'[d][m] = mart[d][m]
      <4>1. run[d].at = "publish"
        BY <3>2 DEF PublishMart
      <4>2. BuildOf(d) \in Builds /\ BuildOf(d).dag = d /\ BuildOf(d).no = run[d].no
        BY <2>t, <4>1, BuildOfRun
      <4>3. proc[BuildOf(d)].at = "exit0"
        BY <2>t, <4>1, <4>2 DEF BuildsInStep
      <4> QED BY <3>2, <4>1, <4>2, <4>3 DEF Verdicts
    <3> QED BY <2>t, <3>1, <3>2, PublishedView
  <2>3. OnlyTestedIsPublished'
    BY <2>2 DEF OnlyTestedIsPublished
  <2> QED BY <2>1, <2>3
<1> QED BY <1>1, <1>2, PTL DEF Spec
================================================================================
