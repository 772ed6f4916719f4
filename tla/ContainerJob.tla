----------------------------- MODULE ContainerJob -----------------------------
(****************************************************************************)
(* data/src/common/aca.py, start_and_wait: the DAG's ingest task starts one *)
(* execution of the Container Apps job and polls the list of executions     *)
(* until that one has ended or a deadline has passed; Airflow retries the   *)
(* task when it raises.  Executions go on whatever becomes of the attempt   *)
(* that started them, can be started by hand as well, and show in the list  *)
(* some time after they change.                                             *)
(*                                                                          *)
(* Time is counted in polls: a sleep and a GET take one unit, or up to      *)
(* SlowPoll units when Azure is slow to answer.                             *)
(****************************************************************************)
EXTENDS Naturals

CONSTANTS MaxExecutions,  \* bound: executions of the job in a behaviour
          Retries,        \* Airflow's retries of the task
          Deadline,       \* timeout_seconds, in units of poll_seconds
          SlowPoll        \* the longest a poll takes, in the same units

ASSUME BoundsAssumption ==
  /\ MaxExecutions \in Nat /\ Retries \in Nat
  /\ Deadline \in Nat \ {0} /\ SlowPoll \in Nat \ {0}

VARIABLES
  execution,  \* execution[x]: what execution x is doing
  listed,     \* listed[x]: its status in the list of executions
  phase,      \* where the task is
  attempt,    \* Airflow's try number
  mine,       \* the execution this attempt started, 0 for a name unknown
  elapsed,    \* time since this attempt began to wait
  verdict     \* the status that ended the wait

azure == <<execution, listed>>
task == <<phase, attempt, mine, elapsed, verdict>>
vars == <<azure, task>>

Executions == 1 .. MaxExecutions       \* in the order they start
Ended == {"Succeeded", "Failed"}       \* Failed, Cancelled or Degraded
Statuses == Ended \cup {"absent", "Running"}
Over == {"green", "red"}

TypeOK ==
  /\ execution \in [Executions -> Statuses]
  /\ listed \in [Executions -> Statuses]
  /\ phase \in {"idle", "start", "wait", "judge", "logs"} \cup Over
  /\ attempt \in 1 .. Retries + 1
  /\ mine \in Executions \cup {0}
  /\ elapsed \in 0 .. Deadline - 1 + SlowPoll
  /\ verdict \in Statuses

Init ==
  /\ execution = [x \in Executions |-> "absent"]
  /\ listed = [x \in Executions |-> "absent"]
  /\ phase = "idle"
  /\ attempt = 1
  /\ mine = 0
  /\ elapsed = 0
  /\ verdict = "absent"

--------------------------------------------------------------------------------
(* Azure: an execution begins and ends, well or badly; the list follows     *)
(* later.  It ends well when the container exits with status 0, and the     *)
(* ingestion does that whatever its sources came to (Ingestion).            *)
Begin(x) ==
  /\ execution[x] = "absent"
  /\ \A y \in Executions : y < x => execution[y] # "absent"
  /\ execution' = [execution EXCEPT ![x] = "Running"]

Finish(x) ==
  /\ execution[x] = "Running"
  /\ \E end \in Ended : execution' = [execution EXCEPT ![x] = end]
  /\ UNCHANGED <<listed, task>>

List(x) ==
  /\ listed[x] # execution[x]
  /\ listed' = [listed EXCEPT ![x] = execution[x]]
  /\ UNCHANGED <<execution, task>>

StartedByHand(x) ==
  /\ Begin(x)
  /\ UNCHANGED <<listed, task>>

--------------------------------------------------------------------------------
(* Airflow runs the task, or the attempt raised and it is tried again while *)
(* there are retries left.                                                  *)
RunTask ==
  /\ phase = "idle"
  /\ phase' = "start"
  /\ UNCHANGED <<azure, attempt, mine, elapsed, verdict>>

Raise ==
  /\ \/ /\ attempt <= Retries
        /\ attempt' = attempt + 1
        /\ phase' = "start"
     \/ /\ attempt > Retries
        /\ phase' = "red"
        /\ UNCHANGED attempt
  /\ mine' = 0
  /\ elapsed' = 0
  /\ verdict' = "absent"

(* The POST starts an execution and answers with its name.                  *)
StartJob(x) ==
  /\ phase = "start"
  /\ Begin(x)
  /\ phase' = "wait"
  /\ mine' = x
  /\ UNCHANGED <<listed, attempt, elapsed, verdict>>

(* The POST fails; or Azure has started the execution and the answer is     *)
(* lost.                                                                    *)
StartFails ==
  /\ phase = "start"
  /\ Raise
  /\ UNCHANGED azure

StartUnanswered(x) ==
  /\ phase = "start"
  /\ Begin(x)
  /\ Raise
  /\ UNCHANGED listed

(* Variant: every poll starts the clock again.                              *)
PollY ==
  /\ phase = "wait" /\ elapsed < Deadline
  /\ elapsed' = 0
  /\ verdict' = listed[mine]
  /\ phase' = "judge"
  /\ UNCHANGED <<azure, attempt, mine>>

(* Variant: the newest execution is taken for one's own.                    *)
PollX ==
  /\ phase = "wait" /\ elapsed < Deadline
  /\ \E t \in 1 .. SlowPoll : elapsed' = elapsed + t
  /\ \E x \in Executions :
       /\ execution[x] # "absent"
       /\ \A y \in Executions : y > x => execution[y] = "absent"
       /\ verdict' = listed[x]
  /\ phase' = "judge"
  /\ UNCHANGED <<azure, attempt, mine>>

(* Sleep, then look one's own execution up by name.                         *)
Poll ==
  /\ phase = "wait" /\ elapsed < Deadline
  /\ \E t \in 1 .. SlowPoll : elapsed' = elapsed + t
  /\ verdict' = listed[mine]
  /\ phase' = "judge"
  /\ UNCHANGED <<azure, attempt, mine>>

PollFails ==
  /\ phase = "wait" /\ elapsed < Deadline
  /\ Raise
  /\ UNCHANGED azure

(* Not in the list, or still running: go on waiting.                        *)
Judge ==
  /\ phase = "judge"
  /\ phase' = IF verdict \in Ended THEN "logs" ELSE "wait"
  /\ UNCHANGED <<azure, attempt, mine, elapsed, verdict>>

(* The deadline is checked before a poll, never during one.                 *)
TimeOut ==
  /\ phase = "wait" /\ elapsed >= Deadline
  /\ Raise
  /\ UNCHANGED azure

(* The console log is pulled for good and bad ends alike; only then is the  *)
(* name returned or JobFailed raised.                                       *)
Conclude ==
  /\ phase = "logs"
  /\ \/ /\ verdict = "Succeeded"
        /\ phase' = "green"
        /\ UNCHANGED <<attempt, mine, elapsed, verdict>>
     \/ /\ verdict # "Succeeded"
        /\ Raise
  /\ UNCHANGED azure

(* The token for the log workspace cannot be had: the attempt raises,       *)
(* however the execution ended.                                             *)
LogsRaise ==
  /\ phase = "logs"
  /\ Raise
  /\ UNCHANGED azure

--------------------------------------------------------------------------------
Wait == Poll \/ Judge \/ TimeOut \/ Conclude

Attempt ==
  \/ \E x \in Executions : StartJob(x) \/ StartUnanswered(x)
  \/ StartFails \/ PollFails \/ LogsRaise \/ Wait

AzureNext ==
  \E x \in Executions : Finish(x) \/ List(x) \/ StartedByHand(x)

Quiet == phase \in Over /\ UNCHANGED vars

Next == RunTask \/ Attempt \/ AzureNext \/ Quiet

Spec == Init /\ [][Next]_vars

(* A running task makes its next move and its calls answer or fail.  Azure  *)
(* owes it nothing: an execution may run for ever and never be listed.      *)
FairSpec == Spec /\ WF_vars(Attempt)

--------------------------------------------------------------------------------
(* The task is green only if the very execution that its last attempt       *)
(* started has ended well: not another one of the same job that ran beside  *)
(* it (aca.py:310-311), not the one of an earlier attempt, not one it does  *)
(* not find in the list.  It says nothing of files: an execution whose      *)
(* sources both failed has ended well too.                                  *)
GreenMeansOwnSuccess ==
  phase = "green" => mine # 0 /\ execution[mine] = "Succeeded"

(* The task ends, in time, even if its execution never does or never        *)
(* appears in the list, and however many attempts it takes.                 *)
TaskEnds == phase = "start" ~> phase \in Over
================================================================================
