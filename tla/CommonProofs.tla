------------------------------ MODULE CommonProofs ------------------------------
(****************************************************************************)
(* The two clients of data/src/common, warehouse.py and aca.py, and         *)
(* scripts/db-setup.py, which has no module of proofs of its own.           *)
(*                                                                          *)
(* What Warehouse.query hands over is the whole result, for every chunk     *)
(* size and every number of rows.  The invariant counts rows in chunks:     *)
(* while chunk `link` is still to come, at most the rows of the chunks      *)
(* before it have arrived, and exactly those from a faithful server.        *)
(*                                                                          *)
(* A green ingest task's own execution has ended well, for any numbers of   *)
(* executions and retries and any times.  That the task is green is decided *)
(* long after its execution's status was read from a list that lags.  The   *)
(* invariant follows the verdict back: the list shows an end only of what   *)
(* has ended (ListIsPast), and an end is final, and a verdict was read in   *)
(* the line of this attempt's own execution (VerdictIsOwn).                 *)
(*                                                                          *)
(* A complete database setup is one with every grant on every table, and    *)
(* stays so.  The invariant says of each place in the script's loops what   *)
(* the statements before it have done (Behind), that no statement undoes    *)
(* it, and that a table created between the statements is closed only to    *)
(* roles the run has yet to come to, or to the one it forgets (Opened).     *)
(****************************************************************************)
EXTENDS Warehouse, ContainerJob, DbSetup, SequenceTheorems, TLAPS

--------------------------------------------------------------------------------
(* Warehouse.                                                               *)
(* Before chunk k, at most n rows can have been collected; none is missing  *)
(* if the server is faithful.                                               *)
UpTo(n) == rows <= n /\ (statement.faithful => rows = n)

Collecting ==
  /\ query \in {"submit", "asked", "answered"} => rows = 0 /\ link = 0
  /\ query = "chunks" =>
       /\ statement.state \in {"SUCCEEDED", "CLOSED"}
       /\ body = "SUCCEEDED"
       /\ link = 0 => UpTo(statement.total)
       /\ link # 0 => /\ (link - 1) * ChunkRows < statement.total
                      /\ UpTo((link - 1) * ChunkRows)

(* An answer never runs ahead of the server.                                *)
AnswerHonest ==
  query = "answered" /\ body = "SUCCEEDED" =>
    statement.state \in {"SUCCEEDED", "CLOSED"}

QueryInv == QueryTypeOK /\ Collecting /\ AnswerHonest /\ AllRowsOrRaised
        /\ NeverReturnsEarly

--------------------------------------------------------------------------------
(* The chunks before chunk k + 1 are those before chunk k and chunk k.      *)
LEMMA ChunkStep ==
  ASSUME NEW k \in Nat \ {0}
  PROVE  /\ k * ChunkRows \in Nat
         /\ (k - 1) * ChunkRows \in Nat
         /\ k * ChunkRows = (k - 1) * ChunkRows + ChunkRows
  BY ChunkAssumption

(* Chunk k of a result that has one takes the count from the chunks before  *)
(* it to the chunks up to it, and names chunk k + 1 exactly when rows are   *)
(* left.                                                                    *)
LEMMA ReceiveCounts ==
  ASSUME QueryTypeOK, NEW k \in Nat \ {0}, Receive(k), statement' = statement,
         (k - 1) * ChunkRows < statement.total \/ k = 1,
         UpTo((k - 1) * ChunkRows)
  PROVE  /\ rows' \in 0 .. MaxRows
         /\ link' \in Nat
         /\ (link' = 0 => UpTo(statement.total)')
         /\ (link' # 0 => /\ (link' - 1) * ChunkRows < statement'.total
                          /\ UpTo((link - 1) * ChunkRows)')
<1> DEFINE before == (k - 1) * ChunkRows
           upto == k * ChunkRows
           total == statement.total
<1>1. /\ before \in Nat /\ upto \in Nat /\ upto = before + ChunkRows
      /\ (k = 1 => before = 0)
      /\ ChunkRows \in Nat \ {0}
  BY ChunkStep, ChunkAssumption
<1>2. total \in 0 .. MaxRows /\ rows \in Nat /\ MaxRows \in Nat
      /\ statement.faithful \in BOOLEAN
  BY RowsAssumption DEF QueryTypeOK, Statement
<1>3. After(k) = total - upto /\ After(k - 1) = total - before
  BY <1>1, <1>2 DEF After
<1>4. rows <= before /\ (statement.faithful => rows = before) /\ before <= total
  BY <1>1, <1>2 DEF UpTo
<1> HIDE DEF before, upto, total
<1>5. /\ FullChunk(k) \in Nat
      /\ After(k) > 0 => FullChunk(k) = ChunkRows
      /\ ~(After(k) > 0) => FullChunk(k) = total - before
  BY <1>1, <1>2, <1>3, <1>4 DEF FullChunk
<1>6. NextLink(k) = IF After(k) > 0 THEN k + 1 ELSE 0
  BY DEF NextLink
<1>7. (k + 1) - 1 = k
  OBVIOUS
<1>8. /\ link' \in {0, NextLink(k)}
      /\ rows' \in Nat /\ rows' <= rows + FullChunk(k)
      /\ statement.faithful => rows' = rows + FullChunk(k) /\ link' = NextLink(k)
  BY <1>2, <1>5 DEF Receive
<1>9. rows' <= total
  BY <1>1, <1>2, <1>3, <1>4, <1>5, <1>8
<1>10. statement.faithful /\ link' = 0 => rows' = total
  BY <1>1, <1>2, <1>3, <1>4, <1>5, <1>6, <1>8
<1>11. link' # 0 => /\ link' = k + 1
                    /\ upto < total
                    /\ rows' <= upto
                    /\ statement.faithful => rows' = upto
  BY <1>1, <1>2, <1>3, <1>4, <1>5, <1>6, <1>8
<1>12. rows' \in 0 .. MaxRows /\ link' \in Nat
  BY <1>2, <1>6, <1>8, <1>9
<1>13. link' = 0 => UpTo(statement.total)'
  BY <1>9, <1>10 DEF UpTo, total
<1>14. ASSUME link' # 0
       PROVE  /\ (link' - 1) * ChunkRows < statement'.total
              /\ UpTo((link - 1) * ChunkRows)'
  <2>1. (link' - 1) * ChunkRows = upto
    BY <1>7, <1>11, <1>14 DEF upto
  <2>2. upto < total /\ rows' <= upto /\ (statement.faithful => rows' = upto)
    BY <1>11, <1>14
  <2> QED
    BY <2>1, <2>2 DEF UpTo, total
<1> QED
  BY <1>12, <1>13, <1>14

(* The invariant of the query holds at first.                               *)
LEMMA QueryInitInv == QueryInit => QueryInv
  BY RowsAssumption
  DEF QueryInit, QueryInv, QueryTypeOK, Collecting, AnswerHonest, AllRowsOrRaised,
      NeverReturnsEarly, UpTo, Statement, States, Working, EndedBadly, Phases

(* One step for every action.                                               *)
LEMMA QueryStepInv == QueryInv /\ [QueryNext]_queryVars => QueryInv'
<1> SUFFICES ASSUME QueryInv, [QueryNext]_queryVars PROVE QueryInv'
  OBVIOUS
<1> USE DEF QueryInv
<1>t. /\ statement \in Statement /\ statement.state \in States
      /\ statement.total \in 0 .. MaxRows /\ statement.faithful \in BOOLEAN
      /\ rows \in Nat
  BY RowsAssumption DEF QueryTypeOK, Statement
<1>1. CASE Execute
  <2>1. /\ statement' \in Statement
        /\ statement'.total = statement.total
        /\ statement'.faithful = statement.faithful
        /\ statement'.counted = statement.counted
        /\ statement.state \in Working
    BY <1>1, <1>t DEF Execute, Statement, States, Working, EndedBadly
  <2>2. query # "chunks" /\ query # "returned"
        /\ ~(query = "answered" /\ body = "SUCCEEDED")
    BY <2>1 DEF Collecting, AnswerHonest, NeverReturnsEarly, Working
  <2> QED
    BY <1>1, <2>1, <2>2
    DEF Execute, QueryTypeOK, Collecting, AnswerHonest, AllRowsOrRaised,
        NeverReturnsEarly, UpTo
<1>2. CASE Close
  <2>1. /\ statement' \in Statement
        /\ statement'.total = statement.total
        /\ statement'.faithful = statement.faithful
        /\ statement'.counted = statement.counted
        /\ statement'.state = "CLOSED"
    BY <1>2, <1>t DEF Close, Statement, States, Working, EndedBadly
  <2> QED
    BY <1>2, <2>1
    DEF Close, QueryTypeOK, Collecting, AnswerHonest, AllRowsOrRaised,
        NeverReturnsEarly, UpTo
<1>3. CASE Submit
  BY <1>3 DEF Submit, QueryTypeOK, Phases, Collecting, AnswerHonest,
              AllRowsOrRaised, NeverReturnsEarly, UpTo
<1>4. CASE Answer
  BY <1>4, <1>t DEF Answer, QueryTypeOK, Phases, Collecting, AnswerHonest,
                    AllRowsOrRaised, NeverReturnsEarly, UpTo
<1>5. CASE PollAgain
  BY <1>5 DEF PollAgain, QueryTypeOK, Phases, Collecting, AnswerHonest,
              AllRowsOrRaised, NeverReturnsEarly, UpTo
<1>6. CASE Refuse
  BY <1>6 DEF Refuse, QueryTypeOK, Phases, Collecting, AnswerHonest,
              AllRowsOrRaised, NeverReturnsEarly, UpTo
<1>7. CASE FirstChunk
  <2>1. rows = 0 /\ statement' = statement /\ Receive(1) /\ query' = "chunks"
        /\ body' = body /\ body = "SUCCEEDED"
        /\ statement.state \in {"SUCCEEDED", "CLOSED"}
    BY <1>7 DEF FirstChunk, Collecting, AnswerHonest
  <2>2. UpTo((1 - 1) * ChunkRows)
    BY <2>1, ChunkAssumption DEF UpTo
  <2>3. /\ rows' \in 0 .. MaxRows
        /\ link' \in Nat
        /\ (link' = 0 => UpTo(statement.total)')
        /\ (link' # 0 => /\ (link' - 1) * ChunkRows < statement'.total
                         /\ UpTo((link - 1) * ChunkRows)')
    BY <2>1, <2>2, ReceiveCounts
  <2> QED
    BY <2>1, <2>3 DEF QueryTypeOK, Phases, Collecting, AnswerHonest,
                      AllRowsOrRaised, NeverReturnsEarly
<1>8. CASE NextChunk
  <2>1. /\ statement' = statement /\ Receive(link) /\ query' = "chunks"
        /\ query = "chunks" /\ body' = body /\ link \in Nat \ {0}
        /\ (link - 1) * ChunkRows < statement.total
        /\ UpTo((link - 1) * ChunkRows)
        /\ body = "SUCCEEDED" /\ statement.state \in {"SUCCEEDED", "CLOSED"}
    BY <1>8 DEF NextChunk, Collecting, QueryTypeOK
  <2>3. /\ rows' \in 0 .. MaxRows
        /\ link' \in Nat
        /\ (link' = 0 => UpTo(statement.total)')
        /\ (link' # 0 => /\ (link' - 1) * ChunkRows < statement'.total
                         /\ UpTo((link - 1) * ChunkRows)')
    BY <2>1, ReceiveCounts
  <2> QED
    BY <2>1, <2>3 DEF QueryTypeOK, Phases, Collecting, AnswerHonest,
                      AllRowsOrRaised, NeverReturnsEarly
<1>9. CASE FinishQuery
  BY <1>9, <1>t DEF FinishQuery, QueryTypeOK, Phases, Collecting, AnswerHonest,
                    AllRowsOrRaised, NeverReturnsEarly, UpTo
<1>10. CASE CallFails
  BY <1>10 DEF CallFails, QueryTypeOK, Phases, Collecting, AnswerHonest,
               AllRowsOrRaised, NeverReturnsEarly, UpTo
<1>11. CASE UNCHANGED queryVars
  BY <1>11 DEF queryVars, QueryTypeOK, Collecting, AnswerHonest, AllRowsOrRaised,
               NeverReturnsEarly, UpTo
<1> QED
  BY <1>1, <1>2, <1>3, <1>4, <1>5, <1>6, <1>7, <1>8, <1>9, <1>10, <1>11
  DEF QueryNext, Client, Idle

(* Every number of rows and every link stays in its range.                  *)
THEOREM QueryTypeCorrect == QuerySpec => []QueryTypeOK
<1>1. QueryInit => QueryInv
  BY QueryInitInv
<1>2. QueryInv /\ [QueryNext]_queryVars => QueryInv'
  BY QueryStepInv
<1>3. QueryInv => QueryTypeOK
  BY DEF QueryInv
<1> QED
  BY <1>1, <1>2, <1>3, PTL DEF QuerySpec

(* query waits for the statement to succeed on the server                   *)
(* (warehouse.py:181-182), and returns every row of its result or raises    *)
(* (warehouse.py:205-226).                                                  *)
THEOREM QueryIsComplete == QuerySpec => []AllRowsOrRaised
<1>1. QueryInit => QueryInv
  BY QueryInitInv
<1>2. QueryInv /\ [QueryNext]_queryVars => QueryInv'
  BY QueryStepInv
<1>3. QueryInv => AllRowsOrRaised
  BY DEF QueryInv
<1> QED
  BY <1>1, <1>2, <1>3, PTL DEF QuerySpec

--------------------------------------------------------------------------------
(* ContainerJob.                                                            *)
ListIsPast ==
  \A x \in Executions : listed[x] = "Succeeded" => execution[x] = "Succeeded"

VerdictIsOwn ==
  /\ phase \in {"wait", "judge", "logs", "green"} => mine \in Executions
  /\ phase \in {"idle", "start", "wait"} => verdict \notin Ended
  /\ verdict = "Succeeded" => mine \in Executions /\ execution[mine] = "Succeeded"
  /\ phase = "green" => verdict = "Succeeded"

IInv == TypeOK /\ ListIsPast /\ VerdictIsOwn

(* The invariant of the task holds at first.                                *)
LEMMA InitInv == Init => IInv
  BY BoundsAssumption DEF Init, IInv, TypeOK, Statuses, Ended, Over, Executions,
                          ListIsPast, VerdictIsOwn

(* An exception ends the attempt, whatever Azure did meanwhile.             *)
LEMMA RaiseInv ==
  ASSUME IInv, Raise,
         execution' \in [Executions -> Statuses], listed' \in [Executions -> Statuses],
         ListIsPast'
  PROVE IInv'
<1>1. attempt' \in 1 .. Retries + 1 /\ phase' \in {"start", "red"} /\ mine' = 0 /\ elapsed' = 0
      /\ verdict' = "absent"
  BY BoundsAssumption DEF Raise, IInv, TypeOK
<1>2. TypeOK'
  BY <1>1, BoundsAssumption DEF TypeOK, Statuses, Ended, Over
<1>3. VerdictIsOwn'
  BY <1>1 DEF VerdictIsOwn, Ended
<1>4. QED
  BY <1>2, <1>3 DEF IInv

(* An execution that begins was absent, so nothing is said of it yet.       *)
LEMMA BeginKeeps ==
  ASSUME IInv, NEW x \in Executions, Begin(x), listed' = listed
  PROVE /\ execution' \in [Executions -> Statuses]
        /\ \A y \in Executions : execution'[y] = "Succeeded" <=> execution[y] = "Succeeded"
        /\ ListIsPast'
<1>1. execution' = [execution EXCEPT ![x] = "Running"] /\ execution[x] = "absent"
      /\ execution \in [Executions -> Statuses]
  BY DEF Begin, IInv, TypeOK
<1>2. execution' \in [Executions -> Statuses]
  BY <1>1 DEF Statuses
<1>3. \A y \in Executions : execution'[y] = "Succeeded" <=> execution[y] = "Succeeded"
  BY <1>1
<1>4. QED
  BY <1>2, <1>3 DEF IInv, ListIsPast

--------------------------------------------------------------------------------
(* One step for every action.                                               *)
LEMMA StepInv == IInv /\ [Next]_vars => IInv'
<1> SUFFICES ASSUME IInv, [Next]_vars PROVE IInv'
  OBVIOUS
<1>t. /\ TypeOK /\ ListIsPast /\ VerdictIsOwn
  BY DEF IInv
<1>1. CASE RunTask
  BY <1>1, <1>t DEF RunTask, azure, IInv, TypeOK, Statuses, Over, ListIsPast, VerdictIsOwn
<1>2. ASSUME NEW x \in Executions, StartJob(x) PROVE IInv'
  <2>1. /\ execution' \in [Executions -> Statuses] /\ ListIsPast'
        /\ \A y \in Executions : execution'[y] = "Succeeded" <=> execution[y] = "Succeeded"
    BY <1>2, BeginKeeps DEF StartJob
  <2>2. /\ phase = "start" /\ phase' = "wait" /\ mine' = x
        /\ UNCHANGED <<listed, attempt, elapsed, verdict>>
    BY <1>2 DEF StartJob
  <2>3. TypeOK'
    BY <1>t, <2>1, <2>2 DEF TypeOK
  <2>4. VerdictIsOwn'
    BY <1>t, <2>2 DEF VerdictIsOwn, Ended
  <2>5. QED
    BY <2>1, <2>3, <2>4 DEF IInv
<1>3. ASSUME NEW x \in Executions, StartUnanswered(x) PROVE IInv'
  <2>1. Begin(x) /\ Raise /\ listed' = listed
    BY <1>3 DEF StartUnanswered
  <2>2. execution' \in [Executions -> Statuses] /\ ListIsPast'
    BY <2>1, BeginKeeps
  <2>3. listed' \in [Executions -> Statuses]
    BY <2>1, <1>t DEF TypeOK
  <2>4. QED
    BY <2>1, <2>2, <2>3, RaiseInv
<1>4. CASE Raise /\ UNCHANGED azure
  <2>1. /\ execution' \in [Executions -> Statuses] /\ listed' \in [Executions -> Statuses]
    BY <1>4, <1>t DEF azure, TypeOK
  <2>2. ListIsPast'
    BY <1>4, <1>t DEF azure, ListIsPast
  <2>3. QED
    BY <1>4, <2>1, <2>2, RaiseInv
<1>5. CASE StartFails \/ PollFails \/ LogsRaise \/ TimeOut
  BY <1>4, <1>5 DEF StartFails, PollFails, LogsRaise, TimeOut
<1>6. CASE Poll
  <2>1. /\ UNCHANGED <<execution, listed, attempt, mine>>
        /\ mine \in Executions /\ verdict' = listed[mine] /\ phase' = "judge"
        /\ elapsed' \in 0 .. Deadline - 1 + SlowPoll
    BY <1>6, <1>t, BoundsAssumption DEF Poll, azure, TypeOK, VerdictIsOwn
  <2>2. TypeOK'
    BY <2>1, <1>t DEF TypeOK
  <2>3. ListIsPast' /\ VerdictIsOwn'
    BY <2>1, <1>t DEF ListIsPast, VerdictIsOwn
  <2>4. QED
    BY <2>2, <2>3 DEF IInv
<1>7. CASE Judge
  BY <1>7, <1>t DEF Judge, azure, IInv, TypeOK, ListIsPast, VerdictIsOwn, Ended
<1>8. CASE Conclude
  <2>1. CASE verdict = "Succeeded"
    BY <1>8, <2>1, <1>t DEF Conclude, Raise, azure, IInv, TypeOK, Over, ListIsPast, VerdictIsOwn
  <2>2. CASE verdict # "Succeeded"
    BY <1>4, <1>8, <2>2 DEF Conclude
  <2>3. QED
    BY <2>1, <2>2
<1>9. ASSUME NEW x \in Executions, Finish(x) PROVE IInv'
  <2>1. /\ execution[x] = "Running" /\ listed' = listed /\ UNCHANGED task
        /\ \E end \in Ended : execution' = [execution EXCEPT ![x] = end]
    BY <1>9 DEF Finish
  <2>2. /\ execution' \in [Executions -> Statuses]
        /\ \A y \in Executions : execution[y] = "Succeeded" => execution'[y] = "Succeeded"
    BY <2>1, <1>t, BoundsAssumption DEF TypeOK, Statuses, Ended, Executions
  <2>3. TypeOK'
    BY <2>1, <2>2, <1>t DEF TypeOK, task
  <2>4. ListIsPast' /\ VerdictIsOwn'
    BY <2>1, <2>2, <1>t DEF ListIsPast, VerdictIsOwn, task
  <2>5. QED
    BY <2>3, <2>4 DEF IInv
<1>10. ASSUME NEW x \in Executions, List(x) PROVE IInv'
  <2>1. /\ listed' = [listed EXCEPT ![x] = execution[x]]
        /\ UNCHANGED execution /\ UNCHANGED task
    BY <1>10 DEF List
  <2>2. TypeOK' /\ ListIsPast' /\ VerdictIsOwn'
    BY <2>1, <1>t DEF TypeOK, ListIsPast, VerdictIsOwn, task
  <2>3. QED
    BY <2>2 DEF IInv
<1>11. ASSUME NEW x \in Executions, StartedByHand(x) PROVE IInv'
  <2>1. Begin(x) /\ UNCHANGED <<listed, task>>
    BY <1>11 DEF StartedByHand
  <2>2. /\ execution' \in [Executions -> Statuses] /\ ListIsPast'
        /\ \A y \in Executions : execution'[y] = "Succeeded" <=> execution[y] = "Succeeded"
    BY <2>1, BeginKeeps
  <2>3. QED
    BY <2>1, <2>2, <1>t DEF IInv, TypeOK, VerdictIsOwn, task
<1>12. CASE UNCHANGED vars
  BY <1>12, <1>t DEF vars, azure, task, IInv, TypeOK, ListIsPast, VerdictIsOwn
<1>13. CASE Quiet
  BY <1>12, <1>13 DEF Quiet
<1>14. QED
  BY <1>1, <1>2, <1>3, <1>5, <1>6, <1>7, <1>8, <1>9, <1>10, <1>11, <1>12, <1>13
  DEF Next, Attempt, Wait, AzureNext

--------------------------------------------------------------------------------
(* Every reachable state is well typed: the wait overshoots its deadline by *)
(* less than one poll, and no attempt follows the last retry.               *)
THEOREM TypeCorrect == Spec => []TypeOK
<1>1. IInv => TypeOK
  BY DEF IInv
<1>2. QED
  BY <1>1, InitInv, StepInv, PTL DEF Spec

(* A green task's own execution has ended well (aca.py:310-325), whatever   *)
(* else ran, was lost or showed late.                                       *)
THEOREM GreenIsEarned == Spec => []GreenMeansOwnSuccess
<1>1. IInv => GreenMeansOwnSuccess
  BY BoundsAssumption DEF IInv, VerdictIsOwn, GreenMeansOwnSuccess, Executions
<1>2. QED
  BY <1>1, InitInv, StepInv, PTL DEF Spec

--------------------------------------------------------------------------------
(* The database setup.                                                      *)
(* What the run has behind it: the roles, the memberships, and the grants   *)
(* of the j-th role on the i-th schema.                                     *)
AfterRoles == pc.do \notin {"off", "database", "find", "role"}
AfterMembers == AfterRoles /\ ~At("membership")
Granting == {"usage", "objects", "default"}
Beyond(i, j) ==
  \/ At("report")
  \/ pc.do \in Granting /\ (i < pc.schema \/ (i = pc.schema /\ j < pc.role))
On(i, j) == i = pc.schema /\ j = pc.role

(* What the statements behind it have done is still so.                     *)
AccountsDone ==
  /\ pc.do \notin {"off", "database"} => database
  /\ \A j \in DOMAIN RoleList :
       /\ AfterRoles \/ (At("role") /\ j < pc.role) => RoleList[j] \in roles
       /\ AfterMembers \/ (At("membership") /\ j < pc.role)
            => superuser \/ RoleList[j] \in member
  /\ AfterMembers /\ ~At("connect") => connects = Roles

OwnersDone ==
  \A i \in DOMAIN SchemaList :
    \/ pc.do \in Granting \/ At("report")
    \/ pc.do \in {"schema", "owner"} /\ i < pc.schema
    => owner[SchemaList[i]] = Owner[SchemaList[i]]

UsageDone ==
  \A i \in DOMAIN SchemaList, j \in DOMAIN RoleList :
    Beyond(i, j) \/ (On(i, j) /\ pc.do \in {"objects", "default"})
      => <<SchemaList[i], RoleList[j]>> \in usage

DefaultsDone ==
  \A i \in DOMAIN SchemaList, j \in DOMAIN RoleList, k \in DOMAIN CreatorList :
    Beyond(i, j) \/ (On(i, j) /\ At("default") /\ k < pc.creator)
      => <<SchemaList[i], CreatorList[k], RoleList[j]>> \in defaults

(* Role r can read table s, unless it was forgotten when that was created.  *)
Opened(s, r) == table[s] = None \/ r \in table[s].gap \/ table[s].may[r] # "none"

ObjectsDone ==
  \A i \in DOMAIN SchemaList, j \in DOMAIN RoleList :
    Beyond(i, j) \/ (On(i, j) /\ At("default")) => Opened(SchemaList[i], RoleList[j])

(* Nobody may do on a table what is not meant.                              *)
MayIsMeant ==
  \A s \in Schemas, r \in Roles :
    table[s] # None => table[s].may[r] \in {"none", Privilege(s, r)}

(* A complete run has left everything granted.                              *)
Settled ==
  complete =>
    /\ database /\ roles = Roles /\ connects = Roles /\ (superuser \/ member = Roles)
    /\ owner = Owner /\ usage = Schemas \X Roles
    /\ defaults = Schemas \X Creators \X Roles
    /\ \A s \in Schemas, r \in Roles : Opened(s, r)

(* A run has new passwords only of roles it created or was to reset.        *)
PasswordsAreNew ==
  /\ existing \subseteq roles
  /\ pc.do \in {"off", "database", "find"} => passwords = {}
  /\ complete => /\ pc.do \notin {"off", "database", "find"} => existing = Roles
                 /\ ~reset => passwords = {}

Behind == AccountsDone /\ OwnersDone /\ UsageDone /\ DefaultsDone /\ ObjectsDone
SetupInv == SetupTypeOK /\ Behind /\ MayIsMeant /\ Settled /\ PasswordsAreNew

--------------------------------------------------------------------------------
(* The lists are those of the roles, the schemas and the creators.          *)
LEMMA Lists ==
  /\ Len(RoleList) \in Nat \ {0} /\ DOMAIN RoleList = 1 .. Len(RoleList)
  /\ Len(SchemaList) \in Nat \ {0} /\ DOMAIN SchemaList = 1 .. Len(SchemaList)
  /\ Len(CreatorList) \in Nat \ {0} /\ DOMAIN CreatorList = 1 .. Len(CreatorList)
  /\ \A j \in DOMAIN RoleList : RoleList[j] \in Roles
  /\ \A i \in DOMAIN SchemaList : SchemaList[i] \in Schemas
  /\ \A k \in DOMAIN CreatorList : CreatorList[k] \in Creators
  /\ \A r \in Roles : \E j \in DOMAIN RoleList : RoleList[j] = r
  /\ \A s \in Schemas : \E i \in DOMAIN SchemaList : SchemaList[i] = s
  /\ \A c \in Creators : \E k \in DOMAIN CreatorList : CreatorList[k] = c
<1>1. /\ RoleList \in Seq(Roles) /\ RoleList # <<>>
      /\ SchemaList \in Seq(Schemas) /\ SchemaList # <<>>
  BY ListsAssumption
<1>2. /\ Len(RoleList) \in Nat \ {0} /\ DOMAIN RoleList = 1 .. Len(RoleList)
      /\ Len(SchemaList) \in Nat \ {0} /\ DOMAIN SchemaList = 1 .. Len(SchemaList)
  BY <1>1, EmptySeq
<1>3. /\ \A j \in DOMAIN RoleList : RoleList[j] \in Roles
      /\ \A i \in DOMAIN SchemaList : SchemaList[i] \in Schemas
      /\ \A r \in Roles : \E j \in DOMAIN RoleList : RoleList[j] = r
      /\ \A s \in Schemas : \E i \in DOMAIN SchemaList : SchemaList[i] = s
  BY DEF Roles, Schemas, Range
<1>4. /\ Len(CreatorList) = Len(RoleList) + 1
      /\ DOMAIN CreatorList = 1 .. Len(RoleList) + 1
      /\ CreatorList[1] = Admin
      /\ \A j \in 1 .. Len(RoleList) : CreatorList[j + 1] = RoleList[j]
  <2> DEFINE first == <<Admin>>
  <2>1. first \in Seq(Creators) /\ RoleList \in Seq(Creators)
    BY <1>1 DEF Creators
  <2>2. Len(first) = 1 /\ first[1] = Admin
    OBVIOUS
  <2> HIDE DEF first
  <2>3. CreatorList = first \o RoleList
    BY DEF CreatorList, first
  <2>4. /\ CreatorList \in Seq(Creators) /\ Len(CreatorList) = Len(RoleList) + 1
        /\ \A i \in 1 .. Len(RoleList) + 1 :
             CreatorList[i] = IF i <= 1 THEN first[i] ELSE RoleList[i - 1]
    <3>1. /\ first \o RoleList \in Seq(Creators)
          /\ Len(first \o RoleList) = Len(first) + Len(RoleList)
          /\ \A i \in 1 .. Len(first) + Len(RoleList) :
               (first \o RoleList)[i] = IF i <= Len(first) THEN first[i] ELSE RoleList[i - Len(first)]
      BY <2>1, ConcatProperties, Zenon
    <3>2. 1 + Len(RoleList) = Len(RoleList) + 1
      BY <1>2
    <3> QED BY <2>2, <2>3, <3>1, <3>2
  <2>5. DOMAIN CreatorList = 1 .. Len(RoleList) + 1
    BY <2>4
  <2>6. CreatorList[1] = Admin
    BY <1>2, <2>2, <2>4
  <2>7. ASSUME NEW j \in 1 .. Len(RoleList) PROVE CreatorList[j + 1] = RoleList[j]
    <3>1. j + 1 \in 1 .. Len(RoleList) + 1 /\ ~(j + 1 <= 1) /\ (j + 1) - 1 = j
      BY <1>2
    <3> QED BY <2>4, <3>1
  <2> QED BY <2>4, <2>5, <2>6, <2>7
<1>5. \A k \in 1 .. Len(RoleList) + 1 : k = 1 \/ (k - 1 \in 1 .. Len(RoleList) /\ k = (k - 1) + 1)
  BY <1>2
<1>6. ASSUME NEW k \in DOMAIN CreatorList PROVE CreatorList[k] \in Creators
  <2>1. CASE k = 1
    BY <1>4, <2>1 DEF Creators
  <2>2. CASE k # 1
    <3>1. k - 1 \in 1 .. Len(RoleList) /\ k = (k - 1) + 1
      BY <1>4, <1>5, <2>2
    <3>2. CreatorList[k] = RoleList[k - 1]
      BY <1>4, <3>1
    <3> QED BY <1>2, <1>3, <3>1, <3>2 DEF Creators
  <2> QED BY <2>1, <2>2
<1>7. ASSUME NEW c \in Creators PROVE \E k \in DOMAIN CreatorList : CreatorList[k] = c
  <2>1. CASE c = Admin
    <3>1. 1 \in DOMAIN CreatorList
      BY <1>2, <1>4
    <3> QED BY <1>4, <2>1, <3>1
  <2>2. CASE c \in Roles
    <3>1. PICK j \in 1 .. Len(RoleList) : RoleList[j] = c
      BY <1>2, <1>3, <2>2
    <3>2. j + 1 \in DOMAIN CreatorList
      BY <1>2, <1>4
    <3> QED BY <1>4, <3>1, <3>2
  <2> QED BY <2>1, <2>2 DEF Creators
<1> QED BY <1>2, <1>3, <1>4, <1>6, <1>7

(* What is due is one of each; and a loop starts at its first element.      *)
LEMMA DueIs ==
  ASSUME SetupTypeOK
  PROVE  /\ Due.schema \in Schemas /\ Due.role \in Roles /\ Due.creator \in Creators
         /\ Due.schema = SchemaList[pc.schema] /\ Due.role = RoleList[pc.role]
         /\ Due.creator = CreatorList[pc.creator]
         /\ pc.do \in Statements /\ pc.schema \in 1 .. Len(SchemaList)
         /\ pc.role \in 1 .. Len(RoleList) /\ pc.creator \in 1 .. Len(CreatorList)
         /\ \A do \in Statements :
              /\ First(do) \in Place /\ First(do).do = do /\ First(do).schema = 1
              /\ First(do).role = 1 /\ First(do).creator = 1
<1>1. pc \in Place
  BY DEF SetupTypeOK
<1>2. /\ pc.do \in Statements /\ pc.schema \in DOMAIN SchemaList
      /\ pc.role \in DOMAIN RoleList /\ pc.creator \in DOMAIN CreatorList
  BY <1>1 DEF Place
<1>3. 1 \in DOMAIN SchemaList /\ 1 \in DOMAIN RoleList /\ 1 \in DOMAIN CreatorList
  BY Lists
<1> QED BY <1>2, <1>3, Lists DEF Due, First, Place

(* Where a loop goes.                                                       *)
LEMMA LoopIs ==
  ASSUME SetupTypeOK, NEW do \in Statements, NEW after \in Place
  PROVE  /\ \/ pc.role = Len(RoleList) /\ NextRole(do, after) = after
            \/ /\ pc.role + 1 \in 1 .. Len(RoleList)
               /\ NextRole(do, after) \in Place /\ NextRole(do, after).do = do
               /\ NextRole(do, after).schema = pc.schema
               /\ NextRole(do, after).role = pc.role + 1
               /\ NextRole(do, after).creator = 1
         /\ \/ pc.schema = Len(SchemaList) /\ NextSchema(do, after) = after
            \/ /\ pc.schema + 1 \in 1 .. Len(SchemaList)
               /\ NextSchema(do, after) \in Place /\ NextSchema(do, after).do = do
               /\ NextSchema(do, after).schema = pc.schema + 1
               /\ NextSchema(do, after).role = 1 /\ NextSchema(do, after).creator = 1
         /\ \/ pc.creator = Len(CreatorList) /\ NextCreator(do, after) = after
            \/ /\ pc.creator + 1 \in 1 .. Len(CreatorList)
               /\ NextCreator(do, after) \in Place /\ NextCreator(do, after).do = do
               /\ NextCreator(do, after).schema = pc.schema
               /\ NextCreator(do, after).role = pc.role
               /\ NextCreator(do, after).creator = pc.creator + 1
<1>1. pc \in Place /\ First(do) \in Place
  BY DueIs DEF SetupTypeOK
<1>2. /\ pc.schema \in 1 .. Len(SchemaList) /\ pc.role \in 1 .. Len(RoleList)
      /\ pc.creator \in 1 .. Len(CreatorList)
      /\ First(do).do = do /\ First(do).role = 1 /\ First(do).creator = 1
  BY DueIs
<1>3. pc.role = Len(RoleList) \/ (pc.role < Len(RoleList) /\ pc.role + 1 \in 1 .. Len(RoleList))
  BY <1>2, Lists
<1>4. pc.schema = Len(SchemaList)
        \/ (pc.schema < Len(SchemaList) /\ pc.schema + 1 \in 1 .. Len(SchemaList))
  BY <1>2, Lists
<1>5. pc.creator = Len(CreatorList)
        \/ (pc.creator < Len(CreatorList) /\ pc.creator + 1 \in 1 .. Len(CreatorList))
  BY <1>2, Lists
<1>6. /\ DOMAIN RoleList = 1 .. Len(RoleList) /\ DOMAIN SchemaList = 1 .. Len(SchemaList)
      /\ DOMAIN CreatorList = 1 .. Len(CreatorList)
      /\ Len(RoleList) \in Nat /\ Len(SchemaList) \in Nat /\ Len(CreatorList) \in Nat
  BY Lists
<1>7. pc.role = Len(RoleList) => NextRole(do, after) = after
  BY <1>6 DEF NextRole
<1>8. pc.schema = Len(SchemaList) => NextSchema(do, after) = after
  BY <1>6 DEF NextSchema
<1>9. pc.creator = Len(CreatorList) => NextCreator(do, after) = after
  BY <1>6 DEF NextCreator
<1>10. pc.role < Len(RoleList) =>
         NextRole(do, after) = [do |-> do, schema |-> pc.schema, role |-> pc.role + 1, creator |-> 1]
  BY DEF NextRole, First
<1>11. pc.schema < Len(SchemaList) =>
         NextSchema(do, after) = [do |-> do, schema |-> pc.schema + 1, role |-> 1, creator |-> 1]
  BY DEF NextSchema, First
<1>12. pc.creator < Len(CreatorList) =>
         NextCreator(do, after) = [do |-> do, schema |-> pc.schema, role |-> pc.role,
                                   creator |-> pc.creator + 1]
  BY <1>1 DEF NextCreator, Place
<1>13. 1 \in 1 .. Len(RoleList) /\ 1 \in 1 .. Len(CreatorList)
  BY Lists
<1> QED BY <1>2, <1>3, <1>4, <1>5, <1>6, <1>7, <1>8, <1>9, <1>10, <1>11, <1>12, <1>13 DEF Place
--------------------------------------------------------------------------------
(* Nothing is behind a script that does not run, and the old schemas are    *)
(* granted among the old roles.                                             *)
LEMMA SetupInitially == SetupInit => SetupInv
<1> SUFFICES ASSUME SetupInit PROVE SetupInv
  OBVIOUS
<1>1. PICK R \in SUBSET Roles, S \in SUBSET Schemas :
        /\ \A s \in S : Owner[s] \in R
        /\ database = (R # {}) /\ SetUp(R, S)
  BY DEF SetupInit
<1>2. pc = Off /\ pc \in Place /\ pc.do = "off"
  <2>1. 1 \in DOMAIN SchemaList /\ 1 \in DOMAIN RoleList /\ 1 \in DOMAIN CreatorList
    BY Lists
  <2> QED BY <2>1 DEF SetupInit, Off, First, Place, Statements
<1>3. SetupTypeOK
  <2>1. /\ roles \subseteq Roles /\ member \subseteq roles /\ connects \subseteq roles
        /\ known \subseteq roles /\ usage \subseteq Schemas \X Roles
    BY <1>1 DEF SetUp
  <2>2. defaults \subseteq Schemas \X Creators \X Roles
    BY <1>1 DEF SetUp, Creators
  <2>3. owner \in [Schemas -> Creators \cup {None}]
    <3>1. \A s \in Schemas : Owner[s] \in Roles
      BY ListsAssumption
    <3> QED BY <1>1, <3>1 DEF SetUp, Creators
  <2>4. table \in [Schemas -> Table \cup {None}]
    BY DEF SetupInit
  <2>5. deaths \in 0 .. MaxDeaths
    <3>1. deaths = 0
      BY DEF SetupInit
    <3> QED BY <3>1, DeathsAssumption
  <2>6. /\ existing \subseteq Roles /\ passwords \subseteq Roles
        /\ superuser \in BOOLEAN /\ reset \in BOOLEAN /\ complete \in BOOLEAN
    BY Zenon DEF SetupInit
  <2>7. database \in BOOLEAN
    BY <1>1, Zenon
  <2> QED BY <1>2, <2>1, <2>2, <2>3, <2>4, <2>5, <2>6, <2>7 DEF SetupTypeOK
<1>4. Behind
  <2>1. ~AfterRoles /\ ~AfterMembers /\ ~At("role") /\ ~At("membership") /\ ~At("report")
        /\ ~At("default") /\ pc.do \notin Granting
        /\ pc.do \notin {"schema", "owner", "objects", "default"}
    BY <1>2 DEF AfterRoles, AfterMembers, At, Granting
  <2> QED BY <1>2, <2>1 DEF Behind, AccountsDone, OwnersDone, UsageDone, DefaultsDone,
                            ObjectsDone, Beyond
<1>5. MayIsMeant /\ Settled /\ PasswordsAreNew
  BY DEF SetupInit, MayIsMeant, Settled, PasswordsAreNew
<1> QED BY <1>3, <1>4, <1>5 DEF SetupInv

(* Nothing of the schemas is behind the first statement on them.            *)
LEMMA EarlyBehind ==
  ASSUME pc'.do \in {"off", "database", "find", "role", "membership", "connect", "schema"},
         pc'.do = "schema" => pc'.schema = 1
  PROVE  OwnersDone' /\ UsageDone' /\ DefaultsDone' /\ ObjectsDone'
<1>1. /\ pc'.do \notin Granting /\ ~At("report")' /\ ~At("default")'
      /\ pc'.do \notin {"objects", "default"}
  BY DEF Granting, At
<1>2. \A i, j : ~Beyond(i, j)'
  BY <1>1 DEF Beyond
<1>3. \A i \in DOMAIN SchemaList : pc'.do \in {"schema", "owner"} => ~(i < pc'.schema)
  BY Lists
<1> QED BY <1>1, <1>2, <1>3 DEF OwnersDone, UsageDone, DefaultsDone, ObjectsDone

(* A run that stops has nothing behind it.                                  *)
LEMMA StopBehind == ASSUME Stop PROVE Behind' /\ pc' \in Place
<1>1. pc' = Off /\ pc'.do = "off" /\ pc'.schema = 1 /\ pc' \in Place
  <2>1. 1 \in DOMAIN SchemaList /\ 1 \in DOMAIN RoleList /\ 1 \in DOMAIN CreatorList
    BY Lists
  <2> QED BY <2>1 DEF Stop, Off, First, Place, Statements
<1>2. AccountsDone'
  BY <1>1 DEF AccountsDone, AfterRoles, AfterMembers, At
<1> QED BY <1>1, <1>2, EarlyBehind DEF Behind

(* A new table is closed only to roles that the run has yet to come to.     *)
LEMMA CreateTableInv ==
  ASSUME SetupInv, NEW c \in Creators, NEW s \in Schemas, CreateTable(c, s)
  PROVE  SetupInv'
<1>1. /\ UNCHANGED <<superuser, database, roles, member, connects, owner, usage, defaults,
                     known, pc, existing, reset, passwords, complete, deaths>>
  BY DEF CreateTable, access, run
<1> DEFINE new == [by |-> c, gap |-> {r \in Roles : Between(s, c, r)},
                   may |-> [r \in Roles |-> IF r = c THEN "full"
                                 ELSE IF <<s, c, r>> \in defaults THEN Privilege(s, r)
                                 ELSE "none"]]
<1>2. table' = [table EXCEPT ![s] = new] /\ MayCreate(c, s)
  BY DEF CreateTable
<1>3. new \in Table
  BY DEF Table, Privilege
<1>4. /\ \A r \in Roles : r \in new.gap <=> Between(s, c, r)
      /\ \A r \in Roles :
           new.may[r] = IF r = c THEN "full"
                        ELSE IF <<s, c, r>> \in defaults THEN Privilege(s, r) ELSE "none"
  OBVIOUS
<1> HIDE DEF new
<1>5. \A t \in Schemas : table'[t] = IF t = s THEN new ELSE table[t]
  BY <1>2 DEF SetupInv, SetupTypeOK
<1>6. SetupTypeOK'
  BY <1>1, <1>2, <1>3 DEF SetupInv, SetupTypeOK
<1>7. c \in Roles => Owner[s] = c
  BY <1>2, ListsAssumption DEF MayCreate
<1>8. \A r \in Roles : new.may[r] \in {"none", Privilege(s, r)}
  BY <1>4, <1>7 DEF Privilege
<1>9. MayIsMeant'
  BY <1>5, <1>8 DEF SetupInv, MayIsMeant
<1>10. complete => \A r \in Roles : new.may[r] # "none"
  <2> SUFFICES ASSUME complete, NEW r \in Roles PROVE new.may[r] # "none"
    OBVIOUS
  <2>1. <<s, c, r>> \in defaults
    BY DEF SetupInv, Settled
  <2> QED BY <1>4, <2>1 DEF Privilege
<1>11. \A t \in Schemas, r \in Roles : complete /\ Opened(t, r) => Opened(t, r)'
  BY <1>5, <1>10 DEF Opened
<1>12. Settled'
  BY <1>1, <1>11 DEF SetupInv, Settled
<1>13. PasswordsAreNew'
  BY <1>1 DEF SetupInv, PasswordsAreNew
<1>14. ObjectsDone'
  <2>1. SUFFICES ASSUME NEW i \in DOMAIN SchemaList, NEW j \in DOMAIN RoleList,
                        Beyond(i, j)' \/ (On(i, j)' /\ At("default")')
                 PROVE  Opened(SchemaList[i], RoleList[j])'
    BY DEF ObjectsDone
  <2>2. Beyond(i, j) \/ (On(i, j) /\ At("default"))
    BY <1>1, <2>1 DEF Beyond, On, At
  <2>3. Opened(SchemaList[i], RoleList[j])
    BY <2>2 DEF SetupInv, Behind, ObjectsDone
  <2>4. SchemaList[i] \in Schemas /\ RoleList[j] \in Roles
    BY Lists
  <2>5. CASE SchemaList[i] # s
    BY <1>5, <2>3, <2>4, <2>5 DEF Opened
  <2>6. CASE SchemaList[i] = s /\ <<s, c, RoleList[j]>> \in defaults
    <3>1. new.may[RoleList[j]] # "none"
      BY <1>4, <2>4, <2>6 DEF Privilege
    <3> QED BY <1>5, <2>6, <3>1 DEF Opened
  <2>7. CASE SchemaList[i] = s /\ <<s, c, RoleList[j]>> \notin defaults
    <3>1. ~Beyond(i, j)
      <4>1. PICK k \in DOMAIN CreatorList : CreatorList[k] = c
        BY Lists
      <4> QED BY <2>7, <4>1 DEF SetupInv, Behind, DefaultsDone
    <3>2. Between(s, c, RoleList[j])
      BY <2>2, <2>7, <3>1 DEF Between, On, Due
    <3>3. RoleList[j] \in new.gap
      BY <1>4, <2>4, <3>2
    <3> QED BY <1>5, <2>7, <3>3 DEF Opened
  <2> QED BY <2>5, <2>6, <2>7
<1>15. Behind'
  <2>1. AccountsDone' /\ OwnersDone' /\ UsageDone' /\ DefaultsDone'
    BY <1>1 DEF SetupInv, Behind, AccountsDone, OwnersDone, UsageDone, DefaultsDone, AfterRoles,
                AfterMembers, Beyond, On, At
  <2> QED BY <1>14, <2>1 DEF Behind
<1> QED BY <1>6, <1>9, <1>12, <1>13, <1>15 DEF SetupInv

(* A run starts with nothing behind it.                                     *)
LEMMA StartInv == ASSUME SetupInv, Start PROVE SetupInv'
<1>1. /\ UNCHANGED <<superuser, database, roles, member, connects, owner, usage, defaults,
                     table, known, complete, deaths>>
      /\ existing' = {} /\ passwords' = {} /\ reset' = FALSE /\ pc' = First("database")
  BY DEF Start, access
<1>2. pc' \in Place /\ pc'.do = "database" /\ pc'.schema = 1
  BY <1>1, DueIs DEF SetupInv, Statements
<1>3. SetupTypeOK'
  BY <1>1, <1>2 DEF SetupInv, SetupTypeOK
<1>4. MayIsMeant'
  BY <1>1 DEF SetupInv, MayIsMeant
<1>5. Settled'
  BY <1>1 DEF SetupInv, Settled, Opened
<1>6. PasswordsAreNew'
  BY <1>1, <1>2 DEF SetupInv, PasswordsAreNew
<1>7. AccountsDone'
  BY <1>2 DEF AccountsDone, AfterRoles, AfterMembers, At
<1> QED BY <1>2, <1>3, <1>4, <1>5, <1>6, <1>7, EarlyBehind DEF SetupInv, Behind

(* A run that dies leaves what its statements have done.                    *)
LEMMA DiesInv == ASSUME SetupInv, Dies PROVE SetupInv'
<1>1. /\ UNCHANGED <<superuser, database, roles, member, connects, owner, usage, defaults,
                     table, known, complete>>
      /\ existing' = {} /\ passwords' = {} /\ reset' = FALSE /\ Stop
      /\ pc' \in Place /\ Behind'
  BY StopBehind DEF Dies, access, Stop
<1>2. deaths' \in 0 .. MaxDeaths
  BY DeathsAssumption DEF Dies, SetupInv, SetupTypeOK
<1>3. SetupTypeOK'
  BY <1>1, <1>2 DEF SetupInv, SetupTypeOK
<1>4. MayIsMeant' /\ Settled'
  BY <1>1 DEF SetupInv, MayIsMeant, Settled, Opened
<1>5. pc'.do = "off"
  BY <1>1 DEF Stop, Off, First
<1>6. PasswordsAreNew'
  BY <1>1, <1>5 DEF SetupInv, PasswordsAreNew
<1> QED BY <1>1, <1>3, <1>4, <1>6 DEF SetupInv

(* At the report everything is behind the run.                              *)
LEMMA AllBehind ==
  ASSUME SetupInv, At("report")
  PROVE  /\ database /\ roles = Roles /\ connects = Roles /\ (superuser \/ member = Roles)
         /\ owner = Owner /\ usage = Schemas \X Roles
         /\ defaults = Schemas \X Creators \X Roles
         /\ \A s \in Schemas, r \in Roles : Opened(s, r)
<1>1. pc.do = "report" /\ AfterRoles /\ AfterMembers /\ ~At("connect")
      /\ \A i, j : Beyond(i, j)
  BY DEF At, AfterRoles, AfterMembers, Beyond
<1>2. /\ database /\ connects = Roles
      /\ \A j \in DOMAIN RoleList :
           RoleList[j] \in roles /\ (superuser \/ RoleList[j] \in member)
  BY <1>1 DEF SetupInv, Behind, AccountsDone
<1>3. roles = Roles /\ (superuser \/ member = Roles)
  <2>1. \A r \in Roles : r \in roles /\ (superuser \/ r \in member)
    BY <1>2, Lists
  <2>2. roles \subseteq Roles /\ member \subseteq roles
    BY DEF SetupInv, SetupTypeOK
  <2> QED BY <2>1, <2>2
<1>4. owner = Owner
  <2>1. \A i \in DOMAIN SchemaList : owner[SchemaList[i]] = Owner[SchemaList[i]]
    BY <1>1 DEF SetupInv, Behind, OwnersDone, At
  <2>2. \A s \in Schemas : owner[s] = Owner[s]
    BY <2>1, Lists
  <2>3. owner \in [Schemas -> Creators \cup {None}] /\ Owner \in [Schemas -> Roles]
    BY ListsAssumption DEF SetupInv, SetupTypeOK
  <2> QED BY <2>2, <2>3
<1>5. usage = Schemas \X Roles
  <2>1. \A i \in DOMAIN SchemaList, j \in DOMAIN RoleList : <<SchemaList[i], RoleList[j]>> \in usage
    BY <1>1 DEF SetupInv, Behind, UsageDone
  <2>2. \A s \in Schemas, r \in Roles : <<s, r>> \in usage
    BY <2>1, Lists
  <2> QED BY <2>2 DEF SetupInv, SetupTypeOK
<1>6. defaults = Schemas \X Creators \X Roles
  <2>1. \A i \in DOMAIN SchemaList, j \in DOMAIN RoleList, k \in DOMAIN CreatorList :
          <<SchemaList[i], CreatorList[k], RoleList[j]>> \in defaults
    BY <1>1 DEF SetupInv, Behind, DefaultsDone
  <2>2. \A s \in Schemas, c \in Creators, r \in Roles : <<s, c, r>> \in defaults
    BY <2>1, Lists
  <2> QED BY <2>2 DEF SetupInv, SetupTypeOK
<1>7. \A s \in Schemas, r \in Roles : Opened(s, r)
  <2>1. \A i \in DOMAIN SchemaList, j \in DOMAIN RoleList : Opened(SchemaList[i], RoleList[j])
    BY <1>1 DEF SetupInv, Behind, ObjectsDone
  <2> QED BY <2>1, Lists
<1> QED BY <1>2, <1>3, <1>4, <1>5, <1>6, <1>7

(* The first complete run makes the setup complete, the others keep it so.  *)
LEMMA ReportInv == ASSUME SetupInv, Report PROVE SetupInv'
<1>1. /\ UNCHANGED <<superuser, database, roles, member, connects, owner, usage, defaults,
                     table, deaths>>
      /\ existing' = {} /\ passwords' = {} /\ reset' = FALSE /\ complete' = TRUE
      /\ known' = known \cup passwords /\ At("report") /\ Stop
      /\ pc' \in Place /\ Behind'
  BY StopBehind DEF Report, access, Stop
<1>2. pc'.do = "off"
  BY <1>1 DEF Stop, Off, First
<1>3. known' \subseteq roles'
  BY <1>1, AllBehind DEF SetupInv, SetupTypeOK
<1>4. SetupTypeOK'
  BY <1>1, <1>3 DEF SetupInv, SetupTypeOK
<1>5. MayIsMeant'
  BY <1>1 DEF SetupInv, MayIsMeant
<1>6. Settled'
  BY <1>1, AllBehind DEF Settled, Opened
<1>7. PasswordsAreNew'
  BY <1>1, <1>2 DEF PasswordsAreNew
<1> QED BY <1>1, <1>4, <1>5, <1>6, <1>7 DEF SetupInv

(* What a statement that leaves the tables alone has to keep.               *)
LEMMA TablesKept ==
  ASSUME SetupInv, UNCHANGED <<table, complete>>
  PROVE  /\ MayIsMeant'
         /\ \A s \in Schemas, r \in Roles :
              table'[s] = table[s] /\ (Opened(s, r) => Opened(s, r)')
BY DEF SetupInv, MayIsMeant, Opened

(* The database is there.                                                   *)
LEMMA CreateDatabaseInv == ASSUME SetupInv, CreateDatabase PROVE SetupInv'
<1>1. /\ UNCHANGED <<superuser, roles, member, connects, owner, usage, defaults, table, known,
                     existing, reset, passwords, complete, deaths>>
      /\ At("database") /\ database' = TRUE /\ pc' = First("find")
  BY DEF CreateDatabase, Proceed
<1>2. pc' \in Place /\ pc'.do = "find" /\ pc'.schema = 1
  BY <1>1, DueIs DEF SetupInv, Statements
<1>3. SetupTypeOK'
  BY <1>1, <1>2 DEF SetupInv, SetupTypeOK
<1>4. Settled'
  BY <1>1 DEF SetupInv, Settled, Opened
<1>5. PasswordsAreNew'
  BY <1>1, <1>2 DEF SetupInv, PasswordsAreNew, At
<1>6. AccountsDone'
  BY <1>1, <1>2 DEF AccountsDone, AfterRoles, AfterMembers, At
<1>7. MayIsMeant'
  BY <1>1, TablesKept
<1> QED BY <1>2, <1>3, <1>4, <1>5, <1>6, <1>7, EarlyBehind DEF SetupInv, Behind

(* The roles there are have been found.                                     *)
LEMMA FindRolesInv ==
  ASSUME SetupInv, NEW answer \in BOOLEAN, FindRoles(answer) PROVE SetupInv'
<1>1. /\ UNCHANGED <<superuser, database, roles, member, connects, owner, usage, defaults,
                     table, known, passwords, complete, deaths>>
      /\ At("find") /\ existing' = roles /\ reset' = answer /\ pc' = First("role")
  BY DEF FindRoles, Proceed, access
<1>2. pc' \in Place /\ pc'.do = "role" /\ pc'.schema = 1 /\ pc'.role = 1
  BY <1>1, DueIs DEF SetupInv, Statements
<1>3. SetupTypeOK'
  BY <1>1, <1>2 DEF SetupInv, SetupTypeOK
<1>4. Settled'
  BY <1>1 DEF SetupInv, Settled, Opened
<1>5. PasswordsAreNew'
  <2>1. passwords = {} /\ (complete => roles = Roles)
    BY <1>1 DEF SetupInv, PasswordsAreNew, Settled, At
  <2> QED BY <1>1, <1>2, <2>1 DEF SetupInv, PasswordsAreNew
<1>6. AccountsDone'
  <2>1. database
    BY <1>1 DEF SetupInv, Behind, AccountsDone, At
  <2>2. \A j \in DOMAIN RoleList : ~(j < 1)
    BY Lists
  <2> QED BY <1>1, <1>2, <2>1, <2>2 DEF AccountsDone, AfterRoles, AfterMembers, At
<1>7. MayIsMeant'
  BY <1>1, TablesKept
<1> QED BY <1>2, <1>3, <1>4, <1>5, <1>6, <1>7, EarlyBehind DEF SetupInv, Behind

(* The role that was due is there, and none has gone.                       *)
LEMMA SetUpRoleInv == ASSUME SetupInv, SetUpRole PROVE SetupInv'
<1>1. /\ UNCHANGED <<superuser, database, member, connects, owner, usage, defaults, table,
                     existing, reset, complete, deaths>>
      /\ At("role") /\ pc' = NextRole("role", First("membership"))
  BY DEF SetUpRole, Proceed
<1>2. \/ /\ pc.role = Len(RoleList) /\ pc'.do = "membership"
         /\ pc' \in Place /\ pc'.schema = 1 /\ pc'.role = 1
      \/ /\ pc'.do = "role" /\ pc' \in Place
         /\ pc'.schema = pc.schema /\ pc'.role = pc.role + 1
  <2>1. /\ First("membership") \in Place /\ First("membership").do = "membership"
        /\ First("membership").schema = 1 /\ First("membership").role = 1
    BY DueIs DEF SetupInv, Statements
  <2>2. "role" \in Statements
    BY DEF Statements
  <2> QED BY <1>1, <2>1, <2>2, LoopIs DEF SetupInv
<1>3. /\ Due.role \in Roles /\ Due.role = RoleList[pc.role] /\ pc.role \in 1 .. Len(RoleList)
  BY DueIs DEF SetupInv
<1>4. /\ roles' \subseteq Roles /\ roles \subseteq roles' /\ Due.role \in roles'
      /\ passwords' \subseteq Roles /\ known' \subseteq roles'
      /\ complete /\ ~reset => passwords' = {}
  <2>1. CASE NewPassword /\ (Due.role \notin existing \/ reset)
    <3>1. complete => existing = Roles
      BY <1>1 DEF SetupInv, PasswordsAreNew, At
    <3> QED BY <1>3, <2>1, <3>1 DEF NewPassword, SetupInv, SetupTypeOK
  <2>2. CASE UNCHANGED <<roles, passwords, known>> /\ Due.role \in existing /\ ~reset
    BY <1>3, <2>2 DEF SetupInv, SetupTypeOK, PasswordsAreNew
  <2> QED BY <2>1, <2>2 DEF SetUpRole
<1>5. SetupTypeOK'
  BY <1>1, <1>2, <1>4 DEF SetupInv, SetupTypeOK
<1>6. Settled'
  BY <1>1, <1>4 DEF SetupInv, Settled, Opened
<1>7. PasswordsAreNew'
  BY <1>1, <1>2, <1>4 DEF SetupInv, PasswordsAreNew, At
<1>8. AccountsDone'
  <2>1. database /\ \A j \in DOMAIN RoleList : j < pc.role => RoleList[j] \in roles
    BY <1>1 DEF SetupInv, Behind, AccountsDone, At
  <2>2. \A j \in DOMAIN RoleList : j < pc.role + 1 => RoleList[j] \in roles'
    <3> SUFFICES ASSUME NEW j \in DOMAIN RoleList, j < pc.role + 1 PROVE RoleList[j] \in roles'
      OBVIOUS
    <3>1. j < pc.role \/ j = pc.role
      BY <1>3, Lists
    <3> QED BY <1>3, <1>4, <2>1, <3>1
  <2>3. CASE pc'.do = "role"
    BY <1>1, <1>2, <2>1, <2>2, <2>3 DEF AccountsDone, AfterRoles, AfterMembers, At
  <2>4. CASE pc'.do = "membership"
    <3>1. \A j \in DOMAIN RoleList : j < pc.role + 1 /\ ~(j < 1)
      BY <1>2, <2>4, Lists
    <3> QED BY <1>1, <1>2, <2>1, <2>2, <2>4, <3>1 DEF AccountsDone, AfterRoles, AfterMembers, At
  <2> QED BY <1>2, <2>3, <2>4
<1>9. MayIsMeant'
  BY <1>1, TablesKept
<1>10. OwnersDone' /\ UsageDone' /\ DefaultsDone' /\ ObjectsDone'
  BY <1>2, EarlyBehind
<1> QED BY <1>5, <1>6, <1>7, <1>8, <1>9, <1>10 DEF SetupInv, Behind
(* The admin is a member of the role that was due, or need not be.          *)
LEMMA GrantMembershipInv == ASSUME SetupInv, GrantMembership PROVE SetupInv'
<1>1. /\ UNCHANGED <<superuser, database, roles, connects, owner, usage, defaults, table, known,
                     existing, reset, passwords, complete, deaths>>
      /\ At("membership") /\ pc' = NextRole("membership", First("connect"))
      /\ member' = IF superuser THEN member ELSE member \cup {Due.role}
  BY DEF GrantMembership, Proceed
<1>2. \/ /\ pc.role = Len(RoleList) /\ pc'.do = "connect"
         /\ pc' \in Place /\ pc'.schema = 1 /\ pc'.role = 1
      \/ /\ pc'.do = "membership" /\ pc' \in Place
         /\ pc'.schema = pc.schema /\ pc'.role = pc.role + 1
  <2>1. /\ First("connect") \in Place /\ First("connect").do = "connect"
        /\ First("connect").schema = 1 /\ First("connect").role = 1
    BY DueIs DEF SetupInv, Statements
  <2>2. "membership" \in Statements
    BY DEF Statements
  <2> QED BY <1>1, <2>1, <2>2, LoopIs DEF SetupInv
<1>3. /\ Due.role \in Roles /\ Due.role = RoleList[pc.role] /\ pc.role \in 1 .. Len(RoleList)
  BY DueIs DEF SetupInv
<1>4. /\ database /\ \A j \in DOMAIN RoleList : RoleList[j] \in roles
      /\ \A j \in DOMAIN RoleList : j < pc.role => superuser \/ RoleList[j] \in member
  BY <1>1 DEF SetupInv, Behind, AccountsDone, AfterRoles, At
<1>5. /\ member' \subseteq roles /\ member \subseteq member'
      /\ superuser \/ Due.role \in member'
  BY <1>1, <1>3, <1>4, Lists DEF SetupInv, SetupTypeOK
<1>6. SetupTypeOK'
  BY <1>1, <1>2, <1>5 DEF SetupInv, SetupTypeOK
<1>7. Settled'
  BY <1>1, <1>5 DEF SetupInv, SetupTypeOK, Settled, Opened
<1>8. PasswordsAreNew'
  BY <1>1, <1>2 DEF SetupInv, PasswordsAreNew, At
<1>9. AccountsDone'
  <2>1. \A j \in DOMAIN RoleList : j < pc.role + 1 => superuser \/ RoleList[j] \in member'
    <3> SUFFICES ASSUME NEW j \in DOMAIN RoleList, j < pc.role + 1
                 PROVE  superuser \/ RoleList[j] \in member'
      OBVIOUS
    <3>1. j < pc.role \/ j = pc.role
      BY <1>3, Lists
    <3> QED BY <1>3, <1>4, <1>5, <3>1
  <2>2. CASE pc'.do = "membership"
    BY <1>1, <1>2, <1>4, <2>1, <2>2 DEF AccountsDone, AfterRoles, AfterMembers, At
  <2>3. CASE pc'.do = "connect"
    <3>1. \A j \in DOMAIN RoleList : j < pc.role + 1
      BY <1>2, <2>3, Lists
    <3> QED BY <1>1, <1>2, <1>4, <2>1, <2>3, <3>1 DEF AccountsDone, AfterRoles, AfterMembers, At
  <2> QED BY <1>2, <2>2, <2>3
<1>10. MayIsMeant'
  BY <1>1, TablesKept
<1>11. OwnersDone' /\ UsageDone' /\ DefaultsDone' /\ ObjectsDone'
  BY <1>2, EarlyBehind
<1> QED BY <1>6, <1>7, <1>8, <1>9, <1>10, <1>11 DEF SetupInv, Behind

(* Every role can connect.                                                  *)
LEMMA GrantConnectInv == ASSUME SetupInv, GrantConnect PROVE SetupInv'
<1>1. /\ UNCHANGED <<superuser, database, roles, member, owner, usage, defaults, table, known,
                     existing, reset, passwords, complete, deaths>>
      /\ At("connect") /\ pc' = First("schema") /\ connects' = Roles
  BY DEF GrantConnect, Proceed
<1>2. pc' \in Place /\ pc'.do = "schema" /\ pc'.schema = 1
  BY <1>1, DueIs DEF SetupInv, Statements
<1>3. /\ database
      /\ \A j \in DOMAIN RoleList :
           RoleList[j] \in roles /\ (superuser \/ RoleList[j] \in member)
  BY <1>1 DEF SetupInv, Behind, AccountsDone, AfterRoles, AfterMembers, At
<1>4. connects' \subseteq roles
  BY <1>1, <1>3, Lists
<1>5. SetupTypeOK'
  BY <1>1, <1>2, <1>4 DEF SetupInv, SetupTypeOK
<1>6. Settled'
  BY <1>1 DEF SetupInv, Settled, Opened
<1>7. PasswordsAreNew'
  BY <1>1, <1>2 DEF SetupInv, PasswordsAreNew, At
<1>8. AccountsDone'
  BY <1>1, <1>2, <1>3 DEF AccountsDone, AfterRoles, AfterMembers, At
<1>9. MayIsMeant'
  BY <1>1, TablesKept
<1> QED BY <1>2, <1>5, <1>6, <1>7, <1>8, <1>9, EarlyBehind DEF SetupInv, Behind

(* The statements on the schemas leave the accounts alone.                  *)
LEMMA LateAccounts ==
  ASSUME SetupInv, pc.do \in {"schema", "owner"} \cup Granting,
         pc'.do \in {"schema", "owner", "report"} \cup Granting,
         UNCHANGED <<superuser, database, roles, member, connects, complete, existing,
                     reset, passwords>>
  PROVE  AccountsDone' /\ PasswordsAreNew'
<1>1. /\ database /\ connects = Roles
      /\ \A j \in DOMAIN RoleList :
           RoleList[j] \in roles /\ (superuser \/ RoleList[j] \in member)
  BY DEF SetupInv, Behind, AccountsDone, AfterRoles, AfterMembers, At, Granting
<1>2. AccountsDone'
  BY <1>1 DEF AccountsDone, Granting, At
<1> QED BY <1>2 DEF SetupInv, PasswordsAreNew, Granting

(* A schema is there, and is not taken from its owner.                      *)
LEMMA CreateInv == ASSUME SetupInv, Create PROVE SetupInv'
<1> DEFINE s == Due.schema
           who == IF owner[s] = None THEN Admin ELSE owner[s]
<1>1. /\ UNCHANGED <<superuser, database, roles, member, connects, usage, defaults, table, known,
                     existing, reset, passwords, complete, deaths>>
      /\ At("schema") /\ pc' = [pc EXCEPT !.do = "owner"]
      /\ owner' = [owner EXCEPT ![s] = who]
  BY DEF Create, SetOwner, Proceed
<1>2. s \in Schemas
  BY DueIs DEF SetupInv
<1>3. who \in Creators \cup {None}
  BY <1>2 DEF SetupInv, SetupTypeOK, Creators
<1> HIDE DEF s
<1>4. pc' \in Place /\ pc'.do = "owner" /\ pc'.schema = pc.schema
  BY <1>1 DEF SetupInv, SetupTypeOK, Place, Statements
<1>5. \A t \in Schemas : owner[t] = Owner[t] => owner'[t] = Owner[t]
  <2>1. \A t \in Schemas : Owner[t] # None
    BY ListsAssumption DEF Creators
  <2> QED BY <1>1, <1>2, <2>1 DEF SetupInv, SetupTypeOK
<1>6. owner' \in [Schemas -> Creators \cup {None}]
  BY <1>1, <1>3 DEF SetupInv, SetupTypeOK
<1>7. SetupTypeOK'
  BY <1>1, <1>4, <1>6 DEF SetupInv, SetupTypeOK
<1>8. Settled'
  <2>1. complete => owner' = Owner
    BY <1>5, <1>6, ListsAssumption DEF SetupInv, Settled
  <2> QED BY <1>1, <2>1 DEF SetupInv, Settled, Opened
<1>9. OwnersDone'
  <2>1. \A i \in DOMAIN SchemaList : i < pc.schema => owner[SchemaList[i]] = Owner[SchemaList[i]]
    BY <1>1 DEF SetupInv, Behind, OwnersDone, At
  <2>2. \A i \in DOMAIN SchemaList : i < pc.schema => owner'[SchemaList[i]] = Owner[SchemaList[i]]
    BY <1>5, <2>1, Lists
  <2> QED BY <1>4, <2>2 DEF OwnersDone, Granting, At
<1>10. UsageDone' /\ DefaultsDone' /\ ObjectsDone'
  BY <1>4 DEF UsageDone, DefaultsDone, ObjectsDone, Beyond, Granting, At
<1>11. AccountsDone' /\ PasswordsAreNew'
  BY <1>1, <1>4, LateAccounts DEF At
<1>12. MayIsMeant'
  BY <1>1, TablesKept
<1> QED BY <1>7, <1>8, <1>9, <1>10, <1>11, <1>12 DEF SetupInv, Behind

(* The schema that was due is its owner's.                                  *)
LEMMA AlterOwnerInv == ASSUME SetupInv, AlterOwner PROVE SetupInv'
<1> DEFINE s == Due.schema
<1>1. /\ UNCHANGED <<superuser, database, roles, member, connects, usage, defaults, table, known,
                     existing, reset, passwords, complete, deaths>>
      /\ At("owner") /\ pc' = NextSchema("schema", First("usage"))
      /\ owner' = [owner EXCEPT ![s] = Owner[s]]
  BY DEF AlterOwner, SetOwner, Proceed
<1>2. s \in Schemas /\ s = SchemaList[pc.schema] /\ pc.schema \in 1 .. Len(SchemaList)
  BY DueIs DEF SetupInv
<1>3. Owner[s] \in Creators
  BY <1>2, ListsAssumption DEF Creators
<1> HIDE DEF s
<1>4. \/ /\ pc.schema = Len(SchemaList) /\ pc'.do = "usage"
         /\ pc' \in Place /\ pc'.schema = 1 /\ pc'.role = 1
      \/ pc'.do = "schema" /\ pc' \in Place /\ pc'.schema = pc.schema + 1
  <2>1. /\ First("usage") \in Place /\ First("usage").do = "usage"
        /\ First("usage").schema = 1 /\ First("usage").role = 1
    BY DueIs DEF SetupInv, Statements
  <2>2. "schema" \in Statements
    BY DEF Statements
  <2> QED BY <1>1, <2>1, <2>2, LoopIs DEF SetupInv
<1>5. \A t \in Schemas : owner[t] = Owner[t] \/ t = s => owner'[t] = Owner[t]
  BY <1>1, <1>2 DEF SetupInv, SetupTypeOK
<1>6. owner' \in [Schemas -> Creators \cup {None}]
  BY <1>1, <1>3 DEF SetupInv, SetupTypeOK
<1>7. SetupTypeOK'
  BY <1>1, <1>4, <1>6 DEF SetupInv, SetupTypeOK
<1>8. Settled'
  <2>1. complete => owner' = Owner
    BY <1>5, <1>6, ListsAssumption DEF SetupInv, Settled
  <2> QED BY <1>1, <2>1 DEF SetupInv, Settled, Opened
<1>9. OwnersDone'
  <2>1. \A i \in DOMAIN SchemaList : i < pc.schema => owner[SchemaList[i]] = Owner[SchemaList[i]]
    BY <1>1 DEF SetupInv, Behind, OwnersDone, At
  <2>2. ASSUME NEW i \in DOMAIN SchemaList, i < pc.schema + 1
        PROVE  owner'[SchemaList[i]] = Owner[SchemaList[i]]
    <3>1. i < pc.schema \/ i = pc.schema
      BY <1>2, <2>2, Lists
    <3> QED BY <1>2, <1>5, <2>1, <3>1, Lists
  <2>3. pc'.do = "usage" => \A i \in DOMAIN SchemaList : i < pc.schema + 1
    BY <1>4, Lists
  <2> QED BY <1>4, <2>2, <2>3 DEF OwnersDone, Granting, At
<1>10. UsageDone' /\ DefaultsDone' /\ ObjectsDone'
  <2>1. \A i \in DOMAIN SchemaList, j \in DOMAIN RoleList : ~Beyond(i, j)'
    BY <1>4, Lists DEF Beyond, Granting, At
  <2> QED BY <1>4, <2>1 DEF UsageDone, DefaultsDone, ObjectsDone, At
<1>11. AccountsDone' /\ PasswordsAreNew'
  BY <1>1, <1>4, LateAccounts DEF At, Granting
<1>12. MayIsMeant'
  BY <1>1, TablesKept
<1> QED BY <1>7, <1>8, <1>9, <1>10, <1>11, <1>12 DEF SetupInv, Behind
(* The privilege on the schema is granted.                                  *)
LEMMA GrantOnSchemaInv == ASSUME SetupInv, GrantOnSchema PROVE SetupInv'
<1> DEFINE s == Due.schema
           r == Due.role
<1>1. /\ UNCHANGED <<superuser, database, roles, member, connects, owner, defaults, table, known,
                     existing, reset, passwords, complete, deaths>>
      /\ pc.do = "usage" /\ pc' = [pc EXCEPT !.do = "objects"]
      /\ usage' = usage \cup {<<s, r>>}
  BY DEF GrantOnSchema, Proceed, At
<1>2. /\ s \in Schemas /\ s = SchemaList[pc.schema]
      /\ r \in Roles /\ r = RoleList[pc.role]
  BY DueIs DEF SetupInv
<1> HIDE DEF s, r
<1>3. pc' \in Place /\ pc'.do = "objects" /\ pc'.schema = pc.schema /\ pc'.role = pc.role
  BY <1>1 DEF SetupInv, SetupTypeOK, Place, Statements
<1>4. SetupTypeOK'
  BY <1>1, <1>2, <1>3 DEF SetupInv, SetupTypeOK
<1>5. Settled'
  BY <1>1, <1>2 DEF SetupInv, Settled, Opened
<1>6. \A i, j : (Beyond(i, j)' <=> Beyond(i, j)) /\ (On(i, j)' <=> On(i, j))
  BY <1>1, <1>3 DEF Beyond, On, At, Granting
<1>7. UsageDone'
  BY <1>1, <1>2, <1>6 DEF SetupInv, Behind, UsageDone, On
<1>8. DefaultsDone'
  BY <1>1, <1>3, <1>6 DEF SetupInv, Behind, DefaultsDone, At
<1>9. MayIsMeant' /\ \A x \in Schemas, y \in Roles : Opened(x, y) => Opened(x, y)'
  BY <1>1, TablesKept
<1>10. ObjectsDone'
  BY <1>3, <1>6, <1>9, Lists DEF SetupInv, Behind, ObjectsDone, At
<1>11. OwnersDone'
  BY <1>1, <1>3 DEF SetupInv, Behind, OwnersDone, Granting
<1>12. AccountsDone' /\ PasswordsAreNew'
  BY <1>1, <1>3, LateAccounts DEF Granting
<1> QED BY <1>4, <1>5, <1>7, <1>8, <1>9, <1>10, <1>11, <1>12 DEF SetupInv, Behind

(* The table there is, is opened, and nobody else is let in or forgotten.   *)
LEMMA GrantedIs ==
  ASSUME SetupInv, GrantOnObjects
  PROVE  /\ table' \in [Schemas -> Table \cup {None}]
         /\ \A x \in Schemas : table[x] = None => table'[x] = None
         /\ \A x \in Schemas, y \in Roles : table[x] # None =>
              LET due == x = Due.schema /\ y = Due.role IN
              /\ y \in table'[x].gap <=> y \in table[x].gap /\ ~due
              /\ table'[x].may[y] = IF due THEN Privilege(x, y) ELSE table[x].may[y]
<1> DEFINE s == Due.schema
           r == Due.role
           new == Granted(table[s], s, r)
<1>1. table' = IF table[s] = None THEN table ELSE [table EXCEPT ![s] = new]
  BY DEF GrantOnObjects
<1>2. s \in Schemas /\ r \in Roles
  BY DueIs DEF SetupInv
<1>3. table \in [Schemas -> Table \cup {None}]
  BY DEF SetupInv, SetupTypeOK
<1>4. CASE table[s] = None
  BY <1>1, <1>3, <1>4
<1>5. CASE table[s] # None
  <2>1. table[s] \in Table /\ table[s].may[r] \in {"none", Privilege(s, r)}
    BY <1>2, <1>3, <1>5 DEF SetupInv, MayIsMeant
  <2>2. Privilege(s, r) \in {"none", "read", "full"}
    BY DEF Privilege
  <2>3. new \in Table
    BY <1>2, <2>1, <2>2 DEF Granted, Table
  <2>4. \A y \in Roles :
          /\ y \in new.gap <=> (y \in table[s].gap /\ y # r)
          /\ new.may[y] = IF y = r THEN Privilege(s, r) ELSE table[s].may[y]
    BY <1>2, <2>1, <2>2 DEF Granted, Table
  <2> HIDE DEF new
  <2>5. \A x \in Schemas : table'[x] = IF x = s THEN new ELSE table[x]
    BY <1>1, <1>2, <1>3, <1>5
  <2>6. table' \in [Schemas -> Table \cup {None}]
    BY <1>1, <1>2, <1>3, <1>5, <2>3
  <2>7. \A x \in Schemas : table[x] = None => table'[x] = None
    BY <1>5, <2>5
  <2> HIDE DEF s, r
  <2>8. ASSUME NEW x \in Schemas, NEW y \in Roles, table[x] # None
        PROVE  /\ y \in table'[x].gap <=> (y \in table[x].gap /\ ~(x = s /\ y = r))
               /\ table'[x].may[y] = IF x = s /\ y = r THEN Privilege(x, y) ELSE table[x].may[y]
    <3>1. CASE x = s
      BY <2>4, <2>5, <3>1
    <3>2. CASE x # s
      BY <2>5, <3>2
    <3> QED BY <3>1, <3>2
  <2> QED BY <2>6, <2>7, <2>8 DEF s, r
<1> QED BY <1>4, <1>5

LEMMA GrantOnObjectsInv == ASSUME SetupInv, GrantOnObjects PROVE SetupInv'
<1> DEFINE s == Due.schema
           r == Due.role
<1>1. /\ UNCHANGED <<superuser, database, roles, member, connects, owner, usage, defaults, known,
                     existing, reset, passwords, complete, deaths>>
      /\ pc.do = "objects" /\ pc' = [pc EXCEPT !.do = "default", !.creator = 1]
  BY DEF GrantOnObjects, Proceed, At, access
<1>2. /\ s \in Schemas /\ s = SchemaList[pc.schema]
      /\ r \in Roles /\ r = RoleList[pc.role]
  BY DueIs DEF SetupInv
<1>4. /\ table' \in [Schemas -> Table \cup {None}]
      /\ \A x \in Schemas : table[x] = None => table'[x] = None
      /\ \A x \in Schemas, y \in Roles : table[x] # None =>
           /\ y \in table'[x].gap <=> (y \in table[x].gap /\ ~(x = s /\ y = r))
           /\ table'[x].may[y] = IF x = s /\ y = r THEN Privilege(x, y) ELSE table[x].may[y]
  BY GrantedIs
<1> HIDE DEF s, r
<1>3. /\ pc' \in Place /\ pc'.do = "default" /\ pc'.schema = pc.schema /\ pc'.role = pc.role
      /\ pc'.creator = 1
  <2>1. 1 \in DOMAIN CreatorList
    BY Lists
  <2> QED BY <1>1, <2>1 DEF SetupInv, SetupTypeOK, Place, Statements
<1>5. Privilege(s, r) # "none"
  BY DEF Privilege
<1>6. SetupTypeOK'
  BY <1>1, <1>3, <1>4 DEF SetupInv, SetupTypeOK
<1>7. MayIsMeant'
  BY <1>4 DEF SetupInv, MayIsMeant
<1>15. \A x \in Schemas, y \in Roles : Opened(x, y) \/ (x = s /\ y = r) => Opened(x, y)'
  <2>1. ASSUME NEW x \in Schemas, NEW y \in Roles, Opened(x, y) \/ (x = s /\ y = r)
        PROVE  Opened(x, y)'
    <3>1. CASE table[x] = None
      BY <1>4, <3>1 DEF Opened
    <3>2. CASE table[x] # None /\ x = s /\ y = r
      BY <1>4, <1>5, <3>2 DEF Opened
    <3>3. CASE table[x] # None /\ ~(x = s /\ y = r)
      BY <1>4, <2>1, <3>3 DEF Opened
    <3> QED BY <3>1, <3>2, <3>3
  <2> QED BY <2>1
<1>8. Settled'
  BY <1>1, <1>15 DEF SetupInv, Settled
<1>9. \A i, j : (Beyond(i, j)' <=> Beyond(i, j)) /\ (On(i, j)' <=> On(i, j))
  BY <1>1, <1>3 DEF Beyond, On, At, Granting
<1>10. UsageDone'
  BY <1>1, <1>9 DEF SetupInv, Behind, UsageDone
<1>11. DefaultsDone'
  <2>1. \A k \in DOMAIN CreatorList : ~(k < 1)
    BY Lists
  <2> QED BY <1>1, <1>3, <1>9, <2>1 DEF SetupInv, Behind, DefaultsDone
<1>12. ObjectsDone'
  <2>2. \A i \in DOMAIN SchemaList, j \in DOMAIN RoleList :
          Beyond(i, j) => Opened(SchemaList[i], RoleList[j])
    BY DEF SetupInv, Behind, ObjectsDone
  <2> QED BY <1>2, <1>9, <1>15, <2>2, Lists DEF ObjectsDone, On
<1>13. OwnersDone'
  BY <1>1, <1>3 DEF SetupInv, Behind, OwnersDone, Granting
<1>14. AccountsDone' /\ PasswordsAreNew'
  BY <1>1, <1>3, LateAccounts DEF Granting
<1> QED BY <1>6, <1>7, <1>8, <1>10, <1>11, <1>12, <1>13, <1>14 DEF SetupInv, Behind

(* What the creator makes is opened; after the last creator comes the next  *)
(* role, and after the last role the next schema.                           *)
LEMMA AlterDefaultsInv == ASSUME SetupInv, AlterDefaults PROVE SetupInv'
<1> DEFINE s == Due.schema
           c == Due.creator
           r == Due.role
           beyond == NextSchema("usage", First("report"))
           after == NextRole("usage", beyond)
<1>1. /\ UNCHANGED <<superuser, database, roles, member, connects, owner, usage, table, known,
                     existing, reset, passwords, complete, deaths>>
      /\ pc.do = "default" /\ pc' = NextCreator("default", after)
      /\ defaults' = defaults \cup {<<s, c, r>>}
  BY DEF AlterDefaults, Proceed, At
<1>2. /\ s \in Schemas /\ s = SchemaList[pc.schema] /\ pc.schema \in 1 .. Len(SchemaList)
      /\ r \in Roles /\ r = RoleList[pc.role] /\ pc.role \in 1 .. Len(RoleList)
      /\ c \in Creators /\ c = CreatorList[pc.creator] /\ pc.creator \in 1 .. Len(CreatorList)
  BY DueIs DEF SetupInv
<1>3. {"usage", "default", "report"} \subseteq Statements /\ First("report") \in Place
      /\ First("report").do = "report"
  BY DueIs DEF SetupInv, Statements
<1>4. \/ pc.schema = Len(SchemaList) /\ beyond \in Place /\ beyond.do = "report"
      \/ /\ beyond \in Place /\ beyond.do = "usage"
         /\ beyond.schema = pc.schema + 1 /\ beyond.role = 1
  BY <1>3, LoopIs DEF SetupInv
<1>5. \/ pc.role = Len(RoleList) /\ after = beyond
      \/ /\ after \in Place /\ after.do = "usage"
         /\ after.schema = pc.schema /\ after.role = pc.role + 1
  BY <1>3, <1>4, LoopIs DEF SetupInv
<1>6. \/ pc.creator = Len(CreatorList) /\ pc' = after
      \/ /\ pc' \in Place /\ pc'.do = "default" /\ pc'.schema = pc.schema
         /\ pc'.role = pc.role /\ pc'.creator = pc.creator + 1
  BY <1>1, <1>3, <1>4, <1>5, LoopIs DEF SetupInv
<1> HIDE DEF s, c, r, beyond, after
<1>7. pc' \in Place /\ pc'.do \in {"usage", "default", "report"}
  BY <1>4, <1>5, <1>6
<1>8. \/ /\ pc'.do = "default" /\ pc'.creator = pc.creator + 1
         /\ \A i, j : (Beyond(i, j)' <=> Beyond(i, j)) /\ (On(i, j)' <=> On(i, j))
      \/ /\ pc'.do \in {"usage", "report"} /\ pc.creator = Len(CreatorList)
         /\ \A i \in DOMAIN SchemaList, j \in DOMAIN RoleList :
              Beyond(i, j)' => Beyond(i, j) \/ On(i, j)
  <2>1. CASE pc'.do = "default"
    BY <1>1, <1>4, <1>5, <1>6, <2>1 DEF Beyond, On, At, Granting
  <2>2. CASE pc'.do # "default"
    <3>1. pc.creator = Len(CreatorList) /\ pc' = after
      BY <1>6, <2>2
    <3>2. /\ pc.schema \in Nat /\ pc.role \in Nat
          /\ \A i \in DOMAIN SchemaList : i \in Nat /\ i <= Len(SchemaList)
          /\ \A j \in DOMAIN RoleList : j \in Nat /\ j <= Len(RoleList) /\ ~(j < 1)
          /\ Len(SchemaList) \in Nat /\ Len(RoleList) \in Nat
      BY <1>2, Lists
    <3>3. SUFFICES ASSUME NEW i \in DOMAIN SchemaList, NEW j \in DOMAIN RoleList, Beyond(i, j)'
                   PROVE  Beyond(i, j) \/ On(i, j)
      BY <1>7, <2>2, <3>1
    <3>4. i < pc.schema \/ (i = pc.schema /\ (j < pc.role \/ j = pc.role))
            => Beyond(i, j) \/ On(i, j)
      <4>1. pc.do \in Granting
        BY <1>1 DEF Granting
      <4> QED BY <4>1 DEF Beyond, On
    <3>5. \/ after.do = "report"
          \/ i < after.schema \/ (i = after.schema /\ j < after.role)
      BY <3>1, <3>3 DEF Beyond, At
    <3>6. CASE after.schema = pc.schema /\ after.role = pc.role + 1 /\ after.do = "usage"
      BY <3>2, <3>4, <3>5, <3>6
    <3>7. CASE pc.role = Len(RoleList) /\ after = beyond
      <4>1. CASE pc.schema = Len(SchemaList)
        BY <3>2, <3>4, <3>7, <4>1
      <4>2. CASE beyond.do = "usage" /\ beyond.schema = pc.schema + 1 /\ beyond.role = 1
        BY <3>2, <3>4, <3>5, <3>7, <4>2
      <4> QED BY <1>4, <4>1, <4>2
    <3> QED BY <1>5, <3>6, <3>7
  <2> QED BY <2>1, <2>2
<1>9. SetupTypeOK'
  BY <1>1, <1>2, <1>7 DEF SetupInv, SetupTypeOK
<1>10. Settled'
  BY <1>1, <1>2 DEF SetupInv, Settled, Opened
<1>11. UsageDone'
  BY <1>1, <1>8 DEF SetupInv, Behind, UsageDone
<1>12. DefaultsDone'
  <2> SUFFICES ASSUME NEW i \in DOMAIN SchemaList, NEW j \in DOMAIN RoleList,
                      NEW k \in DOMAIN CreatorList,
                      Beyond(i, j)' \/ (On(i, j)' /\ At("default")' /\ k < pc'.creator)
               PROVE  <<SchemaList[i], CreatorList[k], RoleList[j]>> \in defaults'
    BY DEF DefaultsDone
  <2>1. \/ Beyond(i, j) \/ (On(i, j) /\ k < pc.creator)
        \/ On(i, j) /\ k = pc.creator
    <3>1. /\ k \in Nat /\ k <= Len(CreatorList)
          /\ pc.creator \in Nat /\ Len(CreatorList) \in Nat
      BY <1>2, Lists
    <3>2. CASE /\ pc'.do = "default" /\ pc'.creator = pc.creator + 1
               /\ (Beyond(i, j)' <=> Beyond(i, j)) /\ (On(i, j)' <=> On(i, j))
      BY <3>1, <3>2
    <3>3. CASE /\ pc'.do \in {"usage", "report"} /\ pc.creator = Len(CreatorList)
               /\ Beyond(i, j)' => Beyond(i, j) \/ On(i, j)
      <4>1. Beyond(i, j) \/ On(i, j)
        BY <3>3 DEF At
      <4> QED BY <3>1, <3>3, <4>1
    <3> QED BY <1>8, <3>2, <3>3
  <2>2. CASE Beyond(i, j) \/ (On(i, j) /\ k < pc.creator)
    BY <1>1, <2>2 DEF SetupInv, Behind, DefaultsDone, At
  <2>3. CASE On(i, j) /\ k = pc.creator
    BY <1>1, <1>2, <2>3 DEF On
  <2> QED BY <2>1, <2>2, <2>3
<1>13. MayIsMeant' /\ \A x \in Schemas, y \in Roles : Opened(x, y) => Opened(x, y)'
  BY <1>1, TablesKept
<1>14. ObjectsDone'
  <2> SUFFICES ASSUME NEW i \in DOMAIN SchemaList, NEW j \in DOMAIN RoleList,
                      Beyond(i, j)' \/ (On(i, j)' /\ At("default")')
               PROVE  Opened(SchemaList[i], RoleList[j])'
    BY DEF ObjectsDone
  <2>1. Beyond(i, j) \/ On(i, j)
    BY <1>8 DEF At
  <2>2. Opened(SchemaList[i], RoleList[j])
    BY <1>1, <2>1 DEF SetupInv, Behind, ObjectsDone, At
  <2> QED BY <1>13, <2>2, Lists
<1>15. OwnersDone'
  BY <1>1, <1>7 DEF SetupInv, Behind, OwnersDone, Granting
<1>16. AccountsDone' /\ PasswordsAreNew'
  BY <1>1, <1>7, LateAccounts DEF Granting
<1> QED BY <1>9, <1>10, <1>11, <1>12, <1>13, <1>14, <1>15, <1>16 DEF SetupInv, Behind
--------------------------------------------------------------------------------
(* Every step keeps what the setup's invariant says.                        *)
LEMMA SetupStep == SetupInv /\ [SetupNext]_setupVars => SetupInv'
<1> SUFFICES ASSUME SetupInv, [SetupNext]_setupVars PROVE SetupInv'
  OBVIOUS
<1>1. ASSUME NEW c \in Creators, NEW s \in Schemas, CreateTable(c, s) PROVE SetupInv'
  BY <1>1, CreateTableInv
<1>2. CASE Start
  BY <1>2, StartInv
<1>3. CASE Dies
  BY <1>3, DiesInv
<1>4. CASE CreateDatabase
  BY <1>4, CreateDatabaseInv
<1>5. ASSUME NEW answer \in BOOLEAN, FindRoles(answer) PROVE SetupInv'
  BY <1>5, FindRolesInv
<1>6. CASE SetUpRole
  BY <1>6, SetUpRoleInv
<1>7. CASE GrantMembership
  BY <1>7, GrantMembershipInv
<1>8. CASE GrantConnect
  BY <1>8, GrantConnectInv
<1>9. CASE Create
  BY <1>9, CreateInv
<1>10. CASE AlterOwner
  BY <1>10, AlterOwnerInv
<1>11. CASE GrantOnSchema
  BY <1>11, GrantOnSchemaInv
<1>12. CASE GrantOnObjects
  BY <1>12, GrantOnObjectsInv
<1>13. CASE AlterDefaults
  BY <1>13, AlterDefaultsInv
<1>14. CASE Report
  BY <1>14, ReportInv
<1>15. CASE UNCHANGED setupVars
  BY <1>15 DEF setupVars, access, run, SetupInv, SetupTypeOK, Behind, AccountsDone, OwnersDone,
               UsageDone, DefaultsDone, ObjectsDone, MayIsMeant, Settled, PasswordsAreNew,
               AfterRoles, AfterMembers, Beyond, On, Opened, At
<1> QED BY <1>1, <1>2, <1>3, <1>4, <1>5, <1>6, <1>7, <1>8, <1>9, <1>10, <1>11, <1>12, <1>13,
           <1>14, <1>15 DEF SetupNext, ExecuteStatement

(* The setup's invariant holds throughout.                                  *)
LEMMA SetupInvHolds == SetupSpec => []SetupInv
<1>1. QED
  BY SetupInitially, SetupStep, PTL DEF SetupSpec

(* The catalogue and the script's place in its loops are well typed.        *)
THEOREM SetupTypeCorrect == SetupSpec => []SetupTypeOK
<1>1. SetupInv => SetupTypeOK
  BY DEF SetupInv
<1> QED BY <1>1, SetupInvHolds, PTL

(* A setup that says it is complete has granted every role what it is to    *)
(* have on every table, for any lists of roles, schemas and owners, any     *)
(* older version of them on the server, and any number of runs that died.   *)
THEOREM CompleteIsReady == SetupSpec => []CompleteMeansReady
<1>1. SetupInv => CompleteMeansReady
  BY DEF SetupInv, Settled, MayIsMeant, Opened, CompleteMeansReady
<1> QED BY <1>1, SetupInvHolds, PTL

(* What a run over a complete setup does to what the others do not fix.     *)
LEMMA RerunStep ==
  ASSUME SetupInv, [SetupNext]_setupVars, complete, ~reset, ~reset'
  PROVE  complete' /\ known' = known /\ (superuser' \/ member' = Roles)
         /\ superuser' = superuser /\ (superuser => member' = member)
<1>1. superuser \/ member = Roles
  BY DEF SetupInv, Settled
<1>2. ASSUME NEW c \in Creators, NEW s \in Schemas, CreateTable(c, s)
      PROVE  UNCHANGED <<superuser, complete, known, member>>
  BY <1>2 DEF CreateTable, access
<1>3. CASE Start \/ Dies
  BY <1>1, <1>3 DEF Start, Dies, access
<1>4. CASE CreateDatabase \/ GrantConnect \/ Create \/ AlterOwner \/ GrantOnSchema
             \/ GrantOnObjects \/ AlterDefaults
  <2>1. UNCHANGED <<superuser, complete, known, member>>
    BY <1>4 DEF CreateDatabase, GrantConnect, Create, AlterOwner, SetOwner, GrantOnSchema,
                GrantOnObjects, AlterDefaults, Proceed, access
  <2> QED BY <1>1, <2>1
<1>5. ASSUME NEW answer \in BOOLEAN, FindRoles(answer)
      PROVE  UNCHANGED <<superuser, complete, known, member>>
  BY <1>5 DEF FindRoles, Proceed, access
<1>6. CASE SetUpRole
  <2>1. existing = Roles /\ Due.role \in Roles
    BY <1>6, DueIs DEF SetUpRole, SetupInv, PasswordsAreNew, At
  <2> QED BY <1>1, <1>6, <2>1 DEF SetUpRole, Proceed
<1>7. CASE GrantMembership
  <2>1. Due.role \in Roles /\ UNCHANGED <<superuser, complete, known>>
    BY <1>7, DueIs DEF GrantMembership, Proceed, SetupInv
  <2> QED BY <1>1, <1>7, <2>1 DEF GrantMembership
<1>8. CASE Report
  <2>1. passwords = {}
    BY DEF SetupInv, PasswordsAreNew
  <2> QED BY <1>1, <1>8, <2>1 DEF Report, access
<1>9. CASE UNCHANGED setupVars
  BY <1>1, <1>9 DEF setupVars, access
<1> QED BY <1>1, <1>2, <1>3, <1>4, <1>5, <1>6, <1>7, <1>8, <1>9 DEF SetupNext, ExecuteStatement

(* Nor does it change what anybody may do on a table, unless it had         *)
(* forgotten him.                                                           *)
LEMMA RerunKeepsTables ==
  ASSUME SetupInv, [SetupNext]_setupVars, complete, pc' # pc, NEW s \in Schemas,
         table'[s] # table[s], NEW r \in Roles \ table[s].gap
  PROVE  table'[s].may[r] = table[s].may[r]
<1>1. CASE GrantOnObjects
  <2>1. table[s] # None
    BY <1>1, GrantedIs
  <2>2. table[s].may[r] = Privilege(s, r)
    BY <2>1 DEF SetupInv, Settled, MayIsMeant, Opened
  <2>3. table'[s].may[r] = IF s = Due.schema /\ r = Due.role THEN Privilege(s, r)
                           ELSE table[s].may[r]
    BY <1>1, <2>1, GrantedIs
  <2> QED BY <2>2, <2>3
<1>2. CASE ~GrantOnObjects
  BY <1>2 DEF SetupNext, ExecuteStatement, CreateTable, Start, Dies, Report, CreateDatabase,
     FindRoles, SetUpRole, GrantMembership, GrantConnect, Create, AlterOwner, SetOwner,
     GrantOnSchema, AlterDefaults, Proceed, access, run, setupVars
<1> QED BY <1>1, <1>2

(* Running the script over a complete setup changes no account, no grant,   *)
(* no owner and, unless a reset was confirmed, no password.                 *)
THEOREM RerunsAreIdle == SetupSpec => RerunsChangeNothing
<1>1. ASSUME SetupInv, SetupInv', [SetupNext]_setupVars, complete, ~(reset \/ reset')
      PROVE  UNCHANGED <<access, known>>
  <2>1. /\ complete' /\ known' = known /\ (superuser' \/ member' = Roles)
        /\ superuser' = superuser /\ (superuser => member' = member)
    BY <1>1, RerunStep
  <2>2. UNCHANGED <<roles, connects, owner, usage, defaults>> /\ (superuser \/ member = Roles)
    BY <1>1, <2>1 DEF SetupInv, Settled
  <2>3. database' = database
    <3>1. database /\ database' /\ database \in BOOLEAN /\ database' \in BOOLEAN
      BY <1>1, <2>1 DEF SetupInv, Settled, SetupTypeOK
    <3> QED BY <3>1, Zenon
  <2>4. member' = member
    BY <2>1, <2>2
  <2> QED BY <2>1, <2>2, <2>3, <2>4 DEF access
<1>2. SetupInv /\ SetupInv' /\ [SetupNext]_setupVars
        => [complete /\ pc' # pc =>
              /\ ~(reset \/ reset') => UNCHANGED <<access, known>>
              /\ \A s \in Schemas : table'[s] # table[s] =>
                   \A r \in Roles \ table[s].gap : table'[s].may[r] = table[s].may[r]]_setupVars
  BY <1>1, RerunKeepsTables
<1> QED BY <1>2, SetupInvHolds, PTL DEF SetupSpec, RerunsChangeNothing
--------------------------------------------------------------------------------
(* The schema whose owner is to be set is there.                            *)
SchemaIsThere == At("owner") => owner[Due.schema] \in Creators

(* Only its creation comes before that.                                     *)
LEMMA SchemaIsThereStep ==
  ASSUME SetupInv, SetupInv', SchemaIsThere, [SetupNext]_setupVars PROVE SchemaIsThere'
<1> SUFFICES ASSUME pc'.do = "owner" PROVE owner'[Due'.schema] \in Creators
  BY DEF SchemaIsThere, At
<1>1. ASSUME UNCHANGED <<pc, owner>> PROVE owner'[Due'.schema] \in Creators
  BY <1>1 DEF SchemaIsThere, At, Due
<1>2. /\ Off.do = "off" /\ First("database").do = "database" /\ First("find").do = "find"
      /\ First("role").do = "role" /\ First("membership").do = "membership"
      /\ First("connect").do = "connect" /\ First("schema").do = "schema"
      /\ First("usage").do = "usage" /\ First("report").do = "report"
  BY DEF Off, First
<1>3. /\ {"role", "membership", "connect", "schema", "usage", "report", "default"}
           \subseteq Statements
      /\ First("membership") \in Place /\ First("connect") \in Place
      /\ First("usage") \in Place /\ First("report") \in Place
  BY DueIs DEF SetupInv, Statements
<1>4. CASE Start \/ Dies \/ Report \/ CreateDatabase \/ GrantConnect
             \/ \E answer \in BOOLEAN : FindRoles(answer)
  BY <1>2, <1>4 DEF Start, Dies, Report, Stop, CreateDatabase, GrantConnect, FindRoles, Proceed
<1>5. CASE SetUpRole \/ GrantMembership
  <2>1. \/ pc' = NextRole("role", First("membership"))
        \/ pc' = NextRole("membership", First("connect"))
    BY <1>5 DEF SetUpRole, GrantMembership, Proceed
  <2>2. /\ NextRole("role", First("membership")).do \in {"role", "membership"}
        /\ NextRole("membership", First("connect")).do \in {"membership", "connect"}
    BY <1>2, <1>3, LoopIs DEF SetupInv
  <2> QED BY <2>1, <2>2
<1>6. CASE AlterOwner
  <2>1. pc' = NextSchema("schema", First("usage"))
    BY <1>6 DEF AlterOwner, SetOwner, Proceed
  <2>2. NextSchema("schema", First("usage")).do \in {"schema", "usage"}
    BY <1>2, <1>3, LoopIs DEF SetupInv
  <2> QED BY <2>1, <2>2
<1>7. CASE GrantOnSchema \/ GrantOnObjects
  BY <1>7 DEF GrantOnSchema, GrantOnObjects, Proceed, SetupInv, SetupTypeOK, Place
<1>8. CASE AlterDefaults
  <2> DEFINE beyond == NextSchema("usage", First("report"))
             after == NextRole("usage", beyond)
  <2>1. beyond \in Place /\ beyond.do \in {"usage", "report"}
    BY <1>2, <1>3, LoopIs DEF SetupInv
  <2>2. pc' = NextCreator("default", after)
    BY <1>8 DEF AlterDefaults, Proceed
  <2> HIDE DEF beyond
  <2>3. after \in Place /\ after.do \in {"usage", "report"}
    BY <1>3, <2>1, LoopIs DEF SetupInv
  <2> HIDE DEF after
  <2>4. NextCreator("default", after).do \in {"default", "usage", "report"}
    BY <1>3, <2>3, LoopIs DEF SetupInv
  <2> QED BY <2>2, <2>4
<1>9. CASE Create
  <2>1. /\ pc' = [pc EXCEPT !.do = "owner"]
        /\ owner' = [owner EXCEPT ![Due.schema] =
                       IF owner[Due.schema] = None THEN Admin ELSE owner[Due.schema]]
    BY <1>9 DEF Create, SetOwner, Proceed
  <2>2. Due'.schema = Due.schema /\ Due.schema \in Schemas
    BY <2>1, DueIs DEF SetupInv, SetupTypeOK, Place, Due
  <2> QED BY <2>1, <2>2 DEF SetupInv, SetupTypeOK, Creators
<1>10. CASE \E c \in Creators, s \in Schemas : CreateTable(c, s)
  BY <1>1, <1>10 DEF CreateTable, access, run
<1>11. CASE UNCHANGED setupVars
  BY <1>1, <1>11 DEF setupVars, access, run
<1> QED BY <1>4, <1>5, <1>6, <1>7, <1>8, <1>9, <1>10, <1>11 DEF SetupNext, ExecuteStatement

(* The server refuses no statement of the script: what one needs of the     *)
(* admin, superuser or not, earlier ones of its own run have granted        *)
(* (db-setup.py:250-256), whatever runs that died have left.                *)
THEOREM NoStatementIsRefused == SetupSpec => []Accepted
<1>1. SetupInit => SchemaIsThere
  BY DEF SetupInit, Off, First, SchemaIsThere, At
<1>2. SetupInv /\ SetupInv' /\ SchemaIsThere /\ [SetupNext]_setupVars => SchemaIsThere'
  BY SchemaIsThereStep
<1>3. ASSUME SetupInv, SchemaIsThere PROVE Accepted
  <2>1. pc.do \in {"owner"} \cup Granting => \A c \in Creators : ActsFor(c)
    <3>1. SUFFICES ASSUME pc.do \in {"owner"} \cup Granting, ~superuser
                   PROVE  member \cup {Admin} = Creators
      BY DEF ActsFor
    <3>2. \A j \in DOMAIN RoleList : RoleList[j] \in member
      BY <1>3, <3>1 DEF SetupInv, Behind, AccountsDone, AfterMembers, AfterRoles, At, Granting
    <3>3. member = Roles
      <4>1. \A r \in Roles : r \in member
        BY <3>2, Lists
      <4> QED BY <1>3, <4>1 DEF SetupInv, SetupTypeOK
    <3> QED BY <3>3 DEF Creators
  <2>2. /\ Due.schema \in Schemas /\ Due.creator \in Creators
        /\ Due.schema = SchemaList[pc.schema] /\ pc.schema \in DOMAIN SchemaList
        /\ Owner[Due.schema] \in Creators
    BY <1>3, DueIs, Lists, ListsAssumption DEF SetupInv, Creators
  <2>3. At("usage") => owner[Due.schema] \in Creators
    BY <1>3, <2>2 DEF SetupInv, Behind, OwnersDone, Granting, At
  <2>4. table[Due.schema] # None => table[Due.schema].by \in Creators
    <3>1. table[Due.schema] # None => table[Due.schema] \in Table
      BY <1>3, <2>2 DEF SetupInv, SetupTypeOK
    <3> QED BY <3>1 DEF Table
  <2> QED BY <1>3, <2>1, <2>2, <2>3, <2>4 DEF Accepted, SchemaIsThere, Granting, At
<1> QED BY <1>1, <1>2, <1>3, SetupInvHolds, PTL DEF SetupSpec
================================================================================
