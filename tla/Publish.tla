-------------------------------- MODULE Publish --------------------------------
(****************************************************************************)
(* data/src/publishing/sync.py: `run` copies a list of warehouse marts into *)
(* the backend's Postgres, one transaction per mart.  Publishers are the    *)
(* Airflow task publish_to_backend (a list of marts, retried by Airflow)    *)
(* and a person running the module by hand (one mart, no retry).  Readers   *)
(* are the backend's sessions; each of their statements is its own          *)
(* transaction.  Every SQL statement of a publish is one action, because    *)
(* other sessions run between two statements.                               *)
(*                                                                          *)
(* Of Postgres the model keeps what the code leans on: DDL is               *)
(* transactional; a name created by an open transaction makes another       *)
(* CREATE of that name wait for that transaction to end; DROP takes an      *)
(* exclusive lock, waits for the statements that read the table, and makes  *)
(* later ones queue behind it.                                              *)
(****************************************************************************)
EXTENDS Naturals, Sequences

CONSTANTS Tables,           \* published tables (fct_postings, fct_postings_skills)
          Publishers,       \* processes that call sync.run
          Scheduled,        \* those of them that are the DAG's task
          Readers,          \* backend sessions
          MartsOf,          \* MartsOf[p]: the marts publisher p copies, in order
          Retries,          \* Retries[p]: Airflow retries of p's task
          ConnectAttempts,  \* attempts of connect_with_retry
          MaxRows,          \* bound: rows of a mart
          MaxBuilds,        \* bound: dbt builds in a behaviour
          NoTable           \* the value of a name that resolves to nothing

ASSUME ScheduledAssumption == Scheduled \subseteq Publishers
ASSUME MartsAssumption ==
  /\ MartsOf \in [Publishers -> Seq(Tables)]
  /\ \A p \in Publishers : Len(MartsOf[p]) > 0
ASSUME BoundsAssumption ==
  /\ Retries \in [Publishers -> Nat]
  /\ ConnectAttempts \in Nat \ {0}
  /\ MaxRows \in Nat /\ MaxBuilds \in Nat
  
VARIABLES
  warehouse,  \* warehouse[t]: the mart dbt last built, with its number of rows
  published,  \* published[t]: the committed relation named <table>
  staging,    \* staging[t]: the committed relation named <table>__staging
  phase,      \* phase[p]: the statement p executes next
  position,   \* position[p]: index in MartsOf[p] of the mart being copied
  attempt,    \* attempt[p]: Airflow's try number of p's task
  tries,      \* tries[p]: connections that failed in this connect_with_retry
  data,       \* data[p]: the mart p read
  tx,         \* tx[p]: the two names as p's open transaction sees them
  reading,    \* reading[r]: the table reader r's running statement has locked
  seen        \* seen[r]: what r's last statement returned

pgVars == <<published, staging>>
jobVars == <<phase, position, attempt, tries, data, tx>>
readerVars == <<reading, seen>>
vars == <<warehouse, pgVars, jobVars, readerVars>>

--------------------------------------------------------------------------------
Mart == [build : Nat, size : Nat]

(* A relation of the backend's database: the mart it copies, the rows       *)
(* inserted so far, the publisher whose schema the rows came from, and the  *)
(* publisher the table comment names (NoTable: no comment yet).             *)
Relation == [build : Nat, size : Nat, loaded : Nat,
             from : Publishers, comment : Publishers \cup {NoTable}]

ASSUME NoTableAssumption == NoTable \notin Relation

NoMart == [build |-> 0, size |-> 0]
NoTx == [pub |-> NoTable, stg |-> NoTable]

HoldsLock    == {"rename", "comment", "commit"}          \* exclusive, on <table>
HoldsStaging == {"insert", "drop_published"} \cup HoldsLock
InTx         == {"drop_staging", "create_staging"} \cup HoldsStaging
Resting      == {"idle", "failed"}     \* no task runs; how the last one ended
Phases       == Resting \cup {"read", "connect"} \cup InTx

Table(p) == MartsOf[p][position[p]]

TypeOK ==
  /\ warehouse \in [Tables -> Mart]
  /\ published \in [Tables -> Relation \cup {NoTable}]
  /\ staging \in [Tables -> Relation \cup {NoTable}]
  /\ phase \in [Publishers -> Phases]
  /\ position \in [Publishers -> Nat]
  /\ \A p \in Publishers : position[p] \in 1 .. Len(MartsOf[p])
  /\ attempt \in [Publishers -> Nat]
  /\ \A p \in Publishers : attempt[p] \in 1 .. Retries[p] + 1
  /\ tries \in [Publishers -> 0 .. ConnectAttempts - 1]
  /\ data \in [Publishers -> Mart]
  /\ tx \in [Publishers -> [pub : Relation \cup {NoTable},
                            stg : Relation \cup {NoTable}]]
  /\ reading \in [Readers -> Tables \cup {NoTable}]
  /\ seen \in [Readers -> Relation \cup {NoTable}]

Init ==
  /\ warehouse = [t \in Tables |-> NoMart]
  /\ published = [t \in Tables |-> NoTable]
  /\ staging = [t \in Tables |-> NoTable]
  /\ phase = [p \in Publishers |-> "idle"]
  /\ position = [p \in Publishers |-> 1]
  /\ attempt = [p \in Publishers |-> 1]
  /\ tries = [p \in Publishers |-> 0]
  /\ data = [p \in Publishers |-> NoMart]
  /\ tx = [p \in Publishers |-> NoTx]
  /\ reading = [r \in Readers |-> NoTable]
  /\ seen = [r \in Readers |-> NoTable]

--------------------------------------------------------------------------------
(* Variants named ...X are what the code must not become; no action of the  *)
(* specification uses them.  This one: without max_active_runs=1.           *)
DbtBuildX ==
  /\ \A t \in Tables : warehouse[t].build < MaxBuilds
  /\ \E size \in [Tables -> 0 .. MaxRows] :
       warehouse' = [t \in Tables |-> [build |-> warehouse[t].build + 1,
                                       size |-> size[t]]]
  /\ UNCHANGED <<pgVars, jobVars, readerVars>>

(* dbt builds every mart, possibly with no rows at all.  The DAG runs       *)
(* dbt_build before publish_to_backend and max_active_runs=1 keeps the next *)
(* run's build away from this run's publish; a manual publish has no such   *)
(* protection.                                                              *)
DbtBuild ==
  /\ \A p \in Scheduled : phase[p] \in Resting
  /\ \A t \in Tables : warehouse[t].build < MaxBuilds
  /\ \E size \in [Tables -> 0 .. MaxRows] :
       warehouse' = [t \in Tables |-> [build |-> warehouse[t].build + 1,
                                       size |-> size[t]]]
  /\ UNCHANGED <<pgVars, jobVars, readerVars>>

(* Begin the task, a retry of it, or the next mart of the list, from a      *)
(* clean slate: the rows read and the transaction belong to one mart.       *)
Enter(p, ph, pos, try) ==
  /\ phase' = [phase EXCEPT ![p] = ph]
  /\ position' = [position EXCEPT ![p] = pos]
  /\ attempt' = [attempt EXCEPT ![p] = try]
  /\ tries' = [tries EXCEPT ![p] = 0]
  /\ data' = [data EXCEPT ![p] = NoMart]
  /\ tx' = [tx EXCEPT ![p] = NoTx]

(* Variant: retried for ever.                                               *)
RaiseX(p) == Enter(p, "read", 1, attempt[p])

(* An exception leaves run: the open transaction is rolled back when the    *)
(* connection closes, and Airflow retries the whole task from the first     *)
(* mart while it has retries left.                                          *)
Raise(p) ==
  \/ /\ attempt[p] <= Retries[p]
     /\ Enter(p, "read", 1, attempt[p] + 1)
  \/ /\ attempt[p] > Retries[p]
     /\ Enter(p, "failed", 1, 1)

Start(p) ==
  /\ phase[p] \in Resting
  /\ Enter(p, "read", 1, 1)
  /\ UNCHANGED <<warehouse, pgVars, readerVars>>

ReadMart(p) ==
  /\ phase[p] = "read"
  /\ warehouse[Table(p)].size > 0
  /\ data' = [data EXCEPT ![p] = warehouse[Table(p)]]
  /\ phase' = [phase EXCEPT ![p] = "connect"]
  /\ UNCHANGED <<warehouse, pgVars, position, attempt, tries, tx, readerVars>>

(* The query failed, or the mart is empty and read_mart refuses it.         *)
ReadFails(p) ==
  /\ phase[p] = "read"
  /\ Raise(p)
  /\ UNCHANGED <<warehouse, pgVars, readerVars>>

Connect(p) ==
  /\ phase[p] = "connect"
  /\ phase' = [phase EXCEPT ![p] = "drop_staging"]
  /\ tries' = [tries EXCEPT ![p] = 0]
  /\ UNCHANGED <<warehouse, pgVars, position, attempt, data, tx, readerVars>>

(* Variant: one connection attempt too many.                                *)
ConnectFailsX(p) ==
  /\ phase[p] = "connect"
  /\ \/ /\ tries[p] < ConnectAttempts
        /\ tries' = [tries EXCEPT ![p] = @ + 1]
        /\ UNCHANGED <<phase, position, attempt, data, tx>>
     \/ /\ tries[p] = ConnectAttempts
        /\ Raise(p)
  /\ UNCHANGED <<warehouse, pgVars, readerVars>>

(* Railway suspends an idle database: OperationalError, retried a few times *)
(* with a pause, then raised.                                               *)
ConnectFails(p) ==
  /\ phase[p] = "connect"
  /\ \/ /\ tries[p] + 1 < ConnectAttempts
        /\ tries' = [tries EXCEPT ![p] = @ + 1]
        /\ UNCHANGED <<phase, position, attempt, data, tx>>
     \/ /\ tries[p] + 1 = ConnectAttempts
        /\ Raise(p)
  /\ UNCHANGED <<warehouse, pgVars, readerVars>>

--------------------------------------------------------------------------------
(* Variant: autocommit=True, every statement visible to all at once.        *)
ExecX(p, pub, stg, ph) ==
  /\ tx' = [tx EXCEPT ![p] = [pub |-> pub, stg |-> stg]]
  /\ phase' = [phase EXCEPT ![p] = ph]
  /\ published' = [published EXCEPT ![Table(p)] = pub]
  /\ staging' = [staging EXCEPT ![Table(p)] = stg]
  /\ UNCHANGED <<warehouse, position, attempt, tries, data, readerVars>>

(* A statement of an open transaction (autocommit=False): its effect on the *)
(* two names is the transaction's own until the commit.                     *)
Exec(p, pub, stg, ph) ==
  /\ tx' = [tx EXCEPT ![p] = [pub |-> pub, stg |-> stg]]
  /\ phase' = [phase EXCEPT ![p] = ph]
  /\ UNCHANGED <<warehouse, pgVars, position, attempt, tries, data, readerVars>>

(* drop table if exists <table>__staging                                    *)
DropStaging(p) ==
  /\ phase[p] = "drop_staging"
  /\ Exec(p, published[Table(p)], NoTable, "create_staging")

(* create table <table>__staging: waits for a transaction that has created  *)
(* the same name.                                                           *)
CreateStaging(p) ==
  /\ phase[p] = "create_staging"
  /\ \A q \in Publishers \ {p} : phase[q] \in HoldsStaging => Table(q) # Table(p)
  /\ Exec(p, published[Table(p)],
          [build |-> data[p].build, size |-> data[p].size, loaded |-> 0,
           from |-> p, comment |-> NoTable],
          "insert")

(* executemany sends the rows one after the other.                          *)
InsertRow(p) ==
  /\ phase[p] = "insert"
  /\ tx[p].stg.loaded < tx[p].stg.size
  /\ Exec(p, published[Table(p)], [tx[p].stg EXCEPT !.loaded = @ + 1], "insert")

(* Variant: the swap does not wait for the last row.                        *)
InsertDoneX(p) ==
  /\ phase[p] = "insert"
  /\ Exec(p, published[Table(p)], tx[p].stg, "drop_published")

InsertDone(p) ==
  /\ phase[p] = "insert"
  /\ tx[p].stg.loaded = tx[p].stg.size
  /\ Exec(p, published[Table(p)], tx[p].stg, "drop_published")

(* Variant: the drop is committed before the rename.                        *)
DropPublishedX(p) ==
  /\ phase[p] = "drop_published"
  /\ \A r \in Readers : reading[r] # Table(p)
  /\ tx' = [tx EXCEPT ![p].pub = NoTable]
  /\ phase' = [phase EXCEPT ![p] = "rename"]
  /\ published' = [published EXCEPT ![Table(p)] = NoTable]
  /\ UNCHANGED <<warehouse, staging, position, attempt, tries, data, readerVars>>

(* drop table if exists <table>: granted when no statement reads it.        *)
DropPublished(p) ==
  /\ phase[p] = "drop_published"
  /\ \A r \in Readers : reading[r] # Table(p)
  /\ Exec(p, NoTable, tx[p].stg, "rename")

(* Variant: the staging table is copied, not renamed.                       *)
RenameStagingX(p) ==
  /\ phase[p] = "rename"
  /\ Exec(p, tx[p].stg, tx[p].stg, "comment")

(* alter table <table>__staging rename to <table>                           *)
RenameStaging(p) ==
  /\ phase[p] = "rename"
  /\ Exec(p, tx[p].stg, NoTable, "comment")

(* comment on table <table> is 'from <source> at <stamp>'                   *)
CommentTable(p) ==
  /\ phase[p] = "comment"
  /\ Exec(p, [tx[p].pub EXCEPT !.comment = p], tx[p].stg, "commit")

(* The server makes the transaction's names the committed ones.             *)
Install(p) ==
  /\ phase[p] = "commit"
  /\ published' = [published EXCEPT ![Table(p)] = tx[p].pub]
  /\ staging' = [staging EXCEPT ![Table(p)] = tx[p].stg]
  /\ UNCHANGED <<warehouse, readerVars>>

(* Variant: the last mart of the list is left out.                          *)
CommitX(p) ==
  /\ Install(p)
  /\ \/ /\ position[p] + 1 < Len(MartsOf[p])
        /\ Enter(p, "read", position[p] + 1, attempt[p])
     \/ /\ position[p] + 1 >= Len(MartsOf[p])
        /\ Enter(p, "idle", 1, 1)

(* connection.commit() returns; run goes on with the next mart, if any.     *)
Commit(p) ==
  /\ Install(p)
  /\ \/ /\ position[p] < Len(MartsOf[p])
        /\ Enter(p, "read", position[p] + 1, attempt[p])
     \/ /\ position[p] = Len(MartsOf[p])
        /\ Enter(p, "idle", 1, 1)

(* The server commits but the connection breaks before it says so.          *)
CommitUnacknowledged(p) == Install(p) /\ Raise(p)

(* The process, the connection or a statement dies: nothing is committed.   *)
Crash(p) ==
  /\ phase[p] \in InTx
  /\ Raise(p)
  /\ UNCHANGED <<warehouse, pgVars, readerVars>>

--------------------------------------------------------------------------------
(* A reader's statement.  Before the first publish the name does not        *)
(* resolve and the statement fails at once.  Otherwise it queues behind an  *)
(* exclusive lock held or awaited, and keeps its own lock until it ends.    *)
(* A statement that slips in between the last insert and the drop's request *)
(* is one that began before the last insert.                                *)
BeginSelect(r, t) ==
  /\ reading[r] = NoTable
  /\ \/ /\ published[t] = NoTable
        /\ UNCHANGED reading
     \/ /\ published[t] # NoTable
        /\ \A p \in Publishers :
             phase[p] \in HoldsLock \cup {"drop_published"} => Table(p) # t
        /\ reading' = [reading EXCEPT ![r] = t]
  /\ seen' = [seen EXCEPT ![r] = published[t]]
  /\ UNCHANGED <<warehouse, pgVars, jobVars>>

EndSelect(r) ==
  /\ reading[r] # NoTable
  /\ reading' = [reading EXCEPT ![r] = NoTable]
  /\ UNCHANGED <<warehouse, pgVars, jobVars, seen>>

--------------------------------------------------------------------------------
(* What p does once its task has started, and what can go wrong for it.     *)
Progress(p) ==
  \/ ReadMart(p) \/ Connect(p) \/ DropStaging(p) \/ CreateStaging(p)
  \/ InsertRow(p) \/ InsertDone(p) \/ DropPublished(p) \/ RenameStaging(p)
  \/ CommentTable(p) \/ Commit(p)

Fault(p) ==
  \/ ReadFails(p) \/ ConnectFails(p) \/ CommitUnacknowledged(p) \/ Crash(p)

Next ==
  \/ DbtBuild
  \/ \E p \in Publishers : Start(p) \/ Progress(p) \/ Fault(p)
  \/ \E r \in Readers : EndSelect(r) \/ \E t \in Tables : BeginSelect(r, t)

Spec == Init /\ [][Next]_vars

(* A running task is executed by a live worker, and an empty mart raises; a *)
(* statement the backend sent ends; Postgres wakes the waiters of a         *)
(* transaction when it ends.  No other fault is forced on a publisher, and  *)
(* nothing forces the DAG to run.                                           *)
Fairness ==
  /\ \A p \in Publishers : /\ WF_vars(Progress(p)) /\ WF_vars(ReadFails(p))
                            /\ SF_vars(CreateStaging(p))
  /\ \A r \in Readers : WF_vars(EndSelect(r))

FairSpec == Spec /\ Fairness

--------------------------------------------------------------------------------
(* A relation a reader may be shown: every row of a non-empty mart, and the *)
(* comment that says where it came from.                                    *)
Whole(rel) == rel.loaded = rel.size /\ rel.size > 0 /\ rel.comment = rel.from

(* No query of the backend ever returns a half-loaded, empty or wrongly     *)
(* labelled table, whatever publishers crash, retry or overlap ("a reader   *)
(* sees the whole old version or the whole new one", sync.py:120-121).      *)
ReadersSeeWholeTable == \A r \in Readers : seen[r] # NoTable => Whole(seen[r])

(* <table>__staging never exists outside a transaction, so a publish that   *)
(* died at any statement leaves nothing for the next one to trip over.      *)
NoStagingLeftBehind == \A t \in Tables : staging[t] = NoTable

(* Once a table has been published the name always resolves: neither the    *)
(* drop before the rename nor a crash between them can take it away.        *)
NeverMissing ==
  [][\A t \in Tables : published[t] # NoTable => published'[t] # NoTable]_vars

(* The table under a running statement does not change.                     *)
StableUnderReader ==
  [][\A r \in Readers : reading[r] # NoTable =>
       published'[reading[r]] = published[reading[r]]]_vars

(* What the DAG's task publishes is the build its own run made: no later    *)
(* build slips under a running or retried publish (max_active_runs=1).      *)
DagPublishesItsBuild ==
  [][\A t \in Tables :
       published'[t] # published[t] /\ published'[t].from \in Scheduled =>
         published'[t].build = warehouse[t].build]_vars

(* When the DAG's task succeeds every mart of its list is there, and those  *)
(* that nobody replaced by hand since are copies of the run's own build: a  *)
(* retry after a failure between two marts starts over with the first, and  *)
(* none is skipped.                                                         *)
SuccessMeansAllMarts ==
  [][\A p \in Scheduled : phase[p] = "commit" /\ phase'[p] = "idle" =>
       \A i \in DOMAIN MartsOf[p] :
         LET t == MartsOf[p][i] IN
         /\ published'[t] # NoTable
         /\ published'[t].from = p => published'[t].build = warehouse[t].build]_vars

(* A task that started ends, in success or in final failure: no publisher   *)
(* waits for ever for a name, a lock or a database that does not wake up.   *)
TaskEnds ==
  \A p \in Publishers : phase[p] \notin Resting ~> phase[p] \in Resting

(* The published tables are the atomic registers of AtomicMarts; a relation *)
(* that is not whole is a copy of no build at all.                          *)
AbstractCopy(rel) ==
  IF rel = NoTable THEN NoTable
  ELSE [build |-> IF Whole(rel) THEN rel.build ELSE 0, from |-> rel.from]

Abstract == INSTANCE AtomicMarts WITH
  built <- [t \in Tables |-> warehouse[t].build],
  mart <- [t \in Tables |-> AbstractCopy(published[t])],
  seen <- [r \in Readers |-> AbstractCopy(seen[r])]

(* sync.py with its retries, crashes and overlapping publishers implements  *)
(* the register that AtomicMarts promises.                                  *)
ImplementsAtomicMarts == Abstract!Spec
================================================================================
