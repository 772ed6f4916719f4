------------------------------ MODULE Extraction -------------------------------
(****************************************************************************)
(* data/dbt/models/intermediate/int_postings_extracted_attributes.py: the   *)
(* incremental table of attributes that a language model extracts from job  *)
(* descriptions.  A build collects the described postings that have no row  *)
(* yet, asks the gateway about them batch by batch, and merges the rows it  *)
(* got.  A batch that is refused ends the asking and keeps what is there;   *)
(* any other exception fails the model, and its rows are lost.              *)
(*                                                                          *)
(* Attributes are the job whose description they were extracted from, or    *)
(* Default.  Postings land while a build is under way.  One build works at  *)
(* a time: the project lock is Pipeline's subject.                          *)
(****************************************************************************)
EXTENDS Integers, Sequences, FiniteSets

CONSTANTS Jobs,         \* job ids
          Blank,        \* jobs whose description is empty
          Default,      \* DEFAULT_ATTRIBUTES
          NoRow,        \* no row in the table for that job
          BatchSize,    \* descriptions in one prompt
          MaxRemoved,   \* bound: postings that leave the landing zone again
          MaxErrors,    \* bound: exceptions that fail the model
          MaxRefreshes  \* bound: builds with --full-refresh

ASSUME JobsAssumption == IsFiniteSet(Jobs) /\ Blank \subseteq Jobs /\ Default \notin Jobs
                         /\ NoRow \notin Jobs \cup {Default}
ASSUME BatchAssumption == BatchSize \in Nat \ {0}
ASSUME BoundsAssumption ==
  MaxRemoved \in Nat /\ MaxErrors \in Nat /\ MaxRefreshes \in Nat

VARIABLES
  landing,    \* jobs with a posting in the landing zone
  table,      \* table[j]: the attributes of j, or NoRow
  exists,     \* the table has been created
  at,         \* what the model is doing
  full,       \* the build has --full-refresh
  todo,       \* the jobs collected, in the order collected
  start,      \* descriptions that batches have been made of
  extracted,  \* the attributes extracted so far
  removed, errors, refreshes  \* counted for the bounds

model == <<at, full, todo, start, extracted>>
counts == <<removed, errors, refreshes>>
vars == <<landing, table, exists, model, counts>>

Attributes == Jobs \cup {Default}

TypeOK ==
  /\ landing \subseteq Jobs
  /\ table \in [Jobs -> Attributes \cup {NoRow}]
  /\ exists \in BOOLEAN /\ full \in BOOLEAN
  /\ at \in {"idle", "collect", "ask", "merge"}
  /\ todo \in Seq(Jobs) /\ extracted \in Seq(Attributes)
  /\ start \in Nat
  /\ removed \in 0 .. MaxRemoved /\ errors \in 0 .. MaxErrors
  /\ refreshes \in 0 .. MaxRefreshes

Init ==
  /\ landing = {}
  /\ table = [j \in Jobs |-> NoRow] /\ exists = FALSE
  /\ at = "idle" /\ full = FALSE
  /\ todo = <<>> /\ start = 0 /\ extracted = <<>>
  /\ removed = 0 /\ errors = 0 /\ refreshes = 0

--------------------------------------------------------------------------------
(* Ingestion lands a file; one that replaces another file of its day can    *)
(* take postings away.                                                      *)
Land(j) ==
  /\ j \notin landing
  /\ landing' = landing \cup {j}
  /\ UNCHANGED <<table, exists, model, counts>>

Overwrite(j) ==
  /\ j \in landing /\ removed < MaxRemoved
  /\ landing' = landing \ {j}
  /\ removed' = removed + 1
  /\ UNCHANGED <<table, exists, model, errors, refreshes>>

(* The view int_postings_for_extraction.                                    *)
ForExtraction == landing \ Blank

--------------------------------------------------------------------------------
Leave(step) ==
  /\ at' = step
  /\ full' = FALSE /\ todo' = <<>> /\ start' = 0 /\ extracted' = <<>>

(* dbt comes to the model, with or without --full-refresh.                  *)
StartBuild(refresh) ==
  /\ at = "idle"
  /\ refresh => refreshes < MaxRefreshes
  /\ at' = "collect" /\ full' = refresh
  /\ refreshes' = IF refresh THEN refreshes + 1 ELSE refreshes
  /\ UNCHANGED <<landing, table, exists, todo, start, extracted, removed, errors>>

IsIncremental == exists /\ ~full

(* Rows come in any order.                                                  *)
Orders(S) == {s \in [1 .. Cardinality(S) -> S] :
                \A i, k \in DOMAIN s : s[i] = s[k] => i = k}

(* Variant: the postings that have rows are asked about again.              *)
UnseenX == ForExtraction

(* dbt.ref left_anti dbt.this.                                              *)
Unseen == {j \in ForExtraction : IsIncremental => table[j] = NoRow}

(* collect(): one query; without new postings there is nothing to ask.      *)
Collect ==
  /\ at = "collect"
  /\ \E s \in Orders(Unseen) : todo' = s
  /\ at' = IF Unseen = {} THEN "merge" ELSE "ask"
  /\ UNCHANGED <<landing, table, exists, full, start, extracted, counts>>

(* The next batch, its length, and the attributes of an answer: the objects *)
(* under its keys, the default for a number that is missing.                *)
BatchLength == IF start + BatchSize <= Len(todo) THEN BatchSize ELSE Len(todo) - start

ParseBatch(named) ==
  [i \in 1 .. BatchLength |-> IF i \in named THEN todo[start + i] ELSE Default]

(* Goes on with the next batch, if there is one.                            *)
Proceed ==
  /\ start' = start + BatchSize
  /\ at' = IF start + BatchSize < Len(todo) THEN "ask" ELSE "merge"
  /\ UNCHANGED <<landing, table, exists, full, todo, counts>>

(* extract_batch: the gateway answers, and names some of the batch.         *)
Answer ==
  /\ at = "ask"
  /\ \E named \in SUBSET (1 .. BatchLength) :
       extracted' = extracted \o ParseBatch(named)
  /\ Proceed

(* Variant: the batch is skipped and the next one asked.                    *)
RefusedX ==
  /\ at = "ask"
  /\ UNCHANGED extracted
  /\ Proceed

(* Variant: what was extracted so far is lost.                              *)
RefusedY ==
  /\ at = "ask"
  /\ at' = "merge" /\ extracted' = <<>>
  /\ UNCHANGED <<landing, table, exists, full, todo, start, counts>>

(* RuntimeError: an HTTP error, most often 429.  What succeeded is kept.    *)
Refused ==
  /\ at = "ask"
  /\ at' = "merge"
  /\ UNCHANGED <<landing, table, exists, full, todo, start, extracted, counts>>

(* Any other exception: no network, a timeout, no JSON in the answer, no    *)
(* secret; or the cluster is gone.  The model fails, nothing is merged.     *)
Raises ==
  /\ at # "idle" /\ errors < MaxErrors
  /\ errors' = errors + 1
  /\ Leave("idle")
  /\ UNCHANGED <<landing, table, exists, removed, refreshes>>

(* The rows returned: job_ids[index] with extracted[index].                 *)
OutputRow(j, a) == \E i \in 1 .. Len(extracted) : todo[i] = j /\ extracted[i] = a

Output == {todo[i] : i \in 1 .. Len(extracted)}

(* MERGE on job_id into the table, or a new table.                          *)
Merge ==
  /\ at = "merge"
  /\ table' = [j \in Jobs |->
       IF j \in Output THEN CHOOSE a \in Attributes : OutputRow(j, a)
       ELSE IF IsIncremental THEN table[j] ELSE NoRow]
  /\ exists' = TRUE
  /\ Leave("idle")
  /\ UNCHANGED <<landing, counts>>

--------------------------------------------------------------------------------
Next ==
  \/ \E j \in Jobs : Land(j) \/ Overwrite(j)
  \/ \E refresh \in BOOLEAN : StartBuild(refresh)
  \/ Collect \/ Answer \/ Refused \/ Raises \/ Merge

Spec == Init /\ [][Next]_vars

--------------------------------------------------------------------------------
(* Whatever a posting's row says was extracted from its own description,    *)
(* though rows and answers are matched by position over batches that fail.  *)
AttributesAreOwn == \A j \in Jobs : table[j] \in {j, Default, NoRow}

(* An incremental build leaves the rows there are alone: it collected the   *)
(* postings without rows long before it merges.                             *)
AnswersAreKept ==
  [][~full => \A j \in Jobs : table[j] # NoRow => table'[j] = table[j]]_vars
================================================================================
