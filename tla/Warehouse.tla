------------------------------- MODULE Warehouse -------------------------------
(****************************************************************************)
(* data/src/common/warehouse.py: Warehouse.query runs one statement over    *)
(* the Statement Execution API and waits for it.  publish's read_mart and   *)
(* the DAG's list_landing_files depend on it.  The client submits, polls    *)
(* while the statement is pending or running, then follows the links of a   *)
(* result that arrives in chunks.  The server (external) works, succeeds or *)
(* ends badly on its own time, and may drop a finished result between two   *)
(* calls of the client.                                                     *)
(*                                                                          *)
(* A result is its number of rows, a chunk the number of rows it carries.   *)
(* A faithful server sends every chunk in full and links it to the next; one*)
(* whose chunk protocol has changed may leave out rows or the link.         *)
(****************************************************************************)
EXTENDS Integers

CONSTANTS ChunkRows,   \* rows of a full chunk
          MaxRows      \* bound: rows of a result

ASSUME ChunkAssumption == ChunkRows \in Nat \ {0}
ASSUME RowsAssumption == MaxRows \in Nat

VARIABLES
  statement,  \* the server's statement: state, rows, manifest and manners
  query,      \* where query is
  body,       \* the state in the last answer to a submit or a poll
  rows,       \* rows collected so far
  link        \* the chunk next_chunk_internal_link names, 0 when there is none

queryVars == <<statement, query, body, rows, link>>

Working == {"PENDING", "RUNNING"}
EndedBadly == {"FAILED", "CANCELED", "CLOSED"}
States == Working \cup EndedBadly \cup {"SUCCEEDED"}

Statement == [state : States,
              total : 0 .. MaxRows,   \* rows of the result
              counted : BOOLEAN,      \* the manifest has a total_row_count
              faithful : BOOLEAN]     \* every chunk in full, linked to the next

Phases == {"submit", "asked", "answered", "chunks", "returned", "raised"}
Done == {"returned", "raised"}

QueryTypeOK ==
  /\ statement \in Statement
  /\ query \in Phases
  /\ body \in States
  /\ rows \in 0 .. MaxRows
  /\ link \in Nat

QueryInit ==
  /\ statement \in [state : {"PENDING"}, total : 0 .. MaxRows,
                    counted : BOOLEAN, faithful : BOOLEAN]
  /\ query = "submit"
  /\ body = "PENDING"
  /\ rows = 0
  /\ link = 0

--------------------------------------------------------------------------------
(* What the server does once it has the statement.                          *)
Execute ==
  /\ query # "submit"
  /\ statement.state \in Working
  /\ \E state \in {"RUNNING", "SUCCEEDED", "FAILED", "CANCELED"} \ {statement.state} :
       statement' = [statement EXCEPT !.state = state]
  /\ UNCHANGED <<query, body, rows, link>>

(* A finished result expires, or an operator closes the statement.          *)
Close ==
  /\ statement.state = "SUCCEEDED"
  /\ statement' = [statement EXCEPT !.state = "CLOSED"]
  /\ UNCHANGED <<query, body, rows, link>>

--------------------------------------------------------------------------------
(* Rows of the result past the first k chunks.                              *)
After(k) == statement.total - k * ChunkRows

FullChunk(k) ==
  IF After(k - 1) > ChunkRows THEN ChunkRows
  ELSE IF After(k - 1) > 0 THEN After(k - 1) ELSE 0

NextLink(k) == IF After(k) > 0 THEN k + 1 ELSE 0

(* Chunk k arrives, its rows are appended and its link becomes the next one *)
(* to follow.                                                               *)
Receive(k) ==
  \/ /\ rows' = rows + FullChunk(k)
     /\ link' = NextLink(k)
  \/ /\ ~statement.faithful
     /\ \E n \in 0 .. FullChunk(k) : rows' = rows + n
     /\ link' \in {0, NextLink(k)}

Submit ==
  /\ query = "submit"
  /\ query' = "asked"
  /\ UNCHANGED <<statement, body, rows, link>>

(* The answer to the POST, at the latest after its wait_timeout, or to a    *)
(* poll: the state as it is now, which may be old by the time it is read.   *)
Answer ==
  /\ query = "asked"
  /\ body' = statement.state
  /\ query' = "answered"
  /\ UNCHANGED <<statement, rows, link>>

PollAgain ==
  /\ query = "answered" /\ body \in Working
  /\ query' = "asked"
  /\ UNCHANGED <<statement, body, rows, link>>

Refuse ==
  /\ query = "answered" /\ body \in EndedBadly
  /\ query' = "raised"
  /\ UNCHANGED <<statement, body, rows, link>>

(* The first chunk is part of the answer that says SUCCEEDED.               *)
FirstChunk ==
  /\ query = "answered" /\ body = "SUCCEEDED"
  /\ Receive(1)
  /\ query' = "chunks"
  /\ UNCHANGED <<statement, body>>

NextChunk ==
  /\ query = "chunks" /\ link # 0
  /\ statement.state = "SUCCEEDED"
  /\ Receive(link)
  /\ UNCHANGED <<statement, query, body>>

(* Variant: the first chunk is taken for the whole result.                  *)
FinishQueryX ==
  /\ query = "chunks"
  /\ query' = "returned"
  /\ UNCHANGED <<statement, body, rows, link>>

(* No link is left: the row count of the manifest, if it has one, decides.  *)
FinishQuery ==
  /\ query = "chunks" /\ link = 0
  /\ query' = IF statement.counted /\ rows # statement.total
              THEN "raised" ELSE "returned"
  /\ UNCHANGED <<statement, body, rows, link>>

(* Variant: a chunk that is gone is asked for again.                        *)
CallFailsX ==
  \/ /\ query \in {"submit", "asked"}
     /\ query' = "raised"
     /\ UNCHANGED <<statement, body, rows, link>>
  \/ /\ query = "chunks" /\ link # 0
     /\ UNCHANGED queryVars

(* Any HTTP call can fail, time out, or find its chunk gone; _call does not *)
(* retry.                                                                   *)
CallFails ==
  /\ \/ query \in {"submit", "asked"}
     \/ query = "chunks" /\ link # 0
  /\ query' = "raised"
  /\ UNCHANGED <<statement, body, rows, link>>

Client ==
  \/ Submit \/ Answer \/ PollAgain \/ Refuse \/ FirstChunk \/ NextChunk
  \/ FinishQuery

(* query has returned or raised.                                            *)
Idle == query \in Done /\ UNCHANGED queryVars

QueryNext == Execute \/ Close \/ Client \/ CallFails \/ Idle

QuerySpec == QueryInit /\ [][QueryNext]_queryVars

(* Each call is answered or times out, and the warehouse ends every         *)
(* statement: query itself polls without a deadline.  A fetch of a chunk    *)
(* that is gone fails.                                                      *)
QueryFairness ==
  /\ WF_queryVars(Client)
  /\ WF_queryVars(query = "chunks" /\ statement.state = "CLOSED" /\ CallFails)
  /\ WF_queryVars(Execute)

FairQuerySpec == QuerySpec /\ QueryFairness

--------------------------------------------------------------------------------
(* query returns only when the statement has finished on the server, and    *)
(* well: the next step never builds on a table that is being written.       *)
NeverReturnsEarly ==
  query = "returned" => statement.state \in {"SUCCEEDED", "CLOSED"}
                        /\ body = "SUCCEEDED"

(* query waits for the end of the statement, and then hands over every row  *)
(* of the result or raises: it never returns a part, whenever the manifest  *)
(* has a row count or the chunks are linked as they should be ("50,000 rows *)
(* came back as 25,000", warehouse.py:206).                                 *)
AllRowsOrRaised ==
  /\ NeverReturnsEarly
  /\ query = "returned" /\ (statement.counted \/ statement.faithful) =>
       rows = statement.total

(* Collecting rows stops: query always returns or raises.                   *)
QueryEnds == <>(query \in Done)
================================================================================
