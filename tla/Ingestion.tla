------------------------------- MODULE Ingestion -------------------------------
(****************************************************************************)
(* data/src/ingestion: one execution of `python -m src.ingestion` runs the  *)
(* Adzuna source, then the JobSpy source, and lands one file per source and *)
(* day in the landing zone.  Executions may overlap: a retried or manual    *)
(* run starts while an earlier container still works.                       *)
(*                                                                          *)
(* Adzuna is paged: a page is asked for up to MaxRetries times, and paging  *)
(* ends with a page that has no records.  JobSpy is scraped role by role,   *)
(* and a role that fails is skipped.  A page or role is a part; a file is   *)
(* the number of parts it holds and who landed it.                          *)
(****************************************************************************)
EXTENDS Naturals

CONSTANTS Executions,  \* containers
          MaxPages,    \* pages asked of Adzuna
          Roles,       \* roles asked of JobSpy
          MaxRetries,  \* tries for one page
          MaxDay,      \* bound: days in a behaviour
          NoFile       \* no file under that source and day

ASSUME CountsAssumption ==
  /\ MaxPages \in Nat \ {0} /\ Roles \in Nat \ {0} /\ MaxRetries \in Nat \ {0}
  /\ MaxDay \in Nat \ {0}

VARIABLES
  today,     \* the UTC date
  landing,   \* landing[s][d]: source s's file of day d
  step,      \* step[e]: what execution e is doing
  source,    \* source[e]: the source it is at
  day,       \* day[e][s]: the run_date of its run of source s
  part,      \* part[e]: the page or role asked for
  attempt,   \* attempt[e]: tries used for the page
  response,  \* response[e]: what the last try for the page came to
  got,       \* got[e]: parts with records so far
  valid,     \* valid[e]: some record passed validation
  outcome    \* outcome[e][s]: how source s ended in execution e

fetchVars == <<part, attempt, response, got, valid>>
vars == <<today, landing, step, source, day, fetchVars, outcome>>

Sources == {"adzuna", "jobspy"}
Days == 1 .. MaxDay
AtSource == {"fetch", "land", "stored"}
Over == {"exited", "killed"}
Responses == {"none", "records", "empty", "retryable", "raised"}

File == [by : Executions, parts : Nat]
ASSUME NoFileAssumption == NoFile \notin File

Parts(s) == IF s = "adzuna" THEN MaxPages ELSE Roles

TypeOK ==
  /\ today \in Days
  /\ landing \in [Sources -> [Days -> File \cup {NoFile}]]
  /\ step \in [Executions -> {"new"} \cup AtSource \cup Over]
  /\ source \in [Executions -> Sources]
  /\ day \in [Executions -> [Sources -> Days]]
  /\ part \in [Executions -> Nat]
  /\ \A e \in Executions : part[e] \in 1 .. Parts(source[e])
  /\ attempt \in [Executions -> 0 .. MaxRetries - 1]
  /\ response \in [Executions -> Responses]
  /\ got \in [Executions -> Nat]
  /\ \A e \in Executions : got[e] <= part[e]
  /\ valid \in [Executions -> BOOLEAN]
  /\ outcome \in [Executions -> [Sources -> {"none", "landed", "failed"}]]

Init ==
  /\ today = 1
  /\ landing = [s \in Sources |-> [d \in Days |-> NoFile]]
  /\ step = [e \in Executions |-> "new"]
  /\ source = [e \in Executions |-> "adzuna"]
  /\ day = [e \in Executions |-> [s \in Sources |-> 1]]
  /\ part = [e \in Executions |-> 1]
  /\ attempt = [e \in Executions |-> 0]
  /\ response = [e \in Executions |-> "none"]
  /\ got = [e \in Executions |-> 0]
  /\ valid = [e \in Executions |-> FALSE]
  /\ outcome = [e \in Executions |-> [s \in Sources |-> "none"]]

--------------------------------------------------------------------------------
(* pipeline.run of source s begins: it settles on today's date and starts   *)
(* with nothing.                                                            *)
RunSource(e, s) ==
  /\ step' = [step EXCEPT ![e] = "fetch"]
  /\ source' = [source EXCEPT ![e] = s]
  /\ day' = [day EXCEPT ![e][s] = today]
  /\ part' = [part EXCEPT ![e] = 1]
  /\ attempt' = [attempt EXCEPT ![e] = 0]
  /\ response' = [response EXCEPT ![e] = "none"]
  /\ got' = [got EXCEPT ![e] = 0]
  /\ valid' = [valid EXCEPT ![e] = FALSE]

Start(e) ==
  /\ step[e] = "new"
  /\ RunSource(e, "adzuna")
  /\ UNCHANGED <<today, landing, outcome>>

(* The source has ended, one way or the other: the next one runs, or the    *)
(* process exits with status 0.                                             *)
EndSource(e, result) ==
  /\ outcome' = [outcome EXCEPT ![e][source[e]] = result]
  /\ \/ /\ source[e] = "adzuna"
        /\ RunSource(e, "jobspy")
     \/ /\ source[e] = "jobspy"
        /\ step' = [step EXCEPT ![e] = "exited"]
        /\ UNCHANGED <<source, day, fetchVars>>

(* Variant: the first failing source ends the execution.                    *)
SourceRaisesX(e) ==
  /\ step[e] \in AtSource
  /\ outcome' = [outcome EXCEPT ![e][source[e]] = "failed"]
  /\ step' = [step EXCEPT ![e] = "exited"]
  /\ UNCHANGED <<today, landing, source, day, fetchVars>>

(* Anything that raises in a source (a setting that is missing, an answer   *)
(* that is no list, an upload that fails) is logged, and the other source   *)
(* still runs.  An upload may raise with the file replaced already, when    *)
(* only its answer is lost.                                                 *)
SourceRaises(e) ==
  /\ step[e] \in AtSource
  /\ EndSource(e, "failed")
  /\ UNCHANGED <<today, landing>>

--------------------------------------------------------------------------------
(* Ask for the next page or role, or stop fetching after the last.          *)
NextPart(e) ==
  /\ attempt' = [attempt EXCEPT ![e] = 0]
  /\ \/ /\ part[e] < Parts(source[e])
        /\ part' = [part EXCEPT ![e] = @ + 1]
        /\ UNCHANGED step
     \/ /\ part[e] = Parts(source[e])
        /\ step' = [step EXCEPT ![e] = "land"]
        /\ UNCHANGED part

(* A page or a role with records, some of which may be valid.               *)
Records(e) ==
  /\ step[e] = "fetch"
  /\ NextPart(e)
  /\ response' = [response EXCEPT ![e] = "records"]
  /\ got' = [got EXCEPT ![e] = @ + 1]
  /\ \E ok \in BOOLEAN : valid' = [valid EXCEPT ![e] = @ \/ ok]
  /\ UNCHANGED <<today, landing, source, day, outcome>>

(* Paging ends early: fetch_raw has returned no records for the page.       *)
StopPaging(e) ==
  /\ step' = [step EXCEPT ![e] = "land"]
  /\ attempt' = [attempt EXCEPT ![e] = 0]
  /\ UNCHANGED part

EmptyPage(e) ==
  /\ step[e] = "fetch" /\ source[e] = "adzuna"
  /\ StopPaging(e)
  /\ response' = [response EXCEPT ![e] = "empty"]
  /\ UNCHANGED <<today, landing, source, day, got, valid, outcome>>

(* Variant: a page that cannot be had is skipped.                           *)
RetryableX(e) ==
  /\ step[e] = "fetch" /\ source[e] = "adzuna"
  /\ \/ /\ attempt[e] + 1 < MaxRetries
        /\ attempt' = [attempt EXCEPT ![e] = @ + 1]
        /\ UNCHANGED <<step, part>>
     \/ /\ attempt[e] + 1 = MaxRetries
        /\ NextPart(e)
  /\ response' = [response EXCEPT ![e] = "retryable"]
  /\ UNCHANGED <<today, landing, source, day, got, valid, outcome>>

(* Variant: a busy server is asked again until it answers.                  *)
RetryableY(e) ==
  /\ step[e] = "fetch" /\ source[e] = "adzuna"
  /\ attempt' = [attempt EXCEPT ![e] = (@ + 1) % MaxRetries]
  /\ response' = [response EXCEPT ![e] = "retryable"]
  /\ UNCHANGED <<today, landing, step, source, day, part, got, valid, outcome>>

(* 429 or 5xx: try again after a pause; after the last try fetch_raw falls  *)
(* out of its loop and returns no records.                                  *)
Retryable(e) ==
  /\ step[e] = "fetch" /\ source[e] = "adzuna"
  /\ \/ /\ attempt[e] + 1 < MaxRetries
        /\ attempt' = [attempt EXCEPT ![e] = @ + 1]
        /\ UNCHANGED <<step, part>>
     \/ /\ attempt[e] + 1 = MaxRetries
        /\ StopPaging(e)
  /\ response' = [response EXCEPT ![e] = "retryable"]
  /\ UNCHANGED <<today, landing, source, day, got, valid, outcome>>

(* The connection fails, or raise_for_status raises on a permanent error:   *)
(* both are RequestExceptions, tried again until the tries are used up and  *)
(* then raised, with the pages before.                                      *)
RequestRaises(e) ==
  /\ step[e] = "fetch" /\ source[e] = "adzuna"
  /\ \/ /\ attempt[e] + 1 < MaxRetries
        /\ attempt' = [attempt EXCEPT ![e] = @ + 1]
        /\ response' = [response EXCEPT ![e] = "raised"]
        /\ UNCHANGED <<step, source, day, part, got, valid, outcome>>
     \/ /\ attempt[e] + 1 = MaxRetries
        /\ EndSource(e, "failed")
  /\ UNCHANGED <<today, landing>>

(* JobSpy finds nothing for a role, or one of the errors it expects.        *)
RoleSkipped(e) ==
  /\ step[e] = "fetch" /\ source[e] = "jobspy"
  /\ NextPart(e)
  /\ response' = [response EXCEPT ![e] = "empty"]
  /\ UNCHANGED <<today, landing, source, day, got, valid, outcome>>

--------------------------------------------------------------------------------
(* upload_blob(overwrite=True): the storage replaces that day's file.       *)
Store(e, d) ==
  /\ landing' = [landing EXCEPT ![source[e]][d] = [by |-> e, parts |-> got[e]]]
  /\ step' = [step EXCEPT ![e] = "stored"]
  /\ UNCHANGED <<today, source, day, fetchVars, outcome>>

(* Variant: no check that any record is valid.                              *)
LandX(e) == step[e] = "land" /\ Store(e, day[e][source[e]])

(* Variant: the path is made from the date of the upload.                   *)
LandY(e) == step[e] = "land" /\ valid[e] /\ Store(e, today)

(* At least one record is valid: all that Adzuna sent, or what validation   *)
(* made of JobSpy's records, is stored under the day the run began on.      *)
Land(e) == step[e] = "land" /\ valid[e] /\ Store(e, day[e][source[e]])

(* The answer to the upload arrives, and the source has ended well.         *)
UploadReturns(e) ==
  /\ step[e] = "stored"
  /\ EndSource(e, "landed")
  /\ UNCHANGED <<today, landing>>

(* Not one record is valid: the run raises and lands nothing.               *)
NoValidRecord(e) ==
  /\ step[e] = "land" /\ ~valid[e]
  /\ EndSource(e, "failed")
  /\ UNCHANGED <<today, landing>>

(* The container is stopped, between the upload and its answer too.         *)
Killed(e) ==
  /\ step[e] \in AtSource
  /\ step' = [step EXCEPT ![e] = "killed"]
  /\ UNCHANGED <<today, landing, source, day, fetchVars, outcome>>

Midnight ==
  /\ today < MaxDay
  /\ today' = today + 1
  /\ UNCHANGED <<landing, step, source, day, fetchVars, outcome>>

(* What the code does with whatever answer comes.                           *)
Work(e) ==
  \/ Records(e) \/ EmptyPage(e) \/ Retryable(e) \/ RequestRaises(e)
  \/ RoleSkipped(e) \/ NoValidRecord(e) \/ Land(e) \/ UploadReturns(e)

Finished == (\A e \in Executions : step[e] \in Over) /\ UNCHANGED vars

Next ==
  \/ Midnight
  \/ \E e \in Executions : Start(e) \/ Work(e) \/ SourceRaises(e) \/ Killed(e)
  \/ Finished

Spec == Init /\ [][Next]_vars

(* Every request is answered or times out, every scrape returns or raises.  *)
Fairness == \A e \in Executions : WF_vars(Work(e))

FairSpec == Spec /\ Fairness

--------------------------------------------------------------------------------
(* Each source is isolated (ingestion/__init__.py:14-17): an execution that *)
(* exits has run both to their ends, and each that did well has a file under *)
(* the day it began on, however the other one fared.                        *)
SourcesIsolated ==
  \A e \in Executions : step[e] = "exited" =>
    \A s \in Sources :
      /\ outcome[e][s] # "none"
      /\ outcome[e][s] = "landed" => landing[s][day[e][s]] # NoFile

(* Execution e got as far as the upload of source s, or past it.            *)
PastFetch(e, s) ==
  outcome[e][s] # "none" \/ (source[e] = s /\ step[e] \in {"stored", "killed"})

(* Every file in the landing zone has records, not more parts than there    *)
(* are to ask for, and lies under the day on which the run of the source    *)
(* that stored it began: an answer without records never replaces a day's   *)
(* file, and what a run is still fetching is nowhere to be read.  It says   *)
(* neither that the file is whole (a page refused to the last try ends the  *)
(* paging in silence) nor that its run ended well (the answer to the upload *)
(* may be lost, or the container stopped before it).                        *)
FilesAreGood ==
  \A s \in Sources, d \in Days : landing[s][d] # NoFile =>
    /\ landing[s][d].parts \in 1 .. Parts(s)
    /\ day[landing[s][d].by][s] = d
    /\ PastFetch(landing[s][d].by, s)

(* Whoever stops, fails or overlaps, a file only changes by the upload of a *)
(* run of its own source that has a valid record and began on its own day,  *)
(* past midnight too: running a bad day again touches nothing else          *)
(* (storage.py:51-54), and a run with nothing valid touches nothing.        *)
OnlyItsOwnDay ==
  [][\A s \in Sources, d \in Days : landing'[s][d] # landing[s][d] =>
       \E e \in Executions : /\ step[e] = "land" /\ valid[e]
                             /\ source[e] = s /\ day[e][s] = d
                             /\ landing'[s][d].by = e]_vars

(* The pages of a fetch have no hole: a page is only asked for when every   *)
(* page before it has brought records.                                      *)
NoPageSkipped ==
  \A e \in Executions : step[e] = "fetch" /\ source[e] = "adzuna" =>
    got[e] = part[e] - 1

(* An execution that has started ends by itself, whatever the sources       *)
(* answer.                                                                  *)
ExecutionEnds == \A e \in Executions : step[e] = "fetch" ~> step[e] \in Over

--------------------------------------------------------------------------------
(* "Non-2xx raises." (adzuna/ingest.py:40): fetch_raw returns, and paging   *)
(* stops, only on an answer that was a success.                             *)
NonOkRaises ==
  \A e \in Executions : step[e] = "land" /\ source[e] = "adzuna" =>
    response[e] \in {"records", "empty"}
================================================================================
