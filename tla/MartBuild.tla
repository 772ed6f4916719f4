------------------------------- MODULE MartBuild -------------------------------
(****************************************************************************)
(* A dbt build of the project, from the landing zone to the two marts: the  *)
(* staging views and their tests, the intermediate views and theirs, the    *)
(* extracted attributes (Extraction), fct_postings_skills and fct_postings. *)
(* dbt skips a model when something it depends on has failed, and the build *)
(* is red then.  Everything but the marts and the attributes is a view: it  *)
(* reads the landing zone whenever it is read, and files land and are       *)
(* overwritten under the build.                                             *)
(*                                                                          *)
(* A build can be asked for the attributes only, with --full-refresh or     *)
(* without.  One build works at a time: the project lock is Pipeline's      *)
(* subject.  What a posting holds is fixed for a behaviour.                 *)
(****************************************************************************)
EXTENDS Extraction, Transforms

CONSTANTS Postings   \* what the postings may hold: functions from Jobs to Posting

ASSUME PostingsAssumption ==
  \A p \in Postings : /\ p \in [Jobs -> Posting]
                      /\ Blank = {j \in Jobs : p[j].description # "text"}

VARIABLES
  stage,      \* what the build is doing
  only,       \* the build is for the attributes only
  viewTests,  \* the tests of the intermediate views
  nodes,      \* the steps left for the marts
  broken,     \* a test of a mart failed
  fct,        \* fct_postings: j's attributes, Null for none, or NoRow
  skills,     \* fct_postings_skills: whose skills j's rows are, or NoRow
  verdict,    \* how the last build of everything ended
  posting     \* posting[j]: the columns of job j

build == <<stage, only, viewTests, nodes, broken>>
marts == <<fct, skills>>
allVars == <<vars, build, marts, verdict, posting>>

BuildTypeOK ==
  /\ TypeOK
  /\ stage \in {"idle", "staging", "extract", "marts"}
  /\ only \in BOOLEAN /\ broken \in BOOLEAN
  /\ viewTests \in {"due", "pass", "fail"}
  /\ nodes \subseteq {"fct", "skills"}
  /\ fct \in [Jobs -> Attributes \cup {Null, NoRow}]
  /\ skills \in [Jobs -> Jobs \cup {NoRow}]
  /\ verdict \in {"none", "green", "red"} /\ posting \in Postings

BuildInit ==
  /\ Init
  /\ stage = "idle" /\ only = FALSE
  /\ viewTests = "due" /\ nodes = {} /\ broken = FALSE
  /\ fct = [j \in Jobs |-> NoRow] /\ skills = [j \in Jobs |-> NoRow]
  /\ verdict = "none" /\ posting \in Postings

--------------------------------------------------------------------------------
LandingMoves ==
  /\ \E j \in Jobs : Land(j) \/ Overwrite(j)
  /\ UNCHANGED <<build, marts, verdict, posting>>

(* dbt build, of everything or --select int_postings_extracted_attributes.  *)
StartDbt(part, refresh) ==
  /\ stage = "idle"
  /\ StartBuild(refresh)
  /\ stage' = IF part THEN "extract" ELSE "staging"
  /\ only' = part /\ nodes' = IF part THEN {} ELSE {"fct", "skills"}
  /\ UNCHANGED <<viewTests, broken, marts, verdict, posting>>

EndBuild(color) ==
  /\ stage' = "idle" /\ only' = FALSE
  /\ viewTests' = "due" /\ nodes' = {} /\ broken' = FALSE
  /\ verdict' = IF only THEN verdict ELSE color
  /\ UNCHANGED <<marts, posting>>

(* Everything depends on the staging views.                                 *)
TestStaging ==
  /\ stage = "staging"
  /\ \/ /\ \A j \in landing : PassesStagingTests(posting[j])
        /\ stage' = "extract"
        /\ UNCHANGED <<vars, only, viewTests, nodes, broken, marts, verdict, posting>>
     \/ /\ \E j \in landing : ~PassesStagingTests(posting[j])
        /\ Leave("idle") /\ EndBuild("red")
        /\ UNCHANGED <<landing, table, exists, counts>>

(* The intermediate views, beside the extraction or after it.               *)
TestViews ==
  /\ stage \in {"extract", "marts"} /\ ~only /\ viewTests = "due"
  /\ viewTests' = IF \A j \in landing : PassesViewTests(posting[j]) THEN "pass" ELSE "fail"
  /\ UNCHANGED <<vars, stage, only, nodes, broken, marts, verdict, posting>>

Extract ==
  /\ stage = "extract"
  /\ Collect \/ Answer \/ Refused
  /\ UNCHANGED <<build, marts, verdict, posting>>

MergeRows ==
  /\ stage = "extract" /\ Merge
  /\ IF only THEN EndBuild("green")
     ELSE stage' = "marts" /\ UNCHANGED <<only, viewTests, nodes, broken, marts, verdict, posting>>

(* Both marts depend on the attributes.                                     *)
ExtractionFails ==
  /\ stage = "extract" /\ Raises
  /\ EndBuild("red")

(* fct_postings_skills joins the postings of now with the attributes; the   *)
(* default attributes have no skills.                                       *)
WriteSkills ==
  /\ stage = "marts" /\ "skills" \in nodes
  /\ skills' = [j \in Jobs |-> IF j \in landing /\ table[j] \in Jobs THEN table[j] ELSE NoRow]
  /\ nodes' = nodes \ {"skills"}
  /\ UNCHANGED <<vars, stage, only, viewTests, broken, fct, verdict, posting>>

(* Variant: no test that every row has a title.                             *)
WriteFctX ==
  /\ stage = "marts" /\ "fct" \in nodes /\ viewTests = "pass"
  /\ fct' = [j \in Jobs |-> IF j \notin landing THEN NoRow
                            ELSE IF table[j] = NoRow THEN Null ELSE table[j]]
  /\ broken' = (landing = {})
  /\ nodes' = nodes \ {"fct"}
  /\ UNCHANGED <<vars, stage, only, viewTests, skills, verdict, posting>>

(* fct_postings: every posting of now, with attributes if there are any;    *)
(* then its tests: it is not empty, and every row has a title.              *)
WriteFct ==
  /\ stage = "marts" /\ "fct" \in nodes /\ viewTests = "pass"
  /\ fct' = [j \in Jobs |-> IF j \notin landing THEN NoRow
                            ELSE IF table[j] = NoRow THEN Null ELSE table[j]]
  /\ broken' = (landing = {} \/ \E j \in landing : ~HasTitle(posting[j]))
  /\ nodes' = nodes \ {"fct"}
  /\ UNCHANGED <<vars, stage, only, viewTests, skills, verdict, posting>>

(* fct_postings is skipped when a view failed its tests.                    *)
Finish ==
  /\ stage = "marts" /\ viewTests # "due"
  /\ nodes = IF viewTests = "fail" THEN {"fct"} ELSE {}
  /\ EndBuild(IF viewTests = "fail" \/ broken THEN "red" ELSE "green")
  /\ UNCHANGED vars

(* The warehouse or dbt itself fails between two steps.                     *)
BuildDies ==
  /\ stage = "marts" /\ errors < MaxErrors
  /\ errors' = errors + 1
  /\ EndBuild("red")
  /\ UNCHANGED <<landing, table, exists, model, removed, refreshes>>

--------------------------------------------------------------------------------
BuildStep ==
  \/ TestStaging \/ TestViews \/ Extract \/ MergeRows
  \/ WriteSkills \/ WriteFct \/ Finish

BuildNext ==
  \/ LandingMoves \/ BuildStep \/ ExtractionFails \/ BuildDies
  \/ \E part, refresh \in BOOLEAN : StartDbt(part, refresh)

BuildSpec == BuildInit /\ [][BuildNext]_allVars

(* Every day has its build of everything; every call is answered or times   *)
(* out, and the first call of a build is not refused for ever.              *)
BuildFairness ==
  /\ SF_allVars(StartDbt(FALSE, FALSE))
  /\ WF_allVars(BuildStep)
  /\ SF_allVars(start = 0 /\ Answer /\ Extract)

FairBuildSpec == BuildSpec /\ BuildFairness

--------------------------------------------------------------------------------
(* After a green build the marts agree: where both have rows of a posting,  *)
(* these are of the same extraction, and what the backend lists has a       *)
(* title; though the two are written one after the other, from views that   *)
(* have moved since they were tested, and a build that failed may have      *)
(* replaced one of them.                                                    *)
MartsAgree ==
  verdict = "green" /\ stage # "marts" =>
    \A j \in Jobs : fct[j] # NoRow =>
      /\ HasTitle(posting[j])
      /\ skills[j] # NoRow => skills[j] = fct[j]

(* Once files have stopped landing, every posting gets to the mart and its  *)
(* attributes with it, though every build may be refused after its first    *)
(* batch: unless some posting keeps failing a test.                         *)
Fine(j) ==
  /\ PassesStagingTests(posting[j]) /\ PassesViewTests(posting[j])
  /\ HasTitle(posting[j])

PostingsReachTheMart ==
  <>[][FALSE]_landing /\ <>[](\A j \in landing : Fine(j)) =>
  <>[](\A j \in landing : IF j \in Blank THEN fct[j] = Null ELSE fct[j] \in Attributes)
================================================================================
