------------------------------ MODULE MCMartBuild ------------------------------
(* An instance of MartBuild for TLC.                                        *)
EXTENDS MartBuild, TLC

CONSTANTS j1, j2

(* An Adzuna posting with half a coordinate and a stated salary.            *)
Adzuna ==
  [description |-> "text", title |-> "words", contract_type_from_title |-> "part_time",
   latitude |-> 523700000, longitude |-> Null,
   salary_min |-> 4999950, salary_max |-> Null, salary_is_predicted |-> "false",
   category_tag |-> Null, role |-> Null]

(* A JobSpy posting with a yearly salary: nobody says who stated it.        *)
JobSpy == [Adzuna EXCEPT !.latitude = Null, !.salary_max = 6000000,
                         !.salary_is_predicted = Null]

(* A posting without a title, and one whose title is cleaned away.          *)
Untitled == [Adzuna EXCEPT !.title = Null]
Noise == [Adzuna EXCEPT !.title = "noise"]

MCPostings == {j1 :> Adzuna @@ j2 :> Adzuna, j1 :> Adzuna @@ j2 :> JobSpy,
               j1 :> Untitled @@ j2 :> Noise}

(* --full-refresh comes with --select of the attributes, as the DAG's       *)
(* description has it.                                                      *)
MCNext ==
  \/ LandingMoves \/ BuildStep \/ ExtractionFails \/ BuildDies
  \/ \E refresh \in BOOLEAN : StartDbt(refresh, refresh)

MCSpec == BuildInit /\ [][MCNext]_allVars /\ BuildFairness
================================================================================
