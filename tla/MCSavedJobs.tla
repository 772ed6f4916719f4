------------------------------ MODULE MCSavedJobs ------------------------------
(* An instance of SavedJobs for TLC: the same site in two surroundings.     *)
(* Calm, a tab is alone with its account and patient with each heart; it    *)
(* clicks when nothing that concerns the heart is under way, logs out when  *)
(* no request is, and leaves the page when it likes; the list can be loaded *)
(* and no answer is lost.  Otherwise everything goes, within one click on   *)
(* one job.                                                                 *)
EXTENDS SavedJobs, TLC

CONSTANTS u1, u2, j1, j2

VARIABLE calm   \* the surroundings, which stay as they are

CalmNext ==
  \/ Render \/ Navigate \/ ServeLoad \/ Loaded \/ StaleLoaded \/ AuthStep
  \/ AskLogout /\ \A j \in Jobs : ~Busy(j)
  \/ \E c \in Clicks : Request(c)
  \/ \E c \in Clicks, j \in Jobs :
       ClickHeart(c, j) /\ ~Busy(j) /\ AtRest /\ rendered = [user |-> user, saved |-> saved]
  \/ \E u \in Users : AskLogin(u)

(* The races need one job, one click and one page; what else there is stays *)
(* as it is.                                                                *)
OneJob ==
  /\ moves = 0
  /\ \A u \in Users : rows[u] \subseteq {j1}
  /\ Jobs \ {j1} \subseteq mart
  /\ \A c \in Clicks : click[c].at # "unused" => c = 1 /\ click[c].job = j1

(* Calm, it is enough that the second user begins with nothing saved.       *)
MCInit ==
  /\ Init /\ calm \in BOOLEAN
  /\ IF calm THEN rows[u2] = {} ELSE OneJob

MCNext ==
  /\ \/ calm /\ CalmNext
     \/ ~calm /\ Next /\ OneJob'
  /\ UNCHANGED calm

MCSpec == MCInit /\ [][MCNext]_<<vars, calm>> /\ Fairness

(* The same surroundings, wherever they begin.                              *)
SiteSpec == Init /\ calm \in BOOLEAN /\ [][MCNext]_<<vars, calm>>

(* A tab that is alone with its account shows the hearts of its rows, as    *)
(* HeartsTellTheTruth has it, while others fail and overtake each other.    *)
CalmHeartsTellTheTruth == calm => HeartsTellTheTruth
================================================================================
