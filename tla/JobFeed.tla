--------------------------------- MODULE JobFeed ---------------------------------
(****************************************************************************)
(* The jobs page: a list that grows page by page while a publish may        *)
(* replace the table it is read from.                                       *)
(*                                                                          *)
(* The server renders page 0 (app/jobs/page.tsx): the backend reads the     *)
(* items and then, in another statement, the count (JobService.findJobs).   *)
(* The feed in the browser (job-feed.tsx) asks for the pages after it, when *)
(* its end is scrolled into view or a button is clicked; both call loadMore *)
(* of the last render.  A search loads the whole page again; choosing a job *)
(* renders it on the server and keeps the state of the feed.                *)
(*                                                                          *)
(* A filter is fixed: mart holds the jobs that match it.                    *)
(****************************************************************************)
EXTENDS Naturals, Sequences, FiniteSets, Functions

CONSTANTS Jobs,         \* job ids
          Times,        \* bound: functions from jobs to times of creation
          Marts,        \* bound: tables that dbt may build
          PageSize,     \* JOBS_PAGE_SIZE
          Requests,     \* bound: pages asked for at once
          MaxSwaps,     \* bound: publishes
          MaxVisits,    \* bound: page loads and choices of a job
          MaxFailures   \* bound: failing requests

ASSUME PageSizeAssumption == PageSize \in Nat \ {0}
ASSUME BoundsAssumption ==
  /\ IsFiniteSet(Jobs) /\ Times \subseteq [Jobs -> Nat] /\ Marts \subseteq SUBSET Jobs
  /\ MaxSwaps \in Nat /\ MaxVisits \in Nat /\ MaxFailures \in Nat

VARIABLES
  created,     \* created[j]: when job j was published at its source
  mart,        \* jobs of analytics.fct_postings that match
  visit,       \* the rendering of the page on the server
  mounted,     \* the feed is on the page
  jobs,        \* React state: the jobs listed
  page,        \* React state: the last page
  isLoading,   \* React state
  totalPages,  \* property of the feed: pages by the last rendering
  rendered,    \* page, isLoading and totalPages in the handlers on the page
  request,     \* request[r]: a page asked for
  calm,        \* mart is what it was when the feed's first page was read
  left         \* bound: swaps, visits and failures that are left

feed == <<jobs, page, isLoading, rendered>>
vars == <<created, mart, visit, mounted, totalPages, feed, request, calm, left>>

Visit == [at : {"items", "count", "arrived", "over"}, items : Seq(Jobs), pages : Nat]
NoVisit == [at |-> "over", items |-> <<>>, pages |-> 0]
Request == [at : {"none", "sent", "answered", "failed"}, page : Nat, items : Seq(Jobs)]
NoRequest == [at |-> "none", page |-> 0, items |-> <<>>]

TypeOK ==
  /\ created \in Times /\ mart \in Marts
  /\ visit \in Visit
  /\ mounted \in BOOLEAN
  /\ jobs \in Seq(Jobs) /\ page \in Nat /\ isLoading \in BOOLEAN
  /\ totalPages \in Nat
  /\ rendered \in [page : Nat, isLoading : BOOLEAN, totalPages : Nat]
  /\ request \in [Requests -> Request]
  /\ calm \in BOOLEAN
  /\ left \in [swaps : 0 .. MaxSwaps, visits : 0 .. MaxVisits,
               failures : 0 .. MaxFailures]

Init ==
  /\ created \in Times
  /\ mart \in Marts
  /\ visit = NoVisit
  /\ mounted = FALSE
  /\ jobs = <<>> /\ page = 0 /\ isLoading = FALSE /\ totalPages = 0
  /\ rendered = [page |-> 0, isLoading |-> FALSE, totalPages |-> 0]
  /\ request = [r \in Requests |-> NoRequest]
  /\ calm = FALSE
  /\ left = [swaps |-> MaxSwaps, visits |-> MaxVisits, failures |-> MaxFailures]

--------------------------------------------------------------------------------
Newer(j) == {i \in mart : created[i] > created[j]}
AsNew(j) == {i \in mart : created[i] >= created[j]}

Smaller(a, b) == IF a < b THEN a ELSE b

(* How many jobs page p has.                                                *)
PageLength(p) ==
  LET count == Cardinality(mart) IN
  IF p * PageSize < count THEN Smaller(PageSize, count - p * PageSize) ELSE 0

(* What ORDER BY created DESC LIMIT PageSize OFFSET p * PageSize may bring. *)
(* Jobs of one time come in any order: a job can stand at the places after  *)
(* all that are newer, as far as those that are at least as new reach.      *)
FindJobs(p) ==
  {s \in Injection(1 .. PageLength(p), mart) :
     \A i \in 1 .. PageLength(p) :
       /\ Cardinality(Newer(s[i])) < p * PageSize + i
       /\ p * PageSize + i <= Cardinality(AsNew(s[i]))}

(* ceil(count / PageSize), 0 for no jobs.                                   *)
Pages(count) == (count + PageSize - 1) \div PageSize

(* A publish puts another table in place.                                   *)
MartSwap ==
  /\ left.swaps > 0
  /\ left' = [left EXCEPT !.swaps = @ - 1]
  /\ mart' \in Marts \ {mart}
  /\ calm' = FALSE
  /\ UNCHANGED <<created, visit, mounted, totalPages, feed, request>>

--------------------------------------------------------------------------------
(* The feed leaves the page, and its state and answers to come with it.     *)
Unmount ==
  /\ mounted' = FALSE
  /\ jobs' = <<>> /\ page' = 0 /\ isLoading' = FALSE /\ totalPages' = 0
  /\ rendered' = [page |-> 0, isLoading |-> FALSE, totalPages |-> 0]
  /\ request' = [r \in Requests |-> NoRequest]
  /\ calm' = FALSE

(* The page is asked for: by a search or a reload, which drops the page     *)
(* there is, or by choosing a job, which does not.                          *)
Open(drop) ==
  /\ left.visits > 0
  /\ left' = [left EXCEPT !.visits = @ - 1]
  /\ visit' = [NoVisit EXCEPT !.at = "items"]
  /\ IF drop THEN Unmount
             ELSE mounted /\ UNCHANGED <<mounted, totalPages, feed, request, calm>>
  /\ UNCHANGED <<created, mart>>

(* First statement of findJobs, for page 0.  A feed that is there does not  *)
(* look at the items.                                                       *)
ReadItems ==
  /\ visit.at = "items"
  /\ \E s \in FindJobs(0) :
       visit' = [visit EXCEPT !.at = "count", !.items = IF mounted THEN <<>> ELSE s]
  /\ calm' = (calm \/ ~mounted)
  /\ UNCHANGED <<created, mart, mounted, totalPages, feed, request, left>>

(* Second statement: whatever the table is by then.                         *)
ReadCount ==
  /\ visit.at = "count"
  /\ visit' = [visit EXCEPT !.at = "arrived", !.pages = Pages(Cardinality(mart))]
  /\ UNCHANGED <<created, mart, mounted, totalPages, feed, request, calm, left>>

(* getJobs throws, and an error page replaces the page.                     *)
VisitFails ==
  /\ visit.at \in {"items", "count"} /\ left.failures > 0
  /\ left' = [left EXCEPT !.failures = @ - 1]
  /\ visit' = NoVisit
  /\ Unmount
  /\ UNCHANGED <<created, mart>>

(* A feed that was not there starts from the items.                         *)
Mount ==
  /\ mounted' = TRUE
  /\ jobs' = visit.items /\ page' = 0 /\ isLoading' = FALSE
  /\ totalPages' = visit.pages
  /\ rendered' = [page |-> 0, isLoading |-> FALSE, totalPages |-> visit.pages]
  /\ UNCHANGED <<request, calm>>

(* The page arrives.  Without results there is no feed; a feed that is      *)
(* there keeps its state and gets the new number of pages.                  *)
Arrive ==
  /\ visit.at = "arrived"
  /\ visit' = NoVisit
  /\ \/ visit.pages = 0 /\ Unmount
     \/ visit.pages > 0 /\ ~mounted /\ Mount
     \/ /\ visit.pages > 0 /\ mounted
        /\ totalPages' = visit.pages
        /\ UNCHANGED <<mounted, feed, request, calm>>
  /\ UNCHANGED <<created, mart, left>>

--------------------------------------------------------------------------------
HasMore(view) == view.page + 1 < view.totalPages

Now == [page |-> page, isLoading |-> isLoading, totalPages |-> totalPages]

Render ==
  /\ mounted /\ rendered # Now
  /\ rendered' = Now
  /\ UNCHANGED <<created, mart, visit, mounted, totalPages, jobs, page, isLoading,
                 request, calm, left>>

(* loadMore, from the button or the observer of the last render.            *)
LoadMore(r) ==
  /\ mounted /\ request[r].at = "none"
  /\ ~rendered.isLoading /\ HasMore(rendered)
  /\ isLoading' = TRUE
  /\ request' = [request EXCEPT ![r] =
       [at |-> "sent", page |-> rendered.page + 1, items |-> <<>>]]
  /\ UNCHANGED <<created, mart, visit, mounted, totalPages, jobs, page, rendered,
                 calm, left>>

(* GET /api/jobs; of its answer only the items are used.                    *)
ServePage(r) ==
  /\ request[r].at = "sent"
  /\ \E s \in FindJobs(request[r].page) :
       request' = [request EXCEPT ![r].at = "answered", ![r].items = s]
  /\ UNCHANGED <<created, mart, visit, mounted, totalPages, feed, calm, left>>

PageFails(r) ==
  /\ request[r].at = "sent" /\ left.failures > 0
  /\ left' = [left EXCEPT !.failures = @ - 1]
  /\ request' = [request EXCEPT ![r].at = "failed"]
  /\ UNCHANGED <<created, mart, visit, mounted, totalPages, feed, calm>>

(* Variant: whatever comes is added.                                        *)
FreshX(items) == {items}

(* The items that are not listed yet, in their order: the k-th has k - 1    *)
(* before it.                                                               *)
Fresh(items) ==
  LET new == {i \in DOMAIN items : items[i] \notin Range(jobs)}
      places == {at \in [1 .. Cardinality(new) -> new] :
                   \A k \in DOMAIN at : Cardinality({i \in new : i < at[k]}) = k - 1}
  IN {[k \in DOMAIN at |-> items[at[k]]] : at \in places}

(* Variant: the page counter goes up by one for every answer.               *)
SettleX(r) ==
  /\ request[r].at \in {"answered", "failed"}
  /\ request' = [request EXCEPT ![r] = NoRequest]
  /\ isLoading' = FALSE
  /\ IF request[r].at = "answered"
       THEN /\ \E new \in Fresh(request[r].items) : jobs' = jobs \o new
            /\ page' = page + 1
       ELSE UNCHANGED <<jobs, page>>
  /\ UNCHANGED <<created, mart, visit, mounted, totalPages, rendered, calm, left>>

(* Variant: isLoading is reset on success only.                             *)
SettleY(r) ==
  /\ request[r].at \in {"answered", "failed"}
  /\ request' = [request EXCEPT ![r] = NoRequest]
  /\ IF request[r].at = "answered"
       THEN /\ \E new \in Fresh(request[r].items) : jobs' = jobs \o new
            /\ page' = request[r].page
            /\ isLoading' = FALSE
       ELSE UNCHANGED <<jobs, page, isLoading>>
  /\ UNCHANGED <<created, mart, visit, mounted, totalPages, rendered, calm, left>>

(* Back in loadMore.                                                        *)
Settle(r) ==
  /\ request[r].at \in {"answered", "failed"}
  /\ request' = [request EXCEPT ![r] = NoRequest]
  /\ isLoading' = FALSE
  /\ IF request[r].at = "answered"
       THEN /\ \E new \in Fresh(request[r].items) : jobs' = jobs \o new
            /\ page' = request[r].page
       ELSE UNCHANGED <<jobs, page>>
  /\ UNCHANGED <<created, mart, visit, mounted, totalPages, rendered, calm, left>>

--------------------------------------------------------------------------------
(* The server answers and the browser goes on.                              *)
Rendering == ReadItems \/ ReadCount \/ Arrive \/ Render
Fetching(r) == ServePage(r) \/ Settle(r)

Next ==
  \/ MartSwap
  \/ \E drop \in BOOLEAN : Open(drop)
  \/ Rendering \/ VisitFails
  \/ \E r \in Requests : LoadMore(r) \/ Fetching(r) \/ PageFails(r)

Spec == Init /\ [][Next]_vars

(* Requests are answered or fail, React renders, and the end of the list is *)
(* in view: every render observes it anew, and loads if there is more.      *)
Fairness ==
  /\ WF_vars(Rendering)
  /\ \A r \in Requests : WF_vars(Fetching(r))
  /\ WF_vars(\E r \in Requests : LoadMore(r))

FairSpec == Spec /\ Fairness

--------------------------------------------------------------------------------
(* No job is listed twice (job-results.tsx:31, where its id is the key),    *)
(* whatever was published between two pages, however ties are ordered, and  *)
(* when one page was asked for twice.                                       *)
NoJobTwice == \A i, k \in DOMAIN jobs : jobs[i] = jobs[k] => i = k

Ties == \E i, j \in mart : i # j /\ created[i] = created[j]

(* "Returns jobs ordered by publication date, newest first"                 *)
(* (JobController.java:25): the list is the newest jobs of the mart, in     *)
(* order and without a gap, as many as the pages it has, and at its end     *)
(* "That's every job we have right now" (job-feed.tsx:111) is true.  It can *)
(* only be said of a mart that is not replaced and whose jobs have          *)
(* different times.                                                         *)
NewestFirst ==
  mounted /\ calm /\ ~Ties =>
    /\ \A i, k \in DOMAIN jobs : i < k => created[jobs[i]] > created[jobs[k]]
    /\ \A i \in DOMAIN jobs, j \in mart :
         created[j] > created[jobs[i]] => j \in Range(jobs)
    /\ Len(jobs) >= Smaller((page + 1) * PageSize, Cardinality(mart))
    /\ ~isLoading /\ ~HasMore(Now) => Range(jobs) = mart

(* A feed whose end stays in view gets to the last page, through failures   *)
(* that stop some time.                                                     *)
FeedEnds == mounted ~> (~mounted \/ (~isLoading /\ ~HasMore(Now)))
================================================================================
