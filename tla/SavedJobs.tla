------------------------------- MODULE SavedJobs -------------------------------
(****************************************************************************)
(* Saving jobs, from the heart in the browser to the row in the database.   *)
(*                                                                          *)
(* Browser (saved-jobs-provider.tsx, auth.ts): one tab keeps the current    *)
(* user and the set of saved ids in React state.  A click flips the heart   *)
(* at once, fetches a CSRF token, sends the POST or DELETE, and flips the   *)
(* heart again if that fails.  A change of the user object starts a load of *)
(* the list, which replaces the set when it arrives.  The set belongs to a  *)
(* page: another page begins with an empty one and a load of its own, while *)
(* the clicks of the page before are still under way.  State set in a       *)
(* callback shows in the handlers only after the next render.               *)
(*                                                                          *)
(* Backend (SavedJobService, SavedJobRepository): one row per user and job; *)
(* saving asks that the job is in the mart, deleting that the row exists,   *)
(* and the list is a join with the mart, which a publish may swap at any    *)
(* time.  A request is one step: it asks and writes in two statements, but  *)
(* the write is ON CONFLICT DO NOTHING or a DELETE, and a job that a swap   *)
(* takes away in between is a row all the same.                             *)
(*                                                                          *)
(* Every login and logout gives the browser another session id and   *)
(* another CSRF token; the model counts both together.                      *)
(****************************************************************************)
EXTENDS Naturals

CONSTANTS Users, Jobs,
          None,         \* nobody is logged in
          MaxClicks,    \* bound: clicks on a heart
          MaxMoves,     \* bound: changes of the page
          MaxSessions   \* bound: logins and logouts

ASSUME NoneAssumption == None \notin Users
ASSUME BoundsAssumption ==
  MaxClicks \in Nat /\ MaxMoves \in Nat /\ MaxSessions \in Nat

VARIABLES
  rows,      \* rows[u]: app.saved_jobs of user u
  mart,      \* job ids in analytics.fct_postings
  session,   \* whom the browser's session cookie stands for
  sid,       \* number of that session, and of its CSRF token
  user,      \* React state: the current user
  saved,     \* React state: savedJobIds
  rendered,  \* user and saved as the handlers of the last render see them
  newUser,   \* the user object was set and its effect has not run yet
  moves,     \* changes of the page so far
  left,      \* the clicks that were under way when this page was opened
  load,      \* the GET of the list that is not stale
  stale,     \* an earlier one is under way, whose effect was cleaned up
  auth,      \* the login or logout under way in this tab
  click      \* click[c]: the c-th click on a heart and its request

server == <<rows, mart>>
cookie == <<session, sid>>
page == <<moves, left>>
react == <<user, saved, rendered, newUser, page>>
loads == <<load, stale>>
vars == <<server, cookie, react, loads, auth, click>>

Clicks == 1 .. MaxClicks
InFlight == {"csrf", "send", "ok", "fail"}

(* owner is whom the token was issued to, token its session's number.       *)
Click == [at : InFlight \cup {"unused", "done"}, job : Jobs, save : BOOLEAN,
          token : 0 .. MaxSessions, owner : Users \cup {None}]

Load == [at : {"none", "sent", "failed", "answered"}, sid : 0 .. MaxSessions,
         ids : SUBSET Jobs]
NoLoad == [at |-> "none", sid |-> 0, ids |-> {}]

(* who is whom a login is for.                                              *)
Auth == [at : {"none", "login", "loggedIn", "logout", "loggedOut"},
         who : Users \cup {None}]
Idle == [at |-> "none", who |-> None]

TypeOK ==
  /\ rows \in [Users -> SUBSET Jobs] /\ mart \in SUBSET Jobs
  /\ session \in Users \cup {None} /\ sid \in 0 .. MaxSessions
  /\ user \in Users \cup {None} /\ saved \in SUBSET Jobs
  /\ rendered \in [user : Users \cup {None}, saved : SUBSET Jobs]
  /\ newUser \in BOOLEAN
  /\ moves \in 0 .. MaxMoves /\ left \subseteq Clicks
  /\ load \in Load /\ stale \in BOOLEAN
  /\ auth \in Auth
  /\ click \in [Clicks -> Click]

Init ==
  /\ rows \in [Users -> SUBSET Jobs] /\ mart = Jobs
  /\ session = None /\ sid = 0
  /\ user = None /\ saved = {}
  /\ rendered = [user |-> None, saved |-> {}]
  /\ newUser = FALSE
  /\ moves = 0 /\ left = {}
  /\ load = NoLoad /\ stale = FALSE
  /\ auth = Idle
  /\ \E j \in Jobs : click = [c \in Clicks |->
       [at |-> "unused", job |-> j, save |-> TRUE, token |-> 0, owner |-> None]]

--------------------------------------------------------------------------------
(* applyToggle, on the latest set and not on the rendered one.              *)
Toggle(ids, j) == IF j \in ids THEN ids \ {j} ELSE ids \cup {j}

(* A state update: handlers see it after the next render.                   *)
SetSaved(ids) == saved' = ids /\ UNCHANGED <<user, rendered, newUser, page>>

SetUser(u) ==
  /\ user' = u
  /\ newUser' = (newUser \/ u # None \/ user # None)
  /\ UNCHANGED <<saved, rendered, page>>

(* The effect of the provider: its last load becomes stale; logged out, the *)
(* set is emptied, otherwise the list is asked for.                         *)
Effect ==
  /\ load' = IF user = None THEN NoLoad
             ELSE [at |-> "sent", sid |-> sid, ids |-> {}]
  /\ stale' = (stale \/ load.at # "none")

(* React renders, and runs the effect if the user object is another one.    *)
Render ==
  /\ newUser \/ rendered # [user |-> user, saved |-> saved]
  /\ rendered' = [user |-> user, saved |-> saved]
  /\ newUser' = FALSE
  /\ saved' = IF newUser /\ user = None THEN {} ELSE saved
  /\ IF newUser THEN Effect ELSE UNCHANGED loads
  /\ UNCHANGED <<server, cookie, user, page, auth, click>>

(* A link to another page of jobs: each has a provider of its own, which    *)
(* begins with nothing saved and runs its effect.  The clicks of the page   *)
(* before go on, but they no longer have a heart to flip.                   *)
Navigate ==
  /\ moves < MaxMoves
  /\ moves' = moves + 1
  /\ left' = {c \in Clicks : click[c].at \in InFlight}
  /\ saved' = {}
  /\ rendered' = [user |-> user, saved |-> {}]
  /\ newUser' = FALSE
  /\ Effect
  /\ UNCHANGED <<server, cookie, user, auth, click>>

(* GET /api/saved-jobs: the rows whose job is in the mart; 401 if the       *)
(* session it was sent in is over.                                          *)
ServeLoad ==
  /\ load.at = "sent"
  /\ load' = IF load.sid = sid /\ session # None
             THEN [load EXCEPT !.at = "answered", !.ids = rows[session] \cap mart]
             ELSE [load EXCEPT !.at = "failed"]
  /\ UNCHANGED <<server, cookie, react, stale, auth, click>>

LoadUnreachable ==
  /\ load.at \in {"sent", "answered"}
  /\ load' = [load EXCEPT !.at = "failed", !.ids = {}]
  /\ UNCHANGED <<server, cookie, react, stale, auth, click>>

(* Variant: nothing catches the error of a failed load.                     *)
LoadedY ==
  /\ load.at = "answered"
  /\ SetSaved(load.ids)
  /\ load' = NoLoad
  /\ UNCHANGED <<server, cookie, stale, auth, click>>

(* The list replaces the set; a failed load empties it.                     *)
Loaded ==
  /\ load.at \in {"answered", "failed"}
  /\ SetSaved(IF load.at = "answered" THEN load.ids ELSE {})
  /\ load' = NoLoad
  /\ UNCHANGED <<server, cookie, stale, auth, click>>

(* Variant: what a stale load brings is shown like any other.               *)
StaleLoadedX ==
  /\ stale
  /\ stale' = FALSE
  /\ \E ids \in SUBSET Jobs : SetSaved(ids)
  /\ UNCHANGED <<server, cookie, load, auth, click>>

(* Whatever stale loads bring, rows of then or of another user, is dropped. *)
StaleLoaded ==
  /\ stale
  /\ stale' = FALSE
  /\ UNCHANGED <<server, cookie, react, load, auth, click>>

--------------------------------------------------------------------------------
(* A click on the heart of job j, when the page shows somebody logged in:   *)
(* the request is chosen by the rendered set, the flip is made on the       *)
(* latest one.  React renders before the next click.                        *)
ClickHeart(c, j) ==
  /\ click[c].at = "unused"
  /\ \A b \in Clicks : b < c => click[b].at # "unused"
  /\ rendered.user # None
  /\ click' = [click EXCEPT ![c] = [at |-> "csrf", job |-> j,
                                    save |-> j \notin rendered.saved,
                                    token |-> 0, owner |-> None]]
  /\ saved' = Toggle(saved, j)
  /\ rendered' = [user |-> user, saved |-> saved']
  /\ UNCHANGED <<server, cookie, user, newUser, page, loads, auth>>

(* sendJson fetches the token of whatever session there is by then.         *)
FetchCsrf(c) ==
  /\ click[c].at = "csrf"
  /\ click' = [click EXCEPT ![c].at = "send", ![c].token = sid,
                            ![c].owner = session]
  /\ UNCHANGED <<server, cookie, react, loads, auth>>

(* Variant: no CSRF check, the cookie alone decides.                        *)
AcceptedX(c) == session # None

(* Spring Security lets the request through: the token belongs to the       *)
(* session and somebody is logged in.                                       *)
Accepted(c) == click[c].token = sid /\ session # None

(* 404 for a job that is not in the mart, or a row that is not there.       *)
Works(c) ==
  IF click[c].save THEN click[c].job \in mart
                   ELSE click[c].job \in rows[session]

(* save inserts the row if it is new, deleteSavedJob deletes it.            *)
Apply(c) ==
  rows' = [rows EXCEPT ![session] =
             IF click[c].save THEN @ \cup {click[c].job} ELSE @ \ {click[c].job}]

(* The backend handles the request.                                         *)
Serve(c) ==
  /\ click[c].at = "send"
  /\ \/ /\ Accepted(c) /\ Works(c)
        /\ Apply(c)
        /\ click' = [click EXCEPT ![c].at = "ok"]
     \/ /\ ~(Accepted(c) /\ Works(c))
        /\ click' = [click EXCEPT ![c].at = "fail"]
        /\ UNCHANGED rows
  /\ UNCHANGED <<mart, cookie, react, loads, auth>>

(* The token or the request does not get through.                           *)
RequestLost(c) ==
  /\ click[c].at \in {"csrf", "send"}
  /\ click' = [click EXCEPT ![c].at = "fail"]
  /\ UNCHANGED <<server, cookie, react, loads, auth>>

(* The backend has done its work but the answer does not get through.       *)
AnswerLost(c) ==
  /\ click[c].at = "ok"
  /\ click' = [click EXCEPT ![c].at = "fail"]
  /\ UNCHANGED <<server, cookie, react, loads, auth>>

(* Back in toggleSaved: after a failure the heart is flipped again, if its  *)
(* page is still there.                                                     *)
Settle(c) ==
  /\ click[c].at \in {"ok", "fail"}
  /\ click' = [click EXCEPT ![c].at = "done"]
  /\ IF click[c].at = "fail" /\ c \notin left
     THEN SetSaved(Toggle(saved, click[c].job)) ELSE UNCHANGED react
  /\ UNCHANGED <<server, cookie, loads, auth>>

--------------------------------------------------------------------------------
(* Login and logout in this tab: the server first, then the React state. A  *)
(* failed logout logs out locally all the same.                             *)
AskLogin(u) ==
  /\ auth = Idle /\ user = None /\ ~newUser
  /\ auth' = [at |-> "login", who |-> u]
  /\ UNCHANGED <<server, cookie, react, loads, click>>

ServeLogin(u) ==
  /\ auth = [at |-> "login", who |-> u] /\ sid < MaxSessions
  /\ session' = u /\ sid' = sid + 1
  /\ auth' = [at |-> "loggedIn", who |-> u]
  /\ UNCHANGED <<server, react, loads, click>>

LoginFails(u) ==
  /\ auth \in {[at |-> "login", who |-> u], [at |-> "loggedIn", who |-> u]}
  /\ auth' = Idle
  /\ UNCHANGED <<server, cookie, react, loads, click>>

LoggedIn(u) ==
  /\ auth = [at |-> "loggedIn", who |-> u]
  /\ SetUser(u)
  /\ auth' = Idle
  /\ UNCHANGED <<server, cookie, loads, click>>

AskLogout ==
  /\ auth = Idle /\ rendered.user # None
  /\ auth' = [at |-> "logout", who |-> None]
  /\ UNCHANGED <<server, cookie, react, loads, click>>

ServeLogout ==
  /\ auth.at = "logout"
  /\ \/ /\ sid < MaxSessions
        /\ session' = None /\ sid' = sid + 1
     \/ UNCHANGED cookie
  /\ auth' = [at |-> "loggedOut", who |-> None]
  /\ UNCHANGED <<server, react, loads, click>>

LoggedOut ==
  /\ auth.at = "loggedOut"
  /\ SetUser(None)
  /\ auth' = Idle
  /\ UNCHANGED <<server, cookie, loads, click>>

(* What this tab does not see: the session expires or another tab uses the  *)
(* cookie, the user saves or unsaves on another device, a publish swaps the *)
(* mart.                                                                    *)
SessionChanges(u) ==
  /\ sid < MaxSessions
  /\ session' = u /\ sid' = sid + 1
  /\ UNCHANGED <<server, react, loads, auth, click>>

OtherDevice(u, j) ==
  /\ rows' = [rows EXCEPT ![u] = Toggle(@, j)]
  /\ UNCHANGED <<mart, cookie, react, loads, auth, click>>

MartSwap ==
  /\ mart' \in SUBSET Jobs
  /\ UNCHANGED <<rows, cookie, react, loads, auth, click>>

--------------------------------------------------------------------------------
Request(c) == FetchCsrf(c) \/ Serve(c) \/ RequestLost(c) \/ Settle(c)

LoadStep == ServeLoad \/ LoadUnreachable \/ Loaded

AuthStep ==
  \/ ServeLogout \/ LoggedOut
  \/ \E u \in Users : ServeLogin(u) \/ LoginFails(u) \/ LoggedIn(u)

Next ==
  \/ Render \/ Navigate \/ LoadStep \/ StaleLoaded
  \/ AuthStep \/ AskLogout \/ MartSwap
  \/ \E c \in Clicks : \/ Request(c) \/ AnswerLost(c)
                       \/ \E j \in Jobs : ClickHeart(c, j)
  \/ \E u \in Users : \/ AskLogin(u)
                      \/ \E j \in Jobs : OtherDevice(u, j)
  \/ \E u \in Users \cup {None} : SessionChanges(u)

Spec == Init /\ [][Next]_vars

(* React renders, and every fetch ends with an answer or an error.          *)
Fairness ==
  /\ WF_vars(Render) /\ WF_vars(LoadStep)
  /\ \A c \in Clicks : WF_vars(Request(c))

FairSpec == Spec /\ Fairness

--------------------------------------------------------------------------------
(* A request for job j is under way, of this page or another one.           *)
Busy(j) == \E c \in Clicks : click[c].at \in InFlight /\ click[c].job = j

(* A request for job j was under way when this page was opened and its list *)
(* was asked for: the list may have been read before or after it.           *)
LeftBehind(j) == \E c \in left : click[c].job = j

AtRest == load.at = "none" /\ ~newUser /\ auth = Idle

(* Every heart that is not being changed tells the truth about its row,     *)
(* though other hearts are being changed, on this page or on one that was   *)
(* left, and their requests succeed, fail and overtake each other, and the  *)
(* loads of users and pages before come late.  All but one kind: a heart    *)
(* whose own request was under way when the page was opened may be wrong    *)
(* until the next page is.  For a tab that is alone with its account, whose *)
(* list could be loaded, whose answers arrive, and that clicks a heart only *)
(* once its last request and the load are over.                             *)
HeartsTellTheTruth ==
  AtRest =>
    /\ user = None => saved = {}
    /\ user # None /\ user = session =>
         \A j \in Jobs : ~Busy(j) /\ ~LeftBehind(j) =>
           (j \in saved <=> j \in rows[user] \cap mart)

(* A request changes only rows of the user its CSRF token was issued to,    *)
(* whatever logins and logouts happen, here or in other tabs, while it is   *)
(* under way ("the token changes after login and logout", auth.ts:42-43).   *)
WritesWithinItsSession ==
  [][\A c \in Clicks : click[c].at = "send" /\ click'[c].at = "ok" =>
       \A u \in Users : rows'[u] # rows[u] => u = click[c].owner]_vars

(* No heart stays provisional: every click is settled, and every load ends. *)
ClicksSettle ==
  /\ \A c \in Clicks : click[c].at \in InFlight ~> click[c].at = "done"
  /\ load.at # "none" ~> load.at = "none"
================================================================================
