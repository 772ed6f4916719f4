----------------------------- MODULE SavedJobsProofs -----------------------------
(****************************************************************************)
(* What holds of SavedJobs for any users, jobs, clicks and sessions.        *)
(*                                                                          *)
(* Wherever logins, logouts and other tabs take the cookie, a request whose *)
(* token is that of the session was meant for the session's user            *)
(* (TokensArePast).                                                         *)
(*                                                                          *)
(* Calm, the heart of a job is not a copy of its row but a promise about    *)
(* it, and the invariant says which, at every moment of a click and of a    *)
(* load (InStep): it holds while the page is that of the session's user     *)
(* (InForce), for all jobs but those whose click was left behind by a       *)
(* change of the page.  That a login, a logout, a load and a click of this  *)
(* page never fall into one another is part of it (CalmAuth, Emptied,       *)
(* Waits).                                                                  *)
(****************************************************************************)
EXTENDS MCSavedJobs, TLAPS

Flying(c) == click[c].at \in InFlight

(* A token is never of a session to come, and one of this session was       *)
(* issued to its user.                                                      *)
TokensArePast ==
  \A c \in Clicks :
    /\ click[c].token <= sid
    /\ click[c].at = "send" /\ click[c].token = sid => click[c].owner = session

(* Whoever is shown is whom the session stands for, unless a logout has     *)
(* been through to the server only.                                         *)
CalmAuth ==
  /\ auth.at \in {"login", "loggedIn"} => user = None
  /\ auth.at = "loggedIn" => session = auth.who
  /\ user # None /\ auth.at # "loggedOut" => session = user

(* Nobody has hearts, once the page was rendered for nobody.                *)
Emptied ==
  /\ rendered.user # user => newUser
  /\ user = None /\ ~newUser => saved = {} /\ load.at = "none"

(* While a click is under way there is no login or logout, no load unless   *)
(* its page was left, and no other click on its heart.                      *)
Waits ==
  \A c \in Clicks : Flying(c) =>
    /\ auth = Idle /\ ~newUser /\ user # None
    /\ c \notin left => load.at = "none"
    /\ \A b \in Clicks : Flying(b) /\ click[b].job = click[c].job => b = c

(* What was left behind had begun.                                          *)
LeftHadBegun == \A c \in left : click[c].at # "unused"

InForce == user # None /\ ~newUser /\ auth.at # "loggedOut"

(* A click's heart is what it is to become, its row what it was until the   *)
(* request is served; the list that comes is what the rows are, and so are  *)
(* the hearts at rest.                                                      *)
LoadInStep ==
  /\ load.at # "failed"
  /\ load.at = "sent" => load.sid = sid
  /\ load.at = "answered" =>
       \A j \in Jobs : ~LeftBehind(j) => (j \in load.ids <=> j \in rows[user])

HeartInStep(c) ==
  LET j == click[c].job IN
  /\ j \in saved <=> click[c].save
  /\ j \in rows[user] <=> (click[c].save <=> click[c].at = "ok")
  /\ click[c].at = "send" => click[c].token = sid

InStep ==
  /\ LoadInStep
  /\ \A c \in Clicks : Flying(c) /\ ~LeftBehind(click[c].job) => HeartInStep(c)
  /\ load.at = "none" =>
       \A j \in Jobs : ~Busy(j) /\ ~LeftBehind(j) => (j \in saved <=> j \in rows[user])

CalmInv ==
  /\ mart = Jobs
  /\ CalmAuth /\ Emptied /\ Waits /\ LeftHadBegun
  /\ InForce => InStep

IInv == TypeOK /\ TokensArePast /\ (calm => CalmInv)

--------------------------------------------------------------------------------
(* A click that moves on keeps what it is about.                            *)
LEMMA ClickMoves ==
  ASSUME click \in [Clicks -> Click], NEW c \in Clicks,
         NEW a \in InFlight \cup {"unused", "done"}, click' = [click EXCEPT ![c].at = a]
  PROVE  /\ click' \in [Clicks -> Click] /\ click'[c].at = a
         /\ click'[c].job = click[c].job /\ click'[c].save = click[c].save
         /\ click'[c].token = click[c].token /\ click'[c].owner = click[c].owner
         /\ \A b \in Clicks : b # c => click'[b] = click[b]
<1>1. PICK m \in Click : m = click[c]
  OBVIOUS
<1> DEFINE n == [at |-> a, job |-> m.job, save |-> m.save, token |-> m.token,
                 owner |-> m.owner]
<1>2. [m EXCEPT !.at = a] = n
  <2>1. m = [at |-> m.at, job |-> m.job, save |-> m.save, token |-> m.token,
             owner |-> m.owner]
    BY DEF Click
  <2>2. [[at |-> m.at, job |-> m.job, save |-> m.save, token |-> m.token,
          owner |-> m.owner] EXCEPT !.at = a] = n
    OBVIOUS
  <2> QED BY <2>1, <2>2
<1>3. click' = [click EXCEPT ![c] = n]
  BY <1>1, <1>2
<1>4. /\ n \in Click /\ n.at = a /\ n.job = m.job /\ n.save = m.save
      /\ n.token = m.token /\ n.owner = m.owner
  BY DEF Click
<1> HIDE DEF n
<1> QED BY <1>1, <1>3, <1>4

(* A token is fetched in the session of now.                                *)
LEMMA TokenFetched ==
  ASSUME TypeOK, NEW c \in Clicks, FetchCsrf(c)
  PROVE  /\ click' \in [Clicks -> Click] /\ click'[c].at = "send"
         /\ click'[c].job = click[c].job /\ click'[c].save = click[c].save
         /\ click'[c].token = sid /\ click'[c].owner = session
         /\ \A b \in Clicks : b # c => click'[b] = click[b]
<1>1. PICK m \in Click : m = click[c]
  BY DEF TypeOK
<1> DEFINE n1 == [at |-> "send", job |-> m.job, save |-> m.save, token |-> m.token,
                  owner |-> m.owner]
           n2 == [at |-> "send", job |-> m.job, save |-> m.save, token |-> sid,
                  owner |-> m.owner]
           n == [at |-> "send", job |-> m.job, save |-> m.save, token |-> sid,
                 owner |-> session]
           f1 == [click EXCEPT ![c] = n1]
           f2 == [click EXCEPT ![c] = n2]
<1>2. [m EXCEPT !.at = "send"] = n1 /\ [n1 EXCEPT !.token = sid] = n2
      /\ [n2 EXCEPT !.owner = session] = n
  <2>1. m = [at |-> m.at, job |-> m.job, save |-> m.save, token |-> m.token,
             owner |-> m.owner]
    BY DEF Click
  <2>2. [[at |-> m.at, job |-> m.job, save |-> m.save, token |-> m.token,
          owner |-> m.owner] EXCEPT !.at = "send"] = n1
    OBVIOUS
  <2> QED BY <2>1, <2>2
<1>3. f1[c] = n1 /\ f2[c] = n2
  BY DEF TypeOK
<1>4. click' = [click EXCEPT ![c] = n]
  <2>1. [click EXCEPT ![c].at = "send"] = f1
    BY <1>1, <1>2
  <2>2. [f1 EXCEPT ![c].token = sid] = [f1 EXCEPT ![c] = n2]
    BY <1>2, <1>3
  <2>3. [f2 EXCEPT ![c].owner = session] = [f2 EXCEPT ![c] = n]
    BY <1>2, <1>3
  <2> HIDE DEF n1, n2, n
  <2>4. [f1 EXCEPT ![c] = n2] = f2 /\ [f2 EXCEPT ![c] = n] = [click EXCEPT ![c] = n]
    OBVIOUS
  <2> HIDE DEF f1, f2
  <2>5. click' = [[[click EXCEPT ![c].at = "send"] EXCEPT ![c].token = sid]
                    EXCEPT ![c].owner = session]
    BY DEF FetchCsrf
  <2> QED BY <2>1, <2>2, <2>3, <2>4, <2>5
<1>5. /\ n \in Click /\ n.at = "send" /\ n.job = m.job /\ n.save = m.save
      /\ n.token = sid /\ n.owner = session
  BY DEF Click, InFlight, TypeOK
<1> HIDE DEF n
<1> QED BY <1>1, <1>4, <1>5 DEF TypeOK

(* What setting the user does to the types.                                 *)
LEMMA UserSet ==
  ASSUME NEW u \in Users \cup {None}, SetUser(u)
  PROVE  user' \in Users \cup {None} /\ newUser' \in BOOLEAN
<1>1. user' = u /\ newUser' = (newUser \/ u # None \/ user # None)
  BY DEF SetUser
<1>2. newUser' \in BOOLEAN
  BY <1>1
<1> QED BY <1>1, <1>2

(* One step for every action: every variable keeps its type.                *)
LEMMA TypeStep == ASSUME TypeOK, [Next]_vars PROVE TypeOK'
<1> USE DEF server, cookie, react, page, loads
<1>e. ASSUME Effect PROVE load' \in Load /\ stale' \in BOOLEAN
  <2>1. load' \in Load
    BY <1>e, BoundsAssumption DEF Effect, TypeOK, Load, NoLoad
  <2>2. stale' \in BOOLEAN
    BY <1>e DEF Effect
  <2> QED BY <2>1, <2>2
<1>0. CASE Navigate
  <2>1. load' \in Load /\ stale' \in BOOLEAN
    BY <1>0, <1>e DEF Navigate
  <2>2. rendered' \in [user : Users \cup {None}, saved : SUBSET Jobs] /\ saved' \in SUBSET Jobs
    BY <1>0 DEF Navigate, TypeOK
  <2>3. moves' \in 0 .. MaxMoves /\ left' \subseteq Clicks
    BY <1>0, BoundsAssumption DEF Navigate, TypeOK
  <2> QED BY <1>0, <2>1, <2>2, <2>3 DEF Navigate, TypeOK
<1>1. CASE Render
  <2>1. load' \in Load /\ stale' \in BOOLEAN
    BY <1>1, <1>e DEF Render, TypeOK
  <2>2. rendered' \in [user : Users \cup {None}, saved : SUBSET Jobs] /\ saved' \in SUBSET Jobs
    BY <1>1 DEF Render, TypeOK
  <2> QED BY <1>1, <2>1, <2>2 DEF Render, TypeOK
<1>2. CASE ServeLoad
  <2>1. load' \in Load
    BY <1>2 DEF ServeLoad, TypeOK, Load
  <2> QED BY <1>2, <2>1 DEF ServeLoad, TypeOK
<1>3. CASE LoadUnreachable
  <2>1. load' \in Load
    BY <1>3 DEF LoadUnreachable, TypeOK, Load
  <2> QED BY <1>3, <2>1 DEF LoadUnreachable, TypeOK
<1>4. CASE Loaded
  <2>1. load' \in Load /\ saved' \in SUBSET Jobs
    BY <1>4, BoundsAssumption DEF Loaded, TypeOK, Load, NoLoad, SetSaved
  <2> QED BY <1>4, <2>1 DEF Loaded, SetSaved, TypeOK
<1>s. CASE StaleLoaded
  BY <1>s DEF StaleLoaded, TypeOK
<1>5. ASSUME NEW c \in Clicks, NEW j \in Jobs, ClickHeart(c, j) PROVE TypeOK'
  <2>1. [at |-> "csrf", job |-> j, save |-> j \notin rendered.saved, token |-> 0,
         owner |-> None] \in Click
    BY BoundsAssumption DEF Click, InFlight
  <2>2. click' \in [Clicks -> Click]
    BY <1>5, <2>1 DEF ClickHeart, TypeOK
  <2>3. saved' \in SUBSET Jobs
    BY <1>5 DEF ClickHeart, TypeOK, Toggle
  <2>4. rendered' \in [user : Users \cup {None}, saved : SUBSET Jobs]
    BY <1>5, <2>3 DEF ClickHeart, TypeOK
  <2> QED BY <1>5, <2>2, <2>3, <2>4 DEF ClickHeart, TypeOK
<1>6. ASSUME NEW c \in Clicks, FetchCsrf(c) PROVE TypeOK'
  BY <1>6, TokenFetched DEF FetchCsrf, TypeOK
<1>7. ASSUME NEW c \in Clicks, Serve(c) PROVE TypeOK'
  <2>1. click' \in [Clicks -> Click]
    BY <1>7, ClickMoves DEF Serve, TypeOK, InFlight
  <2>2. rows' \in [Users -> SUBSET Jobs]
    <3>1. CASE UNCHANGED rows
      BY <3>1 DEF TypeOK
    <3>2. CASE Accepted(c) /\ Apply(c)
      <4>1. session \in Users /\ click[c].job \in Jobs
        BY <3>2 DEF Accepted, TypeOK, Click
      <4> QED BY <3>2, <4>1 DEF Apply, TypeOK
    <3> QED BY <1>7, <3>1, <3>2 DEF Serve
  <2> QED BY <1>7, <2>1, <2>2 DEF Serve, TypeOK
<1>8. ASSUME NEW c \in Clicks, RequestLost(c) \/ AnswerLost(c) PROVE TypeOK'
  BY <1>8, ClickMoves DEF RequestLost, AnswerLost, TypeOK, InFlight
<1>9. ASSUME NEW c \in Clicks, Settle(c) PROVE TypeOK'
  <2>1. click' \in [Clicks -> Click] /\ click[c].job \in Jobs
    BY <1>9, ClickMoves DEF Settle, TypeOK, Click
  <2>2. saved' \in SUBSET Jobs /\ UNCHANGED <<user, rendered, newUser, page>>
    BY <1>9, <2>1 DEF Settle, SetSaved, Toggle, TypeOK
  <2> QED BY <1>9, <2>1, <2>2 DEF Settle, TypeOK
<1>10. ASSUME NEW u \in Users, AskLogin(u) \/ ServeLogin(u) \/ LoginFails(u) \/ LoggedIn(u)
       PROVE  TypeOK'
  <2>1. auth' \in Auth
    BY <1>10 DEF AskLogin, ServeLogin, LoginFails, LoggedIn, Auth, Idle
  <2>2. session' \in Users \cup {None} /\ sid' \in 0 .. MaxSessions
    BY <1>10, BoundsAssumption DEF AskLogin, ServeLogin, LoginFails, LoggedIn, TypeOK
  <2>3. user' \in Users \cup {None} /\ newUser' \in BOOLEAN
    BY <1>10, UserSet DEF AskLogin, ServeLogin, LoginFails, LoggedIn, TypeOK
  <2> QED BY <1>10, <2>1, <2>2, <2>3
          DEF AskLogin, ServeLogin, LoginFails, LoggedIn, SetUser, TypeOK
<1>11. CASE AskLogout \/ ServeLogout \/ LoggedOut
  <2>1. auth' \in Auth
    BY <1>11 DEF AskLogout, ServeLogout, LoggedOut, Auth, Idle
  <2>2. session' \in Users \cup {None} /\ sid' \in 0 .. MaxSessions
    BY <1>11, BoundsAssumption DEF AskLogout, ServeLogout, LoggedOut, TypeOK
  <2>3. user' \in Users \cup {None} /\ newUser' \in BOOLEAN
    BY <1>11, UserSet DEF AskLogout, ServeLogout, LoggedOut, TypeOK
  <2> QED BY <1>11, <2>1, <2>2, <2>3 DEF AskLogout, ServeLogout, LoggedOut, SetUser, TypeOK
<1>12. ASSUME NEW u \in Users \cup {None}, SessionChanges(u) PROVE TypeOK'
  <2>1. sid' \in 0 .. MaxSessions
    BY <1>12, BoundsAssumption DEF SessionChanges, TypeOK
  <2> QED BY <1>12, <2>1 DEF SessionChanges, TypeOK
<1>13. ASSUME NEW u \in Users, NEW j \in Jobs, OtherDevice(u, j) PROVE TypeOK'
  BY <1>13 DEF OtherDevice, Toggle, TypeOK
<1>14. CASE MartSwap
  BY <1>14 DEF MartSwap, TypeOK
<1>15. CASE UNCHANGED vars
  BY <1>15 DEF vars, TypeOK
<1> QED
  BY <1>0, <1>1, <1>2, <1>3, <1>4, <1>s, <1>5, <1>6, <1>7, <1>8, <1>9, <1>10, <1>11, <1>12,
     <1>13, <1>14, <1>15
  DEF Next, LoadStep, AuthStep, Request

(* The session's number only grows, and with every new owner.               *)
LEMMA SessionsPass ==
  ASSUME TypeOK, Next
  PROVE  \/ UNCHANGED <<session, sid>>
         \/ sid' = sid + 1 /\ UNCHANGED click
<1> USE DEF server, cookie, react
<1>1. CASE Render \/ Navigate \/ LoadStep \/ StaleLoaded \/ MartSwap \/ AskLogout
  BY <1>1 DEF Render, Navigate, StaleLoaded, LoadStep, ServeLoad, LoadUnreachable, Loaded, MartSwap, AskLogout
<1>2. CASE AuthStep
  BY <1>2 DEF AuthStep, ServeLogout, LoggedOut, ServeLogin, LoginFails, LoggedIn
<1>3. ASSUME NEW c \in Clicks,
             Request(c) \/ AnswerLost(c) \/ \E j \in Jobs : ClickHeart(c, j)
      PROVE  UNCHANGED <<session, sid>>
  BY <1>3 DEF Request, FetchCsrf, Serve, RequestLost, Settle, AnswerLost, ClickHeart
<1>4. CASE \E u \in Users : AskLogin(u) \/ \E j \in Jobs : OtherDevice(u, j)
  BY <1>4 DEF AskLogin, OtherDevice
<1>5. CASE \E u \in Users \cup {None} : SessionChanges(u)
  BY <1>5 DEF SessionChanges
<1> QED BY <1>1, <1>2, <1>3, <1>4, <1>5 DEF Next

(* A click is not touched, fetches the token of now, or keeps its token;    *)
(* only a fetch makes it ready to be sent.                                  *)
LEMMA ClicksPass ==
  ASSUME TypeOK, Next, NEW c \in Clicks
  PROVE  \/ click'[c] = click[c]
         \/ click'[c].at # "send" /\ click'[c].token \in {0, click[c].token}
         \/ click'[c].token = sid /\ click'[c].owner = session
<1> USE DEF server, cookie, react
<1>1. CASE UNCHANGED click
  BY <1>1
<1>2. ASSUME NEW b \in Clicks, FetchCsrf(b)
      PROVE  click'[c] = click[c] \/ (click'[c].token = sid /\ click'[c].owner = session)
  BY <1>2, TokenFetched
<1>3. ASSUME NEW b \in Clicks, Serve(b) \/ RequestLost(b) \/ AnswerLost(b) \/ Settle(b)
      PROVE  \/ click'[c] = click[c]
             \/ click'[c].at # "send" /\ click'[c].token \in {0, click[c].token}
  <2>1. PICK a \in {"ok", "fail", "done"} : click' = [click EXCEPT ![b].at = a]
    BY <1>3 DEF Serve, RequestLost, AnswerLost, Settle
  <2> QED BY <2>1, ClickMoves DEF TypeOK, InFlight
<1>4. ASSUME NEW b \in Clicks, NEW j \in Jobs, ClickHeart(b, j)
      PROVE  \/ click'[c] = click[c]
             \/ click'[c].at # "send" /\ click'[c].token \in {0, click[c].token}
  BY <1>4 DEF ClickHeart, TypeOK
<1>5. CASE \/ Render \/ Navigate \/ LoadStep \/ StaleLoaded
           \/ MartSwap \/ AskLogout \/ AuthStep
  BY <1>1, <1>5 DEF Render, Navigate, StaleLoaded, LoadStep, ServeLoad, LoadUnreachable, Loaded, MartSwap, AskLogout,
     AuthStep, ServeLogout, LoggedOut, ServeLogin, LoginFails, LoggedIn
<1>6. CASE \E u \in Users : AskLogin(u) \/ \E j \in Jobs : OtherDevice(u, j)
  BY <1>1, <1>6 DEF AskLogin, OtherDevice
<1>7. CASE \E u \in Users \cup {None} : SessionChanges(u)
  BY <1>1, <1>7 DEF SessionChanges
<1> QED BY <1>2, <1>3, <1>4, <1>5, <1>6, <1>7 DEF Next, Request

(* No step makes a token of a session still to come.                        *)
LEMMA TokensStep == ASSUME TypeOK, TokensArePast, [Next]_vars PROVE TokensArePast'
<1>1. CASE UNCHANGED vars
  BY <1>1 DEF vars, cookie, TokensArePast
<1>2. CASE Next
  <2>1. sid \in Nat /\ \A c \in Clicks : click[c].token \in Nat
    BY BoundsAssumption DEF TypeOK, Click
  <2>2. CASE UNCHANGED <<session, sid>>
    <3>1. ASSUME NEW c \in Clicks
          PROVE  /\ click'[c].token <= sid
                 /\ click'[c].at = "send" /\ click'[c].token = sid => click'[c].owner = session
      BY <1>2, <2>1, ClicksPass DEF TokensArePast
    <3> QED BY <2>2, <3>1 DEF TokensArePast
  <2>3. CASE sid' = sid + 1 /\ UNCHANGED click
    BY <2>1, <2>3 DEF TokensArePast
  <2> QED BY <1>2, <2>2, <2>3, SessionsPass
<1> QED BY <1>1, <1>2

--------------------------------------------------------------------------------
(* While a login, a logout or another user is under way, no click is.       *)
LEMMA NoneFlies ==
  ASSUME CalmInv, auth # Idle \/ newUser \/ user = None
  PROVE  \A c \in Clicks : ~Flying(c)
  BY DEF CalmInv, Waits

(* While a load is under way, a click is one that was left behind.          *)
LEMMA FlyingIsLeft ==
  ASSUME CalmInv, load.at # "none"
  PROVE  \A c \in Clicks : Flying(c) => c \in left /\ LeftBehind(click[c].job)
  BY DEF CalmInv, Waits, LeftBehind

(* A step of the page while no click is under way.                          *)
LEMMA QuietStep ==
  ASSUME CalmInv, \A c \in Clicks : ~Flying(c), mart' = Jobs, UNCHANGED <<left, click>>,
         CalmAuth', Emptied',
         InForce' => /\ LoadInStep'
                     /\ load'.at = "none" =>
                          \A j \in Jobs : ~LeftBehind(j) => (j \in saved' <=> j \in rows'[user'])
  PROVE  CalmInv'
<1>1. \A c \in Clicks : ~Flying(c)'
  BY DEF Flying
<1>2. Waits' /\ LeftHadBegun'
  BY <1>1 DEF CalmInv, Waits, LeftHadBegun
<1>3. \A j \in Jobs : LeftBehind(j)' <=> LeftBehind(j)
  BY DEF LeftBehind
<1>4. InForce' => InStep'
  BY <1>1, <1>3 DEF InStep
<1> QED BY <1>2, <1>4 DEF CalmInv

(* What the effect does to the load.                                        *)
LEMMA EffectIs ==
  ASSUME Effect
  PROVE  /\ user = None => load'.at = "none"
         /\ user # None => load'.at = "sent" /\ load'.sid = sid
<1>1. CASE user = None
  BY <1>1 DEF Effect, NoLoad
<1>2. CASE user # None
  <2>1. load' = [at |-> "sent", sid |-> sid, ids |-> {}]
    BY <1>2 DEF Effect
  <2> QED BY <1>2, <2>1
<1> QED BY <1>1, <1>2

(* The list is asked for in the session of the one who is shown.            *)
LEMMA RenderCalm == ASSUME TypeOK, CalmInv, Render PROVE CalmInv'
<1>1. /\ UNCHANGED <<rows, mart, session, sid, user, left, auth, click>>
      /\ rendered' = [user |-> user, saved |-> saved] /\ rendered'.user = user
      /\ newUser' = FALSE /\ mart = Jobs /\ newUser \in BOOLEAN
  BY DEF Render, server, cookie, page, CalmInv, TypeOK
<1>2. CalmAuth'
  BY <1>1 DEF CalmInv, CalmAuth
<1>3. CASE newUser
  <2>1. \A c \in Clicks : ~Flying(c)
    BY <1>3, NoneFlies
  <2>2. CASE user = None
    <3>1. saved' = {} /\ load'.at = "none"
      BY <1>3, <2>2, EffectIs DEF Render
    <3> QED BY <1>1, <1>2, <2>1, <2>2, <3>1, QuietStep DEF Emptied, InForce
  <2>3. CASE user # None
    <3>1. load'.at = "sent" /\ load'.sid = sid
      BY <1>3, <2>3, EffectIs DEF Render
    <3>2. LoadInStep' /\ Emptied'
      BY <1>1, <2>3, <3>1 DEF LoadInStep, Emptied
    <3> QED BY <1>1, <1>2, <2>1, <3>1, <3>2, QuietStep
  <2> QED BY <2>2, <2>3
<1>4. CASE ~newUser
  <2>1. UNCHANGED <<saved, load, newUser>>
    BY <1>1, <1>4 DEF Render, loads
  <2>2. Emptied' /\ Waits' /\ LeftHadBegun'
    BY <1>1, <2>1 DEF CalmInv, Emptied, Waits, LeftHadBegun, Flying
  <2>3. InForce' => InStep'
    BY <1>1, <2>1 DEF CalmInv, InForce, InStep, LoadInStep, HeartInStep, Flying, Busy,
       LeftBehind
  <2> QED BY <1>1, <1>2, <2>2, <2>3 DEF CalmInv
<1> QED BY <1>3, <1>4

(* Another page begins with nothing and asks; the clicks under way are left *)
(* behind, every one of them.                                               *)
LEMMA NavigateCalm == ASSUME TypeOK, CalmInv, Navigate PROVE CalmInv'
<1>1. /\ UNCHANGED <<rows, mart, session, sid, user, auth, click>>
      /\ left' = {c \in Clicks : Flying(c)} /\ saved' = {}
      /\ rendered' = [user |-> user, saved |-> {}] /\ rendered'.user = user
      /\ newUser' = FALSE /\ mart = Jobs /\ Effect
  BY DEF Navigate, server, cookie, Flying, CalmInv
<1>2. \A c \in Clicks : (Flying(c)' <=> Flying(c)) /\ (Flying(c) => c \in left')
  BY <1>1 DEF Flying
<1>3. CalmAuth'
  BY <1>1 DEF CalmInv, CalmAuth
<1>4. Emptied'
  BY <1>1, EffectIs DEF Emptied
<1>5. Waits'
  BY <1>1, <1>2 DEF CalmInv, Waits
<1>6. LeftHadBegun'
  BY <1>1 DEF LeftHadBegun, Flying, InFlight
<1>7. ASSUME InForce' PROVE InStep'
  <2>1. load'.at = "sent" /\ load'.sid = sid'
    BY <1>1, <1>7, EffectIs DEF InForce
  <2>2. LoadInStep'
    BY <2>1 DEF LoadInStep
  <2>3. \A c \in Clicks : Flying(c)' => LeftBehind(click[c].job)'
    BY <1>1, <1>2 DEF LeftBehind
  <2> QED BY <2>1, <2>2, <2>3 DEF InStep
<1> QED BY <1>1, <1>3, <1>4, <1>5, <1>6, <1>7 DEF CalmInv

(* A stale load changes nothing.                                            *)
LEMMA StaleLoadedCalm == ASSUME CalmInv, StaleLoaded PROVE CalmInv'
  BY DEF StaleLoaded, server, cookie, react, page, CalmInv, CalmAuth, Emptied, Waits,
     LeftHadBegun, Flying, InForce, InStep, LoadInStep, HeartInStep, Busy, LeftBehind

(* A load under way moves on, beside the clicks that were left behind.      *)
LEMMA LoadCalm ==
  ASSUME TypeOK, CalmInv, load.at # "none",
         UNCHANGED <<rows, mart, session, sid, user, rendered, newUser, left, auth, click>>,
         user = None /\ ~newUser => saved' = {} /\ load'.at = "none",
         InForce => /\ LoadInStep'
                    /\ load'.at = "none" =>
                         \A j \in Jobs : ~LeftBehind(j) => (j \in saved' <=> j \in rows[user])
  PROVE  CalmInv'
<1>0. /\ click' = click /\ left' = left /\ auth' = auth /\ user' = user
      /\ newUser' = newUser /\ rows' = rows
  OBVIOUS
<1>1. \A c \in Clicks : Flying(c)' <=> Flying(c)
  BY <1>0 DEF Flying
<1>2. \A c \in Clicks : Flying(c) => c \in left /\ LeftBehind(click[c].job)
  BY FlyingIsLeft
<1>3. \A j \in Jobs : LeftBehind(j)' <=> LeftBehind(j)
  BY <1>0 DEF LeftBehind
<1>4. CalmAuth' /\ Emptied' /\ LeftHadBegun'
  BY DEF CalmInv, CalmAuth, Emptied, LeftHadBegun
<1>5. Waits'
  <2>1. SUFFICES ASSUME NEW c \in Clicks, Flying(c)'
                 PROVE  /\ auth' = Idle /\ ~newUser' /\ user' # None
                        /\ c \notin left' => load'.at = "none"
                        /\ \A b \in Clicks : Flying(b)' /\ click'[b].job = click'[c].job => b = c
    BY DEF Waits
  <2>2. Flying(c) /\ c \in left
    BY <1>1, <1>2, <2>1
  <2>3. /\ auth = Idle /\ ~newUser /\ user # None
        /\ \A b \in Clicks : Flying(b) /\ click[b].job = click[c].job => b = c
    BY <2>2 DEF CalmInv, Waits
  <2> QED BY <1>0, <1>1, <2>2, <2>3
<1>6. ASSUME InForce' PROVE InStep'
  <2>1. InForce
    BY <1>0, <1>6 DEF InForce
  <2>2. \A c \in Clicks : Flying(c)' => LeftBehind(click[c].job)
    BY <1>1, <1>2
  <2>3. \A c \in Clicks : LeftBehind(click[c].job)' <=> LeftBehind(click[c].job)
    BY <1>0 DEF LeftBehind
  <2> QED BY <1>3, <2>1, <2>2, <2>3 DEF InStep
<1> QED BY <1>4, <1>5, <1>6 DEF CalmInv

(* It is answered with the rows, all of which are in the mart.              *)
LEMMA ServeLoadCalm == ASSUME TypeOK, CalmInv, ServeLoad PROVE CalmInv'
<1>1. /\ UNCHANGED <<rows, mart, session, sid, user, saved, rendered, newUser, left, auth, click>>
      /\ mart = Jobs /\ load.at = "sent"
  BY DEF ServeLoad, server, cookie, react, page, CalmInv
<1>2. user = None => newUser
  BY <1>1 DEF CalmInv, Emptied
<1>3. ASSUME InForce PROVE load'.at = "answered" /\ load'.ids = rows[user]
  <2>1. load.sid = sid /\ session = user /\ user # None /\ user \in Users
    BY <1>1, <1>3 DEF CalmInv, InForce, InStep, LoadInStep, CalmAuth, TypeOK
  <2>2. load' = [load EXCEPT !.at = "answered", !.ids = rows[session] \cap mart]
    BY <2>1 DEF ServeLoad
  <2>3. rows[session] \cap mart = rows[user]
    BY <1>1, <2>1 DEF TypeOK
  <2> DEFINE ids == rows[user]
  <2>4. load' = [load EXCEPT !.at = "answered", !.ids = ids]
    BY <2>2, <2>3
  <2> HIDE DEF ids
  <2>5. load'.at = "answered" /\ load'.ids = ids
    BY <2>4 DEF TypeOK, Load
  <2> QED BY <2>5 DEF ids
<1>4. InForce => LoadInStep' /\ load'.at # "none"
  BY <1>1, <1>3 DEF LoadInStep
<1> QED BY <1>1, <1>2, <1>4, LoadCalm

(* What arrives are the rows of now, but for what was left behind.          *)
LEMMA LoadedCalm == ASSUME TypeOK, CalmInv, Loaded PROVE CalmInv'
<1>1. /\ UNCHANGED <<rows, mart, session, sid, user, rendered, newUser, left, auth, click>>
      /\ mart = Jobs /\ load.at \in {"answered", "failed"} /\ load'.at = "none"
      /\ saved' = IF load.at = "answered" THEN load.ids ELSE {}
  BY DEF Loaded, SetSaved, NoLoad, server, cookie, page, CalmInv
<1>2. user = None => newUser
  BY <1>1 DEF CalmInv, Emptied
<1>3. InForce => /\ LoadInStep'
                 /\ \A j \in Jobs : ~LeftBehind(j) => (j \in saved' <=> j \in rows[user])
  BY <1>1 DEF CalmInv, InForce, InStep, LoadInStep
<1> QED BY <1>1, <1>2, <1>3, LoadCalm

(* A login or logout under way is alone.                                    *)
LEMMA AuthCalm == ASSUME TypeOK, CalmInv, AuthStep PROVE CalmInv'
<1>1. auth # Idle /\ UNCHANGED <<rows, mart, saved, rendered, load, left, click>> /\ mart = Jobs
  BY DEF AuthStep, ServeLogout, LoggedOut, ServeLogin, LoginFails, LoggedIn, SetUser, Idle,
         server, react, page, loads, CalmInv
<1>2. \A c \in Clicks : ~Flying(c)
  BY <1>1, NoneFlies
<1>3. CASE ServeLogout
  <2>1. UNCHANGED <<user, newUser>> /\ auth'.at = "loggedOut"
    BY <1>3 DEF ServeLogout, react
  <2>2. CalmAuth' /\ Emptied' /\ ~InForce'
    BY <1>1, <2>1 DEF CalmInv, CalmAuth, Emptied, InForce
  <2> QED BY <1>1, <1>2, <2>2, QuietStep
<1>4. CASE LoggedOut
  <2>1. /\ user' = None /\ auth'.at = "none" /\ UNCHANGED session
        /\ newUser' <=> newUser \/ user # None
    BY <1>4 DEF LoggedOut, SetUser, Idle, cookie
  <2>2. CalmAuth' /\ Emptied' /\ ~InForce'
    BY <1>1, <2>1 DEF CalmInv, CalmAuth, Emptied, InForce
  <2> QED BY <1>1, <1>2, <2>2, QuietStep
<1>5. ASSUME NEW u \in Users, ServeLogin(u) \/ LoginFails(u) PROVE CalmInv'
  <2>1. /\ UNCHANGED <<user, newUser>> /\ user = None
        /\ auth'.at \in {"none", "loggedIn"}
        /\ auth'.at = "loggedIn" => session' = auth'.who
    BY <1>5 DEF ServeLogin, LoginFails, Idle, react, CalmInv, CalmAuth
  <2>2. CalmAuth' /\ Emptied' /\ ~InForce'
    BY <1>1, <2>1 DEF CalmInv, CalmAuth, Emptied, InForce
  <2> QED BY <1>1, <1>2, <2>2, QuietStep
<1>6. ASSUME NEW u \in Users, LoggedIn(u) PROVE CalmInv'
  <2>1. /\ user' = u /\ auth'.at = "none" /\ session = u /\ UNCHANGED session
        /\ newUser'
    BY <1>6, NoneAssumption DEF LoggedIn, SetUser, Idle, cookie, CalmInv, CalmAuth
  <2>2. CalmAuth' /\ Emptied' /\ ~InForce'
    BY <1>1, <2>1, NoneAssumption DEF CalmAuth, Emptied, InForce
  <2> QED BY <1>1, <1>2, <2>2, QuietStep
<1> QED BY <1>3, <1>4, <1>5, <1>6 DEF AuthStep

(* Somebody asks to log in or out: that changes nothing yet.                *)
LEMMA AskCalm ==
  ASSUME TypeOK, CalmInv,
         \/ AskLogout /\ \A j \in Jobs : ~Busy(j)
         \/ \E u \in Users : AskLogin(u)
  PROVE  CalmInv'
<1>1. /\ UNCHANGED <<rows, mart, session, sid, user, saved, rendered, newUser, load, left, click>>
      /\ mart = Jobs /\ auth.at = "none"
      /\ auth'.at = "logout" \/ (auth'.at = "login" /\ user = None)
  BY DEF AskLogout, AskLogin, Idle, server, cookie, react, page, loads, CalmInv
<1>2. \A c \in Clicks : ~Flying(c)
  <2>1. CASE \A j \in Jobs : ~Busy(j)
    BY <2>1 DEF Busy, Flying, TypeOK, Click
  <2>2. CASE \E u \in Users : AskLogin(u)
    BY <2>2, NoneFlies DEF AskLogin
  <2> QED BY <2>1, <2>2
<1>3. CalmAuth' /\ Emptied'
  BY <1>1 DEF CalmInv, CalmAuth, Emptied
<1>4. InForce' => InForce
  BY <1>1 DEF InForce
<1>5. ASSUME InForce
      PROVE  /\ LoadInStep'
             /\ load'.at = "none" =>
                  \A j \in Jobs : ~LeftBehind(j) => (j \in saved' <=> j \in rows'[user'])
  <2>1. LoadInStep'
    BY <1>1, <1>5 DEF CalmInv, InStep, LoadInStep, LeftBehind
  <2>2. \A j \in Jobs : ~Busy(j)
    BY <1>2 DEF Busy, Flying
  <2> QED BY <1>1, <1>5, <2>1, <2>2 DEF CalmInv, InStep
<1> QED BY <1>1, <1>2, <1>3, <1>4, <1>5, QuietStep

(* A heart that nobody is changing is clicked: its promise begins.          *)
LEMMA ClickHeartCalm ==
  ASSUME TypeOK, CalmInv, NEW c \in Clicks, NEW j \in Jobs, ClickHeart(c, j),
         ~Busy(j), AtRest, rendered = [user |-> user, saved |-> saved]
  PROVE  CalmInv'
<1> DEFINE save == j \notin saved
<1>1. /\ UNCHANGED <<rows, mart, session, sid, user, newUser, left, load, auth>> /\ mart = Jobs
      /\ saved' = Toggle(saved, j) /\ rendered'.user = user
      /\ click[c].at = "unused" /\ user # None
  BY DEF ClickHeart, server, cookie, page, loads, CalmInv
<1>2. /\ click'[c].at = "csrf" /\ click'[c].job = j /\ click'[c].save = save
      /\ \A b \in Clicks : b # c => click'[b] = click[b]
  BY DEF ClickHeart, TypeOK
<1>l. c \notin left /\ \A k \in Jobs : LeftBehind(k)' <=> LeftBehind(k)
  BY <1>1, <1>2 DEF CalmInv, LeftHadBegun, LeftBehind, TypeOK
<1>3. /\ InForce /\ InStep /\ load.at = "none"
      /\ ~LeftBehind(j) => (j \in saved <=> j \in rows[user])
  BY <1>1 DEF CalmInv, InForce, AtRest, Idle, InStep
<1>4. /\ j \in saved' <=> save
      /\ \A k \in Jobs \ {j} : k \in saved' <=> k \in saved
  BY <1>1 DEF Toggle
<1> HIDE DEF save
<1>5. Flying(c)' /\ ~Flying(c) /\ \A b \in Clicks \ {c} : Flying(b)' <=> Flying(b)
  BY <1>1, <1>2 DEF Flying, InFlight
<1>6. \A b \in Clicks : Flying(b) => click[b].job \in Jobs \ {j}
  BY DEF Flying, Busy, TypeOK, Click
<1>7. CalmAuth' /\ Emptied' /\ LeftHadBegun'
  BY <1>1, <1>2, <1>l DEF CalmInv, CalmAuth, Emptied, LeftHadBegun, TypeOK
<1>8. Waits'
  <2>1. auth' = Idle /\ ~newUser' /\ user' # None /\ load'.at = "none"
    BY <1>1 DEF AtRest
  <2>2. ASSUME NEW d \in Clicks, NEW b \in Clicks, Flying(d)', Flying(b)',
               click'[b].job = click'[d].job
        PROVE  b = d
    BY <1>2, <1>5, <1>6, <2>2 DEF CalmInv, Waits
  <2> QED BY <1>1, <2>1, <2>2 DEF Waits
<1>9. LoadInStep'
  BY <1>1, <1>3 DEF LoadInStep
<1>10. ASSUME NEW b \in Clicks, Flying(b)', ~LeftBehind(click[b].job)' PROVE HeartInStep(b)'
  <2>1. CASE b = c
    <3>1. ~LeftBehind(j)
      BY <1>2, <1>l, <1>10, <2>1 DEF LeftBehind
    <3> QED BY <1>1, <1>2, <1>3, <1>4, <2>1, <3>1 DEF HeartInStep, save
  <2>2. CASE b # c
    <3>1. Flying(b) /\ click'[b] = click[b] /\ click[b].job \in Jobs \ {j}
      BY <1>2, <1>5, <1>6, <1>10, <2>2
    <3>2. ~LeftBehind(click[b].job)
      BY <1>1, <1>2, <1>l, <1>10, <3>1 DEF LeftBehind, TypeOK
    <3>3. HeartInStep(b)
      BY <1>3, <3>1, <3>2 DEF InStep
    <3> QED BY <1>1, <1>4, <3>1, <3>3 DEF HeartInStep
  <2> QED BY <2>1, <2>2
<1>11. ASSUME NEW k \in Jobs, ~Busy(k)', ~LeftBehind(k)'
       PROVE  k \in saved' <=> k \in rows'[user']
  <2>1. k # j /\ ~Busy(k)
    BY <1>2, <1>5, <1>11 DEF Busy, Flying
  <2> QED BY <1>1, <1>3, <1>4, <1>l, <1>11, <2>1 DEF InStep
<1> QED BY <1>1, <1>7, <1>8, <1>9, <1>10, <1>11 DEF CalmInv, InStep

(* A click under way moves on, and with it the row of its job at most; one  *)
(* that was left behind does with it what it can.                           *)
LEMMA FlightCalm ==
  ASSUME TypeOK, CalmInv, NEW c \in Clicks, Flying(c), Flying(c)',
         UNCHANGED <<mart, session, sid, user, saved, rendered, newUser, left, load, auth>>,
         click'[c].job = click[c].job, click'[c].save = click[c].save,
         \A b \in Clicks : b # c => click'[b] = click[b],
         \A k \in Jobs \ {click[c].job} : k \in rows'[user] <=> k \in rows[user],
         ~LeftBehind(click[c].job) =>
           /\ click[c].job \in rows'[user] <=> (click[c].save <=> click'[c].at = "ok")
           /\ click'[c].at = "send" => click'[c].token = sid
  PROVE  CalmInv'
<1>1. auth = Idle /\ ~newUser /\ user # None /\ mart = Jobs
  BY DEF CalmInv, Waits
<1>2. InForce /\ InStep
  BY <1>1 DEF CalmInv, InForce, Idle
<1>3. \A b \in Clicks : (Flying(b)' <=> Flying(b)) /\ click'[b].job = click[b].job
  BY DEF Flying
<1>l. \A k \in Jobs : LeftBehind(k)' <=> LeftBehind(k)
  BY <1>3 DEF LeftBehind, TypeOK
<1>4. /\ \A b \in Clicks : click[b].job \in Jobs
      /\ \A b \in Clicks : Flying(b) /\ b # c => click[b].job # click[c].job
  BY DEF CalmInv, Waits, TypeOK, Click
<1>5. CalmAuth' /\ Emptied'
  BY DEF CalmInv, CalmAuth, Emptied
<1>6. Waits'
  BY <1>3 DEF CalmInv, Waits
<1>7. LeftHadBegun'
  <2>1. click'[c].at # "unused"
    BY DEF Flying, InFlight
  <2> QED BY <2>1 DEF CalmInv, LeftHadBegun, TypeOK
<1>8. LoadInStep'
  <2>1. load.at # "none" => LeftBehind(click[c].job)
    BY FlyingIsLeft
  <2>2. ASSUME load.at = "answered", NEW k \in Jobs, ~LeftBehind(k)
        PROVE  k \in load.ids <=> k \in rows'[user]
    BY <1>2, <2>1, <2>2 DEF InStep, LoadInStep
  <2> QED BY <1>2, <1>l, <2>2 DEF InStep, LoadInStep
<1>9. ASSUME NEW b \in Clicks, Flying(b)', ~LeftBehind(click[b].job)' PROVE HeartInStep(b)'
  <2>1. Flying(b) /\ ~LeftBehind(click[b].job)
    BY <1>3, <1>9 DEF LeftBehind, TypeOK
  <2>2. HeartInStep(b)
    BY <1>2, <2>1 DEF InStep
  <2>3. CASE b = c
    BY <2>1, <2>2, <2>3 DEF HeartInStep
  <2>4. CASE b # c
    BY <1>4, <2>1, <2>2, <2>4 DEF HeartInStep
  <2> QED BY <2>3, <2>4
<1>10. ASSUME load.at = "none", NEW k \in Jobs, ~Busy(k)', ~LeftBehind(k)'
       PROVE  k \in saved' <=> k \in rows'[user']
  <2>1. k # click[c].job /\ ~Busy(k)
    BY <1>3, <1>10 DEF Busy, Flying
  <2> QED BY <1>2, <1>l, <1>10, <2>1 DEF InStep
<1> QED BY <1>1, <1>5, <1>6, <1>7, <1>8, <1>9, <1>10 DEF CalmInv, InStep

(* The request is let through and does what the heart has promised; one     *)
(* that was left behind changes its own row at most.                        *)
LEMMA ServeCalm == ASSUME TypeOK, CalmInv, NEW c \in Clicks, Serve(c) PROVE CalmInv'
<1>1. /\ UNCHANGED <<mart, session, sid, user, saved, rendered, newUser, left, load, auth>>
      /\ click[c].at = "send" /\ Flying(c)
  BY DEF Serve, cookie, react, page, loads, Flying, InFlight
<1>2. auth = Idle /\ ~newUser /\ user # None /\ mart = Jobs
  BY <1>1 DEF CalmInv, Waits
<1>3. InForce /\ InStep /\ session = user /\ user \in Users
  BY <1>1, <1>2 DEF CalmInv, InForce, Idle, CalmAuth, TypeOK
<1>4. ASSUME ~LeftBehind(click[c].job) PROVE Accepted(c) /\ Works(c)
  <2>1. HeartInStep(c)
    BY <1>1, <1>3, <1>4 DEF InStep
  <2> QED BY <1>1, <1>2, <1>3, <2>1 DEF Accepted, Works, HeartInStep, TypeOK, Click
<1>5. CASE Apply(c) /\ click' = [click EXCEPT ![c].at = "ok"]
  <2>1. /\ click'[c].at = "ok" /\ click'[c].job = click[c].job /\ click'[c].save = click[c].save
        /\ \A b \in Clicks : b # c => click'[b] = click[b]
    BY <1>5, ClickMoves DEF TypeOK, InFlight
  <2>2. /\ click[c].job \in rows'[user] <=> click[c].save
        /\ \A k \in Jobs \ {click[c].job} : k \in rows'[user] <=> k \in rows[user]
    BY <1>3, <1>5 DEF Apply, TypeOK
  <2>3. Flying(c)'
    BY <2>1 DEF Flying, InFlight
  <2> QED BY <1>1, <2>1, <2>2, <2>3, FlightCalm
<1>6. CASE ~(Accepted(c) /\ Works(c)) /\ click' = [click EXCEPT ![c].at = "fail"] /\ UNCHANGED rows
  <2>1. /\ click'[c].at = "fail" /\ click'[c].job = click[c].job /\ click'[c].save = click[c].save
        /\ \A b \in Clicks : b # c => click'[b] = click[b]
    BY <1>6, ClickMoves DEF TypeOK, InFlight
  <2>2. LeftBehind(click[c].job)
    BY <1>4, <1>6
  <2>3. Flying(c)'
    BY <2>1 DEF Flying, InFlight
  <2> QED BY <1>1, <1>6, <2>1, <2>2, <2>3, FlightCalm
<1> QED BY <1>5, <1>6 DEF Serve

(* The token is fetched in the session of now, or the request is lost.      *)
LEMMA WaitingCalm ==
  ASSUME TypeOK, CalmInv, NEW c \in Clicks, FetchCsrf(c) \/ RequestLost(c)
  PROVE  CalmInv'
<1>1. /\ UNCHANGED <<rows, mart, session, sid, user, saved, rendered, newUser, left, load, auth>>
      /\ click[c].at \in {"csrf", "send"} /\ Flying(c)
  BY DEF FetchCsrf, RequestLost, server, cookie, react, page, loads, Flying, InFlight
<1>2. /\ click'[c].at \in {"send", "fail"}
      /\ click'[c].at = "send" => click'[c].token = sid
      /\ click'[c].job = click[c].job /\ click'[c].save = click[c].save
      /\ \A b \in Clicks : b # c => click'[b] = click[b]
  BY TokenFetched, ClickMoves DEF RequestLost, TypeOK, InFlight
<1>3. auth = Idle /\ ~newUser /\ user # None
  BY <1>1 DEF CalmInv, Waits
<1>4. ~LeftBehind(click[c].job) => HeartInStep(c)
  BY <1>1, <1>3 DEF CalmInv, InForce, InStep, Idle
<1>5. ~LeftBehind(click[c].job) =>
        (click[c].job \in rows'[user] <=> (click[c].save <=> click'[c].at = "ok"))
  BY <1>1, <1>2, <1>4 DEF HeartInStep
<1>6. Flying(c)'
  BY <1>2 DEF Flying, InFlight
<1> QED BY <1>1, <1>2, <1>5, <1>6, FlightCalm

(* The heart keeps its promise or takes it back, unless its page was left.  *)
LEMMA SettleCalm == ASSUME TypeOK, CalmInv, NEW c \in Clicks, Settle(c) PROVE CalmInv'
<1> DEFINE j == click[c].job
<1>1. /\ UNCHANGED <<rows, mart, session, sid, user, rendered, newUser, left, load, auth>>
      /\ click[c].at \in {"ok", "fail"} /\ Flying(c)
      /\ saved' = IF click[c].at = "fail" /\ c \notin left THEN Toggle(saved, j) ELSE saved
  BY DEF Settle, SetSaved, server, cookie, react, page, loads, Flying, InFlight
<1>2. /\ click'[c].at = "done" /\ j \in Jobs /\ click'[c].job = j
      /\ \A b \in Clicks : b # c => click'[b] = click[b]
  BY ClickMoves DEF Settle, TypeOK, InFlight, Click
<1>l. \A k \in Jobs : LeftBehind(k)' <=> LeftBehind(k)
  BY <1>1, <1>2 DEF LeftBehind, TypeOK
<1>3. /\ auth = Idle /\ ~newUser /\ user # None /\ mart = Jobs
      /\ c \notin left => load.at = "none"
  BY <1>1 DEF CalmInv, Waits
<1>4. InForce /\ InStep /\ (~LeftBehind(j) => HeartInStep(c) /\ c \notin left)
  BY <1>1, <1>3 DEF CalmInv, InForce, InStep, Idle, LeftBehind
<1>5. /\ ~LeftBehind(j) => (j \in saved' <=> j \in rows[user])
      /\ \A k \in Jobs \ {j} : k \in saved' <=> k \in saved
      /\ load.at # "none" => saved' = saved
  BY <1>1, <1>3, <1>4 DEF HeartInStep, Toggle
<1>6. \A b \in Clicks : Flying(b)' <=> Flying(b) /\ b # c
  BY <1>2 DEF Flying, InFlight
<1>7. \A b \in Clicks : Flying(b) /\ b # c => click[b].job \in Jobs \ {j}
  BY <1>1 DEF CalmInv, Waits, TypeOK, Click
<1> HIDE DEF j
<1>8. CalmAuth' /\ Emptied' /\ LeftHadBegun'
  BY <1>1, <1>2, <1>3 DEF CalmInv, CalmAuth, Emptied, LeftHadBegun, TypeOK
<1>9. Waits'
  BY <1>1, <1>2, <1>6 DEF CalmInv, Waits
<1>10. LoadInStep'
  BY <1>1, <1>4, <1>l DEF InStep, LoadInStep
<1>11. ASSUME NEW b \in Clicks, Flying(b)', ~LeftBehind(click[b].job)' PROVE HeartInStep(b)'
  <2>1. Flying(b) /\ click'[b] = click[b] /\ click[b].job \in Jobs \ {j}
    BY <1>2, <1>6, <1>7, <1>11
  <2>2. ~LeftBehind(click[b].job)
    BY <1>1, <1>2, <1>11, <2>1 DEF LeftBehind, TypeOK, j
  <2>3. HeartInStep(b)
    BY <1>4, <2>1, <2>2 DEF InStep
  <2> QED BY <1>1, <1>5, <2>1, <2>3 DEF HeartInStep
<1>12. ASSUME load.at = "none", NEW k \in Jobs, ~Busy(k)', ~LeftBehind(k)'
       PROVE  k \in saved' <=> k \in rows'[user']
  <2>1. CASE k = j
    BY <1>1, <1>5, <1>l, <1>12, <2>1
  <2>2. CASE k # j
    <3>1. ~Busy(k)
      BY <1>2, <1>12, <2>2 DEF Busy, j
    <3> QED BY <1>1, <1>4, <1>5, <1>l, <1>12, <2>2, <3>1 DEF InStep
  <2> QED BY <2>1, <2>2
<1> QED BY <1>1, <1>3, <1>8, <1>9, <1>10, <1>11, <1>12 DEF CalmInv, InStep

(* One step for every action of the calm surroundings.                      *)
LEMMA CalmStep == ASSUME TypeOK, CalmInv, CalmNext PROVE CalmInv'
<1>1. CASE Render \/ Navigate \/ ServeLoad \/ Loaded \/ StaleLoaded \/ AuthStep
  BY <1>1, RenderCalm, NavigateCalm, ServeLoadCalm, LoadedCalm, StaleLoadedCalm, AuthCalm
<1>2. CASE \/ AskLogout /\ \A j \in Jobs : ~Busy(j)
           \/ \E u \in Users : AskLogin(u)
  BY <1>2, AskCalm
<1>3. ASSUME NEW c \in Clicks, Request(c) PROVE CalmInv'
  BY <1>3, WaitingCalm, ServeCalm, SettleCalm DEF Request
<1>4. ASSUME NEW c \in Clicks, NEW j \in Jobs, ClickHeart(c, j), ~Busy(j), AtRest,
             rendered = [user |-> user, saved |-> saved]
      PROVE  CalmInv'
  BY <1>4, ClickHeartCalm
<1> QED BY <1>1, <1>2, <1>3, <1>4 DEF CalmNext

(* The calm surroundings are some of the behaviours there are.              *)
LEMMA CalmIsNext == MCNext => [Next]_vars
  BY DEF MCNext, CalmNext, Next, LoadStep

(* At first nobody is logged in and nothing is under way.                   *)
LEMMA InitInv == Init => TypeOK /\ TokensArePast /\ CalmInv
<1> SUFFICES ASSUME Init PROVE TypeOK /\ TokensArePast /\ CalmInv
  OBVIOUS
<1>1. PICK j \in Jobs : click = [c \in Clicks |->
        [at |-> "unused", job |-> j, save |-> TRUE, token |-> 0, owner |-> None]]
  BY DEF Init
<1>2. \A c \in Clicks : click[c].at = "unused" /\ click[c].token = 0
  BY <1>1
<1>3. TypeOK
  <2>1. [at |-> "unused", job |-> j, save |-> TRUE, token |-> 0, owner |-> None] \in Click
    BY BoundsAssumption DEF Click, InFlight
  <2>2. click \in [Clicks -> Click]
    BY <1>1, <2>1
  <2>3. NoLoad \in Load /\ Idle \in Auth /\ 0 \in 0 .. MaxSessions /\ 0 \in 0 .. MaxMoves
    BY BoundsAssumption DEF NoLoad, Load, Idle, Auth
  <2> QED BY <2>2, <2>3 DEF Init, TypeOK
<1>4. TokensArePast
  BY <1>2 DEF Init, TokensArePast
<1>5. CalmInv
  <2>1. \A c \in Clicks : ~Flying(c)
    BY <1>2 DEF Flying, InFlight
  <2>2. mart = Jobs /\ user = None /\ saved = {} /\ rendered.user = None
        /\ load.at = "none" /\ auth.at = "none" /\ left = {}
    BY DEF Init, NoLoad, Idle
  <2> QED BY <2>1, <2>2 DEF CalmInv, CalmAuth, Emptied, Waits, LeftHadBegun, InForce
<1> QED BY <1>3, <1>4, <1>5

--------------------------------------------------------------------------------
(* Every variable of the hearts keeps its type, in every surroundings.      *)
THEOREM TypeCorrect == Spec => []TypeOK
<1>1. Init => TypeOK
  BY InitInv
<1>2. TypeOK /\ [Next]_vars => TypeOK'
  BY TypeStep
<1>3. QED
  BY <1>1, <1>2, PTL DEF Spec

(* Whatever logins and logouts fall between a click and its request, a      *)
(* request writes rows of the user its token was issued to, or none         *)
(* (auth.ts:42-43): however many clicks, tabs, users and sessions there are.*)
THEOREM TokensGuardRows == Spec => WritesWithinItsSession
<1> DEFINE A == \A c \in Clicks : click[c].at = "send" /\ click'[c].at = "ok" =>
                  \A u \in Users : rows'[u] # rows[u] => u = click[c].owner
<1>1. Init => TypeOK /\ TokensArePast
  BY InitInv
<1>2. TypeOK /\ TokensArePast /\ [Next]_vars => (TypeOK /\ TokensArePast)'
  BY TypeStep, TokensStep
<1>3. TypeOK /\ TokensArePast /\ [Next]_vars => [A]_vars
  <2> SUFFICES ASSUME TypeOK, TokensArePast, Next, NEW c \in Clicks,
                      click[c].at = "send", click'[c].at = "ok",
                      NEW u \in Users, rows'[u] # rows[u]
               PROVE  u = click[c].owner
    OBVIOUS
  <2> USE DEF server, cookie, react
  <2>1. PICK b \in Clicks : Serve(b)
    <3>1. CASE \/ Render \/ Navigate \/ LoadStep \/ StaleLoaded
               \/ AuthStep \/ AskLogout \/ MartSwap
      BY <3>1 DEF Render, Navigate, StaleLoaded, LoadStep, ServeLoad, LoadUnreachable, Loaded, AuthStep, ServeLogout,
         LoggedOut, ServeLogin, LoginFails, LoggedIn, AskLogout, MartSwap
    <3>2. CASE \E v \in Users : AskLogin(v) \/ \E j \in Jobs : OtherDevice(v, j)
      BY <3>2 DEF AskLogin, OtherDevice
    <3>3. CASE \E v \in Users \cup {None} : SessionChanges(v)
      BY <3>3 DEF SessionChanges
    <3>4. ASSUME NEW b \in Clicks,
                 \/ FetchCsrf(b) \/ RequestLost(b) \/ Settle(b) \/ AnswerLost(b)
                 \/ \E j \in Jobs : ClickHeart(b, j)
          PROVE  FALSE
      BY <3>4 DEF FetchCsrf, RequestLost, Settle, AnswerLost, ClickHeart
    <3> QED BY <3>1, <3>2, <3>3, <3>4 DEF Next, Request
  <2>2. Accepted(b) /\ Apply(b) /\ click' = [click EXCEPT ![b].at = "ok"]
    BY <2>1 DEF Serve
  <2>3. b = c
    BY <2>2, ClickMoves DEF TypeOK, InFlight
  <2>4. click[c].owner = session
    BY <2>2, <2>3 DEF Accepted, TokensArePast
  <2>5. u = session
    BY <2>2 DEF Apply, TypeOK
  <2> QED BY <2>4, <2>5
<1>4. Spec => [][A]_vars
  BY <1>1, <1>2, <1>3, PTL DEF Spec
<1> QED BY <1>4 DEF WritesWithinItsSession

(* A tab that is alone with its account shows the hearts of its rows, for   *)
(* any number of jobs, clicks and pages, wherever it begins, whatever fails *)
(* and in whatever order the answers come: all but those whose own request  *)
(* was under way when the page was opened (job-results.tsx:24).             *)
THEOREM CalmHeartsAreTrue == SiteSpec => []CalmHeartsTellTheTruth
<1>1. Init /\ calm \in BOOLEAN => IInv
  BY InitInv DEF IInv
<1>2. IInv /\ [MCNext]_<<vars, calm>> => IInv'
  <2> SUFFICES ASSUME IInv, [MCNext]_<<vars, calm>> PROVE IInv'
    OBVIOUS
  <2>1. [Next]_vars /\ calm' = calm
    BY CalmIsNext DEF MCNext
  <2>2. TypeOK' /\ TokensArePast'
    BY <2>1, TypeStep, TokensStep DEF IInv
  <2>3. ASSUME calm PROVE CalmInv'
    <3>1. CASE CalmNext
      BY <2>3, <3>1, CalmStep DEF IInv
    <3>2. CASE UNCHANGED vars
      BY <2>3, <3>2 DEF vars, server, cookie, react, page, loads, IInv, CalmInv, CalmAuth,
         Emptied, Waits, LeftHadBegun, Flying, InForce, InStep, LoadInStep, HeartInStep, Busy,
         LeftBehind
    <3> QED BY <2>3, <3>1, <3>2 DEF MCNext
  <2> QED BY <2>1, <2>2, <2>3 DEF IInv
<1>3. IInv => CalmHeartsTellTheTruth
  <2> SUFFICES ASSUME TypeOK, CalmInv, AtRest
               PROVE  /\ user = None => saved = {}
                      /\ user # None /\ user = session =>
                           \A j \in Jobs : ~Busy(j) /\ ~LeftBehind(j) =>
                             (j \in saved <=> j \in rows[user] \cap mart)
    BY DEF IInv, CalmHeartsTellTheTruth, HeartsTellTheTruth
  <2>1. user = None => saved = {}
    BY DEF CalmInv, Emptied, AtRest
  <2>2. ASSUME user # None
        PROVE  \A j \in Jobs : ~Busy(j) /\ ~LeftBehind(j) =>
                 (j \in saved <=> j \in rows[user] \cap mart)
    BY <2>2 DEF CalmInv, InForce, InStep, AtRest, Idle
  <2> QED BY <2>1, <2>2
<1>4. QED
  BY <1>1, <1>2, <1>3, PTL DEF SiteSpec
================================================================================
