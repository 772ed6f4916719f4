--------------------------------- MODULE Session ---------------------------------
(****************************************************************************)
(* Accounts, login sessions and who the page says is logged in.             *)
(*                                                                          *)
(* Backend: the users table, with a unique index on the normalised e-mail   *)
(* (UserRepository, V4__unique_user_email.sql), and one session per         *)
(* browser cookie, which a login or registration exchanges for a new one    *)
(* and a logout ends (AuthController, SecurityConfig).  Anybody may create  *)
(* and change users through /api/users.                                     *)
(*                                                                          *)
(* Browser: one tab each.  Loading the page asks /me who is logged in       *)
(* (current-user-provider.tsx); the login form, the sign-up form and the    *)
(* user menu each fetch a CSRF token, which makes a session if there is     *)
(* none, send the request and set or clear the user (auth.ts).  Whoever     *)
(* uses a browser has one password, and the model names it by the browser.  *)
(****************************************************************************)
EXTENDS Naturals, FiniteSets

CONSTANTS Browsers,
          Users,       \* bound: ids that accounts may get
          Addresses,   \* e-mail addresses, normalised
          NoAccount,   \* an id without a row in users
          NoPassword,  \* password_hash is NULL
          Nobody,      \* not logged in
          Gone         \* the session that a cookie names is no more

ASSUME NamesAssumption ==
  /\ {Nobody, Gone} \cap Users = {} /\ Nobody # Gone
  /\ NoPassword \notin Browsers

VARIABLES
  account,  \* account[u]: the row of id u
  session,  \* session[b]: the session that browser b's cookie names
  shown,    \* shown[b]: React state: the current user
  me,       \* me[b]: the /me request of b's page
  form,     \* form[b]: the login, registration or logout under way in b
  quiet     \* quiet[b]: since b loaded its page nothing has come between

page == <<shown, me>>
vars == <<account, session, page, form, quiet>>

(* An e-mail as written: normal, or with capitals.  LoginRequest and        *)
(* RegistrationRequest make what a form sends normal, UserRequest does not. *)
Written == [address : Addresses, capitals : BOOLEAN]
Normal(a) == [address |-> a, capitals |-> FALSE]

Account == [email : Written, password : Browsers \cup {NoPassword}]
ASSUME NoAccountAssumption == NoAccount \notin Account

Session == Users \cup {Nobody, Gone}
Whom(s) == IF s = Gone THEN Nobody ELSE s

(* at "answer", ok is whether the request has succeeded, and session what   *)
(* the Set-Cookie of the answer names.                                      *)
Form == [op : {"login", "register", "logout"}, at : {"csrf", "post", "answer"},
         typed : Addresses, ok : BOOLEAN, session : Session]
Idle == [op |-> "none"]

(* me: asked with the cookie of now, or with one that was replaced since;   *)
(* answered with a user; over.  isLoading is that it is not over.           *)
Me == [at : {"asked", "outdated", "answered", "over"}, user : Users \cup {Nobody}]
Asked == [at |-> "asked", user |-> Nobody]
Over == [at |-> "over", user |-> Nobody]

TypeOK ==
  /\ account \in [Users -> Account \cup {NoAccount}]
  /\ session \in [Browsers -> Session]
  /\ shown \in [Browsers -> Users \cup {Nobody}]
  /\ me \in [Browsers -> Me]
  /\ form \in [Browsers -> Form \cup {Idle}]
  /\ quiet \in [Browsers -> BOOLEAN]

Init ==
  /\ account = [u \in Users |-> NoAccount]
  /\ session = [b \in Browsers |-> Gone]
  /\ shown = [b \in Browsers |-> Nobody]
  /\ me = [b \in Browsers |-> Asked]
  /\ form = [b \in Browsers |-> Idle]
  /\ quiet = [b \in Browsers |-> TRUE]

Accounts == {u \in Users : account[u] # NoAccount}

--------------------------------------------------------------------------------
(* Variant: the index is on the e-mail as written.                          *)
TakenX(w) == {u \in Accounts : account[u].email = w}

(* The rows that the index users_email_normalized_unique holds against w.   *)
Taken(w) == {u \in Accounts : account[u].email.address = w.address}

Insert(u, w, password) ==
  account' = [account EXCEPT ![u] = [email |-> w, password |-> password]]

(* Bound: ids are left for all registrations under way.                     *)
Room == Cardinality({b \in Browsers : form[b] # Idle /\ form[b].op = "register"})
          < Cardinality(Users \ Accounts)

(* POST /api/users: a plain INSERT without a password; the index makes it   *)
(* fail for an e-mail that is taken.                                        *)
CreateUser(u, w) ==
  /\ Room
  /\ u \notin Accounts /\ Taken(w) = {}
  /\ Insert(u, w, NoPassword)
  /\ UNCHANGED <<session, page, form, quiet>>

(* PUT /api/users/{id}: the e-mail of an account changes, unless that of    *)
(* another one is the same.  For an id that no row has nothing happens.     *)
UpdateUser(u, w) ==
  /\ u \in Accounts /\ Taken(w) \subseteq {u}
  /\ account' = [account EXCEPT ![u].email = w]
  /\ UNCHANGED <<session, page, form, quiet>>

--------------------------------------------------------------------------------
(* The forms, and the menu's logout, which is there when the page shows a   *)
(* user and /me is over.                                                    *)
Ask(b, op, a) ==
  /\ form[b] = Idle
  /\ form' = [form EXCEPT ![b] = [op |-> op, at |-> "csrf", typed |-> a,
                                  ok |-> FALSE, session |-> Gone]]
  /\ UNCHANGED <<account, session, page, quiet>>

AskLogin(b, a) == Ask(b, "login", a)

AskRegister(b, a) == Room /\ Ask(b, "register", a)

AskLogout(b) ==
  /\ me[b] = Over /\ shown[b] # Nobody
  /\ \E a \in Addresses : Ask(b, "logout", a)

At(b, op, place) == form[b] # Idle /\ form[b].op = op /\ form[b].at = place
AtPlace(b, place) == \E op \in {"login", "register", "logout"} : At(b, op, place)

(* getCsrf: a token of the cookie's session, or of a new one.               *)
FetchCsrf(b) ==
  /\ AtPlace(b, "csrf")
  /\ form' = [form EXCEPT ![b].at = "post"]
  /\ session' = [session EXCEPT ![b] = IF @ = Gone THEN Nobody ELSE @]
  /\ UNCHANGED <<account, page, quiet>>

Answer(b, ok, s) ==
  form' = [form EXCEPT ![b] = [op |-> form[b].op, at |-> "answer",
                               typed |-> form[b].typed, ok |-> ok, session |-> s]]

(* The CSRF filter: the token is that of a session that is still there.     *)
Accepted(b) == session[b] # Gone

(* Anything that is answered with an error status.                          *)
Refuse(b) == Answer(b, FALSE, Gone) /\ UNCHANGED <<account, session>>

(* startSession: the session gets another id, which the answer brings, and  *)
(* whatever was sent with the old one finds no session.                     *)
StartSession(b, u) ==
  /\ Answer(b, TRUE, u)
  /\ session' = [session EXCEPT ![b] = Gone]

(* The account that AuthService.login finds for what b has typed.           *)
Login(b) == {u \in Taken(Normal(form[b].typed)) : account[u].password = b}

ServeLogin(b) ==
  /\ At(b, "login", "post")
  /\ \/ /\ Accepted(b)
        /\ \E u \in Login(b) : StartSession(b, u)
        /\ UNCHANGED account
     \/ /\ ~Accepted(b) \/ Login(b) = {}
        /\ Refuse(b)
  /\ UNCHANGED <<page, quiet>>

(* Variant: ON CONFLICT DO UPDATE, which returns the row that is there.     *)
ServeRegisterX(b) ==
  /\ At(b, "register", "post")
  /\ \/ /\ Accepted(b) /\ Taken(Normal(form[b].typed)) = {}
        /\ \E u \in Users \ Accounts :
             Insert(u, Normal(form[b].typed), b) /\ StartSession(b, u)
     \/ /\ Accepted(b)
        /\ \E u \in Taken(Normal(form[b].typed)) : StartSession(b, u)
        /\ UNCHANGED account
     \/ /\ ~Accepted(b)
        /\ Refuse(b)
  /\ UNCHANGED <<page, quiet>>

(* createRegisteredUser: one INSERT ... ON CONFLICT DO NOTHING either makes *)
(* the account or returns no row, for 409.                                  *)
ServeRegister(b) ==
  /\ At(b, "register", "post")
  /\ \/ /\ Accepted(b) /\ Taken(Normal(form[b].typed)) = {}
        /\ \E u \in Users \ Accounts :
             Insert(u, Normal(form[b].typed), b) /\ StartSession(b, u)
     \/ /\ ~Accepted(b) \/ Taken(Normal(form[b].typed)) # {}
        /\ Refuse(b)
  /\ UNCHANGED <<page, quiet>>

(* Variant: the session is not invalidated.                                 *)
ServeLogoutX(b) ==
  /\ At(b, "logout", "post")
  /\ Answer(b, TRUE, session[b])
  /\ UNCHANGED <<account, session, page, quiet>>

(* The logout filter invalidates the session and deletes the cookie.        *)
ServeLogout(b) ==
  /\ At(b, "logout", "post")
  /\ \/ /\ Accepted(b)
        /\ Answer(b, TRUE, Gone)
        /\ session' = [session EXCEPT ![b] = Gone]
        /\ UNCHANGED account
     \/ /\ ~Accepted(b)
        /\ Refuse(b)
  /\ UNCHANGED <<page, quiet>>

(* The token or the request does not get through.  A logout then leaves a   *)
(* session behind.                                                          *)
RequestLost(b) ==
  /\ AtPlace(b, "csrf") \/ AtPlace(b, "post")
  /\ Answer(b, FALSE, Gone)
  /\ quiet' = [quiet EXCEPT ![b] = @ /\ form[b].op # "logout"]
  /\ UNCHANGED <<account, session, page>>

(* The answer does not get through.  After a login or registration the      *)
(* browser is left with the old cookie.                                     *)
AnswerLost(b) ==
  /\ AtPlace(b, "answer") /\ form[b].ok
  /\ Answer(b, FALSE, Gone)
  /\ quiet' = [quiet EXCEPT ![b] = @ /\ form[b].op = "logout"]
  /\ UNCHANGED <<account, session, page>>

--------------------------------------------------------------------------------
(* A login or registration that has succeeded shows its user, with a new    *)
(* cookie; a /me that is still under way was sent with the old one.         *)
LoggedIn(b) ==
  /\ form[b].op # "logout" /\ form[b].ok
  /\ shown' = [shown EXCEPT ![b] = form[b].session]
  /\ session' = [session EXCEPT ![b] = form[b].session]
  /\ me' = [me EXCEPT ![b].at = IF @ = "asked" THEN "outdated" ELSE @]
  /\ quiet' = [quiet EXCEPT ![b] = me[b] = Over /\ session'[b] # Gone]

(* A logout shows nobody, whether it has succeeded or not.                  *)
LoggedOut(b) ==
  /\ form[b].op = "logout"
  /\ shown' = [shown EXCEPT ![b] = Nobody]
  /\ quiet' = [quiet EXCEPT ![b] = @ \/ form[b].ok]
  /\ UNCHANGED <<session, me>>

(* Any error: a message on the form.                                        *)
Failed(b) ==
  /\ form[b].op # "logout" /\ ~form[b].ok
  /\ UNCHANGED <<session, page, quiet>>

(* Variant: isSubmitting is reset on success only.                          *)
SettleY(b) ==
  /\ AtPlace(b, "answer")
  /\ LoggedIn(b) \/ LoggedOut(b)
  /\ form' = [form EXCEPT ![b] = Idle]
  /\ UNCHANGED account

(* Back in handleSubmit or handleLogout, which end with the form free.      *)
Settle(b) ==
  /\ AtPlace(b, "answer")
  /\ LoggedIn(b) \/ LoggedOut(b) \/ Failed(b)
  /\ form' = [form EXCEPT ![b] = Idle]
  /\ UNCHANGED account

--------------------------------------------------------------------------------
(* The page is loaded again, between two uses of a form: the provider       *)
(* starts with nobody and asks /me.                                         *)
Reload(b) ==
  /\ form[b] = Idle
  /\ shown' = [shown EXCEPT ![b] = Nobody]
  /\ me' = [me EXCEPT ![b] = Asked]
  /\ quiet' = [quiet EXCEPT ![b] = TRUE]
  /\ UNCHANGED <<account, session, form>>

(* GET /me, with the cookie it was sent with: 401 without a session.        *)
ServeMe(b) ==
  /\ me[b].at \in {"asked", "outdated"}
  /\ me' = [me EXCEPT ![b] =
       [at |-> "answered",
        user |-> IF me[b].at = "asked" THEN Whom(session[b]) ELSE Nobody]]
  /\ UNCHANGED <<account, session, shown, form, quiet>>

(* /me cannot be reached or fails: treated as logged out.                   *)
MeFails(b) ==
  /\ me[b] # Over
  /\ me' = [me EXCEPT ![b] = [at |-> "answered", user |-> Nobody]]
  /\ quiet' = [quiet EXCEPT ![b] = FALSE]
  /\ UNCHANGED <<account, session, shown, form>>

(* loadUser sets whatever has come, over what a form has set since.         *)
MeArrives(b) ==
  /\ me[b].at = "answered"
  /\ shown' = [shown EXCEPT ![b] = me[b].user]
  /\ me' = [me EXCEPT ![b] = Over]
  /\ UNCHANGED <<account, session, form, quiet>>

(* The session times out, or the backend restarts.                          *)
Expire(b) ==
  /\ session[b] # Gone
  /\ session' = [session EXCEPT ![b] = Gone]
  /\ quiet' = [quiet EXCEPT ![b] = @ /\ session[b] = Nobody]
  /\ UNCHANGED <<account, page, form>>

--------------------------------------------------------------------------------
(* What ends by itself: the browser goes on, requests are served.           *)
Request(b) ==
  \/ FetchCsrf(b) \/ ServeLogin(b) \/ ServeRegister(b) \/ ServeLogout(b) \/ Settle(b)

Next ==
  \/ \E u \in Users, w \in Written : CreateUser(u, w) \/ UpdateUser(u, w)
  \/ \E b \in Browsers :
       \/ \E a \in Addresses : AskLogin(b, a) \/ AskRegister(b, a)
       \/ AskLogout(b) \/ Request(b) \/ RequestLost(b) \/ AnswerLost(b)
       \/ Reload(b) \/ ServeMe(b) \/ MeFails(b) \/ MeArrives(b) \/ Expire(b)

Spec == Init /\ [][Next]_vars

(* fetch settles: every request is served or fails.                         *)
Fairness == \A b \in Browsers : WF_vars(Request(b))

FairSpec == Spec /\ Fairness

--------------------------------------------------------------------------------
(* "Enforce normalized email uniqueness, including simultaneous             *)
(* registrations" (V4__unique_user_email.sql:1): one account at most per    *)
(* address, however registrations and /api/users run into one another, so   *)
(* a login finds one account at most (UserRepository.findLoginUserByEmail). *)
OneAccountPerAddress ==
  \A u, v \in Accounts :
    account[u].email.address = account[v].email.address => u = v

(* A browser is only ever logged in to, and only ever shows, an account     *)
(* whose password its user has set: two people who register one address at  *)
(* the same time do not end up in one account.                              *)
SessionsAreOwn ==
  \A b \in Browsers, u \in Users :
    \/ u \in {session[b], shown[b], me[b].user}
    \/ form[b] # Idle /\ form[b].session = u
    => u \in Accounts /\ account[u].password = b

(* The page shows whom the backend takes it for when nothing is under way,  *)
(* from a load of the page, a login or a logout until one of: the session   *)
(* ends by itself, a logout does not reach the backend, the answer to a     *)
(* login or to /me is lost, or a login overtakes /me.                       *)
ShownIsSession ==
  \A b \in Browsers : quiet[b] /\ form[b] = Idle /\ me[b] = Over =>
    shown[b] = Whom(session[b])

(* A form that is sent becomes free again, whatever happens to its          *)
(* requests.                                                                *)
FormsSettle == \A b \in Browsers : form[b] # Idle ~> form[b] = Idle
================================================================================
