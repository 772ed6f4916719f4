------------------------------ MODULE SessionProofs ------------------------------
(****************************************************************************)
(* What holds of Session for any browsers, ids and addresses.               *)
(*                                                                          *)
(* TypeOK alone is not inductive: an answer that has succeeded must bring a *)
(* user, or LoggedIn would show somebody who is none (OkBringsUser).  The   *)
(* other two properties are inductive beside it, since rows are only added  *)
(* under ids and addresses that are free, and no action changes a password. *)
(****************************************************************************)
EXTENDS Session, TLAPS

OkBringsUser ==
  \A b \in Browsers :
    form[b] # Idle /\ form[b].op # "logout" /\ form[b].ok => form[b].session \in Users

IInv == TypeOK /\ OkBringsUser /\ OneAccountPerAddress /\ SessionsAreOwn

(* Idle is no element of Form.                                              *)
LEMMA IdleIsNoForm == Idle \notin Form
<1>1. \A f \in Form : f.op # "none"
  BY DEF Form
<1>2. Idle.op = "none"
  BY DEF Idle
<1> QED BY <1>1, <1>2

(* What a request is answered with keeps the form a form.                   *)
LEMMA AnswerTyped ==
  ASSUME form \in [Browsers -> Form \cup {Idle}], NEW b \in Browsers, form[b] # Idle,
         NEW ok \in BOOLEAN, NEW s \in Session, Answer(b, ok, s)
  PROVE  /\ form' \in [Browsers -> Form \cup {Idle}]
         /\ form'[b] # Idle
         /\ form'[b].op = form[b].op /\ form'[b].ok = ok /\ form'[b].session = s
         /\ form'[b].at = "answer"
         /\ \A c \in Browsers : c # b => form'[c] = form[c]
<1> DEFINE g == [op |-> form[b].op, at |-> "answer", typed |-> form[b].typed,
                 ok |-> ok, session |-> s]
<1>1. form[b] \in Form
  OBVIOUS
<1>2. g \in Form
  BY <1>1 DEF Form
<1>3. g.op = form[b].op /\ g.ok = ok /\ g.session = s /\ g.at = "answer"
  OBVIOUS
<1>4. form' = [form EXCEPT ![b] = g]
  BY DEF Answer
<1> HIDE DEF g
<1>5. QED
  BY <1>2, <1>3, <1>4, IdleIsNoForm

(* The token fetched, the form goes on as it is.                            *)
LEMMA PostTyped ==
  ASSUME form \in [Browsers -> Form \cup {Idle}], NEW b \in Browsers, form[b] # Idle,
         form' = [form EXCEPT ![b].at = "post"]
  PROVE  /\ form' \in [Browsers -> Form \cup {Idle}]
         /\ form'[b] # Idle
         /\ form'[b].op = form[b].op /\ form'[b].ok = form[b].ok
         /\ form'[b].session = form[b].session /\ form'[b].at = "post"
         /\ \A c \in Browsers : c # b => form'[c] = form[c]
<1>1. form[b] \in Form
  OBVIOUS
<1>2. PICK f \in Form : f = form[b]
  BY <1>1
<1>3. [f EXCEPT !.at = "post"] = [op |-> f.op, at |-> "post", typed |-> f.typed,
                                  ok |-> f.ok, session |-> f.session]
  BY DEF Form
<1> DEFINE g == [op |-> form[b].op, at |-> "post", typed |-> form[b].typed,
                 ok |-> form[b].ok, session |-> form[b].session]
<1>4. [form[b] EXCEPT !.at = "post"] = g
  BY <1>2, <1>3
<1>5. g \in Form
  BY <1>1 DEF Form
<1>6. /\ g.op = form[b].op /\ g.ok = form[b].ok /\ g.session = form[b].session
      /\ g.at = "post"
  OBVIOUS
<1>7. form' = [form EXCEPT ![b] = g]
  BY <1>4
<1> HIDE DEF g
<1>8. QED
  BY <1>5, <1>6, <1>7, IdleIsNoForm

(* A row is added under an id and an address that are free.                 *)
LEMMA InsertAdds ==
  ASSUME TypeOK, OneAccountPerAddress, NEW u \in Users \ Accounts, NEW w \in Written,
         NEW p \in Browsers \cup {NoPassword}, Insert(u, w, p), Taken(w) = {}
  PROVE  /\ account' \in [Users -> Account \cup {NoAccount}]
         /\ OneAccountPerAddress'
         /\ \A v \in Accounts : v \in Accounts' /\ account'[v].password = account[v].password
         /\ u \in Accounts' /\ account'[u].password = p
<1> DEFINE row == [email |-> w, password |-> p]
<1>1. row \in Account /\ row.email = w /\ row.password = p
  BY DEF Account
<1>2. row # NoAccount
  BY <1>1, NoAccountAssumption
<1>3. account' = [account EXCEPT ![u] = row]
  BY DEF Insert
<1> HIDE DEF row
<1>4. account' \in [Users -> Account \cup {NoAccount}]
  BY <1>1, <1>3 DEF TypeOK
<1>5. /\ account'[u] = row
      /\ \A v \in Users : v # u => account'[v] = account[v]
  BY <1>3 DEF TypeOK
<1>6. Accounts' = Accounts \cup {u}
  BY <1>2, <1>5 DEF Accounts
<1>7. \A v \in Accounts : v # u /\ v \in Users /\ account'[v] = account[v]
  BY <1>5 DEF Accounts
<1>8. \A v \in Accounts : account[v].email.address # w.address
  BY DEF Taken
<1>9. OneAccountPerAddress'
  <2> SUFFICES ASSUME NEW x \in Accounts', NEW y \in Accounts',
                      account'[x].email.address = account'[y].email.address
               PROVE  x = y
    BY DEF OneAccountPerAddress
  <2>1. CASE x \in Accounts /\ y \in Accounts
    BY <2>1, <1>7 DEF OneAccountPerAddress
  <2>2. CASE x = u /\ y \in Accounts
    BY <2>2, <1>1, <1>5, <1>7, <1>8
  <2>3. CASE y = u /\ x \in Accounts
    BY <2>3, <1>1, <1>5, <1>7, <1>8
  <2> QED BY <2>1, <2>2, <2>3, <1>6
<1> QED BY <1>1, <1>4, <1>5, <1>6, <1>7, <1>9

(* An account that changes its e-mail keeps its password.                   *)
LEMMA UpdateKeeps ==
  ASSUME TypeOK, OneAccountPerAddress, NEW u \in Users, NEW w \in Written, UpdateUser(u, w)
  PROVE  /\ account' \in [Users -> Account \cup {NoAccount}]
         /\ OneAccountPerAddress'
         /\ \A v \in Accounts : v \in Accounts' /\ account'[v].password = account[v].password
<1>1. u \in Accounts /\ account[u] \in Account
  BY DEF UpdateUser, Accounts, TypeOK
<1>2. PICK r \in Account : r = account[u]
  BY <1>1
<1>3. [r EXCEPT !.email = w] = [email |-> w, password |-> r.password]
  BY DEF Account
<1> DEFINE row == [email |-> w, password |-> account[u].password]
<1>4. row \in Account /\ row.email = w /\ row.password = account[u].password
  BY <1>1 DEF Account
<1>5. row # NoAccount
  BY <1>4, NoAccountAssumption
<1>6. account' = [account EXCEPT ![u] = row]
  BY <1>2, <1>3 DEF UpdateUser
<1> HIDE DEF row
<1>7. account' \in [Users -> Account \cup {NoAccount}]
  BY <1>4, <1>6 DEF TypeOK
<1>8. /\ account'[u] = row
      /\ \A v \in Users : v # u => account'[v] = account[v]
  BY <1>6 DEF TypeOK
<1>9. Accounts' = Accounts
  BY <1>1, <1>5, <1>8 DEF Accounts
<1>10. \A v \in Accounts : v # u => account[v].email.address # w.address
  BY DEF UpdateUser, Taken
<1>11. \A v \in Accounts : v \in Users
  BY DEF Accounts
<1>12. OneAccountPerAddress'
  <2> SUFFICES ASSUME NEW x \in Accounts, NEW y \in Accounts,
                      account'[x].email.address = account'[y].email.address
               PROVE  x = y
    BY <1>9 DEF OneAccountPerAddress
  <2>1. CASE x # u /\ y # u
    BY <2>1, <1>8, <1>11 DEF OneAccountPerAddress
  <2>2. CASE x = u /\ y # u
    BY <2>2, <1>4, <1>8, <1>10, <1>11
  <2>3. CASE y = u /\ x # u
    BY <2>3, <1>4, <1>8, <1>10, <1>11
  <2> QED BY <2>1, <2>2, <2>3
<1> QED BY <1>4, <1>7, <1>8, <1>9, <1>11, <1>12

--------------------------------------------------------------------------------
(* Before anything has happened nobody is logged in anywhere.               *)
LEMMA InitInv == Init => IInv
<1> SUFFICES ASSUME Init PROVE IInv
  OBVIOUS
<1>1. Accounts = {}
  BY DEF Init, Accounts
<1>2. Idle \in {Idle} /\ Asked \in Me /\ Asked.user = Nobody
  BY DEF Asked, Me
<1>3. TypeOK
  BY <1>2 DEF Init, TypeOK, Session
<1>4. OkBringsUser /\ OneAccountPerAddress
  BY <1>1 DEF Init, OkBringsUser, OneAccountPerAddress
<1>5. SessionsAreOwn
  BY <1>2, NamesAssumption DEF Init, SessionsAreOwn
<1> QED BY <1>3, <1>4, <1>5 DEF IInv

(* The users that browser b holds, in its cookie, on its page or in what is *)
(* under way, and the accounts that it has the password of.                 *)
Held(b) ==
  {session[b], shown[b], me[b].user}
    \cup (IF form[b] = Idle THEN {} ELSE {form[b].session})
Own(b) == {u \in Accounts : account[u].password = b}

(* Said once for all that a browser holds.                                  *)
LEMMA OwnIsHeld == SessionsAreOwn <=> \A b \in Browsers : Held(b) \cap Users \subseteq Own(b)
BY DEF SessionsAreOwn, Held, Own

(* While the accounts stay as they are, a browser may hold nobody, what it  *)
(* held and what it has the password of.                                    *)
LEMMA HeldStaysOwn ==
  ASSUME SessionsAreOwn, OneAccountPerAddress, UNCHANGED account,
         \A b \in Browsers : Held(b)' \cap Users \subseteq Held(b) \cup Own(b)
  PROVE  SessionsAreOwn' /\ OneAccountPerAddress'
<1>1. Accounts' = Accounts
  BY DEF Accounts
<1>2. \A b \in Browsers : Own(b)' = Own(b)
  BY <1>1 DEF Own
<1>3. \A b \in Browsers : Held(b)' \cap Users \subseteq Own(b)'
  BY <1>2, OwnIsHeld
<1>4. SessionsAreOwn'
  BY <1>3 DEF SessionsAreOwn, Held, Own
<1>5. OneAccountPerAddress'
  BY <1>1 DEF OneAccountPerAddress
<1> QED BY <1>4, <1>5

(* What happens to accounts alone: rows are added, and passwords kept.      *)
LEMMA AccountStep ==
  ASSUME IInv, UNCHANGED <<session, page, form, quiet>>,
         account' \in [Users -> Account \cup {NoAccount}], OneAccountPerAddress',
         \A v \in Accounts : v \in Accounts' /\ account'[v].password = account[v].password
  PROVE  IInv'
<1>1. TypeOK' /\ OkBringsUser'
  BY DEF IInv, TypeOK, OkBringsUser, page
<1>2. SessionsAreOwn'
  BY DEF IInv, SessionsAreOwn, page
<1> QED BY <1>1, <1>2 DEF IInv

(* What happens in one browser: it holds what it held, an account that it   *)
(* has the password of, or nobody.                                          *)
LEMMA BrowserStep ==
  ASSUME IInv, UNCHANGED account, NEW b \in Browsers, TypeOK',
         \A c \in Browsers \ {b} :
           /\ session'[c] = session[c] /\ shown'[c] = shown[c]
           /\ me'[c] = me[c] /\ form'[c] = form[c],
         Held(b)' \cap Users \subseteq Held(b) \cup Own(b),
         form'[b] # Idle /\ form'[b].op # "logout" /\ form'[b].ok =>
           form'[b].session \in Users
  PROVE  IInv'
<1>1. OkBringsUser'
  BY DEF IInv, OkBringsUser
<1>2. \A c \in Browsers \ {b} : Held(c)' = Held(c)
  BY DEF Held
<1>3. \A c \in Browsers : Held(c)' \cap Users \subseteq Held(c) \cup Own(c)
  BY <1>2
<1>4. SessionsAreOwn' /\ OneAccountPerAddress'
  BY <1>3, HeldStaysOwn DEF IInv
<1> QED BY <1>1, <1>4 DEF IInv

--------------------------------------------------------------------------------
(* A form that is sent, or the menu's logout, holds nobody yet.             *)
LEMMA AskInv ==
  ASSUME IInv, NEW b \in Browsers, NEW op \in {"login", "register", "logout"},
         NEW a \in Addresses, Ask(b, op, a)
  PROVE  IInv'
<1> DEFINE g == [op |-> op, at |-> "csrf", typed |-> a, ok |-> FALSE, session |-> Gone]
<1>1. g \in Form /\ g.session = Gone /\ g.ok = FALSE
  BY DEF Form, Session
<1>2. form' = [form EXCEPT ![b] = g]
  BY DEF Ask
<1> HIDE DEF g
<1>3. UNCHANGED <<account, session, shown, me, quiet>>
  BY DEF Ask, page
<1>4. form' \in [Browsers -> Form \cup {Idle}] /\ form'[b] = g
      /\ \A c \in Browsers \ {b} : form'[c] = form[c]
  BY <1>1, <1>2 DEF IInv, TypeOK
<1>5. TypeOK'
  BY <1>3, <1>4 DEF IInv, TypeOK
<1>6. Held(b)' \cap Users \subseteq Held(b)
  BY <1>1, <1>3, <1>4, NamesAssumption DEF Held
<1> QED BY <1>1, <1>3, <1>4, <1>5, <1>6, BrowserStep

(* A token is fetched for the session there is, or for a new one of nobody. *)
LEMMA FetchCsrfInv ==
  ASSUME IInv, NEW b \in Browsers, FetchCsrf(b)
  PROVE  IInv'
<1>1. form[b] # Idle /\ form' = [form EXCEPT ![b].at = "post"]
  BY DEF FetchCsrf, AtPlace, At
<1>2. /\ form' \in [Browsers -> Form \cup {Idle}]
      /\ form'[b] # Idle
      /\ form'[b].op = form[b].op /\ form'[b].ok = form[b].ok
      /\ form'[b].session = form[b].session
      /\ \A c \in Browsers : c # b => form'[c] = form[c]
  BY <1>1, PostTyped DEF IInv, TypeOK
<1>3. /\ session' \in [Browsers -> Session]
      /\ session'[b] \in {session[b], Nobody}
      /\ \A c \in Browsers : c # b => session'[c] = session[c]
  BY DEF FetchCsrf, IInv, TypeOK, Session
<1>4. UNCHANGED <<account, shown, me, quiet>>
  BY DEF FetchCsrf, page
<1>5. TypeOK'
  BY <1>2, <1>3, <1>4 DEF IInv, TypeOK
<1>6. Held(b)' \cap Users \subseteq Held(b)
  BY <1>1, <1>2, <1>3, <1>4, NamesAssumption DEF Held
<1>7. form[b].op # "logout" /\ form[b].ok => form[b].session \in Users
  BY <1>1 DEF IInv, OkBringsUser
<1> QED BY <1>2, <1>3, <1>4, <1>5, <1>6, <1>7, BrowserStep

(* The browser is answered with its own account, or with nobody.            *)
LEMMA AnswerInv ==
  ASSUME IInv, NEW b \in Browsers, form[b] # Idle, UNCHANGED <<account, shown, me>>,
         NEW ok \in BOOLEAN, NEW s \in Session, Answer(b, ok, s),
         s \in Own(b) \cup {Gone}, ok /\ form[b].op # "logout" => s \in Users,
         session' = [session EXCEPT ![b] = Gone] \/ session' = session,
         quiet' \in [Browsers -> BOOLEAN]
  PROVE  IInv'
<1>1. /\ form' \in [Browsers -> Form \cup {Idle}]
      /\ form'[b] # Idle
      /\ form'[b].op = form[b].op /\ form'[b].ok = ok /\ form'[b].session = s
      /\ \A c \in Browsers : c # b => form'[c] = form[c]
  BY AnswerTyped DEF IInv, TypeOK
<1>2. /\ session' \in [Browsers -> Session]
      /\ session'[b] \in {session[b], Gone}
      /\ \A c \in Browsers : c # b => session'[c] = session[c]
  BY DEF IInv, TypeOK, Session
<1>3. TypeOK'
  BY <1>1, <1>2 DEF IInv, TypeOK
<1>4. Held(b)' \cap Users \subseteq Held(b) \cup Own(b)
  BY <1>1, <1>2, NamesAssumption DEF Held
<1> QED BY <1>1, <1>2, <1>3, <1>4, BrowserStep

(* The new account is that of the browser that has registered it.           *)
LEMMA RegisterInv ==
  ASSUME IInv, NEW b \in Browsers, ServeRegister(b)
  PROVE  IInv'
<1>1. form[b] # Idle /\ form[b].op = "register" /\ UNCHANGED <<shown, me, quiet>>
  BY DEF ServeRegister, At, page
<1>2. CASE Refuse(b)
  BY <1>1, <1>2, AnswerInv DEF Refuse, IInv, TypeOK, Session
<1>3. ASSUME Taken(Normal(form[b].typed)) = {}, NEW u \in Users \ Accounts,
             Insert(u, Normal(form[b].typed), b), StartSession(b, u)
      PROVE  IInv'
  <2> DEFINE w == Normal(form[b].typed)
  <2>1. w \in Written
    <3>1. form[b] \in Form
      BY <1>1 DEF IInv, TypeOK
    <3>2. form[b].typed \in Addresses
      BY <3>1 DEF Form
    <3> QED BY <3>2 DEF Normal, Written
  <2> HIDE DEF w
  <2>2. Insert(u, w, b) /\ Taken(w) = {}
    BY <1>3 DEF w
  <2>3. /\ account' \in [Users -> Account \cup {NoAccount}]
        /\ OneAccountPerAddress'
        /\ \A v \in Accounts : v \in Accounts' /\ account'[v].password = account[v].password
        /\ u \in Accounts' /\ account'[u].password = b
    BY <2>1, <2>2, InsertAdds DEF IInv
  <2>4. u \in Session /\ Answer(b, TRUE, u)
    BY <1>3 DEF StartSession, Session
  <2>5. /\ form' \in [Browsers -> Form \cup {Idle}]
        /\ form'[b] # Idle
        /\ form'[b].op = form[b].op /\ form'[b].ok = TRUE /\ form'[b].session = u
        /\ \A c \in Browsers : c # b => form'[c] = form[c]
    BY <1>1, <2>4, AnswerTyped DEF IInv, TypeOK
  <2>6. /\ session' \in [Browsers -> Session]
        /\ session'[b] = Gone
        /\ \A c \in Browsers : c # b => session'[c] = session[c]
    BY <1>3 DEF StartSession, IInv, TypeOK, Session
  <2>7. TypeOK'
    BY <1>1, <2>3, <2>5, <2>6 DEF IInv, TypeOK
  <2>8. OkBringsUser'
    BY <2>5 DEF IInv, OkBringsUser
  <2>9. SessionsAreOwn'
    BY <1>1, <2>3, <2>5, <2>6, NamesAssumption DEF IInv, SessionsAreOwn
  <2> QED BY <2>3, <2>7, <2>8, <2>9 DEF IInv
<1> QED BY <1>2, <1>3 DEF ServeRegister

(* A login finds an account that has the password of the browser.           *)
LEMMA LoginInv ==
  ASSUME IInv, NEW b \in Browsers, ServeLogin(b)
  PROVE  IInv'
<1>1. form[b] # Idle /\ UNCHANGED <<account, shown, me, quiet>>
  BY DEF ServeLogin, At, page, Refuse
<1>2. CASE Refuse(b)
  BY <1>1, <1>2, AnswerInv DEF Refuse, IInv, TypeOK, Session
<1>3. ASSUME NEW u \in Login(b), StartSession(b, u) PROVE IInv'
  <2>1. u \in Own(b) /\ u \in Users
    BY DEF Login, Taken, Own, Accounts
  <2> QED BY <1>1, <1>3, <2>1, AnswerInv DEF StartSession, Session, IInv, TypeOK
<1> QED BY <1>2, <1>3 DEF ServeLogin

(* A logout leaves nobody in the cookie.                                    *)
LEMMA LogoutInv ==
  ASSUME IInv, NEW b \in Browsers, ServeLogout(b)
  PROVE  IInv'
<1>1. form[b] # Idle /\ form[b].op = "logout" /\ UNCHANGED <<account, shown, me, quiet>>
  BY DEF ServeLogout, At, page, Refuse
<1>2. CASE Refuse(b)
  BY <1>1, <1>2, AnswerInv DEF Refuse, IInv, TypeOK, Session
<1>3. CASE Answer(b, TRUE, Gone) /\ session' = [session EXCEPT ![b] = Gone]
  BY <1>1, <1>3, AnswerInv DEF Session, IInv, TypeOK
<1> QED BY <1>2, <1>3 DEF ServeLogout

(* A request or an answer that is lost is one that has failed.              *)
LEMMA LostInv ==
  ASSUME IInv, NEW b \in Browsers, RequestLost(b) \/ AnswerLost(b)
  PROVE  IInv'
<1>1. form[b] # Idle /\ Answer(b, FALSE, Gone)
  BY DEF RequestLost, AnswerLost, AtPlace, At
<1>2. UNCHANGED <<account, session, shown, me>>
  BY DEF RequestLost, AnswerLost, page
<1>3. quiet' \in [Browsers -> BOOLEAN]
  BY DEF RequestLost, AnswerLost, IInv, TypeOK
<1> QED BY <1>1, <1>2, <1>3, AnswerInv DEF Session

(* Back from a request: what the answer holds is shown, or nobody.          *)
LEMMA SettleInv ==
  ASSUME IInv, NEW b \in Browsers, Settle(b)
  PROVE  IInv'
<1>1. form[b] # Idle /\ form[b] \in Form
  BY DEF Settle, AtPlace, At, IInv, TypeOK
<1>2. UNCHANGED account /\ form' = [form EXCEPT ![b] = Idle]
  BY DEF Settle
<1>3. /\ form' \in [Browsers -> Form \cup {Idle}] /\ form'[b] = Idle
      /\ \A c \in Browsers \ {b} : form'[c] = form[c]
  BY <1>2 DEF IInv, TypeOK
<1>4. CASE LoggedIn(b)
  <2>1. form[b].session \in Users
    BY <1>1, <1>4 DEF LoggedIn, IInv, OkBringsUser
  <2>2. /\ shown' \in [Browsers -> Users \cup {Nobody}] /\ shown'[b] = form[b].session
        /\ session' \in [Browsers -> Session] /\ session'[b] = form[b].session
        /\ \A c \in Browsers \ {b} : session'[c] = session[c] /\ shown'[c] = shown[c]
    BY <1>4, <2>1 DEF LoggedIn, IInv, TypeOK, Session
  <2>3. PICK m \in Me : m = me[b]
    BY DEF IInv, TypeOK
  <2> DEFINE place == IF m.at = "asked" THEN "outdated" ELSE m.at
             n == [at |-> place, user |-> m.user]
  <2>4. n \in Me /\ n.user = m.user /\ [m EXCEPT !.at = place] = n
    BY DEF Me
  <2>5. me' = [me EXCEPT ![b] = [m EXCEPT !.at = place]]
    BY <1>4, <2>3 DEF LoggedIn
  <2>6. me' = [me EXCEPT ![b] = n]
    BY <2>4, <2>5
  <2> HIDE DEF n, place
  <2>7. /\ me' \in [Browsers -> Me] /\ me'[b].user = me[b].user
        /\ \A c \in Browsers \ {b} : me'[c] = me[c]
    BY <2>3, <2>4, <2>6 DEF IInv, TypeOK
  <2>8. quiet' \in [Browsers -> BOOLEAN]
    BY <1>4 DEF LoggedIn, IInv, TypeOK
  <2>9. TypeOK'
    BY <1>2, <1>3, <2>2, <2>7, <2>8 DEF IInv, TypeOK
  <2>10. Held(b)' \subseteq Held(b)
    BY <1>1, <1>3, <2>2, <2>7 DEF Held
  <2> QED BY <1>2, <1>3, <2>2, <2>7, <2>9, <2>10, BrowserStep
<1>5. CASE LoggedOut(b)
  <2>1. /\ shown' \in [Browsers -> Users \cup {Nobody}] /\ shown'[b] = Nobody
        /\ \A c \in Browsers \ {b} : shown'[c] = shown[c]
        /\ UNCHANGED <<session, me>>
    BY <1>5 DEF LoggedOut, IInv, TypeOK
  <2>2. quiet' \in [Browsers -> BOOLEAN]
    BY <1>5 DEF LoggedOut, IInv, TypeOK
  <2>3. TypeOK'
    BY <1>2, <1>3, <2>1, <2>2 DEF IInv, TypeOK
  <2>4. Held(b)' \cap Users \subseteq Held(b)
    BY <1>3, <2>1, NamesAssumption DEF Held
  <2> QED BY <1>2, <1>3, <2>1, <2>3, <2>4, BrowserStep
<1>6. CASE Failed(b)
  <2>1. UNCHANGED <<session, shown, me, quiet>>
    BY <1>6 DEF Failed, page
  <2>2. TypeOK'
    BY <1>2, <1>3, <2>1 DEF IInv, TypeOK
  <2>3. Held(b)' \subseteq Held(b)
    BY <1>3, <2>1 DEF Held
  <2> QED BY <1>2, <1>3, <2>1, <2>2, <2>3, BrowserStep
<1> QED BY <1>4, <1>5, <1>6 DEF Settle

(* The page asks who is logged in, and hears of nobody but its session.     *)
LEMMA MeInv ==
  ASSUME IInv, NEW b \in Browsers,
         Reload(b) \/ ServeMe(b) \/ MeFails(b) \/ MeArrives(b)
  PROVE  IInv'
<1>1. PICK m : me' = [me EXCEPT ![b] = m] /\ m \in Me
               /\ (m.user \in Held(b) \/ m.user = Nobody)
  <2>1. Asked \in Me /\ Asked.user = Nobody /\ Over \in Me /\ Over.user = Nobody
    BY DEF Asked, Over, Me
  <2>2. CASE Reload(b) \/ MeArrives(b)
    BY <2>1, <2>2 DEF Reload, MeArrives
  <2>3. CASE MeFails(b)
    <3> DEFINE n == [at |-> "answered", user |-> Nobody]
    <3>1. n \in Me /\ n.user = Nobody
      BY DEF Me
    <3> QED BY <2>3, <3>1 DEF MeFails
  <2>4. CASE ServeMe(b)
    <3> DEFINE n == [at |-> "answered",
                     user |-> IF me[b].at = "asked" THEN Whom(session[b]) ELSE Nobody]
    <3>1. Whom(session[b]) \in (Held(b) \cap Users) \cup {Nobody}
      BY DEF Whom, Held, Session, IInv, TypeOK
    <3>2. n \in Me /\ (n.user \in Held(b) \/ n.user = Nobody)
      BY <3>1 DEF Me
    <3>3. me' = [me EXCEPT ![b] = n]
      BY <2>4 DEF ServeMe
    <3> HIDE DEF n
    <3> QED BY <3>2, <3>3
  <2> QED BY <2>2, <2>3, <2>4
<1>2. /\ me' \in [Browsers -> Me] /\ me'[b] = m
      /\ \A c \in Browsers \ {b} : me'[c] = me[c]
  BY <1>1 DEF IInv, TypeOK
<1>3. /\ shown' \in [Browsers -> Users \cup {Nobody}]
      /\ shown'[b] \in Held(b) \cup {Nobody}
      /\ \A c \in Browsers \ {b} : shown'[c] = shown[c]
  <2>1. me[b] \in Me /\ me[b].user \in Users \cup {Nobody}
    BY DEF IInv, TypeOK, Me
  <2> QED BY <2>1 DEF Reload, ServeMe, MeFails, MeArrives, Held, IInv, TypeOK
<1>4. quiet' \in [Browsers -> BOOLEAN]
  BY DEF Reload, ServeMe, MeFails, MeArrives, IInv, TypeOK
<1>5. UNCHANGED <<account, session, form>>
  BY DEF Reload, ServeMe, MeFails, MeArrives
<1>6. TypeOK'
  BY <1>2, <1>3, <1>4, <1>5 DEF IInv, TypeOK
<1>7. Held(b)' \cap Users \subseteq Held(b)
  BY <1>1, <1>2, <1>3, <1>5, NamesAssumption DEF Held
<1>8. form[b] # Idle /\ form[b].op # "logout" /\ form[b].ok => form[b].session \in Users
  BY DEF IInv, OkBringsUser
<1> QED BY <1>2, <1>3, <1>5, <1>6, <1>7, <1>8, BrowserStep

(* So does the end of a session.                                            *)
LEMMA ExpireInv ==
  ASSUME IInv, NEW b \in Browsers, Expire(b)
  PROVE  IInv'
<1>1. /\ session' \in [Browsers -> Session] /\ session'[b] = Gone
      /\ \A c \in Browsers \ {b} : session'[c] = session[c]
  BY DEF Expire, IInv, TypeOK, Session
<1>2. UNCHANGED <<account, shown, me, form>>
  BY DEF Expire, page
<1>3. quiet' \in [Browsers -> BOOLEAN]
  BY DEF Expire, IInv, TypeOK
<1>4. TypeOK'
  BY <1>1, <1>2, <1>3 DEF IInv, TypeOK
<1>5. Held(b)' \cap Users \subseteq Held(b)
  BY <1>1, <1>2, NamesAssumption DEF Held
<1>6. form[b] # Idle /\ form[b].op # "logout" /\ form[b].ok => form[b].session \in Users
  BY DEF IInv, OkBringsUser
<1> QED BY <1>1, <1>2, <1>4, <1>5, <1>6, BrowserStep

--------------------------------------------------------------------------------
(* One step for every action of Next.                                       *)
LEMMA StepInv == IInv /\ [Next]_vars => IInv'
<1> SUFFICES ASSUME IInv, [Next]_vars PROVE IInv'
  OBVIOUS
<1>1. ASSUME NEW u \in Users, NEW w \in Written, CreateUser(u, w) PROVE IInv'
  <2>1. /\ u \in Users \ Accounts /\ Insert(u, w, NoPassword) /\ Taken(w) = {}
        /\ UNCHANGED <<session, page, form, quiet>>
    BY <1>1 DEF CreateUser
  <2> QED BY <2>1, InsertAdds, AccountStep DEF IInv
<1>2. ASSUME NEW u \in Users, NEW w \in Written, UpdateUser(u, w) PROVE IInv'
  <2>1. UNCHANGED <<session, page, form, quiet>>
    BY <1>2 DEF UpdateUser
  <2> QED BY <1>2, <2>1, UpdateKeeps, AccountStep DEF IInv
<1>3. ASSUME NEW b \in Browsers, NEW a \in Addresses, AskLogin(b, a) PROVE IInv'
  BY <1>3, AskInv DEF AskLogin
<1>4. ASSUME NEW b \in Browsers, NEW a \in Addresses, AskRegister(b, a) PROVE IInv'
  BY <1>4, AskInv DEF AskRegister
<1>5. ASSUME NEW b \in Browsers, AskLogout(b) PROVE IInv'
  BY <1>5, AskInv DEF AskLogout
<1>6. ASSUME NEW b \in Browsers, Request(b) PROVE IInv'
  BY <1>6, FetchCsrfInv, LoginInv, RegisterInv, LogoutInv, SettleInv DEF Request
<1>7. ASSUME NEW b \in Browsers, RequestLost(b) \/ AnswerLost(b) PROVE IInv'
  BY <1>7, LostInv
<1>8. ASSUME NEW b \in Browsers,
             Reload(b) \/ ServeMe(b) \/ MeFails(b) \/ MeArrives(b)
      PROVE  IInv'
  BY <1>8, MeInv
<1>9. ASSUME NEW b \in Browsers, Expire(b) PROVE IInv'
  BY <1>9, ExpireInv
<1>10. CASE UNCHANGED vars
  <2>1. UNCHANGED <<account, session, shown, me, form, quiet>>
    BY <1>10 DEF vars, page
  <2> QED BY <2>1 DEF IInv, TypeOK, OkBringsUser, OneAccountPerAddress, SessionsAreOwn,
                      Accounts
<1> QED BY <1>1, <1>2, <1>3, <1>4, <1>5, <1>6, <1>7, <1>8, <1>9, <1>10 DEF Next

(* The inductive invariant holds in every behaviour of Session.             *)
THEOREM InvHolds == Spec => []IInv
BY InitInv, StepInv, PTL DEF Spec

(* Every variable keeps its type, for any browsers, ids and addresses.      *)
THEOREM TypeCorrect == Spec => []TypeOK
<1>1. IInv => TypeOK
  BY DEF IInv
<1> QED BY <1>1, InvHolds, PTL

(* However many people register one address, or change to it, at the same   *)
(* time, it has one account at most (V4__unique_user_email.sql).            *)
THEOREM AddressesAreUnique == Spec => []OneAccountPerAddress
<1>1. IInv => OneAccountPerAddress
  BY DEF IInv
<1> QED BY <1>1, InvHolds, PTL

(* No browser is ever logged in to, shows, or is about to be answered with, *)
(* an account whose password its user has not set.                          *)
THEOREM NobodyElsesAccount == Spec => []SessionsAreOwn
<1>1. IInv => SessionsAreOwn
  BY DEF IInv
<1> QED BY <1>1, InvHolds, PTL

--------------------------------------------------------------------------------
(* What is shown, and what the backend takes the browser for.  In between   *)
(* two uses of a form they may differ in three ways, and Faithful says how  *)
(* far: an answer to a login waits to be shown (EndsWell), a logout was     *)
(* served and the page does not know (LogsOut), or /me has yet to arrive.   *)
EndsWell(b) ==
  form[b] # Idle /\ form[b].op # "logout" /\ form[b].at = "answer" /\ form[b].ok
LogsOut(b) == form[b] # Idle /\ form[b].op = "logout"
HasLoggedOut(b) == LogsOut(b) /\ form[b].at = "answer"

FaithfulIn(b) ==
  /\ LogsOut(b) => me[b] = Over
  /\ HasLoggedOut(b) /\ (quiet[b] \/ form[b].ok) => session[b] = Gone
  /\ quiet[b] => me[b].at # "outdated"
  /\ quiet[b] /\ ~EndsWell(b) /\ me[b].at = "answered" => me[b].user = Whom(session[b])
  /\ quiet[b] /\ ~EndsWell(b) /\ ~HasLoggedOut(b) /\ me[b] = Over =>
       shown[b] = Whom(session[b])

Faithful == \A b \in Browsers : FaithfulIn(b)

(* Over is neither asked nor answered.                                      *)
LEMMA OverIs == Over.at = "over" /\ Asked.at = "asked" /\ Asked # Over
<1>1. Over.at = "over" /\ Asked.at = "asked"
  BY DEF Over, Asked
<1> QED BY <1>1

(* Nobody's session and none at all are the same to /me.                    *)
LEMMA WhomIs == Whom(Gone) = Nobody /\ Whom(Nobody) = Nobody /\ \A u \in Users : Whom(u) = u
BY NamesAssumption DEF Whom

(* No browser's page depends on another browser.                            *)
LEMMA FaithfulElsewhere ==
  ASSUME Faithful, NEW b \in Browsers, FaithfulIn(b)',
         \A c \in Browsers \ {b} :
           /\ session'[c] = session[c] /\ shown'[c] = shown[c] /\ me'[c] = me[c]
           /\ form'[c] = form[c] /\ quiet'[c] = quiet[c]
  PROVE  Faithful'
<1>1. \A c \in Browsers \ {b} : FaithfulIn(c)'
  BY DEF Faithful, FaithfulIn, EndsWell, LogsOut, HasLoggedOut
<1> QED BY <1>1 DEF Faithful

(* A page that shows nobody is faithful.                                    *)
LEMMA FaithfulInit == Init => Faithful
<1> SUFFICES ASSUME Init PROVE Faithful
  OBVIOUS
<1>1. \A b \in Browsers : form[b] = Idle /\ me[b] = Asked /\ session[b] = Gone
  BY DEF Init
<1> QED BY <1>1, OverIs DEF Faithful, FaithfulIn, EndsWell, LogsOut, HasLoggedOut

(* A form, when nobody waits for /me if it is the menu's.                   *)
LEMMA AskFaithful ==
  ASSUME IInv, Faithful, NEW b \in Browsers, NEW op \in {"login", "register", "logout"},
         NEW a \in Addresses, Ask(b, op, a), op = "logout" => me[b] = Over
  PROVE  Faithful'
<1> DEFINE g == [op |-> op, at |-> "csrf", typed |-> a, ok |-> FALSE, session |-> Gone]
<1>1. g.op = op /\ g.at = "csrf"
  OBVIOUS
<1>2. form' = [form EXCEPT ![b] = g] /\ form[b] = Idle
  BY DEF Ask
<1> HIDE DEF g
<1>3. UNCHANGED <<session, shown, me, quiet>>
  BY DEF Ask, page
<1>4. form'[b] = g /\ \A c \in Browsers \ {b} : form'[c] = form[c]
  BY <1>2 DEF IInv, TypeOK
<1>5. FaithfulIn(b)'
  BY <1>1, <1>2, <1>3, <1>4 DEF Faithful, FaithfulIn, EndsWell, LogsOut, HasLoggedOut
<1> QED BY <1>3, <1>4, <1>5, FaithfulElsewhere

(* Fetching a CSRF token shows nothing new.                                 *)
LEMMA FetchCsrfFaithful ==
  ASSUME IInv, Faithful, NEW b \in Browsers, FetchCsrf(b)
  PROVE  Faithful'
<1>1. form[b] # Idle /\ form' = [form EXCEPT ![b].at = "post"] /\ form[b].at = "csrf"
  BY DEF FetchCsrf, AtPlace, At
<1>2. /\ form'[b] # Idle /\ form'[b].op = form[b].op /\ form'[b].at = "post"
      /\ \A c \in Browsers : c # b => form'[c] = form[c]
  BY <1>1, PostTyped DEF IInv, TypeOK
<1>3. /\ session'[b] = IF session[b] = Gone THEN Nobody ELSE session[b]
      /\ \A c \in Browsers : c # b => session'[c] = session[c]
  BY DEF FetchCsrf, IInv, TypeOK, Session
<1>4. Whom(session'[b]) = Whom(session[b])
  BY <1>3, WhomIs
<1>5. UNCHANGED <<shown, me, quiet>>
  BY DEF FetchCsrf, page
<1>6. FaithfulIn(b)'
  BY <1>1, <1>2, <1>4, <1>5 DEF Faithful, FaithfulIn, EndsWell, LogsOut, HasLoggedOut
<1> QED BY <1>2, <1>3, <1>5, <1>6, FaithfulElsewhere

(* A request is served or lost: either its success waits to be shown, or    *)
(* the session is what it was, or a logout has ended it.                    *)
LEMMA AnswerFaithful ==
  ASSUME IInv, Faithful, NEW b \in Browsers, form[b] # Idle, UNCHANGED <<shown, me>>,
         NEW ok \in BOOLEAN, NEW s \in Session, Answer(b, ok, s),
         \A c \in Browsers \ {b} : session'[c] = session[c] /\ quiet'[c] = quiet[c],
         quiet'[b] => quiet[b],
         IF form[b].op = "logout"
         THEN quiet'[b] \/ ok => session'[b] = Gone
         ELSE quiet'[b] => ok \/ (session'[b] = session[b] /\ ~EndsWell(b))
  PROVE  Faithful'
<1>1. /\ form'[b] # Idle
      /\ form'[b].op = form[b].op /\ form'[b].ok = ok /\ form'[b].at = "answer"
      /\ \A c \in Browsers : c # b => form'[c] = form[c]
  BY AnswerTyped DEF IInv, TypeOK
<1>2. FaithfulIn(b)
  BY DEF Faithful
<1>3. CASE form[b].op = "logout"
  <2>1. me'[b] = Over /\ me'[b].at = "over"
    BY <1>2, <1>3, OverIs DEF FaithfulIn, LogsOut
  <2>2. FaithfulIn(b)'
    BY <1>1, <1>3, <2>1 DEF FaithfulIn, EndsWell, LogsOut, HasLoggedOut
  <2> QED BY <1>1, <2>2, FaithfulElsewhere
<1>4. CASE form[b].op # "logout"
  <2>1. FaithfulIn(b)'
    BY <1>1, <1>2, <1>4 DEF FaithfulIn, EndsWell, LogsOut, HasLoggedOut
  <2> QED BY <1>1, <2>1, FaithfulElsewhere
<1> QED BY <1>3, <1>4

(* Requests that reach the backend.                                         *)
LEMMA ServeFaithful ==
  ASSUME IInv, Faithful, NEW b \in Browsers,
         ServeLogin(b) \/ ServeRegister(b) \/ ServeLogout(b)
  PROVE  Faithful'
<1>1. /\ form[b] # Idle /\ form[b].at = "post" /\ UNCHANGED <<shown, me, quiet>>
      /\ Gone \in Session /\ Users \subseteq Session
      /\ session \in [Browsers -> Session]
  BY DEF ServeLogin, ServeRegister, ServeLogout, At, page, Session, IInv, TypeOK
<1>2. CASE Refuse(b) /\ (form[b].op = "logout" => ~Accepted(b))
  <2>1. Answer(b, FALSE, Gone) /\ UNCHANGED session
    BY <1>2 DEF Refuse
  <2> QED BY <1>1, <1>2, <2>1, AnswerFaithful DEF Accepted, EndsWell
<1>3. ASSUME NEW u \in Users, StartSession(b, u), form[b].op # "logout" PROVE Faithful'
  BY <1>1, <1>3, AnswerFaithful DEF StartSession
<1>4. CASE /\ form[b].op = "logout"
           /\ Answer(b, TRUE, Gone) /\ session' = [session EXCEPT ![b] = Gone]
  BY <1>1, <1>4, AnswerFaithful
<1>5. CASE ServeLogin(b)
  <2>1. Login(b) \subseteq Users /\ form[b].op = "login"
    BY <1>5 DEF Login, Taken, Accounts, ServeLogin, At
  <2> QED BY <1>5, <2>1, <1>2, <1>3 DEF ServeLogin
<1>6. CASE ServeRegister(b)
  BY <1>6, <1>2, <1>3 DEF ServeRegister, At
<1>7. CASE ServeLogout(b)
  BY <1>7, <1>2, <1>4 DEF ServeLogout, At
<1> QED BY <1>5, <1>6, <1>7

(* A lost request or answer shows nothing new.                              *)
LEMMA LostFaithful ==
  ASSUME IInv, Faithful, NEW b \in Browsers, RequestLost(b) \/ AnswerLost(b)
  PROVE  Faithful'
<1>1. form[b] # Idle /\ Answer(b, FALSE, Gone) /\ UNCHANGED <<session, shown, me>>
  BY DEF RequestLost, AnswerLost, AtPlace, At, page
<1>2. Gone \in Session /\ quiet \in [Browsers -> BOOLEAN]
  BY DEF Session, IInv, TypeOK
<1>3. CASE RequestLost(b)
  <2>1. quiet' = [quiet EXCEPT ![b] = quiet[b] /\ form[b].op # "logout"] /\ ~EndsWell(b)
    BY <1>3 DEF RequestLost, AtPlace, At, EndsWell
  <2>2. /\ quiet'[b] <=> quiet[b] /\ form[b].op # "logout"
        /\ \A c \in Browsers \ {b} : quiet'[c] = quiet[c]
    BY <1>2, <2>1, Zenon
  <2> QED BY <1>1, <1>2, <2>1, <2>2, AnswerFaithful
<1>4. CASE AnswerLost(b)
  <2>1. /\ quiet' = [quiet EXCEPT ![b] = quiet[b] /\ form[b].op = "logout"]
        /\ form[b].at = "answer" /\ form[b].ok
    BY <1>4 DEF AnswerLost, AtPlace, At
  <2>2. /\ quiet'[b] <=> quiet[b] /\ form[b].op = "logout"
        /\ \A c \in Browsers \ {b} : quiet'[c] = quiet[c]
    BY <1>2, <2>1, Zenon
  <2>3. form[b].op = "logout" => session[b] = Gone
    BY <1>1, <2>1 DEF Faithful, FaithfulIn, HasLoggedOut, LogsOut
  <2> QED BY <1>1, <1>2, <2>2, <2>3, AnswerFaithful
<1> QED BY <1>3, <1>4

(* The page is brought up to what has been answered.                        *)
LEMMA SettleFaithful ==
  ASSUME IInv, Faithful, NEW b \in Browsers, Settle(b)
  PROVE  Faithful'
<1>1. /\ form[b] # Idle /\ form[b].at = "answer" /\ FaithfulIn(b)
      /\ form'[b] = Idle /\ \A c \in Browsers \ {b} : form'[c] = form[c]
  BY DEF Settle, AtPlace, At, IInv, TypeOK, Faithful
<1>2. quiet \in [Browsers -> BOOLEAN] /\ me \in [Browsers -> Me]
  BY DEF IInv, TypeOK
<1>3. CASE LoggedIn(b)
  <2>1. form[b].session \in Users /\ form[b].op # "logout" /\ form[b].ok
    BY <1>1, <1>3 DEF LoggedIn, IInv, OkBringsUser
  <2>2. /\ shown'[b] = form[b].session /\ session'[b] = form[b].session
        /\ \A c \in Browsers \ {b} : session'[c] = session[c] /\ shown'[c] = shown[c]
    BY <1>3, <2>1 DEF LoggedIn, IInv, TypeOK, Session
  <2>3. /\ quiet'[b] => me[b] = Over
        /\ \A c \in Browsers \ {b} : quiet'[c] = quiet[c]
    BY <1>2, <1>3, Zenon DEF LoggedIn
  <2>4. /\ me[b] = Over => me'[b] = [Over EXCEPT !.at = "over"]
        /\ \A c \in Browsers \ {b} : me'[c] = me[c]
    BY <1>2, <1>3, OverIs DEF LoggedIn
  <2>5. [Over EXCEPT !.at = "over"] = Over
    BY DEF Over
  <2>6. FaithfulIn(b)'
    BY <1>1, <2>1, <2>2, <2>3, <2>4, <2>5, OverIs, WhomIs
       DEF FaithfulIn, EndsWell, LogsOut, HasLoggedOut
  <2> QED BY <1>1, <2>2, <2>3, <2>4, <2>6, FaithfulElsewhere
<1>4. CASE LoggedOut(b)
  <2>1. /\ shown'[b] = Nobody /\ \A c \in Browsers \ {b} : shown'[c] = shown[c]
        /\ UNCHANGED <<session, me>> /\ form[b].op = "logout"
    BY <1>4 DEF LoggedOut, IInv, TypeOK
  <2>2. /\ quiet'[b] => quiet[b] \/ form[b].ok
        /\ \A c \in Browsers \ {b} : quiet'[c] = quiet[c]
    BY <1>2, <1>4, Zenon DEF LoggedOut
  <2>3. me'[b] = Over /\ (quiet'[b] => session'[b] = Gone)
    BY <1>1, <2>1, <2>2 DEF FaithfulIn, LogsOut, HasLoggedOut
  <2>4. FaithfulIn(b)'
    BY <1>1, <2>1, <2>3, OverIs, WhomIs DEF FaithfulIn, EndsWell, LogsOut, HasLoggedOut
  <2> QED BY <1>1, <2>1, <2>2, <2>4, FaithfulElsewhere
<1>5. CASE Failed(b)
  <2>1. UNCHANGED <<session, shown, me, quiet>> /\ form[b].op # "logout" /\ ~form[b].ok
    BY <1>5 DEF Failed, page
  <2>2. FaithfulIn(b)'
    BY <1>1, <2>1 DEF FaithfulIn, EndsWell, LogsOut, HasLoggedOut
  <2> QED BY <1>1, <2>1, <2>2, FaithfulElsewhere
<1> QED BY <1>3, <1>4, <1>5 DEF Settle

(* /me is asked, answered and shown.                                        *)
LEMMA MeFaithful ==
  ASSUME IInv, Faithful, NEW b \in Browsers,
         Reload(b) \/ ServeMe(b) \/ MeFails(b) \/ MeArrives(b)
  PROVE  Faithful'
<1>1. /\ UNCHANGED <<session, form>> /\ FaithfulIn(b)
      /\ me \in [Browsers -> Me] /\ quiet \in [Browsers -> BOOLEAN]
      /\ shown \in [Browsers -> Users \cup {Nobody}]
  BY DEF Reload, ServeMe, MeFails, MeArrives, IInv, TypeOK, Faithful
<1>2. CASE Reload(b)
  <2>1. form[b] = Idle /\ me'[b] = Asked
    BY <1>1, <1>2 DEF Reload
  <2>2. FaithfulIn(b)'
    BY <1>1, <2>1, OverIs DEF FaithfulIn, EndsWell, LogsOut, HasLoggedOut
  <2> QED BY <1>1, <1>2, <2>2, FaithfulElsewhere DEF Reload
<1>3. CASE ServeMe(b)
  <2> DEFINE w == IF me[b].at = "asked" THEN Whom(session[b]) ELSE Nobody
             n == [at |-> "answered", user |-> w]
  <2>1. UNCHANGED <<shown, quiet>> /\ me' = [me EXCEPT ![b] = n]
        /\ me[b].at \in {"asked", "outdated"}
    BY <1>3 DEF ServeMe
  <2>2. n.at = "answered" /\ n.user = w
    OBVIOUS
  <2> HIDE DEF n
  <2>3. me'[b] = n /\ \A c \in Browsers \ {b} : me'[c] = me[c]
    BY <1>1, <2>1
  <2>4. me[b] # Over /\ me'[b] # Over
    BY <2>1, <2>2, <2>3, OverIs
  <2>5. quiet[b] => w = Whom(session[b])
    BY <1>1, <2>1 DEF FaithfulIn
  <2>6. FaithfulIn(b)'
    BY <1>1, <2>1, <2>2, <2>3, <2>4, <2>5
       DEF FaithfulIn, EndsWell, LogsOut, HasLoggedOut
  <2> QED BY <1>1, <2>1, <2>3, <2>6, FaithfulElsewhere
<1>4. CASE MeFails(b)
  <2>1. /\ UNCHANGED shown /\ me[b] # Over /\ ~quiet'[b]
        /\ \A c \in Browsers \ {b} : me'[c] = me[c] /\ quiet'[c] = quiet[c]
    BY <1>1, <1>4 DEF MeFails
  <2>2. ~LogsOut(b)
    BY <1>1, <2>1 DEF FaithfulIn
  <2>3. ~LogsOut(b)'
    BY <1>1, <2>2 DEF LogsOut
  <2>4. FaithfulIn(b)'
    <3>1. ~HasLoggedOut(b)'
      BY <2>3 DEF HasLoggedOut
    <3> QED BY <2>1, <2>3, <3>1 DEF FaithfulIn
  <2> QED BY <1>1, <2>1, <2>4, FaithfulElsewhere
<1>5. CASE MeArrives(b)
  <2>1. /\ UNCHANGED quiet /\ me[b].at = "answered" /\ me'[b] = Over
        /\ shown'[b] = me[b].user
        /\ \A c \in Browsers \ {b} : me'[c] = me[c] /\ shown'[c] = shown[c]
    BY <1>1, <1>5 DEF MeArrives
  <2>2. ~LogsOut(b)
    BY <1>1, <2>1, OverIs DEF FaithfulIn
  <2>3. FaithfulIn(b)'
    BY <1>1, <2>1, <2>2, OverIs DEF FaithfulIn, EndsWell, LogsOut, HasLoggedOut
  <2> QED BY <1>1, <2>1, <2>3, FaithfulElsewhere
<1> QED BY <1>2, <1>3, <1>4, <1>5

(* A session that ends by itself is one that the page may still show.       *)
LEMMA ExpireFaithful ==
  ASSUME IInv, Faithful, NEW b \in Browsers, Expire(b)
  PROVE  Faithful'
<1>1. /\ session'[b] = Gone /\ \A c \in Browsers \ {b} : session'[c] = session[c]
      /\ UNCHANGED <<shown, me, form>> /\ FaithfulIn(b)
  BY DEF Expire, page, IInv, TypeOK, Session, Faithful
<1>2. quiet \in [Browsers -> BOOLEAN]
  BY DEF IInv, TypeOK
<1>3. /\ quiet'[b] => quiet[b] /\ session[b] = Nobody
      /\ \A c \in Browsers \ {b} : quiet'[c] = quiet[c]
  BY <1>2, Zenon DEF Expire
<1>4. FaithfulIn(b)'
  BY <1>1, <1>3, WhomIs DEF FaithfulIn, EndsWell, LogsOut, HasLoggedOut
<1> QED BY <1>1, <1>3, <1>4, FaithfulElsewhere

(* One step for every action of Next.                                       *)
LEMMA FaithfulStep == IInv /\ Faithful /\ [Next]_vars => Faithful'
<1> SUFFICES ASSUME IInv, Faithful, [Next]_vars PROVE Faithful'
  OBVIOUS
<1>1. CASE UNCHANGED <<session, page, form, quiet>>
  BY <1>1 DEF page, Faithful, FaithfulIn, EndsWell, LogsOut, HasLoggedOut
<1>2. ASSUME NEW b \in Browsers, NEW a \in Addresses, AskLogin(b, a) \/ AskRegister(b, a)
      PROVE  Faithful'
  BY <1>2, AskFaithful DEF AskLogin, AskRegister
<1>3. ASSUME NEW b \in Browsers, AskLogout(b) PROVE Faithful'
  BY <1>3, AskFaithful DEF AskLogout
<1>4. ASSUME NEW b \in Browsers, Request(b) PROVE Faithful'
  BY <1>4, FetchCsrfFaithful, ServeFaithful, SettleFaithful DEF Request
<1>5. ASSUME NEW b \in Browsers, RequestLost(b) \/ AnswerLost(b) PROVE Faithful'
  BY <1>5, LostFaithful
<1>6. ASSUME NEW b \in Browsers,
             Reload(b) \/ ServeMe(b) \/ MeFails(b) \/ MeArrives(b)
      PROVE  Faithful'
  BY <1>6, MeFaithful
<1>7. ASSUME NEW b \in Browsers, Expire(b) PROVE Faithful'
  BY <1>7, ExpireFaithful
<1> QED BY <1>1, <1>2, <1>3, <1>4, <1>5, <1>6, <1>7 DEF Next, CreateUser, UpdateUser, vars

(* The page shows whom the backend takes it for, whatever forms are sent,   *)
(* fail and overtake /me, unless one of the named things has come between.  *)
THEOREM PageIsFaithful == Spec => []ShownIsSession
<1>1. Faithful => ShownIsSession
  BY DEF Faithful, FaithfulIn, EndsWell, HasLoggedOut, LogsOut, ShownIsSession
<1>2. IInv /\ Faithful /\ [Next]_vars => Faithful'
  BY FaithfulStep
<1> QED BY <1>1, <1>2, FaithfulInit, InvHolds, PTL DEF Spec
================================================================================
