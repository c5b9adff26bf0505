------------------------------ MODULE Accounts ------------------------------
(***************************************************************************)
(* Signing in: registration, password and OIDC login and sessions of       *)
(* src/internal/api/server.go, the command-line authorisation of           *)
(* src/internal/api/cli_auth.go, and the login of autablectl in            *)
(* src/internal/ctl/login.go.                                              *)
(*                                                                         *)
(* autablectl listens on a loopback port and opens a page of the server in *)
(* a browser; who is signed in there confirms; the server issues a code    *)
(* and redirects the browser to the port; autablectl redeems the code with *)
(* the verifier of its challenge for a session.  The user may open the     *)
(* page and confirm more than once, a callback may come late, more than    *)
(* once or never, and the call that redeems the code may reach the server  *)
(* a second time.                                                          *)
(*                                                                         *)
(* Tokens, user ids, states and verifiers are random: the id of the        *)
(* request that makes one stands for it, as do a challenge and its digest. *)
(***************************************************************************)
EXTENDS SystemStore

CONSTANTS
  Browsers, Ports,
  Providers,    \* the OIDC providers of the configuration
  SessionTTL, CliSessionTTL, CodeTTL, StateTTL,  \* lifetimes, in ticks
  MaxClock,     \* bound: the last tick
  MaxConfirms   \* bound: how often one login is confirmed

ASSUME AccountAssumption ==
  /\ {SessionTTL, CliSessionTTL, CodeTTL, StateTTL, MaxClock, MaxConfirms} \subseteq Nat
  /\ \A s \in Scenarios : \A r \in s :
       r.op = "cliTokenAgain" => \E q \in s : q.id = r.login /\ q.op = "cliLogin"

VARIABLES
  clock,
  cookie,     \* the session token in each browser
  oidcState,  \* its cookie of an OIDC login: provider, state and expiry
  shown,      \* authorisation pages on show: browser, login and its port
  codes,      \* codes not yet redeemed
  callbacks,  \* redirects to loopback ports that browsers may follow
  credentials,\* the credentials file of autablectl
  confirmed,  \* history: logins, by whom they were confirmed, with which code
  redeemed,   \* history: sessions made for codes
  split       \* history: emails that two requests upserted at the same time

browserVars == <<clock, cookie, oidcState, shown, callbacks>>
cliVars     == <<codes, credentials, confirmed, redeemed>>
signInVars  == <<browserVars, cliVars, split>>

AccountsTypeOK ==
  /\ clock \in 0 .. MaxClock
  /\ DOMAIN cookie = Browsers /\ DOMAIN oidcState = Browsers
  /\ \A c, d \in codes : c.code = d.code => c = d
  /\ \A c \in codes : c.expires \in Nat

AccountsInit ==
  /\ clock = 0
  /\ cookie = [b \in Browsers |-> Nothing]
  /\ oidcState = [b \in Browsers |-> Nothing]
  /\ shown = {} /\ codes = {} /\ callbacks = {}
  /\ credentials = Nothing
  /\ confirmed = {} /\ redeemed = {} /\ split = {}

\* The user signed in at a browser.
CookieUser(b) == UserBySessionToken(cookie[b], clock)

SetSessionCookie(b, token) == cookie' = [cookie EXCEPT ![b] = token]

\* Time passes only while a session, a code or a state may run out.
Tick ==
  /\ clock < MaxClock
  /\ \E r \in due : UnderWay(r) /\ r.op \in {"cliLogin", "oidcLogin"}
  /\ clock' = clock + 1
  /\ UNCHANGED <<requestVars, storeVars, cookie, oidcState, shown, callbacks, cliVars, split>>

-----------------------------------------------------------------------------
(* Registration and password login.                                        *)

\* Mutant of BeginUpsert: whether the email has a user is not looked up.
BeginInsert(r, user) == Goto(r, "upsert", user) /\ UNCHANGED split

\* NewPasswordUser, then the first statement of UpsertUserByEmail: a user of
\* the email gives its id.
BeginUpsert(r, user) ==
  /\ Goto(r, "upsert",
       IF UserByEmail(user.email) = {} THEN user
       ELSE [user EXCEPT !.id = (CHOOSE u \in UserByEmail(user.email) : TRUE).id])
  /\ split' = IF \E q \in due \ {r} : pc[q] = "upsert" /\ held[q].email = user.email
              THEN split \cup {user.email} ELSE split

Register(r) ==
  /\ At(r, "register", "start")
  /\ IF r.valid
     THEN BeginUpsert(r, [id |-> r.id, email |-> r.email, password |-> r.password])
     ELSE Answer(r, "invalid") /\ UNCHANGED split
  /\ UNCHANGED <<storeVars, browserVars, cliVars>>

Upsert(r) ==
  /\ pc[r] = "upsert"
  /\ UpsertUser(held[r])
  /\ Goto(r, "session", held[r])
  /\ UNCHANGED <<accessVars, scriptVars, sessions, signInVars>>

Login(r) ==
  /\ At(r, "signIn", "start")
  /\ LET known == {u \in UserByEmail(r.email) : u.password = r.password /\ r.password # Nothing}
     IN  IF known = {} THEN Answer(r, "unauthorized")
         ELSE \E u \in known : Goto(r, "session", u)
  /\ UNCHANGED <<storeVars, signInVars>>

OpenSession(r) ==
  /\ pc[r] = "session" /\ r.op \in {"register", "signIn", "oidcLogin"}
  /\ CreateSession(r.id, held[r].id, clock + SessionTTL)
  /\ SetSessionCookie(r.browser, r.id)
  /\ Answer(r, "ok")
  /\ UNCHANGED <<accessVars, scriptVars, users, clock, oidcState, shown, callbacks, cliVars, split>>

\* currentUser; a session found expired is deleted.
Me(r) ==
  /\ At(r, "me", "start")
  /\ Answer(r, IF CookieUser(r.browser) = {} THEN "unauthorized" ELSE "ok")
  /\ DropExpired(cookie[r.browser], clock)
  /\ UNCHANGED <<accessVars, scriptVars, users, signInVars>>

Logout(r) ==
  /\ At(r, "logout", "start")
  /\ DeleteSession(cookie[r.browser])
  /\ SetSessionCookie(r.browser, Nothing)
  /\ Answer(r, "ok")
  /\ UNCHANGED <<accessVars, scriptVars, users, clock, oidcState, shown, callbacks, cliVars, split>>

-----------------------------------------------------------------------------
(* OIDC login.  The provider is external: it signs a user in, or the       *)
(* exchange of its code fails.                                             *)

OIDCStart(r) ==
  /\ At(r, "oidcLogin", "start")
  /\ IF r.provider \in Providers
     THEN /\ oidcState' = [oidcState EXCEPT ![r.browser] =
                 [provider |-> r.provider, state |-> r.id, expires |-> clock + StateTTL]]
          /\ Goto(r, "away", Nothing)
     ELSE Answer(r, "notFound") /\ UNCHANGED oidcState
  /\ UNCHANGED <<storeVars, clock, cookie, shown, callbacks, cliVars, split>>

\* The cookie in the browser is the one of this login, and has not run out.
StateMatches(r) ==
  LET c == oidcState[r.browser]
  IN  c # Nothing /\ c.provider = r.provider /\ c.state = r.id /\ clock < c.expires

OIDCCallback(r) ==
  /\ At(r, "oidcLogin", "away")
  /\ oidcState' = IF StateMatches(r) THEN [oidcState EXCEPT ![r.browser] = Nothing] ELSE oidcState
  /\ IF ~StateMatches(r) \/ r.verified = FALSE
     THEN Answer(r, "unauthorized") /\ UNCHANGED split
     ELSE BeginUpsert(r, [id |-> r.id, email |-> r.email, password |-> Nothing])
  /\ UNCHANGED <<storeVars, clock, cookie, shown, callbacks, cliVars>>

-----------------------------------------------------------------------------
(* The login of autablectl.                                                *)

Listening(port) == {r \in due : r.op = "cliLogin" /\ pc[r] = "waiting" /\ held[r].port = port}

\* browserLogin listens on a free port and prints the address of the page.  The
\* bound on time leaves it time to run out.
BrowserLogin(r) ==
  /\ At(r, "cliLogin", "start") /\ clock + CodeTTL <= MaxClock
  /\ \E port \in Ports :
       /\ Listening(port) = {}
       /\ Goto(r, "waiting", [port |-> port, deadline |-> clock + CodeTTL])
  /\ UNCHANGED <<storeVars, signInVars>>

\* A browser whose session has run out; looking at it deletes it.
RunOut(b) == CookieUser(b) = {} /\ SessionOf(cookie[b]) # {}

\* Someone who is signed in at a browser opens the address: the page shows
\* whom it would authorise as.  Otherwise the browser is sent to the login.
AuthorizePage(r, b) ==
  /\ r.op = "cliLogin" /\ pc[r] = "waiting"
  /\ \/ RunOut(b) /\ UNCHANGED shown
     \/ /\ CookieUser(b) # {}
        /\ shown' = shown \cup {[browser |-> b, login |-> r.id, port |-> held[r].port]}
  /\ DropExpired(cookie[b], clock)
  /\ UNCHANGED <<requestVars, accessVars, scriptVars, users, clock, cookie, oidcState, callbacks,
                 cliVars, split>>

\* issue drops expired codes and adds a new one; the browser is sent to the
\* port with it.
Confirmations(login) == {c \in confirmed : c.login = login}
Authorize(page) ==
  /\ page \in shown
  /\ Cardinality(Confirmations(page.login)) < MaxConfirms
  /\ \/ RunOut(page.browser) /\ UNCHANGED <<codes, callbacks, confirmed>>
     \/ \E u \in CookieUser(page.browser) :
          LET code == <<page.login, Cardinality(Confirmations(page.login))>>
          IN  /\ codes' = {c \in codes : clock <= c.expires} \cup
                          {[code |-> code, user |-> u.id, challenge |-> page.login,
                            expires |-> clock + CodeTTL]}
              /\ callbacks' = callbacks \cup {[port |-> page.port, state |-> page.login, code |-> code]}
              /\ confirmed' = confirmed \cup
                                 {[login |-> page.login, user |-> u.id, code |-> code, at |-> clock]}
  /\ DropExpired(cookie[page.browser], clock)
  /\ UNCHANGED <<requestVars, accessVars, scriptVars, users, clock, cookie, oidcState, shown,
                 credentials, redeemed, split>>

\* Mutant of Awaited: whatever comes to the port is taken.
AnyCallback(c, login) == TRUE

\* A callback with another state than that of the login that listens is ignored.
Awaited(c, login) == c.state = login.id

\* The first callback with its state is taken.
Callback(c) ==
  /\ c \in callbacks
  /\ \E r \in Listening(c.port) : Awaited(c, r) /\ Goto(r, "redeem", [code |-> c.code])
  /\ UNCHANGED <<storeVars, signInVars>>

LoginTimesOut(r) ==
  /\ r.op = "cliLogin" /\ pc[r] = "waiting"
  /\ clock >= held[r].deadline
  /\ Answer(r, "failed")
  /\ UNCHANGED <<storeVars, signInVars>>

\* The call of a login reaches the server again.
ResendToken(r) ==
  /\ At(r, "cliTokenAgain", "start")
  /\ \E l \in due : l.id = r.login /\ pc[l] = "redeem" /\ Goto(r, "redeem", held[l])
  /\ UNCHANGED <<storeVars, signInVars>>

Verifier(r) == IF r.op = "cliTokenAgain" THEN r.login ELSE r.id

\* Mutant of Redeem: the code stays until it is swept.
CodesKept(code) == codes

\* redeem takes the code out, whatever else holds of it.
CodesWithout(code) == {c \in codes : c.code # code}

Redeem(r) ==
  /\ pc[r] = "redeem"
  /\ codes' = CodesWithout(held[r].code)
  /\ LET good == {c \in codes : /\ c.code = held[r].code /\ c.challenge = Verifier(r)
                                /\ clock <= c.expires}
     IN  IF good = {} THEN Answer(r, "unauthorized")
         ELSE \E c \in good : Goto(r, "issue", [code |-> c.code, user |-> c.user, at |-> clock])
  /\ UNCHANGED <<storeVars, browserVars, credentials, confirmed, redeemed, split>>

\* The user still exists; its session is made, and is the answer.
IssueToken(r) ==
  /\ pc[r] = "issue"
  /\ IF User(held[r].user) = {}
     THEN Answer(r, "unauthorized") /\ UNCHANGED <<sessions, redeemed>>
     ELSE /\ CreateSession(r.id, held[r].user, clock + CliSessionTTL)
          /\ redeemed' = redeemed \cup {[code |-> held[r].code, user |-> held[r].user,
                                     by |-> Verifier(r), token |-> r.id, at |-> held[r].at]}
          /\ IF r.op = "cliLogin" THEN Goto(r, "store", held[r]) ELSE Answer(r, "ok")
  /\ UNCHANGED <<accessVars, scriptVars, users, browserVars, codes, credentials, confirmed, split>>

\* saveCredentials replaces what another login stored; its session stays.
SaveCredentials(r) ==
  /\ At(r, "cliLogin", "store")
  /\ credentials' = [token |-> r.id, user |-> held[r].user]
  /\ Answer(r, "ok")
  /\ UNCHANGED <<storeVars, browserVars, codes, confirmed, redeemed, split>>

\* autablectl logout: the server deletes the session, and then, whether or
\* not it did, the credentials file goes.
CliLogout(r) ==
  /\ At(r, "cliLogout", "start")
  /\ IF credentials = Nothing THEN UNCHANGED sessions
     ELSE \/ DeleteSession(credentials.token)
          \/ faults < MaxFaults /\ UNCHANGED sessions
  /\ Goto(r, "forget", Nothing)
  /\ UNCHANGED <<accessVars, scriptVars, users, signInVars>>

RemoveCredentials(r) ==
  /\ At(r, "cliLogout", "forget")
  /\ credentials' = Nothing
  /\ Answer(r, "ok")
  /\ UNCHANGED <<storeVars, browserVars, codes, confirmed, redeemed, split>>

AccountsNext ==
  \/ Tick
  \/ \E r \in due :
       \/ Register(r) \/ Upsert(r) \/ Login(r) \/ OpenSession(r) \/ Me(r) \/ Logout(r)
       \/ OIDCStart(r) \/ OIDCCallback(r)
       \/ BrowserLogin(r) \/ LoginTimesOut(r) \/ ResendToken(r)
       \/ Redeem(r) \/ IssueToken(r) \/ SaveCredentials(r)
       \/ CliLogout(r) \/ RemoveCredentials(r)
       \/ \E b \in Browsers : AuthorizePage(r, b)
  \/ \E page \in shown : Authorize(page)
  \/ \E c \in callbacks : Callback(c)
=============================================================================
