------------------------------ MODULE Sessions ------------------------------
(***************************************************************************)
(* The session of one account: auth.controller.ts, oauth.controller.ts and *)
(* the authenticate middleware of the HTTP backend, and the apiClient of   *)
(* the web pages.  A session is a pair of cookies, an access token of 15   *)
(* minutes and a refresh token of 7 days, that carry the user's            *)
(* tokenVersion; signing out and a new password move the version on.  A    *)
(* call that is refused makes its page renew the access token, once for    *)
(* all the calls that wait, and is then sent once more.                    *)
(*                                                                         *)
(* A cookie lives as long as its token, so that an expired token is one    *)
(* that is no longer in the jar.  A device is a browser with one page.     *)
(***************************************************************************)
EXTENDS Integers, FiniteSets

CONSTANTS Devices, Calls,
          DeviceOf,    \* the device whose page makes a call
          Passwords,
          MaxForms,    \* bound: how many forms are submitted
          MaxExpiries, \* bound: how many cookies and links expire
          MaxFaults    \* bound: how many token checks fail on the database, and
                       \* renewals on the network or the server

ASSUME SessionsAssumption ==
  /\ DeviceOf \in [Calls -> Devices]
  /\ MaxForms \in Nat /\ MaxExpiries \in Nat /\ MaxFaults \in Nat

VARIABLES
  account,  \* the row of the user, if it exists
  jar,      \* the cookies of each device
  link,     \* whether a password reset link is valid
  call,     \* the calls of the pages
  renewal,  \* refreshPromise of each page
  form,     \* the form each device submitted
  forms, expiries, faults,
  excused   \* history: the calls that were rightly turned away

sessionVars ==
  <<account, jar, link, call, renewal, form, forms, expiries, faults,
    excused>>

Nobody == [version |-> -1, password |-> "none"]
NoPassword == "none"
Provider == "provider"

\* A token: the version it carries and, for the properties, the password
\* (or the provider) that vouched for the user when the session began.
NoToken == [version |-> -1, proof |-> "none"]
Token(version, proof) == [version |-> version, proof |-> proof]

Cookies(token) == [access |-> token, refresh |-> token]
NoCookies == Cookies(NoToken)

NoForm == [kind |-> "none", stage |-> "none", password |-> "none",
           token |-> NoToken]
Idle == [state |-> "idle", token |-> NoToken, retried |-> FALSE]
NoRenewal == [state |-> "none", token |-> NoToken]

Exists == account # Nobody
Live(token) == Exists /\ token.version = account.version

\* Nobody has signed up yet; or the user is there, signed in on every device,
\* with or without a reset link on its way; and the access tokens are fresh or
\* have expired since.
SessionsInit ==
  /\ \/ /\ account = Nobody /\ link = FALSE
        /\ jar = [d \in Devices |-> NoCookies]
     \/ \E p \in Passwords :
          /\ account = [version |-> 0, password |-> p]
          /\ link \in BOOLEAN
          /\ \E access \in {Token(0, p), NoToken} :
               jar = [d \in Devices |-> [access |-> access, refresh |-> Token(0, p)]]
  /\ call = [c \in Calls |-> Idle]
  /\ renewal = [d \in Devices |-> NoRenewal]
  /\ form = [d \in Devices |-> NoForm]
  /\ forms = 0 /\ expiries = 0 /\ faults = 0
  /\ excused = [c \in Calls |-> FALSE]

CallsOf(d) == {c \in Calls : DeviceOf[c] = d}
Open(c) == call[c].state \notin {"idle", "served", "failed", "gone"}

-----------------------------------------------------------------------------
(* The forms, from where the server reads or writes the row.  A form that  *)
(* is refused changes nothing and leaves the cookies alone.                *)

formless == <<call, renewal, expiries, faults>>

Submit(d, kind, stage, password, token) ==
  /\ form[d] = NoForm /\ forms < MaxForms /\ forms' = forms + 1
  /\ kind # "signout" => \A c \in CallsOf(d) : ~Open(c)
  /\ form' = [form EXCEPT ![d] = [kind |-> kind, stage |-> stage,
                                  password |-> password, token |-> token]]

At(d, kind, stage) == form[d].kind = kind /\ form[d].stage = stage
Answer(d, token) ==
  form' = [form EXCEPT ![d] = [kind |-> form[d].kind, stage |-> "answered",
                               password |-> form[d].password, token |-> token]]

\* The unique columns of the table decide between two of one address.
signup(d, password) ==
  /\ ~Exists
  /\ account' = [version |-> 0, password |-> password]
  /\ Submit(d, "signup", "answered", password, Token(0, password))
  /\ UNCHANGED <<jar, link, formless>>

\* The row is read, the password compared with the one read.
signin(d, password) ==
  /\ Exists /\ account.password = password
  /\ Submit(d, "signin", "checked", password, Token(account.version, password))
  /\ UNCHANGED <<account, jar, link, formless>>

\* Back from the provider: the linked user, the one of the same address, or
\* a new one without a password.
finalizeOAuth(d) ==
  /\ account' = IF Exists THEN account
                ELSE [version |-> 0, password |-> NoPassword]
  /\ Submit(d, "signin", "checked", NoPassword,
            Token(account'.version, Provider))
  /\ UNCHANGED <<jar, link, formless>>

\* (Changed form: the tokens carry the version of the row as it is by now.)
IssueCurrent(d) ==
  /\ At(d, "signin", "checked")
  /\ Answer(d, Token(account.version, form[d].token.proof))
  /\ UNCHANGED <<account, jar, link, forms, formless>>

\* Tokens with the version of the row that was read; the row is written
\* (refreshTokenExp), its version is not.
Issue(d) ==
  /\ At(d, "signin", "checked")
  /\ Answer(d, form[d].token)
  /\ UNCHANGED <<account, jar, link, forms, formless>>

\* An access token moves the version on, whatever version it has itself.
logout(d) ==
  /\ account' = IF jar[d].access = NoToken THEN account
                ELSE [account EXCEPT !.version = @ + 1]
  /\ Submit(d, "signout", "answered", NoPassword, NoToken)
  /\ UNCHANGED <<jar, link, formless>>

forgotPassword ==
  /\ Exists /\ ~link /\ link' = TRUE
  /\ forms < MaxForms /\ forms' = forms + 1
  /\ UNCHANGED <<account, jar, form, formless>>

\* The link is checked, then the new password hashed, then both written.
resetPassword(d, password) ==
  /\ link
  /\ Submit(d, "reset", "checked", password, NoToken)
  /\ UNCHANGED <<account, jar, link, formless>>

\* The link stays valid for its 30 minutes.
ResetWrite(d) ==
  /\ At(d, "reset", "checked")
  /\ account' = [version |-> account.version + 1,
                 password |-> form[d].password]
  /\ Answer(d, NoToken)
  /\ UNCHANGED <<jar, link, forms, formless>>

\* The answer reaches the browser: the new cookies, or none any more.
FormAnswered(d) ==
  /\ form[d].stage = "answered"
  /\ form' = [form EXCEPT ![d] = NoForm]
  /\ jar' = [jar EXCEPT ![d] = Cookies(form[d].token)]
  /\ UNCHANGED <<account, link, forms, formless>>

-----------------------------------------------------------------------------
(* The calls of the pages.                                                 *)

callless == <<account, jar, link, form, forms, expiries>>

Ask(c, state) ==
  call' = [call EXCEPT ![c] = [state |-> state, retried |-> call[c].retried,
                               token |-> jar[DeviceOf[c]].access]]

\* No page makes calls while its sign-in form waits for the answer.
Send(c) ==
  /\ call[c].state = "idle"
  /\ form[DeviceOf[c]].kind \in {"none", "signout"}
  /\ Ask(c, "sent")
  /\ UNCHANGED <<callless, renewal, faults>>

\* authenticate: a call it lets through goes on to the rest of the server.
Admit(c) ==
  /\ call[c].state = "sent" /\ Live(call[c].token)
  /\ call' = [call EXCEPT ![c].state = "handled"]
  /\ UNCHANGED <<callless, renewal, faults>>

\* A failure of the database is a 401 too.
Refuse(c) ==
  /\ call[c].state = "sent"
  /\ \/ ~Live(call[c].token) /\ UNCHANGED faults
     \/ Live(call[c].token) /\ faults < MaxFaults /\ faults' = faults + 1
  /\ call' = [call EXCEPT ![c].state = "refused"]
  /\ UNCHANGED <<callless, renewal>>

\* The interceptor of apiClient: a first refusal waits for the renewal, and
\* asks for it unless one is under way.
Intercept(c) ==
  LET d == DeviceOf[c] IN
  /\ call[c].state = "refused"
  /\ IF call[c].retried
       THEN /\ call' = [call EXCEPT ![c].state = "failed"]
            /\ UNCHANGED renewal
       ELSE /\ call' = [call EXCEPT ![c] = [state |-> "waits", retried |-> TRUE,
                                            token |-> call[c].token]]
            /\ renewal' = IF renewal[d].state # "none" THEN renewal
                          ELSE [renewal EXCEPT ![d] =
                            [state |-> "asked", token |-> jar[d].refresh]]
  /\ UNCHANGED <<callless, faults>>

\* refreshAccessToken of the server.
Renew(d) ==
  /\ renewal[d].state = "asked"
  /\ renewal' = [renewal EXCEPT ![d].state =
       IF Live(renewal[d].token) THEN "granted" ELSE "denied"]
  /\ UNCHANGED <<callless, call, faults>>

\* The request fails on the network or in the server, or its answer is lost.
RenewFails(d) ==
  /\ renewal[d].state \in {"asked", "granted"}
  /\ faults < MaxFaults /\ faults' = faults + 1
  /\ renewal' = [renewal EXCEPT ![d].state = "broken"]
  /\ UNCHANGED <<callless, call>>

WaitingOn(d) == {c \in CallsOf(d) : call[c].state = "waits"}

\* The calls that waited: sent again, or failed with their first refusal.
Woken(d) ==
  call' = [c \in Calls |->
    IF c \notin WaitingOn(d) THEN call[c]
    ELSE IF renewal[d].state # "granted"
      THEN [state |-> "failed", retried |-> TRUE, token |-> call[c].token]
      ELSE [state |-> "sent", retried |-> TRUE, token |-> jar'[d].access]]

\* (Changed form: refreshPromise is not forgotten once it is settled.)
RenewedOnce(d) ==
  /\ renewal[d].state \in {"granted", "denied", "broken"}
  /\ renewal[d].state # "granted" \/ WaitingOn(d) # {}
  /\ jar' = IF renewal[d].state # "granted" THEN jar
            ELSE [jar EXCEPT ![d].access = renewal[d].token]
  /\ Woken(d)
  /\ UNCHANGED <<renewal, account, link, form, forms, expiries, faults>>

\* The answer sets the new access token and settles refreshPromise.
Renewed(d) ==
  /\ renewal[d].state \in {"granted", "denied", "broken"}
  /\ renewal' = [renewal EXCEPT ![d] = NoRenewal]
  /\ jar' = IF renewal[d].state # "granted" THEN jar
            ELSE [jar EXCEPT ![d].access = renewal[d].token]
  /\ Woken(d)
  /\ UNCHANGED <<account, link, form, forms, expiries, faults>>

\* The answer of the rest of the server; a page that goes away with its call.
Serve(c, state) ==
  /\ call[c].state = "handled"
  /\ call' = [call EXCEPT ![c].state = state]
  /\ UNCHANGED <<callless, renewal, faults>>

-----------------------------------------------------------------------------
(* Time.  15 minutes are long for a call: an access token does not expire  *)
(* while calls of its page are under way.                                  *)

AccessExpires(d) ==
  /\ jar[d].access # NoToken /\ \A c \in CallsOf(d) : ~Open(c)
  /\ jar' = [jar EXCEPT ![d].access = NoToken]
  /\ UNCHANGED link

RefreshExpires(d) ==
  /\ jar[d].refresh # NoToken
  /\ jar' = [jar EXCEPT ![d].refresh = NoToken]
  /\ UNCHANGED link

LinkExpires ==
  /\ link /\ link' = FALSE
  /\ UNCHANGED jar

Expire ==
  /\ expiries < MaxExpiries /\ expiries' = expiries + 1
  /\ \/ \E d \in Devices : AccessExpires(d) \/ RefreshExpires(d)
     \/ LinkExpires
  /\ UNCHANGED <<account, call, renewal, form, forms, faults>>

-----------------------------------------------------------------------------
\* The calls during which the session was over, the refresh token expired or
\* of a version the user no longer has; whose second try met a failure of the
\* database; or that waited for a renewal that failed.
Watch ==
  excused' = [c \in Calls |->
    /\ call'[c].state # "idle"
    /\ \/ excused[c]
       \/ jar'[DeviceOf[c]].refresh.version # account'.version
       \/ account' = Nobody
       \/ faults' # faults /\ call[c] # call'[c] /\ call[c].retried
       \/ call'[c].state = "waits" /\ renewal'[DeviceOf[c]].state = "broken"]

Forms(d) ==
  \/ \E p \in Passwords : signup(d, p) \/ signin(d, p) \/ resetPassword(d, p)
  \/ finalizeOAuth(d) \/ logout(d) \/ forgotPassword

Server(d) == Issue(d) \/ ResetWrite(d) \/ FormAnswered(d)

-----------------------------------------------------------------------------
(* What must hold.                                                         *)

Tokens ==
  {jar[d].access : d \in Devices} \cup {jar[d].refresh : d \in Devices}
  \cup {form[d].token : d \in Devices} \cup {renewal[d].token : d \in Devices}
  \cup {call[c].token : c \in Calls}

\* A session that still counts was begun with the password the account has
\* now, or by the provider: however a sign-in, a reset of the password, a
\* renewal and their answers overtake each other, none leaves a session of a
\* password that was replaced (auth.controller.ts:142-210, 423-472).
CurrentPassword ==
  \A token \in Tokens \ {NoToken} :
    Live(token) => token.proof \in {account.password, Provider}

\* A page whose session counts is turned away only for a failure of the call's
\* own: a call fails if the session ended meanwhile, if the database failed its
\* second try, or if the renewal it waited for failed on the network or in the
\* server.  Not because other calls of the page found the access token gone at
\* once, a failure of the database refused its first try, or an earlier renewal
\* failed (apiClient.ts:45-97).
StaysSignedIn ==
  \A c \in Calls : call[c].state = "failed" => excused[c]

=============================================================================
