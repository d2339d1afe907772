---------------------------- MODULE HttpApi_proofs ----------------------------
(***************************************************************************)
(* What holds behind the HTTP backend, for any number of devices, calls,   *)
(* keys, forms, nodes, versions, dialogs and failures.                     *)
(*                                                                         *)
(* The session and the store of repeated mutations share only the calls,   *)
(* and the version history and the slide deck share nothing with them, so  *)
(* each of the four has an inductive invariant of its own: SessionInv,     *)
(* StoreInv, HistoryInv and DeckInv.                                       *)
(***************************************************************************)
EXTENDS HttpApi, CanvasHistory, SlideDeck, FiniteSetTheorems, TLAPS

CallStates == {"idle", "sent", "handled", "refused", "waits", "served",
               "failed", "gone"}
TokenType == [version : Nat \cup {-1},
              proof : Passwords \cup {NoPassword, Provider}]
AccountType ==
  {Nobody} \cup [version : Nat, password : Passwords \cup {NoPassword}]
JarType == [access : TokenType, refresh : TokenType]
CallType == [state : CallStates, token : TokenType, retried : BOOLEAN]
RenewalType ==
  [state : {"none", "asked", "granted", "denied", "broken"},
   token : TokenType]
FormType == [kind : {"none", "signup", "signin", "signout", "reset"},
             stage : {"none", "checked", "answered"},
             password : Passwords \cup {NoPassword}, token : TokenType]

SessionTypeOK ==
  /\ account \in AccountType
  /\ jar \in [Devices -> JarType]
  /\ link \in BOOLEAN
  /\ call \in [Calls -> CallType]
  /\ renewal \in [Devices -> RenewalType]
  /\ form \in [Devices -> FormType]
  /\ forms \in Nat /\ expiries \in Nat /\ faults \in Nat
  /\ DOMAIN excused = Calls

-----------------------------------------------------------------------------
(* The session.  A token is sound for a row of the user if it is none, or  *)
(* not of a version to come, and of the version of the row only with its   *)
(* password.  A row moves by a higher version.                             *)

Sound(token, row) ==
  \/ token = NoToken
  \/ /\ token.version \in Nat /\ token.version <= row.version
     /\ token.version = row.version => token.proof \in {row.password, Provider}

Moved(row, next) == next = row \/ next.version > row.version
Counts(token, row) == row # Nobody /\ token.version = row.version

TokensSound ==
  /\ \A d \in Devices :
       /\ Sound(jar[d].access, account) /\ Sound(jar[d].refresh, account)
       /\ Sound(form[d].token, account) /\ Sound(renewal[d].token, account)
  /\ \A c \in Calls : Sound(call[c].token, account)

\* While a call of a page is open its device can only sign out.
FormsApart ==
  /\ \A c \in Calls : Open(c) => form[DeviceOf[c]].kind \in {"none", "signout"}
  /\ \A d \in Devices :
       /\ form[d].kind = "none" => form[d].stage = "none"
       /\ form[d].kind = "signout" => form[d].token = NoToken

\* Whose session is over is excused.
OverIsExcused ==
  \A c \in Calls : call[c].state # "idle" =>
                     Counts(jar[DeviceOf[c]].refresh, account) \/ excused[c]

\* A renewal is under way exactly while calls wait for it, and it is about
\* the refresh token of the jar, unless that one counts no more.
RenewalsServe ==
  /\ \A c \in Calls :
       call[c].state = "waits" => renewal[DeviceOf[c]].state # "none"
  /\ \A d \in Devices : renewal[d].state # "none" =>
       /\ \E c \in CallsOf(d) : call[c].state = "waits"
       /\ \/ renewal[d].token = jar[d].refresh
          \/ ~Counts(jar[d].refresh, account)
       /\ renewal[d].state = "denied" => ~Counts(jar[d].refresh, account)

\* Who waits for a renewal that failed for another reason is excused.
BrokenExcuses ==
  \A c \in Calls :
    call[c].state = "waits" /\ renewal[DeviceOf[c]].state = "broken" => excused[c]

\* The second try of a call is only refused to those that are excused.
SecondTries ==
  \A c \in Calls :
    /\ call[c].state = "idle" => ~call[c].retried
    /\ call[c].state = "sent" /\ call[c].retried =>
         Counts(call[c].token, account) \/ excused[c]
    /\ call[c].state = "refused" /\ call[c].retried => excused[c]

SessionInv ==
  /\ SessionTypeOK /\ TokensSound /\ FormsApart /\ OverIsExcused
  /\ RenewalsServe /\ BrokenExcuses /\ SecondTries /\ StaysSignedIn

-----------------------------------------------------------------------------
(* The store.                                                              *)

AllUses == UNION {Uses[c] : c \in Requests}
Telling == {"running", "wrote", "lost"}
UseType == {NoRequest.use} \cup AllUses

EntryType == [owner : Requests \cup {NoCall}, cached : BOOLEAN]
RequestType ==
  [state : {"none", "running", "wrote", "waiting", "done", "lost"},
   use : UseType, awaits : Requests \cup {NoCall}, captured : BOOLEAN]
AnswerType == [kind : {"none", "given", "refused", "conflict", "error"},
               of : Requests \cup {NoCall}]

StoreTypeOK ==
  /\ store \in [Keys -> EntryType]
  /\ request \in [Requests -> RequestType]
  /\ answer \in [Requests -> AnswerType]
  /\ mishaps \in Nat
  /\ forgotten \subseteq Requests /\ written \subseteq Requests

\* The calls that have come to the store.
Come(c) == c \in Requests /\ request[c].state # "none"

\* Who has come used a key of the store; who wrote or was answered has come.
ComersHaveKeys ==
  /\ \A c \in Requests : Come(c) => KeyOf(c) \in Keys
  /\ \A c \in written : Come(c)
  /\ \A c \in Requests : answer[c].kind = "given" => Come(c)

\* A pending entry is of a call that will still tell its answer.
EntriesOwned ==
  \A k \in Keys : store[k] # NoEntry =>
    LET owner == store[k].owner IN
    /\ Come(owner) /\ KeyOf(owner) = k
    /\ ~store[k].cached => /\ request[owner].state \in Telling
                           /\ ~request[owner].captured

\* Whoever ran under a key still has the entry, or lost it before its time.
RunnersOwn ==
  \A c \in Requests : c \in written \/ request[c].state \in Telling =>
    c \in forgotten \/ store[KeyOf(c)].owner = c

\* Who waits, waits for a call of the same key and body that will still tell.
WaitersServed ==
  \A c \in Requests : request[c].state = "waiting" =>
    LET first == request[c].awaits IN
    /\ first \in Requests
    /\ KeyOf(first) = KeyOf(c) /\ BodyOf(first) = BodyOf(c)
    /\ request[first].state \in Telling /\ ~request[first].captured

StoreInv ==
  /\ StoreTypeOK /\ ComersHaveKeys /\ EntriesOwned /\ RunnersOwn
  /\ WaitersServed /\ AnswersAreReal

-----------------------------------------------------------------------------
(* Tokens and rows.                                                        *)

\* A sound token stays sound when the row moves.
LEMMA StaysSound ==
  ASSUME NEW a \in AccountType, NEW b \in AccountType, Moved(a, b),
         NEW t \in TokenType, Sound(t, a)
  PROVE  Sound(t, b)
  BY DEF AccountType, TokenType, Moved, Sound, Nobody, NoToken

\* A token that counts no more never counts again.
LEMMA StaysOver ==
  ASSUME NEW a \in AccountType, NEW b \in AccountType, Moved(a, b),
         NEW t \in TokenType, Sound(t, a), ~Counts(t, a)
  PROVE  ~Counts(t, b)
  BY DEF AccountType, TokenType, Moved, Sound, Counts, Nobody, NoToken

LEMMA NoTokenFits ==
  ASSUME NEW a \in AccountType
  PROVE  NoToken \in TokenType /\ Sound(NoToken, a) /\ ~Counts(NoToken, a)
  BY DEF AccountType, TokenType, Sound, Counts, Nobody, NoToken, NoPassword

\* What Watch notes.
LEMMA WatchNotes ==
  ASSUME Watch, NEW c \in Calls
  PROVE  /\ DOMAIN excused' = Calls
         /\ excused'[c] <=>
              /\ call'[c].state # "idle"
              /\ \/ excused[c]
                 \/ jar'[DeviceOf[c]].refresh.version # account'.version
                 \/ account' = Nobody
                 \/ faults' # faults /\ call[c] # call'[c] /\ call[c].retried
                 \/ /\ call'[c].state = "waits"
                    /\ renewal'[DeviceOf[c]].state = "broken"
  BY DEF Watch

-----------------------------------------------------------------------------
(* The forms move the row, the jars and the forms, and nothing else.       *)

FormsKept ==
  /\ form' \in [Devices -> FormType]
  /\ \A e \in Devices :
       /\ Sound(form'[e].token, account')
       /\ form'[e].kind = "none" => form'[e].stage = "none"
       /\ form'[e].kind = "signout" => form'[e].token = NoToken
       /\ \/ form'[e].kind \in {"none", "signout", form[e].kind}
          \/ \A c \in CallsOf(e) : ~Open(c)

FormsMoved ==
  /\ account' \in AccountType /\ Moved(account, account')
  /\ link' \in BOOLEAN /\ forms' \in Nat
  /\ UNCHANGED <<call, renewal, expiries, faults>>
  /\ FormsKept
  /\ jar' \in [Devices -> JarType]
  /\ \A e \in Devices :
       \/ jar'[e] = jar[e]
       \/ form[e].stage = "answered" /\ jar'[e] = Cookies(form[e].token)

\* A form of device d is replaced by one that fits.
LEMMA FormReplaced ==
  ASSUME SessionTypeOK, TokensSound, FormsApart,
         account' \in AccountType, Moved(account, account'),
         NEW d \in Devices, NEW f \in FormType, form' = [form EXCEPT ![d] = f],
         Sound(f.token, account'),
         f.kind = "none" => f.stage = "none",
         f.kind = "signout" => f.token = NoToken,
         \/ f.kind \in {"none", "signout", form[d].kind}
         \/ \A c \in CallsOf(d) : ~Open(c)
  PROVE  FormsKept
<1>1. form' \in [Devices -> FormType]
  BY DEF SessionTypeOK
<1>2. ASSUME NEW e \in Devices, e # d PROVE form'[e] = form[e]
  BY <1>2 DEF SessionTypeOK
<1>3. form'[d] = f
  BY DEF SessionTypeOK
<1>4. ASSUME NEW e \in Devices PROVE Sound(form'[e].token, account')
  <2>1. form[e].token \in TokenType /\ account \in AccountType
    BY DEF SessionTypeOK, FormType
  <2>2. Sound(form[e].token, account')
    BY <2>1, StaysSound DEF TokensSound
  <2> QED BY <1>2, <1>3, <2>2
<1> QED BY <1>1, <1>2, <1>3, <1>4 DEF FormsKept, FormsApart

LEMMA SubmitKeeps ==
  ASSUME SessionTypeOK, TokensSound, FormsApart,
         account' \in AccountType, Moved(account, account'),
         NEW d \in Devices,
         NEW kind \in {"signup", "signin", "signout", "reset"},
         NEW stage \in {"checked", "answered"},
         NEW password \in Passwords \cup {NoPassword},
         NEW token \in TokenType, Sound(token, account'),
         kind = "signout" => token = NoToken,
         Submit(d, kind, stage, password, token)
  PROVE  FormsKept /\ forms' \in Nat
<1> DEFINE f == [kind |-> kind, stage |-> stage, password |-> password,
                 token |-> token]
<1>1. f \in FormType /\ f.kind = kind /\ f.token = token
  BY DEF FormType
<1>2. form' = [form EXCEPT ![d] = f] /\ forms' = forms + 1
  BY DEF Submit
<1>3. kind # "signout" => \A c \in CallsOf(d) : ~Open(c)
  BY DEF Submit
<1>4. forms' \in Nat
  BY <1>2 DEF SessionTypeOK
<1> HIDE DEF f
<1> QED BY <1>1, <1>2, <1>3, <1>4, FormReplaced

LEMMA AnswerKeeps ==
  ASSUME SessionTypeOK, TokensSound, FormsApart,
         account' \in AccountType, Moved(account, account'),
         NEW d \in Devices, form[d].kind \in {"signin", "reset"},
         NEW token \in TokenType, Sound(token, account'), Answer(d, token)
  PROVE  FormsKept
<1> DEFINE f == [kind |-> form[d].kind, stage |-> "answered",
                 password |-> form[d].password, token |-> token]
<1>1. f \in FormType /\ f.kind = form[d].kind /\ f.token = token
  BY DEF FormType, SessionTypeOK
<1>2. form' = [form EXCEPT ![d] = f]
  BY DEF Answer
<1> HIDE DEF f
<1> QED BY <1>1, <1>2, FormReplaced

\* Each form and each answer of the server to one.
LEMMA FormsMove ==
  ASSUME SessionTypeOK, TokensSound, FormsApart,
         NEW d \in Devices, Forms(d) \/ Server(d)
  PROVE  FormsMoved
<1> USE DEF formless
<1>a. /\ account \in AccountType /\ jar \in [Devices -> JarType]
      /\ link \in BOOLEAN /\ forms \in Nat
      /\ form \in [Devices -> FormType]
  BY DEF SessionTypeOK
<1>n. NoToken \in TokenType /\ Sound(NoToken, account)
  BY <1>a, NoTokenFits
<1>o. NoPassword \in Passwords \cup {NoPassword}
  OBVIOUS
<1>b. Moved(account, account)
  BY DEF Moved
<1>1. ASSUME NEW p \in Passwords, signup(d, p) PROVE FormsMoved
  <2> DEFINE row == [version |-> 0, password |-> p]
             token == Token(0, p)
  <2>1. account' = row /\ account = Nobody /\ row \in AccountType
    BY <1>1 DEF signup, Exists, AccountType
  <2>2. Moved(account, account')
    BY <2>1 DEF Moved, Nobody
  <2>3. token \in TokenType /\ Sound(token, account')
    BY <2>1 DEF Token, TokenType, Sound
  <2>4. Submit(d, "signup", "answered", p, token)
    BY <1>1 DEF signup
  <2>5. UNCHANGED <<jar, link, call, renewal, expiries, faults>>
    BY <1>1 DEF signup
  <2>6. account' \in AccountType
    BY <2>1
  <2> HIDE DEF row, token
  <2>7. FormsKept /\ forms' \in Nat
    BY <2>2, <2>3, <2>4, <2>6, SubmitKeeps
  <2> QED BY <1>a, <2>2, <2>5, <2>6, <2>7 DEF FormsMoved
<1>2. ASSUME NEW p \in Passwords, signin(d, p) PROVE FormsMoved
  <2> DEFINE token == Token(account.version, p)
  <2>1. /\ account # Nobody /\ account.password = p /\ account' = account
        /\ UNCHANGED <<jar, link, call, renewal, expiries, faults>>
    BY <1>2 DEF signin, Exists
  <2>2. token \in TokenType /\ Sound(token, account')
    BY <1>a, <2>1 DEF Token, TokenType, Sound, AccountType
  <2>3. Submit(d, "signin", "checked", p, token)
    BY <1>2 DEF signin
  <2> HIDE DEF token
  <2>4. FormsKept /\ forms' \in Nat
    BY <1>a, <1>b, <2>1, <2>2, <2>3, SubmitKeeps
  <2> QED BY <1>a, <1>b, <2>1, <2>4 DEF FormsMoved
<1>3. ASSUME NEW p \in Passwords, resetPassword(d, p) PROVE FormsMoved
  <2>1. /\ account' = account
        /\ UNCHANGED <<jar, link, call, renewal, expiries, faults>>
        /\ Submit(d, "reset", "checked", p, NoToken)
    BY <1>3 DEF resetPassword
  <2>2. FormsKept /\ forms' \in Nat
    BY <1>a, <1>b, <1>n, <2>1, SubmitKeeps
  <2> QED BY <1>a, <1>b, <2>1, <2>2 DEF FormsMoved
<1>4. CASE finalizeOAuth(d)
  <2> DEFINE token == Token(account'.version, Provider)
  <2>1. /\ account' \in AccountType \ {Nobody}
        /\ Moved(account, account')
    BY <1>4, <1>a DEF finalizeOAuth, Exists, AccountType, Nobody, Moved
  <2>2. token \in TokenType /\ Sound(token, account')
    BY <2>1 DEF Token, TokenType, Sound, AccountType
  <2>3. /\ Submit(d, "signin", "checked", NoPassword, token)
        /\ UNCHANGED <<jar, link, call, renewal, expiries, faults>>
    BY <1>4 DEF finalizeOAuth
  <2> HIDE DEF token
  <2>4. FormsKept /\ forms' \in Nat
    BY <1>o, <2>1, <2>2, <2>3, SubmitKeeps
  <2> QED BY <1>a, <2>1, <2>3, <2>4 DEF FormsMoved
<1>5. CASE logout(d)
  <2>1. account = Nobody => jar[d].access = NoToken
    BY <1>a DEF TokensSound, Sound, Nobody
  <2>2. account' \in AccountType /\ Moved(account, account')
    BY <1>5, <1>a, <2>1 DEF logout, AccountType, Moved
  <2>3. /\ Submit(d, "signout", "answered", NoPassword, NoToken)
        /\ UNCHANGED <<jar, link, call, renewal, expiries, faults>>
    BY <1>5 DEF logout
  <2>4. NoToken \in TokenType /\ Sound(NoToken, account')
    BY <2>2, NoTokenFits
  <2>5. FormsKept /\ forms' \in Nat
    BY <1>o, <2>2, <2>3, <2>4, SubmitKeeps
  <2> QED BY <1>a, <2>2, <2>3, <2>5 DEF FormsMoved
<1>6. CASE forgotPassword
  <2>1. /\ account' = account /\ link' = TRUE /\ form' = form
        /\ forms' = forms + 1
        /\ UNCHANGED <<jar, call, renewal, expiries, faults>>
    BY <1>6 DEF forgotPassword
  <2>2. FormsKept
    BY <1>a, <2>1 DEF FormsKept, TokensSound, FormsApart
  <2> QED BY <1>a, <1>b, <2>1, <2>2 DEF FormsMoved
<1>7. CASE Issue(d)
  <2>1. /\ account' = account /\ Answer(d, form[d].token)
        /\ form[d].kind = "signin"
        /\ UNCHANGED <<jar, link, forms, call, renewal, expiries, faults>>
    BY <1>7 DEF Issue, At
  <2>2. form[d].token \in TokenType /\ Sound(form[d].token, account')
    BY <1>a, <2>1 DEF TokensSound, FormType
  <2>3. FormsKept
    BY <1>a, <1>b, <2>1, <2>2, AnswerKeeps
  <2> QED BY <1>a, <1>b, <2>1, <2>3 DEF FormsMoved
<1>8. CASE ResetWrite(d)
  <2>1. /\ account' = [version |-> account.version + 1,
                       password |-> form[d].password]
        /\ Answer(d, NoToken) /\ form[d].kind = "reset"
        /\ UNCHANGED <<jar, link, forms, call, renewal, expiries, faults>>
    BY <1>8 DEF ResetWrite, At
  <2>2. account.version \in Nat \cup {-1}
    BY <1>a DEF AccountType, Nobody
  <2>3. form[d].password \in Passwords \cup {NoPassword}
    BY <1>a DEF FormType
  <2>4. account' \in AccountType /\ Moved(account, account')
    BY <2>1, <2>2, <2>3 DEF AccountType, Moved
  <2>5. NoToken \in TokenType /\ Sound(NoToken, account')
    BY <2>4, NoTokenFits
  <2>6. FormsKept
    BY <2>1, <2>4, <2>5, AnswerKeeps
  <2> QED BY <1>a, <2>1, <2>4, <2>6 DEF FormsMoved
<1>9. CASE FormAnswered(d)
  <2>1. /\ account' = account /\ form[d].stage = "answered"
        /\ form' = [form EXCEPT ![d] = NoForm]
        /\ jar' = [jar EXCEPT ![d] = Cookies(form[d].token)]
        /\ UNCHANGED <<link, forms, call, renewal, expiries, faults>>
    BY <1>9 DEF FormAnswered
  <2>2. NoForm \in FormType /\ NoForm.token = NoToken /\ NoForm.kind = "none"
        /\ NoForm.stage = "none"
    BY <1>n DEF NoForm, FormType, NoPassword
  <2>3. FormsKept
    <3>1. Sound(NoForm.token, account')
      BY <1>n, <2>1, <2>2
    <3> QED BY <1>a, <1>b, <2>1, <2>2, <3>1, FormReplaced
  <2>4. Cookies(form[d].token) \in JarType
    BY <1>a DEF Cookies, JarType, FormType
  <2>5. /\ jar' \in [Devices -> JarType]
        /\ \A e \in Devices : \/ jar'[e] = jar[e]
                              \/ e = d /\ jar'[e] = Cookies(form[d].token)
    BY <1>a, <2>1, <2>4
  <2> QED BY <1>a, <1>b, <2>1, <2>3, <2>5 DEF FormsMoved
<1> QED
  BY <1>1, <1>2, <1>3, <1>4, <1>5, <1>6, <1>7, <1>8, <1>9 DEF Forms, Server

-----------------------------------------------------------------------------
(* Every step of the session keeps the invariant.                          *)

\* Who is excused stays so; whose session is over, and who waits for a renewal
\* that failed, becomes so.
LEMMA WatchExcuses ==
  ASSUME Watch
  PROVE  /\ OverIsExcused' /\ BrokenExcuses'
         /\ \A c \in Calls : excused[c] /\ call'[c].state # "idle" => excused'[c]
  BY WatchNotes DEF OverIsExcused, BrokenExcuses, Counts

\* What a form leaves to be known: calls and renewals stand still, and the
\* jar of a device changes only when it has no call open, or to nothing.
LEMMA FormsKeep ==
  ASSUME SessionInv, FormsMoved, Watch
  PROVE  SessionInv'
<1> USE DEF SessionInv
<1>1. SessionTypeOK'
  BY WatchNotes DEF FormsMoved, FormsKept, SessionTypeOK, Watch
<1>2. TokensSound'
  <2>1. ASSUME NEW t \in TokenType, Sound(t, account) PROVE Sound(t, account')
    BY <2>1, StaysSound DEF FormsMoved, SessionTypeOK
  <2>2. ASSUME NEW c \in Calls PROVE Sound(call'[c].token, account')
    BY <2>1 DEF FormsMoved, SessionTypeOK, CallType, TokensSound
  <2>3. ASSUME NEW e \in Devices PROVE Sound(renewal'[e].token, account')
    BY <2>1 DEF FormsMoved, SessionTypeOK, RenewalType, TokensSound
  <2>4. ASSUME NEW e \in Devices
        PROVE  Sound(jar'[e].access, account') /\ Sound(jar'[e].refresh, account')
    <3>1. CASE jar'[e] = jar[e]
      BY <2>1, <3>1 DEF SessionTypeOK, JarType, TokensSound
    <3>2. CASE jar'[e] = Cookies(form[e].token)
      BY <2>1, <3>2 DEF SessionTypeOK, FormType, Cookies, TokensSound
    <3> QED BY <3>1, <3>2 DEF FormsMoved
  <2>5. ASSUME NEW e \in Devices PROVE Sound(form'[e].token, account')
    BY DEF FormsMoved, FormsKept
  <2> QED BY <2>2, <2>3, <2>4, <2>5 DEF TokensSound
<1>3. FormsApart'
  <2>1. ASSUME NEW c \in Calls, Open(c)'
        PROVE  form'[DeviceOf[c]].kind \in {"none", "signout"}
    <3>1. Open(c) /\ DeviceOf[c] \in Devices /\ c \in CallsOf(DeviceOf[c])
      BY <2>1, SessionsAssumption DEF FormsMoved, Open, CallsOf
    <3>2. form[DeviceOf[c]].kind \in {"none", "signout"}
      BY <3>1 DEF FormsApart
    <3> QED BY <3>1, <3>2 DEF FormsMoved, FormsKept
  <2> QED BY <2>1 DEF FormsMoved, FormsKept, FormsApart
<1>4. OverIsExcused'
  BY WatchExcuses
<1>5. ASSUME NEW e \in Devices, NEW c \in CallsOf(e), Open(c),
             ~Counts(jar[e].refresh, account)
      PROVE  ~Counts(jar'[e].refresh, account')
  <2>1. CASE jar'[e] = jar[e]
    <3>1. /\ account \in AccountType /\ jar[e].refresh \in TokenType
          /\ Sound(jar[e].refresh, account)
          /\ account' \in AccountType /\ Moved(account, account')
      BY DEF SessionTypeOK, JarType, TokensSound, FormsMoved
    <3>2. ~Counts(jar[e].refresh, account')
      BY <1>5, <3>1, StaysOver
    <3> QED BY <2>1, <3>2
  <2>2. CASE form[e].stage = "answered" /\ jar'[e] = Cookies(form[e].token)
    <3>1. form[e].token = NoToken
      BY <1>5, <2>2 DEF FormsApart, CallsOf
    <3>2. jar'[e].refresh = NoToken /\ account' \in AccountType
      BY <2>2, <3>1 DEF Cookies, FormsMoved
    <3> QED BY <3>2, NoTokenFits
  <2> QED BY <2>1, <2>2 DEF FormsMoved
<1>6. RenewalsServe'
  <2>1. call' = call /\ renewal' = renewal
    BY DEF FormsMoved
  <2>2. ASSUME NEW d \in Devices, renewal[d].state # "none"
        PROVE  /\ \/ renewal[d].token = jar'[d].refresh
                  \/ ~Counts(jar'[d].refresh, account')
               /\ renewal[d].state = "denied" => ~Counts(jar'[d].refresh, account')
    <3>1. PICK c \in CallsOf(d) : call[c].state = "waits"
      BY <2>2 DEF RenewalsServe
    <3>2. Open(c) /\ c \in Calls /\ DeviceOf[c] = d
      BY <3>1 DEF Open, CallsOf
    <3>3. CASE ~Counts(jar[d].refresh, account)
      BY <1>5, <3>2, <3>3
    <3>4. CASE Counts(jar[d].refresh, account)
      <4>1. renewal[d].token = jar[d].refresh /\ renewal[d].state # "denied"
        BY <2>2, <3>4 DEF RenewalsServe
      <4>2. CASE jar'[d] = jar[d]
        BY <4>1, <4>2
      <4>3. CASE form[d].stage = "answered" /\ jar'[d] = Cookies(form[d].token)
        <5>1. form[d].token = NoToken
          BY <3>2, <4>3 DEF FormsApart
        <5>2. jar'[d].refresh = NoToken /\ account' \in AccountType
          BY <4>3, <5>1 DEF Cookies, FormsMoved
        <5> QED BY <4>1, <5>2, NoTokenFits
      <4> QED BY <4>2, <4>3 DEF FormsMoved
    <3> QED BY <3>3, <3>4
  <2> QED BY <2>1, <2>2 DEF RenewalsServe, CallsOf
<1>7. SecondTries'
  <2>1. call' = call
    BY DEF FormsMoved
  <2>2. ASSUME NEW c \in Calls, call[c].state = "sent", call[c].retried
        PROVE  Counts(call[c].token, account') \/ excused'[c]
    <3>1. CASE excused[c]
      BY <2>1, <2>2, <3>1, WatchExcuses
    <3>2. CASE account' = account
      BY <2>1, <2>2, <3>2, WatchExcuses DEF SecondTries
    <3>3. CASE account' # account
      <4> DEFINE d == DeviceOf[c]
      <4>1. d \in Devices /\ c \in CallsOf(d) /\ Open(c)
        BY <2>2, SessionsAssumption DEF CallsOf, Open
      <4>2. /\ account' \in AccountType /\ Moved(account, account')
            /\ account \in AccountType
        BY DEF FormsMoved, SessionTypeOK
      <4>3. ~Counts(jar'[d].refresh, account')
        <5>1. CASE jar'[d] = jar[d]
          <6>1. jar[d].refresh \in TokenType /\ Sound(jar[d].refresh, account)
            BY <4>1 DEF SessionTypeOK, JarType, TokensSound
          <6>2. account'.version > account.version
            BY <3>3 DEF FormsMoved, Moved
          <6>3. ~Counts(jar[d].refresh, account')
            BY <4>2, <6>1, <6>2
               DEF AccountType, TokenType, Sound, Counts, NoToken, Nobody
          <6> QED BY <5>1, <6>3
        <5>2. CASE form[d].stage = "answered" /\ jar'[d] = Cookies(form[d].token)
          <6>1. form[d].token = NoToken
            BY <4>1, <5>2 DEF FormsApart
          <6>2. jar'[d].refresh = NoToken
            BY <5>2, <6>1 DEF Cookies
          <6> QED BY <4>2, <6>2, NoTokenFits
        <5> QED BY <4>1, <5>1, <5>2 DEF FormsMoved
      <4> QED BY <1>4, <2>1, <2>2, <4>3 DEF OverIsExcused
    <3> QED BY <3>2, <3>3
  <2> QED BY <2>1, <2>2, WatchExcuses DEF SecondTries
<1>8. StaysSignedIn'
  BY WatchExcuses DEF FormsMoved, StaysSignedIn
<1> QED BY <1>1, <1>2, <1>3, <1>4, <1>6, <1>7, <1>8, WatchExcuses

\* What a step of the calls leaves to be shown.
LEMMA CallsKeep ==
  ASSUME SessionInv, Watch, UNCHANGED callless, faults' \in Nat,
         call' \in [Calls -> CallType], renewal' \in [Devices -> RenewalType],
         \A c \in Calls : Sound(call'[c].token, account),
         \A d \in Devices : Sound(renewal'[d].token, account),
         \A c \in Calls : Open(c)' =>
           Open(c) \/ form[DeviceOf[c]].kind \in {"none", "signout"},
         RenewalsServe', SecondTries', StaysSignedIn'
  PROVE  SessionInv'
<1> USE DEF SessionInv, callless
<1>1. SessionTypeOK'
  BY DEF SessionTypeOK, Watch
<1>2. TokensSound'
  BY DEF TokensSound
<1>3. FormsApart'
  <2>1. ASSUME NEW c \in Calls, Open(c)'
        PROVE  form'[DeviceOf[c]].kind \in {"none", "signout"}
    BY <2>1 DEF FormsApart
  <2> QED BY <2>1 DEF FormsApart
<1> QED BY <1>1, <1>2, <1>3, WatchExcuses

\* One call moves to another state, none of waiting among them.
LEMMA CallMoves ==
  ASSUME SessionInv, Watch, UNCHANGED <<callless, renewal>>, faults' \in Nat,
         NEW c \in Calls, NEW r \in CallType, call' = [call EXCEPT ![c] = r],
         call[c].state # "waits", r.state \notin {"waits", "idle"},
         Sound(r.token, account),
         Open(c) \/ form[DeviceOf[c]].kind \in {"none", "signout"},
         r.state = "sent" => ~r.retried,
         r.state = "refused" /\ r.retried => excused'[c],
         r.state = "failed" => excused'[c]
  PROVE  SessionInv'
<1> USE DEF SessionInv, callless
<1>1. call' \in [Calls -> CallType] /\ call'[c] = r
  BY DEF SessionTypeOK
<1>2. ASSUME NEW e \in Calls, e # c PROVE call'[e] = call[e]
  BY <1>2 DEF SessionTypeOK
<1>3. \A e \in Calls : Sound(call'[e].token, account)
  BY <1>1, <1>2 DEF TokensSound
<1>4. \A e \in Calls : Open(e)' =>
        Open(e) \/ form[DeviceOf[e]].kind \in {"none", "signout"}
  BY <1>1, <1>2 DEF Open
<1>5. RenewalsServe'
  <2>1. \A e \in Calls : call'[e].state = "waits" <=> call[e].state = "waits"
    BY <1>1, <1>2
  <2> QED BY <2>1 DEF RenewalsServe, CallsOf
<1>6. SecondTries'
  <2>1. ASSUME NEW e \in Calls, e # c
        PROVE  /\ call'[e].state = "idle" => ~call'[e].retried
               /\ call'[e].state = "sent" /\ call'[e].retried =>
                    Counts(call'[e].token, account) \/ excused'[e]
               /\ call'[e].state = "refused" /\ call'[e].retried => excused'[e]
    BY <1>2, <2>1, WatchExcuses DEF SecondTries
  <2> QED BY <1>1, <2>1 DEF SecondTries
<1>7. StaysSignedIn'
  BY <1>1, <1>2, WatchExcuses DEF StaysSignedIn
<1>8. /\ renewal' \in [Devices -> RenewalType]
      /\ \A d \in Devices : Sound(renewal'[d].token, account)
  BY DEF SessionTypeOK, TokensSound
<1> QED BY <1>1, <1>3, <1>4, <1>5, <1>6, <1>7, <1>8, CallsKeep

LEMMA SendKeeps ==
  ASSUME SessionInv, NEW c \in Calls, Send(c), Watch
  PROVE  SessionInv'
<1> USE DEF SessionInv
<1> DEFINE d == DeviceOf[c]
           r == [state |-> "sent", retried |-> call[c].retried,
                 token |-> jar[d].access]
<1>1. d \in Devices
  BY SessionsAssumption
<1>2. /\ call' = [call EXCEPT ![c] = r] /\ call[c].state = "idle"
      /\ form[d].kind \in {"none", "signout"}
      /\ UNCHANGED <<callless, renewal>> /\ faults' = faults
  BY DEF Send, Ask
<1>3. /\ r \in CallType /\ Sound(r.token, account)
      /\ r.state = "sent" /\ ~r.retried /\ faults' \in Nat
  BY <1>1, <1>2 DEF SessionTypeOK, CallType, CallStates, JarType, TokensSound,
                    SecondTries
<1> HIDE DEF r
<1> QED BY <1>2, <1>3, CallMoves

\* A call changes its state only.
LEMMA StateMoves ==
  ASSUME SessionInv, Watch, UNCHANGED <<callless, renewal>>, faults' \in Nat,
         NEW c \in Calls, NEW state \in CallStates \ {"waits", "idle", "sent"},
         call' = [call EXCEPT ![c].state = state],
         Open(c), call[c].state # "waits",
         state = "refused" /\ call[c].retried => excused'[c],
         state = "failed" => excused'[c]
  PROVE  SessionInv'
<1> DEFINE r == [state |-> state, retried |-> call[c].retried,
                 token |-> call[c].token]
<1>1. call[c] \in CallType
  BY DEF SessionInv, SessionTypeOK
<1>2. [call[c] EXCEPT !.state = state] = r
  BY <1>1 DEF CallType
<1>3. call' = [call EXCEPT ![c] = r]
  BY <1>2
<1>4. /\ r \in CallType /\ Sound(r.token, account)
      /\ r.state = state /\ r.retried = call[c].retried
  BY <1>1 DEF CallType, SessionInv, TokensSound
<1> HIDE DEF r
<1> QED BY <1>3, <1>4, CallMoves

LEMMA AnsweredKeeps ==
  ASSUME SessionInv, NEW c \in Calls, Watch,
         Admit(c) \/ Serve(c, "served") \/ Serve(c, "gone")
  PROVE  SessionInv'
<1>1. /\ UNCHANGED <<callless, renewal>> /\ faults' = faults
      /\ call[c].state \in {"sent", "handled"}
      /\ \E state \in {"handled", "served", "gone"} :
           call' = [call EXCEPT ![c].state = state]
  BY DEF Admit, Serve
<1>2. PICK state \in {"handled", "served", "gone"} :
        call' = [call EXCEPT ![c].state = state]
  BY <1>1
<1>3. Open(c) /\ state \in CallStates \ {"waits", "idle", "sent"}
      /\ faults' \in Nat
  BY <1>1 DEF Open, CallStates, SessionInv, SessionTypeOK
<1> QED BY <1>1, <1>2, <1>3, StateMoves

LEMMA RefuseKeeps ==
  ASSUME SessionInv, NEW c \in Calls, Refuse(c), Watch
  PROVE  SessionInv'
<1>1. /\ UNCHANGED <<callless, renewal>> /\ call[c].state = "sent"
      /\ call' = [call EXCEPT ![c].state = "refused"]
      /\ \/ ~Counts(call[c].token, account) /\ faults' = faults
         \/ faults' = faults + 1
  BY DEF Refuse, Live, Counts, Exists
<1>2. Open(c) /\ faults' \in Nat
  BY <1>1 DEF Open, SessionInv, SessionTypeOK
<1>3. call'[c].state = "refused" /\ call'[c] # call[c]
  BY <1>1 DEF SessionInv, SessionTypeOK, CallType
<1>4. ASSUME call[c].retried PROVE excused'[c]
  <2>1. CASE faults' = faults + 1
    <3>1. faults' # faults
      BY <2>1 DEF SessionInv, SessionTypeOK
    <3> QED BY <1>3, <1>4, <3>1, WatchNotes
  <2>2. CASE ~Counts(call[c].token, account)
    <3>1. excused[c]
      BY <1>1, <1>4, <2>2 DEF SessionInv, SecondTries
    <3> QED BY <1>3, <3>1, WatchExcuses
  <2> QED BY <1>1, <2>1, <2>2
<1> QED BY <1>1, <1>2, <1>4, StateMoves DEF CallStates

LEMMA InterceptKeeps ==
  ASSUME SessionInv, NEW c \in Calls, Intercept(c), Watch
  PROVE  SessionInv'
<1> USE DEF SessionInv
<1> DEFINE d == DeviceOf[c]
<1>1. /\ d \in Devices /\ c \in CallsOf(d)
      /\ call[c].state = "refused" /\ UNCHANGED callless
      /\ faults' = faults /\ faults' \in Nat /\ call[c] \in CallType
  BY SessionsAssumption DEF Intercept, SessionTypeOK, CallsOf
<1>2. Open(c)
  BY <1>1 DEF Open
<1>3. CASE call[c].retried
  <2>1. call' = [call EXCEPT ![c].state = "failed"] /\ renewal' = renewal
    BY <1>3 DEF Intercept
  <2>2. call'[c].state # "idle"
    BY <1>1, <2>1 DEF SessionTypeOK, CallType
  <2>3. excused'[c]
    BY <1>1, <1>3, <2>2, WatchExcuses DEF SecondTries
  <2> QED BY <1>1, <1>2, <2>1, <2>3, StateMoves DEF CallStates
<1>4. CASE ~call[c].retried
  <2> DEFINE r == [state |-> "waits", retried |-> TRUE, token |-> call[c].token]
             asked == [state |-> "asked", token |-> jar[d].refresh]
  <2>1. /\ call' = [call EXCEPT ![c] = r]
        /\ renewal' = IF renewal[d].state # "none" THEN renewal
                      ELSE [renewal EXCEPT ![d] = asked]
    BY <1>4 DEF Intercept
  <2>2. r \in CallType /\ r.state = "waits" /\ Sound(r.token, account)
    BY <1>1 DEF CallType, CallStates, TokensSound
  <2>3. /\ asked \in RenewalType /\ asked.state = "asked"
        /\ asked.token = jar[d].refresh /\ Sound(asked.token, account)
    BY <1>1 DEF SessionTypeOK, JarType, RenewalType, TokensSound
  <2> HIDE DEF r, asked
  <2>4. call' \in [Calls -> CallType] /\ call'[c] = r
    BY <2>1, <2>2 DEF SessionTypeOK
  <2>5. ASSUME NEW e \in Calls, e # c PROVE call'[e] = call[e]
    BY <2>1, <2>5 DEF SessionTypeOK
  <2>6. /\ renewal' \in [Devices -> RenewalType]
        /\ renewal'[d].state # "none"
    BY <1>1, <2>1, <2>3 DEF SessionTypeOK
  <2>7. ASSUME NEW e \in Devices
        PROVE  renewal'[e] = renewal[e] \/ (e = d /\ renewal'[e] = asked)
    BY <2>1 DEF SessionTypeOK
  <2>8. \A e \in Calls : Sound(call'[e].token, account)
    BY <2>2, <2>4, <2>5 DEF TokensSound
  <2>9. \A e \in Devices : Sound(renewal'[e].token, account)
    BY <2>3, <2>7 DEF TokensSound
  <2>10. \A e \in Calls : Open(e)' =>
           Open(e) \/ form[DeviceOf[e]].kind \in {"none", "signout"}
    BY <1>2, <2>5 DEF Open
  <2>11. RenewalsServe'
    <3>1. ASSUME NEW e \in Calls, call'[e].state = "waits"
          PROVE  renewal'[DeviceOf[e]].state # "none"
      <4>1. CASE e = c
        BY <2>6, <4>1
      <4>2. CASE e # c
        <5>1. renewal[DeviceOf[e]].state # "none" /\ DeviceOf[e] \in Devices
          BY <2>5, <3>1, <4>2, SessionsAssumption DEF RenewalsServe
        <5> QED BY <2>3, <2>7, <5>1
      <4> QED BY <4>1, <4>2
    <3>2. ASSUME NEW e \in Devices, renewal'[e].state # "none"
          PROVE  /\ \E b \in CallsOf(e) : call'[b].state = "waits"
                 /\ \/ renewal'[e].token = jar'[e].refresh
                    \/ ~Counts(jar'[e].refresh, account')
                 /\ renewal'[e].state = "denied" =>
                      ~Counts(jar'[e].refresh, account')
      <4>1. account' = account /\ jar' = jar
        BY <1>1 DEF callless
      <4>2. CASE renewal'[e] = renewal[e]
        <5>1. PICK b \in CallsOf(e) : call[b].state = "waits"
          BY <3>2, <4>2 DEF RenewalsServe
        <5>2. call'[b].state = "waits"
          BY <1>1, <2>5, <5>1 DEF CallsOf
        <5> QED BY <3>2, <4>1, <4>2, <5>1, <5>2 DEF RenewalsServe
      <4>3. CASE e = d /\ renewal'[e] = asked
        BY <1>1, <2>2, <2>3, <2>4, <4>1, <4>3
      <4> QED BY <2>7, <4>2, <4>3
    <3> QED BY <3>1, <3>2 DEF RenewalsServe, CallsOf
  <2>12. SecondTries'
    <3>1. account' = account
      BY <1>1 DEF callless
    <3>2. ASSUME NEW e \in Calls, e # c
          PROVE  /\ call'[e].state = "idle" => ~call'[e].retried
                 /\ call'[e].state = "sent" /\ call'[e].retried =>
                      Counts(call'[e].token, account) \/ excused'[e]
                 /\ call'[e].state = "refused" /\ call'[e].retried => excused'[e]
      BY <2>5, <3>2, WatchExcuses DEF SecondTries
    <3> QED BY <2>2, <2>4, <3>1, <3>2 DEF SecondTries
  <2>13. StaysSignedIn'
    BY <2>2, <2>4, <2>5, WatchExcuses DEF StaysSignedIn
  <2> QED BY <1>1, <2>4, <2>6, <2>8, <2>9, <2>10, <2>11, <2>12, <2>13, CallsKeep
<1> QED BY <1>3, <1>4

\* A renewal that is under way is decided, or fails.
LEMMA RenewalMoves ==
  ASSUME SessionInv, Watch, UNCHANGED <<callless, call>>, faults' \in Nat,
         NEW d \in Devices, renewal[d].state # "none",
         NEW s \in {"granted", "denied", "broken"},
         renewal' = [renewal EXCEPT ![d].state = s],
         s = "denied" => ~Counts(renewal[d].token, account)
  PROVE  SessionInv'
<1> USE DEF SessionInv
<1>1. UNCHANGED callless /\ call' = call
  OBVIOUS
<1>3. /\ renewal' \in [Devices -> RenewalType]
      /\ renewal'[d].state = s /\ renewal'[d].token = renewal[d].token
      /\ \A e \in Devices : e # d => renewal'[e] = renewal[e]
  BY DEF SessionTypeOK, RenewalType
<1>4. account' = account /\ jar' = jar
  BY <1>1 DEF callless
<1>5. RenewalsServe'
  <2>1. ASSUME NEW e \in Devices, renewal'[e].state # "none"
        PROVE  /\ \E b \in CallsOf(e) : call[b].state = "waits"
               /\ \/ renewal'[e].token = jar[e].refresh
                  \/ ~Counts(jar[e].refresh, account)
               /\ renewal'[e].state = "denied" => ~Counts(jar[e].refresh, account)
    <3>1. CASE e # d
      BY <1>3, <2>1, <3>1 DEF RenewalsServe
    <3>2. CASE e = d
      <4>1. /\ \E b \in CallsOf(d) : call[b].state = "waits"
            /\ \/ renewal[d].token = jar[d].refresh
               \/ ~Counts(jar[d].refresh, account)
        BY <1>1 DEF RenewalsServe
      <4> QED BY <1>3, <3>2, <4>1
    <3> QED BY <3>1, <3>2
  <2>2. ASSUME NEW c \in Calls, call[c].state = "waits"
        PROVE  renewal'[DeviceOf[c]].state # "none"
    BY <1>3, <2>2, SessionsAssumption DEF RenewalsServe
  <2> QED BY <1>1, <1>4, <2>1, <2>2 DEF RenewalsServe, CallsOf
<1>6. SecondTries' /\ StaysSignedIn'
  BY <1>1, <1>4, WatchExcuses DEF SecondTries, StaysSignedIn
<1>7. /\ call' \in [Calls -> CallType]
      /\ \A c \in Calls : Sound(call'[c].token, account) /\ (Open(c)' => Open(c))
  BY <1>1 DEF SessionTypeOK, TokensSound, Open
<1>8. \A e \in Devices : Sound(renewal'[e].token, account)
  BY <1>3 DEF TokensSound
<1> QED BY <1>1, <1>3, <1>5, <1>6, <1>7, <1>8, CallsKeep

LEMMA RenewKeeps ==
  ASSUME SessionInv, NEW d \in Devices, Renew(d) \/ RenewFails(d), Watch
  PROVE  SessionInv'
<1>1. /\ UNCHANGED <<callless, call>> /\ renewal[d].state # "none"
      /\ faults' \in Nat
  BY DEF Renew, RenewFails, SessionInv, SessionTypeOK
<1>2. PICK s \in {"granted", "denied", "broken"} :
        /\ renewal' = [renewal EXCEPT ![d].state = s]
        /\ s = "denied" => ~Counts(renewal[d].token, account)
  BY DEF Renew, RenewFails, Live, Counts, Exists
<1> QED BY <1>1, <1>2, RenewalMoves

LEMMA RenewedKeeps ==
  ASSUME SessionInv, NEW d \in Devices, Renewed(d), Watch
  PROVE  SessionInv'
<1> USE DEF SessionInv
<1>1. /\ renewal[d].state \in {"granted", "denied", "broken"}
      /\ renewal' = [renewal EXCEPT ![d] = NoRenewal]
      /\ jar' = IF renewal[d].state # "granted" THEN jar
                ELSE [jar EXCEPT ![d].access = renewal[d].token]
      /\ Woken(d)
      /\ UNCHANGED <<account, link, form, forms, expiries, faults>>
  BY DEF Renewed
<1>2. /\ NoToken \in TokenType /\ Sound(NoToken, account)
      /\ renewal[d].token \in TokenType /\ Sound(renewal[d].token, account)
  BY NoTokenFits DEF SessionTypeOK, RenewalType, TokensSound
<1>3. /\ jar' \in [Devices -> JarType]
      /\ \A e \in Devices : jar'[e].refresh = jar[e].refresh
      /\ \A e \in Devices : jar'[e].access \in {jar[e].access, renewal[d].token}
      /\ renewal[d].state = "granted" => jar'[d].access = renewal[d].token
  BY <1>1, <1>2 DEF SessionTypeOK, JarType
<1>4. NoRenewal \in RenewalType /\ NoRenewal.state = "none"
      /\ NoRenewal.token = NoToken
  BY <1>2 DEF NoRenewal, RenewalType
<1>5. /\ renewal' \in [Devices -> RenewalType]
      /\ renewal'[d] = NoRenewal
      /\ \A e \in Devices : e # d => renewal'[e] = renewal[e]
  BY <1>1, <1>4 DEF SessionTypeOK
<1> DEFINE denied(c) == [state |-> "failed", retried |-> TRUE,
                         token |-> call[c].token]
           again == [state |-> "sent", retried |-> TRUE, token |-> jar'[d].access]
<1>6. /\ call' = [c \in Calls |-> call'[c]]
      /\ \A c \in Calls : c \notin WaitingOn(d) => call'[c] = call[c]
      /\ \A c \in WaitingOn(d) :
           /\ renewal[d].state # "granted" => call'[c] = denied(c)
           /\ renewal[d].state = "granted" => call'[c] = again
  BY <1>1 DEF Woken, WaitingOn, CallsOf
<1>7. \A c \in WaitingOn(d) : c \in Calls /\ DeviceOf[c] = d
                              /\ call[c].state = "waits" /\ Open(c)
  BY DEF WaitingOn, CallsOf, Open
<1>8. /\ again \in CallType /\ again.state = "sent"
      /\ again.token = jar'[d].access
      /\ \A c \in Calls : /\ denied(c) \in CallType
                          /\ denied(c).state = "failed"
                          /\ denied(c).token = call[c].token
  BY <1>3 DEF JarType, CallType, CallStates, SessionTypeOK
<1> HIDE DEF again, denied
<1>9. call' \in [Calls -> CallType]
  <2>1. ASSUME NEW c \in Calls PROVE call'[c] \in CallType
    BY <1>1, <1>6, <1>8 DEF SessionTypeOK
  <2> QED BY <1>6, <2>1
<1>10. SessionTypeOK'
  BY <1>1, <1>3, <1>5, <1>9 DEF SessionTypeOK, Watch
<1>11. TokensSound'
  <2>1. \A e \in Devices : Sound(renewal'[e].token, account)
    BY <1>2, <1>4, <1>5 DEF TokensSound
  <2>2. \A e \in Devices :
          Sound(jar'[e].access, account) /\ Sound(jar'[e].refresh, account)
    BY <1>2, <1>3 DEF TokensSound
  <2>3. \A c \in Calls : Sound(call'[c].token, account)
    BY <1>1, <1>6, <1>7, <1>8, <2>2 DEF TokensSound
  <2> QED BY <1>1, <2>1, <2>2, <2>3 DEF TokensSound
<1>12. FormsApart'
  <2>1. ASSUME NEW c \in Calls, Open(c)' PROVE Open(c)
    BY <1>6, <1>7, <2>1 DEF Open
  <2> QED BY <1>1, <2>1 DEF FormsApart
<1>13. OverIsExcused'
  BY WatchExcuses
<1>14. RenewalsServe'
  <2>1. ASSUME NEW c \in Calls, call'[c].state = "waits"
        PROVE  c \notin WaitingOn(d) /\ call[c].state = "waits"
               /\ renewal'[DeviceOf[c]].state # "none"
    <3>1. c \notin WaitingOn(d) /\ call[c].state = "waits"
      BY <1>1, <1>6, <1>8, <2>1
    <3>2. DeviceOf[c] \in Devices /\ DeviceOf[c] # d
      BY <3>1, SessionsAssumption DEF WaitingOn, CallsOf
    <3> QED BY <1>5, <3>1, <3>2 DEF RenewalsServe
  <2>2. ASSUME NEW e \in Devices, renewal'[e].state # "none"
        PROVE  /\ \E b \in CallsOf(e) : call'[b].state = "waits"
               /\ \/ renewal'[e].token = jar'[e].refresh
                  \/ ~Counts(jar'[e].refresh, account')
               /\ renewal'[e].state = "denied" =>
                    ~Counts(jar'[e].refresh, account')
    <3>1. e # d /\ renewal'[e] = renewal[e]
      BY <1>4, <1>5, <2>2
    <3>2. PICK b \in CallsOf(e) : call[b].state = "waits"
      BY <2>2, <3>1 DEF RenewalsServe
    <3>3. b \in Calls /\ b \notin WaitingOn(d)
      BY <3>1, <3>2 DEF WaitingOn, CallsOf
    <3> QED BY <1>1, <1>3, <1>6, <2>2, <3>1, <3>2, <3>3 DEF RenewalsServe
  <2> QED BY <2>1, <2>2 DEF RenewalsServe, CallsOf
<1>15. ASSUME NEW c \in WaitingOn(d), renewal[d].state # "granted"
       PROVE  excused'[c]
  <2>1. c \in Calls /\ DeviceOf[c] = d /\ call'[c].state # "idle"
    BY <1>6, <1>7, <1>8, <1>15
  <2>2. CASE renewal[d].state = "denied"
    <3>1. ~Counts(jar'[d].refresh, account')
      BY <1>1, <1>3, <2>2 DEF RenewalsServe
    <3> QED BY <1>13, <2>1, <3>1 DEF OverIsExcused
  <2>3. CASE renewal[d].state = "broken"
    BY <1>7, <2>1, <2>3, WatchExcuses DEF BrokenExcuses
  <2> QED BY <1>1, <1>15, <2>2, <2>3
<1>16. SecondTries'
  <2>1. ASSUME NEW c \in Calls, c \notin WaitingOn(d)
        PROVE  /\ call'[c].state = "idle" => ~call'[c].retried
               /\ call'[c].state = "sent" /\ call'[c].retried =>
                    Counts(call'[c].token, account') \/ excused'[c]
               /\ call'[c].state = "refused" /\ call'[c].retried => excused'[c]
    BY <1>1, <1>6, <2>1, WatchExcuses DEF SecondTries
  <2>2. ASSUME NEW c \in WaitingOn(d), renewal[d].state = "granted"
        PROVE  Counts(call'[c].token, account') \/ excused'[c]
    <3>1. c \in Calls /\ DeviceOf[c] = d /\ call'[c] = again
      BY <1>6, <1>7, <2>2
    <3>2. CASE Counts(jar'[d].refresh, account')
      <4>1. renewal[d].token = jar[d].refresh
        BY <1>1, <1>3, <2>2, <3>2 DEF RenewalsServe
      <4>2. call'[c].token = jar'[d].refresh
        BY <1>3, <1>8, <2>2, <3>1, <4>1
      <4> QED BY <3>2, <4>2
    <3>3. CASE ~Counts(jar'[d].refresh, account')
      BY <1>8, <1>13, <3>1, <3>3 DEF OverIsExcused
    <3> QED BY <3>2, <3>3
  <2>3. ASSUME NEW c \in WaitingOn(d)
        PROVE  /\ call'[c].state \in {"failed", "sent"}
               /\ call'[c].state = "sent" => renewal[d].state = "granted"
    BY <1>1, <1>6, <1>7, <1>8
  <2> QED BY <2>1, <2>2, <2>3 DEF SecondTries
<1>17. StaysSignedIn'
  <2>1. ASSUME NEW c \in Calls, c \notin WaitingOn(d), call'[c].state = "failed"
        PROVE  excused'[c]
    BY <1>6, <2>1, WatchExcuses DEF StaysSignedIn
  <2>2. ASSUME NEW c \in WaitingOn(d), call'[c].state = "failed"
        PROVE  excused'[c]
    BY <1>1, <1>6, <1>8, <1>15, <2>2
  <2> QED BY <2>1, <2>2 DEF StaysSignedIn
<1> QED BY <1>10, <1>11, <1>12, <1>13, <1>14, <1>16, <1>17, WatchExcuses

LEMMA ExpireKeeps ==
  ASSUME SessionInv, Expire, Watch
  PROVE  SessionInv'
<1> USE DEF SessionInv
<1>1. /\ UNCHANGED <<account, call, renewal, form, forms, faults>>
      /\ expiries' = expiries + 1
  BY DEF Expire
<1>2. NoToken \in TokenType /\ Sound(NoToken, account)
      /\ ~Counts(NoToken, account)
  BY NoTokenFits DEF SessionTypeOK
<1>3. /\ jar' \in [Devices -> JarType] /\ link' \in BOOLEAN
      /\ \A e \in Devices : /\ jar'[e].access \in {jar[e].access, NoToken}
                            /\ jar'[e].refresh \in {jar[e].refresh, NoToken}
  <2>1. ASSUME NEW d \in Devices, AccessExpires(d) PROVE <1>3!:
    BY <1>2, <2>1 DEF AccessExpires, SessionTypeOK, JarType
  <2>2. ASSUME NEW d \in Devices, RefreshExpires(d) PROVE <1>3!:
    BY <1>2, <2>2 DEF RefreshExpires, SessionTypeOK, JarType
  <2>3. ASSUME LinkExpires PROVE <1>3!:
    BY <2>3 DEF LinkExpires, SessionTypeOK
  <2> QED BY <2>1, <2>2, <2>3 DEF Expire
<1>4. SessionTypeOK'
  BY <1>1, <1>3 DEF SessionTypeOK, Watch
<1>5. TokensSound'
  BY <1>1, <1>2, <1>3 DEF TokensSound
<1>6. FormsApart'
  BY <1>1 DEF FormsApart, Open
<1>7. RenewalsServe'
  BY <1>1, <1>2, <1>3 DEF RenewalsServe, CallsOf
<1>8. SecondTries' /\ StaysSignedIn'
  BY <1>1, WatchExcuses DEF SecondTries, StaysSignedIn
<1> QED BY <1>4, <1>5, <1>6, <1>7, <1>8, WatchExcuses

LEMMA SessionStarts ==
  ASSUME SessionsInit
  PROVE  SessionInv
<1> USE DEF SessionsInit
<1>1. account \in AccountType /\ link \in BOOLEAN
  <2>1. ASSUME NEW p \in Passwords
        PROVE  [version |-> 0, password |-> p] \in AccountType
    BY DEF AccountType
  <2>2. account \in AccountType
    BY <2>1 DEF AccountType
  <2> QED BY <2>2
<1>2. NoToken \in TokenType /\ Sound(NoToken, account)
  BY <1>1, NoTokenFits
<1>3. \A d \in Devices :
        /\ jar[d].access \in TokenType /\ jar[d].refresh \in TokenType
        /\ jar[d] = [access |-> jar[d].access, refresh |-> jar[d].refresh]
        /\ Sound(jar[d].access, account) /\ Sound(jar[d].refresh, account)
  <2>1. CASE jar = [d \in Devices |-> NoCookies]
    BY <1>2, <2>1 DEF NoCookies, Cookies
  <2>2. ASSUME NEW p \in Passwords, account = [version |-> 0, password |-> p],
               NEW access \in {Token(0, p), NoToken},
               jar = [d \in Devices |->
                        [access |-> access, refresh |-> Token(0, p)]]
        PROVE  <1>3!:
    <3>1. Token(0, p) \in TokenType /\ Sound(Token(0, p), account)
      BY <2>2 DEF Token, TokenType, Sound
    <3>2. access \in TokenType /\ Sound(access, account)
      BY <1>2, <2>2, <3>1
    <3> QED BY <2>2, <3>1, <3>2
  <2> QED BY <2>1, <2>2
<1>4. jar \in [Devices -> JarType]
  <2>1. jar = [d \in Devices |-> jar[d]]
    OBVIOUS
  <2> QED BY <1>3, <2>1 DEF JarType
<1>5. /\ call \in [Calls -> CallType]
      /\ \A c \in Calls : call[c].state = "idle" /\ ~call[c].retried
                          /\ call[c].token = NoToken
  BY <1>2 DEF Idle, CallType, CallStates
<1>6. /\ renewal \in [Devices -> RenewalType]
      /\ \A d \in Devices : renewal[d].state = "none"
                            /\ renewal[d].token = NoToken
  BY <1>2 DEF NoRenewal, RenewalType
<1>7. /\ form \in [Devices -> FormType]
      /\ \A d \in Devices : /\ form[d].kind = "none" /\ form[d].stage = "none"
                            /\ form[d].token = NoToken
  BY <1>2 DEF NoForm, FormType, NoPassword
<1>8. SessionTypeOK
  BY <1>1, <1>4, <1>5, <1>6, <1>7 DEF SessionTypeOK
<1>9. TokensSound
  BY <1>2, <1>3, <1>5, <1>6, <1>7 DEF TokensSound
<1>10. FormsApart /\ OverIsExcused /\ SecondTries /\ StaysSignedIn
  BY <1>5, <1>7 DEF FormsApart, Open, OverIsExcused, SecondTries, StaysSignedIn
<1>11. RenewalsServe /\ BrokenExcuses
  BY <1>5, <1>6 DEF RenewalsServe, BrokenExcuses
<1> QED BY <1>8, <1>9, <1>10, <1>11 DEF SessionInv

\* The steps of the whole, as the session sees them.
LEMMA SessionStays ==
  ASSUME SessionInv, [Next]_vars
  PROVE  SessionInv'
<1> USE DEF SessionStep, JointStep, StoreStep
<1>1. ASSUME UNCHANGED sessionVars PROVE SessionInv'
  BY <1>1 DEF sessionVars, SessionInv, SessionTypeOK, TokensSound, FormsApart,
     Open, OverIsExcused, RenewalsServe, CallsOf, BrokenExcuses, SecondTries,
     StaysSignedIn
<1>2. CASE UNCHANGED vars
  BY <1>1, <1>2 DEF vars
<1>3. ASSUME NEW d \in Devices, Form(d) \/ FormStep(d) PROVE SessionInv'
  BY <1>3, FormsMove, FormsKeep DEF Form, FormStep, SessionInv
<1>4. ASSUME NEW d \in Devices, RenewStep(d) PROVE SessionInv'
  BY <1>4, RenewKeeps, RenewedKeeps DEF RenewStep
<1>5. ASSUME NEW c \in Calls, Call(c) PROVE SessionInv'
  BY <1>5, SendKeeps DEF Call
<1>6. ASSUME NEW c \in Calls, Refused(c) PROVE SessionInv'
  BY <1>6, RefuseKeeps DEF Refused
<1>7. ASSUME NEW c \in Calls, Intercepted(c) PROVE SessionInv'
  BY <1>7, InterceptKeeps DEF Intercepted
<1>8. ASSUME NEW c \in Calls, Passed(c) \/ Told(c) \/ Abandoned(c)
      PROVE  SessionInv'
  BY <1>8, AnsweredKeeps DEF Passed, Told, Abandoned
<1>9. ASSUME NEW c \in Calls, Handled(c) \/ Failed(c) PROVE SessionInv'
  BY <1>1, <1>9 DEF Handled, Failed
<1>10. CASE Aged
  BY <1>1, <1>10, ExpireKeeps DEF Aged
<1> QED BY <1>2, <1>3, <1>4, <1>5, <1>6, <1>7, <1>8, <1>9, <1>10 DEF Next, Step

-----------------------------------------------------------------------------
(* Every step of the store keeps the invariant.                            *)

LEMMA UsesHaveKeys ==
  ASSUME NEW c \in Requests, NEW use \in Uses[c]
  PROVE  use \in UseType /\ use.key \in Keys
  BY DEF UseType, AllUses, Keys

\* What Answered and Done do to each call.
LEMMA AnsweredEach ==
  ASSUME StoreTypeOK, NEW S, NEW kind, NEW of, Answered(S, kind, of),
         kind \in {"given", "refused", "conflict", "error"},
         of \in Requests \cup {NoCall}
  PROVE  /\ answer' \in [Requests -> AnswerType]
         /\ \A w \in Requests : w \notin S => answer'[w] = answer[w]
         /\ \A w \in Requests : w \in S => /\ answer'[w].kind = kind
                                           /\ answer'[w].of = of
  BY DEF Answered, StoreTypeOK, AnswerType

LEMMA DoneEach ==
  ASSUME StoreTypeOK, NEW S, Done(S)
  PROVE  /\ request' \in [Requests -> RequestType]
         /\ \A w \in Requests : w \notin S => request'[w] = request[w]
         /\ \A w \in Requests : w \in S =>
              /\ request'[w].state = "done"
              /\ request'[w].use = request[w].use
              /\ request'[w].awaits = request[w].awaits
              /\ request'[w].captured = request[w].captured
<1>1. \A w \in Requests : request[w] \in RequestType
  BY DEF StoreTypeOK
<1>2. \A w \in Requests : w \notin S => request'[w] = request[w]
  BY DEF Done
<1>3. ASSUME NEW w \in Requests, w \in S
      PROVE  /\ request'[w] \in RequestType
             /\ request'[w].state = "done"
             /\ request'[w].use = request[w].use
             /\ request'[w].awaits = request[w].awaits
             /\ request'[w].captured = request[w].captured
  BY <1>1, <1>3 DEF Done, RequestType
<1>4. request' = [w \in Requests |-> request'[w]]
  BY DEF Done
<1>5. request' \in [Requests -> RequestType]
  BY <1>1, <1>2, <1>3, <1>4
<1> QED BY <1>2, <1>3, <1>5

\* A call that ran ends, or loses its client: those that wait for it are
\* answered, and the entry of its key is its own from now on, or none.
LEMMA EndKeeps ==
  ASSUME StoreInv, NEW c \in Requests,
         request[c].state \in {"running", "wrote"}, ~request[c].captured,
         request' \in [Requests -> RequestType],
         \A w \in Requests : request'[w].use = request[w].use,
         \A w \in WaitingFor(c) : request'[w].state = "done",
         \A w \in Requests : w \notin Settled(c) => request'[w] = request[w],
         request'[c].state \in {"done", request[c].state},
         NEW entry \in {NoEntry, [owner |-> c, cached |-> TRUE]},
         store' = [store EXCEPT ![KeyOf(c)] = entry],
         forgotten \subseteq forgotten', forgotten' \subseteq Requests,
         Owners(store, KeyOf(c)) \ {c} \subseteq forgotten',
         entry = NoEntry => c \in forgotten',
         NEW kind \in {"given", "refused", "error"}, kind = "given" => c \in written,
         Answered(Settled(c), kind, c), written' = written, mishaps' \in Nat
  PROVE  StoreInv'
<1> USE DEF StoreInv
<1>1. /\ KeyOf(c) \in Keys /\ Come(c) /\ NoCall \notin Requests
      /\ c \in Settled(c) /\ Settled(c) \subseteq Requests
      /\ \A w \in Settled(c) : w # c => request[w].state = "waiting"
                                        /\ request[w].awaits = c
      /\ \A w \in Requests : w \notin Settled(c) /\ request[w].state = "waiting"
                               => request[w].awaits # c
  BY IdempotencyAssumption
     DEF ComersHaveKeys, Come, Settled, WaitingFor, NoCall
<1>2. \A w \in Requests : /\ (KeyOf(w))' = KeyOf(w)
                          /\ (BodyOf(w))' = BodyOf(w)
  BY DEF KeyOf, BodyOf
<1>3. /\ answer' \in [Requests -> AnswerType]
      /\ \A w \in Requests : w \notin Settled(c) => answer'[w] = answer[w]
      /\ \A w \in Settled(c) : answer'[w].kind = kind /\ answer'[w].of = c
  BY <1>1, AnsweredEach
<1>4. /\ entry \in EntryType /\ store' \in [Keys -> EntryType]
      /\ store'[KeyOf(c)] = entry
      /\ entry # NoEntry => entry.owner = c /\ entry.cached
      /\ \A k \in Keys : k # KeyOf(c) => store'[k] = store[k]
  <2>1. NoEntry \in EntryType /\ [owner |-> c, cached |-> TRUE] \in EntryType
    BY DEF NoEntry, EntryType
  <2>2. entry \in EntryType
    BY <2>1
  <2>3. entry # NoEntry => entry.owner = c /\ entry.cached
    OBVIOUS
  <2> QED BY <1>1, <2>2, <2>3 DEF StoreTypeOK
<1>5. \A w \in Requests : /\ w \in Settled(c) => Come(w) /\ Come(w)'
                          /\ w \notin Settled(c) => (Come(w)' <=> Come(w))
  BY <1>1 DEF Come, Settled
<1>6. StoreTypeOK'
  BY <1>3, <1>4 DEF StoreTypeOK
<1>7. ComersHaveKeys'
  BY <1>1, <1>2, <1>3, <1>5 DEF ComersHaveKeys, StoreTypeOK
<1>8. EntriesOwned'
  <2>1. ASSUME NEW k \in Keys, store'[k] # NoEntry,
               NEW o \in Requests \cup {NoCall}, o = store'[k].owner
        PROVE  /\ Come(o)' /\ (KeyOf(o))' = k
               /\ ~store'[k].cached => /\ request'[o].state \in Telling
                                       /\ ~request'[o].captured
    <3>1. CASE k = KeyOf(c)
      <4>1. o = c /\ store'[k].cached
        BY <1>4, <2>1, <3>1
      <4> QED BY <1>1, <1>2, <1>5, <3>1, <4>1
    <3>2. CASE k # KeyOf(c)
      <4>1. store'[k] = store[k] /\ Come(o) /\ KeyOf(o) = k /\ o # c
            /\ o \in Requests
        BY <1>4, <2>1, <3>2 DEF EntriesOwned, Come
      <4>2. Come(o)' /\ (KeyOf(o))' = k
        BY <1>2, <1>5, <4>1
      <4>3. ASSUME ~store[k].cached
            PROVE  request[o].state \in Telling /\ ~request[o].captured
                   /\ request'[o] = request[o]
        <5>1. request[o].state \in Telling /\ ~request[o].captured
          BY <2>1, <4>1, <4>3 DEF EntriesOwned
        <5>2. o \notin Settled(c)
          BY <1>1, <4>1, <5>1 DEF Telling
        <5> QED BY <4>1, <5>1, <5>2
      <4> QED BY <4>1, <4>2, <4>3
    <3> QED BY <3>1, <3>2
  <2>2. \A k \in Keys : store'[k].owner \in Requests \cup {NoCall}
    BY <1>4 DEF EntryType
  <2> QED BY <2>1, <2>2 DEF EntriesOwned
<1>9. RunnersOwn'
  <2>1. ASSUME NEW w \in Requests,
               w \in written \/ request'[w].state \in Telling
        PROVE  w \in forgotten' \/ store'[KeyOf(w)].owner = w
    <3>1. w \in written \/ request[w].state \in Telling
      BY <1>1, <2>1 DEF Telling, Settled
    <3>2. w \in forgotten \/ store[KeyOf(w)].owner = w
      BY <3>1 DEF RunnersOwn
    <3>3. KeyOf(w) \in Keys
      BY <3>1 DEF ComersHaveKeys, Come, Telling
    <3>4. CASE KeyOf(w) = KeyOf(c) /\ store[KeyOf(w)].owner = w
      <4>1. CASE w = c
        BY <1>4, <3>4, <4>1
      <4>2. CASE w # c
        BY <1>1, <3>4, <4>2 DEF Owners
      <4> QED BY <4>1, <4>2
    <3> QED BY <1>4, <3>2, <3>3, <3>4
  <2> QED BY <1>2, <2>1 DEF RunnersOwn
<1>10. WaitersServed'
  <2>1. ASSUME NEW w \in Requests, request'[w].state = "waiting"
        PROVE  LET first == request'[w].awaits IN
               /\ first \in Requests
               /\ KeyOf(first) = KeyOf(w) /\ BodyOf(first) = BodyOf(w)
               /\ request'[first].state \in Telling /\ ~request'[first].captured
    <3> DEFINE first == request[w].awaits
    <3>1. w \notin Settled(c)
      BY <1>1, <2>1 DEF Settled
    <3>2. request'[w] = request[w]
      BY <3>1
    <3>3. /\ first \in Requests /\ first # c
          /\ KeyOf(first) = KeyOf(w) /\ BodyOf(first) = BodyOf(w)
          /\ request[first].state \in Telling /\ ~request[first].captured
      BY <1>1, <2>1, <3>1, <3>2 DEF WaitersServed
    <3>4. request'[first] = request[first]
      BY <1>1, <3>3 DEF Telling
    <3> QED BY <3>2, <3>3, <3>4
  <2> QED BY <1>2, <2>1 DEF WaitersServed
<1>11. AnswersAreReal'
  <2>1. ASSUME NEW w \in Requests, answer'[w].kind = "given"
        PROVE  /\ answer'[w].of \in written
               /\ KeyOf(answer'[w].of) = KeyOf(w)
               /\ BodyOf(answer'[w].of) = BodyOf(w)
    <3>1. CASE w \in Settled(c)
      <4>1. KeyOf(w) = KeyOf(c) /\ BodyOf(w) = BodyOf(c)
        BY <1>1, <3>1 DEF WaitersServed
      <4> QED BY <1>3, <2>1, <3>1, <4>1
    <3>2. CASE w \notin Settled(c)
      BY <1>3, <2>1, <3>2 DEF AnswersAreReal
    <3> QED BY <3>1, <3>2
  <2>2. written \subseteq Requests
    BY DEF StoreTypeOK
  <2> QED BY <1>2, <2>1, <2>2 DEF AnswersAreReal
<1> QED BY <1>6, <1>7, <1>8, <1>9, <1>10, <1>11

\* A call that ran goes on, with the store as it is.
LEMMA RunKeeps ==
  ASSUME StoreInv, NEW c \in Requests, request[c].state \in Telling,
         request' \in [Requests -> RequestType],
         \A w \in Requests : w # c => request'[w] = request[w],
         request'[c].use = request[c].use,
         request'[c].awaits = request[c].awaits,
         request'[c].captured = request[c].captured,
         request'[c].state \in Telling \cup {"done"},
         request'[c].state = "done" => request[c].captured,
         store' = store, forgotten' = forgotten,
         written' \in {written, written \cup {c}},
         answer' \in [Requests -> AnswerType],
         \A w \in Requests : answer'[w] = answer[w] \/ answer'[w].kind = "error",
         mishaps' \in Nat
  PROVE  StoreInv'
<1> USE DEF StoreInv
<1>1. \A w \in Requests : /\ (KeyOf(w))' = KeyOf(w)
                          /\ (BodyOf(w))' = BodyOf(w)
                          /\ Come(w)' <=> Come(w)
  BY DEF KeyOf, BodyOf, Come, Telling
<1>2. Come(c)
  BY DEF Come, Telling
<1>3. StoreTypeOK'
  BY DEF StoreTypeOK
<1>4. ComersHaveKeys'
  BY <1>1, <1>2 DEF ComersHaveKeys, StoreTypeOK
<1>5. EntriesOwned'
  <2>1. ASSUME NEW k \in Keys, store[k] # NoEntry,
               NEW o \in Requests \cup {NoCall}, o = store[k].owner
        PROVE  /\ Come(o)' /\ (KeyOf(o))' = k
               /\ ~store[k].cached => /\ request'[o].state \in Telling
                                      /\ ~request'[o].captured
    <3>1. /\ o \in Requests /\ Come(o) /\ KeyOf(o) = k
          /\ ~store[k].cached => /\ request[o].state \in Telling
                                 /\ ~request[o].captured
      BY <2>1 DEF EntriesOwned, Come
    <3> QED BY <1>1, <3>1
  <2>2. \A k \in Keys : store[k].owner \in Requests \cup {NoCall}
    BY DEF StoreTypeOK, EntryType
  <2> QED BY <2>1, <2>2 DEF EntriesOwned
<1>6. RunnersOwn'
  <2>1. ASSUME NEW w \in Requests, w \in written' \/ request'[w].state \in Telling
        PROVE  w \in forgotten \/ store[KeyOf(w)].owner = w
    BY <2>1 DEF RunnersOwn
  <2> QED BY <1>1, <2>1 DEF RunnersOwn
<1>7. WaitersServed'
  <2>1. ASSUME NEW w \in Requests, request'[w].state = "waiting",
               NEW first, first = request'[w].awaits
        PROVE  /\ first \in Requests
               /\ KeyOf(first) = KeyOf(w) /\ BodyOf(first) = BodyOf(w)
               /\ request'[first].state \in Telling /\ ~request'[first].captured
    <3>1. w # c
      BY <2>1 DEF Telling
    <3>2. /\ first \in Requests
          /\ KeyOf(first) = KeyOf(w) /\ BodyOf(first) = BodyOf(w)
          /\ request[first].state \in Telling /\ ~request[first].captured
      BY <2>1, <3>1 DEF WaitersServed
    <3> QED BY <3>2
  <2> QED BY <1>1, <2>1 DEF WaitersServed
<1>8. AnswersAreReal'
  <2>1. ASSUME NEW w \in Requests, answer'[w].kind = "given"
        PROVE  /\ answer'[w].of \in written
               /\ KeyOf(answer'[w].of) = KeyOf(w)
               /\ BodyOf(answer'[w].of) = BodyOf(w)
    BY <2>1 DEF AnswersAreReal
  <2>2. written \subseteq Requests
    BY DEF StoreTypeOK
  <2> QED BY <1>1, <2>1, <2>2 DEF AnswersAreReal
<1> QED BY <1>3, <1>4, <1>5, <1>6, <1>7, <1>8

LEMMA MishapsCount ==
  ASSUME StoreTypeOK
  PROVE  /\ Mishap => mishaps' \in Nat
         /\ UNCHANGED mishaps => mishaps' \in Nat
  BY DEF StoreTypeOK, Mishap

\* One call changes its state.
LEMMA RequestEach ==
  ASSUME StoreTypeOK, NEW c \in Requests, NEW s \in {"wrote", "lost"},
         request' = [request EXCEPT ![c].state = s]
  PROVE  /\ request' \in [Requests -> RequestType]
         /\ \A w \in Requests : w # c => request'[w] = request[w]
         /\ request'[c].state = s
         /\ request'[c].use = request[c].use
         /\ request'[c].awaits = request[c].awaits
         /\ request'[c].captured = request[c].captured
  BY DEF StoreTypeOK, RequestType

LEMMA HandlerKeeps ==
  ASSUME StoreInv, NEW c \in Requests,
         Write(c) \/ EndUnheard(c) \/ LoseEnd(c)
  PROVE  StoreInv'
<1>t. StoreTypeOK
  BY DEF StoreInv
<1>1. CASE Write(c)
  <2>1. /\ request[c].state \in Telling
        /\ request' = [request EXCEPT ![c].state = "wrote"]
        /\ written' = written \cup {c}
        /\ UNCHANGED <<store, answer, mishaps, forgotten>>
    BY <1>1 DEF Write, Telling
  <2>2. answer' \in [Requests -> AnswerType] /\ mishaps' \in Nat
    BY <1>t, <2>1 DEF StoreTypeOK
  <2>3. "wrote" \in Telling /\ "wrote" # "done"
    BY DEF Telling
  <2> QED BY <1>t, <2>1, <2>2, <2>3, RequestEach, RunKeeps
<1>2. CASE EndUnheard(c)
  <2>1. /\ request[c].state \in Telling /\ request[c].captured
        /\ Done({c})
        /\ UNCHANGED <<store, answer, mishaps, forgotten, written>>
    BY <1>2 DEF EndUnheard, Telling
  <2>2. answer' \in [Requests -> AnswerType] /\ mishaps' \in Nat
    BY <1>t, <2>1 DEF StoreTypeOK
  <2> QED BY <1>t, <2>1, <2>2, DoneEach, RunKeeps
<1>3. CASE LoseEnd(c)
  <2>1. /\ request[c].state \in Telling
        /\ request' = [request EXCEPT ![c].state = "lost"]
        /\ Answered({c}, "error", c) /\ Mishap
        /\ UNCHANGED <<store, forgotten, written>>
    BY <1>3 DEF LoseEnd, Telling
  <2>2. /\ answer' \in [Requests -> AnswerType]
        /\ \A w \in Requests : answer'[w] = answer[w] \/ answer'[w].kind = "error"
    BY <1>t, <2>1, AnsweredEach
  <2>3. "lost" \in Telling /\ "lost" # "done" /\ mishaps' \in Nat
    BY <1>t, <2>1, MishapsCount DEF Telling
  <2> QED BY <1>t, <2>1, <2>2, <2>3, RequestEach, RunKeeps
<1> QED BY <1>1, <1>2, <1>3

LEMMA FinishKeeps ==
  ASSUME StoreInv, NEW c \in Requests, Finish(c)
  PROVE  StoreInv'
<1>1. /\ StoreTypeOK /\ Done(Settled(c)) /\ KeyOf(c) \in Keys
      /\ request[c].state \in {"running", "wrote"} /\ ~request[c].captured
      /\ UNCHANGED <<mishaps, written>>
      /\ forgotten' = forgotten \cup (Owners(store, KeyOf(c)) \ {c})
  BY DEF StoreInv, Finish, ComersHaveKeys, Come
<1>2. c \in Settled(c) /\ WaitingFor(c) \subseteq Settled(c)
  BY DEF Settled
<1>3. WaitingFor(c) \subseteq Requests
  BY DEF WaitingFor
<1>4. Owners(store, KeyOf(c)) \subseteq Requests
  BY <1>1 DEF Owners, StoreTypeOK, EntryType
<1>5. PICK kind \in {"given", "refused"} :
        Answered(Settled(c), kind, c) /\ (kind = "given" => c \in written)
  BY DEF Finish, Outcome
<1>6. forgotten' \subseteq Requests /\ mishaps' \in Nat
  BY <1>1, <1>4 DEF StoreTypeOK
<1> DEFINE entry == [owner |-> c, cached |-> TRUE]
<1>7. /\ store' = [store EXCEPT ![KeyOf(c)] = entry]
      /\ entry # NoEntry /\ entry \in {NoEntry, [owner |-> c, cached |-> TRUE]}
  BY DEF Finish, NoEntry
<1>8. /\ request' \in [Requests -> RequestType]
      /\ \A w \in Requests : request'[w].use = request[w].use
      /\ \A w \in WaitingFor(c) : request'[w].state = "done"
      /\ \A w \in Requests : w \notin Settled(c) => request'[w] = request[w]
      /\ request'[c].state \in {"done", request[c].state}
  BY <1>1, <1>2, <1>3, DoneEach
<1> HIDE DEF entry
<1> QED BY <1>1, <1>5, <1>6, <1>7, <1>8, EndKeeps

LEMMA FailKeeps ==
  ASSUME StoreInv, NEW c \in Requests, Fail(c) \/ HangUp(c)
  PROVE  StoreInv'
<1>1. /\ StoreTypeOK /\ KeyOf(c) \in Keys
      /\ request[c].state \in {"running", "wrote"} /\ ~request[c].captured
      /\ Mishap /\ written' = written
      /\ store' = [store EXCEPT ![KeyOf(c)] = NoEntry]
      /\ forgotten' = forgotten \cup {c} \cup Owners(store, KeyOf(c))
      /\ Answered(Settled(c), "error", c)
  BY DEF StoreInv, Fail, HangUp, Rejected, ComersHaveKeys, Come
<1>2. c \in Settled(c) /\ WaitingFor(c) \subseteq Settled(c)
  BY DEF Settled
<1>3. WaitingFor(c) \subseteq Requests /\ c \notin WaitingFor(c)
  BY <1>1 DEF WaitingFor
<1>4. Owners(store, KeyOf(c)) \subseteq Requests
  BY <1>1 DEF Owners, StoreTypeOK, EntryType
<1>5. forgotten' \subseteq Requests /\ mishaps' \in Nat
  BY <1>1, <1>4, MishapsCount DEF StoreTypeOK
<1>6. /\ request' \in [Requests -> RequestType]
      /\ \A w \in Requests : request'[w].use = request[w].use
      /\ \A w \in WaitingFor(c) : request'[w].state = "done"
      /\ \A w \in Requests : w \notin Settled(c) => request'[w] = request[w]
      /\ request'[c].state \in {"done", request[c].state}
  <2>1. CASE Fail(c)
    <3>1. Done(Settled(c))
      BY <2>1 DEF Fail
    <3> QED BY <1>1, <1>2, <1>3, <3>1, DoneEach
  <2>2. CASE HangUp(c)
    <3>1. /\ request' = [w \in Requests |-> request'[w]]
          /\ request'[c] = [request[c] EXCEPT !.captured = TRUE]
          /\ \A w \in WaitingFor(c) :
               request'[w] = [request[w] EXCEPT !.state = "done"]
          /\ \A w \in Requests : w \notin Settled(c) => request'[w] = request[w]
      BY <1>3, <2>2 DEF HangUp, Settled
    <3>2. \A w \in Requests : request[w] \in RequestType
      BY <1>1 DEF StoreTypeOK
    <3>3. /\ request'[c] \in RequestType /\ request'[c].use = request[c].use
          /\ request'[c].state = request[c].state
      BY <3>1, <3>2 DEF RequestType
    <3>4. ASSUME NEW w \in WaitingFor(c)
          PROVE  /\ request'[w] \in RequestType
                 /\ request'[w].use = request[w].use
                 /\ request'[w].state = "done"
      <4>1. request[w] \in RequestType
        BY <1>3, <3>2
      <4>2. request'[w] = [request[w] EXCEPT !.state = "done"]
        BY <3>1
      <4> QED BY <4>1, <4>2 DEF RequestType
    <3>5. \A w \in Requests : request'[w] \in RequestType
      BY <3>1, <3>2, <3>3, <3>4 DEF Settled
    <3>6. request' \in [Requests -> RequestType]
      BY <3>1, <3>5
    <3> QED BY <3>1, <3>3, <3>4, <3>6 DEF Settled
  <2> QED BY <2>1, <2>2
<1> QED BY <1>1, <1>5, <1>6, EndKeeps

LEMMA ExpireEntryKeeps ==
  ASSUME StoreInv, NEW k \in Keys, ExpireEntry(k)
  PROVE  StoreInv'
<1> USE DEF StoreInv
<1>1. /\ StoreTypeOK /\ store[k].cached /\ mishaps' \in Nat
      /\ store' = [store EXCEPT ![k] = NoEntry]
      /\ forgotten' = forgotten \cup {store[k].owner}
      /\ UNCHANGED <<request, answer, written>>
  BY MishapsCount DEF ExpireEntry
<1>2. store[k] # NoEntry /\ store[k].owner \in Requests
  <2>1. store[k] # NoEntry
    BY <1>1 DEF NoEntry
  <2> QED BY <2>1 DEF EntriesOwned, Come
<1>3. NoEntry \in EntryType
  BY DEF NoEntry, EntryType
<1>4. /\ store' \in [Keys -> EntryType] /\ store'[k] = NoEntry
      /\ \A e \in Keys : e # k => store'[e] = store[e]
  BY <1>1, <1>3 DEF StoreTypeOK
<1>5. StoreTypeOK'
  BY <1>1, <1>2, <1>4 DEF StoreTypeOK
<1>6. /\ ComersHaveKeys' /\ WaitersServed' /\ AnswersAreReal'
      /\ \A w \in Requests : (KeyOf(w))' = KeyOf(w)
  BY <1>1 DEF ComersHaveKeys, Come, KeyOf, BodyOf, WaitersServed, AnswersAreReal
<1>7. EntriesOwned'
  BY <1>1, <1>4 DEF EntriesOwned, Come, KeyOf
<1>8. RunnersOwn'
  <2>1. ASSUME NEW w \in Requests, w \in written \/ request[w].state \in Telling
        PROVE  w \in forgotten' \/ store'[KeyOf(w)].owner = w
    <3>1. KeyOf(w) \in Keys
      BY <2>1 DEF ComersHaveKeys, Come, Telling
    <3> QED BY <1>1, <1>4, <2>1, <3>1 DEF RunnersOwn
  <2> QED BY <1>1, <1>6, <2>1 DEF RunnersOwn
<1> QED BY <1>5, <1>6, <1>7, <1>8

\* A call that comes: the entries that were pruned first are no longer there,
\* and their owners are forgotten.
LEMMA ArriveKeeps ==
  ASSUME StoreInv, NEW c \in Requests, Arrive(c)
  PROVE  StoreInv'
<1> USE DEF StoreInv
<1>1. PICK use \in Uses[c], st \in Pruned, state \in {"running", "done", "waiting"},
           awaits \in Requests \cup {NoCall} :
        /\ request[c] = NoRequest
        /\ request' = [request EXCEPT ![c] =
             [state |-> state, use |-> use, awaits |-> awaits, captured |-> FALSE]]
        /\ forgotten' = forgotten \cup
             UNION {Owners(store, k) : k \in {key \in Keys : st[key] # store[key]}}
        /\ UNCHANGED <<mishaps, written>>
        /\ \/ /\ st[use.key] = NoEntry /\ state = "running"
              /\ store' = [st EXCEPT ![use.key] = [owner |-> c, cached |-> FALSE]]
              /\ UNCHANGED answer
           \/ /\ st[use.key] # NoEntry /\ state = "done" /\ store' = st
              /\ Answered({c}, "conflict", st[use.key].owner)
           \/ /\ st[use.key] # NoEntry /\ Repeats(use, st[use.key])
              /\ state = "done" /\ store' = st
              /\ Answered({c}, Outcome(st[use.key].owner), st[use.key].owner)
           \/ /\ st[use.key] # NoEntry /\ Repeats(use, st[use.key])
              /\ ~st[use.key].cached /\ store' = st
              /\ state = "waiting" /\ awaits = st[use.key].owner
              /\ UNCHANGED answer
  <2>1. PICK use \in Uses[c], st \in Pruned : Arrive(c)!(use, st)
    BY DEF Arrive
  <2>2. st[use.key] \in EntryType
    <3>1. use.key \in Keys
      BY UsesHaveKeys
    <3>2. NoEntry \in EntryType
      BY DEF NoEntry, EntryType
    <3> QED BY <3>1, <3>2 DEF Pruned, StoreTypeOK
  <2> QED BY <2>1, <2>2 DEF EntryType
<1> DEFINE key == use.key
           r == [state |-> state, use |-> use, awaits |-> awaits,
                 captured |-> FALSE]
<1>2. key \in Keys /\ use \in UseType
  BY UsesHaveKeys
<1>3. /\ r \in RequestType /\ r.state = state /\ r.use = use
      /\ r.awaits = awaits /\ ~r.captured
  BY <1>2 DEF RequestType
<1>4. request' = [request EXCEPT ![c] = r]
  BY <1>1
<1> HIDE DEF r
<1>5. /\ request' \in [Requests -> RequestType] /\ request'[c] = r
      /\ \A w \in Requests : w # c => request'[w] = request[w]
  BY <1>3, <1>4 DEF StoreTypeOK
<1>6. /\ ~Come(c) /\ c \notin written /\ answer[c].kind # "given"
      /\ NoCall \notin Requests
  BY <1>1, IdempotencyAssumption DEF Come, NoRequest, ComersHaveKeys, NoCall
<1>7. \A w \in Requests : w # c => /\ (KeyOf(w))' = KeyOf(w)
                                   /\ (BodyOf(w))' = BodyOf(w)
                                   /\ Come(w)' <=> Come(w)
  BY <1>5 DEF KeyOf, BodyOf, Come
<1>8. Come(c)' /\ (KeyOf(c))' = key /\ (BodyOf(c))' = use.body
  BY <1>1, <1>3, <1>5 DEF KeyOf, BodyOf, Come
<1>9. NoEntry \in EntryType /\ NoEntry.owner = NoCall
  BY DEF NoEntry, EntryType
<1>10. /\ st \in [Keys -> EntryType]
       /\ \A k \in Keys : st[k] \in {NoEntry, store[k]}
  BY <1>9 DEF Pruned, StoreTypeOK
<1>11. \A k \in Keys : st[k] # store[k] => Owners(store, k) \subseteq forgotten'
  BY <1>1
<1>12. forgotten \subseteq forgotten' /\ forgotten' \subseteq Requests
  <2>1. \A k \in Keys : Owners(store, k) \subseteq Requests
    BY DEF Owners, StoreTypeOK, EntryType
  <2> QED BY <1>1, <2>1 DEF StoreTypeOK
<1> DEFINE mine == [owner |-> c, cached |-> FALSE]
<1>13. mine \in EntryType /\ mine.owner = c /\ ~mine.cached
  BY DEF EntryType
<1>14. /\ store' \in [Keys -> EntryType]
       /\ \A k \in Keys : \/ store'[k] = st[k]
                          \/ /\ k = key /\ store'[k].owner = c
                             /\ st[k] = NoEntry /\ state = "running"
       /\ state = "running" => store'[key].owner = c
  <2>1. CASE /\ st[key] = NoEntry /\ state = "running"
             /\ store' = [st EXCEPT ![key] = mine]
    <3> HIDE DEF mine
    <3> QED BY <1>2, <1>10, <1>13, <2>1
  <2>2. CASE store' = st /\ state # "running"
    BY <1>10, <2>2
  <2> QED BY <1>1, <2>1, <2>2
<1>15. /\ answer' \in [Requests -> AnswerType]
       /\ \A w \in Requests : w # c => answer'[w] = answer[w]
       /\ answer'[c].kind = "given" =>
            /\ st[key] # NoEntry /\ Repeats(use, st[key])
            /\ answer'[c].of = st[key].owner
            /\ st[key].owner \in written
  <2>1. st[key].owner \in Requests \cup {NoCall}
    BY <1>2, <1>10 DEF EntryType
  <2>2. CASE UNCHANGED answer
    BY <1>6, <2>2 DEF StoreTypeOK
  <2>3. CASE Answered({c}, "conflict", st[key].owner)
    BY <2>1, <2>3, AnsweredEach
  <2>4. CASE /\ st[key] # NoEntry /\ Repeats(use, st[key])
             /\ Answered({c}, Outcome(st[key].owner), st[key].owner)
    <3>1. /\ Outcome(st[key].owner) \in {"given", "refused"}
          /\ Outcome(st[key].owner) = "given" => st[key].owner \in written
      BY DEF Outcome
    <3> QED BY <2>1, <2>4, <3>1, AnsweredEach
  <2> QED BY <1>1, <2>2, <2>3, <2>4
<1>16. ASSUME NEW k \in Keys, st[k] # NoEntry,
              NEW o \in Requests \cup {NoCall}, o = st[k].owner
       PROVE  /\ o \in Requests /\ o # c /\ Come(o) /\ KeyOf(o) = k
              /\ ~st[k].cached => /\ request[o].state \in Telling
                                  /\ ~request[o].captured
  BY <1>6, <1>10, <1>16 DEF EntriesOwned, Come
<1>17. StoreTypeOK'
  BY <1>1, <1>5, <1>12, <1>14, <1>15 DEF StoreTypeOK
<1>18. ComersHaveKeys'
  BY <1>1, <1>2, <1>6, <1>7, <1>8, <1>15 DEF ComersHaveKeys, StoreTypeOK
<1>19. EntriesOwned'
  <2>1. ASSUME NEW k \in Keys, store'[k] # NoEntry,
               NEW o \in Requests \cup {NoCall}, o = store'[k].owner
        PROVE  /\ Come(o)' /\ (KeyOf(o))' = k
               /\ ~store'[k].cached => /\ request'[o].state \in Telling
                                       /\ ~request'[o].captured
    <3>1. CASE store'[k] = st[k]
      BY <1>5, <1>7, <1>16, <2>1, <3>1
    <3>2. CASE k = key /\ store'[k].owner = c /\ state = "running"
      BY <1>3, <1>5, <1>8, <2>1, <3>2 DEF Telling
    <3> QED BY <1>14, <3>1, <3>2
  <2>2. \A k \in Keys : store'[k].owner \in Requests \cup {NoCall}
    BY <1>14 DEF EntryType
  <2> QED BY <2>1, <2>2 DEF EntriesOwned
<1>20. RunnersOwn'
  <2>1. ASSUME NEW w \in Requests, w # c,
               w \in written \/ request[w].state \in Telling
        PROVE  w \in forgotten' \/ store'[KeyOf(w)].owner = w
    <3>1. KeyOf(w) \in Keys
      BY <2>1 DEF ComersHaveKeys, Come, Telling
    <3>2. CASE w \in forgotten
      BY <1>12, <3>2
    <3>3. CASE store[KeyOf(w)].owner = w /\ st[KeyOf(w)] = store[KeyOf(w)]
      <4>1. st[KeyOf(w)] # NoEntry
        BY <1>6, <1>9, <3>3
      <4> QED BY <1>14, <3>1, <3>3, <4>1
    <3>4. CASE store[KeyOf(w)].owner = w /\ st[KeyOf(w)] # store[KeyOf(w)]
      <4>1. w \in Owners(store, KeyOf(w))
        BY <1>6, <3>4 DEF Owners
      <4> QED BY <1>11, <3>1, <3>4, <4>1
    <3> QED BY <2>1, <3>2, <3>3, <3>4 DEF RunnersOwn
  <2>2. request'[c].state \in Telling => state = "running"
    BY <1>1, <1>3, <1>5 DEF Telling
  <2>3. ASSUME NEW w \in Requests, w \in written' \/ request'[w].state \in Telling
        PROVE  w \in forgotten' \/ store'[(KeyOf(w))'].owner = w
    <3>1. CASE w = c
      BY <1>1, <1>6, <1>8, <1>14, <2>2, <2>3, <3>1
    <3>2. CASE w # c
      BY <1>1, <1>5, <1>7, <2>1, <2>3, <3>2
    <3> QED BY <3>1, <3>2
  <2> QED BY <2>3 DEF RunnersOwn
<1>21. WaitersServed'
  <2>1. ASSUME NEW w \in Requests, request'[w].state = "waiting",
               NEW first \in Requests \cup {NoCall}, first = request'[w].awaits
        PROVE  /\ first \in Requests
               /\ (KeyOf(first))' = (KeyOf(w))' /\ (BodyOf(first))' = (BodyOf(w))'
               /\ request'[first].state \in Telling /\ ~request'[first].captured
    <3>1. CASE w # c
      <4>1. /\ first \in Requests
            /\ KeyOf(first) = KeyOf(w) /\ BodyOf(first) = BodyOf(w)
            /\ request[first].state \in Telling /\ ~request[first].captured
        BY <1>5, <2>1, <3>1 DEF WaitersServed
      <4>2. first # c
        BY <1>6, <4>1 DEF Come, Telling
      <4> QED BY <1>5, <1>7, <3>1, <4>1, <4>2
    <3>2. CASE w = c
      <4>1. /\ st[key] # NoEntry /\ Repeats(use, st[key]) /\ ~st[key].cached
            /\ first = st[key].owner
        BY <1>1, <1>3, <1>5, <2>1, <3>2
      <4>2. /\ first \in Requests /\ first # c /\ KeyOf(first) = key
            /\ request[first].state \in Telling /\ ~request[first].captured
        BY <1>2, <1>16, <2>1, <4>1
      <4>3. BodyOf(first) = use.body
        BY <4>1 DEF Repeats
      <4> QED BY <1>5, <1>7, <1>8, <3>2, <4>2, <4>3
    <3> QED BY <3>1, <3>2
  <2>2. \A w \in Requests : request'[w].awaits \in Requests \cup {NoCall}
    BY <1>5 DEF RequestType
  <2> QED BY <2>1, <2>2 DEF WaitersServed
<1>22. AnswersAreReal'
  <2>1. ASSUME NEW w \in Requests, answer'[w].kind = "given",
               NEW of \in Requests \cup {NoCall}, of = answer'[w].of
        PROVE  /\ of \in written
               /\ (KeyOf(of))' = (KeyOf(w))' /\ (BodyOf(of))' = (BodyOf(w))'
    <3>1. CASE w # c
      <4>1. of \in written /\ KeyOf(of) = KeyOf(w) /\ BodyOf(of) = BodyOf(w)
        BY <1>15, <2>1, <3>1 DEF AnswersAreReal
      <4>2. of \in Requests /\ of # c
        BY <1>6, <4>1 DEF StoreTypeOK
      <4> QED BY <1>7, <3>1, <4>1, <4>2
    <3>2. CASE w = c
      <4>1. /\ st[key] # NoEntry /\ Repeats(use, st[key])
            /\ of = st[key].owner /\ of \in written
        BY <1>15, <2>1, <3>2
      <4>2. of \in Requests /\ of # c /\ KeyOf(of) = key
        BY <1>2, <1>16, <2>1, <4>1
      <4>3. BodyOf(of) = use.body
        BY <4>1 DEF Repeats
      <4> QED BY <1>7, <1>8, <3>2, <4>1, <4>2, <4>3
    <3> QED BY <3>1, <3>2
  <2>2. \A w \in Requests : answer'[w].of \in Requests \cup {NoCall}
    BY <1>15 DEF AnswerType
  <2> QED BY <1>1, <2>1, <2>2 DEF AnswersAreReal
<1> QED BY <1>17, <1>18, <1>19, <1>20, <1>21, <1>22

LEMMA StoreStarts ==
  ASSUME StoreInit
  PROVE  StoreInv
<1> USE DEF StoreInit
<1>1. /\ NoEntry \in EntryType /\ NoRequest \in RequestType
      /\ NoAnswer \in AnswerType
  BY DEF NoEntry, EntryType, NoRequest, RequestType, UseType, NoAnswer,
         AnswerType
<1>2. StoreTypeOK
  BY <1>1 DEF StoreTypeOK
<1>3. \A c \in Requests : ~Come(c) /\ answer[c].kind # "given"
  BY DEF Come, NoRequest, NoAnswer
<1>4. ComersHaveKeys /\ EntriesOwned /\ AnswersAreReal
  BY <1>3 DEF ComersHaveKeys, EntriesOwned, AnswersAreReal
<1>5. RunnersOwn /\ WaitersServed
  BY <1>3 DEF RunnersOwn, WaitersServed, Come, Telling, NoRequest
<1> QED BY <1>2, <1>4, <1>5 DEF StoreInv

\* The steps of the whole, as the store sees them.
LEMMA StoreStays ==
  ASSUME StoreInv, [Next]_vars
  PROVE  StoreInv'
<1> USE DEF SessionStep, JointStep, StoreStep
<1>1. ASSUME UNCHANGED storeVars PROVE StoreInv'
  BY <1>1 DEF storeVars, StoreInv, StoreTypeOK, ComersHaveKeys, Come, KeyOf,
     BodyOf, EntriesOwned, RunnersOwn, WaitersServed, AnswersAreReal
<1>2. Calls = Requests
  BY HttpApiAssumption
<1>3. CASE UNCHANGED vars
  BY <1>1, <1>3 DEF vars
<1>4. ASSUME NEW d \in Devices, Form(d) \/ FormStep(d) \/ RenewStep(d)
      PROVE  StoreInv'
  BY <1>1, <1>4 DEF Form, FormStep, RenewStep
<1>5. ASSUME NEW c \in Calls, Call(c) \/ Refused(c) \/ Intercepted(c) \/ Told(c)
      PROVE  StoreInv'
  BY <1>1, <1>5 DEF Call, Refused, Intercepted, Told
<1>6. ASSUME NEW c \in Calls, Passed(c) PROVE StoreInv'
  BY <1>2, <1>6, ArriveKeeps DEF Passed
<1>7. ASSUME NEW c \in Calls, Handled(c) PROVE StoreInv'
  BY <1>2, <1>7, HandlerKeeps, FinishKeeps DEF Handled
<1>8. ASSUME NEW c \in Calls, Failed(c) PROVE StoreInv'
  BY <1>2, <1>8, HandlerKeeps, FailKeeps DEF Failed
<1>9. ASSUME NEW c \in Calls, Abandoned(c) PROVE StoreInv'
  BY <1>2, <1>9, FailKeeps DEF Abandoned
<1>10. CASE Aged
  BY <1>1, <1>10, ExpireEntryKeeps DEF Aged
<1> QED BY <1>3, <1>4, <1>5, <1>6, <1>7, <1>8, <1>9, <1>10 DEF Next, Step

-----------------------------------------------------------------------------
(* The theorems.                                                           *)

\* The rows, cookies, forms, calls and renewals of the session, and the
\* entries, calls and answers of the store keep the shapes of their types
\* (auth.controller.ts, apiClient.ts, idempotency.middleware.ts).
THEOREM HttpTypeCorrect == Spec => [](SessionTypeOK /\ StoreTypeOK)
<1>1. Init => SessionInv /\ StoreInv
  BY SessionStarts, StoreStarts DEF Init
<1>2. SessionInv /\ StoreInv /\ [Next]_vars => (SessionInv /\ StoreInv)'
  BY SessionStays, StoreStays
<1>3. SessionInv /\ StoreInv => SessionTypeOK /\ StoreTypeOK
  BY DEF SessionInv, StoreInv
<1> QED BY <1>1, <1>2, <1>3, PTL DEF Spec

\* A sound token of the row's version carries the row's password.
LEMMA SoundIsCurrent ==
  ASSUME SessionInv
  PROVE  CurrentPassword
<1>1. ASSUME NEW token \in Tokens PROVE Sound(token, account)
  BY <1>1 DEF Tokens, SessionInv, TokensSound
<1>2. account \in AccountType
  BY DEF SessionInv, SessionTypeOK
<1> QED BY <1>1, <1>2 DEF CurrentPassword, Live, Exists, Sound

\* No session that still counts was begun with a password that was replaced:
\* however sign-ins, resets, renewals and their answers overtake each other,
\* on any number of devices (auth.controller.ts:142-210, 423-472).
THEOREM OldPasswordsEnd == Spec => []CurrentPassword
<1>1. Init => SessionInv
  BY SessionStarts DEF Init
<1>2. SessionInv /\ [Next]_vars => SessionInv'
  BY SessionStays
<1> QED BY <1>1, <1>2, SoundIsCurrent, PTL DEF Spec

\* A call of a session that counts fails only for a failure of its own: the
\* database failed its second try, or the renewal it waited for failed on the
\* network or in the server.  For any number of calls that find the access
\* token gone at once, of renewals and of failures (apiClient.ts:45-97).
THEOREM PagesStaySignedIn == Spec => []StaysSignedIn
<1>1. Init => SessionInv
  BY SessionStarts DEF Init
<1>2. SessionInv /\ [Next]_vars => SessionInv'
  BY SessionStays
<1>3. SessionInv => StaysSignedIn
  BY DEF SessionInv
<1> QED BY <1>1, <1>2, <1>3, PTL DEF Spec

\* No call waits for a renewal nobody asked for, or for the answer of a call
\* that will not tell it (apiClient.ts:76-89,
\* idempotency.middleware.ts:326-338).
THEOREM NobodyWaitsInVain == Spec => []NoneLeftWaiting
<1>1. Init => SessionInv /\ StoreInv
  BY SessionStarts, StoreStarts DEF Init
<1>2. SessionInv /\ StoreInv /\ [Next]_vars => (SessionInv /\ StoreInv)'
  BY SessionStays, StoreStays
<1>3. ASSUME SessionInv, StoreInv PROVE NoneLeftWaiting
  <2>1. ASSUME NEW c \in Calls, call[c].state = "waits"
        PROVE  renewal[DeviceOf[c]] # NoRenewal
    BY <1>3, <2>1 DEF SessionInv, RenewalsServe, NoRenewal
  <2>2. ASSUME NEW c \in Calls, request[c].state = "waiting"
        PROVE  LET first == request[request[c].awaits] IN
               first.state \in {"running", "wrote", "lost"} /\ ~first.captured
    BY <1>3, <2>2, HttpApiAssumption DEF StoreInv, WaitersServed, Telling
  <2> QED BY <2>1, <2>2 DEF NoneLeftWaiting
<1> QED BY <1>1, <1>2, <1>3, PTL DEF Spec

\* A mutation may be repeated safely: two calls of one key both wrote only if
\* the entry of one was given up before its time, and every answer given is
\* that of a call that wrote, of the same key and body
\* (idempotency.middleware.ts:8-11).
THEOREM RepeatsAlwaysSafe == Spec => []RepeatsAreSafe
<1>1. Init => StoreInv
  BY StoreStarts DEF Init
<1>2. StoreInv /\ [Next]_vars => StoreInv'
  BY StoreStays
<1>3. ASSUME StoreInv PROVE RepeatsAreSafe
  <2>1. ASSUME NEW c \in written, NEW e \in written, c # e, KeyOf(c) = KeyOf(e)
        PROVE  c \in forgotten \/ e \in forgotten
    BY <1>3, <2>1 DEF StoreInv, StoreTypeOK, RunnersOwn
  <2> QED BY <1>3, <2>1 DEF StoreInv, RepeatsAreSafe, WrittenOnce
<1> QED BY <1>1, <1>2, <1>3, PTL DEF Spec

-----------------------------------------------------------------------------
(* The version history.  VersionsHeld: the newest versions are there, and  *)
(* what a node is about to delete was never one of them again.  LastIsKept:*)
(* while nothing failed and one node has persisted, what it has last       *)
(* persisted waits, is being written, or is the newest version.  The panel *)
(* shows versions that were drawn, and asks for the one that is selected.  *)

MaybeDrawn == Drawings \cup {NoDrawing}
RecorderType ==
  [pending : MaybeDrawn, timer : BOOLEAN, last : MaybeDrawn,
   write : {"idle", "creating", "listing", "deleting"}, shapes : MaybeDrawn,
   stale : SUBSET Int]
PanelType ==
  [stage : {"shut", "loading", "open"}, entries : Seq(Int), index : Nat,
   preview : MaybeDrawn, cache : SUBSET (Int \X Drawings),
   fetches : SUBSET [id : Int, cancelled : BOOLEAN], failed : BOOLEAN,
   playing : BOOLEAN, export : Nat]

HistoryTypeOK ==
  /\ canvas \in Drawings
  /\ recorder \in [Recorders -> RecorderType]
  /\ \A n \in Recorders : recorder[n].write = "creating" => recorder[n].shapes \in Drawings
  /\ \A n \in Recorders : recorder[n].timer => recorder[n].pending \in Drawings
  /\ drawn \in Seq(Drawings)
  /\ versions \subseteq 1..Len(drawn)
  /\ mistakes \in Nat
  /\ settled.by \subseteq Recorders
  /\ settled.by # {} => settled.shapes \in Drawings

VersionsHeld ==
  /\ \A id \in 1..Len(drawn) : id > Len(drawn) - MaxSnapshots => id \in versions
  /\ \A n \in Recorders : \A id \in recorder[n].stale : id <= Len(drawn) - MaxSnapshots

LastOf(r) ==
  /\ r.last = IF drawn = <<>> THEN NoDrawing ELSE drawn[Len(drawn)]
  /\ r.timer => r.pending = settled.shapes
  /\ ~r.timer /\ r.write = "creating" => r.shapes = settled.shapes
  /\ ~r.timer /\ r.write # "creating" => r.last = settled.shapes

LastIsKept ==
  mistakes = 0 =>
    /\ \A n \in Recorders \ settled.by : recorder[n] = Waiting
    /\ settled.by = {} => drawn = <<>>
    /\ \A n \in Recorders : settled.by = {n} => LastOf(recorder[n])

RecordsInv == HistoryTypeOK /\ VersionsHeld /\ LastIsKept

-----------------------------------------------------------------------------
LEMMA WaitingType == Waiting \in RecorderType
  BY DEF Waiting, RecorderType, MaybeDrawn

LEMMA RecordsStart == HistoryInit => RecordsInv
<1> SUFFICES ASSUME HistoryInit  PROVE RecordsInv
  OBVIOUS
<1>1. HistoryTypeOK
  BY WaitingType DEF HistoryInit, HistoryTypeOK, Waiting
<1>2. VersionsHeld
  BY DEF HistoryInit, VersionsHeld, Waiting
<1>3. LastIsKept
  BY DEF HistoryInit, LastIsKept
<1> QED
  BY <1>1, <1>2, <1>3 DEF RecordsInv

\* The fields of a recorder that is changed; the one of node n is new.
RecorderBecomes(n, new) == recorder' = [recorder EXCEPT ![n] = new]

LEMMA RecorderMoves ==
  ASSUME recorder \in [Recorders -> RecorderType], NEW n \in Recorders, NEW new \in RecorderType,
         RecorderBecomes(n, new)
  PROVE  /\ recorder' \in [Recorders -> RecorderType]
         /\ recorder'[n] = new
         /\ \A m \in Recorders \ {n} : recorder'[m] = recorder[m]
  BY DEF RecorderBecomes

\* What lies behind the newest versions stays behind.
LEMMA BehindIsOld ==
  ASSUME HistoryTypeOK, NEW id \in Behind
  PROVE  id \in versions /\ id <= Len(drawn) - MaxSnapshots
<1> DEFINE newer == {v \in versions : v > id}
<1>1. id \in versions /\ Cardinality(newer) >= MaxSnapshots
  BY DEF Behind
<1>2. /\ Len(drawn) \in Nat /\ versions \subseteq 1..Len(drawn)
      /\ MaxSnapshots \in Nat
  <2>1. drawn \in Seq(Drawings) /\ versions \subseteq 1..Len(drawn)
    BY DEF HistoryTypeOK
  <2>2. MaxSnapshots \in Nat
    BY CanvasHistoryAssumption
  <2> QED
    BY <2>1, <2>2
<1> HIDE DEF newer
<1>3. /\ id \in Int /\ id + 1 \in Int /\ id <= Len(drawn) /\ 1 <= id
      /\ newer \subseteq (id + 1)..Len(drawn)
  <2>1. id \in 1..Len(drawn)
    BY <1>1, <1>2
  <2>2. \A v \in newer : v \in 1..Len(drawn) /\ v > id
    BY <1>2 DEF newer
  <2> QED
    BY <1>2, <2>1, <2>2
<1>4. /\ IsFiniteSet((id + 1)..Len(drawn))
      /\ Cardinality((id + 1)..Len(drawn)) = Len(drawn) - id
  <2>1. id + 1 > Len(drawn) => Len(drawn) - id = 0
    BY <1>2, <1>3
  <2>2. id + 1 <= Len(drawn) => Len(drawn) - (id + 1) + 1 = Len(drawn) - id
    BY <1>2, <1>3
  <2> QED
    BY <1>2, <1>3, <2>1, <2>2, FS_Interval
<1>5. Cardinality(newer) \in Nat /\ Cardinality(newer) <= Len(drawn) - id
  BY <1>3, <1>4, FS_Subset, FS_CardinalityType
<1> QED
  BY <1>1, <1>2, <1>3, <1>5

LEMMA PersistedKeeps == ASSUME RecordsInv, NEW n \in Recorders, Persisted(n)  PROVE RecordsInv'
<1> DEFINE new == Scheduled(recorder[n], canvas)
<1>1. /\ RecorderBecomes(n, new)
      /\ UNCHANGED <<canvas, versions, drawn, mistakes>>
      /\ settled' = [shapes |-> canvas, by |-> settled.by \cup {n}]
  BY DEF Persisted, RecorderBecomes
<1>2. HistoryTypeOK /\ VersionsHeld /\ LastIsKept /\ recorder[n] \in RecorderType /\ canvas \in Drawings
  BY DEF RecordsInv, HistoryTypeOK
<1>3. /\ new \in RecorderType
      /\ new.pending = canvas /\ new.timer = TRUE
      /\ new.last = recorder[n].last /\ new.write = recorder[n].write
      /\ new.shapes = recorder[n].shapes /\ new.stale = recorder[n].stale
  BY <1>2 DEF RecorderType, MaybeDrawn, Scheduled
<1> HIDE DEF new
<1>4. /\ recorder' \in [Recorders -> RecorderType] /\ recorder'[n] = new
      /\ \A m \in Recorders \ {n} : recorder'[m] = recorder[m]
  BY <1>1, <1>2, <1>3, RecorderMoves DEF HistoryTypeOK
<1>5. HistoryTypeOK'
  BY <1>1, <1>2, <1>3, <1>4 DEF HistoryTypeOK
<1>6. VersionsHeld'
  BY <1>1, <1>2, <1>3, <1>4 DEF VersionsHeld
<1>7. LastIsKept'
  <2> SUFFICES ASSUME mistakes = 0  PROVE LastIsKept'
    BY <1>1 DEF LastIsKept
  <2>1. \A m \in Recorders \ settled'.by : recorder'[m] = Waiting
    BY <1>1, <1>2, <1>4 DEF LastIsKept
  <2>2. ASSUME NEW m \in Recorders, settled'.by = {m}  PROVE LastOf(recorder[m])'
    <3>1. m = n /\ settled.by \in {{}, {n}} /\ settled'.shapes = canvas
      BY <1>1, <2>2
    <3>2. new.last = IF drawn = <<>> THEN NoDrawing ELSE drawn[Len(drawn)]
      <4>1. CASE settled.by = {}
        BY <4>1, <1>2, <1>3 DEF LastIsKept, Waiting
      <4>2. CASE settled.by = {n}
        BY <4>2, <1>2, <1>3 DEF LastIsKept, LastOf
      <4> QED
        BY <3>1, <4>1, <4>2
    <3> QED
      BY <3>1, <3>2, <1>1, <1>3, <1>4 DEF LastOf
  <2> QED
    BY <1>1, <2>1, <2>2 DEF LastIsKept
<1> QED
  BY <1>5, <1>6, <1>7 DEF RecordsInv

LEMMA TimerFiresKeeps == ASSUME RecordsInv, NEW n \in Recorders, TimerFires(n)  PROVE RecordsInv'
<1> DEFINE r == recorder[n]
           fired == [r EXCEPT !.timer = FALSE, !.pending = NoDrawing]
           begun == [fired EXCEPT !.write = "creating", !.shapes = r.pending]
           new == IF r.pending = r.last THEN fired ELSE begun
<1>1. /\ RecorderBecomes(n, new) /\ r.timer /\ r.write = "idle"
      /\ UNCHANGED <<canvas, versions, drawn, mistakes, settled>>
  BY DEF TimerFires, RecorderBecomes
<1>2. HistoryTypeOK /\ VersionsHeld /\ LastIsKept /\ r \in RecorderType /\ r.pending \in Drawings
  BY <1>1 DEF RecordsInv, HistoryTypeOK
<1>3. /\ fired \in RecorderType /\ fired.timer = FALSE /\ fired.pending = NoDrawing
      /\ fired.last = r.last /\ fired.write = "idle" /\ fired.shapes = r.shapes /\ fired.stale = r.stale
  BY <1>1, <1>2 DEF RecorderType, MaybeDrawn
<1>4. /\ begun \in RecorderType /\ begun.timer = FALSE /\ begun.pending = NoDrawing
      /\ begun.last = r.last /\ begun.write = "creating" /\ begun.shapes = r.pending
      /\ begun.stale = r.stale
  BY <1>2 DEF RecorderType, MaybeDrawn
<1> HIDE DEF fired, begun
<1>5. /\ new \in RecorderType /\ new.timer = FALSE /\ new.last = r.last /\ new.stale = r.stale
      /\ \/ new.write = "idle" /\ r.pending = r.last
         \/ new.write = "creating" /\ new.shapes = r.pending
  BY <1>3, <1>4
<1> HIDE DEF new, r
<1>6. /\ recorder' \in [Recorders -> RecorderType] /\ recorder'[n] = new
      /\ \A m \in Recorders \ {n} : recorder'[m] = recorder[m]
  BY <1>1, <1>2, <1>5, RecorderMoves DEF HistoryTypeOK
<1>7. HistoryTypeOK'
  BY <1>1, <1>2, <1>5, <1>6 DEF HistoryTypeOK
<1>8. VersionsHeld'
  BY <1>1, <1>2, <1>5, <1>6 DEF VersionsHeld, r
<1>9. LastIsKept'
  <2> SUFFICES ASSUME mistakes = 0  PROVE LastIsKept'
    BY <1>1 DEF LastIsKept
  <2>1. n \in settled.by
    BY <1>1, <1>2 DEF LastIsKept, Waiting, r
  <2>2. ASSUME settled.by = {n}  PROVE LastOf(recorder[n])'
    <3>1. LastOf(r)
      BY <1>2, <2>2 DEF LastIsKept, r
    <3> QED
      BY <3>1, <1>1, <1>5, <1>6 DEF LastOf
  <2>3. ASSUME NEW m \in Recorders, settled.by = {m}  PROVE LastOf(recorder[m])'
    <3>1. m = n
      BY <2>1, <2>3
    <3> QED
      BY <3>1, <2>2, <2>3
  <2> QED
    BY <1>1, <1>2, <1>6, <2>1, <2>3 DEF LastIsKept
<1> QED
  BY <1>7, <1>8, <1>9 DEF RecordsInv

\* A version is written: it is the newest, and the older ones move back.
LEMMA RecordedHolds ==
  ASSUME HistoryTypeOK, VersionsHeld, NEW d \in Drawings, Recorded(d)
  PROVE  /\ drawn' \in Seq(Drawings) /\ Len(drawn') = Len(drawn) + 1 /\ Len(drawn) \in Nat
         /\ drawn'[Len(drawn')] = d /\ drawn' # <<>>
         /\ \A id \in 1..Len(drawn) : drawn'[id] = drawn[id]
         /\ versions' \subseteq 1..Len(drawn')
         /\ \A id \in 1..Len(drawn') : id > Len(drawn') - MaxSnapshots => id \in versions'
<1>1. drawn \in Seq(Drawings) /\ versions \subseteq 1..Len(drawn)
  BY DEF HistoryTypeOK
<1>2. /\ drawn' \in Seq(Drawings) /\ Len(drawn') = Len(drawn) + 1 /\ Len(drawn) \in Nat
      /\ drawn'[Len(drawn')] = d /\ drawn' # <<>>
      /\ \A id \in 1..Len(drawn) : drawn'[id] = drawn[id]
  BY <1>1 DEF Recorded
<1>3. versions' = versions \cup {Len(drawn) + 1}
  BY DEF Recorded
<1>4. versions' \subseteq 1..Len(drawn')
  <2>1. \A id \in 1..Len(drawn) : id \in 1..Len(drawn')
    BY <1>2
  <2>2. Len(drawn) + 1 \in 1..Len(drawn')
    BY <1>2
  <2> QED
    BY <1>1, <1>3, <2>1, <2>2
<1>5. ASSUME NEW id \in 1..Len(drawn'), id > Len(drawn') - MaxSnapshots  PROVE id \in versions'
  <2>1. MaxSnapshots \in Nat
    BY CanvasHistoryAssumption
  <2>2. id \in 1..Len(drawn) => id > Len(drawn) - MaxSnapshots
    BY <1>2, <1>5, <2>1
  <2>3. id \in 1..Len(drawn) \/ id = Len(drawn) + 1
    BY <1>2
  <2> QED
    BY <2>2, <2>3, <1>3 DEF VersionsHeld
<1> QED
  BY <1>2, <1>4, <1>5

LEMMA CreateKeeps == ASSUME RecordsInv, NEW n \in Recorders, Create(n)  PROVE RecordsInv'
<1> DEFINE r == recorder[n]
           new == [r EXCEPT !.write = "listing", !.last = r.shapes]
<1>1. /\ RecorderBecomes(n, new) /\ r.write = "creating" /\ Recorded(r.shapes)
      /\ UNCHANGED <<canvas, mistakes, settled>>
  BY DEF Create, RecorderBecomes
<1>2. HistoryTypeOK /\ VersionsHeld /\ LastIsKept /\ r \in RecorderType /\ r.shapes \in Drawings
  BY <1>1 DEF RecordsInv, HistoryTypeOK
<1>3. /\ new \in RecorderType /\ new.timer = r.timer /\ new.pending = r.pending
      /\ new.last = r.shapes /\ new.write = "listing" /\ new.stale = r.stale
  BY <1>2 DEF RecorderType, MaybeDrawn
<1> HIDE DEF new, r
<1>4. /\ recorder' \in [Recorders -> RecorderType] /\ recorder'[n] = new
      /\ \A m \in Recorders \ {n} : recorder'[m] = recorder[m]
  BY <1>1, <1>2, <1>3, RecorderMoves DEF HistoryTypeOK
<1>5. /\ drawn' \in Seq(Drawings) /\ Len(drawn') = Len(drawn) + 1 /\ Len(drawn) \in Nat
      /\ drawn'[Len(drawn')] = r.shapes /\ drawn' # <<>>
      /\ versions' \subseteq 1..Len(drawn')
      /\ \A id \in 1..Len(drawn') : id > Len(drawn') - MaxSnapshots => id \in versions'
  BY <1>1, <1>2, RecordedHolds
<1>6. HistoryTypeOK'
  BY <1>1, <1>2, <1>3, <1>4, <1>5 DEF HistoryTypeOK, r
<1>7. VersionsHeld'
  <2>1. ASSUME NEW m \in Recorders, NEW id \in recorder'[m].stale
        PROVE  id <= Len(drawn') - MaxSnapshots
    <3>1. id \in recorder[m].stale
      BY <1>3, <1>4 DEF r
    <3>2. id \in Int /\ id <= Len(drawn) - MaxSnapshots /\ MaxSnapshots \in Nat
      BY <3>1, <1>2, CanvasHistoryAssumption DEF VersionsHeld, HistoryTypeOK, RecorderType
    <3> QED
      BY <3>2, <1>5
  <2> QED
    BY <2>1, <1>5 DEF VersionsHeld
<1>8. LastIsKept'
  <2> SUFFICES ASSUME mistakes = 0  PROVE LastIsKept'
    BY <1>1 DEF LastIsKept
  <2>1. n \in settled.by
    BY <1>1, <1>2 DEF LastIsKept, Waiting, r
  <2>2. ASSUME settled.by = {n}  PROVE LastOf(recorder[n])'
    <3>1. LastOf(r)
      BY <1>2, <2>2 DEF LastIsKept, r
    <3> QED
      BY <3>1, <1>1, <1>3, <1>4, <1>5 DEF LastOf
  <2>3. ASSUME NEW m \in Recorders, settled.by = {m}  PROVE LastOf(recorder[m])'
    <3>1. m = n
      BY <2>1, <2>3
    <3> QED
      BY <3>1, <2>2, <2>3
  <2> QED
    BY <1>1, <1>2, <1>4, <2>1, <2>3 DEF LastIsKept
<1> QED
  BY <1>6, <1>7, <1>8 DEF RecordsInv

\* A step of a node's write that ends or goes on without a new version.
LEMMA WriteMoves ==
  ASSUME RecordsInv, NEW n \in Recorders, NEW new \in RecorderType, RecorderBecomes(n, new),
         UNCHANGED <<canvas, drawn, mistakes, settled>>,
         recorder[n].write \in {"listing", "deleting"}, new.write # "creating",
         new.timer = recorder[n].timer, new.pending = recorder[n].pending,
         new.last = recorder[n].last,
         \A id \in new.stale : id <= Len(drawn) - MaxSnapshots,
         versions' \subseteq versions,
         \A id \in versions : id > Len(drawn) - MaxSnapshots => id \in versions'
  PROVE  RecordsInv'
<1>1. HistoryTypeOK /\ VersionsHeld /\ LastIsKept
  BY DEF RecordsInv
<1>2. /\ recorder' \in [Recorders -> RecorderType] /\ recorder'[n] = new
      /\ \A m \in Recorders \ {n} : recorder'[m] = recorder[m]
  BY <1>1, RecorderMoves DEF HistoryTypeOK
<1>3. HistoryTypeOK'
  BY <1>1, <1>2 DEF HistoryTypeOK
<1>4. VersionsHeld'
  BY <1>1, <1>2 DEF VersionsHeld
<1>5. LastIsKept'
  <2> SUFFICES ASSUME mistakes = 0  PROVE LastIsKept'
    BY DEF LastIsKept
  <2>1. n \in settled.by
    BY <1>1 DEF LastIsKept, Waiting
  <2>2. ASSUME settled.by = {n}  PROVE LastOf(recorder[n])'
    <3>1. LastOf(recorder[n])
      BY <1>1, <2>2 DEF LastIsKept
    <3> QED
      BY <3>1, <1>2 DEF LastOf
  <2>3. ASSUME NEW m \in Recorders, settled.by = {m}  PROVE LastOf(recorder[m])'
    <3>1. m = n
      BY <2>1, <2>3
    <3> QED
      BY <3>1, <2>2, <2>3
  <2> QED
    BY <1>1, <1>2, <2>1, <2>3 DEF LastIsKept
<1> QED
  BY <1>3, <1>4, <1>5 DEF RecordsInv

LEMMA ListStaleKeeps == ASSUME RecordsInv, NEW n \in Recorders, ListStale(n)  PROVE RecordsInv'
<1> DEFINE r == recorder[n]
           new == [r EXCEPT !.write = IF Behind = {} THEN "idle" ELSE "deleting",
                            !.stale = Behind, !.shapes = NoDrawing]
<1>1. HistoryTypeOK /\ r \in RecorderType /\ r.write = "listing"
  BY DEF RecordsInv, HistoryTypeOK, ListStale
<1>2. RecorderBecomes(n, new)
  BY DEF ListStale, RecorderBecomes
<1>3. Behind \subseteq Int /\ \A id \in Behind : id <= Len(drawn) - MaxSnapshots
  <2>1. \A id \in Behind : id \in versions /\ id <= Len(drawn) - MaxSnapshots
    BY <1>1, BehindIsOld
  <2>2. versions \subseteq Int
    BY <1>1 DEF HistoryTypeOK
  <2> QED
    BY <2>1, <2>2
<1>4. /\ new \in RecorderType /\ new.timer = r.timer /\ new.pending = r.pending
      /\ new.last = r.last /\ new.write # "creating" /\ new.stale = Behind
  BY <1>1, <1>3 DEF RecorderType, MaybeDrawn
<1> HIDE DEF new
<1> QED
  BY <1>1, <1>2, <1>3, <1>4, WriteMoves DEF ListStale

LEMMA DeleteStaleKeeps == ASSUME RecordsInv, NEW n \in Recorders, DeleteStale(n)  PROVE RecordsInv'
<1> DEFINE r == recorder[n]
           new == [r EXCEPT !.write = "idle", !.stale = {}]
<1>1. HistoryTypeOK /\ VersionsHeld /\ r \in RecorderType /\ r.write = "deleting"
  BY DEF RecordsInv, HistoryTypeOK, DeleteStale
<1>2. RecorderBecomes(n, new) /\ versions' = versions \ r.stale
  BY DEF DeleteStale, RecorderBecomes
<1>3. /\ new \in RecorderType /\ new.timer = r.timer /\ new.pending = r.pending
      /\ new.last = r.last /\ new.write = "idle" /\ new.stale = {}
  BY <1>1 DEF RecorderType, MaybeDrawn
<1>4. \A id \in versions : id > Len(drawn) - MaxSnapshots => id \in versions'
  <2>1. MaxSnapshots \in Nat /\ Len(drawn) \in Nat
    <3>1. MaxSnapshots \in Nat
      BY CanvasHistoryAssumption
    <3>2. drawn \in Seq(Drawings)
      BY <1>1 DEF HistoryTypeOK
    <3> QED
      BY <3>1, <3>2
  <2>2. \A id \in r.stale : id \in Int /\ id <= Len(drawn) - MaxSnapshots
    BY <1>1 DEF VersionsHeld, RecorderType
  <2>3. \A id \in r.stale : ~(id > Len(drawn) - MaxSnapshots)
    BY <2>1, <2>2
  <2> QED
    BY <1>2, <2>3
<1> HIDE DEF new
<1> QED
  BY <1>1, <1>2, <1>3, <1>4, WriteMoves DEF DeleteStale

\* After a mistake nothing is promised of the last version.
LEMMA MistakeMoves ==
  ASSUME RecordsInv, NEW n \in Recorders, NEW new \in RecorderType, RecorderBecomes(n, new),
         UNCHANGED <<canvas, settled>>, mistakes' = mistakes + 1,
         new.write # "creating", new.timer => new.pending \in Drawings, new.stale = {},
         \/ UNCHANGED <<versions, drawn>>
         \/ \E d \in Drawings : Recorded(d)
  PROVE  RecordsInv'
<1>1. HistoryTypeOK /\ VersionsHeld
  BY DEF RecordsInv
<1>2. /\ recorder' \in [Recorders -> RecorderType] /\ recorder'[n] = new
      /\ \A m \in Recorders \ {n} : recorder'[m] = recorder[m]
  BY <1>1, RecorderMoves DEF HistoryTypeOK
<1>3. mistakes' \in Nat /\ mistakes' # 0
  BY <1>1 DEF HistoryTypeOK
<1>4. /\ drawn' \in Seq(Drawings) /\ Len(drawn') >= Len(drawn)
      /\ Len(drawn) \in Nat /\ Len(drawn') \in Nat
      /\ versions' \subseteq 1..Len(drawn')
      /\ \A id \in 1..Len(drawn') : id > Len(drawn') - MaxSnapshots => id \in versions'
  <2>1. CASE UNCHANGED <<versions, drawn>>
    BY <2>1, <1>1 DEF HistoryTypeOK, VersionsHeld
  <2>2. CASE \E d \in Drawings : Recorded(d)
    <3>1. PICK d \in Drawings : Recorded(d)
      BY <2>2
    <3> QED
      BY <3>1, <1>1, RecordedHolds
  <2> QED
    BY <2>1, <2>2
<1>5. HistoryTypeOK'
  BY <1>1, <1>2, <1>3, <1>4 DEF HistoryTypeOK
<1>6. VersionsHeld'
  <2>1. ASSUME NEW m \in Recorders, NEW id \in recorder'[m].stale
        PROVE  id <= Len(drawn') - MaxSnapshots
    <3>1. id \in recorder[m].stale
      BY <1>2
    <3>2. id \in Int /\ id <= Len(drawn) - MaxSnapshots /\ MaxSnapshots \in Nat
      BY <3>1, <1>1, CanvasHistoryAssumption DEF VersionsHeld, HistoryTypeOK, RecorderType
    <3> QED
      BY <3>2, <1>4
  <2> QED
    BY <2>1, <1>4 DEF VersionsHeld
<1> QED
  BY <1>3, <1>5, <1>6 DEF RecordsInv, LastIsKept

LEMMA QueryFailsKeeps == ASSUME RecordsInv, NEW n \in Recorders, QueryFails(n)  PROVE RecordsInv'
<1> DEFINE r == recorder[n]
           new == [r EXCEPT !.write = "idle", !.shapes = NoDrawing, !.stale = {}]
<1>1. /\ r \in RecorderType /\ (r.timer => r.pending \in Drawings)
      /\ r.write = "creating" => r.shapes \in Drawings
  BY DEF RecordsInv, HistoryTypeOK
<1>2. /\ RecorderBecomes(n, new)
      /\ \/ UNCHANGED <<versions, drawn>>
         \/ r.write = "creating" /\ Recorded(r.shapes)
  BY DEF QueryFails, RecorderBecomes
<1>3. /\ new \in RecorderType /\ new.timer = r.timer /\ new.pending = r.pending
      /\ new.write = "idle" /\ new.stale = {}
  BY <1>1 DEF RecorderType, MaybeDrawn
<1> HIDE DEF new
<1>4. UNCHANGED <<versions, drawn>> \/ \E d \in Drawings : Recorded(d)
  BY <1>1, <1>2
<1> QED
  BY <1>1, <1>2, <1>3, <1>4, MistakeMoves DEF QueryFails

LEMMA RestartKeeps == ASSUME RecordsInv, NEW n \in Recorders, RecorderRestarts(n)  PROVE RecordsInv'
<1>1. RecorderBecomes(n, Waiting)
  BY DEF RecorderRestarts, RecorderBecomes
<1>2. Waiting.write = "idle" /\ Waiting.timer = FALSE /\ Waiting.stale = {}
  BY DEF Waiting
<1> QED
  BY <1>1, <1>2, WaitingType, MistakeMoves DEF RecorderRestarts

\* Editing and restoring change the canvas only.
LEMMA CanvasMoves ==
  ASSUME RecordsInv, canvas' \in Drawings, UNCHANGED <<recorder, versions, drawn, mistakes, settled>>
  PROVE  RecordsInv'
  BY DEF RecordsInv, HistoryTypeOK, VersionsHeld, LastIsKept, LastOf

LEMMA RecorderKeeps == ASSUME RecordsInv, NEW n \in Recorders, RecorderStep(n)  PROVE RecordsInv'
  BY PersistedKeeps, TimerFiresKeeps, CreateKeeps, ListStaleKeeps, DeleteStaleKeeps,
     QueryFailsKeeps, RestartKeeps DEF RecorderStep

LEMMA HeldAreKept == RecordsInv => VersionsKept
<1> SUFFICES ASSUME RecordsInv  PROVE VersionsKept
  OBVIOUS
<1>1. DOMAIN drawn = 1..Len(drawn) /\ \A id \in 1..Len(drawn) : drawn[id] \in Drawings
  BY DEF RecordsInv, HistoryTypeOK
<1>2. ASSUME NEW n \in Recorders, settled.by = {n}, mistakes = 0, Quiet(recorder[n])
      PROVE  drawn # <<>> /\ drawn[Len(drawn)] = settled.shapes
  <2>1. LastOf(recorder[n]) /\ settled.shapes \in Drawings
    BY <1>2 DEF RecordsInv, LastIsKept, HistoryTypeOK
  <2>2. NoDrawing \notin Drawings
    BY CanvasHistoryAssumption DEF NoDrawing
  <2> QED
    BY <1>2, <2>1, <2>2 DEF LastOf, Quiet
<1> QED
  BY <1>1, <1>2 DEF RecordsInv, VersionsHeld, VersionsKept

-----------------------------------------------------------------------------
(* The panel.  What it has is of versions that were drawn; the request that*)
(* is not cancelled is for the version that is selected, and without one   *)
(* the preview is of that version.                                         *)

PanelKnows(p) ==
  /\ p \in PanelType
  /\ p.index <= Len(p.entries)
  /\ p.playing => p.entries # <<>>
  /\ \A i \in 1..Len(p.entries) : p.entries[i] \in 1..Len(drawn)
  /\ \A c \in p.cache : c[1] \in 1..Len(drawn) /\ c[2] = drawn[c[1]]
  /\ \A f \in p.fetches : f.id \in 1..Len(drawn)

Follows(p) ==
  /\ \A f \in p.fetches : ~f.cancelled => f.id = Selected(p)
  /\ Selected(p) # 0 /\ ~p.failed /\ (\A f \in p.fetches : f.cancelled) =>
       p.preview = drawn[Selected(p)]

PanelOK(p) ==
  /\ PanelKnows(p)
  /\ p.stage = "open" => Follows(p)
  /\ p.stage # "open" => p.fetches = {} /\ ~p.playing /\ p.export = 0

HistoryInv == RecordsInv /\ PanelOK(panel)

LEMMA ShutOK == drawn \in Seq(Drawings) => PanelOK(Shut)
<1> SUFFICES ASSUME drawn \in Seq(Drawings)  PROVE PanelOK(Shut)
  OBVIOUS
<1>1. /\ Shut \in PanelType /\ Shut.index = 0 /\ Shut.entries = <<>> /\ Shut.cache = {}
      /\ Shut.fetches = {} /\ Shut.stage = "shut" /\ Shut.playing = FALSE /\ Shut.export = 0
  BY DEF Shut, PanelType, MaybeDrawn
<1> HIDE DEF Shut
<1> QED
  BY <1>1 DEF PanelOK, PanelKnows

LEMMA SelectedType ==
  ASSUME NEW p, PanelKnows(p), drawn \in Seq(Drawings)
  PROVE  Selected(p) = 0 \/ Selected(p) \in 1..Len(drawn)
<1>1. p.entries \in Seq(Int) /\ p.index \in Nat
  BY DEF PanelKnows, PanelType
<1>2. p.index < Len(p.entries) => p.index + 1 \in 1..Len(p.entries)
  BY <1>1
<1> QED
  BY <1>1, <1>2 DEF PanelKnows, Selected, LiveCanvas

\* The effect of a selection: cancel, and show or ask.
LEMMA ShowingFollows ==
  ASSUME NEW p, PanelKnows(p), p.stage = "open", drawn \in Seq(Drawings)
  PROVE  PanelOK(Showing(p)) /\ Showing(p).stage = "open"
<1> DEFINE id == Selected(p)
           q == [p EXCEPT !.fetches = Cancelled(p), !.failed = FALSE]
<1>1. id = 0 \/ id \in 1..Len(drawn)
  BY SelectedType
<1>2. /\ p \in PanelType
      /\ Cancelled(p) \subseteq [id : Int, cancelled : BOOLEAN]
      /\ \A f \in Cancelled(p) : f.cancelled = TRUE /\ f.id \in 1..Len(drawn)
  <2>1. p \in PanelType /\ \A f \in p.fetches : f.id \in 1..Len(drawn)
    BY DEF PanelKnows
  <2>2. \A f \in p.fetches : f \in [id : Int, cancelled : BOOLEAN]
    BY <2>1 DEF PanelType
  <2>3. ASSUME NEW f \in Cancelled(p)
        PROVE  /\ f \in [id : Int, cancelled : BOOLEAN]
               /\ f.cancelled = TRUE /\ f.id \in 1..Len(drawn)
    <3>1. PICK g \in p.fetches : f = [g EXCEPT !.cancelled = TRUE]
      BY DEF Cancelled
    <3> QED
      BY <3>1, <2>1, <2>2
  <2> QED
    BY <2>1, <2>3
<1>3. /\ q \in PanelType /\ q.stage = "open" /\ q.entries = p.entries /\ q.index = p.index
      /\ q.cache = p.cache /\ q.fetches = Cancelled(p) /\ q.failed = FALSE
      /\ q.playing = p.playing
  BY <1>2 DEF PanelType
<1> DEFINE empty == [q EXCEPT !.preview = NoDrawing]
           kept == [q EXCEPT !.preview = CacheOf(p, id)]
           asked == [q EXCEPT !.fetches = @ \cup {[id |-> id, cancelled |-> FALSE]}]
<1>4. Showing(p) = CASE id = 0 -> empty
                     [] id # 0 /\ id \in Cached(p) -> kept
                     [] OTHER -> asked
  BY DEF Showing
<1> HIDE DEF q
<1>5. ASSUME NEW s \in PanelType, s.stage = "open", s.entries = p.entries, s.index = p.index,
             s.cache = p.cache, s.playing = p.playing
      PROVE  /\ Selected(s) = id
             /\ (\A f \in s.fetches : f.id \in 1..Len(drawn)) => PanelKnows(s)
  BY <1>5 DEF PanelKnows, Selected, LiveCanvas
<1>6. CASE id = 0
  <2>1. /\ empty \in PanelType /\ empty.stage = "open" /\ empty.playing = p.playing
        /\ empty.entries = p.entries
        /\ empty.index = p.index /\ empty.cache = p.cache /\ empty.fetches = Cancelled(p)
    BY <1>3 DEF PanelType, MaybeDrawn
  <2>2. Showing(p) = empty
    BY <1>4, <1>6
  <2> HIDE DEF empty, id
  <2>3. Selected(empty) = 0 /\ PanelKnows(empty)
    BY <1>2, <1>5, <1>6, <2>1
  <2> QED
    BY <1>2, <2>1, <2>2, <2>3 DEF PanelOK, Follows
<1>7. CASE id # 0 /\ id \in Cached(p)
  <2>1. CacheOf(p, id) = drawn[id] /\ drawn[id] \in Drawings
    <3>1. \E c \in p.cache : c[1] = id
      BY <1>7 DEF Cached
    <3>2. \A c \in p.cache : c[1] = id => c[2] = drawn[id]
      BY DEF PanelKnows
    <3> QED
      BY <1>1, <1>7, <3>1, <3>2 DEF CacheOf
  <2>2. /\ kept \in PanelType /\ kept.stage = "open" /\ kept.playing = p.playing
        /\ kept.entries = p.entries
        /\ kept.index = p.index /\ kept.cache = p.cache /\ kept.fetches = Cancelled(p)
        /\ kept.preview = drawn[id]
    BY <1>3, <2>1 DEF PanelType, MaybeDrawn
  <2>3. Showing(p) = kept
    BY <1>4, <1>7
  <2> HIDE DEF kept, id
  <2>4. Selected(kept) = id /\ PanelKnows(kept)
    BY <1>2, <1>5, <2>2
  <2> QED
    BY <1>2, <2>2, <2>3, <2>4 DEF PanelOK, Follows
<1>8. CASE id # 0 /\ id \notin Cached(p)
  <2> DEFINE new == [id |-> id, cancelled |-> FALSE]
  <2>1. new \in [id : Int, cancelled : BOOLEAN] /\ new.id = id /\ new.cancelled = FALSE
    BY <1>1, <1>8
  <2> HIDE DEF new
  <2>2. /\ asked \in PanelType /\ asked.stage = "open" /\ asked.playing = p.playing
        /\ asked.entries = p.entries
        /\ asked.index = p.index /\ asked.cache = p.cache
        /\ asked.fetches = Cancelled(p) \cup {new}
    BY <1>2, <1>3, <2>1 DEF PanelType, MaybeDrawn, new
  <2>3. Showing(p) = asked
    BY <1>4, <1>8
  <2> HIDE DEF asked, id
  <2>4. Selected(asked) = id /\ PanelKnows(asked)
    BY <1>1, <1>2, <1>5, <1>8, <2>1, <2>2
  <2> QED
    BY <1>2, <2>1, <2>2, <2>3, <2>4 DEF PanelOK, Follows
<1> QED
  BY <1>6, <1>7, <1>8

LEMMA MovedFollows ==
  ASSUME NEW p, PanelOK(p), p.stage = "open", drawn \in Seq(Drawings),
         NEW i \in 0..Len(p.entries)
  PROVE  PanelOK(MovedTo(p, i))
<1> DEFINE q == [p EXCEPT !.index = i]
<1>1. PanelKnows(p) /\ p \in PanelType /\ i \in Nat /\ i <= Len(p.entries)
  BY DEF PanelOK, PanelKnows, PanelType
<1>2. /\ q \in PanelType /\ q.stage = "open" /\ q.entries = p.entries /\ q.index = i
      /\ q.playing = p.playing
      /\ q.cache = p.cache /\ q.fetches = p.fetches
  BY <1>1 DEF PanelType
<1> HIDE DEF q
<1>3. PanelKnows(q)
  BY <1>1, <1>2 DEF PanelKnows
<1>4. PanelOK(Showing(q))
  BY <1>2, <1>3, ShowingFollows
<1> QED
  BY <1>4 DEF MovedTo, q

\* The timelapse and the export change nothing else.
LEMMA PlayingIsApart ==
  ASSUME NEW p, PanelOK(p), p.stage = "open", NEW b \in BOOLEAN, b => p.entries # <<>>
  PROVE  /\ PanelOK([p EXCEPT !.playing = b])
         /\ [p EXCEPT !.playing = b].stage = "open"
         /\ [p EXCEPT !.playing = b].entries = p.entries
<1> DEFINE q == [p EXCEPT !.playing = b]
<1>1. p \in PanelType
  BY DEF PanelOK, PanelKnows
<1>2. /\ q \in PanelType /\ q.stage = "open" /\ q.entries = p.entries /\ q.index = p.index
      /\ q.cache = p.cache /\ q.fetches = p.fetches /\ q.failed = p.failed /\ q.preview = p.preview
  BY <1>1 DEF PanelType
<1>2a. q.playing = b
  BY <1>1 DEF PanelType
<1> HIDE DEF q
<1>2b. q.playing => p.entries # <<>>
  BY <1>2a
<1>3. PanelKnows(q)
  BY <1>2, <1>2b DEF PanelOK, PanelKnows
<1>4. Selected(q) = Selected(p)
  BY <1>2 DEF Selected, LiveCanvas
<1>5. Follows(q)
  BY <1>2, <1>4 DEF PanelOK, Follows
<1>6. PanelOK(q)
  BY <1>2, <1>3, <1>5 DEF PanelOK
<1> QED
  BY <1>2, <1>6 DEF q

LEMMA ListedKeeps ==
  ASSUME RecordsInv, PanelOK(panel), Listed  PROVE PanelOK(panel')
<1>1. drawn \in Seq(Drawings) /\ versions \subseteq 1..Len(drawn)
  BY DEF RecordsInv, HistoryTypeOK
<1>2. PICK entries \in Newest \cup {<<>>} :
        panel' = Showing([panel EXCEPT !.stage = "open", !.entries = entries,
                            !.index = IF entries = <<>> THEN 0 ELSE Len(entries) - 1])
  BY DEF Listed
<1>3. entries \in Seq(Int) /\ \A i \in 1..Len(entries) : entries[i] \in 1..Len(drawn)
  <2>1. CASE entries = <<>>
    BY <2>1
  <2>2. CASE entries \in Newest
    <3> DEFINE listed == versions \ Behind
               n == Cardinality(listed)
    <3>1. entries \in [1..n -> listed]
      BY <2>2 DEF Newest
    <3>2. n \in Nat
      <4>1. Len(drawn) \in Nat
        BY <1>1
      <4>2. IsFiniteSet(1..Len(drawn))
        BY <4>1, FS_Interval
      <4> QED
        BY <1>1, <4>2, FS_Subset, FS_CardinalityType
    <3> HIDE DEF n
    <3>3. Len(entries) = n /\ \A i \in 1..n : entries[i] \in versions
      BY <3>1, <3>2
    <3>4. \A v \in versions : v \in 1..Len(drawn) /\ v \in Int
      BY <1>1
    <3>5. \A i \in 1..n : entries[i] \in Int
      BY <3>3, <3>4
    <3>6. entries \in [1..n -> Int]
      BY <3>1, <3>5
    <3> QED
      BY <3>2, <3>3, <3>4, <3>6
  <2> QED
    BY <1>2, <2>1, <2>2
<1> DEFINE at == IF entries = <<>> THEN 0 ELSE Len(entries) - 1
           q == [panel EXCEPT !.stage = "open", !.entries = entries, !.index = at]
<1>4. at \in Nat /\ at <= Len(entries)
  BY <1>3
<1>5. PanelKnows(panel) /\ panel \in PanelType /\ ~panel.playing
  BY DEF PanelOK, PanelKnows, Listed
<1> HIDE DEF at
<1>6. /\ q \in PanelType /\ q.stage = "open" /\ q.entries = entries /\ q.index = at
      /\ q.cache = panel.cache /\ q.fetches = panel.fetches /\ q.playing = panel.playing
  BY <1>3, <1>4, <1>5 DEF PanelType
<1>7. panel' = Showing(q)
  BY <1>2 DEF at
<1> HIDE DEF q
<1>8. PanelKnows(q)
  BY <1>3, <1>4, <1>5, <1>6 DEF PanelKnows
<1> QED
  BY <1>1, <1>6, <1>7, <1>8, ShowingFollows

\* An answer that is not cancelled is of the version that is selected.
LEMMA FetchedFollows ==
  ASSUME RecordsInv, PanelOK(panel), FetchAnswered  PROVE PanelOK(panel')
<1>1. drawn \in Seq(Drawings) /\ versions \subseteq 1..Len(drawn) /\ NoDrawing \notin Drawings
  BY CanvasHistoryAssumption DEF RecordsInv, HistoryTypeOK, NoDrawing
<1>2. PICK f \in panel.fetches : \E row \in {RowOf(f.id), NoDrawing} : panel' = Fetched(panel, f, row)
  BY DEF FetchAnswered
<1>2a. PICK row \in {RowOf(f.id), NoDrawing} : panel' = Fetched(panel, f, row)
  BY <1>2
<1>3. /\ panel \in PanelType /\ PanelKnows(panel) /\ panel.stage = "open" /\ Follows(panel)
      /\ f.id \in 1..Len(drawn) /\ f.id \in Int
  BY <1>2 DEF PanelOK, PanelKnows, PanelType
<1>4. row # NoDrawing => row = drawn[f.id] /\ row \in Drawings
  BY <1>1, <1>2a, <1>3 DEF RowOf
<1> DEFINE q == [panel EXCEPT !.fetches = @ \ {f}]
           got == [q EXCEPT !.cache = @ \cup {<<f.id, row>>}, !.preview = row]
           lost == [q EXCEPT !.failed = TRUE]
<1>5. /\ q \in PanelType /\ q.stage = "open" /\ q.entries = panel.entries
      /\ q.index = panel.index /\ q.cache = panel.cache /\ q.failed = panel.failed
      /\ q.preview = panel.preview /\ q.fetches = panel.fetches \ {f}
      /\ q.playing = panel.playing
  BY <1>3 DEF PanelType
<1>6. panel' = CASE f.cancelled -> q
                 [] ~f.cancelled /\ row # NoDrawing -> got
                 [] OTHER -> lost
  BY <1>2a DEF Fetched
<1> HIDE DEF q
<1>7. CASE f.cancelled
  <2>1. panel' = q /\ PanelKnows(q) /\ Selected(q) = Selected(panel)
    BY <1>3, <1>5, <1>6, <1>7 DEF PanelKnows, Selected, LiveCanvas
  <2>2. Follows(q)
    BY <1>3, <1>5, <1>7, <2>1 DEF Follows
  <2> QED
    BY <1>5, <2>1, <2>2 DEF PanelOK
<1>8. CASE ~f.cancelled /\ row # NoDrawing
  <2> DEFINE pair == <<f.id, row>>
  <2>0. pair \in Int \X Drawings /\ pair[1] = f.id /\ pair[2] = drawn[f.id]
    BY <1>3, <1>4, <1>8
  <2>0a. row \in MaybeDrawn
    BY <1>4, <1>8 DEF MaybeDrawn
  <2> HIDE DEF pair
  <2>1. /\ got \in PanelType /\ got.stage = "open" /\ got.entries = panel.entries
        /\ got.index = panel.index /\ got.cache = panel.cache \cup {pair}
        /\ got.playing = panel.playing /\ got.preview = row /\ got.fetches = panel.fetches \ {f}
    BY <1>5, <2>0, <2>0a DEF PanelType, pair
  <2>2. panel' = got
    BY <1>6, <1>8
  <2> HIDE DEF got
  <2>3. PanelKnows(got) /\ Selected(got) = Selected(panel)
    BY <1>3, <2>0, <2>1 DEF PanelKnows, Selected, LiveCanvas
  <2>4. f.id = Selected(panel)
    BY <1>2, <1>3, <1>8 DEF Follows
  <2>5. Follows(got)
    BY <1>3, <1>4, <1>8, <2>1, <2>3, <2>4 DEF Follows
  <2> QED
    BY <2>1, <2>2, <2>3, <2>5 DEF PanelOK
<1>9. CASE ~f.cancelled /\ row = NoDrawing
  <2>1. /\ lost \in PanelType /\ lost.stage = "open" /\ lost.entries = panel.entries
        /\ lost.index = panel.index /\ lost.cache = panel.cache
        /\ lost.playing = panel.playing /\ lost.failed = TRUE /\ lost.fetches = panel.fetches \ {f}
    BY <1>5 DEF PanelType
  <2>2. panel' = lost
    BY <1>6, <1>9
  <2> HIDE DEF lost
  <2>3. PanelKnows(lost) /\ Selected(lost) = Selected(panel)
    BY <1>3, <2>1 DEF PanelKnows, Selected, LiveCanvas
  <2>4. Follows(lost)
    BY <1>3, <2>1, <2>3 DEF Follows
  <2> QED
    BY <2>1, <2>2, <2>3, <2>4 DEF PanelOK
<1> QED
  BY <1>7, <1>8, <1>9

LEMMA LookKeeps ==
  ASSUME RecordsInv, PanelOK(panel), NEW i \in 0..MaxSnapshots, LookAt(i)  PROVE PanelOK(panel')
<1>1. drawn \in Seq(Drawings) /\ panel.stage = "open" /\ i \in 0..Len(panel.entries)
  BY DEF RecordsInv, HistoryTypeOK, LookAt, LiveCanvas
<1> DEFINE q == [panel EXCEPT !.playing = FALSE]
<1>2. PanelOK(q) /\ q.stage = "open" /\ q.entries = panel.entries
  BY <1>1, PlayingIsApart
<1>3. panel' = MovedTo(q, i)
  BY DEF LookAt
<1> HIDE DEF q
<1> QED
  BY <1>1, <1>2, <1>3, MovedFollows

LEMMA ToggleKeeps ==
  ASSUME RecordsInv, PanelOK(panel), TogglePlay  PROVE PanelOK(panel')
<1>1. /\ drawn \in Seq(Drawings) /\ panel.stage = "open"
      /\ panel \in PanelType /\ panel.index <= Len(panel.entries)
  BY DEF RecordsInv, HistoryTypeOK, TogglePlay, PanelOK, PanelKnows
<1> DEFINE q == [panel EXCEPT !.playing = ~panel.playing]
           again == ~panel.playing /\ panel.index >= LiveCanvas(panel) - 1
           i == IF again THEN 0 ELSE panel.index
<1>2. (~panel.playing) \in BOOLEAN
  OBVIOUS
<1>2a. panel.entries # <<>>
  BY DEF TogglePlay
<1>3. PanelOK(q) /\ q.stage = "open" /\ q.entries = panel.entries
  BY <1>1, <1>2, <1>2a, PlayingIsApart
<1>4. panel' = MovedTo(q, i)
  BY DEF TogglePlay
<1> HIDE DEF q, again
<1>5. i \in 0..Len(panel.entries)
  BY <1>1 DEF PanelType
<1> HIDE DEF i
<1> QED
  BY <1>1, <1>3, <1>4, <1>5, MovedFollows

LEMMA TickKeeps ==
  ASSUME RecordsInv, PanelOK(panel), PlayTick  PROVE PanelOK(panel')
<1>1. /\ drawn \in Seq(Drawings) /\ panel.stage = "open"
      /\ panel \in PanelType /\ panel.index <= Len(panel.entries)
  BY DEF RecordsInv, HistoryTypeOK, PlayTick, PanelOK, PanelKnows
<1>2. panel.index \in Nat /\ Len(panel.entries) \in Nat
  BY <1>1 DEF PanelType
<1>3. CASE panel.index >= LiveCanvas(panel) - 1
  <2> DEFINE q == [panel EXCEPT !.playing = FALSE]
  <2>1. PanelOK(q) /\ q.stage = "open" /\ q.entries = panel.entries
    BY <1>1, PlayingIsApart
  <2>2. panel' = MovedTo(q, LiveCanvas(panel) - 1)
    BY <1>3 DEF PlayTick
  <2> HIDE DEF q
  <2>3. LiveCanvas(panel) - 1 \in 0..Len(panel.entries)
    <3>1. panel.entries # <<>> /\ panel.entries \in Seq(Int)
      BY <1>1 DEF PanelOK, PanelKnows, PlayTick, PanelType
    <3>2. Len(panel.entries) > 0
      BY <3>1
    <3> QED
      BY <1>2, <3>2 DEF LiveCanvas
  <2> QED
    BY <1>1, <2>1, <2>2, <2>3, MovedFollows
<1>4. CASE ~(panel.index >= LiveCanvas(panel) - 1)
  <2>1. panel' = MovedTo(panel, panel.index + 1) /\ panel.index + 1 \in 0..Len(panel.entries)
    BY <1>2, <1>4 DEF PlayTick, LiveCanvas
  <2> QED
    BY <1>1, <2>1, MovedFollows
<1> QED
  BY <1>3, <1>4


LEMMA ExportKeeps ==
  ASSUME RecordsInv, PanelOK(panel), StartExport \/ ExportStep  PROVE PanelOK(panel')
<1>1. drawn \in Seq(Drawings) /\ versions \subseteq 1..Len(drawn) /\ NoDrawing \notin Drawings
  BY CanvasHistoryAssumption DEF RecordsInv, HistoryTypeOK, NoDrawing
<1>2. panel \in PanelType /\ PanelKnows(panel) /\ panel.stage = "open" /\ Follows(panel)
  BY DEF PanelOK, PanelKnows, StartExport, ExportStep
<1>3. ASSUME NEW q \in PanelType, q.stage = panel.stage, q.entries = panel.entries,
             q.index = panel.index, q.playing = panel.playing, q.fetches = panel.fetches,
             q.failed = panel.failed, q.preview = panel.preview,
             \A c \in q.cache : c[1] \in 1..Len(drawn) /\ c[2] = drawn[c[1]]
      PROVE  PanelOK(q)
  <2>1. PanelKnows(q) /\ Selected(q) = Selected(panel)
    BY <1>2, <1>3 DEF PanelKnows, Selected, LiveCanvas
  <2>2. Follows(q)
    BY <1>2, <1>3, <2>1 DEF Follows
  <2> QED
    BY <1>2, <1>3, <2>1, <2>2 DEF PanelOK
<1>4. \A c \in panel.cache : c[1] \in 1..Len(drawn) /\ c[2] = drawn[c[1]]
  BY <1>2 DEF PanelKnows
<1>5. ASSUME NEW e \in Nat  PROVE PanelOK([panel EXCEPT !.export = e])
  <2> DEFINE q == [panel EXCEPT !.export = e]
  <2>1. /\ q \in PanelType /\ q.stage = panel.stage /\ q.entries = panel.entries
        /\ q.index = panel.index /\ q.playing = panel.playing /\ q.fetches = panel.fetches
        /\ q.failed = panel.failed /\ q.preview = panel.preview /\ q.cache = panel.cache
    BY <1>2, <1>5 DEF PanelType
  <2> HIDE DEF q
  <2>2. PanelOK(q)
    BY <1>3, <1>4, <2>1
  <2> QED
    BY <2>2 DEF q
<1>6. ASSUME NEW e \in Nat, NEW id, RowOf(id) # NoDrawing
      PROVE  PanelOK([panel EXCEPT !.export = e, !.cache = @ \cup {<<id, RowOf(id)>>}])
  <2> DEFINE pair == <<id, RowOf(id)>>
             q == [panel EXCEPT !.export = e, !.cache = @ \cup {pair}]
  <2>1. id \in versions /\ RowOf(id) = drawn[id]
    BY <1>6 DEF RowOf
  <2>2. id \in 1..Len(drawn)
    BY <1>1, <2>1
  <2>3. id \in Int /\ drawn[id] \in Drawings
    BY <1>1, <2>2
  <2>4. pair \in Int \X Drawings /\ pair[1] = id /\ pair[2] = drawn[id]
    BY <2>1, <2>3
  <2> HIDE DEF pair
  <2>5. /\ q \in PanelType /\ q.stage = panel.stage /\ q.entries = panel.entries
        /\ q.index = panel.index /\ q.playing = panel.playing /\ q.fetches = panel.fetches
        /\ q.failed = panel.failed /\ q.preview = panel.preview
        /\ q.cache = panel.cache \cup {pair}
    BY <1>2, <1>6, <2>4 DEF PanelType
  <2> HIDE DEF q
  <2>6. \A c \in q.cache : c[1] \in 1..Len(drawn) /\ c[2] = drawn[c[1]]
    BY <1>4, <2>2, <2>4, <2>5
  <2>7. PanelOK(q)
    BY <1>3, <2>5, <2>6
  <2> QED
    BY <2>7 DEF q, pair
<1>7. CASE StartExport
  BY <1>5, <1>7 DEF StartExport
<1>8. CASE ExportStep
  <2> DEFINE id == panel.entries[panel.export]
             next == IF panel.export < LiveCanvas(panel) THEN panel.export + 1 ELSE 0
  <2>1. next \in Nat /\ 0 \in Nat
    BY <1>2 DEF PanelType, LiveCanvas
  <2>2. panel' = CASE id \in Cached(panel) -> [panel EXCEPT !.export = next]
                   [] id \notin Cached(panel) /\ RowOf(id) # NoDrawing ->
                        [panel EXCEPT !.export = next, !.cache = @ \cup {<<id, RowOf(id)>>}]
                   [] OTHER -> [panel EXCEPT !.export = 0]
    BY <1>8 DEF ExportStep
  <2> HIDE DEF id, next
  <2>3. CASE id \in Cached(panel)
    BY <1>5, <2>1, <2>2, <2>3
  <2>4. CASE id \notin Cached(panel) /\ RowOf(id) # NoDrawing
    BY <1>6, <2>1, <2>2, <2>4
  <2>5. CASE id \notin Cached(panel) /\ RowOf(id) = NoDrawing
    BY <1>5, <2>1, <2>2, <2>5
  <2> QED
    BY <2>3, <2>4, <2>5
<1> QED
  BY <1>7, <1>8

LEMMA OpenPanelKeeps ==
  ASSUME RecordsInv, OpenPanel  PROVE PanelOK(panel')
<1> DEFINE q == [Shut EXCEPT !.stage = "loading"]
<1>1. PanelOK(Shut) /\ Shut \in PanelType
  BY ShutOK DEF RecordsInv, HistoryTypeOK, PanelOK, PanelKnows
<1>2. /\ q \in PanelType /\ q.stage = "loading" /\ q.entries = Shut.entries
      /\ q.index = Shut.index /\ q.playing = Shut.playing /\ q.fetches = Shut.fetches
      /\ q.cache = Shut.cache /\ q.export = Shut.export
  BY <1>1 DEF PanelType
<1>2a. Shut.stage = "shut"
  BY DEF Shut
<1>3. panel' = q
  BY DEF OpenPanel
<1> HIDE DEF q
<1> QED
  BY <1>1, <1>2, <1>2a, <1>3 DEF PanelOK, PanelKnows

\* What the panel shows is also what is put back on the canvas.
LEMMA PanelKeeps ==
  ASSUME RecordsInv, PanelOK(panel), PanelStep  PROVE RecordsInv' /\ PanelOK(panel)'
<1>1. PanelOK(panel')
  <2>1. CASE OpenPanel
    BY <2>1, OpenPanelKeeps
  <2>2. CASE Restore \/ ClosePanel
    <3>1. panel' = Shut
      BY <2>2 DEF Restore, ClosePanel
    <3> QED
      BY <3>1, ShutOK DEF RecordsInv, HistoryTypeOK
  <2> QED
    BY <2>1, <2>2, ListedKeeps, FetchedFollows, LookKeeps, ToggleKeeps, TickKeeps, ExportKeeps
       DEF PanelStep
<1>2. UNCHANGED <<recorder, versions, drawn, mistakes, settled>> /\ canvas' \in Drawings
  <2>1. CASE Restore
    <3>1. panel.preview \in Drawings
      BY <2>1 DEF Restore, PanelOK, PanelKnows, PanelType, MaybeDrawn
    <3> QED
      BY <2>1, <3>1 DEF Restore
  <2>2. CASE ~Restore
    BY <2>2 DEF PanelStep, OnPanel, OpenPanel, Listed, FetchAnswered, LookAt, TogglePlay,
                PlayTick, StartExport, ExportStep, ClosePanel, RecordsInv, HistoryTypeOK
  <2> QED
    BY <2>1, <2>2
<1>3. RecordsInv'
  BY <1>2, CanvasMoves
<1> QED
  BY <1>1, <1>2, <1>3 DEF PanelOK, PanelKnows, Follows

\* Versions that were drawn stay what they were.
LEMMA DrawnStays ==
  ASSUME RecordsInv, NEW n \in Recorders, RecorderStep(n)
  PROVE  /\ Len(drawn) \in Nat /\ Len(drawn') \in Nat /\ Len(drawn) <= Len(drawn')
         /\ \A id \in 1..Len(drawn) : drawn'[id] = drawn[id]
<1>1. HistoryTypeOK /\ VersionsHeld
  BY DEF RecordsInv
<1>2. CASE UNCHANGED drawn
  BY <1>1, <1>2 DEF HistoryTypeOK
<1>3. CASE \E d \in Drawings : Recorded(d)
  <2>1. PICK d \in Drawings : Recorded(d)
    BY <1>3
  <2> QED
    BY <1>1, <2>1, RecordedHolds
<1>4. UNCHANGED drawn \/ \E d \in Drawings : Recorded(d)
  <2>1. recorder[n].write = "creating" => recorder[n].shapes \in Drawings
    BY <1>1 DEF HistoryTypeOK
  <2> QED
    BY <2>1 DEF RecorderStep, Persisted, TimerFires, Create, ListStale, DeleteStale,
                QueryFails, RecorderRestarts
<1> QED
  BY <1>2, <1>3, <1>4

LEMMA PanelSurvives ==
  ASSUME PanelOK(panel), UNCHANGED panel,
         Len(drawn) \in Nat, Len(drawn') \in Nat, Len(drawn) <= Len(drawn'),
         drawn \in Seq(Drawings),
         \A id \in 1..Len(drawn) : drawn'[id] = drawn[id]
  PROVE  PanelOK(panel)'
<1>1. \A id \in 1..Len(drawn) : id \in 1..Len(drawn')
  OBVIOUS
<1>2. PanelKnows(panel)'
  BY <1>1 DEF PanelOK, PanelKnows
<1>3. Selected(panel)' = Selected(panel)
  BY DEF Selected, LiveCanvas
<1>4. panel.stage = "open" => Follows(panel)'
  <2>1. Selected(panel) = 0 \/ Selected(panel) \in 1..Len(drawn)
    BY SelectedType DEF PanelOK
  <2> QED
    BY <1>3, <2>1 DEF PanelOK, Follows
<1> QED
  BY <1>2, <1>4 DEF PanelOK

LEMMA HistoryStays == HistoryInv /\ [HistoryNext]_historyVars => HistoryInv'
<1> SUFFICES ASSUME HistoryInv, [HistoryNext]_historyVars  PROVE HistoryInv'
  OBVIOUS
<1>1. RecordsInv /\ PanelOK(panel) /\ drawn \in Seq(Drawings)
  BY DEF HistoryInv, RecordsInv, HistoryTypeOK
<1>2. CASE UNCHANGED historyVars
  BY <1>2 DEF historyVars, HistoryInv, RecordsInv, HistoryTypeOK, VersionsHeld, LastIsKept, LastOf,
              PanelOK, PanelKnows, Follows
<1>3. CASE Edit
  <2>1. /\ canvas' \in Drawings
        /\ UNCHANGED <<recorder, versions, drawn, mistakes, settled, panel>>
    BY <1>3 DEF Edit
  <2>2. RecordsInv'
    BY <1>1, <2>1, CanvasMoves
  <2>3. PanelOK(panel)'
    BY <1>1, <2>1 DEF PanelOK, PanelKnows, Follows
  <2> QED
    BY <2>2, <2>3 DEF HistoryInv
<1>4. CASE PanelStep
  BY <1>1, <1>4, PanelKeeps DEF HistoryInv
<1>5. ASSUME NEW n \in Recorders, RecorderStep(n)  PROVE HistoryInv'
  <2>1. UNCHANGED panel
    BY <1>5 DEF RecorderStep, Persisted, TimerFires, Create, ListStale, DeleteStale,
                QueryFails, RecorderRestarts
  <2>2. PanelOK(panel)'
    BY <1>1, <1>5, <2>1, DrawnStays, PanelSurvives
  <2>3. RecordsInv'
    BY <1>1, <1>5, RecorderKeeps
  <2> QED
    BY <2>2, <2>3 DEF HistoryInv
<1> QED
  BY <1>2, <1>3, <1>4, <1>5 DEF HistoryNext

\* The history keeps the newest versions and the last drawing, and the panel
\* shows the version that is selected, unless its fetch is pending or failed:
\* for any nodes, drawings and limits.
THEOREM HistoryIsKept == HistorySpec => []HistoryKept
<1>1. HistoryInit => HistoryInv
  BY RecordsStart, ShutOK DEF HistoryInit, HistoryInv, RecordsInv, HistoryTypeOK
<1>2. HistoryInv => HistoryKept
  <2>1. HistoryInv => VersionsKept
    BY HeldAreKept DEF HistoryInv
  <2>2. HistoryInv => PreviewFollows
    BY DEF HistoryInv, PanelOK, Follows, PreviewFollows
  <2> QED
    BY <2>1, <2>2 DEF HistoryKept
<1> QED
  BY <1>1, <1>2, HistoryStays, PTL DEF HistorySpec

-----------------------------------------------------------------------------
(* The slide deck.  While no saves overlapped or failed and only the newest*)
(* deck was changed, at most one save is under way and at most one dialog  *)
(* waits, a save has seen all rows there are, and the last change is on its*)
(* way: it waits, or it is being saved, or it is what is stored.           *)

Waits(d) == desk[d].pending # {}

DesksShaped ==
  /\ DOMAIN desk = Desks
  /\ \A d \in Desks :
       /\ desk[d] = Desk(desk[d].stage, desk[d].slides, desk[d].pending)
       /\ desk[d].stage = "shut" => ~Waits(d)

PutsShaped == \A p \in puts : p = Put(p.save, p.deck, p.stage, p.rows)

OneAtATime ==
  /\ \A p, q \in puts : p = q
  /\ \A d, e \in Desks : Waits(d) /\ Waits(e) => d = e

SeesAll == \A p \in puts : p.stage \in {"deleting", "deleted"} => p.rows = Rows

Latest ==
  /\ \A d \in Desks : desk[d].pending \subseteq {newest}
  /\ (\A d \in Desks : ~Waits(d)) =>
       /\ \A p \in puts : p.deck = newest
       /\ puts = {} => {r.deck : r \in Rows} = {newest} \ {<<>>}

DeckInv ==
  /\ DesksShaped /\ PutsShaped
  /\ ~mixed => OneAtATime /\ SeesAll /\ Latest

LEMMA DeckStarts == DeckInit => DeckInv
<1> SUFFICES ASSUME DeckInit  PROVE DeckInv
  OBVIOUS
<1>1. DesksShaped /\ PutsShaped /\ OneAtATime /\ SeesAll
  BY DEF DeckInit, DesksShaped, PutsShaped, OneAtATime, SeesAll, Waits, ShutDesk, Desk
<1> DEFINE first == [save |-> 0, deck |-> newest]
<1>2. stored = {first} /\ first.deck = newest /\ newest # <<>>
  BY DEF DeckInit
<1> HIDE DEF first
<1>3. {r.deck : r \in Rows} = {newest}
  BY <1>2 DEF Rows
<1>4. Latest
  BY <1>2, <1>3 DEF DeckInit, Latest, ShutDesk, Desk
<1> QED
  BY <1>1, <1>4 DEF DeckInv

DeskBecomes(d, new) == desk' = [desk EXCEPT ![d] = new]

LEMMA DeskMoves ==
  ASSUME DesksShaped, NEW d \in Desks, NEW new, DeskBecomes(d, new),
         new = Desk(new.stage, new.slides, new.pending),
         new.stage = "shut" => new.pending = {}
  PROVE  /\ DesksShaped'
         /\ \A e \in Desks : desk'[e].pending = IF e = d THEN new.pending ELSE desk[e].pending
<1>1. \A e \in Desks : desk'[e] = IF e = d THEN new ELSE desk[e]
  BY DEF DesksShaped, DeskBecomes
<1> QED
  BY <1>1 DEF DesksShaped, DeskBecomes, Waits

\* A dialog opens, loads or closes without a change: nothing waits anew.
LEMMA DeskRests ==
  ASSUME DeckInv, UNCHANGED <<stored, puts, newest, mixed>>, DesksShaped',
         \A e \in Desks : desk'[e].pending = desk[e].pending
  PROVE  DeckInv'
<1>1. \A e \in Desks : Waits(e)' <=> Waits(e)
  BY DEF Waits
<1>2. Rows' = Rows
  BY DEF Rows
<1> QED
  BY <1>1, <1>2 DEF DeckInv, PutsShaped, OneAtATime, SeesAll, Latest

LEMMA OpenRests == ASSUME DeckInv, NEW d \in Desks, OpenDeck(d)  PROVE DeckInv'
<1> DEFINE new == Desk("loading", <<>>, {})
<1>1. DesksShaped /\ desk[d].pending = {}
  BY DEF DeckInv, DesksShaped, Waits, OpenDeck
<1>2. DeskBecomes(d, new)
  BY DEF OpenDeck, DeskBecomes
<1>3. new = Desk(new.stage, new.slides, new.pending) /\ new.stage # "shut" /\ new.pending = {}
  BY DEF Desk
<1> HIDE DEF new
<1>4. DesksShaped' /\ \A e \in Desks : desk'[e].pending = desk[e].pending
  BY <1>1, <1>2, <1>3, DeskMoves
<1> QED
  BY <1>4, DeskRests DEF OpenDeck

LEMMA LoadedRests == ASSUME DeckInv, NEW d \in Desks, Loaded(d)  PROVE DeckInv'
<1>1. DesksShaped
  BY DEF DeckInv
<1>2. PICK slides : desk' = [desk EXCEPT ![d] = Desk("open", slides, desk[d].pending)]
  BY DEF Loaded
<1> DEFINE new == Desk("open", slides, desk[d].pending)
<1>3. /\ new = Desk(new.stage, new.slides, new.pending)
      /\ new.stage # "shut" /\ new.pending = desk[d].pending
  BY DEF Desk
<1>4. DeskBecomes(d, new)
  BY <1>2 DEF DeskBecomes
<1> HIDE DEF new
<1>5. DesksShaped' /\ \A e \in Desks : desk'[e].pending = desk[e].pending
  BY <1>1, <1>3, <1>4, DeskMoves
<1> QED
  BY <1>5, DeskRests DEF Loaded

\* The changed dialog waits, and no other does unless they overlapped.
LEMMA ChangeKeeps == ASSUME DeckInv, NEW d \in Desks, Change(d)  PROVE DeckInv'
<1>1. PICK deck : /\ desk' = [desk EXCEPT ![d] = Desk("open", deck, {deck})]
                  /\ newest' = deck
  BY DEF Change
<1>2. /\ DesksShaped'
      /\ \A e \in Desks : desk'[e].pending = IF e = d THEN {deck} ELSE desk[e].pending
  <2> DEFINE new == Desk("open", deck, {deck})
  <2>1. new = Desk(new.stage, new.slides, new.pending) /\ new.stage # "shut" /\ new.pending = {deck}
    BY DEF Desk
  <2>2. DesksShaped /\ DeskBecomes(d, new)
    BY <1>1 DEF DeckInv, DeskBecomes
  <2> HIDE DEF new
  <2> QED
    BY <2>1, <2>2, DeskMoves
<1> SUFFICES ASSUME ~mixed'  PROVE OneAtATime' /\ SeesAll' /\ Latest'
  BY <1>2 DEF DeckInv, PutsShaped, Change
<1>3. ~mixed /\ \A e \in Desks \ {d} : ~Waits(e)
  BY DEF Change, Waits
<1>4. \A e \in Desks : (Waits(e)' => e = d) /\ desk'[e].pending \subseteq {newest'}
  BY <1>1, <1>2, <1>3 DEF Waits
<1>5. Waits(d)'
  BY <1>2 DEF Waits
<1>6. Rows' = Rows /\ puts' = puts
  BY DEF Rows, Change
<1>7. Latest'
  BY <1>1, <1>4, <1>5 DEF Latest
<1> QED
  BY <1>3, <1>4, <1>6, <1>7 DEF DeckInv, OneAtATime, SeesAll

\* What waits is sent: nothing waits any more, and if no other save is
\* under way, the one that is has the last change.
LEMMA SavingKeeps ==
  ASSUME DeckInv, NEW d \in Desks, NEW deck \in desk[d].pending, Saving(deck),
         UNCHANGED <<stored, newest>>,
         DesksShaped',
         \A e \in Desks : desk'[e].pending = IF e = d THEN {} ELSE desk[e].pending
  PROVE  DeckInv'
<1> DEFINE new == Put(sent + 1, deck, "sent", {})
<1>1. puts' = puts \cup {new} /\ mixed' = (mixed \/ puts # {})
  BY DEF Saving
<1>2. /\ new = Put(new.save, new.deck, new.stage, new.rows)
      /\ new.deck = deck /\ new.stage = "sent"
  BY DEF Put
<1> HIDE DEF new
<1>3. PutsShaped'
  BY <1>1, <1>2 DEF DeckInv, PutsShaped
<1> SUFFICES ASSUME ~mixed'  PROVE OneAtATime' /\ SeesAll' /\ Latest'
  BY <1>3 DEF DeckInv
<1>4. puts' = {new} /\ OneAtATime /\ Latest
  BY <1>1 DEF DeckInv
<1>5. \A e \in Desks : ~Waits(e)'
  BY <1>4 DEF OneAtATime, Waits
<1>6. new.deck = newest'
  BY <1>2, <1>4 DEF Latest
<1> QED
  BY <1>2, <1>4, <1>5, <1>6 DEF OneAtATime, SeesAll, Latest

LEMMA TimerKeeps == ASSUME DeckInv, NEW d \in Desks, SaveTimerFires(d)  PROVE DeckInv'
<1> DEFINE new == Desk(desk[d].stage, desk[d].slides, {})
<1>1. DesksShaped /\ DeskBecomes(d, new)
  BY DEF DeckInv, SaveTimerFires, DeskBecomes
<1>2. new = Desk(new.stage, new.slides, new.pending) /\ new.pending = {}
  BY DEF Desk
<1> HIDE DEF new
<1>3. /\ DesksShaped'
      /\ \A e \in Desks : desk'[e].pending = IF e = d THEN {} ELSE desk[e].pending
  BY <1>1, <1>2, DeskMoves
<1> QED
  BY <1>3, SavingKeeps DEF SaveTimerFires, Waits

LEMMA CloseKeeps == ASSUME DeckInv, NEW d \in Desks, CloseDeck(d)  PROVE DeckInv'
<1>1. DesksShaped /\ DeskBecomes(d, ShutDesk)
  BY DEF DeckInv, CloseDeck, DeskBecomes
<1>2. /\ ShutDesk = Desk(ShutDesk.stage, ShutDesk.slides, ShutDesk.pending)
      /\ ShutDesk.pending = {}
  BY DEF ShutDesk, Desk
<1>3. /\ DesksShaped'
      /\ \A e \in Desks : desk'[e].pending = IF e = d THEN {} ELSE desk[e].pending
  BY <1>1, <1>2, DeskMoves
<1>4. CASE Waits(d)
  BY <1>3, <1>4, SavingKeeps DEF CloseDeck, Waits
<1>5. CASE ~Waits(d)
  BY <1>3, <1>5, DeskRests DEF CloseDeck, Waits
<1> QED
  BY <1>4, <1>5

LEMMA LaterKeeps ==
  ASSUME DeckInv, NEW p \in puts, NEW stage, NEW rows, Later(p, stage, rows),
         UNCHANGED <<stored, desk, newest, mixed>>,
         ~mixed /\ stage \in {"deleting", "deleted"} => rows = Rows
  PROVE  DeckInv'
<1> DEFINE new == Put(p.save, p.deck, stage, rows)
<1>1. puts' = (puts \ {p}) \cup {new}
  BY DEF Later
<1>2. /\ new = Put(new.save, new.deck, new.stage, new.rows)
      /\ new.deck = p.deck /\ new.stage = stage /\ new.rows = rows
  BY DEF Put
<1> HIDE DEF new
<1>3. DesksShaped' /\ PutsShaped' /\ Rows' = Rows /\ \A e \in Desks : Waits(e)' <=> Waits(e)
  BY <1>1, <1>2 DEF DeckInv, DesksShaped, PutsShaped, Rows, Waits
<1> SUFFICES ASSUME ~mixed'  PROVE OneAtATime' /\ SeesAll' /\ Latest'
  BY <1>3 DEF DeckInv
<1>4. puts' = {new} /\ OneAtATime /\ Latest
  BY <1>1 DEF DeckInv, OneAtATime
<1> QED
  BY <1>2, <1>3, <1>4 DEF OneAtATime, SeesAll, Latest

LEMMA SeeRowsKeeps == ASSUME DeckInv, NEW p \in puts, SeeRows(p)  PROVE DeckInv'
  BY LaterKeeps DEF SeeRows

LEMMA DeleteRowsKeeps == ASSUME DeckInv, NEW p \in puts, DeleteRows(p)  PROVE DeckInv'
<1>1. ~mixed => p.rows \cap stored = Rows
  BY DEF DeckInv, SeesAll, DeleteRows, Rows
<1> QED
  BY <1>1, LaterKeeps DEF DeleteRows

LEMMA InsertRowsKeeps == ASSUME DeckInv, NEW p \in puts, InsertRows(p)  PROVE DeckInv'
<1>1. DesksShaped' /\ PutsShaped' /\ \A e \in Desks : Waits(e)' <=> Waits(e)
  BY DEF DeckInv, DesksShaped, PutsShaped, Waits, InsertRows
<1> SUFFICES ASSUME ~mixed'  PROVE OneAtATime' /\ SeesAll' /\ Latest'
  BY <1>1 DEF DeckInv
<1>2. puts' = {} /\ p.rows = Rows /\ newest' = newest /\ desk' = desk
  BY DEF InsertRows, DeckInv, OneAtATime, SeesAll
<1> DEFINE new == [save |-> p.save, deck |-> p.deck]
<1>3. stored' = (stored \ Rows) \cup {new} /\ new.deck = p.deck
  BY <1>2 DEF InsertRows
<1> HIDE DEF new
<1>4. Rows' = IF p.deck = <<>> THEN {} ELSE {new}
  BY <1>3 DEF Rows
<1>5. {r.deck : r \in Rows'} = {p.deck} \ {<<>>}
  BY <1>3, <1>4
<1>6. OneAtATime /\ Latest
  BY DEF DeckInv, InsertRows
<1> QED
  BY <1>1, <1>2, <1>5, <1>6 DEF OneAtATime, SeesAll, Latest, Waits

LEMMA SaveFailsKeeps == ASSUME DeckInv, NEW p \in puts, SaveFails(p)  PROVE DeckInv'
  BY DEF DeckInv, SaveFails, DesksShaped, PutsShaped, Waits

LEMMA DeckStays == DeckInv /\ [DeckNext]_deckVars => DeckInv'
<1> SUFFICES ASSUME DeckInv, [DeckNext]_deckVars  PROVE DeckInv'
  OBVIOUS
<1>1. CASE UNCHANGED deckVars
  BY <1>1 DEF deckVars, DeckInv, DesksShaped, PutsShaped, OneAtATime, SeesAll, Latest, Waits, Rows
<1>2. CASE DeckNext
  BY <1>2, OpenRests, LoadedRests, ChangeKeeps, TimerKeeps, CloseKeeps, SeeRowsKeeps,
     DeleteRowsKeeps, InsertRowsKeeps, SaveFailsKeeps DEF DeckNext
<1> QED
  BY <1>1, <1>2

\* Closing a dialog drops no edit that waits, for any number of dialogs, changes
\* and openings: what is stored is the deck as it was changed last, until a save
\* fails, two overlap, or a dialog changes a deck that is not the newest.
THEOREM DeckIsSaved == DeckSpec => []DeckSaved
<1>1. DeckInv => DeckSaved
  BY DEF DeckInv, Latest, Waits, DeckSaved
<1> QED
  BY <1>1, DeckStarts, DeckStays, PTL DEF DeckSpec

===============================================================================
