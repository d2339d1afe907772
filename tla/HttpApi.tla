------------------------------- MODULE HttpApi -------------------------------
(***************************************************************************)
(* The calls of the pages on their way through the HTTP backend: the       *)
(* session of apiClient and authenticate (Sessions), and behind it the     *)
(* store of repeated mutations (Idempotency), as the routes of             *)
(* room.routes.ts put them one behind the other.                           *)
(***************************************************************************)
EXTENDS Sessions, Idempotency

CONSTANT MaxTrouble  \* bound: expiries, failures and mishaps, all together

ASSUME HttpApiAssumption == Requests = Calls /\ MaxTrouble \in Nat

vars == <<sessionVars, storeVars>>

Init == SessionsInit /\ StoreInit

\* Steps of the session alone, of both, and of the store alone.
SessionStep(A) == A /\ Watch /\ UNCHANGED storeVars
JointStep(A) == A /\ Watch
StoreStep(A) == A /\ UNCHANGED sessionVars

Form(d) == SessionStep(Forms(d))
FormStep(d) == SessionStep(Server(d))
Call(c) == SessionStep(Send(c))
Refused(c) == SessionStep(Refuse(c))
Intercepted(c) == SessionStep(Intercept(c))
RenewStep(d) == SessionStep(Renew(d) \/ RenewFails(d) \/ Renewed(d))
Passed(c) == JointStep(Admit(c) /\ Arrive(c))
Told(c) == answer[c] # NoAnswer /\ SessionStep(Serve(c, "served"))
Handled(c) == StoreStep(Write(c) \/ Finish(c) \/ EndUnheard(c))
Failed(c) == StoreStep(Fail(c) \/ LoseEnd(c))
Abandoned(c) == JointStep(HangUp(c) /\ Serve(c, "gone"))
Aged == SessionStep(Expire) \/ \E k \in Keys : StoreStep(ExpireEntry(k))

Step ==
  \/ \E d \in Devices : Form(d) \/ FormStep(d) \/ RenewStep(d)
  \/ \E c \in Calls :
       \/ Call(c) \/ Refused(c) \/ Intercepted(c) \/ Passed(c) \/ Told(c)
       \/ Handled(c) \/ Failed(c) \/ Abandoned(c)
  \/ Aged

Next == Step /\ expiries' + faults' + mishaps' <= MaxTrouble

Spec == Init /\ [][Next]_vars

-----------------------------------------------------------------------------
(* What must hold.                                                         *)

\* No call is left waiting: there is a renewal for each that waits for one,
\* and each that waits for the answer of another call waits for one that will
\* still tell it.  Only those of a key whose answer was lost on its last
\* bytes wait for ever (apiClient.ts:76-89, idempotency.middleware.ts:326-338).
NoneLeftWaiting ==
  \A c \in Calls :
    /\ call[c].state = "waits" => renewal[DeviceOf[c]] # NoRenewal
    /\ request[c].state = "waiting" =>
         LET first == request[request[c].awaits] IN
         first.state \in {"running", "wrote", "lost"} /\ ~first.captured

=============================================================================
