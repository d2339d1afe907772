---------------------------- MODULE Idempotency ----------------------------
(***************************************************************************)
(* idempotency.middleware.ts of the HTTP backend: the store of one process *)
(* that answers a repeated mutation, a call with the Idempotency-Key of an *)
(* earlier one, with the answer of the first.  Both calls may be under way *)
(* at the same time, the client may hang up, the handler may fail after    *)
(* its write, entries expire and are pruned.  The handler is a write (one  *)
(* room created, one request sent) followed by the answer.                 *)
(***************************************************************************)
EXTENDS Integers, FiniteSets

CONSTANTS Requests,   \* the calls that come to the store
          Uses,        \* the keys and bodies a call may be made with
          MaxMishaps   \* bound: failures, hang-ups, expiries, lost ends

ASSUME IdempotencyAssumption ==
  /\ MaxMishaps \in Nat
  /\ "none" \notin Requests  \* which stands for no call
  /\ \A c \in Requests : \A use \in Uses[c] :
       use = [key |-> use.key, body |-> use.body]

VARIABLES
  store,      \* idempotencyStore: the entry of a key, if it has one
  request,    \* what each call does on the server
  answer,     \* what each call was answered
  mishaps,
  forgotten,  \* history: the calls whose entry was removed or replaced
  written     \* history: the calls whose write was made

storeVars == <<store, request, answer, mishaps, forgotten, written>>

Keys == {use.key : use \in UNION {Uses[c] : c \in Requests}}
NoCall == "none"
NoEntry == [owner |-> NoCall, cached |-> FALSE]
NoRequest == [state |-> "none", use |-> [key |-> "none", body |-> "none"],
              awaits |-> NoCall, captured |-> FALSE]
NoAnswer == [kind |-> "none", of |-> NoCall]

StoreInit ==
  /\ store = [k \in Keys |-> NoEntry]
  /\ request = [c \in Requests |-> NoRequest]
  /\ answer = [c \in Requests |-> NoAnswer]
  /\ mishaps = 0 /\ forgotten = {} /\ written = {}

KeyOf(c) == request[c].use.key
BodyOf(c) == request[c].use.body
WaitingFor(c) == {w \in Requests : request[w].state = "waiting"
                                /\ request[w].awaits = c}

Answered(S, kind, of) ==
  answer' = [c \in Requests |-> IF c \in S THEN [kind |-> kind, of |-> of]
                             ELSE answer[c]]
Owners(st, k) == {st[k].owner} \ {NoCall}

\* pruneExpiredEntries: the store holds the entries of all users, at most
\* IDEMPOTENCY_MAX_ENTRIES of them.  Which of these here go above the limit,
\* also pending ones, depends on the others.
Pruned ==
  {[k \in Keys |-> IF k \in R THEN NoEntry ELSE store[k]] : R \in SUBSET Keys}

\* Below 500: what the call asked for, or a refusal without a write.
Outcome(c) == IF c \in written THEN "given" ELSE "refused"

\* Whether a call repeats the one that has the entry, body and all.
Repeats(use, entry) == BodyOf(entry.owner) = use.body

\* A call comes to the middleware.
Arrive(c) ==
  \E use \in Uses[c], st \in Pruned :
    LET entry == st[use.key]
        owner == entry.owner
        enters(state, awaits) ==
          request' = [request EXCEPT ![c] =
            [state |-> state, use |-> use, awaits |-> awaits,
             captured |-> FALSE]]
    IN
    /\ request[c] = NoRequest
    /\ forgotten' = forgotten \cup
         UNION {Owners(store, k) : k \in {key \in Keys : st[key] # store[key]}}
    /\ \/ /\ entry = NoEntry
          /\ store' = [st EXCEPT ![use.key] = [owner |-> c, cached |-> FALSE]]
          /\ enters("running", NoCall)
          /\ UNCHANGED answer
       \/ /\ entry # NoEntry /\ ~Repeats(use, entry)
          /\ store' = st
          /\ enters("done", NoCall)
          /\ Answered({c}, "conflict", owner)
       \/ /\ entry # NoEntry /\ Repeats(use, entry) /\ entry.cached
          /\ store' = st
          /\ enters("done", NoCall)
          /\ Answered({c}, Outcome(owner), owner)
       \/ /\ entry # NoEntry /\ Repeats(use, entry) /\ ~entry.cached
          /\ store' = st
          /\ enters("waiting", owner)
          /\ UNCHANGED answer
    /\ UNCHANGED <<mishaps, written>>

\* The handler writes, whether or not its client is still there.
Write(c) ==
  /\ request[c].state = "running"
  /\ request' = [request EXCEPT ![c].state = "wrote"]
  /\ written' = written \cup {c}
  /\ UNCHANGED <<store, answer, mishaps, forgotten>>

Mishap == mishaps < MaxMishaps /\ mishaps' = mishaps + 1

\* The call and those that wait for it come to their end.
Settled(c) == {c} \cup WaitingFor(c)
Done(S) ==
  request' = [w \in Requests |-> IF w \in S THEN [request[w] EXCEPT !.state = "done"]
                              ELSE request[w]]

\* (Changed form: the entry goes with the end of the call.)
FinishUnkept(c) ==
  /\ request[c].state \in {"running", "wrote"} /\ ~request[c].captured
  /\ store' = [store EXCEPT ![KeyOf(c)] = NoEntry]
  /\ forgotten' = forgotten \cup (Owners(store, KeyOf(c)) \ {c})
  /\ Answered(Settled(c), Outcome(c), c)
  /\ Done(Settled(c))
  /\ UNCHANGED <<mishaps, written>>

\* finalize on the end of the response, below 500: the answer is kept, over
\* whatever the key has by now, and given to those that wait.
Finish(c) ==
  /\ request[c].state \in {"running", "wrote"} /\ ~request[c].captured
  /\ store' = [store EXCEPT ![KeyOf(c)] = [owner |-> c, cached |-> TRUE]]
  /\ forgotten' = forgotten \cup (Owners(store, KeyOf(c)) \ {c})
  /\ Answered(Settled(c), Outcome(c), c)
  /\ Done(Settled(c))
  /\ UNCHANGED <<mishaps, written>>

\* Those that wait get the error, the key is free again, whoever has it.
Rejected(c) ==
  /\ store' = [store EXCEPT ![KeyOf(c)] = NoEntry]
  /\ forgotten' = forgotten \cup {c} \cup Owners(store, KeyOf(c))

\* A 5xx answer, before or after the write.
Fail(c) ==
  /\ request[c].state \in {"running", "wrote"} /\ ~request[c].captured
  /\ Mishap
  /\ Rejected(c)
  /\ Answered(Settled(c), "error", c)
  /\ Done(Settled(c))
  /\ UNCHANGED written

\* (Changed form: the promise of those that wait is left alone.)
HangUpAlone(c) ==
  /\ request[c].state \in {"running", "wrote"} /\ ~request[c].captured
  /\ Mishap
  /\ Rejected(c)
  /\ Answered({c}, "error", c)
  /\ request' = [request EXCEPT ![c].captured = TRUE]
  /\ UNCHANGED written

\* The client hangs up before the answer: failPending.  Its handler goes on.
HangUp(c) ==
  /\ request[c].state \in {"running", "wrote"} /\ ~request[c].captured
  /\ Mishap
  /\ Rejected(c)
  /\ Answered(Settled(c), "error", c)
  /\ request' = [w \in Requests |->
       CASE w = c -> [request[w] EXCEPT !.captured = TRUE]
         [] w \in WaitingFor(c) -> [request[w] EXCEPT !.state = "done"]
         [] OTHER -> request[w]]
  /\ UNCHANGED written

\* The handler of a client that hung up comes to its end.
EndUnheard(c) ==
  /\ request[c].state = "wrote" /\ request[c].captured
  /\ Done({c})
  /\ UNCHANGED <<store, answer, mishaps, forgotten, written>>

\* The response ended, but its last bytes never left: neither listener runs
\* to an end and the entry stays pending.
LoseEnd(c) ==
  /\ request[c].state = "wrote" /\ ~request[c].captured
  /\ Mishap
  /\ request' = [request EXCEPT ![c].state = "lost"]
  /\ Answered({c}, "error", c)
  /\ UNCHANGED <<store, forgotten, written>>

\* An answer is kept for IDEMPOTENCY_WINDOW_MS.
ExpireEntry(k) ==
  /\ store[k].cached
  /\ Mishap
  /\ store' = [store EXCEPT ![k] = NoEntry]
  /\ forgotten' = forgotten \cup {store[k].owner}
  /\ UNCHANGED <<request, answer, written>>

-----------------------------------------------------------------------------
(* What must hold.                                                         *)

\* Repeating a mutation does not repeat its write: two calls of one key both
\* wrote only if the entry of one of them was given up before its time, by a
\* failure, a hang-up, its age or the limit
\* (idempotency.middleware.ts:8-11, docs/codebase-walkthrough.md:67).
WrittenOnce ==
  \A c, e \in written :
    c # e /\ KeyOf(c) = KeyOf(e) => c \in forgotten \/ e \in forgotten

\* Whoever is answered for a key has the answer of a call that wrote, and of
\* the very body it was made with.
AnswersAreReal ==
  \A c \in Requests : answer[c].kind = "given" =>
    /\ answer[c].of \in written
    /\ KeyOf(answer[c].of) = KeyOf(c) /\ BodyOf(answer[c].of) = BodyOf(c)

\* A mutation may be repeated safely: one write, and its answer for all.
RepeatsAreSafe == WrittenOnce /\ AnswersAreReal

=============================================================================
