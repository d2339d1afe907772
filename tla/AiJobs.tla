------------------------------- MODULE AiJobs -------------------------------
(***************************************************************************)
(* The questions one page asks the AI: useAiGeneration.ts in the page, the *)
(* routes of room.controller.ts with the job entries in Redis, the queue   *)
(* (JobQueue) and the worker (ai-worker/src/index.ts).  A question is its  *)
(* job; that several pages ask at the same time changes nothing for each.  *)
(* Jobs are numbered as they are asked for (their ids are random).         *)
(***************************************************************************)
EXTENDS JobQueue, FiniteSets

CONSTANTS MaxPolls,   \* POLL_MAX_ATTEMPTS
          Outlives,   \* bound: whether a post may outlive the handler it is of
          MaxRunning  \* bound: the handlers under way, those of a lost channel
                      \* among them

ASSUME AiJobsAssumption == MaxPolls \in Nat /\ Jobs \subseteq Nat

VARIABLES
  asked,     \* asked[j]: where the page is with the question
  busy,      \* isGenerating
  polls,     \* polls[j]: the attempt of the poll
  call,      \* call[j]: where generateAiCanvas is
  entry,     \* entry[j]: the status of the job's entry in Redis
  posts,     \* the results that receiveAiResult has read the entry for
  applied,   \* applied[j]: how often shapes of the job were put on the canvas
  overlapped \* history: since a question was opened beside an open one, some
             \* question is open

page == <<asked, busy, polls, applied, overlapped>>
results == <<entry, posts>>
aiVars == <<page, call, results, queueVars>>

Settled == {"shown", "answered", "failed"}
Asking == {"posting", "polling", "asking"}
Open(j) == asked[j] \in Asking

AiInit ==
  /\ QueueInit
  /\ asked = [j \in Jobs |-> "unasked"] /\ busy = FALSE
  /\ polls = [j \in Jobs |-> 0]
  /\ call = [j \in Jobs |-> "none"]
  /\ entry = [j \in Jobs |-> "none"] /\ posts = {}
  /\ applied = [j \in Jobs |-> 0]
  /\ overlapped = FALSE

(* -------------------------------- the page ------------------------------ *)

\* A question is asked for the first time: its number is the next.
NextQuestion(j) == asked[j] = "unasked" /\ \A k \in Jobs : asked[k] = "unasked" => j <= k

\* The question appears in the chat, and isGenerating is set.
OpenQuestion(j, stage) ==
  /\ asked' = [asked EXCEPT ![j] = stage]
  /\ busy' = TRUE
  /\ overlapped' = (overlapped \/ \E k \in Jobs : Open(k))
  /\ UNCHANGED <<polls, applied, results, queueVars>>

\* generate with a prompt, a summary, an edit or a prompt of before: its render
\* is the current one, and it returns while isGenerating is set.
Generate(j) ==
  /\ ~busy /\ NextQuestion(j)
  /\ OpenQuestion(j, "posting")
  /\ call' = [call EXCEPT ![j] = "begun"]

\* ask: the answer of the POST is the answer.
Ask(j) ==
  /\ ~busy /\ NextQuestion(j)
  /\ OpenQuestion(j, "asking")
  /\ UNCHANGED call

\* handleImageChosen, until prepareImageForAi is through with the file.
ImageChosen(j) ==
  /\ ~busy /\ NextQuestion(j)
  /\ asked' = [asked EXCEPT ![j] = "preparing"]
  /\ UNCHANGED <<busy, polls, applied, overlapped, call, results, queueVars>>

\* It goes on with the generate of the render the file was chosen in, whose
\* isGenerating was not set.
ImageReady(j) ==
  /\ asked[j] = "preparing"
  /\ OpenQuestion(j, "posting")
  /\ call' = [call EXCEPT ![j] = "begun"]

ImageUnreadable(j) ==
  /\ asked[j] = "preparing"
  /\ asked' = [asked EXCEPT ![j] = "unasked"]
  /\ UNCHANGED <<busy, polls, applied, overlapped, call, results, queueVars>>

\* The attempt is gone with the last call of poll; isGenerating is cleared
\* whatever other question is open.
Settle(j, how) ==
  /\ asked' = [asked EXCEPT ![j] = how]
  /\ busy' = FALSE
  /\ polls' = [polls EXCEPT ![j] = 0]
  /\ overlapped' = (overlapped /\ \E k \in Jobs \ {j} : Open(k))

Answered(j) ==
  /\ asked[j] = "asking"
  /\ Settle(j, "answered") \/ Settle(j, "failed")
  /\ UNCHANGED <<applied, call, results, queueVars>>

\* The answer of the POST arrives.
Accepted(j) ==
  /\ asked[j] = "posting" /\ call[j] = "accepted"
  /\ asked' = [asked EXCEPT ![j] = "polling"]
  /\ UNCHANGED <<busy, polls, applied, overlapped, call, results, queueVars>>

\* It is an error, or the connection fails: the job may run all the same.
Refused(j) ==
  /\ asked[j] = "posting"
  /\ Settle(j, "failed")
  /\ UNCHANGED <<applied, call, results, queueVars>>

\* (Changed form: after the last attempt it starts over.)
NextPollAgain(j) ==
  /\ polls' = [polls EXCEPT ![j] = IF @ < MaxPolls THEN @ + 1 ELSE 0]
  /\ UNCHANGED <<asked, busy, overlapped>>

\* poll(jobId, aiId, attempt + 1): after the last attempt the question failed.
NextPoll(j) ==
  \/ polls[j] + 1 > MaxPolls /\ Settle(j, "failed")
  \/ /\ polls[j] + 1 <= MaxPolls
     /\ polls' = [polls EXCEPT ![j] = @ + 1]
     /\ UNCHANGED <<asked, busy, overlapped>>

\* (Changed form: the shapes go to the canvas, and the page polls on.)
PolledOn(j) ==
  /\ applied' = [applied EXCEPT ![j] = @ + 1]
  /\ NextPoll(j)

\* The job is done: its shapes go to the canvas.
Show(j) ==
  /\ applied' = [applied EXCEPT ![j] = @ + 1]
  /\ Settle(j, "shown")

\* The timer of poll fires and getAiGenerateStatus answers.
Polled(j) ==
  /\ asked[j] = "polling"
  /\ \/ entry[j] = "done" /\ Show(j)
     \/ entry[j] = "pending" /\ NextPoll(j) /\ UNCHANGED applied
     \/ entry[j] \in {"error", "none"} /\ Settle(j, "failed") /\ UNCHANGED applied
  /\ UNCHANGED <<call, results, queueVars>>

\* One request that fails ends it: "Network error - please try again."
PollFails(j) ==
  /\ asked[j] = "polling"
  /\ Settle(j, "failed")
  /\ UNCHANGED <<applied, call, results, queueVars>>

\* The page is reloaded: the chat that was saved holds no open question, and
\* nobody polls for the job or prepares the image any more.
Reload ==
  /\ \E j \in Jobs : Open(j) \/ asked[j] = "preparing"
  /\ busy' = FALSE /\ overlapped' = FALSE
  /\ asked' = [j \in Jobs |-> CASE Open(j) -> "failed"
                                [] asked[j] = "preparing" -> "unasked"
                                [] OTHER -> asked[j]]
  /\ polls' = [j \in Jobs |-> 0]
  /\ UNCHANGED <<applied, call, results, queueVars>>

(* ------------------------------- the backend ---------------------------- *)

SetCall(j, stage) == call' = [call EXCEPT ![j] = stage]
SetEntry(j, status) == entry' = [entry EXCEPT ![j] = status]

\* generateAiCanvas: the entry is there before the job.
StoreEntry(j) ==
  /\ call[j] = "begun"
  /\ SetCall(j, "stored") /\ SetEntry(j, "pending")
  /\ UNCHANGED <<page, posts, queueVars>>

PublishJob(j) ==
  /\ call[j] = "stored"
  /\ SetCall(j, "accepted")
  /\ Enqueue(j)
  /\ UNCHANGED <<page, results>>

\* No confirm comes, although RabbitMQ may have the job.
PublishUnconfirmed(j) ==
  /\ call[j] = "stored"
  /\ SetCall(j, "unconfirmed")
  /\ Enqueue(j) \/ UNCHANGED queueVars
  /\ UNCHANGED <<page, results>>

\* The publish throws: its error replaces what the worker may have stored.
PublishFails(j) ==
  /\ call[j] = "unconfirmed"
  /\ SetCall(j, "refused") /\ SetEntry(j, "error")
  /\ UNCHANGED <<page, posts, queueVars>>

\* The entry lives AI_JOB_TTL_SEC from its last write.
Expire(j) ==
  /\ entry[j] # "none" /\ call[j] \in {"accepted", "refused"}
  /\ SetEntry(j, "none")
  /\ UNCHANGED <<page, call, posts, queueVars>>

(* -------------------------------- the worker ---------------------------- *)

\* What the handler h posts with postResult.
PostOf(h) ==
  [job |-> h.job, tag |-> h.tag, channel |-> h.channel,
   status |-> IF h.stage = "result" THEN "done" ELSE "error"]

\* The delivery a handler or a post is of.
Of(x) == <<x.channel, x.tag>>

\* The posts of the handlers hs whose get finds the entry of their job.  It is
\* made at once: a later one can only find less (Unfound).
Found(hs) == {PostOf(h) : h \in {g \in hs : entry[g.job] # "none"}}

\* The posts whose sender gave them up, or ended.
Late == {p \in posts : \A h \in running : PostOf(h) # p}

\* RabbitMQ delivers a job, and the models answer or all of them fail: of that
\* nothing shows before it is posted.
Compute ==
  /\ Deliver("result") \/ Deliver("failure")
  /\ posts' = posts \cup Found(running' \ running)
  /\ UNCHANGED <<page, call, entry>>

\* handleAiJob never throws, so that every job it was given is acknowledged.
\* left are the posts still under way.
Finish(h, left) ==
  \/ Acknowledge(h) /\ posts' = left
  \/ AcknowledgeFails(h) /\ posts' \in SUBSET left

\* postResult throws: the error is reported, once.
Throws(h, left) ==
  \/ /\ h.stage = "result"
     /\ running' = (running \ {h}) \cup {[h EXCEPT !.stage = "failure"]}
     /\ posts' = left \cup Found(running' \ running)
     /\ UNCHANGED <<ready, connection, faults, history>>
  \/ h.stage = "failure" /\ Finish(h, left)

Goes(h, left) == Finish(h, left) \/ Throws(h, left)

\* receiveAiResult sets the entry, whatever became of it since the get.  Its
\* answer may be lost, or nobody waits for it.
Receive(p) ==
  /\ SetEntry(p.job, p.status)
  /\ \/ \E h \in running : PostOf(h) = p /\ Goes(h, posts \ {p})
     \/ p \in Late /\ posts' = posts \ {p} /\ UNCHANGED queueVars
  /\ UNCHANGED <<page, call>>

\* The get found no entry, and nothing is set.
Unfound(h) ==
  /\ entry[h.job] = "none"
  /\ Goes(h, posts \ {PostOf(h)})
  /\ UNCHANGED <<page, call, entry>>

\* The post fails, or its answer is not there in ten seconds: it may still be
\* under way.
PostFails(h) ==
  /\ \E left \in {posts, posts \ {PostOf(h)}} : Throws(h, left)
  /\ UNCHANGED <<page, call, entry>>

Worker == Compute \/ \E h \in running : Unfound(h) \/ PostFails(h)

Faults ==
  /\ \/ (Disconnect \/ Reconnect) /\ posts' = posts
     \/ Crash /\ posts' \in SUBSET posts
  /\ UNCHANGED <<page, call, entry>>

Image(j) == ImageChosen(j) \/ ImageReady(j) \/ ImageUnreadable(j)

Page(j) ==
  Generate(j) \/ Ask(j) \/ Image(j)
    \/ Accepted(j) \/ Refused(j) \/ Answered(j) \/ Polled(j) \/ PollFails(j)

Backend(j) ==
  StoreEntry(j) \/ PublishJob(j) \/ PublishUnconfirmed(j) \/ PublishFails(j) \/ Expire(j)

AiNext ==
  /\ \/ \E j \in Jobs : Page(j) \/ Backend(j)
     \/ \E p \in posts : Receive(p)
     \/ Reload \/ Worker \/ Faults
  /\ Cardinality(running') <= MaxRunning
  /\ Outlives \/ \A p \in posts' : \E h \in running' : Of(p) = Of(h)

\* A request is answered or fails, and a timer fires: nothing is assumed of
\* RabbitMQ and the worker.
Fairness ==
  \A j \in Jobs : /\ WF_aiVars(Accepted(j) \/ Refused(j))
                  /\ WF_aiVars(Answered(j))
                  /\ WF_aiVars(Polled(j) \/ PollFails(j))

AiSpec == AiInit /\ [][AiNext]_aiVars /\ Fairness

(* ------------------------------ properties ------------------------------ *)

Handler == [job : Jobs, tag : Nat, channel : Nat,
            stage : {"result", "failure"}]

Post == [job : Jobs, tag : Nat, channel : Nat, status : {"done", "error"}]

\* The types of the variables.
AiTypeOK ==
  /\ QueueTypeOK
  /\ running \subseteq Handler
  /\ asked \in [Jobs -> {"unasked", "preparing"} \cup Asking \cup Settled]
  /\ busy \in BOOLEAN /\ overlapped \in BOOLEAN
  /\ polls \in [Jobs -> 0..MaxPolls]
  /\ call \in [Jobs -> {"none", "begun", "stored", "unconfirmed", "accepted", "refused"}]
  /\ entry \in [Jobs -> {"none", "pending", "done", "error"}]
  /\ posts \subseteq Post
  /\ applied \in [Jobs -> Nat]

\* However often a job is delivered, computed and its entry overwritten, the
\* page shows what it says: the shapes are on the canvas once when the answer
\* says so, and never when it says that the question failed.  isGenerating is
\* set only while a question is open; and unless a question with an image was
\* opened beside an open one, at most one is open and isGenerating is set
\* while it is.
AnswerIsTrue ==
  /\ \A j \in Jobs : applied[j] = IF asked[j] = "shown" THEN 1 ELSE 0
  /\ busy => \E j \in Jobs : Open(j)
  /\ ~overlapped => /\ \A j, k \in Jobs : Open(j) /\ Open(k) => j = k
                    /\ (\E j \in Jobs : Open(j)) => busy

\* While the connection holds, no job is lost, wherever the worker crashes: it
\* is acknowledged only after its handler came to the end.
JobsKept == drops = 0 => \A j \in published : Kept(j)

\* Every question is settled in the end, whatever becomes of its job.
QuestionsSettle ==
  \A j \in Jobs : Open(j) ~> asked[j] \in Settled

\* "If the user's Wi-Fi blips during the 10-second generation, the result
\* message is lost.  Polling against a durable database record is the
\* 'old school' but bulletproof solution" (docs/architecture-ai-pipeline.md):
\* a question whose result is there is not given up.
ResultsShown ==
  [][\A j \in Jobs : (asked[j] = "polling" /\ asked'[j] = "failed") => entry[j] # "done"]_aiVars
=============================================================================
