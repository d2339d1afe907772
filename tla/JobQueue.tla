------------------------------ MODULE JobQueue ------------------------------
(***************************************************************************)
(* The durable job queue of packages/queue-sync/src/index.ts with one      *)
(* consumer process, as the AI worker uses it: RabbitMQ with its delivery  *)
(* tags, the channel that a reconnection replaces while handlers of the    *)
(* old one still run, and the end of the process when an error is nobody's *)
(* to catch.                                                               *)
(***************************************************************************)
EXTENDS Integers, Sequences

CONSTANTS Jobs,       \* the jobs that are published
          Prefetch,   \* RABBITMQ_PREFETCH: deliveries without an answer
          MaxFaults   \* bound: how often the connection is lost, or the
                      \* process ended from outside

ASSUME JobQueueAssumption ==
  /\ Prefetch \in Nat \ {0}
  /\ MaxFaults \in Nat

VARIABLES
  ready,      \* the jobs that wait in the queue
  consumer,   \* the consumer's channel, 0 without one
  tags,       \* how many messages this channel delivered
  unacked,    \* the deliveries RabbitMQ awaits an answer to, in their order
  running,    \* the calls of the handler under way
  drops,      \* how often the connection was lost
  ends,       \* how often the process ended
  published,  \* history: the jobs RabbitMQ took
  handled     \* history: the jobs a handler came to the end of

faults == <<drops, ends>>
history == <<published, handled>>
connection == <<consumer, tags, unacked>>
queueVars == <<ready, connection, running, faults, history>>

QueueInit ==
  /\ ready = <<>> /\ unacked = <<>> /\ running = {}
  /\ consumer = 1 /\ tags = 0
  /\ drops = 0 /\ ends = 0
  /\ published = {} /\ handled = {}

\* publish, as RabbitMQ takes the message.
Enqueue(j) ==
  /\ ready' = Append(ready, j)
  /\ published' = published \cup {j}
  /\ UNCHANGED <<connection, running, faults, handled>>

\* (Changed form: the consumer says noAck, so that nothing waits for an answer.)
DeliverNoAck(stage) ==
  /\ consumer # 0 /\ ready # <<>>
  /\ Len(unacked) < Prefetch
  /\ ready' = Tail(ready)
  /\ tags' = tags + 1
  /\ running' = running \cup {[job |-> Head(ready), tag |-> tags',
                               channel |-> consumer, stage |-> stage]}
  /\ UNCHANGED <<consumer, unacked, faults, history>>

\* RabbitMQ pushes the next job while fewer than Prefetch are out; the calls
\* of the handler do not wait for each other.
Deliver(stage) ==
  /\ consumer # 0 /\ ready # <<>>
  /\ Len(unacked) < Prefetch
  /\ ready' = Tail(ready)
  /\ tags' = tags + 1
  /\ unacked' = Append(unacked, [tag |-> tags', job |-> Head(ready)])
  /\ running' = running \cup {[job |-> Head(ready), tag |-> tags',
                               channel |-> consumer, stage |-> stage]}
  /\ UNCHANGED <<consumer, faults, history>>

\* The channel is gone: what it delivered without an answer goes back to where
\* it was in the queue.
ChannelLost ==
  /\ ready' = [n \in DOMAIN unacked |-> unacked[n].job] \o ready
  /\ unacked' = <<>>
  /\ consumer' = 0 /\ tags' = 0

\* connection.on("close"): the handlers under way go on.
Disconnect ==
  /\ consumer # 0 /\ drops + ends < MaxFaults
  /\ drops' = drops + 1
  /\ ChannelLost
  /\ UNCHANGED <<running, ends, history>>

\* The timer of scheduleAiResubscribe, or the start of the process.
Reconnect ==
  /\ consumer = 0
  /\ consumer' = drops + ends + 1
  /\ tags' = 0
  /\ UNCHANGED <<ready, unacked, running, faults, history>>

\* The process ends, and is started again (restart: unless-stopped).
ProcessEnds ==
  /\ ends' = ends + 1
  /\ ChannelLost
  /\ running' = {}
  /\ UNCHANGED drops

\* From outside; also when no connection can be had in the timer's subscribe,
\* whose rejected promise nobody catches.
Crash == drops + ends < MaxFaults /\ ProcessEnds /\ UNCHANGED history

\* The handler h is through and acknowledges: with the tag of its own channel,
\* on the channel there is now.  That answers its own delivery, or another of
\* the same tag.
Acknowledge(h) ==
  /\ \E n \in DOMAIN unacked :
       /\ unacked[n].tag = h.tag
       /\ unacked' = SubSeq(unacked, 1, n - 1) \o SubSeq(unacked, n + 1, Len(unacked))
  /\ running' = running \ {h}
  /\ handled' = handled \cup {h.job}
  /\ UNCHANGED <<ready, consumer, tags, faults, published>>

\* There is no channel, and ack and nack throw; or RabbitMQ knows no delivery
\* of this tag and closes the channel, whose error has no listener.
AcknowledgeFails(h) ==
  /\ \A n \in DOMAIN unacked : unacked[n].tag # h.tag
  /\ handled' = handled \cup {h.job}
  /\ ProcessEnds
  /\ UNCHANGED published

\* A job that RabbitMQ took is in the queue, awaits an answer, or was handled.
Kept(j) ==
  \/ j \in handled
  \/ \E n \in DOMAIN ready : ready[n] = j
  \/ \E n \in DOMAIN unacked : unacked[n].job = j

QueueTypeOK ==
  /\ ready \in Seq(Jobs)
  /\ consumer \in Nat /\ tags \in Nat
  /\ unacked \in Seq([tag : 1..tags, job : Jobs])
  /\ drops \in 0..MaxFaults /\ ends \in Nat
  /\ published \subseteq Jobs /\ handled \subseteq Jobs
=============================================================================
