----------------------------- MODULE RoomPersist -----------------------------
(***************************************************************************)
(* How the committed versions of one room reach Postgres: enqueueRoomPersist*)
(* and the debounced fallback of a WebSocket node (ws/roomSync.ts), the    *)
(* RabbitMQ queue of persist jobs that all nodes share                     *)
(* (packages/queue-sync/src/index.ts) and the consumer of a node           *)
(* (startRoomPersistConsumer in index.ts).                                 *)
(*                                                                         *)
(* The shapes of version v are the constant Rooms[v].  A row of the Shape  *)
(* table is named by its shape; its value is the version that last wrote   *)
(* the shape, 0 when there is no row.                                      *)
(***************************************************************************)
EXTENDS Integers, FiniteSets

CONSTANTS Nodes,        \* WebSocket server processes
          Ids,          \* shapes
          MaxVersion,   \* bound: versions of the room
          Rooms,        \* Rooms[v][i]: the write of shape i that v contains
          Prefetch,     \* RABBITMQ_PREFETCH: unacknowledged jobs of a node
          MaxFailures,  \* bound: failed transactions and failed publishes
          MaxRestarts   \* bound: restarts of nodes

Versions == 1..MaxVersion

ASSUME RoomPersistAssumption ==
  /\ MaxVersion \in Nat
  /\ Rooms \in [Versions -> [Ids -> 0..MaxVersion]]
  /\ Prefetch \in Nat \ {0}
  /\ MaxFailures \in Nat
  /\ MaxRestarts \in Nat

VARIABLES
  ver,        \* the version committed last
  outbox,     \* [node, version] of the publishRoomPersistJob calls under way
  queue,      \* the versions of the jobs ready in RabbitMQ
  txs,        \* the calls of persistShapes under way
  latest,     \* latest[n]: latestPersistedVersionByRoom, 0 when unset
  pending,    \* pending[n]: the version of pendingPersistShapes, 0 when unset
  timer,      \* timer[n]: pendingPersistTimer is set
  cooling,    \* cooling[n]: now < durablePersistRetryAfterMs
  db,         \* the Shape table
  failures,   \* how much failed
  restarts,   \* how many restarts
  published,  \* history: the versions RabbitMQ accepted a job for
  written     \* history: the versions whose transaction committed

local == <<pending, timer>>
counters == <<failures, restarts>>
vars == <<ver, outbox, queue, txs, latest, local, cooling, db, counters,
          published, written>>

Stages == {"waiting", "deleted", "committed"}

\* isJob: called by the consumer, and not by the fallback.  sees: the rows
\* its deleteMany found (and that no transaction has removed since).
Tx == [node : Nodes, version : Versions, isJob : BOOLEAN, stage : Stages,
       sees : SUBSET Ids]

Starting(n, v, isJob) ==
  [node |-> n, version |-> v, isJob |-> isJob, stage |-> "waiting", sees |-> {}]

Init ==
  /\ ver = 0
  /\ outbox = {}
  /\ queue = {}
  /\ txs = {}
  /\ latest = [n \in Nodes |-> 0]
  /\ pending = [n \in Nodes |-> 0]
  /\ timer = [n \in Nodes |-> FALSE]
  /\ cooling = [n \in Nodes |-> FALSE]
  /\ db = [i \in Ids |-> 0]
  /\ failures = 0
  /\ restarts = 0
  /\ published = {}
  /\ written = {}

-----------------------------------------------------------------------------
\* scheduleRoomPersist: the newest call replaces the shapes and the timer.
Schedule(n, v) ==
  /\ pending' = [pending EXCEPT ![n] = v]
  /\ timer' = [timer EXCEPT ![n] = TRUE]

EnqueueVersion(n, v) ==
  /\ ver < MaxVersion
  /\ ver' = ver + 1
  /\ IF cooling[n]
     THEN Schedule(n, v) /\ UNCHANGED outbox
     ELSE outbox' = outbox \cup {<<n, v>>} /\ UNCHANGED local
  /\ UNCHANGED <<queue, txs, latest, cooling, db, counters, published, written>>

\* A canvas_snapshot handler of node n committed a version (RoomSync) and
\* calls enqueueRoomPersist.
Enqueue(n) == EnqueueVersion(n, ver + 1)

\* publishRoomPersistJob: RabbitMQ confirms the job.
Publish(n, v) ==
  /\ <<n, v>> \in outbox
  /\ outbox' = outbox \ {<<n, v>>}
  /\ queue' = queue \cup {v}
  /\ published' = published \cup {v}
  /\ cooling' = [cooling EXCEPT ![n] = FALSE]
  /\ UNCHANGED <<ver, txs, latest, local, db, counters, written>>

\* The publish fails, although RabbitMQ may have the job: cool down and fall
\* back to the local debounce.
PublishFails(n, v) ==
  /\ <<n, v>> \in outbox
  /\ failures < MaxFailures
  /\ failures' = failures + 1
  /\ outbox' = outbox \ {<<n, v>>}
  /\ cooling' = [cooling EXCEPT ![n] = TRUE]
  /\ Schedule(n, v)
  /\ \/ UNCHANGED <<queue, published>>
     \/ queue' = queue \cup {v} /\ published' = published \cup {v}
  /\ UNCHANGED <<ver, txs, latest, db, restarts, written>>

\* durablePersistRetryAfterMs passes.
CoolDown(n) ==
  /\ cooling[n]
  /\ cooling' = [cooling EXCEPT ![n] = FALSE]
  /\ UNCHANGED <<ver, outbox, queue, txs, latest, local, db, counters,
                 published, written>>

-----------------------------------------------------------------------------
JobsAt(n) == {t \in txs : t.node = n /\ t.isJob}
LocalAt(n) == {t \in txs : t.node = n /\ ~t.isJob}   \* persistInFlight

(***************************************************************************)
(* RabbitMQ hands a job to the consumer of n.  A queue is in order, but    *)
(* nodes publish out of order, jobs come back to it, and several consumers *)
(* share it: any ready job may be next.                                    *)
(***************************************************************************)
Deliver(n, v) ==
  /\ v \in queue
  /\ Cardinality(JobsAt(n)) < Prefetch
  /\ queue' = queue \ {v}
  /\ txs' = IF v <= latest[n] THEN txs ELSE txs \cup {Starting(n, v, TRUE)}
  /\ UNCHANGED <<ver, outbox, latest, local, cooling, db, counters, published,
                 written>>

\* The debounce timer: persistQueuedRoom, which leaves the shapes where they
\* are while a transaction of the fallback is in flight.
TimerFires(n) ==
  /\ timer[n]
  /\ timer' = [timer EXCEPT ![n] = FALSE]
  /\ IF LocalAt(n) = {} /\ pending[n] # 0
     THEN /\ pending' = [pending EXCEPT ![n] = 0]
          /\ txs' = txs \cup {Starting(n, pending[n], FALSE)}
     ELSE UNCHANGED <<pending, txs>>
  /\ UNCHANGED <<ver, outbox, queue, latest, cooling, db, counters, published,
                 written>>

-----------------------------------------------------------------------------
(***************************************************************************)
(* persistShapes: one transaction of deleteMany and createMany with        *)
(* skipDuplicates, at Postgres' default isolation (read committed).        *)
(* DeleteMany fixes the rows the transaction removes.  If another          *)
(* transaction that sees them too commits first, they are gone when this   *)
(* one gets their locks, and the rows the other created stay: they are     *)
(* neither removed nor, being duplicates, written.                         *)
(***************************************************************************)
DeleteMany(t) ==
  /\ t.stage = "waiting"
  /\ txs' = (txs \ {t}) \cup
       {[t EXCEPT !.stage = "deleted", !.sees = {i \in Ids : db[i] # 0}]}
  /\ UNCHANGED <<ver, outbox, queue, latest, local, cooling, db, counters,
                 published, written>>

CommitTx(t) ==
  /\ t.stage = "deleted"
  /\ db' = [i \in Ids |-> IF i \in t.sees \/ db[i] = 0
                          THEN Rooms[t.version][i] ELSE db[i]]
  /\ txs' = {[u EXCEPT !.sees = @ \ t.sees] : u \in txs \ {t}}
              \cup {[t EXCEPT !.stage = "committed"]}
  /\ written' = written \cup {t.version}
  /\ UNCHANGED <<ver, outbox, queue, latest, local, cooling, counters, published>>

\* (Changed form: shapes that came while the fallback was writing wait for
\* the next edit.)
WithoutLocalForgetful(t) ==
  /\ txs' = txs \ {t}
  /\ UNCHANGED local

\* A call of the fallback ends, and the finally block of persistQueuedRoom
\* goes on with what is pending.
WithoutLocal(t) ==
  IF pending[t.node] # 0
  THEN /\ txs' = (txs \ {t}) \cup {Starting(t.node, pending[t.node], FALSE)}
       /\ pending' = [pending EXCEPT ![t.node] = 0]
       /\ UNCHANGED timer
  ELSE txs' = txs \ {t} /\ UNCHANGED local

\* The reply of the transaction arrives: the consumer notes the version,
\* whatever it knew before, and acknowledges the job.
Finish(t) ==
  /\ t.stage = "committed"
  /\ \/ /\ t.isJob
        /\ txs' = txs \ {t}
        /\ latest' = [latest EXCEPT ![t.node] = t.version]
        /\ UNCHANGED local
     \/ /\ ~t.isJob
        /\ WithoutLocal(t)
        /\ UNCHANGED latest
  /\ UNCHANGED <<ver, outbox, queue, cooling, db, counters, published, written>>

\* runWithDbRetry runs the transaction again after a transient error.
Retry(t) ==
  /\ t.stage # "waiting"
  /\ failures < MaxFailures
  /\ failures' = failures + 1
  /\ txs' = (txs \ {t}) \cup {Starting(t.node, t.version, t.isJob)}
  /\ UNCHANGED <<ver, outbox, queue, latest, local, cooling, db, restarts,
                 published, written>>

FailWith(t, back) ==
  /\ failures < MaxFailures
  /\ failures' = failures + 1
  /\ \/ /\ t.isJob
        /\ txs' = txs \ {t}
        /\ queue' = queue \cup back
        /\ UNCHANGED local
     \/ /\ ~t.isJob
        /\ WithoutLocal(t)
        /\ UNCHANGED queue
  /\ UNCHANGED <<ver, outbox, latest, cooling, db, restarts, published, written>>

\* (Changed form: a failed job is rejected without requeue.)
FailDropped(t) == FailWith(t, {})

\* persistShapes throws, perhaps after the commit (its reply was lost): the
\* job goes back to the queue, the fallback logs and drops the shapes.
Fail(t) == FailWith(t, {t.version})

RestartWith(n, back) ==
  /\ restarts < MaxRestarts
  /\ restarts' = restarts + 1
  /\ outbox' = {o \in outbox : o[1] # n}
  /\ txs' = {t \in txs : t.node # n}
  /\ queue' = queue \cup back
  /\ latest' = [latest EXCEPT ![n] = 0]
  /\ pending' = [pending EXCEPT ![n] = 0]
  /\ timer' = [timer EXCEPT ![n] = FALSE]
  /\ cooling' = [cooling EXCEPT ![n] = FALSE]
  /\ UNCHANGED <<ver, db, failures, published, written>>

\* The process dies: RabbitMQ takes its unacknowledged jobs back.
Restart(n) == RestartWith(n, {t.version : t \in JobsAt(n)})

-----------------------------------------------------------------------------
TxStep(t) == \/ DeleteMany(t) \/ CommitTx(t) \/ Finish(t)
             \/ Retry(t) \/ Fail(t)

Next ==
  \/ \E n \in Nodes : \/ Enqueue(n) \/ CoolDown(n) \/ TimerFires(n) \/ Restart(n)
                      \/ \E v \in Versions : \/ Publish(n, v)
                                             \/ PublishFails(n, v)
                                             \/ Deliver(n, v)
  \/ \E t \in txs : TxStep(t)

Spec == Init /\ [][Next]_vars

(***************************************************************************)
(* RabbitMQ confirms and delivers, timers fire, and Postgres answers:      *)
(* failures and restarts are bounded.                                      *)
(***************************************************************************)
FairSpec ==
  /\ Spec
  /\ \A n \in Nodes :
       /\ WF_vars(TimerFires(n))
       /\ \A v \in Versions :
            /\ WF_vars(Publish(n, v) \/ PublishFails(n, v))
            /\ WF_vars(Deliver(n, v))
            /\ \A isJob \in BOOLEAN :
                 WF_vars(\E t \in txs : /\ t.node = n /\ t.version = v
                                        /\ t.isJob = isJob
                                        /\ TxStep(t))

-----------------------------------------------------------------------------
\* Versions that are queued, written or waited for are versions of the room.
TypeOK ==
  /\ ver \in 0..MaxVersion
  /\ outbox \subseteq Nodes \X Versions
  /\ queue \subseteq Versions
  /\ txs \subseteq Tx
  /\ latest \in [Nodes -> 0..MaxVersion]
  /\ pending \in [Nodes -> 0..MaxVersion]
  /\ timer \in [Nodes -> BOOLEAN]
  /\ cooling \in [Nodes -> BOOLEAN]
  /\ db \in [Ids -> 0..MaxVersion]
  /\ failures \in Nat
  /\ restarts \in Nat
  /\ published \subseteq Versions
  /\ written \subseteq Versions

(***************************************************************************)
(* The queue loses nothing: a version RabbitMQ has accepted a job for is   *)
(* in the queue, is being written, or it or a newer one has been written,  *)
(* whatever failed or died in between ("durable and replayable", the       *)
(* comment above enqueueRoomPersist).                                      *)
(***************************************************************************)
Kept(v) ==
  \/ v \in queue
  \/ \E t \in txs : t.isJob /\ t.version = v
  \/ \E w \in written : v <= w

JobsKept == \A v \in published : Kept(v)

(***************************************************************************)
(* The fallback never stands still with shapes to write, though its timer  *)
(* does nothing while a transaction is in flight.                          *)
(***************************************************************************)
Drained == \A n \in Nodes : pending[n] # 0 ~> pending[n] = 0

(***************************************************************************)
(* Postgres holds the shapes of one version of the room, not a mixture of  *)
(* several (docs/ws-redis-sync-architecture.md: "full-room replace").      *)
(***************************************************************************)
WholeRoom == written # {} => \E v \in Versions : db = Rooms[v]

(***************************************************************************)
(* The inductive invariant behind JobsKept: what a node believes persisted *)
(* has been written.                                                       *)
(***************************************************************************)
PersistInv ==
  /\ JobsKept
  /\ \A n \in Nodes : latest[n] # 0 => latest[n] \in written
  /\ \A t \in txs : t.stage = "committed" => t.version \in written

=============================================================================
