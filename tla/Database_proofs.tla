--------------------------- MODULE Database_proofs ---------------------------
(***************************************************************************)
(* What holds between the rooms and Postgres: of the persist jobs          *)
(* (RoomPersist), for any nodes, rooms, prefetch and numbers of failures   *)
(* and restarts, and of the breaker around every database call             *)
(* (DbBreaker), for any callers, thresholds, windows and attempts.         *)
(*                                                                         *)
(* RabbitMQ and its consumers lose no persist job; the inductive invariant *)
(* is PersistInv: a consumer drops a job unwritten only because of a       *)
(* version it noted, and what it noted was written.  The breaker's gate is *)
(* never left shut, and a closed breaker is always below its threshold;    *)
(* both are inductive beside the type invariant.                           *)
(***************************************************************************)
EXTENDS RoomPersist, DbBreaker, SequenceTheorems, FiniteSetTheorems, TLAPS


-----------------------------------------------------------------------------
LEMMA StartingType ==
  ASSUME NEW n \in Nodes, NEW v \in Versions, NEW isJob \in BOOLEAN
  PROVE  /\ Starting(n, v, isJob) \in Tx
         /\ Starting(n, v, isJob).version = v
         /\ Starting(n, v, isJob).isJob = isJob
         /\ Starting(n, v, isJob).stage = "waiting"
BY DEF Starting, Tx, Stages

LEMMA ScheduleType ==
  ASSUME TypeOK, NEW n \in Nodes, NEW v \in Versions, Schedule(n, v)
  PROVE  pending' \in [Nodes -> 0..MaxVersion] /\ timer' \in [Nodes -> BOOLEAN]
<1>1. v \in 0..MaxVersion
  BY DEF Versions
<1>2. pending' = [pending EXCEPT ![n] = v]
  BY DEF Schedule
<1>3. timer' = [timer EXCEPT ![n] = TRUE]
  BY DEF Schedule
<1>4. pending' \in [Nodes -> 0..MaxVersion]
  BY <1>1, <1>2 DEF TypeOK
<1>5. timer' \in [Nodes -> BOOLEAN]
  BY <1>3 DEF TypeOK
<1> QED BY <1>4, <1>5

\* The end of a fallback call changes no job and commits nothing.
LEMMA WithoutLocalFacts ==
  ASSUME TypeOK, NEW t \in txs, ~t.isJob, WithoutLocal(t)
  PROVE  /\ txs' \subseteq Tx
         /\ pending' \in [Nodes -> 0..MaxVersion]
         /\ timer' \in [Nodes -> BOOLEAN]
         /\ \A u \in txs : u.isJob => u \in txs'
         /\ \A u \in txs' : u \in txs \/ u.stage = "waiting"
<1>1. t \in Tx /\ t.node \in Nodes
  BY DEF TypeOK, Tx
<1>2. CASE pending[t.node] # 0
  <2>1. pending[t.node] \in Versions
    BY <1>1, <1>2, RoomPersistAssumption DEF TypeOK, Versions, RoomPersistAssumption
  <2>2. /\ Starting(t.node, pending[t.node], FALSE) \in Tx
        /\ Starting(t.node, pending[t.node], FALSE).stage = "waiting"
    BY <1>1, <2>1, StartingType
  <2>3. 0 \in 0..MaxVersion
    BY RoomPersistAssumption DEF RoomPersistAssumption
  <2>4. /\ txs' = (txs \ {t}) \cup {Starting(t.node, pending[t.node], FALSE)}
        /\ pending' = [pending EXCEPT ![t.node] = 0]
        /\ timer' = timer
    BY <1>2 DEF WithoutLocal
  <2> QED BY <2>2, <2>3, <2>4 DEF TypeOK
<1>3. CASE ~(pending[t.node] # 0)
  BY <1>3 DEF WithoutLocal, TypeOK, local
<1> QED BY <1>2, <1>3

\* The type invariant.
THEOREM TypeCorrect == Spec => []TypeOK
<1> USE RoomPersistAssumption DEF RoomPersistAssumption
<1>1. Init => TypeOK
  BY DEF Init, TypeOK
<1>2. TypeOK /\ [Next]_vars => TypeOK'
  <2> SUFFICES ASSUME TypeOK, [Next]_vars PROVE TypeOK'
    OBVIOUS
  <2>1. ASSUME NEW n \in Nodes, Enqueue(n) PROVE TypeOK'
    <3>1. ver + 1 \in Versions /\ ver + 1 \in 0..MaxVersion
      BY <2>1 DEF TypeOK, Enqueue, EnqueueVersion, Versions
    <3>2. /\ ver' = ver + 1
          /\ UNCHANGED <<queue, txs, latest, cooling, db, counters, published, written>>
          /\ \/ Schedule(n, ver + 1) /\ UNCHANGED outbox
             \/ outbox' = outbox \cup {<<n, ver + 1>>} /\ UNCHANGED local
      BY <2>1 DEF Enqueue, EnqueueVersion
    <3>3. /\ pending' \in [Nodes -> 0..MaxVersion]
          /\ timer' \in [Nodes -> BOOLEAN]
          /\ outbox' \subseteq Nodes \X Versions
      <4>1. CASE Schedule(n, ver + 1) /\ UNCHANGED outbox
        BY <3>1, <4>1, ScheduleType DEF TypeOK
      <4>2. CASE outbox' = outbox \cup {<<n, ver + 1>>} /\ UNCHANGED local
        BY <3>1, <4>2 DEF TypeOK, local
      <4> QED BY <3>2, <4>1, <4>2
    <3> QED BY <3>1, <3>2, <3>3 DEF TypeOK, counters
  <2>2. ASSUME NEW n \in Nodes, CoolDown(n) PROVE TypeOK'
    BY <2>2 DEF TypeOK, CoolDown, local, counters
  <2>3. ASSUME NEW n \in Nodes, TimerFires(n) PROVE TypeOK'
    <3>1. pending[n] # 0 => pending[n] \in Versions
      BY <2>3 DEF TypeOK, Versions
    <3>2. pending[n] # 0 => Starting(n, pending[n], FALSE) \in Tx
      BY <3>1, StartingType
    <3>3. /\ txs' \subseteq Tx
          /\ pending' \in [Nodes -> 0..MaxVersion]
          /\ timer' \in [Nodes -> BOOLEAN]
      <4>1. timer' = [timer EXCEPT ![n] = FALSE]
        BY <2>3 DEF TimerFires
      <4>2. \/ /\ pending[n] # 0
               /\ pending' = [pending EXCEPT ![n] = 0]
               /\ txs' = txs \cup {Starting(n, pending[n], FALSE)}
            \/ UNCHANGED <<pending, txs>>
        BY <2>3 DEF TimerFires
      <4>3. 0 \in 0..MaxVersion
        OBVIOUS
      <4>4. timer' \in [Nodes -> BOOLEAN]
        BY <4>1 DEF TypeOK
      <4>5. pending' \in [Nodes -> 0..MaxVersion]
        BY <4>2, <4>3 DEF TypeOK
      <4> QED BY <3>2, <4>2, <4>4, <4>5 DEF TypeOK
    <3> QED BY <2>3, <3>3 DEF TypeOK, TimerFires, counters
  <2>4. ASSUME NEW n \in Nodes, Restart(n) PROVE TypeOK'
    <3>1. {t.version : t \in JobsAt(n)} \subseteq Versions
      BY DEF TypeOK, JobsAt, Tx
    <3>2. /\ restarts' \in Nat
          /\ latest' \in [Nodes -> 0..MaxVersion]
          /\ pending' \in [Nodes -> 0..MaxVersion]
      BY <2>4 DEF TypeOK, Restart, RestartWith
    <3>3. timer' \in [Nodes -> BOOLEAN] /\ cooling' \in [Nodes -> BOOLEAN]
      BY <2>4 DEF TypeOK, Restart, RestartWith
    <3>4. outbox' \subseteq outbox /\ txs' \subseteq txs /\ queue' \subseteq Versions
      BY <2>4, <3>1 DEF TypeOK, Restart, RestartWith
    <3>5. UNCHANGED <<ver, db, failures, published, written>>
      BY <2>4 DEF Restart, RestartWith
    <3> QED BY <3>2, <3>3, <3>4, <3>5 DEF TypeOK
  <2>5. ASSUME NEW n \in Nodes, NEW v \in Versions, Publish(n, v) PROVE TypeOK'
    BY <2>5 DEF TypeOK, Publish, local, counters
  <2>6. ASSUME NEW n \in Nodes, NEW v \in Versions, PublishFails(n, v) PROVE TypeOK'
    <3>1. pending' \in [Nodes -> 0..MaxVersion] /\ timer' \in [Nodes -> BOOLEAN]
      BY <2>6, ScheduleType DEF PublishFails
    <3>2. failures' \in Nat
      BY <2>6 DEF TypeOK, PublishFails
    <3>3. cooling' \in [Nodes -> BOOLEAN]
      BY <2>6 DEF TypeOK, PublishFails
    <3>4. /\ outbox' \subseteq outbox
          /\ queue' \subseteq Versions /\ published' \subseteq Versions
          /\ UNCHANGED <<ver, txs, latest, db, restarts, written>>
      BY <2>6 DEF TypeOK, PublishFails
    <3> QED BY <3>1, <3>2, <3>3, <3>4 DEF TypeOK
  <2>7. ASSUME NEW n \in Nodes, NEW v \in Versions, Deliver(n, v) PROVE TypeOK'
    <3>1. Starting(n, v, TRUE) \in Tx
      BY StartingType
    <3> QED BY <2>7, <3>1 DEF TypeOK, Deliver, local, counters
  <2>8. ASSUME NEW t \in txs, TxStep(t) PROVE TypeOK'
    <3>1. t \in Tx /\ t.node \in Nodes /\ t.version \in Versions /\ t.isJob \in BOOLEAN
      BY DEF TypeOK, Tx
    <3>2. CASE DeleteMany(t)
      <4>1. [t EXCEPT !.stage = "deleted", !.sees = {i \in Ids : db[i] # 0}] \in Tx
        BY <3>1 DEF Tx, Stages
      <4> QED BY <3>2, <4>1 DEF TypeOK, DeleteMany, local, counters
    <3>3. CASE CommitTx(t)
      <4>1. db' \in [Ids -> 0..MaxVersion]
        BY <3>1, <3>3 DEF CommitTx, TypeOK
      <4>2. [t EXCEPT !.stage = "committed"] \in Tx
        BY <3>1 DEF Tx, Stages
      <4>3. \A u \in txs : [u EXCEPT !.sees = @ \ t.sees] \in Tx
        BY DEF TypeOK, Tx
      <4>4. txs' \subseteq Tx
        BY <3>3, <4>2, <4>3 DEF CommitTx
      <4> QED BY <3>1, <3>3, <4>1, <4>4 DEF TypeOK, CommitTx, local, counters
    <3>4. CASE Finish(t)
      <4>1. CASE t.isJob
        <5>1. t.version \in 0..MaxVersion
          BY <3>1 DEF Versions
        <5> QED BY <3>4, <4>1, <5>1 DEF TypeOK, Finish, local, counters
      <4>2. CASE ~t.isJob
        BY <3>4, <4>2, WithoutLocalFacts DEF TypeOK, Finish, counters
      <4> QED BY <4>1, <4>2
    <3>5. CASE Retry(t)
      <4>1. Starting(t.node, t.version, t.isJob) \in Tx
        BY <3>1, StartingType
      <4> QED BY <3>5, <4>1 DEF TypeOK, Retry, local
    <3>6. CASE Fail(t)
      <4>1. CASE t.isJob
        BY <3>1, <3>6, <4>1 DEF TypeOK, Fail, FailWith, local
      <4>2. CASE ~t.isJob
        BY <3>6, <4>2, WithoutLocalFacts DEF TypeOK, Fail, FailWith
      <4> QED BY <4>1, <4>2
    <3> QED BY <2>8, <3>2, <3>3, <3>4, <3>5, <3>6 DEF TxStep
  <2>9. CASE UNCHANGED vars
    BY <2>9 DEF TypeOK, vars, local, counters
  <2> QED BY <2>1, <2>2, <2>3, <2>4, <2>5, <2>6, <2>7, <2>8, <2>9 DEF Next
<1> QED BY <1>1, <1>2, PTL DEF Spec

-----------------------------------------------------------------------------
(***************************************************************************)
(* A step that takes no job away unless it goes back to the queue or a     *)
(* version at least as new has been written keeps what was kept.           *)
(***************************************************************************)
LEMMA KeptStays ==
  ASSUME NEW v, Kept(v), written \subseteq written',
         v \in queue => v \in queue' \/ (\E w \in written' : v <= w)
                        \/ (\E u \in txs' : u.isJob /\ u.version = v),
         \A t \in txs : t.isJob /\ t.version = v =>
           \/ \E u \in txs' : u.isJob /\ u.version = v
           \/ v \in queue'
           \/ \E w \in written' : v <= w
  PROVE  Kept(v)'
BY DEF Kept

(***************************************************************************)
(* No persist job is lost (JobsKept, by PersistInv).                       *)
(***************************************************************************)
THEOREM PersistInvariant == Spec => []PersistInv
<1>1. Init => PersistInv
  BY DEF Init, PersistInv, JobsKept
<1>2. TypeOK /\ PersistInv /\ [Next]_vars => PersistInv'
  <2> SUFFICES ASSUME TypeOK, PersistInv, [Next]_vars PROVE PersistInv'
    OBVIOUS
  \* The steps that touch no job.
  <2>1. ASSUME UNCHANGED <<queue, latest, published, written>>,
               \A t \in txs : t.isJob => t \in txs',
               \A t \in txs' : t \in txs \/ t.stage = "waiting"
        PROVE  PersistInv'
    <3>1. ASSUME NEW v \in published PROVE Kept(v)'
      BY <2>1, <3>1, KeptStays DEF PersistInv, JobsKept
    <3> QED BY <2>1, <3>1 DEF PersistInv, JobsKept
  <2>2. ASSUME NEW n \in Nodes, Enqueue(n) \/ CoolDown(n) \/ TimerFires(n)
        PROVE  PersistInv'
    <3>1. UNCHANGED <<queue, latest, published, written>>
      BY <2>2 DEF Enqueue, EnqueueVersion, CoolDown, TimerFires
    <3>2. \/ txs' = txs
          \/ txs' = txs \cup {Starting(n, pending[n], FALSE)}
      BY <2>2 DEF Enqueue, EnqueueVersion, CoolDown, TimerFires
    <3>3. Starting(n, pending[n], FALSE).stage = "waiting"
      BY DEF Starting
    <3> QED BY <2>1, <3>1, <3>2, <3>3
  <2>3. ASSUME NEW n \in Nodes, Restart(n) PROVE PersistInv'
    <3>1. /\ \A t \in txs : t \in txs' \/ (t.isJob => t.version \in queue')
          /\ txs' \subseteq txs /\ queue \subseteq queue'
          /\ UNCHANGED <<published, written>>
      BY <2>3 DEF Restart, RestartWith, JobsAt
    <3>2. \A k \in Nodes : latest'[k] = 0 \/ latest'[k] = latest[k]
      BY <2>3 DEF TypeOK, Restart, RestartWith
    <3>3. ASSUME NEW v \in published PROVE Kept(v)'
      BY <3>1, <3>3, KeptStays DEF PersistInv, JobsKept
    <3> QED BY <3>1, <3>2, <3>3 DEF PersistInv, JobsKept
  <2>4. ASSUME NEW n \in Nodes, NEW v \in Versions, Publish(n, v) \/ PublishFails(n, v)
        PROVE  PersistInv'
    <3>1. /\ UNCHANGED <<txs, latest, written>>
          /\ \/ UNCHANGED <<queue, published>>
             \/ queue' = queue \cup {v} /\ published' = published \cup {v}
      BY <2>4 DEF Publish, PublishFails
    <3>2. ASSUME NEW w \in published' PROVE Kept(w)'
      BY <3>1, <3>2 DEF PersistInv, JobsKept, Kept
    <3> QED BY <3>1, <3>2 DEF PersistInv, JobsKept
  \* The consumer drops a job because of what it noted.
  <2>5. ASSUME NEW n \in Nodes, NEW v \in Versions, Deliver(n, v) PROVE PersistInv'
    <3>1. /\ UNCHANGED <<latest, published, written>>
          /\ queue' = queue \ {v}
          /\ \/ v <= latest[n] /\ txs' = txs
             \/ txs' = txs \cup {Starting(n, v, TRUE)}
      BY <2>5 DEF Deliver
    <3>2. /\ Starting(n, v, TRUE).stage = "waiting"
          /\ Starting(n, v, TRUE).isJob
          /\ Starting(n, v, TRUE).version = v
      BY StartingType
    <3>3. v <= latest[n] => \E w \in written : v <= w
      <4>1. v <= latest[n] => latest[n] # 0
        BY DEF TypeOK, Versions
      <4> QED BY <4>1 DEF PersistInv
    <3>4. Kept(v)'
      BY <3>1, <3>2, <3>3 DEF Kept
    <3>5. ASSUME NEW w \in published, w # v PROVE Kept(w)'
      BY <3>1, <3>5, KeptStays DEF PersistInv, JobsKept
    <3> QED BY <3>1, <3>2, <3>4, <3>5 DEF PersistInv, JobsKept
  <2>6. ASSUME NEW t \in txs, TxStep(t) PROVE PersistInv'
    <3>1. t \in Tx /\ t.node \in Nodes /\ t.version \in Versions /\ t.isJob \in BOOLEAN
      BY DEF TypeOK, Tx
    <3>2. CASE DeleteMany(t)
      <4> DEFINE u == [t EXCEPT !.stage = "deleted", !.sees = {i \in Ids : db[i] # 0}]
      <4>1. u.isJob = t.isJob /\ u.version = t.version /\ u.stage = "deleted"
        BY <3>1 DEF Tx
      <4>2. /\ UNCHANGED <<queue, latest, published, written>>
            /\ txs' = (txs \ {t}) \cup {u}
        BY <3>2 DEF DeleteMany
      <4> HIDE DEF u
      <4>3. ASSUME NEW v \in published PROVE Kept(v)'
        BY <4>1, <4>2, <4>3, KeptStays DEF PersistInv, JobsKept
      <4>4. \A x \in txs' : x.stage = "committed" => x \in txs
        BY <4>1, <4>2
      <4> QED BY <4>2, <4>3, <4>4 DEF PersistInv, JobsKept
    <3>3. CASE CommitTx(t)
      <4> DEFINE c == [t EXCEPT !.stage = "committed"]
                 r(u) == [u EXCEPT !.sees = @ \ t.sees]
      <4>1. c.isJob = t.isJob /\ c.version = t.version
        BY <3>1 DEF Tx
      <4>2. \A u \in txs : /\ r(u).isJob = u.isJob /\ r(u).version = u.version
                           /\ r(u).stage = u.stage
        BY DEF TypeOK, Tx
      <4>3. /\ UNCHANGED <<queue, latest, published>>
            /\ txs' = {r(u) : u \in txs \ {t}} \cup {c}
            /\ written' = written \cup {t.version}
        BY <3>3 DEF CommitTx
      <4> HIDE DEF c, r
      <4>4. ASSUME NEW v \in published PROVE Kept(v)'
        <5>1. \A x \in txs : x.isJob /\ x.version = v =>
                 \E u \in txs' : u.isJob /\ u.version = v
          BY <4>1, <4>2, <4>3
        <5> QED BY <4>3, <4>4, <5>1, KeptStays DEF PersistInv, JobsKept
      <4>5. \A x \in txs' : x.stage = "committed" => x.version \in written'
        BY <4>1, <4>2, <4>3 DEF PersistInv
      <4> QED BY <4>3, <4>4, <4>5 DEF PersistInv, JobsKept
    <3>4. CASE Finish(t)
      <4>1. t.version \in written
        BY <3>4 DEF PersistInv, Finish
      <4>2. CASE t.isJob
        <5>1. /\ UNCHANGED <<queue, published, written>>
              /\ txs' = txs \ {t}
              /\ latest' = [latest EXCEPT ![t.node] = t.version]
          BY <3>4, <4>2 DEF Finish
        <5>2. \A n \in Nodes : latest'[n] = t.version \/ latest'[n] = latest[n]
          BY <5>1 DEF TypeOK
        <5>3. t.version <= t.version
          BY <3>1 DEF Versions
        <5>4. ASSUME NEW v \in published PROVE Kept(v)'
          BY <4>1, <5>1, <5>3, <5>4, KeptStays DEF PersistInv, JobsKept
        <5> QED BY <4>1, <5>1, <5>2, <5>4 DEF PersistInv, JobsKept
      <4>3. CASE ~t.isJob
        BY <3>4, <4>3, <2>1, WithoutLocalFacts DEF Finish
      <4> QED BY <4>2, <4>3
    <3>5. CASE Retry(t)
      <4> DEFINE s == Starting(t.node, t.version, t.isJob)
      <4>1. s.isJob = t.isJob /\ s.version = t.version /\ s.stage = "waiting"
        BY <3>1, StartingType
      <4>2. /\ UNCHANGED <<queue, latest, published, written>>
            /\ txs' = (txs \ {t}) \cup {s}
        BY <3>5 DEF Retry
      <4> HIDE DEF s
      <4>3. ASSUME NEW v \in published PROVE Kept(v)'
        BY <4>1, <4>2, <4>3, KeptStays DEF PersistInv, JobsKept
      <4>4. \A x \in txs' : x.stage = "committed" => x \in txs
        BY <4>1, <4>2
      <4> QED BY <4>2, <4>3, <4>4 DEF PersistInv, JobsKept
    <3>6. CASE Fail(t)
      <4>1. CASE t.isJob
        <5>1. /\ UNCHANGED <<latest, published, written>>
              /\ txs' = txs \ {t}
              /\ queue' = queue \cup {t.version}
          BY <3>6, <4>1 DEF Fail, FailWith
        <5>2. ASSUME NEW v \in published PROVE Kept(v)'
          BY <5>1, <5>2, KeptStays DEF PersistInv, JobsKept
        <5> QED BY <5>1, <5>2 DEF PersistInv, JobsKept
      <4>2. CASE ~t.isJob
        BY <3>6, <4>2, <2>1, WithoutLocalFacts DEF Fail, FailWith
      <4> QED BY <4>1, <4>2
    <3> QED BY <2>6, <3>2, <3>3, <3>4, <3>5, <3>6 DEF TxStep
  <2>7. CASE UNCHANGED vars
    BY <2>7, <2>1 DEF vars
  <2> QED BY <2>2, <2>3, <2>4, <2>5, <2>6, <2>7 DEF Next
<1> QED BY <1>1, <1>2, TypeCorrect, PTL DEF Spec

\* The queue and its consumers lose no job.
THEOREM NoJobLost == Spec => []JobsKept
<1>1. PersistInv => JobsKept
  BY DEF PersistInv
<1> QED BY <1>1, PersistInvariant, PTL


-----------------------------------------------------------------------------
\* pruneFailureWindow yields ages, no more of them than there were.
LEMMA PrunedFacts ==
  ASSUME timestamps \in Seq(Ages)
  PROVE  Pruned \in Seq(Ages)
<1>1. Len(timestamps) \in Nat
  BY LenProperties
<1>2. IsFiniteSet(Stale)
  <2>1. IsFiniteSet(1..Len(timestamps))
    BY <1>1, FS_Interval
  <2>2. Stale \subseteq 1..Len(timestamps)
    BY DEF Stale
  <2> QED BY <2>1, <2>2, FS_Subset
<1>3. Cardinality(Stale) \in Nat
  BY <1>2, FS_CardinalityType
<1> HIDE DEF Stale
<1>4. \A i \in (Cardinality(Stale) + 1)..Len(timestamps) : timestamps[i] \in Ages
  <2> SUFFICES ASSUME NEW i \in (Cardinality(Stale) + 1)..Len(timestamps)
               PROVE  timestamps[i] \in Ages
    OBVIOUS
  <2>1. i \in 1..Len(timestamps)
    BY <1>1, <1>3
  <2> QED BY <2>1, ElementOfSeq
<1> QED BY <1>1, <1>3, <1>4, SubSeqProperties DEF Pruned

LEMMA AppendedFacts ==
  ASSUME timestamps \in Seq(Ages), BreakerAssumption
  PROVE  Append(Pruned, 0) \in Seq(Ages)
<1>1. 0 \in Ages
  BY DEF Ages, BreakerAssumption
<1> QED BY <1>1, PrunedFacts, AppendProperties

LEMMA Bounds ==
  /\ 0 \in 0..OpenTime /\ OpenTime \in 0..OpenTime
  /\ 0 \in 0..ProbeSuccesses - 1
  /\ 1 \in 1..MaxAttempts
BY BreakerAssumption DEF BreakerAssumption

(***************************************************************************)
(* The type invariant.  What it says about successes is that a count that  *)
(* reaches the threshold closes the breaker in the same step.              *)
(***************************************************************************)
THEOREM BreakerTypeCorrect == BreakerSpec => []BreakerTypeOK
<1>1. BreakerInit => BreakerTypeOK
  <2> SUFFICES ASSUME BreakerInit PROVE BreakerTypeOK
    OBVIOUS
  <2>1. timestamps \in Seq(Ages)
    BY EmptySeq DEF BreakerInit
  <2>2. inFlight \in BOOLEAN /\ calm \in BOOLEAN
    BY DEF BreakerInit
  <2> QED BY <2>1, <2>2, Bounds DEF BreakerInit, BreakerTypeOK
<1>2. BreakerTypeOK /\ [BreakerNext]_breakerVars => BreakerTypeOK'
  <2> SUFFICES ASSUME BreakerTypeOK, [BreakerNext]_breakerVars PROVE BreakerTypeOK'
    OBVIOUS
  <2>1. ASSUME NEW c \in Calls, Request(c) PROVE BreakerTypeOK'
    <3>1. \E asProbe \in BOOLEAN : Start(c, asProbe)
      BY <2>1 DEF Request, RequestClosed, RequestAfterCooling, RequestHalfOpen
    <3>2. /\ running' \in [Calls -> BOOLEAN]
          /\ probe' \in [Calls -> BOOLEAN]
          /\ attempt' \in [Calls -> 1..MaxAttempts]
          /\ UNCHANGED <<cool, timestamps, calm>>
      BY <3>1, Bounds DEF BreakerTypeOK, Start
    <3>3. /\ state' \in {"closed", "open", "half-open"}
          /\ successes' \in 0..ProbeSuccesses - 1
          /\ inFlight' \in BOOLEAN
      BY <2>1, Bounds
         DEF BreakerTypeOK, Request, RequestClosed, RequestAfterCooling, RequestHalfOpen
    <3> QED BY <3>2, <3>3 DEF BreakerTypeOK
  <2>2. ASSUME NEW c \in Calls, TryAgain(c) PROVE BreakerTypeOK'
    <3>1. attempt[c] + 1 \in 1..MaxAttempts
      BY <2>2, BreakerAssumption DEF BreakerTypeOK, TryAgain, BreakerAssumption
    <3>2. attempt' \in [Calls -> 1..MaxAttempts]
      BY <2>2, <3>1 DEF BreakerTypeOK, TryAgain
    <3> QED BY <2>2, <3>2 DEF BreakerTypeOK, TryAgain, breaker
  <2>3. ASSUME NEW c \in Calls, Succeed(c) PROVE BreakerTypeOK'
    <3>1. timestamps' \in Seq(Ages)
      BY <2>3, EmptySeq DEF BreakerTypeOK, Succeed, CloseCircuit, CloseWith, breaker
    <3>2. /\ state' \in {"closed", "open", "half-open"}
          /\ cool' \in 0..OpenTime
          /\ successes' \in 0..ProbeSuccesses - 1
          /\ inFlight' \in BOOLEAN
      <4>1. CASE CloseCircuit
        BY <4>1, Bounds DEF CloseCircuit, CloseWith
      <4>2. CASE ~CloseCircuit
        <5>1. /\ state' = state /\ cool' = cool
              /\ inFlight' = FALSE \/ inFlight' = inFlight
              /\ \/ successes' = successes
                 \/ successes + 1 < ProbeSuccesses /\ successes' = successes + 1
          BY <2>3, <4>2 DEF Succeed, breaker
        <5>2. successes' \in 0..ProbeSuccesses - 1
          BY <5>1, BreakerAssumption DEF BreakerTypeOK, BreakerAssumption
        <5> QED BY <5>1, <5>2 DEF BreakerTypeOK
      <4> QED BY <4>1, <4>2
    <3> QED BY <2>3, <3>1, <3>2 DEF BreakerTypeOK, Succeed, End
  <2>4. ASSUME NEW c \in Calls, FailHard(c) PROVE BreakerTypeOK'
    BY <2>4 DEF BreakerTypeOK, FailHard, End
  <2>5. ASSUME NEW c \in Calls, FailTransient(c) PROVE BreakerTypeOK'
    <3>1. timestamps' \in Seq(Ages)
      BY <2>5, AppendedFacts, BreakerAssumption DEF BreakerTypeOK, FailTransient
    <3>2. /\ state' \in {"closed", "open", "half-open"}
          /\ cool' \in 0..OpenTime
          /\ successes' \in 0..ProbeSuccesses - 1
          /\ inFlight' \in BOOLEAN
      <4>1. OpenCircuit \/ UNCHANGED <<state, cool, successes, inFlight>>
        BY <2>5 DEF FailTransient
      <4>2. CASE OpenCircuit
        BY <4>2, Bounds DEF OpenCircuit
      <4>3. CASE UNCHANGED <<state, cool, successes, inFlight>>
        BY <4>3 DEF BreakerTypeOK
      <4> QED BY <4>1, <4>2, <4>3
    <3> QED BY <2>5, <3>1, <3>2 DEF BreakerTypeOK, FailTransient, End
  <2>6. CASE Tick
    <3>1. Len(timestamps) \in Nat
      BY LenProperties DEF BreakerTypeOK
    <3>2. ASSUME NEW k \in 1..Len(timestamps) PROVE Older(timestamps[k]) \in Ages
      <4>1. timestamps[k] \in Ages
        BY ElementOfSeq DEF BreakerTypeOK
      <4> QED BY <4>1, BreakerAssumption DEF Ages, Older, BreakerAssumption
    <3>3. timestamps' \in [1..Len(timestamps) -> Ages]
      BY <2>6, <3>2 DEF Tick
    <3>4. timestamps' \in Seq(Ages)
      BY <3>1, <3>3, SeqDef
    <3>5. cool' \in 0..OpenTime
      BY <2>6, BreakerAssumption DEF Tick, BreakerTypeOK, BreakerAssumption
    <3> QED BY <2>6, <3>4, <3>5 DEF BreakerTypeOK, Tick, call
  <2>7. CASE Weather
    BY <2>7 DEF BreakerTypeOK, Weather, breaker, call
  <2>8. CASE UNCHANGED breakerVars
    BY <2>8 DEF BreakerTypeOK, breakerVars, breaker, call
  <2> QED BY <2>1, <2>2, <2>3, <2>4, <2>5, <2>6, <2>7, <2>8 DEF BreakerNext
<1> QED BY <1>1, <1>2, PTL DEF BreakerSpec

-----------------------------------------------------------------------------
(***************************************************************************)
(* The gate is never left shut (GateOwned).  GateOwned is inductive: the   *)
(* flag is set only by a call that becomes a probe, every way a probe ends *)
(* clears it, and every way out of half-open clears it too.                *)
(***************************************************************************)
THEOREM GateIsOwned == BreakerSpec => []GateOwned
<1>1. BreakerInit => GateOwned
  BY DEF BreakerInit, GateOwned
<1>2. BreakerTypeOK /\ GateOwned /\ [BreakerNext]_breakerVars => GateOwned'
  <2> SUFFICES ASSUME BreakerTypeOK, GateOwned, [BreakerNext]_breakerVars PROVE GateOwned'
    OBVIOUS
  <2>1. ASSUME NEW c \in Calls, Request(c) PROVE GateOwned'
    <3>1. CASE RequestClosed(c)
      BY <3>1 DEF BreakerTypeOK, GateOwned, RequestClosed
    <3>2. CASE RequestAfterCooling(c) \/ RequestHalfOpen(c)
      <4>1. running'[c] /\ probe'[c]
        BY <3>2 DEF BreakerTypeOK, RequestAfterCooling, RequestHalfOpen, Start
      <4>2. state' = "half-open"
        BY <3>2 DEF RequestAfterCooling, RequestHalfOpen
      <4> QED BY <4>1, <4>2 DEF GateOwned
    <3> QED BY <2>1, <3>1, <3>2 DEF Request
  <2>2. ASSUME NEW c \in Calls, TryAgain(c) PROVE GateOwned'
    BY <2>2 DEF BreakerTypeOK, GateOwned, TryAgain, breaker
  \* The end of a call that is not a probe leaves the owner running.
  <2>3. ASSUME NEW c \in Calls, End(c), ~probe[c], inFlight, inFlight' => state' = state
        PROVE  GateOwned'
    <3>1. PICK d \in Calls : running[d] /\ probe[d]
      BY <2>3 DEF GateOwned
    <3>2. running'[d] /\ probe'[d]
      BY <2>3, <3>1 DEF BreakerTypeOK, End
    <3> QED BY <2>3, <3>2 DEF GateOwned
  <2>4. ASSUME NEW c \in Calls, Succeed(c) PROVE GateOwned'
    <3>1. CASE probe[c]
      BY <2>4, <3>1 DEF GateOwned, Succeed, CloseCircuit, CloseWith
    <3>2. CASE ~probe[c]
      <4>1. End(c) /\ state' = state /\ inFlight' = inFlight
        BY <2>4, <3>2 DEF Succeed, breaker
      <4>2. CASE inFlight
        BY <3>2, <4>1, <4>2, <2>3
      <4>3. CASE ~inFlight
        BY <4>1, <4>3 DEF GateOwned
      <4> QED BY <4>2, <4>3
    <3> QED BY <3>1, <3>2
  <2>5. ASSUME NEW c \in Calls, FailHard(c) PROVE GateOwned'
    <3>1. End(c) /\ state' = state /\ inFlight' = (inFlight /\ ~probe[c])
      BY <2>5 DEF FailHard
    <3>2. CASE inFlight /\ ~probe[c]
      BY <3>1, <3>2, <2>3
    <3>3. CASE ~(inFlight /\ ~probe[c])
      BY <3>1, <3>3 DEF GateOwned
    <3> QED BY <3>2, <3>3
  <2>6. ASSUME NEW c \in Calls, FailTransient(c) PROVE GateOwned'
    <3>1. CASE ~inFlight'
      BY <3>1 DEF GateOwned
    <3>2. CASE inFlight'
      <4>1. End(c) /\ ~probe[c] /\ state' = state /\ inFlight
        BY <2>6, <3>2 DEF FailTransient, OpenCircuit
      <4> QED BY <4>1, <2>3
    <3> QED BY <3>1, <3>2
  <2>7. CASE Tick
    BY <2>7 DEF GateOwned, Tick, call
  <2>8. CASE Weather
    BY <2>8 DEF GateOwned, Weather, breaker, call
  <2>9. CASE UNCHANGED breakerVars
    BY <2>9 DEF GateOwned, breakerVars, breaker, call
  <2> QED BY <2>1, <2>2, <2>4, <2>5, <2>6, <2>7, <2>8, <2>9 DEF BreakerNext
<1> QED BY <1>1, <1>2, BreakerTypeCorrect, PTL DEF BreakerSpec

-----------------------------------------------------------------------------
(***************************************************************************)
(* A closed breaker is below its threshold (ClosedBelowThreshold): every   *)
(* step into "closed" empties the window, and the failure that fills the   *)
(* window opens the breaker in the same step.                              *)
(***************************************************************************)
THEOREM ClosedIsBelow == BreakerSpec => []ClosedBelowThreshold
<1>1. BreakerInit => ClosedBelowThreshold
  BY BreakerAssumption DEF BreakerInit, ClosedBelowThreshold, BreakerAssumption
<1>2. BreakerTypeOK /\ ClosedBelowThreshold /\ [BreakerNext]_breakerVars => ClosedBelowThreshold'
  <2> SUFFICES ASSUME BreakerTypeOK, ClosedBelowThreshold, [BreakerNext]_breakerVars
               PROVE  ClosedBelowThreshold'
    OBVIOUS
  <2>1. ASSUME NEW c \in Calls, Request(c) PROVE ClosedBelowThreshold'
    BY <2>1 DEF ClosedBelowThreshold, Request, RequestClosed,
                RequestAfterCooling, RequestHalfOpen, Start
  <2>2. ASSUME NEW c \in Calls, TryAgain(c) PROVE ClosedBelowThreshold'
    BY <2>2 DEF ClosedBelowThreshold, TryAgain, breaker
  <2>3. ASSUME NEW c \in Calls, Succeed(c) PROVE ClosedBelowThreshold'
    BY <2>3, BreakerAssumption
       DEF ClosedBelowThreshold, Succeed, CloseCircuit, CloseWith, breaker,
           BreakerAssumption
  <2>4. ASSUME NEW c \in Calls, FailHard(c) PROVE ClosedBelowThreshold'
    BY <2>4 DEF ClosedBelowThreshold, FailHard
  <2>5. ASSUME NEW c \in Calls, FailTransient(c) PROVE ClosedBelowThreshold'
    <3>1. timestamps' \in Seq(Ages)
      BY <2>5, AppendedFacts, BreakerAssumption DEF BreakerTypeOK, FailTransient
    <3>2. Len(timestamps') \in Nat
      BY <3>1, LenProperties
    <3> QED BY <2>5, <3>2, BreakerAssumption
            DEF ClosedBelowThreshold, FailTransient, OpenCircuit, BreakerAssumption
  <2>6. CASE Tick
    <3>1. Len(timestamps) \in Nat
      BY LenProperties DEF BreakerTypeOK
    <3>2. Len(timestamps') = Len(timestamps)
      BY <2>6, <3>1 DEF Tick
    <3> QED BY <2>6, <3>2 DEF ClosedBelowThreshold, Tick
  <2>7. CASE Weather
    BY <2>7 DEF ClosedBelowThreshold, Weather, breaker
  <2>8. CASE UNCHANGED breakerVars
    BY <2>8 DEF ClosedBelowThreshold, breakerVars, breaker
  <2> QED BY <2>1, <2>2, <2>3, <2>4, <2>5, <2>6, <2>7, <2>8 DEF BreakerNext
<1> QED BY <1>1, <1>2, BreakerTypeCorrect, PTL DEF BreakerSpec

=============================================================================
