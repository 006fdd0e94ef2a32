-------------------------- MODULE HttpServerProofs --------------------------
(***************************************************************************)
(* Theorems about ThreadPool and HttpServer, for any number of workers,    *)
(* jobs, socket numbers and threads that stop the server.                  *)
(*                                                                         *)
(* The pool: no job is lost, done twice or slept over, and the pool        *)
(* implements TaskQueue.  Every step of the server is a step of its pool   *)
(* or none, so that what is shown of the pool holds of the server's.  The  *)
(* rest is the ownership of the socket numbers: who may close which, at    *)
(* every place of the accept loop.                                         *)
(***************************************************************************)
EXTENDS HttpServer, SequenceTheorems, TLAPS

USE PoolAssumption, ServerAssumption DEF PoolAssumption, ServerAssumption

PoolInv == PoolTypeOK /\ JobsInv /\ NoLostWakeUp

\* The tail of a queue without repetitions has the other elements, once each.
LEMMA TailElements ==
  ASSUME NEW s \in Seq(Jobs), s # <<>>,
         \A i, k \in DOMAIN s : s[i] = s[k] => i = k
  PROVE  /\ Head(s) \in Jobs /\ Head(s) = s[1] /\ 1 \in DOMAIN s
         /\ Tail(s) \in Seq(Jobs)
         /\ {Tail(s)[i] : i \in DOMAIN Tail(s)}
                = {s[i] : i \in DOMAIN s} \ {Head(s)}
         /\ \A i, k \in DOMAIN Tail(s) : Tail(s)[i] = Tail(s)[k] => i = k
<1>1. /\ Head(s) = s[1] /\ Head(s) \in Jobs /\ Tail(s) \in Seq(Jobs)
      /\ Len(Tail(s)) = Len(s) - 1
      /\ \A i \in 1..Len(Tail(s)) : Tail(s)[i] = s[i + 1]
      /\ Len(s) \in Nat \ {0} /\ DOMAIN s = 1..Len(s)
      /\ DOMAIN Tail(s) = 1..Len(Tail(s))
  BY HeadTailProperties, EmptySeq
<1>2. ASSUME NEW i \in DOMAIN s, s[i] # Head(s)
      PROVE  i - 1 \in DOMAIN Tail(s) /\ Tail(s)[i - 1] = s[i]
  BY <1>1, <1>2
<1>3. ASSUME NEW i \in DOMAIN Tail(s)
      PROVE  i + 1 \in DOMAIN s /\ Tail(s)[i] = s[i + 1] /\ s[i + 1] # Head(s)
  BY <1>1
<1>4. {Tail(s)[i] : i \in DOMAIN Tail(s)} = {s[i] : i \in DOMAIN s} \ {Head(s)}
  <2>1. ASSUME NEW x \in {Tail(s)[i] : i \in DOMAIN Tail(s)}
        PROVE  x \in {s[i] : i \in DOMAIN s} \ {Head(s)}
    <3>1. PICK i \in DOMAIN Tail(s) : x = Tail(s)[i]
      OBVIOUS
    <3> QED
      BY <1>3, <3>1
  <2>2. ASSUME NEW x \in {s[i] : i \in DOMAIN s}, x # Head(s)
        PROVE  x \in {Tail(s)[i] : i \in DOMAIN Tail(s)}
    <3>1. PICK i \in DOMAIN s : x = s[i]
      OBVIOUS
    <3>2. i - 1 \in DOMAIN Tail(s) /\ Tail(s)[i - 1] = x
      BY <1>2, <2>2, <3>1
    <3> QED
      BY <3>2
  <2> QED
    BY <2>1, <2>2
<1>5. 1 \in DOMAIN s
  BY <1>1
<1>6. \A i, k \in DOMAIN Tail(s) : Tail(s)[i] = Tail(s)[k] => i = k
  <2> SUFFICES ASSUME NEW i \in DOMAIN Tail(s), NEW k \in DOMAIN Tail(s),
                      Tail(s)[i] = Tail(s)[k]
               PROVE  i = k
    OBVIOUS
  <2>1. i + 1 = k + 1
    BY <1>3
  <2> QED
    BY <1>1, <2>1
<1> QED
  BY <1>1, <1>4, <1>5, <1>6

\* Appending a new job.
LEMMA AppendElements ==
  ASSUME NEW s \in Seq(Jobs), NEW j \in Jobs,
         \A i, k \in DOMAIN s : s[i] = s[k] => i = k,
         \A i \in DOMAIN s : s[i] # j
  PROVE  /\ Append(s, j) \in Seq(Jobs)
         /\ {Append(s, j)[i] : i \in DOMAIN Append(s, j)}
                = {s[i] : i \in DOMAIN s} \cup {j}
         /\ \A i, k \in DOMAIN Append(s, j) :
                Append(s, j)[i] = Append(s, j)[k] => i = k
<1>1. /\ Append(s, j) \in Seq(Jobs)
      /\ DOMAIN s = 1..Len(s) /\ Len(s) \in Nat
      /\ DOMAIN Append(s, j) = 1..(Len(s) + 1)
      /\ \A i \in 1..Len(s) : Append(s, j)[i] = s[i]
      /\ Append(s, j)[Len(s) + 1] = j
  BY AppendProperties
<1>2. {Append(s, j)[i] : i \in DOMAIN Append(s, j)}
        = {s[i] : i \in DOMAIN s} \cup {j}
  <2>1. ASSUME NEW i \in DOMAIN Append(s, j)
        PROVE  Append(s, j)[i] \in {s[k] : k \in DOMAIN s} \cup {j}
    BY <1>1
  <2>2. ASSUME NEW i \in DOMAIN s
        PROVE  i \in DOMAIN Append(s, j) /\ Append(s, j)[i] = s[i]
    BY <1>1
  <2>3. Len(s) + 1 \in DOMAIN Append(s, j)
    BY <1>1
  <2> QED
    BY <1>1, <2>1, <2>2, <2>3
<1>3. \A i, k \in DOMAIN Append(s, j) :
        Append(s, j)[i] = Append(s, j)[k] => i = k
  BY <1>1
<1> QED
  BY <1>1, <1>2, <1>3

\* Every step keeps the invariant.
LEMMA PoolStep == PoolInv /\ [PoolNext]_pool => PoolInv'
<1> SUFFICES ASSUME PoolTypeOK, JobsInv, NoLostWakeUp, [PoolNext]_pool
             PROVE  PoolTypeOK' /\ JobsInv' /\ NoLostWakeUp'
  BY DEF PoolInv
<1>1. ASSUME NEW j \in Jobs, enqueue(j)
      PROVE  PoolTypeOK' /\ JobsInv' /\ NoLostWakeUp'
  <2>1. \A i \in DOMAIN jobs_ : jobs_[i] # j
    BY <1>1 DEF enqueue, JobsInv, Queued
  <2>2. /\ jobs_' \in Seq(Jobs) /\ Queued' = Queued \cup {j}
        /\ \A i, k \in DOMAIN jobs_' : jobs_'[i] = jobs_'[k] => i = k
    BY <1>1, <2>1, AppendElements DEF enqueue, PoolTypeOK, JobsInv, Queued
  <2>3. /\ pc' \in [Workers -> {"check", "waiting", "run", "exited"}]
        /\ \A w \in Workers : pc'[w] = "run" <=> pc[w] = "run"
        /\ \A w \in Workers : pc'[w] # "exited"
        /\ \E w \in Workers : pc'[w] \in {"check", "run"}
    <3>1. \A w \in Workers : pc[w] # "exited"
      BY <1>1 DEF enqueue, PoolTypeOK, JobsInv
    <3> QED
      BY <1>1, <3>1 DEF enqueue, NotifyOne, PoolTypeOK
  <2>4. PoolTypeOK'
    BY <1>1, <2>2, <2>3 DEF enqueue, PoolTypeOK
  <2>5. JobsInv'
    <3>1. Queued' = submitted' \ started' /\ started' \subseteq submitted'
          /\ finished' \subseteq started'
      BY <1>1, <2>2 DEF enqueue, JobsInv
    <3>2. owner' # "joined"
      BY <1>1 DEF enqueue
    <3>3. /\ fn' = fn /\ started' = started /\ finished' = finished
      BY <1>1 DEF enqueue
    <3>4. /\ \A w \in Workers : (fn'[w] # NoJob) <=> (pc'[w] = "run")
          /\ \A w \in Workers : fn'[w] # NoJob => fn'[w] \in started' \ finished'
          /\ \A v, w \in Workers : fn'[v] = fn'[w] /\ fn'[v] # NoJob => v = w
          /\ \A k \in started' \ finished' : \E w \in Workers : fn'[w] = k
      BY <2>3, <3>3 DEF JobsInv
    <3> QED
      BY <2>2, <2>3, <3>1, <3>2, <3>4 DEF JobsInv
  <2>6. NoLostWakeUp'
    BY <1>1, <2>3 DEF enqueue, NoLostWakeUp
  <2> QED
    BY <2>4, <2>5, <2>6
<1>2. CASE shutdown
  <2>1. /\ jobs_' = jobs_ /\ Queued' = Queued /\ fn' = fn /\ pc' = pc
        /\ submitted' = submitted /\ started' = started
        /\ finished' = finished /\ shutdown_' = TRUE /\ owner' = "notify"
    BY <1>2 DEF shutdown, Queued
  <2>2. PoolTypeOK'
    BY <2>1 DEF PoolTypeOK
  <2>3. JobsInv'
    BY <2>1 DEF JobsInv
  <2>4. NoLostWakeUp'
    BY <2>1 DEF NoLostWakeUp
  <2> QED
    BY <2>2, <2>3, <2>4
<1>3. CASE ShutdownNotify
  <2>1. /\ pc' \in [Workers -> {"check", "waiting", "run", "exited"}]
        /\ \A w \in Workers : /\ pc'[w] # "waiting"
                              /\ pc'[w] = "run" <=> pc[w] = "run"
                              /\ pc'[w] = "exited" <=> pc[w] = "exited"
                              /\ pc[w] = "check" => pc'[w] = "check"
    BY <1>3 DEF ShutdownNotify, NotifyAll, PoolTypeOK
  <2>2. PoolTypeOK' /\ NoLostWakeUp'
    BY <1>3, <2>1 DEF ShutdownNotify, PoolTypeOK, NoLostWakeUp
  <2>3. /\ jobs_' = jobs_ /\ Queued' = Queued /\ fn' = fn /\ owner' = "join"
        /\ submitted' = submitted /\ started' = started
        /\ finished' = finished /\ shutdown_' = shutdown_
    BY <1>3 DEF ShutdownNotify, Queued
  <2>4. JobsInv'
    BY <2>1, <2>3 DEF JobsInv
  <2> QED
    BY <2>2, <2>4
<1>4. CASE ShutdownJoin
  BY <1>4 DEF ShutdownJoin, PoolTypeOK, JobsInv, NoLostWakeUp, Queued
<1>5. ASSUME NEW w \in Workers, WorkerWait(w)
      PROVE  PoolTypeOK' /\ JobsInv' /\ NoLostWakeUp'
  <2>1. /\ jobs_' = jobs_ /\ Queued' = Queued /\ fn' = fn /\ owner' = owner
        /\ submitted' = submitted /\ started' = started
        /\ finished' = finished /\ shutdown_' = shutdown_
    BY <1>5 DEF WorkerWait, Queued
  <2>2. /\ pc' \in [Workers -> {"check", "waiting", "run", "exited"}]
        /\ \A v \in Workers : pc'[v] = (IF v = w THEN "waiting" ELSE pc[v])
    BY <1>5 DEF WorkerWait, PoolTypeOK
  <2>3. PoolTypeOK'
    BY <2>1, <2>2 DEF PoolTypeOK
  <2>4. JobsInv'
    <3>1. fn[w] = NoJob
      BY <1>5 DEF WorkerWait, JobsInv
    <3>2. \A v \in Workers : (fn'[v] # NoJob) <=> (pc'[v] = "run")
      BY <2>1, <2>2, <3>1 DEF JobsInv
    <3>3. /\ \A v \in Workers : pc'[v] = "exited" => jobs_' = <<>> /\ shutdown_'
          /\ owner' = "joined" => \A v \in Workers : pc'[v] = "exited"
      BY <1>5, <2>1, <2>2 DEF WorkerWait, JobsInv
    <3> QED
      BY <2>1, <3>2, <3>3 DEF JobsInv
  <2>5. NoLostWakeUp'
    BY <1>5, <2>1, <2>2 DEF WorkerWait, NoLostWakeUp, JobsInv, PoolTypeOK
  <2> QED
    BY <2>3, <2>4, <2>5
<1>6. ASSUME NEW w \in Workers, WorkerExit(w)
      PROVE  PoolTypeOK' /\ JobsInv' /\ NoLostWakeUp'
  <2>1. /\ jobs_' = jobs_ /\ Queued' = Queued /\ fn' = fn /\ owner' = owner
        /\ submitted' = submitted /\ started' = started
        /\ finished' = finished /\ shutdown_' = shutdown_
    BY <1>6 DEF WorkerExit, Queued
  <2>2. /\ pc' \in [Workers -> {"check", "waiting", "run", "exited"}]
        /\ \A v \in Workers : pc'[v] = (IF v = w THEN "exited" ELSE pc[v])
    BY <1>6 DEF WorkerExit, PoolTypeOK
  <2>3. PoolTypeOK'
    BY <2>1, <2>2 DEF PoolTypeOK
  <2>4. JobsInv'
    <3>1. fn[w] = NoJob
      BY <1>6 DEF WorkerExit, JobsInv
    <3>2. \A v \in Workers : (fn'[v] # NoJob) <=> (pc'[v] = "run")
      BY <2>1, <2>2, <3>1 DEF JobsInv
    <3>3. /\ \A v \in Workers : pc'[v] = "exited" => jobs_' = <<>> /\ shutdown_'
          /\ owner' = "joined" => \A v \in Workers : pc'[v] = "exited"
      BY <1>6, <2>1, <2>2 DEF WorkerExit, JobsInv
    <3> QED
      BY <2>1, <3>2, <3>3 DEF JobsInv
  <2>5. NoLostWakeUp'
    BY <1>6, <2>1, <2>2 DEF WorkerExit, NoLostWakeUp, JobsInv, PoolTypeOK
  <2> QED
    BY <2>3, <2>4, <2>5
<1>7. ASSUME NEW w \in Workers, WorkerTake(w)
      PROVE  PoolTypeOK' /\ JobsInv' /\ NoLostWakeUp'
  <2> DEFINE j == Head(jobs_)
  <2>1. /\ j \in Jobs /\ j \in Queued /\ jobs_' \in Seq(Jobs)
        /\ Queued' = Queued \ {j}
        /\ \A i, k \in DOMAIN jobs_' : jobs_'[i] = jobs_'[k] => i = k
    <3>1. /\ jobs_ \in Seq(Jobs) /\ jobs_ # <<>>
          /\ \A i, k \in DOMAIN jobs_ : jobs_[i] = jobs_[k] => i = k
          /\ jobs_' = Tail(jobs_)
      BY <1>7 DEF WorkerTake, PoolTypeOK, JobsInv
    <3>2. /\ j \in Jobs /\ j = jobs_[1] /\ 1 \in DOMAIN jobs_
          /\ Tail(jobs_) \in Seq(Jobs)
          /\ {Tail(jobs_)[i] : i \in DOMAIN Tail(jobs_)}
                 = {jobs_[i] : i \in DOMAIN jobs_} \ {j}
          /\ \A i, k \in DOMAIN Tail(jobs_) :
                 Tail(jobs_)[i] = Tail(jobs_)[k] => i = k
      BY <3>1, TailElements
    <3> QED
      BY <3>1, <3>2 DEF Queued
  <2>2. j \in submitted /\ j \notin started
    BY <2>1 DEF JobsInv
  <2>3. PoolTypeOK' /\ NoLostWakeUp'
    BY <1>7, <2>1 DEF WorkerTake, PoolTypeOK, NoLostWakeUp
  <2>4. /\ Queued' = submitted' \ started' /\ started' \subseteq submitted'
        /\ finished' \subseteq started'
    BY <1>7, <2>1, <2>2 DEF WorkerTake, JobsInv
  <2>5. \A v \in Workers : v # w => fn[v] # j
    BY <2>1, <2>2 DEF JobsInv
  <2>6. /\ \A v \in Workers : fn'[v] = (IF v = w THEN j ELSE fn[v])
        /\ \A v \in Workers : pc'[v] = (IF v = w THEN "run" ELSE pc[v])
    BY <1>7 DEF WorkerTake, PoolTypeOK
  <2>7. /\ \A v \in Workers : (fn'[v] # NoJob) <=> (pc'[v] = "run")
        /\ \A v \in Workers : fn'[v] # NoJob => fn'[v] \in started' \ finished'
    BY <1>7, <2>1, <2>2, <2>6 DEF WorkerTake, JobsInv
  <2>8. \A u, v \in Workers : fn'[u] = fn'[v] /\ fn'[u] # NoJob => u = v
    BY <2>5, <2>6 DEF JobsInv
  <2>9. \A k \in started' \ finished' : \E v \in Workers : fn'[v] = k
    <3> SUFFICES ASSUME NEW k \in started' \ finished'
                 PROVE  \E v \in Workers : fn'[v] = k
      OBVIOUS
    <3>1. CASE k = j
      BY <2>6, <3>1
    <3>2. CASE k # j
      <4>1. PICK v \in Workers : fn[v] = k
        BY <1>7, <3>2 DEF WorkerTake, JobsInv
      <4>2. v # w
        <5>1. fn[w] = NoJob
          BY <1>7 DEF WorkerTake, JobsInv
        <5>2. k \in Jobs
          BY <2>1, <1>7 DEF WorkerTake, PoolTypeOK
        <5> QED
          BY <4>1, <5>1, <5>2
      <4> QED
        BY <2>6, <4>1, <4>2
    <3> QED
      BY <3>1, <3>2
  <2>10. /\ \A v \in Workers : pc'[v] # "exited"
         /\ owner' # "joined"
    BY <1>7, <2>6 DEF WorkerTake, JobsInv
  <2>11. JobsInv'
    BY <2>1, <2>4, <2>7, <2>8, <2>9, <2>10 DEF JobsInv
  <2> QED
    BY <2>3, <2>11
<1>8. ASSUME NEW w \in Workers, WorkerRun(w)
      PROVE  PoolTypeOK' /\ JobsInv' /\ NoLostWakeUp'
  <2>1. fn[w] # NoJob /\ fn[w] \in started \ finished
    BY <1>8 DEF WorkerRun, JobsInv
  <2>2. PoolTypeOK' /\ NoLostWakeUp'
    BY <1>8, <2>1 DEF WorkerRun, PoolTypeOK, NoLostWakeUp
  <2>3. /\ \A v \in Workers : fn'[v] = (IF v = w THEN NoJob ELSE fn[v])
        /\ \A v \in Workers : pc'[v] = (IF v = w THEN "check" ELSE pc[v])
    BY <1>8 DEF WorkerRun, PoolTypeOK
  <2>4. \A k \in started' \ finished' : \E v \in Workers : fn'[v] = k
    BY <1>8, <2>3 DEF WorkerRun, JobsInv
  <2>5. /\ \A v \in Workers : (fn'[v] # NoJob) <=> (pc'[v] = "run")
        /\ \A v \in Workers : fn'[v] # NoJob => fn'[v] \in started' \ finished'
        /\ \A u, v \in Workers : fn'[u] = fn'[v] /\ fn'[u] # NoJob => u = v
    BY <1>8, <2>3 DEF WorkerRun, JobsInv
  <2>6. Queued' = Queued
    BY <1>8 DEF WorkerRun, Queued
  <2>7. JobsInv'
    BY <1>8, <2>1, <2>3, <2>4, <2>5, <2>6 DEF WorkerRun, JobsInv
  <2> QED
    BY <2>2, <2>7
<1>9. ASSUME NEW w \in Workers, SpuriousWakeUp(w)
      PROVE  PoolTypeOK' /\ JobsInv' /\ NoLostWakeUp'
  <2>1. /\ jobs_' = jobs_ /\ Queued' = Queued /\ fn' = fn /\ owner' = owner
        /\ submitted' = submitted /\ started' = started
        /\ finished' = finished /\ shutdown_' = shutdown_
    BY <1>9 DEF SpuriousWakeUp, Queued
  <2>2. /\ pc' \in [Workers -> {"check", "waiting", "run", "exited"}]
        /\ \A v \in Workers : pc'[v] = (IF v = w THEN "check" ELSE pc[v])
    BY <1>9 DEF SpuriousWakeUp, PoolTypeOK
  <2>3. PoolTypeOK'
    BY <2>1, <2>2 DEF PoolTypeOK
  <2>4. JobsInv'
    <3>1. fn[w] = NoJob
      BY <1>9 DEF SpuriousWakeUp, JobsInv
    <3>2. \A v \in Workers : (fn'[v] # NoJob) <=> (pc'[v] = "run")
      BY <2>1, <2>2, <3>1 DEF JobsInv
    <3>3. /\ \A v \in Workers : pc'[v] = "exited" => jobs_' = <<>> /\ shutdown_'
          /\ owner' = "joined" => \A v \in Workers : pc'[v] = "exited"
      BY <1>9, <2>1, <2>2 DEF SpuriousWakeUp, JobsInv
    <3> QED
      BY <2>1, <3>2, <3>3 DEF JobsInv
  <2>5. NoLostWakeUp'
    BY <1>9, <2>1, <2>2 DEF SpuriousWakeUp, NoLostWakeUp, JobsInv, PoolTypeOK
  <2> QED
    BY <2>3, <2>4, <2>5
<1>10. CASE UNCHANGED pool
  BY <1>10 DEF pool, PoolTypeOK, JobsInv, NoLostWakeUp, Queued
<1> QED
  BY <1>1, <1>2, <1>3, <1>4, <1>5, <1>6, <1>7, <1>8, <1>9, <1>10
     DEF PoolNext, Worker

\* The workers look for jobs, and there is none.
LEMMA PoolInitInv == PoolInit => PoolInv
<1> SUFFICES ASSUME PoolInit PROVE PoolInv
  OBVIOUS
<1>1. jobs_ \in Seq(Jobs) /\ DOMAIN jobs_ = {}
  BY EmptySeq DEF PoolInit
<1> QED
  BY <1>1 DEF PoolInit, PoolInv, PoolTypeOK, JobsInv, NoLostWakeUp, Queued

\* In every state no wake-up is lost, and each job is in one place.
THEOREM PoolInvariance == PoolSpec => [](PoolTypeOK /\ JobsInv /\ NoLostWakeUp)
<1>1. PoolInv => PoolTypeOK /\ JobsInv /\ NoLostWakeUp
  BY DEF PoolInv
<1> QED
  BY PoolInitInv, PoolStep, <1>1, PTL DEF PoolSpec

\* When all workers have exited there is no job left.
LEMMA AllExited ==
  ASSUME PoolInv, \A w \in Workers : pc[w] = "exited"
  PROVE  started = submitted /\ finished = submitted
<1>1. jobs_ = <<>>
  BY DEF PoolInv, JobsInv
<1>2. Queued = {}
  BY <1>1, EmptySeq DEF Queued
<1>3. \A w \in Workers : fn[w] = NoJob
  BY DEF PoolInv, JobsInv
<1>4. started \ finished = {}
  BY <1>3 DEF PoolInv, JobsInv, PoolTypeOK
<1> QED
  BY <1>2, <1>4 DEF PoolInv, JobsInv

\* shutdown() returns with every job done.
THEOREM PoolDrained == PoolSpec => []JoinedDone
<1>1. PoolInv => JoinedDone
  BY AllExited DEF PoolInv, JobsInv, JoinedDone
<1> QED
  BY PoolInitInv, PoolStep, <1>1, PTL DEF PoolSpec

\* Every step of the pool is a step of TaskQueue or none.
LEMMA PoolRefines == PoolInv /\ [PoolNext]_pool => [Queue!Next]_(Queue!vars)
<1> SUFFICES ASSUME PoolInv, [PoolNext]_pool PROVE [Queue!Next]_(Queue!vars)
  OBVIOUS
<1> USE DEF Queue!vars
<1>1. ASSUME NEW j \in Jobs, enqueue(j) PROVE Queue!Next
  BY <1>1 DEF enqueue, Queue!Next, Queue!Submit
<1>2. CASE shutdown \/ ShutdownNotify
  BY <1>2 DEF shutdown, ShutdownNotify
<1>3. CASE ShutdownJoin
  BY <1>3, AllExited DEF ShutdownJoin, Queue!Next, Queue!Close
<1>4. ASSUME NEW w \in Workers, WorkerTake(w) PROVE Queue!Next
  <2>1. Head(jobs_) \in Queued /\ Head(jobs_) \in Jobs
    BY <1>4, TailElements DEF WorkerTake, PoolInv, PoolTypeOK, JobsInv, Queued
  <2>2. owner # "joined"
    BY <1>4 DEF WorkerTake, PoolInv, JobsInv
  <2> QED
    BY <1>4, <2>1, <2>2
       DEF WorkerTake, PoolInv, JobsInv, Queue!Next, Queue!Start
<1>5. ASSUME NEW w \in Workers,
             WorkerWait(w) \/ WorkerExit(w) \/ WorkerRun(w) \/ SpuriousWakeUp(w)
      PROVE  UNCHANGED Queue!vars
  BY <1>5 DEF WorkerWait, WorkerExit, WorkerRun, SpuriousWakeUp
<1>6. CASE UNCHANGED pool
  BY <1>6 DEF pool
<1> QED
  BY <1>1, <1>2, <1>3, <1>4, <1>5, <1>6 DEF PoolNext, Worker

\* The pool implements TaskQueue: a job that is handed over is started once,
\* and shutdown() returns when all of them were.
THEOREM PoolIsTaskQueue == PoolSpec => ImplementsTaskQueue
<1>1. PoolInit => Queue!Init
  BY DEF PoolInit, Queue!Init
<1> QED
  BY <1>1, PoolInitInv, PoolStep, PoolRefines, PTL
     DEF PoolSpec, ImplementsTaskQueue, Queue!Spec
-----------------------------------------------------------------------------
Socks == Fds \cup {INVALID_SOCKET}

Opened == {Closed, Listening, Other} \cup Jobs

ServerTypeOK ==
    /\ svr_sock_ \in Socks /\ arg \in Socks /\ other \in Socks
    /\ is_running_ \in BOOLEAN /\ broken \in BOOLEAN
    /\ listener \in {"bind", "bound", "unbound", "loop", "select", "accept",
                     "failed", "closing", "shutdown", "done"}
    /\ fds \in [Fds -> Opened]
    /\ sock \in [Jobs -> Socks]
    /\ backlog \subseteq Jobs
    /\ stopper \in [Stoppers ->
                       {"ready", "ignored", "exchange", "close", "stopped"}]
    /\ stopSock \in [Stoppers -> Socks]
    /\ addresses \in 0..MaxAddresses
    /\ count \in [Jobs -> 0..keep_alive_max_count_]
    /\ ended \in [Jobs -> BOOLEAN]

\* Where the listener is says what has happened to the server.
ListenerInv ==
    /\ listener \in {"bind", "bound", "unbound"} =>
           ~is_running_ /\ \A t \in Stoppers : stopper[t] \in {"ready", "ignored"}
    /\ listener = "bind" => svr_sock_ = INVALID_SOCKET
    /\ listener \in {"accept", "closing"} /\ svr_sock_ # INVALID_SOCKET =>
           arg = svr_sock_
    /\ owner # "open" => listener \in {"shutdown", "done"}
    /\ listener = "done" => owner = "joined"
    /\ broken => listener \in {"failed", "closing", "shutdown", "done"}
    /\ listener \in {"failed", "closing"} => broken

\* The number that stop() of t has taken and will close.
Holds(t) == stopper[t] = "close" /\ stopSock[t] # INVALID_SOCKET

\* The socket that listens belongs to svr_sock_ or to one stop().
ListeningInv ==
    /\ \A f \in Fds : fds[f] = Listening =>
           f = svr_sock_ \/ \E t \in Stoppers : Holds(t) /\ stopSock[t] = f
    /\ listener \in {"shutdown", "done"} /\ svr_sock_ # INVALID_SOCKET =>
           fds[svr_sock_] # Listening
    /\ ~broken =>
           /\ svr_sock_ # INVALID_SOCKET => fds[svr_sock_] = Listening
           /\ \A t \in Stoppers : Holds(t) =>
                  /\ fds[stopSock[t]] = Listening /\ svr_sock_ = INVALID_SOCKET
                  /\ \A u \in Stoppers : Holds(u) => u = t

\* A number that is open for a connection is the one it was accepted with.
ConnectionsInv ==
    /\ \A f \in Fds : fds[f] \in Jobs => Active(fds[f]) /\ sock[fds[f]] = f
    /\ ~broken =>
           /\ \A c \in Jobs : Active(c) => sock[c] \in Fds /\ fds[sock[c]] = c
           /\ other # INVALID_SOCKET => fds[other] = Other

ServerInv ==
    /\ ServerTypeOK /\ ListenerInv /\ ListeningInv /\ ConnectionsInv
-----------------------------------------------------------------------------
\* The pool takes part in every step of the server as it would on its own.
LEMMA ServerSimulatesPool == ServerTypeOK /\ [Next]_vars => [PoolNext]_pool
<1> SUFFICES ASSUME ServerTypeOK, [Next]_vars PROVE [PoolNext]_pool
  OBVIOUS
<1>1. CASE Listener
  <2>1. CASE Accept
    <3>1. PICK c \in backlog : enqueue(c)
      BY <2>1 DEF Accept
    <3> QED
      BY <3>1 DEF ServerTypeOK, PoolNext
  <2>2. CASE QueueShutdown
    BY <2>2 DEF QueueShutdown, PoolNext
  <2>3. ASSUME Listener, ~Accept, ~QueueShutdown PROVE UNCHANGED pool
    BY <2>3 DEF Listener, CreateSocket, PortUnknown, Listen, LoopTest, SelectRead,
       AcceptLater, AcceptError, LoadFailed, CloseFailed, ListenReturns
  <2> QED
    BY <1>1, <2>1, <2>2, <2>3
<1>2. ASSUME NEW t \in Stoppers, StopStep(t) PROVE UNCHANGED pool
  BY <1>2 DEF StopStep, Stop, StopExchange, StopClose
<1>3. ASSUME NEW w \in Workers, ServerWorker(w) \/ PoolSpurious(w)
      PROVE  [PoolNext]_pool
  BY <1>3 DEF ServerWorker, PoolWorker, Serve, CloseConnection, PoolSpurious,
     PoolNext, Worker
<1>4. CASE (\E c \in Jobs : Arrive(c)) \/ OpenOther \/ CloseOther
  BY <1>4 DEF Arrive, OpenOther, CloseOther
<1>5. CASE UNCHANGED vars
  BY <1>5 DEF vars
<1> QED
  BY <1>1, <1>2, <1>3, <1>4, <1>5 DEF Next

\* A server that does not listen yet has a pool that waits.
LEMMA ServerInitInv == Init => PoolInv /\ ServerInv
<1> SUFFICES ASSUME Init PROVE PoolInv /\ ServerInv
  OBVIOUS
<1>1. PoolInv
  BY PoolInitInv DEF Init
<1>2. keep_alive_max_count_ \in 0..keep_alive_max_count_ /\ MaxAddresses \in 0..MaxAddresses
  OBVIOUS
<1>3. ServerTypeOK
  BY <1>2 DEF Init, ServerTypeOK, Socks, Opened
<1>4. ListenerInv
  BY DEF Init, PoolInit, ListenerInv
<1>5. ListeningInv
  BY DEF Init, ListeningInv, Holds, Closed, Listening
<1>6. ConnectionsInv
  BY DEF Init, PoolInit, ConnectionsInv, Active, Opened
<1> QED
  BY <1>1, <1>3, <1>4, <1>5, <1>6 DEF ServerInv

\* Every step keeps the invariant.
LEMMA ServerStep == PoolInv /\ PoolInv' /\ ServerInv /\ [Next]_vars => ServerInv'
<1> SUFFICES ASSUME PoolInv, PoolInv', ServerInv, [Next]_vars PROVE ServerInv'
  OBVIOUS
<1> USE DEF PoolInv, ServerInv, ServerTypeOK, ListenerInv, ListeningInv,
            ConnectionsInv, Socks, Opened, Holds, Active, At, StopAt, CloseFd,
            server, connections, stops, pool, Closed, Listening, Other
<1>1. CASE CreateSocket
  BY <1>1 DEF CreateSocket
<1>2. CASE PortUnknown
  BY <1>2 DEF PortUnknown
<1>3. CASE Listen
  BY <1>3 DEF Listen
<1>4. CASE LoopTest
  BY <1>4 DEF LoopTest
<1>5. CASE SelectRead
  BY <1>5 DEF SelectRead
<1>6. CASE Accept
  <2>1. PICK c \in backlog, f \in Fds :
           /\ fds[f] = Closed /\ fds' = [fds EXCEPT ![f] = c]
           /\ sock' = [sock EXCEPT ![c] = f] /\ backlog' = backlog \ {c}
           /\ owner = "open" /\ c \notin submitted
           /\ submitted' = submitted \cup {c} /\ UNCHANGED <<owner, finished>>
    BY <1>6 DEF Accept, enqueue
  <2>2. c \in Jobs /\ c \notin finished
    BY <2>1 DEF JobsInv
  <2>3. ServerTypeOK'
    BY <1>6, <2>1, <2>2 DEF Accept
  <2>4. ListenerInv'
    BY <1>6, <2>1 DEF Accept
  <2>5. ListeningInv'
    BY <1>6, <2>1, <2>2 DEF Accept
  <2>6. ConnectionsInv'
    BY <1>6, <2>1, <2>2 DEF Accept
  <2> QED
    BY <2>3, <2>4, <2>5, <2>6
<1>7. CASE AcceptLater
  BY <1>7 DEF AcceptLater
<1>8. CASE AcceptError
  <2>1. ServerTypeOK'
    BY <1>8 DEF AcceptError
  <2>2. ListenerInv'
    BY <1>8 DEF AcceptError
  <2>3. ListeningInv'
    BY <1>8 DEF AcceptError
  <2>4. ConnectionsInv'
    BY <1>8 DEF AcceptError
  <2> QED
    BY <2>1, <2>2, <2>3, <2>4
<1>9. CASE LoadFailed
  BY <1>9 DEF LoadFailed
<1>10. CASE CloseFailed
  BY <1>10 DEF CloseFailed
<1>11. CASE QueueShutdown
  <2>1. owner' # "open" /\ UNCHANGED <<submitted, finished>>
    BY <1>11 DEF QueueShutdown, shutdown, ShutdownNotify, ShutdownJoin
  <2> QED
    BY <1>11, <2>1 DEF QueueShutdown
<1>12. CASE ListenReturns
  <2>1. ServerTypeOK'
    BY <1>12 DEF ListenReturns
  <2> QED
    BY <1>12, <2>1 DEF ListenReturns
<1>13. CASE OpenOther
  BY <1>13 DEF OpenOther
<1>14. CASE CloseOther
  BY <1>14 DEF CloseOther
<1>15. ASSUME NEW t \in Stoppers, Stop(t) PROVE ServerInv'
  BY <1>15 DEF Stop
<1>16. ASSUME NEW t \in Stoppers, StopExchange(t) PROVE ServerInv'
  BY <1>16 DEF StopExchange
<1>17. ASSUME NEW t \in Stoppers, StopClose(t) PROVE ServerInv'
  BY <1>17 DEF StopClose
<1>18. ASSUME NEW c \in Jobs, Arrive(c) PROVE ServerInv'
  BY <1>18 DEF Arrive
<1>19. ASSUME NEW w \in Workers, Serve(w) PROVE ServerInv'
  <2>1. fn[w] \in Jobs
    BY <1>19 DEF Serve, JobsInv, PoolTypeOK
  <2>2. ended' \in [Jobs -> BOOLEAN]
    <3>1. PICK over \in BOOLEAN : ended' = [ended EXCEPT ![fn[w]] = over]
      BY <1>19 DEF Serve
    <3> QED
      BY <2>1, <3>1
  <2>3. count' \in [Jobs -> 0..keep_alive_max_count_]
    <3>1. \/ count' = count
          \/ count[fn[w]] > 0 /\ count' = [count EXCEPT ![fn[w]] = @ - 1]
      BY <1>19 DEF Serve
    <3>2. count[fn[w]] \in 0..keep_alive_max_count_
      BY <2>1
    <3>3. count[fn[w]] > 0 => count[fn[w]] - 1 \in 0..keep_alive_max_count_
      BY <3>2
    <3> HIDE ServerAssumption DEF ServerAssumption
    <3> QED
      BY <2>1, <3>1, <3>3
  <2>4. UNCHANGED <<pool, server, fds, backlog, sock, stops, other>>
    BY <1>19 DEF Serve
  <2> QED
    BY <2>2, <2>3, <2>4
<1>20. ASSUME NEW w \in Workers, CloseConnection(w) PROVE ServerInv'
  <2>1. Active(fn[w]) /\ fn[w] \in Jobs
    BY <1>20 DEF CloseConnection, JobsInv, PoolTypeOK
  <2>2. /\ finished' = finished \cup {fn[w]} /\ UNCHANGED <<owner, submitted>>
        /\ UNCHANGED <<server, connections, stops, other>>
        /\ fds' = [g \in Fds |-> IF g = sock[fn[w]] THEN Closed ELSE fds[g]]
    BY <1>20 DEF CloseConnection, WorkerRun
  <2> QED
    BY <2>1, <2>2
<1>21. ASSUME NEW w \in Workers, PoolWorker(w) PROVE ServerInv'
  <2>1. UNCHANGED <<owner, submitted, finished>>
    BY <1>21 DEF PoolWorker, WorkerWait, WorkerExit, WorkerTake
  <2> QED
    BY <1>21, <2>1 DEF PoolWorker
<1>22. ASSUME NEW w \in Workers, PoolSpurious(w) PROVE ServerInv'
  <2>1. UNCHANGED <<owner, submitted, finished>>
    BY <1>22 DEF PoolSpurious, SpuriousWakeUp
  <2> QED
    BY <1>22, <2>1 DEF PoolSpurious
<1>23. CASE UNCHANGED vars
  BY <1>23 DEF vars
<1> QED
  BY <1>1, <1>2, <1>3, <1>4, <1>5, <1>6, <1>7, <1>8, <1>9, <1>10, <1>11, <1>12,
     <1>13, <1>14, <1>15, <1>16, <1>17, <1>18, <1>19, <1>20, <1>21, <1>22, <1>23
     DEF Next, Listener, StopStep, ServerWorker

\* In every state the pool and the server are as the invariants say.
THEOREM ServerInvariance == Spec => [](PoolInv /\ ServerInv)
<1>1. PoolInv /\ ServerInv /\ [Next]_vars => (PoolInv /\ ServerInv)'
  BY ServerSimulatesPool, PoolStep, ServerStep DEF ServerInv
<1> QED
  BY ServerInitInv, <1>1, PTL DEF Spec

\* A connection that is served and a socket of other code keep their numbers,
\* whichever threads stop the server and whenever they do.
THEOREM ServerKeepsSockets == Spec => []SocketsKept
<1>1. ServerInv => SocketsKept
  BY DEF ServerInv, ConnectionsInv, SocketsKept
<1> QED
  BY ServerInvariance, <1>1, PTL

\* listen() returns with every connection served and closed, and without a
\* socket that listens.
THEOREM ServerReturnsClean == Spec => []ReturnedClean
<1>1. PoolInv /\ ServerInv => ReturnedClean
  <2> SUFFICES ASSUME PoolInv, ServerInv, listener = "done" PROVE ReturnedClean
    BY DEF ReturnedClean
  <2>1. finished = submitted
    BY AllExited DEF PoolInv, JobsInv, ServerInv, ListenerInv
  <2>2. \A f \in Fds : fds[f] \notin Jobs
    BY <2>1 DEF ServerInv, ConnectionsInv, Active
  <2>3. (\A t \in Stoppers : stopper[t] # "close") =>
            \A f \in Fds : fds[f] # Listening
    BY DEF ServerInv, ServerTypeOK, Socks, ListeningInv, Holds
  <2> QED
    BY <2>1, <2>2, <2>3 DEF ReturnedClean
<1> QED
  BY ServerInvariance, <1>1, PTL

\* The workers of the server sleep over no connection.
THEOREM ServerLosesNoWakeUp == Spec => []NoLostWakeUp
<1>1. PoolInv => NoLostWakeUp
  BY DEF PoolInv
<1> QED
  BY ServerInvariance, <1>1, PTL

\* The server uses its pool as a TaskQueue: each accepted connection is served
\* once, and the queue closes with none left.
THEOREM ServerIsTaskQueue == Spec => ImplementsTaskQueue
<1>1. Init => Queue!Init
  BY DEF Init, PoolInit, Queue!Init
<1>2. PoolInv /\ ServerInv /\ [Next]_vars => [Queue!Next]_(Queue!vars)
  BY ServerSimulatesPool, PoolRefines DEF ServerInv
<1> QED
  BY <1>1, <1>2, ServerInvariance, PTL DEF Spec, ImplementsTaskQueue, Queue!Spec
=============================================================================
