----------------------------- MODULE ThreadPool -----------------------------
(***************************************************************************)
(* ThreadPool of btor/httplib.h: worker threads that wait on a condition   *)
(* variable for jobs, and an owner that hands jobs over and shuts the pool *)
(* down.  What a thread does while it holds mutex_ is one step; between    *)
(* two steps any other thread may run.                                     *)
(***************************************************************************)
EXTENDS Integers, Sequences

CONSTANTS Workers, Jobs, NoJob

ASSUME PoolAssumption == Workers # {} /\ NoJob \notin Jobs

VARIABLES
    jobs_, shutdown_,
    owner,      \* the owner: "open", or where it is in shutdown()
    pc,         \* where each worker is
    fn,         \* the job it has taken
    submitted, started, finished    \* history

pool == <<jobs_, shutdown_, owner, pc, fn, submitted, started, finished>>

PoolInit ==
    /\ jobs_ = <<>> /\ shutdown_ = FALSE /\ owner = "open"
    /\ pc = [w \in Workers |-> "check"]
    /\ fn = [w \in Workers |-> NoJob]
    /\ submitted = {} /\ started = {} /\ finished = {}

\* cond_.notify_one() and notify_all(): a waiting thread looks again.
NotifyOne ==
    \/ \E w \in Workers :
        pc[w] = "waiting" /\ pc' = [pc EXCEPT ![w] = "check"]
    \/ (\A w \in Workers : pc[w] # "waiting") /\ UNCHANGED pc

NotifyAll ==
    pc' = [w \in Workers |-> IF pc[w] = "waiting" THEN "check" ELSE pc[w]]

\* Mutant of enqueue: nobody is notified.
enqueueSilently(j) ==
    /\ owner = "open" /\ j \notin submitted
    /\ jobs_' = Append(jobs_, j)
    /\ submitted' = submitted \cup {j}
    /\ UNCHANGED <<pc, shutdown_, owner, fn, started, finished>>

enqueue(j) ==
    /\ owner = "open" /\ j \notin submitted
    /\ jobs_' = Append(jobs_, j)
    /\ NotifyOne
    /\ submitted' = submitted \cup {j}
    /\ UNCHANGED <<shutdown_, owner, fn, started, finished>>

\* shutdown(): the flag, the notification, the join.
shutdown ==
    /\ owner = "open"
    /\ shutdown_' = TRUE /\ owner' = "notify"
    /\ UNCHANGED <<jobs_, pc, fn, submitted, started, finished>>

ShutdownNotify ==
    /\ owner = "notify"
    /\ NotifyAll /\ owner' = "join"
    /\ UNCHANGED <<jobs_, shutdown_, fn, submitted, started, finished>>

ShutdownJoin ==
    /\ owner = "join"
    /\ \A w \in Workers : pc[w] = "exited"
    /\ owner' = "joined"
    /\ UNCHANGED <<jobs_, shutdown_, pc, fn, submitted, started, finished>>
-----------------------------------------------------------------------------
\* A worker evaluates the predicate of cond_.wait and finds nothing to do.
WorkerWait(w) ==
    /\ pc[w] = "check" /\ jobs_ = <<>> /\ ~shutdown_
    /\ pc' = [pc EXCEPT ![w] = "waiting"]
    /\ UNCHANGED <<jobs_, shutdown_, owner, fn, submitted, started, finished>>

\* Mutant of WorkerExit: shutdown ends a worker at once.
WorkerExitEarly(w) ==
    /\ pc[w] = "check" /\ shutdown_
    /\ pc' = [pc EXCEPT ![w] = "exited"]
    /\ UNCHANGED <<jobs_, shutdown_, owner, fn, submitted, started, finished>>

WorkerExit(w) ==
    /\ pc[w] = "check" /\ jobs_ = <<>> /\ shutdown_
    /\ pc' = [pc EXCEPT ![w] = "exited"]
    /\ UNCHANGED <<jobs_, shutdown_, owner, fn, submitted, started, finished>>

WorkerTake(w) ==
    /\ pc[w] = "check" /\ jobs_ # <<>>
    /\ fn' = [fn EXCEPT ![w] = Head(jobs_)]
    /\ jobs_' = Tail(jobs_)
    /\ started' = started \cup {Head(jobs_)}
    /\ pc' = [pc EXCEPT ![w] = "run"]
    /\ UNCHANGED <<shutdown_, owner, submitted, finished>>

\* fn() returns.
WorkerRun(w) ==
    /\ pc[w] = "run"
    /\ finished' = finished \cup {fn[w]}
    /\ fn' = [fn EXCEPT ![w] = NoJob]
    /\ pc' = [pc EXCEPT ![w] = "check"]
    /\ UNCHANGED <<jobs_, shutdown_, owner, submitted, started>>

\* The standard lets a wait return without a notification.
SpuriousWakeUp(w) ==
    /\ pc[w] = "waiting"
    /\ pc' = [pc EXCEPT ![w] = "check"]
    /\ UNCHANGED <<jobs_, shutdown_, owner, fn, submitted, started, finished>>

Worker(w) == WorkerWait(w) \/ WorkerExit(w) \/ WorkerTake(w) \/ WorkerRun(w)

PoolNext ==
    \/ \E j \in Jobs : enqueue(j)
    \/ shutdown \/ ShutdownNotify \/ ShutdownJoin
    \/ \E w \in Workers : Worker(w) \/ SpuriousWakeUp(w)

\* The threads run, jobs return (process_and_close_socket has timeouts), and
\* an owner that has begun to shut down goes on.
PoolFairness ==
    /\ \A w \in Workers : WF_pool(Worker(w))
    /\ WF_pool(ShutdownNotify) /\ WF_pool(ShutdownJoin)

PoolSpec == PoolInit /\ [][PoolNext]_pool /\ PoolFairness
-----------------------------------------------------------------------------
Queued == {jobs_[i] : i \in DOMAIN jobs_}

PoolTypeOK ==
    /\ jobs_ \in Seq(Jobs)
    /\ shutdown_ \in BOOLEAN
    /\ owner \in {"open", "notify", "join", "joined"}
    /\ shutdown_ = (owner # "open")
    /\ pc \in [Workers -> {"check", "waiting", "run", "exited"}]
    /\ fn \in [Workers -> Jobs \cup {NoJob}]
    /\ submitted \subseteq Jobs /\ started \subseteq Jobs
    /\ finished \subseteq Jobs

\* No wake-up is lost: while there is a job in the queue some worker is awake
\* and will look into it, and after the notification of shutdown nobody sleeps
\* on.  (A worker that was notified and found the queue empty went back to
\* sleep under the mutex.)
NoLostWakeUp ==
    /\ jobs_ # <<>> => \E w \in Workers : pc[w] \in {"check", "run"}
    /\ owner \in {"join", "joined"} => \A w \in Workers : pc[w] # "waiting"

\* A job is in one place: in the queue once, or taken by one worker, or
\* finished.
JobsInv ==
    /\ \A i, k \in DOMAIN jobs_ : jobs_[i] = jobs_[k] => i = k
    /\ Queued = submitted \ started
    /\ finished \subseteq started /\ started \subseteq submitted
    /\ \A w \in Workers : (fn[w] # NoJob) <=> (pc[w] = "run")
    /\ \A w \in Workers : fn[w] # NoJob => fn[w] \in started \ finished
    /\ \A v, w \in Workers : fn[v] = fn[w] /\ fn[v] # NoJob => v = w
    /\ \A j \in started \ finished : \E w \in Workers : fn[w] = j
    /\ \A w \in Workers : pc[w] = "exited" => jobs_ = <<>> /\ shutdown_
    /\ owner = "joined" => \A w \in Workers : pc[w] = "exited"

\* shutdown() returns when every job that was ever handed over is done.
JoinedDone == owner = "joined" => finished = submitted

\* The pool implements TaskQueue.
Queue == INSTANCE TaskQueue WITH closed <- (owner = "joined")
ImplementsTaskQueue == Queue!Spec
=============================================================================
