------------------------------ MODULE CallThreads ------------------------------
(***************************************************************************)
(* The call thread pools of the FreeDCE runtime (ncklib/com/comcthd.c) and *)
(* the server's listen/stop control that starts and stops them             *)
(* (rpc_server_listen, rpc__server_stop_listening in ncklib/com/comnet.c). *)
(*                                                                         *)
(* Every operation of comcthd.c runs under cthread_mutex, so the code      *)
(* between two releases of that mutex is one action.  The mutex is         *)
(* released in three places only: while a call executes, while a call      *)
(* thread waits on its condition variable, and while cthread_pool_stop     *)
(* waits for a thread to exit.  A wait is modelled by its predicate: the   *)
(* signals are sent under the mutex by whoever makes the predicate true.   *)
(*                                                                         *)
(* A pool's ctbl is the array <<p, 1>> .. <<p, n_threads>>; an index 0     *)
(* stands for a NULL cthread pointer.  An assert() that fails ends the     *)
(* process: `aborted' names it and nothing happens afterwards.             *)
(***************************************************************************)
EXTENDS Naturals, Sequences, FiniteSets

CONSTANTS
  Calls,            \* call reps the protocol modules hand over
  DefaultPool,      \* cthread_default_pool
  ReservedPools,    \* pools created by rpc_server_create_thread_pool
  NoPool,           \* a NULL pool handle or qelt
  NoCall,           \* a NULL call rep
  MaxThreads,       \* bound: threads in one pool
  ThreadCounts,     \* thread counts asked for by rpc_server_listen
  PoolThreadCounts, \* ... and by rpc_server_create_thread_pool
  QueueMultiplier,  \* RPC_C_CTHREAD_QUEUE_MULTIPLIER (8 in the code)
  QueueSizes,       \* queue lengths an application asks for
  CounterMod,       \* modulus of the unsigned n_queued (2^32 in the code)
  MaxListens,       \* bound: calls of rpc_server_listen
  MaxStops,         \* bound: how many of those are told to stop
  MaxFrees,         \* bound: calls of rpc_server_free_thread_pool
  MaxFaults         \* bound: failed thread creations and allocations

Pools == {DefaultPool} \cup ReservedPools
Thread == Pools \X (1..MaxThreads)

ASSUME PoolAssumption == DefaultPool \notin ReservedPools /\ NoPool \notin Pools
ASSUME CallAssumption == NoCall \notin Calls
ASSUME BoundAssumption ==
  /\ MaxThreads \in Nat \ {0}
  /\ ThreadCounts \subseteq 0..MaxThreads
  /\ PoolThreadCounts \subseteq 1..MaxThreads
  /\ QueueMultiplier \in Nat
  /\ QueueSizes \subseteq Nat
  /\ CounterMod \in Nat \ {0}
  /\ MaxListens \in Nat /\ MaxStops \in Nat /\ MaxFrees \in Nat /\ MaxFaults \in Nat

VARIABLES
  \* the fields of each pool's cthread_pool_elt_t
  n_threads, n_idle, idle_cthread, ctbl, n_queued, max_queued,
  call_queue, free_queue, stop,
  where,     \* which list holds each pool's descriptor
  reserved,  \* cthread_reserved_pools, in list order
  \* the fields of each call thread's cthread_elt_t, where the thread is and
  \* the call it is executing
  thread_state, call_rep, pc, run,
  \* the cthread part of each call rep, and the call's history
  is_queued, qelt, phase,
  own,       \* history: the pool an accepted call is for, until it is run
  cthread_invoke_enabled,
  default_qsize,     \* cthread_default_call_queue_size, 0 if never set
  in_server_listen,
  listen,    \* where the thread in rpc_server_listen is
  stop_at,   \* the pool it is waiting for
  aborted,   \* the assert() that ended the process
  listens, frees, faults     \* counters of the bounded operations

sizeVars == <<n_threads, max_queued>>
stopVars == <<ctbl, stop>>
idleVars == <<n_idle, idle_cthread>>
queueVars == <<n_queued, call_queue, free_queue>>
listVars == <<where, reserved, cthread_invoke_enabled, default_qsize>>
threadVars == <<thread_state, call_rep, pc, run>>
callVars == <<is_queued, qelt, phase, own>>
listenVars == <<in_server_listen, listen, stop_at>>
bounds == <<listens, frees, faults>>
vars == <<sizeVars, stopVars, idleVars, queueVars, listVars, threadVars,
          callVars, listenVars, aborted, bounds>>

-----------------------------------------------------------------------------
(* States *)

\* "none" not allocated, "listed" public, "cleaning" a failed start waits for
\* its threads, "draining" a free waits, "reaper" on cthread_reaper_queue.
PoolPlace == {"none", "listed", "cleaning", "draining", "reaper", "freed"}

\* "none" no such thread, "created" before it first takes the mutex,
\* "waiting" on its condition variable, "running" a call.
ThreadPlace == {"none", "created", "waiting", "running"}

Phase == {"new", "rejected", "accepted", "running", "done", "dequeued"}

(* The variables hold the values the C declarations allow; the queues hold *)
(* call reps and the counters stay natural (n_idle never drops below 0).   *)
TypeOK ==
  /\ n_threads \in [Pools -> 0..MaxThreads] /\ max_queued \in [Pools -> Nat]
  /\ ctbl \in [Pools -> BOOLEAN] /\ stop \in [Pools -> BOOLEAN]
  /\ n_idle \in [Pools -> Nat] /\ idle_cthread \in [Pools -> 0..MaxThreads]
  /\ n_queued \in [Pools -> Nat] /\ free_queue \in [Pools -> Nat]
  /\ call_queue \in [Pools -> Seq(Calls)]
  /\ where \in [Pools -> PoolPlace] /\ reserved \in Seq(ReservedPools)
  /\ cthread_invoke_enabled \in BOOLEAN /\ default_qsize \in Nat
  /\ thread_state \in [Thread -> {"NO", "IDLE", "ACTIVE"}]
  /\ pc \in [Thread -> ThreadPlace]
  /\ call_rep \in [Thread -> Calls \cup {NoCall}]
  /\ run \in [Thread -> Calls \cup {NoCall}]
  /\ is_queued \in [Calls -> BOOLEAN] /\ phase \in [Calls -> Phase]
  /\ qelt \in [Calls -> ReservedPools \cup {NoPool}]
  /\ own \in [Calls -> Pools \cup {NoPool}]
  /\ in_server_listen \in BOOLEAN
  /\ listen \in {"idle", "waiting", "signalled", "stopping", "cleanup"}
  /\ stop_at \in Pools \cup {NoPool}
  /\ aborted \in {"no", "idle_assert", "qelt_assert"}
  /\ listens \in Nat /\ frees \in Nat /\ faults \in Nat

\* A pool's fields start as cthread_pool_alloc sets them; it is allocated once.
Init ==
  /\ n_threads = [p \in Pools |-> 0] /\ max_queued = [p \in Pools |-> 0]
  /\ ctbl = [p \in Pools |-> FALSE] /\ stop = [p \in Pools |-> FALSE]
  /\ n_idle = [p \in Pools |-> 0] /\ idle_cthread = [p \in Pools |-> 0]
  /\ n_queued = [p \in Pools |-> 0] /\ free_queue = [p \in Pools |-> 0]
  /\ call_queue = [p \in Pools |-> <<>>]
  /\ where = [p \in Pools |-> "none"] /\ reserved = <<>>
  /\ cthread_invoke_enabled = FALSE /\ default_qsize = 0
  /\ thread_state = [t \in Thread |-> "NO"] /\ pc = [t \in Thread |-> "none"]
  /\ call_rep = [t \in Thread |-> NoCall] /\ run = [t \in Thread |-> NoCall]
  /\ is_queued = [c \in Calls |-> FALSE] /\ qelt = [c \in Calls |-> NoPool]
  /\ phase = [c \in Calls |-> "new"] /\ own = [c \in Calls |-> NoPool]
  /\ in_server_listen = FALSE /\ listen = "idle" /\ stop_at = NoPool
  /\ aborted = "no"
  /\ listens = 0 /\ frees = 0 /\ faults = 0

Ctbl(p) == {<<p, i>> : i \in 1..n_threads[p]}

\* Mutant: idle threads are not waited for.
NoneActive(p) == \A t \in Ctbl(p) : thread_state[t] # "ACTIVE"

AllExited(p) == \A t \in Ctbl(p) : thread_state[t] = "NO"

-----------------------------------------------------------------------------
(* The queues *)

\* RPC_LIST_REMOVE, as the set of lists it can leave.  It clears a list of at
\* most one element whatever element it is told to remove; on a longer list,
\* an element that is not on it relinks through stale pointers.
Without(q, i) == [k \in 1..(Len(q) - 1) |-> IF k < i THEN q[k] ELSE q[k + 1]]
Positions(q, e) == {i \in 1..Len(q) : q[i] = e}
ListRemove(q, e) ==
  IF Len(q) <= 1 THEN {<<>>}
  ELSE IF Positions(q, e) # {} THEN {Without(q, i) : i \in Positions(q, e)}
  ELSE {<<>>, q}

Decrement(n) == (n + CounterMod - 1) % CounterMod

\* Mutant: a call taken through the default pool stays on its reserved queue.
DequeueDefaultOnly(c) ==
  /\ \E dq \in ListRemove(call_queue[DefaultPool], c) :
       call_queue' = [call_queue EXCEPT ![DefaultPool] = dq]
  /\ UNCHANGED <<n_queued, free_queue>>

\* The list work of cthread_call_dequeue: c leaves the default pool's queue
\* and, if a queue element holds it, that element's pool's.
DequeueFromLists(c) ==
  \E dq \in ListRemove(call_queue[DefaultPool], c) :
    \/ /\ qelt[c] = NoPool
       /\ call_queue' = [call_queue EXCEPT ![DefaultPool] = dq]
       /\ n_queued' = [n_queued EXCEPT ![DefaultPool] = Decrement(@)]
       /\ UNCHANGED free_queue
    \/ /\ qelt[c] # NoPool
       /\ \E rq \in ListRemove(call_queue[qelt[c]], c) :
            call_queue' = [call_queue EXCEPT ![DefaultPool] = dq, ![qelt[c]] = rq]
       /\ n_queued' = [n_queued EXCEPT ![qelt[c]] = Decrement(@)]
       /\ free_queue' = [free_queue EXCEPT ![qelt[c]] = @ + 1]

\* Mutant: is_queued is not reset.
MarkStillQueued(c) ==
  /\ qelt' = [qelt EXCEPT ![c] = NoPool]
  /\ UNCHANGED is_queued

MarkDequeued(c) ==
  /\ is_queued' = [is_queued EXCEPT ![c] = FALSE]
  /\ qelt' = [qelt EXCEPT ![c] = NoPool]

\* cthread_call_dequeue, for a call that is queued
cthread_call_dequeue(c) == DequeueFromLists(c) /\ MarkDequeued(c)

QueueFull(p) == n_queued[p] >= max_queued[p]

\* Every queued call is on the default pool's queue; a reserved pool's call is
\* on that pool's queue as well.
AddToQueues(p, c) ==
  [q \in Pools |-> IF q \in {p, DefaultPool} THEN Append(call_queue[q], c) ELSE call_queue[q]]

\* cthread_pool_queue_call, for a queue that is not full
cthread_pool_queue_call(p, c) ==
  /\ is_queued' = [is_queued EXCEPT ![c] = TRUE]
  /\ qelt' = [qelt EXCEPT ![c] = IF p = DefaultPool THEN NoPool ELSE p]
  /\ call_queue' = AddToQueues(p, c)
  /\ n_queued' = [n_queued EXCEPT ![p] = @ + 1]
  /\ free_queue' = [free_queue EXCEPT ![p] = IF p = DefaultPool THEN @ ELSE @ - 1]

-----------------------------------------------------------------------------
(* rpc__cthread_invoke_null: hand a call to a thread, or queue it *)

\* The pool an invocation works on: the lookup function answers NULL or a
\* reserved pool the application has created and not freed.
Lookup == {DefaultPool} \cup {p \in ReservedPools : where[p] = "listed" /\ ctbl[p]}

IdleInCtbl(p) == {i \in 1..n_threads[p] : thread_state[<<p, i>>] = "IDLE"}

\* CTHREAD_POOL_ASSIGN_THREAD takes the known idle thread, else the first idle
\* one of the table if the pool counts any, else it returns NULL.
CanAssign(p) == idle_cthread[p] # 0 \/ (n_idle[p] > 0 /\ IdleInCtbl(p) # {})
Assigns(p, i) ==
  IF idle_cthread[p] # 0 THEN i = idle_cthread[p]
  ELSE /\ n_idle[p] > 0 /\ i \in IdleInCtbl(p)
       /\ \A j \in IdleInCtbl(p) : i <= j

\* The pool whose thread takes a call for p: p itself, else the default pool.
AssignPool(p) == IF CanAssign(p) THEN p ELSE DefaultPool

\* Mutant: the thread taken is still published as idle.
TakeThreadStillIdle(p) ==
  /\ n_idle' = [n_idle EXCEPT ![p] = @ - 1]
  /\ UNCHANGED idle_cthread

TakeThread(p) ==
  /\ n_idle' = [n_idle EXCEPT ![p] = @ - 1]
  /\ idle_cthread' = [idle_cthread EXCEPT ![p] = 0]

MayInvoke(c) == phase[c] \in {"new", "rejected"}

\* An error status leaves the call with its caller, which may try again.
Refuse(c) ==
  /\ phase' = [phase EXCEPT ![c] = "rejected"]
  /\ UNCHANGED <<sizeVars, stopVars, idleVars, queueVars, listVars, threadVars,
                 is_queued, qelt, own, listenVars, aborted, bounds>>

\* rpc_s_cthread_invoke_disabled
InvokeDisabled(c) == MayInvoke(c) /\ ~cthread_invoke_enabled /\ Refuse(c)

\* The application's lookup function returned an error: rpc_s_cthread_not_found
InvokeLookupFailed(c) == MayInvoke(c) /\ cthread_invoke_enabled /\ Refuse(c)

\* No idle thread and no room in the queue: rpc_s_cthread_not_found
InvokeQueueFull(c) ==
  /\ MayInvoke(c) /\ cthread_invoke_enabled
  /\ \E p \in Lookup : ~CanAssign(AssignPool(p)) /\ QueueFull(p)
  /\ Refuse(c)

InvokeAssign(c) ==
  /\ MayInvoke(c) /\ cthread_invoke_enabled
  /\ \E p \in Lookup, i \in 1..MaxThreads :
       LET a == AssignPool(p)
       IN /\ Assigns(a, i)
          /\ thread_state[<<a, i>>] = "IDLE"
          /\ TakeThread(a)
          /\ thread_state' = [thread_state EXCEPT ![<<a, i>>] = "ACTIVE"]
          /\ call_rep' = [call_rep EXCEPT ![<<a, i>>] = c]
          /\ own' = [own EXCEPT ![c] = p]
  /\ is_queued' = [is_queued EXCEPT ![c] = FALSE]
  /\ phase' = [phase EXCEPT ![c] = "accepted"]
  /\ UNCHANGED <<sizeVars, stopVars, queueVars, listVars, pc, run, qelt,
                 listenVars, aborted, bounds>>

\* The process dies and nothing else changes.
Abort(assertion) ==
  /\ aborted' = assertion
  /\ UNCHANGED <<sizeVars, stopVars, idleVars, queueVars, listVars, threadVars,
                 callVars, listenVars, bounds>>

\* assert((*(ct))->thread_state == RPC_C_IDLE_CTHREAD) fails.
InvokeAssertIdle(c) ==
  /\ MayInvoke(c) /\ cthread_invoke_enabled
  /\ \E p \in Lookup, i \in 1..MaxThreads :
       LET a == AssignPool(p)
       IN Assigns(a, i) /\ thread_state[<<a, i>>] # "IDLE"
  /\ Abort("idle_assert")

InvokeQueue(c) ==
  /\ MayInvoke(c) /\ cthread_invoke_enabled
  /\ \E p \in Lookup :
       /\ ~CanAssign(AssignPool(p)) /\ ~QueueFull(p)
       /\ p # DefaultPool => free_queue[p] > 0
       /\ cthread_pool_queue_call(p, c)
       /\ own' = [own EXCEPT ![c] = p]
  /\ phase' = [phase EXCEPT ![c] = "accepted"]
  /\ UNCHANGED <<sizeVars, stopVars, idleVars, listVars, threadVars,
                 listenVars, aborted, bounds>>

\* assert (qelt != NULL) fails.
InvokeAssertQelt(c) ==
  /\ MayInvoke(c) /\ cthread_invoke_enabled
  /\ \E p \in Lookup \ {DefaultPool} :
       ~CanAssign(AssignPool(p)) /\ ~QueueFull(p) /\ free_queue[p] = 0
  /\ Abort("qelt_assert")

\* The protocol module gives up a call it handed over.  A call that is not
\* queued is left alone.
rpc__cthread_dequeue(c) ==
  /\ is_queued[c]
  /\ cthread_call_dequeue(c)
  /\ phase' = [phase EXCEPT ![c] = "dequeued"]
  /\ own' = [own EXCEPT ![c] = NoPool]
  /\ UNCHANGED <<sizeVars, stopVars, idleVars, listVars, threadVars,
                 listenVars, aborted, bounds>>

-----------------------------------------------------------------------------
(* cthread_call_executor *)

\* Mutant: the thread is published but not counted.
IdleThreadUncounted(p, i) ==
  /\ idle_cthread' = [idle_cthread EXCEPT ![p] = i]
  /\ UNCHANGED n_idle

\* CTHREAD_POOL_IDLE_THREAD
IdleThread(p, i) ==
  /\ n_idle' = [n_idle EXCEPT ![p] = @ + 1]
  /\ idle_cthread' = [idle_cthread EXCEPT ![p] = i]

ThreadExits(t) ==
  /\ thread_state' = [thread_state EXCEPT ![t] = "NO"]
  /\ pc' = [pc EXCEPT ![t] = "none"]
  /\ run' = [run EXCEPT ![t] = NoCall]

ThreadRuns(t, c) ==
  /\ pc' = [pc EXCEPT ![t] = "running"]
  /\ run' = [run EXCEPT ![t] = c]
  /\ own' = [own EXCEPT ![c] = NoPool]

\* Top of the loop: count the thread idle and publish it, then stop, run the
\* call assigned to it, or wait.  `st' is its thread_state at that point and
\* `ph' the calls' history with what the thread has just done.
GoIdle(p, i, st, ph) ==
  LET t == <<p, i>> IN
  /\ IdleThread(p, i)
  /\ \/ stop[p] /\ ThreadExits(t) /\ phase' = ph /\ UNCHANGED own
     \/ /\ ~stop[p] /\ st # "IDLE"
        /\ ThreadRuns(t, call_rep[t])
        /\ phase' = [ph EXCEPT ![call_rep[t]] = "running"]
        /\ UNCHANGED thread_state
     \/ /\ ~stop[p] /\ st = "IDLE"
        /\ thread_state' = [thread_state EXCEPT ![t] = "IDLE"]
        /\ pc' = [pc EXCEPT ![t] = "waiting"]
        /\ run' = [run EXCEPT ![t] = NoCall]
        /\ phase' = ph /\ UNCHANGED own
  /\ UNCHANGED <<queueVars, call_rep, is_queued, qelt>>

FirstQueued(p) == Head(call_queue[p])

\* cthread_pool_dequeue_first and the start of the call it returns.  The
\* thread's state is left as it is.
RunQueued(p, i, ph) ==
  LET t == <<p, i>>
      c == FirstQueued(p)
  IN /\ cthread_call_dequeue(c)
     /\ ThreadRuns(t, c)
     /\ call_rep' = [call_rep EXCEPT ![t] = c]
     /\ phase' = [ph EXCEPT ![c] = "running"]
     /\ UNCHANGED <<idleVars, thread_state>>

\* The new thread gets the mutex for the first time: it looks at the queue
\* before it looks at its own state.
ExecutorStart(p, i) ==
  /\ pc[<<p, i>>] = "created"
  /\ \/ call_queue[p] = <<>> /\ GoIdle(p, i, thread_state[<<p, i>>], phase)
     \/ call_queue[p] # <<>> /\ RunQueued(p, i, phase)
  /\ UNCHANGED <<sizeVars, stopVars, listVars, listenVars, aborted, bounds>>

\* Mutant: only an unassigned thread looks at the stop flag.
ExecutorExitIdle(p, i) ==
  /\ pc[<<p, i>>] = "waiting" /\ thread_state[<<p, i>>] = "IDLE"
  /\ stop[p]
  /\ ThreadExits(<<p, i>>)
  /\ UNCHANGED <<sizeVars, stopVars, idleVars, queueVars, listVars, call_rep,
                 callVars, listenVars, aborted, bounds>>

\* A waiting thread finds the pool stopping and exits ...
ExecutorExit(p, i) ==
  /\ pc[<<p, i>>] = "waiting"
  /\ stop[p]
  /\ ThreadExits(<<p, i>>)
  /\ UNCHANGED <<sizeVars, stopVars, idleVars, queueVars, listVars, call_rep,
                 callVars, listenVars, aborted, bounds>>

\* ... or finds a call assigned to it and runs it.
ExecutorWake(p, i) ==
  LET t == <<p, i>> IN
  /\ pc[t] = "waiting" /\ thread_state[t] # "IDLE" /\ ~stop[p]
  /\ ThreadRuns(t, call_rep[t])
  /\ phase' = [phase EXCEPT ![call_rep[t]] = "running"]
  /\ UNCHANGED <<sizeVars, stopVars, idleVars, queueVars, listVars, thread_state,
                 call_rep, is_queued, qelt, listenVars, aborted, bounds>>

\* Mutant: a thread that has finished does not look at the queue.
ExecutorFinishIdles(p, i) ==
  /\ pc[<<p, i>>] = "running"
  /\ GoIdle(p, i, "IDLE", [phase EXCEPT ![run[<<p, i>>]] = "done"])
  /\ UNCHANGED <<sizeVars, stopVars, listVars, listenVars, aborted, bounds>>

\* The protocol module's executor routine returns: take the pool's oldest
\* queued call, or become idle.
ExecutorFinish(p, i) ==
  LET ph == [phase EXCEPT ![run[<<p, i>>]] = "done"] IN
  /\ pc[<<p, i>>] = "running"
  /\ \/ call_queue[p] = <<>> /\ GoIdle(p, i, "IDLE", ph)
     \/ call_queue[p] # <<>> /\ RunQueued(p, i, ph)
  /\ UNCHANGED <<sizeVars, stopVars, listVars, listenVars, aborted, bounds>>

-----------------------------------------------------------------------------
(* Starting and stopping pools *)

\* f with the value v for the pools in S.
Set(f, S, v) == [p \in Pools |-> IF p \in S THEN v ELSE f[p]]

ListedPools == {DefaultPool} \cup {reserved[j] : j \in 1..Len(reserved)}

\* cthread_create: the first k[p] threads of pool p exist and have not taken
\* the mutex yet.
CreateThreads(k) ==
  /\ thread_state' = [t \in Thread |-> IF t[2] <= k[t[1]] THEN "IDLE" ELSE thread_state[t]]
  /\ pc' = [t \in Thread |-> IF t[2] <= k[t[1]] THEN "created" ELSE pc[t]]
  /\ UNCHANGED <<call_rep, run>>

\* cthread_pool_start, on pools with n[p] threads and queue limits maxq[p]: it
\* succeeds for those in S and fails for those in F, which it tells to stop;
\* the pools in R are those whose idle and queue fields it has come to reset.
StartPools(S, F, R, n, maxq) ==
  /\ n_threads' = n /\ max_queued' = maxq
  /\ ctbl' = Set(ctbl, S \cup F, TRUE)
  /\ stop' = [p \in Pools |-> p \in F \/ (p \notin S /\ stop[p])]
  /\ n_idle' = Set(n_idle, R, 0) /\ idle_cthread' = Set(idle_cthread, R, 0)
  /\ n_queued' = Set(n_queued, R, 0) /\ call_queue' = Set(call_queue, R, <<>>)
  /\ free_queue' = [p \in Pools |-> IF p \notin R THEN free_queue[p]
                                    ELSE IF p = DefaultPool THEN 0 ELSE maxq[p]]

\* The ways it can fail on pool p: no memory for the ctbl; thread k + 1 cannot
\* be created; no memory for a queue element.  `created' threads exist by then
\* and, if `wait', must exit before it returns.
FailedStarts(p, n, maxq) ==
  {[created |-> 0, wait |-> FALSE, reset |-> FALSE]}
  \cup {[created |-> k, wait |-> TRUE, reset |-> FALSE] : k \in 0..(n - 1)}
  \cup {f \in {[created |-> n, wait |-> TRUE, reset |-> TRUE]} : p # DefaultPool /\ maxq > 0}

\* cthread_pool_stop once it has waited for every thread, or cthread_pool_free
ReleasePools(S) ==
  /\ ctbl' = Set(ctbl, S, FALSE)
  /\ free_queue' = Set(free_queue, S, 0)

\* The end of a failed cthread_pool_start: its cthread_pool_stop returns.  If
\* rpc__cthread_start_all was starting p, rpc_server_listen returns its error
\* and leaves in_server_listen set.
StartCleanup(p) ==
  /\ where[p] = "cleaning" /\ AllExited(p)
  /\ ReleasePools({p})
  /\ where' = [where EXCEPT ![p] = "listed"]
  /\ \/ /\ stop_at = p /\ listen = "cleanup"
        /\ listen' = "idle" /\ stop_at' = NoPool
     \/ /\ ~(stop_at = p /\ listen = "cleanup")
        /\ UNCHANGED <<listen, stop_at>>
  /\ UNCHANGED <<sizeVars, stop, idleVars, n_queued, call_queue, reserved,
                 cthread_invoke_enabled, default_qsize, threadVars, callVars,
                 in_server_listen, aborted, bounds>>

\* rpc_server_listen gets past its checks: nobody else is listening.  No pool
\* is being started by another thread at that moment.
MayListen ==
  /\ listen = "idle" /\ ~in_server_listen /\ listens < MaxListens
  /\ \A p \in Pools : where[p] # "cleaning"

\* The thread counts and queue limits once cthread_pool_alloc or
\* cthread_pool_set_threadcnt has given the default pool n threads.
WithThreads(n) == [n_threads EXCEPT ![DefaultPool] = n]
WithLimit(n) ==
  [max_queued EXCEPT ![DefaultPool] =
     IF default_qsize = 0 THEN QueueMultiplier * n
     ELSE IF where[DefaultPool] = "none" THEN default_qsize ELSE @]

\* rpc_server_listen(0): rpc_s_max_calls_too_small.
ListenTooSmall ==
  /\ MayListen /\ 0 \in ThreadCounts
  /\ in_server_listen' = TRUE /\ listens' = listens + 1
  /\ UNCHANGED <<sizeVars, stopVars, idleVars, queueVars, listVars, threadVars,
                 callVars, listen, stop_at, aborted, frees, faults>>

\* rpc_server_listen(n): rpc__cthread_start_all starts the default pool and
\* then the reserved ones in list order, and enables invocations.
Listen(n) ==
  /\ MayListen /\ n > 0
  /\ StartPools(ListedPools, {}, ListedPools, WithThreads(n), WithLimit(n))
  /\ CreateThreads([p \in Pools |-> IF p \in ListedPools THEN WithThreads(n)[p] ELSE 0])
  /\ where' = [where EXCEPT ![DefaultPool] = "listed"]
  /\ cthread_invoke_enabled' = TRUE
  /\ in_server_listen' = TRUE /\ listens' = listens + 1
  /\ listen' = "waiting"
  /\ UNCHANGED <<reserved, default_qsize, callVars, stop_at, aborted, frees, faults>>

\* The j-th pool of the list cannot be started; those before it keep running.
ListenStartFails(n) ==
  /\ MayListen /\ n > 0 /\ faults < MaxFaults
  /\ \E j \in 1..(Len(reserved) + 1) :
       LET L == <<DefaultPool>> \o reserved
           p == L[j]
           S == {L[m] : m \in 1..(j - 1)}
       IN \E f \in FailedStarts(p, WithThreads(n)[p], WithLimit(n)[p]) :
            /\ StartPools(S, IF f.wait THEN {p} ELSE {}, IF f.reset THEN S \cup {p} ELSE S,
                          WithThreads(n), WithLimit(n))
            /\ CreateThreads([q \in Pools |-> IF q = p THEN f.created
                                ELSE IF q \in S THEN WithThreads(n)[q] ELSE 0])
            /\ where' = [Set(where, {DefaultPool}, "listed")
                           EXCEPT ![p] = IF f.wait THEN "cleaning" ELSE "listed"]
            /\ listen' = IF f.wait THEN "cleanup" ELSE "idle"
            /\ stop_at' = IF f.wait THEN p ELSE NoPool
  /\ in_server_listen' = TRUE
  /\ listens' = listens + 1 /\ faults' = faults + 1
  /\ UNCHANGED <<reserved, cthread_invoke_enabled, default_qsize, callVars,
                 aborted, frees>>

\* rpc__server_stop_listening: signal shutdown_cond.
rpc__server_stop_listening ==
  /\ in_server_listen /\ listen = "waiting" /\ listens <= MaxStops
  /\ listen' = "signalled"
  /\ UNCHANGED <<sizeVars, stopVars, idleVars, queueVars, listVars, threadVars,
                 callVars, in_server_listen, stop_at, aborted, bounds>>

\* rpc__cthread_stop_all tells every pool to stop ...
StopAll ==
  /\ listen = "signalled"
  /\ cthread_invoke_enabled' = FALSE
  /\ stop' = [p \in Pools |-> stop[p] \/ (p \in ListedPools /\ ctbl[p])]
  /\ listen' = "stopping" /\ stop_at' = DefaultPool
  /\ UNCHANGED <<sizeVars, ctbl, idleVars, queueVars, where, reserved,
                 default_qsize, threadVars, callVars, in_server_listen, aborted, bounds>>

\* ... and waits for them one after the other; then rpc_server_listen returns.
\* Management calls are serialized by the application: the listener does not
\* wait for a pool that a failed rpc_server_create_thread_pool is cleaning up.
StopAllWait ==
  /\ listen = "stopping"
  /\ where[stop_at] # "cleaning"
  /\ ctbl[stop_at] => AllExited(stop_at)
  /\ ReleasePools({p \in {stop_at} : ctbl[p]})
  /\ \E j \in 1..(Len(reserved) + 1) :
       /\ (<<DefaultPool>> \o reserved)[j] = stop_at
       /\ \/ /\ j <= Len(reserved)
             /\ stop_at' = reserved[j]
             /\ UNCHANGED <<listen, in_server_listen>>
          \/ /\ j = Len(reserved) + 1
             /\ stop_at' = NoPool
             /\ listen' = "idle" /\ in_server_listen' = FALSE
  /\ UNCHANGED <<sizeVars, stop, idleVars, n_queued, call_queue, listVars,
                 threadVars, callVars, aborted, bounds>>

-----------------------------------------------------------------------------
(* Reserved pools *)

\* rpc_server_create_thread_pool allocates p and makes it public.  A pool made
\* while the server listens is started at once, otherwise the next
\* rpc_server_listen starts it.
Publish(p) == where[p] = "none" /\ reserved' = Append(reserved, p)
SizeOf(p, n) == [n_threads EXCEPT ![p] = n]
LimitOf(p, n) == [max_queued EXCEPT ![p] = QueueMultiplier * n]

CreatePool(p, n) ==
  /\ Publish(p)
  /\ where' = [where EXCEPT ![p] = "listed"]
  /\ \/ /\ cthread_invoke_enabled
        /\ StartPools({p}, {}, {p}, SizeOf(p, n), LimitOf(p, n))
        /\ CreateThreads([q \in Pools |-> IF q = p THEN n ELSE 0])
     \/ /\ ~cthread_invoke_enabled
        /\ n_threads' = SizeOf(p, n) /\ max_queued' = LimitOf(p, n)
        /\ UNCHANGED <<stopVars, idleVars, queueVars, threadVars>>
  /\ UNCHANGED <<cthread_invoke_enabled, default_qsize, callVars, listenVars,
                 aborted, bounds>>

CreatePoolStartFails(p, n) ==
  /\ Publish(p) /\ cthread_invoke_enabled /\ faults < MaxFaults
  /\ \E f \in FailedStarts(p, n, QueueMultiplier * n) :
       /\ StartPools({}, IF f.wait THEN {p} ELSE {}, IF f.reset THEN {p} ELSE {},
                     SizeOf(p, n), LimitOf(p, n))
       /\ CreateThreads([q \in Pools |-> IF q = p THEN f.created ELSE 0])
       /\ where' = [where EXCEPT ![p] = IF f.wait THEN "cleaning" ELSE "listed"]
  /\ faults' = faults + 1
  /\ UNCHANGED <<cthread_invoke_enabled, default_qsize, callVars, listenVars,
                 aborted, listens, frees>>

\* rpc_server_free_thread_pool: a pool with threads waits for them to exit,
\* in the caller or on the reaper's queue.  The application does not free a
\* pool while rpc_server_listen is starting or stopping the pools.
FreePool(p, wait_flag) ==
  /\ where[p] = "listed" /\ frees < MaxFrees
  /\ listen \in {"idle", "waiting"}
  /\ reserved' \in ListRemove(reserved, p)
  /\ \/ /\ ctbl[p]
        /\ stop' = [stop EXCEPT ![p] = TRUE]
        /\ where' = [where EXCEPT ![p] = IF wait_flag THEN "draining" ELSE "reaper"]
        /\ UNCHANGED <<ctbl, free_queue>>
     \/ /\ ~ctbl[p]
        /\ ReleasePools({p})
        /\ where' = [where EXCEPT ![p] = "freed"]
        /\ UNCHANGED stop
  /\ frees' = frees + 1
  /\ UNCHANGED <<sizeVars, idleVars, n_queued, call_queue, cthread_invoke_enabled,
                 default_qsize, threadVars, callVars, listenVars, aborted, listens, faults>>

FreePools(S) ==
  /\ ReleasePools(S)
  /\ where' = Set(where, S, "freed")
  /\ UNCHANGED <<sizeVars, stop, idleVars, n_queued, call_queue, reserved,
                 cthread_invoke_enabled, default_qsize, threadVars, callVars,
                 listenVars, aborted, bounds>>

\* The wait inside rpc_server_free_thread_pool ends: cthread_pool_free.
FreePoolDone(p) == where[p] = "draining" /\ AllExited(p) /\ FreePools({p})

\* cthread_reaper, a periodic timer, frees the pools on its queue that are idle.
Reapable == {p \in ReservedPools : where[p] = "reaper" /\ AllExited(p)}
cthread_reaper == Reapable # {} /\ FreePools(Reapable)

\* rpc_server_set_thread_pool_qlen(NULL, q)
SetDefaultQlen(q) ==
  /\ default_qsize' = q
  /\ max_queued' = IF where[DefaultPool] = "none" THEN max_queued
                   ELSE [max_queued EXCEPT ![DefaultPool] = q]
  /\ UNCHANGED <<n_threads, stopVars, idleVars, queueVars, where, reserved,
                 cthread_invoke_enabled, threadVars, callVars, listenVars,
                 aborted, bounds>>

\* A pool's queue grows to m elements.
GrowQueue(p, m) ==
  /\ free_queue' = [free_queue EXCEPT ![p] = @ + (m - max_queued[p])]
  /\ max_queued' = [max_queued EXCEPT ![p] = m]

\* rpc_server_set_thread_pool_qlen(p, q): a pool with no free queue element is
\* taken for one that is not started; the queue of any other only grows.
SetQlen(p, q) ==
  /\ where[p] = "listed"
  /\ \/ /\ free_queue[p] = 0
        /\ max_queued' = [max_queued EXCEPT ![p] = q]
        /\ UNCHANGED free_queue
     \/ /\ free_queue[p] # 0 /\ q > max_queued[p]
        /\ GrowQueue(p, q)
  /\ UNCHANGED <<n_threads, stopVars, idleVars, n_queued, call_queue, listVars,
                 threadVars, callVars, listenVars, aborted, bounds>>

\* It runs out of memory after growing the queue to m elements.
SetQlenFails(p, q) ==
  /\ where[p] = "listed" /\ faults < MaxFaults
  /\ free_queue[p] # 0
  /\ \E m \in max_queued[p]..(q - 1) : GrowQueue(p, m)
  /\ faults' = faults + 1
  /\ UNCHANGED <<n_threads, stopVars, idleVars, n_queued, call_queue, listVars,
                 threadVars, callVars, listenVars, aborted, listens, frees>>

-----------------------------------------------------------------------------
Invoke(c) ==
  \/ InvokeDisabled(c) \/ InvokeLookupFailed(c) \/ InvokeQueueFull(c)
  \/ InvokeAssign(c) \/ InvokeAssertIdle(c)
  \/ InvokeQueue(c) \/ InvokeAssertQelt(c)

Executor(p, i) ==
  \/ ExecutorStart(p, i) \/ ExecutorExit(p, i)
  \/ ExecutorWake(p, i) \/ ExecutorFinish(p, i)

Management ==
  \/ ListenTooSmall
  \/ \E n \in ThreadCounts : Listen(n) \/ ListenStartFails(n)
  \/ rpc__server_stop_listening \/ StopAll \/ StopAllWait
  \/ \E p \in ReservedPools, n \in PoolThreadCounts :
       CreatePool(p, n) \/ CreatePoolStartFails(p, n)
  \/ \E p \in ReservedPools, w \in BOOLEAN : FreePool(p, w)
  \/ \E p \in ReservedPools : FreePoolDone(p)
  \/ \E p \in Pools : StartCleanup(p)
  \/ cthread_reaper
  \/ \E q \in QueueSizes : SetDefaultQlen(q)
  \/ \E p \in ReservedPools, q \in QueueSizes : SetQlen(p, q) \/ SetQlenFails(p, q)

Next ==
  /\ aborted = "no"
  /\ \/ \E c \in Calls : Invoke(c) \/ rpc__cthread_dequeue(c)
     \/ \E p \in Pools, i \in 1..MaxThreads : Executor(p, i)
     \/ Management

Spec == Init /\ [][Next]_vars

\* Call threads are scheduled, the manager routines they run return, the
\* reaper's timer keeps firing, and the threads blocked in rpc_server_listen
\* and rpc_server_free_thread_pool run when what they wait for has happened.
Fairness ==
  /\ \A p \in Pools : \A i \in 1..MaxThreads :
       WF_vars(aborted = "no" /\ Executor(p, i))
  /\ WF_vars(aborted = "no" /\ (StopAll \/ StopAllWait))
  /\ WF_vars(aborted = "no" /\ cthread_reaper)
  /\ \A p \in Pools : WF_vars(aborted = "no" /\ (FreePoolDone(p) \/ StartCleanup(p)))

FairSpec == Spec /\ Fairness

-----------------------------------------------------------------------------
(* Properties *)

IsQueuedFor(c, p) ==
  is_queued[c] /\ qelt[c] = (IF p = DefaultPool THEN NoPool ELSE p)

\* A thread was given c and has not begun it.
AssignedTo(c, t) ==
  /\ pc[t] \in {"created", "waiting"}
  /\ thread_state[t] = "ACTIVE"
  /\ call_rep[t] = c

(* The two lists a queued call is on agree, however queueing, running and   *)
(* dequeueing interleave with stopping and freeing pools: the default pool's *)
(* queue holds exactly the calls marked is_queued, once each; a reserved     *)
(* pool's queue is the same calls in the same order, restricted to that      *)
(* pool; and n_queued counts the pool's own calls.                           *)
QueuesAgree ==
  LET dq == call_queue[DefaultPool] IN
  /\ \A i, j \in 1..Len(dq) : dq[i] = dq[j] => i = j
  /\ \A c \in Calls : is_queued[c] <=> \E i \in 1..Len(dq) : dq[i] = c
  /\ \A p \in ReservedPools :
       /\ call_queue[p] = SelectSeq(dq, LAMBDA c : qelt[c] = p)
       /\ n_queued[p] = Len(call_queue[p])
  /\ n_queued[DefaultPool] = Cardinality({c \in Calls : IsQueuedFor(c, DefaultPool)})

(* In pools of any size that are not being stopped, the thread published in  *)
(* idle_cthread waits for a call, and n_idle counts no more threads than do. *)
(* One cause alone is excepted, which makes the assert at comcthd.c:239 fail *)
(* (NoIdleAssert) as soon as there are three threads: a thread that was      *)
(* given a call before it first had the mutex publishes itself              *)
(* (comcthd.c:1423) although it goes on to run that call.                    *)
IdleUnlessAssignedEarly ==
  \A p \in Pools : ctbl[p] /\ ~stop[p] =>
    LET Waiting == {i \in 1..MaxThreads : /\ pc[<<p, i>>] = "waiting"
                                          /\ thread_state[<<p, i>>] = "IDLE"}
        Early(t) == pc[t] = "running" /\ thread_state[t] = "ACTIVE" /\ run[t] = call_rep[t]
    IN /\ n_idle[p] <= Cardinality(Waiting)
       /\ idle_cthread[p] # 0 =>
            idle_cthread[p] \in Waiting \/ Early(<<p, idle_cthread[p]>>)

(* A call the pools accepted is never forgotten: until it runs or is         *)
(* dequeued, it is on the default pool's queue or assigned to a thread.  It  *)
(* holds for pools of at most two threads until the server is told to stop.  *)
NoCallLost ==
  \A c \in Calls : phase[c] = "accepted" =>
    \/ \E i \in 1..Len(call_queue[DefaultPool]) :
         call_queue[DefaultPool][i] = c
    \/ \E t \in Thread : AssignedTo(c, t)

(* At most one thread runs or is about to run a call, and then nobody else   *)
(* can find it on a queue.                                                   *)
RunsExclusively ==
  \A c \in Calls :
    LET T == {t \in Thread : run[t] = c \/ AssignedTo(c, t)}
    IN /\ \A t, u \in T : t = u
       /\ T # {} => /\ ~is_queued[c]
                    /\ phase[c] \in {"accepted", "running"}

(* A call that has finished or was dequeued never runs (again), across       *)
(* restarts of the server too.                                               *)
NeverRunsAgain ==
  [][\A c \in Calls : phase[c] \in {"done", "dequeued"} =>
                        phase'[c] = phase[c]]_vars

(* A shutdown terminates every call thread (comcthd.c:162): when            *)
(* rpc_server_listen has returned and may be called again, the pools it      *)
(* started have no thread left and no thread table.  A pool's storage is not *)
(* released while one of its threads exists.                                 *)
ShutdownTerminatesThreads ==
  \A p \in Pools :
    /\ ~in_server_listen /\ where[p] \in {"none", "listed"} => ~ctbl[p]
    /\ (~in_server_listen /\ where[p] \in {"none", "listed"}) \/ where[p] = "freed" =>
         \A i \in 1..MaxThreads : pc[<<p, i>>] = "none"

(* The thread CTHREAD_POOL_ASSIGN_THREAD takes from idle_cthread is idle     *)
(* (the assert at comcthd.c:239 does not fail).                              *)
NoIdleAssert == aborted # "idle_assert"

(* A reserved pool that may queue a call has an element to queue it with     *)
(* (the assert at comcthd.c:1538 does not fail).                             *)
NoQeltAssert == aborted # "qelt_assert"

(* While no pool is stopped and no pool has more than two threads, the pools *)
(* keep the contract of CallDispatch: no call overtakes those of its own     *)
(* pool, whether it is queued or finds an idle thread, and none is lost.     *)
(* (With three threads it fails: NoIdleAssert.)                              *)
Dispatch == INSTANCE CallDispatch WITH
  queue <- [i \in 1..Len(call_queue[DefaultPool]) |->
              [call |-> call_queue[DefaultPool][i],
               pool |-> own[call_queue[DefaultPool][i]]]],
  assigned <- {[call |-> call_rep[t], pool |-> own[call_rep[t]], by |-> t[1]] :
                 t \in {u \in Thread : AssignedTo(call_rep[u], u)}},
  running <- {[call |-> run[t], by |-> t[1]] : t \in {u \in Thread : run[u] # NoCall}},
  finished <- {c \in Calls : phase[c] \in {"done", "dequeued"}}
ImplementsDispatch == Dispatch!Spec

(* An accepted call is eventually run, or given up by its protocol module,   *)
(* under the same conditions.                                                *)
AcceptedCallRuns ==
  \A c \in Calls : phase[c] = "accepted" ~> phase[c] \in {"done", "dequeued"}

(* The waits for threads to exit end: once told to stop, rpc_server_listen   *)
(* returns, and a pool the application freed is released.                    *)
WaitsEnd ==
  /\ listen = "signalled" ~> listen = "idle"
  /\ \A p \in ReservedPools : where[p] \in {"draining", "reaper"} ~> where[p] = "freed"
=============================================================================
