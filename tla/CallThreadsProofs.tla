--------------------------- MODULE CallThreadsProofs ---------------------------
(***************************************************************************)
(* Proofs about CallThreads for every number of calls, pools and threads   *)
(* and every value of the bounds.                                          *)
(***************************************************************************)
EXTENDS CallThreads, TLAPS

-----------------------------------------------------------------------------
(* Removing an element from a list (RPC_LIST_REMOVE) *)

NoDup(q) == \A i, j \in 1..Len(q) : q[i] = q[j] => i = j
Occurs(e, q) == \E i \in 1..Len(q) : q[i] = e

\* Unlinking an element (RPC_LIST_REMOVE) leaves a shorter list of the same calls.
LEMMA WithoutSeq ==
  ASSUME NEW S, NEW q \in Seq(S), NEW i \in 1..Len(q)
  PROVE  /\ Without(q, i) \in Seq(S)
         /\ Len(Without(q, i)) = Len(q) - 1
         /\ \A k \in 1..(Len(q) - 1) :
              Without(q, i)[k] = IF k < i THEN q[k] ELSE q[k + 1]
  BY DEF Without

\* Whatever RPC_LIST_REMOVE leaves is a list of the elements that were there.
LEMMA ListRemoveSeq ==
  ASSUME NEW S, NEW q \in Seq(S), NEW e, NEW r \in ListRemove(q, e)
  PROVE  /\ r \in Seq(S)
         /\ \A k \in 1..Len(r) : \E m \in 1..Len(q) : r[k] = q[m]
  <1>1. CASE r = <<>>
    BY <1>1
  <1>2. CASE r = q
    BY <1>2
  <1>3. CASE \E i \in 1..Len(q) : r = Without(q, i)
    <2>1. PICK i \in 1..Len(q) : r = Without(q, i)
      BY <1>3
    <2>2. /\ r \in Seq(S) /\ Len(r) = Len(q) - 1
          /\ \A k \in 1..Len(r) : r[k] = IF k < i THEN q[k] ELSE q[k + 1]
      BY <2>1, WithoutSeq
    <2>3. Len(q) \in Nat
      OBVIOUS
    <2>4. ASSUME NEW k \in 1..Len(r)
          PROVE  \E m \in 1..Len(q) : r[k] = q[m]
      <3>1. k \in 1..Len(q) /\ k + 1 \in 1..Len(q)
        BY <2>2, <2>3
      <3>2. QED
        BY <2>2, <3>1
    <2>5. QED
      BY <2>2, <2>4
  <1>4. QED
    BY <1>1, <1>2, <1>3 DEF ListRemove, Positions

\* From a list without duplicates it removes the element, if it is there.
LEMMA ListRemoveNoDup ==
  ASSUME NEW S, NEW q \in Seq(S), NEW e, NEW r \in ListRemove(q, e), NoDup(q)
  PROVE  NoDup(r) /\ ~Occurs(e, r)
  <1>1. CASE r = <<>>
    BY <1>1 DEF NoDup, Occurs
  <1>2. CASE r = q /\ Positions(q, e) = {}
    BY <1>2 DEF NoDup, Occurs, Positions
  <1>3. CASE \E i \in Positions(q, e) : r = Without(q, i)
    <2>1. PICK i \in 1..Len(q) : r = Without(q, i) /\ q[i] = e
      BY <1>3 DEF Positions
    <2>2. Len(r) = Len(q) - 1 /\ \A k \in 1..Len(r) : r[k] = IF k < i THEN q[k] ELSE q[k + 1]
      BY <2>1, WithoutSeq
    <2>3. Len(q) \in Nat
      OBVIOUS
    <2>4. NoDup(r)
      BY <2>1, <2>2, <2>3, SMTT(30) DEF NoDup
    <2>5. ~Occurs(e, r)
      BY <2>1, <2>2, <2>3 DEF NoDup, Occurs
    <2>6. QED
      BY <2>4, <2>5
  <1>4. QED
    BY <1>1, <1>2, <1>3 DEF ListRemove

-----------------------------------------------------------------------------
(* Types *)

\* A pool that publishes an idle thread counts at least one: taking it leaves
\* n_idle a natural number.
IdleCounted == \A p \in Pools : idle_cthread[p] # 0 => n_idle[p] > 0

\* rpc__cthread_stop_all waits for a pool of its list.
StopAtListed ==
  listen = "stopping" => stop_at = DefaultPool \/ Occurs(stop_at, reserved)

TypeInv == TypeOK /\ IdleCounted /\ StopAtListed

\* An unsigned counter that is decremented stays an unsigned number (n_queued--).
LEMMA DecrementNat == \A n \in Nat : Decrement(n) \in Nat
  BY BoundAssumption DEF Decrement

\* The effect of cthread_call_dequeue on the lists is of the right type.
LEMMA DequeueType ==
  ASSUME TypeOK, NEW c \in Calls, DequeueFromLists(c)
  PROVE  /\ call_queue' \in [Pools -> Seq(Calls)]
         /\ n_queued' \in [Pools -> Nat] /\ free_queue' \in [Pools -> Nat]
  <1>1. DefaultPool \in Pools
    BY DEF Pools
  <1>2. PICK dq \in ListRemove(call_queue[DefaultPool], c) : DequeueFromLists(c)!(dq)
    BY DEF DequeueFromLists
  <1>3. dq \in Seq(Calls)
    BY <1>1, ListRemoveSeq DEF TypeOK
  <1>4. CASE qelt[c] = NoPool
    <2>1. /\ call_queue' = [call_queue EXCEPT ![DefaultPool] = dq]
          /\ n_queued' = [n_queued EXCEPT ![DefaultPool] = Decrement(n_queued[DefaultPool])]
          /\ free_queue' = free_queue
      BY <1>2, <1>4
    <2>2. Decrement(n_queued[DefaultPool]) \in Nat
      BY <1>1, DecrementNat DEF TypeOK
    <2>3. QED
      BY <1>1, <1>3, <2>1, <2>2 DEF TypeOK
  <1>5. CASE qelt[c] # NoPool
    <2>1. qelt[c] \in Pools
      BY <1>5 DEF TypeOK, Pools
    <2>2. PICK rq \in ListRemove(call_queue[qelt[c]], c) :
            call_queue' = [call_queue EXCEPT ![DefaultPool] = dq, ![qelt[c]] = rq]
      BY <1>2, <1>5
    <2>3. rq \in Seq(Calls)
      BY <2>1, ListRemoveSeq DEF TypeOK
    <2>4. /\ n_queued' = [n_queued EXCEPT ![qelt[c]] = Decrement(n_queued[qelt[c]])]
          /\ free_queue' = [free_queue EXCEPT ![qelt[c]] = free_queue[qelt[c]] + 1]
      BY <1>2, <1>5
    <2>5. Decrement(n_queued[qelt[c]]) \in Nat /\ free_queue[qelt[c]] + 1 \in Nat
      <3>1. n_queued[qelt[c]] \in Nat /\ free_queue[qelt[c]] \in Nat
        BY <2>1 DEF TypeOK
      <3>2. QED
        BY <3>1, DecrementNat
    <2>6. QED
      BY <1>1, <1>3, <2>1, <2>2, <2>3, <2>4, <2>5 DEF TypeOK
  <1>6. QED
    BY <1>4, <1>5

\* The fields a call thread changes when it takes the mutex.
ExecutorTypes ==
  /\ n_idle' \in [Pools -> Nat] /\ idle_cthread' \in [Pools -> 0..MaxThreads]
  /\ n_queued' \in [Pools -> Nat] /\ free_queue' \in [Pools -> Nat]
  /\ call_queue' \in [Pools -> Seq(Calls)]
  /\ thread_state' \in [Thread -> {"NO", "IDLE", "ACTIVE"}]
  /\ pc' \in [Thread -> ThreadPlace]
  /\ call_rep' \in [Thread -> Calls \cup {NoCall}]
  /\ run' \in [Thread -> Calls \cup {NoCall}]
  /\ is_queued' \in [Calls -> BOOLEAN] /\ phase' \in [Calls -> Phase]
  /\ qelt' \in [Calls -> ReservedPools \cup {NoPool}]
  /\ own' \in [Calls -> Pools \cup {NoPool}]
  /\ IdleCounted'

\* A thread that becomes idle (cthread_call_executor) keeps the pool's counters in range.
LEMMA GoIdleType ==
  ASSUME TypeInv, NEW p \in Pools, NEW i \in 1..MaxThreads, NEW st,
         NEW ph \in [Calls -> Phase], GoIdle(p, i, st, ph)
  PROVE  ExecutorTypes
  <1>1. <<p, i>> \in Thread
    BY DEF Thread
  <1>2. /\ n_idle' \in [Pools -> Nat] /\ idle_cthread' \in [Pools -> 0..MaxThreads]
        /\ IdleCounted'
    <2>1. /\ n_idle' = [n_idle EXCEPT ![p] = n_idle[p] + 1]
          /\ idle_cthread' = [idle_cthread EXCEPT ![p] = i]
      BY DEF GoIdle, IdleThread
    <2>2. i \in 0..MaxThreads /\ n_idle[p] + 1 \in Nat /\ n_idle[p] + 1 > 0
      BY BoundAssumption, SMTT(30) DEF TypeInv, TypeOK
    <2>3. QED
      BY <2>1, <2>2 DEF TypeInv, TypeOK, IdleCounted
  <1>3. /\ thread_state' \in [Thread -> {"NO", "IDLE", "ACTIVE"}]
        /\ pc' \in [Thread -> ThreadPlace] /\ run' \in [Thread -> Calls \cup {NoCall}]
    BY <1>1 DEF TypeInv, TypeOK, GoIdle, ThreadExits, ThreadRuns, ThreadPlace
  <1>4. phase' \in [Calls -> Phase] /\ own' \in [Calls -> Pools \cup {NoPool}]
    BY <1>1 DEF TypeInv, TypeOK, Phase, GoIdle, ThreadRuns
  <1>5. QED
    BY <1>2, <1>3, <1>4 DEF TypeInv, TypeOK, ExecutorTypes, GoIdle, queueVars

\* A thread that takes the next queued call keeps the queues and counters typed.
LEMMA RunQueuedType ==
  ASSUME TypeInv, NEW p \in Pools, NEW i \in 1..MaxThreads,
         NEW ph \in [Calls -> Phase], RunQueued(p, i, ph), call_queue[p] # <<>>
  PROVE  ExecutorTypes
  <1> DEFINE c == FirstQueued(p)
  <1>1. <<p, i>> \in Thread
    BY DEF Thread
  <1>2. c \in Calls
    BY DEF TypeInv, TypeOK, FirstQueued
  <1>3. /\ call_queue' \in [Pools -> Seq(Calls)]
        /\ n_queued' \in [Pools -> Nat] /\ free_queue' \in [Pools -> Nat]
    BY <1>2, DequeueType DEF TypeInv, RunQueued, cthread_call_dequeue
  <1>4. /\ is_queued' \in [Calls -> BOOLEAN] /\ qelt' \in [Calls -> ReservedPools \cup {NoPool}]
    BY <1>2 DEF TypeInv, TypeOK, RunQueued, cthread_call_dequeue, MarkDequeued
  <1>5. /\ call_rep' \in [Thread -> Calls \cup {NoCall}]
        /\ pc' \in [Thread -> ThreadPlace] /\ run' \in [Thread -> Calls \cup {NoCall}]
    BY <1>1, <1>2 DEF TypeInv, TypeOK, RunQueued, ThreadRuns, ThreadPlace
  <1>6. phase' \in [Calls -> Phase] /\ own' \in [Calls -> Pools \cup {NoPool}]
    BY <1>2 DEF TypeInv, TypeOK, RunQueued, ThreadRuns, Phase
  <1>7. UNCHANGED <<n_idle, idle_cthread, thread_state>>
    BY DEF RunQueued, idleVars
  <1>8. QED
    BY <1>3, <1>4, <1>5, <1>6, <1>7 DEF TypeInv, TypeOK, IdleCounted, ExecutorTypes

\* What starting pools may change, with types.
LEMMA StartPoolsType ==
  ASSUME TypeInv, NEW S, NEW F, NEW R,
         NEW n \in [Pools -> 0..MaxThreads], NEW maxq \in [Pools -> Nat],
         StartPools(S, F, R, n, maxq)
  PROVE  /\ n_threads' \in [Pools -> 0..MaxThreads] /\ max_queued' \in [Pools -> Nat]
         /\ ctbl' \in [Pools -> BOOLEAN] /\ stop' \in [Pools -> BOOLEAN]
         /\ n_idle' \in [Pools -> Nat] /\ idle_cthread' \in [Pools -> 0..MaxThreads]
         /\ n_queued' \in [Pools -> Nat] /\ free_queue' \in [Pools -> Nat]
         /\ call_queue' \in [Pools -> Seq(Calls)]
         /\ IdleCounted'
  <1>1. 0 \in 0..MaxThreads /\ <<>> \in Seq(Calls)
    BY BoundAssumption
  <1>2. /\ n_threads' \in [Pools -> 0..MaxThreads] /\ max_queued' \in [Pools -> Nat]
        /\ ctbl' \in [Pools -> BOOLEAN]
    BY DEF StartPools, TypeInv, TypeOK, Set
  <1>3. stop' \in [Pools -> BOOLEAN]
    BY DEF StartPools, TypeInv, TypeOK
  <1>4. /\ n_idle' \in [Pools -> Nat] /\ idle_cthread' \in [Pools -> 0..MaxThreads]
        /\ IdleCounted'
    BY <1>1 DEF StartPools, TypeInv, TypeOK, Set, IdleCounted
  <1>5. n_queued' \in [Pools -> Nat] /\ call_queue' \in [Pools -> Seq(Calls)]
    BY <1>1 DEF StartPools, TypeInv, TypeOK, Set
  <1>6. free_queue' \in [Pools -> Nat]
    BY DEF StartPools, TypeInv, TypeOK
  <1>7. QED
    BY <1>2, <1>3, <1>4, <1>5, <1>6

\* cthread_create sets up threads in legal states.
LEMMA CreateThreadsType ==
  ASSUME TypeOK, NEW k, CreateThreads(k)
  PROVE  /\ thread_state' \in [Thread -> {"NO", "IDLE", "ACTIVE"}]
         /\ pc' \in [Thread -> ThreadPlace]
         /\ call_rep' \in [Thread -> Calls \cup {NoCall}]
         /\ run' \in [Thread -> Calls \cup {NoCall}]
  BY DEF TypeOK, CreateThreads, ThreadPlace

\* Releasing a pool's table and queue elements keeps them typed.
LEMMA ReleasePoolsType ==
  ASSUME TypeOK, NEW S, ReleasePools(S)
  PROVE  ctbl' \in [Pools -> BOOLEAN] /\ free_queue' \in [Pools -> Nat]
  BY DEF TypeOK, ReleasePools, Set

\* The sizes cthread_pool_start computes are in range.
LEMMA SizesType ==
  ASSUME TypeOK, NEW n \in 0..MaxThreads
  PROVE  /\ QueueMultiplier * n \in Nat
         /\ WithThreads(n) \in [Pools -> 0..MaxThreads] /\ WithLimit(n) \in [Pools -> Nat]
         /\ \A p \in ReservedPools : /\ SizeOf(p, n) \in [Pools -> 0..MaxThreads]
                                     /\ LimitOf(p, n) \in [Pools -> Nat]
  <1>1. QueueMultiplier * n \in Nat
    BY BoundAssumption
  <1>2. QED
    BY <1>1 DEF TypeOK, WithThreads, WithLimit, SizeOf, LimitOf, Pools

\* rpc__cthread_init establishes the strengthened type invariant.
LEMMA TypeInit == Init => TypeInv
  <1> SUFFICES ASSUME Init PROVE TypeInv
    OBVIOUS
  <1>1. 0 \in 0..MaxThreads
    BY BoundAssumption
  <1>2. TypeOK
    <2>1. /\ n_threads \in [Pools -> 0..MaxThreads] /\ max_queued \in [Pools -> Nat]
          /\ ctbl \in [Pools -> BOOLEAN] /\ stop \in [Pools -> BOOLEAN]
          /\ n_idle \in [Pools -> Nat] /\ idle_cthread \in [Pools -> 0..MaxThreads]
          /\ n_queued \in [Pools -> Nat] /\ free_queue \in [Pools -> Nat]
      BY <1>1 DEF Init
    <2>2. call_queue \in [Pools -> Seq(Calls)] /\ reserved \in Seq(ReservedPools)
      BY DEF Init
    <2>3. /\ where \in [Pools -> PoolPlace]
          /\ thread_state \in [Thread -> {"NO", "IDLE", "ACTIVE"}]
          /\ pc \in [Thread -> ThreadPlace]
          /\ call_rep \in [Thread -> Calls \cup {NoCall}]
          /\ run \in [Thread -> Calls \cup {NoCall}]
          /\ is_queued \in [Calls -> BOOLEAN] /\ phase \in [Calls -> Phase]
          /\ qelt \in [Calls -> ReservedPools \cup {NoPool}]
      BY DEF Init, PoolPlace, ThreadPlace, Phase
    <2>4. QED
      BY <2>1, <2>2, <2>3 DEF Init, TypeOK
  <1>3. IdleCounted /\ StopAtListed
    BY DEF Init, IdleCounted, StopAtListed
  <1>4. QED
    BY <1>2, <1>3 DEF TypeInv

\* rpc__cthread_invoke_null preserves the strengthened type invariant.
LEMMA InvokeType ==
  ASSUME TypeInv, NEW c \in Calls, Invoke(c)
  PROVE  TypeInv'
  <1>1. ASSUME Refuse(c) PROVE TypeInv'
    BY <1>1 DEF TypeInv, TypeOK, IdleCounted, StopAtListed, Occurs, Refuse, Phase,
       sizeVars, stopVars, idleVars, queueVars, listVars, threadVars, listenVars, bounds
  <1>2. ASSUME InvokeAssign(c) PROVE TypeInv'
    <2>1. PICK p \in Lookup, i \in 1..MaxThreads :
            /\ Assigns(AssignPool(p), i) /\ TakeThread(AssignPool(p))
            /\ thread_state' = [thread_state EXCEPT ![<<AssignPool(p), i>>] = "ACTIVE"]
            /\ call_rep' = [call_rep EXCEPT ![<<AssignPool(p), i>>] = c]
            /\ own' = [own EXCEPT ![c] = p]
      BY <1>2 DEF InvokeAssign
    <2> DEFINE a == AssignPool(p)
    <2>2. a \in Pools
      BY DEF AssignPool, Lookup, Pools
    <2>3. n_idle[a] \in Nat /\ n_idle[a] > 0
      BY <2>1, <2>2 DEF TypeInv, TypeOK, IdleCounted, Assigns
    <2>4. /\ n_idle' \in [Pools -> Nat] /\ idle_cthread' \in [Pools -> 0..MaxThreads]
          /\ IdleCounted'
      <3>1. /\ n_idle' = [n_idle EXCEPT ![a] = n_idle[a] - 1]
            /\ idle_cthread' = [idle_cthread EXCEPT ![a] = 0]
        BY <2>1 DEF TakeThread
      <3>2. n_idle[a] - 1 \in Nat /\ 0 \in 0..MaxThreads
        BY <2>3, BoundAssumption
      <3> HIDE DEF a
      <3>3. QED
        BY <2>2, <3>1, <3>2 DEF TypeInv, TypeOK, IdleCounted
    <2>5. /\ thread_state' \in [Thread -> {"NO", "IDLE", "ACTIVE"}]
          /\ call_rep' \in [Thread -> Calls \cup {NoCall}]
      BY <2>1 DEF TypeInv, TypeOK
    <2>6. /\ phase' \in [Calls -> Phase] /\ is_queued' \in [Calls -> BOOLEAN]
          /\ own' \in [Calls -> Pools \cup {NoPool}]
      BY <1>2, <2>1 DEF TypeInv, TypeOK, InvokeAssign, Phase, Lookup, Pools
    <2>7. QED
      BY <1>2, <2>4, <2>5, <2>6 DEF TypeInv, TypeOK, StopAtListed, Occurs, InvokeAssign,
         sizeVars, stopVars, queueVars, listVars, listenVars, bounds
  <1>3. ASSUME NEW a \in {"idle_assert", "qelt_assert"}, Abort(a) PROVE TypeInv'
    BY <1>3 DEF TypeInv, TypeOK, IdleCounted, StopAtListed, Occurs, Abort, sizeVars, stopVars,
       idleVars, queueVars, listVars, threadVars, callVars, listenVars, bounds
  <1>4. ASSUME InvokeQueue(c) PROVE TypeInv'
    <2>1. PICK p \in Lookup : /\ p # DefaultPool => free_queue[p] > 0
                              /\ cthread_pool_queue_call(p, c)
                              /\ own' = [own EXCEPT ![c] = p]
      BY <1>4 DEF InvokeQueue
    <2>2. p \in Pools /\ (p # DefaultPool => p \in ReservedPools)
      BY DEF Lookup, Pools
    <2>3. call_queue' \in [Pools -> Seq(Calls)]
      BY <2>1 DEF cthread_pool_queue_call, AddToQueues, TypeInv, TypeOK
    <2>4. n_queued' \in [Pools -> Nat] /\ free_queue' \in [Pools -> Nat]
      BY <2>1, <2>2 DEF cthread_pool_queue_call, TypeInv, TypeOK
    <2>5. /\ is_queued' \in [Calls -> BOOLEAN] /\ phase' \in [Calls -> Phase]
          /\ qelt' \in [Calls -> ReservedPools \cup {NoPool}]
          /\ own' \in [Calls -> Pools \cup {NoPool}]
      BY <1>4, <2>1, <2>2 DEF InvokeQueue, cthread_pool_queue_call, TypeInv, TypeOK, Phase
    <2>6. QED
      BY <1>4, <2>3, <2>4, <2>5 DEF TypeInv, TypeOK, IdleCounted, StopAtListed, Occurs,
         InvokeQueue, sizeVars, stopVars, idleVars, listVars, threadVars, listenVars, bounds
  <1>5. QED
    BY <1>1, <1>2, <1>3, <1>4 DEF Invoke, InvokeDisabled, InvokeLookupFailed,
       InvokeQueueFull, InvokeAssertIdle, InvokeAssertQelt

\* rpc__cthread_dequeue preserves the strengthened type invariant.
LEMMA DequeueCallType ==
  ASSUME TypeInv, NEW c \in Calls, rpc__cthread_dequeue(c)
  PROVE  TypeInv'
  <1>1. /\ call_queue' \in [Pools -> Seq(Calls)]
        /\ n_queued' \in [Pools -> Nat] /\ free_queue' \in [Pools -> Nat]
    BY DequeueType DEF TypeInv, rpc__cthread_dequeue, cthread_call_dequeue
  <1>2. /\ is_queued' \in [Calls -> BOOLEAN] /\ phase' \in [Calls -> Phase]
        /\ qelt' \in [Calls -> ReservedPools \cup {NoPool}]
        /\ own' \in [Calls -> Pools \cup {NoPool}]
    BY DEF TypeInv, TypeOK, Phase, rpc__cthread_dequeue, cthread_call_dequeue, MarkDequeued
  <1>3. QED
    BY <1>1, <1>2 DEF TypeInv, TypeOK, IdleCounted, StopAtListed, Occurs, rpc__cthread_dequeue,
       sizeVars, stopVars, idleVars, listVars, threadVars, listenVars, bounds

\* Every step of cthread_call_executor preserves the strengthened type invariant.
LEMMA ExecutorType ==
  ASSUME TypeInv, NEW p \in Pools, NEW i \in 1..MaxThreads, Executor(p, i)
  PROVE  TypeInv'
  <1> DEFINE t == <<p, i>>
  <1>1. t \in Thread
    BY DEF Thread
  <1>2. ASSUME ExecutorTypes,
               UNCHANGED <<sizeVars, stopVars, listVars, listenVars, aborted, bounds>>
        PROVE  TypeInv'
    BY <1>2 DEF ExecutorTypes, TypeInv, TypeOK, StopAtListed, Occurs, sizeVars, stopVars,
       listVars, listenVars, bounds
  <1>3. CASE ExecutorStart(p, i)
    BY <1>2, <1>3, GoIdleType, RunQueuedType DEF ExecutorStart, TypeInv, TypeOK
  <1>4. CASE ExecutorFinish(p, i)
    <2>1. [phase EXCEPT ![run[t]] = "done"] \in [Calls -> Phase]
      BY DEF TypeInv, TypeOK, Phase
    <2>2. QED
      BY <1>2, <1>4, <2>1, GoIdleType, RunQueuedType DEF ExecutorFinish
  <1>5. CASE ExecutorExit(p, i)
    BY <1>1, <1>5 DEF ExecutorExit, ThreadExits, ThreadPlace, TypeInv, TypeOK, IdleCounted,
       StopAtListed, Occurs, sizeVars, stopVars, idleVars, queueVars, listVars, callVars,
       listenVars, bounds
  <1>6. CASE ExecutorWake(p, i)
    <2>1. /\ pc' \in [Thread -> ThreadPlace] /\ run' \in [Thread -> Calls \cup {NoCall}]
          /\ phase' \in [Calls -> Phase] /\ own' \in [Calls -> Pools \cup {NoPool}]
      BY <1>1, <1>6 DEF ExecutorWake, ThreadRuns, ThreadPlace, TypeInv, TypeOK, Phase
    <2>2. QED
      BY <1>6, <2>1 DEF ExecutorWake, TypeInv, TypeOK, IdleCounted, StopAtListed, Occurs,
         sizeVars, stopVars, idleVars, queueVars, listVars, listenVars, bounds
  <1>7. QED
    BY <1>3, <1>4, <1>5, <1>6 DEF Executor

\* The parts of TypeInv that concern the list of pools and the listener.
LEMMA ManagementType ==
  ASSUME TypeInv, Management
  PROVE  TypeInv'
  <1>1. CASE ListenTooSmall
    BY <1>1, SMTT(30) DEF ListenTooSmall, MayListen, TypeInv, TypeOK, IdleCounted, StopAtListed, Occurs,
       sizeVars, stopVars, idleVars, queueVars, listVars, threadVars, callVars
  <1>2. ASSUME NEW n \in ThreadCounts, Listen(n) PROVE TypeInv'
    <2>1. n \in 0..MaxThreads
      BY BoundAssumption
    <2>2. WithThreads(n) \in [Pools -> 0..MaxThreads] /\ WithLimit(n) \in [Pools -> Nat]
      BY <2>1, SizesType DEF TypeInv
    <2>3. where' \in [Pools -> PoolPlace]
      BY <1>2 DEF Listen, TypeInv, TypeOK, PoolPlace
    <2>4. StartPools(ListedPools, {}, ListedPools, WithThreads(n), WithLimit(n))
      BY <1>2 DEF Listen
    <2>5. /\ in_server_listen' = TRUE /\ listens' \in Nat /\ listen' = "waiting"
          /\ cthread_invoke_enabled' = TRUE
          /\ UNCHANGED <<reserved, default_qsize, is_queued, qelt, phase, own, stop_at, aborted,
                         frees, faults>>
      BY <1>2 DEF Listen, TypeInv, TypeOK, callVars
    <2>6. StopAtListed'
      BY <2>5 DEF StopAtListed
    <2>7. TypeOK /\ \E k : CreateThreads(k)
      BY <1>2 DEF TypeInv, Listen
    <2>8. QED
      BY <2>2, <2>3, <2>4, <2>5, <2>6, <2>7, StartPoolsType, CreateThreadsType
      DEF TypeInv, TypeOK
  <1>3. ASSUME NEW n \in ThreadCounts, ListenStartFails(n) PROVE TypeInv'
    <2>1. n \in 0..MaxThreads
      BY BoundAssumption
    <2>2. WithThreads(n) \in [Pools -> 0..MaxThreads] /\ WithLimit(n) \in [Pools -> Nat]
      BY <2>1, SizesType DEF TypeInv
    <2>3. PICK j \in 1..(Len(reserved) + 1) : ListenStartFails(n)!2!(j)
      BY <1>3 DEF ListenStartFails
    <2> DEFINE L == <<DefaultPool>> \o reserved
               p == L[j]
               S == {L[m] : m \in 1..(j - 1)}
    <2>4. PICK f \in FailedStarts(p, WithThreads(n)[p], WithLimit(n)[p]) :
            /\ StartPools(S, IF f.wait THEN {p} ELSE {}, IF f.reset THEN S \cup {p} ELSE S,
                          WithThreads(n), WithLimit(n))
            /\ \E k : CreateThreads(k)
            /\ where' = [Set(where, {DefaultPool}, "listed")
                           EXCEPT ![p] = IF f.wait THEN "cleaning" ELSE "listed"]
            /\ listen' = IF f.wait THEN "cleanup" ELSE "idle"
            /\ stop_at' = IF f.wait THEN p ELSE NoPool
      BY <2>3
    <2>5. p \in Pools
      <3>1. reserved \in Seq(Pools) /\ DefaultPool \in Pools
        BY DEF TypeInv, TypeOK, Pools
      <3>2. QED
        BY <3>1
    <2>6. where' \in [Pools -> PoolPlace]
      BY <2>4 DEF TypeInv, TypeOK, PoolPlace, Set
    <2>7. /\ listen' \in {"idle", "cleanup"} /\ stop_at' \in Pools \cup {NoPool}
      BY <2>4, <2>5
    <2> HIDE DEF p, S, L
    <2>8. /\ in_server_listen' = TRUE /\ listens' \in Nat /\ faults' \in Nat
          /\ UNCHANGED <<reserved, cthread_invoke_enabled, default_qsize, is_queued, qelt,
                         phase, own, aborted, frees>>
      BY <1>3, SMTT(30) DEF ListenStartFails, TypeInv, TypeOK, callVars
    <2>9. StopAtListed'
      BY <2>7 DEF StopAtListed
    <2>10. TypeOK
      BY DEF TypeInv
    <2>11. /\ thread_state' \in [Thread -> {"NO", "IDLE", "ACTIVE"}]
           /\ pc' \in [Thread -> ThreadPlace]
           /\ call_rep' \in [Thread -> Calls \cup {NoCall}]
           /\ run' \in [Thread -> Calls \cup {NoCall}]
      BY <2>4, <2>10, CreateThreadsType
    <2>12. /\ n_threads' \in [Pools -> 0..MaxThreads] /\ max_queued' \in [Pools -> Nat]
           /\ ctbl' \in [Pools -> BOOLEAN] /\ stop' \in [Pools -> BOOLEAN]
           /\ n_idle' \in [Pools -> Nat] /\ idle_cthread' \in [Pools -> 0..MaxThreads]
           /\ n_queued' \in [Pools -> Nat] /\ free_queue' \in [Pools -> Nat]
           /\ call_queue' \in [Pools -> Seq(Calls)]
           /\ IdleCounted'
      BY <2>2, <2>4, StartPoolsType
    <2>13. QED
      BY <2>6, <2>7, <2>8, <2>9, <2>10, <2>11, <2>12 DEF TypeInv, TypeOK
  <1>4. CASE rpc__server_stop_listening
    BY <1>4 DEF rpc__server_stop_listening, TypeInv, TypeOK, IdleCounted, StopAtListed, Occurs,
       sizeVars, stopVars, idleVars, queueVars, listVars, threadVars, callVars, bounds
  <1>5. CASE StopAll
    <2>1. stop' \in [Pools -> BOOLEAN]
      BY <1>5 DEF StopAll, TypeInv, TypeOK
    <2>2. IdleCounted' /\ StopAtListed' /\ stop_at' \in Pools
      BY <1>5 DEF StopAll, TypeInv, IdleCounted, StopAtListed, Pools, idleVars
    <2>3. QED
      BY <1>5, <2>1, <2>2 DEF StopAll, TypeInv, TypeOK,
         sizeVars, idleVars, queueVars, threadVars, callVars, bounds
  <1>6. CASE StopAllWait
    <2>1. ctbl' \in [Pools -> BOOLEAN] /\ free_queue' \in [Pools -> Nat]
      BY <1>6, ReleasePoolsType DEF StopAllWait, TypeInv
    <2>2. \/ /\ \E j \in 1..Len(reserved) : stop_at' = reserved[j]
             /\ UNCHANGED <<listen, in_server_listen>>
          \/ stop_at' = NoPool /\ listen' = "idle" /\ in_server_listen' = FALSE
      BY <1>6 DEF StopAllWait, TypeInv, TypeOK
    <2>3. stop_at' \in Pools \cup {NoPool}
      BY <2>2 DEF TypeInv, TypeOK, Pools
    <2>4. StopAtListed'
      BY <1>6, <2>2 DEF StopAllWait, StopAtListed, Occurs, listVars
    <2>5. QED
      BY <1>6, <2>1, <2>2, <2>3, <2>4 DEF StopAllWait, TypeInv, TypeOK, IdleCounted, sizeVars,
         idleVars, listVars, threadVars, callVars, bounds
  <1>7. ASSUME NEW p \in ReservedPools, Publish(p)
        PROVE  reserved' \in Seq(ReservedPools) /\ (StopAtListed /\ UNCHANGED listenVars => StopAtListed')
    <2>1. reserved \in Seq(ReservedPools) /\ reserved' = Append(reserved, p)
      BY <1>7 DEF Publish, TypeInv, TypeOK
    <2>2. \A q : Occurs(q, reserved) => Occurs(q, reserved')
      BY <2>1 DEF Occurs
    <2>3. QED
      BY <2>1, <2>2 DEF StopAtListed, listenVars
  <1>8. ASSUME NEW p \in ReservedPools, NEW n \in PoolThreadCounts, CreatePool(p, n) PROVE TypeInv'
    <2>1. n \in 0..MaxThreads
      BY BoundAssumption
    <2>2. SizeOf(p, n) \in [Pools -> 0..MaxThreads] /\ LimitOf(p, n) \in [Pools -> Nat]
      BY <2>1, SizesType DEF TypeInv
    <2>3. where' \in [Pools -> PoolPlace]
      BY <1>8 DEF CreatePool, TypeInv, TypeOK, PoolPlace
    <2>4. reserved' \in Seq(ReservedPools) /\ StopAtListed'
      BY <1>7, <1>8 DEF CreatePool, TypeInv
    <2>5. CASE cthread_invoke_enabled
      BY <1>8, <2>2, <2>3, <2>4, <2>5, StartPoolsType, CreateThreadsType
      DEF CreatePool, TypeInv, TypeOK, listenVars, callVars, bounds
    <2>6. CASE ~cthread_invoke_enabled
      BY <1>8, <2>2, <2>3, <2>4, <2>6 DEF CreatePool, TypeInv, TypeOK, IdleCounted, stopVars,
         idleVars, queueVars, threadVars, listenVars, callVars, bounds
    <2>7. QED
      BY <2>5, <2>6
  <1>9. ASSUME NEW p \in ReservedPools, NEW n \in PoolThreadCounts, CreatePoolStartFails(p, n)
        PROVE  TypeInv'
    <2>1. n \in 0..MaxThreads
      BY BoundAssumption
    <2>2. SizeOf(p, n) \in [Pools -> 0..MaxThreads] /\ LimitOf(p, n) \in [Pools -> Nat]
      BY <2>1, SizesType DEF TypeInv
    <2>3. reserved' \in Seq(ReservedPools) /\ StopAtListed'
      BY <1>7, <1>9 DEF CreatePoolStartFails, TypeInv
    <2>4. PICK f : /\ StartPools({}, IF f.wait THEN {p} ELSE {}, IF f.reset THEN {p} ELSE {},
                                 SizeOf(p, n), LimitOf(p, n))
                   /\ \E k : CreateThreads(k)
                   /\ where' = [where EXCEPT ![p] = IF f.wait THEN "cleaning" ELSE "listed"]
      BY <1>9 DEF CreatePoolStartFails
    <2>5. where' \in [Pools -> PoolPlace]
      BY <2>4 DEF TypeInv, TypeOK, PoolPlace
    <2>6. /\ faults' \in Nat
          /\ UNCHANGED <<cthread_invoke_enabled, default_qsize, is_queued, qelt, phase, own,
                         in_server_listen, listen, stop_at, aborted, listens, frees>>
      BY <1>9 DEF CreatePoolStartFails, TypeInv, TypeOK, listenVars, callVars
    <2>7. TypeOK
      BY DEF TypeInv
    <2>8. QED
      BY <2>2, <2>3, <2>4, <2>5, <2>6, <2>7, StartPoolsType, CreateThreadsType
      DEF TypeInv, TypeOK
  <1>10. ASSUME NEW p \in ReservedPools, NEW w \in BOOLEAN, FreePool(p, w) PROVE TypeInv'
    <2>1. reserved' \in Seq(ReservedPools)
      BY <1>10, ListRemoveSeq DEF FreePool, TypeInv, TypeOK
    <2>2. where' \in [Pools -> PoolPlace]
      <3>1. PICK v \in {"draining", "reaper", "freed"} : where' = [where EXCEPT ![p] = v]
        BY <1>10 DEF FreePool
      <3>2. QED
        BY <3>1 DEF TypeInv, TypeOK, PoolPlace
    <2>3. /\ ctbl' \in [Pools -> BOOLEAN] /\ stop' \in [Pools -> BOOLEAN]
          /\ free_queue' \in [Pools -> Nat]
      BY <1>10, ReleasePoolsType DEF FreePool, TypeInv, TypeOK
    <2>4. IdleCounted' /\ StopAtListed'
      BY <1>10 DEF FreePool, TypeInv, IdleCounted, StopAtListed, idleVars, listenVars
    <2>5. frees' \in Nat
      BY <1>10 DEF FreePool, TypeInv, TypeOK
    <2>6. QED
      BY <1>10, <2>1, <2>2, <2>3, <2>4, <2>5 DEF FreePool, TypeInv, TypeOK,
         sizeVars, idleVars, threadVars, callVars, listenVars
  <1>11. ASSUME NEW S, FreePools(S) PROVE TypeInv'
    <2>1. ctbl' \in [Pools -> BOOLEAN] /\ free_queue' \in [Pools -> Nat]
      BY <1>11, ReleasePoolsType DEF FreePools, TypeInv
    <2>2. where' \in [Pools -> PoolPlace]
      <3>1. where' = [p \in Pools |-> IF p \in S THEN "freed" ELSE where[p]]
        BY <1>11 DEF FreePools, Set
      <3>2. where \in [Pools -> PoolPlace] /\ "freed" \in PoolPlace
        BY DEF TypeInv, TypeOK, PoolPlace
      <3>3. \A p \in Pools : (IF p \in S THEN "freed" ELSE where[p]) \in PoolPlace
        BY <3>2
      <3>4. QED
        BY <3>1, <3>3
    <2>3. IdleCounted' /\ StopAtListed'
      BY <1>11 DEF FreePools, TypeInv, IdleCounted, StopAtListed, Occurs, idleVars, listenVars
    <2>4. QED
      BY <1>11, <2>1, <2>2, <2>3 DEF FreePools, TypeInv, TypeOK,
         sizeVars, idleVars, threadVars, callVars, listenVars, bounds
  <1>12. ASSUME NEW p \in Pools, StartCleanup(p) PROVE TypeInv'
    <2>1. ctbl' \in [Pools -> BOOLEAN] /\ free_queue' \in [Pools -> Nat]
      BY <1>12, ReleasePoolsType DEF StartCleanup, TypeInv
    <2>2. where' \in [Pools -> PoolPlace]
      BY <1>12 DEF StartCleanup, TypeInv, TypeOK, PoolPlace
    <2>3. QED
      BY <1>12, <2>1, <2>2 DEF StartCleanup, TypeInv, TypeOK, IdleCounted, StopAtListed, Occurs,
         sizeVars, idleVars, threadVars, callVars, bounds
  <1>13. ASSUME NEW q \in QueueSizes, SetDefaultQlen(q) PROVE TypeInv'
    <2>1. q \in Nat
      BY BoundAssumption
    <2>2. max_queued' \in [Pools -> Nat]
      BY <1>13, <2>1 DEF SetDefaultQlen, TypeInv, TypeOK
    <2>3. QED
      BY <1>13, <2>1, <2>2 DEF SetDefaultQlen, TypeInv, TypeOK, IdleCounted, StopAtListed, Occurs,
         stopVars, idleVars, queueVars, threadVars, callVars, listenVars, bounds
  <1>14. ASSUME NEW p \in ReservedPools, NEW m \in Nat, m >= max_queued[p], GrowQueue(p, m)
         PROVE  max_queued' \in [Pools -> Nat] /\ free_queue' \in [Pools -> Nat]
    <2>1. p \in Pools
      BY DEF Pools
    <2>2. free_queue[p] + (m - max_queued[p]) \in Nat
      <3>1. max_queued \in [Pools -> Nat] /\ free_queue \in [Pools -> Nat]
        BY DEF TypeInv, TypeOK
      <3>2. max_queued[p] \in Nat /\ free_queue[p] \in Nat
        BY <2>1, <3>1
      <3>3. m \in Nat /\ m >= max_queued[p]
        BY <1>14
      <3>4. QED
        BY <3>2, <3>3
    <2>3. QED
      BY <1>14, <2>1, <2>2 DEF GrowQueue, TypeInv, TypeOK
  <1>15. ASSUME NEW p \in ReservedPools, NEW q \in QueueSizes, SetQlen(p, q) PROVE TypeInv'
    <2>1. q \in Nat /\ max_queued[p] \in Nat
      BY BoundAssumption DEF TypeInv, TypeOK, Pools
    <2>2. max_queued' \in [Pools -> Nat] /\ free_queue' \in [Pools -> Nat]
      <3>1. CASE free_queue[p] = 0
        BY <1>15, <2>1, <3>1 DEF SetQlen, TypeInv, TypeOK
      <3>2. CASE free_queue[p] # 0
        <4>1. q > max_queued[p] /\ GrowQueue(p, q)
          BY <1>15, <3>2 DEF SetQlen
        <4>2. q >= max_queued[p]
          BY <2>1, <4>1
        <4>3. QED
          BY <1>14, <2>1, <4>1, <4>2
      <3>3. QED
        BY <3>1, <3>2
    <2>3. QED
      BY <1>15, <2>2 DEF SetQlen, TypeInv, TypeOK, IdleCounted, StopAtListed, Occurs,
         stopVars, idleVars, listVars, threadVars, callVars, listenVars, bounds
  <1>16. ASSUME NEW p \in ReservedPools, NEW q \in QueueSizes, SetQlenFails(p, q) PROVE TypeInv'
    <2>1. q \in Nat /\ max_queued[p] \in Nat
      BY BoundAssumption DEF TypeInv, TypeOK, Pools
    <2>2. PICK m \in max_queued[p]..(q - 1) : GrowQueue(p, m)
      BY <1>16 DEF SetQlenFails
    <2>3. m \in Nat /\ m >= max_queued[p]
      BY <2>1
    <2>4. max_queued' \in [Pools -> Nat] /\ free_queue' \in [Pools -> Nat]
      BY <1>14, <2>2, <2>3
    <2>5. IdleCounted' /\ StopAtListed'
      BY <1>16 DEF SetQlenFails, TypeInv, IdleCounted, StopAtListed, Occurs,
         idleVars, listVars, listenVars
    <2>6. faults' \in Nat
      BY <1>16 DEF SetQlenFails, TypeInv, TypeOK
    <2>7. QED
      BY <1>16, <2>4, <2>5, <2>6 DEF SetQlenFails, TypeInv, TypeOK,
         stopVars, idleVars, listVars, threadVars, callVars, listenVars
  <1>17. QED
    BY <1>1, <1>2, <1>3, <1>4, <1>5, <1>6, <1>8, <1>9, <1>10, <1>11, <1>12, <1>13, <1>15, <1>16
    DEF Management, FreePoolDone, cthread_reaper

\* Every step of the system preserves the strengthened type invariant.
LEMMA TypeNext == TypeInv /\ [Next]_vars => TypeInv'
  <1> SUFFICES ASSUME TypeInv, [Next]_vars PROVE TypeInv'
    OBVIOUS
  <1>1. CASE Next
    BY <1>1, InvokeType, DequeueCallType, ExecutorType, ManagementType DEF Next
  <1>2. CASE UNCHANGED vars
    BY <1>2 DEF TypeInv, TypeOK, IdleCounted, StopAtListed, Occurs, vars, sizeVars, stopVars,
       idleVars, queueVars, listVars, threadVars, callVars, listenVars, bounds
  <1>3. QED
    BY <1>1, <1>2

(* Every reachable state is well typed.  In particular the unsigned n_idle of *)
(* a pool is never decremented below zero, and the listener only ever waits   *)
(* for a pool that is still on the list.                                      *)
THEOREM TypeCorrect == Spec => []TypeOK
  <1>1. TypeInv => TypeOK
    BY DEF TypeInv
  <1>2. QED
    BY <1>1, TypeInit, TypeNext, PTL DEF Spec

-----------------------------------------------------------------------------
(* No two threads run the same call *)

\* A call on a queue is marked is_queued and, on a reserved pool's queue, its
\* qelt leads back to that pool: cthread_call_dequeue finds every list it is on.
QueueMarks ==
  \A p \in Pools :
    /\ NoDup(call_queue[p])
    /\ \A c \in Calls : Occurs(c, call_queue[p]) =>
         is_queued[c] /\ (p # DefaultPool => qelt[c] = p)

QueuedIsAccepted == \A c \in Calls : is_queued[c] => phase[c] = "accepted"

\* A thread that looks at its state before it runs a call finds one that
\* cthread_create or an invocation has set.
LiveThreads ==
  \A t \in Thread : pc[t] \in {"created", "waiting"} => thread_state[t] \in {"IDLE", "ACTIVE"}

Holds(t, c) == run[t] = c \/ AssignedTo(c, t)

HeldCalls ==
  \A c \in Calls :
    /\ \A t \in Thread : run[t] = c => phase[c] = "running"
    /\ \A t \in Thread : AssignedTo(c, t) => phase[c] = "accepted" /\ ~is_queued[c]
    /\ \A t, u \in Thread : Holds(t, c) /\ Holds(u, c) => t = u

ExclInv == QueueMarks /\ QueuedIsAccepted /\ LiveThreads /\ HeldCalls

\* rpc__cthread_init establishes the exclusion invariant.
LEMMA ExclInit == Init => ExclInv
  <1> SUFFICES ASSUME Init PROVE ExclInv
    OBVIOUS
  <1>1. QueueMarks
    BY DEF Init, QueueMarks, NoDup, Occurs
  <1>2. QueuedIsAccepted /\ LiveThreads
    BY DEF Init, QueuedIsAccepted, LiveThreads
  <1>3. HeldCalls
    BY CallAssumption DEF Init, HeldCalls, Holds, AssignedTo
  <1>4. QED
    BY <1>1, <1>2, <1>3 DEF ExclInv

\* cthread_call_dequeue takes the call off every queue.
LEMMA DequeueMarks ==
  ASSUME TypeOK, QueueMarks, NEW c \in Calls, cthread_call_dequeue(c)
  PROVE  QueueMarks' /\ \A p \in Pools : ~Occurs(c, call_queue'[p])
  <1>1. /\ is_queued' = [is_queued EXCEPT ![c] = FALSE]
        /\ qelt' = [qelt EXCEPT ![c] = NoPool]
    BY DEF cthread_call_dequeue, MarkDequeued
  <1>2. ASSUME NEW p \in Pools
        PROVE  \/ call_queue'[p] \in ListRemove(call_queue[p], c)
               \/ call_queue'[p] = call_queue[p] /\ p # DefaultPool /\ p # qelt[c]
    <2>1. PICK dq \in ListRemove(call_queue[DefaultPool], c) : DequeueFromLists(c)!(dq)
      BY DEF cthread_call_dequeue, DequeueFromLists
    <2>2. CASE qelt[c] = NoPool
      BY <2>1, <2>2, PoolAssumption DEF TypeOK
    <2>3. CASE qelt[c] # NoPool
      <3>1. PICK rq \in ListRemove(call_queue[qelt[c]], c) :
              call_queue' = [call_queue EXCEPT ![DefaultPool] = dq, ![qelt[c]] = rq]
        BY <2>1, <2>3
      <3>2. QED
        BY <2>1, <3>1, <2>3, PoolAssumption DEF TypeOK
    <2>4. QED
      BY <2>2, <2>3
  <1>3. ASSUME NEW p \in Pools
        PROVE  /\ NoDup(call_queue'[p]) /\ ~Occurs(c, call_queue'[p])
               /\ \A d \in Calls : Occurs(d, call_queue'[p]) => Occurs(d, call_queue[p])
    <2>1. call_queue[p] \in Seq(Calls) /\ NoDup(call_queue[p])
      BY DEF TypeOK, QueueMarks
    <2>2. CASE call_queue'[p] \in ListRemove(call_queue[p], c)
      <3>1. NoDup(call_queue'[p]) /\ ~Occurs(c, call_queue'[p])
        BY <2>1, <2>2, ListRemoveNoDup
      <3>2. \A k \in 1..Len(call_queue'[p]) :
              \E m \in 1..Len(call_queue[p]) : call_queue'[p][k] = call_queue[p][m]
        BY <2>1, <2>2, ListRemoveSeq
      <3>3. QED
        BY <3>1, <3>2 DEF Occurs
    <2>3. CASE call_queue'[p] = call_queue[p] /\ p # DefaultPool /\ p # qelt[c]
      BY <2>1, <2>3 DEF QueueMarks
    <2>4. QED
      BY <1>2, <2>2, <2>3
  <1>4. QueueMarks'
    BY <1>1, <1>3, SMTT(30) DEF QueueMarks, TypeOK
  <1>5. QED
    BY <1>3, <1>4

\* What the invariant needs of a step that creates no holder of a call.
LEMMA HoldersShrink ==
  ASSUME HeldCalls, QueuedIsAccepted,
         UNCHANGED <<is_queued, phase>>,
         \A c \in Calls : \A t \in Thread :
           (run'[t] = c => run[t] = c) /\ (AssignedTo(c, t)' => AssignedTo(c, t))
  PROVE  HeldCalls' /\ QueuedIsAccepted'
  BY DEF HeldCalls, Holds, QueuedIsAccepted

\* rpc__cthread_invoke_null preserves the exclusion invariant.
LEMMA InvokeExcl ==
  ASSUME TypeInv, ExclInv, NEW c \in Calls, Invoke(c)
  PROVE  ExclInv'
  <1>1. CASE MayInvoke(c) /\ Refuse(c)
    <2>1. phase' = [phase EXCEPT ![c] = "rejected"] /\ phase[c] \in {"new", "rejected"}
      BY <1>1 DEF MayInvoke, Refuse
    <2>2. UNCHANGED <<call_queue, thread_state, call_rep, pc, run, is_queued, qelt>>
      BY <1>1 DEF Refuse, queueVars, threadVars
    <2>3. QueueMarks' /\ QueuedIsAccepted' /\ LiveThreads'
      BY <2>1, <2>2 DEF ExclInv, QueueMarks, QueuedIsAccepted, LiveThreads, TypeInv, TypeOK
    <2>4. HeldCalls'
      BY <2>1, <2>2 DEF ExclInv, HeldCalls, Holds, AssignedTo, TypeInv, TypeOK
    <2>5. QED
      BY <2>3, <2>4 DEF ExclInv
  <1>2. CASE InvokeAssign(c)
    <2>1. PICK t : /\ thread_state[t] = "IDLE"
                   /\ thread_state' = [thread_state EXCEPT ![t] = "ACTIVE"]
                   /\ call_rep' = [call_rep EXCEPT ![t] = c]
      BY <1>2 DEF InvokeAssign
    <2>2. /\ phase[c] \in {"new", "rejected"}
          /\ phase' = [phase EXCEPT ![c] = "accepted"]
          /\ is_queued' = [is_queued EXCEPT ![c] = FALSE]
          /\ UNCHANGED <<call_queue, pc, run, qelt>>
      BY <1>2 DEF InvokeAssign, MayInvoke, queueVars
    <2>3. \A p \in Pools : ~Occurs(c, call_queue[p])
      BY <2>2 DEF ExclInv, QueueMarks, QueuedIsAccepted
    <2>4. QueueMarks'
      BY <2>2, <2>3 DEF ExclInv, QueueMarks, TypeInv, TypeOK
    <2>5. QueuedIsAccepted' /\ LiveThreads'
      BY <2>1, <2>2 DEF ExclInv, QueuedIsAccepted, LiveThreads, TypeInv, TypeOK
    <2>6. \A u \in Thread : ~Holds(u, c) /\ run[u] # c
      BY <2>2 DEF ExclInv, HeldCalls, Holds
    <2>7. ASSUME NEW u \in Thread
          PROVE  /\ AssignedTo(c, u)' => u = t
                 /\ \A d \in Calls \ {c} : AssignedTo(d, u)' => AssignedTo(d, u)
      BY <2>1, <2>2, <2>6 DEF AssignedTo, Holds, TypeInv, TypeOK
    <2>8. HeldCalls'
      BY <2>2, <2>6, <2>7 DEF ExclInv, HeldCalls, Holds, TypeInv, TypeOK
    <2>9. QED
      BY <2>4, <2>5, <2>8 DEF ExclInv
  <1>3. ASSUME NEW a, Abort(a) PROVE ExclInv'
    BY <1>3 DEF Abort, ExclInv, QueueMarks, QueuedIsAccepted, LiveThreads, HeldCalls, Holds,
       AssignedTo, queueVars, threadVars, callVars
  <1>4. CASE InvokeQueue(c)
    <2>1. PICK p \in Lookup : cthread_pool_queue_call(p, c)
      BY <1>4 DEF InvokeQueue
    <2>2. /\ phase[c] \in {"new", "rejected"}
          /\ phase' = [phase EXCEPT ![c] = "accepted"]
          /\ is_queued' = [is_queued EXCEPT ![c] = TRUE]
          /\ qelt' = [qelt EXCEPT ![c] = IF p = DefaultPool THEN NoPool ELSE p]
          /\ UNCHANGED <<thread_state, call_rep, pc, run>>
      BY <1>4, <2>1 DEF InvokeQueue, MayInvoke, cthread_pool_queue_call, threadVars
    <2>3. \A q \in Pools : ~Occurs(c, call_queue[q])
      BY <2>2 DEF ExclInv, QueueMarks, QueuedIsAccepted
    <2>4. ASSUME NEW q \in Pools
          PROVE  /\ NoDup(call_queue'[q])
                 /\ \A d \in Calls : Occurs(d, call_queue'[q]) =>
                      Occurs(d, call_queue[q]) \/ (d = c /\ q \in {p, DefaultPool})
      <3>1. call_queue'[q] = IF q \in {p, DefaultPool} THEN Append(call_queue[q], c)
                             ELSE call_queue[q]
        BY <2>1 DEF cthread_pool_queue_call, AddToQueues
      <3>2. call_queue[q] \in Seq(Calls) /\ NoDup(call_queue[q]) /\ ~Occurs(c, call_queue[q])
        BY <2>3 DEF TypeInv, TypeOK, ExclInv, QueueMarks
      <3>3. QED
        BY <3>1, <3>2 DEF NoDup, Occurs
    <2>5. QueueMarks'
      <3>1. ASSUME NEW q \in Pools, NEW d \in Calls, Occurs(d, call_queue'[q])
            PROVE  is_queued'[d] /\ (q # DefaultPool => qelt'[d] = q)
        <4>1. CASE d = c
          BY <2>2, <2>3, <2>4, <3>1, <4>1 DEF TypeInv, TypeOK
        <4>2. CASE d # c
          BY <2>2, <2>4, <3>1, <4>2 DEF TypeInv, TypeOK, ExclInv, QueueMarks
        <4>3. QED
          BY <4>1, <4>2
      <3>2. QED
        BY <2>4, <3>1 DEF QueueMarks
    <2>6. QueuedIsAccepted' /\ LiveThreads'
      BY <2>2 DEF ExclInv, QueuedIsAccepted, LiveThreads, TypeInv, TypeOK
    <2>7. HeldCalls'
      BY <2>2 DEF ExclInv, HeldCalls, Holds, AssignedTo, TypeInv, TypeOK
    <2>8. QED
      BY <2>5, <2>6, <2>7 DEF ExclInv
  <1>5. QED
    BY <1>1, <1>2, <1>3, <1>4 DEF Invoke, InvokeDisabled, InvokeLookupFailed,
       InvokeQueueFull, InvokeAssertIdle, InvokeAssertQelt

\* rpc__cthread_dequeue preserves the exclusion invariant.
LEMMA DequeueExcl ==
  ASSUME TypeInv, ExclInv, NEW c \in Calls, rpc__cthread_dequeue(c)
  PROVE  ExclInv'
  <1>1. /\ is_queued[c] /\ is_queued' = [is_queued EXCEPT ![c] = FALSE]
        /\ phase' = [phase EXCEPT ![c] = "dequeued"]
        /\ UNCHANGED <<thread_state, call_rep, pc, run>>
    BY DEF rpc__cthread_dequeue, cthread_call_dequeue, MarkDequeued, threadVars
  <1>2. QueueMarks'
    BY DequeueMarks DEF TypeInv, ExclInv, rpc__cthread_dequeue
  <1>3. QueuedIsAccepted' /\ LiveThreads'
    BY <1>1 DEF ExclInv, QueuedIsAccepted, LiveThreads, TypeInv, TypeOK
  <1>4. phase[c] = "accepted"
    BY <1>1 DEF ExclInv, QueuedIsAccepted
  <1>5. HeldCalls'
    BY <1>1, <1>4 DEF ExclInv, HeldCalls, Holds, AssignedTo, TypeInv, TypeOK
  <1>6. QED
    BY <1>2, <1>3, <1>5 DEF ExclInv

\* A thread begins a call that was assigned to it.
LEMMA BeginAssigned ==
  ASSUME TypeInv, ExclInv, NEW t \in Thread,
         pc[t] \in {"created", "waiting"}, thread_state[t] # "IDLE",
         ThreadRuns(t, call_rep[t]),
         phase' = [phase EXCEPT ![call_rep[t]] = "running"],
         UNCHANGED <<thread_state, call_rep, call_queue, is_queued, qelt>>
  PROVE  ExclInv'
  <1>1. AssignedTo(call_rep[t], t)
    BY DEF ExclInv, LiveThreads, AssignedTo
  <1>2. /\ pc' = [pc EXCEPT ![t] = "running"]
        /\ run' = [run EXCEPT ![t] = call_rep[t]]
    BY DEF ThreadRuns
  <1>3. QueueMarks'
    BY DEF ExclInv, QueueMarks
  <1>4. LiveThreads'
    BY <1>2 DEF ExclInv, LiveThreads, TypeInv, TypeOK
  <1>5. QueuedIsAccepted'
    BY <1>1 DEF ExclInv, QueuedIsAccepted, HeldCalls, TypeInv, TypeOK
  <1>6. ASSUME NEW u \in Thread, NEW c \in Calls
        PROVE  /\ run'[u] = c => run[u] = c \/ (u = t /\ c = call_rep[t])
               /\ AssignedTo(c, u)' => AssignedTo(c, u) /\ u # t
    BY <1>2 DEF AssignedTo, TypeInv, TypeOK
  <1>7. HeldCalls'
    <2>1. ASSUME NEW c \in Calls, NEW u \in Thread, Holds(u, c)' PROVE Holds(u, c)
      BY <1>1, <1>6, <2>1 DEF Holds
    <2>2. ASSUME NEW c \in Calls, NEW u \in Thread, run'[u] = c PROVE phase'[c] = "running"
      BY <1>6, <2>2 DEF ExclInv, HeldCalls, TypeInv, TypeOK
    <2>3. ASSUME NEW c \in Calls, NEW u \in Thread, AssignedTo(c, u)'
          PROVE  phase'[c] = "accepted" /\ ~is_queued'[c]
      <3>1. AssignedTo(c, u) /\ u # t
        BY <1>6, <2>3
      <3>2. c # call_rep[t]
        BY <1>1, <3>1 DEF ExclInv, HeldCalls, Holds
      <3>3. QED
        BY <3>1, <3>2 DEF ExclInv, HeldCalls, TypeInv, TypeOK
    <2>4. QED
      BY <2>1, <2>2, <2>3 DEF ExclInv, HeldCalls
  <1>8. QED
    BY <1>3, <1>4, <1>5, <1>7 DEF ExclInv

\* A thread ends what it was running, if anything: `ph' is the calls' history
\* after that.
EndsRun(t, ph) ==
  \/ ph = phase /\ pc[t] = "created"
  \/ ph = [phase EXCEPT ![run[t]] = "done"] /\ pc[t] = "running"

\* A thread that ends its run changes the phase of no call but the one that was running.
LEMMA EndsRunHistory ==
  ASSUME TypeInv, ExclInv, NEW t \in Thread, NEW ph, EndsRun(t, ph)
  PROVE  /\ ph \in [Calls -> Phase]
         /\ \A c \in Calls : phase[c] # "running" => ph[c] = phase[c]
         /\ \A c \in Calls : \A u \in Thread : run[u] = c /\ u # t => ph[c] = "running"
  <1>1. CASE ph = phase
    BY <1>1 DEF ExclInv, HeldCalls, TypeInv, TypeOK
  <1>2. CASE ph = [phase EXCEPT ![run[t]] = "done"] /\ pc[t] = "running"
    <2>1. ph \in [Calls -> Phase]
      BY <1>2 DEF TypeInv, TypeOK, Phase
    <2>2. ASSUME NEW c \in Calls, phase[c] # "running" PROVE ph[c] = phase[c]
      BY <1>2, <2>2 DEF ExclInv, HeldCalls, TypeInv, TypeOK
    <2>3. ASSUME NEW c \in Calls, NEW u \in Thread, run[u] = c, u # t PROVE ph[c] = "running"
      BY <1>2, <2>3 DEF ExclInv, HeldCalls, Holds, TypeInv, TypeOK
    <2>4. QED
      BY <2>1, <2>2, <2>3
  <1>3. QED
    BY <1>1, <1>2 DEF EndsRun

\* It then exits or waits for work ...
LEMMA EndRunExcl ==
  ASSUME TypeInv, ExclInv, NEW t \in Thread, NEW ph, EndsRun(t, ph), phase' = ph,
         NEW st \in {"NO", "IDLE"}, NEW pl \in {"none", "waiting"}, pl = "waiting" => st = "IDLE",
         thread_state' = [thread_state EXCEPT ![t] = st],
         pc' = [pc EXCEPT ![t] = pl], run' = [run EXCEPT ![t] = NoCall],
         UNCHANGED <<call_rep, call_queue, is_queued, qelt>>
  PROVE  ExclInv'
  <1>1. /\ \A c \in Calls : phase[c] # "running" => phase'[c] = phase[c]
        /\ \A c \in Calls : \A u \in Thread : run[u] = c /\ u # t => phase'[c] = "running"
    BY EndsRunHistory
  <1>2. QueueMarks'
    BY DEF ExclInv, QueueMarks
  <1>3. QueuedIsAccepted'
    BY <1>1 DEF ExclInv, QueuedIsAccepted
  <1>4. LiveThreads'
    BY DEF ExclInv, LiveThreads, TypeInv, TypeOK
  <1>5. ASSUME NEW u \in Thread, NEW c \in Calls
        PROVE  /\ run'[u] = c => run[u] = c /\ u # t
               /\ AssignedTo(c, u)' => AssignedTo(c, u)
    BY CallAssumption DEF AssignedTo, TypeInv, TypeOK
  <1>6. HeldCalls'
    BY <1>1, <1>5 DEF ExclInv, HeldCalls, Holds
  <1>7. QED
    BY <1>2, <1>3, <1>4, <1>6 DEF ExclInv

\* ... or runs the oldest call of its pool's queue.
LEMMA RunQueuedExcl ==
  ASSUME TypeInv, ExclInv, NEW p \in Pools, NEW i \in 1..MaxThreads, NEW ph,
         EndsRun(<<p, i>>, ph), call_queue[p] # <<>>, RunQueued(p, i, ph)
  PROVE  ExclInv'
  <1> DEFINE t == <<p, i>>
             c == FirstQueued(p)
  <1>1. t \in Thread
    BY DEF Thread
  <1>2. c \in Calls /\ Occurs(c, call_queue[p])
    <2>1. call_queue[p] \in Seq(Calls)
      BY DEF TypeInv, TypeOK
    <2>2. QED
      BY <2>1 DEF FirstQueued, Occurs
  <1>3. is_queued[c] /\ phase[c] = "accepted"
    BY <1>2 DEF ExclInv, QueueMarks, QueuedIsAccepted
  <1>4. /\ ph \in [Calls -> Phase]
        /\ \A d \in Calls : phase[d] # "running" => ph[d] = phase[d]
        /\ \A d \in Calls : \A u \in Thread : run[u] = d /\ u # t => ph[d] = "running"
    BY <1>1, EndsRunHistory
  <1>5. /\ is_queued' = [is_queued EXCEPT ![c] = FALSE]
        /\ pc' = [pc EXCEPT ![t] = "running"] /\ run' = [run EXCEPT ![t] = c]
        /\ call_rep' = [call_rep EXCEPT ![t] = c]
        /\ phase' = [ph EXCEPT ![c] = "running"]
        /\ UNCHANGED thread_state
    BY DEF RunQueued, cthread_call_dequeue, MarkDequeued, ThreadRuns
  <1>6. QueueMarks'
    BY <1>2, DequeueMarks DEF TypeInv, ExclInv, RunQueued
  <1> HIDE DEF c, t
  <1>7. QueuedIsAccepted'
    BY <1>2, <1>4, <1>5 DEF ExclInv, QueuedIsAccepted, TypeInv, TypeOK
  <1>8. LiveThreads'
    BY <1>1, <1>5 DEF ExclInv, LiveThreads, TypeInv, TypeOK
  <1>9. ASSUME NEW u \in Thread, NEW d \in Calls
        PROVE  /\ run'[u] = d => (u # t /\ run[u] = d) \/ (u = t /\ d = c)
               /\ AssignedTo(d, u)' => AssignedTo(d, u)
    BY <1>1, <1>5 DEF AssignedTo, TypeInv, TypeOK
  <1>10. \A u \in Thread : ~Holds(u, c)
    BY <1>2, <1>3 DEF ExclInv, HeldCalls, Holds
  <1>11. HeldCalls'
    <2>1. ASSUME NEW d \in Calls, NEW u \in Thread, run'[u] = d PROVE phase'[d] = "running"
      BY <1>2, <1>4, <1>5, <1>9, <2>1
    <2>2. ASSUME NEW d \in Calls, NEW u \in Thread, AssignedTo(d, u)'
          PROVE  phase'[d] = "accepted" /\ ~is_queued'[d]
      <3>1. AssignedTo(d, u) /\ d # c
        BY <1>9, <1>10, <2>2 DEF Holds
      <3>2. phase[d] = "accepted" /\ ~is_queued[d]
        BY <3>1 DEF ExclInv, HeldCalls
      <3>3. QED
        BY <1>2, <1>4, <1>5, <3>1, <3>2 DEF TypeInv, TypeOK
    <2>3. ASSUME NEW d \in Calls, NEW u \in Thread, NEW v \in Thread, Holds(u, d)', Holds(v, d)'
          PROVE  u = v
      <3>1. CASE d = c
        BY <1>9, <1>10, <2>3, <3>1 DEF Holds
      <3>2. CASE d # c
        BY <1>9, <2>3, <3>2 DEF Holds, ExclInv, HeldCalls
      <3>3. QED
        BY <3>1, <3>2
    <2>4. QED
      BY <2>1, <2>2, <2>3 DEF HeldCalls
  <1>12. QED
    BY <1>6, <1>7, <1>8, <1>11 DEF ExclInv

\* A thread that has finished its call becomes idle (the top of cthread_call_executor).
LEMMA GoIdleExcl ==
  ASSUME TypeInv, ExclInv, NEW p \in Pools, NEW i \in 1..MaxThreads, NEW st, NEW ph,
         EndsRun(<<p, i>>, ph), GoIdle(p, i, st, ph),
         st = "IDLE" \/ (pc[<<p, i>>] = "created" /\ st = thread_state[<<p, i>>])
  PROVE  ExclInv'
  <1> DEFINE t == <<p, i>>
  <1>1. t \in Thread
    BY DEF Thread
  <1>2. UNCHANGED <<call_rep, call_queue, is_queued, qelt>>
    BY DEF GoIdle, queueVars
  <1>3. CASE stop[p] /\ ThreadExits(t) /\ phase' = ph
    BY <1>1, <1>2, <1>3, EndRunExcl DEF ThreadExits
  <1>4. CASE /\ st # "IDLE" /\ ThreadRuns(t, call_rep[t])
             /\ phase' = [ph EXCEPT ![call_rep[t]] = "running"]
             /\ UNCHANGED thread_state
    <2>1. ph = phase /\ pc[t] = "created" /\ thread_state[t] # "IDLE"
      BY <1>4 DEF EndsRun
    <2>2. QED
      BY <1>1, <1>2, <1>4, <2>1, BeginAssigned
  <1>5. CASE /\ thread_state' = [thread_state EXCEPT ![t] = "IDLE"]
             /\ pc' = [pc EXCEPT ![t] = "waiting"]
             /\ run' = [run EXCEPT ![t] = NoCall]
             /\ phase' = ph
    BY <1>1, <1>2, <1>5, EndRunExcl
  <1>6. QED
    BY <1>3, <1>4, <1>5 DEF GoIdle

\* Every step of cthread_call_executor preserves the exclusion invariant.
LEMMA ExecutorExcl ==
  ASSUME TypeInv, ExclInv, NEW p \in Pools, NEW i \in 1..MaxThreads, Executor(p, i)
  PROVE  ExclInv'
  <1> DEFINE t == <<p, i>>
  <1>1. t \in Thread
    BY DEF Thread
  <1>2. CASE ExecutorStart(p, i)
    BY <1>2, GoIdleExcl, RunQueuedExcl DEF ExecutorStart, EndsRun
  <1>3. CASE ExecutorFinish(p, i)
    BY <1>3, GoIdleExcl, RunQueuedExcl DEF ExecutorFinish, EndsRun
  <1>4. CASE ExecutorExit(p, i)
    <2>1. /\ thread_state' = [thread_state EXCEPT ![t] = "NO"]
          /\ pc' = [pc EXCEPT ![t] = "none"]
          /\ run' = [run EXCEPT ![t] = NoCall]
          /\ UNCHANGED <<call_rep, call_queue, is_queued, qelt, phase>>
      BY <1>4 DEF ExecutorExit, ThreadExits, queueVars, callVars
    <2>2. QueueMarks' /\ LiveThreads'
      BY <1>1, <2>1 DEF ExclInv, QueueMarks, LiveThreads, TypeInv, TypeOK
    <2>3. ASSUME NEW u \in Thread, NEW c \in Calls
          PROVE  (run'[u] = c => run[u] = c) /\ (AssignedTo(c, u)' => AssignedTo(c, u))
      BY <1>1, <2>1, CallAssumption DEF AssignedTo, TypeInv, TypeOK
    <2>4. QED
      BY <2>1, <2>2, <2>3, HoldersShrink DEF ExclInv
  <1>5. CASE ExecutorWake(p, i)
    BY <1>1, <1>5, BeginAssigned DEF ExecutorWake, queueVars
  <1>6. QED
    BY <1>2, <1>3, <1>4, <1>5 DEF Executor

\* The management operations empty queues and create threads; they give no
\* thread a call.
CallsKept ==
  /\ UNCHANGED <<is_queued, qelt, phase>>
  /\ UNCHANGED call_queue \/ \E R : call_queue' = Set(call_queue, R, <<>>)
  /\ UNCHANGED threadVars \/ \E k : CreateThreads(k)

\* Starting, stopping and freeing pools does no more than that to calls and threads.
LEMMA ManagementKeeps ==
  ASSUME TypeInv, Management
  PROVE  CallsKept
  <1>1. CASE ListenTooSmall
    BY <1>1 DEF CallsKept, ListenTooSmall, callVars, queueVars
  <1>2. ASSUME NEW n \in ThreadCounts, Listen(n) \/ ListenStartFails(n)
        PROVE  CallsKept
    BY <1>2 DEF CallsKept, Listen, ListenStartFails, StartPools, callVars
  <1>3. CASE rpc__server_stop_listening \/ StopAll \/ StopAllWait
    BY <1>3 DEF CallsKept, rpc__server_stop_listening, StopAll, StopAllWait, callVars, queueVars
  <1>4. ASSUME NEW p \in ReservedPools, NEW n \in PoolThreadCounts,
               CreatePool(p, n) \/ CreatePoolStartFails(p, n)
        PROVE  CallsKept
    BY <1>4 DEF CallsKept, CreatePool, CreatePoolStartFails, StartPools, callVars, queueVars
  <1>5. ASSUME NEW p \in Pools, NEW w \in BOOLEAN, NEW q,
               \/ FreePool(p, w) \/ StartCleanup(p) \/ SetDefaultQlen(q)
               \/ SetQlen(p, q) \/ SetQlenFails(p, q)
        PROVE  CallsKept
    BY <1>5 DEF CallsKept, FreePool, StartCleanup, SetDefaultQlen, SetQlen, SetQlenFails,
       callVars, queueVars
  <1>6. ASSUME NEW S, FreePools(S) PROVE CallsKept
    BY <1>6 DEF CallsKept, FreePools, callVars
  <1>7. QED
    BY <1>1, <1>2, <1>3, <1>4, <1>5, <1>6
    DEF Management, FreePoolDone, cthread_reaper, Pools

\* Starting, stopping, creating and freeing pools preserves the exclusion invariant.
LEMMA ManagementExcl ==
  ASSUME TypeInv, ExclInv, Management
  PROVE  ExclInv'
  <1>1. /\ UNCHANGED <<is_queued, qelt, phase>>
        /\ UNCHANGED call_queue \/ \E R : call_queue' = Set(call_queue, R, <<>>)
        /\ UNCHANGED threadVars \/ \E k : CreateThreads(k)
    BY ManagementKeeps DEF CallsKept
  <1>2. QueueMarks'
    <2>1. ASSUME NEW p \in Pools PROVE call_queue'[p] \in {call_queue[p], <<>>}
      BY <1>1 DEF Set
    <2>2. QED
      BY <1>1, <2>1 DEF ExclInv, QueueMarks, NoDup, Occurs
  <1>3. ASSUME NEW t \in Thread
        PROVE  /\ UNCHANGED <<call_rep, run>>
               /\ \/ thread_state'[t] = thread_state[t] /\ pc'[t] = pc[t]
                  \/ thread_state'[t] = "IDLE" /\ pc'[t] = "created"
    BY <1>1 DEF threadVars, CreateThreads
  <1>4. LiveThreads'
    BY <1>3 DEF ExclInv, LiveThreads
  <1>5. ASSUME NEW t \in Thread, NEW c \in Calls
        PROVE  (run'[t] = c => run[t] = c) /\ (AssignedTo(c, t)' => AssignedTo(c, t))
    BY <1>3 DEF AssignedTo
  <1>6. QED
    BY <1>1, <1>2, <1>4, <1>5, HoldersShrink DEF ExclInv

\* Every step of the system preserves the exclusion invariant.
LEMMA ExclNext == TypeInv /\ ExclInv /\ [Next]_vars => ExclInv'
  <1> SUFFICES ASSUME TypeInv, ExclInv, [Next]_vars PROVE ExclInv'
    OBVIOUS
  <1>1. CASE Next
    BY <1>1, InvokeExcl, DequeueExcl, ExecutorExcl, ManagementExcl DEF Next
  <1>2. CASE UNCHANGED vars
    BY <1>2 DEF ExclInv, QueueMarks, QueuedIsAccepted, LiveThreads, HeldCalls, Holds,
       AssignedTo, vars, queueVars, threadVars, callVars
  <1>3. QED
    BY <1>1, <1>2

\* Both invariants hold in every reachable state.
LEMMA ExclAlways == Spec => [](TypeInv /\ ExclInv)
  BY TypeInit, TypeNext, ExclInit, ExclNext, PTL DEF Spec

(* However invocations, dequeues, shutdowns, restarts and pool frees          *)
(* interleave, at most one call thread runs a call or is about to, and no     *)
(* other thread can find that call on a queue.                                *)
THEOREM Exclusion == Spec => []RunsExclusively
  <1>1. TypeInv /\ ExclInv => RunsExclusively
    <2> SUFFICES ASSUME ExclInv, NEW c \in Calls
                 PROVE  LET T == {t \in Thread : run[t] = c \/ AssignedTo(c, t)}
                        IN /\ \A t, u \in T : t = u
                           /\ T # {} => ~is_queued[c] /\ phase[c] \in {"accepted", "running"}
      BY DEF RunsExclusively
    <2>1. \A t, u \in Thread : Holds(t, c) /\ Holds(u, c) => t = u
      BY DEF ExclInv, HeldCalls
    <2>2. \A t \in Thread : Holds(t, c) => ~is_queued[c] /\ phase[c] \in {"accepted", "running"}
      BY DEF ExclInv, HeldCalls, Holds, QueuedIsAccepted
    <2>3. QED
      BY <2>1, <2>2 DEF Holds
  <1>2. QED
    BY <1>1, ExclAlways, PTL

\* A step changes the history of a call only if the call is waiting to be
\* invoked, accepted or running.
LEMMA FinalPhase ==
  ASSUME TypeInv, ExclInv, Next, NEW c \in Calls, phase[c] \in {"done", "dequeued"}
  PROVE  phase'[c] = phase[c]
  <1> DEFINE Kept == phase'[c] = phase[c]
  <1>1. ASSUME NEW d \in Calls, Invoke(d) PROVE Kept
    <2>1. \/ UNCHANGED phase
          \/ MayInvoke(d) /\ \E v : phase' = [phase EXCEPT ![d] = v]
      BY <1>1 DEF Invoke, InvokeDisabled, InvokeLookupFailed, InvokeQueueFull, InvokeAssign,
         InvokeAssertIdle, InvokeQueue, InvokeAssertQelt, Refuse, Abort, callVars
    <2>2. QED
      BY <2>1 DEF MayInvoke, TypeInv, TypeOK
  <1>2. ASSUME NEW d \in Calls, rpc__cthread_dequeue(d) PROVE Kept
    BY <1>2 DEF rpc__cthread_dequeue, ExclInv, QueuedIsAccepted, TypeInv, TypeOK
  <1>3. ASSUME NEW p \in Pools, NEW i \in 1..MaxThreads, Executor(p, i) PROVE Kept
    <2> DEFINE t == <<p, i>>
    <2>1. t \in Thread
      BY DEF Thread
    <2>2. ASSUME NEW ph, EndsRun(t, ph) PROVE ph \in [Calls -> Phase] /\ ph[c] = phase[c]
      BY <2>1, <2>2, EndsRunHistory
    <2>3. ASSUME NEW d, AssignedTo(d, t) PROVE d # c
      BY <2>1, <2>3 DEF ExclInv, HeldCalls
    <2>4. ASSUME NEW ph, EndsRun(t, ph), RunQueued(p, i, ph), call_queue[p] # <<>> PROVE Kept
      <3>1. call_queue[p] \in Seq(Calls)
        BY DEF TypeInv, TypeOK
      <3>2. FirstQueued(p) \in Calls /\ Occurs(FirstQueued(p), call_queue[p])
        BY <2>4, <3>1 DEF FirstQueued, Occurs
      <3>3. FirstQueued(p) # c
        BY <3>2 DEF ExclInv, QueueMarks, QueuedIsAccepted
      <3>4. phase' = [ph EXCEPT ![FirstQueued(p)] = "running"]
        BY <2>4 DEF RunQueued
      <3>5. QED
        BY <2>2, <2>4, <3>3, <3>4
    <2>5. ASSUME NEW ph, EndsRun(t, ph), NEW st, GoIdle(p, i, st, ph),
                 st = "IDLE" \/ (pc[t] = "created" /\ st = thread_state[t])
          PROVE  Kept
      <3>1. CASE phase' = ph
        BY <2>2, <2>5, <3>1
      <3>2. CASE st # "IDLE" /\ phase' = [ph EXCEPT ![call_rep[t]] = "running"]
        <4>1. AssignedTo(call_rep[t], t)
          BY <2>1, <2>5, <3>2 DEF ExclInv, LiveThreads, AssignedTo
        <4>2. QED
          BY <2>2, <2>3, <2>5, <3>2, <4>1
      <3>3. QED
        BY <2>5, <3>1, <3>2 DEF GoIdle
    <2>6. CASE ExecutorStart(p, i)
      BY <2>4, <2>5, <2>6 DEF ExecutorStart, EndsRun
    <2>7. CASE ExecutorFinish(p, i)
      BY <2>4, <2>5, <2>7 DEF ExecutorFinish, EndsRun
    <2>8. CASE ExecutorExit(p, i)
      BY <2>8 DEF ExecutorExit, callVars
    <2>9. CASE ExecutorWake(p, i)
      <3>1. AssignedTo(call_rep[t], t)
        BY <2>1, <2>9 DEF ExecutorWake, ExclInv, LiveThreads, AssignedTo
      <3>2. QED
        BY <2>3, <2>9, <3>1 DEF ExecutorWake, TypeInv, TypeOK
    <2>10. QED
      BY <1>3, <2>6, <2>7, <2>8, <2>9 DEF Executor
  <1>4. CASE Management
    BY <1>4, ManagementKeeps DEF CallsKept
  <1>5. QED
    BY <1>1, <1>2, <1>3, <1>4 DEF Next

(* A call that has finished, or that its protocol module has taken back,      *)
(* keeps that outcome for ever: no thread starts it (again), also after the   *)
(* server has been stopped and started with calls left on its queues.         *)
THEOREM Finality == Spec => NeverRunsAgain
  <1>1. TypeInv /\ ExclInv /\ [Next]_vars =>
          [\A c \in Calls : phase[c] \in {"done", "dequeued"} => phase'[c] = phase[c]]_vars
    BY FinalPhase
  <1>2. QED
    BY <1>1, ExclAlways, PTL DEF Spec, NeverRunsAgain

-----------------------------------------------------------------------------
(* The invariant of the shutdown: when rpc_server_listen has returned, its call
   threads have terminated. *)

\* cthread_reserved_pools holds each public pool once; the default pool is never freed.
ListInv ==
  /\ NoDup(reserved)
  /\ \A p \in ReservedPools : Occurs(p, reserved) <=> where[p] \in {"listed", "cleaning"}
  /\ where[DefaultPool] \in {"none", "listed", "cleaning"}

\* A thread that exists is in its pool's thread table and has not said that it exited;
\* a pool without descriptor has no table.
ThreadInv ==
  \A p \in Pools :
    /\ where[p] \in {"none", "freed"} => ~ctbl[p]
    /\ \A i \in 1..MaxThreads :
         pc[<<p, i>>] # "none" =>
           ctbl[p] /\ i <= n_threads[p] /\ thread_state[<<p, i>>] # "NO"

\* Calls are taken only while rpc_server_listen waits.  When nobody listens no public
\* pool has threads, and while the listener stops the pools those it has passed have none.
ListenInv ==
  /\ cthread_invoke_enabled => listen \in {"waiting", "signalled"}
  /\ listen # "idle" => in_server_listen
  /\ ~in_server_listen => \A p \in Pools : where[p] \in {"none", "listed"} => ~ctbl[p]
  /\ listen = "stopping" =>
       \A j \in 1..Len(reserved) : stop_at = reserved[j] =>
         ~ctbl[DefaultPool] /\ \A m \in 1..(j - 1) : ~ctbl[reserved[m]]

ShutdownInv == ListInv /\ ThreadInv /\ ListenInv

-----------------------------------------------------------------------------
(* Lists *)

\* Removing an element from a list that holds it once (RPC_LIST_REMOVE) keeps the others.
LEMMA ListRemoveKeeps ==
  ASSUME NEW S, NEW q \in Seq(S), NEW e, NEW r \in ListRemove(q, e), NoDup(q), Occurs(e, q),
         NEW x, x # e
  PROVE  Occurs(x, r) <=> Occurs(x, q)
  <1>1. PICK i \in 1..Len(q) : q[i] = e
    BY DEF Occurs
  <1>2. Len(q) \in Nat
    OBVIOUS
  <1>3. CASE Len(q) <= 1
    <2>1. r = <<>> /\ \A m \in 1..Len(q) : m = i
      BY <1>1, <1>2, <1>3 DEF ListRemove
    <2>2. QED
      BY <1>1, <2>1 DEF Occurs
  <1>4. CASE ~(Len(q) <= 1)
    <2>1. Positions(q, e) = {i}
      BY <1>1 DEF Positions, NoDup
    <2>2. r = Without(q, i)
      BY <1>4, <2>1 DEF ListRemove
    <2>3. /\ Len(r) = Len(q) - 1
          /\ \A k \in 1..(Len(q) - 1) : r[k] = IF k < i THEN q[k] ELSE q[k + 1]
      BY <2>2, WithoutSeq
    <2>4. ASSUME Occurs(x, q) PROVE Occurs(x, r)
      <3>1. PICK m \in 1..Len(q) : q[m] = x
        BY <2>4 DEF Occurs
      <3>2. m # i
        BY <1>1, <3>1
      <3>3. CASE m < i
        <4>1. m \in 1..Len(r) /\ r[m] = x
          BY <1>2, <2>3, <3>1, <3>3
        <4>2. QED
          BY <4>1 DEF Occurs
      <3>4. CASE m > i
        <4>1. /\ m - 1 \in 1..(Len(q) - 1) /\ ~(m - 1 < i) /\ (m - 1) + 1 = m
          BY <1>2, <3>1, <3>4
        <4>2. r[m - 1] = x /\ m - 1 \in 1..Len(r)
          BY <2>3, <3>1, <4>1
        <4>3. QED
          BY <4>2 DEF Occurs
      <3>5. QED
        BY <3>2, <3>3, <3>4
    <2>5. QED
      BY <2>4, ListRemoveSeq DEF Occurs
  <1>5. QED
    BY <1>3, <1>4

-----------------------------------------------------------------------------
(* Threads *)

\* A step that leaves the pools alone and neither revives a thread nor records the exit of
\* one that lives keeps the thread invariant.
LEMMA ThreadsKept ==
  ASSUME ThreadInv, UNCHANGED <<where, ctbl, n_threads>>,
         \A p \in Pools, i \in 1..MaxThreads :
           pc'[<<p, i>>] # "none" => /\ pc[<<p, i>>] # "none"
                                     /\ thread_state'[<<p, i>>] # "NO"
  PROVE  ThreadInv'
  BY DEF ThreadInv

\* A pool whose threads have all exited (the wait of cthread_pool_stop) has no thread.
LEMMA ExitedPool ==
  ASSUME TypeInv, ThreadInv, NEW p \in Pools, AllExited(p), NEW i \in 1..MaxThreads
  PROVE  pc[<<p, i>>] = "none"
  <1>1. n_threads[p] \in 0..MaxThreads
    BY DEF TypeInv, TypeOK
  <1>2. SUFFICES ASSUME pc[<<p, i>>] # "none" PROVE FALSE
    OBVIOUS
  <1>3. i <= n_threads[p] /\ thread_state[<<p, i>>] # "NO"
    BY <1>2 DEF ThreadInv
  <1>4. <<p, i>> \in Ctbl(p)
    BY <1>1, <1>3 DEF Ctbl
  <1>5. QED
    BY <1>3, <1>4 DEF AllExited

\* Releasing the tables of pools without threads (cthread_pool_stop, cthread_pool_free)
\* keeps the thread invariant, wherever their descriptors go.
LEMMA PoolsReleased ==
  ASSUME TypeInv, ThreadInv, NEW S, ReleasePools(S),
         \A p \in Pools : p \in S => \A i \in 1..MaxThreads : pc[<<p, i>>] = "none",
         \A p \in Pools : p \notin S /\ where'[p] \in {"none", "freed"} => ~ctbl[p],
         UNCHANGED <<n_threads, threadVars>>
  PROVE  /\ ThreadInv'
         /\ \A p \in Pools : ctbl'[p] = (p \notin S /\ ctbl[p])
  <1>1. \A p \in Pools : ctbl'[p] = (p \notin S /\ ctbl[p])
    BY DEF ReleasePools, Set, TypeInv, TypeOK
  <1>2. UNCHANGED <<n_threads, pc, thread_state>>
    BY DEF threadVars
  <1>3. QED
    BY <1>1, <1>2 DEF ThreadInv

\* Starting pools that have no threads (cthread_pool_start) and creating theirs keeps it.
LEMMA PoolsStarted ==
  ASSUME TypeInv, ThreadInv, NEW S, NEW F, NEW R,
         NEW n \in [Pools -> 0..MaxThreads], NEW maxq, NEW k,
         StartPools(S, F, R, n, maxq), CreateThreads(k),
         \A p \in Pools : n[p] = n_threads[p] \/ ~ctbl[p],
         \A p \in Pools : k[p] \in 0..n[p] /\ (k[p] > 0 => p \in S \cup F),
         \A p \in Pools : where'[p] \in {"none", "freed"} => ~ctbl[p] /\ p \notin S \cup F
  PROVE  ThreadInv'
  <1>1. \A p \in Pools : ctbl'[p] = (p \in S \cup F \/ ctbl[p])
    BY DEF StartPools, Set, TypeInv, TypeOK
  <1>2. n_threads' = n
    BY DEF StartPools
  <1>3. ASSUME NEW p \in Pools, NEW i \in 1..MaxThreads, pc'[<<p, i>>] # "none"
        PROVE  ctbl'[p] /\ i <= n[p] /\ thread_state'[<<p, i>>] # "NO"
    <2>1. /\ thread_state'[<<p, i>>] = IF i <= k[p] THEN "IDLE" ELSE thread_state[<<p, i>>]
          /\ pc'[<<p, i>>] = IF i <= k[p] THEN "created" ELSE pc[<<p, i>>]
      <3>1. <<p, i>> \in Thread /\ <<p, i>>[1] = p /\ <<p, i>>[2] = i
        BY DEF Thread
      <3>2. QED
        BY <3>1 DEF CreateThreads
    <2>2. k[p] \in 0..n[p] /\ n[p] \in 0..MaxThreads
      OBVIOUS
    <2>3. CASE i <= k[p]
      <3>1. k[p] > 0 /\ i <= n[p]
        BY <2>2, <2>3
      <3>2. QED
        BY <1>1, <2>1, <2>3, <3>1
    <2>4. CASE ~(i <= k[p])
      <3>1. ctbl[p] /\ i <= n_threads[p] /\ thread_state[<<p, i>>] # "NO"
        BY <1>3, <2>1, <2>4 DEF ThreadInv
      <3>2. QED
        BY <1>1, <2>1, <2>4, <3>1
    <2>5. QED
      BY <2>3, <2>4
  <1>4. QED
    BY <1>1, <1>2, <1>3 DEF ThreadInv

\* Taking calls, and executing them, never touches the pools or the listener.
LEMMA ShutdownKept ==
  ASSUME ShutdownInv,
         UNCHANGED <<where, reserved, ctbl, n_threads, cthread_invoke_enabled, listenVars>>,
         \A p \in Pools, i \in 1..MaxThreads :
           pc'[<<p, i>>] # "none" => /\ pc[<<p, i>>] # "none"
                                     /\ thread_state'[<<p, i>>] # "NO"
  PROVE  ShutdownInv'
  <1>1. ThreadInv'
    BY ThreadsKept DEF ShutdownInv
  <1>2. ListInv'
    BY DEF ShutdownInv, ListInv, NoDup, Occurs
  <1>3. ListenInv'
    BY DEF ShutdownInv, ListenInv, listenVars
  <1>4. QED
    BY <1>1, <1>2, <1>3 DEF ShutdownInv

\* rpc__cthread_invoke_null and rpc__cthread_dequeue create and end no thread.
LEMMA CallsShutdown ==
  ASSUME TypeInv, ShutdownInv, NEW c \in Calls, Invoke(c) \/ rpc__cthread_dequeue(c)
  PROVE  ShutdownInv'
  <1>1. /\ UNCHANGED <<where, reserved, ctbl, n_threads, cthread_invoke_enabled, listenVars>>
        /\ UNCHANGED pc
        /\ \/ UNCHANGED thread_state
           \/ \E t : thread_state' = [thread_state EXCEPT ![t] = "ACTIVE"]
    BY DEF Invoke, InvokeDisabled, InvokeLookupFailed, InvokeQueueFull, InvokeAssign,
       InvokeAssertIdle, InvokeQueue, InvokeAssertQelt, Refuse, Abort, rpc__cthread_dequeue,
       sizeVars, stopVars, listVars, threadVars
  <1>2. ASSUME NEW p \in Pools, NEW i \in 1..MaxThreads, pc'[<<p, i>>] # "none"
        PROVE  pc[<<p, i>>] # "none" /\ thread_state'[<<p, i>>] # "NO"
    <2>1. <<p, i>> \in Thread
      BY DEF Thread
    <2>2. pc[<<p, i>>] # "none" /\ thread_state[<<p, i>>] # "NO"
      BY <1>1, <1>2 DEF ShutdownInv, ThreadInv
    <2>3. QED
      BY <1>1, <2>1, <2>2 DEF TypeInv, TypeOK
  <1>3. QED
    BY <1>1, <1>2, ShutdownKept

\* A call thread (cthread_call_executor) says that it exited in the step in which it ends.
LEMMA ExecutorShutdown ==
  ASSUME TypeInv, ShutdownInv, NEW q \in Pools, NEW j \in 1..MaxThreads, Executor(q, j)
  PROVE  ShutdownInv'
  <1> DEFINE t == <<q, j>>
  <1>1. UNCHANGED <<where, reserved, ctbl, n_threads, cthread_invoke_enabled, listenVars>>
    BY DEF Executor, ExecutorStart, ExecutorExit, ExecutorWake, ExecutorFinish,
       sizeVars, stopVars, listVars
  <1>2. pc[t] # "none"
    BY DEF Executor, ExecutorStart, ExecutorExit, ExecutorWake, ExecutorFinish
  <1>3. \/ /\ thread_state' = [thread_state EXCEPT ![t] = "NO"]
           /\ pc' = [pc EXCEPT ![t] = "none"]
        \/ /\ UNCHANGED thread_state
           /\ pc' = [pc EXCEPT ![t] = "running"]
        \/ /\ thread_state' = [thread_state EXCEPT ![t] = "IDLE"]
           /\ pc' = [pc EXCEPT ![t] = "waiting"]
    BY DEF Executor, ExecutorStart, ExecutorExit, ExecutorWake, ExecutorFinish, GoIdle,
       RunQueued, ThreadExits, ThreadRuns
  <1>4. ASSUME NEW p \in Pools, NEW i \in 1..MaxThreads, pc'[<<p, i>>] # "none"
        PROVE  pc[<<p, i>>] # "none" /\ thread_state'[<<p, i>>] # "NO"
    <2>1. <<p, i>> \in Thread /\ t \in Thread
      BY DEF Thread
    <2>2. pc[<<p, i>>] # "none" => thread_state[<<p, i>>] # "NO"
      BY DEF ShutdownInv, ThreadInv
    <2> DEFINE u == <<p, i>>
    <2>3. u \in Thread /\ (pc[u] # "none" => thread_state[u] # "NO") /\ pc'[u] # "none"
      BY <1>4, <2>1, <2>2
    <2> HIDE DEF u, t
    <2>4. pc[u] # "none" /\ thread_state'[u] # "NO"
      BY <1>2, <1>3, <2>1, <2>3 DEF TypeInv, TypeOK
    <2>5. QED
      BY <2>4 DEF u
  <1>5. QED
    BY <1>1, <1>4, ShutdownKept

-----------------------------------------------------------------------------
(* The listener *)

\* When rpc_server_listen may start the pools, none on its list has a thread table.
LEMMA NothingStarted ==
  ASSUME TypeInv, ShutdownInv, MayListen
  PROVE  /\ \A p \in Pools : where[p] \in {"none", "listed"} => ~ctbl[p]
         /\ \A p \in ListedPools : p \in Pools /\ ~ctbl[p] /\ where[p] \in {"none", "listed"}
         /\ \A p \in ReservedPools : p \in ListedPools <=> where[p] = "listed"
         /\ where[DefaultPool] \in {"none", "listed"}
         /\ ~cthread_invoke_enabled
  <1>1. \A p \in Pools : where[p] \in {"none", "listed"} => ~ctbl[p]
    BY DEF MayListen, ShutdownInv, ListenInv
  <1>2. ~cthread_invoke_enabled
    BY DEF MayListen, ShutdownInv, ListenInv
  <1>3. DefaultPool \in Pools /\ \A p \in ReservedPools : p \in Pools /\ p # DefaultPool
    BY PoolAssumption DEF Pools
  <1>4. where[DefaultPool] \in {"none", "listed"}
    BY <1>3 DEF MayListen, ShutdownInv, ListInv
  <1>5. \A p \in ReservedPools : p \in ListedPools <=> Occurs(p, reserved)
    BY <1>3 DEF ListedPools, Occurs
  <1>6. \A p \in ReservedPools : Occurs(p, reserved) <=> where[p] = "listed"
    BY <1>3 DEF MayListen, ShutdownInv, ListInv
  <1>7. \A p \in ListedPools : p = DefaultPool \/ p \in ReservedPools
    BY DEF ListedPools, TypeInv, TypeOK
  <1>8. QED
    BY <1>1, <1>2, <1>3, <1>4, <1>5, <1>6, <1>7

\* rpc_server_listen starts every public pool.
LEMMA ListenShutdown ==
  ASSUME TypeInv, ShutdownInv, NEW n \in ThreadCounts, Listen(n)
  PROVE  ShutdownInv'
  <1> DEFINE k == [p \in Pools |-> IF p \in ListedPools THEN WithThreads(n)[p] ELSE 0]
  <1>1. /\ \A p \in ListedPools : p \in Pools /\ ~ctbl[p] /\ where[p] \in {"none", "listed"}
        /\ where[DefaultPool] \in {"none", "listed"}
        /\ \A p \in Pools : where[p] \in {"none", "listed"} => ~ctbl[p]
    BY NothingStarted DEF Listen
  <1>2. n \in 0..MaxThreads
    BY BoundAssumption
  <1>3. /\ WithThreads(n) \in [Pools -> 0..MaxThreads]
        /\ \A p \in Pools : p # DefaultPool => WithThreads(n)[p] = n_threads[p]
    BY <1>2, SizesType DEF TypeInv, TypeOK, WithThreads
  <1>4. DefaultPool \in Pools /\ DefaultPool \in ListedPools
    BY DEF Pools, ListedPools
  <1>5. /\ where' = [where EXCEPT ![DefaultPool] = "listed"]
        /\ UNCHANGED <<reserved, stop_at>> /\ in_server_listen' = TRUE /\ listen' = "waiting"
        /\ StartPools(ListedPools, {}, ListedPools, WithThreads(n), WithLimit(n))
        /\ CreateThreads(k)
    BY DEF Listen
  <1>6. \A p \in Pools : WithThreads(n)[p] = n_threads[p] \/ ~ctbl[p]
    BY <1>1, <1>3, <1>4
  <1>7. \A p \in Pools : k[p] \in 0..WithThreads(n)[p] /\ (k[p] > 0 => p \in ListedPools \cup {})
    <2>1. \A p \in Pools : WithThreads(n)[p] \in 0..MaxThreads
      BY <1>3
    <2>2. QED
      BY <2>1
  <1>8. ASSUME NEW p \in Pools, where'[p] \in {"none", "freed"}
        PROVE  ~ctbl[p] /\ p \notin ListedPools \cup {}
    <2>1. p # DefaultPool /\ where[p] \in {"none", "freed"}
      BY <1>4, <1>5, <1>8 DEF TypeInv, TypeOK
    <2>2. ~ctbl[p]
      BY <2>1 DEF ShutdownInv, ThreadInv
    <2>3. p \in ReservedPools
      BY <2>1 DEF Pools
    <2>4. where[p] # "listed"
      BY <2>1
    <2>5. p \notin ListedPools
      BY <2>3, <2>4, NothingStarted DEF Listen
    <2>6. QED
      BY <2>2, <2>5
  <1> HIDE DEF k
  <1>9. ThreadInv'
    BY <1>3, <1>5, <1>6, <1>7, <1>8, PoolsStarted DEF ShutdownInv
  <1>10. ListInv'
    <2>1. \A p \in ReservedPools : where'[p] = where[p]
      BY <1>5, PoolAssumption DEF Pools, TypeInv, TypeOK
    <2>2. where'[DefaultPool] = "listed"
      BY <1>4, <1>5 DEF TypeInv, TypeOK
    <2>3. QED
      BY <1>5, <2>1, <2>2 DEF ShutdownInv, ListInv, NoDup, Occurs
  <1>11. ListenInv'
    BY <1>5 DEF ListenInv
  <1>12. QED
    BY <1>9, <1>10, <1>11 DEF ShutdownInv

\* The bounds on the threads that exist when a start fails.
LEMMA FailedStartCreates ==
  ASSUME NEW p, NEW n \in Nat, NEW maxq, NEW f \in FailedStarts(p, n, maxq)
  PROVE  f.created \in 0..n /\ (f.created = 0 \/ f.wait)
  <1>1. \/ f = [created |-> 0, wait |-> FALSE, reset |-> FALSE]
        \/ \E k \in 0..(n - 1) : f = [created |-> k, wait |-> TRUE, reset |-> FALSE]
        \/ f = [created |-> n, wait |-> TRUE, reset |-> TRUE]
    BY Zenon DEF FailedStarts
  <1>2. \/ f.created = 0 /\ f.wait = FALSE
        \/ f.created \in 0..(n - 1) /\ f.wait = TRUE
        \/ f.created = n /\ f.wait = TRUE
    BY <1>1
  <1>3. QED
    BY <1>2

\* rpc_server_listen that cannot start one of the pools leaves those it started.
LEMMA ListenFailsShutdown ==
  ASSUME TypeInv, ShutdownInv, NEW n \in ThreadCounts, ListenStartFails(n)
  PROVE  ShutdownInv'
  <1>1. n \in 0..MaxThreads
    BY BoundAssumption
  <1>2. /\ WithThreads(n) \in [Pools -> 0..MaxThreads]
        /\ \A p \in Pools : p # DefaultPool => WithThreads(n)[p] = n_threads[p]
    BY <1>1, SizesType DEF TypeInv, TypeOK, WithThreads
  <1>3. PICK j \in 1..(Len(reserved) + 1) : ListenStartFails(n)!2!(j)
    BY DEF ListenStartFails
  <1> DEFINE L == <<DefaultPool>> \o reserved
             p == L[j]
             S == {L[m] : m \in 1..(j - 1)}
  <1>4. PICK f \in FailedStarts(p, WithThreads(n)[p], WithLimit(n)[p]) :
          /\ StartPools(S, IF f.wait THEN {p} ELSE {}, IF f.reset THEN S \cup {p} ELSE S,
                        WithThreads(n), WithLimit(n))
          /\ CreateThreads([q \in Pools |-> IF q = p THEN f.created
                              ELSE IF q \in S THEN WithThreads(n)[q] ELSE 0])
          /\ where' = [Set(where, {DefaultPool}, "listed")
                         EXCEPT ![p] = IF f.wait THEN "cleaning" ELSE "listed"]
          /\ listen' = IF f.wait THEN "cleanup" ELSE "idle"
          /\ stop_at' = IF f.wait THEN p ELSE NoPool
    BY <1>3
  <1>5. /\ reserved \in Seq(ReservedPools) /\ Len(reserved) \in Nat
        /\ Len(L) = Len(reserved) + 1 /\ L[1] = DefaultPool
        /\ \A m \in 2..Len(L) : L[m] = reserved[m - 1]
    BY DEF TypeInv, TypeOK
  <1>6. p \in ListedPools /\ S \subseteq ListedPools
    <2>1. \A m \in 1..Len(L) : L[m] \in ListedPools
      BY <1>5 DEF ListedPools
    <2>2. j \in 1..Len(L) /\ \A m \in 1..(j - 1) : m \in 1..Len(L)
      BY <1>5
    <2> HIDE DEF L
    <2>3. QED
      BY <2>1, <2>2
  <1>7. /\ in_server_listen' = TRUE
        /\ UNCHANGED <<reserved, cthread_invoke_enabled>>
    BY DEF ListenStartFails
  <1>8. /\ \A q \in ListedPools : q \in Pools /\ ~ctbl[q] /\ where[q] \in {"none", "listed"}
        /\ \A q \in ReservedPools : q \in ListedPools <=> where[q] = "listed"
        /\ where[DefaultPool] \in {"none", "listed"}
        /\ ~cthread_invoke_enabled
    BY NothingStarted DEF ListenStartFails
  <1> DEFINE k == [q \in Pools |-> IF q = p THEN f.created
                                   ELSE IF q \in S THEN WithThreads(n)[q] ELSE 0]
             F == IF f.wait THEN {p} ELSE {}
             R == IF f.reset THEN S \cup {p} ELSE S
  <1>9. DefaultPool \in Pools /\ DefaultPool \in ListedPools
    BY DEF Pools, ListedPools
  <1>10. p \in Pools /\ WithThreads(n)[p] \in Nat
    <2>1. p \in Pools
      BY <1>6, <1>8
    <2> HIDE DEF p
    <2>2. WithThreads(n)[p] \in 0..MaxThreads
      BY <1>2, <2>1
    <2>3. QED
      BY <2>1, <2>2
  <1>11. f.created \in 0..WithThreads(n)[p] /\ (f.created = 0 \/ f.wait)
    BY <1>4, <1>10, FailedStartCreates
  <1>12. /\ StartPools(S, F, R, WithThreads(n), WithLimit(n)) /\ CreateThreads(k)
    BY <1>4
  <1> HIDE DEF p, S, L
  <1>13. where' = [Set(where, {DefaultPool}, "listed")
                     EXCEPT ![p] = IF f.wait THEN "cleaning" ELSE "listed"]
    BY <1>4
  <1>14. /\ where'[p] \in {"listed", "cleaning"}
         /\ p # DefaultPool => where'[DefaultPool] = "listed"
         /\ \A q \in ReservedPools : q # p => where'[q] = where[q]
    <2>1. \A q \in Pools : where'[q] = IF q = p THEN IF f.wait THEN "cleaning" ELSE "listed"
                                       ELSE IF q = DefaultPool THEN "listed" ELSE where[q]
      BY <1>10, <1>13 DEF Set
    <2>2. \A q \in ReservedPools : q \in Pools /\ q # DefaultPool
      BY PoolAssumption DEF Pools
    <2>3. QED
      BY <1>9, <1>10, <2>1, <2>2
  <1>15. \A q \in Pools : WithThreads(n)[q] = n_threads[q] \/ ~ctbl[q]
    BY <1>2, <1>8, <1>9
  <1>16. \A q \in Pools : k[q] \in 0..WithThreads(n)[q] /\ (k[q] > 0 => q \in S \cup F)
    <2>1. \A q \in Pools : WithThreads(n)[q] \in 0..MaxThreads
      BY <1>2
    <2>2. QED
      BY <1>11, <2>1
  <1>17. ASSUME NEW q \in Pools, where'[q] \in {"none", "freed"}
         PROVE  ~ctbl[q] /\ q \notin S \cup F
    <2>1. q # p
      BY <1>14, <1>17
    <2>2. q # DefaultPool
      BY <1>14, <1>17, <2>1
    <2>3. q \in ReservedPools
      BY <2>2 DEF Pools
    <2>4. where[q] \in {"none", "freed"}
      BY <1>14, <1>17, <2>1, <2>3
    <2>5. ~ctbl[q]
      BY <2>4 DEF ShutdownInv, ThreadInv
    <2>6. q \notin ListedPools
      BY <1>8, <2>3, <2>4
    <2>7. QED
      BY <1>6, <2>1, <2>5, <2>6
  <1> HIDE DEF k, F, R
  <1>18. ThreadInv'
    BY <1>2, <1>12, <1>15, <1>16, <1>17, PoolsStarted DEF ShutdownInv
  <1>19. ListInv'
    <2>1. ASSUME NEW q \in ReservedPools
          PROVE  where'[q] \in {"listed", "cleaning"} <=> where[q] \in {"listed", "cleaning"}
      <3>1. CASE q = p
        BY <1>6, <1>8, <1>14, <3>1
      <3>2. CASE q # p
        BY <1>14, <3>2
      <3>3. QED
        BY <3>1, <3>2
    <2>2. where'[DefaultPool] \in {"listed", "cleaning"}
      BY <1>14
    <2>3. QED
      BY <1>7, <2>1, <2>2 DEF ShutdownInv, ListInv, NoDup, Occurs
  <1>20. ListenInv'
    BY <1>4, <1>7, <1>8 DEF ListenInv
  <1>21. QED
    BY <1>18, <1>19, <1>20 DEF ShutdownInv

\* The end of a failed start: the pool's threads have exited, its table is released.
LEMMA StartCleanupShutdown ==
  ASSUME TypeInv, ShutdownInv, NEW p \in Pools, StartCleanup(p)
  PROVE  ShutdownInv'
  <1>1. /\ where[p] = "cleaning" /\ AllExited(p) /\ ReleasePools({p})
        /\ where' = [where EXCEPT ![p] = "listed"]
        /\ UNCHANGED <<reserved, n_threads, threadVars, cthread_invoke_enabled, in_server_listen>>
        /\ \/ listen = "cleanup" /\ listen' = "idle"
           \/ UNCHANGED <<listen, stop_at>>
    BY DEF StartCleanup, sizeVars
  <1>2. \A i \in 1..MaxThreads : pc[<<p, i>>] = "none"
    BY <1>1, ExitedPool DEF ShutdownInv
  <1>3. /\ where'[p] = "listed" /\ \A q \in Pools : q # p => where'[q] = where[q]
    BY <1>1 DEF TypeInv, TypeOK
  <1>4. \A q \in Pools : q \notin {p} /\ where'[q] \in {"none", "freed"} => ~ctbl[q]
    BY <1>3 DEF ShutdownInv, ThreadInv
  <1>5. /\ ThreadInv'
        /\ \A q \in Pools : ctbl'[q] = (q # p /\ ctbl[q])
    BY <1>1, <1>2, <1>4, PoolsReleased DEF ShutdownInv
  <1>6. DefaultPool \in Pools /\ ReservedPools \subseteq Pools
    BY DEF Pools
  <1>7. ListInv'
    BY <1>1, <1>3, <1>6 DEF ShutdownInv, ListInv, NoDup, Occurs
  <1>8. ListenInv'
    <2>1. /\ cthread_invoke_enabled' => listen' \in {"waiting", "signalled"}
          /\ listen' # "idle" => in_server_listen'
      BY <1>1 DEF ShutdownInv, ListenInv
    <2>2. ~in_server_listen' => \A q \in Pools : where'[q] \in {"none", "listed"} => ~ctbl'[q]
      BY <1>1, <1>3, <1>5 DEF ShutdownInv, ListenInv
    <2>3. \A m \in 1..Len(reserved) : reserved[m] \in Pools
      BY <1>6, SMTT(30) DEF TypeInv, TypeOK
    <2>4. ASSUME listen' = "stopping", NEW j \in 1..Len(reserved), stop_at' = reserved[j]
          PROVE  ~ctbl'[DefaultPool] /\ \A m \in 1..(j - 1) : ~ctbl'[reserved[m]]
      <3>1. ~ctbl[DefaultPool] /\ \A m \in 1..(j - 1) : ~ctbl[reserved[m]]
        BY <1>1, <2>4 DEF ShutdownInv, ListenInv
      <3>2. \A m \in 1..(j - 1) : m \in 1..Len(reserved)
        BY DEF TypeInv, TypeOK
      <3>3. QED
        BY <1>5, <1>6, <2>3, <3>1, <3>2
    <2>5. QED
      BY <1>1, <2>1, <2>2, <2>4 DEF ListenInv
  <1>9. QED
    BY <1>5, <1>7, <1>8 DEF ShutdownInv

\* rpc__cthread_stop_all takes no more calls; it has passed no pool yet.
LEMMA StopAllShutdown ==
  ASSUME TypeInv, ShutdownInv, StopAll
  PROVE  ShutdownInv'
  <1>1. /\ cthread_invoke_enabled' = FALSE /\ listen = "signalled" /\ listen' = "stopping"
        /\ stop_at' = DefaultPool
        /\ UNCHANGED <<where, reserved, ctbl, n_threads, pc, thread_state, in_server_listen>>
    BY DEF StopAll, sizeVars, threadVars
  <1>2. ThreadInv'
    BY <1>1 DEF ShutdownInv, ThreadInv
  <1>3. ListInv'
    BY <1>1 DEF ShutdownInv, ListInv, NoDup, Occurs
  <1>4. \A j \in 1..Len(reserved) : reserved[j] # DefaultPool
    BY PoolAssumption DEF TypeInv, TypeOK
  <1>5. in_server_listen
    BY <1>1 DEF ShutdownInv, ListenInv
  <1>6. ListenInv'
    BY <1>1, <1>4, <1>5 DEF ListenInv
  <1>7. QED
    BY <1>2, <1>3, <1>6 DEF ShutdownInv

\* It waits for the threads of one pool after the other; past the last one no public pool
\* has threads, and rpc_server_listen returns.
LEMMA StopAllWaitShutdown ==
  ASSUME TypeInv, ShutdownInv, StopAllWait
  PROVE  ShutdownInv'
  <1> DEFINE S == {p \in {stop_at} : ctbl[p]}
  <1>1. /\ listen = "stopping" /\ (ctbl[stop_at] => AllExited(stop_at)) /\ ReleasePools(S)
        /\ UNCHANGED <<where, reserved, cthread_invoke_enabled, n_threads, threadVars>>
    BY DEF StopAllWait, sizeVars, listVars
  <1>2. reserved \in Seq(ReservedPools) /\ Len(reserved) \in Nat
    BY DEF TypeInv, TypeOK
  <1>3. PICK j \in 1..(Len(reserved) + 1) :
          /\ (<<DefaultPool>> \o reserved)[j] = stop_at
          /\ \/ /\ j <= Len(reserved)
                /\ stop_at' = reserved[j]
                /\ UNCHANGED <<listen, in_server_listen>>
             \/ /\ j = Len(reserved) + 1
                /\ stop_at' = NoPool
                /\ listen' = "idle" /\ in_server_listen' = FALSE
    BY DEF StopAllWait
  <1>4. stop_at = IF j = 1 THEN DefaultPool ELSE reserved[j - 1]
    BY <1>2, <1>3
  <1>5. DefaultPool \in Pools /\ ReservedPools \subseteq Pools
    BY DEF Pools
  <1>6. ASSUME NEW p \in Pools, p \in S, NEW i \in 1..MaxThreads PROVE pc[<<p, i>>] = "none"
    BY <1>1, <1>6, ExitedPool DEF ShutdownInv
  <1>7. \A p \in Pools : where'[p] \in {"none", "freed"} => ~ctbl[p]
    BY <1>1 DEF ShutdownInv, ThreadInv
  <1>8. /\ ThreadInv'
        /\ \A p \in Pools : ctbl'[p] = (p \notin S /\ ctbl[p])
    BY <1>1, <1>6, <1>7, PoolsReleased DEF ShutdownInv
  <1>9. ListInv'
    BY <1>1 DEF ShutdownInv, ListInv, NoDup, Occurs
  <1>10. ~ctbl'[DefaultPool] /\ \A m \in 1..(j - 1) : ~ctbl'[reserved[m]]
    <2>1. \A p \in Pools : ctbl'[p] => ctbl[p] /\ p # stop_at
      BY <1>8
    <2>2. \A m \in 1..(j - 1) : m \in 1..Len(reserved) /\ reserved[m] \in Pools
      BY <1>2, <1>5
    <2>3. CASE j = 1
      BY <1>4, <1>5, <2>1, <2>3
    <2>4. CASE j # 1
      <3>1. j - 1 \in 1..Len(reserved) /\ stop_at = reserved[j - 1]
        BY <1>2, <1>4, <2>4
      <3>2. ~ctbl[DefaultPool] /\ \A m \in 1..((j - 1) - 1) : ~ctbl[reserved[m]]
        BY <1>1, <3>1 DEF ShutdownInv, ListenInv
      <3>3. \A m \in 1..(j - 1) : m = j - 1 \/ m \in 1..((j - 1) - 1)
        BY <3>1
      <3>4. QED
        BY <1>5, <2>1, <2>2, <3>1, <3>2, <3>3
    <2>5. QED
      BY <2>3, <2>4
  <1>11. ~cthread_invoke_enabled
    BY <1>1 DEF ShutdownInv, ListenInv
  <1> HIDE DEF S
  <1>12. ListenInv'
    <2>1. CASE j <= Len(reserved)
      <3>1. j # Len(reserved) + 1
        BY <1>2, <2>1
      <3>2. stop_at' = reserved[j] /\ UNCHANGED <<listen, in_server_listen>> /\ j \in 1..Len(reserved)
        BY <1>2, <1>3, <2>1, <3>1
      <3>3. \A l \in 1..Len(reserved) : reserved[l] = stop_at' => l = j
        BY <3>2 DEF ShutdownInv, ListInv, NoDup
      <3>4. in_server_listen
        BY <1>1 DEF ShutdownInv, ListenInv
      <3>5. QED
        BY <1>1, <1>10, <1>11, <3>2, <3>3, <3>4 DEF ListenInv
    <2>2. CASE j = Len(reserved) + 1
      <3>1. listen' = "idle"
        BY <1>2, <1>3, <2>2
      <3>2. j - 1 = Len(reserved)
        BY <1>2, <2>2
      <3>3. ASSUME NEW p \in Pools, where'[p] \in {"none", "listed"} PROVE ~ctbl'[p]
        <4>1. CASE where[p] = "none"
          BY <1>7, <1>8, <4>1, <1>1
        <4>2. CASE p = DefaultPool
          BY <1>10, <4>2
        <4>3. CASE p # DefaultPool /\ where[p] = "listed"
          <5>1. Occurs(p, reserved)
            BY <4>3 DEF ShutdownInv, ListInv, Pools
          <5>2. QED
            BY <1>10, <3>2, <5>1 DEF Occurs
        <4>4. QED
          BY <1>1, <3>3, <4>1, <4>2, <4>3
      <3>4. QED
        BY <1>1, <1>11, <3>1, <3>3 DEF ListenInv
    <2>3. QED
      BY <1>3, <2>1, <2>2
  <1>13. QED
    BY <1>8, <1>9, <1>12 DEF ShutdownInv

-----------------------------------------------------------------------------
(* Reserved pools *)

\* A pool that rpc_server_create_thread_pool makes public is new to the list.
LEMMA PublishKeeps ==
  ASSUME TypeInv, ShutdownInv, NEW p \in ReservedPools, Publish(p),
         NEW v \in {"listed", "cleaning"}, where' = [where EXCEPT ![p] = v],
         UNCHANGED <<cthread_invoke_enabled, listenVars>>,
         cthread_invoke_enabled \/ UNCHANGED ctbl
  PROVE  ListInv' /\ ListenInv'
  <1>1. /\ reserved \in Seq(ReservedPools) /\ Len(reserved) \in Nat
        /\ reserved' = Append(reserved, p) /\ where[p] = "none"
    BY DEF Publish, TypeInv, TypeOK
  <1>2. /\ Len(reserved') = Len(reserved) + 1 /\ reserved'[Len(reserved) + 1] = p
        /\ \A i \in 1..Len(reserved) : reserved'[i] = reserved[i]
    BY <1>1
  <1>3. p \in Pools /\ p # DefaultPool /\ DefaultPool \in Pools
    BY PoolAssumption DEF Pools
  <1>4. where'[p] = v /\ \A q \in Pools : q # p => where'[q] = where[q]
    BY <1>3 DEF TypeInv, TypeOK
  <1>5. ~Occurs(p, reserved)
    BY <1>1 DEF ShutdownInv, ListInv
  <1>6. \A i \in 1..Len(reserved) : reserved[i] # p
    BY <1>5 DEF Occurs
  <1>7. \A i \in 1..Len(reserved') : i \in 1..Len(reserved) \/ i = Len(reserved) + 1
    BY <1>1, <1>2
  <1>8. NoDup(reserved')
    <2>1. NoDup(reserved)
      BY DEF ShutdownInv, ListInv
    <2>2. QED
      BY <1>2, <1>6, <1>7, <2>1 DEF NoDup
  <1>9. \A q \in ReservedPools : q # p => (Occurs(q, reserved') <=> Occurs(q, reserved))
    <2>1. \A i \in 1..Len(reserved) : i \in 1..Len(reserved')
      BY <1>1, <1>2
    <2>2. QED
      BY <1>2, <1>7, <2>1 DEF Occurs
  <1>10. Occurs(p, reserved')
    <2>1. Len(reserved) + 1 \in 1..Len(reserved')
      BY <1>1, <1>2
    <2>2. QED
      BY <1>2, <2>1 DEF Occurs
  <1>11. ListInv'
    <2>1. ASSUME NEW q \in ReservedPools
          PROVE  Occurs(q, reserved') <=> where'[q] \in {"listed", "cleaning"}
      <3>1. CASE q = p
        BY <1>4, <1>10, <3>1
      <3>2. CASE q # p
        BY <1>4, <1>9, <3>2 DEF ShutdownInv, ListInv, Pools
      <3>3. QED
        BY <3>1, <3>2
    <2>2. where'[DefaultPool] \in {"none", "listed", "cleaning"}
      BY <1>3, <1>4 DEF ShutdownInv, ListInv
    <2>3. QED
      BY <1>8, <2>1, <2>2 DEF ListInv
  <1>12. UNCHANGED <<listen, stop_at, in_server_listen>>
    BY DEF listenVars
  <1>13. CASE cthread_invoke_enabled
    <2>1. listen \in {"waiting", "signalled"} /\ in_server_listen
      BY <1>13 DEF ShutdownInv, ListenInv
    <2>2. QED
      BY <1>11, <1>12, <2>1 DEF ListenInv
  <1>14. CASE ~cthread_invoke_enabled
    <2>1. UNCHANGED ctbl
      BY <1>14
    <2>2. ~ctbl[p]
      BY <1>1, <1>3 DEF ShutdownInv, ThreadInv
    <2>3. ~in_server_listen' => \A q \in Pools : where'[q] \in {"none", "listed"} => ~ctbl'[q]
      BY <1>4, <1>12, <2>1, <2>2 DEF ShutdownInv, ListenInv
    <2>4. ASSUME listen' = "stopping", NEW j \in 1..Len(reserved'), stop_at' = reserved'[j]
          PROVE  ~ctbl'[DefaultPool] /\ \A m \in 1..(j - 1) : ~ctbl'[reserved'[m]]
      <3>1. stop_at = DefaultPool \/ Occurs(stop_at, reserved)
        BY <1>12, <2>4 DEF TypeInv, StopAtListed
      <3>2. stop_at # p
        BY <1>3, <1>5, <3>1
      <3>3. j \in 1..Len(reserved) /\ stop_at = reserved[j]
        BY <1>2, <1>7, <1>12, <2>4, <3>2
      <3>4. ~ctbl[DefaultPool] /\ \A m \in 1..(j - 1) : ~ctbl[reserved[m]]
        BY <1>12, <2>4, <3>3 DEF ShutdownInv, ListenInv
      <3>5. \A m \in 1..(j - 1) : reserved'[m] = reserved[m]
        BY <1>1, <1>2, <3>3
      <3>6. QED
        BY <2>1, <3>4, <3>5
    <2>5. ~cthread_invoke_enabled' /\ (listen' # "idle" => in_server_listen')
      BY <1>12, <1>14 DEF ShutdownInv, ListenInv
    <2>6. ListenInv'
      BY <2>3, <2>4, <2>5 DEF ListenInv
    <2>7. QED
      BY <1>11, <2>6
  <1>15. QED
    BY <1>11, <1>13, <1>14

\* rpc_server_create_thread_pool starts the pool, or fails to, or leaves it for the next
\* rpc_server_listen.
LEMMA CreatePoolShutdown ==
  ASSUME TypeInv, ShutdownInv, NEW p \in ReservedPools, NEW n \in PoolThreadCounts,
         CreatePool(p, n) \/ CreatePoolStartFails(p, n)
  PROVE  ShutdownInv'
  <1>1. n \in 0..MaxThreads /\ n \in Nat
    BY BoundAssumption
  <1>2. p \in Pools /\ where[p] = "none"
    BY DEF CreatePool, CreatePoolStartFails, Publish, Pools
  <1>3. ~ctbl[p] /\ \A i \in 1..MaxThreads : pc[<<p, i>>] = "none"
    BY <1>2 DEF ShutdownInv, ThreadInv
  <1>4. /\ SizeOf(p, n) \in [Pools -> 0..MaxThreads] /\ SizeOf(p, n)[p] = n
        /\ \A q \in Pools : q # p => SizeOf(p, n)[q] = n_threads[q]
    BY <1>1, <1>2, SizesType DEF TypeInv, TypeOK, SizeOf
  <1>5. \A q \in Pools : SizeOf(p, n)[q] = n_threads[q] \/ ~ctbl[q]
    BY <1>3, <1>4
  <1>6. ASSUME NEW v \in {"listed", "cleaning"}, where' = [where EXCEPT ![p] = v],
               NEW q \in Pools, where'[q] \in {"none", "freed"}
        PROVE  ~ctbl[q] /\ q # p
    <2>1. q # p /\ where[q] \in {"none", "freed"}
      BY <1>2, <1>6 DEF TypeInv, TypeOK
    <2>2. QED
      BY <2>1 DEF ShutdownInv, ThreadInv
  <1>7. CASE CreatePool(p, n) /\ cthread_invoke_enabled
    <2> DEFINE k == [q \in Pools |-> IF q = p THEN n ELSE 0]
    <2>1. /\ StartPools({p}, {}, {p}, SizeOf(p, n), LimitOf(p, n)) /\ CreateThreads(k)
          /\ where' = [where EXCEPT ![p] = "listed"]
      BY <1>7 DEF CreatePool
    <2>2. \A q \in Pools : k[q] \in 0..SizeOf(p, n)[q] /\ (k[q] > 0 => q \in {p} \cup {})
      <3>1. \A q \in Pools : SizeOf(p, n)[q] \in 0..MaxThreads
        BY <1>4
      <3>2. QED
        BY <1>1, <1>4, <3>1
    <2>3. \A q \in Pools : where'[q] \in {"none", "freed"} => ~ctbl[q] /\ q \notin {p} \cup {}
      BY <1>6, <2>1
    <2> HIDE DEF k
    <2>4. ThreadInv'
      BY <1>4, <1>5, <2>1, <2>2, <2>3, PoolsStarted DEF ShutdownInv
    <2>5. QED
      BY <1>7, <2>4, PublishKeeps DEF CreatePool, ShutdownInv
  <1>8. CASE CreatePool(p, n) /\ ~cthread_invoke_enabled
    <2>1. /\ n_threads' = SizeOf(p, n) /\ UNCHANGED <<ctbl, threadVars>>
          /\ where' = [where EXCEPT ![p] = "listed"]
      BY <1>8 DEF CreatePool, stopVars
    <2>2. ThreadInv'
      <3>1. ASSUME NEW q \in Pools, NEW i \in 1..MaxThreads, pc'[<<q, i>>] # "none"
            PROVE  ctbl'[q] /\ i <= n_threads'[q] /\ thread_state'[<<q, i>>] # "NO"
        <4>1. pc[<<q, i>>] # "none"
          BY <2>1, <3>1 DEF threadVars
        <4>2. q # p
          BY <1>3, <4>1
        <4>3. n_threads'[q] = n_threads[q]
          BY <1>4, <2>1, <4>2
        <4>4. QED
          BY <2>1, <4>1, <4>3 DEF ShutdownInv, ThreadInv, threadVars
      <3>2. \A q \in Pools : where'[q] \in {"none", "freed"} => ~ctbl'[q]
        BY <1>6, <2>1
      <3>3. QED
        BY <3>1, <3>2 DEF ThreadInv
    <2>3. QED
      BY <1>8, <2>1, <2>2, PublishKeeps DEF CreatePool, ShutdownInv
  <1>9. CASE CreatePoolStartFails(p, n)
    <2>1. PICK f \in FailedStarts(p, n, QueueMultiplier * n) :
            /\ StartPools({}, IF f.wait THEN {p} ELSE {}, IF f.reset THEN {p} ELSE {},
                          SizeOf(p, n), LimitOf(p, n))
            /\ CreateThreads([q \in Pools |-> IF q = p THEN f.created ELSE 0])
            /\ where' = [where EXCEPT ![p] = IF f.wait THEN "cleaning" ELSE "listed"]
      BY <1>9 DEF CreatePoolStartFails
    <2> DEFINE k == [q \in Pools |-> IF q = p THEN f.created ELSE 0]
               F == IF f.wait THEN {p} ELSE {}
               R == IF f.reset THEN {p} ELSE {}
               v == IF f.wait THEN "cleaning" ELSE "listed"
    <2>2. f.created \in 0..n /\ (f.created = 0 \/ f.wait)
      BY <1>1, FailedStartCreates
    <2>3. StartPools({}, F, R, SizeOf(p, n), LimitOf(p, n)) /\ CreateThreads(k)
      BY <2>1
    <2>4. \A q \in Pools : k[q] \in 0..SizeOf(p, n)[q] /\ (k[q] > 0 => q \in {} \cup F)
      <3>1. \A q \in Pools : SizeOf(p, n)[q] \in 0..MaxThreads
        BY <1>4
      <3>2. QED
        BY <1>4, <2>2, <3>1
    <2>5. v \in {"listed", "cleaning"} /\ where' = [where EXCEPT ![p] = v]
      BY <2>1
    <2>6. \A q \in {} \cup F : q = p
      OBVIOUS
    <2> HIDE DEF k, F, R, v
    <2>7. \A q \in Pools : where'[q] \in {"none", "freed"} => ~ctbl[q] /\ q \notin {} \cup F
      BY <1>6, <2>5, <2>6
    <2>8. ThreadInv'
      BY <1>4, <1>5, <2>3, <2>4, <2>7, PoolsStarted DEF ShutdownInv
    <2>9. QED
      BY <1>9, <2>5, <2>8, PublishKeeps DEF CreatePoolStartFails, ShutdownInv
  <1>10. QED
    BY <1>7, <1>8, <1>9

\* rpc_server_free_thread_pool takes the pool off the list; a pool with threads keeps its
\* table until they have exited.
LEMMA FreePoolShutdown ==
  ASSUME TypeInv, ShutdownInv, NEW p \in ReservedPools, NEW w \in BOOLEAN, FreePool(p, w)
  PROVE  ShutdownInv'
  <1>1. /\ where[p] = "listed" /\ listen \in {"idle", "waiting"}
        /\ reserved' \in ListRemove(reserved, p)
        /\ UNCHANGED <<n_threads, threadVars, cthread_invoke_enabled, listenVars>>
    BY DEF FreePool, sizeVars
  <1>2. p \in Pools /\ p # DefaultPool /\ DefaultPool \in Pools
    BY PoolAssumption DEF Pools
  <1>3. PICK v \in {"draining", "reaper", "freed"} :
          /\ where' = [where EXCEPT ![p] = v]
          /\ \/ ctbl[p] /\ v # "freed" /\ UNCHANGED ctbl
             \/ ~ctbl[p] /\ v = "freed" /\ ReleasePools({p})
    <2>1. CASE ctbl[p]
      BY <2>1 DEF FreePool
    <2>2. CASE ~ctbl[p]
      BY <2>2 DEF FreePool
    <2>3. QED
      BY <2>1, <2>2
  <1>4. UNCHANGED ctbl
    <2>1. CASE UNCHANGED ctbl
      BY <2>1
    <2>2. CASE ~ctbl[p] /\ ReleasePools({p})
      <3>1. \A q \in Pools : Set(ctbl, {p}, FALSE)[q] = ctbl[q]
        BY <2>2 DEF Set, TypeInv, TypeOK
      <3>2. Set(ctbl, {p}, FALSE) = ctbl
        BY <3>1 DEF Set, TypeInv, TypeOK
      <3>3. QED
        BY <2>2, <3>2 DEF ReleasePools
    <2>3. QED
      BY <1>3, <2>1, <2>2
  <1>5. where'[p] = v /\ \A q \in Pools : q # p => where'[q] = where[q]
    BY <1>2, <1>3 DEF TypeInv, TypeOK
  <1>6. ThreadInv'
    <2>1. \A q \in Pools : where'[q] \in {"none", "freed"} => ~ctbl[q]
      BY <1>3, <1>5 DEF ShutdownInv, ThreadInv
    <2>2. QED
      BY <1>1, <1>4, <2>1 DEF ShutdownInv, ThreadInv, threadVars
  <1>7. ListInv'
    <2>1. reserved \in Seq(ReservedPools) /\ NoDup(reserved) /\ Occurs(p, reserved)
      BY <1>1 DEF ShutdownInv, ListInv, TypeInv, TypeOK
    <2>2. NoDup(reserved') /\ ~Occurs(p, reserved')
      BY <1>1, <2>1, ListRemoveNoDup
    <2>3. \A q \in ReservedPools : q # p => (Occurs(q, reserved') <=> Occurs(q, reserved))
      BY <1>1, <2>1, ListRemoveKeeps
    <2>4. ASSUME NEW q \in ReservedPools
          PROVE  Occurs(q, reserved') <=> where'[q] \in {"listed", "cleaning"}
      <3>1. CASE q = p
        BY <1>5, <2>2, <3>1
      <3>2. CASE q # p
        BY <1>5, <2>3, <3>2 DEF ShutdownInv, ListInv, Pools
      <3>3. QED
        BY <3>1, <3>2
    <2>5. where'[DefaultPool] \in {"none", "listed", "cleaning"}
      BY <1>2, <1>5 DEF ShutdownInv, ListInv
    <2>6. QED
      BY <2>2, <2>4, <2>5 DEF ListInv
  <1>8. ListenInv'
    <2>1. UNCHANGED <<listen, stop_at, in_server_listen>>
      BY <1>1 DEF listenVars
    <2>2. \A q \in Pools : where'[q] \in {"none", "listed"} => where[q] \in {"none", "listed"}
      BY <1>1, <1>5
    <2>3. listen' # "stopping"
      BY <1>1, <2>1
    <2>4. QED
      BY <1>1, <1>4, <2>1, <2>2, <2>3 DEF ShutdownInv, ListenInv
  <1>9. QED
    BY <1>6, <1>7, <1>8 DEF ShutdownInv

\* cthread_pool_free, in its caller or in cthread_reaper: the threads have exited.
LEMMA FreePoolsShutdown ==
  ASSUME TypeInv, ShutdownInv, NEW S, FreePools(S),
         \A p \in S : p \in ReservedPools /\ where[p] \in {"draining", "reaper"} /\ AllExited(p)
  PROVE  ShutdownInv'
  <1>1. /\ ReleasePools(S)
        /\ UNCHANGED <<reserved, n_threads, threadVars, cthread_invoke_enabled, listenVars>>
    BY DEF FreePools, sizeVars
  <1>2. \A p \in Pools : where'[p] = IF p \in S THEN "freed" ELSE where[p]
    BY DEF FreePools, Set
  <1>3. \A p \in Pools : p \in S => \A i \in 1..MaxThreads : pc[<<p, i>>] = "none"
    BY ExitedPool DEF ShutdownInv
  <1>4. \A p \in Pools : p \notin S /\ where'[p] \in {"none", "freed"} => ~ctbl[p]
    BY <1>2 DEF ShutdownInv, ThreadInv
  <1>5. /\ ThreadInv'
        /\ \A p \in Pools : ctbl'[p] = (p \notin S /\ ctbl[p])
    BY <1>1, <1>3, <1>4, PoolsReleased DEF ShutdownInv
  <1>6. ListInv'
    <2>1. \A p \in Pools : where'[p] # where[p] => /\ where[p] \notin {"none", "listed", "cleaning"}
                                                   /\ where'[p] = "freed"
      BY <1>2
    <2>2. DefaultPool \in Pools /\ ReservedPools \subseteq Pools
      BY DEF Pools
    <2>3. QED
      BY <1>1, <2>1, <2>2 DEF ShutdownInv, ListInv, NoDup, Occurs
  <1>7. ListenInv'
    <2>1. UNCHANGED <<listen, stop_at, in_server_listen, reserved, cthread_invoke_enabled>>
      BY <1>1 DEF listenVars
    <2>2. \A p \in Pools : ctbl'[p] => ctbl[p]
      BY <1>5
    <2>3. ~in_server_listen => \A p \in Pools : where'[p] \in {"none", "listed"} => ~ctbl'[p]
      BY <1>2, <2>2 DEF ShutdownInv, ListenInv
    <2>4. ASSUME listen = "stopping", NEW j \in 1..Len(reserved), stop_at = reserved[j]
          PROVE  ~ctbl'[DefaultPool] /\ \A m \in 1..(j - 1) : ~ctbl'[reserved[m]]
      <3>1. ~ctbl[DefaultPool] /\ \A m \in 1..(j - 1) : ~ctbl[reserved[m]]
        BY <2>4 DEF ShutdownInv, ListenInv
      <3>2. DefaultPool \in Pools /\ \A m \in 1..(j - 1) : reserved[m] \in Pools
        BY DEF TypeInv, TypeOK, Pools
      <3>3. QED
        BY <2>2, <3>1, <3>2
    <2>5. (cthread_invoke_enabled => listen \in {"waiting", "signalled"})
          /\ (listen # "idle" => in_server_listen)
      BY DEF ShutdownInv, ListenInv
    <2>6. QED
      BY <2>1, <2>3, <2>4, <2>5 DEF ListenInv
  <1>8. QED
    BY <1>5, <1>6, <1>7 DEF ShutdownInv

-----------------------------------------------------------------------------
(* The theorem *)

\* No thread, no table and no listener before the first rpc_server_listen.
LEMMA ShutdownInit == Init => ShutdownInv
  <1> SUFFICES ASSUME Init PROVE ShutdownInv
    OBVIOUS
  <1>1. ReservedPools \subseteq Pools /\ DefaultPool \in Pools
    BY DEF Pools
  <1>2. ListInv
    BY <1>1 DEF Init, ListInv, NoDup, Occurs
  <1>3. ThreadInv
    BY DEF Init, ThreadInv, Thread
  <1>4. ListenInv
    BY DEF Init, ListenInv
  <1>5. QED
    BY <1>2, <1>3, <1>4 DEF ShutdownInv

\* Every management operation keeps the shutdown invariant.
LEMMA ManagementShutdown ==
  ASSUME TypeInv, ShutdownInv, Management
  PROVE  ShutdownInv'
  <1>1. ASSUME UNCHANGED <<where, reserved, ctbl, n_threads, threadVars, cthread_invoke_enabled>>,
               \/ UNCHANGED listenVars
               \/ /\ in_server_listen' = TRUE /\ UNCHANGED stop_at
                  /\ \/ listen' = listen /\ listen # "stopping"
                     \/ listen = "waiting" /\ listen' = "signalled"
        PROVE  ShutdownInv'
    <2>1. ThreadInv'
      BY <1>1 DEF ShutdownInv, ThreadInv, threadVars
    <2>2. ListInv'
      BY <1>1 DEF ShutdownInv, ListInv, NoDup, Occurs
    <2>3. ListenInv'
      BY <1>1 DEF ShutdownInv, ListenInv, listenVars
    <2>4. QED
      BY <2>1, <2>2, <2>3 DEF ShutdownInv
  <1>2. CASE ListenTooSmall
    BY <1>1, <1>2 DEF ListenTooSmall, MayListen, sizeVars, stopVars, listVars
  <1>3. ASSUME NEW n \in ThreadCounts, Listen(n) \/ ListenStartFails(n) PROVE ShutdownInv'
    BY <1>3, ListenShutdown, ListenFailsShutdown
  <1>4. CASE rpc__server_stop_listening
    BY <1>1, <1>4 DEF rpc__server_stop_listening, sizeVars, stopVars, listVars
  <1>5. CASE StopAll \/ StopAllWait
    BY <1>5, StopAllShutdown, StopAllWaitShutdown
  <1>6. ASSUME NEW p \in ReservedPools, NEW n \in PoolThreadCounts,
               CreatePool(p, n) \/ CreatePoolStartFails(p, n)
        PROVE  ShutdownInv'
    BY <1>6, CreatePoolShutdown
  <1>7. ASSUME NEW p \in ReservedPools, NEW w \in BOOLEAN, FreePool(p, w) PROVE ShutdownInv'
    BY <1>7, FreePoolShutdown
  <1>8. ASSUME NEW p \in ReservedPools, FreePoolDone(p) PROVE ShutdownInv'
    BY <1>8, FreePoolsShutdown DEF FreePoolDone
  <1>9. CASE cthread_reaper
    BY <1>9, FreePoolsShutdown DEF cthread_reaper, Reapable
  <1>10. ASSUME NEW p \in Pools, StartCleanup(p) PROVE ShutdownInv'
    BY <1>10, StartCleanupShutdown
  <1>11. ASSUME NEW q \in QueueSizes,
                SetDefaultQlen(q) \/ \E p \in ReservedPools : SetQlen(p, q) \/ SetQlenFails(p, q)
         PROVE  ShutdownInv'
    BY <1>1, <1>11 DEF SetDefaultQlen, SetQlen, SetQlenFails, stopVars, listVars
  <1>12. QED
    BY <1>2, <1>3, <1>4, <1>5, <1>6, <1>7, <1>8, <1>9, <1>10, <1>11 DEF Management

\* Every step of the system preserves the shutdown invariant.
LEMMA ShutdownNext == TypeInv /\ ShutdownInv /\ [Next]_vars => ShutdownInv'
  <1> SUFFICES ASSUME TypeInv, ShutdownInv, [Next]_vars PROVE ShutdownInv'
    OBVIOUS
  <1>1. CASE Next
    BY <1>1, CallsShutdown, ExecutorShutdown, ManagementShutdown DEF Next
  <1>2. CASE UNCHANGED vars
    <2>1. UNCHANGED <<where, reserved, ctbl, n_threads, pc, thread_state,
                      cthread_invoke_enabled, listenVars>>
      BY <1>2 DEF vars, sizeVars, stopVars, listVars, threadVars
    <2>2. ThreadInv'
      BY <2>1 DEF ShutdownInv, ThreadInv
    <2>3. ListInv'
      BY <2>1 DEF ShutdownInv, ListInv, NoDup, Occurs
    <2>4. ListenInv'
      BY <2>1 DEF ShutdownInv, ListenInv, listenVars
    <2>5. QED
      BY <2>2, <2>3, <2>4 DEF ShutdownInv
  <1>3. QED
    BY <1>1, <1>2

(* When rpc_server_listen has returned after rpc_mgmt_stop_server_listening, *)
(* no public pool has a call thread left, however pools were created, freed  *)
(* or failed to start meanwhile; and no pool is released before its threads  *)
(* have exited (comcthd.c:162).                                              *)
THEOREM ShutdownComplete == Spec => []ShutdownTerminatesThreads
  <1>1. TypeInv /\ ShutdownInv => ShutdownTerminatesThreads
    BY DEF ShutdownInv, ListenInv, ThreadInv, ShutdownTerminatesThreads
  <1>2. QED
    BY <1>1, TypeInit, TypeNext, ShutdownInit, ShutdownNext, PTL DEF Spec
=============================================================================
