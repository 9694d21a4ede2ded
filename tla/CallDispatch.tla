----------------------------- MODULE CallDispatch -----------------------------
(***************************************************************************)
(* What the call thread pools promise the protocol modules that hand them  *)
(* calls (the contract in the comments of ncklib/com/comcthd.c:101-127):   *)
(* every accepted call waits in a queue or is assigned to a thread; the    *)
(* thread is one of the call's own pool or of the default pool; the calls  *)
(* of a pool are given its threads in the order they were received, and    *)
(* the threads of the default pool take all calls in that order; each call *)
(* is run at most once, and one that is withdrawn is not run.              *)
(***************************************************************************)
EXTENDS Sequences, Naturals

CONSTANTS Calls, Pools, DefaultPool

VARIABLES
  queue,     \* the waiting calls, oldest first, each with its own pool
  assigned,  \* calls a thread has been chosen for, each with its own pool
             \* and the pool of the thread
  running,   \* calls being executed, each with the pool of its thread
  finished   \* calls executed or withdrawn

dispatchVars == <<queue, assigned, running, finished>>

\* The threads of w may execute the calls of p.
Serves(w, p) == w \in {p, DefaultPool}

Places == 1..Len(queue)
Fresh(c) == /\ \A i \in Places : queue[i].call # c
            /\ \A j \in assigned \cup running : j.call # c
            /\ c \notin finished

\* The waiting call that comes next for the threads of w.
Oldest(w, i) == /\ Serves(w, queue[i].pool)
                /\ \A j \in 1..(i - 1) : ~Serves(w, queue[j].pool)
Without(i) == [k \in 1..(Len(queue) - 1) |-> IF k < i THEN queue[k] ELSE queue[k + 1]]

Init == queue = <<>> /\ assigned = {} /\ running = {} /\ finished = {}

\* A call for p is accepted and given an idle thread of w: no call waits that
\* the thread could execute, so none of p's own is overtaken.
Assign(c, p, w) ==
  /\ Fresh(c) /\ Serves(w, p)
  /\ \A i \in Places : ~Serves(w, queue[i].pool)
  /\ assigned' = assigned \cup {[call |-> c, pool |-> p, by |-> w]}
  /\ UNCHANGED <<queue, running, finished>>

Enqueue(c, p) ==
  /\ Fresh(c)
  /\ queue' = Append(queue, [call |-> c, pool |-> p])
  /\ UNCHANGED <<assigned, running, finished>>

Begin(j) ==
  /\ assigned' = assigned \ {j}
  /\ running' = running \cup {[call |-> j.call, by |-> j.by]}
  /\ UNCHANGED <<queue, finished>>

\* A thread of w that has finished the calls in `done' (one or none) takes the
\* oldest call it may execute.
BeginQueued(w, done) ==
  /\ \E i \in Places :
       /\ Oldest(w, i)
       /\ running' = (running \ done) \cup {[call |-> queue[i].call, by |-> w]}
       /\ queue' = Without(i)
  /\ finished' = finished \cup {j.call : j \in done}
  /\ UNCHANGED assigned

Finish(j) ==
  /\ running' = running \ {j} /\ finished' = finished \cup {j.call}
  /\ UNCHANGED <<queue, assigned>>

Withdraw(c) ==
  /\ \E i \in Places : queue[i].call = c /\ queue' = Without(i)
  /\ finished' = finished \cup {c}
  /\ UNCHANGED <<assigned, running>>

Next ==
  \/ \E c \in Calls, p \in Pools : Enqueue(c, p) \/ \E w \in Pools : Assign(c, p, w)
  \/ \E c \in Calls : Withdraw(c)
  \/ \E j \in assigned : Begin(j)
  \/ \E j \in running : Finish(j) \/ BeginQueued(j.by, {j})
  \/ \E w \in Pools : BeginQueued(w, {})

Spec == Init /\ [][Next]_dispatchVars
=============================================================================
