# TLA+ models of the FreeDCE RPC runtime

FreeDCE is an implementation of DCE RPC 1.1: a runtime library (`freedce/ncklib`)
with a connectionless ("datagram", NCADG) and a connection-oriented (NCACN)
protocol service, a stub support library (`freedce/idllib`), an IDL compiler
(`freedce/idl`), the endpoint mapper daemon (`freedce/rpcd`) and an emulation of
DCE threads (`dcethreads`). This directory holds TLA+ models of the parts whose
correctness depends on interleavings, lost messages and restarts, the TLC
configurations that check them on small instances, and proofs checked by TLAPS.

All paths below are relative to `src/freedce/ncklib` unless they start with `src/`.

## 1. Inventory

| Component | State | Operations | Interacts with | Hard behaviours |
|---|---|---|---|---|
| Call thread pools (`com/comcthd.c`) | per pool: thread table, `idle_cthread`, `n_idle`, queue, free queue elements, `stop`; per thread: state, call; per call: `is_queued`, queue element | invoke, dequeue, executor loop, start/stop all pools, create/free/resize pool, reaper | called by both protocol services; started by `rpc_server_listen` | threads assigned before they first run, stop racing assignment, one call on two lists, restart with left-over calls, failure half-way through a start |
| Listen / stop (`com/comnet.c`) | listen state, `in_server_listen` | `rpc_server_listen`, `rpc__server_stop_listening` | starts and stops the pools | error returns that leave state behind |
| Datagram protocol, server (`transport/dg/dgslsn.c`, `dgsct.c`, `dgscall.c`, `dgexec.c`) | connection table entry (`high_seq`, way-validated), call handles and their states, executors | request, ping, quit, ack; execute call; who-are-you; timers | packets from the client, call threads, callback to the client | duplicates, restart, lock windows around the callback, orphaned calls |
| Datagram protocol, client (`dgccall.c`, `dgclsn.c`, `dg.c`, `conv.c`, `dgcct.c`, `dghnd.c`) | binding's boot time, call (state, boot time, status, reject status), sequence numbers | start, transceive, end, did_mgr_execute; response, reject, working, nocall, quack; who-are-you; timers | packets, server's callback, application | timeouts racing late replies, cached calls, waiting for a quack |
| Datagram fragmentation and windows (`dgcall.c`, `dgxq.c`, `dgrq.c`, `dglsn.c`, `dg.c`) | transmit queue (window, congestion window, fack requests, retransmission queue), receive queue, ping state | fill, push, blast, wait; fack, nocall, working, ping, ack; insert, receive; retransmission and ping timers | packet pool, executors, the call protocol above | loss, reordering, late facks, a full queue, lost wake-ups |
| Datagram packet pool (`dgpkt.c`) | free packets, reservations, waiters | alloc, reserve, adjust | every call | everyone waiting on everyone |
| Connection-oriented associations (`transport/cn/cnassoc.c`, `cncassm.c`, `cnsassm.c`, `cncasgsm.c`, `cnsasgsm.c`) | per association: state machine, reference counts, group, shutdown flags; per group: members, remote id, calls, references; `grp_new_in_progress` | request, open, allocate, deallocate, bind/ack/nak, shutdown, reclaim, monitor, rundown | sockets, receiver threads, calls, context handles | teardown and allocation at once, two creators of a group, both ends reclaiming, rundown during a call |
| Connection-oriented calls (`cncall.c`, `cncclsm.c`, `cnsclsm.c`, `cncthd.c`, `cnrcvr.c`, `cnxfer.c`) | two table-driven state machines, the association's receive queue, cancel counts and timer | start, transmit, transceive, receive, end; fragment, fault, alert, orphan; cancel; disconnect | associations, call threads | a call that starts before the last one has left, cancels racing replies, a broken connection at any point |
| Timer (`rpc/rpctimer.c`) | list of periodic entries | set, adjust, clear, update | every module above | a clear during the routine's run |
| Registries (`com/combind.c`, `comif.c`, `comobj.c`, `comep.c`) | hash tables | register, unregister, lookup | executors | unregistering during a call |
| Context handles (`src/freedce/idllib/ctxerrtl.c`) | handle table, client links | create, update, rundown | server connection table | rundown during a call |
| Endpoint mapper (`src/freedce/rpcd`) | database file and storage manager, live-server checks | insert, lookup, delete, ping | clients | a crash between two writes |
| IDL compiler, NDR marshalling, address families, code sets, GSS authentication, demos | - | - | - | sequential conversion or I/O; not modelled |

What makes the modelled parts correct: an accepted call is kept, started in order,
run by one thread and never again; stopping waits for every thread and always ends; a
non-idempotent call runs at most once whatever the network and the server do; a
client gets the result of its own call; what the client is told about a failed call
is true; a window never loses a fragment or closes for ever; a packet never finds a
state machine in a state that has no entry for it; associations are freed when the last
of their holders leaves, and context handles neither too early nor never; neither side
waits or keeps storage for ever. `PROJECT.json` lists, under
`hazards`, the lines where each can go wrong and the properties that watch them.

## 2. Modules

| Module | Content |
|---|---|
| `CallThreads` | `comcthd.c` and the listen/stop control of `comnet.c`; one action per operation under `cthread_mutex`, the executor thread split where the mutex is released |
| `CallDispatch` | what the pools promise: a call is accepted or refused, gets a thread of its own pool or of the default pool, overtakes no call of its pool, and is run once |
| `CallThreadsProofs` | TLAPS proofs about `CallThreads`: exclusion, finality, shutdown |
| `MCCallThreads` | model values and symmetry for TLC |
| `DgPackets` | packets, network, calls and boot times |
| `DgServer` | handlers of `dgslsn.c`, connection entry, call handles, executors, timers, restart |
| `DgClient` | one binding's calls: start/transceive/end, reply handlers, timers, answer to who-are-you |
| `DgCall` | both joined; the properties of the protocol |
| `DgContract` | what an application is promised for non-idempotent calls |
| `MCDgCall` | TLC's root module for `DgCall` |
| `DgCallProofs` | TLAPS proofs about `DgCall`: types and handles; whose result a client gets and how often a manager runs |
| `DgFrags`, `DgSender`, `DgReceiver` | fragments, facks and the network of one transfer; its sending end; its receiving end |
| `DgTransfer`, `MCDgTransfer` | both ends joined, timers, losses; the properties; TLC's values |
| `DgTransferProofs` | TLAPS proofs about `DgTransfer`: types and the window's accounts; nothing is lost |
| `CnCallSM`, `CnWire` | the transition tables of both call state machines; the packets of a call and the two byte streams |
| `CnClient`, `CnServer` | one association's calls: calling thread, receiver and cancel timer; receiver and executors |
| `CnCall`, `MCCnCall` | both joined, a connection that breaks; the properties; TLC's values |
| `CnCallProofs`, `CnLegalProofs`, `CnOwnProofs` | TLAPS proofs about `CnCall`: types, references to the association, whose response a caller gets; what illegal events the two ends meet; whose request a manager gets |
| `CnBind` | binds, their answers, shutdown requests and the calls' packets between associations |
| `CnAssocClient`, `CnAssocServer` | associations and groups of a client process with one server: callers, receivers, reclaiming timers, context handle and rundown |
| `CnAssoc`, `MCCnAssoc` | both joined; the properties; symmetry of the callers |
| `CnAssocClientProofs`, `CnAssocProofs` | TLAPS proofs about `CnAssoc`: the client's half; the server's half and what is on the wire |

### Call thread pools

Everything in `comcthd.c` runs under one mutex, so the code between two releases
of it is one action. The mutex is released while a call runs, while a thread
waits, and while `cthread_pool_stop` waits for a thread to exit; these are the
program counters `pc`. A condition wait is its predicate, because every signal is
sent under the mutex by whoever makes the predicate true. A failing `assert` ends
the process: `aborted` names it and no step follows. `RPC_LIST_REMOVE` is modelled
with what it does to a list the element is not on, since a restart reaches that case.

Environment: the application's management calls come one at a time (no
`rpc_server_free_thread_pool` while the listener starts or stops, no new
`rpc_server_listen` while a failed start is being cleaned up); the pool lookup
function answers a started pool or NULL; a pool is created once; protocol sequences
are registered.

In `CallDispatch` a call has one pool, the one it was received for. The threads of a reserved
pool serve that pool's calls, those of the default pool serve all, and no call is given a thread
while one waits that this thread could execute. The history `own` of `CallThreads` keeps the pool
of an accepted call for the refinement mapping; the code forgets it once a thread is chosen.

Left out: socket activation and `rpc_server_set_thread_pool_fn` (the
lookup function's answer is nondeterministic instead), and the cancel routines
(`comcthd.c:2627-2807`).

### Datagram call protocol

One activity: one binding handle, one call at a time, sequence numbers 1, 2, ....
Calls are single packets. `net` is the set of packets sent: a packet may be
received any number of times, in any order, or never, so loss, duplication, delay,
reordering and retransmission need no action of their own. Replies the client
would drop (they answer no call it waits for) are not kept; `awaited` says which call
that is. A ping does the same whenever it arrives, so it is answered at once or lost.

A packet handler holds the global lock and the call's lock and is one action. An
executor (`rpc__dg_execute_call`) is split where it releases the call's lock:

| `pc` | place in `dgexec.c` |
|---|---|
| `start` | queued, or before its first look at the state (250-286) |
| `lock` | call lock released to take the global lock first (654-663) |
| `way` | in the who-are-you callback, unlocked (`dgsct.c:711-836`) |
| `relock` | between `RPC_UNLOCK(0)` and `RPC_DG_CALL_LOCK` (674-676) |
| `stub` | the manager runs (820-905) |

A call queued by the thread pools is an executor at `start`; `rpc__cthread_dequeue`
of an orphaned one is that executor's next step (`StartAborts`). `scall` states are
those of the code (`recv`, `final`, `idle`, `orphan`; `free` is unallocated storage;
`xmit` is passed through inside one action). A handle that neither the entry nor an
executor refers to is freed (its reference count is zero). `Crash` is any end of the
server process followed by a start with a later boot time; the assert behind an empty
receive queue (`dgexec.c:456`) ends the process in this way too.

Client: `ccall` is the handle's call, `hboot` the binding's boot time. A cached call
keeps its boot time, a new one takes the binding's. `Outcomes` is what
`rpc__dg_call_transceive`, `rpc__dg_call_end` and `rpc__dg_call_did_mgr_execute` let
the application see: a result (`ok`), a failure (`failed`), or a failure with the
assurance that the manager did not run (`denied`).

Histories: `execs` counts manager executions (an idempotent call counts once),
`outcome` is what the application saw, `overtaken` records that a who-are-you callback
returned after the client had moved on to a newer call.

Left out: maybe, broadcast and callback calls, faults, cancels, fragments and facks
(`DgTransfer`'s subject),
authentication, several threads or bindings sharing an activity (the client's table
gives an activity to one call at a time), wrap-around of sequence numbers. A client
crash is a new activity. `ForgetActivity` lets the server drop the entry (ten minutes
after its last use) only when the client is not in a call and no packet is under way.

### Datagram fragments and windows

`DgTransfer` takes one message of one or more fragments, a request (the client sends) or
a response (the server sends), from the first fragment the stub fills to the packet that
tells the sender that everything arrived. `xq` is the transmit queue with the fields of
`rpc_dg_xmitq_t` (`re` is `rexmitq`, `cw` the fragments marked `in_cwindow`, `quiet` those
flagged `NO_FACK`), `rq` the receive queue, `snd` and `rcv` the threads and pings of the
two ends. The sender: `StartFrag`, `AppendFull`, `Push`, `Wake` (its thread between waits),
`Facked`, `GotNocall`, `GotWorking`, `GotPing`, `GotOver`, `XmitqTimer`, `PingTimer`. The
receiver: `Inserts` (`rpc__dg_call_recvq_insert` with its fack and wake-up),
`StartExecutor` (which may have to wait for a reservation), `Receive`, `Sleep`, `Reply`,
`GotPingOfSender`, `GotDataLate`, `ReceiverTimer`.

Packets travel in two queues. A loss, an overtaking, a second delivery, a timer that fires
while packets or threads still could make progress, and a shortage of packets or
reservations are faults; `MaxFaults` bounds them together. A timer that fires when nothing
else can move is free: it is what the runtime relies on. Serial numbers only grow, so the
state graph has no cycles and `TransferEnds` asks that no state is a dead end too early.

Abstracted: sizes (a fragment is a unit; the conversion of a window to kilobytes and back
may come out one short), which part of a blast a fack's increment stands for
(`TRACK_CURRENT_BLAST`; any number up to what was confirmed), and the clocks behind
`xq_timer` (the limit of a blast may or may not rise). Left out: the first fack of a
client's very first call (`first_fack_seen`), private client sockets, authentication,
broadcast, the server's idle timer while it receives (it orphans the call, `DgCall`'s
subject), idempotent requests of one fragment.

### Connection-oriented calls

Everything under `transport/cn` holds the global mutex, so an action is what a thread does
between two places that release it: around `sendmsg`, in the wait for a fragment, while a
stub or manager runs. The state machines are tables (`CnCallSM`); an event without an
entry aborts the process as `rpc__cn_call_sm_protocol_error` does (`fatal`). The client's wait
is its predicate; the server's waiters share one condition variable that is signalled,
not broadcast, so there the signal is explicit (`woken`).

A receiver thread that has read from its socket waits until no send of the association is under
way and then looks at the association's status (`receive_packet`, `cnrcvr.c:1321-1381`). One
`recvmsg` may bring more packets than the one asked for: they stay in the overflow buffer, `ovf` of
them, and are handed on one by one, without that wait and without that look, the mutex being free
in between. A receiver that finds the connection closed has handed on its overflow buffer before; what
it had not read is lost. Thread pools are reduced to their answers (run, queued,
refused); a cancel reaches an executor only in its manager, sends and waits included.

Histories: `seen` (what each manager was given), `overlap` (a call found another one on
the association), `acted`, `late`, `dropped` (what became of a cancel), `crossed` (the call's last
packet was handled while an alert was being sent), `unsaid` (the packet that ends the call was
given up).

Left out: security, alter-context, serialization of callers on one binding, callbacks, the
check for cancels after every eighth fragment of a long send, a receive queue at its limit.

### Connection-oriented associations and groups

One client process and one server process. Connection `a` has an association block at each
end (`cli.acb[a]`, `srv.acb[a]`) with the code's fields; groups likewise. A caller goes
through `rpc__cn_assoc_request` (`AtRequest`, `OpenSecond`, `OpenFirst`, `WaitForCreator`,
`Opened`, `Bound`, ...), its call and `rpc__cn_assoc_dealloc`; each association has a receiver
thread per side, and the reclaiming timers may tick at any time while an association is
idle. `ctx` is a context handle: while it is held the client keeps a connection
(`rpc__cn_network_maint`), the server monitors the group (`rpc__cn_network_mon`) and runs the
handle down once its last connection is gone and no call of the group runs. The
"scanned" mark of the reclaiming pass is abstracted to a tick. `Patient` threads retry
failed connects (infinite timeout).

Histories: `grp` of an executor (the group that counts it), `aborted` (the server's timer
ended an association of the group), `remid` of a handle.

Left out: alter-context, authentication, the retry with an older protocol version, the
wait for a full group, several addresses, the unlocking inside sends.

## 3. Runs

Passing runs (states and times with two workers):

| Run | Instance | Shows |
|---|---|---|
| `pools_steady` (72,000 states) | 3 calls, default and reserved pool, 1-2 threads each, no stop, fair | counters typed, `CallDispatch` implemented (no accepted call lost, none overtakes a call of its own pool), every accepted call finishes |
| `pools_lifecycle` (251,000) | two listens and stops, a pool created and freed, one failing start, fair | exclusive execution, shutdown ends every thread, freed pools have none, nothing runs again, stop and free return |
| `pools_pressure` (467,000) | three default threads, queue lengths 0-2 changed under load, one fault | the two lists of a queued call agree; the published idle thread is one that waits, but for a thread that was given a call before it first had the mutex |
| `dg_calls` (501,000) | 2 calls, idempotent or not, one abandoned, no restart | handles stay with executors; wrong results and wrong denials need an overtaken callback |
| `dg_restart` (228,000) | 2 non-idempotent calls, one restart | types, at most one execution (unless overtaken), `DgContract` implemented |
| `dg_returns` (137,000) | 1 call, unknown interface or not, one restart, one give-up, one reset, fair | the client's call ends, the server's handles are released |
| `dg_transfer` (144,000) | request or response of 1 or 3 fragments, 2 faults, receive queue of 2, packet pool plentiful or rationing, executor with or without reservation, fair | the window accounting holds, nothing is lost, nobody gives up early, every transfer ends |
| `cn_calls` (357,000) | 2 calls of up to 2 request and 1 response fragments, breaks at any point, fair | links and counts of the association, no illegal event at the client, at the server only after a completed call; own responses, own requests (unless overlapping); a disconnect ends every executor |
| `cn_cancels` (240,000) | 1 call, one cancel, finite cancel timeout, fair | outside the three windows named below cancels are forwarded, acted on or given back; the call returns |
| `cn_groups` (947,000) | 2 callers, 2 calls, 2 connections, one break or abandoned caller, both sides reclaim | reference counts, one caller per association, one group per client, groups agree, no rundown under a call, a held handle survives reclaiming |
| `cn_groups_end` (80,000) | 1 retrying caller, 2 calls, 2 connections, one fault, fair | callers come back, a gone client's handles are run down, idle connections close |

One run shows a disagreement between the code and what it says (see `findings`):
`dg_at_most_once`: the who-are-you callback of an abandoned call validates the next call;
after a restart of the server that call runs twice.

`AtMostOnce`, `ResponseIsOurs` and `OwnRequest` are what the protocols should guarantee and
fail as they stand. The passing runs check that one event is the *only* cause:
`OnceUnlessOvertaken`, `OwnResponseUnlessOvertaken` and `DenialTrueUnlessRestarted` (an
overtaken callback; for the last also a restart), `OwnRequestUnlessOverlap` (a call that starts
on an association before the previous one has left it).

### Disagreements without a run of their own

These statements are in the modules, TLC refutes them with the instance named, and the
passing runs check what is left of them.

| Statement | Counterexample |
|---|---|
| `CallThreads!NoIdleAssert` (three threads) | a thread assigned before it first runs publishes itself as idle; the assert at `comcthd.c:239` fails. `IdleUnlessAssignedEarly` finds no other cause |
| `CallThreads!NoCallLost` (one stop, or three threads in a pool) | a call given to a thread that has not woken is dropped when the pools are stopped (`comcthd.c:532`). With three threads and no stop: a created thread finds a queued call before its first wait and runs it with the state `IDLE`, so it can be given a second call, which is forgotten when it next becomes idle. `ImplementsDispatch` and `AcceptedCallRuns` hold, and are checked, for two threads and no stop |
| `CallThreads!NoQeltAssert` (`QueueSizes = {2}`) | raising the queue length of a full reserved pool leaves no queue element; the assert at `comcthd.c:1538` fails |
| `DgCall!ResponseIsOurs` (as `dg_calls`) | a handle is reused for a newer call in the window before `relock`; the old call's result answers the new call |
| `DgCall!DenialIsTrue` (as `dg_restart`) | a call that ran before a restart is rejected by the new instance and reported as not run |
| `DgTransfer!FinalStateEnds` (response of 3 fragments, 1 fault) | facks have emptied the server's transmit queue and the client's acknowledgement is lost: the final state's timer returns at `dgcall.c:617` each time, although the comment at `dgscall.c:591` promises "eventually give up and change to the idle state". A response of one packet is not affected (`DgCall!HandlesAreReleased` holds): it stays queued until it is acknowledged |
| `CnCall!OwnRequest` (2 calls) | the executor of a call that was completed early reads on from the association's queue, which holds the next call's request by then (`cnassoc.c:1214`) |
| `CnCall!ServerNeverIllegal` (2 calls) | a fragment, a fault or an alert reaches a call already completed by a fault or as an orphan: no entry in the table, the server aborts. An executor of such a call that takes a cancel in `sendmsg` finds no `assoc->call_rep` (`cnassoc.c:2048`), which ends the process too |
| `CnCall!CancelEndsCall` (`SlowSpec`, finite timeout) | the cancel is taken in `sendmsg` while the first one is being forwarded; the timer it should have started is never started again and the call waits for its manager |
| `CnAssoc!OneGroup` for `Patient` callers | `i_hold_grp_new_mutex` is not reset between passes (`cnassoc.c:361`, `636`, `705`): a caller that retries clears another creator's flag and two groups arise |
| `CnAssoc!OneGroup` with an abandoned caller | the ack of the abandoned caller's bind creates its group after the next creator began |
| "a client has one active group" (`Cardinality(Active(cli)) <= 1`; 3 connections, 3 calls, 1 fault) | a second association is being opened when the only one of its group is reclaimed or breaks; the next thread creates a group, and the second association's ack makes another for the server's old one. `OneGroup` therefore counts the groups that the server made new |
| `CnAssoc!HandleSurvives` if the server's timer aborts | shutdown requests stay unanswered for several ticks; the server then aborts one association while the client closes the other, and a held handle is run down (`MaxShutdowns` counts them; the statement exempts groups with `aborted`) |

The `CnCall` windows named in its properties' comments and `Miscounted` in `CnAssoc` are
exceptions of the same kind. `CancelNotLost` has three: a cancel caught when the response is
complete is dropped (`dropped`); one counted after `rpc__cthread_cancel_caf` is refused (`late`);
one is being sent, and not counted as sent yet (`cncclsm.c:1563-1573`), when the receiver takes the
last fragment of the response out of its overflow buffer and compares the counts (`crossed`).
A cancel that interrupts the sending of a fault leaves the client without an answer (`unsaid`). A
group that loses an association during its call never counts the call out (`cnsasgsm.c:814`).

Seen while modelling and outside the models: `rpc__cthread_cancel_caf` before
`enable_post` forgets queued cancels (`comcthd.c:2673`); a refused bind leaves a new server
group open; a caller that gives up before its receiver starts leaves the socket open; the
retry at `cnassoc.c:786-793` leaks the first association block; a server stub that sends a
response of several fragments goes on with `call_rep->assoc` when an orphan packet between two
of them has cleared it (`cnxfer.c:350-369`).

### Bounds

Pools: one reserved pool exercises every path that differs from the default pool;
three calls fill a queue behind a busy thread. Two threads in a pool are the most with which the
contract is kept (`pools_steady`); the third brings the state of `NoIdleAssert`, so the idle
bookkeeping is checked with three (`pools_pressure`).
`QueueMultiplier` is 8 in the code and 1 here so that queues fill; `CounterMod` stands
for 2^32. `MaxListens`, `MaxStops`, `MaxFrees`, `MaxFaults` bound the history.

Datagram: two calls are an older and a newer one, two handles and two executors are an
orphan and its successor; one restart gives two boot times; `MaxGiveUps` bounds
abandoned calls, `MaxResets` binding resets. One branch needs more than the
passing runs have room for: `StartIsOld` is reached with three calls and two give-ups
(TLC shows it unreachable with one give-up), an instance of more than six million
states. The combination of two calls, a restart and a give-up (8.2 million states) was
explored once outside the runs for `OnceUnlessOvertaken`, `OwnResponseUnlessOvertaken`
and `HandlesFollowExecutors`, without a violation.

Fragments: a message longer than the receive queue (3 over 2) makes windows close, facks
report a full queue and a fragment be dropped; two faults are what one retransmission and a
lost answer to it cost, and as many as the two tries that make an end give up, so
`GivesUpOnlyAfterFaults` can be false. The initial blast of 2 and its limit of 4 stand for
4 and 8. The state "low" of the packet pool (a window of two) differs from
"plenty" only for longer queues and is left out.

CN calls: two calls are what a packet of the wrong call needs; two request fragments
separate a first, a middle state and a last one. CN groups: two callers and two connections
give a second association in a group, two creators, and both ends reclaiming;
one break or abandoned caller is placed at every point.

Deadlock checking is off in every cfg: a server that has handled its bounded calls,
or whose process ended in an assert, and a finished transfer have nothing more to do.

### Fairness

Pools: weak fairness of each executor thread (threads are scheduled, managers return),
of the stop sequence and of waiting `free` calls (their wait's predicate stays true
once true), and of the reaper's periodic timer. Nothing is assumed of invocations or
of the application.

Datagram: weak fairness of the client's own timers and thread, of each executor
(managers return and the callback has a finite timeout) and of the server's timers.
Nothing is assumed of the network: `CallReturns` and `HandlesAreReleased` hold if every
packet is lost. With the communication timeout set to infinite the code promises no return.

Fragments: `WF(Runs)`, one fairness for threads, deliveries and timers together: something
that can happen happens. Losses are not part of it. No state can be left and come
back to, so this is as weak as an assumption that steps are taken at all.

CN calls: weak fairness of the calling thread, of both receivers and of the cancel timer,
and of executors in `FairSpec` (managers return), not in `SlowSpec`. Nobody has to make a
call, to cancel one or to break the connection.

CN groups: `WF(Runs)`, threads, receivers, timers and managers together; beginning a call,
abandoning one and breaking a connection are not in it. Calls and connections are bounded, so
`Runs` cannot go on for ever.

## 4. Proofs

Every theorem holds for all values of the constants and rests only on the assumptions named
with them, which TLC evaluates in the runs. Each has one lemma per operation or kind of step.

### Call thread pools

`CallThreadsProofs` proves for every set of calls and pools and every bound, from
`PoolAssumption`, `CallAssumption` and `BoundAssumption`:

* `TypeCorrect`: `Spec => []TypeOK`. `TypeOK` is not inductive: `n_idle` is decremented
  when a waiting thread is taken, so `n_idle >= 1` must follow from the state. The
  invariant `TypeInv` adds `IdleCounted` (a published idle thread is counted) and
  `StopAtListed` (the stop sequence is at a listed pool).
* `Exclusion`: `Spec => []RunsExclusively`. The inductive `ExclInv` adds that list
  membership and `is_queued` agree one way (`QueueMarks`), that a queued call is in the
  phase "accepted" (`QueuedIsAccepted`), that a thread about to look at its state finds one
  that was set (`LiveThreads`) and how held calls relate to phases (`HeldCalls`). It must hold through
  restarts, where the stronger `QueuesAgree` does not.
* `Finality`: `Spec => NeverRunsAgain`, from the same invariant.
* `ShutdownComplete`: `Spec => []ShutdownTerminatesThreads`. The listener only looks at the
  tables of the pools on its list, one after the other, while pools can be created, or end a
  failed start, behind its back. The inductive `ShutdownInv` says that the list holds each public
  pool once (`ListInv`), that a thread that exists is in its pool's table and has not said that it exited
  (`ThreadInv`), and that calls are taken only between the start and the stop, so that the
  pools the listener has passed while it stops (those before `stop_at`) stay without
  threads, and when nobody listens no public pool has any (`ListenInv`).

### Datagram calls

For every number of calls, server instances, call handles, executors, give-ups and resets,
and every set of kinds, from `KindAssumption`, `SizeAssumption`, `SlotAssumption` (handles and
executors are numbered: the code takes the first free one) and `RetryAssumption`. The
steps fall into a few kinds (`StepKinds`), for which most lemmas are stated: the server ends a
call or only answers (`EndingStep`), begins one (`NewCallShape`), carries one on
(`AdvancingStep`), crashes or forgets the activity; the client starts a call, or says no more of
the one it is in (`QuietClient`).

`DgCallProofs`: `TypeCorrect` (`TypeOK`) and `FollowCorrect` (`HandlesFollowExecutors`), from
`BasicInv`, which adds

* what a packet, a handle or an executor names is a call that was made (`NetInv`, `GoodScall`,
  `GoodExecutor`), and calls are made in the order of their numbers (`MadeInOrder`): otherwise
  `high_seq`, which is taken from packets and callbacks, could leave its range;
* a free handle is nobody's, so that a new call gets a handle of its own;
* a final handle has a reply in the network for as long as its call is awaited
  (`FinalHasReply`), so that the answer to a ping exists.

`OwnResponse` (`OwnResponseUnlessOvertaken`) adds results to that. The inductive `HandleInv` says
that, as long as no callback was overtaken, a handle in use has one executor at work on the
handle's own call, and the call that is being received is the entry's highest. `OneExecutor`
is what fails after an overtaken callback: the handle is used again while an executor still
works on it.

Then `RunsAtMostOnce` (`OnceUnlessOvertaken`) and `DenialsAreTrue`
(`DenialTrueUnlessRestarted`), from `OnceInv(k)` for some assignment `k` of kinds to the calls
(the kind of a call that was not made yet is still open, hence the existential quantifier).

* `NamesInv(k)`: requests, handles, executors and the client agree on the kind of every call, and
  nobody knows the boot time of an instance before it has started. So a crash leaves no packet
  that the new instance would take for one of its own.
* A call is *vouched* for when the client has tied it to the running instance: a request
  carries its boot time, a callback was answered with the call, or an executor has been
  cleared by either. `RunsOnce`: only a call that is vouched for starts a non-idempotent
  manager; and once that has run, the call can be vouched for, or the client still vouch for it,
  only while the entry remembers it (`high_seq` is at least its number and no executor is
  pending on it).
  This is what `execs[n] <= 1` needs: the entry may be lost, by a crash or after its ten minutes,
  but then nobody vouches for the call.
* `DeniesTruly`: for the first instance, the entry remembers every call that has run and is still
  asked for, and a call rejected because of a failed callback has not run and is remembered.

TLC checked these invariants on the constants of `dg_calls` and `dg_restart` before they were proved.

### Datagram fragments and windows

For every set of message lengths, window, receive queue, number of retries and of faults:
`DgTransferProofs` proves `TypeOKHolds` (`TypeOK`) and `NothingLostHolds` (`NothingLost`). The
assumptions are `FragAssumption`, `SenderAssumption` and `ReceiverAssumption`. Two of their
conditions come from the code's constants (8, 4 and 8, `dg.h:985`): a blast has at least two
packets (`dgxq.c` never makes the next one smaller), and the largest limit of a blast differs
from the initial one by an even number. The limit rises and falls by two, is capped above by
the one and lowered whenever it is more than the other, so an odd difference would let it fall
below its initial value.

Both theorems come from `TransferInv`, which says

* `SendQueue`, `Limits`, `Exact`: what is to be sent again has left the window, what was not
  sent yet is at the end of the queue, and the two counters are the sizes of the sets of
  fragments that are marked. The accounts need not be right after the sender has ended: the
  queue is emptied then without them, and they are not read again;
* `RecvQueue`: what the receiver has in order is followed by a gap at `next`, and the queue is
  within `max_queue_len` of what was consumed, so that it cannot fill up with fragments that do
  not help;
* `Kept`: a fragment that was queued for sending is still queued, or received. A fack frees
  fragments, so it rests on `BackOK`: whatever a fack under way acknowledges, as its base or in
  its mask, has been received, and what is received stays received (`ReceivedMore`). A late or
  repeated fack can therefore do no harm;
* `Ending`, `ThereOK`: the sender marks a fragment as its last when it is the last one of its
  queue that is sent again, not of the message. Such a mark is true enough when everything behind the
  fragment was received; the receiver holds the message for complete only if there is no gap
  in front of the mark either, so `all_pkts_recvd` is right all the same.

The invariant is a conjunction about the sender, the receiver and the two directions of the
network, and the proof goes by those: a sender's step leaves the receiver's part alone
(`SenderSide`) and the other way round (`ReceiverSide`); each is one of a few kinds (`QueueStep`,
`TransmitStep`, `AnswerStep`, `FreeStep`; `HandlesStep`, `ThreadStep`, `IdleStep`), and what the
operators do to the queues is stated once (`BlastLimit`, `FreeQueue`, `FackQueue`,
`InsertQueue`). TLC checked `TransferInv` on the constants of `dg_transfer` and on other lengths
and limits before it was proved.

### Associations and groups

For every number of threads, connections, calls, faults and shutdown requests, from
`BindAssumption` alone.

`CnAssocClientProofs`: `OneCallerHolds` (`OneCaller`). Nothing in the model says that a thread
has an association for itself: it takes one of a group's list whose count of users is zero, so
the proof is about the lists. The inductive `ClientInv` says

* `ClientLists`: a group is active as long as its list is not empty, lists each association
  once, and what it lists is open or active and says that it is in this group;
* `CallerInv`: no two callers have one association, the count of users of one that is had is
  positive, and its state fits the place its caller is at (`CallerOK`): a binding association
  whose status is good and whose syntax is known is open, and one with a caller in a call is
  never open, or another caller could find it;
* `AcbInv`: `assoc_acb_ref_count` counts the caller and the receiver, and an association is
  in a group only while its receiver runs.

Each action is shown to change one association in a way that keeps its group's list
(`Changes`, `ChangesLists`), and then to be a step of its caller (`CallerStep`), of the
receiver (`ReceiverStep`) or of nobody (`UnheldStep`).

Every step of the client is also `Onward`: an association does not begin again, joins a group
only by an ack that is at the head of its stream, and a group is active only if it was, or by
that ack. The later proofs need no more of the client's actions than this.

`CnAssocProofs`: `RefsCountHoldersHolds` (`RefsCountHolders`) and `NoRundownInCallHolds`
(`NoRundownInCall`), from `AssocInv`, which is `ClientInv` with

* `CountsInv`: the server's count for an association is its executors and its receiver, an open
  association is on the list of its group and counts its calls as users, and a group has counted
  at least the executing calls that name it. At least: a call whose association has left a group
  that keeps others is never counted out (`Miscounted`), so equality is not invariant;
* `WireInv`: a request makes an executor for a call that has none and a bind adds an
  association that no call uses, because of what the client sends. Of each call there is one
  request at most, on the wire or still to be sent by one caller (`Unique`), the server has not
  seen its call (`Unseen`), a bind is the first packet of its connection (`BindFirst`), and a
  connection still to be made is unknown to the server (`FreshInv`).

Three more theorems add an invariant each to `AssocInv`:

* `TypeOKHolds` (`TypeOK`), with `HandleInv`: the handle that the client has is counted in its
  group while that is active, so that `rpc__cn_network_stop_maint` never counts below zero; and no
  group comes to be under the name of one that the handle was in, because a group is named
  after an association, which does not begin twice (`Young`).
* `SameGroupHolds` (`SameGroup`), with `AgreedInv`: an ack that is on its way names the group that
  the server has the association in, and as long as the bind is on its way there is no ack
  and the client has the association in no group. Nothing but a bind that is taken
  (`Answered`) and a new connection (`Called`) puts a bind or an ack on the wire (`Settled`).
* `OneGroupHolds` (`OneGroup`), with `CreateInv`: when nobody retries and nobody is cancelled, the
  caller that opens the first association of a group has the flag, alone, and while it opens
  it no founded group is there but its own; its bind and the ack are about its own wish (`Asked`);
  and whoever joins a group of the server names one whose founder has had its ack, so
  that no second founder of it can follow.

TLC checked these invariants on the constants of `cn_groups` before they were proved. It refuted a
first form of `OneGroup`, that a client has one *active* group: a second association
that is being opened when the only one of its group goes joins the server's old group under a
client's group of its own, so the property is about the groups that the server made, `Founded`.

### Calls over a connection

`CnCallProofs` proves, for every number of calls, fragments and cancels and every set of maybe
calls, from `WireAssumption`, `CallTypes` (`TypeOK`), `AssocTracksCallsHolds`
(`AssocTracksCalls`) and `OwnResponseHolds` (`OwnResponse`). The three come from one inductive
invariant, `CallInv`:

* `ClientTypes`, `ServerTypes`, `WireTypes`: the records' types, and that a packet the client is
  sending is its own call's;
* `BeginsOnce`: of the calls on the wire none is newer than the client's, the first fragment of
  each is there at most once, and until the server has read it that server knows nothing of the
  call. So a call rep that is made is made in an empty record, and `sv.ref + 1` is one holder more;
* `Stages`: what each place of a call's thread says of its record, and that on a connection that
  is up a send fails only in a manager that took a cancel (`Steady`);
* `Stream`: the responses to the current call, the ones its caller has been given, those in the
  association's queue and those on the wire, are numbered 1, 2, ... without a gap across the
  three (`Runs`), and what the call's thread may still send has the next number (`Answered`).
  Responses of calls before it may still be on the wire; they do not count.

The steps of the client are shown to take fragments from its queue or none (`Keeps`, `Reads`,
`Forwarded`). A step of the server is one of a call's thread (`Goes`), of somebody who
only wakes or cancels threads (`Nudged`), or makes a call (`BeginsKeepsInv`); only
`ServerSendmsg` lengthens the stream. TLC checked `CallInv` on the constants of `cn_calls` and
`cn_cancels`, and with maybe calls, before it was proved.

`CnLegalProofs` proves `ClientNeverIllegalHolds` (`ClientNeverIllegal`): no event finds an empty
entry in the client's table (`cncclsm.c`), which would abort the process. A response, a fault or
the end of the stub is illegal in some states, so it must follow that it does not come
then. The inductive `LegalInv` and `Ahead`, proved together with `CallInv`, say

* `Orderly`: a call in `STUB_WAIT` is sending its first fragment or has sent nothing, and one whose
  last fragment has been handed over is in `RESPONSE`, `COMPLETED` or `FAILED`;
* `Answering` implies `Asked`: the server responds, or holds what it needs to respond, only when the
  last fragment of the request has been given to the connection;
* `Says` and `Silent`: only a call that has begun speaks, its last word is said when its record is
  completed and nothing follows it on the wire; so a caller that is completed or has failed with
  the call still in its hands gets nothing more;
* `Ahead`: what is in the receiver's overflow buffer is on the wire, and is `Timely`: if it is for the
  client's call, the call can do with it now. This takes the place of the wait for the
  sender, which such packets do not observe.

What the server's steps may do to a call is one relation, `Speaks`, shown of each of them; what the
client's do to its own is `Settled`, `Going` or `Turned`. TLC checked `LegalInv` and `Ahead` on the
constants of `cn_calls`.

It also proves `IllegalOnlyAfterCompletionHolds` (`IllegalOnlyAfterCompletion`): the server's table
(`cnsclsm.c`) does have empty entries that are reached, but only in a call that a fault or an
orphan packet had completed, or by calls that overlap. The inductive `BlameInv` rests on
`CallInv` and `LegalInv` and says

* `Sound`: a call whose thread is in the manager or on its way there has its association or is known
  to be an orphan, which is why `null_assoc` and, unless calls overlap, `null_call_rep` have an
  orphan for their victim;
* `Closed`: nothing of a request follows its last fragment, and nothing of it is on its way once
  the server's call is in `RESPONSE`, so no fragment is illegal there. That a client does not
  go on after its last fragment is `LegalInv`'s;
* `Apart`: as long as calls do not overlap, only the linked call holds the association, a last
  fragment in the queue is its own, and a call that has read a last fragment has left `REQUEST`,
  so that its answer is legal.

A step of the server does to a call what `Fair` allows and to the queue what `Drains` does
(`Behaves`); the steps that read a fragment of a request are shown one by one. TLC checked
`BlameInv` on the constants of `cn_calls`, on more fragments and with maybe calls.

`CnOwnProofs` proves `OwnRequestUnlessOverlapHolds` (`OwnRequestUnlessOverlap`). An executor takes
whatever is at the head of its association's queue (`rpc__cn_assoc_receive_frag` asks for no call
id), so what it is given must follow from what can be in the queue. The inductive `OwnInv`, proved
together with the three invariants above, says, as long as calls do not overlap:

* `Requests`: the fragments of every request on the wire have consecutive numbers, the last
  being the one its caller has sent last;
* `Owned`: a manager has been given its call's fragments from the first on, and the queue of an
  association that is linked to a call whose executor may still read (`CanRead`) has only
  that call's, beginning with the one that comes next. While the call is in `REQUEST`
  the two have all that came off the wire; a call that leaves `REQUEST` by a fault or an orphan
  packet loses fragments, but only behind those that it keeps;
* `Told`, `Caller`: the last fragment of a response, on the wire or in the caller's queue, comes
  from a call whose manager has the whole request, and so does a result `ok`;
* `Queue`, `Replies`: an association without a call has nothing queued, and on a connection that
  is up a call ends in its stub only with the whole request or as an orphan.

A step of the server reads the head of the queue, leaves the queue alone or leaves it to nobody
(`Passes`); a step of the caller takes from its own queue (`Resumes`) or gives up (`Yields`). TLC
checked `OwnInv` on the constants of `cn_calls`, on more fragments and with maybe calls.

### What is only model-checked

* Liveness under fairness (`CallReturns`, `HandlesAreReleased`, the pools', the transfer's and the
  connection-oriented properties): neither fairness nor `ENABLED` is in the provers' reach.
* `QueuesAgree`: it compares `SelectSeq`, a recursion over sequences, with the queues; induction
  over data is out of reach.
* `ImplementsContract` of `DgCall` is a refinement for the constants of its run
  only (non-idempotent calls, no client that gives up): it is no theorem for all constants.
* `ImplementsDispatch` and `AcceptedCallRuns` are statements about pools of at most two threads that
  are not stopped, not about every size; `IdleUnlessAssignedEarly` is one for every size, checked
  with three.
* `GivesUpOnlyAfterFaults` of `DgTransfer` counts the retries against the faults of a whole
  behaviour; `HandleSurvives` of `CnAssoc` relates the lists of both sides through every shutdown
  request and every broken connection under way; and what becomes of cancels in `CnCall`: still to
  be proved.

## 5. Not modelled

* Sequential code without a protocol: the IDL compiler (almost a quarter of the implementation's
  lines), NDR marshalling, towers and string bindings, address families, code sets, UUIDs,
  demos. What can be said of them is tested more cheaply than modelled.
* Authentication: its state lives in the security library.
* Registries (`combind.c`, `comif.c`, `comobj.c`, `comep.c`), the timer queue, the context
  handle table, the datagram packet pool's waits and the endpoint mapper's storage manager: models
  of their own, in the plan below.
* Socket handling (`comnlsn.c`, `dgsoc.c`, `cnnet.c` beyond connect, monitor and maintain).

## 6. Plan

1. Done: thread pools with listen/stop, their contract and first proofs; the datagram call
   protocol with its contract; fragments and windows; connection-oriented calls with
   cancels; associations, groups and rundown.
2. Proofs. Done: the pools' exclusion, finality and shutdown; the datagram protocol's types,
   handles, results, at-most-once execution and denials; a transfer's types and window accounts,
   and that it loses nothing; associations' callers, reference
   counts, rundown, states and the groups of both ends; the requests and the responses of calls
   over a connection, and that their client never aborts and their server only over a
   completed call. Next: `CnAssoc!HandleSurvives` (the server lists an association as long as
   the client does, or a shutdown request or a break is under way).
3. `RpcTimer` (a clear during the routine's run), packet reservations (`dgpkt.c`) with their
   waits, context handles (`ctxerrtl.c`), the endpoint mapper's storage manager with crashes.
   Runs about one component would be merged to make room for them.
