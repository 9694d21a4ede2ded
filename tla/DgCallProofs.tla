------------------------------ MODULE DgCallProofs ------------------------------
(***************************************************************************)
(* Proofs about DgCall for every number of calls, restarts, call handles   *)
(* and executors: types; the handles and executors of the server; a call   *)
(* handle has one executor and the client gets the result of its own call; *)
(* a non-idempotent manager runs at most once, and a call that is reported *)
(* as not executed has not been.                                           *)
(***************************************************************************)
EXTENDS DgCall, FiniteSetTheorems, TLAPS

-----------------------------------------------------------------------------
(* The strengthened type invariant *)

\* Packets as the two sides build them; a ping is answered when it is sent.
PacketType == {"request", "ack", "quit", "response", "reject", "working", "nocall",
               "quack"}
AnyPacket == [type : PacketType, seq : Seqs, boot : Boots, kind : Kinds \cup {"none"},
              body : Status \cup {"none"}, ran : 0..MaxSeq]
\* Whatever names a call names one that the client has made.
Made(n) == n \in Seqs /\ outcome[n] # "none"

GoodPacket(p) ==
  /\ p \in AnyPacket /\ Made(p.seq)
  /\ p.type = "request" => p.kind \in Kinds
  /\ p.type = "reject" => p.body \in Status
NetInv == \A p \in net : GoodPacket(p)

AnyScte == [present : BOOLEAN, high : 0..MaxSeq, valid : BOOLEAN, scall : Scalls \cup {0}]
AnyScall == [state : {"free", "recv", "final", "idle", "orphan"}, seq : 0..MaxSeq,
             kind : Kinds \cup {"none"}, rq : BOOLEAN, needs : BOOLEAN]
AnyExecutor == [pc : {"none", "start", "lock", "way", "relock", "stub"},
                scall : Scalls \cup {0}, seq : 0..MaxSeq, kind : Kinds \cup {"none"},
                ans : SUBSET (0..MaxSeq), st : {"ok", "failed"}]

\* A handle that is not free is some call's; an executor that is at work has a
\* handle and, from its second look on, the call it took.
GoodScall(h) ==
  h \in AnyScall /\ (h.state # "free" => Made(h.seq) /\ h.kind \in Kinds)
GoodExecutor(e) ==
  /\ e \in AnyExecutor
  /\ e.pc # "none" => e.scall \in Scalls
  /\ e.pc \notin {"none", "start"} => Made(e.seq) /\ e.kind \in Kinds
ServerInv ==
  /\ sboot \in Boots \ {0} /\ ways \subseteq Boots /\ overtaken \in BOOLEAN
  /\ execs \in [Seqs -> Nat]
  /\ scte \in AnyScte /\ (scte.scall # 0 => scte.present)
  /\ scall \in [Scalls -> AnyScall] /\ \A s \in Scalls : GoodScall(scall[s])
  /\ exe \in [Executors -> AnyExecutor] /\ \A x \in Executors : GoodExecutor(exe[x])

AnyCcall == [state : {"none", "idle", "recv", "orphan", "final"}, seq : 0..MaxSeq,
             kind : Kinds \cup {"none"}, boot : Boots, bound : BOOLEAN, xq : BOOLEAN,
             done : BOOLEAN, ran : 0..MaxSeq, status : Status, reject : Status \cup {"none"},
             quack : BOOLEAN]

\* The client waits for replies exactly while its call is not over.
ClientInv ==
  /\ ccall \in AnyCcall /\ hboot \in Boots
  /\ InTable => Made(ccall.seq) /\ ccall.kind \in Kinds
  /\ awaited = IF ccall.state \in {"recv", "orphan"} THEN ccall.seq ELSE 0
  /\ outcome \in [Seqs -> {"none", "pending", "ok", "failed", "denied"}]
  /\ giveups \in 0..MaxGiveUps /\ resets \in 0..MaxResets

\* The calls are made in the order of their numbers.
MadeInOrder ==
  \E k \in 0..MaxSeq : \A n \in Seqs : outcome[n] # "none" <=> n <= k

\* A handle in its final state has a reply to send again when a ping asks for it.
FinalHasReply ==
  \A s \in Scalls :
    scall[s].state = "final" /\ scall[s].seq = awaited =>
      \E q \in net : /\ q.type \in {"response", "reject"}
                     /\ q.seq = awaited /\ q.boot = sboot

TypeInv == NetInv /\ ServerInv /\ ClientInv /\ MadeInOrder /\ FinalHasReply

\* Handles and executors keep together, and a free handle is nobody's.
FollowInv ==
  /\ HandlesFollowExecutors
  /\ \A s \in Scalls :
       scall[s].state = "free" => scte.scall # s /\ LiveExecutors(exe, s) = {}

-----------------------------------------------------------------------------
(* Facts about the operators of the model *)

\* The headers the two sides build are packets, with the fields they are given.
LEMMA PacketForms ==
  ASSUME NEW n \in Seqs, NEW b \in Boots
  PROVE  /\ \A t \in PacketType :
              /\ Packet(t, n, b) \in AnyPacket /\ Packet(t, n, b).type = t
              /\ Packet(t, n, b).seq = n /\ Packet(t, n, b).boot = b
         /\ \A k \in Kinds :
              /\ Request(n, b, k) \in AnyPacket /\ Request(n, b, k).type = "request"
              /\ Request(n, b, k).seq = n /\ Request(n, b, k).boot = b
              /\ Request(n, b, k).kind = k
         /\ \A st \in Status :
              /\ Reject(n, b, st) \in AnyPacket /\ Reject(n, b, st).type = "reject"
              /\ Reject(n, b, st).seq = n /\ Reject(n, b, st).boot = b
              /\ Reject(n, b, st).body = st
         /\ \A r \in 0..MaxSeq :
              /\ Response(n, b, r) \in AnyPacket /\ Response(n, b, r).type = "response"
              /\ Response(n, b, r).seq = n /\ Response(n, b, r).boot = b
              /\ Response(n, b, r).ran = r
  <1>1. 0 \in 0..MaxSeq
    BY SizeAssumption
  <1>2. QED
    BY <1>1 DEF Packet, Request, Reject, Response, AnyPacket, PacketType, Status

\* Sending loses nothing, and adds at most the packet.
LEMMA SendAdds ==
  ASSUME NEW q, Send(q)
  PROVE  /\ net \subseteq net' /\ net' \subseteq net \cup {q}
         /\ q.type \notin Brief \/ q.seq = awaited => q \in net'
  BY DEF Send

\* A nonempty set of numbers has a least element.
LEMMA LeastIn ==
  ASSUME NEW S \in SUBSET Nat, S # {}
  PROVE  Least(S) \in S
  <1> DEFINE R == OpToRel(<, Nat)
  <1>1. PICK m \in S : \A n \in S : <<n, m>> \notin R
    <2> HIDE DEF R
    <2>1. IsWellFoundedOn(R, Nat)
      BY NatLessThanWellFounded DEF R
    <2>2. QED
      BY <2>1, WFMin, Zenon
  <1>2. \A n \in S : <<n, m>> \in R <=> n < m
    BY DEF OpToRel
  <1> HIDE DEF R
  <1>3. \A n \in S : m <= n
    <2>1. \A n \in S : ~(n < m)
      BY <1>1, <1>2, Zenon
    <2>2. QED
      BY <2>1
  <1>4. QED
    BY <1>3 DEF Least

\* The next number of the activity is that of a call not made yet.
LEMMA NextSeqNew ==
  ASSUME MadeInOrder, NextSeq \in Seqs
  PROVE  \A n \in Seqs : Made(n) <=> n < NextSeq
  <1>1. PICK k \in 0..MaxSeq : \A n \in Seqs : outcome[n] # "none" <=> n <= k
    BY DEF MadeInOrder
  <1>2. {n \in Seqs : outcome[n] # "none"} = 1..k
    BY <1>1, SizeAssumption DEF Seqs
  <1>3. Cardinality(1..k) = k
    BY <1>1, FS_Interval, SizeAssumption
  <1>4. NextSeq = k + 1
    BY <1>2, <1>3 DEF NextSeq
  <1>5. QED
    BY <1>1, <1>4, SizeAssumption DEF Made, Seqs

\* Initially no call has been made.
LEMMA TypeInit == Init => TypeInv
  <1> SUFFICES ASSUME Init PROVE TypeInv
    OBVIOUS
  <1>1. 0 \in 0..MaxSeq /\ 0 \in Boots /\ 1 \in Boots
    BY SizeAssumption DEF Boots
  <1>2. NetInv
    BY DEF Init, ClientInit, NetInv
  <1>3. ServerInv
    <2>1. FreeScall \in AnyScall /\ FreeScall.state = "free"
      BY <1>1 DEF FreeScall, AnyScall
    <2>2. IdleExecutor \in AnyExecutor /\ IdleExecutor.pc = "none"
      BY <1>1 DEF IdleExecutor, AnyExecutor
    <2>3. NoScte \in AnyScte /\ NoScte.scall = 0
      BY <1>1 DEF NoScte, AnyScte
    <2>4. /\ scall \in [Scalls -> AnyScall] /\ \A s \in Scalls : GoodScall(scall[s])
          /\ exe \in [Executors -> AnyExecutor] /\ \A x \in Executors : GoodExecutor(exe[x])
      BY <2>1, <2>2 DEF Init, ServerInit, GoodScall, GoodExecutor
    <2>5. sboot \in Boots \ {0} /\ ways \subseteq Boots
      BY <1>1 DEF Init, ServerInit
    <2>6. overtaken \in BOOLEAN
      BY Zenon DEF Init, ServerInit
    <2>7. execs \in [Seqs -> Nat] /\ scte \in AnyScte /\ scte.scall = 0
      BY <2>3 DEF Init, ServerInit
    <2>8. QED
      BY <2>4, <2>5, <2>6, <2>7 DEF ServerInv
  <1>4. ClientInv
    <2>1. NoCcall \in AnyCcall /\ NoCcall.state = "none"
      BY <1>1 DEF NoCcall, AnyCcall, Status
    <2>2. QED
      BY <1>1, <2>1, RetryAssumption DEF Init, ClientInit, ClientInv, InTable
  <1>5. MadeInOrder
    BY <1>1, SizeAssumption DEF Init, ClientInit, MadeInOrder, Seqs
  <1>6. FinalHasReply
    BY DEF Init, ServerInit, FreeScall, FinalHasReply
  <1>7. QED
    BY <1>2, <1>3, <1>4, <1>5, <1>6 DEF TypeInv

-----------------------------------------------------------------------------
(* Steps of the server that end calls *)

\* How a call handle changes when its call is over: not at all, it is given
\* back, or it goes to another state.
Ends(h, g) ==
  \/ g = h
  \/ g = FreeScall
  \/ /\ h.state # "free"
     /\ \E st \in {"final", "idle", "orphan"}, r \in BOOLEAN :
          g = [h EXCEPT !.state = st, !.rq = r]

\* Handles only end calls, executors only finish, the connection table entry at
\* most lets its handle go; a call somebody still receives keeps all it has.
EndingStep ==
  /\ UNCHANGED <<sboot, ways, execs, overtaken>>
  /\ scte' \in {scte, [scte EXCEPT !.scall = 0]}
  /\ scte' # scte => scall'[scte.scall].state # "recv"
  /\ scall' \in [Scalls -> AnyScall] /\ \A s \in Scalls : Ends(scall[s], scall'[s])
  /\ exe' \in [Executors -> AnyExecutor]
  /\ \A x \in Executors : \/ exe'[x] = exe[x]
                          \/ exe'[x] = IdleExecutor /\ scall'[exe[x].scall].state # "recv"
  /\ \A s \in Scalls :
       /\ scall'[s].state = "orphan" => scte'.scall # s /\ LiveExecutors(exe', s) # {}
       /\ scall'[s].state = "free" => scte'.scall # s /\ LiveExecutors(exe', s) = {}
       /\ scall'[s].state \in {"idle", "final"} =>
            \/ scall[s].state \in {"idle", "final"}
            \/ \E x \in LiveExecutors(exe, s) : exe'[x] = IdleExecutor

\* The constants of the records are of the right type.
LEMMA Idle ==
  /\ FreeScall \in AnyScall /\ FreeScall.state = "free"
  /\ IdleExecutor \in AnyExecutor /\ IdleExecutor.pc = "none" /\ IdleExecutor.ans = {}
  /\ NoScte \in AnyScte /\ NoScte.scall = 0
  BY SizeAssumption DEF FreeScall, AnyScall, IdleExecutor, AnyExecutor, NoScte, AnyScte

\* A handle that ends its call is a good one, and of the same call.
LEMMA EndsGood ==
  ASSUME NEW h \in AnyScall, NEW g, Ends(h, g)
  PROVE  /\ g \in AnyScall
         /\ g.state # "free" => h.state # "free" /\ g.seq = h.seq /\ g.kind = h.kind
                                /\ g.needs = h.needs
         /\ g.state = "recv" => g = h
  BY Idle DEF Ends, AnyScall

\* Such a step keeps the server's state well formed.
LEMMA EndingServerInv ==
  ASSUME ServerInv, EndingStep, UNCHANGED outcome
  PROVE  ServerInv'
  <1>1. \A s \in Scalls : GoodScall(scall[s])'
    BY EndsGood DEF EndingStep, ServerInv, GoodScall, Made
  <1>2. \A x \in Executors : GoodExecutor(exe[x])'
    BY Idle DEF EndingStep, ServerInv, GoodExecutor, Made
  <1>3. scte' \in AnyScte /\ (scte'.scall # 0 => scte'.present)
    BY DEF EndingStep, ServerInv, AnyScte
  <1>4. QED
    BY <1>1, <1>2, <1>3 DEF EndingStep, ServerInv

\* It keeps handles and executors together.
LEMMA EndingFollows ==
  ASSUME ServerInv, FollowInv, EndingStep
  PROVE  FollowInv'
  <1>1. ASSUME NEW s \in Scalls, scall'[s].state = "recv"
        PROVE  scte'.scall = s /\ LiveExecutors(exe', s) # {}
    <2>1. scall[s].state = "recv"
      BY <1>1, EndsGood DEF EndingStep, ServerInv
    <2>2. scte.scall = s /\ LiveExecutors(exe, s) # {}
      BY <2>1 DEF FollowInv, HandlesFollowExecutors
    <2>3. scte' = scte
      BY <1>1, <2>2 DEF EndingStep
    <2>4. PICK x \in Executors : exe[x].pc # "none" /\ exe[x].scall = s
      BY <2>2 DEF LiveExecutors
    <2>5. exe'[x] = exe[x]
      BY <1>1, <2>4 DEF EndingStep
    <2>6. QED
      BY <2>2, <2>3, <2>4, <2>5 DEF LiveExecutors
  <1>2. QED
    BY <1>1 DEF EndingStep, FollowInv, HandlesFollowExecutors

\* The handles become Reclaim(sc, e, ex), where in sc only s has changed, and e
\* and ex are the entry and the executors that are left.
Reclaims(sc, e, ex, s) ==
  /\ scall' = Reclaim(sc, e, ex)
  /\ \A t \in Scalls \ {s} : sc[t] = scall[t] /\ LiveExecutors(ex, t) = LiveExecutors(exe, t)
  /\ sc[s].state \notin {"recv", "free"} /\ Ends(scall[s], sc[s])
  /\ sc[s].state = "orphan" /\ scall[s].state # "orphan" => e.scall # s
  /\ e.scall \in {scte.scall, 0}

\* What EndingStep says of the handles then, and what Reclaim leaves of sc.
Reclaimed(sc, e, ex, s) ==
  /\ scall' \in [Scalls -> AnyScall]
  /\ \A t \in Scalls : Ends(scall[t], scall'[t])
  /\ scall'[s].state # "recv"
  /\ \A t \in Scalls :
       /\ scall'[t].state = "orphan" => e.scall # t /\ LiveExecutors(ex, t) # {}
       /\ scall'[t].state = "free" => e.scall # t /\ LiveExecutors(ex, t) = {}
       /\ scall'[t] \in {sc[t], FreeScall}

\* Reclaim frees only what nobody refers to.
LEMMA ReclaimEnds ==
  ASSUME ServerInv, FollowInv, NEW sc, NEW e, NEW ex, NEW s \in Scalls,
         Reclaims(sc, e, ex, s)
  PROVE  Reclaimed(sc, e, ex, s)
  <1> USE DEF Reclaims, Reclaimed
  <1>1. ASSUME NEW t \in Scalls
        PROVE  scall'[t] = IF e.scall # t /\ LiveExecutors(ex, t) = {} THEN FreeScall ELSE sc[t]
    BY DEF Reclaim
  <1>2. 0 \notin Scalls
    BY SlotAssumption
  <1>3. ASSUME NEW t \in Scalls
        PROVE  /\ Ends(scall[t], scall'[t])
               /\ scall'[t].state = "orphan" => e.scall # t /\ LiveExecutors(ex, t) # {}
               /\ scall'[t].state = "free" => e.scall # t /\ LiveExecutors(ex, t) = {}
    <2> DEFINE unused == e.scall # t /\ LiveExecutors(ex, t) = {}
    <2>1. scall'[t] = IF unused THEN FreeScall ELSE sc[t]
      BY <1>1
    <2>2. scall[t].state = "orphan" => e.scall # t
      BY <1>2 DEF FollowInv, HandlesFollowExecutors
    <2>3. t # s => (scall[t].state = "free" => unused)
      BY <1>2 DEF FollowInv
    <2>4. Ends(scall[t], sc[t])
      BY DEF Ends
    <2>5. sc[t].state = "free" => unused
      BY <2>3
    <2>6. sc[t].state = "orphan" => e.scall # t
      <3>1. CASE t = s
        BY <2>2, <3>1
      <3>2. CASE t # s
        BY <2>2, <3>2
      <3>3. QED
        BY <3>1, <3>2
    <2>7. CASE unused
      BY <2>1, <2>7, Idle DEF Ends
    <2>8. CASE ~unused
      BY <2>1, <2>4, <2>5, <2>6, <2>8, Zenon
    <2>9. QED
      BY <2>7, <2>8
  <1>4. scall' \in [Scalls -> AnyScall]
    <2>1. \A t \in Scalls : scall'[t] \in AnyScall
      BY <1>3, EndsGood DEF ServerInv
    <2>2. QED
      BY <2>1 DEF Reclaim
  <1>5. scall'[s].state # "recv"
    BY <1>1, Idle
  <1>6. QED
    BY <1>1, <1>3, <1>4, <1>5

\* rpc__dg_scall_orphan_call of the entry's handle
LEMMA OrphanCallEnds ==
  ASSUME ServerInv, FollowInv, NEW s \in Scalls, scte.scall = s, OrphanCall(s),
         UNCHANGED <<sboot, exe, ways, execs, overtaken>>
  PROVE  EndingStep
  <1> DEFINE e == [scte EXCEPT !.scall = 0]
             sc == [scall EXCEPT ![s].state = "orphan"]
  <1>1. scte' = e /\ scall' = Reclaim(sc, e, exe)
    BY DEF OrphanCall
  <1>2. e.scall = 0 /\ 0 \notin Scalls
    BY SlotAssumption DEF ServerInv, AnyScte
  <1>3. scall[s].state # "free"
    BY DEF FollowInv
  <1>4. /\ \A t \in Scalls \ {s} : sc[t] = scall[t]
        /\ sc[s].state = "orphan" /\ Ends(scall[s], sc[s])
    <2>1. scall[s] \in AnyScall /\ sc[s] = [scall[s] EXCEPT !.state = "orphan"]
      BY DEF ServerInv
    <2>2. sc[s] = [scall[s] EXCEPT !.state = "orphan", !.rq = scall[s].rq]
      BY <2>1 DEF AnyScall
    <2>3. scall[s].rq \in BOOLEAN /\ sc[s].state = "orphan"
      BY <2>1 DEF AnyScall
    <2>4. QED
      BY <1>3, <2>2, <2>3 DEF Ends, ServerInv
  <1> HIDE DEF e, sc
  <1>5. Reclaimed(sc, e, exe, s)
    <2>1. Reclaims(sc, e, exe, s)
      BY <1>1, <1>2, <1>4 DEF Reclaims
    <2>2. QED
      BY <2>1, ReclaimEnds, Zenon
  <1>6. \A t \in Scalls : scall'[t].state \in {"idle", "final"} => scall[t].state \in {"idle", "final"}
    BY <1>4, <1>5, Idle DEF Reclaimed
  <1>7. QED
    BY <1>1, <1>5, <1>6 DEF EndingStep, ServerInv, Reclaimed, e

\* An executor finishes and leaves its handle as h.
LEMMA ExecutorEnds ==
  ASSUME ServerInv, FollowInv, NEW x \in Executors, exe[x].pc # "none", NEW h,
         Ends(Handle(x), h), h.state \notin {"recv", "free"},
         h.state = "orphan" => Handle(x).state = "orphan",
         exe' = [exe EXCEPT ![x] = IdleExecutor],
         scall' = Reclaim([scall EXCEPT ![exe[x].scall] = h], scte, exe'),
         UNCHANGED <<sboot, scte, ways, execs, overtaken>>
  PROVE  EndingStep
  <1> DEFINE s == exe[x].scall
             sc == [scall EXCEPT ![s] = h]
  <1>1. s \in Scalls /\ scall \in [Scalls -> AnyScall] /\ exe \in [Executors -> AnyExecutor]
    BY DEF ServerInv, GoodExecutor
  <1>2. exe'[x] = IdleExecutor /\ \A y \in Executors \ {x} : exe'[y] = exe[y]
    BY <1>1
  <1>3. \A t \in Scalls \ {s} : LiveExecutors(exe', t) = LiveExecutors(exe, t)
    BY <1>2, Idle DEF LiveExecutors
  <1>4. sc[s] = h /\ \A t \in Scalls \ {s} : sc[t] = scall[t]
    BY <1>1
  <1>5. Reclaims(sc, scte, exe', s)
    <2> HIDE DEF s, sc
    <2>1. scall' = Reclaim(sc, scte, exe')
      BY DEF s, sc
    <2>2. Ends(scall[s], h) /\ (h.state = "orphan" => scall[s].state = "orphan")
      BY DEF s, Handle
    <2>3. QED
      BY <1>3, <1>4, <2>1, <2>2 DEF Reclaims
  <1> HIDE DEF sc
  <1>6. Reclaimed(sc, scte, exe', s)
    <2> HIDE DEF s
    <2>1. QED
      BY <1>1, <1>5, ReclaimEnds, Zenon
  <1>7. exe' \in [Executors -> AnyExecutor]
    BY <1>1, Idle
  <1>8. ASSUME NEW t \in Scalls, scall'[t].state \in {"idle", "final"}
        PROVE  \/ scall[t].state \in {"idle", "final"}
               \/ \E y \in LiveExecutors(exe, t) : exe'[y] = IdleExecutor
    <2>1. CASE t = s
      BY <1>2, <2>1 DEF LiveExecutors
    <2>2. CASE t # s
      BY <1>4, <1>6, <1>8, <2>2, Idle DEF Reclaimed
    <2>3. QED
      BY <2>1, <2>2
  <1>9. \A y \in Executors :
          exe'[y] = exe[y] \/ (exe'[y] = IdleExecutor /\ scall'[exe[y].scall].state # "recv")
    <2>1. scall'[exe[x].scall].state # "recv"
      BY <1>6 DEF Reclaimed
    <2>2. TAKE y \in Executors
    <2>3. CASE y = x
      BY <1>2, <2>1, <2>3
    <2>4. CASE y # x
      BY <1>2, <2>4
    <2>5. QED
      BY <2>3, <2>4
  <1>10. UNCHANGED scte
    OBVIOUS
  <1> HIDE DEF s
  <1>11. QED
    BY <1>6, <1>7, <1>8, <1>9, <1>10 DEF EndingStep, Reclaimed

\* END_OF_CALL
LEMMA EndOfCallEnds ==
  ASSUME ServerInv, FollowInv, NEW x \in Executors, exe[x].pc # "none", EndOfCall(x)
  PROVE  EndingStep
  <1> DEFINE state == IF Handle(x).state = "orphan" THEN "orphan" ELSE "idle"
             h == [Handle(x) EXCEPT !.state = state]
  <1>1. exe[x].scall \in Scalls /\ Handle(x) \in AnyScall /\ Handle(x).state # "free"
    BY DEF ServerInv, GoodExecutor, FollowInv, LiveExecutors, Handle
  <1>2. /\ exe' = [exe EXCEPT ![x] = IdleExecutor]
        /\ scall' = Reclaim([scall EXCEPT ![exe[x].scall] = h], scte, exe')
        /\ UNCHANGED <<sboot, scte, ways, execs, overtaken>>
    BY DEF EndOfCall, Handle
  <1>3. h.state = state /\ state \in {"idle", "orphan"}
    BY <1>1 DEF AnyScall
  <1>4. Ends(Handle(x), h)
    BY <1>1 DEF Ends, AnyScall
  <1> HIDE DEF h
  <1>5. QED
    BY <1>2, <1>3, <1>4, ExecutorEnds

\* The sending of a response or of a reject
LEMMA SendReplyEnds ==
  ASSUME ServerInv, FollowInv, NEW x \in Executors, exe[x].pc # "none", NEW reply, NEW kind,
         Handle(x).state = "recv", SendReply(x, reply, kind)
  PROVE  EndingStep
  <1> DEFINE state == IF kind = "idem" THEN "idle" ELSE "final"
             h == [Handle(x) EXCEPT !.state = state, !.rq = FALSE]
  <1>1. exe[x].scall \in Scalls /\ Handle(x) \in AnyScall
    BY DEF ServerInv, GoodExecutor, Handle
  <1>2. /\ exe' = [exe EXCEPT ![x] = IdleExecutor]
        /\ scall' = Reclaim([scall EXCEPT ![exe[x].scall] = h], scte, exe')
        /\ UNCHANGED <<sboot, scte, ways, execs, overtaken>>
    BY DEF SendReply, Handle
  <1>3. h.state = state /\ state \in {"idle", "final"}
    BY <1>1 DEF AnyScall
  <1>4. Ends(Handle(x), h)
    BY <1>1 DEF Ends, AnyScall
  <1> HIDE DEF h
  <1>5. QED
    BY <1>2, <1>3, <1>4, ExecutorEnds

\* What a decision on a request says of the entry and its handle.
LEMMA Decision ==
  ASSUME NetInv, ServerInv, NEW p \in net, NEW d, Decide(p, d)
  PROVE  /\ p.type = "request" /\ p.boot \in {0, sboot} /\ p.kind \in Kinds
         /\ p.seq \in Seqs /\ Made(p.seq)
         /\ SctGet(p.seq) \in AnyScte /\ SctGet(p.seq).present
         /\ SctGet(p.seq).scall = scte.scall
         /\ \/ scte.present /\ SctGet(p.seq) = scte
            \/ ~scte.present /\ scte.scall = 0 /\ SctGet(p.seq).high = p.seq - 1
         /\ d \in {"cur_call", "orphan_cur_call"} =>
              /\ scte.present /\ scte.scall \in Scalls
              /\ scall[scte.scall].state = "recv"
              /\ scall[scte.scall].seq = scte.high
              /\ d = "cur_call" => p.seq = scte.high
              /\ d = "orphan_cur_call" => scte.high < p.seq
         /\ d = "new_call" =>
              /\ SctGet(p.seq).high < p.seq
                 \/ (SctGet(p.seq).high = p.seq /\ p.kind = "idem")
              /\ scte.scall # 0 /\ scall[scte.scall].seq = scte.high =>
                   scall[scte.scall].state \in {"idle", "final"}
  <1> DEFINE e == SctGet(p.seq)
             s == InqScall(e, p.seq)
             state == IF s = 0 THEN "idle" ELSE scall[s].state
  <1>1. /\ p.type = "request" /\ p.boot \in {0, sboot} /\ p.kind \in Kinds
        /\ p.seq \in Seqs /\ Made(p.seq)
    BY DEF Decide, Received, ChkSboot, NetInv, GoodPacket, Made
  <1>2. d = DoRequestCommon(e.high, state, p)
    BY DEF Decide
  <1>3. scte \in AnyScte /\ (scte.scall # 0 => scte.present)
    BY DEF ServerInv
  <1>4. /\ e \in AnyScte /\ e.present /\ e.scall = scte.scall
        /\ (scte.present /\ e = scte)
           \/ (~scte.present /\ scte.scall = 0 /\ e.high = p.seq - 1)
    BY <1>1, <1>3, SizeAssumption DEF SctGet, AnyScte, Seqs
  <1>5. e.high \in 0..MaxSeq /\ e.scall \in Scalls \cup {0} /\ p.seq \in Nat
    BY <1>1, <1>4 DEF AnyScte, Seqs
  <1>6. s # 0 => s = e.scall /\ scall[s].seq <= p.seq /\ scall[s].seq = e.high
    BY DEF InqScall
  <1>7. ASSUME d \in {"cur_call", "orphan_cur_call"}
        PROVE  /\ state = "recv" /\ (d = "cur_call" => p.seq = e.high)
               /\ d = "orphan_cur_call" => e.high < p.seq
    BY <1>2, <1>5, <1>7 DEF DoRequestCommon
  <1>8. ASSUME d = "new_call"
        PROVE  /\ e.high < p.seq \/ (e.high = p.seq /\ p.kind = "idem")
               /\ state \in {"idle", "final"}
    <2> HIDE DEF state, e
    <2>1. /\ ~(p.seq = e.high /\ state \in {"recv", "final"})
          /\ ~(p.seq > e.high /\ state = "recv")
          /\ ~(p.seq = e.high /\ state = "idle" /\ p.kind # "idem")
      BY <1>2, <1>5, <1>8 DEF DoRequestCommon
    <2>2. p.seq >= e.high /\ state \in {"idle", "recv", "final"}
      BY <1>2, <1>5, <1>8 DEF DoRequestCommon
    <2>3. QED
      BY <1>5, <2>1, <2>2
  <1>9. ASSUME d = "new_call", scte.scall # 0, scall[scte.scall].seq = scte.high
        PROVE  scall[scte.scall].state \in {"idle", "final"}
    <2>1. e = scte /\ scte.scall # 0 /\ scall[scte.scall].seq = scte.high /\ scte.high <= p.seq
      BY <1>4, <1>5, <1>8, <1>9
    <2>2. s = scte.scall
      BY <2>1 DEF InqScall
    <2>3. QED
      BY <1>8, <1>9, <2>1, <2>2
  <1> HIDE DEF s, e
  <1>10. d \in {"cur_call", "orphan_cur_call"} =>
              /\ scte.present /\ scte.scall \in Scalls
              /\ scall[scte.scall].state = "recv"
              /\ scall[scte.scall].seq = scte.high
              /\ d = "cur_call" => p.seq = scte.high
              /\ d = "orphan_cur_call" => scte.high < p.seq
    BY <1>4, <1>5, <1>6, <1>7
  <1>11. QED
    BY <1>1, <1>4, <1>8, <1>9, <1>10 DEF e

\* A step of the client, or one that only sends, leaves the server alone.
LEMMA ServerRests ==
  ASSUME ServerInv, FollowInv, UNCHANGED serverVars
  PROVE  EndingStep
  <1>1. UNCHANGED <<sboot, scte, scall, exe, ways, execs, overtaken>>
    BY DEF serverVars
  <1>2. \A s \in Scalls : LiveExecutors(exe', s) = LiveExecutors(exe, s)
    BY <1>1 DEF LiveExecutors
  <1>3. \A s \in Scalls : Ends(scall[s], scall'[s])
    BY <1>1 DEF Ends
  <1>4. QED
    BY <1>1, <1>2, <1>3 DEF EndingStep, ServerInv, FollowInv, HandlesFollowExecutors

\* The packets that end a call or change nothing
EndingPacket(p) == WrongBoot(p) \/ RequestOrphans(p) \/ RequestRerun(p) \/ DoQuit(p) \/ DoAck(p)

\* The call of the entry's handle ends without its executor: the response was
\* acknowledged, or nobody did in time.
LEMMA FinalEnds ==
  ASSUME ServerInv, FollowInv, NEW s \in Scalls, scall[s].state = "final",
         scall' = [scall EXCEPT ![s].state = "idle"],
         UNCHANGED <<sboot, scte, exe, ways, execs, overtaken>>
  PROVE  EndingStep
  <1>1. scall[s] \in AnyScall /\ scall \in [Scalls -> AnyScall]
    BY DEF ServerInv
  <1>2. /\ \A t \in Scalls \ {s} : scall'[t] = scall[t]
        /\ scall'[s] = [scall[s] EXCEPT !.state = "idle", !.rq = scall[s].rq]
        /\ scall'[s] \in AnyScall /\ scall'[s].state = "idle"
    BY <1>1 DEF AnyScall
  <1>3. \A t \in Scalls : Ends(scall[t], scall'[t])
    <2>1. scall[s].rq \in BOOLEAN
      BY <1>1 DEF AnyScall
    <2>2. QED
      BY <1>2, <2>1 DEF Ends
  <1>4. \A t \in Scalls : LiveExecutors(exe', t) = LiveExecutors(exe, t)
    BY DEF LiveExecutors
  <1>5. scall' \in [Scalls -> AnyScall] /\ exe' \in [Executors -> AnyExecutor]
    BY <1>1, <1>2 DEF ServerInv
  <1>6. ASSUME NEW t \in Scalls
        PROVE  /\ scall'[t].state = "orphan" => scte.scall # t /\ LiveExecutors(exe, t) # {}
               /\ scall'[t].state = "free" => scte.scall # t /\ LiveExecutors(exe, t) = {}
               /\ scall'[t].state \in {"idle", "final"} => scall[t].state \in {"idle", "final"}
    <2>1. CASE t = s
      BY <1>2, <2>1
    <2>2. CASE t # s
      <3>1. scall'[t] = scall[t]
        BY <1>2, <2>2
      <3>2. QED
        BY <3>1, Zenon DEF FollowInv, HandlesFollowExecutors
    <2>3. QED
      BY <2>1, <2>2
  <1>7. QED
    BY <1>3, <1>4, <1>5, <1>6, Zenon DEF EndingStep

\* The handlers of such packets
LEMMA PacketEnds ==
  ASSUME NetInv, ServerInv, FollowInv, NEW p \in net, EndingPacket(p)
  PROVE  EndingStep
  <1>1. CASE WrongBoot(p)
    BY <1>1, ServerRests DEF WrongBoot
  <1>2. CASE RequestRerun(p)
    BY <1>2, ServerRests DEF RequestRerun
  <1>3. CASE RequestOrphans(p)
    <2>1. scte.scall \in Scalls
      BY <1>3, Decision DEF RequestOrphans
    <2>2. QED
      BY <1>3, <2>1, OrphanCallEnds DEF RequestOrphans
  <1>4. CASE DoQuit(p)
    <2> DEFINE s == IF scte.present THEN InqScall(scte, p.seq) ELSE 0
    <2>1. s = scte.scall /\ s \in Scalls
      BY <1>4 DEF DoQuit, InqScall, ServerInv, AnyScte
    <2>2. CASE scall[s].seq = p.seq /\ scall[s].state # "idle"
      BY <1>4, <2>1, <2>2, OrphanCallEnds DEF DoQuit
    <2>3. CASE ~(scall[s].seq = p.seq /\ scall[s].state # "idle")
      BY <1>4, <2>3, ServerRests DEF DoQuit, serverVars
    <2>4. QED
      BY <2>2, <2>3
  <1>5. CASE DoAck(p)
    <2> DEFINE s == IF scte.present THEN InqScall(scte, p.seq) ELSE 0
    <2>1. s \in Scalls
      BY <1>5 DEF DoAck, InqScall, ServerInv, AnyScte
    <2>2. /\ scall[s].state = "final" /\ scall' = [scall EXCEPT ![s].state = "idle"]
          /\ UNCHANGED <<sboot, scte, exe, ways, execs, overtaken>>
      BY <1>5 DEF DoAck
    <2> HIDE DEF s
    <2>3. QED
      BY <2>1, <2>2, FinalEnds
  <1>6. QED
    BY <1>1, <1>2, <1>3, <1>4, <1>5 DEF EndingPacket

\* The executor steps that end the call
AbortingStep(x) ==
  StartAborts(x) \/ StartIsOld(x) \/ LockAborts(x) \/ RelockAborts(x) \/ StubOrphaned(x)
ReplyingStep(x) == RejectUnknown(x) \/ RelockRejects(x) \/ StubReturns(x)

\* An executor that gives up or replies
LEMMA ExecutorQuits ==
  ASSUME ServerInv, FollowInv, NEW x \in Executors, AbortingStep(x) \/ ReplyingStep(x)
  PROVE  EndingStep
  <1>1. exe[x].pc # "none"
    BY DEF AbortingStep, ReplyingStep, StartAborts, StartIsOld, LockAborts, RelockAborts,
           StubOrphaned, RejectUnknown, RelockRejects, StubReturns, TakeRequest, At
  <1>2. CASE AbortingStep(x)
    <2>1. EndOfCall(x)
      BY <1>2 DEF AbortingStep, StartAborts, StartIsOld, LockAborts, RelockAborts, StubOrphaned
    <2>2. QED
      BY <1>1, <2>1, EndOfCallEnds
  <1>3. CASE ReplyingStep(x)
    <2>1. PICK reply, kind : SendReply(x, reply, kind)
      BY <1>3 DEF ReplyingStep, RejectUnknown, RelockRejects, StubReturns
    <2>2. Handle(x).state = "recv"
      BY <1>3 DEF ReplyingStep, RejectUnknown, RelockRejects, StubReturns, TakeRequest,
                  NotReceiving
    <2>3. QED
      BY <1>1, <2>1, <2>2, SendReplyEnds
  <1>4. QED
    BY <1>2, <1>3

\* rpc__dg_scall_timer
LEMMA TimerEnds ==
  ASSUME ServerInv, FollowInv, FinalTimeout \/ IdleTimeout
  PROVE  EndingStep
  <1> DEFINE s == scte.scall
  <1>1. s \in Scalls /\ scall[s] \in AnyScall
    BY DEF FinalTimeout, IdleTimeout, ServerInv, AnyScte
  <1>2. CASE FinalTimeout
    BY <1>1, <1>2, FinalEnds DEF FinalTimeout
  <1>3. CASE IdleTimeout
    <2> DEFINE e == [scte EXCEPT !.scall = 0]
    <2>1. e.scall = 0 /\ s # 0
      BY <1>1, SlotAssumption DEF ServerInv, AnyScte
    <2>2. scte' = e /\ scall' = Reclaim(scall, e, exe) /\ scall[s].state = "idle"
          /\ UNCHANGED <<sboot, exe, ways, execs, overtaken>>
      BY <1>3 DEF IdleTimeout
    <2> HIDE DEF e
    <2>3. Reclaims(scall, e, exe, s)
      BY <1>1, <2>1, <2>2 DEF Reclaims, Ends
    <2>4. Reclaimed(scall, e, exe, s)
      BY <1>1, <2>3, ReclaimEnds
    <2>5. \A t \in Scalls : scall'[t].state \in {"idle", "final"} => scall[t].state \in {"idle", "final"}
      BY <2>4, Idle DEF Reclaimed
    <2>6. QED
      BY <2>2, <2>4, <2>5 DEF EndingStep, ServerInv, Reclaimed, e
  <1>4. QED
    BY <1>2, <1>3

-----------------------------------------------------------------------------
(* Steps of the server that begin calls and carry them on *)

\* An executor that stays with its handle takes a step; handles and entry keep
\* the call they are for.
AdvancingStep(x) ==
  /\ UNCHANGED sboot
  /\ ways' \subseteq Boots /\ execs' \in [Seqs -> Nat] /\ overtaken' \in BOOLEAN
  /\ scte' \in AnyScte /\ scte'.present = scte.present /\ scte'.scall = scte.scall
  /\ scall' \in [Scalls -> AnyScall]
  /\ \A s \in Scalls : /\ scall'[s].state = scall[s].state
                       /\ scall'[s].seq = scall[s].seq /\ scall'[s].kind = scall[s].kind
  /\ exe' \in [Executors -> AnyExecutor] /\ GoodExecutor(exe'[x])
  /\ \A y \in Executors \ {x} : exe'[y] = exe[y]
  /\ exe[x].pc # "none" /\ exe'[x].pc # "none" /\ exe'[x].scall = exe[x].scall

\* Such a step keeps the server's state well formed, and handles and executors
\* together.
LEMMA AdvancingGood ==
  ASSUME ServerInv, FollowInv, NEW x \in Executors, AdvancingStep(x), UNCHANGED outcome
  PROVE  ServerInv' /\ FollowInv'
  <1>1. \A s \in Scalls : GoodScall(scall[s])'
    BY DEF AdvancingStep, ServerInv, GoodScall, Made
  <1>2. \A y \in Executors : GoodExecutor(exe[y])'
    <2>1. GoodExecutor(exe[x])'
      BY DEF AdvancingStep, GoodExecutor, Made
    <2>2. \A y \in Executors \ {x} : GoodExecutor(exe[y])'
      BY DEF AdvancingStep, ServerInv, GoodExecutor, Made
    <2>3. QED
      BY <2>1, <2>2
  <1>3. \A s \in Scalls : LiveExecutors(exe', s) = LiveExecutors(exe, s)
    BY DEF LiveExecutors, AdvancingStep
  <1>4. ServerInv'
    BY <1>1, <1>2 DEF ServerInv, AdvancingStep
  <1>5. FollowInv'
    BY <1>3 DEF FollowInv, HandlesFollowExecutors, AdvancingStep
  <1>6. QED
    BY <1>4, <1>5

\* The executor steps of this kind
CarryingOn(x) ==
  \/ StartCallsStub(x)
  \/ StartNeedsWay(x)
  \/ WayValidate(x)
  \/ WaySucceeds(x)
  \/ WayFails(x)
  \/ RelockCallsStub(x)

\* The start of the manager
LEMMA CallStubAdvances ==
  ASSUME ServerInv, NEW x \in Executors, exe[x].pc # "none",
         NEW n \in Seqs, NEW k \in Kinds, Made(n), NEW sc \in {scall, Taken(x)},
         CallStub(x, n, k, sc)
  PROVE  AdvancingStep(x)
  <1>1. /\ exe \in [Executors -> AnyExecutor] /\ exe[x].scall \in Scalls
        /\ scall \in [Scalls -> AnyScall] /\ execs \in [Seqs -> Nat]
    BY DEF ServerInv, GoodExecutor
  <1>2. n \in 0..MaxSeq
    BY SizeAssumption DEF Seqs
  <1>3. exe' = [exe EXCEPT ![x] = [exe[x] EXCEPT !.pc = "stub", !.seq = n, !.kind = k, !.ans = {}]]
    BY <1>1 DEF CallStub
  <1>4. /\ exe'[x] \in AnyExecutor /\ exe'[x].pc = "stub" /\ exe'[x].scall = exe[x].scall
        /\ exe'[x].seq = n /\ exe'[x].kind = k
        /\ exe' \in [Executors -> AnyExecutor] /\ \A y \in Executors \ {x} : exe'[y] = exe[y]
    BY <1>1, <1>2, <1>3, ZenonT(60) DEF AnyExecutor
  <1>5. GoodExecutor(exe'[x])
    BY <1>1, <1>4 DEF GoodExecutor
  <1>6. /\ scall' \in [Scalls -> AnyScall]
        /\ \A s \in Scalls : /\ scall'[s].state = scall[s].state
                             /\ scall'[s].seq = scall[s].seq /\ scall'[s].kind = scall[s].kind
    <2>1. CASE scall' = scall
      BY <1>1, <2>1
    <2>2. CASE scall' = [scall EXCEPT ![exe[x].scall].rq = FALSE]
      <3>1. Handle(x) \in AnyScall
        BY <1>1 DEF Handle
      <3>2. scall' = [scall EXCEPT ![exe[x].scall] = [Handle(x) EXCEPT !.rq = FALSE]]
        BY <2>2 DEF Handle
      <3>3. /\ [Handle(x) EXCEPT !.rq = FALSE] \in AnyScall
            /\ [Handle(x) EXCEPT !.rq = FALSE].state = Handle(x).state
            /\ [Handle(x) EXCEPT !.rq = FALSE].seq = Handle(x).seq
            /\ [Handle(x) EXCEPT !.rq = FALSE].kind = Handle(x).kind
        BY <3>1 DEF AnyScall
      <3>4. QED
        BY <1>1, <3>2, <3>3 DEF Handle
    <2>3. QED
      BY <2>1, <2>2 DEF CallStub, Taken
  <1>7. execs' \in [Seqs -> Nat]
    BY <1>1 DEF CallStub
  <1>8. QED
    BY <1>4, <1>5, <1>6, <1>7 DEF AdvancingStep, CallStub, ServerInv

\* Each of them, and the client's answer to a callback, keeps the handle.
LEMMA CarryingOnAdvances ==
  ASSUME ServerInv, NEW x \in Executors, CarryingOn(x)
  PROVE  AdvancingStep(x)
  <1>1. exe[x].pc # "none"
    BY DEF CarryingOn, StartCallsStub, StartNeedsWay, WayValidate, WaySucceeds, WayFails,
           RelockCallsStub, TakeRequest, At
  <1>2. /\ exe \in [Executors -> AnyExecutor] /\ exe[x].scall \in Scalls /\ GoodExecutor(exe[x])
        /\ scall \in [Scalls -> AnyScall] /\ Handle(x) \in AnyScall /\ GoodScall(Handle(x))
    BY <1>1 DEF ServerInv, GoodExecutor, Handle
  <1>3. Handle(x).state = "recv" => /\ Handle(x).seq \in Seqs /\ Made(Handle(x).seq)
                                    /\ Handle(x).seq \in 0..MaxSeq /\ Handle(x).kind \in Kinds
    BY <1>2, SizeAssumption DEF GoodScall, Made, Seqs
  <1>4. CASE StartCallsStub(x)
    BY <1>1, <1>3, <1>4, CallStubAdvances DEF StartCallsStub, TakeRequest, NotReceiving
  <1>5. CASE RelockCallsStub(x)
    <2>1. exe[x].seq \in Seqs /\ Made(exe[x].seq) /\ exe[x].kind \in Kinds
      BY <1>2, <1>5 DEF RelockCallsStub, At, GoodExecutor, Made
    <2>2. QED
      BY <1>1, <1>5, <2>1, CallStubAdvances DEF RelockCallsStub
  <1>6. CASE StartNeedsWay(x)
    <2>1. exe' = [exe EXCEPT ![x] = [exe[x] EXCEPT !.pc = "lock", !.seq = Handle(x).seq, !.kind = Handle(x).kind]]
      BY <1>2, <1>6 DEF StartNeedsWay
    <2>2. Handle(x).state = "recv"
      BY <1>6 DEF StartNeedsWay, TakeRequest, NotReceiving
    <2>3. /\ exe'[x] \in AnyExecutor /\ exe'[x].pc = "lock" /\ exe'[x].scall = exe[x].scall
          /\ exe'[x].seq = Handle(x).seq /\ exe'[x].kind = Handle(x).kind
          /\ exe' \in [Executors -> AnyExecutor] /\ \A y \in Executors \ {x} : exe'[y] = exe[y]
      BY <1>2, <1>3, <2>1, <2>2 DEF AnyExecutor
    <2>4. GoodExecutor(exe'[x])
      BY <1>2, <1>3, <2>2, <2>3 DEF GoodExecutor
    <2>5. /\ scall' \in [Scalls -> AnyScall]
          /\ \A s \in Scalls : /\ scall'[s].state = scall[s].state
                               /\ scall'[s].seq = scall[s].seq /\ scall'[s].kind = scall[s].kind
      BY <1>2, <1>6 DEF StartNeedsWay, Taken, AnyScall
    <2>6. QED
      BY <1>1, <1>6, <2>3, <2>4, <2>5 DEF AdvancingStep, StartNeedsWay, ServerInv
  <1>7. CASE WayValidate(x) \/ WayFails(x)
    <2>1. PICK pc \in {"relock", "way"}, st \in {"ok", "failed"}, a \in {{}, exe[x].ans} :
            exe' = [exe EXCEPT ![x] = [exe[x] EXCEPT !.pc = pc, !.st = st, !.ans = a]]
      <3>1. CASE WayFails(x)
        <4>1. exe' = [exe EXCEPT ![x] = [exe[x] EXCEPT !.pc = "relock", !.st = "failed", !.ans = {}]]
          BY <1>2, <3>1 DEF WayFails
        <4>2. QED
          BY <4>1
      <3>2. CASE WayValidate(x)
        <4>1. \/ exe' = [exe EXCEPT ![x] = [exe[x] EXCEPT !.pc = "relock", !.st = "ok"]]
              \/ exe' = [exe EXCEPT ![x] = [exe[x] EXCEPT !.pc = "way"]]
          BY <1>2, <3>2 DEF WayValidate
        <4>2. /\ [exe[x] EXCEPT !.pc = "relock", !.st = "ok"] =
                 [exe[x] EXCEPT !.pc = "relock", !.st = "ok", !.ans = exe[x].ans]
              /\ [exe[x] EXCEPT !.pc = "way"] =
                 [exe[x] EXCEPT !.pc = "way", !.st = exe[x].st, !.ans = exe[x].ans]
          BY <1>2 DEF AnyExecutor
        <4>3. exe[x].st \in {"ok", "failed"}
          BY <1>2 DEF AnyExecutor
        <4>4. QED
          BY <4>1, <4>2, <4>3
      <3>3. QED
        BY <1>7, <3>1, <3>2
    <2>2. /\ exe'[x] \in AnyExecutor /\ exe'[x].pc = pc /\ exe'[x].scall = exe[x].scall
          /\ exe'[x].seq = exe[x].seq /\ exe'[x].kind = exe[x].kind
          /\ exe' \in [Executors -> AnyExecutor] /\ \A y \in Executors \ {x} : exe'[y] = exe[y]
      BY <1>2, <2>1 DEF AnyExecutor
    <2>3. GoodExecutor(exe'[x])
      BY <1>2, <1>7, <2>2 DEF GoodExecutor, WayValidate, WayFails, At
    <2>4. UNCHANGED <<sboot, scte, scall, execs, overtaken>> /\ ways' \subseteq Boots
      BY <1>7 DEF WayValidate, WayFails, ServerInv
    <2>5. QED
      BY <1>1, <2>2, <2>3, <2>4 DEF AdvancingStep, ServerInv
  <1>8. CASE WaySucceeds(x)
    <2>1. exe' = [exe EXCEPT ![x] = [exe[x] EXCEPT !.pc = "relock", !.st = "ok", !.ans = {}]]
      BY <1>2, <1>8 DEF WaySucceeds
    <2>2. /\ exe'[x] \in AnyExecutor /\ exe'[x].pc = "relock" /\ exe'[x].scall = exe[x].scall
          /\ exe'[x].seq = exe[x].seq /\ exe'[x].kind = exe[x].kind
          /\ exe' \in [Executors -> AnyExecutor] /\ \A y \in Executors \ {x} : exe'[y] = exe[y]
      BY <1>2, <2>1 DEF AnyExecutor
    <2>3. GoodExecutor(exe'[x])
      BY <1>2, <1>8, <2>2 DEF GoodExecutor, WaySucceeds, At
    <2>4. /\ scte' \in AnyScte /\ scte'.present = scte.present /\ scte'.scall = scte.scall
          /\ overtaken' \in BOOLEAN
      <3>1. PICK seq \in exe[x].ans \ {0} :
              /\ overtaken' = (overtaken \/ Overtaken(x, seq))
              /\ scte' = [scte EXCEPT !.high = HighSeqAfterWay(seq), !.valid = TRUE]
        BY <1>8 DEF WaySucceeds
      <3>2. overtaken' \in BOOLEAN
        BY <3>1, Zenon
      <3>3. HighSeqAfterWay(seq) \in 0..MaxSeq /\ scte \in AnyScte
        BY <1>2 DEF HighSeqAfterWay, AnyExecutor, ServerInv, AnyScte
      <3>4. QED
        BY <3>1, <3>2, <3>3 DEF AnyScte
    <2>5. /\ scall' \in [Scalls -> AnyScall]
          /\ \A s \in Scalls : /\ scall'[s].state = scall[s].state
                               /\ scall'[s].seq = scall[s].seq /\ scall'[s].kind = scall[s].kind
      <3>1. \A s \in Scalls : scall'[s] \in {scall[s], [scall[s] EXCEPT !.needs = FALSE]}
        BY <1>8 DEF WaySucceeds
      <3>2. \A s \in Scalls : [scall[s] EXCEPT !.needs = FALSE] \in AnyScall
        BY <1>2 DEF AnyScall
      <3>3. DOMAIN scall' = Scalls /\ scall' = [s \in Scalls |-> scall'[s]]
        BY <1>8 DEF WaySucceeds
      <3>4. QED
        BY <1>2, <3>1, <3>2, <3>3 DEF AnyScall
    <2>6. QED
      BY <1>1, <1>8, <2>2, <2>3, <2>4, <2>5 DEF AdvancingStep, WaySucceeds, ServerInv
  <1>9. QED
    BY <1>4, <1>5, <1>6, <1>7, <1>8 DEF CarryingOn

\* The handle of a new call is the entry's, or a free one if it has none.
LEMMA NewHandle ==
  ASSUME NetInv, ServerInv, NEW p \in net, Decide(p, "new_call"), CanAllocate(SctGet(p.seq))
  PROVE  LET s == NewCallHandle(SctGet(p.seq)) IN
         /\ s \in Scalls
         /\ scte.scall # 0 => s = scte.scall
         /\ scte.scall = 0 => scall[s].state = "free"
         /\ \A state \in {"recv", "idle"} :
              /\ GoodScall(NewScall(p, state)) /\ NewScall(p, state).state = state
              /\ NewScall(p, state).seq = p.seq /\ NewScall(p, state).kind = p.kind
              /\ NewScall(p, state).needs = (p.boot = 0)
         /\ \A h \in {p.seq, p.seq - 1} :
              /\ [SctGet(p.seq) EXCEPT !.high = h, !.scall = s] \in AnyScte
              /\ [SctGet(p.seq) EXCEPT !.high = h, !.scall = s].scall = s
              /\ [SctGet(p.seq) EXCEPT !.high = h, !.scall = s].high = h
              /\ [SctGet(p.seq) EXCEPT !.high = h, !.scall = s].present
  <1> DEFINE e == SctGet(p.seq)
             s == NewCallHandle(e)
  <1>1. /\ p.kind \in Kinds /\ p.seq \in Seqs /\ Made(p.seq)
        /\ e \in AnyScte /\ e.present /\ e.scall = scte.scall
    BY Decision
  <1>2. p.seq \in 0..MaxSeq /\ p.seq - 1 \in 0..MaxSeq
    BY <1>1, SizeAssumption DEF Seqs
  <1>5. s \in Scalls /\ (scte.scall # 0 => s = scte.scall)
        /\ (scte.scall = 0 => scall[s].state = "free")
    <2>1. CASE scte.scall # 0
      BY <1>1, <2>1 DEF NewCallHandle, ServerInv, AnyScte
    <2>2. CASE scte.scall = 0
      <3>1. FreeScalls # {} /\ FreeScalls \in SUBSET Nat
        BY <1>1, <2>2, SlotAssumption DEF CanAllocate, FreeScalls
      <3>2. Least(FreeScalls) \in FreeScalls
        BY <3>1, LeastIn
      <3>3. QED
        BY <1>1, <2>2, <3>2 DEF NewCallHandle, FreeScalls
    <2>3. QED
      BY <2>1, <2>2
  <1> HIDE DEF s
  <1>6. ASSUME NEW state \in {"recv", "idle"}
        PROVE  /\ GoodScall(NewScall(p, state)) /\ NewScall(p, state).state = state
               /\ NewScall(p, state).seq = p.seq /\ NewScall(p, state).kind = p.kind
               /\ NewScall(p, state).needs = (p.boot = 0)
    BY <1>1, <1>2 DEF NewScall, GoodScall, AnyScall
  <1> HIDE DEF e
  <1>7. ASSUME NEW h \in {p.seq, p.seq - 1}
        PROVE  /\ [e EXCEPT !.high = h, !.scall = s] \in AnyScte
               /\ [e EXCEPT !.high = h, !.scall = s].scall = s
               /\ [e EXCEPT !.high = h, !.scall = s].high = h
               /\ [e EXCEPT !.high = h, !.scall = s].present
    BY <1>1, <1>2, <1>5 DEF AnyScte
  <1>8. QED
    BY <1>5, <1>6, <1>7 DEF s, e

\* A request that begins a call: its handle is receiving and has an executor, or
\* the pools refused it and the handle is idle.
LEMMA NewCallGood ==
  ASSUME NetInv, ServerInv, FollowInv, UNCHANGED outcome,
         NEW p \in net, RequestNew(p) \/ RequestNoThread(p)
  PROVE  ServerInv' /\ FollowInv'
  <1> DEFINE e == SctGet(p.seq)
             s == NewCallHandle(e)
             x == Least(FreeExecutors)
  <1>1. Decide(p, "new_call") /\ CanAllocate(e)
    BY DEF RequestNew, RequestNoThread
  <1>2. /\ s \in Scalls /\ (scte.scall # 0 => s = scte.scall)
        /\ (scte.scall = 0 => scall[s].state = "free")
    BY <1>1, NewHandle
  <1>3. PICK state \in {"recv", "idle"} : scall' = [scall EXCEPT ![s] = NewScall(p, state)]
    BY DEF RequestNew, RequestNoThread
  <1>4. GoodScall(NewScall(p, state)) /\ NewScall(p, state).state = state
    BY <1>1, NewHandle
  <1>5. scte' \in AnyScte /\ scte'.scall = s /\ scte'.present
    BY <1>1, NewHandle DEF RequestNew, RequestNoThread
  <1> HIDE DEF s
  <1>6. /\ scall' \in [Scalls -> AnyScall] /\ scall'[s] = NewScall(p, state)
        /\ \A t \in Scalls \ {s} : scall'[t] = scall[t]
    BY <1>2, <1>3, <1>4 DEF ServerInv, GoodScall
  <1>7. \A t \in Scalls : GoodScall(scall[t])'
    <2>1. \A t \in Scalls : GoodScall(scall'[t])
      BY <1>4, <1>6 DEF ServerInv
    <2>2. QED
      BY <2>1 DEF GoodScall, Made
  <1>8. \A t \in Scalls \ {s} : scall[t].state # "recv"
    BY <1>2, SlotAssumption DEF FollowInv, HandlesFollowExecutors
  <1>9. CASE RequestNoThread(p)
    <2>1. UNCHANGED <<sboot, exe, ways, execs, overtaken>> /\ state = "idle"
      <3>1. UNCHANGED <<sboot, exe, ways, execs, overtaken>> /\ scall'[s] = NewScall(p, "idle")
        BY <1>2, <1>9 DEF RequestNoThread, s, ServerInv
      <3>2. NewScall(p, "idle").state = "idle"
        BY DEF NewScall
      <3>3. QED
        BY <1>4, <1>6, <3>1, <3>2
    <2>2. ServerInv'
      BY <1>5, <1>6, <1>7, <2>1 DEF ServerInv, GoodExecutor, Made
    <2>3. ASSUME NEW t \in Scalls PROVE LiveExecutors(exe', t) = LiveExecutors(exe, t)
      BY <2>1 DEF LiveExecutors
    <2>4. FollowInv'
      BY <1>2, <1>4, <1>5, <1>6, <1>8, <2>1, <2>3 DEF FollowInv, HandlesFollowExecutors
    <2>5. QED
      BY <2>2, <2>4
  <1>10. CASE RequestNew(p)
    <2>1. /\ UNCHANGED <<sboot, ways, execs, overtaken>> /\ scall'[s] = NewScall(p, "recv")
          /\ exe' = [exe EXCEPT ![x] = [IdleExecutor EXCEPT !.pc = "start", !.scall = s]]
          /\ FreeExecutors # {}
      BY <1>2, <1>10 DEF RequestNew, s, ServerInv
    <2>2. NewScall(p, "recv").state = "recv" /\ state = "recv"
      BY <1>4, <1>6, <2>1 DEF NewScall
    <2>3. x \in Executors /\ exe[x].pc = "none"
      <3>1. FreeExecutors \in SUBSET Nat
        BY SlotAssumption DEF FreeExecutors
      <3>2. x \in FreeExecutors
        BY <2>1, <3>1, LeastIn
      <3>3. QED
        BY <3>2 DEF FreeExecutors
    <2> HIDE DEF x
    <2>4. /\ exe' \in [Executors -> AnyExecutor] /\ exe'[x].pc = "start" /\ exe'[x].scall = s
          /\ \A y \in Executors \ {x} : exe'[y] = exe[y]
      <3> DEFINE new == [IdleExecutor EXCEPT !.pc = "start", !.scall = s]
      <3>1. new \in AnyExecutor /\ new.pc = "start" /\ new.scall = s
        BY <1>2, Idle DEF AnyExecutor
      <3>2. exe' = [exe EXCEPT ![x] = new] /\ exe \in [Executors -> AnyExecutor]
        BY <2>1 DEF ServerInv
      <3> HIDE DEF new
      <3>3. QED
        BY <2>3, <3>1, <3>2
    <2>5. \A y \in Executors : GoodExecutor(exe[y])'
      BY <1>2, <2>3, <2>4 DEF ServerInv, GoodExecutor, Made
    <2>6. ServerInv'
      BY <1>5, <1>6, <1>7, <2>1, <2>4, <2>5 DEF ServerInv
    <2>7. x \in LiveExecutors(exe', s)
      BY <2>3, <2>4 DEF LiveExecutors
    <2>8. ASSUME NEW t \in Scalls \ {s} PROVE LiveExecutors(exe', t) = LiveExecutors(exe, t)
      BY <2>3, <2>4 DEF LiveExecutors
    <2>9. FollowInv'
      BY <1>2, <1>4, <1>5, <1>6, <1>8, <2>2, <2>7, <2>8 DEF FollowInv, HandlesFollowExecutors
    <2>10. QED
      BY <2>6, <2>9
  <1>11. QED
    BY <1>9, <1>10

\* Another packet of the call in progress
LEMMA RequestCurrentGood ==
  ASSUME NetInv, ServerInv, NEW p \in net, RequestCurrent(p)
  PROVE  /\ \A t \in Scalls : /\ scall'[t].state = scall[t].state
                              /\ scall'[t].seq = scall[t].seq /\ scall'[t].kind = scall[t].kind
                              /\ scall'[t].rq = scall[t].rq
                              /\ scall'[t].needs = IF t = scte.scall THEN p.boot = 0 ELSE scall[t].needs
         /\ UNCHANGED outcome => ServerInv'
         /\ UNCHANGED outcome /\ FollowInv => FollowInv'
  <1> DEFINE s == scte.scall
  <1>1. s \in Scalls
    BY Decision DEF RequestCurrent
  <1>2. /\ scall' = [scall EXCEPT ![s].needs = p.boot = 0]
        /\ UNCHANGED <<sboot, scte, exe, ways, execs, overtaken>>
    BY DEF RequestCurrent
  <1> HIDE DEF s
  <1>3. /\ scall' \in [Scalls -> AnyScall]
        /\ \A t \in Scalls : /\ scall'[t].state = scall[t].state
                             /\ scall'[t].seq = scall[t].seq /\ scall'[t].kind = scall[t].kind
                             /\ scall'[t].rq = scall[t].rq
                             /\ scall'[t].needs = IF t = s THEN p.boot = 0 ELSE scall[t].needs
    <2> DEFINE h == [scall[s] EXCEPT !.needs = p.boot = 0]
    <2>1. scall' = [scall EXCEPT ![s] = h] /\ scall[s] \in AnyScall /\ scall \in [Scalls -> AnyScall]
      BY <1>1, <1>2 DEF ServerInv
    <2>2. h \in AnyScall /\ h.state = scall[s].state /\ h.seq = scall[s].seq /\ h.kind = scall[s].kind
          /\ h.rq = scall[s].rq /\ h.needs = (p.boot = 0)
      BY <2>1 DEF AnyScall
    <2> HIDE DEF h
    <2>3. QED
      BY <1>1, <2>1, <2>2
  <1>4. ASSUME UNCHANGED outcome PROVE \A t \in Scalls : GoodScall(scall[t])'
    BY <1>3, <1>4 DEF ServerInv, GoodScall, Made
  <1>5. ASSUME UNCHANGED outcome PROVE ServerInv'
    BY <1>2, <1>3, <1>4, <1>5 DEF ServerInv, GoodExecutor, Made
  <1>6. \A t \in Scalls : LiveExecutors(exe', t) = LiveExecutors(exe, t)
    BY <1>2 DEF LiveExecutors
  <1>7. FollowInv => FollowInv'
    BY <1>2, <1>3, <1>6 DEF FollowInv, HandlesFollowExecutors
  <1>8. QED
    BY <1>3, <1>5, <1>7 DEF s

\* A crash leaves no handle and no executor in use; only the boot time changes.
LEMMA CrashGood ==
  ASSUME ServerInv, Crash, UNCHANGED outcome
  PROVE  ServerInv' /\ FollowInv'
  <1>1. sboot' \in Boots \ {0}
    BY SizeAssumption DEF Crash, ServerInv, Boots
  <1>2. /\ \A s \in Scalls : scall'[s] = FreeScall
        /\ \A x \in Executors : exe'[x] = IdleExecutor
        /\ scte' = NoScte /\ UNCHANGED <<ways, execs, overtaken>>
        /\ scall' \in [Scalls -> AnyScall] /\ exe' \in [Executors -> AnyExecutor]
    BY Idle DEF Crash
  <1>3. \A s \in Scalls : LiveExecutors(exe', s) = {}
    BY <1>2, Idle DEF LiveExecutors
  <1>4. ServerInv'
    BY <1>1, <1>2, Idle DEF ServerInv, GoodScall, GoodExecutor
  <1>5. FollowInv'
    BY <1>2, <1>3, Idle, SlotAssumption DEF FollowInv, HandlesFollowExecutors
  <1>6. QED
    BY <1>4, <1>5

\* Only an entry without a handle is forgotten.
LEMMA ForgetGood ==
  ASSUME ServerInv, FollowInv, SctTimer, UNCHANGED outcome
  PROVE  ServerInv' /\ FollowInv'
  <1>1. scte' = NoScte /\ scte.scall = 0 /\ UNCHANGED <<sboot, scall, exe, ways, execs, overtaken>>
    BY DEF SctTimer
  <1>2. ServerInv'
    BY <1>1, Idle DEF ServerInv, GoodScall, GoodExecutor, Made
  <1>3. \A s \in Scalls : LiveExecutors(exe', s) = LiveExecutors(exe, s)
    BY <1>1 DEF LiveExecutors
  <1>4. FollowInv'
    BY <1>1, <1>3, Idle, SlotAssumption DEF FollowInv, HandlesFollowExecutors
  <1>5. QED
    BY <1>2, <1>4

\* The answer to a callback
LEMMA WhoAreYouAdvances ==
  ASSUME ServerInv, ClientInv, NEW x \in Executors, WhoAreYou(x)
  PROVE  AdvancingStep(x)
  <1> DEFINE a == WayAnswer(sboot)
  <1>1. a \in 0..MaxSeq
    BY SizeAssumption DEF WayAnswer, ClientInv, AnyCcall
  <1>2. /\ exe \in [Executors -> AnyExecutor] /\ exe[x].pc = "way"
        /\ exe[x] \in AnyExecutor /\ GoodExecutor(exe[x])
        /\ UNCHANGED <<sboot, scte, scall, ways, execs, overtaken>>
    BY DEF WhoAreYou, ServerInv
  <1>3. exe' = [exe EXCEPT ![x] = [exe[x] EXCEPT !.ans = exe[x].ans \cup {a}]]
    BY <1>2 DEF WhoAreYou
  <1> HIDE DEF a
  <1>4. /\ exe'[x] \in AnyExecutor /\ exe'[x].pc = exe[x].pc /\ exe'[x].scall = exe[x].scall
        /\ exe'[x].seq = exe[x].seq /\ exe'[x].kind = exe[x].kind
        /\ exe' \in [Executors -> AnyExecutor] /\ \A y \in Executors \ {x} : exe'[y] = exe[y]
    BY <1>1, <1>2, <1>3 DEF AnyExecutor
  <1>5. GoodExecutor(exe'[x])
    BY <1>2, <1>4 DEF GoodExecutor
  <1>6. QED
    BY <1>2, <1>4, <1>5 DEF AdvancingStep, ServerInv

\* The steps in which the server ends calls or only answers
ServerEnds ==
  \/ \E p \in net : EndingPacket(p)
  \/ \E x \in Executors : AbortingStep(x) \/ ReplyingStep(x)
  \/ FinalTimeout \/ IdleTimeout
  \/ PingServer

\* All of them are ending steps.
LEMMA ServerEndsEnds ==
  ASSUME NetInv, ServerInv, FollowInv, ServerEnds
  PROVE  EndingStep
  <1>1. CASE PingServer
    BY <1>1, ServerRests DEF PingServer, DoPing
  <1>2. QED
    BY <1>1, PacketEnds, ExecutorQuits, TimerEnds DEF ServerEnds

\* A request for a call in progress, or one that begins a call
BeginningSome ==
  \E p \in net : RequestCurrent(p) \/ RequestNew(p) \/ RequestNoThread(p)

\* Every step of the system is of one of these kinds.
LEMMA StepKinds ==
  ASSUME [Next]_vars
  PROVE  \/ (ServerEnds \/ BeginningSome \/ Crash \/ ForgetActivity) /\ UNCHANGED clientVars
         \/ (\E x \in Executors : CarryingOn(x)) /\ UNCHANGED clientVars
         \/ \E x \in Executors : WhoAreYou(x)
         \/ (ClientReceives \/ ClientStep) /\ UNCHANGED serverVars
         \/ \E boot \in Boots : LateWhoAreYou(boot)
         \/ UNCHANGED vars
  <1>1. CASE ServerStep /\ UNCHANGED clientVars
    <2>1. CASE ServerReceives
      BY <1>1, <2>1 DEF ServerReceives, ServerEnds, EndingPacket, BeginningSome
    <2>2. CASE \E x \in Executors : ExecutorStep(x)
      BY <1>1, <2>2 DEF ExecutorStep, ServerEnds, AbortingStep, ReplyingStep, CarryingOn
    <2>3. QED
      BY <1>1, <2>1, <2>2 DEF ServerStep, ServerEnds
  <1>2. QED
    BY <1>1 DEF Next, ServerEnds, PingServer

-----------------------------------------------------------------------------
(* Steps of the client *)

\* Calls stay made.
MadeStays == \A n \in Seqs : outcome[n] # "none" => outcome'[n] # "none"

\* A good packet more, and fewer of the others
LEMMA NetStaysGood ==
  ASSUME NetInv, MadeStays, NEW q, GoodPacket(q)', net' \subseteq net \cup {q}
  PROVE  NetInv'
  BY DEF NetInv, GoodPacket, Made, MadeStays

\* The same when nothing is sent
LEMMA NetOnlyShrinks ==
  ASSUME NetInv, MadeStays, net' \subseteq net
  PROVE  NetInv'
  BY DEF NetInv, GoodPacket, Made, MadeStays

\* What the client's replies make of the call: state and identity stay.
SameCall ==
  /\ ccall' \in AnyCcall /\ ccall'.state = ccall.state /\ ccall'.seq = ccall.seq
  /\ ccall'.kind = ccall.kind
  /\ UNCHANGED <<awaited, hboot, outcome, resets>> /\ giveups' \in 0..MaxGiveUps

\* Such a step keeps the client's state well formed.
LEMMA SameCallGood ==
  ASSUME ClientInv, MadeInOrder, SameCall
  PROVE  ClientInv' /\ MadeInOrder' /\ MadeStays
  BY DEF ClientInv, MadeInOrder, SameCall, InTable, Made, MadeStays

\* The first reply binds the call, and nothing else of it changes.
LEMMA BindGood ==
  ASSUME ClientInv, NEW p, p.boot \in Boots
  PROVE  /\ Bind(p) \in AnyCcall /\ Bind(p).state = ccall.state
         /\ Bind(p).seq = ccall.seq /\ Bind(p).kind = ccall.kind
         /\ Bind(p).ran = ccall.ran /\ Bind(p).reject = ccall.reject
         /\ Bind(p).status = ccall.status
         /\ Bind(p).boot \in {ccall.boot, p.boot}
         /\ ChkServerBoot(p) /\ ccall.boot # 0 => Bind(p).boot = ccall.boot
  BY DEF ClientInv, AnyCcall, Bind, ChkServerBoot

\* A status is only set once.
LEMMA FailGood ==
  ASSUME NEW c \in AnyCcall, NEW st \in Status
  PROVE  /\ Fail(c, st) \in AnyCcall /\ Fail(c, st).state = c.state
         /\ Fail(c, st).seq = c.seq /\ Fail(c, st).kind = c.kind
         /\ Fail(c, st).boot = c.boot /\ Fail(c, st).ran = c.ran
         /\ Fail(c, st).reject = c.reject
  BY DEF Fail, AnyCcall

\* The handlers of replies: all of the call they may change
ReplyStep(p) ==
  /\ SameCall /\ UNCHANGED <<net, giveups>> /\ InTable /\ p.seq = ccall.seq
  /\ \/ ~ChkServerBoot(p) /\ ccall'.boot = ccall.boot /\ ccall'.ran = ccall.ran
        /\ ccall'.reject = ccall.reject
     \/ /\ ChkServerBoot(p) /\ ccall'.boot \in {ccall.boot, p.boot}
        /\ ccall.boot # 0 => ccall'.boot = ccall.boot
        /\ ccall'.ran = ccall.ran \/ (p.type = "response" /\ ccall'.ran = p.ran)
        /\ ccall'.reject = ccall.reject \/ (p.type = "reject" /\ ccall'.reject = p.body)

\* A reply that belongs to the call (rpc__dg_do_common_response) changes no more.
LEMMA RepliedGood ==
  ASSUME ClientInv, NEW p, NEW c \in AnyCcall, Replied(p, c),
         c.state = ccall.state, c.seq = ccall.seq, c.kind = ccall.kind,
         c.boot = Bind(p).boot, p.boot \in Boots,
         c.ran = ccall.ran \/ (p.type = "response" /\ c.ran = p.ran),
         c.reject = ccall.reject \/ (p.type = "reject" /\ c.reject = p.body)
  PROVE  ReplyStep(p)
  <1>1. /\ UNCHANGED <<awaited, net, hboot, outcome, giveups, resets>>
        /\ InTable /\ p.seq = ccall.seq
        /\ ccall' = IF ChkServerBoot(p) THEN c ELSE Fail(ccall, "wrong_boot_time")
    BY DEF Replied, Belongs
  <1>2. giveups' \in 0..MaxGiveUps /\ ccall \in AnyCcall
    BY <1>1 DEF ClientInv
  <1>3. CASE ChkServerBoot(p)
    <2>1. /\ c.boot \in {ccall.boot, p.boot}
          /\ ccall.boot # 0 => c.boot = ccall.boot
      BY <1>3, BindGood
    <2>2. QED
      BY <1>1, <1>2, <1>3, <2>1 DEF ReplyStep, SameCall
  <1>4. CASE ~ChkServerBoot(p)
    <2>1. "wrong_boot_time" \in Status
      BY DEF Status
    <2>2. QED
      BY <1>1, <1>2, <1>4, <2>1, FailGood DEF ReplyStep, SameCall
  <1>5. QED
    BY <1>3, <1>4

\* The handlers of the server's packets, DoNocall and AckOldResponse apart
ReplyHandled(p) == DoResponse(p) \/ DoReject(p) \/ DoWorking(p) \/ DoQuack(p)
\* Nor does any of these handlers.
LEMMA ReplyHandledGood ==
  ASSUME NetInv, ClientInv, NEW p \in net, ReplyHandled(p)
  PROVE  ReplyStep(p)
  <1> DEFINE b == Bind(p)
  <1>1. /\ p.boot \in Boots /\ p.ran \in 0..MaxSeq
        /\ p.type = "reject" => p.body \in Status
    BY DEF NetInv, GoodPacket, AnyPacket
  <1>2. /\ b \in AnyCcall /\ b.state = ccall.state /\ b.seq = ccall.seq /\ b.kind = ccall.kind
        /\ b.ran = ccall.ran /\ b.reject = ccall.reject
    BY <1>1, BindGood
  <1>3. ccall \in AnyCcall
    BY DEF ClientInv
  <1> HIDE DEF b
  <1>4. CASE DoResponse(p)
    <2> DEFINE c == [b EXCEPT !.xq = FALSE, !.done = TRUE, !.ran = p.ran]
    <2>1. Replied(p, c) /\ p.type = "response"
      BY <1>4 DEF DoResponse, Received, b
    <2>2. /\ c \in AnyCcall /\ c.state = b.state /\ c.seq = b.seq /\ c.kind = b.kind
          /\ c.boot = b.boot /\ c.ran = p.ran /\ c.reject = b.reject
      BY <1>1, <1>2 DEF AnyCcall
    <2> HIDE DEF c
    <2>3. QED
      BY <1>1, <1>2, <2>1, <2>2, RepliedGood DEF b
  <1>5. CASE DoReject(p)
    <2> DEFINE d == [b EXCEPT !.xq = FALSE, !.done = TRUE, !.reject = p.body]
               c == IF ccall.state = "orphan" THEN [b EXCEPT !.quack = TRUE] ELSE Fail(d, p.body)
    <2>1. Replied(p, c) /\ p.type = "reject"
      BY <1>5 DEF DoReject, Received, b
    <2>2. /\ d \in AnyCcall /\ d.state = b.state /\ d.seq = b.seq /\ d.kind = b.kind
          /\ d.boot = b.boot /\ d.ran = b.ran /\ d.reject = p.body
      BY <1>1, <1>2, <2>1 DEF AnyCcall
    <2>3. CASE ccall.state = "orphan"
      <3>1. /\ c \in AnyCcall /\ c.state = b.state /\ c.seq = b.seq /\ c.kind = b.kind
            /\ c.boot = b.boot /\ c.ran = b.ran /\ c.reject = b.reject
        BY <1>2, <2>3 DEF AnyCcall
      <3> HIDE DEF c
      <3>2. QED
        BY <1>1, <1>2, <2>1, <3>1, RepliedGood DEF b
    <2>4. CASE ccall.state # "orphan"
      <3> HIDE DEF d
      <3>1. /\ c \in AnyCcall /\ c.state = b.state /\ c.seq = b.seq /\ c.kind = b.kind
            /\ c.boot = b.boot /\ c.ran = b.ran /\ c.reject = p.body
        BY <1>1, <2>1, <2>2, <2>4, FailGood
      <3> HIDE DEF c
      <3>2. QED
        BY <1>1, <1>2, <2>1, <3>1, RepliedGood DEF b
    <2>5. QED
      BY <2>3, <2>4
  <1>6. CASE DoWorking(p)
    <2> DEFINE c == [b EXCEPT !.xq = ccall.xq /\ ccall.kind = "idem"]
    <2>1. Replied(p, c)
      BY <1>6 DEF DoWorking, b
    <2>2. /\ c \in AnyCcall /\ c.state = b.state /\ c.seq = b.seq /\ c.kind = b.kind
          /\ c.boot = b.boot /\ c.ran = b.ran /\ c.reject = b.reject
      <3>1. (ccall.xq /\ ccall.kind = "idem") \in BOOLEAN
        OBVIOUS
      <3>2. QED
        BY <1>2, <3>1 DEF AnyCcall
    <2> HIDE DEF c
    <2>3. QED
      BY <1>1, <1>2, <2>1, <2>2, RepliedGood DEF b
  <1>7. CASE DoQuack(p)
    <2> DEFINE c == [b EXCEPT !.quack = TRUE]
    <2>1. Replied(p, c)
      BY <1>7 DEF DoQuack, b
    <2>2. /\ c \in AnyCcall /\ c.state = b.state /\ c.seq = b.seq /\ c.kind = b.kind
          /\ c.boot = b.boot /\ c.ran = b.ran /\ c.reject = b.reject
      BY <1>2 DEF AnyCcall
    <2> HIDE DEF c
    <2>3. QED
      BY <1>1, <1>2, <2>1, <2>2, RepliedGood DEF b
  <1>8. QED
    BY <1>4, <1>5, <1>6, <1>7 DEF ReplyHandled

\* What a step of the client has to keep of its own state
ClientKept == ClientInv' /\ MadeInOrder' /\ MadeStays /\ NetInv'

\* The calls a client has made, as far as the number k
LEMMA IdleCcallGood ==
  ASSUME ClientInv
  PROVE  /\ NoCcall \in AnyCcall /\ NoCcall.state = "none" /\ NoCcall.boot = 0
         /\ NoCcall.ran = 0 /\ NoCcall.reject = "none" /\ NoCcall.status = "ok"
         /\ IdleCcall \in AnyCcall /\ IdleCcall.state = "idle" /\ IdleCcall.boot = ccall.boot
         /\ IdleCcall.ran = 0
  <1>1. 0 \in 0..MaxSeq /\ 0 \in Boots
    BY SizeAssumption DEF Boots
  <1>2. ccall.boot \in Boots
    BY DEF ClientInv, AnyCcall
  <1>3. /\ NoCcall \in AnyCcall /\ NoCcall.state = "none" /\ NoCcall.boot = 0
        /\ NoCcall.ran = 0 /\ NoCcall.reject = "none" /\ NoCcall.status = "ok"
    BY <1>1 DEF NoCcall, AnyCcall, Status
  <1>4. QED
    BY <1>2, <1>3 DEF IdleCcall, AnyCcall

\* rpc__dg_call_start
LEMMA StartCallGood ==
  ASSUME NetInv, ClientInv, MadeInOrder, NEW kind \in Kinds, StartCall(kind)
  PROVE  /\ ClientKept
         /\ ccall'.state = "recv" /\ ccall'.seq = NextSeq /\ ccall'.kind = kind
         /\ ccall'.boot = InitialBoot /\ ccall'.ran = 0 /\ ccall'.reject = "none"
  <1> DEFINE n == NextSeq
             c == [NoCcall EXCEPT !.state = "recv", !.seq = n, !.kind = kind,
                     !.boot = InitialBoot, !.bound = hboot # 0, !.xq = TRUE]
  <1>1. n \in Seqs /\ n \in 0..MaxSeq
    BY SizeAssumption DEF StartCall, Seqs
  <1>2. InitialBoot \in Boots
    BY DEF InitialBoot, ClientInv, AnyCcall
  <1>3. /\ c \in AnyCcall /\ c.state = "recv" /\ c.seq = n /\ c.kind = kind
        /\ c.boot = InitialBoot /\ c.ran = 0 /\ c.reject = "none"
    <2>1. (hboot # 0) \in BOOLEAN
      OBVIOUS
    <2>2. QED
      BY <1>1, <1>2, <2>1, IdleCcallGood DEF AnyCcall
  <1>4. /\ ccall' = c /\ awaited' = n /\ net' = net \cup {Request(n, InitialBoot, kind)}
        /\ outcome' = [outcome EXCEPT ![n] = "pending"] /\ UNCHANGED <<hboot, giveups, resets>>
    BY DEF StartCall
  <1> HIDE DEF c
  <1>5. \A m \in Seqs : outcome[m] # "none" <=> m < n
    BY <1>1, NextSeqNew DEF Made
  <1>6. /\ outcome' \in [Seqs -> {"none", "pending", "ok", "failed", "denied"}]
        /\ outcome'[n] = "pending" /\ \A m \in Seqs \ {n} : outcome'[m] = outcome[m]
    BY <1>1, <1>4 DEF ClientInv
  <1>7. MadeInOrder'
    <2>1. \A m \in Seqs : outcome'[m] # "none" <=> m <= n
      BY <1>1, <1>5, <1>6 DEF Seqs
    <2>2. QED
      BY <1>1, <2>1 DEF MadeInOrder
  <1>8. MadeStays
    BY <1>1, <1>6 DEF MadeStays
  <1>9. ClientInv'
    BY <1>1, <1>3, <1>4, <1>6 DEF ClientInv, InTable, Made
  <1>10. NetInv'
    <2>1. PICK q : q = Request(n, InitialBoot, kind)
      OBVIOUS
    <2>2. q \in AnyPacket /\ q.type = "request" /\ q.seq = n /\ q.kind = kind
      BY <1>1, <1>2, <2>1, PacketForms
    <2>3. GoodPacket(q)'
      BY <1>1, <1>6, <2>2 DEF GoodPacket, Made
    <2>4. QED
      BY <1>4, <1>8, <2>1, <2>3, NetStaysGood
  <1>11. QED
    BY <1>3, <1>4, <1>7, <1>8, <1>9, <1>10 DEF ClientKept

\* Sending a packet of a call that was made
LEMMA SendsGood ==
  ASSUME NetInv, MadeStays, NEW q, GoodPacket(q), net' \subseteq net \cup {q}
  PROVE  NetInv'
  <1>1. GoodPacket(q)'
    BY DEF GoodPacket, Made, MadeStays
  <1>2. QED
    BY <1>1, NetStaysGood

\* Quits and acknowledgements of the client's own call
LEMMA HeaderGood ==
  ASSUME ClientInv, InTable, NEW t \in PacketType \ {"request", "reject"}
  PROVE  GoodPacket(Packet(t, ccall.seq, ccall.boot))
  <1>1. ccall.seq \in Seqs /\ ccall.boot \in Boots /\ Made(ccall.seq)
    BY DEF ClientInv, AnyCcall, Made
  <1>2. QED
    BY <1>1, PacketForms DEF GoodPacket

\* rpc__dg_call_end
LEMMA EndCallGood ==
  ASSUME NetInv, ClientInv, MadeInOrder, NEW result \in {"ok", "failed", "denied"},
         EndCall(result)
  PROVE  /\ ClientKept /\ ccall.state = "recv"
         /\ \A q \in net' : q \in net \/ q = Packet("quit", ccall.seq, ccall.boot)
         /\ hboot' \in {hboot, ccall.boot} /\ ccall'.boot = ccall.boot
         /\ ccall'.ran = 0 \/ (ccall'.ran = ccall.ran /\ ccall'.seq = ccall.seq)
         /\ InTable' => /\ ccall'.seq = ccall.seq /\ ccall'.kind = ccall.kind
                        /\ ccall'.reject = ccall.reject
  <1>1. /\ ccall.state = "recv" /\ InTable /\ ccall.seq \in Seqs /\ Made(ccall.seq)
        /\ ccall.seq \in 0..MaxSeq /\ ccall \in AnyCcall
        /\ outcome \in [Seqs -> {"none", "pending", "ok", "failed", "denied"}]
    BY DEF EndCall, InTable, ClientInv, AnyCcall, Made
  <1>2. /\ outcome' = [outcome EXCEPT ![ccall.seq] = result]
        /\ hboot' \in {hboot, ccall.boot} /\ UNCHANGED <<giveups, resets>>
    BY DEF EndCall
  <1>3. /\ outcome' \in [Seqs -> {"none", "pending", "ok", "failed", "denied"}]
        /\ \A m \in Seqs : outcome[m] # "none" <=> outcome'[m] # "none"
    BY <1>1, <1>2 DEF Made
  <1>4. MadeStays /\ MadeInOrder'
    BY <1>3 DEF MadeStays, MadeInOrder
  <1>5. hboot' \in Boots
    BY <1>1, <1>2 DEF ClientInv, AnyCcall
  <1>6. CASE ~ccall.done
    <2>1. /\ ccall' = [ccall EXCEPT !.state = "orphan"] /\ UNCHANGED awaited
          /\ net' = net \cup {Packet("quit", ccall.seq, ccall.boot)}
      BY <1>6 DEF EndCall
    <2>2. /\ ccall' \in AnyCcall /\ ccall'.state = "orphan" /\ ccall'.seq = ccall.seq
          /\ ccall'.kind = ccall.kind /\ ccall'.boot = ccall.boot /\ ccall'.ran = ccall.ran
          /\ ccall'.reject = ccall.reject
      BY <1>1, <2>1 DEF AnyCcall
    <2>3. ClientInv'
      BY <1>1, <1>2, <1>3, <1>5, <2>1, <2>2 DEF ClientInv, InTable, Made
    <2>4. GoodPacket(Packet("quit", ccall.seq, ccall.boot))
      BY <1>1, HeaderGood DEF PacketType
    <2>5. NetInv'
      BY <1>4, <2>1, <2>4, SendsGood
    <2>6. QED
      BY <1>1, <1>2, <1>4, <2>1, <2>2, <2>3, <2>5 DEF ClientKept
  <1>7. CASE ccall.done
    <2>1. /\ ccall' \in {[ccall EXCEPT !.state = "final"], IdleCcall}
          /\ awaited' = 0 /\ net' = Lasting
      BY <1>7 DEF EndCall
    <2>2. NetInv'
      BY <1>4, <2>1, NetOnlyShrinks DEF Lasting
    <2>3. CASE ccall' = IdleCcall
      BY <1>1, <1>2, <1>3, <1>4, <1>5, <2>1, <2>2, <2>3, IdleCcallGood
         DEF ClientKept, ClientInv, InTable, Lasting
    <2>4. CASE ccall' = [ccall EXCEPT !.state = "final"]
      <3>1. /\ ccall' \in AnyCcall /\ ccall'.state = "final" /\ ccall'.seq = ccall.seq
            /\ ccall'.kind = ccall.kind /\ ccall'.boot = ccall.boot /\ ccall'.ran = ccall.ran
            /\ ccall'.reject = ccall.reject
        BY <1>1, <2>4 DEF AnyCcall
      <3>2. ClientInv'
        BY <1>1, <1>2, <1>3, <1>5, <2>1, <3>1 DEF ClientInv, InTable, Made
      <3>3. QED
        BY <1>1, <1>2, <1>4, <2>1, <2>2, <3>1, <3>2 DEF ClientKept, Lasting
    <2>5. QED
      BY <2>1, <2>3, <2>4
  <1>8. QED
    BY <1>6, <1>7

\* Timers, the end of an orphan, the reset of the handle
QuietStep == EndOrphan \/ ResetBinding \/ GiveUp \/ OrphanTimeout \/ FinalAcks \/ Uncache
\* They send at most an acknowledgement, and end the call or leave it what it is.
LEMMA QuietStepGood ==
  ASSUME NetInv, ClientInv, MadeInOrder, QuietStep
  PROVE  /\ ClientKept /\ UNCHANGED outcome
         /\ \A q \in net' : q \in net \/ (InTable /\ q = Packet("ack", ccall.seq, ccall.boot))
         /\ hboot' \in {hboot, 0}
         /\ \/ SameCall /\ UNCHANGED net /\ ccall'.boot = ccall.boot /\ ccall'.ran = ccall.ran
               /\ ccall'.reject = ccall.reject
            \/ ccall' \in {NoCcall, IdleCcall}
  <1>1. UNCHANGED outcome /\ MadeStays /\ MadeInOrder'
    BY DEF QuietStep, EndOrphan, ResetBinding, GiveUp, OrphanTimeout, FinalAcks, Uncache, MadeStays,
           MadeInOrder
  <1>2. CASE GiveUp \/ OrphanTimeout
    <2>1. ccall \in AnyCcall
      BY DEF ClientInv
    <2>2. /\ ccall' \in AnyCcall /\ ccall'.state = ccall.state /\ ccall'.seq = ccall.seq
          /\ ccall'.kind = ccall.kind /\ ccall'.boot = ccall.boot /\ ccall'.ran = ccall.ran
          /\ ccall'.reject = ccall.reject
      <3>1. CASE GiveUp
        BY <2>1, <3>1 DEF GiveUp, AnyCcall, Status
      <3>2. CASE OrphanTimeout
        BY <2>1, <3>2 DEF OrphanTimeout, AnyCcall
      <3>3. QED
        BY <1>2, <3>1, <3>2
    <2>3. UNCHANGED <<awaited, net, hboot, outcome, resets>> /\ giveups' \in 0..MaxGiveUps
      BY <1>2, RetryAssumption DEF GiveUp, OrphanTimeout, ClientInv
    <2>4. SameCall
      BY <2>2, <2>3 DEF SameCall
    <2>5. NetInv'
      BY <1>1, <2>3, NetOnlyShrinks
    <2>6. ClientInv' /\ MadeInOrder' /\ MadeStays
      BY <2>4, SameCallGood
    <2>7. QED
      BY <1>1, <2>2, <2>3, <2>4, <2>5, <2>6 DEF ClientKept
  <1>3. CASE EndOrphan \/ Uncache
    <2>1. /\ ccall' \in {IdleCcall, NoCcall} /\ awaited' = 0 /\ net' \subseteq net
          /\ UNCHANGED <<hboot, outcome, giveups, resets>>
      BY <1>3 DEF EndOrphan, Uncache, Lasting, ClientInv
    <2>2. ClientInv'
      BY <2>1, IdleCcallGood DEF ClientInv, InTable
    <2>3. NetInv'
      BY <1>1, <2>1, NetOnlyShrinks
    <2>4. QED
      BY <1>1, <2>1, <2>2, <2>3 DEF ClientKept
  <1>4. CASE FinalAcks \/ ResetBinding
    <2>1. /\ ccall' \in {IdleCcall, NoCcall} /\ ccall.state \notin {"recv", "orphan"}
          /\ UNCHANGED <<awaited, outcome, giveups>> /\ hboot' \in {hboot, 0}
          /\ resets' \in 0..MaxResets /\ net' = net \cup AckIfFinal
      BY <1>4, RetryAssumption DEF FinalAcks, ResetBinding, ClientInv
    <2>2. ClientInv'
      <3>1. 0 \in Boots
        BY SizeAssumption DEF Boots
      <3>2. awaited = 0
        BY <2>1 DEF ClientInv
      <3>3. QED
        BY <2>1, <3>1, <3>2, IdleCcallGood DEF ClientInv, InTable
    <2>3. /\ NetInv'
          /\ \A q \in net' : q \in net \/ (InTable /\ q = Packet("ack", ccall.seq, ccall.boot))
      <3>1. CASE ccall.state = "final"
        <4>1. InTable /\ net' = net \cup {Packet("ack", ccall.seq, ccall.boot)}
          BY <2>1, <3>1 DEF InTable, AckIfFinal
        <4>2. GoodPacket(Packet("ack", ccall.seq, ccall.boot))
          BY <4>1, HeaderGood DEF PacketType
        <4>3. NetInv'
          BY <1>1, <4>1, <4>2, SendsGood
        <4>4. QED
          BY <4>1, <4>3
      <3>2. CASE ccall.state # "final"
        <4>1. net' = net
          BY <2>1, <3>2 DEF AckIfFinal
        <4>2. QED
          BY <1>1, <4>1, NetOnlyShrinks
      <3>3. QED
        BY <3>1, <3>2
    <2>4. QED
      BY <1>1, <2>1, <2>2, <2>3 DEF ClientKept
  <1>5. QED
    BY <1>2, <1>3, <1>4 DEF QuietStep

-----------------------------------------------------------------------------
(* What the server sends *)

\* A rejected boot time, an answer without a result, the end of a call
SendsReply(x, q) ==
  /\ Handle(x).state = "recv" /\ exe[x].pc # "none"
  /\ \/ /\ q = Reject(Handle(x).seq, sboot, "unk_if")
        /\ At(x, "start") /\ Handle(x).kind = "unknown"
     \/ /\ q = Reject(Handle(x).seq, sboot, "who_are_you_failed")
        /\ At(x, "relock") /\ exe[x].st # "ok"
     \/ q = Response(Handle(x).seq, sboot, exe[x].seq) /\ At(x, "stub")
ServerSends(q) ==
  \/ \E n \in Seqs, b \in Boots \ {0, sboot} :
       Made(n) /\ q = Reject(n, b, "wrong_boot_time")
         /\ ((\E p \in net : p.boot = b) \/ ccall.boot = b)
  \/ \E n \in Seqs :
       Made(n) /\ q \in {Reject(n, sboot, "proto_error"), Packet("quack", n, sboot),
                         Packet("working", n, sboot), Packet("nocall", n, sboot)}
  \/ \E x \in Executors : ReplyingStep(x) /\ SendsReply(x, q)

\* All it sends are good packets.
LEMMA SentGood ==
  ASSUME ServerInv, NEW q, ServerSends(q)
  PROVE  GoodPacket(q) /\ q.type # "request"
  <1>1. CASE \E n \in Seqs, b \in Boots \ {0, sboot} :
               Made(n) /\ q = Reject(n, b, "wrong_boot_time")
    BY <1>1, PacketForms DEF GoodPacket, Status
  <1>2. CASE \E n \in Seqs :
               Made(n) /\ q \in {Reject(n, sboot, "proto_error"), Packet("quack", n, sboot),
                                 Packet("working", n, sboot), Packet("nocall", n, sboot)}
    <2>1. PICK n \in Seqs :
               Made(n) /\ q \in {Reject(n, sboot, "proto_error"), Packet("quack", n, sboot),
                                 Packet("working", n, sboot), Packet("nocall", n, sboot)}
      BY <1>2
    <2>2. sboot \in Boots
      BY DEF ServerInv
    <2>3. CASE q = Reject(n, sboot, "proto_error")
      BY <2>1, <2>2, <2>3, PacketForms DEF GoodPacket, Status
    <2>4. CASE \E t \in {"quack", "working", "nocall"} : q = Packet(t, n, sboot)
      BY <2>1, <2>2, <2>4, PacketForms DEF GoodPacket, PacketType
    <2>5. QED
      BY <2>1, <2>3, <2>4
  <1>3. CASE \E x \in Executors : SendsReply(x, q)
    <2>1. PICK x \in Executors : SendsReply(x, q)
      BY <1>3
    <2>2. /\ Handle(x).seq \in Seqs /\ Made(Handle(x).seq)
          /\ sboot \in Boots /\ exe[x].seq \in 0..MaxSeq
      BY <2>1 DEF SendsReply, Handle, ServerInv, GoodExecutor, GoodScall, AnyExecutor, Made
    <2>3. CASE \E st \in Status : q = Reject(Handle(x).seq, sboot, st)
      BY <2>2, <2>3, PacketForms DEF GoodPacket
    <2>4. CASE q = Response(Handle(x).seq, sboot, exe[x].seq)
      BY <2>2, <2>4, PacketForms DEF GoodPacket
    <2>5. QED
      BY <2>1, <2>3, <2>4 DEF SendsReply, Status
  <1>4. QED
    BY <1>1, <1>2, <1>3 DEF ServerSends

\* What the answer to a ping is: sent before, or without a result
LEMMA PingAnswers ==
  ASSUME ServerInv, ClientInv, FinalHasReply, PingServer
  PROVE  PingReply(Ping) \in net \/ ServerSends(PingReply(Ping))
  <1> DEFINE p == Ping
             s == IF scte.present THEN InqScall(scte, p.seq) ELSE 0
             current == s # 0 /\ scall[s].seq = p.seq
  <1>1. /\ ccall.state = "recv" /\ Made(ccall.seq) /\ ccall.seq \in Seqs /\ ccall.boot \in Boots
        /\ awaited = ccall.seq
    BY DEF PingServer, Waiting, ClientInv, InTable, AnyCcall, Made
  <1>2. p.seq = ccall.seq /\ p.boot = ccall.boot
    BY DEF Ping, Packet
  <1>3. CASE ~ChkSboot(p)
    BY <1>1, <1>2, <1>3 DEF PingReply, ChkSboot, ServerSends
  <1>4. CASE ChkSboot(p) /\ current /\ scall[s].state = "final"
    <2>1. s \in Scalls
      BY <1>4 DEF InqScall, ServerInv, AnyScte
    <2>2. \E q \in Received("response") \cup Received("reject") : q.seq = p.seq /\ q.boot = sboot
      BY <1>1, <1>2, <1>4, <2>1 DEF FinalHasReply, Received
    <2>3. PingReply(p) = CHOOSE q \in Received("response") \cup Received("reject") :
                           q.seq = p.seq /\ q.boot = sboot
      BY <1>4 DEF PingReply
    <2>4. PingReply(p) \in Received("response") \cup Received("reject")
      BY <2>2, <2>3
    <2>5. QED
      BY <2>4 DEF Received
  <1>5. CASE ChkSboot(p) /\ ~(current /\ scall[s].state = "final")
    <2>1. PingReply(p) \in {Packet("working", p.seq, sboot), Packet("nocall", p.seq, sboot)}
      BY <1>5 DEF PingReply
    <2>2. QED
      BY <1>1, <1>2, <2>1 DEF ServerSends
  <1>6. QED
    BY <1>3, <1>4, <1>5

\* An ending step sends at most one packet.
LEMMA ServerEndsSends ==
  ASSUME NetInv, ServerInv, ClientInv, FinalHasReply, ServerEnds
  PROVE  \/ net' = net
         \/ \E q : ServerSends(q) /\ net' = net \cup {q}
  <1>1. ASSUME NEW q, ServerSends(q) \/ q \in net, Send(q)
        PROVE  net' = net \/ \E r : ServerSends(r) /\ net' = net \cup {r}
    BY <1>1 DEF Send
  <1>2. CASE PingServer
    BY <1>1, <1>2, PingAnswers DEF PingServer, DoPing
  <1>3. CASE FinalTimeout \/ IdleTimeout
    BY <1>3 DEF FinalTimeout, IdleTimeout
  <1>4. CASE \E x \in Executors : AbortingStep(x)
    BY <1>4 DEF AbortingStep, StartAborts, StartIsOld, LockAborts, RelockAborts, StubOrphaned,
                EndOfCall
  <1>5. CASE \E x \in Executors : ReplyingStep(x)
    <2>1. PICK x \in Executors : ReplyingStep(x)
      BY <1>5
    <2>2. PICK q : SendsReply(x, q) /\ Send(q)
      <3>1. CASE RejectUnknown(x)
        BY <3>1, Zenon DEF RejectUnknown, TakeRequest, NotReceiving, SendReply, SendsReply, At
      <3>2. CASE RelockRejects(x)
        BY <3>2, Zenon DEF RelockRejects, NotReceiving, SendReply, SendsReply, At
      <3>3. CASE StubReturns(x)
        BY <3>3, Zenon DEF StubReturns, NotReceiving, SendReply, SendsReply, At
      <3>4. QED
        BY <2>1, <3>1, <3>2, <3>3 DEF ReplyingStep
    <2>3. QED
      BY <1>1, <2>1, <2>2 DEF ServerSends
  <1>6. CASE \E p \in net : EndingPacket(p)
    <2>1. PICK p \in net : EndingPacket(p)
      BY <1>6
    <2>2. p.seq \in Seqs /\ Made(p.seq) /\ p.boot \in Boots
      BY DEF NetInv, GoodPacket, AnyPacket, Made
    <2>3. CASE WrongBoot(p)
      <3>1. ServerSends(Reject(p.seq, p.boot, "wrong_boot_time"))
        BY <2>2, <2>3 DEF WrongBoot, ServerSends, ChkSboot
      <3>2. QED
        BY <1>1, <2>3, <3>1 DEF WrongBoot
    <2>4. CASE RequestRerun(p)
      <3>1. ServerSends(Reject(p.seq, sboot, "proto_error"))
        BY <2>2 DEF ServerSends
      <3>2. QED
        BY <1>1, <2>4, <3>1 DEF RequestRerun
    <2>5. CASE DoQuit(p)
      <3>1. ServerSends(Packet("quack", p.seq, sboot))
        BY <2>2 DEF ServerSends
      <3>2. QED
        BY <1>1, <2>5, <3>1 DEF DoQuit
    <2>6. CASE RequestOrphans(p) \/ DoAck(p)
      BY <2>6 DEF RequestOrphans, DoAck
    <2>7. QED
      BY <2>1, <2>3, <2>4, <2>5, <2>6 DEF EndingPacket
  <1>7. QED
    BY <1>2, <1>3, <1>4, <1>5, <1>6 DEF ServerEnds

\* No call becomes final.
NoNewFinal ==
  \A s \in Scalls : scall'[s].state = "final" =>
                      scall[s].state = "final" /\ scall'[s].seq = scall[s].seq
\* Then a final handle still has its reply.
LEMMA FinalStays ==
  ASSUME FinalHasReply, NoNewFinal, UNCHANGED <<awaited, sboot>>, net \subseteq net'
  PROVE  FinalHasReply'
  BY DEF FinalHasReply, NoNewFinal

\* What Reclaim does to a handle
LEMMA ReclaimLeaves ==
  ASSUME NEW sc, NEW e, NEW ex, scall' = Reclaim(sc, e, ex), NEW s \in Scalls
  PROVE  scall'[s] \in {sc[s], FreeScall}
  BY DEF Reclaim

\* A call becomes final when its reply is sent.
LEMMA ServerEndsReply ==
  ASSUME NetInv, ServerInv, FollowInv, ClientInv, FinalHasReply, ServerEnds,
         UNCHANGED clientVars
  PROVE  FinalHasReply'
  <1>1. net \subseteq net' /\ UNCHANGED awaited
    BY ServerEndsSends DEF clientVars
  <1>2. UNCHANGED sboot
    BY ServerEndsEnds DEF EndingStep
  <1>3. scall \in [Scalls -> AnyScall]
    BY DEF ServerInv
  <1>4. ASSUME NEW s \in Scalls, NEW st \in {"idle", "orphan"}, NEW e, NEW ex,
               scall' = Reclaim([scall EXCEPT ![s].state = st], e, ex)
        PROVE  NoNewFinal
    <2> DEFINE sc == [scall EXCEPT ![s].state = st]
    <2>1. /\ \A t \in Scalls \ {s} : sc[t] = scall[t]
          /\ sc[s].state = st
      BY <1>3 DEF AnyScall
    <2>2. scall' = Reclaim(sc, e, ex)
      BY <1>4
    <2> HIDE DEF sc
    <2>3. \A t \in Scalls : scall'[t] \in {sc[t], FreeScall}
      BY <2>2, ReclaimLeaves
    <2>4. QED
      BY <2>1, <2>3, Idle DEF NoNewFinal
  <1>5. ASSUME NEW s \in Scalls, scall' = [scall EXCEPT ![s].state = "idle"]
        PROVE  NoNewFinal
    <2>1. \A t \in Scalls \ {s} : scall'[t] = scall[t]
      BY <1>3, <1>5
    <2>2. scall'[s].state = "idle"
      BY <1>3, <1>5 DEF AnyScall
    <2>3. QED
      BY <2>1, <2>2 DEF NoNewFinal
  <1>6. CASE PingServer
    BY <1>1, <1>2, <1>6, FinalStays DEF PingServer, DoPing, serverVars, NoNewFinal
  <1>7. CASE FinalTimeout
    <2>1. scte.scall \in Scalls
      BY <1>7 DEF FinalTimeout, ServerInv, AnyScte
    <2>2. NoNewFinal
      BY <1>5, <1>7, <2>1 DEF FinalTimeout
    <2>3. QED
      BY <1>1, <1>2, <2>2, FinalStays
  <1>8. CASE IdleTimeout
    <2>1. \A t \in Scalls : scall'[t] \in {scall[t], FreeScall}
      BY <1>8, ReclaimLeaves DEF IdleTimeout
    <2>2. NoNewFinal
      BY <2>1, Idle DEF NoNewFinal
    <2>3. QED
      BY <1>1, <1>2, <2>2, FinalStays
  <1>9. CASE \E x \in Executors : AbortingStep(x)
    <2>1. PICK x \in Executors : EndOfCall(x) /\ exe[x].pc # "none"
      BY <1>9 DEF AbortingStep, StartAborts, StartIsOld, LockAborts, RelockAborts,
                  StubOrphaned, TakeRequest, At
    <2>2. exe[x].scall \in Scalls
      BY <2>1 DEF ServerInv, GoodExecutor
    <2>3. PICK st \in {"idle", "orphan"} : \E ex :
            scall' = Reclaim([scall EXCEPT ![exe[x].scall].state = st], scte, ex)
      BY <2>1 DEF EndOfCall
    <2>4. NoNewFinal
      BY <1>4, <2>2, <2>3
    <2>5. QED
      BY <1>1, <1>2, <2>4, FinalStays
  <1>10. CASE \E p \in net : EndingPacket(p)
    <2>1. PICK p \in net : EndingPacket(p)
      BY <1>10
    <2> DEFINE s == IF scte.present THEN InqScall(scte, p.seq) ELSE 0
    <2>2. s # 0 => s \in Scalls
      BY DEF InqScall, ServerInv, AnyScte
    <2>3. CASE RequestOrphans(p)
      <3>1. scte.scall \in Scalls
        BY <2>3, Decision DEF RequestOrphans
      <3>2. NoNewFinal
        BY <1>4, <2>3, <3>1 DEF RequestOrphans, OrphanCall
      <3>3. QED
        BY <1>1, <1>2, <3>2, FinalStays
    <2>4. CASE DoQuit(p)
      <3>1. s \in Scalls /\ (UNCHANGED scall \/ OrphanCall(s))
        BY <2>2, <2>4 DEF DoQuit
      <3> HIDE DEF s
      <3>2. NoNewFinal
        BY <1>4, <3>1 DEF OrphanCall, NoNewFinal
      <3>3. QED
        BY <1>1, <1>2, <3>2, FinalStays
    <2>5. CASE DoAck(p)
      <3>1. s \in Scalls /\ scall' = [scall EXCEPT ![s].state = "idle"]
        BY <2>2, <2>5 DEF DoAck
      <3> HIDE DEF s
      <3>2. NoNewFinal
        BY <1>5, <3>1
      <3>3. QED
        BY <1>1, <1>2, <3>2, FinalStays
    <2>6. CASE WrongBoot(p) \/ RequestRerun(p)
      BY <1>1, <1>2, <2>6, FinalStays DEF WrongBoot, RequestRerun, serverVars, NoNewFinal
    <2>7. QED
      BY <2>1, <2>3, <2>4, <2>5, <2>6 DEF EndingPacket
  <1>11. CASE \E x \in Executors : ReplyingStep(x)
    <2>1. PICK x \in Executors : ReplyingStep(x)
      BY <1>11
    <2>2. PICK reply, kind :
            /\ SendReply(x, reply, kind) /\ reply.type \in {"response", "reject"}
            /\ reply.seq = Handle(x).seq /\ reply.boot = sboot
      <3>1. CASE RejectUnknown(x)
        BY <3>1 DEF RejectUnknown, Reject, Packet
      <3>2. CASE RelockRejects(x)
        BY <3>2 DEF RelockRejects, Reject, Packet
      <3>3. CASE StubReturns(x)
        BY <3>3 DEF StubReturns, Response, Packet
      <3>4. QED
        BY <2>1, <3>1, <3>2, <3>3 DEF ReplyingStep
    <2>3. exe[x].scall \in Scalls
      BY <2>1 DEF ReplyingStep, RejectUnknown, RelockRejects, StubReturns, TakeRequest, At,
                  ServerInv, GoodExecutor
    <2> DEFINE s == exe[x].scall
               st == IF kind = "idem" THEN "idle" ELSE "final"
               sc == [scall EXCEPT ![s].state = st, ![s].rq = FALSE]
               ex == [exe EXCEPT ![x] = IdleExecutor]
    <2>4. /\ \A t \in Scalls \ {s} : sc[t] = scall[t]
          /\ sc[s].seq = Handle(x).seq
      BY <1>3, <2>3 DEF AnyScall, Handle
    <2>5. scall' = Reclaim(sc, scte, ex) /\ Send(reply)
      BY <2>2 DEF SendReply
    <2> HIDE DEF sc, ex
    <2>6. \A t \in Scalls : scall'[t] \in {sc[t], FreeScall}
      BY <2>5, ReclaimLeaves
    <2>7. ASSUME NEW t \in Scalls, scall'[t].state = "final", scall'[t].seq = awaited
          PROVE  \E q \in net' : q.type \in {"response", "reject"} /\ q.seq = awaited /\ q.boot = sboot
      <3>1. CASE t = s
        <4>1. reply.seq = awaited
          BY <2>2, <2>4, <2>6, <2>7, <3>1, Idle
        <4>2. reply \in net'
          BY <2>5, <4>1 DEF Send
        <4>3. QED
          BY <2>2, <4>1, <4>2
      <3>2. CASE t # s
        <4>1. scall[t].state = "final" /\ scall[t].seq = awaited
          BY <2>4, <2>6, <2>7, <3>2, Idle
        <4>2. QED
          BY <1>1, <4>1 DEF FinalHasReply
      <3>3. QED
        BY <3>1, <3>2
    <2>8. QED
      BY <1>1, <1>2, <2>7 DEF FinalHasReply
  <1>12. QED
    BY <1>6, <1>7, <1>8, <1>9, <1>10, <1>11 DEF ServerEnds

-----------------------------------------------------------------------------
(* The type invariant, and handles and executors *)

\* What the client's packet handlers keep, and the packets they may send
LEMMA ClientReceivesGood ==
  ASSUME NetInv, ClientInv, MadeInOrder, ClientReceives
  PROVE  /\ ClientKept /\ UNCHANGED <<awaited, hboot, outcome>> /\ net \subseteq net'
         /\ \/ \E p \in net : ReplyStep(p)
            \/ UNCHANGED clientVars
               /\ \E p \in net : net' = net \cup {Packet("ack", p.seq, p.boot)}
            \/ SameCall /\ ccall'.boot = ccall.boot /\ ccall'.ran = ccall.ran
               /\ ccall'.reject = ccall.reject
               /\ InTable
               /\ net' \subseteq net \cup {Request(ccall.seq, ccall.boot, ccall.kind)}
  <1>1. PICK p \in net : ReplyHandled(p) \/ AckOldResponse(p) \/ DoNocall(p)
    BY DEF ClientReceives, ReplyHandled
  <1>2. p.seq \in Seqs /\ Made(p.seq) /\ p.boot \in Boots
    BY DEF NetInv, GoodPacket, AnyPacket, Made
  <1>3. CASE ReplyHandled(p)
    <2>1. ReplyStep(p)
      BY <1>3, ReplyHandledGood
    <2>2. ClientInv' /\ MadeInOrder' /\ MadeStays /\ UNCHANGED <<awaited, net, hboot, outcome>>
      BY <2>1, SameCallGood DEF ReplyStep, SameCall
    <2>3. NetInv'
      BY <2>2, NetOnlyShrinks
    <2>4. QED
      BY <2>1, <2>2, <2>3 DEF ClientKept
  <1>4. CASE AckOldResponse(p)
    <2>1. net' = net \cup {Packet("ack", p.seq, p.boot)} /\ UNCHANGED clientVars
      BY <1>4 DEF AckOldResponse
    <2>2. UNCHANGED <<awaited, hboot, ccall, outcome, giveups, resets>>
      BY <2>1 DEF clientVars
    <2>3. ClientInv' /\ MadeInOrder' /\ MadeStays
      BY <2>2 DEF ClientInv, MadeInOrder, MadeStays, InTable, Made
    <2>4. GoodPacket(Packet("ack", p.seq, p.boot))
      BY <1>2, PacketForms DEF GoodPacket, PacketType
    <2>5. NetInv'
      BY <2>1, <2>3, <2>4, SendsGood
    <2>6. QED
      BY <2>1, <2>2, <2>3, <2>5 DEF ClientKept
  <1>5. CASE DoNocall(p)
    <2>1. /\ ccall.state = "recv" /\ InTable /\ ccall \in AnyCcall
          /\ UNCHANGED <<awaited, hboot, outcome, giveups, resets>>
      BY <1>5 DEF DoNocall, InTable, ClientInv
    <2>2. \/ UNCHANGED ccall /\ net' = net \cup {Request(ccall.seq, ccall.boot, ccall.kind)}
          \/ UNCHANGED net /\ ccall' = Fail(ccall, "wrong_boot_time")
      BY <1>5 DEF DoNocall
    <2>3. /\ SameCall /\ ccall'.boot = ccall.boot /\ ccall'.ran = ccall.ran
          /\ ccall'.reject = ccall.reject
      <3>1. giveups' \in 0..MaxGiveUps
        BY <2>1 DEF ClientInv
      <3>2. "wrong_boot_time" \in Status
        BY DEF Status
      <3>3. QED
        BY <2>1, <2>2, <3>1, <3>2, FailGood DEF SameCall
    <2>4. ClientInv' /\ MadeInOrder' /\ MadeStays
      BY <2>3, SameCallGood
    <2>5. GoodPacket(Request(ccall.seq, ccall.boot, ccall.kind))
      <3>1. ccall.seq \in Seqs /\ ccall.boot \in Boots /\ ccall.kind \in Kinds /\ Made(ccall.seq)
        BY <2>1 DEF ClientInv, AnyCcall, Made
      <3>2. QED
        BY <3>1, PacketForms DEF GoodPacket
    <2>6. net \subseteq net' /\ net' \subseteq net \cup {Request(ccall.seq, ccall.boot, ccall.kind)}
      BY <2>2
    <2>7. NetInv'
      BY <2>4, <2>5, <2>6, SendsGood
    <2>8. QED
      BY <2>1, <2>3, <2>4, <2>6, <2>7 DEF ClientKept
  <1>6. QED
    BY <1>1, <1>3, <1>4, <1>5

\* The client's answer to a callback sets at most the boot time.
LEMMA WayStashGood ==
  ASSUME ClientInv, MadeInOrder, NEW boot \in Boots, WayStash(boot),
         UNCHANGED <<awaited, hboot, outcome, giveups, resets>>
  PROVE  /\ SameCall /\ ccall'.ran = ccall.ran /\ ccall'.reject = ccall.reject
         /\ ccall'.boot \in {ccall.boot, boot} /\ (ccall.boot # 0 => ccall' = ccall)
         /\ InTable => ccall'.boot # 0 \/ boot = 0
         /\ ~InTable => ccall' = ccall
         /\ ClientInv' /\ MadeInOrder' /\ MadeStays
  <1>1. ccall \in AnyCcall /\ giveups' \in 0..MaxGiveUps
    BY DEF ClientInv
  <1>2. /\ ccall' \in AnyCcall /\ ccall'.state = ccall.state /\ ccall'.seq = ccall.seq
        /\ ccall'.kind = ccall.kind /\ ccall'.ran = ccall.ran /\ ccall'.reject = ccall.reject
        /\ ccall'.boot \in {ccall.boot, boot} /\ (ccall.boot # 0 => ccall' = ccall)
        /\ InTable => ccall'.boot # 0 \/ boot = 0
        /\ ~InTable => ccall' = ccall
    BY <1>1 DEF WayStash, AnyCcall
  <1>3. SameCall
    BY <1>1, <1>2 DEF SameCall
  <1>4. QED
    BY <1>2, <1>3, SameCallGood

\* A step of the client's own thread and timers
LEMMA ClientStepGood ==
  ASSUME NetInv, ClientInv, MadeInOrder, ClientStep
  PROVE  ClientKept
  BY StartCallGood, EndCallGood, QuietStepGood DEF ClientStep, QuietStep

\* Final handles keep their reply over the other steps of the server.
LEMMA ServerGoesOnReply ==
  ASSUME NetInv, ServerInv, ClientInv, FinalHasReply,
         \/ (BeginningSome \/ Crash \/ ForgetActivity) /\ UNCHANGED clientVars
         \/ (\E x \in Executors : CarryingOn(x)) /\ UNCHANGED clientVars
         \/ \E x \in Executors : WhoAreYou(x)
  PROVE  FinalHasReply'
  <1>1. UNCHANGED awaited
    BY DEF clientVars, WhoAreYou
  <1>2. CASE Crash
    BY <1>2, Idle DEF Crash, FinalHasReply
  <1>3. CASE ForgetActivity
    <2>1. awaited' = 0 /\ UNCHANGED scall
      BY <1>1, <1>3 DEF ForgetActivity, SctTimer, InTable, ClientInv
    <2>2. \A s \in Scalls : scall[s].state = "final" => scall[s].seq # 0
      BY DEF ServerInv, GoodScall, Made, Seqs
    <2>3. QED
      BY <2>1, <2>2 DEF FinalHasReply
  <1>4. CASE \E x \in Executors : CarryingOn(x) \/ WhoAreYou(x)
    <2>1. PICK x \in Executors : AdvancingStep(x)
      BY <1>4, CarryingOnAdvances, WhoAreYouAdvances
    <2>2. UNCHANGED net
      BY <1>4 DEF CarryingOn, StartCallsStub, StartNeedsWay, WayValidate, WaySucceeds, WayFails,
                  RelockCallsStub, CallStub, WhoAreYou
    <2>3. NoNewFinal /\ UNCHANGED sboot
      BY <2>1 DEF AdvancingStep, NoNewFinal
    <2>4. QED
      BY <1>1, <2>2, <2>3, FinalStays
  <1>5. CASE BeginningSome
    <2>1. PICK p \in net : RequestCurrent(p) \/ RequestNew(p) \/ RequestNoThread(p)
      BY <1>5 DEF BeginningSome
    <2>2. UNCHANGED <<net, sboot>> /\ scall \in [Scalls -> AnyScall]
      BY <2>1 DEF RequestCurrent, RequestNew, RequestNoThread, ServerInv
    <2>3. NoNewFinal
      <3>1. CASE RequestCurrent(p)
        BY <3>1, RequestCurrentGood DEF NoNewFinal
      <3>2. CASE RequestNew(p) \/ RequestNoThread(p)
        <4> DEFINE s == NewCallHandle(SctGet(p.seq))
        <4>1. PICK state \in {"recv", "idle"} : scall' = [scall EXCEPT ![s] = NewScall(p, state)]
          BY <3>2 DEF RequestNew, RequestNoThread
        <4>2. NewScall(p, state).state # "final"
          BY DEF NewScall
        <4>3. QED
          <5> DEFINE h == NewScall(p, state)
          <5>1. scall' = [scall EXCEPT ![s] = h] /\ h.state # "final"
            BY <4>1, <4>2
          <5> HIDE DEF h, s
          <5>2. \A t \in Scalls : scall'[t] \in {scall[t], h}
            BY <2>2, <5>1
          <5>3. QED
            BY <5>1, <5>2 DEF NoNewFinal
      <3>3. QED
        BY <2>1, <3>1, <3>2
    <2>4. QED
      BY <1>1, <2>2, <2>3, FinalStays
  <1>6. QED
    BY <1>2, <1>3, <1>4, <1>5

\* ... and over the client's: when the client begins to wait for a call the server
\* has no handle in that call's final state, for it has not heard of it.
LEMMA ClientReply ==
  ASSUME NetInv, ServerInv, ClientInv, MadeInOrder, FinalHasReply,
         ClientReceives \/ ClientStep, UNCHANGED serverVars
  PROVE  FinalHasReply'
  <1>1. UNCHANGED <<sboot, scall>>
    BY DEF serverVars
  <1>2. \A s \in Scalls : scall[s].state = "final" => scall[s].seq # 0 /\ Made(scall[s].seq)
    BY DEF ServerInv, GoodScall, Made, Seqs
  <1>3. ASSUME UNCHANGED awaited, net \subseteq net'
        PROVE  FinalHasReply'
    BY <1>1, <1>3 DEF FinalHasReply
  <1>4. ASSUME awaited' = 0
        PROVE  FinalHasReply'
    BY <1>1, <1>2, <1>4 DEF FinalHasReply
  <1>5. CASE ClientReceives
    BY <1>3, <1>5, ClientReceivesGood
  <1>6. CASE \E kind \in Kinds : StartCall(kind)
    <2>1. awaited' = NextSeq /\ NextSeq \in Seqs
      BY <1>6 DEF StartCall
    <2>2. ~Made(NextSeq)
      BY <2>1, NextSeqNew DEF Seqs
    <2>3. QED
      BY <1>1, <1>2, <2>1, <2>2 DEF FinalHasReply
  <1>7. CASE \E result \in {"ok", "failed", "denied"} : EndCall(result)
    BY <1>3, <1>4, <1>7 DEF EndCall
  <1>8. CASE QuietStep
    BY <1>3, <1>4, <1>8 DEF QuietStep, EndOrphan, ResetBinding, GiveUp, OrphanTimeout, FinalAcks,
                            Uncache
  <1>9. QED
    BY <1>5, <1>6, <1>7, <1>8 DEF ClientStep, QuietStep

\* What every step keeps
BasicInv == TypeInv /\ FollowInv

\* Steps of the server that leave the client alone
LEMMA ServerSideNext ==
  ASSUME BasicInv, UNCHANGED clientVars,
         \/ ServerEnds \/ BeginningSome \/ Crash \/ ForgetActivity
         \/ \E x \in Executors : CarryingOn(x)
  PROVE  BasicInv'
  <1> USE DEF BasicInv, TypeInv
  <1>1. /\ UNCHANGED <<awaited, hboot, ccall, outcome, giveups, resets>>
        /\ ClientInv' /\ MadeInOrder' /\ MadeStays
    BY DEF clientVars, ClientInv, MadeInOrder, MadeStays, InTable, Made
  <1>2. CASE ServerEnds
    <2>1. NetInv'
      <3>1. CASE net' = net
        BY <1>1, <3>1, NetOnlyShrinks
      <3>2. CASE \E q : ServerSends(q) /\ net' = net \cup {q}
        BY <1>1, <3>2, SentGood, SendsGood
      <3>3. QED
        BY <1>2, <3>1, <3>2, ServerEndsSends
    <2>2. ServerInv' /\ FollowInv'
      BY <1>1, <1>2, ServerEndsEnds, EndingServerInv, EndingFollows
    <2>3. FinalHasReply'
      BY <1>2, ServerEndsReply
    <2>4. QED
      BY <1>1, <2>1, <2>2, <2>3
  <1>3. CASE BeginningSome
    <2>1. net' = net
      BY <1>3 DEF BeginningSome, RequestCurrent, RequestNew, RequestNoThread
    <2>2. NetInv'
      BY <1>1, <2>1, NetOnlyShrinks
    <2>3. ServerInv' /\ FollowInv'
      BY <1>1, <1>3, RequestCurrentGood, NewCallGood DEF BeginningSome
    <2>4. FinalHasReply'
      BY <1>3, ServerGoesOnReply
    <2>5. QED
      BY <1>1, <2>2, <2>3, <2>4
  <1>4. CASE Crash \/ ForgetActivity
    <2>1. net' \subseteq net
      BY <1>4 DEF Crash, ForgetActivity
    <2>2. NetInv'
      BY <1>1, <2>1, NetOnlyShrinks
    <2>3. ServerInv' /\ FollowInv'
      BY <1>1, <1>4, CrashGood, ForgetGood DEF ForgetActivity
    <2>4. FinalHasReply'
      BY <1>4, ServerGoesOnReply
    <2>5. QED
      BY <1>1, <2>2, <2>3, <2>4
  <1>5. CASE \E x \in Executors : CarryingOn(x)
    <2>1. net' = net
      BY <1>5 DEF CarryingOn, StartCallsStub, StartNeedsWay, WayValidate, WaySucceeds, WayFails,
                  RelockCallsStub, CallStub
    <2>2. NetInv'
      BY <1>1, <2>1, NetOnlyShrinks
    <2>3. ServerInv' /\ FollowInv'
      BY <1>1, <1>5, CarryingOnAdvances, AdvancingGood
    <2>4. FinalHasReply'
      BY <1>5, ServerGoesOnReply
    <2>5. QED
      BY <1>1, <2>2, <2>3, <2>4
  <1>6. QED
    BY <1>2, <1>3, <1>4, <1>5

\* The invariant is inductive.
LEMMA BasicNext ==
  ASSUME BasicInv, [Next]_vars
  PROVE  BasicInv'
  <1> USE DEF BasicInv, TypeInv
  <1>1. CASE (ServerEnds \/ BeginningSome \/ Crash \/ ForgetActivity) /\ UNCHANGED clientVars
    BY <1>1, ServerSideNext
  <1>2. CASE (\E x \in Executors : CarryingOn(x)) /\ UNCHANGED clientVars
    BY <1>2, ServerSideNext
  <1>3. CASE \E x \in Executors : WhoAreYou(x)
    <2>1. PICK x \in Executors : WhoAreYou(x)
      BY <1>3
    <2>2. /\ WayStash(sboot) /\ sboot \in Boots
          /\ UNCHANGED <<net, awaited, hboot, outcome, giveups, resets>>
      BY <2>1 DEF WhoAreYou, ServerInv
    <2>3. ClientInv' /\ MadeInOrder' /\ MadeStays
      BY <2>2, WayStashGood
    <2>4. ServerInv' /\ FollowInv'
      BY <2>1, <2>2, WhoAreYouAdvances, AdvancingGood
    <2>5. NetInv' /\ FinalHasReply'
      BY <1>3, <2>2, <2>3, NetOnlyShrinks, ServerGoesOnReply
    <2>6. QED
      BY <2>3, <2>4, <2>5
  <1>4. CASE (ClientReceives \/ ClientStep) /\ UNCHANGED serverVars
    <2>1. ClientInv' /\ MadeInOrder' /\ MadeStays /\ NetInv'
      BY <1>4, ClientReceivesGood, ClientStepGood DEF ClientKept
    <2>2. FinalHasReply'
      BY <1>4, ClientReply
    <2>3. FollowInv'
      BY <1>4, ServerRests, EndingFollows
    <2>4. ServerInv'
      BY <1>4, <2>1 DEF serverVars, ServerInv, GoodScall, GoodExecutor, Made, MadeStays
    <2>5. QED
      BY <2>1, <2>2, <2>3, <2>4
  <1>5. CASE \E boot \in Boots : LateWhoAreYou(boot)
    <2>1. PICK boot \in Boots :
            WayStash(boot) /\ UNCHANGED <<net, serverVars, awaited, hboot, outcome, giveups, resets>>
      BY <1>5 DEF LateWhoAreYou
    <2>2. ClientInv' /\ MadeInOrder' /\ MadeStays
      BY <2>1, WayStashGood
    <2>3. ServerInv' /\ FollowInv'
      BY <2>1, ServerRests, EndingFollows, EndingServerInv
    <2>4. NetInv'
      BY <2>1, <2>2, NetOnlyShrinks
    <2>5. FinalHasReply'
      BY <2>1 DEF FinalHasReply, serverVars
    <2>6. QED
      BY <2>2, <2>3, <2>4, <2>5
  <1>6. CASE UNCHANGED vars
    <2>1. UNCHANGED <<net, serverVars, awaited, hboot, ccall, outcome, giveups, resets>>
      BY <1>6 DEF vars, clientVars
    <2>2. ServerInv' /\ FollowInv'
      BY <2>1, ServerRests, EndingFollows, EndingServerInv
    <2>3. NetInv' /\ ClientInv' /\ MadeInOrder' /\ FinalHasReply'
      BY <2>1 DEF NetInv, GoodPacket, ClientInv, MadeInOrder, FinalHasReply, serverVars, InTable, Made
    <2>4. QED
      BY <2>2, <2>3
  <1>7. QED
    BY <1>1, <1>2, <1>3, <1>4, <1>5, <1>6, StepKinds

\* It holds to begin with ...
LEMMA BasicInit == Init => BasicInv
  <1> SUFFICES ASSUME Init PROVE BasicInv
    OBVIOUS
  <1>1. /\ scall = [s \in Scalls |-> FreeScall] /\ exe = [x \in Executors |-> IdleExecutor]
        /\ scte = NoScte
    BY DEF Init, ServerInit
  <1>2. \A s \in Scalls : LiveExecutors(exe, s) = {}
    BY <1>1, Idle DEF LiveExecutors
  <1>3. FollowInv
    BY <1>1, <1>2, Idle, SlotAssumption DEF FollowInv, HandlesFollowExecutors
  <1>4. QED
    BY <1>3, TypeInit DEF BasicInv

\* ... and so always.
THEOREM BasicAlways == Spec => []BasicInv
  BY BasicInit, BasicNext, PTL DEF Spec

\* The state of both sides stays well formed, whatever the network does and however
\* often the server restarts.
THEOREM TypeCorrect == Spec => []TypeOK
  <1>1. BasicInv => TypeOK
    <2> SUFFICES ASSUME BasicInv PROVE TypeOK
      OBVIOUS
    <2>1. \A p \in net : p.seq \in Seqs /\ p.boot \in Boots /\ p.ran \in 0..MaxSeq
      BY DEF BasicInv, TypeInv, NetInv, GoodPacket, AnyPacket
    <2>2. ServerTypes
      BY DEF BasicInv, TypeInv, ServerInv, ServerTypes, AnyScte, AnyScall, AnyExecutor
    <2>3. ClientTypes
      BY SizeAssumption DEF BasicInv, TypeInv, ClientInv, ClientTypes, AnyCcall
    <2>4. QED
      BY <2>1, <2>2, <2>3 DEF TypeOK
  <1>2. QED
    BY <1>1, BasicAlways, PTL

\* A call handle that is receiving is the entry's and has an executor that will end
\* it; an orphaned one is kept only as long as an executor has to notice it.
THEOREM FollowCorrect == Spec => []HandlesFollowExecutors
  <1>1. BasicInv => HandlesFollowExecutors
    BY DEF BasicInv, FollowInv
  <1>2. QED
    BY <1>1, BasicAlways, PTL

-----------------------------------------------------------------------------
(* One executor for each handle in use *)

Live(x) == exe[x].pc # "none"

\* A call handle is one executor's.
OneExecutor ==
  \A x, y \in Executors : Live(x) /\ Live(y) /\ exe[x].scall = exe[y].scall => x = y

\* An executor is at work on a handle in use, for the handle's call.
OwnHandle ==
  \A x \in Executors : Live(x) =>
    /\ Handle(x).state \in {"recv", "orphan"}
    /\ exe[x].pc # "start" => Handle(x).seq = exe[x].seq

\* The call that is being received is the highest of its activity.
HighestReceives ==
  scte.scall # 0 /\ scall[scte.scall].state = "recv" => scall[scte.scall].seq = scte.high

\* A response carries the result of the call it is for.
OwnResults ==
  /\ \A p \in net : p.type = "response" => p.ran \in {0, p.seq}
  /\ ccall.ran \in {0, ccall.seq}

\* All this as long as no who-are-you callback was overtaken
Orderly == OneExecutor /\ OwnHandle /\ HighestReceives /\ OwnResults

\* What an executor is at work on after the step is as before.
LEMMA EndingOrderly ==
  ASSUME BasicInv, EndingStep, OneExecutor, OwnHandle, HighestReceives
  PROVE  OneExecutor' /\ OwnHandle' /\ HighestReceives'
  <1>1. ASSUME NEW x \in Executors, Live(x)'
        PROVE  exe'[x] = exe[x] /\ Live(x) /\ exe[x].scall \in Scalls
    BY <1>1, Idle DEF EndingStep, Live, BasicInv, TypeInv, ServerInv, GoodExecutor
  <1>2. OneExecutor'
    BY <1>1 DEF OneExecutor, Live
  <1>3. ASSUME NEW x \in Executors, Live(x)'
        PROVE  /\ scall'[exe'[x].scall].state \in {"recv", "orphan"}
               /\ exe'[x].pc # "start" => scall'[exe'[x].scall].seq = exe'[x].seq
    <2> DEFINE s == exe[x].scall
    <2>1. s \in Scalls /\ exe'[x] = exe[x] /\ Live(x)
      BY <1>1, <1>3
    <2>2. scall[s].state \in {"recv", "orphan"} /\ (exe[x].pc # "start" => scall[s].seq = exe[x].seq)
      BY <2>1 DEF OwnHandle, Handle
    <2>3. scall[s] \in AnyScall /\ Ends(scall[s], scall'[s])
      BY <2>1 DEF EndingStep, BasicInv, TypeInv, ServerInv
    <2>4. x \in LiveExecutors(exe', s)
      BY <1>3, <2>1 DEF LiveExecutors, Live
    <2>5. scall'[s].state # "free"
      BY <2>1, <2>4 DEF EndingStep
    <2>6. scall'[s].seq = scall[s].seq
      BY <2>3, <2>5, EndsGood
    <2>7. scall'[s].state \notin {"idle", "final"}
      <3>1. SUFFICES ASSUME scall'[s].state \in {"idle", "final"} PROVE FALSE
        OBVIOUS
      <3>2. PICK y \in LiveExecutors(exe, s) : exe'[y] = IdleExecutor
        BY <2>1, <2>2, <3>1 DEF EndingStep
      <3>3. y = x
        BY <2>1, <3>2 DEF LiveExecutors, OneExecutor, Live
      <3>4. QED
        BY <1>3, <3>2, <3>3, Idle DEF Live
    <2>8. scall'[s].state \in {"recv", "orphan"}
      BY <2>1, <2>5, <2>7 DEF EndingStep, AnyScall
    <2>9. QED
      BY <2>1, <2>2, <2>6, <2>8
  <1>4. OwnHandle'
    BY <1>3 DEF OwnHandle, Handle
  <1>5. HighestReceives'
    <2>1. SUFFICES ASSUME scte'.scall # 0, scall'[scte'.scall].state = "recv"
                   PROVE  scall'[scte'.scall].seq = scte'.high
      BY DEF HighestReceives
    <2>2. scte' = scte /\ scte.scall \in Scalls
      BY <2>1 DEF EndingStep, BasicInv, TypeInv, ServerInv, AnyScte
    <2>3. scall'[scte.scall] = scall[scte.scall]
      BY <2>1, <2>2, EndsGood DEF EndingStep, BasicInv, TypeInv, ServerInv
    <2>4. QED
      BY <2>1, <2>2, <2>3 DEF HighestReceives
  <1>6. QED
    BY <1>2, <1>4, <1>5

\* An executor that goes on stays with its handle and its call.
LEMMA AdvancingOrderly ==
  ASSUME BasicInv, NEW x \in Executors, AdvancingStep(x),
         exe'[x].pc # "start" => Handle(x).seq = exe'[x].seq,
         scte'.high = scte.high \/ ~(scte.scall # 0 /\ scall[scte.scall].state = "recv"),
         OneExecutor, OwnHandle, HighestReceives
  PROVE  OneExecutor' /\ OwnHandle' /\ HighestReceives'
  <1>1. \A y \in Executors : exe'[y].scall = exe[y].scall /\ (Live(y)' <=> Live(y))
    BY DEF AdvancingStep, Live
  <1>2. OneExecutor'
    BY <1>1 DEF OneExecutor
  <1>3. ASSUME NEW y \in Executors, Live(y)'
        PROVE  /\ scall'[exe'[y].scall].state \in {"recv", "orphan"}
               /\ exe'[y].pc # "start" => scall'[exe'[y].scall].seq = exe'[y].seq
    <2>1. Live(y) /\ exe[y].scall \in Scalls
      BY <1>1, <1>3 DEF Live, BasicInv, TypeInv, ServerInv, GoodExecutor
    <2>2. /\ scall'[exe'[y].scall].state = Handle(y).state
          /\ scall'[exe'[y].scall].seq = Handle(y).seq
      BY <1>1, <2>1 DEF AdvancingStep, Handle
    <2>3. CASE y = x
      BY <2>1, <2>2, <2>3 DEF OwnHandle
    <2>4. CASE y # x
      BY <2>1, <2>2, <2>4 DEF OwnHandle, AdvancingStep
    <2>5. QED
      BY <2>3, <2>4
  <1>4. OwnHandle'
    BY <1>3 DEF OwnHandle, Handle
  <1>5. HighestReceives'
    BY DEF HighestReceives, AdvancingStep, BasicInv, TypeInv, ServerInv, AnyScte
  <1>6. QED
    BY <1>2, <1>4, <1>5

\* An executor step that goes on keeps the order.
LEMMA CarryingOnOrderly ==
  ASSUME BasicInv, NEW x \in Executors, CarryingOn(x) \/ WhoAreYou(x), ~overtaken',
         OneExecutor, OwnHandle, HighestReceives
  PROVE  OneExecutor' /\ OwnHandle' /\ HighestReceives'
  <1>1. AdvancingStep(x)
    BY CarryingOnAdvances, WhoAreYouAdvances DEF BasicInv, TypeInv
  <1>2. /\ exe \in [Executors -> AnyExecutor] /\ exe[x] \in AnyExecutor /\ Live(x)
    BY <1>1 DEF BasicInv, TypeInv, ServerInv, AdvancingStep, Live
  <1>3. exe[x].pc # "start" => Handle(x).seq = exe[x].seq
    BY <1>2 DEF OwnHandle
  <1>4. exe'[x].pc # "start" => Handle(x).seq = exe'[x].seq
    <2>1. CASE StartCallsStub(x)
      BY <1>2, <2>1 DEF StartCallsStub, CallStub, AnyExecutor
    <2>2. CASE StartNeedsWay(x)
      BY <1>2, <2>2 DEF StartNeedsWay, AnyExecutor
    <2>3. CASE WayValidate(x)
      BY <1>2, <1>3, <2>3 DEF WayValidate, At, AnyExecutor
    <2>4. CASE WaySucceeds(x)
      BY <1>2, <1>3, <2>4 DEF WaySucceeds, At, AnyExecutor
    <2>5. CASE WayFails(x)
      BY <1>2, <1>3, <2>5 DEF WayFails, At, AnyExecutor
    <2>6. CASE RelockCallsStub(x)
      BY <1>2, <1>3, <2>6 DEF RelockCallsStub, CallStub, At, AnyExecutor
    <2>7. CASE WhoAreYou(x)
      BY <1>2, <1>3, <2>7 DEF WhoAreYou, At, AnyExecutor
    <2>8. QED
      BY <2>1, <2>2, <2>3, <2>4, <2>5, <2>6, <2>7 DEF CarryingOn
  <1>5. scte'.high = scte.high \/ ~(scte.scall # 0 /\ scall[scte.scall].state = "recv")
    <2>1. CASE WaySucceeds(x)
      <3>1. SUFFICES ASSUME scte.scall # 0, scall[scte.scall].state = "recv"
                     PROVE  scte'.high = scte.high
        OBVIOUS
      <3>2. PICK seq \in exe[x].ans \ {0} :
              /\ overtaken' = (overtaken \/ Overtaken(x, seq))
              /\ scte' = [scte EXCEPT !.high = HighSeqAfterWay(seq), !.valid = TRUE]
        BY <2>1 DEF WaySucceeds
      <3>3. ~Overtaken(x, seq)
        BY <3>2, Zenon
      <3>4. seq = exe[x].seq /\ scte.scall = exe[x].scall
        BY <3>1, <3>3 DEF Overtaken
      <3>5. seq = scte.high
        BY <1>3, <2>1, <3>1, <3>4 DEF HighestReceives, Handle, WaySucceeds, At
      <3>6. scte'.high = HighSeqAfterWay(seq)
        BY <3>2 DEF BasicInv, TypeInv, ServerInv, AnyScte
      <3>7. QED
        BY <3>5, <3>6 DEF HighSeqAfterWay
    <2>2. CASE ~WaySucceeds(x)
      BY <2>2 DEF CarryingOn, StartCallsStub, StartNeedsWay, WayValidate, WayFails,
                  RelockCallsStub, CallStub, WhoAreYou
    <2>3. QED
      BY <2>1, <2>2
  <1>6. QED
    BY <1>1, <1>4, <1>5, AdvancingOrderly

\* A new call gets a handle nobody works on, for the one it may take from the entry
\* is not receiving.
LEMMA FreshHandle ==
  ASSUME BasicInv, OneExecutor, OwnHandle, HighestReceives,
         NEW p \in net, Decide(p, "new_call"), CanAllocate(SctGet(p.seq))
  PROVE  /\ LiveExecutors(exe, NewCallHandle(SctGet(p.seq))) = {}
         /\ scall[NewCallHandle(SctGet(p.seq))].state \in {"free", "idle", "final"}
  <1> DEFINE s == NewCallHandle(SctGet(p.seq))
  <1>1. /\ s \in Scalls /\ (scte.scall # 0 => s = scte.scall)
        /\ (scte.scall = 0 => scall[s].state = "free")
    BY NewHandle DEF BasicInv, TypeInv
  <1>2. scte.scall # 0 /\ scall[scte.scall].seq = scte.high =>
          scall[scte.scall].state \in {"idle", "final"}
    BY Decision DEF BasicInv, TypeInv
  <1> HIDE DEF s
  <1>3. scall[s].state \in {"free", "idle", "final"}
    <2>1. scall[s].state # "recv"
      BY <1>1, <1>2 DEF HighestReceives
    <2>2. scall[s].state # "orphan"
      BY <1>1, SlotAssumption DEF BasicInv, FollowInv, HandlesFollowExecutors
    <2>3. QED
      BY <1>1, <2>1, <2>2 DEF BasicInv, TypeInv, ServerInv, AnyScall
  <1>4. LiveExecutors(exe, s) = {}
    BY <1>3 DEF LiveExecutors, OwnHandle, Live, Handle
  <1>5. QED
    BY <1>3, <1>4 DEF s

\* A request that begins a call, or belongs to one
LEMMA BeginningOrderly ==
  ASSUME BasicInv, BeginningSome, OneExecutor, OwnHandle, HighestReceives
  PROVE  OneExecutor' /\ OwnHandle' /\ HighestReceives'
  <1>1. PICK p \in net : RequestCurrent(p) \/ RequestNew(p) \/ RequestNoThread(p)
    BY DEF BeginningSome
  <1>2. /\ exe \in [Executors -> AnyExecutor] /\ scall \in [Scalls -> AnyScall]
        /\ \A y \in Executors : Live(y) => exe[y].scall \in Scalls
        /\ scte.scall # 0 => scte.scall \in Scalls
    BY DEF BasicInv, TypeInv, ServerInv, GoodExecutor, Live, AnyScte
  <1>3. CASE RequestCurrent(p)
    <2>1. /\ UNCHANGED <<exe, scte>>
          /\ \A t \in Scalls : scall'[t].state = scall[t].state /\ scall'[t].seq = scall[t].seq
      BY <1>3, RequestCurrentGood DEF RequestCurrent, BasicInv, TypeInv
    <2>2. QED
      BY <1>2, <2>1 DEF OneExecutor, OwnHandle, HighestReceives, Live, Handle
  <1>4. CASE RequestNew(p) \/ RequestNoThread(p)
    <2> DEFINE s == NewCallHandle(SctGet(p.seq))
               x == Least(FreeExecutors)
    <2>1. Decide(p, "new_call") /\ CanAllocate(SctGet(p.seq))
      BY <1>4 DEF RequestNew, RequestNoThread
    <2>2. s \in Scalls /\ LiveExecutors(exe, s) = {}
      BY <2>1, FreshHandle, NewHandle DEF BasicInv, TypeInv
    <2>3. \A st \in {"recv", "idle"} : NewScall(p, st).state = st /\ NewScall(p, st).seq = p.seq
      BY <2>1, NewHandle DEF BasicInv, TypeInv
    <2>4. \A y \in Executors : Live(y) => exe[y].scall # s
      BY <2>2 DEF LiveExecutors, Live
    <2>5. CASE RequestNoThread(p)
      <3>1. /\ UNCHANGED exe /\ scte'.scall = s
            /\ scall'[s] = NewScall(p, "idle") /\ \A t \in Scalls \ {s} : scall'[t] = scall[t]
        BY <1>2, <2>1, <2>2, <2>5, NewHandle DEF RequestNoThread, BasicInv, TypeInv
      <3> HIDE DEF s
      <3>2. QED
        BY <1>2, <2>3, <2>4, <3>1 DEF OneExecutor, OwnHandle, HighestReceives, Live, Handle
    <2>6. CASE RequestNew(p)
      <3>1. /\ scte'.scall = s /\ scte'.high = p.seq
            /\ scall'[s] = NewScall(p, "recv") /\ \A t \in Scalls \ {s} : scall'[t] = scall[t]
        BY <1>2, <2>1, <2>2, <2>6, NewHandle DEF RequestNew, BasicInv, TypeInv
      <3>2. x \in Executors
        <4>1. FreeExecutors # {} /\ FreeExecutors \in SUBSET Nat
          BY <2>6, SlotAssumption DEF RequestNew, FreeExecutors
        <4>2. x \in FreeExecutors
          BY <4>1, LeastIn
        <4>3. QED
          BY <4>2 DEF FreeExecutors
      <3>3. /\ exe'[x].pc = "start" /\ exe'[x].scall = s
            /\ \A y \in Executors \ {x} : exe'[y] = exe[y]
        <4> DEFINE new == [IdleExecutor EXCEPT !.pc = "start", !.scall = s]
        <4>1. new.pc = "start" /\ new.scall = s
          BY DEF IdleExecutor
        <4>2. exe' = [exe EXCEPT ![x] = new]
          BY <2>6 DEF RequestNew
        <4> HIDE DEF new, s, x
        <4>3. QED
          BY <1>2, <3>2, <4>1, <4>2
      <3> HIDE DEF s, x
      <3>4. OneExecutor'
        BY <2>4, <3>2, <3>3 DEF OneExecutor, Live
      <3>5. OwnHandle'
        <4>1. ASSUME NEW y \in Executors, Live(y)'
              PROVE  /\ scall'[exe'[y].scall].state \in {"recv", "orphan"}
                     /\ exe'[y].pc # "start" => scall'[exe'[y].scall].seq = exe'[y].seq
          <5>1. CASE y = x
            BY <2>3, <3>1, <3>3, <5>1
          <5>2. CASE y # x
            <6>1. exe'[y] = exe[y] /\ Live(y) /\ scall'[exe[y].scall] = Handle(y)
              BY <1>2, <2>4, <3>1, <3>3, <4>1, <5>2 DEF Live, Handle
            <6>2. QED
              BY <6>1 DEF OwnHandle
          <5>3. QED
            BY <5>1, <5>2
        <4>2. QED
          BY <4>1 DEF OwnHandle, Handle
      <3>6. HighestReceives'
        BY <2>3, <3>1 DEF HighestReceives
      <3>7. QED
        BY <3>4, <3>5, <3>6
    <2>7. QED
      BY <1>4, <2>5, <2>6
  <1>5. QED
    BY <1>1, <1>3, <1>4

-----------------------------------------------------------------------------
(* The client's result is that of its own call *)

\* What the packets that are not responses are
LEMMA NotResponses ==
  ASSUME NEW n, NEW b
  PROVE  /\ \A t : Packet(t, n, b).type = t /\ Packet(t, n, b).seq = n
                   /\ Packet(t, n, b).boot = b
         /\ \A k : Request(n, b, k).type = "request" /\ Request(n, b, k).seq = n
                   /\ Request(n, b, k).boot = b /\ Request(n, b, k).kind = k
         /\ \A st : Reject(n, b, st).type = "reject" /\ Reject(n, b, st).seq = n
                    /\ Reject(n, b, st).boot = b /\ Reject(n, b, st).body = st
         /\ \A r : Response(n, b, r).type = "response" /\ Response(n, b, r).seq = n
                   /\ Response(n, b, r).boot = b /\ Response(n, b, r).ran = r
  BY DEF Packet, Request, Reject, Response

\* A response that the server sends carries the result of the call it is for.
LEMMA SendsOwnResult ==
  ASSUME OwnHandle, NEW q, ServerSends(q), q.type = "response"
  PROVE  q.ran = q.seq
  <1>1. PICK x \in Executors : SendsReply(x, q)
    <2>1. ~\E n, b, st : q = Reject(n, b, st)
      BY NotResponses
    <2>2. ~\E n, b : \E t \in {"quack", "working", "nocall"} : q = Packet(t, n, b)
      BY NotResponses
    <2>3. QED
      BY <2>1, <2>2 DEF ServerSends
  <1>2. q = Response(Handle(x).seq, sboot, exe[x].seq) /\ At(x, "stub")
    BY <1>1, NotResponses DEF SendsReply
  <1>3. Handle(x).seq = exe[x].seq
    BY <1>2 DEF OwnHandle, At, Live
  <1>4. QED
    BY <1>2, <1>3, NotResponses

\* What the client and the server do to results
LEMMA ResultsNext ==
  ASSUME BasicInv, OwnHandle, OwnResults, [Next]_vars
  PROVE  OwnResults'
  <1> USE DEF BasicInv, TypeInv
  <1>1. CASE /\ ServerEnds \/ BeginningSome \/ Crash \/ ForgetActivity
                \/ \E x \in Executors : CarryingOn(x)
             /\ UNCHANGED clientVars
    <2>1. UNCHANGED ccall
      BY <1>1 DEF clientVars
    <2>2. CASE ServerEnds
      <3>1. CASE net' = net
        BY <2>1, <3>1 DEF OwnResults
      <3>2. CASE \E q : ServerSends(q) /\ net' = net \cup {q}
        BY <2>1, <3>2, SendsOwnResult DEF OwnResults
      <3>3. QED
        BY <2>2, <3>1, <3>2, ServerEndsSends
    <2>3. CASE BeginningSome \/ Crash \/ ForgetActivity \/ \E x \in Executors : CarryingOn(x)
      <3>1. net' \subseteq net
        BY <2>3 DEF BeginningSome, RequestCurrent, RequestNew, RequestNoThread, Crash,
                    ForgetActivity, CarryingOn, StartCallsStub, StartNeedsWay, WayValidate,
                    WaySucceeds, WayFails, RelockCallsStub, CallStub
      <3>2. QED
        BY <2>1, <3>1 DEF OwnResults
    <2>4. QED
      BY <1>1, <2>2, <2>3
  <1>2. CASE \/ \E x \in Executors : WhoAreYou(x)
             \/ \E boot \in Boots : LateWhoAreYou(boot)
    <2>1. PICK boot \in Boots : WayStash(boot)
      BY <1>2 DEF WhoAreYou, LateWhoAreYou, ServerInv
    <2>2. UNCHANGED <<net, awaited, hboot, outcome, giveups, resets>>
      BY <1>2 DEF WhoAreYou, LateWhoAreYou
    <2>3. ccall'.ran = ccall.ran /\ ccall'.seq = ccall.seq
      BY <2>1, <2>2, WayStashGood DEF SameCall
    <2>4. QED
      BY <2>2, <2>3 DEF OwnResults
  <1>3. CASE ClientReceives
    <2>1. CASE \E p \in net : ReplyStep(p)
      BY <2>1 DEF ReplyStep, SameCall, OwnResults
    <2>2. CASE UNCHANGED clientVars /\ \E p \in net : net' = net \cup {Packet("ack", p.seq, p.boot)}
      BY <2>2, NotResponses DEF clientVars, OwnResults
    <2>3. CASE /\ SameCall /\ ccall'.ran = ccall.ran
               /\ net' \subseteq net \cup {Request(ccall.seq, ccall.boot, ccall.kind)}
      BY <2>3, NotResponses DEF SameCall, OwnResults
    <2>4. QED
      BY <1>3, <2>1, <2>2, <2>3, ClientReceivesGood
  <1>4. CASE ClientStep
    <2>1. CASE \E kind \in Kinds : StartCall(kind)
      <3>1. ccall'.ran = 0
        BY <2>1, StartCallGood
      <3>2. \A q \in net' : q \in net \/ q.type = "request"
        BY <2>1, NotResponses DEF StartCall
      <3>3. QED
        BY <3>1, <3>2 DEF OwnResults
    <2>2. CASE \E result \in {"ok", "failed", "denied"} : EndCall(result)
      <3>1. /\ ccall'.ran = 0 \/ (ccall'.ran = ccall.ran /\ ccall'.seq = ccall.seq)
            /\ \A q \in net' : q \in net \/ q = Packet("quit", ccall.seq, ccall.boot)
        BY <2>2, EndCallGood
      <3>2. \A q \in net' : q \in net \/ q.type = "quit"
        BY <3>1, NotResponses
      <3>3. QED
        BY <3>1, <3>2 DEF OwnResults
    <2>3. CASE QuietStep
      <3>1. /\ \A q \in net' : q \in net \/ q = Packet("ack", ccall.seq, ccall.boot)
            /\ ccall'.ran = 0 \/ (ccall'.ran = ccall.ran /\ ccall'.seq = ccall.seq)
        BY <2>3, QuietStepGood, IdleCcallGood DEF SameCall
      <3>2. \A q \in net' : q \in net \/ q.type = "ack"
        BY <3>1, NotResponses
      <3>3. QED
        BY <3>1, <3>2 DEF OwnResults
    <2>4. QED
      BY <1>4, <2>1, <2>2, <2>3 DEF ClientStep, QuietStep
  <1>5. CASE UNCHANGED vars
    BY <1>5 DEF vars, clientVars, OwnResults
  <1>6. QED
    BY <1>1, <1>2, <1>3, <1>4, <1>5, StepKinds

\* An overtaken callback is not forgotten.
LEMMA OvertakenStays ==
  ASSUME BasicInv, [Next]_vars, overtaken
  PROVE  overtaken'
  <1>1. CASE UNCHANGED overtaken
    BY <1>1, Zenon
  <1>2. CASE \E x \in Executors : WaySucceeds(x)
    <2>1. PICK x \in Executors : \E seq : overtaken' = (overtaken \/ Overtaken(x, seq))
      BY <1>2, Zenon DEF WaySucceeds
    <2>2. QED
      BY <2>1, Zenon
  <1>3. UNCHANGED overtaken \/ \E x \in Executors : WaySucceeds(x)
    <2>1. CASE ServerEnds
      BY <2>1, ServerEndsEnds, Zenon DEF EndingStep, BasicInv, TypeInv
    <2>2. CASE BeginningSome \/ Crash \/ ForgetActivity
      BY <2>2, Zenon DEF BeginningSome, RequestCurrent, RequestNew, RequestNoThread, Crash,
                         ForgetActivity, SctTimer
    <2>3. CASE \E x \in Executors : CarryingOn(x) \/ WhoAreYou(x)
      BY <2>3, Zenon DEF CarryingOn, StartCallsStub, StartNeedsWay, WayValidate, WayFails,
                         RelockCallsStub, CallStub, WhoAreYou
    <2>4. CASE UNCHANGED serverVars
      BY <2>4, Zenon DEF serverVars
    <2>5. QED
      BY <2>1, <2>2, <2>3, <2>4, StepKinds DEF LateWhoAreYou, vars
  <1>4. QED
    BY <1>1, <1>2, <1>3

\* The order is kept as long as no callback is overtaken.
HandleInv == overtaken \/ Orderly
\* The order is kept by every step that overtakes no callback.
LEMMA HandleNext ==
  ASSUME BasicInv, HandleInv, [Next]_vars
  PROVE  HandleInv'
  <1>1. SUFFICES ASSUME ~overtaken' PROVE Orderly'
    BY Zenon DEF HandleInv
  <1>2. Orderly
    BY <1>1, OvertakenStays, Zenon DEF HandleInv
  <1>3. OwnResults'
    BY <1>2, ResultsNext DEF Orderly
  <1>4. OneExecutor /\ OwnHandle /\ HighestReceives
    BY <1>2 DEF Orderly
  <1>5. CASE EndingStep
    BY <1>3, <1>4, <1>5, EndingOrderly DEF Orderly
  <1>6. CASE BeginningSome
    BY <1>3, <1>4, <1>6, BeginningOrderly DEF Orderly
  <1>7. CASE \E x \in Executors : CarryingOn(x) \/ WhoAreYou(x)
    <2>1. PICK x \in Executors : CarryingOn(x) \/ WhoAreYou(x)
      BY <1>7
    <2>2. QED
      BY <1>1, <1>3, <1>4, <2>1, CarryingOnOrderly DEF Orderly
  <1>8. CASE Crash
    <2>1. (\A x \in Executors : ~Live(x)') /\ scte'.scall = 0
      BY <1>8, Idle DEF Crash, Live
    <2>2. QED
      BY <1>3, <2>1 DEF Orderly, OneExecutor, OwnHandle, HighestReceives
  <1>9. CASE ForgetActivity
    <2>1. UNCHANGED <<exe, scall>> /\ scte'.scall = 0
      BY <1>9, Idle DEF ForgetActivity, SctTimer
    <2>2. QED
      BY <1>3, <1>4, <2>1 DEF Orderly, OneExecutor, OwnHandle, HighestReceives, Live, Handle
  <1>10. EndingStep \/ BeginningSome \/ Crash \/ ForgetActivity
           \/ \E x \in Executors : CarryingOn(x) \/ WhoAreYou(x)
    <2>1. UNCHANGED serverVars => EndingStep
      BY ServerRests DEF BasicInv, TypeInv
    <2>2. ServerEnds => EndingStep
      BY ServerEndsEnds DEF BasicInv, TypeInv
    <2>3. QED
      BY <2>1, <2>2, StepKinds DEF LateWhoAreYou, vars
  <1>11. QED
    BY <1>5, <1>6, <1>7, <1>8, <1>9, <1>10

\* It holds to begin with.
LEMMA HandleInit == Init => HandleInv
  <1> SUFFICES ASSUME Init PROVE Orderly
    BY DEF HandleInv
  <1>1. (\A x \in Executors : ~Live(x)) /\ scte.scall = 0
    BY Idle DEF Init, ServerInit, Live
  <1>2. OwnResults
    BY DEF Init, ClientInit, NoCcall, OwnResults
  <1>3. QED
    BY <1>1, <1>2 DEF Orderly, OneExecutor, OwnHandle, HighestReceives

\* A call handle and its executor outlive their call, yet the client gets another
\* call's result at most after a newer call overtook a who-are-you callback.
THEOREM OwnResponse == Spec => []OwnResponseUnlessOvertaken
  <1>1. HandleInv => OwnResponseUnlessOvertaken
    BY Zenon DEF HandleInv, Orderly, OwnResults, OwnResponseUnlessOvertaken, ResponseIsOurs
  <1>2. Init => BasicInv /\ HandleInv
    BY BasicInit, HandleInit
  <1>3. BasicInv /\ HandleInv /\ [Next]_vars => BasicInv' /\ HandleInv'
    BY BasicNext, HandleNext
  <1>4. QED
    BY <1>1, <1>2, <1>3, PTL DEF Spec

-----------------------------------------------------------------------------
(* The kind of a call, and the server instances its packets name *)

\* k tells the kind of every call, whether it was made or not.
AllKinds == {"nonidem", "idem", "unknown"}

\* An unknown interface is what a reject says it is, and the first instance of the
\* server takes no packet for another's.
TrueReject(k, n, body) ==
  /\ body = "unk_if" => k[n] = "unknown"
  /\ sboot = 1 => body # "wrong_boot_time"

\* All that is said of a call agrees with its kind, and nobody knows of an instance
\* of the server before it has started.
PacketNames(k, p) ==
  /\ p.boot <= sboot
  /\ p.type = "request" => p.kind = k[p.seq]
  /\ p.type = "reject" => TrueReject(k, p.seq, p.body)
CallNames(k) ==
  /\ ccall.boot <= sboot /\ hboot <= sboot
  /\ InTable => ccall.kind = k[ccall.seq] /\ TrueReject(k, ccall.seq, ccall.reject)

\* Only a non-idempotent call has its executor call back.
ServerKinds(k) ==
  /\ \A s \in Scalls : scall[s].state # "free" => scall[s].kind = k[scall[s].seq]
  /\ \A x \in Executors :
       /\ exe[x].pc \notin {"none", "start"} => exe[x].kind = k[exe[x].seq]
       /\ exe[x].pc \in {"lock", "way", "relock"} => exe[x].kind = "nonidem"
       /\ exe[x].pc # "way" => exe[x].ans = {}

NamesInv(k) ==
  /\ \A p \in net : PacketNames(k, p)
  /\ ServerKinds(k) /\ CallNames(k)
  /\ \A b \in ways : b <= sboot

-----------------------------------------------------------------------------
(* At most one execution *)

\* x has still to decide whether the manager may start.
Pending(x) ==
  exe[x].pc \in {"start", "lock", "way", "relock"} /\ Handle(x).state = "recv"
PendingCall(n) == \E x \in Executors : Pending(x) /\ Handle(x).seq = n

\* The client has tied call n to this instance of the server: by the boot time in
\* a request, by its answer to a callback, or by what an executor has made of one.
Requested(n, boots) ==
  \E p \in net : p.type = "request" /\ p.seq = n /\ p.boot \in boots
Cleared(x) == ~Handle(x).needs \/ (exe[x].pc = "relock" /\ exe[x].st = "ok")
Vouched(n) ==
  \/ Requested(n, {sboot})
  \/ \E x \in Executors : n \in exe[x].ans
  \/ \E x \in Executors : Pending(x) /\ Handle(x).seq = n /\ Cleared(x)
\* ... or still may.
Calling(n) == InTable /\ ccall.seq = n
MayVouch(n) == Calling(n) /\ ccall.boot \in {0, sboot}

\* The connection table entry keeps the manager from starting again.
Known(n) == scte.present /\ n <= scte.high
Remembered(n) == Known(n) /\ ~PendingCall(n)

RunsOnce(k, n) ==
  /\ Vouched(n) \/ execs[n] > 0 => Made(n)
  /\ k[n] = "unknown" => execs[n] = 0
  /\ execs[n] <= 1
  /\ k[n] # "idem" /\ execs[n] > 0 =>
       /\ Vouched(n) \/ MayVouch(n) => Remembered(n)
       /\ Calling(n) => ccall.boot # 0
  /\ Vouched(n) /\ Calling(n) => ccall.boot # 0

\* The first instance of the server remembers every call it has run, and has
\* run none that it has rejected because of a failed callback.
Denies(n) ==
  \/ \E p \in net : p.type = "reject" /\ p.seq = n /\ p.body = "who_are_you_failed"
  \/ Calling(n) /\ ccall.reject = "who_are_you_failed"
Asked(n) == Calling(n) \/ PendingCall(n) \/ Requested(n, Boots)
DeniesTruly(k, n) ==
  /\ k[n] # "idem" /\ execs[n] > 0 /\ Asked(n) => Remembered(n)
  /\ Denies(n) => k[n] = "nonidem" /\ execs[n] = 0 /\ Remembered(n)

\* What the invariant says of one call
Counts(k, n) == RunsOnce(k, n) /\ (sboot = 1 => DeniesTruly(k, n))
CountInv(k) == \A n \in Seqs : Counts(k, n)

OnceInv(k) == NamesInv(k) /\ (overtaken \/ CountInv(k))

-----------------------------------------------------------------------------
(* The names are kept *)

\* What the server sends names no later instance, and rejects truly.
LEMMA SentNames ==
  ASSUME BasicInv, NEW k, NamesInv(k), NEW q, ServerSends(q)
  PROVE  q.type # "request" /\ PacketNames(k, q)
  <1>1. sboot \in Nat /\ sboot # 0
    BY SizeAssumption DEF BasicInv, TypeInv, ServerInv, Boots
  <1>2. q.type # "request"
    BY SentGood DEF BasicInv, TypeInv
  <1>3. ASSUME NEW n \in Seqs, NEW b \in Boots \ {0, sboot}, q = Reject(n, b, "wrong_boot_time"),
               (\E p \in net : p.boot = b) \/ ccall.boot = b
        PROVE  q.boot <= sboot /\ (q.type = "reject" => TrueReject(k, q.seq, q.body))
    <2>1. b <= sboot
      BY <1>3 DEF NamesInv, PacketNames, CallNames
    <2>2. sboot # 1
      BY <1>1, <1>3, <2>1, SizeAssumption DEF Boots
    <2>3. q.boot = b /\ q.body = "wrong_boot_time"
      BY <1>3, NotResponses
    <2>4. QED
      BY <2>1, <2>2, <2>3 DEF TrueReject
  <1>4. ASSUME NEW n \in Seqs,
               q \in {Reject(n, sboot, "proto_error"), Packet("quack", n, sboot),
                      Packet("working", n, sboot), Packet("nocall", n, sboot)}
        PROVE  q.boot <= sboot /\ (q.type = "reject" => TrueReject(k, q.seq, q.body))
    <2>1. q.boot = sboot /\ (q.type = "reject" => q.body = "proto_error")
      BY <1>4, NotResponses
    <2>2. QED
      BY <1>1, <2>1 DEF TrueReject
  <1>5. ASSUME NEW x \in Executors, SendsReply(x, q)
        PROVE  q.boot <= sboot /\ (q.type = "reject" => TrueReject(k, q.seq, q.body))
    <2>1. CASE /\ q = Reject(Handle(x).seq, sboot, "unk_if")
               /\ At(x, "start") /\ Handle(x).kind = "unknown"
      <3>1. exe[x].scall \in Scalls /\ Handle(x).state = "recv"
        BY <1>5, <2>1 DEF SendsReply, At, BasicInv, TypeInv, ServerInv, GoodExecutor
      <3>2. k[Handle(x).seq] = "unknown"
        BY <2>1, <3>1 DEF NamesInv, ServerKinds, Handle
      <3>3. q.boot = sboot /\ q.seq = Handle(x).seq /\ q.body = "unk_if"
        BY <2>1, NotResponses
      <3>4. QED
        BY <1>1, <3>2, <3>3 DEF TrueReject
    <2>2. CASE q = Reject(Handle(x).seq, sboot, "who_are_you_failed")
      <3>1. q.boot = sboot /\ q.body = "who_are_you_failed"
        BY <2>2, NotResponses
      <3>2. QED
        BY <1>1, <3>1 DEF TrueReject
    <2>3. CASE q = Response(Handle(x).seq, sboot, exe[x].seq)
      <3>1. q.boot = sboot /\ q.type = "response"
        BY <2>3, NotResponses
      <3>2. QED
        BY <1>1, <3>1
    <2>4. QED
      BY <1>5, <2>1, <2>2, <2>3 DEF SendsReply
  <1>6. QED
    BY <1>2, <1>3, <1>4, <1>5 DEF ServerSends, PacketNames

\* Ending calls
LEMMA EndingKinds ==
  ASSUME BasicInv, NEW k, ServerKinds(k), EndingStep
  PROVE  ServerKinds(k)'
  <1>1. ASSUME NEW s \in Scalls, scall'[s].state # "free"
        PROVE  scall'[s].kind = k[scall'[s].seq]
    <2>1. scall[s].state # "free" /\ scall'[s].seq = scall[s].seq /\ scall'[s].kind = scall[s].kind
      BY <1>1, EndsGood DEF EndingStep, BasicInv, TypeInv, ServerInv
    <2>2. QED
      BY <2>1 DEF ServerKinds
  <1>2. \A x \in Executors : exe'[x] = exe[x] \/ exe'[x] = IdleExecutor
    BY DEF EndingStep
  <1>3. \A x \in Executors :
       /\ exe'[x].pc \notin {"none", "start"} => exe'[x].kind = k[exe'[x].seq]
       /\ exe'[x].pc \in {"lock", "way", "relock"} => exe'[x].kind = "nonidem"
       /\ exe'[x].pc # "way" => exe'[x].ans = {}
    BY <1>2, Idle DEF ServerKinds
  <1>4. QED
    BY <1>1, <1>3 DEF ServerKinds

\* Going on with a call
LEMMA CarryingOnKinds ==
  ASSUME BasicInv, NEW k, ServerKinds(k), NEW x \in Executors, CarryingOn(x) \/ WhoAreYou(x)
  PROVE  ServerKinds(k)'
  <1>1. AdvancingStep(x)
    BY CarryingOnAdvances, WhoAreYouAdvances DEF BasicInv, TypeInv
  <1>2. /\ exe \in [Executors -> AnyExecutor] /\ exe[x] \in AnyExecutor /\ exe[x].pc # "none"
        /\ exe[x].scall \in Scalls /\ Handle(x) \in AnyScall
    BY <1>1 DEF BasicInv, TypeInv, ServerInv, AdvancingStep, GoodExecutor, Handle
  <1>3. Handle(x).state = "recv" => Handle(x).kind = k[Handle(x).seq]
    BY <1>2 DEF ServerKinds, Handle
  <1>4. /\ exe'[x].pc \notin {"none", "start"} => exe'[x].kind = k[exe'[x].seq]
        /\ exe'[x].pc \in {"lock", "way", "relock"} => exe'[x].kind = "nonidem"
        /\ exe'[x].pc # "way" => exe'[x].ans = {}
    <2>1. /\ exe[x].pc \notin {"none", "start"} => exe[x].kind = k[exe[x].seq]
          /\ exe[x].pc \in {"lock", "way", "relock"} => exe[x].kind = "nonidem"
          /\ exe[x].pc # "way" => exe[x].ans = {}
      BY DEF ServerKinds
    <2>2. CASE StartCallsStub(x)
      BY <1>2, <1>3, <2>2 DEF StartCallsStub, TakeRequest, NotReceiving, CallStub, AnyExecutor
    <2>3. CASE StartNeedsWay(x)
      <3>1. exe' = [exe EXCEPT ![x] = [exe[x] EXCEPT !.pc = "lock", !.seq = Handle(x).seq, !.kind = Handle(x).kind]]
        BY <1>2, <2>3 DEF StartNeedsWay
      <3>2. Handle(x).state = "recv" /\ Handle(x).kind = "nonidem" /\ exe[x].ans = {}
        BY <2>1, <2>3 DEF StartNeedsWay, TakeRequest, NotReceiving, NeedsWay, At
      <3>3. QED
        BY <1>2, <1>3, <3>1, <3>2 DEF AnyExecutor
    <2>4. CASE WayValidate(x)
      BY <1>2, <2>1, <2>4 DEF WayValidate, At, AnyExecutor
    <2>5. CASE WaySucceeds(x)
      BY <1>2, <2>1, <2>5 DEF WaySucceeds, At, AnyExecutor
    <2>6. CASE WayFails(x)
      BY <1>2, <2>1, <2>6 DEF WayFails, At, AnyExecutor
    <2>7. CASE RelockCallsStub(x)
      BY <1>2, <2>1, <2>7 DEF RelockCallsStub, CallStub, At, AnyExecutor
    <2>8. CASE WhoAreYou(x)
      BY <1>2, <2>1, <2>8 DEF WhoAreYou, At, AnyExecutor
    <2>9. QED
      BY <2>2, <2>3, <2>4, <2>5, <2>6, <2>7, <2>8 DEF CarryingOn
  <1>5. \A y \in Executors \ {x} : exe'[y] = exe[y]
    BY <1>1 DEF AdvancingStep
  <1>6. \A s \in Scalls : /\ scall'[s].state = scall[s].state
                          /\ scall'[s].seq = scall[s].seq /\ scall'[s].kind = scall[s].kind
    BY <1>1 DEF AdvancingStep
  <1>7. \A y \in Executors :
       /\ exe'[y].pc \notin {"none", "start"} => exe'[y].kind = k[exe'[y].seq]
       /\ exe'[y].pc \in {"lock", "way", "relock"} => exe'[y].kind = "nonidem"
       /\ exe'[y].pc # "way" => exe'[y].ans = {}
    BY <1>4, <1>5 DEF ServerKinds
  <1>8. QED
    BY <1>6, <1>7 DEF ServerKinds

\* What a new call makes of its handle, of the entry and of an idle executor
NewCallShape(p, s) ==
  /\ s \in Scalls /\ s = NewCallHandle(SctGet(p.seq))
  /\ UNCHANGED <<net, sboot, ways, execs, overtaken>>
  /\ \A t \in Scalls \ {s} : scall'[t] = scall[t]
  /\ scall'[s].seq = p.seq /\ scall'[s].kind = p.kind /\ scall'[s].needs = (p.boot = 0)
  /\ scte'.present /\ scte'.scall = s
  /\ \/ RequestNoThread(p) /\ UNCHANGED exe /\ scall'[s].state = "idle" /\ scte'.high = p.seq - 1
     \/ /\ RequestNew(p) /\ scall'[s].state = "recv" /\ scte'.high = p.seq
        /\ \E x \in Executors :
             /\ exe[x].pc = "none" /\ exe'[x].pc = "start" /\ exe'[x].scall = s
             /\ exe'[x].ans = {} /\ \A y \in Executors \ {x} : exe'[y] = exe[y]
\* rpc__dg_sct_new_call and rpc__dg_sct_backout_new_call leave it so.
LEMMA NewCallShaped ==
  ASSUME BasicInv, NEW p \in net, RequestNew(p) \/ RequestNoThread(p)
  PROVE  \E s \in Scalls : NewCallShape(p, s)
  <1> DEFINE s == NewCallHandle(SctGet(p.seq))
             x == Least(FreeExecutors)
  <1>1. /\ exe \in [Executors -> AnyExecutor] /\ scall \in [Scalls -> AnyScall]
        /\ Decide(p, "new_call") /\ CanAllocate(SctGet(p.seq))
    BY DEF RequestNew, RequestNoThread, BasicInv, TypeInv, ServerInv
  <1>2. /\ s \in Scalls
        /\ \A st \in {"recv", "idle"} :
              /\ NewScall(p, st).state = st /\ NewScall(p, st).seq = p.seq
              /\ NewScall(p, st).kind = p.kind /\ NewScall(p, st).needs = (p.boot = 0)
        /\ \A h \in {p.seq, p.seq - 1} :
              LET e == [SctGet(p.seq) EXCEPT !.high = h, !.scall = s] IN
              e.scall = s /\ e.high = h /\ e.present
    BY <1>1, NewHandle DEF BasicInv, TypeInv
  <1>3. CASE RequestNoThread(p)
    <2>1. /\ UNCHANGED <<net, sboot, exe, ways, execs, overtaken>>
          /\ scall'[s] = NewScall(p, "idle") /\ \A t \in Scalls \ {s} : scall'[t] = scall[t]
          /\ scte' = [SctGet(p.seq) EXCEPT !.high = p.seq - 1, !.scall = s]
      BY <1>1, <1>2, <1>3 DEF RequestNoThread
    <2>2. NewCallShape(p, s)
      BY <1>2, <1>3, <2>1 DEF NewCallShape
    <2> HIDE DEF s
    <2>3. QED
      BY <1>2, <2>2
  <1>4. CASE RequestNew(p)
    <2>1. /\ UNCHANGED <<net, sboot, ways, execs, overtaken>>
          /\ scall'[s] = NewScall(p, "recv") /\ \A t \in Scalls \ {s} : scall'[t] = scall[t]
          /\ scte' = [SctGet(p.seq) EXCEPT !.high = p.seq, !.scall = s]
      BY <1>1, <1>2, <1>4 DEF RequestNew
    <2>2. x \in Executors /\ exe[x].pc = "none"
      <3>1. FreeExecutors # {} /\ FreeExecutors \in SUBSET Nat
        BY <1>4, SlotAssumption DEF RequestNew, FreeExecutors
      <3>2. x \in FreeExecutors
        BY <3>1, LeastIn
      <3>3. QED
        BY <3>2 DEF FreeExecutors
    <2>3. /\ exe'[x].pc = "start" /\ exe'[x].scall = s /\ exe'[x].ans = {}
          /\ \A y \in Executors \ {x} : exe'[y] = exe[y]
      <3> DEFINE new == [IdleExecutor EXCEPT !.pc = "start", !.scall = s]
      <3>1. new.pc = "start" /\ new.scall = s /\ new.ans = {}
        BY DEF IdleExecutor
      <3>2. exe' = [exe EXCEPT ![x] = new]
        BY <1>4 DEF RequestNew
      <3> HIDE DEF new, s, x
      <3>3. QED
        BY <1>1, <2>2, <3>1, <3>2
    <2>4. \E y \in Executors :
             /\ exe[y].pc = "none" /\ exe'[y].pc = "start" /\ exe'[y].scall = s
             /\ exe'[y].ans = {} /\ \A z \in Executors \ {y} : exe'[z] = exe[z]
      <3> HIDE DEF s, x
      <3>1. QED
        BY <2>2, <2>3
    <2>5. NewCallShape(p, s)
      BY <1>2, <1>4, <2>1, <2>4 DEF NewCallShape
    <2> HIDE DEF s
    <2>6. QED
      BY <1>2, <2>5
  <1>5. QED
    BY <1>3, <1>4

\* A request that begins a call, or belongs to one
LEMMA BeginningKinds ==
  ASSUME BasicInv, NEW k, NamesInv(k), BeginningSome
  PROVE  ServerKinds(k)'
  <1>1. PICK p \in net : RequestCurrent(p) \/ RequestNew(p) \/ RequestNoThread(p)
    BY DEF BeginningSome
  <1>2. p.kind = k[p.seq]
    BY <1>1, Decision DEF NamesInv, PacketNames, RequestCurrent, RequestNew, RequestNoThread,
                          BasicInv, TypeInv
  <1>3. CASE RequestCurrent(p)
    <2>1. /\ UNCHANGED exe
          /\ \A s \in Scalls : /\ scall'[s].state = scall[s].state /\ scall'[s].seq = scall[s].seq
                               /\ scall'[s].kind = scall[s].kind
      BY <1>3, RequestCurrentGood DEF RequestCurrent, BasicInv, TypeInv
    <2>2. QED
      BY <2>1 DEF NamesInv, ServerKinds
  <1>4. CASE RequestNew(p) \/ RequestNoThread(p)
    <2>1. PICK s \in Scalls : NewCallShape(p, s)
      BY <1>4, NewCallShaped
    <2>2. \A t \in Scalls : scall'[t].state # "free" => scall'[t].kind = k[scall'[t].seq]
      BY <1>2, <2>1 DEF NewCallShape, NamesInv, ServerKinds
    <2>3. \A x \in Executors : exe'[x] = exe[x] \/ (exe'[x].pc = "start" /\ exe'[x].ans = {})
      BY <2>1 DEF NewCallShape
    <2>4. \A x \in Executors :
            /\ exe'[x].pc \notin {"none", "start"} => exe'[x].kind = k[exe'[x].seq]
            /\ exe'[x].pc \in {"lock", "way", "relock"} => exe'[x].kind = "nonidem"
            /\ exe'[x].pc # "way" => exe'[x].ans = {}
      BY <2>3 DEF NamesInv, ServerKinds
    <2>5. QED
      BY <2>2, <2>4 DEF ServerKinds
  <1>5. QED
    BY <1>1, <1>3, <1>4

\* Instances of the server follow one another.
LEMMA BootGrows ==
  ASSUME BasicInv, [Next]_vars
  PROVE  /\ sboot \in Nat /\ sboot' \in Nat /\ sboot <= sboot'
         /\ sboot' = 1 => sboot = 1
  <1>1. sboot \in Nat /\ sboot # 0
    BY SizeAssumption DEF BasicInv, TypeInv, ServerInv, Boots
  <1>2. sboot' = sboot \/ sboot' = sboot + 1
    <2>1. CASE ServerEnds
      BY <2>1, ServerEndsEnds DEF EndingStep, BasicInv, TypeInv
    <2>2. CASE BeginningSome \/ Crash \/ ForgetActivity
      BY <2>2 DEF BeginningSome, RequestCurrent, RequestNew, RequestNoThread, Crash,
                  ForgetActivity, SctTimer
    <2>3. CASE \E x \in Executors : CarryingOn(x) \/ WhoAreYou(x)
      BY <2>3 DEF CarryingOn, StartCallsStub, StartNeedsWay, WayValidate, WaySucceeds, WayFails,
                  RelockCallsStub, CallStub, WhoAreYou
    <2>4. CASE UNCHANGED serverVars
      BY <2>4 DEF serverVars
    <2>5. QED
      BY <2>1, <2>2, <2>3, <2>4, StepKinds DEF LateWhoAreYou, vars
  <1>3. QED
    BY <1>1, <1>2

\* A packet that is not new still names what it did, and so does the call.
LEMMA NamesKept ==
  ASSUME BasicInv, [Next]_vars, NEW k, NamesInv(k)
  PROVE  /\ \A p \in net : PacketNames(k, p)'
         /\ UNCHANGED <<ccall, hboot>> => CallNames(k)'
         /\ \A b \in ways : b <= sboot'
  <1>1. /\ ccall.boot \in Nat /\ hboot \in Nat /\ \A b \in ways : b \in Nat
        /\ \A p \in net : p.boot \in Nat
    BY SizeAssumption DEF BasicInv, TypeInv, ClientInv, ServerInv, AnyCcall, Boots, NetInv,
                          GoodPacket, AnyPacket
  <1>2. QED
    BY <1>1, BootGrows DEF NamesInv, PacketNames, CallNames, TrueReject, InTable

\* A step of the server
LEMMA ServerNames ==
  ASSUME BasicInv, [Next]_vars, NEW k, NamesInv(k), UNCHANGED clientVars,
         \/ ServerEnds \/ BeginningSome \/ Crash \/ ForgetActivity
         \/ \E x \in Executors : CarryingOn(x)
  PROVE  NamesInv(k)'
  <1>1. /\ \A p \in net : PacketNames(k, p)'
        /\ CallNames(k)' /\ \A b \in ways : b <= sboot'
    BY NamesKept DEF clientVars
  <1>2. ServerKinds(k)
    BY DEF NamesInv
  <1>3. CASE ServerEnds
    <2>1. EndingStep
      BY <1>3, ServerEndsEnds DEF BasicInv, TypeInv
    <2>2. ServerKinds(k)' /\ UNCHANGED <<sboot, ways>>
      BY <1>2, <2>1, EndingKinds DEF EndingStep
    <2>3. \A p \in net' : PacketNames(k, p)'
      <3>1. CASE net' = net
        BY <1>1, <3>1
      <3>2. CASE \E q : ServerSends(q) /\ net' = net \cup {q}
        <4>1. PICK q : ServerSends(q) /\ net' = net \cup {q}
          BY <3>2
        <4>2. PacketNames(k, q)
          BY <4>1, SentNames
        <4>3. PacketNames(k, q)'
          BY <2>2, <4>2 DEF PacketNames, TrueReject
        <4>4. QED
          BY <1>1, <4>1, <4>3
      <3>3. QED
        BY <1>3, <3>1, <3>2, ServerEndsSends DEF BasicInv, TypeInv
    <2>4. QED
      BY <1>1, <2>2, <2>3 DEF NamesInv
  <1>4. CASE BeginningSome
    <2>1. ServerKinds(k)' /\ UNCHANGED <<net, ways>>
      BY <1>4, BeginningKinds DEF BeginningSome, RequestCurrent, RequestNew, RequestNoThread
    <2>2. QED
      BY <1>1, <2>1 DEF NamesInv
  <1>5. CASE Crash
    <2>1. /\ UNCHANGED <<net, ways>> /\ \A s \in Scalls : scall'[s].state = "free"
          /\ \A x \in Executors : exe'[x].pc = "none" /\ exe'[x].ans = {}
      BY <1>5, Idle DEF Crash
    <2>2. QED
      BY <1>1, <2>1 DEF NamesInv, ServerKinds
  <1>6. CASE ForgetActivity
    <2>1. net' = {} /\ UNCHANGED <<scall, exe, ways>>
      BY <1>6 DEF ForgetActivity, SctTimer
    <2>2. QED
      BY <1>1, <1>2, <2>1 DEF NamesInv, ServerKinds
  <1>7. CASE \E x \in Executors : CarryingOn(x)
    <2>1. PICK x \in Executors : CarryingOn(x)
      BY <1>7
    <2>2. ServerKinds(k)'
      BY <1>2, <2>1, CarryingOnKinds
    <2>3. UNCHANGED <<net, sboot>> /\ ways' \subseteq ways \cup {sboot} /\ sboot \in Nat
      BY <2>1, BootGrows DEF CarryingOn, StartCallsStub, StartNeedsWay, WayValidate, WaySucceeds,
                  WayFails, RelockCallsStub, CallStub
    <2>4. \A b \in ways' : b <= sboot'
      BY <1>1, <2>3
    <2>5. QED
      BY <1>1, <2>2, <2>3, <2>4 DEF NamesInv
  <1>8. QED
    BY <1>3, <1>4, <1>5, <1>6, <1>7

\* A step that leaves the server's calls alone: what the client sends and keeps
LEMMA ClientNames ==
  ASSUME BasicInv, [Next]_vars, NEW k, NamesInv(k), ServerKinds(k)', UNCHANGED <<sboot, ways>>,
         \A q \in net' : q \in net \/ PacketNames(k, q),
         hboot' \in {hboot, ccall.boot, 0},
         ccall'.boot \in {ccall.boot, hboot, 0} \/ ccall'.boot <= sboot,
         InTable' => ccall'.kind = k[ccall'.seq] /\ TrueReject(k, ccall'.seq, ccall'.reject)
  PROVE  NamesInv(k)'
  <1>1. \A p \in net : PacketNames(k, p)'
    BY NamesKept
  <1>2. \A q : PacketNames(k, q) => PacketNames(k, q)'
    BY DEF PacketNames, TrueReject
  <1>3. hboot' <= sboot' /\ ccall'.boot <= sboot'
    <2>1. sboot \in Nat /\ hboot <= sboot /\ ccall.boot <= sboot
      BY BootGrows DEF NamesInv, CallNames
    <2>2. QED
      BY <2>1
  <1>4. CallNames(k)'
    BY <1>3 DEF CallNames, TrueReject
  <1>5. \A p \in net' : PacketNames(k, p)'
    BY <1>1, <1>2
  <1>6. \A b \in ways' : b <= sboot'
    BY DEF NamesInv
  <1>7. QED
    BY <1>4, <1>5, <1>6 DEF NamesInv

\* The client's answer to a callback
LEMMA WhoAreYouNames ==
  ASSUME BasicInv, [Next]_vars, NEW k, NamesInv(k),
         (\E x \in Executors : WhoAreYou(x)) \/ (\E boot \in Boots : LateWhoAreYou(boot))
  PROVE  NamesInv(k)'
  <1>1. PICK boot \in Boots : WayStash(boot) /\ boot <= sboot
    <2>1. sboot \in Boots /\ sboot <= sboot
      BY BootGrows DEF BasicInv, TypeInv, ServerInv
    <2>2. \A boot \in ways : boot <= sboot
      BY DEF NamesInv
    <2>3. QED
      BY <2>1, <2>2 DEF WhoAreYou, LateWhoAreYou
  <1>2. UNCHANGED <<net, sboot, ways, awaited, hboot, outcome, giveups, resets>>
    BY DEF WhoAreYou, LateWhoAreYou, serverVars
  <1>3. /\ ccall'.state = ccall.state /\ ccall'.seq = ccall.seq /\ ccall'.kind = ccall.kind
        /\ ccall'.reject = ccall.reject /\ ccall'.boot \in {ccall.boot, boot}
    BY <1>1, <1>2, WayStashGood DEF SameCall, BasicInv, TypeInv
  <1>4. ServerKinds(k)'
    <2>1. CASE \E x \in Executors : WhoAreYou(x)
      BY <2>1, CarryingOnKinds DEF NamesInv
    <2>2. CASE UNCHANGED serverVars
      BY <2>2 DEF NamesInv, ServerKinds, serverVars
    <2>3. QED
      BY <2>1, <2>2 DEF LateWhoAreYou
  <1>5. InTable' => ccall'.kind = k[ccall'.seq] /\ TrueReject(k, ccall'.seq, ccall'.reject)
    BY <1>3 DEF NamesInv, CallNames, InTable
  <1>6. QED
    BY <1>1, <1>2, <1>3, <1>4, <1>5, ClientNames

\* The client's handlers of packets
LEMMA ClientReceivesNames ==
  ASSUME BasicInv, [Next]_vars, NEW k, NamesInv(k), ClientReceives, UNCHANGED serverVars
  PROVE  NamesInv(k)'
  <1>1. UNCHANGED <<sboot, ways, hboot>> /\ ServerKinds(k)'
    BY ClientReceivesGood DEF NamesInv, ServerKinds, serverVars, BasicInv, TypeInv
  <1>2. CASE \E p \in net : ReplyStep(p)
    <2>1. PICK p \in net : ReplyStep(p)
      BY <1>2
    <2>2. /\ UNCHANGED net /\ InTable /\ p.seq = ccall.seq
          /\ ccall'.seq = ccall.seq /\ ccall'.kind = ccall.kind
          /\ ccall'.boot \in {ccall.boot, p.boot}
          /\ ccall'.reject = ccall.reject \/ (p.type = "reject" /\ ccall'.reject = p.body)
      BY <2>1 DEF ReplyStep, SameCall
    <2>3. p.boot <= sboot /\ (p.type = "reject" => TrueReject(k, p.seq, p.body))
      BY DEF NamesInv, PacketNames
    <2>4. ccall'.kind = k[ccall'.seq] /\ TrueReject(k, ccall'.seq, ccall'.reject)
      BY <2>2, <2>3 DEF NamesInv, CallNames
    <2>5. QED
      BY <1>1, <2>2, <2>3, <2>4, ClientNames
  <1>3. CASE /\ UNCHANGED clientVars
             /\ \E p \in net : net' = net \cup {Packet("ack", p.seq, p.boot)}
    <2>1. PICK p \in net : net' = net \cup {Packet("ack", p.seq, p.boot)}
      BY <1>3
    <2>2. PacketNames(k, Packet("ack", p.seq, p.boot))
      BY NotResponses DEF NamesInv, PacketNames
    <2>3. UNCHANGED ccall
      BY <1>3 DEF clientVars
    <2>4. InTable' => ccall'.kind = k[ccall'.seq] /\ TrueReject(k, ccall'.seq, ccall'.reject)
      BY <2>3 DEF NamesInv, CallNames, InTable
    <2>5. QED
      BY <1>1, <2>1, <2>2, <2>3, <2>4, ClientNames
  <1>4. CASE /\ SameCall /\ ccall'.boot = ccall.boot /\ ccall'.reject = ccall.reject /\ InTable
             /\ net' \subseteq net \cup {Request(ccall.seq, ccall.boot, ccall.kind)}
    <2>1. PacketNames(k, Request(ccall.seq, ccall.boot, ccall.kind))
      BY <1>4, NotResponses DEF NamesInv, CallNames, PacketNames
    <2>2. InTable' => ccall'.kind = k[ccall'.seq] /\ TrueReject(k, ccall'.seq, ccall'.reject)
      BY <1>4 DEF NamesInv, CallNames, SameCall, InTable
    <2>3. QED
      BY <1>1, <1>4, <2>1, <2>2, ClientNames
  <1>5. QED
    BY <1>2, <1>3, <1>4, ClientReceivesGood DEF BasicInv, TypeInv

\* The client's own steps, the start of a call apart
LEMMA ClientStepNames ==
  ASSUME BasicInv, [Next]_vars, NEW k, NamesInv(k), UNCHANGED serverVars,
         QuietStep \/ \E result \in {"ok", "failed", "denied"} : EndCall(result)
  PROVE  NamesInv(k)'
  <1>1. UNCHANGED <<sboot, ways>> /\ ServerKinds(k)'
    BY DEF NamesInv, ServerKinds, serverVars
  <1>2. \A t \in {"quit", "ack"} : PacketNames(k, Packet(t, ccall.seq, ccall.boot))
    BY NotResponses DEF NamesInv, CallNames, PacketNames
  <1>3. CASE QuietStep
    <2>1. /\ \A q \in net' : q \in net \/ q = Packet("ack", ccall.seq, ccall.boot)
          /\ hboot' \in {hboot, 0}
          /\ \/ SameCall /\ ccall'.boot = ccall.boot /\ ccall'.reject = ccall.reject
             \/ ccall' \in {NoCcall, IdleCcall}
      BY <1>3, QuietStepGood DEF BasicInv, TypeInv
    <2>2. /\ ccall'.boot \in {ccall.boot, 0}
          /\ InTable' => ccall'.kind = k[ccall'.seq] /\ TrueReject(k, ccall'.seq, ccall'.reject)
      BY <2>1, IdleCcallGood DEF NamesInv, CallNames, SameCall, InTable, BasicInv, TypeInv
    <2>3. QED
      BY <1>1, <1>2, <2>1, <2>2, ClientNames
  <1>4. CASE \E result \in {"ok", "failed", "denied"} : EndCall(result)
    <2>1. /\ ccall.state = "recv"
          /\ \A q \in net' : q \in net \/ q = Packet("quit", ccall.seq, ccall.boot)
          /\ hboot' \in {hboot, ccall.boot} /\ ccall'.boot = ccall.boot
          /\ InTable' => /\ ccall'.seq = ccall.seq /\ ccall'.kind = ccall.kind
                         /\ ccall'.reject = ccall.reject
      BY <1>4, EndCallGood DEF BasicInv, TypeInv
    <2>2. InTable' => ccall'.kind = k[ccall'.seq] /\ TrueReject(k, ccall'.seq, ccall'.reject)
      BY <2>1 DEF NamesInv, CallNames, InTable
    <2>3. QED
      BY <1>1, <1>2, <2>1, <2>2, ClientNames
  <1>5. QED
    BY <1>3, <1>4

\* j tells the kinds when a call of the given kind has been started.
Starts(k, j, kind) ==
  /\ j \in [Seqs -> AllKinds] /\ j[NextSeq] = kind
  /\ \A n \in Seqs \ {NextSeq} : j[n] = k[n]

\* Nothing names a call before it is made, so its kind may still be chosen.
LEMMA StartNames ==
  ASSUME BasicInv, [Next]_vars, NEW k, NamesInv(k), UNCHANGED serverVars,
         NEW kind \in Kinds, StartCall(kind), NEW j, Starts(k, j, kind)
  PROVE  NamesInv(j)'
  <1> USE DEF BasicInv, TypeInv
  <1>1. \A n \in Seqs : Made(n) => j[n] = k[n]
    <2>1. NextSeq \in Seqs
      BY DEF StartCall
    <2>2. NextSeq \in Nat /\ ~Made(NextSeq)
      BY <2>1, NextSeqNew DEF Seqs
    <2>3. QED
      BY <2>2 DEF Starts
  <1>2. \A p \in net : PacketNames(j, p)
    <2>1. \A p \in net : p.seq \in Seqs /\ Made(p.seq)
      BY DEF NetInv, GoodPacket, Made
    <2>2. QED
      BY <1>1, <2>1 DEF NamesInv, PacketNames, TrueReject
  <1>3. ServerKinds(j)
    <2>1. \A s \in Scalls : scall[s].state # "free" => scall[s].kind = j[scall[s].seq]
      <3>1. \A s \in Scalls : scall[s].state # "free" => Made(scall[s].seq) /\ scall[s].seq \in Seqs
        BY DEF ServerInv, GoodScall, Made
      <3>2. QED
        BY <1>1, <3>1 DEF NamesInv, ServerKinds
    <2>2. \A x \in Executors : exe[x].pc \notin {"none", "start"} => exe[x].kind = j[exe[x].seq]
      <3>1. \A x \in Executors :
              exe[x].pc \notin {"none", "start"} => Made(exe[x].seq) /\ exe[x].seq \in Seqs
        BY DEF ServerInv, GoodExecutor, Made
      <3>2. QED
        BY <1>1, <3>1 DEF NamesInv, ServerKinds
    <2>3. QED
      BY <2>1, <2>2 DEF NamesInv, ServerKinds
  <1>4. ServerKinds(j)' /\ UNCHANGED <<sboot, ways>>
    BY <1>3 DEF ServerKinds, serverVars
  <1>5. InitialBoot <= sboot /\ sboot \in Nat
    BY BootGrows DEF InitialBoot, NamesInv, CallNames
  <1>6. PacketNames(j, Request(NextSeq, InitialBoot, kind))
    BY <1>5, NotResponses DEF PacketNames, Starts
  <1>7. \A q \in net' : PacketNames(j, q)
    BY <1>2, <1>6 DEF StartCall
  <1>8. /\ ccall'.seq = NextSeq /\ ccall'.kind = kind
        /\ ccall'.boot = InitialBoot /\ ccall'.reject = "none"
    BY StartCallGood
  <1>9. CallNames(j)'
    <2>1. hboot' <= sboot' /\ ccall'.boot <= sboot'
      BY <1>4, <1>5, <1>8 DEF StartCall, NamesInv, CallNames
    <2>2. ccall'.kind = j[ccall'.seq] /\ TrueReject(j, ccall.seq, ccall.reject)'
      BY <1>8 DEF Starts, TrueReject
    <2>3. QED
      BY <2>1, <2>2 DEF CallNames
  <1>10. \A q \in net' : PacketNames(j, q)'
    BY <1>4, <1>7 DEF PacketNames, TrueReject
  <1>11. QED
    BY <1>4, <1>9, <1>10 DEF NamesInv

\* The kinds and the names are kept, unless a call is started.
LEMMA NamesNext ==
  ASSUME BasicInv, [Next]_vars, NEW k, NamesInv(k)
  PROVE  NamesInv(k)' \/ ((\E kind \in Kinds : StartCall(kind)) /\ UNCHANGED serverVars)
  <1>1. CASE UNCHANGED vars
    BY <1>1 DEF vars, serverVars, clientVars, NamesInv, PacketNames, CallNames, ServerKinds,
                TrueReject, InTable
  <1>2. QED
    BY <1>1, StepKinds, ServerNames, WhoAreYouNames, ClientReceivesNames, ClientStepNames
    DEF ClientStep, QuietStep

-----------------------------------------------------------------------------
(* At most one execution is kept *)

\* Nobody says more of call n than before, and it is still remembered.
Quieter(n) ==
  /\ sboot' = sboot /\ execs'[n] = execs[n]
  /\ PendingCall(n)' => PendingCall(n)
  /\ Known(n) => Known(n)'
  /\ Vouched(n)' => Vouched(n) \/ (MayVouch(n) /\ (Calling(n)' => ccall'.boot # 0))
  /\ MayVouch(n)' => MayVouch(n)
  /\ Calling(n)' => Calling(n) /\ (ccall.boot # 0 => ccall'.boot # 0)
  /\ Asked(n)' => Asked(n)
\* Such a step keeps what the invariant says of the call.
LEMMA QuieterCounts ==
  ASSUME BasicInv, MadeStays, NEW k, NEW n \in Seqs, Quieter(n),
         RunsOnce(k, n), sboot = 1 => DeniesTruly(k, n),
         sboot = 1 /\ Denies(n)' =>
           Denies(n) \/ (k[n] = "nonidem" /\ execs[n] = 0 /\ Remembered(n)')
  PROVE  RunsOnce(k, n)' /\ (sboot' = 1 => DeniesTruly(k, n)')
  <1>1. Calling(n) => Made(n)
    BY DEF Calling, BasicInv, TypeInv, ClientInv
  <1>2. Made(n) => Made(n)'
    BY DEF Made, MadeStays
  <1>3. Remembered(n) => Remembered(n)'
    BY DEF Quieter, Remembered
  <1>4. MayVouch(n) => Calling(n)
    BY DEF MayVouch
  <1>5. (Vouched(n)' \/ execs'[n] > 0) => Made(n)'
    BY <1>1, <1>2, <1>4 DEF Quieter, RunsOnce
  <1>6. Vouched(n)' \/ MayVouch(n)' => Vouched(n) \/ MayVouch(n)
    BY DEF Quieter
  <1>7. Vouched(n)' /\ Calling(n)' => ccall'.boot # 0
    BY DEF Quieter, RunsOnce
  <1>8. k[n] # "idem" /\ execs'[n] > 0 =>
          /\ Vouched(n)' \/ MayVouch(n)' => Remembered(n)'
          /\ Calling(n)' => ccall'.boot # 0
    BY <1>3, <1>6 DEF Quieter, RunsOnce
  <1>9. RunsOnce(k, n)'
    BY <1>5, <1>7, <1>8 DEF Quieter, RunsOnce
  <1>10. sboot' = 1 => DeniesTruly(k, n)'
    BY <1>3 DEF Quieter, DeniesTruly
  <1>11. QED
    BY <1>9, <1>10

\* The server keeps to the calls it has, and the client is left alone.
QuietServer(n) ==
  /\ UNCHANGED <<sboot, ccall>> /\ execs'[n] = execs[n]
  /\ \A q \in net' : q.type = "request" => q \in net
  /\ Known(n) => Known(n)'
  /\ \A x \in Executors :
       /\ Pending(x)' => Pending(x) /\ Handle(x)'.seq = Handle(x).seq
       /\ Pending(x)' /\ Handle(x).seq = n /\ Cleared(x)' => Vouched(n)
       /\ n \in exe'[x].ans => n \in exe[x].ans
\* Then nobody says more of the call.
LEMMA QuietServerQuieter ==
  ASSUME NEW n \in Seqs, QuietServer(n)
  PROVE  Quieter(n)
  <1>1. Calling(n)' = Calling(n) /\ MayVouch(n)' = MayVouch(n)
    BY DEF QuietServer, Calling, MayVouch, InTable
  <1>2. PendingCall(n)' => PendingCall(n)
    BY DEF QuietServer, PendingCall
  <1>3. \A B : Requested(n, B)' => Requested(n, B)
    BY DEF QuietServer, Requested
  <1>4. Vouched(n)' => Vouched(n)
    <2>1. CASE Requested(n, {sboot})'
      BY <1>3, <2>1 DEF QuietServer, Vouched, Requested
    <2>2. CASE \E x \in Executors : n \in exe'[x].ans
      BY <2>2 DEF QuietServer, Vouched
    <2>3. CASE \E x \in Executors : (Pending(x) /\ Handle(x).seq = n /\ Cleared(x))'
      BY <2>3 DEF QuietServer
    <2>4. QED
      BY <2>1, <2>2, <2>3 DEF Vouched
  <1>5. Asked(n)' => Asked(n)
    BY <1>1, <1>2, <1>3 DEF Asked, Requested
  <1>6. QED
    BY <1>1, <1>2, <1>4, <1>5 DEF QuietServer, Quieter

\* The call of a receiving handle is the highest one, and its executor is the only
\* one that can be pending on it.
LEMMA PendingHighest ==
  ASSUME BasicInv, Orderly, NEW x \in Executors, Pending(x)
  PROVE  /\ exe[x].scall \in Scalls /\ Live(x) /\ scte.present
         /\ scte.scall = exe[x].scall /\ Handle(x).seq = scte.high /\ Handle(x).seq \in Seqs
         /\ \A y \in Executors : Live(y) /\ exe[y].scall = exe[x].scall => y = x
  <1>1. Live(x) /\ exe[x].scall \in Scalls /\ scall[exe[x].scall].state = "recv"
    BY DEF Pending, Live, Handle, BasicInv, TypeInv, ServerInv, GoodExecutor
  <1>2. scte.scall = exe[x].scall
    BY <1>1 DEF BasicInv, FollowInv, HandlesFollowExecutors
  <1>3. exe[x].scall # 0
    BY <1>1, SlotAssumption
  <1>4. scte.present /\ Handle(x).seq = scte.high
    BY <1>1, <1>2, <1>3 DEF Handle, BasicInv, TypeInv, ServerInv, Orderly, HighestReceives
  <1>5. Handle(x).seq \in Seqs
    BY <1>1 DEF Handle, BasicInv, TypeInv, ServerInv, GoodScall, Made
  <1>6. QED
    BY <1>1, <1>2, <1>4, <1>5 DEF Orderly, OneExecutor

\* After an ending step the executors that are pending were so before.
LEMMA EndingQuiet ==
  ASSUME BasicInv, EndingStep, UNCHANGED ccall, NEW n \in Seqs,
         \A q \in net' : q.type = "request" => q \in net
  PROVE  QuietServer(n) /\ \A x \in Executors : Pending(x)' => exe'[x] = exe[x]
  <1>1. ASSUME NEW x \in Executors, Pending(x)'
        PROVE  exe'[x] = exe[x] /\ Pending(x) /\ Handle(x)' = Handle(x)
    <2>1. exe'[x] = exe[x]
      BY <1>1, Idle DEF EndingStep, Pending
    <2>2. exe[x].scall \in Scalls
      BY <1>1, <2>1 DEF Pending, BasicInv, TypeInv, ServerInv, GoodExecutor
    <2>3. scall'[exe[x].scall].state = "recv"
      BY <1>1, <2>1 DEF Pending, Handle
    <2>4. scall'[exe[x].scall] = scall[exe[x].scall]
      BY <2>2, <2>3, EndsGood DEF EndingStep, BasicInv, TypeInv, ServerInv
    <2>5. QED
      BY <1>1, <2>1, <2>4 DEF Pending, Handle
  <1>2. \A x \in Executors : Pending(x)' /\ Handle(x).seq = n /\ Cleared(x)' => Vouched(n)
    BY <1>1 DEF Cleared, Vouched
  <1>3. \A x \in Executors : n \in exe'[x].ans => n \in exe[x].ans
    BY Idle DEF EndingStep
  <1>4. Known(n) => Known(n)'
    BY DEF EndingStep, Known, BasicInv, TypeInv, ServerInv, AnyScte
  <1>5. QED
    BY <1>1, <1>2, <1>3, <1>4 DEF QuietServer, EndingStep

\* A rejected callback: the manager has not run, nobody will run it again.
LEMMA RejectsTruly ==
  ASSUME BasicInv, Orderly, NEW k, NamesInv(k), EndingStep, UNCHANGED ccall,
         \A q \in net' : q.type = "request" => q \in net,
         NEW x \in Executors, ReplyingStep(x), At(x, "relock"), Handle(x).state = "recv",
         NEW n \in Seqs, n = Handle(x).seq, DeniesTruly(k, n)
  PROVE  k[n] = "nonidem" /\ execs[n] = 0 /\ Remembered(n)'
  <1>1. Pending(x) /\ PendingCall(n)
    BY DEF Pending, PendingCall, At
  <1>2. k[n] = "nonidem"
    <2>1. Handle(x).seq = exe[x].seq
      BY <1>1, PendingHighest DEF Orderly, OwnHandle, At
    <2>2. QED
      BY <2>1 DEF NamesInv, ServerKinds, At
  <1>3. execs[n] = 0
    <2>1. execs[n] \in Nat
      BY DEF BasicInv, TypeInv, ServerInv
    <2>2. ~(execs[n] > 0)
      BY <1>1, <1>2 DEF DeniesTruly, Asked, Remembered
    <2>3. QED
      BY <2>1, <2>2
  <1>4. Known(n)'
    <2>1. Known(n)
      BY <1>1, PendingHighest DEF Known, BasicInv, TypeInv, ServerInv, AnyScte
    <2>2. QED
      BY <2>1, EndingQuiet DEF QuietServer
  <1>5. ~PendingCall(n)'
    <2>1. SUFFICES ASSUME NEW y \in Executors, Pending(y)' PROVE FALSE
      BY DEF PendingCall
    <2>2. Pending(y) /\ exe'[y] = exe[y]
      BY <2>1, EndingQuiet DEF QuietServer
    <2>3. y = x
      BY <1>1, <2>2, PendingHighest
    <2>4. exe'[x].pc = "none"
      BY Idle DEF ReplyingStep, RejectUnknown, RelockRejects, StubReturns, SendReply, BasicInv,
                  TypeInv, ServerInv
    <2>5. QED
      BY <2>1, <2>3, <2>4 DEF Pending
  <1>6. QED
    BY <1>2, <1>3, <1>4, <1>5 DEF Remembered

\* The server ends calls, or only answers.
LEMMA ServerEndsCounts ==
  ASSUME BasicInv, Orderly, NEW k, NamesInv(k), ServerEnds, UNCHANGED clientVars,
         NEW n \in Seqs, Counts(k, n)
  PROVE  Counts(k, n)'
  <1>1. EndingStep /\ MadeStays /\ UNCHANGED ccall
    BY ServerEndsEnds DEF BasicInv, TypeInv, clientVars, MadeStays
  <1>2. net' = net \/ \E q : ServerSends(q) /\ net' = net \cup {q}
    BY ServerEndsSends DEF BasicInv, TypeInv
  <1>3. \A q \in net' : q.type = "request" => q \in net
    BY <1>2, SentNames
  <1>4. Quieter(n)
    BY <1>1, <1>3, EndingQuiet, QuietServerQuieter
  <1>5. ASSUME sboot = 1, Denies(n)'
        PROVE  Denies(n) \/ (k[n] = "nonidem" /\ execs[n] = 0 /\ Remembered(n)')
    <2>1. CASE Denies(n)
      BY <2>1
    <2>2. CASE ~Denies(n)
      <3>1. PICK q \in net' : q.type = "reject" /\ q.seq = n /\ q.body = "who_are_you_failed"
                              /\ q \notin net
        BY <1>1, <1>5, <2>2 DEF Denies, Calling, InTable
      <3>2. ServerSends(q)
        BY <1>2, <3>1
      <3>3. PICK x \in Executors : ReplyingStep(x) /\ SendsReply(x, q)
        BY <3>1, <3>2, NotResponses DEF ServerSends
      <3>4. /\ q = Reject(Handle(x).seq, sboot, "who_are_you_failed")
            /\ At(x, "relock") /\ Handle(x).state = "recv"
        BY <3>1, <3>3, NotResponses DEF SendsReply
      <3>5. n = Handle(x).seq
        BY <3>1, <3>4, NotResponses
      <3>6. QED
        BY <1>1, <1>3, <1>5, <3>3, <3>4, <3>5, RejectsTruly DEF Counts
    <2>3. QED
      BY <2>1, <2>2
  <1>6. QED
    BY <1>1, <1>4, <1>5, QuieterCounts DEF Counts

\* An executor step short of the manager
LEMMA CarryingOnQuiet ==
  ASSUME BasicInv, Orderly, NEW k, NamesInv(k), NEW x \in Executors, ~overtaken',
         StartNeedsWay(x) \/ WayValidate(x) \/ WaySucceeds(x) \/ WayFails(x),
         UNCHANGED ccall, NEW n \in Seqs
  PROVE  QuietServer(n)
  <1>1. AdvancingStep(x)
    BY CarryingOnAdvances DEF CarryingOn, BasicInv, TypeInv
  <1>2. /\ exe \in [Executors -> AnyExecutor] /\ exe[x] \in AnyExecutor /\ exe[x].scall \in Scalls
        /\ scte \in AnyScte /\ scall \in [Scalls -> AnyScall] /\ exe[x].pc # "none"
    BY <1>1 DEF BasicInv, TypeInv, ServerInv, AdvancingStep, GoodExecutor
  <1>3. /\ UNCHANGED <<net, sboot, execs>>
        /\ \A y \in Executors \ {x} : exe'[y] = exe[y]
        /\ exe'[x].scall = exe[x].scall
        /\ \A s \in Scalls : scall'[s].state = scall[s].state /\ scall'[s].seq = scall[s].seq
    BY <1>1 DEF AdvancingStep, StartNeedsWay, WayValidate, WaySucceeds, WayFails
  <1>4. exe[x].pc \in {"start", "lock", "way", "relock"}
    BY DEF StartNeedsWay, WayValidate, WaySucceeds, WayFails, TakeRequest, At
  <1>5. ASSUME NEW y \in Executors, Pending(y)'
        PROVE  Pending(y) /\ Handle(y)'.seq = Handle(y).seq
    <2>1. exe[y].pc # "none" /\ exe'[y].scall = exe[y].scall
      BY <1>2, <1>3, <1>5 DEF Pending
    <2>2. exe[y].scall \in Scalls
      BY <2>1 DEF BasicInv, TypeInv, ServerInv, GoodExecutor
    <2>3. Handle(y)'.seq = Handle(y).seq /\ Handle(y)'.state = Handle(y).state
      BY <1>3, <2>1, <2>2 DEF Handle
    <2>4. exe[y].pc \in {"start", "lock", "way", "relock"}
      BY <1>3, <1>4, <1>5 DEF Pending
    <2>5. QED
      BY <1>5, <2>3, <2>4 DEF Pending
  <1>6. CASE StartNeedsWay(x) \/ WayFails(x)
    <2>1. /\ \A y \in Executors : n \in exe'[y].ans => n \in exe[y].ans
          /\ exe'[x].pc \in {"lock", "relock"} /\ (exe'[x].pc = "relock" => exe'[x].st # "ok")
          /\ UNCHANGED scte
      BY <1>2, <1>3, <1>6 DEF StartNeedsWay, WayFails, AnyExecutor
    <2>2. \A s \in Scalls : scall'[s].needs = scall[s].needs
      BY <1>2, <1>6 DEF StartNeedsWay, WayFails, Taken, AnyScall
    <2>3. \A y \in Executors : Pending(y)' /\ Cleared(y)' => Cleared(y)
      <3>1. SUFFICES ASSUME NEW y \in Executors, Pending(y)', Cleared(y)' PROVE Cleared(y)
        OBVIOUS
      <3>2. exe'[y].scall = exe[y].scall /\ exe[y].scall \in Scalls
        BY <1>2, <1>3, <1>5, <3>1 DEF Pending, BasicInv, TypeInv, ServerInv, GoodExecutor
      <3>3. Handle(y)'.needs = Handle(y).needs
        BY <2>2, <3>2 DEF Handle
      <3>4. QED
        BY <1>3, <2>1, <3>1, <3>3 DEF Cleared
    <2>4. QED
      BY <1>3, <1>5, <2>1, <2>3 DEF QuietServer, Vouched, Known
  <1>7. CASE WayValidate(x)
    <2>1. /\ \A y \in Executors : n \in exe'[y].ans => n \in exe[y].ans
          /\ exe'[x].pc = "relock" => ~scall[scte.scall].needs
          /\ UNCHANGED <<scte, scall>>
      BY <1>2, <1>3, <1>7 DEF WayValidate, AnyExecutor, IsWayValidated
    <2>2. \A y \in Executors : Pending(y)' /\ Cleared(y)' => Cleared(y)
      <3>1. SUFFICES ASSUME NEW y \in Executors, Pending(y)', Cleared(y)' PROVE Cleared(y)
        OBVIOUS
      <3>2. exe'[y].scall = exe[y].scall /\ scte.scall = exe[y].scall
        BY <1>3, <1>5, <3>1, PendingHighest
      <3>3. Handle(y)' = Handle(y) /\ Handle(y) = scall[scte.scall]
        BY <2>1, <3>2 DEF Handle
      <3>4. QED
        BY <1>3, <2>1, <3>1, <3>3 DEF Cleared
    <2>3. QED
      BY <1>3, <1>5, <2>1, <2>2 DEF QuietServer, Vouched, Known
  <1>8. CASE WaySucceeds(x)
    <2>1. PICK seq \in exe[x].ans \ {0} :
            /\ overtaken' = (overtaken \/ Overtaken(x, seq))
            /\ scte' = [scte EXCEPT !.high = HighSeqAfterWay(seq), !.valid = TRUE]
      BY <1>8 DEF WaySucceeds
    <2>2. ~Overtaken(x, seq)
      BY <2>1, Zenon
    <2>3. seq = exe[x].seq /\ scte.scall \in {0, exe[x].scall}
      BY <2>2 DEF Overtaken
    <2>4. Known(n) => Known(n)'
      <3>1. seq \in Nat /\ scte.high \in Nat
        BY <1>2, <2>1 DEF AnyExecutor, AnyScte
      <3>2. scte'.present = scte.present /\ scte'.high = HighSeqAfterWay(seq)
        BY <1>2, <2>1 DEF AnyScte
      <3>3. scte'.high >= scte.high /\ scte'.high \in Nat
        BY <3>1, <3>2 DEF HighSeqAfterWay
      <3>4. QED
        BY <3>1, <3>2, <3>3 DEF Known, Seqs
    <2>5. \A y \in Executors : n \in exe'[y].ans => n \in exe[y].ans
      BY <1>2, <1>3, <1>8 DEF WaySucceeds, AnyExecutor
    <2>6. \A y \in Executors : Pending(y)' /\ Handle(y).seq = n /\ Cleared(y)' => Vouched(n)
      <3>1. SUFFICES ASSUME NEW y \in Executors, Pending(y)', Handle(y).seq = n, Cleared(y)'
                     PROVE  Vouched(n)
        OBVIOUS
      <3>2. CASE y = x
        <4>1. Handle(x).seq = exe[x].seq
          BY <1>2, <1>8 DEF Orderly, OwnHandle, Live, WaySucceeds, At
        <4>2. n \in exe[x].ans
          BY <2>1, <2>3, <3>1, <3>2, <4>1
        <4>3. QED
          BY <4>2 DEF Vouched
      <3>3. CASE y # x
        <4>1. Pending(y) /\ exe'[y] = exe[y]
          BY <1>3, <1>5, <3>1, <3>3
        <4>2. exe[y].scall \in Scalls /\ scte.scall = exe[y].scall /\ exe[y].scall # exe[x].scall
          BY <1>2, <3>3, <4>1, PendingHighest DEF Live
        <4>3. FALSE
          BY <2>3, <4>2, SlotAssumption
        <4>4. QED
          BY <4>3
      <3>4. QED
        BY <3>2, <3>3
    <2>7. QED
      BY <1>3, <1>5, <2>4, <2>5, <2>6 DEF QuietServer
  <1>9. QED
    BY <1>6, <1>7, <1>8

\* Such a step, counted
LEMMA CarryingOnCounts ==
  ASSUME BasicInv, Orderly, NEW k, NamesInv(k), NEW x \in Executors, ~overtaken',
         StartNeedsWay(x) \/ WayValidate(x) \/ WaySucceeds(x) \/ WayFails(x),
         UNCHANGED clientVars, NEW n \in Seqs, Counts(k, n)
  PROVE  Counts(k, n)'
  <1>1. UNCHANGED <<net, ccall, outcome>>
    BY DEF clientVars, StartNeedsWay, WayValidate, WaySucceeds, WayFails
  <1>2. Quieter(n) /\ MadeStays
    BY <1>1, CarryingOnQuiet, QuietServerQuieter DEF MadeStays
  <1>3. Denies(n)' => Denies(n)
    BY <1>1 DEF Denies, Calling, InTable
  <1>4. QED
    BY <1>2, <1>3, QuieterCounts DEF Counts

\* The client answers with the call it is in, and ties it to the instance that asks.
LEMMA WhoAreYouCounts ==
  ASSUME BasicInv, NEW k, NEW x \in Executors, WhoAreYou(x),
         NEW n \in Seqs, Counts(k, n)
  PROVE  Counts(k, n)'
  <1>1. AdvancingStep(x) /\ exe \in [Executors -> AnyExecutor] /\ exe[x] \in AnyExecutor
    BY WhoAreYouAdvances DEF BasicInv, TypeInv, ServerInv
  <1>2. sboot \in Boots /\ sboot # 0
    BY DEF BasicInv, TypeInv, ServerInv
  <1>3. /\ UNCHANGED <<net, sboot, scte, scall, execs, outcome>>
        /\ exe' = [exe EXCEPT ![x].ans = @ \cup {WayAnswer(sboot)}]
    BY DEF WhoAreYou
  <1>4. /\ SameCall /\ ccall'.reject = ccall.reject
        /\ ccall'.boot \in {ccall.boot, sboot} /\ (ccall.boot # 0 => ccall' = ccall)
        /\ InTable => ccall'.boot # 0
    BY <1>2, WayStashGood DEF WhoAreYou, BasicInv, TypeInv
  <1>5. \A y \in Executors : /\ exe'[y].pc = exe[y].pc /\ exe'[y].scall = exe[y].scall
                             /\ exe'[y].st = exe[y].st
                             /\ exe'[y].ans \subseteq exe[y].ans \cup {WayAnswer(sboot)}
    BY <1>1, <1>3 DEF AnyExecutor
  <1>6. Calling(n)' = Calling(n)
    BY <1>4 DEF Calling, InTable, SameCall
  <1>7. MayVouch(n)' => MayVouch(n)
    BY <1>3, <1>4, <1>6 DEF MayVouch
  <1>8. PendingCall(n)' = PendingCall(n) /\ Known(n)' = Known(n)
    BY <1>3, <1>5 DEF PendingCall, Pending, Handle, Known
  <1>9. Vouched(n)' => Vouched(n) \/ (MayVouch(n) /\ (Calling(n)' => ccall'.boot # 0))
    <2>1. CASE Requested(n, {sboot})'
      BY <1>3, <2>1 DEF Requested, Vouched
    <2>2. CASE \E y \in Executors : n \in exe'[y].ans
      <3>1. CASE n = WayAnswer(sboot)
        <4>1. MayVouch(n)
          BY <3>1 DEF WayAnswer, MayVouch, Calling, Seqs
        <4>2. QED
          BY <1>4, <4>1 DEF MayVouch, Calling
      <3>2. CASE n # WayAnswer(sboot)
        BY <1>5, <2>2, <3>2 DEF Vouched
      <3>3. QED
        BY <3>1, <3>2
    <2>3. CASE \E y \in Executors : (Pending(y) /\ Handle(y).seq = n /\ Cleared(y))'
      BY <1>3, <1>5, <2>3 DEF Vouched, Pending, Handle, Cleared
    <2>4. QED
      BY <2>1, <2>2, <2>3 DEF Vouched
  <1>10. Quieter(n)
    BY <1>3, <1>4, <1>6, <1>7, <1>8, <1>9 DEF Quieter, Asked, Requested
  <1>11. Denies(n)' => Denies(n)
    BY <1>3, <1>4, <1>6 DEF Denies
  <1>12. QED
    BY <1>3, <1>10, <1>11, QuieterCounts DEF Counts, MadeStays

\* Before the manager starts: the client has tied the call to this instance.
LEMMA StubVouched ==
  ASSUME BasicInv, Orderly, NEW k, NamesInv(k), NEW x \in Executors,
         StartCallsStub(x) \/ RelockCallsStub(x)
  PROVE  LET n == Handle(x).seq IN
         /\ Pending(x) /\ n \in Seqs /\ n = exe'[x].seq /\ k[n] # "unknown"
         /\ exe'[x].pc = "stub" /\ exe'[x].ans = {}
         /\ \A y \in Executors \ {x} : exe'[y] = exe[y]
         /\ k[n] = "idem" \/ (k[n] = "nonidem" /\ Vouched(n) /\ n = scte.high)
         /\ execs' = [execs EXCEPT ![n] = IF k[n] = "idem" THEN 1 ELSE @ + 1]
  <1> DEFINE n == Handle(x).seq
  <1>1. Pending(x)
    BY DEF StartCallsStub, RelockCallsStub, TakeRequest, NotReceiving, At, Pending
  <1>2. /\ exe \in [Executors -> AnyExecutor] /\ exe[x] \in AnyExecutor
        /\ scall[exe[x].scall].kind = k[scall[exe[x].scall].seq]
    BY <1>1 DEF Pending, Handle, NamesInv, ServerKinds, BasicInv, TypeInv, ServerInv, GoodExecutor
  <1>3. n \in Seqs /\ scte.scall = exe[x].scall /\ n = scte.high
    BY <1>1, PendingHighest
  <1>4. CASE StartCallsStub(x)
    <2>1. CallStub(x, n, Handle(x).kind, Taken(x)) /\ Handle(x).kind # "unknown" /\ ~NeedsWay(x)
      BY <1>4 DEF StartCallsStub
    <2>2. Handle(x).kind = k[n]
      BY <1>2 DEF Handle
    <2>3. k[n] \in Kinds
      BY <1>1, <2>2 DEF Pending, Handle, BasicInv, TypeInv, ServerInv, GoodExecutor, GoodScall
    <2>4. k[n] = "nonidem" => Vouched(n)
      <3>1. k[n] = "nonidem" => Cleared(x)
        BY <1>3, <2>1, <2>2 DEF NeedsWay, IsWayValidated, Cleared, Handle
      <3>2. QED
        BY <1>1, <3>1 DEF Vouched
    <2>5. /\ exe'[x].seq = n /\ exe'[x].pc = "stub" /\ exe'[x].ans = {}
          /\ \A y \in Executors \ {x} : exe'[y] = exe[y]
      BY <1>2, <2>1 DEF CallStub, AnyExecutor
    <2>6. execs' = [execs EXCEPT ![n] = IF k[n] = "idem" THEN 1 ELSE @ + 1]
      BY <2>1, <2>2 DEF CallStub
    <2>7. QED
      BY <1>1, <1>3, <2>1, <2>2, <2>3, <2>4, <2>5, <2>6, KindAssumption
  <1>5. CASE RelockCallsStub(x)
    <2>1. CallStub(x, exe[x].seq, exe[x].kind, scall) /\ At(x, "relock") /\ exe[x].st = "ok"
      BY <1>5 DEF RelockCallsStub
    <2>2. exe[x].seq = n
      BY <1>1, <2>1, PendingHighest DEF Orderly, OwnHandle, At
    <2>3. exe[x].kind = k[n] /\ k[n] = "nonidem"
      BY <2>1, <2>2 DEF At, NamesInv, ServerKinds
    <2>4. Vouched(n)
      BY <1>1, <2>1 DEF Cleared, At, Vouched
    <2>5. /\ exe'[x].seq = n /\ exe'[x].pc = "stub" /\ exe'[x].ans = {}
          /\ \A y \in Executors \ {x} : exe'[y] = exe[y]
      BY <1>2, <2>1, <2>2 DEF CallStub, AnyExecutor
    <2>6. execs' = [execs EXCEPT ![n] = IF k[n] = "idem" THEN 1 ELSE @ + 1]
      BY <2>1, <2>2, <2>3 DEF CallStub
    <2>7. QED
      BY <1>1, <1>3, <2>3, <2>4, <2>5, <2>6
  <1>6. QED
    BY <1>4, <1>5

\* The manager starts, for a non-idempotent call that has not been executed.
LEMMA StubCounts ==
  ASSUME BasicInv, Orderly, NEW k, NamesInv(k), NEW x \in Executors,
         StartCallsStub(x) \/ RelockCallsStub(x), UNCHANGED clientVars,
         NEW n \in Seqs, Counts(k, n)
  PROVE  Counts(k, n)'
  <1> DEFINE m == Handle(x).seq
  <1>1. /\ Pending(x) /\ m \in Seqs /\ m = exe'[x].seq /\ k[m] # "unknown"
        /\ exe'[x].pc = "stub" /\ exe'[x].ans = {}
        /\ \A y \in Executors \ {x} : exe'[y] = exe[y]
        /\ k[m] = "idem" \/ (k[m] = "nonidem" /\ Vouched(m) /\ m = scte.high)
        /\ execs' = [execs EXCEPT ![m] = IF k[m] = "idem" THEN 1 ELSE @ + 1]
    BY StubVouched
  <1>2. /\ UNCHANGED <<net, sboot, scte, ccall, outcome>> /\ execs \in [Seqs -> Nat]
        /\ AdvancingStep(x)
    BY CarryingOnAdvances DEF StartCallsStub, RelockCallsStub, CallStub, clientVars, CarryingOn,
                              BasicInv, TypeInv, ServerInv
  <1>3. /\ \A s \in Scalls : scall'[s].state = scall[s].state /\ scall'[s].seq = scall[s].seq
        /\ \A s \in Scalls : scall'[s].needs = scall[s].needs
    BY <1>2 DEF AdvancingStep, StartCallsStub, RelockCallsStub, CallStub, Taken, BasicInv, TypeInv,
                ServerInv, AnyScall
  <1> HIDE DEF m
  <1>4. ASSUME NEW y \in Executors, Pending(y)'
        PROVE  /\ y # x /\ exe'[y] = exe[y] /\ Pending(y)
               /\ Handle(y)'.seq = Handle(y).seq /\ Handle(y)'.needs = Handle(y).needs
    <2>1. y # x
      BY <1>1, <1>4 DEF Pending
    <2>2. exe'[y] = exe[y]
      BY <1>1, <2>1
    <2>3. exe[y].scall \in Scalls
      BY <1>4, <2>2 DEF Pending, BasicInv, TypeInv, ServerInv, GoodExecutor
    <2>4. QED
      BY <1>3, <1>4, <2>1, <2>2, <2>3 DEF Pending, Handle
  <1>5. \A y \in Executors : exe'[y].ans = exe[y].ans \/ exe'[y].ans = {}
    BY <1>1
  <1>6. CASE k[n] = "idem" \/ n # m
    <2>1. Vouched(n)' => Vouched(n)
      BY <1>2, <1>4, <1>5 DEF Vouched, Requested, Cleared
    <2>2. PendingCall(n)' => PendingCall(n)
      BY <1>4 DEF PendingCall
    <2>3. /\ Known(n)' = Known(n) /\ Calling(n)' = Calling(n) /\ MayVouch(n)' = MayVouch(n)
          /\ Denies(n)' = Denies(n)
      BY <1>2 DEF Known, Calling, InTable, MayVouch, Denies
    <2>4. CASE n # m
      <3>1. execs'[n] = execs[n]
        BY <1>1, <1>2, <2>4
      <3>2. Quieter(n)
        BY <1>2, <2>1, <2>2, <2>3, <3>1 DEF Quieter, Asked, Requested
      <3>3. QED
        BY <1>2, <2>3, <3>2, QuieterCounts DEF Counts, MadeStays
    <2>5. CASE k[n] = "idem" /\ n = m
      <3>1. execs'[n] = 1
        BY <1>1, <1>2, <2>5
      <3>2. Made(n)
        BY <1>1, <2>5, PendingHighest DEF Pending, Handle, Made, m, BasicInv, TypeInv, ServerInv,
                                          GoodScall
      <3>3. Made(n)'
        BY <1>2, <3>2 DEF Made
      <3>4. QED
        BY <1>2, <2>1, <2>3, <2>5, <3>1, <3>3 DEF Counts, RunsOnce, DeniesTruly
    <2>6. QED
      BY <1>6, <2>4, <2>5
  <1>7. CASE k[n] # "idem" /\ n = m
    <2>1. k[n] = "nonidem" /\ Vouched(n) /\ n = scte.high /\ PendingCall(n)
      BY <1>1, <1>7 DEF PendingCall, m
    <2>2. execs[n] = 0
      <3>1. ~(execs[n] > 0)
        BY <2>1 DEF Counts, RunsOnce, Remembered
      <3>2. QED
        BY <1>2, <3>1
    <2>3. execs'[n] = 1
      BY <1>1, <1>2, <1>7, <2>2
    <2>4. Remembered(n)'
      <3>1. Known(n)'
        BY <1>1, <1>2, <2>1, PendingHighest DEF Known, BasicInv, TypeInv, ServerInv, AnyScte
      <3>2. ~PendingCall(n)'
        <4>1. SUFFICES ASSUME NEW y \in Executors, Pending(y)' PROVE FALSE
          BY DEF PendingCall
        <4>2. Pending(y) /\ y # x
          BY <1>4, <4>1
        <4>3. exe[y].scall = scte.scall /\ exe[x].scall = scte.scall /\ Live(y)
          BY <1>1, <4>2, PendingHighest
        <4>4. QED
          BY <1>1, <4>2, <4>3, PendingHighest
      <3>3. QED
        BY <3>1, <3>2 DEF Remembered
    <2>5. Made(n)' /\ (Calling(n)' => ccall'.boot # 0)
      BY <1>2, <2>1 DEF Counts, RunsOnce, Made, Calling, InTable
    <2>6. ~Denies(n)' \/ sboot # 1
      BY <1>2, <2>1 DEF Denies, Calling, InTable, Counts, DeniesTruly, Remembered
    <2>7. QED
      BY <1>2, <2>1, <2>3, <2>4, <2>5, <2>6 DEF Counts, RunsOnce, DeniesTruly
  <1>8. QED
    BY <1>6, <1>7

\* Another packet of the call in progress: that the handle knows the boot time was in it.
LEMMA RequestCurrentCounts ==
  ASSUME BasicInv, Orderly, NEW k, NEW p \in net, RequestCurrent(p), UNCHANGED clientVars,
         NEW n \in Seqs, Counts(k, n)
  PROVE  Counts(k, n)'
  <1>1. /\ UNCHANGED <<net, sboot, scte, exe, execs, ccall, outcome>>
        /\ \A t \in Scalls : /\ scall'[t].state = scall[t].state /\ scall'[t].seq = scall[t].seq
                             /\ scall'[t].needs = IF t = scte.scall THEN p.boot = 0
                                                                    ELSE scall[t].needs
    BY RequestCurrentGood DEF RequestCurrent, clientVars, BasicInv, TypeInv
  <1>2. /\ p.type = "request" /\ p.boot \in {0, sboot}
        /\ scte.scall \in Scalls /\ scall[scte.scall].seq = p.seq
    BY Decision DEF RequestCurrent, BasicInv, TypeInv
  <1>3. \A y \in Executors : Pending(y)' => Pending(y) /\ Handle(y)'.seq = Handle(y).seq
                                            /\ exe[y].scall \in Scalls
    BY <1>1 DEF Pending, Handle, BasicInv, TypeInv, ServerInv, GoodExecutor
  <1>4. ASSUME NEW y \in Executors, Pending(y)', Handle(y).seq = n, Cleared(y)'
        PROVE  Vouched(n)
    <2>1. CASE exe[y].pc = "relock" /\ exe[y].st = "ok"
      BY <1>3, <1>4, <2>1 DEF Vouched, Cleared
    <2>2. CASE ~Handle(y)'.needs
      <3>1. scte.scall = exe[y].scall
        BY <1>3, <1>4, PendingHighest
      <3>2. p.boot = sboot /\ p.seq = n
        BY <1>1, <1>2, <1>4, <2>2, <3>1 DEF Handle
      <3>3. QED
        BY <1>2, <3>2 DEF Vouched, Requested
    <2>3. QED
      BY <1>1, <1>4, <2>1, <2>2 DEF Cleared
  <1>5. QuietServer(n)
    BY <1>1, <1>3, <1>4 DEF QuietServer, Known
  <1>6. Quieter(n) /\ MadeStays /\ (Denies(n)' => Denies(n))
    BY <1>1, <1>5, QuietServerQuieter DEF MadeStays, Denies, Calling, InTable
  <1>7. QED
    BY <1>6, QuieterCounts DEF Counts

\* A new call: the entry does not remember that it has run it.
LEMMA NewCallCounts ==
  ASSUME BasicInv, Orderly, NEW k, NamesInv(k), NEW p \in net,
         RequestNew(p) \/ RequestNoThread(p), UNCHANGED clientVars,
         NEW n \in Seqs, Counts(k, n)
  PROVE  Counts(k, n)'
  <1>1. PICK s \in Scalls : NewCallShape(p, s)
    BY NewCallShaped
  <1>2. /\ UNCHANGED <<net, sboot, execs, ccall, outcome>>
        /\ \A t \in Scalls \ {s} : scall'[t] = scall[t]
        /\ scall'[s].seq = p.seq /\ scall'[s].needs = (p.boot = 0)
        /\ scte'.present /\ scte'.high \in {p.seq, p.seq - 1}
    BY <1>1 DEF NewCallShape, clientVars
  <1>3. Decide(p, "new_call") /\ CanAllocate(SctGet(p.seq))
    BY DEF RequestNew, RequestNoThread
  <1>4. /\ p.type = "request" /\ p.boot \in {0, sboot} /\ p.boot \in Boots /\ p.kind = k[p.seq]
        /\ p.seq \in Seqs /\ p.seq \in Nat /\ n \in Nat
        /\ scte.present => scte.high < p.seq \/ (scte.high = p.seq /\ p.kind = "idem")
        /\ scte.high \in Nat
    BY <1>3, Decision, SizeAssumption
    DEF NamesInv, PacketNames, BasicInv, TypeInv, ServerInv, AnyScte, Boots, Seqs
  <1>5. LiveExecutors(exe, s) = {}
    BY <1>1, <1>3, FreshHandle DEF NewCallShape, Orderly
  <1>6. ASSUME NEW y \in Executors, Pending(y)'
        PROVE  \/ /\ exe'[y] = exe[y] /\ Pending(y) /\ Handle(y)' = Handle(y)
               \/ /\ exe'[y].pc = "start" /\ Handle(y)'.seq = p.seq
                  /\ Handle(y)'.needs = (p.boot = 0) /\ RequestNew(p)
    <2>1. CASE exe'[y] = exe[y]
      <3>1. exe[y].pc # "none" /\ exe[y].scall \in Scalls
        BY <1>6, <2>1 DEF Pending, BasicInv, TypeInv, ServerInv, GoodExecutor
      <3>2. exe[y].scall # s
        BY <1>5, <3>1 DEF LiveExecutors
      <3>3. QED
        BY <1>2, <1>6, <2>1, <3>1, <3>2 DEF Pending, Handle
    <2>2. CASE exe'[y] # exe[y]
      <3>1. exe'[y].pc = "start" /\ exe'[y].scall = s /\ RequestNew(p)
        BY <1>1, <2>2 DEF NewCallShape
      <3>2. QED
        BY <1>2, <3>1 DEF Handle
    <2>3. QED
      BY <2>1, <2>2
  <1>7. \A y \in Executors : exe'[y].ans = exe[y].ans \/ exe'[y].ans = {}
    BY <1>1 DEF NewCallShape
  <1>8. Vouched(n)' => Vouched(n)
    <2>1. CASE Requested(n, {sboot})'
      BY <1>2, <2>1 DEF Vouched, Requested
    <2>2. CASE \E y \in Executors : n \in exe'[y].ans
      BY <1>7, <2>2 DEF Vouched
    <2>3. CASE \E y \in Executors : (Pending(y) /\ Handle(y).seq = n /\ Cleared(y))'
      <3>1. PICK y \in Executors : (Pending(y) /\ Handle(y).seq = n /\ Cleared(y))'
        BY <2>3
      <3>2. CASE exe'[y] = exe[y] /\ Pending(y) /\ Handle(y)' = Handle(y)
        BY <3>1, <3>2 DEF Vouched, Cleared
      <3>3. CASE exe'[y].pc = "start" /\ Handle(y)'.seq = p.seq /\ Handle(y)'.needs = (p.boot = 0)
        <4>1. p.boot = sboot /\ p.seq = n
          BY <1>4, <3>1, <3>3 DEF Cleared
        <4>2. QED
          BY <1>4, <4>1 DEF Vouched, Requested
      <3>4. QED
        BY <1>6, <3>1, <3>2, <3>3
    <2>4. QED
      BY <2>1, <2>2, <2>3 DEF Vouched
  <1>9. /\ Calling(n)' = Calling(n) /\ MayVouch(n)' = MayVouch(n) /\ Denies(n)' = Denies(n)
        /\ Requested(n, Boots)' = Requested(n, Boots)
    BY <1>2 DEF Calling, InTable, MayVouch, Denies, Requested
  <1>10. CASE n # p.seq
    <2>1. PendingCall(n)' => PendingCall(n)
      BY <1>6, <1>10 DEF PendingCall
    <2>2. Known(n) => Known(n)'
      BY <1>2, <1>4, <1>10 DEF Known
    <2>3. Quieter(n)
      BY <1>2, <1>8, <1>9, <2>1, <2>2 DEF Quieter, Asked
    <2>4. QED
      BY <1>2, <1>9, <2>3, QuieterCounts DEF Counts, MadeStays
  <1>11. CASE n = p.seq
    <2>1. k[n] # "idem" => ~Known(n)
      BY <1>4, <1>11 DEF Known
    <2>2. Requested(n, Boots)
      BY <1>4, <1>11 DEF Requested
    <2>3. /\ k[n] # "idem" /\ execs[n] > 0 => ~Vouched(n) /\ ~MayVouch(n) /\ sboot # 1
          /\ sboot = 1 => ~Denies(n)
      BY <2>1, <2>2 DEF Counts, RunsOnce, DeniesTruly, Asked, Remembered
    <2>4. Made(n)' = Made(n)
      BY <1>2 DEF Made
    <2>5. RunsOnce(k, n)'
      BY <1>2, <1>8, <1>9, <2>3, <2>4 DEF Counts, RunsOnce
    <2>6. sboot' = 1 => DeniesTruly(k, n)'
      BY <1>2, <1>9, <2>3 DEF DeniesTruly
    <2>7. QED
      BY <2>5, <2>6 DEF Counts
  <1>12. QED
    BY <1>10, <1>11

\* While the entry has no handle, nobody has a call to decide on.
LEMMA NobodyPending ==
  ASSUME BasicInv, scte.scall = 0, NEW x \in Executors
  PROVE  ~Pending(x)
  <1>1. SUFFICES ASSUME Pending(x) PROVE FALSE
    OBVIOUS
  <1>2. exe[x].scall \in Scalls /\ scall[exe[x].scall].state = "recv"
    BY <1>1 DEF Pending, Handle, BasicInv, TypeInv, ServerInv, GoodExecutor
  <1>3. scte.scall = exe[x].scall
    BY <1>2 DEF BasicInv, FollowInv, HandlesFollowExecutors
  <1>4. QED
    BY <1>2, <1>3, SlotAssumption

\* A new instance of the server has not been spoken to, and one that has forgotten
\* the activity finds nobody in a call.
LEMMA CrashCounts ==
  ASSUME BasicInv, NEW k, NamesInv(k), Crash \/ ForgetActivity, UNCHANGED clientVars,
         NEW n \in Seqs, Counts(k, n)
  PROVE  Counts(k, n)'
  <1>1. UNCHANGED <<execs, ccall, outcome>> /\ sboot \in Nat /\ sboot # 0
    BY SizeAssumption DEF Crash, ForgetActivity, SctTimer, clientVars, BasicInv, TypeInv, ServerInv, Boots
  <1>2. /\ Calling(n)' = Calling(n) /\ Made(n)' = Made(n)
    BY <1>1 DEF Calling, InTable, Made
  <1>3. ~Vouched(n)'
    <2>1. ~Requested(n, {sboot})'
      <3>1. CASE Crash
        <4>1. sboot' = sboot + 1 /\ net' = net /\ \A q \in net : q.boot <= sboot
          BY <3>1 DEF Crash, NamesInv, PacketNames
        <4>2. \A q \in net : q.boot # sboot + 1
          BY <1>1, <4>1
        <4>3. QED
          BY <4>1, <4>2 DEF Requested
      <3>2. CASE ForgetActivity
        BY <3>2 DEF ForgetActivity, Requested
      <3>3. QED
        BY <3>1, <3>2
    <2>2. \A x \in Executors : exe'[x].ans = {} /\ ~Pending(x)'
      <3>1. CASE Crash
        BY <3>1, Idle DEF Crash, Pending
      <3>2. CASE ForgetActivity
        <4>1. UNCHANGED <<exe, scall>> /\ scte.scall = 0 /\ \A x \in Executors : exe[x].pc # "way"
          BY <3>2 DEF ForgetActivity, SctTimer
        <4>2. \A x \in Executors : exe[x].ans = {}
          BY <4>1 DEF NamesInv, ServerKinds
        <4>3. \A x \in Executors : ~Pending(x)
          BY <4>1, NobodyPending
        <4>4. QED
          BY <4>1, <4>2, <4>3 DEF Pending, Handle
      <3>3. QED
        BY <3>1, <3>2
    <2>3. QED
      BY <2>1, <2>2 DEF Vouched
  <1>4. k[n] # "idem" /\ execs[n] > 0 => ~MayVouch(n)' /\ (Calling(n) => ccall.boot # 0)
    <2>1. k[n] # "idem" /\ execs[n] > 0 => (Calling(n) => ccall.boot # 0)
      BY DEF Counts, RunsOnce
    <2>2. CASE Crash
      <3>1. sboot' = sboot + 1 /\ ccall.boot <= sboot
        BY <2>2 DEF Crash, NamesInv, CallNames
      <3>2. ccall.boot # sboot'
        BY <1>1, <3>1
      <3>3. QED
        BY <1>1, <1>2, <2>1, <3>2 DEF MayVouch
    <2>3. CASE ForgetActivity
      BY <1>2, <2>1, <2>3 DEF ForgetActivity, MayVouch, Calling
    <2>4. QED
      BY <2>2, <2>3
  <1>5. RunsOnce(k, n)'
    BY <1>1, <1>2, <1>3, <1>4 DEF Counts, RunsOnce
  <1>6. sboot' = 1 => DeniesTruly(k, n)'
    <2>1. CASE Crash
      BY <1>1, <2>1 DEF Crash
    <2>2. CASE ForgetActivity
      <3>1. net' = {} /\ ~Calling(n)' /\ UNCHANGED <<exe, scall>> /\ scte.scall = 0
        BY <1>2, <2>2 DEF ForgetActivity, SctTimer, Calling
      <3>2. ~Requested(n, Boots)' /\ ~Denies(n)'
        BY <3>1 DEF Requested, Denies
      <3>3. ~PendingCall(n)'
        BY <3>1, NobodyPending DEF PendingCall, Pending, Handle
      <3>4. QED
        BY <3>1, <3>2, <3>3 DEF DeniesTruly, Asked
    <2>3. QED
      BY <2>1, <2>2
  <1>7. QED
    BY <1>5, <1>6 DEF Counts

\* The client says no more of its call than before, or asks for it again.
QuietClient ==
  /\ UNCHANGED serverVars
  /\ \A q \in net' : \/ q \in net \/ q.type \notin {"request", "reject"}
                     \/ /\ InTable /\ q.type = "request" /\ q.seq = ccall.seq
                        /\ q.boot = ccall.boot /\ ccall'.boot = ccall.boot
  /\ InTable' => /\ InTable /\ ccall'.seq = ccall.seq
                 /\ ccall.boot # 0 => ccall'.boot = ccall.boot
                 /\ ccall'.reject # ccall.reject => \E p \in net : p.type = "reject" /\
                                                 p.seq = ccall.seq /\ p.body = ccall'.reject
\* Then the call is still run once, and denied truly.
LEMMA QuietClientCounts ==
  ASSUME BasicInv, QuietClient, MadeStays, NEW k, NEW n \in Seqs, Counts(k, n)
  PROVE  Counts(k, n)'
  <1>1. UNCHANGED <<sboot, scte, scall, exe, execs>> /\ sboot # 0
    BY DEF QuietClient, serverVars, BasicInv, TypeInv, ServerInv
  <1>2. Calling(n)' => Calling(n) /\ (ccall.boot # 0 => ccall'.boot = ccall.boot)
    BY DEF QuietClient, Calling
  <1>3. MayVouch(n)' => MayVouch(n)
    BY <1>1, <1>2 DEF MayVouch
  <1>4. PendingCall(n)' = PendingCall(n) /\ Known(n)' = Known(n)
    BY <1>1 DEF PendingCall, Pending, Handle, Known
  <1>5. Vouched(n)' => Vouched(n) \/ (MayVouch(n) /\ (Calling(n)' => ccall'.boot # 0))
    <2>1. CASE Requested(n, {sboot})'
      <3>1. PICK q \in net' : q.type = "request" /\ q.seq = n /\ q.boot = sboot
        BY <1>1, <2>1 DEF Requested
      <3>2. CASE q \in net
        BY <3>1, <3>2 DEF Vouched, Requested
      <3>3. CASE q \notin net
        <4>1. InTable /\ ccall.seq = n /\ ccall.boot = sboot /\ ccall'.boot = sboot
          BY <3>1, <3>3 DEF QuietClient
        <4>2. QED
          BY <1>1, <4>1 DEF MayVouch, Calling
      <3>4. QED
        BY <3>2, <3>3
    <2>2. CASE ~Requested(n, {sboot})'
      BY <1>1, <2>2 DEF Vouched, Pending, Handle, Cleared
    <2>3. QED
      BY <2>1, <2>2
  <1>6. Asked(n)' => Asked(n)
    <2>1. Requested(n, Boots)' => Requested(n, Boots) \/ Calling(n)
      BY DEF Requested, QuietClient, Calling
    <2>2. QED
      BY <1>2, <1>4, <2>1 DEF Asked
  <1>7. Quieter(n)
    BY <1>1, <1>2, <1>3, <1>4, <1>5, <1>6 DEF Quieter
  <1>8. Denies(n)' => Denies(n)
    <2>1. CASE \E q \in net' : q.type = "reject" /\ q.seq = n /\ q.body = "who_are_you_failed"
      BY <2>1 DEF QuietClient, Denies
    <2>2. CASE Calling(n)' /\ ccall'.reject = "who_are_you_failed"
      BY <2>2 DEF QuietClient, Denies, Calling
    <2>3. QED
      BY <1>1, <2>1, <2>2 DEF Denies
  <1>9. QED
    BY <1>7, <1>8, QuieterCounts DEF Counts

\* The client's steps are of that kind, the start of a call apart.
LEMMA ClientQuiet ==
  ASSUME BasicInv, UNCHANGED serverVars,
         \/ ClientReceives \/ QuietStep
         \/ \E result \in {"ok", "failed", "denied"} : EndCall(result)
         \/ \E boot \in Boots : LateWhoAreYou(boot)
  PROVE  QuietClient /\ MadeStays
  <1> USE DEF BasicInv, TypeInv
  <1>1. CASE ClientReceives
    <2>1. MadeStays
      BY <1>1, ClientReceivesGood DEF ClientKept
    <2>2. CASE \E p \in net : ReplyStep(p)
      BY <2>1, <2>2 DEF ReplyStep, SameCall, QuietClient, InTable
    <2>3. CASE /\ UNCHANGED clientVars
               /\ \E p \in net : net' = net \cup {Packet("ack", p.seq, p.boot)}
      BY <2>1, <2>3, NotResponses DEF clientVars, QuietClient, InTable
    <2>4. CASE /\ SameCall /\ ccall'.boot = ccall.boot /\ ccall'.reject = ccall.reject /\ InTable
               /\ net' \subseteq net \cup {Request(ccall.seq, ccall.boot, ccall.kind)}
      BY <2>1, <2>4, NotResponses DEF SameCall, QuietClient, InTable
    <2>5. QED
      BY <1>1, <2>2, <2>3, <2>4, ClientReceivesGood
  <1>2. CASE QuietStep
    <2>1. /\ MadeStays
          /\ \A q \in net' : q \in net \/ q = Packet("ack", ccall.seq, ccall.boot)
          /\ \/ SameCall /\ ccall'.boot = ccall.boot /\ ccall'.reject = ccall.reject
             \/ ccall' \in {NoCcall, IdleCcall}
      BY <1>2, QuietStepGood DEF ClientKept
    <2>2. \A q \in net' : q \in net \/ q.type = "ack"
      BY <2>1, NotResponses
    <2>3. QED
      BY <2>1, <2>2, IdleCcallGood DEF SameCall, QuietClient, InTable
  <1>3. CASE \E result \in {"ok", "failed", "denied"} : EndCall(result)
    <2>1. /\ MadeStays /\ ccall.state = "recv" /\ ccall'.boot = ccall.boot
          /\ \A q \in net' : q \in net \/ q = Packet("quit", ccall.seq, ccall.boot)
          /\ InTable' => ccall'.seq = ccall.seq /\ ccall'.reject = ccall.reject
      BY <1>3, EndCallGood DEF ClientKept
    <2>2. \A q \in net' : q \in net \/ q.type = "quit"
      BY <2>1, NotResponses
    <2>3. QED
      BY <2>1, <2>2 DEF QuietClient, InTable
  <1>4. CASE \E boot \in Boots : LateWhoAreYou(boot)
    <2>1. PICK boot \in Boots : LateWhoAreYou(boot)
      BY <1>4
    <2>2. /\ SameCall /\ ccall'.reject = ccall.reject /\ UNCHANGED net
          /\ (ccall.boot # 0 => ccall' = ccall) /\ MadeStays
      BY <2>1, WayStashGood DEF LateWhoAreYou
    <2>3. QED
      BY <2>2 DEF SameCall, QuietClient, InTable
  <1>5. QED
    BY <1>1, <1>2, <1>3, <1>4

\* A new call: nobody has heard of it, and its request says all that the client knows.
LEMMA StartCounts ==
  ASSUME BasicInv, NEW k, NEW kind \in Kinds, StartCall(kind), UNCHANGED serverVars,
         NEW j, Starts(k, j, kind), NEW n \in Seqs, Counts(k, n)
  PROVE  Counts(j, n)'
  <1> USE DEF BasicInv, TypeInv
  <1>1. /\ UNCHANGED <<sboot, scte, scall, exe, execs>> /\ sboot # 0 /\ execs[n] \in Nat
    BY DEF serverVars, ServerInv
  <1>2. /\ NextSeq \in Seqs /\ net' = net \cup {Request(NextSeq, InitialBoot, kind)}
        /\ outcome' = [outcome EXCEPT ![NextSeq] = "pending"]
        /\ ccall'.seq = NextSeq /\ ccall'.boot = InitialBoot /\ ccall'.reject = "none"
        /\ MadeStays
    BY StartCallGood DEF StartCall, ClientKept
  <1>3. n = NextSeq => ~Made(n) /\ Made(n)'
    <2>1. NextSeq \in Nat /\ (n = NextSeq => ~Made(n))
      BY <1>2, NextSeqNew DEF Seqs
    <2>2. n = NextSeq => outcome'[n] = "pending"
      BY <1>2 DEF ClientInv
    <2>3. QED
      BY <2>1, <2>2 DEF Made
  <1>4. PendingCall(n)' = PendingCall(n) /\ Known(n)' = Known(n)
    BY <1>1 DEF PendingCall, Pending, Handle, Known
  <1>5. CASE n # NextSeq
    <2>1. ~Calling(n)'
      BY <1>2, <1>5 DEF Calling
    <2>2. \A B : Requested(n, B)' => Requested(n, B)
      BY <1>2, <1>5, NotResponses DEF Requested
    <2>3. Vouched(n)' => Vouched(n)
      BY <1>1, <2>2 DEF Vouched, Pending, Handle, Cleared
    <2>4. Quieter(n)
      BY <1>1, <1>4, <2>1, <2>2, <2>3 DEF Quieter, Asked, MayVouch
    <2>5. Denies(n)' => Denies(n)
      BY <1>2, <2>1, NotResponses DEF Denies
    <2>6. Counts(k, n)'
      BY <1>2, <2>4, <2>5, QuieterCounts DEF Counts
    <2>7. j[n] = k[n]
      BY <1>5 DEF Starts
    <2>8. QED
      BY <2>6, <2>7 DEF Counts, RunsOnce, DeniesTruly
  <1>6. CASE n = NextSeq
    <2>1. ~Vouched(n) /\ execs[n] = 0
      BY <1>1, <1>3, <1>6 DEF Counts, RunsOnce
    <2>2. Vouched(n)' => ccall'.boot # 0
      <3>1. CASE Requested(n, {sboot})'
        <4>1. Requested(n, {sboot}) \/ InitialBoot = sboot
          BY <1>1, <1>2, <3>1, NotResponses DEF Requested
        <4>2. QED
          BY <1>1, <1>2, <2>1, <4>1 DEF Vouched
      <3>2. CASE ~Requested(n, {sboot})'
        BY <1>1, <2>1, <3>2 DEF Vouched, Pending, Handle, Cleared
      <3>3. QED
        BY <3>1, <3>2
    <2>3. ~Denies(n)'
      <3>1. \A q \in net : q.seq # n
        BY <1>3, <1>6 DEF NetInv, GoodPacket
      <3>2. QED
        BY <1>2, <3>1, NotResponses DEF Denies
    <2>4. QED
      BY <1>1, <1>3, <1>6, <2>1, <2>2, <2>3 DEF Counts, RunsOnce, DeniesTruly
  <1>7. QED
    BY <1>5, <1>6

\* The counts are kept as long as no callback is overtaken, unless a call is started.
LEMMA CountNext ==
  ASSUME BasicInv, Orderly, [Next]_vars, ~overtaken', NEW k, NamesInv(k), CountInv(k)
  PROVE  CountInv(k)' \/ ((\E kind \in Kinds : StartCall(kind)) /\ UNCHANGED serverVars)
  <1>1. \A n \in Seqs : Counts(k, n)
    BY DEF CountInv
  <1>2. CASE ServerEnds /\ UNCHANGED clientVars
    BY <1>1, <1>2, ServerEndsCounts DEF CountInv
  <1>3. CASE BeginningSome /\ UNCHANGED clientVars
    BY <1>1, <1>3, RequestCurrentCounts, NewCallCounts DEF BeginningSome, CountInv
  <1>4. CASE (Crash \/ ForgetActivity) /\ UNCHANGED clientVars
    BY <1>1, <1>4, CrashCounts DEF CountInv
  <1>5. CASE (\E x \in Executors : CarryingOn(x)) /\ UNCHANGED clientVars
    BY <1>1, <1>5, CarryingOnCounts, StubCounts DEF CarryingOn, CountInv
  <1>6. CASE \E x \in Executors : WhoAreYou(x)
    BY <1>1, <1>6, WhoAreYouCounts DEF CountInv
  <1>7. CASE /\ UNCHANGED serverVars
             /\ \/ ClientReceives \/ QuietStep
                \/ \E result \in {"ok", "failed", "denied"} : EndCall(result)
                \/ \E boot \in Boots : LateWhoAreYou(boot)
    BY <1>1, <1>7, ClientQuiet, QuietClientCounts DEF CountInv
  <1>8. CASE UNCHANGED vars
    <2>1. QuietClient /\ MadeStays
      BY <1>8 DEF vars, clientVars, QuietClient, MadeStays, InTable
    <2>2. QED
      BY <1>1, <2>1, QuietClientCounts DEF CountInv
  <1>9. (\E boot \in Boots : LateWhoAreYou(boot)) => UNCHANGED serverVars
    BY DEF LateWhoAreYou
  <1>10. QED
    BY <1>2, <1>3, <1>4, <1>5, <1>6, <1>7, <1>8, <1>9, StepKinds DEF ClientStep, QuietStep

\* Together: some assignment of kinds to the calls fits all that was said and done.
SomeOnceInv == \E k \in [Seqs -> AllKinds] : OnceInv(k)
\* The assignment is kept, and extended when a call starts.
LEMMA OnceNext ==
  ASSUME BasicInv, HandleInv, SomeOnceInv, [Next]_vars
  PROVE  SomeOnceInv'
  <1>1. PICK k \in [Seqs -> AllKinds] : OnceInv(k)
    BY DEF SomeOnceInv
  <1>2. NamesInv(k) /\ (~overtaken' => Orderly /\ CountInv(k))
    BY <1>1, OvertakenStays, Zenon DEF OnceInv, HandleInv
  <1>3. CASE (\E kind \in Kinds : StartCall(kind)) /\ UNCHANGED serverVars
    <2>1. PICK kind \in Kinds : StartCall(kind)
      BY <1>3
    <2>2. PICK n : n = NextSeq
      OBVIOUS
    <2>3. PICK j : j = [k EXCEPT ![n] = kind]
      OBVIOUS
    <2>4. j \in [Seqs -> AllKinds] /\ Starts(k, j, kind)
      BY <1>1, <2>1, <2>2, <2>3, KindAssumption DEF AllKinds, Starts, StartCall
    <2>5. NamesInv(j)'
      BY <1>2, <1>3, <2>1, <2>4, StartNames
    <2>6. ~overtaken' => CountInv(j)'
      <3>1. SUFFICES ASSUME ~overtaken' PROVE CountInv(j)'
        OBVIOUS
      <3>2. CountInv(k)
        BY <1>2, <3>1, Zenon
      <3>3. QED
        BY <1>3, <2>1, <2>4, <3>2, StartCounts DEF CountInv
    <2>7. OnceInv(j)'
      BY <2>5, <2>6, Zenon DEF OnceInv
    <2>8. QED
      BY <2>4, <2>7 DEF SomeOnceInv
  <1>4. CASE ~((\E kind \in Kinds : StartCall(kind)) /\ UNCHANGED serverVars)
    <2>1. NamesInv(k)'
      BY <1>2, <1>4, NamesNext
    <2>2. ~overtaken' => CountInv(k)'
      <3>1. SUFFICES ASSUME ~overtaken' PROVE CountInv(k)'
        OBVIOUS
      <3>2. Orderly /\ CountInv(k)
        BY <1>2, <3>1, Zenon
      <3>3. QED
        BY <1>2, <1>4, <3>1, <3>2, CountNext
    <2>3. OnceInv(k)'
      BY <2>1, <2>2, Zenon DEF OnceInv
    <2>4. QED
      BY <1>1, <2>3 DEF SomeOnceInv
  <1>5. QED
    BY <1>3, <1>4

\* It holds to begin with: nothing has been said or done.
LEMMA OnceInit == Init => SomeOnceInv
  <1> SUFFICES ASSUME Init PROVE SomeOnceInv
    OBVIOUS
  <1> DEFINE k == [n \in Seqs |-> "idem"]
  <1>1. k \in [Seqs -> AllKinds]
    BY DEF AllKinds
  <1>2. /\ net = {} /\ ways = {} /\ ~InTable /\ ccall.boot = 0 /\ hboot = 0 /\ sboot = 1
        /\ \A s \in Scalls : scall[s].state = "free"
        /\ \A x \in Executors : exe[x].pc = "none" /\ exe[x].ans = {}
        /\ \A n \in Seqs : execs[n] = 0
    BY Idle DEF Init, ServerInit, ClientInit, NoCcall, InTable
  <1>3. NamesInv(k)
    BY <1>2 DEF NamesInv, CallNames, ServerKinds
  <1>4. ASSUME NEW n \in Seqs
        PROVE  Counts(k, n)
    BY <1>2 DEF Counts, RunsOnce, DeniesTruly, Vouched, Requested, Pending, Calling, Denies
  <1>5. OnceInv(k)
    BY <1>3, <1>4, Zenon DEF OnceInv, CountInv
  <1>6. QED
    BY <1>1, <1>5 DEF SomeOnceInv

\* So the three invariants hold always.
LEMMA OnceAlways == Spec => [](BasicInv /\ HandleInv /\ SomeOnceInv)
  <1>1. Init => BasicInv /\ HandleInv /\ SomeOnceInv
    BY BasicInit, HandleInit, OnceInit
  <1>2. BasicInv /\ HandleInv /\ SomeOnceInv /\ [Next]_vars
          => BasicInv' /\ HandleInv' /\ SomeOnceInv'
    BY BasicNext, HandleNext, OnceNext
  <1>3. QED
    BY <1>1, <1>2, PTL DEF Spec

-----------------------------------------------------------------------------
(* What the application can rely on *)

\* Whatever the network loses, repeats and reorders and however often the server
\* restarts, the manager of a non-idempotent call starts at most once, unless a newer
\* call overtook a who-are-you callback.
THEOREM RunsAtMostOnce == Spec => []OnceUnlessOvertaken
  <1>1. SomeOnceInv => OnceUnlessOvertaken
    <2>1. SUFFICES ASSUME SomeOnceInv, ~overtaken PROVE AtMostOnce
      BY Zenon DEF OnceUnlessOvertaken
    <2>2. PICK k \in [Seqs -> AllKinds] : CountInv(k)
      BY <2>1, Zenon DEF SomeOnceInv, OnceInv
    <2>3. QED
      BY <2>2 DEF CountInv, Counts, RunsOnce, AtMostOnce
  <1>2. QED
    BY <1>1, OnceAlways, PTL

\* When rpc__dg_call_did_mgr_execute says that a failed call did not run, it has not,
\* unless the server was restarted or a newer call overtook a who-are-you callback.
THEOREM DenialsAreTrue == Spec => DenialTrueUnlessRestarted
  <1>1. ASSUME BasicInv, SomeOnceInv, [Next]_vars, DeniedButRan, ~overtaken
        PROVE  sboot > 1
    <2>1. SUFFICES ASSUME ~(sboot > 1) PROVE FALSE
      OBVIOUS
    <2>2. sboot = 1
      BY <1>1, <2>1, BootGrows DEF BasicInv, TypeInv, ServerInv
    <2>3. PICK k \in [Seqs -> AllKinds] : NamesInv(k) /\ CountInv(k)
      BY <1>1, Zenon DEF SomeOnceInv, OnceInv
    <2>4. PICK n \in Seqs : outcome'[n] = "denied" /\ outcome[n] # "denied" /\ execs[n] > 0
      BY <1>1 DEF DeniedButRan
    <2>5. n = ccall.seq /\ ccall.state = "recv" /\ ccall.status # "ok" /\ ~DidMgrExecute
      <3>1. PICK result \in {"ok", "failed", "denied"} : EndCall(result)
        <4>1. outcome' # outcome
          BY <2>4
        <4>2. (\E x \in Executors : WhoAreYou(x)) => UNCHANGED outcome
          BY DEF WhoAreYou
        <4>3. (\E boot \in Boots : LateWhoAreYou(boot)) => UNCHANGED outcome
          BY DEF LateWhoAreYou
        <4>4. ClientReceives => UNCHANGED outcome
          BY <1>1, ClientReceivesGood DEF BasicInv, TypeInv
        <4>5. QuietStep => UNCHANGED outcome
          BY <1>1, QuietStepGood DEF BasicInv, TypeInv
        <4>6. ~\E kind \in Kinds : StartCall(kind)
          BY <1>1, <2>4 DEF StartCall, BasicInv, TypeInv, ClientInv
        <4>7. QED
          BY <1>1, <4>1, <4>2, <4>3, <4>4, <4>5, <4>6, StepKinds
          DEF clientVars, vars, ClientStep, QuietStep
      <3>2. n = ccall.seq /\ result = "denied"
        BY <1>1, <2>4, <3>1 DEF EndCall, BasicInv, TypeInv, ClientInv
      <3>3. QED
        BY <3>1, <3>2 DEF EndCall, Outcomes
    <2>6. Calling(n)
      BY <2>5 DEF Calling, InTable
    <2>7. ccall.kind = k[n] /\ TrueReject(k, n, ccall.reject)
      BY <2>3, <2>5, <2>6 DEF NamesInv, CallNames, Calling
    <2>8. /\ k[n] = "unknown" => execs[n] = 0
          /\ k[n] # "idem" /\ execs[n] > 0 => ccall.boot # 0
          /\ ccall.reject = "who_are_you_failed" => execs[n] = 0
      BY <2>2, <2>3, <2>6 DEF CountInv, Counts, RunsOnce, DeniesTruly, Denies
    <2>9. execs[n] # 0
      BY <2>4
    <2>10. QED
      BY <2>2, <2>4, <2>5, <2>7, <2>8, <2>9 DEF DidMgrExecute, TrueReject
  <1>2. BasicInv /\ SomeOnceInv /\ [Next]_vars => [DeniedButRan => overtaken \/ sboot > 1]_vars
    BY <1>1, Zenon
  <1>3. QED
    BY <1>2, OnceAlways, PTL DEF Spec, DenialTrueUnlessRestarted
=============================================================================
