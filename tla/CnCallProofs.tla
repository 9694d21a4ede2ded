----------------------------- MODULE CnCallProofs -----------------------------
(***************************************************************************)
(* What holds of the calls over one association for every number of calls, *)
(* of fragments and of cancels.                                            *)
(***************************************************************************)
EXTENDS CnCall, FiniteSetTheorems, TLAPS

-----------------------------------------------------------------------------
(* Types *)

Packets ==
  [type : {"request", "alert", "orphaned", "response", "fault", "dummy"},
   call : Nat, n : Nat, last : BOOLEAN, alert : BOOLEAN, alerts : Nat]

ClientReps ==
  [pc : {"idle", "stub", "send", "sent", "sleep"}, call : Nat, st : ClientCallStates,
   status : {"ok", "cancel_timeout"}, err : {"ok", "fault", "closed", "cancel_timeout"},
   sending : Packets, failed : BOOLEAN, then : {"stub", "recv", "end"}, nsent : Nat,
   phase : {"in", "out"}, got : Seq(Nat \X Nat), gotlast : BOOLEAN,
   assoc : {"OPEN", "ACTIVE", "CALL_DONE_WAIT", "CLOSED"}, astat : {"ok", "closed"},
   link : Nat, msgs : Seq(Packets), rcvr : BOOLEAN, ovf : Nat,
   fatal : {"none", "local_alert", "recv", "fault"}]

Cancels ==
  [pending : BOOLEAN, posted : Nat, accepting : BOOLEAN, count : Nat, local : Nat,
   hadPending : BOOLEAN, running : BOOLEAN, timer : BOOLEAN, proc : Nat,
   caught : BOOLEAN, dropped : BOOLEAN, crossed : BOOLEAN, timedOut : BOOLEAN]

Outcomes == {"none", "ok", "fault", "error", "abandoned"}

Assocs ==
  [assoc : {"OPEN", "CLOSED"}, astat : {"ok", "closed"}, link : Calls \cup {0}, ref : Int,
   msgs : Seq(Packets), sendmsg : BOOLEAN, rcvr : {"recv", "busy", "done"}, ovf : Nat,
   fatal : {"none", "null_assoc", "null_call_rep", "send", "fault", "fault_dne", "recv",
            "remote_alert", "orphaned"},
   victim : Nat, overlap : BOOLEAN]

ServerReps ==
  [pc : {"none", "queued", "ready", "wait", "recvd", "mgr", "caf", "rejecting", "ending",
         "send", "sent", "freed"},
   st : ServerCallStates, status : {"ok", "orphaned", "rejected"}, assoc : BOOLEAN,
   gotlast : BOOLEAN, executed : BOOLEAN, nsent : Nat, sending : Packets,
   failed : BOOLEAN, then : {"mgr", "ending", "freed"}, looks : Nat, woken : BOOLEAN,
   mine : BOOLEAN, accepting : BOOLEAN, queuing : BOOLEAN, count : Nat,
   hadPending : BOOLEAN, alerts : Nat, cancelled : BOOLEAN, acted : BOOLEAN,
   late : BOOLEAN, unsaid : BOOLEAN]

\* The first fragment of a request
Begins(p) == p.type = "request" /\ p.n = 1

\* A packet that is being sent is the call's.  A remote alert is sent for a cancel
\* that was caught and is still counted.
Sendable(c, k) ==
  /\ c.sending.call = c.call /\ c.sending.type \in {"request", "alert", "orphaned"}
  /\ c.sending.type = "alert" => k.local > 0
  /\ Begins(c.sending) => c.nsent # 0

ClientTypes ==
  /\ cl \in ClientReps /\ canc \in Cancels /\ result \in [Calls -> Outcomes]
  /\ cl.call <= NCalls /\ cl.link \in {0, cl.call}
  /\ InCall => cl.call # 0 /\ cl.link = cl.call
  /\ InSendmsg => Sendable(cl, canc)

ServerTypes == sv \in Assocs /\ ex \in [Calls -> ServerReps]

WireTypes == up \in BOOLEAN /\ c2s \in Seq(Packets) /\ s2c \in Seq(Packets)

-----------------------------------------------------------------------------
(* Every call begins once: its first fragment is sent once, and until the    *)
(* server has it nothing else of the call exists there.                      *)

Unknown(k) ==
  /\ ex[k].pc = "none"
  /\ \A i \in 1..Len(c2s) : Begins(c2s[i]) => c2s[i].call # k

BeginsOnce ==
  /\ \A i \in 1..Len(c2s) : c2s[i].call \in 1..cl.call
  /\ \A i \in 1..Len(s2c) : s2c[i].call \in 1..cl.call /\ s2c[i].type \in {"response", "fault"}
  /\ \A k \in Calls : k > cl.call => ex[k].pc = "none"
  /\ \A i \in 1..Len(c2s) : Begins(c2s[i]) => ex[c2s[i].call].pc = "none"
  /\ \A i, j \in 1..Len(c2s) :
       Begins(c2s[i]) /\ Begins(c2s[j]) /\ c2s[i].call = c2s[j].call => i = j
  /\ InCall /\ (cl.nsent = 0 \/ (cl.pc = "send" /\ Begins(cl.sending))) => Unknown(cl.call)
  /\ sv.link # 0 => ex[sv.link].pc # "none"

-----------------------------------------------------------------------------
(* The life of a server's call *)

Stage(r, k) ==
  /\ r.pc = "none" =>
       r.nsent = 0 /\ ~r.failed /\ r.st # "COMPLETED" /\ ~r.assoc /\ ~r.executed
  /\ r.pc = "freed" => ~r.assoc
  /\ r.pc \in {"mgr", "recvd"} => r.executed
  /\ r.pc = "caf" => ~r.executed
  /\ r.pc \in {"send", "sent"} =>
       IF r.then = "mgr" THEN r.executed
       ELSE r.then \in {"ending", "freed"} /\ r.st = "COMPLETED"
  /\ r.pc = "send" =>
       /\ r.sending.call = k
       /\ r.sending.type = "response" \/ (r.sending.type = "fault" /\ r.st = "COMPLETED")

\* On a connection that is up a send fails only when a cancel is taken in it, by
\* a manager.
Steady(r) ==
  /\ ~r.executed => ~r.failed \/ r.st = "COMPLETED"
  /\ r.pc = "ending" => ~r.failed \/ r.st = "COMPLETED" \/ r.status = "orphaned"

\* The call has put b response fragments on the wire: what it may still send has
\* the next number.
Answered(r, k, b) ==
  /\ r.pc = "send" /\ r.sending.type = "response" =>
       ~Maybe(k) /\ r.sending.n = b + 1 /\ (r.st = "COMPLETED" \/ r.nsent = b + 1)
  /\ r.pc \notin {"send", "freed"} /\ ~Maybe(k) /\ r.st # "COMPLETED" /\ ~r.failed
       => r.nsent = b

Stages == \A k \in Calls : Stage(ex[k], k) /\ (up => Steady(ex[k]))

-----------------------------------------------------------------------------
(* The responses to a call, from the server to the client *)

Hits(type, s, k) == {i \in 1..Len(s) : s[i].type = type /\ s[i].call = k}

\* The packets of that type of call k in s are those after number a up to number b,
\* in order.
Runs(type, s, k, a, b) ==
  /\ a <= b
  /\ \A i \in Hits(type, s, k) : s[i].n \in (a + 1)..b
  /\ \A n \in (a + 1)..b : \E i \in Hits(type, s, k) : s[i].n = n
  /\ \A i, j \in Hits(type, s, k) : i < j => s[i].n < s[j].n

\* The queue of a call has its responses, its fault and, once the association has
\* failed, the dummy fragment.
Queued(msgs, k, status) ==
  \A i \in 1..Len(msgs) :
    \/ msgs[i].type \in {"response", "fault"} /\ msgs[i].call = k
    \/ msgs[i] = Dummy /\ status # "ok"

Stream ==
  InCall /\ Alive =>
    /\ Queued(cl.msgs, cl.call, cl.astat)
    /\ \E a, b \in Nat :
         /\ Runs("response", cl.msgs, cl.call, Len(cl.got), a)
         /\ Runs("response", s2c, cl.call, a, b)
         /\ up => Answered(ex[cl.call], cl.call, b)

-----------------------------------------------------------------------------
CallInv ==
  /\ ClientTypes /\ ServerTypes /\ WireTypes /\ BeginsOnce /\ Stages
  /\ AssocTracksCalls /\ Stream /\ OwnResponse

-----------------------------------------------------------------------------
(* The state machines *)

\* The states the client's code names are states of its table.
LEMMA ClientStates ==
  /\ "INIT" \in ClientCallStates /\ "STUB_WAIT" \in ClientCallStates
  /\ "REQUEST" \in ClientCallStates /\ "RESPONSE" \in ClientCallStates
  /\ "COMPLETED" \in ClientCallStates /\ "FAILED" \in ClientCallStates
BY DEF ClientCallStates, ClientCallTable

\* The states of the server's.
LEMMA ServerStates ==
  ServerCallStates = {"INIT", "REQUEST", "RESPONSE", "COMPLETED", "NO_NSTATE"}
BY DEF ServerCallStates, ServerCallTable

\* A response is sent in no state but its own (cnsclsm.c).
LEMMA SendsInResponse ==
  ASSUME NEW s \in ServerCallStates, ServerLegal(s, "send")
  PROVE  s = "RESPONSE"
BY ServerStates DEF ServerLegal, ServerCallTable

\* A request goes on only while it is incomplete.
LEMMA HandlesInRequest ==
  ASSUME NEW s \in ServerCallStates, ServerDoes(s, "recv", "handle_frag")
  PROVE  s = "REQUEST"
BY ServerStates DEF ServerDoes, ServerLegal, ServerCallTable

-----------------------------------------------------------------------------
(* Numbered packets in a queue *)

\* An empty queue has none.
LEMMA RunsEmpty ==
  ASSUME NEW type \in {"request", "response"}, NEW k \in Nat, NEW a \in Nat
  PROVE  Runs(type, <<>>, k, a, a)
BY DEF Runs, Hits

\* Nothing of the call in the queue.
LEMMA RunsNone ==
  ASSUME NEW type \in {"request", "response"}, NEW k \in Nat, NEW a \in Nat,
         NEW s \in Seq(Packets), Hits(type, s, k) = {}
  PROVE  Runs(type, s, k, a, a)
BY DEF Runs, Hits

\* Hits of a longer queue
LEMMA HitsAppend ==
  ASSUME NEW type \in {"request", "response"}, NEW k \in Nat, NEW s \in Seq(Packets),
         NEW p \in Packets
  PROVE  /\ p.type = type /\ p.call = k
              => Hits(type, Append(s, p), k) = Hits(type, s, k) \cup {Len(s) + 1}
         /\ ~(p.type = type /\ p.call = k) => Hits(type, Append(s, p), k) = Hits(type, s, k)
         /\ \A i \in Hits(type, s, k) : Append(s, p)[i] = s[i]
         /\ Append(s, p)[Len(s) + 1] = p
         /\ Hits(type, s, k) \subseteq 1..Len(s)
<1> DEFINE t == Append(s, p)
<1>1. /\ Len(t) = Len(s) + 1 /\ Len(s) \in Nat /\ t[Len(s) + 1] = p
      /\ \A i \in 1..Len(s) : t[i] = s[i]
  OBVIOUS
<1>2. 1..Len(t) = 1..Len(s) \cup {Len(s) + 1} /\ Len(s) + 1 \notin 1..Len(s)
  BY <1>1
<1> HIDE DEF t
<1>3. Hits(type, s, k) \subseteq 1..Len(s)
  BY DEF Hits
<1>4. p.type = type /\ p.call = k => Hits(type, t, k) = Hits(type, s, k) \cup {Len(s) + 1}
  BY <1>1, <1>2 DEF Hits
<1>5. ~(p.type = type /\ p.call = k) => Hits(type, t, k) = Hits(type, s, k)
  BY <1>1, <1>2 DEF Hits
<1> QED BY <1>1, <1>3, <1>4, <1>5 DEF t

\* The next one comes to the end.
LEMMA RunsAppend ==
  ASSUME NEW type \in {"request", "response"}, NEW k \in Nat, NEW a \in Nat, NEW b \in Nat,
         NEW s \in Seq(Packets), NEW p \in Packets, Runs(type, s, k, a, b),
         p.type = type, p.call = k, p.n = b + 1
  PROVE  Runs(type, Append(s, p), k, a, b + 1)
<1>0. PICK t : t = Append(s, p)
  OBVIOUS
<1>1. /\ Hits(type, t, k) = Hits(type, s, k) \cup {Len(s) + 1}
      /\ \A i \in Hits(type, s, k) : t[i] = s[i]
      /\ t[Len(s) + 1] = p
      /\ Hits(type, s, k) \subseteq 1..Len(s)
  <2>1. /\ Hits(type, Append(s, p), k) = Hits(type, s, k) \cup {Len(s) + 1}
        /\ \A i \in Hits(type, s, k) : Append(s, p)[i] = s[i]
        /\ Append(s, p)[Len(s) + 1] = p
        /\ Hits(type, s, k) \subseteq 1..Len(s)
    BY HitsAppend
  <2> QED BY <2>1, <1>0, Zenon
<1>2. Len(s) \in Nat
  OBVIOUS
<1>3. \A i \in Hits(type, t, k) : t[i].n \in (a + 1)..(b + 1)
  BY <1>1, <1>2, SMTT(30) DEF Runs
<1>4. ASSUME NEW n \in (a + 1)..(b + 1)
      PROVE  \E i \in Hits(type, t, k) : t[i].n = n
  <2>1. CASE n = b + 1
    BY <2>1, <1>1
  <2>2. CASE n \in (a + 1)..b
    BY <2>2, <1>1, SMTT(30) DEF Runs
  <2> QED BY <2>1, <2>2
<1>5. \A i, j \in Hits(type, t, k) : i < j => t[i].n < t[j].n
  <2> TAKE i, j \in Hits(type, t, k)
  <2> HAVE i < j
  <2>1. i \in Hits(type, s, k)
    BY <1>1, <1>2
  <2>2. s[i].n \in (a + 1)..b
    BY <2>1 DEF Runs
  <2>3. CASE j \in Hits(type, s, k)
    BY <2>1, <2>3, <1>1 DEF Runs
  <2>4. CASE j = Len(s) + 1
    BY <2>1, <2>2, <2>4, <1>1
  <2> QED BY <2>3, <2>4, <1>1
<1>6. Runs(type, t, k, a, b + 1)
  BY <1>3, <1>4, <1>5 DEF Runs
<1> QED BY <1>0, <1>6

\* Anything else comes to the end.
LEMMA RunsAppendOther ==
  ASSUME NEW type \in {"request", "response"}, NEW k \in Nat, NEW a \in Nat, NEW b \in Nat,
         NEW s \in Seq(Packets), NEW p \in Packets, Runs(type, s, k, a, b),
         ~(p.type = type /\ p.call = k)
  PROVE  Runs(type, Append(s, p), k, a, b)
<1>1. /\ Hits(type, Append(s, p), k) = Hits(type, s, k)
      /\ \A i \in Hits(type, s, k) : Append(s, p)[i] = s[i]
  BY HitsAppend
<1> QED BY <1>1 DEF Runs

\* Hits of a queue and of what follows its head
Follow(type, s, k) ==
  /\ \A i \in Hits(type, Tail(s), k) :
       i \in Nat /\ 1 < i + 1 /\ i + 1 \in Hits(type, s, k) /\ Tail(s)[i] = s[i + 1]
  /\ \A i \in Hits(type, s, k) :
       i # 1 => i - 1 \in Hits(type, Tail(s), k) /\ Tail(s)[i - 1] = s[i]
  /\ 1 \in Hits(type, s, k) <=> Head(s).type = type /\ Head(s).call = k
  /\ \A i \in Hits(type, s, k) : i \in Nat /\ i >= 1 /\ s[i].n \in Nat
  /\ Head(s) = s[1]

\* They are one place further on.
LEMMA HitsTail ==
  ASSUME NEW type \in {"request", "response"}, NEW k \in Nat, NEW s \in Seq(Packets), s # <<>>
  PROVE  Follow(type, s, k)
<1> DEFINE t == Tail(s)
<1>1. /\ Len(s) \in Nat /\ Len(s) >= 1 /\ Len(t) = Len(s) - 1
      /\ \A i \in 1..Len(t) : t[i] = s[i + 1]
      /\ Head(s) = s[1]
      /\ \A i \in 1..Len(s) : s[i] \in Packets
  OBVIOUS
<1> HIDE DEF t
<1>2. \A i \in Hits(type, t, k) : i \in Nat /\ 1 < i + 1 /\ i + 1 \in Hits(type, s, k) /\ t[i] = s[i + 1]
  <2> TAKE i \in Hits(type, t, k)
  <2>1. i \in 1..Len(t) /\ t[i].type = type /\ t[i].call = k
    BY DEF Hits
  <2>2. i \in Nat /\ 1 < i + 1 /\ i + 1 \in 1..Len(s) /\ t[i] = s[i + 1]
    BY <2>1, <1>1
  <2> QED BY <2>1, <2>2 DEF Hits
<1>3. \A i \in Hits(type, s, k) : i # 1 => i - 1 \in Hits(type, t, k) /\ t[i - 1] = s[i]
  <2> TAKE i \in Hits(type, s, k)
  <2> HAVE i # 1
  <2>1. i \in 1..Len(s) /\ s[i].type = type /\ s[i].call = k
    BY DEF Hits
  <2>2. i - 1 \in 1..Len(t) /\ (i - 1) + 1 = i
    BY <2>1, <1>1
  <2>3. t[i - 1] = s[i]
    BY <2>2, <1>1
  <2> QED BY <2>1, <2>2, <2>3 DEF Hits
<1>4. 1 \in Hits(type, s, k) <=> Head(s).type = type /\ Head(s).call = k
  BY <1>1 DEF Hits
<1>5. \A i \in Hits(type, s, k) : i \in Nat /\ i >= 1 /\ s[i].n \in Nat
  BY <1>1, SMTT(30) DEF Hits, Packets
<1> QED BY <1>1, <1>2, <1>3, <1>4, <1>5 DEF t, Follow

\* The head is one of them: it has the next number.
LEMMA RunsTail ==
  ASSUME NEW type \in {"request", "response"}, NEW k \in Nat, NEW a \in Nat, NEW b \in Nat,
         NEW s \in Seq(Packets), s # <<>>, Runs(type, s, k, a, b)
  PROVE  Head(s).type = type /\ Head(s).call = k
           => Head(s).n = a + 1 /\ Runs(type, Tail(s), k, a + 1, b)
<1>0. PICK t : t = Tail(s)
  OBVIOUS
<1>1. /\ \A i \in Hits(type, t, k) :
           i \in Nat /\ 1 < i + 1 /\ i + 1 \in Hits(type, s, k) /\ t[i] = s[i + 1]
      /\ \A i \in Hits(type, s, k) : i # 1 => i - 1 \in Hits(type, t, k) /\ t[i - 1] = s[i]
      /\ Head(s).type = type /\ Head(s).call = k => 1 \in Hits(type, s, k)
      /\ \A i \in Hits(type, s, k) : i \in Nat /\ i >= 1 /\ s[i].n \in Nat
      /\ Head(s) = s[1]
  <2>1. Follow(type, s, k)
    BY HitsTail
  <2> QED BY <1>0, <2>1 DEF Follow
<1> HAVE Head(s).type = type /\ Head(s).call = k
<1>2. s[1].n \in (a + 1)..b
  BY <1>1 DEF Runs
<1>3. s[1].n = a + 1
  <2>1. PICK i \in Hits(type, s, k) : s[i].n = a + 1
    BY <1>2 DEF Runs
  <2>2. CASE i # 1
    <3>1. 1 < i
      BY <2>2, <1>1
    <3>2. s[1].n < s[i].n
      BY <3>1, <1>1 DEF Runs
    <3> QED BY <3>2, <2>1, <1>2
  <2> QED BY <2>1, <2>2
<1>4. \A i \in Hits(type, t, k) : t[i].n \in (a + 2)..b
  <2> TAKE i \in Hits(type, t, k)
  <2>1. i + 1 \in Hits(type, s, k) /\ t[i] = s[i + 1] /\ 1 < i + 1
    BY <1>1
  <2>2. s[1].n < s[i + 1].n /\ s[i + 1].n \in (a + 1)..b
    BY <2>1, <1>1 DEF Runs
  <2> QED BY <2>1, <2>2, <1>3
<1>5. \A n \in (a + 2)..b : \E i \in Hits(type, t, k) : t[i].n = n
  <2> TAKE n \in (a + 2)..b
  <2>1. PICK i \in Hits(type, s, k) : s[i].n = n
    BY DEF Runs
  <2>2. i # 1
    BY <2>1, <1>3
  <2> QED BY <2>1, <2>2, <1>1
<1>6. \A i, j \in Hits(type, t, k) : i < j => t[i].n < t[j].n
  <2> TAKE i, j \in Hits(type, t, k)
  <2> HAVE i < j
  <2>1. /\ i + 1 < j + 1 /\ t[i] = s[i + 1] /\ t[j] = s[j + 1]
        /\ i + 1 \in Hits(type, s, k) /\ j + 1 \in Hits(type, s, k)
    BY <1>1
  <2> QED BY <2>1 DEF Runs
<1>7. Runs(type, t, k, a + 1, b)
  BY <1>2, <1>4, <1>5, <1>6 DEF Runs
<1> QED BY <1>0, <1>1, <1>3, <1>7

\* The head is something else.
LEMMA RunsTailOther ==
  ASSUME NEW type \in {"request", "response"}, NEW k \in Nat, NEW a \in Nat, NEW b \in Nat,
         NEW s \in Seq(Packets), s # <<>>, Runs(type, s, k, a, b), ~(Head(s).type = type /\ Head(s).call = k)
  PROVE  Runs(type, Tail(s), k, a, b)
<1>0. PICK t : t = Tail(s)
  OBVIOUS
<1>1. /\ \A i \in Hits(type, t, k) :
           i \in Nat /\ 1 < i + 1 /\ i + 1 \in Hits(type, s, k) /\ t[i] = s[i + 1]
      /\ \A i \in Hits(type, s, k) : i # 1 => i - 1 \in Hits(type, t, k) /\ t[i - 1] = s[i]
      /\ 1 \notin Hits(type, s, k)
  <2>1. Follow(type, s, k)
    BY HitsTail
  <2> QED BY <1>0, <2>1 DEF Follow
<1>2. \A i \in Hits(type, t, k) : t[i].n \in (a + 1)..b
  BY <1>1 DEF Runs
<1>3. \A n \in (a + 1)..b : \E i \in Hits(type, t, k) : t[i].n = n
  <2> TAKE n \in (a + 1)..b
  <2>1. PICK i \in Hits(type, s, k) : s[i].n = n
    BY DEF Runs
  <2>2. i # 1
    BY <1>1
  <2> QED BY <2>1, <2>2, <1>1
<1>4. \A i, j \in Hits(type, t, k) : i < j => t[i].n < t[j].n
  <2> TAKE i, j \in Hits(type, t, k)
  <2> HAVE i < j
  <2>1. /\ i + 1 < j + 1 /\ t[i] = s[i + 1] /\ t[j] = s[j + 1]
        /\ i + 1 \in Hits(type, s, k) /\ j + 1 \in Hits(type, s, k)
    BY <1>1
  <2> QED BY <2>1 DEF Runs
<1>5. Runs(type, t, k, a, b)
  BY <1>2, <1>3, <1>4 DEF Runs
<1> QED BY <1>0, <1>5

-----------------------------------------------------------------------------
(* What the calling thread does with its queue *)

\* The dummy fragment is a packet of no call.
LEMMA DummyType == Dummy \in Packets /\ Dummy.type = "dummy" /\ Dummy.call = 0
<1>1. Dummy = [type |-> "dummy", call |-> 0, n |-> 0, last |-> FALSE, alert |-> FALSE, alerts |-> 0]
  BY DEF Dummy, Packet
<1> QED BY <1>1 DEF Packets

\* Skipping the dummy fragment leaves the responses alone.
LEMMA SkipDummyKeeps ==
  ASSUME NEW s \in Seq(Packets), NEW k \in Nat
  PROVE  /\ SkipDummy(s) \in Seq(Packets)
         /\ \A status : Queued(s, k, status) => Queued(SkipDummy(s), k, status)
         /\ \A a, b \in Nat : Runs("response", s, k, a, b) => Runs("response", SkipDummy(s), k, a, b)
<1>1. CASE s # <<>> /\ Head(s) = Dummy
  <2>1. SkipDummy(s) = Tail(s)
    BY <1>1 DEF SkipDummy
  <2>2. Tail(s) \in Seq(Packets)
    BY <1>1
  <2>3. \A a, b \in Nat : Runs("response", s, k, a, b) => Runs("response", Tail(s), k, a, b)
    BY <1>1, RunsTailOther, DummyType
  <2>4. /\ Len(s) \in Nat /\ Len(Tail(s)) = Len(s) - 1
        /\ \A i \in 1..Len(Tail(s)) : Tail(s)[i] = s[i + 1] /\ i + 1 \in 1..Len(s)
    BY <1>1
  <2>5. \A status : Queued(s, k, status) => Queued(Tail(s), k, status)
    BY <2>4 DEF Queued
  <2> QED BY <2>1, <2>2, <2>3, <2>5
<1>2. CASE SkipDummy(s) = s
  BY <1>2
<1>3. (s # <<>> /\ Head(s) = Dummy) \/ SkipDummy(s) = s
  BY DEF SkipDummy
<1> QED BY <1>1, <1>2, <1>3

\* From c to d the thread takes the next fragment, or nothing.
Reads(c, d) ==
  LET m == SkipDummy(c.msgs)
  IN  \/ /\ d.got = c.got /\ (d.msgs = c.msgs \/ (m = <<>> /\ d.msgs = <<>>))
         /\ d.astat = "ok" => c.astat = "ok"
      \/ /\ m # <<>> /\ d.msgs = Tail(m)
         /\ d.astat = "ok" /\ c.astat = "ok"
         /\ d.got = IF Head(m).type = "fault" THEN c.got
                    ELSE Append(c.got, <<Head(m).call, Head(m).n>>)

\* A queue of numbered responses is read in order.
LEMMA ReadsInOrder ==
  ASSUME NEW c \in ClientReps, NEW d \in ClientReps, NEW k \in Nat, NEW a \in Nat,
         Queued(c.msgs, k, c.astat), Runs("response", c.msgs, k, Len(c.got), a),
         InOrder(c.got, k), Reads(c, d)
  PROVE  Queued(d.msgs, k, d.astat) /\ Runs("response", d.msgs, k, Len(d.got), a) /\ InOrder(d.got, k)
<1> DEFINE m == SkipDummy(c.msgs)
<1>1. c.msgs \in Seq(Packets) /\ c.got \in Seq(Nat \X Nat) /\ Len(c.got) \in Nat
  BY DEF ClientReps
<1>2. m \in Seq(Packets) /\ Queued(m, k, c.astat) /\ Runs("response", m, k, Len(c.got), a)
  BY <1>1, SkipDummyKeeps
<1>3. CASE d.got = c.got /\ d.msgs = c.msgs /\ (d.astat = "ok" => c.astat = "ok")
  BY <1>3 DEF Queued
<1>4. CASE d.got = c.got /\ m = <<>> /\ d.msgs = <<>>
  <2>1. Queued(<<>>, k, d.astat)
    BY DEF Queued
  <2> QED BY <1>2, <1>4, <2>1
<1>5. CASE /\ m # <<>> /\ d.msgs = Tail(m)
           /\ d.astat = "ok" /\ c.astat = "ok"
           /\ d.got = IF Head(m).type = "fault" THEN c.got
                      ELSE Append(c.got, <<Head(m).call, Head(m).n>>)
  <2> HIDE DEF m
  <2> DEFINE p == Head(m)
  <2>1. p \in Packets /\ p = m[1] /\ 1 \in 1..Len(m)
    BY <1>2, <1>5
  <2>2. p.type \in {"response", "fault"} /\ p.call = k
    BY <2>1, <1>2, <1>5 DEF Queued
  <2>3. /\ Len(m) \in Nat
        /\ \A i \in 1..Len(Tail(m)) : Tail(m)[i] = m[i + 1] /\ i + 1 \in 1..Len(m)
    BY <1>2, <1>5
  <2>4. Queued(Tail(m), k, d.astat)
    BY <2>3, <1>2, <1>5 DEF Queued
  <2>5. CASE p.type = "fault"
    <3>1. Runs("response", Tail(m), k, Len(c.got), a)
      BY <2>5, <1>1, <1>2, <1>5, RunsTailOther
    <3> QED BY <3>1, <2>4, <2>5, <1>5
  <2>6. CASE p.type = "response"
    <3>1. p.n = Len(c.got) + 1 /\ Runs("response", Tail(m), k, Len(c.got) + 1, a)
      BY <2>2, <2>6, <1>1, <1>2, <1>5, RunsTail, SMTT(30)
    <3>2. d.got = Append(c.got, <<k, Len(c.got) + 1>>)
      BY <3>1, <2>2, <2>6, <1>5
    <3>3. Len(d.got) = Len(c.got) + 1 /\ InOrder(d.got, k)
      BY <3>2, <1>1, SMTT(30) DEF InOrder
    <3> QED BY <3>1, <3>3, <2>4, <1>5
  <2> QED BY <2>2, <2>5, <2>6
<1> HIDE DEF m
<1>6. \/ d.got = c.got /\ d.msgs = c.msgs /\ (d.astat = "ok" => c.astat = "ok")
      \/ d.got = c.got /\ m = <<>> /\ d.msgs = <<>>
      \/ /\ m # <<>> /\ d.msgs = Tail(m)
         /\ d.astat = "ok" /\ c.astat = "ok"
         /\ d.got = IF Head(m).type = "fault" THEN c.got
                    ELSE Append(c.got, <<Head(m).call, Head(m).n>>)
  BY DEF Reads, m
<1> QED BY <1>3, <1>4, <1>5, <1>6

\* The thread is still in the call.
Keeps(c, d) == d.call = c.call /\ d.link = c.link /\ d.nsent = c.nsent /\ Reads(c, d)

\* Reading from a queue that has been left alone
LEMMA KeepsFrom ==
  ASSUME NEW b, NEW c, NEW d, Keeps(c, d),
         c.call = b.call, c.link = b.link, c.nsent = b.nsent,
         c.got = b.got, c.msgs = b.msgs, c.astat = "ok" => b.astat = "ok"
  PROVE  Keeps(b, d)
BY DEF Keeps, Reads

\* Nothing read
LEMMA KeepsAll ==
  ASSUME NEW c, NEW d, d.call = c.call, d.link = c.link, d.nsent = c.nsent,
         d.got = c.got, d.msgs = c.msgs, d.astat = "ok" => c.astat = "ok"
  PROVE  Keeps(c, d)
BY DEF Keeps, Reads

\* A fragment is given to the caller, or a fault.
LEMMA TakeEffect ==
  ASSUME NEW c \in ClientReps, NEW p \in Packets
  PROVE  LET d == Take(c, p) IN
         /\ d \in ClientReps /\ d.pc = "stub"
         /\ d.call = c.call /\ d.link = c.link /\ d.nsent = c.nsent
         /\ d.msgs = c.msgs /\ d.astat = c.astat
         /\ d.got = IF p.type = "fault" THEN c.got ELSE Append(c.got, <<p.call, p.n>>)
<1>1. p.call \in Nat /\ p.n \in Nat /\ p.last \in BOOLEAN
  BY DEF Packets
<1>2. <<p.call, p.n>> \in Nat \X Nat
  BY <1>1
<1>3. c.status \in {"ok", "cancel_timeout"} /\ c.got \in Seq(Nat \X Nat)
  BY DEF ClientReps
<1>4. Append(c.got, <<p.call, p.n>>) \in Seq(Nat \X Nat)
  BY <1>2, <1>3
<1>5. CASE p.type = "fault"
  <2>1. PICK d : d = Take(c, p)
    OBVIOUS
  <2>2. d = [c EXCEPT !.pc = "stub", !.gotlast = TRUE, !.err = "fault"]
    BY <1>5, <2>1 DEF Take
  <2>3. /\ d.call = c.call /\ d.link = c.link /\ d.nsent = c.nsent
        /\ d.msgs = c.msgs /\ d.astat = c.astat /\ d.got = c.got /\ d.pc = "stub"
    BY <2>2 DEF ClientReps
  <2>4. d \in ClientReps
    <3>1. PICK g : g = c.got
      OBVIOUS
    <3>2. d = [c EXCEPT !.pc = "stub", !.got = g, !.gotlast = TRUE, !.err = "fault"]
      BY <2>2, <3>1 DEF ClientReps
    <3>3. g \in Seq(Nat \X Nat)
      BY <3>1, <1>3
    <3> QED BY <3>2, <3>3, ZenonT(40) DEF ClientReps
  <2> QED BY <2>1, <2>3, <2>4, <1>5
<1>6. CASE p.type # "fault"
  <2> DEFINE got == Append(c.got, <<p.call, p.n>>)
  <2>1. Take(c, p) = [c EXCEPT !.pc = "stub", !.got = got, !.gotlast = p.last, !.err = c.status]
    BY <1>6 DEF Take, ClientReps
  <2>2. got \in Seq(Nat \X Nat)
    BY <1>4
  <2> HIDE DEF got
  <2>3. PICK d : d = Take(c, p)
    OBVIOUS
  <2>4. d = [c EXCEPT !.pc = "stub", !.got = got, !.gotlast = p.last, !.err = c.status]
    BY <2>1, <2>3
  <2>5. /\ d.call = c.call /\ d.link = c.link /\ d.nsent = c.nsent
        /\ d.msgs = c.msgs /\ d.astat = c.astat
    BY <2>4 DEF ClientReps
  <2>6. d.pc = "stub" /\ d.got = got
    BY <2>4 DEF ClientReps
  <2>7. d \in ClientReps
    BY <2>4, <2>2, <1>1, <1>3, ZenonT(40) DEF ClientReps
  <2> QED BY <2>5, <2>6, <2>7, <2>3, <1>6 DEF got
<1> QED BY <1>5, <1>6

\* rpc__cn_assoc_receive_frag: a fragment, an error or a wait.
LEMMA ReceiveEffect ==
  ASSUME NEW c \in ClientReps
  PROVE  /\ Receive(c) \in ClientReps /\ Keeps(c, Receive(c))
         /\ Receive(c).pc \in {"stub", "sleep"}
<1> DEFINE m == SkipDummy(c.msgs)
<1>1. c.msgs \in Seq(Packets) /\ c.astat \in {"ok", "closed"}
  BY DEF ClientReps
<1>2. m \in Seq(Packets)
  BY <1>1, SkipDummyKeeps, 0 \in Nat
<1>3. CASE c.astat # "ok"
  <2>1. Receive(c) = [c EXCEPT !.pc = "stub", !.err = c.astat]
    BY <1>3 DEF Receive
  <2>2. Receive(c) \in ClientReps /\ Receive(c).pc = "stub"
    BY <2>1, <1>1, <1>3, ZenonT(60) DEF ClientReps
  <2> DEFINE d == Receive(c)
  <2>3. /\ d.call = c.call /\ d.link = c.link /\ d.nsent = c.nsent
        /\ d.msgs = c.msgs /\ d.astat = c.astat /\ d.got = c.got
    BY <2>1 DEF ClientReps
  <2> HIDE DEF d
  <2>4. Keeps(c, d)
    BY <2>3, KeepsAll
  <2> QED BY <2>2, <2>4 DEF d
<1>4. CASE c.astat = "ok" /\ m = <<>>
  <2>1. Receive(c) = [c EXCEPT !.pc = "sleep", !.msgs = <<>>]
    BY <1>4 DEF Receive
  <2>2. <<>> \in Seq(Packets)
    OBVIOUS
  <2> HIDE DEF m
  <2>3. /\ Receive(c) \in ClientReps /\ Receive(c).pc = "sleep"
        /\ Receive(c).msgs = <<>> /\ Receive(c).got = c.got /\ Receive(c).astat = c.astat
        /\ Receive(c).call = c.call /\ Receive(c).link = c.link
        /\ Receive(c).nsent = c.nsent
    BY <2>1, <2>2, ZenonT(60) DEF ClientReps
  <2>4. Keeps(c, Receive(c))
    BY <2>3, <1>4 DEF Keeps, Reads, m
  <2> QED BY <2>3, <2>4
<1>5. CASE c.astat = "ok" /\ m # <<>>
  <2> DEFINE e == [c EXCEPT !.msgs = Tail(m)]
  <2>1. Receive(c) = Take(e, Head(m))
    BY <1>5 DEF Receive
  <2>2. Tail(m) \in Seq(Packets) /\ Head(m) \in Packets
    BY <1>2, <1>5
  <2>3. SkipDummy(c.msgs) = m
    OBVIOUS
  <2> HIDE DEF m
  <2>4. /\ e \in ClientReps /\ e.msgs = Tail(m) /\ e.got = c.got /\ e.astat = c.astat
        /\ e.call = c.call /\ e.link = c.link /\ e.nsent = c.nsent
    BY <2>2 DEF ClientReps
  <2> HIDE DEF e
  <2> DEFINE d == Take(e, Head(m))
  <2>5. /\ d \in ClientReps /\ d.pc = "stub"
        /\ d.call = e.call /\ d.link = e.link /\ d.nsent = e.nsent
        /\ d.msgs = e.msgs /\ d.astat = e.astat
        /\ d.got = IF Head(m).type = "fault" THEN e.got
                   ELSE Append(e.got, <<Head(m).call, Head(m).n>>)
    BY <2>2, <2>4, TakeEffect
  <2>6. Receive(c) = d
    BY <2>1
  <2> HIDE DEF d
  <2>7. Keeps(c, d)
    BY <2>3, <2>4, <2>5, <1>5 DEF Keeps, Reads
  <2> QED BY <2>5, <2>6, <2>7
<1> QED BY <1>3, <1>4, <1>5

\* A call whose place, error, status or fate alone is another is a call.
LEMMA ClientFields ==
  ASSUME NEW c \in ClientReps
  PROVE  /\ \A pc \in {"idle", "stub", "send", "sent", "sleep"} : [c EXCEPT !.pc = pc] \in ClientReps
         /\ \A err \in {"ok", "fault", "closed", "cancel_timeout"} :
              [c EXCEPT !.err = err] \in ClientReps
         /\ \A astat \in {"ok", "closed"} : [c EXCEPT !.astat = astat] \in ClientReps
         /\ \A fatal \in {"none", "local_alert", "recv", "fault"} :
              [c EXCEPT !.fatal = fatal] \in ClientReps
<1>1. \A pc \in {"idle", "stub", "send", "sent", "sleep"} : [c EXCEPT !.pc = pc] \in ClientReps
  BY ZenonT(30) DEF ClientReps
<1>2. \A err \in {"ok", "fault", "closed", "cancel_timeout"} : [c EXCEPT !.err = err] \in ClientReps
  BY ZenonT(30) DEF ClientReps
<1>3. \A astat \in {"ok", "closed"} : [c EXCEPT !.astat = astat] \in ClientReps
  BY ZenonT(30) DEF ClientReps
<1>4. \A fatal \in {"none", "local_alert", "recv", "fault"} : [c EXCEPT !.fatal = fatal] \in ClientReps
  BY ZenonT(30) DEF ClientReps
<1> QED BY <1>1, <1>2, <1>3, <1>4

\* Going on, under the lock
LEMMA GotoEffect ==
  ASSUME NEW c \in ClientReps, NEW then \in {"stub", "recv", "end"}
  PROVE  /\ Goto(c, then) \in ClientReps /\ Keeps(c, Goto(c, then))
         /\ Goto(c, then).pc \in {"stub", "sleep"}
<1>1. CASE then = "recv"
  BY <1>1, ReceiveEffect DEF Goto
<1>2. CASE then # "recv"
  <2>1. Goto(c, then) = [c EXCEPT !.pc = "stub"]
    BY <1>2 DEF Goto
  <2>2. Goto(c, then) \in ClientReps /\ Goto(c, then).pc = "stub"
    <3>1. Goto(c, then) \in ClientReps
      BY <2>1, ClientFields
    <3>2. Goto(c, then).pc = "stub"
      BY <2>1 DEF ClientReps
    <3> QED BY <3>1, <3>2
  <2> DEFINE d == Goto(c, then)
  <2>3. /\ d.call = c.call /\ d.link = c.link /\ d.nsent = c.nsent
        /\ d.msgs = c.msgs /\ d.astat = c.astat /\ d.got = c.got
    BY <2>1 DEF ClientReps
  <2> HIDE DEF d
  <2>4. Keeps(c, d)
    BY <2>3, KeepsAll
  <2> QED BY <2>2, <2>4 DEF d
<1> QED BY <1>1, <1>2

\* A packet of the call is about to be sent.
LEMMA BeginSendEffect ==
  ASSUME NEW c \in ClientReps, NEW p \in Packets, NEW then \in {"stub", "recv", "end"}
  PROVE  LET d == BeginSend(c, p, then) IN
         d \in ClientReps /\ Keeps(c, d) /\ d.pc = "send" /\ d.sending = p
<1> DEFINE d == BeginSend(c, p, then)
<1>1. d = [c EXCEPT !.pc = "send", !.sending = p, !.then = then, !.failed = FALSE]
  BY DEF BeginSend
<1>2. /\ d.pc = "send" /\ d.sending = p
      /\ d.call = c.call /\ d.link = c.link /\ d.nsent = c.nsent
      /\ d.msgs = c.msgs /\ d.astat = c.astat /\ d.got = c.got
  BY <1>1 DEF ClientReps
<1>3. d \in ClientReps
  BY <1>1, ZenonT(60) DEF ClientReps
<1> HIDE DEF d
<1>4. Keeps(c, d)
  BY <1>2, KeepsAll
<1> QED BY <1>2, <1>3, <1>4 DEF d

\* Packets of the client
LEMMA ClientPackets ==
  ASSUME NEW k \in Nat, NEW n \in Nat, NEW last \in BOOLEAN, NEW alert \in BOOLEAN
  PROVE  /\ Request(k, n, last, alert) \in Packets /\ Request(k, n, last, alert).call = k
         /\ Request(k, n, last, alert).type = "request" /\ Request(k, n, last, alert).n = n
         /\ RemoteAlert(k) \in Packets /\ RemoteAlert(k).call = k
         /\ RemoteAlert(k).type = "alert"
         /\ Orphaned(k) \in Packets /\ Orphaned(k).call = k
         /\ Orphaned(k).type = "orphaned"
BY DEF Request, RemoteAlert, Orphaned, Packet, Packets

\* Where a forwarded cancel leaves the thread: it goes on, an alert is about to be
\* sent, or the state machine has ended the process.
Forwarded(c, d, k) ==
  \/ d.pc \in {"stub", "sleep"}
  \/ d.pc = "send" /\ d.sending.type = "alert" /\ Sendable(d, k)
  \/ d.pc = c.pc /\ d.sending = c.sending /\ d.fatal # "none" /\ k.local > 0

\* rpc__cn_call_forward_cancel
LEMMA ForwardThenEffect ==
  ASSUME NEW c \in ClientReps, NEW k \in Cancels, NEW then \in {"stub", "recv", "end"},
         ForwardThen(c, k, then)
  PROVE  /\ cl' \in ClientReps /\ canc' \in Cancels
         /\ Keeps(c, cl') /\ Forwarded(c, cl', canc')
<1> DEFINE d == IF k.local > 0 THEN [c EXCEPT !.err = c.status] ELSE c
<1>1. /\ d \in ClientReps /\ d.call = c.call /\ d.link = c.link /\ d.nsent = c.nsent
      /\ d.msgs = c.msgs /\ d.astat = c.astat /\ d.got = c.got
  <2>1. d = c \/ d = [c EXCEPT !.err = c.status]
    OBVIOUS
  <2> HIDE DEF d
  <2>2. /\ d.call = c.call /\ d.link = c.link /\ d.nsent = c.nsent
        /\ d.msgs = c.msgs /\ d.astat = c.astat /\ d.got = c.got
    BY <2>1 DEF ClientReps
  <2>3. d \in ClientReps
    BY <2>1 DEF ClientReps
  <2> QED BY <2>2, <2>3
<1>2. /\ Goto(d, then) \in ClientReps /\ Keeps(d, Goto(d, then))
      /\ Goto(d, then).pc \in {"stub", "sleep"}
  BY <1>1, GotoEffect
<1>3. c.call \in Nat /\ k.local \in Nat
  BY DEF ClientReps, Cancels
<1>4. RemoteAlert(c.call) \in Packets /\ RemoteAlert(c.call).call = c.call
      /\ RemoteAlert(c.call).type = "alert"
  BY <1>3, ClientPackets, 0 \in Nat
<1> DEFINE b == BeginSend(d, RemoteAlert(c.call), then)
<1>5. b \in ClientReps /\ Keeps(d, b) /\ b.pc = "send" /\ b.sending = RemoteAlert(c.call)
  BY <1>1, <1>4, BeginSendEffect, SMTT(30)
<1>6. \/ cl' = Goto(d, then) /\ canc' = k
      \/ cl' = b /\ canc' = k /\ k.local # 0
      \/ cl' = [c EXCEPT !.fatal = "local_alert"] /\ canc' = k /\ k.local # 0
      \/ cl' = Goto(d, then) /\ canc' = [k EXCEPT !.local = 0, !.dropped = TRUE]
  BY DEF ForwardThen
<1> HIDE DEF d, b
<1>7. \A e : Keeps(d, e) => Keeps(c, e)
  BY <1>1, KeepsFrom
<1>8. CASE cl' = Goto(d, then) /\ canc' = k
  BY <1>2, <1>7, <1>8 DEF Forwarded
<1>9. CASE cl' = b /\ canc' = k /\ k.local # 0
  <2>1. canc'.local > 0
    BY <1>3, <1>9
  <2>2. cl'.call = c.call
      BY <1>5, <1>7, <1>9 DEF Keeps
  <2> QED BY <1>4, <1>5, <1>7, <1>9, <2>1, <2>2 DEF Forwarded, Sendable, Begins
<1>10. CASE cl' = [c EXCEPT !.fatal = "local_alert"] /\ canc' = k /\ k.local # 0
  <2>1. PICK e : e = cl' /\ e = [c EXCEPT !.fatal = "local_alert"]
    BY <1>10
  <2>2. /\ e.call = c.call /\ e.link = c.link /\ e.nsent = c.nsent
        /\ e.msgs = c.msgs /\ e.astat = c.astat /\ e.got = c.got
    BY <2>1 DEF ClientReps
  <2>3. e.pc = c.pc /\ e.sending = c.sending /\ e.fatal = "local_alert"
    BY <2>1 DEF ClientReps
  <2>4. e \in ClientReps
    BY <2>1, ClientFields
  <2>5. Keeps(c, e)
    BY <2>2, KeepsAll
  <2>6. canc'.local > 0
    BY <1>3, <1>10
  <2> QED BY <1>10, <2>4, <2>5, <2>6, <2>3, <2>1 DEF Forwarded
<1>11. CASE cl' = Goto(d, then) /\ canc' = [k EXCEPT !.local = 0, !.dropped = TRUE]
  <2>1. canc' \in Cancels
    BY <1>11 DEF Cancels
  <2> QED BY <1>2, <1>7, <1>11, <2>1 DEF Forwarded
<1> QED BY <1>6, <1>8, <1>9, <1>10, <1>11

-----------------------------------------------------------------------------
(* The steps of the calling thread *)

\* A call rep that is not in use
LEMMA NoCallType == NoCall \in ClientReps
<1>1. /\ Dummy \in Packets /\ "INIT" \in ClientCallStates
      /\ <<>> \in Seq(Nat \X Nat) /\ <<>> \in Seq(Packets)
  BY DummyType, ClientStates
<1> QED BY <1>1 DEF NoCall, ClientReps

\* No cancels
LEMMA NoCancelsType == NoCancels \in Cancels
BY DEF NoCancels, Cancels

\* What a step within a call amounts to.
CallerEffect ==
  /\ cl' \in ClientReps /\ canc' \in Cancels /\ result' = result
  /\ cl'.call = cl.call /\ cl'.link = cl.link /\ cl'.pc # "idle" /\ Reads(cl, cl')
  /\ cl'.pc \in {"send", "sent"} => Sendable(cl', canc')
  /\ cl'.nsent = 0 => cl.nsent = 0
  /\ cl'.pc = "send" /\ Begins(cl'.sending)
       => cl.nsent = 0 \/ (cl.pc = "send" /\ Begins(cl.sending))

\* What the end of a call amounts to.
EndEffect ==
  /\ cl' \in ClientReps /\ canc' \in Cancels /\ result' \in [Calls -> Outcomes]
  /\ cl'.pc = "idle" /\ cl'.call = cl.call /\ cl'.link = 0 /\ cl'.got = <<>>

\* The timer and cancels keep their types.
LEMMA CancelTypes ==
  ASSUME NEW k \in Cancels, NEW status
  PROVE  /\ StartTimer(k) \in Cancels /\ StartTimer(k).local = k.local
         /\ StopTimer(k) \in Cancels /\ StopTimer(k).local = k.local
         /\ Catch(k, status) \in Cancels /\ Catch(k, status).local = k.local + 1
<1>1. \A j \in Cancels : StartTimer(j) \in Cancels /\ StartTimer(j).local = j.local
  <2> TAKE j \in Cancels
  <2>1. StartTimer(j) = j \/ StartTimer(j) = [j EXCEPT !.running = TRUE, !.timer = TRUE]
    BY DEF StartTimer
  <2>2. StartTimer(j) \in Cancels
    BY <2>1 DEF Cancels
  <2>3. StartTimer(j).local = j.local
    BY <2>1 DEF Cancels
  <2> QED BY <2>2, <2>3
<1>2. StopTimer(k) \in Cancels /\ StopTimer(k).local = k.local
  <2>1. StopTimer(k) = k \/ StopTimer(k) = [k EXCEPT !.timer = FALSE]
    BY DEF StopTimer
  <2>2. StopTimer(k) \in Cancels
    BY <2>1 DEF Cancels
  <2>3. StopTimer(k).local = k.local
    BY <2>1 DEF Cancels
  <2> QED BY <2>2, <2>3
<1> DEFINE d == [k EXCEPT !.pending = FALSE, !.caught = TRUE, !.local = @ + 1]
<1>3. k.local + 1 \in Nat
  BY DEF Cancels
<1>4. d \in Cancels
  BY <1>3 DEF Cancels
<1>5. d.local = k.local + 1
  BY DEF Cancels
<1>6. Catch(k, status) = d \/ Catch(k, status) = StartTimer(d)
  BY DEF Catch
<1> HIDE DEF d
<1> QED BY <1>1, <1>2, <1>4, <1>5, <1>6

\* A step that ends in forwarding cancels
LEMMA ForwardsCancels ==
  ASSUME ClientTypes, InCall, NEW c \in ClientReps, NEW k \in Cancels,
         NEW then \in {"stub", "recv", "end"}, ForwardThen(c, k, then), result' = result,
         c.call = cl.call, c.link = cl.link, c.nsent = cl.nsent, c.pc = cl.pc,
         c.got = cl.got, c.msgs = cl.msgs, c.sending = cl.sending,
         c.astat = "ok" => cl.astat = "ok"
  PROVE  CallerEffect
<1>1. /\ cl' \in ClientReps /\ canc' \in Cancels
      /\ Keeps(c, cl') /\ Forwarded(c, cl', canc')
  BY ForwardThenEffect
<1>2. cl'.call = cl.call /\ cl'.link = cl.link /\ cl'.nsent = cl.nsent /\ Reads(cl, cl')
  BY <1>1 DEF Keeps, Reads
<1>3. cl.pc # "idle" /\ (cl.pc \in {"send", "sent"} => Sendable(cl, canc))
  BY DEF ClientTypes, InCall, InSendmsg
<1>4. CASE cl'.pc \in {"stub", "sleep"}
  BY <1>1, <1>2, <1>4 DEF CallerEffect
<1>5. CASE cl'.pc = "send" /\ cl'.sending.type = "alert" /\ Sendable(cl', canc')
  BY <1>1, <1>2, <1>5 DEF CallerEffect, Begins
<1>6. CASE cl'.pc = c.pc /\ cl'.sending = c.sending /\ canc'.local > 0
  <2>1. cl'.pc \in {"send", "sent"} => Sendable(cl', canc')
    BY <1>2, <1>3, <1>6 DEF Sendable
  <2> QED BY <1>1, <1>2, <1>3, <1>6, <2>1 DEF CallerEffect
<1> QED BY <1>1, <1>4, <1>5, <1>6 DEF Forwarded

\* A step that leaves the thread with its stub or waiting
LEMMA GoesOn ==
  ASSUME ClientTypes, cl' \in ClientReps, canc' \in Cancels, result' = result,
         Keeps(cl, cl'), cl'.pc \in {"stub", "sleep"}
  PROVE  CallerEffect
BY DEF CallerEffect, Keeps

\* rpc__cn_transmit_buffers
LEMMA TransmitEffect ==
  ASSUME ClientTypes, InCall, NEW last \in BOOLEAN, TransmitBuffers(last), result' = result
  PROVE  CallerEffect
<1> DEFINE phase == IF last THEN "out" ELSE "in"
           then == IF last /\ ~Maybe(cl.call) THEN "recv" ELSE "stub"
           k == IF ~FirstAlert THEN canc
                ELSE IF canc.local > 0 THEN [canc EXCEPT !.local = @ - 1]
                ELSE StartTimer([canc EXCEPT !.pending = FALSE, !.caught = TRUE])
           p == Request(cl.call, cl.nsent + 1, last, FirstAlert)
<1>1. /\ canc' = [k EXCEPT !.accepting = TRUE]
      /\ cl' = BeginSend([cl EXCEPT !.nsent = @ + 1, !.phase = phase], p, then)
  BY DEF TransmitBuffers
<1>2. phase \in {"in", "out"} /\ then \in {"stub", "recv", "end"}
  OBVIOUS
<1>3. cl \in ClientReps /\ canc \in Cancels /\ cl.call \in Nat /\ cl.nsent \in Nat
  BY DEF ClientTypes, ClientReps
<1>4. FirstAlert \in BOOLEAN
  BY DEF FirstAlert
<1>5. k \in Cancels
  <2>1. CASE FirstAlert /\ canc.local > 0
    <3>1. canc.local - 1 \in Nat
      BY <1>3, <2>1 DEF Cancels
    <3> QED BY <1>3, <2>1, <3>1 DEF Cancels
  <2>2. CASE FirstAlert /\ ~(canc.local > 0)
    <3>1. [canc EXCEPT !.pending = FALSE, !.caught = TRUE] \in Cancels
      BY <1>3 DEF Cancels
    <3> QED BY <2>2, <3>1, CancelTypes
  <2> QED BY <1>3, <2>1, <2>2
<1>6. /\ p \in Packets /\ p.call = cl.call /\ p.type = "request" /\ p.n = cl.nsent + 1
  BY <1>3, <1>4, ClientPackets, SMTT(30)
<1> HIDE DEF phase, then, k, p
<1>7. canc' \in Cancels
  BY <1>1, <1>5 DEF Cancels
<1>8. PICK e : e = [cl EXCEPT !.nsent = @ + 1, !.phase = phase]
  OBVIOUS
<1>9. /\ e.call = cl.call /\ e.link = cl.link /\ e.nsent = cl.nsent + 1
      /\ e.msgs = cl.msgs /\ e.astat = cl.astat /\ e.got = cl.got
  BY <1>3, <1>8 DEF ClientReps
<1>10. e \in ClientReps
  <2>1. PICK n \in Nat : n = cl.nsent + 1
    BY <1>3
  <2>2. e = [cl EXCEPT !.nsent = n, !.phase = phase]
    BY <1>3, <1>8, <2>1 DEF ClientReps
  <2> QED BY <1>2, <1>3, <2>1, <2>2, ZenonT(40) DEF ClientReps
<1>11. cl' \in ClientReps /\ Keeps(e, cl') /\ cl'.pc = "send" /\ cl'.sending = p
  BY <1>1, <1>2, <1>6, <1>8, <1>10, BeginSendEffect, SMTT(30)
<1>12. cl'.call = cl.call /\ cl'.link = cl.link /\ cl'.nsent = cl.nsent + 1 /\ Reads(cl, cl')
  BY <1>9, <1>11 DEF Keeps, Reads
<1>13. Sendable(cl', canc')
  BY <1>3, <1>6, <1>11, <1>12 DEF Sendable
<1>14. cl'.nsent # 0
  BY <1>3, <1>12
<1>15. Begins(cl'.sending) => cl.nsent = 0
  BY <1>3, <1>6, <1>11 DEF Begins
<1> QED BY <1>7, <1>11, <1>12, <1>13, <1>14, <1>15 DEF CallerEffect

\* rpc__cn_call_end: the association is given back.
LEMMA FinishEffect ==
  ASSUME ClientTypes, InCall, NEW c \in ClientReps, c.call = cl.call,
         NEW k \in Cancels, Finish(c, k)
  PROVE  EndEffect
<1>1. cl.call \in Calls /\ result \in [Calls -> Outcomes]
  BY DEF ClientTypes, ClientReps, InCall, Calls
<1>2. Outcome(c) \in Outcomes
  BY DEF Outcome, Outcomes
<1>3. result' \in [Calls -> Outcomes]
  BY <1>1, <1>2 DEF Finish
<1>4. canc' \in Cancels
  <2>1. PICK p, q \in BOOLEAN : canc' = [NoCancels EXCEPT !.pending = p, !.posted = k.posted,
                                                        !.proc = k.proc, !.timer = q]
    <3>1. /\ (k.pending \/ k.hadPending \/ k.local > 0) \in BOOLEAN
          /\ (k.timer /\ ~k.running) \in BOOLEAN
      OBVIOUS
    <3> QED BY <3>1 DEF Finish
  <2>2. k.posted \in Nat /\ k.proc \in Nat
    BY DEF Cancels
  <2>3. PICK j : j \in Cancels /\ j = NoCancels
    BY NoCancelsType
  <2>4. canc' = [j EXCEPT !.pending = p, !.posted = k.posted, !.proc = k.proc, !.timer = q]
    BY <2>1, <2>3
  <2> QED BY <2>2, <2>3, <2>4, ZenonT(60) DEF Cancels
<1>5. PICK a \in {"OPEN", "ACTIVE", "CALL_DONE_WAIT", "CLOSED"} :
        cl' = [NoCall EXCEPT !.call = c.call, !.rcvr = c.rcvr, !.ovf = c.ovf, !.assoc = a]
  BY DEF Finish, ClientReps
<1>6. c.call \in Nat /\ c.rcvr \in BOOLEAN /\ c.ovf \in Nat
  BY DEF ClientReps
<1>7. PICK d : d = cl' /\ d = [NoCall EXCEPT !.call = c.call, !.rcvr = c.rcvr, !.ovf = c.ovf, !.assoc = a]
  BY <1>5
<1>8. d.pc = "idle" /\ d.call = cl.call /\ d.link = 0 /\ d.got = <<>>
  BY <1>7 DEF NoCall
<1>9. d \in ClientReps
  <2>1. PICK e : e = NoCall
    OBVIOUS
  <2>2. e \in ClientReps
    BY <2>1, NoCallType
  <2>3. PICK k1 \in Nat, r \in BOOLEAN, o \in Nat : k1 = c.call /\ r = c.rcvr /\ o = c.ovf
    BY <1>6
  <2>4. PICK f : f = [e EXCEPT !.call = k1, !.rcvr = r, !.ovf = o]
    OBVIOUS
  <2>5. f \in ClientReps
    BY <2>2, <2>4, ZenonT(40) DEF ClientReps
  <2>6. d = [f EXCEPT !.assoc = a]
    BY <1>7, <2>1, <2>3, <2>4
  <2>7. ASSUME NEW b \in {"OPEN", "ACTIVE", "CALL_DONE_WAIT", "CLOSED"}
        PROVE  [f EXCEPT !.assoc = b] \in ClientReps
    BY <2>5, ZenonT(60) DEF ClientReps
  <2> QED BY <2>6, <2>7
<1> QED BY <1>3, <1>4, <1>7, <1>8, <1>9 DEF EndEffect

\* What follows a packet that went out, or did not.
LEMMA AfterSendEffect ==
  ASSUME ClientTypes, InSendmsg, NEW c \in ClientReps, NEW k \in Cancels, AfterSend(c, k),
         c.call = cl.call, c.link = cl.link, c.nsent = cl.nsent, c.pc = cl.pc,
         c.got = cl.got, c.msgs = cl.msgs, c.sending = cl.sending,
         c.astat = "ok" => cl.astat = "ok",
         Sendable(c, k)
  PROVE  CallerEffect \/ EndEffect
<1>1. InCall
  BY DEF InSendmsg, InCall
<1>2. c.then \in {"stub", "recv", "end"} /\ k.local \in Nat /\ k.count \in Nat
  BY DEF ClientReps, Cancels
<1>3. CASE c.sending.type = "alert"
  <2>1. PICK e, j : /\ ForwardThen(e, j, c.then) /\ result' = result
                    /\ e = [c EXCEPT !.err = c.status]
                    /\ j = [k EXCEPT !.local = @ - 1, !.count = @ + 1]
    BY <1>3 DEF AfterSend
  <2>2. e \in ClientReps
    BY <2>1, ZenonT(40) DEF ClientReps
  <2>3. /\ e.call = c.call /\ e.link = c.link /\ e.nsent = c.nsent /\ e.pc = c.pc
        /\ e.got = c.got /\ e.msgs = c.msgs /\ e.sending = c.sending /\ e.astat = c.astat
    BY <2>1 DEF ClientReps
  <2>4. k.local - 1 \in Nat
    BY <1>2, <1>3 DEF Sendable
  <2>5. PICK m \in Nat, n \in Nat : m = k.local - 1 /\ n = k.count + 1
    BY <1>2, <2>4
  <2>6. j = [k EXCEPT !.local = m, !.count = n]
    BY <2>1, <2>5 DEF Cancels
  <2>7. j \in Cancels
    BY <2>5, <2>6 DEF Cancels
  <2> QED BY <1>1, <1>2, <2>1, <2>2, <2>3, <2>7, ForwardsCancels, ZenonT(40)
<1>4. CASE c.sending.type = "orphaned"
  <2>1. PICK e : e = [c EXCEPT !.st = "FAILED"] /\ Finish(e, k)
    BY <1>4 DEF AfterSend
  <2>2. "FAILED" \in ClientCallStates
    BY ClientStates
  <2>3. e \in ClientReps
    BY <2>1, <2>2, ZenonT(40) DEF ClientReps
  <2>4. e.call = c.call
    BY <2>1 DEF ClientReps
  <2> QED BY <1>1, <2>1, <2>3, <2>4, FinishEffect
<1>5. CASE c.sending.type = "request" /\ ~c.sending.last
  <2>1. PICK err \in {"ok", "fault", "closed", "cancel_timeout"} :
          ForwardThen([c EXCEPT !.st = "REQUEST", !.err = err], k, "stub") /\ result' = result
    BY <1>5 DEF AfterSend, ClientReps
  <2>2. PICK e : ForwardThen(e, k, "stub") /\ e = [c EXCEPT !.st = "REQUEST", !.err = err]
    BY <2>1
  <2>3. "REQUEST" \in ClientCallStates
    BY ClientStates
  <2>4. e \in ClientReps
    BY <2>2, <2>3, ZenonT(40) DEF ClientReps
  <2>5. /\ e.call = c.call /\ e.link = c.link /\ e.nsent = c.nsent /\ e.pc = c.pc
        /\ e.got = c.got /\ e.msgs = c.msgs /\ e.sending = c.sending /\ e.astat = c.astat
    BY <2>2 DEF ClientReps
  <2> QED BY <1>1, <2>1, <2>2, <2>4, <2>5, ForwardsCancels
<1>6. CASE c.sending.type = "request" /\ c.sending.last
  <2>1. PICK st \in {"COMPLETED", "RESPONSE"} :
          /\ result' = result
          /\ IF c.status = "ok" THEN ForwardThen([c EXCEPT !.st = st], k, c.then)
             ELSE cl' = [c EXCEPT !.st = st, !.pc = "stub", !.err = c.status] /\ canc' = k
    <3>1. PICK st : st = IF Maybe(c.call) THEN "COMPLETED" ELSE "RESPONSE"
      OBVIOUS
    <3>2. PICK d : d = [c EXCEPT !.st = st]
      OBVIOUS
    <3>3. /\ result' = result
          /\ IF c.status = "ok" THEN ForwardThen(d, k, c.then)
             ELSE cl' = [d EXCEPT !.pc = "stub", !.err = c.status] /\ canc' = k
      BY <1>6, <3>1, <3>2 DEF AfterSend
    <3>4. [d EXCEPT !.pc = "stub", !.err = c.status]
            = [c EXCEPT !.st = st, !.pc = "stub", !.err = c.status]
      BY <3>2
    <3> QED BY <3>1, <3>2, <3>3, <3>4
  <2>2. st \in ClientCallStates
    BY <2>1, ClientStates
  <2>3. CASE c.status = "ok"
    <3>1. PICK e : ForwardThen(e, k, c.then) /\ e = [c EXCEPT !.st = st]
      BY <2>1, <2>3
    <3>2. e \in ClientReps
      BY <2>2, <3>1, ZenonT(40) DEF ClientReps
    <3>3. /\ e.call = c.call /\ e.link = c.link /\ e.nsent = c.nsent /\ e.pc = c.pc
          /\ e.got = c.got /\ e.msgs = c.msgs /\ e.sending = c.sending /\ e.astat = c.astat
      BY <3>1 DEF ClientReps
    <3> QED BY <1>1, <1>2, <2>1, <3>1, <3>2, <3>3, ForwardsCancels, ZenonT(60)
  <2>4. CASE c.status # "ok"
    <3>1. PICK e : e = cl' /\ e = [c EXCEPT !.st = st, !.pc = "stub", !.err = c.status]
      BY <2>1, <2>4
    <3>2. e \in ClientReps
      <4>1. c.status = "cancel_timeout"
        BY <2>4 DEF ClientReps
      <4>2. e = [c EXCEPT !.st = st, !.pc = "stub", !.err = "cancel_timeout"]
        BY <3>1, <4>1
      <4> QED BY <2>2, <4>2, ZenonT(40) DEF ClientReps
    <3>3. /\ e.call = c.call /\ e.link = c.link /\ e.nsent = c.nsent
          /\ e.got = c.got /\ e.msgs = c.msgs /\ e.astat = c.astat
      BY <3>1 DEF ClientReps
    <3>4. e.pc = "stub"
      BY <3>1 DEF ClientReps
    <3>5. Keeps(cl, e)
      BY <3>3, KeepsAll
    <3> QED BY <2>1, <2>4, <3>1, <3>2, <3>4, <3>5, GoesOn
  <2> QED BY <2>3, <2>4
<1> QED BY <1>3, <1>4, <1>5, <1>6 DEF Sendable

\* Where a step of the calling thread may happen, and what it does to the wire.
CallerWire ==
  /\ InCall /\ Alive /\ UNCHANGED <<up, s2c>>
  /\ \/ c2s' = c2s
     \/ cl.pc = "send" /\ cl'.pc = "sent" /\ c2s' = Append(c2s, cl.sending)

\* The steps of the client's stub
LEMMA StubSteps ==
  ASSUME ClientTypes,
         \/ CallTransmitBuffers \/ CallTransmitSends \/ CallTransmitFailed
         \/ CallTransceive \/ CallTransceiveFailed \/ CallReceive
  PROVE  CallerEffect
<1>1. /\ cl \in ClientReps /\ canc \in Cancels
      /\ "stub" \in {"stub", "recv", "end"} /\ "recv" \in {"stub", "recv", "end"}
      /\ "REQUEST" \in ClientCallStates
  BY ClientStates DEF ClientTypes
<1>2. cl.pc = "stub" /\ InCall
  BY DEF CallTransmitBuffers, CallTransmitSends, CallTransmitFailed, CallTransceive,
         CallTransceiveFailed, CallReceive, AtStub, InCall
<1>3. CASE CallTransmitBuffers
  <2>1. PICK e : e = [cl EXCEPT !.st = "REQUEST"]
    OBVIOUS
  <2>2. e \in ClientReps
    BY <1>1, <2>1 DEF ClientReps
  <2>3. /\ e.call = cl.call /\ e.link = cl.link /\ e.nsent = cl.nsent /\ e.pc = cl.pc
        /\ e.got = cl.got /\ e.msgs = cl.msgs /\ e.sending = cl.sending
        /\ e.astat = cl.astat
    BY <1>1, <2>1 DEF ClientReps
  <2>4. ForwardThen(e, canc, "stub") /\ result' = result
    BY <1>3, <2>1 DEF CallTransmitBuffers
  <2> QED BY <1>1, <1>2, <2>2, <2>3, <2>4, ForwardsCancels
<1>4. CASE CallTransmitSends
  <2>1. TransmitBuffers(FALSE) /\ result' = result
    BY <1>4 DEF CallTransmitSends
  <2> QED BY <1>2, <2>1, TransmitEffect
<1>5. CASE CallTransmitFailed
  <2>1. ForwardThen(cl, canc, "stub") /\ result' = result
    BY <1>5 DEF CallTransmitFailed
  <2> QED BY <1>1, <1>2, <2>1, ForwardsCancels
<1>6. CASE CallTransceive
  <2>1. TransmitBuffers(TRUE) /\ result' = result
    BY <1>6 DEF CallTransceive
  <2> QED BY <1>2, <2>1, TransmitEffect
<1>7. CASE CallTransceiveFailed
  <2>1. PICK e : e = [cl EXCEPT !.phase = "out"]
    OBVIOUS
  <2>2. e \in ClientReps
    BY <1>1, <2>1, ZenonT(60) DEF ClientReps
  <2>3. /\ e.call = cl.call /\ e.link = cl.link /\ e.nsent = cl.nsent /\ e.pc = cl.pc
        /\ e.got = cl.got /\ e.msgs = cl.msgs /\ e.sending = cl.sending
        /\ e.astat = cl.astat
    BY <1>1, <2>1 DEF ClientReps
  <2>4. CASE ForwardThen(e, canc, "recv") /\ result' = result
    BY <1>1, <1>2, <2>2, <2>3, <2>4, ForwardsCancels
  <2>5. CASE /\ cl' = [cl EXCEPT !.phase = "out", !.err = cl.status]
             /\ canc' = canc /\ result' = result
    <3>1. PICK d : d = cl' /\ d = [cl EXCEPT !.phase = "out", !.err = cl.status]
      BY <2>5
    <3>2. d \in ClientReps
      BY <1>1, <3>1, ZenonT(60) DEF ClientReps
    <3>3. /\ d.call = cl.call /\ d.link = cl.link /\ d.nsent = cl.nsent /\ d.pc = cl.pc
          /\ d.got = cl.got /\ d.msgs = cl.msgs /\ d.astat = cl.astat
      BY <1>1, <3>1 DEF ClientReps
    <3>4. Keeps(cl, d)
      BY <3>3, KeepsAll
    <3> QED BY <1>1, <1>2, <2>5, <3>1, <3>2, <3>3, <3>4, GoesOn
  <2> QED BY <1>7, <2>1, <2>4, <2>5 DEF CallTransceiveFailed
<1>8. CASE CallReceive
  <2>1. cl' = Receive(cl) /\ canc' = canc /\ result' = result
    BY <1>8 DEF CallReceive
  <2> QED BY <1>1, <2>1, ReceiveEffect, GoesOn
<1> QED BY <1>3, <1>4, <1>5, <1>6, <1>7, <1>8

\* The send of a packet, and the wait for one
LEMMA WaitSteps ==
  ASSUME ClientTypes, Sendmsg \/ Sent \/ SendmsgCancelled \/ Awake \/ SleepCancelled
  PROVE  CallerEffect \/ EndEffect
<1>1. /\ cl \in ClientReps /\ canc \in Cancels
      /\ InSendmsg => Sendable(cl, canc)
  BY DEF ClientTypes
<1>2. InCall
  BY DEF Sendmsg, Sent, SendmsgCancelled, Awake, SleepCancelled, InCall
<1>3. CASE Sendmsg
  <2>1. PICK d : /\ \E f \in BOOLEAN : d = [cl EXCEPT !.pc = "sent", !.failed = f]
                 /\ d = cl' /\ cl.pc = "send" /\ canc' = canc /\ result' = result
    <3>1. [cl EXCEPT !.pc = "sent"] = [cl EXCEPT !.pc = "sent", !.failed = cl.failed]
          /\ cl.failed \in BOOLEAN
      BY <1>1 DEF ClientReps
    <3> QED BY <1>3, <3>1 DEF Sendmsg
  <2>2. PICK f \in BOOLEAN : d = [cl EXCEPT !.pc = "sent", !.failed = f]
    BY <2>1
  <2>3. d \in ClientReps
    BY <1>1, <2>2, ZenonT(40) DEF ClientReps
  <2>4. /\ d.call = cl.call /\ d.link = cl.link /\ d.nsent = cl.nsent
        /\ d.got = cl.got /\ d.msgs = cl.msgs /\ d.astat = cl.astat
    BY <1>1, <2>2 DEF ClientReps
  <2>5. d.pc = "sent" /\ d.sending = cl.sending
    BY <1>1, <2>2 DEF ClientReps
  <2>6. Sendable(cl', canc')
    BY <1>1, <2>1, <2>4, <2>5 DEF Sendable, InSendmsg
  <2>7. Reads(cl, d)
    BY <2>4, KeepsAll DEF Keeps
  <2> QED BY <1>1, <2>1, <2>3, <2>4, <2>5, <2>6, <2>7 DEF CallerEffect
<1>4. CASE Sent
  <2>1. PICK c : c = IF cl.failed THEN [cl EXCEPT !.astat = "closed"] ELSE cl
    OBVIOUS
  <2>2. AfterSend(c, canc) /\ cl.pc = "sent"
    BY <1>4, <2>1 DEF Sent
  <2>3. c \in ClientReps
    BY <1>1, <2>1, ZenonT(60) DEF ClientReps
  <2>4. /\ c.call = cl.call /\ c.link = cl.link /\ c.nsent = cl.nsent /\ c.pc = cl.pc
        /\ c.got = cl.got /\ c.msgs = cl.msgs /\ c.sending = cl.sending
    BY <1>1, <2>1 DEF ClientReps
  <2>5. c.astat = "ok" => cl.astat = "ok"
    BY <1>1, <2>1 DEF ClientReps
  <2>6. InSendmsg /\ Sendable(c, canc)
    BY <1>1, <2>2, <2>4 DEF Sendable, InSendmsg
  <2> QED BY <1>1, <2>2, <2>3, <2>4, <2>5, <2>6, AfterSendEffect
<1>5. CASE SendmsgCancelled
  <2>1. /\ Catch(canc, cl.status) \in Cancels
        /\ Catch(canc, cl.status).local = canc.local + 1 /\ canc.local \in Nat
    BY <1>1, CancelTypes DEF Cancels
  <2>2. InSendmsg
    BY <1>5 DEF SendmsgCancelled, InSendmsg
  <2>3. CASE cl.status = "ok"
    <3>1. canc' = Catch(canc, cl.status) /\ cl' = cl /\ result' = result
      BY <1>5, <2>3 DEF SendmsgCancelled
    <3>2. Sendable(cl', canc')
      BY <1>1, <2>1, <2>2, <3>1 DEF Sendable
    <3>3. Reads(cl, cl')
      BY <3>1, KeepsAll DEF Keeps
    <3>4. cl.pc = "send"
      BY <1>5 DEF SendmsgCancelled
    <3> QED BY <1>1, <1>2, <2>1, <3>1, <3>2, <3>3, <3>4 DEF CallerEffect
  <2>4. CASE cl.status # "ok"
    <3>1. PICK c : c = [cl EXCEPT !.failed = TRUE] /\ AfterSend(c, Catch(canc, cl.status))
      BY <1>5, <2>4 DEF SendmsgCancelled
    <3>2. c \in ClientReps
      BY <1>1, <3>1 DEF ClientReps
    <3>3. /\ c.call = cl.call /\ c.link = cl.link /\ c.nsent = cl.nsent /\ c.pc = cl.pc
          /\ c.got = cl.got /\ c.msgs = cl.msgs /\ c.sending = cl.sending
          /\ c.astat = cl.astat
      BY <1>1, <3>1 DEF ClientReps
    <3>4. Sendable(c, Catch(canc, cl.status))
      BY <1>1, <2>1, <2>2, <3>3 DEF Sendable
    <3> QED BY <2>1, <2>2, <3>1, <3>2, <3>3, <3>4, AfterSendEffect
  <2> QED BY <2>3, <2>4
<1>6. CASE Awake
  <2>1. cl' = Receive(cl) /\ canc' = canc /\ result' = result
    BY <1>6 DEF Awake
  <2> QED BY <1>1, <2>1, ReceiveEffect, GoesOn
<1>7. CASE SleepCancelled
  <2>1. Catch(canc, cl.status) \in Cancels
    BY <1>1, CancelTypes
  <2>2. CASE cl.status = "ok"
    <3>1. ForwardThen(cl, Catch(canc, cl.status), "recv") /\ result' = result
      BY <1>7, <2>2 DEF SleepCancelled
    <3>2. "recv" \in {"stub", "recv", "end"}
      OBVIOUS
    <3> QED BY <1>1, <1>2, <2>1, <3>1, <3>2, ForwardsCancels
  <2>3. CASE cl.status # "ok"
    <3>1. /\ cl' = [cl EXCEPT !.pc = "stub", !.err = cl.status]
          /\ canc' = Catch(canc, cl.status) /\ result' = result
      BY <1>7, <2>3 DEF SleepCancelled
    <3>2. PICK d : d = cl' /\ d = [cl EXCEPT !.pc = "stub", !.err = cl.status]
      BY <3>1
    <3>3. d \in ClientReps
      BY <1>1, <3>2, ZenonT(60) DEF ClientReps
    <3>4. /\ d.call = cl.call /\ d.link = cl.link /\ d.nsent = cl.nsent
          /\ d.got = cl.got /\ d.msgs = cl.msgs /\ d.astat = cl.astat
      BY <1>1, <3>2 DEF ClientReps
    <3>5. d.pc = "stub"
      BY <1>1, <3>2 DEF ClientReps
    <3>6. Keeps(cl, d)
      BY <3>4, KeepsAll
    <3> QED BY <2>1, <3>1, <3>2, <3>3, <3>5, <3>6, GoesOn
  <2> QED BY <2>2, <2>3
<1> QED BY <1>3, <1>4, <1>5, <1>6, <1>7

\* rpc_call_end
LEMMA EndStep ==
  ASSUME ClientTypes, CallEnd
  PROVE  CallerEffect \/ EndEffect
<1>1. cl \in ClientReps /\ canc \in Cancels /\ cl.call \in Nat /\ InCall
  BY DEF ClientTypes, ClientReps, CallEnd, InCall
<1>2. CASE Finish(cl, canc)
  BY <1>1, <1>2, FinishEffect
<1>3. CASE cl' = BeginSend(cl, Orphaned(cl.call), "end") /\ UNCHANGED <<canc, result>>
  <2>1. /\ Orphaned(cl.call) \in Packets /\ Orphaned(cl.call).call = cl.call
        /\ Orphaned(cl.call).type = "orphaned"
    BY <1>1, ClientPackets, 0 \in Nat, FALSE \in BOOLEAN
  <2>2. "end" \in {"stub", "recv", "end"}
    OBVIOUS
  <2>3. /\ cl' \in ClientReps /\ Keeps(cl, cl') /\ cl'.pc = "send"
        /\ cl'.sending = Orphaned(cl.call)
    BY <1>1, <1>3, <2>1, <2>2, BeginSendEffect
  <2> QED BY <1>1, <1>3, <2>1, <2>3 DEF CallerEffect, Keeps, Sendable, Begins
<1> QED BY <1>2, <1>3 DEF CallEnd

\* Every step of the calling thread within a call
LEMMA CallerSteps ==
  ASSUME ClientTypes, CallerStep
  PROVE  CallerWire /\ (CallerEffect \/ EndEffect)
<1>1. CallerEffect \/ EndEffect
  BY StubSteps, WaitSteps, EndStep DEF CallerStep
<1>2. CASE Sendmsg
  <2>1. cl'.pc = "sent"
    BY <1>2 DEF Sendmsg, ClientTypes, ClientReps
  <2> QED BY <1>1, <1>2, <2>1 DEF CallerWire, Sendmsg, InCall
<1>3. CASE ~Sendmsg
  <2>1. Alive /\ InCall
    BY <1>3 DEF CallerStep, CallTransmitBuffers, CallTransmitSends, CallTransmitFailed,
         CallTransceive, CallTransceiveFailed, CallReceive, AtStub, Sent, SendmsgCancelled,
         Awake, SleepCancelled, CallEnd, InCall
  <2>2. UNCHANGED wireVars
    BY <1>3 DEF CallerStep, CallTransmitBuffers, CallTransmitSends, CallTransmitFailed,
         CallTransceive, CallTransceiveFailed, CallReceive, Sent, SendmsgCancelled,
         Awake, SleepCancelled, CallEnd
  <2> QED BY <1>1, <2>1, <2>2 DEF CallerWire, wireVars
<1> QED BY <1>2, <1>3

-----------------------------------------------------------------------------
(* The invariant, for the client's steps *)

ServerKeeps == UNCHANGED serverVars

\* Nothing of the server moves.
LEMMA ServerUntouched ==
  ASSUME CallInv, ServerKeeps, up' = up
  PROVE  ServerTypes' /\ Stages' /\ AssocTracksCalls' /\ Running' = Running
BY DEF CallInv, ServerKeeps, serverVars, ServerTypes, Stages, AssocTracksCalls, Running

\* A step of the calling thread within its call keeps the invariant.
LEMMA CallerKeepsInv ==
  ASSUME CallInv, CallerWire, CallerEffect, ServerKeeps
  PROVE  CallInv'
<1>1. /\ ex' = ex /\ sv' = sv /\ up' = up /\ s2c' = s2c
      /\ cl.pc # "idle" /\ Alive
      /\ c2s' = c2s \/ (cl.pc = "send" /\ cl'.pc = "sent" /\ c2s' = Append(c2s, cl.sending))
  BY DEF CallerWire, ServerKeeps, serverVars, InCall
<1>2. /\ cl \in ClientReps /\ cl.call \in Nat /\ cl.call # 0 /\ cl.call <= NCalls
      /\ cl.sending \in Packets /\ cl.link = cl.call
      /\ cl.pc = "send" => Sendable(cl, canc)
  BY <1>1 DEF CallInv, ClientTypes, ClientReps, InCall, InSendmsg
<1>3. ClientTypes'
  BY <1>2 DEF CallInv, ClientTypes, CallerEffect, InCall, InSendmsg
<1>4. WireTypes'
  BY <1>1, <1>2 DEF CallInv, WireTypes
<1>5. BeginsOnce'
  <2>1. Len(c2s) \in Nat /\ Len(s2c) \in Nat
    BY DEF CallInv, WireTypes
  <2>2. cl'.call = cl.call
    BY DEF CallerEffect
  <2>3. /\ \A i \in 1..Len(s2c') : s2c'[i].call \in 1..cl'.call
                                   /\ s2c'[i].type \in {"response", "fault"}
        /\ \A k \in Calls : k > cl'.call => ex'[k].pc = "none"
        /\ sv'.link # 0 => ex'[sv'.link].pc # "none"
    BY <1>1, <2>2 DEF CallInv, BeginsOnce
  <2>4. CASE c2s' = c2s
    <3>1. Unknown(cl.call)' = Unknown(cl.call)
      BY <1>1, <2>2, <2>4 DEF Unknown
    <3>2. InCall' /\ (cl'.nsent = 0 \/ (cl'.pc = "send" /\ Begins(cl'.sending)))
            => Unknown(cl.call)'
      BY <1>1, <3>1 DEF CallInv, BeginsOnce, CallerEffect, InCall
    <3> QED BY <1>1, <2>2, <2>3, <2>4, <3>2 DEF CallInv, BeginsOnce, Unknown
  <2>5. CASE cl.pc = "send" /\ cl'.pc = "sent" /\ c2s' = Append(c2s, cl.sending)
    <3>1. /\ Len(c2s') = Len(c2s) + 1 /\ c2s'[Len(c2s) + 1] = cl.sending
          /\ \A i \in 1..Len(c2s') : (i \in 1..Len(c2s) /\ c2s'[i] = c2s[i]) \/ i = Len(c2s) + 1
          /\ \A i \in 1..Len(c2s) : c2s'[i] = c2s[i]
      BY <1>2, <2>1, <2>5 DEF CallInv, WireTypes
    <3>2. cl.sending.call = cl.call /\ (Begins(cl.sending) => cl.nsent # 0)
      BY <1>2, <2>5 DEF Sendable
    <3>3. Begins(cl.sending) => Unknown(cl.call)
      BY <1>1, <2>5 DEF CallInv, BeginsOnce, InCall
    <3>4. \A i \in 1..Len(c2s') : c2s'[i].call \in 1..cl'.call
      BY <1>2, <2>2, <3>1, <3>2 DEF CallInv, BeginsOnce
    <3>5. \A i \in 1..Len(c2s') : Begins(c2s'[i]) => ex'[c2s'[i].call].pc = "none"
      BY <1>1, <3>1, <3>2, <3>3 DEF CallInv, BeginsOnce, Unknown
    <3>6. \A i, j \in 1..Len(c2s') :
            Begins(c2s'[i]) /\ Begins(c2s'[j]) /\ c2s'[i].call = c2s'[j].call => i = j
      <4> TAKE i, j \in 1..Len(c2s')
      <4> HAVE Begins(c2s'[i]) /\ Begins(c2s'[j]) /\ c2s'[i].call = c2s'[j].call
      <4>1. CASE i \in 1..Len(c2s) /\ j \in 1..Len(c2s)
        BY <4>1, <3>1 DEF CallInv, BeginsOnce
      <4>2. CASE i = Len(c2s) + 1 /\ j \in 1..Len(c2s)
        BY <4>2, <3>1, <3>2, <3>3 DEF Unknown
      <4>3. CASE j = Len(c2s) + 1 /\ i \in 1..Len(c2s)
        BY <4>3, <3>1, <3>2, <3>3 DEF Unknown
      <4> QED BY <3>1, <4>1, <4>2, <4>3
    <3>7. cl'.nsent = 0 => Unknown(cl.call)'
      <4>1. SUFFICES ASSUME cl'.nsent = 0 PROVE Unknown(cl.call)'
        OBVIOUS
      <4>2. cl.nsent = 0
        BY <4>1 DEF CallerEffect
      <4>3. Unknown(cl.call) /\ ~Begins(cl.sending)
        BY <1>1, <3>2, <4>2 DEF CallInv, BeginsOnce, InCall
      <4>4. PICK k : k = cl.call /\ cl'.call = k
        BY <2>2
      <4>5. \A i \in 1..Len(c2s') : Begins(c2s'[i]) => c2s'[i].call # k
        BY <3>1, <4>3, <4>4 DEF Unknown
      <4> QED BY <1>1, <4>3, <4>4, <4>5 DEF Unknown
    <3> QED BY <2>2, <2>3, <2>5, <3>4, <3>5, <3>6, <3>7 DEF BeginsOnce, InCall, Unknown
  <2> QED BY <1>1, <2>4, <2>5
<1>6. Stream' /\ OwnResponse'
  <2>1. PICK a, b \in Nat : /\ Queued(cl.msgs, cl.call, cl.astat)
                            /\ Runs("response", cl.msgs, cl.call, Len(cl.got), a)
                            /\ Runs("response", s2c, cl.call, a, b)
                            /\ up => Answered(ex[cl.call], cl.call, b)
    BY <1>1 DEF CallInv, Stream, InCall
  <2>2. cl' \in ClientReps /\ Reads(cl, cl') /\ cl'.call = cl.call
    BY DEF CallerEffect
  <2>3. PICK d : d = cl'
    OBVIOUS
  <2>4. InOrder(cl.got, cl.call)
    BY DEF CallInv, OwnResponse
  <2>5. /\ Queued(d.msgs, cl.call, d.astat) /\ Runs("response", d.msgs, cl.call, Len(d.got), a)
        /\ InOrder(d.got, cl.call)
    BY <1>2, <2>1, <2>2, <2>3, <2>4, ReadsInOrder
  <2>6. OwnResponse'
    BY <2>2, <2>3, <2>5 DEF OwnResponse
  <2>7. Stream'
    BY <1>1, <2>1, <2>2, <2>3, <2>5 DEF Stream
  <2> QED BY <2>6, <2>7
<1> QED BY <1>1, <1>3, <1>4, <1>5, <1>6, ServerUntouched DEF CallInv

\* The end of a call keeps the invariant.
LEMMA EndKeepsInv ==
  ASSUME CallInv, CallerWire, EndEffect, ServerKeeps
  PROVE  CallInv'
<1>1. /\ ex' = ex /\ sv' = sv /\ up' = up /\ s2c' = s2c /\ c2s' = c2s
      /\ cl'.pc = "idle" /\ cl'.call = cl.call /\ cl'.link = 0 /\ cl'.got = <<>>
  BY DEF CallerWire, EndEffect, ServerKeeps, serverVars
<1>2. ClientTypes'
  BY <1>1 DEF CallInv, ClientTypes, EndEffect, InCall, InSendmsg
<1>3. WireTypes'
  BY <1>1 DEF CallInv, WireTypes
<1>4. BeginsOnce'
  BY <1>1 DEF CallInv, BeginsOnce, InCall
<1>5. Stream'
  BY <1>1 DEF Stream, InCall
<1>6. OwnResponse'
  BY <1>1 DEF OwnResponse, InOrder
<1> QED BY <1>1, <1>2, <1>3, <1>4, <1>5, <1>6, ServerUntouched DEF CallInv

\* What the receiver thread makes of a packet (cncclsm.c).
LEMMA ReceiverEvents ==
  ASSUME NEW s \in ClientCallStates
  PROVE  /\ ClientLegal(s, "recv") => ClientDoes(s, "recv", "handle_recv_frag")
         /\ ClientLegal(s, "fault") => ClientDoes(s, "fault", "raise_fault")
BY DEF ClientCallStates, ClientLegal, ClientDoes, ClientCallTable

\* The head of a queue of packets, and what follows it
LEMMA TailPackets ==
  ASSUME NEW s \in Seq(Packets), s # <<>>
  PROVE  /\ Head(s) \in Packets /\ Head(s) = s[1] /\ 1 \in 1..Len(s)
         /\ Tail(s) \in Seq(Packets)
         /\ \A i \in 1..Len(Tail(s)) : i \in Nat /\ i + 1 \in 1..Len(s) /\ i + 1 # 1 /\ Tail(s)[i] = s[i + 1]
OBVIOUS

\* A packet comes to the end of a queue.
LEMMA AppendPackets ==
  ASSUME NEW s \in Seq(Packets), NEW p \in Packets
  PROVE  /\ Append(s, p) \in Seq(Packets)
         /\ \A i \in 1..Len(Append(s, p)) :
              Append(s, p)[i] = p \/ (i \in 1..Len(s) /\ Append(s, p)[i] = s[i])
OBVIOUS

\* A step of the receiver thread, of another thread or of the timer leaves the
\* calling thread where it is.
LEMMA AsideKeepsInv ==
  ASSUME CallInv, ServerKeeps, UNCHANGED <<up, c2s, result>>,
         s2c' = s2c \/ (s2c # <<>> /\ s2c' = Tail(s2c)),
         cl' \in ClientReps, canc' \in Cancels, canc'.local = canc.local,
         cl'.pc = cl.pc, cl'.call = cl.call, cl'.link = cl.link, cl'.nsent = cl.nsent,
         cl'.sending = cl.sending, cl'.got = cl.got, Stream'
  PROVE  CallInv'
<1>1. ex' = ex /\ sv' = sv /\ up' = up /\ c2s' = c2s /\ result' = result
  BY DEF ServerKeeps, serverVars
<1>2. ClientTypes'
  BY <1>1 DEF CallInv, ClientTypes, InCall, InSendmsg, Sendable
<1>3. s2c \in Seq(Packets)
  BY DEF CallInv, WireTypes
<1>4. /\ s2c' \in Seq(Packets)
      /\ \A i \in 1..Len(s2c') : \E j \in 1..Len(s2c) : s2c'[i] = s2c[j]
  <2>1. CASE s2c' = s2c
    BY <2>1, <1>3
  <2>2. CASE s2c # <<>> /\ s2c' = Tail(s2c)
    BY <2>2, <1>3, TailPackets
  <2> QED BY <2>1, <2>2
<1>5. WireTypes'
  BY <1>1, <1>4 DEF CallInv, WireTypes
<1>6. \A i \in 1..Len(s2c') : s2c'[i].call \in 1..cl.call /\ s2c'[i].type \in {"response", "fault"}
  BY <1>4 DEF CallInv, BeginsOnce
<1>7. BeginsOnce'
  BY <1>1, <1>6 DEF CallInv, BeginsOnce, InCall, Unknown
<1>8. OwnResponse'
  BY <1>1 DEF CallInv, OwnResponse
<1> QED BY <1>1, <1>2, <1>5, <1>7, <1>8, ServerUntouched DEF CallInv

\* A packet for the call is queued for its caller, a packet of another call is not.
LEMMA QueueKeepsStream ==
  ASSUME CallInv, ServerKeeps, up' = up, s2c # <<>>, s2c' = Tail(s2c),
         cl'.pc = cl.pc, cl'.call = cl.call, cl'.got = cl.got, cl'.astat = cl.astat,
         cl'.fatal = cl.fatal,
         IF ForCall(Head(s2c)) THEN cl'.msgs = Append(cl.msgs, Head(s2c))
         ELSE cl'.msgs = cl.msgs
  PROVE  Stream'
<1>1. SUFFICES ASSUME InCall, Alive
               PROVE  Stream'
  BY DEF Stream, InCall, Alive
<1>2. PICK a, b \in Nat : /\ Queued(cl.msgs, cl.call, cl.astat)
                          /\ Runs("response", cl.msgs, cl.call, Len(cl.got), a)
                          /\ Runs("response", s2c, cl.call, a, b)
                          /\ up => Answered(ex[cl.call], cl.call, b)
  BY <1>1 DEF CallInv, Stream
<1>3. /\ cl \in ClientReps /\ cl.call \in Nat /\ cl.msgs \in Seq(Packets) /\ Len(cl.got) \in Nat
      /\ s2c \in Seq(Packets) /\ cl.link = cl.call /\ cl.call # 0
  BY <1>1 DEF CallInv, ClientTypes, ClientReps, WireTypes
<1> DEFINE p == Head(s2c)
<1>4. p \in Packets /\ p.type \in {"response", "fault"}
  BY <1>3, TailPackets DEF CallInv, BeginsOnce
<1>5. ForCall(p) <=> p.call = cl.call
  BY <1>3 DEF ForCall
<1>6. ex' = ex
  BY DEF ServerKeeps, serverVars
<1>7. CASE ForCall(p) /\ p.type = "response"
  <2>1. p.n = a + 1 /\ Runs("response", Tail(s2c), cl.call, a + 1, b)
    BY <1>2, <1>3, <1>5, <1>7, RunsTail
  <2>2. Runs("response", Append(cl.msgs, p), cl.call, Len(cl.got), a + 1)
    BY <1>2, <1>3, <1>4, <1>5, <1>7, <2>1, RunsAppend
  <2>3. Queued(Append(cl.msgs, p), cl.call, cl.astat)
    BY <1>2, <1>3, <1>4, <1>5, <1>7, AppendPackets, SMTT(30) DEF Queued
  <2>4. cl'.msgs = Append(cl.msgs, p) /\ a + 1 \in Nat
    BY <1>7
  <2> HIDE DEF p
  <2> QED BY <1>2, <1>6, <2>1, <2>2, <2>3, <2>4 DEF Stream
<1>8. CASE ForCall(p) /\ p.type # "response"
  <2>1. Runs("response", Tail(s2c), cl.call, a, b)
    BY <1>2, <1>3, <1>8, RunsTailOther
  <2>2. Runs("response", Append(cl.msgs, p), cl.call, Len(cl.got), a)
    BY <1>2, <1>3, <1>4, <1>8, RunsAppendOther
  <2>3. Queued(Append(cl.msgs, p), cl.call, cl.astat)
    BY <1>2, <1>3, <1>4, <1>5, <1>8, AppendPackets, SMTT(30) DEF Queued
  <2>4. cl'.msgs = Append(cl.msgs, p)
    BY <1>8
  <2> HIDE DEF p
  <2> QED BY <1>2, <1>6, <2>1, <2>2, <2>3, <2>4 DEF Stream
<1>9. CASE ~ForCall(p)
  <2>1. Runs("response", Tail(s2c), cl.call, a, b)
    BY <1>2, <1>3, <1>5, <1>9, RunsTailOther
  <2>2. cl'.msgs = cl.msgs
    BY <1>9
  <2> QED BY <1>2, <1>6, <2>1, <2>2 DEF Stream
<1> QED BY <1>7, <1>8, <1>9

\* The calling thread and its call stay where they are; packets may be read ahead.
Beside(c, d) ==
  /\ d.pc = c.pc /\ d.call = c.call /\ d.link = c.link /\ d.st = c.st /\ d.phase = c.phase
  /\ d.nsent = c.nsent /\ d.sending = c.sending /\ d.fatal = c.fatal
  /\ d.got = c.got /\ d.msgs = c.msgs /\ d.astat = c.astat /\ d.status = c.status
  /\ d.err = c.err /\ d.gotlast = c.gotlast

\* What the receiver thread does with the packet at the head
Handles(c, p) ==
  \/ ~ForCall(p) /\ cl' = c /\ canc' = canc
  \/ /\ ForCall(p) /\ canc' = canc
     /\ ~ClientLegal(cl.st, IF p.type = "response" THEN "recv" ELSE "fault")
     /\ cl' = [c EXCEPT !.fatal = IF p.type = "response" THEN "recv" ELSE "fault"]
  \/ ForCall(p) /\ ClientDoes(cl.st, "recv", "handle_recv_frag") /\ p.type = "response"
                /\ HandleRecvFrag(c, p)
  \/ ForCall(p) /\ ClientDoes(cl.st, "fault", "raise_fault") /\ p.type # "response"
                /\ RaiseFault(c, p)

\* No state answers a response with raise_fault or a fault with handle_recv_frag.
LEMMA ReceiverActions ==
  ASSUME NEW s \in ClientCallStates
  PROVE  ~ClientDoes(s, "recv", "raise_fault") /\ ~ClientDoes(s, "fault", "handle_recv_frag")
BY DEF ClientCallStates, ClientLegal, ClientDoes, ClientCallTable

\* The packet comes from the socket or from what was read before.
LEMMA ReceivesFrom ==
  ASSUME CallInv, ClientReceives
  PROVE  /\ s2c \in Seq(Packets) /\ s2c # <<>> /\ s2c' = Tail(s2c)
         /\ UNCHANGED <<up, c2s, result>>
         /\ \E c \in ClientReps :
              /\ Beside(cl, c) /\ Handles(c, Head(s2c))
              /\ c.ovf \in Nat /\ c.ovf \in ReadAhead(cl.ovf, s2c)
<1>1. /\ cl \in ClientReps /\ cl.ovf \in Nat /\ s2c \in Seq(Packets) /\ s2c # <<>>
      /\ s2c' = Tail(s2c) /\ UNCHANGED <<up, c2s, result>> /\ cl.st \in ClientCallStates
  BY DEF CallInv, ClientTypes, ClientReps, WireTypes, ClientReceives, Receivable
<1>2. PICK p : p = Head(s2c)
  OBVIOUS
<1>3. PICK n \in ReadAhead(cl.ovf, s2c) :
        LET e == IF p.type = "response" THEN "recv" ELSE "fault"
            c == [cl EXCEPT !.ovf = n]
        IN  CASE ~ForCall(p) -> cl' = c /\ UNCHANGED canc
              [] ForCall(p) /\ ~ClientLegal(cl.st, e) -> cl' = [c EXCEPT !.fatal = e] /\ UNCHANGED canc
              [] ForCall(p) /\ ClientDoes(cl.st, e, "handle_recv_frag") -> HandleRecvFrag(c, p)
              [] ForCall(p) /\ ClientDoes(cl.st, e, "raise_fault") -> RaiseFault(c, p)
  BY <1>2 DEF ClientReceives
<1>4. n \in Nat
  <2>1. Len(s2c) \in Nat /\ Len(s2c) >= 1
    BY <1>1
  <2> QED BY <1>1, <2>1 DEF ReadAhead
<1>5. PICK c : c = [cl EXCEPT !.ovf = n]
  OBVIOUS
<1>6. c \in ClientReps /\ c.ovf = n
  BY <1>1, <1>4, <1>5 DEF ClientReps
<1>7. Beside(cl, c)
  <2>1. /\ c.pc = cl.pc /\ c.call = cl.call /\ c.link = cl.link /\ c.st = cl.st
        /\ c.phase = cl.phase /\ c.nsent = cl.nsent /\ c.sending = cl.sending
    BY <1>1, <1>5 DEF ClientReps
  <2>2. /\ c.fatal = cl.fatal /\ c.got = cl.got /\ c.msgs = cl.msgs /\ c.astat = cl.astat
        /\ c.status = cl.status /\ c.err = cl.err /\ c.gotlast = cl.gotlast
    BY <1>1, <1>5 DEF ClientReps
  <2> QED BY <2>1, <2>2 DEF Beside
<1>8. Handles(c, p)
  <2>1. CASE ~ForCall(p)
    BY <1>3, <1>5, <2>1 DEF Handles
  <2>2. CASE ForCall(p) /\ p.type = "response"
    <3>1. CASE ~ClientLegal(cl.st, "recv")
      BY <1>3, <1>5, <2>2, <3>1 DEF Handles, ClientDoes
    <3>2. CASE ClientLegal(cl.st, "recv")
      <4>1. /\ ClientDoes(cl.st, "recv", "handle_recv_frag")
            /\ ~ClientDoes(cl.st, "recv", "raise_fault")
        BY <1>1, <3>2, ReceiverEvents, ReceiverActions
      <4> QED BY <1>3, <1>5, <2>2, <3>2, <4>1 DEF Handles
    <3> QED BY <3>1, <3>2
  <2>3. CASE ForCall(p) /\ p.type # "response"
    <3>1. CASE ~ClientLegal(cl.st, "fault")
      BY <1>3, <1>5, <2>3, <3>1 DEF Handles, ClientDoes
    <3>2. CASE ClientLegal(cl.st, "fault")
      <4>1. /\ ClientDoes(cl.st, "fault", "raise_fault")
            /\ ~ClientDoes(cl.st, "fault", "handle_recv_frag")
        BY <1>1, <3>2, ReceiverEvents, ReceiverActions
      <4> QED BY <1>3, <1>5, <2>3, <3>2, <4>1 DEF Handles
    <3> QED BY <3>1, <3>2
  <2> QED BY <2>1, <2>2, <2>3
<1> QED BY <1>1, <1>2, <1>3, <1>4, <1>6, <1>7, <1>8

\* What the server says of cancels leaves those not yet forwarded.
LEMMA CancelsUpTypes ==
  ASSUME CallInv, NEW p \in Packets
  PROVE  CancelsUp(p) \in Cancels /\ CancelsUp(p).local = canc.local
<1>1. canc \in Cancels /\ p.last \in BOOLEAN
  BY DEF CallInv, ClientTypes, Packets
<1>2. CASE ~p.last
  BY <1>1, <1>2 DEF CancelsUp
<1>3. CASE p.last
  <2>1. PICK had \in BOOLEAN, over \in BOOLEAN :
          CancelsUp(p) = StopTimer([canc EXCEPT !.hadPending = had, !.crossed = over])
    <3>1. /\ (canc.hadPending \/ canc.count > p.alerts \/ p.alert) \in BOOLEAN
          /\ (InSendmsg /\ cl.sending.type = "alert") \in BOOLEAN
      OBVIOUS
    <3> QED BY <1>3, <3>1 DEF CancelsUp
  <2>2. PICK d : d = [canc EXCEPT !.hadPending = had, !.crossed = over]
    OBVIOUS
  <2>3. d \in Cancels
    BY <1>1, <2>2 DEF Cancels
  <2>4. d.local = canc.local
    BY <1>1, <2>2 DEF Cancels
  <2> QED BY <2>1, <2>2, <2>3, <2>4, CancelTypes
<1> QED BY <1>1, <1>2, <1>3

\* The receiver thread of the client hands on a packet.
LEMMA ReceivesKeepsInv ==
  ASSUME CallInv, ServerKeeps, ClientReceives
  PROVE  CallInv'
<1> DEFINE p == Head(s2c)
<1>1. /\ s2c \in Seq(Packets) /\ UNCHANGED <<up, c2s, result>> /\ s2c # <<>> /\ s2c' = Tail(s2c)
  BY ReceivesFrom
<1>2. PICK c \in ClientReps : Beside(cl, c) /\ Handles(c, Head(s2c))
  BY ReceivesFrom
<1>3. p \in Packets
  BY <1>1, TailPackets
<1>4. /\ c.msgs \in Seq(Packets) /\ cl.st \in ClientCallStates /\ canc \in Cancels
      /\ "COMPLETED" \in ClientCallStates /\ "RESPONSE" \in ClientCallStates
      /\ "FAILED" \in ClientCallStates
  BY ClientStates DEF ClientReps, CallInv, ClientTypes
<1>5. Append(c.msgs, p) \in Seq(Packets)
  BY <1>3, <1>4, AppendPackets
<1>6. CancelsUp(p) \in Cancels /\ CancelsUp(p).local = canc.local
  BY <1>3, CancelsUpTypes
<1>7. ASSUME ForCall(p), NEW f \in {"recv", "fault"}, cl' = [c EXCEPT !.fatal = f], canc' = canc
      PROVE  CallInv'
  <2>1. PICK d : d = cl' /\ d = [c EXCEPT !.fatal = f]
    BY <1>7
  <2>2. d \in ClientReps
    <3>1. f \in {"none", "local_alert", "recv", "fault"}
      BY <1>7
    <3>2. [c EXCEPT !.fatal = f] \in ClientReps
      BY <3>1, ClientFields
    <3> QED BY <2>1, <3>2
  <2>3. /\ d.pc = c.pc /\ d.call = c.call /\ d.link = c.link /\ d.nsent = c.nsent
        /\ d.sending = c.sending /\ d.got = c.got
    BY <2>1 DEF ClientReps
  <2>4. d.fatal # "none"
    BY <2>1 DEF ClientReps
  <2>5. Stream'
    BY <2>1, <2>4 DEF Stream, Alive
  <2> QED BY <1>1, <1>2, <1>4, <1>7, <2>1, <2>2, <2>3, <2>5, AsideKeepsInv DEF Beside
<1>8. CASE ForCall(p) /\ (HandleRecvFrag(c, p) \/ RaiseFault(c, p))
  <2>1. PICK st \in ClientCallStates :
          cl' = [c EXCEPT !.st = st, !.msgs = Append(@, p)] /\ canc' = CancelsUp(p)
    BY <1>4, <1>8 DEF HandleRecvFrag, RaiseFault
  <2>2. PICK m \in Seq(Packets) : m = Append(c.msgs, p)
    BY <1>5
  <2>3. PICK d : d = cl' /\ d = [c EXCEPT !.st = st, !.msgs = m]
    BY <2>1, <2>2
  <2>4. d \in ClientReps
    BY <2>3, ZenonT(60) DEF ClientReps
  <2>5. /\ d.pc = c.pc /\ d.call = c.call /\ d.link = c.link /\ d.nsent = c.nsent
        /\ d.sending = c.sending /\ d.got = c.got
    BY <2>3 DEF ClientReps
  <2>6. d.astat = c.astat /\ d.fatal = c.fatal /\ d.msgs = m
    BY <2>3 DEF ClientReps
  <2>7. Stream'
    BY <1>1, <1>2, <1>8, <2>2, <2>3, <2>5, <2>6, QueueKeepsStream DEF Beside
  <2> QED BY <1>1, <1>2, <1>6, <2>1, <2>3, <2>4, <2>5, <2>7, AsideKeepsInv DEF Beside
<1>9. CASE ~ForCall(p) /\ cl' = c /\ canc' = canc
  <2>1. Stream'
    BY <1>1, <1>2, <1>9, QueueKeepsStream DEF Beside
  <2> QED BY <1>1, <1>2, <1>4, <1>9, <2>1, AsideKeepsInv DEF Beside
<1> QED BY <1>2, <1>7, <1>8, <1>9 DEF Handles

\* The client's end of a connection that has gone
LEMMA DisconnectsKeepsInv ==
  ASSUME CallInv, ServerKeeps, ClientDisconnects
  PROVE  CallInv'
<1>1. /\ cl \in ClientReps /\ canc \in Cancels /\ cl.msgs \in Seq(Packets)
      /\ cl.call \in Nat /\ Len(cl.got) \in Nat
      /\ cl.assoc \in {"OPEN", "ACTIVE", "CALL_DONE_WAIT", "CLOSED"}
      /\ UNCHANGED <<up, c2s, s2c, canc, result>>
  BY DEF CallInv, ClientTypes, ClientReps, ClientDisconnects, wireVars
<1>2. PICK assoc, m : /\ cl' = [cl EXCEPT !.rcvr = FALSE, !.astat = "closed",
                                        !.assoc = assoc, !.msgs = m]
                      /\ assoc = IF cl.assoc = "ACTIVE" THEN "CALL_DONE_WAIT" ELSE "CLOSED"
                      /\ m = IF cl.assoc = "ACTIVE" THEN Append(cl.msgs, Dummy) ELSE cl.msgs
  BY <1>1 DEF ClientDisconnects, ClientReps
<1>3. m \in Seq(Packets) /\ assoc \in {"CALL_DONE_WAIT", "CLOSED"}
  BY <1>1, <1>2, AppendPackets, DummyType
<1>4. PICK d : d = cl' /\ d = [cl EXCEPT !.rcvr = FALSE, !.astat = "closed",
                                       !.assoc = assoc, !.msgs = m]
  BY <1>2
<1>5. d \in ClientReps
  <2>1. cl \in ClientReps
    BY DEF CallInv, ClientTypes
  <2>2. PICK a \in {"CALL_DONE_WAIT", "CLOSED"}, q \in Seq(Packets) :
          d = [cl EXCEPT !.rcvr = FALSE, !.astat = "closed", !.assoc = a, !.msgs = q]
    BY <1>3, <1>4
  <2> QED BY <2>1, <2>2, ZenonT(60) DEF ClientReps
<1>6. /\ d.pc = cl.pc /\ d.call = cl.call /\ d.link = cl.link /\ d.nsent = cl.nsent
      /\ d.sending = cl.sending /\ d.got = cl.got
  BY <1>1, <1>4 DEF ClientReps
<1>7. d.astat = "closed" /\ d.msgs = m /\ d.fatal = cl.fatal
  BY <1>1, <1>4 DEF ClientReps
<1>8. Stream'
  <2>1. SUFFICES ASSUME InCall, Alive
                 PROVE  Stream'
    BY <1>4, <1>6, <1>7 DEF Stream, InCall, Alive
  <2>2. PICK a, b \in Nat : /\ Queued(cl.msgs, cl.call, cl.astat)
                            /\ Runs("response", cl.msgs, cl.call, Len(cl.got), a)
                            /\ Runs("response", s2c, cl.call, a, b)
                            /\ up => Answered(ex[cl.call], cl.call, b)
    BY <2>1 DEF CallInv, Stream
  <2>3. \A i \in 1..Len(m) : m[i] = Dummy \/ (i \in 1..Len(cl.msgs) /\ m[i] = cl.msgs[i])
    BY <1>1, <1>2, AppendPackets, DummyType
  <2>4. Queued(m, cl.call, "closed")
    BY <2>2, <2>3 DEF Queued
  <2>5. Runs("response", m, cl.call, Len(cl.got), a)
    BY <1>1, <1>2, <2>2, RunsAppendOther, DummyType
  <2>6. ex' = ex
    BY DEF ServerKeeps, serverVars
  <2> QED BY <1>1, <1>4, <1>6, <1>7, <2>2, <2>4, <2>5, <2>6 DEF Stream
<1> QED BY <1>1, <1>4, <1>5, <1>6, <1>8, AsideKeepsInv

\* Cancels from outside, and the timer
LEMMA CancelsKeepInv ==
  ASSUME CallInv, ServerKeeps, PostCancel \/ TimerFires \/ CancelTimer
  PROVE  CallInv'
<1>1. /\ cl \in ClientReps /\ canc \in Cancels /\ cl.call \in Nat
      /\ UNCHANGED <<up, c2s, s2c, result>>
  BY DEF CallInv, ClientTypes, ClientReps, PostCancel, TimerFires, CancelTimer, wireVars
<1>2. cl' = cl \/ cl' = [cl EXCEPT !.status = "cancel_timeout"]
  BY DEF PostCancel, TimerFires, CancelTimer
<1>3. PICK d : d = cl' /\ (d = cl \/ d = [cl EXCEPT !.status = "cancel_timeout"])
  BY <1>2
<1>4. d \in ClientReps
  <2>1. ASSUME d = [cl EXCEPT !.status = "cancel_timeout"]
        PROVE  d \in ClientReps
    BY <1>1, <2>1, ZenonT(60) DEF ClientReps
  <2> QED BY <1>1, <1>3, <2>1
<1>5. /\ d.pc = cl.pc /\ d.call = cl.call /\ d.link = cl.link /\ d.nsent = cl.nsent
      /\ d.sending = cl.sending /\ d.got = cl.got
  BY <1>1, <1>3 DEF ClientReps
<1>6. d.astat = cl.astat /\ d.msgs = cl.msgs /\ d.fatal = cl.fatal
  BY <1>1, <1>3 DEF ClientReps
<1>7. Stream'
  <2>1. ex' = ex
    BY DEF ServerKeeps, serverVars
  <2> QED BY <1>1, <1>3, <1>5, <1>6, <2>1 DEF CallInv, Stream, InCall, Alive
<1>8. canc' \in Cancels /\ canc'.local = canc.local
  <2>1. CASE PostCancel
    <3>1. PICK n \in Nat : n = canc.posted + 1
      BY <1>1 DEF Cancels
    <3>2. canc' = [canc EXCEPT !.pending = TRUE, !.posted = n]
      BY <1>1, <2>1, <3>1 DEF PostCancel, Cancels
    <3>3. canc' \in Cancels
      BY <1>1, <3>2 DEF Cancels
    <3> QED BY <1>1, <3>2, <3>3 DEF Cancels
  <2>2. CASE TimerFires
    <3>1. canc' = [canc EXCEPT !.timer = FALSE, !.proc = cl.call]
      BY <2>2 DEF TimerFires
    <3>2. canc' \in Cancels
      BY <1>1, <3>1 DEF Cancels
    <3> QED BY <1>1, <3>1, <3>2 DEF Cancels
  <2>3. CASE CancelTimer
    <3>1. PICK t \in BOOLEAN :
            \/ canc' = [canc EXCEPT !.pending = TRUE, !.running = FALSE,
                                    !.hadPending = TRUE, !.proc = 0, !.timedOut = t]
            \/ canc' = [canc EXCEPT !.pending = TRUE, !.proc = 0]
      <4>1. (canc.proc = cl.call) \in BOOLEAN
        OBVIOUS
      <4> QED BY <2>3, <4>1 DEF CancelTimer
    <3>2. canc \in Cancels
      BY DEF CallInv, ClientTypes
    <3>3. PICK k : k = canc'
      OBVIOUS
    <3>4. k \in Cancels
      <4>1. CASE k = [canc EXCEPT !.pending = TRUE, !.proc = 0]
        BY <3>2, <4>1 DEF Cancels
      <4>2. CASE k = [canc EXCEPT !.pending = TRUE, !.running = FALSE,
                                  !.hadPending = TRUE, !.proc = 0, !.timedOut = t]
        BY <3>2, <4>2 DEF Cancels
      <4> QED BY <3>1, <3>3, <4>1, <4>2
    <3>5. k.local = canc.local
      BY <3>1, <3>2, <3>3 DEF Cancels
    <3> QED BY <3>3, <3>4, <3>5
  <2> QED BY <2>1, <2>2, <2>3
<1> QED BY <1>1, <1>3, <1>4, <1>5, <1>7, <1>8, AsideKeepsInv

\* A new call begins with nothing of it anywhere.
LEMMA CallStartKeepsInv ==
  ASSUME CallInv, ServerKeeps, CallStart
  PROVE  CallInv'
<1> DEFINE k == cl.call + 1
<1>1. /\ ex' = ex /\ sv' = sv /\ UNCHANGED <<up, c2s, s2c, canc, result>>
      /\ cl' = [NoCall EXCEPT !.pc = "stub", !.call = k, !.st = "STUB_WAIT",
                              !.assoc = "ACTIVE", !.link = k, !.rcvr = cl.rcvr, !.ovf = cl.ovf]
  BY DEF ServerKeeps, serverVars, CallStart, wireVars
<1>2. /\ cl \in ClientReps /\ canc \in Cancels /\ cl.call \in Nat /\ cl.rcvr \in BOOLEAN /\ cl.ovf \in Nat
      /\ cl.call < NCalls /\ NCalls \in Nat
  BY WireAssumption DEF CallInv, ClientTypes, ClientReps, CallStart
<1>3. k \in Nat /\ k # 0 /\ k <= NCalls /\ k \in Calls /\ k > cl.call
  BY <1>2 DEF Calls
<1> HIDE DEF k
<1>4. PICK d : d = cl' /\ d = [NoCall EXCEPT !.pc = "stub", !.call = k, !.st = "STUB_WAIT",
                               !.assoc = "ACTIVE", !.link = k, !.rcvr = cl.rcvr, !.ovf = cl.ovf]
  BY <1>1
<1>5. /\ d.pc = "stub" /\ d.call = k /\ d.link = k /\ d.nsent = 0 /\ d.got = <<>>
      /\ d.msgs = <<>> /\ d.astat = "ok"
  BY <1>4 DEF NoCall
<1>6. d \in ClientReps
  <2>1. PICK e : e = NoCall
    OBVIOUS
  <2>2. e \in ClientReps /\ "STUB_WAIT" \in ClientCallStates
    BY <2>1, NoCallType, ClientStates
  <2>3. d = [e EXCEPT !.pc = "stub", !.call = k, !.st = "STUB_WAIT",
                      !.assoc = "ACTIVE", !.link = k, !.rcvr = cl.rcvr, !.ovf = cl.ovf]
    BY <1>4, <2>1
  <2>4. PICK r \in BOOLEAN, o \in Nat : r = cl.rcvr /\ o = cl.ovf
    BY <1>2
  <2>5. d = [e EXCEPT !.pc = "stub", !.call = k, !.st = "STUB_WAIT",
                      !.assoc = "ACTIVE", !.link = k, !.rcvr = r, !.ovf = o]
    BY <2>3, <2>4
  <2>6. k \in Nat
    BY <1>3
  <2> QED BY <2>2, <2>5, <2>6, ZenonT(60) DEF ClientReps
<1>7. ClientTypes'
  BY <1>1, <1>3, <1>4, <1>5, <1>6 DEF CallInv, ClientTypes, InCall, InSendmsg
<1>8. WireTypes'
  BY <1>1 DEF CallInv, WireTypes
<1>9. /\ ex[k].pc = "none"
      /\ \A i \in 1..Len(c2s) : c2s[i].call # k
      /\ \A i \in 1..Len(s2c) : s2c[i].call # k
  BY <1>2, <1>3 DEF CallInv, BeginsOnce
<1>10. BeginsOnce'
  <2>1. Unknown(cl.call)'
    BY <1>1, <1>4, <1>5, <1>9 DEF Unknown
  <2>2. /\ \A i \in 1..Len(c2s) : c2s[i].call \in 1..k
        /\ \A i \in 1..Len(s2c) : s2c[i].call \in 1..k
        /\ \A j \in Calls : j > k => ex[j].pc = "none"
    BY <1>2, <1>3 DEF CallInv, BeginsOnce, Calls
  <2> QED BY <1>1, <1>4, <1>5, <2>1, <2>2 DEF CallInv, BeginsOnce
<1>11. Stream'
  <2>1. Runs("response", <<>>, k, 0, 0)
    BY <1>3, RunsEmpty
  <2>2. Hits("response", s2c, k) = {}
    BY <1>9 DEF Hits
  <2>3. Runs("response", s2c, k, 0, 0)
    BY <1>3, <2>2, RunsNone DEF CallInv, WireTypes
  <2>4. ex[k].nsent = 0
    BY <1>3, <1>9 DEF CallInv, Stages, Stage
  <2>5. Answered(ex[k], k, 0)
    BY <1>9, <2>4 DEF Answered
  <2>6. Queued(<<>>, k, "ok")
    BY DEF Queued
  <2>7. Len(<<>>) = 0
    OBVIOUS
  <2> QED BY <1>1, <1>4, <1>5, <2>1, <2>3, <2>5, <2>6, <2>7 DEF Stream
<1>12. OwnResponse'
  BY <1>4, <1>5 DEF OwnResponse, InOrder
<1> QED BY <1>1, <1>7, <1>8, <1>10, <1>11, <1>12, ServerUntouched DEF CallInv

\* The connection breaks.
LEMMA BreakKeepsInv ==
  ASSUME CallInv, Break
  PROVE  CallInv'
<1>1. UNCHANGED <<c2s, s2c, cl, canc, result, sv, ex, seen>> /\ up' = FALSE
  BY DEF Break, clientVars, serverVars
<1>2. ClientTypes' /\ ServerTypes' /\ AssocTracksCalls' /\ OwnResponse' /\ WireTypes'
  BY <1>1 DEF CallInv, ClientTypes, ServerTypes, AssocTracksCalls, OwnResponse, InCall,
     InSendmsg, Running, WireTypes
<1>3. Stages' /\ BeginsOnce'
  BY <1>1 DEF CallInv, Stages, BeginsOnce, InCall, Unknown
<1>4. Stream'
  BY <1>1 DEF CallInv, Stream, InCall, Alive
<1> QED BY <1>2, <1>3, <1>4 DEF CallInv

\* Every step of the client keeps the invariant.
LEMMA ClientKeepsInv ==
  ASSUME CallInv, ClientStep, ServerKeeps
  PROVE  CallInv'
<1>1. ClientTypes
  BY DEF CallInv
<1> QED BY <1>1, CallerSteps, CallerKeepsInv, EndKeepsInv, ReceivesKeepsInv,
     DisconnectsKeepsInv, CancelsKeepInv, CallStartKeepsInv DEF ClientStep, ClientReceiver

-----------------------------------------------------------------------------
(* The invariant, for the server's steps *)

\* A call's record r becomes q.
Lives(r, q, k) ==
  /\ q \in ServerReps /\ Stage(q, k) /\ (r.pc = "none" <=> q.pc = "none")
  /\ up' => up /\ Steady(q)

\* And no response is put on the wire.
Goes(r, q, k) ==
  Lives(r, q, k) /\ (up' => \A b \in Nat : Answered(r, k, b) => Answered(q, k, b))

\* Somebody else's doing: what the call's thread is about stays.
Nudged(r, q) ==
  /\ q \in ServerReps
  /\ q.pc = r.pc /\ q.nsent = r.nsent /\ q.failed = r.failed /\ q.st = r.st
  /\ q.assoc = r.assoc /\ q.executed = r.executed /\ q.then = r.then
  /\ q.sending = r.sending /\ q.status = r.status

\* A call that is only nudged goes nowhere.
LEMMA NudgedGoes ==
  ASSUME Stages, NEW k \in Calls, NEW q, Nudged(ex[k], q), up' => up
  PROVE  Goes(ex[k], q, k)
<1>1. Stage(ex[k], k) /\ (up => Steady(ex[k]))
  BY DEF Stages
<1>2. PICK r : r = ex[k]
  OBVIOUS
<1>3. Stage(q, k)
  BY <1>1, <1>2 DEF Stage, Nudged
<1>4. up => Steady(q)
  BY <1>1, <1>2 DEF Steady, Nudged
<1>5. \A b \in Nat : Answered(r, k, b) => Answered(q, k, b)
  BY <1>2 DEF Answered, Nudged
<1> QED BY <1>2, <1>3, <1>4, <1>5 DEF Goes, Lives, Nudged

\* As long as every call lives on, the responses stay in order and the association
\* tracks the calls, a step of the server keeps the invariant.
LEMMA ServerRest ==
  ASSUME CallInv, UNCHANGED clientVars, up' \in BOOLEAN,
         c2s' = c2s \/ (c2s # <<>> /\ c2s' = Tail(c2s)),
         s2c' \in Seq(Packets),
         \A i \in 1..Len(s2c') : s2c'[i].call \in 1..cl.call /\ s2c'[i].type \in {"response", "fault"},
         sv' \in Assocs, sv'.link \in {0, sv.link},
         ex' \in [Calls -> ServerReps], \A k \in Calls : Lives(ex[k], ex'[k], k),
         AssocTracksCalls', Stream'
  PROVE  CallInv'
<1>1. cl' = cl /\ canc' = canc /\ result' = result
  BY DEF clientVars
<1>2. ClientTypes' /\ OwnResponse'
  BY <1>1 DEF CallInv, ClientTypes, OwnResponse, InCall, InSendmsg
<1>3. ServerTypes'
  BY DEF ServerTypes
<1>4. c2s \in Seq(Packets) /\ s2c \in Seq(Packets) /\ cl.call \in Nat
  BY DEF CallInv, WireTypes, ClientTypes, ClientReps
<1>5. /\ c2s' \in Seq(Packets)
      /\ \E n \in {0, 1} : \A i \in 1..Len(c2s') :
           i \in Nat /\ i + n \in 1..Len(c2s) /\ c2s'[i] = c2s[i + n]
  <2>1. CASE c2s' = c2s
    BY <2>1, <1>4
  <2>2. CASE c2s # <<>> /\ c2s' = Tail(c2s)
    BY <2>2, <1>4, TailPackets
  <2> QED BY <2>1, <2>2
<1>6. PICK n \in {0, 1} : \A i \in 1..Len(c2s') :
        i \in Nat /\ i + n \in 1..Len(c2s) /\ c2s'[i] = c2s[i + n]
  BY <1>5
<1>7. WireTypes'
  BY <1>4, <1>5 DEF WireTypes
<1>8. \A k \in Calls : ex[k].pc = "none" <=> ex'[k].pc = "none"
  BY DEF Lives
<1>9. BeginsOnce'
  <2>1. \A i \in 1..Len(c2s') : c2s'[i].call \in 1..cl'.call
    BY <1>1, <1>6 DEF CallInv, BeginsOnce
  <2>2. \A i \in 1..Len(s2c') : s2c'[i].call \in 1..cl'.call
                                 /\ s2c'[i].type \in {"response", "fault"}
    BY <1>1
  <2>3. \A k \in Calls : k > cl'.call => ex'[k].pc = "none"
    BY <1>1, <1>8 DEF CallInv, BeginsOnce
  <2>4. \A i \in 1..cl.call : i \in Calls
    BY <1>4, WireAssumption DEF CallInv, ClientTypes, Calls
  <2>5. \A i \in 1..Len(c2s') : Begins(c2s'[i]) => ex'[c2s'[i].call].pc = "none"
    <3> TAKE i \in 1..Len(c2s')
    <3> HAVE Begins(c2s'[i])
    <3>1. c2s'[i].call \in Calls
      BY <1>1, <2>1, <2>4
    <3>2. i + n \in 1..Len(c2s) /\ c2s'[i] = c2s[i + n]
      BY <1>6
    <3>3. ex[c2s'[i].call].pc = "none"
      BY <3>2 DEF CallInv, BeginsOnce
    <3> QED BY <1>8, <3>1, <3>3
  <2>6. \A i, j \in 1..Len(c2s') :
          Begins(c2s'[i]) /\ Begins(c2s'[j]) /\ c2s'[i].call = c2s'[j].call => i = j
    <3> TAKE i, j \in 1..Len(c2s')
    <3> HAVE Begins(c2s'[i]) /\ Begins(c2s'[j]) /\ c2s'[i].call = c2s'[j].call
    <3>1. i + n \in 1..Len(c2s) /\ c2s'[i] = c2s[i + n] /\ i \in Nat
      BY <1>6
    <3>2. j + n \in 1..Len(c2s) /\ c2s'[j] = c2s[j + n] /\ j \in Nat
      BY <1>6
    <3>3. \A a, b \in 1..Len(c2s) :
            Begins(c2s[a]) /\ Begins(c2s[b]) /\ c2s[a].call = c2s[b].call => a = b
      BY DEF CallInv, BeginsOnce
    <3>4. Begins(c2s[i + n]) /\ Begins(c2s[j + n]) /\ c2s[i + n].call = c2s[j + n].call
      BY <3>1, <3>2, Zenon
    <3>5. i + n = j + n
      BY <3>1, <3>2, <3>3, <3>4, Zenon
    <3> QED BY <3>1, <3>2, <3>5
  <2>7. InCall' /\ (cl'.nsent = 0 \/ (cl'.pc = "send" /\ Begins(cl'.sending)))
          => Unknown(cl.call)'
    <3>1. SUFFICES ASSUME Unknown(cl.call)
                   PROVE  Unknown(cl.call)' \/ ~InCall
      BY <1>1 DEF CallInv, BeginsOnce, InCall
    <3>2. SUFFICES ASSUME InCall
                   PROVE  Unknown(cl.call)'
      OBVIOUS
    <3>3. cl.call \in Calls
      BY <1>4, <3>2 DEF CallInv, ClientTypes, Calls
    <3>4. PICK k : k = cl.call /\ cl'.call = k
      BY <1>1
    <3>5. \A i \in 1..Len(c2s') : Begins(c2s'[i]) => c2s'[i].call # k
      BY <1>6, <3>1, <3>4 DEF Unknown
    <3> QED BY <1>8, <3>1, <3>3, <3>4, <3>5 DEF Unknown
  <2>8. sv'.link # 0 => ex'[sv'.link].pc # "none"
    BY <1>8 DEF CallInv, BeginsOnce, ServerTypes, Assocs
  <2> QED BY <1>1, <2>1, <2>2, <2>3, <2>5, <2>6, <2>7, <2>8 DEF BeginsOnce
<1>10. Stages'
  BY DEF Stages, Lives
<1> QED BY <1>2, <1>3, <1>7, <1>9, <1>10 DEF CallInv

\* In most steps no response is put on the wire.
LEMMA ServerKeepsInv ==
  ASSUME CallInv, UNCHANGED clientVars, UNCHANGED s2c, up' \in BOOLEAN,
         c2s' = c2s \/ (c2s # <<>> /\ c2s' = Tail(c2s)),
         sv' \in Assocs, sv'.link \in {0, sv.link},
         ex' \in [Calls -> ServerReps], \A k \in Calls : Goes(ex[k], ex'[k], k),
         AssocTracksCalls'
  PROVE  CallInv'
<1>1. cl' = cl
  BY DEF clientVars
<1>2. /\ s2c' \in Seq(Packets)
      /\ \A i \in 1..Len(s2c') : s2c'[i].call \in 1..cl.call /\ s2c'[i].type \in {"response", "fault"}
  BY DEF CallInv, WireTypes, BeginsOnce
<1>3. Stream'
  <2>1. SUFFICES ASSUME InCall, Alive
                 PROVE  Stream'
    BY <1>1 DEF Stream, InCall, Alive
  <2>2. PICK a, b \in Nat : /\ Queued(cl.msgs, cl.call, cl.astat)
                            /\ Runs("response", cl.msgs, cl.call, Len(cl.got), a)
                            /\ Runs("response", s2c, cl.call, a, b)
                            /\ up => Answered(ex[cl.call], cl.call, b)
    BY <2>1 DEF CallInv, Stream
  <2>3. cl.call \in Calls
    BY <2>1 DEF CallInv, ClientTypes, ClientReps, Calls
  <2>4. up' => Answered(ex'[cl.call], cl.call, b)
    BY <2>2, <2>3 DEF Goes, Lives
  <2> QED BY <1>1, <2>2, <2>4 DEF Stream
<1>4. \A k \in Calls : Lives(ex[k], ex'[k], k)
  BY DEF Goes
<1> QED BY <1>2, <1>3, <1>4, ServerRest

\* One call fewer holds the association.
LEMMA OneLess ==
  ASSUME NEW e \in [Calls -> ServerReps], NEW f \in [Calls -> ServerReps], NEW k \in Calls,
         e[k].assoc, ~f[k].assoc, \A j \in Calls : j # k => f[j].assoc = e[j].assoc
  PROVE  Cardinality({j \in Calls : f[j].assoc}) = Cardinality({j \in Calls : e[j].assoc}) - 1
<1>1. IsFiniteSet(Calls)
  BY WireAssumption, FS_Interval DEF Calls
<1> DEFINE S == {j \in Calls : e[j].assoc}
           T == {j \in Calls : f[j].assoc}
<1>2. IsFiniteSet(S)
  BY <1>1, FS_Subset
<1>3. T = S \ {k} /\ k \in S
  OBVIOUS
<1> HIDE DEF S, T
<1>4. Cardinality(T) = Cardinality(S) - 1
  BY <1>2, <1>3, FS_RemoveElement, FS_CardinalityType
<1> QED BY <1>4 DEF S, T

\* One call more holds it.
LEMMA OneMore ==
  ASSUME NEW e \in [Calls -> ServerReps], NEW f \in [Calls -> ServerReps], NEW k \in Calls,
         ~e[k].assoc, f[k].assoc, \A j \in Calls : j # k => f[j].assoc = e[j].assoc
  PROVE  Cardinality({j \in Calls : f[j].assoc}) = Cardinality({j \in Calls : e[j].assoc}) + 1
<1>1. IsFiniteSet(Calls)
  BY WireAssumption, FS_Interval DEF Calls
<1> DEFINE S == {j \in Calls : e[j].assoc}
           T == {j \in Calls : f[j].assoc}
<1>2. IsFiniteSet(S)
  BY <1>1, FS_Subset
<1>3. T = S \cup {k} /\ k \notin S
  OBVIOUS
<1> HIDE DEF S, T
<1>4. Cardinality(T) = Cardinality(S) + 1
  BY <1>2, <1>3, FS_AddElement
<1> QED BY <1>4 DEF S, T

\* The call k keeps the association, or gives it back.
HoldsOn(k) == sv'.link = sv.link /\ sv'.ref = sv.ref /\ ex'[k].assoc = ex[k].assoc
GivesBack(k) ==
  /\ sv'.link = IF sv.link = k THEN 0 ELSE sv.link
  /\ sv'.ref = sv.ref - 1 /\ ex[k].assoc /\ ~ex'[k].assoc

\* Either way the association tracks the calls.
LEMMA TracksOn ==
  ASSUME ServerTypes, AssocTracksCalls, Running, NEW k \in Calls, ex' \in [Calls -> ServerReps],
         \A j \in Calls : j # k => ex'[j].assoc = ex[j].assoc,
         HoldsOn(k) \/ GivesBack(k)
  PROVE  AssocTracksCalls' /\ sv'.link \in {0, sv.link}
<1>1. ex \in [Calls -> ServerReps]
  BY DEF ServerTypes
<1>2. sv.link \in Calls \cup {0} /\ sv'.link \in {0, sv.link}
  BY DEF ServerTypes, Assocs, HoldsOn, GivesBack
<1>3. CASE HoldsOn(k)
  <2>1. \A j \in Calls : ex'[j].assoc = ex[j].assoc
    BY <1>3 DEF HoldsOn
  <2>2. {j \in Calls : ex'[j].assoc} = {j \in Calls : ex[j].assoc}
    BY <2>1
  <2> QED BY <1>2, <1>3, <2>1, <2>2 DEF AssocTracksCalls, HoldsOn
<1>4. CASE GivesBack(k)
  <2>1. Cardinality({j \in Calls : ex'[j].assoc}) = Cardinality({j \in Calls : ex[j].assoc}) - 1
    BY <1>1, <1>4, OneLess DEF GivesBack
  <2>2. sv'.link # 0 => sv'.link = sv.link /\ sv.link # k /\ sv.link \in Calls
    BY <1>2, <1>4 DEF GivesBack
  <2> QED BY <1>1, <1>2, <1>4, <2>1, <2>2 DEF AssocTracksCalls, GivesBack
<1> QED BY <1>3, <1>4

\* One call makes a step, and nudges others.
LEMMA OneMoves ==
  ASSUME CallInv, Running, UNCHANGED clientVars, UNCHANGED s2c, up' \in BOOLEAN, up' => up,
         c2s' = c2s \/ (c2s # <<>> /\ c2s' = Tail(c2s)),
         NEW k \in Calls, ex' \in [Calls -> ServerReps], Goes(ex[k], ex'[k], k),
         \A j \in Calls : j # k => Nudged(ex[j], ex'[j]),
         sv' \in Assocs, HoldsOn(k) \/ GivesBack(k)
  PROVE  CallInv'
<1>1. ServerTypes /\ Stages /\ AssocTracksCalls
  BY DEF CallInv
<1>2. \A j \in Calls : Goes(ex[j], ex'[j], j)
  BY <1>1, NudgedGoes
<1>3. \A j \in Calls : j # k => ex'[j].assoc = ex[j].assoc
  BY DEF Nudged
<1>4. AssocTracksCalls' /\ sv'.link \in {0, sv.link}
  BY <1>1, <1>3, TracksOn
<1> QED BY <1>2, <1>4, ServerKeepsInv

\* Only the record of one call changes.
LEMMA Alone ==
  ASSUME ServerTypes, NEW k \in Calls, NEW q \in ServerReps, ex' = [ex EXCEPT ![k] = q]
  PROVE  /\ ex' \in [Calls -> ServerReps] /\ ex'[k] = q
         /\ \A j \in Calls : j # k => Nudged(ex[j], ex'[j])
<1>1. \A j \in Calls : j # k => ex'[j] = ex[j] /\ ex[j] \in ServerReps
  BY DEF ServerTypes
<1>2. \A j \in Calls : j # k => Nudged(ex[j], ex'[j])
  BY <1>1 DEF Nudged
<1>3. ex' \in [Calls -> ServerReps] /\ ex'[k] = q
  BY DEF ServerTypes
<1> QED BY <1>2, <1>3

\* The thread of a call makes a step and keeps the association.
LEMMA StepAlone ==
  ASSUME CallInv, Running, UNCHANGED clientVars, UNCHANGED <<c2s, s2c>>, up' \in BOOLEAN, up' => up,
         NEW k \in Calls, NEW q, ex' = [ex EXCEPT ![k] = q], Goes(ex[k], q, k),
         sv' \in Assocs, sv'.link = sv.link, sv'.ref = sv.ref, q.assoc = ex[k].assoc
  PROVE  CallInv'
<1>1. ServerTypes /\ q \in ServerReps
  BY DEF CallInv, Goes, Lives
<1>2. /\ ex' \in [Calls -> ServerReps] /\ ex'[k] = q
      /\ \A j \in Calls : j # k => Nudged(ex[j], ex'[j])
  BY <1>1, Alone
<1>3. HoldsOn(k)
  BY <1>2 DEF HoldsOn
<1> QED BY <1>2, <1>3, OneMoves

-----------------------------------------------------------------------------
(* What the server's routines do to the record of a call *)

\* A record nobody uses
LEMMA NoRepType == NoRep \in ServerReps
<1>1. Dummy \in Packets /\ "INIT" \in ServerCallStates
  BY DummyType, ServerStates
<1> QED BY <1>1 DEF NoRep, ServerReps

\* What cancels do to a call (comcthd.c) is no step of its thread.
LEMMA CancelNudges ==
  ASSUME NEW r \in ServerReps
  PROVE  /\ Nudged(r, Cancel(r)) /\ Nudged(r, CancelCaf(r)) /\ Nudged(r, EnablePost(r))
<1>1. Nudged(r, Cancel(r))
  <2>1. r.count + 1 \in Nat /\ (r.cancelled \/ ~r.queuing) \in BOOLEAN
    BY DEF ServerReps
  <2>2. PICK n \in Nat, c \in BOOLEAN : n = r.count + 1 /\ c = (r.cancelled \/ ~r.queuing)
    BY <2>1
  <2>3. PICK q : q = Cancel(r)
    OBVIOUS
  <2>4. CASE ~r.accepting
    <3>1. q = [r EXCEPT !.late = TRUE]
      BY <2>3, <2>4 DEF Cancel
    <3>2. q \in ServerReps
      BY <3>1 DEF ServerReps
    <3> QED BY <2>3, <3>1, <3>2 DEF Nudged, ServerReps
  <2>5. CASE r.accepting
    <3>1. q = [r EXCEPT !.count = n, !.cancelled = c]
      BY <2>2, <2>3, <2>5 DEF Cancel, ServerReps
    <3>2. q \in ServerReps
      BY <3>1 DEF ServerReps
    <3> QED BY <2>3, <3>1, <3>2 DEF Nudged, ServerReps
  <2> QED BY <2>4, <2>5
<1>2. Nudged(r, CancelCaf(r))
  <2>1. PICK h \in BOOLEAN, c \in BOOLEAN :
          /\ h = (r.count > 0 /\ r.cancelled)
          /\ c = IF r.count > 0 THEN FALSE ELSE r.cancelled
    BY DEF ServerReps
  <2>2. PICK q : q = CancelCaf(r)
    OBVIOUS
  <2>3. CASE ~r.accepting
    BY <2>3 DEF CancelCaf, Nudged
  <2>4. CASE r.accepting
    <3>1. q = [r EXCEPT !.accepting = FALSE, !.hadPending = h, !.cancelled = c, !.count = 0]
      BY <2>1, <2>2, <2>4 DEF CancelCaf, ServerReps
    <3>2. q \in ServerReps
      <4>1. PICK m : m = [r EXCEPT !.accepting = FALSE, !.hadPending = h]
        OBVIOUS
      <4>2. m \in ServerReps
        BY <4>1, ZenonT(40) DEF ServerReps
      <4>3. q = [m EXCEPT !.cancelled = c, !.count = 0]
        BY <3>1, <4>1
      <4> QED BY <4>2, <4>3, ZenonT(60) DEF ServerReps
    <3> QED BY <2>2, <3>1, <3>2 DEF Nudged, ServerReps
  <2> QED BY <2>3, <2>4
<1>3. Nudged(r, EnablePost(r))
  <2>1. PICK c \in BOOLEAN : c = (r.cancelled \/ r.count > 0)
    BY DEF ServerReps
  <2>2. PICK q : q = EnablePost(r)
    OBVIOUS
  <2>3. CASE ~(r.accepting /\ r.queuing)
    BY <2>3 DEF EnablePost, Nudged
  <2>4. CASE r.accepting /\ r.queuing
    <3>1. q = [r EXCEPT !.queuing = FALSE, !.cancelled = c]
      BY <2>1, <2>2, <2>4 DEF EnablePost, ServerReps
    <3>2. q \in ServerReps
      BY <3>1, ZenonT(40) DEF ServerReps
    <3> QED BY <2>2, <3>1, <3>2 DEF Nudged, ServerReps
  <2> QED BY <2>3, <2>4
<1> QED BY <1>1, <1>2, <1>3

\* Nor is the signal that wakes it.
LEMMA WakesNudge ==
  ASSUME NEW e \in [Calls -> ServerReps], NEW w \in Calls \cup {0}
  PROVE  /\ Wake(e, w) \in [Calls -> ServerReps]
         /\ \A j \in Calls : Nudged(e[j], Wake(e, w)[j])
<1>1. CASE w = 0
  BY <1>1 DEF Wake, Nudged
<1>2. CASE w # 0
  <2>1. PICK q : q = [e[w] EXCEPT !.woken = TRUE]
    OBVIOUS
  <2>2. w \in Calls /\ e[w] \in ServerReps /\ Wake(e, w) = [e EXCEPT ![w] = q]
    BY <1>2, <2>1 DEF Wake
  <2>3. q \in ServerReps
    BY <2>1, <2>2 DEF ServerReps
  <2>4. Nudged(e[w], q)
    BY <2>1, <2>2, <2>3 DEF Nudged, ServerReps
  <2>5. \A j \in Calls : Nudged(e[j], e[j])
    BY DEF Nudged
  <2> QED BY <2>2, <2>3, <2>4, <2>5
<1> QED BY <1>1, <1>2

\* The one that is signalled may be any that waits, or nobody.
LEMMA WakeNudges ==
  ASSUME NEW e \in [Calls -> ServerReps], NEW w \in Signalled(e)
  PROVE  /\ Wake(e, w) \in [Calls -> ServerReps]
         /\ \A j \in Calls : Nudged(e[j], Wake(e, w)[j])
<1>1. w \in Calls \cup {0}
  BY DEF Signalled, Waiters
<1> QED BY <1>1, WakesNudge

\* Being nudged twice
LEMMA NudgedTwice ==
  ASSUME NEW r, NEW q, NEW s, Nudged(r, q), Nudged(q, s)
  PROVE  Nudged(r, s)
BY DEF Nudged

\* Packets of the server
LEMMA ServerPackets ==
  ASSUME NEW k \in Calls, NEW n \in Nat, NEW last \in BOOLEAN, NEW alert \in BOOLEAN, NEW alerts \in Nat
  PROVE  /\ Response(k, n, last, alert, alerts) \in Packets
         /\ Response(k, n, last, alert, alerts).type = "response"
         /\ Response(k, n, last, alert, alerts).call = k
         /\ Response(k, n, last, alert, alerts).n = n
         /\ Fault(k, alert, alerts) \in Packets
         /\ Fault(k, alert, alerts).type = "fault" /\ Fault(k, alert, alerts).call = k
<1>1. k \in Nat
  BY WireAssumption DEF Calls
<1> QED BY <1>1 DEF Response, Fault, Packet, Packets

\* rpc__cn_assoc_dealloc
LEMMA FreeRepEffect ==
  ASSUME NEW s \in Assocs, NEW k \in Calls
  PROVE  /\ FreeRep(s, k) \in Assocs /\ FreeRep(s, k).ref = s.ref - 1
         /\ FreeRep(s, k).link = IF s.link = k THEN 0 ELSE s.link
<1>1. PICK link \in Calls \cup {0} : link = IF s.link = k THEN 0 ELSE s.link
  BY DEF Assocs
<1>2. PICK ref \in Int : ref = s.ref - 1
  BY DEF Assocs
<1>3. s.msgs \in Seq(Packets) /\ <<>> \in Seq(Packets)
  BY DEF Assocs
<1>4. PICK m \in Seq(Packets) : m = IF link = 0 THEN <<>> ELSE s.msgs
  BY <1>3
<1>5. PICK t : t = FreeRep(s, k)
  OBVIOUS
<1>6. t = [s EXCEPT !.link = link, !.astat = "ok", !.ref = ref, !.msgs = m]
  BY <1>1, <1>2, <1>4, <1>5 DEF FreeRep, Assocs
<1>7. t \in Assocs
  BY <1>6 DEF Assocs
<1>8. t.link = link /\ t.ref = ref
  BY <1>6 DEF Assocs
<1> QED BY <1>1, <1>2, <1>5, <1>7, <1>8

\* The association as it was, for the counting of calls
SameAssoc(s) == sv' \in Assocs /\ sv'.link = s.link /\ sv'.ref = s.ref

\* The receiver reads ahead, nothing else of the association changes.
ReadsOn(s) == \E n \in Nat : s = [sv EXCEPT !.ovf = n]

\* The association is the same for all but the receiver.
LEMMA ReadsOnEffect ==
  ASSUME sv \in Assocs, NEW s, ReadsOn(s)
  PROVE  /\ s \in Assocs /\ s.link = sv.link /\ s.ref = sv.ref /\ s.msgs = sv.msgs
         /\ s.assoc = sv.assoc /\ s.astat = sv.astat /\ s.sendmsg = sv.sendmsg
         /\ s.rcvr = sv.rcvr /\ s.fatal = sv.fatal /\ s.victim = sv.victim
         /\ s.overlap = sv.overlap
<1>1. PICK n \in Nat : s = [sv EXCEPT !.ovf = n]
  BY DEF ReadsOn
<1>2. s \in Assocs
  BY <1>1 DEF Assocs
<1>3. s.link = sv.link /\ s.ref = sv.ref /\ s.msgs = sv.msgs /\ s.assoc = sv.assoc
  BY <1>1 DEF Assocs
<1>4. s.astat = sv.astat /\ s.sendmsg = sv.sendmsg /\ s.rcvr = sv.rcvr
  BY <1>1 DEF Assocs
<1>5. s.fatal = sv.fatal /\ s.victim = sv.victim /\ s.overlap = sv.overlap
  BY <1>1 DEF Assocs
<1> QED BY <1>2, <1>3, <1>4, <1>5

\* An association whose receiver waits is one, and so is one whose send is over.
LEMMA RcvrTyped ==
  ASSUME NEW s \in Assocs, NEW r \in {"recv", "busy", "done"}
  PROVE  [s EXCEPT !.rcvr = r] \in Assocs
BY DEF Assocs

LEMMA SendOver ==
  ASSUME NEW s \in Assocs
  PROVE  /\ [s EXCEPT !.sendmsg = FALSE] = [s EXCEPT !.sendmsg = FALSE, !.astat = s.astat]
         /\ s.astat \in {"ok", "closed"}
BY DEF Assocs

\* What a receiver has read ahead is a number of packets.
LEMMA ReadsAhead ==
  ASSUME CallInv, c2s # <<>>, NEW n \in ReadAhead(sv.ovf, c2s)
  PROVE  ReadsOn([sv EXCEPT !.ovf = n])
<1>1. sv.ovf \in Nat /\ c2s \in Seq(Packets)
  BY DEF CallInv, ServerTypes, Assocs, WireTypes
<1>2. Len(c2s) \in Nat /\ Len(c2s) >= 1
  BY <1>1
<1>3. n \in Nat
  BY <1>1, <1>2 DEF ReadAhead
<1> QED BY <1>3 DEF ReadsOn

\* rpc__cn_call_sm_protocol_error
LEMMA AbortEffect ==
  ASSUME NEW s \in Assocs, NEW k \in Calls,
         NEW what \in {"null_assoc", "null_call_rep", "send", "fault", "fault_dne", "recv",
                   "remote_alert", "orphaned"},
         Abort(s, what, k)
  PROVE  SameAssoc(s) /\ up' = FALSE
<1>1. PICK n \in Nat : n = k
  BY WireAssumption DEF Calls
<1>2. PICK t : t = sv' /\ t = [s EXCEPT !.fatal = what, !.victim = n]
  BY <1>1 DEF Abort
<1>3. t \in Assocs
  BY <1>2 DEF Assocs
<1>4. t.link = s.link /\ t.ref = s.ref
  BY <1>2 DEF Assocs
<1> QED BY <1>2, <1>3, <1>4 DEF Abort, SameAssoc

\* rpc__cn_assoc_send_frag: the call is about to send.
LEMMA SendFragEffect ==
  ASSUME NEW s \in Assocs, NEW e \in [Calls -> ServerReps], NEW k \in Calls,
         NEW p \in Packets, NEW then \in {"mgr", "ending", "freed"}, SendFrag(s, e, k, p, then)
  PROVE  SameAssoc(s) /\ \E q \in ServerReps :
           /\ ex' = [e EXCEPT ![k] = q]
           /\ q.pc = "send" /\ q.sending = p /\ q.then = then /\ ~q.failed
           /\ q.nsent = e[k].nsent /\ q.st = e[k].st /\ q.assoc = e[k].assoc
           /\ q.executed = e[k].executed /\ q.status = e[k].status
<1>1. PICK r \in ServerReps : r = e[k]
  OBVIOUS
<1>2. PICK q : q = [r EXCEPT !.pc = "send", !.sending = p, !.then = then, !.failed = FALSE]
  OBVIOUS
<1>3. ex' = [e EXCEPT ![k] = q]
  BY <1>1, <1>2 DEF SendFrag
<1>4. q \in ServerReps
  BY <1>2, ZenonT(40) DEF ServerReps
<1>5. /\ q.pc = "send" /\ q.sending = p /\ q.then = then /\ q.failed = FALSE
      /\ q.nsent = r.nsent /\ q.st = r.st /\ q.assoc = r.assoc /\ q.executed = r.executed
      /\ q.status = r.status
  BY <1>1, <1>2 DEF ServerReps
<1>6. PICK t : t = sv' /\ t = [s EXCEPT !.sendmsg = TRUE]
  BY DEF SendFrag
<1>7. t \in Assocs
  BY <1>6 DEF Assocs
<1>8. t.link = s.link /\ t.ref = s.ref
  BY <1>6 DEF Assocs
<1>9. SameAssoc(s)
  BY <1>6, <1>7, <1>8 DEF SameAssoc
<1> QED BY <1>1, <1>3, <1>4, <1>5, <1>9

\* The rest of rpc__cn_call_end: the record is free and the association given back.
LEMMA EndCallEffect ==
  ASSUME NEW s \in Assocs, NEW e \in [Calls -> ServerReps], NEW k \in Calls, EndCall(s, e, k)
  PROVE  /\ \E q \in ServerReps : /\ ex' = [e EXCEPT ![k] = q]
                                  /\ q.pc = "freed" /\ ~q.assoc /\ ~q.failed
         /\ sv' \in Assocs
         /\ sv'.link = IF e[k].assoc /\ s.link = k THEN 0 ELSE s.link
         /\ sv'.ref = IF e[k].assoc THEN s.ref - 1 ELSE s.ref
<1>1. PICK r \in ServerReps : r = e[k]
  OBVIOUS
<1>2. PICK n : n = NoRep
  OBVIOUS
<1>3. n \in ServerReps /\ ~n.assoc /\ ~n.failed
  <2>1. n \in ServerReps
    BY <1>2, NoRepType
  <2>2. n.assoc = FALSE /\ n.failed = FALSE
    BY <1>2 DEF NoRep
  <2> QED BY <2>1, <2>2
<1>4. PICK q : q = [n EXCEPT !.pc = "freed", !.gotlast = r.gotlast, !.acted = r.acted,
                             !.late = r.late, !.unsaid = r.unsaid]
  OBVIOUS
<1>5. ex' = [e EXCEPT ![k] = q]
  BY <1>1, <1>2, <1>4 DEF EndCall
<1>6. q \in ServerReps
  <2>1. n \in ServerReps
    BY <1>3
  <2>2. PICK a \in BOOLEAN, b \in BOOLEAN, c \in BOOLEAN, d \in BOOLEAN :
          a = r.gotlast /\ b = r.acted /\ c = r.late /\ d = r.unsaid
    BY DEF ServerReps
  <2>3. PICK m : m = [n EXCEPT !.pc = "freed", !.gotlast = a]
    OBVIOUS
  <2>4. PICK o : o = [m EXCEPT !.acted = b, !.late = c]
    OBVIOUS
  <2>5. q = [o EXCEPT !.unsaid = d]
    BY <1>4, <2>2, <2>3, <2>4
  <2>6. m \in ServerReps
    BY <2>1, <2>3, ZenonT(40) DEF ServerReps
  <2>7. o \in ServerReps
    BY <2>6, <2>4, ZenonT(60) DEF ServerReps
  <2> QED BY <2>7, <2>5 DEF ServerReps
<1>7. q.pc = "freed" /\ ~q.assoc /\ ~q.failed
  BY <1>3, <1>4 DEF ServerReps
<1>8. PICK t : t = IF r.assoc THEN FreeRep(s, k) ELSE s
  OBVIOUS
<1>9. /\ t \in Assocs /\ t.ref = IF r.assoc THEN s.ref - 1 ELSE s.ref
      /\ t.link = IF r.assoc /\ s.link = k THEN 0 ELSE s.link
  BY <1>8, FreeRepEffect
<1>10. PICK rcvr \in {"recv", "busy", "done"} : sv' = [t EXCEPT !.rcvr = rcvr]
  BY <1>1, <1>8, <1>9 DEF EndCall, Assocs
<1>11. PICK u : u = sv' /\ u = [t EXCEPT !.rcvr = rcvr]
  BY <1>10
<1>12. u \in Assocs
  BY <1>9, <1>11 DEF Assocs
<1>13. u.link = t.link /\ u.ref = t.ref
  BY <1>9, <1>11 DEF Assocs
<1> QED BY <1>1, <1>5, <1>6, <1>7, <1>9, <1>11, <1>12, <1>13

\* A call's thread looks for a fragment: from r it comes to q.
Received(r, q) ==
  /\ q \in ServerReps
  /\ q.nsent = r.nsent /\ q.st = r.st /\ q.assoc = r.assoc /\ q.status = r.status
  /\ q.then = r.then /\ q.sending = r.sending
  /\ \/ q.pc = "mgr" /\ r.executed /\ q.executed /\ q.failed
     \/ q.pc = "caf" /\ ~r.executed /\ ~q.executed /\ q.failed = r.failed
     \/ q.pc = "wait" /\ q.executed = r.executed /\ q.failed = r.failed
     \/ q.pc \in {"mgr", "recvd"} /\ q.executed /\ q.failed = r.failed

\* It goes on without a fragment.
LEMMA ReceiveFailsEffect ==
  ASSUME NEW r \in ServerReps
  PROVE  Received(r, ReceiveFails(r))
<1>1. PICK q : q = ReceiveFails(r)
  OBVIOUS
<1>2. CASE r.executed
  <2>1. q = [r EXCEPT !.pc = "mgr", !.failed = TRUE]
    BY <1>1, <1>2 DEF ReceiveFails
  <2>2. q \in ServerReps
    BY <2>1 DEF ServerReps
  <2>3. /\ q.pc = "mgr" /\ q.failed = TRUE /\ q.executed = r.executed
        /\ q.nsent = r.nsent /\ q.st = r.st /\ q.assoc = r.assoc /\ q.status = r.status
        /\ q.then = r.then /\ q.sending = r.sending
    BY <2>1 DEF ServerReps
  <2> QED BY <1>1, <1>2, <2>2, <2>3 DEF Received
<1>3. CASE ~r.executed
  <2>1. q = [r EXCEPT !.pc = "caf"]
    BY <1>1, <1>3 DEF ReceiveFails
  <2>2. q \in ServerReps
    BY <2>1 DEF ServerReps
  <2>3. /\ q.pc = "caf" /\ q.failed = r.failed /\ q.executed = r.executed
        /\ q.nsent = r.nsent /\ q.st = r.st /\ q.assoc = r.assoc /\ q.status = r.status
        /\ q.then = r.then /\ q.sending = r.sending
    BY <2>1 DEF ServerReps
  <2> QED BY <1>1, <1>3, <2>2, <2>3 DEF Received
<1> QED BY <1>2, <1>3

\* Nudges before and after make no difference.
LEMMA ReceivedNudged ==
  ASSUME NEW r, NEW s, NEW t, NEW q, Nudged(r, s), Received(s, t), Nudged(t, q)
  PROVE  Received(r, q)
BY DEF Received, Nudged

\* The thread of a call that looks for a fragment goes its way.
LEMMA ReceivedGoes ==
  ASSUME Stages, NEW k \in Calls, NEW q, Received(ex[k], q),
         ex[k].pc \in {"ready", "wait", "mgr"}, up' = up
  PROVE  Goes(ex[k], q, k)
<1>1. PICK r : r = ex[k]
  OBVIOUS
<1>2. Stage(r, k) /\ (up => Steady(r))
  BY <1>1 DEF Stages
<1>3. r.pc \in {"ready", "wait", "mgr"} /\ Received(r, q)
  BY <1>1
<1>4. q.pc \in {"mgr", "caf", "wait", "recvd"}
  BY <1>3 DEF Received
<1>5. Stage(q, k)
  BY <1>3, <1>4 DEF Stage, Received
<1>6. up => Steady(q)
  BY <1>2, <1>3, <1>4 DEF Steady, Received
<1>7. \A b \in Nat : Answered(r, k, b) => Answered(q, k, b)
  BY <1>3, <1>4 DEF Answered, Received
<1> QED BY <1>1, <1>3, <1>4, <1>5, <1>6, <1>7 DEF Goes, Lives, Received

\* rpc__cn_assoc_receive_frag for a call executor
LEMMA ReceiveFragEffect ==
  ASSUME NEW s \in Assocs, NEW e \in [Calls -> ServerReps], NEW k \in Calls, ReceiveFrag(s, e, k)
  PROVE  SameAssoc(s) /\ \E q : ex' = [e EXCEPT ![k] = q] /\ Received(e[k], q)
<1> DEFINE m == SkipDummy(s.msgs)
<1>1. PICK r \in ServerReps : r = e[k]
  OBVIOUS
<1>2. s.msgs \in Seq(Packets) /\ m \in Seq(Packets) /\ <<>> \in Seq(Packets)
  BY SkipDummyKeeps, 0 \in Nat DEF Assocs
<1>3. ASSUME NEW q \in Seq(Packets), sv' = [s EXCEPT !.msgs = q]
      PROVE  SameAssoc(s)
  <2>1. PICK t : t = sv' /\ t = [s EXCEPT !.msgs = q]
    BY <1>3
  <2>2. t \in Assocs
    BY <2>1 DEF Assocs
  <2>3. t.link = s.link /\ t.ref = s.ref
    BY <2>1 DEF Assocs
  <2> QED BY <2>1, <2>2, <2>3 DEF SameAssoc
<1>4. CASE s.astat # "ok"
  <2>1. /\ sv' = [s EXCEPT !.msgs = IF s.msgs = <<>> THEN <<>> ELSE Tail(s.msgs)]
        /\ ex' = [e EXCEPT ![k] = ReceiveFails(r)]
    BY <1>1, <1>4 DEF ReceiveFrag, Assocs
  <2>2. (IF s.msgs = <<>> THEN <<>> ELSE Tail(s.msgs)) \in Seq(Packets)
    BY <1>2
  <2> QED BY <1>1, <1>3, <2>1, <2>2, ReceiveFailsEffect
<1>5. CASE s.astat = "ok" /\ m = <<>>
  <2>1. PICK q : q = [r EXCEPT !.pc = "wait", !.looks = s.link, !.woken = FALSE]
    OBVIOUS
  <2>2. sv' = [s EXCEPT !.msgs = <<>>] /\ ex' = [e EXCEPT ![k] = q]
    BY <1>1, <1>5, <2>1 DEF ReceiveFrag
  <2>3. PICK l \in Nat : l = s.link
    BY WireAssumption DEF Assocs, Calls
  <2>4. q = [r EXCEPT !.pc = "wait", !.looks = l, !.woken = FALSE]
    BY <2>1, <2>3
  <2>5. q \in ServerReps
    BY <2>4, ZenonT(40) DEF ServerReps
  <2>6. /\ q.pc = "wait" /\ q.failed = r.failed /\ q.executed = r.executed
        /\ q.nsent = r.nsent /\ q.st = r.st /\ q.assoc = r.assoc /\ q.status = r.status
        /\ q.then = r.then /\ q.sending = r.sending
    BY <2>4 DEF ServerReps
  <2>7. Received(r, q)
    BY <2>5, <2>6 DEF Received
  <2> QED BY <1>1, <1>2, <1>3, <2>2, <2>7
<1>6. CASE s.astat = "ok" /\ m # <<>>
  <2>1. Head(m) \in Packets /\ Tail(m) \in Seq(Packets)
    BY <1>2, <1>6
  <2>2. PICK last \in BOOLEAN : last = Head(m).last
    BY <2>1 DEF Packets
  <2>3. PICK pc \in {"mgr", "recvd"} : pc = IF r.executed THEN "mgr" ELSE "recvd"
    OBVIOUS
  <2>4. PICK q : q = [r EXCEPT !.pc = pc, !.executed = TRUE, !.gotlast = last]
    OBVIOUS
  <2>5. sv' = [s EXCEPT !.msgs = Tail(m)] /\ ex' = [e EXCEPT ![k] = q]
    BY <1>1, <1>6, <2>2, <2>3, <2>4 DEF ReceiveFrag
  <2>6. q \in ServerReps
    <3>1. CASE q = [r EXCEPT !.pc = "mgr", !.executed = TRUE, !.gotlast = last]
      BY <3>1 DEF ServerReps
    <3>2. CASE q = [r EXCEPT !.pc = "recvd", !.executed = TRUE, !.gotlast = last]
      BY <3>2 DEF ServerReps
    <3> QED BY <2>4, <3>1, <3>2
  <2>7. /\ q.pc = pc /\ q.failed = r.failed /\ q.executed = TRUE
        /\ q.nsent = r.nsent /\ q.st = r.st /\ q.assoc = r.assoc /\ q.status = r.status
        /\ q.then = r.then /\ q.sending = r.sending
    BY <2>4 DEF ServerReps
  <2>8. Received(r, q)
    BY <2>6, <2>7 DEF Received
  <2> QED BY <1>1, <1>3, <2>1, <2>5, <2>8
<1> QED BY <1>4, <1>5, <1>6

\* A fault has been queued or is on its way: from r the call comes to q.
Ended(r, q, k, then) ==
  /\ q \in ServerReps /\ q.st = "COMPLETED" /\ q.assoc = r.assoc /\ q.executed = r.executed
  /\ \/ q.pc = then
     \/ q.pc = "send" /\ q.then = then /\ q.sending.call = k /\ q.sending.type = "fault"

\* The call is over for good.
LEMMA EndedStage ==
  ASSUME NEW k \in Calls, NEW r, NEW q, NEW then \in {"mgr", "ending"}, Ended(r, q, k, then),
         then = "mgr" => r.executed
  PROVE  Stage(q, k) /\ Steady(q) /\ q.pc # "none" /\ \A b \in Nat : Answered(q, k, b)
BY DEF Ended, Stage, Steady, Answered

\* What a fault event comes to, in the records e.
Fails(s, e, k, event, then) ==
  /\ SameAssoc(s)
  /\ \/ up' = FALSE /\ ex' = e /\ ~ServerLegal(e[k].st, event)
     \/ up' = up /\ \E q : ex' = [e EXCEPT ![k] = q] /\ Ended(e[k], q, k, then)

\* The two fault events (cnsclsm.c)
LEMMA FaultEventEffect ==
  ASSUME NEW s \in Assocs, ex \in [Calls -> ServerReps], NEW e \in [Calls -> ServerReps],
         NEW k \in Calls, NEW event \in {"fault", "fault_dne"}, NEW then \in {"mgr", "ending"},
         FaultEvent(s, e, k, event, then)
  PROVE  Fails(s, e, k, event, then)
<1>1. CASE ~ServerLegal(e[k].st, event)
  <2>1. Abort(s, event, k) /\ ex' = e
    BY <1>1 DEF FaultEvent
  <2> QED BY <1>1, <2>1, AbortEffect DEF Fails
<1>2. CASE ServerLegal(e[k].st, event)
  <2>1. PICK r \in ServerReps : r = e[k]
    OBVIOUS
  <2>2. PICK status \in {"ok", "orphaned", "rejected"} :
          status = IF s.astat # "ok" /\ r.st = "RESPONSE" /\ ~Maybe(k) THEN "orphaned" ELSE r.status
    BY DEF ServerReps
  <2>3. PICK f : f = [e EXCEPT ![k].st = "COMPLETED", ![k].status = status]
    OBVIOUS
  <2>4. /\ up' = up
        /\ IF Maybe(k) \/ s.astat # "ok" THEN sv' = s /\ ex' = [f EXCEPT ![k].pc = then]
           ELSE SendFrag(s, f, k, LastFault(k), then)
    BY <1>2, <2>1, <2>2, <2>3 DEF FaultEvent
  <2>5. PICK c : c = [r EXCEPT !.st = "COMPLETED", !.status = status]
    OBVIOUS
  <2>6. c \in ServerReps
    <3>1. "COMPLETED" \in ServerCallStates
      BY ServerStates
    <3> QED BY <2>5, <3>1 DEF ServerReps
  <2>7. c.st = "COMPLETED" /\ c.assoc = r.assoc /\ c.executed = r.executed
    BY <2>5 DEF ServerReps
  <2>8. f = [e EXCEPT ![k] = c]
    BY <2>1, <2>3, <2>5
  <2>9. f \in [Calls -> ServerReps] /\ f[k] = c
    BY <2>6, <2>8
  <2>10. CASE sv' = s /\ ex' = [f EXCEPT ![k].pc = then]
    <3>1. PICK q : q = [c EXCEPT !.pc = then]
      OBVIOUS
    <3>2. q \in ServerReps
      <4>1. CASE q = [c EXCEPT !.pc = "mgr"]
        BY <2>6, <4>1, SMTT(30) DEF ServerReps
      <4>2. CASE q = [c EXCEPT !.pc = "ending"]
        BY <2>6, <4>2, SMTT(30) DEF ServerReps
      <4> QED BY <3>1, <4>1, <4>2
    <3>3. q.pc = then /\ q.st = c.st /\ q.assoc = c.assoc /\ q.executed = c.executed
      BY <2>6, <3>1 DEF ServerReps
    <3>4. ex' = [e EXCEPT ![k] = q]
      BY <2>8, <2>9, <2>10, <3>1
    <3>5. SameAssoc(s)
      BY <2>10 DEF SameAssoc
    <3> QED BY <2>1, <2>4, <2>7, <3>2, <3>3, <3>4, <3>5 DEF Ended, Fails
  <2>11. CASE SendFrag(s, f, k, LastFault(k), then)
    <3>1. /\ LastFault(k) \in Packets /\ LastFault(k).type = "fault" /\ LastFault(k).call = k
      <4>1. ex[k].hadPending \in BOOLEAN /\ ex[k].alerts \in Nat
        BY DEF ServerReps
      <4>2. 0 \in Nat /\ FALSE \in BOOLEAN
        OBVIOUS
      <4> QED BY <4>1, <4>2, ServerPackets DEF LastFault
    <3>2. PICK q \in ServerReps :
            /\ ex' = [f EXCEPT ![k] = q]
            /\ q.pc = "send" /\ q.sending = LastFault(k) /\ q.then = then
            /\ q.st = f[k].st /\ q.assoc = f[k].assoc /\ q.executed = f[k].executed
      BY <2>9, <2>11, <3>1, SendFragEffect
    <3>3. SameAssoc(s)
      BY <2>9, <2>11, <3>1, SendFragEffect
    <3>4. ex' = [e EXCEPT ![k] = q]
      BY <2>8, <3>2
    <3>5. Ended(r, q, k, then)
      BY <2>7, <2>9, <3>1, <3>2 DEF Ended
    <3> QED BY <2>1, <2>4, <3>3, <3>4, <3>5 DEF Fails
  <2> QED BY <2>4, <2>10, <2>11
<1> QED BY <1>1, <1>2

-----------------------------------------------------------------------------
(* The steps of a call executor *)

\* Where a step of the thread of call k begins
LEMMA AtStep ==
  ASSUME CallInv, NEW k \in Calls
  PROVE  /\ sv \in Assocs /\ ex \in [Calls -> ServerReps] /\ ex[k] \in ServerReps
         /\ Stages /\ Stage(ex[k], k) /\ (up => Steady(ex[k])) /\ up \in BOOLEAN
BY DEF CallInv, ServerTypes, WireTypes, Stages

\* The thread looks for a fragment, with a nudge before and after.
LEMMA ReceivesAlone ==
  ASSUME CallInv, Running, UNCHANGED clientVars, UNCHANGED wireVars, NEW k \in Calls,
         ex[k].pc \in {"ready", "wait", "mgr"}, NEW q, Received(ex[k], q),
         ex' = [ex EXCEPT ![k] = q], SameAssoc(sv)
  PROVE  CallInv'
<1>1. Stages /\ up \in BOOLEAN
  BY AtStep
<1>2. up' = up /\ c2s' = c2s /\ s2c' = s2c
  BY DEF wireVars
<1>3. Goes(ex[k], q, k)
  BY <1>1, <1>2, ReceivedGoes
<1>4. q.assoc = ex[k].assoc
  BY DEF Received
<1> QED BY <1>1, <1>2, <1>3, <1>4, StepAlone DEF SameAssoc

\* rpc_call_receive
LEMMA CallReceiveKeepsInv ==
  ASSUME CallInv, Running, UNCHANGED clientVars, NEW k \in Calls,
         ex[k].pc \in {"ready", "mgr"}, CallReceiveFor(k)
  PROVE  CallInv'
<1>1. sv \in Assocs /\ ex \in [Calls -> ServerReps] /\ ex[k] \in ServerReps
  BY AtStep
<1>2. UNCHANGED wireVars
  BY DEF CallReceiveFor
<1>3. SameAssoc(sv) /\ \E q : ex' = [ex EXCEPT ![k] = q] /\ Received(ex[k], q)
  <2>1. CASE ex[k].status = "orphaned"
    <3>1. ex' = [ex EXCEPT ![k] = ReceiveFails(ex[k])] /\ sv' = sv
      BY <2>1 DEF CallReceiveFor
    <3> QED BY <1>1, <3>1, ReceiveFailsEffect DEF SameAssoc
  <2>2. CASE ex[k].status # "orphaned"
    <3>1. ReceiveFrag(sv, ex, k)
      BY <2>2 DEF CallReceiveFor
    <3> QED BY <1>1, <3>1, ReceiveFragEffect
  <2> QED BY <2>1, <2>2
<1> QED BY <1>2, <1>3, ReceivesAlone

\* The wait for a fragment ends.
LEMMA WaitsKeepInv ==
  ASSUME CallInv, Running, UNCHANGED clientVars, NEW k \in Calls,
         ExecutorWakes(k) \/ ExecutorWaitCancelled(k)
  PROVE  CallInv'
<1>1. sv \in Assocs /\ ex \in [Calls -> ServerReps]
  BY AtStep
<1>2. UNCHANGED wireVars /\ ex[k].pc = "wait"
  BY DEF ExecutorWakes, ExecutorWaitCancelled, CallReceiveFor
<1>3. PICK r \in ServerReps : r = ex[k]
  BY <1>1
<1>4. PICK m : m = ReceiveFails(r)
  OBVIOUS
<1>5. Received(r, m) /\ m \in ServerReps /\ Nudged(r, r)
  BY <1>4, ReceiveFailsEffect DEF Received, Nudged
<1>6. CASE ExecutorWakes(k) /\ ex[k].looks # sv.link
  <2>1. PICK q : q = [m EXCEPT !.woken = FALSE]
    OBVIOUS
  <2>2. q \in ServerReps
    BY <1>5, <2>1, ZenonT(40) DEF ServerReps
  <2>3. Nudged(m, q)
    BY <1>5, <2>1, <2>2 DEF Nudged, ServerReps
  <2>4. ex' = [ex EXCEPT ![k] = q] /\ sv' = sv
    BY <1>3, <1>4, <1>6, <2>1 DEF ExecutorWakes
  <2>5. Received(r, q)
    BY <1>5, <2>3, ReceivedNudged
  <2> QED BY <1>1, <1>2, <1>3, <2>4, <2>5, ReceivesAlone DEF SameAssoc
<1>7. CASE ExecutorWakes(k) /\ ex[k].looks = sv.link
  <2>1. PICK s : s = [r EXCEPT !.woken = FALSE]
    OBVIOUS
  <2>2. s \in ServerReps
    BY <2>1 DEF ServerReps
  <2>3. Nudged(r, s)
    BY <2>1, <2>2 DEF Nudged, ServerReps
  <2>4. PICK e : e = [ex EXCEPT ![k] = s]
    OBVIOUS
  <2>5. ReceiveFrag(sv, e, k)
    BY <1>3, <1>7, <2>1, <2>4 DEF ExecutorWakes
  <2>6. e \in [Calls -> ServerReps] /\ e[k] = s
    BY <1>1, <2>2, <2>4
  <2>7. SameAssoc(sv) /\ \E q : ex' = [e EXCEPT ![k] = q] /\ Received(s, q)
    BY <1>1, <2>5, <2>6, ReceiveFragEffect
  <2>8. PICK q : ex' = [e EXCEPT ![k] = q] /\ Received(s, q)
    BY <2>7
  <2>9. ex' = [ex EXCEPT ![k] = q]
    BY <1>1, <2>4, <2>8
  <2>10. Nudged(q, q)
    BY <2>8 DEF Nudged, Received
  <2>11. Received(r, q)
    BY <2>3, <2>8, <2>10, ReceivedNudged
  <2> QED BY <1>2, <1>3, <2>7, <2>9, <2>11, ReceivesAlone
<1>8. CASE ExecutorWaitCancelled(k)
  <2>1. PICK q : q = [m EXCEPT !.woken = FALSE, !.cancelled = FALSE, !.acted = TRUE]
    OBVIOUS
  <2>2. q \in ServerReps
    <3>1. PICK n : n = [m EXCEPT !.woken = FALSE, !.cancelled = FALSE]
      OBVIOUS
    <3>2. n \in ServerReps
      BY <1>5, <3>1, ZenonT(60) DEF ServerReps
    <3>3. q = [n EXCEPT !.acted = TRUE]
      BY <2>1, <3>1
    <3> QED BY <3>2, <3>3 DEF ServerReps
  <2>3. Nudged(m, q)
    BY <1>5, <2>1, <2>2 DEF Nudged, ServerReps
  <2>4. ex' = [ex EXCEPT ![k] = q] /\ sv' = sv
    BY <1>3, <1>4, <1>8, <2>1 DEF ExecutorWaitCancelled
  <2>5. Received(r, q)
    BY <1>5, <2>3, ReceivedNudged
  <2> QED BY <1>1, <1>2, <1>3, <2>4, <2>5, ReceivesAlone DEF SameAssoc
<1> QED BY <1>6, <1>7, <1>8

\* The thread turns to something else: r becomes q.
Turns(r, q, pc) ==
  /\ q \in ServerReps /\ q.pc = pc
  /\ q.nsent = r.nsent /\ q.failed = r.failed /\ q.st = r.st /\ q.assoc = r.assoc
  /\ q.executed = r.executed /\ q.then = r.then /\ q.sending = r.sending /\ q.status = r.status

\* Only the program counter moves, after a nudge.
LEMMA TurnEffect ==
  ASSUME NEW r \in ServerReps, NEW m, Nudged(r, m),
         NEW pc \in {"ready", "mgr", "rejecting", "ending"}
  PROVE  Turns(r, [m EXCEPT !.pc = pc], pc)
<1>1. PICK q : q = [m EXCEPT !.pc = pc]
  OBVIOUS
<1>2. m \in ServerReps
  BY DEF Nudged
<1>3. q \in ServerReps
  <2>1. CASE q = [m EXCEPT !.pc = "ready"]
    BY <1>2, <2>1 DEF ServerReps
  <2>2. CASE q = [m EXCEPT !.pc = "mgr"]
    BY <1>2, <2>2 DEF ServerReps
  <2>3. CASE q = [m EXCEPT !.pc = "rejecting"]
    BY <1>2, <2>3 DEF ServerReps
  <2>4. CASE q = [m EXCEPT !.pc = "ending"]
    BY <1>2, <2>4 DEF ServerReps
  <2> QED BY <1>1, <2>1, <2>2, <2>3, <2>4
<1>4. /\ q.pc = pc /\ q.nsent = m.nsent /\ q.failed = m.failed /\ q.st = m.st
      /\ q.assoc = m.assoc /\ q.executed = m.executed /\ q.then = m.then
      /\ q.sending = m.sending /\ q.status = m.status
  BY <1>1, <1>2 DEF ServerReps
<1> QED BY <1>1, <1>3, <1>4 DEF Turns, Nudged

\* Such a step is harmless as long as the new place allows it.
LEMMA TurnsAlone ==
  ASSUME CallInv, Running, UNCHANGED clientVars, UNCHANGED <<c2s, s2c>>, up' = up, SameAssoc(sv),
         NEW k \in Calls, ex[k].pc \notin {"none", "send", "freed"},
         NEW pc \in {"ready", "mgr", "rejecting", "ending"},
         NEW q, Turns(ex[k], q, pc), ex' = [ex EXCEPT ![k] = q],
         pc = "mgr" => ex[k].executed,
         pc = "ending" /\ up => \/ ~ex[k].failed \/ ex[k].st = "COMPLETED" \/ ex[k].status = "orphaned"
  PROVE  CallInv'
<1>1. Stage(ex[k], k) /\ (up => Steady(ex[k])) /\ up \in BOOLEAN
  BY AtStep
<1>2. PICK r : r = ex[k]
  OBVIOUS
<1>3. Stage(q, k)
  BY DEF Stage, Turns
<1>4. up => Steady(q)
  BY <1>1, <1>2 DEF Steady, Turns
<1>5. \A b \in Nat : Answered(r, k, b) => Answered(q, k, b)
  BY <1>2 DEF Answered, Turns
<1>6. Goes(ex[k], q, k)
  BY <1>2, <1>3, <1>4, <1>5 DEF Goes, Lives, Turns
<1>7. q.assoc = ex[k].assoc
  BY DEF Turns
<1> QED BY <1>1, <1>6, <1>7, StepAlone DEF SameAssoc

\* A step that is no step of the call's thread
LEMMA NudgesAlone ==
  ASSUME CallInv, Running, UNCHANGED clientVars, UNCHANGED <<c2s, s2c>>, up' \in BOOLEAN, up' => up,
         SameAssoc(sv), NEW k \in Calls, NEW q, Nudged(ex[k], q), ex' = [ex EXCEPT ![k] = q]
  PROVE  CallInv'
<1>1. Goes(ex[k], q, k)
  BY AtStep, NudgedGoes
<1>2. q.assoc = ex[k].assoc
  BY DEF Nudged
<1> QED BY <1>1, <1>2, StepAlone DEF SameAssoc

\* The server's process is gone: no call moves any more.
LEMMA AbortAlone ==
  ASSUME CallInv, Running, UNCHANGED clientVars, UNCHANGED <<c2s, s2c>>, ex' = ex,
         NEW k \in Calls,
         NEW what \in {"null_assoc", "null_call_rep", "send", "fault", "fault_dne", "recv",
                   "remote_alert", "orphaned"},
         Abort(sv, what, k)
  PROVE  CallInv'
<1>1. sv \in Assocs /\ ex \in [Calls -> ServerReps] /\ ex[k] \in ServerReps
  BY AtStep
<1>2. SameAssoc(sv) /\ up' = FALSE
  BY <1>1, AbortEffect
<1>3. ex' = [ex EXCEPT ![k] = ex[k]] /\ Nudged(ex[k], ex[k])
  BY <1>1 DEF Nudged
<1> QED BY <1>2, <1>3, NudgesAlone

\* The thread gets the call, enters the stub, refuses the call or is done with it.
LEMMA TurnsKeepInv ==
  ASSUME CallInv, Running, UNCHANGED clientVars, NEW k \in Calls,
         \/ ExecutorStarts(k) \/ Invoke(k) \/ ExecutorRefuses(k) \/ ManagerReturns(k)
         \/ ManagerTakesCancel(k)
  PROVE  CallInv'
<1>1. /\ sv \in Assocs /\ ex \in [Calls -> ServerReps] /\ up \in BOOLEAN
      /\ Stage(ex[k], k) /\ (up => Steady(ex[k]))
  BY AtStep
<1>2. PICK r \in ServerReps : r = ex[k]
  BY <1>1
<1>3. Nudged(r, r) /\ Nudged(r, CancelCaf(r)) /\ Nudged(r, EnablePost(r))
  BY CancelNudges DEF Nudged
<1>4. sv' = sv => SameAssoc(sv)
  BY <1>1 DEF SameAssoc
<1>5. CASE ExecutorStarts(k)
  <2>1. PICK q : q = [r EXCEPT !.pc = "ready"]
    OBVIOUS
  <2>2. Turns(r, q, "ready")
    BY <1>3, <2>1, TurnEffect
  <2>3. /\ ex' = [ex EXCEPT ![k] = q] /\ sv' = sv /\ up' = up /\ c2s' = c2s /\ s2c' = s2c
        /\ r.pc = "queued"
    BY <1>2, <1>5, <2>1 DEF ExecutorStarts, wireVars
  <2> QED BY <1>2, <1>4, <2>2, <2>3, TurnsAlone
<1>6. CASE Invoke(k) /\ ex[k].assoc
  <2>1. PICK q : q = [EnablePost(r) EXCEPT !.pc = "mgr"]
    OBVIOUS
  <2>2. Turns(r, q, "mgr")
    BY <1>3, <2>1, TurnEffect
  <2>3. /\ ex' = [ex EXCEPT ![k] = q] /\ sv' = sv /\ up' = up /\ c2s' = c2s /\ s2c' = s2c
        /\ r.pc = "recvd"
    BY <1>2, <1>6, <2>1 DEF Invoke
  <2>4. r.executed
    BY <1>1, <1>2, <2>3 DEF Stage
  <2> QED BY <1>2, <1>4, <2>2, <2>3, <2>4, TurnsAlone
<1>7. CASE Invoke(k) /\ ~ex[k].assoc
  <2>1. Abort(sv, "null_assoc", k) /\ ex' = ex /\ c2s' = c2s /\ s2c' = s2c
    BY <1>7 DEF Invoke
  <2> QED BY <2>1, AbortAlone
<1>8. CASE ExecutorRefuses(k)
  <2>1. PICK q : q = [CancelCaf(r) EXCEPT !.pc = "rejecting"]
    OBVIOUS
  <2>2. Turns(r, q, "rejecting")
    BY <1>3, <2>1, TurnEffect
  <2>3. /\ ex' = [ex EXCEPT ![k] = q] /\ sv' = sv /\ up' = up /\ c2s' = c2s /\ s2c' = s2c
        /\ r.pc \in {"ready", "mgr"}
    BY <1>2, <1>8, <2>1 DEF ExecutorRefuses, InManager, wireVars
  <2> QED BY <1>2, <1>4, <2>2, <2>3, TurnsAlone
<1>9. CASE ManagerReturns(k)
  <2>1. PICK q : q = [CancelCaf(r) EXCEPT !.pc = "ending"]
    OBVIOUS
  <2>2. Turns(r, q, "ending")
    BY <1>3, <2>1, TurnEffect
  <2>3. /\ ex' = [ex EXCEPT ![k] = q] /\ sv' = sv /\ up' = up /\ c2s' = c2s /\ s2c' = s2c
        /\ r.pc \in {"caf", "mgr"}
        /\ r.pc = "caf" \/ ~r.failed \/ r.st = "COMPLETED" \/ r.status = "orphaned"
    BY <1>2, <1>9, <2>1 DEF ManagerReturns, wireVars
  <2>4. up => ~r.failed \/ r.st = "COMPLETED" \/ r.status = "orphaned"
    BY <1>1, <1>2, <2>3 DEF Stage, Steady
  <2> QED BY <1>2, <1>4, <2>2, <2>3, <2>4, TurnsAlone
<1>10. CASE ManagerTakesCancel(k)
  <2>1. PICK q : q = [r EXCEPT !.cancelled = FALSE, !.acted = TRUE]
    OBVIOUS
  <2>2. q \in ServerReps
    BY <2>1, ZenonT(40) DEF ServerReps
  <2>3. Nudged(r, q)
    BY <2>1, <2>2 DEF Nudged, ServerReps
  <2>4. ex' = [ex EXCEPT ![k] = q] /\ sv' = sv /\ up' = up /\ c2s' = c2s /\ s2c' = s2c
    BY <1>2, <1>10, <2>1 DEF ManagerTakesCancel, wireVars
  <2> QED BY <1>1, <1>2, <1>4, <2>3, <2>4, NudgesAlone
<1> QED BY <1>5, <1>6, <1>7, <1>8, <1>9, <1>10

\* A fault goes out.
LEMMA FaultsKeepInv ==
  ASSUME CallInv, Running, UNCHANGED clientVars, NEW k \in Calls,
         ManagerFaults(k) \/ ExecutorRejects(k)
  PROVE  CallInv'
<1>1. sv \in Assocs /\ ex \in [Calls -> ServerReps] /\ up \in BOOLEAN /\ Stage(ex[k], k)
  BY AtStep
<1>2. PICK r \in ServerReps : r = ex[k]
  BY <1>1
<1>3. PICK c : c = [r EXCEPT !.status = "rejected"]
  OBVIOUS
<1>4. c \in ServerReps
  BY <1>3 DEF ServerReps
<1>5. /\ c.pc = r.pc /\ c.nsent = r.nsent /\ c.failed = r.failed /\ c.st = r.st
      /\ c.assoc = r.assoc /\ c.executed = r.executed /\ c.then = r.then
      /\ c.sending = r.sending
  BY <1>3 DEF ServerReps
<1>6. PICK m \in ServerReps, event \in {"fault", "fault_dne"}, then \in {"mgr", "ending"} :
        /\ m = r \/ m = c
        /\ FaultEvent(sv, [ex EXCEPT ![k] = m], k, event, then)
        /\ r.pc = IF then = "mgr" THEN "mgr" ELSE "rejecting"
  <2>1. CASE ManagerFaults(k)
    <3>1. ex = [ex EXCEPT ![k] = r]
      BY <1>1, <1>2
    <3>2. FaultEvent(sv, ex, k, "fault", "mgr") /\ r.pc = "mgr"
      BY <1>2, <2>1 DEF ManagerFaults, InManager
    <3> QED BY <3>1, <3>2
  <2>2. CASE ExecutorRejects(k)
    <3>1. [ex EXCEPT ![k].status = "rejected"] = [ex EXCEPT ![k] = c]
      BY <1>2, <1>3
    <3>2. FaultEvent(sv, [ex EXCEPT ![k].status = "rejected"], k, "fault_dne", "ending")
      BY <2>2 DEF ExecutorRejects, CallReject
    <3>3. r.pc = "rejecting"
      BY <1>2, <2>2 DEF ExecutorRejects
    <3> QED BY <1>4, <3>1, <3>2, <3>3
  <2> QED BY <2>1, <2>2
<1>7. UNCHANGED <<c2s, s2c>>
  BY DEF ManagerFaults, ExecutorRejects, CallReject, FaultEvent
<1>8. PICK e : e = [ex EXCEPT ![k] = m]
  OBVIOUS
<1>9. e \in [Calls -> ServerReps] /\ e[k] = m
  BY <1>1, <1>8
<1>10. /\ SameAssoc(sv)
       /\ \/ up' = FALSE /\ ex' = e
          \/ up' = up /\ \E q : ex' = [e EXCEPT ![k] = q] /\ Ended(m, q, k, then)
  <2>1. FaultEvent(sv, e, k, event, then)
    BY <1>6, <1>8
  <2>2. sv \in Assocs /\ ex \in [Calls -> ServerReps] /\ e \in [Calls -> ServerReps]
    BY <1>1, <1>9
  <2>3. Fails(sv, e, k, event, then)
    BY <2>1, <2>2, FaultEventEffect
  <2> QED BY <1>9, <2>3 DEF Fails
<1>11. CASE up' = FALSE /\ ex' = e
  <2>1. Stage(m, k)
    BY <1>1, <1>2, <1>5, <1>6 DEF Stage
  <2>2. Goes(r, m, k)
    BY <1>5, <1>6, <1>11, <2>1 DEF Goes, Lives
  <2>3. m.assoc = r.assoc
    BY <1>5, <1>6
  <2> QED BY <1>1, <1>2, <1>7, <1>8, <1>10, <1>11, <2>2, <2>3, StepAlone DEF SameAssoc
<1>12. CASE up' = up /\ \E q : ex' = [e EXCEPT ![k] = q] /\ Ended(m, q, k, then)
  <2>1. PICK q : ex' = [e EXCEPT ![k] = q] /\ Ended(m, q, k, then)
    BY <1>12
  <2>2. then = "mgr" => m.executed
    BY <1>1, <1>2, <1>5, <1>6 DEF Stage
  <2>3. Stage(q, k) /\ Steady(q) /\ q.pc # "none" /\ \A b \in Nat : Answered(q, k, b)
    BY <2>1, <2>2, EndedStage
  <2>4. Goes(r, q, k)
    <3>1. r.pc # "none" /\ q \in ServerReps
      BY <1>6, <2>1 DEF Ended
    <3> QED BY <1>12, <2>3, <3>1 DEF Goes, Lives
  <2>5. q.assoc = r.assoc
    BY <1>5, <1>6, <2>1 DEF Ended
  <2>6. ex' = [ex EXCEPT ![k] = q]
    BY <1>1, <1>8, <2>1
  <2> QED BY <1>1, <1>2, <1>7, <1>10, <1>12, <2>4, <2>5, <2>6, StepAlone DEF SameAssoc
<1> QED BY <1>10, <1>11, <1>12

\* The call is over and gives its association back, if it still has it.
LEMMA EndsAlone ==
  ASSUME CallInv, Running, UNCHANGED clientVars, UNCHANGED wireVars, NEW k \in Calls,
         ex[k].pc # "none", NEW s \in Assocs, s.link = sv.link, s.ref = sv.ref,
         NEW m \in ServerReps, m.assoc = ex[k].assoc, EndCall(s, [ex EXCEPT ![k] = m], k)
  PROVE  CallInv'
<1>1. ServerTypes /\ ex \in [Calls -> ServerReps] /\ up \in BOOLEAN
  BY AtStep DEF CallInv
<1>2. PICK e : e = [ex EXCEPT ![k] = m]
  OBVIOUS
<1>3. e \in [Calls -> ServerReps] /\ e[k] = m
  BY <1>1, <1>2
<1>4. EndCall(s, e, k)
  BY <1>2
<1>5. /\ \E q \in ServerReps : /\ ex' = [e EXCEPT ![k] = q]
                               /\ q.pc = "freed" /\ ~q.assoc /\ ~q.failed
      /\ sv' \in Assocs
      /\ sv'.link = IF e[k].assoc /\ s.link = k THEN 0 ELSE s.link
      /\ sv'.ref = IF e[k].assoc THEN s.ref - 1 ELSE s.ref
  BY <1>3, <1>4, EndCallEffect
<1>6. PICK q \in ServerReps : /\ ex' = [e EXCEPT ![k] = q]
                              /\ q.pc = "freed" /\ ~q.assoc /\ ~q.failed
  BY <1>5
<1>7. ex' = [ex EXCEPT ![k] = q]
  BY <1>1, <1>2, <1>6
<1>8. /\ ex' \in [Calls -> ServerReps] /\ ex'[k] = q
      /\ \A j \in Calls : j # k => Nudged(ex[j], ex'[j])
  BY <1>1, <1>7, Alone
<1>9. Stage(q, k) /\ Steady(q) /\ \A b \in Nat : Answered(q, k, b)
  BY <1>6 DEF Stage, Steady, Answered
<1>10. UNCHANGED <<up, c2s, s2c>>
  BY DEF wireVars
<1>11. Goes(ex[k], ex'[k], k)
  BY <1>6, <1>8, <1>9, <1>10 DEF Goes, Lives
<1>12. HoldsOn(k) \/ GivesBack(k)
  <2>1. CASE ex[k].assoc
    BY <1>3, <1>5, <1>6, <1>8, <2>1 DEF GivesBack
  <2>2. CASE ~ex[k].assoc
    <3>1. ex[k].assoc = q.assoc
      BY <1>1, <1>6, <2>2 DEF ServerReps
    <3> QED BY <1>3, <1>5, <1>8, <2>2, <3>1 DEF HoldsOn
  <2> QED BY <2>1, <2>2
<1> QED BY <1>1, <1>5, <1>8, <1>10, <1>11, <1>12, OneMoves

\* rpc__cn_call_end
LEMMA CallEndKeepsInv ==
  ASSUME CallInv, Running, UNCHANGED clientVars, NEW k \in Calls, ServerCallEnd(k)
  PROVE  CallInv'
<1>1. /\ sv \in Assocs /\ ex \in [Calls -> ServerReps] /\ up \in BOOLEAN
      /\ Stage(ex[k], k) /\ (up => Steady(ex[k]))
  BY AtStep
<1>2. PICK r \in ServerReps : r = ex[k]
  BY <1>1
<1>3. PICK st \in {"NO_NSTATE", "COMPLETED"} : st = IF r.st = "REQUEST" THEN "NO_NSTATE" ELSE "COMPLETED"
  OBVIOUS
<1>4. PICK m : m = [r EXCEPT !.st = st]
  OBVIOUS
<1>5. m \in ServerReps
  <2>1. st \in ServerCallStates
    BY ServerStates
  <2> QED BY <1>4, <2>1 DEF ServerReps
<1>6. /\ m.st = st /\ m.assoc = r.assoc /\ m.nsent = r.nsent /\ m.executed = r.executed
      /\ m.status = r.status
  BY <1>4 DEF ServerReps
<1>7. PICK e : e = [ex EXCEPT ![k] = m]
  OBVIOUS
<1>8. [ex EXCEPT ![k].st = IF @ = "REQUEST" THEN "NO_NSTATE" ELSE "COMPLETED"] = e
  BY <1>1, <1>2, <1>3, <1>4, <1>7
<1>9. e \in [Calls -> ServerReps] /\ e[k] = m
  BY <1>1, <1>5, <1>7
<1>10. r.pc = "ending" /\ UNCHANGED wireVars
  BY <1>2 DEF ServerCallEnd
<1>11. CASE ex[k].st = "RESPONSE" /\ ~Maybe(k) /\ ex[k].status # "orphaned"
  <2>1. SendFrag(sv, e, k, LastResponse(k), "freed")
    BY <1>8, <1>11 DEF ServerCallEnd
  <2>2. r.nsent + 1 \in Nat /\ r.hadPending \in BOOLEAN /\ r.alerts \in Nat /\ TRUE \in BOOLEAN
    BY DEF ServerReps
  <2>3. /\ LastResponse(k) \in Packets /\ LastResponse(k).type = "response"
        /\ LastResponse(k).call = k /\ LastResponse(k).n = r.nsent + 1
    <3>1. PICK n \in Nat, t \in BOOLEAN, h \in BOOLEAN, a \in Nat :
            n = r.nsent + 1 /\ t = TRUE /\ h = r.hadPending /\ a = r.alerts
      BY <2>2
    <3>2. PICK p : p = Response(k, n, t, h, a)
      OBVIOUS
    <3>3. p = LastResponse(k)
      BY <1>2, <3>1, <3>2 DEF LastResponse
    <3>4. p \in Packets /\ p.type = "response" /\ p.call = k /\ p.n = n
      BY <3>2, ServerPackets
    <3> QED BY <3>1, <3>3, <3>4
  <2>4. "freed" \in {"mgr", "ending", "freed"}
    OBVIOUS
  <2>5. SameAssoc(sv) /\ \E q \in ServerReps :
          /\ ex' = [e EXCEPT ![k] = q]
          /\ q.pc = "send" /\ q.sending = LastResponse(k) /\ q.then = "freed" /\ ~q.failed
          /\ q.nsent = e[k].nsent /\ q.st = e[k].st /\ q.assoc = e[k].assoc
          /\ q.executed = e[k].executed /\ q.status = e[k].status
    BY <1>1, <1>9, <2>1, <2>3, <2>4, SendFragEffect
  <2>6. PICK q \in ServerReps :
          /\ ex' = [e EXCEPT ![k] = q]
          /\ q.pc = "send" /\ q.sending = LastResponse(k) /\ q.then = "freed" /\ ~q.failed
          /\ q.st = m.st /\ q.assoc = m.assoc
    BY <1>9, <2>5
  <2>7. ex' = [ex EXCEPT ![k] = q]
    BY <1>1, <1>7, <2>6
  <2>8. q.st = "COMPLETED"
    BY <1>2, <1>3, <1>6, <1>11, <2>6
  <2>9. Stage(q, k) /\ Steady(q)
    BY <2>3, <2>6, <2>8 DEF Stage, Steady
  <2>10. ASSUME up, NEW b \in Nat, Answered(r, k, b)
         PROVE  Answered(q, k, b)
    <3>1. ~r.failed
      BY <1>1, <1>2, <1>10, <1>11, <2>10 DEF Steady
    <3>2. r.nsent = b
      BY <1>2, <1>10, <1>11, <2>10, <3>1 DEF Answered
    <3> QED BY <1>11, <2>3, <2>6, <2>8, <3>2 DEF Answered
  <2>11. UNCHANGED <<up, c2s, s2c>>
    BY <1>10 DEF wireVars
  <2>12. Goes(r, q, k)
    BY <1>10, <2>6, <2>9, <2>10, <2>11 DEF Goes, Lives
  <2>13. q.assoc = r.assoc
    BY <1>6, <2>6
  <2> QED BY <1>1, <1>2, <2>5, <2>7, <2>11, <2>12, <2>13, StepAlone DEF SameAssoc
<1>12. CASE ~(ex[k].st = "RESPONSE" /\ ~Maybe(k) /\ ex[k].status # "orphaned")
  <2>1. EndCall(sv, e, k)
    BY <1>8, <1>12 DEF ServerCallEnd
  <2>2. EndCall(sv, [ex EXCEPT ![k] = m], k)
    BY <1>7, <2>1
  <2>3. m.assoc = ex[k].assoc /\ ex[k].pc # "none"
    BY <1>2, <1>6, <1>10
  <2> QED BY <1>1, <1>5, <1>10, <2>2, <2>3, EndsAlone
<1> QED BY <1>11, <1>12

\* The packet has been taken by the socket.
LEMMA SentKeepsInv ==
  ASSUME CallInv, Running, UNCHANGED clientVars, NEW k \in Calls, ServerSent(k)
  PROVE  CallInv'
<1>1. /\ sv \in Assocs /\ ex \in [Calls -> ServerReps] /\ Stage(ex[k], k)
  BY AtStep
<1>2. PICK r \in ServerReps : r = ex[k]
  BY <1>1
<1>3. PICK astat \in {"ok", "closed"} : astat = IF r.failed THEN "closed" ELSE sv.astat
  BY <1>1 DEF Assocs
<1>4. PICK s : s = [sv EXCEPT !.sendmsg = FALSE, !.astat = astat]
  OBVIOUS
<1>5. s \in Assocs
  BY <1>1, <1>4 DEF Assocs
<1>6. s.link = sv.link /\ s.ref = sv.ref
  BY <1>1, <1>4 DEF Assocs
<1>7. s = [sv EXCEPT !.sendmsg = FALSE, !.astat = IF ex[k].failed THEN "closed" ELSE @]
  BY <1>1, <1>2, <1>3, <1>4 DEF Assocs
<1>8. r.pc = "sent" /\ UNCHANGED wireVars
  BY <1>2 DEF ServerSent
<1>9. CASE r.then = "freed"
  <2>1. EndCall(s, ex, k)
    BY <1>2, <1>7, <1>9 DEF ServerSent
  <2>2. ex = [ex EXCEPT ![k] = r]
    BY <1>1, <1>2
  <2>3. EndCall(s, [ex EXCEPT ![k] = r], k)
    BY <2>1, <2>2
  <2> QED BY <1>2, <1>5, <1>6, <1>8, <2>3, EndsAlone
<1>10. CASE r.then # "freed"
  <2>1. PICK then \in {"mgr", "ending"} : then = r.then
    BY <1>10 DEF ServerReps
  <2>2. PICK q : q = [r EXCEPT !.pc = then]
    OBVIOUS
  <2>3. ex' = [ex EXCEPT ![k] = q] /\ sv' = s
    BY <1>2, <1>7, <1>10, <2>1, <2>2 DEF ServerSent
  <2>4. Turns(r, q, then)
    BY <2>2, TurnEffect DEF Nudged
  <2>5. then = "mgr" => r.executed
    BY <1>1, <1>2, <1>8, <2>1 DEF Stage
  <2>6. then = "ending" => r.st = "COMPLETED"
    BY <1>1, <1>2, <1>8, <2>1 DEF Stage
  <2>7. SameAssoc(sv)
    BY <1>5, <1>6, <2>3 DEF SameAssoc
  <2>8. UNCHANGED <<up, c2s, s2c>>
    BY <1>8 DEF wireVars
  <2>9. then \in {"ready", "mgr", "rejecting", "ending"} /\ r.pc \notin {"none", "send", "freed"}
    BY <1>8, <2>1
  <2> QED BY <1>2, <2>3, <2>4, <2>5, <2>6, <2>7, <2>8, <2>9, TurnsAlone
<1> QED BY <1>9, <1>10

\* rpc_call_transmit
LEMMA SendsKeepInv ==
  ASSUME CallInv, Running, UNCHANGED clientVars, NEW k \in Calls, ManagerSends(k)
  PROVE  CallInv'
<1>1. /\ sv \in Assocs /\ ex \in [Calls -> ServerReps] /\ up \in BOOLEAN
      /\ Stage(ex[k], k) /\ (up => Steady(ex[k])) /\ Stages
  BY AtStep
<1>2. PICK r \in ServerReps : r = ex[k]
  BY <1>1
<1>3. /\ r.pc = "mgr" /\ ~r.failed /\ r.executed /\ UNCHANGED <<c2s, s2c>>
  BY <1>1, <1>2 DEF ManagerSends, InManager, Stage
<1>4. PICK n \in Nat : n = r.nsent + 1
  BY DEF ServerReps
<1>5. PICK m : m = [r EXCEPT !.nsent = n]
  OBVIOUS
<1>6. m \in ServerReps
  BY <1>5 DEF ServerReps
<1>7. /\ m.pc = r.pc /\ m.nsent = n /\ m.failed = r.failed /\ m.st = r.st /\ m.assoc = r.assoc
      /\ m.executed = r.executed /\ m.status = r.status
  BY <1>5 DEF ServerReps
<1>8. PICK e : e = [ex EXCEPT ![k] = m]
  OBVIOUS
<1>9. e = [ex EXCEPT ![k].nsent = ex[k].nsent + 1] /\ e \in [Calls -> ServerReps] /\ e[k] = m
  BY <1>1, <1>2, <1>4, <1>5, <1>6, <1>8
<1>10. sv' = sv => SameAssoc(sv)
  BY <1>1 DEF SameAssoc
<1>11. CASE ~ServerLegal(ex[k].st, "send")
  <2>1. Abort(sv, "send", k) /\ ex' = ex
    BY <1>11 DEF ManagerSends
  <2> QED BY <1>3, <2>1, AbortAlone
<1>12. CASE ServerLegal(ex[k].st, "send") /\ sv.astat # "ok"
  <2>1. PICK q : q = [r EXCEPT !.status = "orphaned"]
    OBVIOUS
  <2>2. q \in ServerReps
    BY <2>1 DEF ServerReps
  <2>3. /\ q.pc = r.pc /\ q.nsent = r.nsent /\ q.failed = r.failed /\ q.st = r.st
        /\ q.assoc = r.assoc /\ q.executed = r.executed
    BY <2>1 DEF ServerReps
  <2>4. ex' = [ex EXCEPT ![k] = q] /\ sv' = sv /\ up' = up
    BY <1>2, <1>12, <2>1 DEF ManagerSends
  <2>5. Goes(r, q, k)
    BY <1>3, <2>2, <2>3, <2>4 DEF Goes, Lives, Stage, Steady, Answered
  <2> QED BY <1>1, <1>2, <1>3, <1>10, <2>3, <2>4, <2>5, StepAlone DEF SameAssoc
<1>13. CASE ServerLegal(ex[k].st, "send") /\ sv.astat = "ok" /\ Maybe(k)
  <2>1. ex' = [ex EXCEPT ![k] = m] /\ sv' = sv /\ up' = up
    BY <1>8, <1>9, <1>13 DEF ManagerSends
  <2>2. Goes(r, m, k)
    BY <1>3, <1>6, <1>7, <1>13, <2>1 DEF Goes, Lives, Stage, Steady, Answered
  <2> QED BY <1>1, <1>2, <1>3, <1>7, <1>10, <2>1, <2>2, StepAlone DEF SameAssoc
<1>14. CASE ServerLegal(ex[k].st, "send") /\ sv.astat = "ok" /\ ~Maybe(k)
  <2>1. r.st = "RESPONSE"
    BY <1>2, <1>14, SendsInResponse DEF ServerReps
  <2>2. PICK f \in BOOLEAN, a \in Nat : f = FALSE /\ a = 0
    OBVIOUS
  <2>3. PICK p : p = Response(k, n, f, f, a)
    OBVIOUS
  <2>4. p \in Packets /\ p.type = "response" /\ p.call = k /\ p.n = n
    BY <2>3, ServerPackets
  <2>5. SendFrag(sv, e, k, p, "mgr") /\ up' = up
    BY <1>2, <1>4, <1>9, <1>14, <2>2, <2>3 DEF ManagerSends
  <2>6. SameAssoc(sv) /\ \E q \in ServerReps :
          /\ ex' = [e EXCEPT ![k] = q]
          /\ q.pc = "send" /\ q.sending = p /\ q.then = "mgr" /\ ~q.failed
          /\ q.nsent = e[k].nsent /\ q.st = e[k].st /\ q.assoc = e[k].assoc
          /\ q.executed = e[k].executed /\ q.status = e[k].status
    <3>1. "mgr" \in {"mgr", "ending", "freed"} /\ e \in [Calls -> ServerReps] /\ sv \in Assocs
      BY <1>1, <1>9
    <3>2. SendFrag(sv, e, k, p, "mgr") /\ p \in Packets
      BY <2>4, <2>5
    <3> QED BY <3>1, <3>2, SendFragEffect
  <2>7. PICK q \in ServerReps :
          /\ ex' = [e EXCEPT ![k] = q]
          /\ q.pc = "send" /\ q.sending = p /\ q.then = "mgr" /\ ~q.failed
          /\ q.nsent = n /\ q.st = m.st /\ q.assoc = m.assoc /\ q.executed = m.executed
    BY <1>7, <1>9, <2>6
  <2>8. ex' = [ex EXCEPT ![k] = q]
    BY <1>1, <1>8, <2>7
  <2>9. Stage(q, k) /\ Steady(q)
    BY <1>3, <1>7, <2>4, <2>7 DEF Stage, Steady
  <2>10. ASSUME NEW b \in Nat, Answered(r, k, b)
         PROVE  Answered(q, k, b)
    <3>1. r.nsent = b
      BY <1>3, <1>14, <2>1, <2>10 DEF Answered
    <3> QED BY <1>4, <1>14, <2>4, <2>7, <3>1 DEF Answered
  <2>11. Goes(r, q, k)
    BY <1>3, <2>5, <2>7, <2>9, <2>10 DEF Goes, Lives
  <2> QED BY <1>1, <1>2, <1>3, <1>7, <2>5, <2>6, <2>7, <2>8, <2>11, StepAlone DEF SameAssoc
<1> QED BY <1>11, <1>12, <1>13, <1>14

\* A cancel is taken in sendmsg.
LEMMA SendCancelledKeepsInv ==
  ASSUME CallInv, Running, UNCHANGED clientVars, NEW k \in Calls, ServerSendmsgCancelled(k)
  PROVE  CallInv'
<1>0. CASE sv.link = 0
  <2>1. Abort(sv, "null_call_rep", k) /\ ex' = ex /\ UNCHANGED <<c2s, s2c>>
    BY <1>0 DEF ServerSendmsgCancelled
  <2> QED BY <2>1, AbortAlone
<1> SUFFICES ASSUME sv.link # 0 PROVE CallInv'
  BY <1>0
<1>1. /\ sv \in Assocs /\ ex \in [Calls -> ServerReps] /\ up \in BOOLEAN
      /\ Stage(ex[k], k)
  BY AtStep
<1>2. PICK r \in ServerReps : r = ex[k]
  BY <1>1
<1>3. PICK u \in BOOLEAN : u = r.sending.last
  BY DEF ServerReps, Packets
<1>4. PICK m : m = [r EXCEPT !.pc = "mgr", !.failed = TRUE]
  OBVIOUS
<1>5. PICK o : o = [m EXCEPT !.cancelled = FALSE, !.acted = TRUE]
  OBVIOUS
<1>6. PICK q : q = [o EXCEPT !.unsaid = u]
  OBVIOUS
<1>7. m \in ServerReps
  BY <1>4 DEF ServerReps
<1>8. o \in ServerReps
  BY <1>5, <1>7, ZenonT(60) DEF ServerReps
<1>9. q \in ServerReps
  BY <1>6, <1>8 DEF ServerReps
<1>10. q = [r EXCEPT !.pc = "mgr", !.failed = TRUE, !.cancelled = FALSE, !.acted = TRUE,
                     !.unsaid = u]
  BY <1>4, <1>5, <1>6
<1>11. /\ q.pc = "mgr" /\ q.failed = TRUE /\ q.st = r.st
       /\ q.assoc = r.assoc /\ q.executed = r.executed
  BY <1>10 DEF ServerReps
<1>12. /\ r.pc = "send" /\ r.then = "mgr" /\ UNCHANGED <<up, c2s, s2c>>
       /\ ex' = [ex EXCEPT ![k] = q]
  BY <1>2, <1>3, <1>10 DEF ServerSendmsgCancelled
<1>13. r.executed
  BY <1>1, <1>2, <1>12 DEF Stage
<1>14. UNCHANGED <<up, c2s, s2c>>
  BY <1>12
<1>15. Goes(r, q, k)
  BY <1>9, <1>11, <1>12, <1>13, <1>14 DEF Goes, Lives, Stage, Steady, Answered
<1>16. PICK t : t = sv' /\ t = [sv EXCEPT !.sendmsg = FALSE]
  BY DEF ServerSendmsgCancelled
<1>17. t \in Assocs /\ t.link = sv.link /\ t.ref = sv.ref
  BY <1>1, <1>16 DEF Assocs
<1>18. sv' \in Assocs /\ sv'.link = sv.link /\ sv'.ref = sv.ref
  BY <1>16, <1>17
<1>19. Goes(ex[k], q, k) /\ q.assoc = ex[k].assoc
  BY <1>2, <1>11, <1>15
<1>20. UNCHANGED <<c2s, s2c>> /\ up' \in BOOLEAN /\ (up' => up)
  BY <1>1, <1>14
<1> QED BY <1>12, <1>18, <1>19, <1>20, StepAlone

\* The socket takes a packet, or the connection is down.
LEMMA SendmsgKeepsInv ==
  ASSUME CallInv, Running, UNCHANGED clientVars, NEW k \in Calls, ServerSendmsg(k)
  PROVE  CallInv'
<1>1. /\ sv \in Assocs /\ ex \in [Calls -> ServerReps] /\ up \in BOOLEAN
      /\ Stage(ex[k], k) /\ (up => Steady(ex[k]))
  BY AtStep
<1>2. PICK r \in ServerReps : r = ex[k]
  BY <1>1
<1>3. /\ r.pc = "send" /\ up' = up /\ c2s' = c2s /\ sv' = sv
  BY <1>2 DEF ServerSendmsg
<1>4. CASE ~up
  <2>1. PICK f \in BOOLEAN : ex' = [ex EXCEPT ![k].pc = "sent", ![k].failed = f]
    BY <1>4 DEF ServerSendmsg
  <2>2. PICK q : q = [r EXCEPT !.pc = "sent", !.failed = f]
    OBVIOUS
  <2>3. q \in ServerReps
    BY <2>2 DEF ServerReps
  <2>4. /\ q.pc = "sent" /\ q.st = r.st /\ q.then = r.then /\ q.executed = r.executed
        /\ q.assoc = r.assoc
    BY <2>2 DEF ServerReps
  <2>5. ex' = [ex EXCEPT ![k] = q] /\ s2c' = s2c
    BY <1>2, <1>4, <2>1, <2>2 DEF ServerSendmsg
  <2>6. Stage(q, k)
    BY <1>1, <1>2, <1>3, <2>4 DEF Stage
  <2>7. Goes(r, q, k)
    BY <1>3, <1>4, <2>3, <2>4, <2>6 DEF Goes, Lives
  <2> QED BY <1>1, <1>2, <1>3, <2>4, <2>5, <2>7, StepAlone
<1>5. CASE up
  <2>1. PICK q : q = [r EXCEPT !.pc = "sent"]
    OBVIOUS
  <2>2. q \in ServerReps
    BY <2>1 DEF ServerReps
  <2>3. /\ q.pc = "sent" /\ q.st = r.st /\ q.then = r.then /\ q.executed = r.executed
        /\ q.assoc = r.assoc /\ q.failed = r.failed /\ q.nsent = r.nsent /\ q.status = r.status
    BY <2>1 DEF ServerReps
  <2>4. PICK p \in Packets : p = r.sending
    BY DEF ServerReps
  <2>5. ex' = [ex EXCEPT ![k] = q] /\ s2c' = Append(s2c, p)
    BY <1>2, <1>5, <2>1, <2>4 DEF ServerSendmsg
  <2>6. /\ p.call = k
        /\ p.type = "response" \/ (p.type = "fault" /\ r.st = "COMPLETED")
    BY <1>1, <1>2, <1>3, <2>4 DEF Stage
  <2>7. Lives(r, q, k)
    <3>1. Stage(q, k)
      BY <1>1, <1>2, <1>3, <2>3 DEF Stage
    <3>2. Steady(q)
      BY <1>1, <1>2, <1>5, <2>3 DEF Steady
    <3> QED BY <1>3, <1>5, <2>2, <2>3, <3>1, <3>2 DEF Lives
  <2>8. /\ ex' \in [Calls -> ServerReps] /\ ex'[k] = q
        /\ \A j \in Calls : j # k => Nudged(ex[j], ex'[j])
    BY <2>2, <2>5, Alone DEF CallInv
  <2>9. \A j \in Calls : Lives(ex[j], ex'[j], j)
    <3> TAKE j \in Calls
    <3>1. CASE j = k
      BY <1>2, <2>7, <2>8, <3>1
    <3>2. CASE j # k
      <4>1. Goes(ex[j], ex'[j], j)
        BY <1>3, <2>8, <3>2, NudgedGoes DEF CallInv
      <4> QED BY <4>1 DEF Goes
    <3> QED BY <3>1, <3>2
  <2>10. AssocTracksCalls'
    <3>1. HoldsOn(k)
      BY <1>2, <1>3, <2>3, <2>8 DEF HoldsOn
    <3>2. \A j \in Calls : j # k => ex'[j].assoc = ex[j].assoc
      BY <2>8 DEF Nudged
    <3> QED BY <2>8, <3>1, <3>2, TracksOn DEF CallInv
  <2>11. s2c \in Seq(Packets) /\ cl.call \in Nat /\ k \in Nat
    BY WireAssumption DEF CallInv, WireTypes, ClientTypes, ClientReps, Calls
  <2>12. k \in 1..cl.call
    <3>1. ~(k > cl.call)
      BY <1>2, <1>3 DEF CallInv, BeginsOnce
    <3> QED BY <2>11, <3>1 DEF Calls
  <2>13. /\ s2c' \in Seq(Packets)
         /\ \A i \in 1..Len(s2c') : s2c'[i] = p \/ (i \in 1..Len(s2c) /\ s2c'[i] = s2c[i])
    BY <2>5, <2>11, AppendPackets
  <2>14. \A i \in 1..Len(s2c') : s2c'[i].call \in 1..cl.call /\ s2c'[i].type \in {"response", "fault"}
    BY <2>6, <2>12, <2>13 DEF CallInv, BeginsOnce
  <2>15. Stream'
    <3>1. SUFFICES ASSUME InCall, Alive
                   PROVE  Stream'
      BY DEF Stream, InCall, Alive, clientVars
    <3>2. PICK a, b \in Nat : /\ Queued(cl.msgs, cl.call, cl.astat)
                              /\ Runs("response", cl.msgs, cl.call, Len(cl.got), a)
                              /\ Runs("response", s2c, cl.call, a, b)
                              /\ up => Answered(ex[cl.call], cl.call, b)
      BY <3>1 DEF CallInv, Stream
    <3>3. \E c \in Nat : Runs("response", s2c', cl.call, a, c) /\ Answered(ex'[cl.call], cl.call, c)
      <4>1. CASE cl.call = k /\ p.type = "response"
        <5>1. /\ ~Maybe(k) /\ p.n = b + 1 /\ (r.st = "COMPLETED" \/ r.nsent = b + 1)
          BY <1>2, <1>3, <1>5, <2>4, <3>2, <4>1 DEF Answered
        <5>2. Runs("response", s2c', k, a, b + 1)
          BY <2>5, <2>6, <2>11, <3>2, <4>1, <5>1, RunsAppend
        <5>3. Answered(q, k, b + 1)
          BY <2>3, <5>1 DEF Answered
        <5> QED BY <2>8, <4>1, <5>2, <5>3
      <4>2. CASE cl.call = k /\ p.type # "response"
        <5>1. Runs("response", s2c', k, a, b)
          BY <2>5, <2>11, <3>2, <4>2, RunsAppendOther
        <5>2. Answered(q, k, b)
          BY <2>3, <2>6, <4>2 DEF Answered
        <5> QED BY <2>8, <4>2, <5>1, <5>2
      <4>3. CASE cl.call # k
        <5>1. Runs("response", s2c', cl.call, a, b)
          BY <2>5, <2>6, <2>11, <3>2, <4>3, RunsAppendOther
        <5>2. cl.call \in Calls
          BY <2>11, <3>1 DEF CallInv, ClientTypes, Calls
        <5>3. ex'[cl.call] = ex[cl.call]
          BY <2>5, <4>3, <5>2
        <5> QED BY <1>5, <3>2, <5>1, <5>3
      <4> QED BY <4>1, <4>2, <4>3
    <3>4. cl' = cl
      BY DEF clientVars
    <3> QED BY <3>2, <3>3, <3>4 DEF Stream
  <2> QED BY <1>1, <1>2, <1>3, <2>8, <2>9, <2>10, <2>13, <2>14, <2>15, ServerRest
<1> QED BY <1>1, <1>4, <1>5

\* Every step of the thread of a call keeps the invariant.
LEMMA ExecutorKeepsInv ==
  ASSUME CallInv, UNCHANGED clientVars, NEW k \in Calls, ExecutorStep(k)
  PROVE  CallInv'
<1>1. Running
  BY DEF ExecutorStep
<1>2. CASE ExecutorReceives(k) \/ ManagerReceives(k)
  <2>1. ex[k].pc \in {"ready", "mgr"} /\ CallReceiveFor(k)
    BY <1>2 DEF ExecutorReceives, ManagerReceives, InManager
  <2> QED BY <1>1, <2>1, CallReceiveKeepsInv
<1> QED BY <1>1, <1>2, WaitsKeepInv, TurnsKeepInv, SendsKeepInv, FaultsKeepInv,
     CallEndKeepsInv, SendmsgKeepsInv, SentKeepsInv, SendCancelledKeepsInv DEF ExecutorStep

-----------------------------------------------------------------------------
(* The steps of the server's receiver thread *)

\* Nudges after a step make no difference.
LEMMA GoesNudged ==
  ASSUME NEW k, NEW r, NEW q, NEW s, Goes(r, q, k), Nudged(q, s)
  PROVE  Goes(r, s, k)
<1>1. Stage(s, k)
  BY DEF Goes, Lives, Nudged, Stage
<1>2. up' => Steady(s)
  BY DEF Goes, Lives, Nudged, Steady
<1>3. \A b \in Nat : Answered(q, k, b) => Answered(s, k, b)
  BY DEF Nudged, Answered
<1> QED BY <1>1, <1>2, <1>3 DEF Goes, Lives, Nudged

\* No call makes a step, some are nudged.
LEMMA AllNudged ==
  ASSUME CallInv, Running, UNCHANGED clientVars, UNCHANGED s2c, up' \in BOOLEAN, up' => up,
         c2s' = c2s \/ (c2s # <<>> /\ c2s' = Tail(c2s)), SameAssoc(sv),
         ex' \in [Calls -> ServerReps], \A j \in Calls : Nudged(ex[j], ex'[j])
  PROVE  CallInv'
<1>1. Stages /\ AssocTracksCalls
  BY DEF CallInv
<1>2. \A j \in Calls : Goes(ex[j], ex'[j], j)
  BY <1>1, NudgedGoes
<1>3. \A j \in Calls : ex'[j].assoc = ex[j].assoc
  BY DEF Nudged
<1>4. {j \in Calls : ex'[j].assoc} = {j \in Calls : ex[j].assoc}
  BY <1>3
<1>5. sv'.link \in {0, sv.link} /\ (sv'.link # 0 => sv'.link \in Calls)
  BY DEF SameAssoc, Assocs
<1>6. AssocTracksCalls'
  BY <1>1, <1>3, <1>4, <1>5 DEF AssocTracksCalls, SameAssoc
<1> QED BY <1>2, <1>5, <1>6, ServerKeepsInv DEF SameAssoc

\* A call that is still queued is ended by the receiver, in its place.
LEMMA QueuedEnds ==
  ASSUME Stages, NEW k \in Calls, NEW r \in ServerReps, r.pc = "queued",
         r.pc = ex[k].pc, r.nsent = ex[k].nsent, r.failed = ex[k].failed, r.st = ex[k].st,
         r.executed = ex[k].executed,
         ~up \/ r.status = "orphaned", up' = up
  PROVE  Goes(ex[k], [r EXCEPT !.pc = "ending", !.mine = TRUE], k)
<1>1. PICK x : x = ex[k]
  OBVIOUS
<1>2. PICK q : q = [r EXCEPT !.pc = "ending", !.mine = TRUE]
  OBVIOUS
<1>3. q \in ServerReps
  BY <1>2 DEF ServerReps
<1>4. /\ q.pc = "ending" /\ q.nsent = r.nsent /\ q.failed = r.failed /\ q.st = r.st
      /\ q.assoc = r.assoc /\ q.executed = r.executed /\ q.status = r.status
  BY <1>2 DEF ServerReps
<1>5. /\ x.pc = "queued" /\ x.nsent = r.nsent /\ x.failed = r.failed /\ x.st = r.st
      /\ x.executed = r.executed
  BY <1>1
<1>6. up => Steady(x)
  BY <1>1 DEF Stages
<1>7. Stage(q, k)
  BY <1>4 DEF Stage
<1>8. up => Steady(q)
  BY <1>4, <1>5, <1>6 DEF Steady
<1>9. \A b \in Nat : Answered(x, k, b) => Answered(q, k, b)
  BY <1>4, <1>5 DEF Answered
<1> QED BY <1>1, <1>2, <1>3, <1>4, <1>5, <1>7, <1>8, <1>9 DEF Goes, Lives

\* The dummy fragment comes to the end of the queue.
LEMMA QueueDummyType ==
  ASSUME NEW s \in Seq(Packets)
  PROVE  QueueDummy(s) \in Seq(Packets)
BY DummyType DEF QueueDummy

\* The connection is gone (rem_mark_cancel_action_rtn).
LEMMA ServerDisconnectsKeepsInv ==
  ASSUME CallInv, Running, UNCHANGED clientVars, ServerDisconnects
  PROVE  CallInv'
<1>1. sv \in Assocs /\ ex \in [Calls -> ServerReps] /\ up \in BOOLEAN /\ Stages
  BY DEF CallInv, ServerTypes, WireTypes
<1>2. ~up /\ up' = up /\ c2s' = c2s /\ s2c' = s2c
  BY DEF ServerDisconnects, wireVars
<1>3. sv.msgs \in Seq(Packets)
  BY <1>1 DEF Assocs
<1>4. PICK d \in Seq(Packets) : d = QueueDummy(sv.msgs)
  BY <1>3, QueueDummyType
<1>5. PICK s : s = [sv EXCEPT !.assoc = "CLOSED", !.astat = "closed", !.msgs = d]
  OBVIOUS
<1>6. s \in Assocs /\ s.link = sv.link /\ s.ref = sv.ref
  BY <1>1, <1>5 DEF Assocs
<1>7. s = [sv EXCEPT !.assoc = "CLOSED", !.astat = "closed", !.msgs = QueueDummy(@)]
  BY <1>1, <1>4, <1>5 DEF Assocs
<1>8. PICK w \in Signalled(ex) :
        LET e == Wake(ex, w)
            k == sv.link
        IN  CASE k = 0 -> sv' = [s EXCEPT !.rcvr = "done"] /\ ex' = e
              [] k # 0 /\ ex[k].pc = "queued" ->
                   /\ sv' = [s EXCEPT !.rcvr = "busy"]
                   /\ ex' = [e EXCEPT ![k].pc = "ending", ![k].mine = TRUE]
              [] OTHER ->
                   /\ sv' = [s EXCEPT !.rcvr = "done"]
                   /\ \E v \in Signalled(e) : ex' = Wake([e EXCEPT ![k] = Cancel(e[k])], v)
  BY <1>7 DEF ServerDisconnects
<1>9. PICK e : e = Wake(ex, w)
  OBVIOUS
<1>10. e \in [Calls -> ServerReps] /\ \A j \in Calls : Nudged(ex[j], e[j])
  BY <1>1, <1>8, <1>9, WakeNudges
<1>11. SameAssoc(sv)
  <2>1. CASE sv' = [s EXCEPT !.rcvr = "done"]
    <3>1. PICK t : t = sv' /\ t = [s EXCEPT !.rcvr = "done"]
      BY <2>1
    <3>2. t \in Assocs /\ t.link = s.link /\ t.ref = s.ref
      BY <1>6, <3>1 DEF Assocs
    <3> QED BY <1>6, <3>1, <3>2 DEF SameAssoc
  <2>2. CASE sv' = [s EXCEPT !.rcvr = "busy"]
    <3>1. PICK t : t = sv' /\ t = [s EXCEPT !.rcvr = "busy"]
      BY <2>2
    <3>2. t \in Assocs /\ t.link = s.link /\ t.ref = s.ref
      BY <1>6, <3>1 DEF Assocs
    <3> QED BY <1>6, <3>1, <3>2 DEF SameAssoc
  <2> QED BY <1>8, <2>1, <2>2
<1>12. CASE sv.link = 0
  <2>1. ex' = e
    BY <1>8, <1>9, <1>12
  <2> QED BY <1>1, <1>2, <1>10, <1>11, <2>1, AllNudged
<1>13. CASE sv.link # 0 /\ ex[sv.link].pc = "queued"
  <2>1. PICK k \in Calls : k = sv.link
    BY <1>1, <1>13 DEF Assocs
  <2>2. PICK r \in ServerReps : r = e[k]
    BY <1>10
  <2>3. PICK q : q = [r EXCEPT !.pc = "ending", !.mine = TRUE]
    OBVIOUS
  <2>4. Nudged(ex[k], r) /\ r.pc = "queued"
    BY <1>10, <1>13, <2>1, <2>2 DEF Nudged
  <2>5. Goes(ex[k], q, k)
    BY <1>1, <1>2, <2>3, <2>4, QueuedEnds DEF Nudged
  <2>6. ex' = [e EXCEPT ![k] = q]
    BY <1>8, <1>9, <1>13, <2>1, <2>2, <2>3
  <2>7. q \in ServerReps /\ q.assoc = r.assoc
    BY <2>3 DEF ServerReps
  <2>8. /\ ex' \in [Calls -> ServerReps] /\ ex'[k] = q
        /\ \A j \in Calls : j # k => Nudged(ex[j], ex'[j])
    BY <1>10, <2>6, <2>7
  <2>9. HoldsOn(k)
    BY <1>11, <2>4, <2>7, <2>8 DEF HoldsOn, SameAssoc, Nudged
  <2> QED BY <1>1, <1>2, <1>11, <2>5, <2>8, <2>9, OneMoves DEF SameAssoc
<1>14. CASE sv.link # 0 /\ ex[sv.link].pc # "queued"
  <2>1. PICK k \in Calls : k = sv.link
    BY <1>1, <1>14 DEF Assocs
  <2>2. PICK c : c = [e EXCEPT ![k] = Cancel(e[k])]
    OBVIOUS
  <2>3. PICK v \in Signalled(e) : ex' = Wake(c, v)
    BY <1>8, <1>9, <1>14, <2>1, <2>2
  <2>4. Nudged(e[k], Cancel(e[k])) /\ Cancel(e[k]) \in ServerReps
    BY <1>10, CancelNudges DEF Nudged
  <2>5. c \in [Calls -> ServerReps] /\ \A j \in Calls : Nudged(e[j], c[j])
    <3>1. c \in [Calls -> ServerReps]
      BY <1>10, <2>2, <2>4
    <3>2. \A j \in Calls : j # k => c[j] = e[j] /\ c[j] \in ServerReps
      BY <1>10, <2>2
    <3>3. c[k] = Cancel(e[k])
      BY <1>10, <2>2
    <3>4. \A j \in Calls : j # k => Nudged(e[j], c[j])
      BY <3>2 DEF Nudged
    <3> QED BY <2>4, <3>1, <3>3, <3>4
  <2>6. PICK u \in Calls \cup {0} : u = v
    BY <2>3 DEF Signalled, Waiters
  <2>7. Wake(c, v) \in [Calls -> ServerReps] /\ \A j \in Calls : Nudged(c[j], Wake(c, v)[j])
    BY <2>5, <2>6, WakesNudge
  <2>8. \A j \in Calls : Nudged(ex[j], ex'[j])
    BY <1>10, <2>3, <2>5, <2>7, NudgedTwice
  <2> QED BY <1>1, <1>2, <1>11, <2>3, <2>7, <2>8, AllNudged
<1> QED BY <1>12, <1>13, <1>14

\* The packets of a call that exists, and what the server's table has for them
\* (cnsclsm.c)
LEMMA LaterEvents ==
  ASSUME NEW s \in ServerCallStates, NEW p \in Packets, p.type \in {"request", "alert", "orphaned"}
  PROVE  /\ Event(p) \in {"recv", "remote_alert", "orphaned"}
         /\ ServerDoes(s, Event(p), "handle_frag") => s = "REQUEST"
<1>1. CASE p.type = "request"
  <2>1. Event(p) = "recv"
    BY <1>1 DEF Event
  <2> QED BY <2>1, HandlesInRequest
<1>2. CASE p.type = "alert"
  <2>1. Event(p) = "remote_alert"
    BY <1>2 DEF Event
  <2>2. ~ServerDoes(s, "remote_alert", "handle_frag")
    BY ServerStates DEF ServerDoes, ServerLegal, ServerCallTable
  <2> QED BY <2>1, <2>2
<1>3. CASE p.type = "orphaned"
  <2>1. Event(p) = "orphaned"
    BY <1>3 DEF Event
  <2>2. ~ServerDoes(s, "orphaned", "handle_frag")
    BY ServerStates DEF ServerDoes, ServerLegal, ServerCallTable
  <2> QED BY <2>1, <2>2
<1> QED BY <1>1, <1>2, <1>3

\* A packet has been read from the connection, for the linked call k.
LaterFor(k) ==
  /\ UNCHANGED clientVars /\ UNCHANGED s2c /\ c2s # <<>> /\ c2s' = Tail(c2s)
  /\ k = sv.link /\ ex[k].pc # "none"

\* The call's record changes, somebody may be woken, and that is all.
LEMMA LinkedMoves ==
  ASSUME CallInv, Running, NEW k \in Calls, LaterFor(k), up' = up, NEW q \in ServerReps,
         Goes(ex[k], q, k), NEW w \in Calls \cup {0}, ex' = Wake([ex EXCEPT ![k] = q], w),
         sv' \in Assocs,
         \/ sv'.link = sv.link /\ sv'.ref = sv.ref /\ q.assoc = ex[k].assoc
         \/ sv'.link = 0 /\ sv'.ref = sv.ref - 1 /\ ~q.assoc
  PROVE  CallInv'
<1>1. ex \in [Calls -> ServerReps] /\ AssocTracksCalls /\ sv \in Assocs /\ up \in BOOLEAN
  BY DEF CallInv, ServerTypes, WireTypes
<1>2. PICK e : e = [ex EXCEPT ![k] = q]
  OBVIOUS
<1>3. e \in [Calls -> ServerReps] /\ e[k] = q /\ \A j \in Calls : j # k => e[j] = ex[j]
  BY <1>1, <1>2
<1>4. ex' \in [Calls -> ServerReps] /\ \A j \in Calls : Nudged(e[j], ex'[j])
  BY <1>2, <1>3, WakesNudge
<1>5. Goes(ex[k], ex'[k], k)
  BY <1>3, <1>4, GoesNudged
<1>6. \A j \in Calls : j # k => Nudged(ex[j], ex'[j])
  BY <1>3, <1>4
<1>7. ex'[k].assoc = q.assoc
  BY <1>3, <1>4 DEF Nudged
<1>8. k = sv.link /\ k # 0
  BY DEF LaterFor, Calls
<1>9. HoldsOn(k) \/ GivesBack(k)
  <2>1. CASE sv'.link = sv.link /\ sv'.ref = sv.ref /\ q.assoc = ex[k].assoc
    BY <1>7, <2>1 DEF HoldsOn
  <2>2. CASE sv'.link = 0 /\ sv'.ref = sv.ref - 1 /\ ~q.assoc
    <3>1. ex[k].assoc
      BY <1>1, <1>8 DEF AssocTracksCalls
    <3> QED BY <1>7, <1>8, <2>2, <3>1 DEF GivesBack
  <2> QED BY <2>1, <2>2
<1> QED BY <1>1, <1>4, <1>5, <1>6, <1>9, OneMoves DEF LaterFor

\* A later fragment of the request (handle_frag_action_rtn)
LEMMA HandleFragKeepsInv ==
  ASSUME CallInv, Running, NEW p \in Packets, NEW k \in Calls, LaterFor(k), up' = up,
         NEW s, ReadsOn(s), p.call = k, ex[k].st = "REQUEST", HandleFrag(s, p)
  PROVE  CallInv'
<1>1. /\ ex \in [Calls -> ServerReps] /\ sv \in Assocs
      /\ Stage(ex[k], k) /\ (up => Steady(ex[k]))
  BY AtStep
<1>2. PICK r \in ServerReps : r = ex[k]
  BY <1>1
<1>3. PICK st \in {"REQUEST", "RESPONSE"} : st = IF p.last THEN "RESPONSE" ELSE "REQUEST"
  OBVIOUS
<1>4. PICK q : q = [r EXCEPT !.st = st]
  OBVIOUS
<1>5. q \in ServerReps
  <2>1. st \in ServerCallStates
    BY ServerStates
  <2> QED BY <1>4, <2>1 DEF ServerReps
<1>6. /\ q.st = st /\ q.pc = r.pc /\ q.nsent = r.nsent /\ q.failed = r.failed
      /\ q.assoc = r.assoc /\ q.executed = r.executed /\ q.then = r.then
      /\ q.sending = r.sending /\ q.status = r.status
  BY <1>4 DEF ServerReps
<1>7. r.st = "REQUEST" /\ r.pc # "none" /\ st # "COMPLETED"
  BY <1>2, <1>3 DEF LaterFor
<1>8. Stage(q, k)
  BY <1>1, <1>2, <1>6, <1>7 DEF Stage
<1>9. up => Steady(q)
  BY <1>1, <1>2, <1>6, <1>7 DEF Steady
<1>10. \A b \in Nat : Answered(r, k, b) => Answered(q, k, b)
  BY <1>6, <1>7 DEF Answered
<1>11. Goes(r, q, k)
  BY <1>5, <1>6, <1>7, <1>8, <1>9, <1>10 DEF Goes, Lives
<1>12. PICK w \in Calls \cup {0} : ex' = Wake([ex EXCEPT ![k] = q], w)
  BY <1>2, <1>3, <1>4 DEF HandleFrag, Signalled, Waiters
<1>13. s \in Assocs /\ s.link = sv.link /\ s.ref = sv.ref /\ s.msgs \in Seq(Packets)
  BY <1>1, ReadsOnEffect DEF Assocs
<1>14. PICK m \in Seq(Packets) : m = Append(s.msgs, p)
  BY <1>13, AppendPackets
<1>15. PICK t : t = sv' /\ t = [s EXCEPT !.msgs = m]
  BY <1>14 DEF HandleFrag
<1>16. t \in Assocs /\ t.link = sv.link /\ t.ref = sv.ref
  BY <1>13, <1>15 DEF Assocs
<1> QED BY <1>2, <1>5, <1>6, <1>11, <1>12, <1>15, <1>16, LinkedMoves

\* A forwarded cancel (process_alert_msg_action_rtn)
LEMMA AlertKeepsInv ==
  ASSUME CallInv, Running, NEW p, NEW k \in Calls, LaterFor(k), up' = up,
         NEW s, ReadsOn(s), p.call = k, ProcessAlert(s, p)
  PROVE  CallInv'
<1>1. ex \in [Calls -> ServerReps] /\ sv \in Assocs /\ Stages
  BY AtStep
<1>2. PICK r \in ServerReps : r = ex[k]
  BY <1>1
<1>3. PICK n \in Nat : n = r.alerts + 1
  BY DEF ServerReps
<1>4. PICK m : m = [r EXCEPT !.alerts = n]
  OBVIOUS
<1>5. m \in ServerReps
  BY <1>4 DEF ServerReps
<1>6. Nudged(r, m)
  BY <1>4, <1>5 DEF Nudged, ServerReps
<1>7. PICK q : q = Cancel(m)
  OBVIOUS
<1>8. Nudged(m, q)
  BY <1>5, <1>7, CancelNudges
<1>9. Nudged(r, q)
  BY <1>6, <1>8, NudgedTwice
<1>10. ex' = [ex EXCEPT ![k] = q] /\ sv' = s
  BY <1>2, <1>3, <1>4, <1>7 DEF ProcessAlert
<1>11. Goes(r, q, k)
  BY <1>1, <1>2, <1>9, NudgedGoes
<1>12. ex' = Wake([ex EXCEPT ![k] = q], 0)
  BY <1>10 DEF Wake
<1>13. q \in ServerReps /\ q.assoc = r.assoc
  BY <1>9 DEF Nudged
<1>14. s \in Assocs /\ s.link = sv.link /\ s.ref = sv.ref
  BY <1>1, ReadsOnEffect
<1> QED BY <1>2, <1>10, <1>11, <1>12, <1>13, <1>14, LinkedMoves

\* The call has been given up by its caller (stop_orphan_action_rtn).
LEMMA OrphanKeepsInv ==
  ASSUME CallInv, Running, NEW p, NEW k \in Calls, LaterFor(k), up' = up,
         NEW s, ReadsOn(s), p.call = k, StopOrphan(s, p)
  PROVE  CallInv'
<1>1. /\ ex \in [Calls -> ServerReps] /\ sv \in Assocs /\ Stages
      /\ Stage(ex[k], k) /\ (up => Steady(ex[k]))
  BY AtStep
<1>2. PICK r \in ServerReps : r = ex[k]
  BY <1>1
<1>3. PICK m : m = [r EXCEPT !.status = "orphaned"]
  OBVIOUS
<1>4. m \in ServerReps
  BY <1>3 DEF ServerReps
<1>5. /\ m.pc = r.pc /\ m.nsent = r.nsent /\ m.failed = r.failed /\ m.st = r.st
      /\ m.assoc = r.assoc /\ m.executed = r.executed /\ m.then = r.then
      /\ m.sending = r.sending /\ m.status = "orphaned"
  BY <1>3 DEF ServerReps
<1>6. PICK e : e = [ex EXCEPT ![k] = m]
  OBVIOUS
<1>7. e = [ex EXCEPT ![k].status = "orphaned"] /\ e[k] = m
  BY <1>1, <1>2, <1>3, <1>6
<1>8. k = sv.link /\ r.pc # "none"
  BY <1>2 DEF LaterFor
<1>0. s \in Assocs /\ s.link = sv.link /\ s.ref = sv.ref
  BY <1>1, ReadsOnEffect
<1>9. CASE ex[k].pc = "queued"
  <2>1. PICK q : q = [m EXCEPT !.pc = "ending", !.mine = TRUE]
    OBVIOUS
  <2>2. ex' = [e EXCEPT ![k].pc = "ending", ![k].mine = TRUE] /\ sv' = [s EXCEPT !.rcvr = "busy"]
    BY <1>7, <1>9 DEF StopOrphan
  <2>3. ex' = [ex EXCEPT ![k] = q]
    BY <1>1, <1>6, <1>7, <2>1, <2>2
  <2>4. Goes(r, q, k)
    BY <1>1, <1>2, <1>4, <1>5, <1>9, <2>1, QueuedEnds
  <2>5. q \in ServerReps /\ q.assoc = m.assoc
    BY <1>4, <2>1 DEF ServerReps
  <2>6. PICK t : t = sv' /\ t = [s EXCEPT !.rcvr = "busy"]
    BY <2>2
  <2>7. t \in Assocs /\ t.link = sv.link /\ t.ref = sv.ref
    BY <1>0, <2>6 DEF Assocs
  <2>8. ex' = Wake([ex EXCEPT ![k] = q], 0)
    BY <2>3 DEF Wake
  <2> QED BY <1>2, <1>5, <2>4, <2>5, <2>6, <2>7, <2>8, LinkedMoves
<1>10. CASE ex[k].pc # "queued"
  <2>1. PICK c : c = Cancel(m)
    OBVIOUS
  <2>2. Nudged(m, c)
    BY <1>4, <2>1, CancelNudges
  <2>3. PICK q : q = [c EXCEPT !.st = "COMPLETED", !.assoc = FALSE]
    OBVIOUS
  <2>4. q \in ServerReps
    <3>1. c \in ServerReps /\ "COMPLETED" \in ServerCallStates
      BY <2>2, ServerStates DEF Nudged
    <3> QED BY <2>3, <3>1, ZenonT(40) DEF ServerReps
  <2>5. /\ q.pc = c.pc /\ q.st = "COMPLETED" /\ q.assoc = FALSE /\ q.executed = c.executed
        /\ q.then = c.then /\ q.sending = c.sending
    BY <2>2, <2>3 DEF Nudged, ServerReps
  <2>6. /\ sv' = FreeRep(s, k)
        /\ \E w \in Calls \cup {0} : ex' = Wake([e EXCEPT ![k] = q], w)
    BY <1>7, <1>10, <2>1, <2>3 DEF StopOrphan, Signalled, Waiters
  <2>7. PICK w \in Calls \cup {0} : ex' = Wake([e EXCEPT ![k] = q], w)
    BY <2>6
  <2>8. [e EXCEPT ![k] = q] = [ex EXCEPT ![k] = q]
    BY <1>1, <1>6
  <2>9. /\ q.pc = r.pc /\ q.executed = r.executed /\ q.then = r.then /\ q.sending = r.sending
    BY <1>5, <2>2, <2>5 DEF Nudged
  <2>10. Stage(q, k)
    BY <1>1, <1>2, <1>8, <2>5, <2>9 DEF Stage
  <2>11. Steady(q)
    BY <2>5 DEF Steady
  <2>12. \A b \in Nat : Answered(r, k, b) => Answered(q, k, b)
    BY <2>5, <2>9 DEF Answered
  <2>13. Goes(r, q, k)
    BY <1>8, <2>4, <2>9, <2>10, <2>11, <2>12 DEF Goes, Lives
  <2>14. sv' \in Assocs /\ sv'.ref = sv.ref - 1 /\ sv'.link = 0
    BY <1>0, <1>8, <2>6, FreeRepEffect
  <2> QED BY <1>2, <2>4, <2>5, <2>7, <2>8, <2>13, <2>14, LinkedMoves
<1> QED BY <1>9, <1>10

\* What becomes of a later packet p, the association being s
LaterOn(s, p) ==
  CASE ~ForLinkedCall(p) -> sv' = s /\ UNCHANGED <<ex, up>>
    [] ForLinkedCall(p) /\ ~ServerLegal(ex[p.call].st, Event(p)) ->
         Abort(s, Event(p), p.call) /\ UNCHANGED ex
    [] OTHER ->
         /\ UNCHANGED up
         /\ \/ ServerDoes(ex[p.call].st, Event(p), "handle_frag") /\ HandleFrag(s, p)
            \/ ServerDoes(ex[p.call].st, Event(p), "process_alert_msg") /\ ProcessAlert(s, p)
            \/ ServerDoes(ex[p.call].st, Event(p), "stop_orphan") /\ StopOrphan(s, p)
            \/ ServerDoes(ex[p.call].st, Event(p), "COMPLETED") /\ sv' = s /\ UNCHANGED ex

LEMMA LaterReads ==
  ASSUME CallInv, LaterPacket
  PROVE  \E s \in Assocs : ReadsOn(s) /\ LaterOn(s, Head(c2s))
<1>1. sv \in Assocs /\ c2s # <<>>
  BY DEF CallInv, ServerTypes, LaterPacket, Arrives
<1>2. PICK m \in ReadAhead(sv.ovf, c2s) : LaterOn([sv EXCEPT !.ovf = m], Head(c2s))
  BY DEF LaterPacket, LaterOn
<1>3. PICK s : s = [sv EXCEPT !.ovf = m]
  OBVIOUS
<1>4. ReadsOn(s)
  BY <1>1, <1>3, ReadsAhead
<1> QED BY <1>1, <1>2, <1>3, <1>4, ReadsOnEffect

\* A packet of a call that exists, or existed
LEMMA LaterPacketKeepsInv ==
  ASSUME CallInv, Running, UNCHANGED clientVars, LaterPacket
  PROVE  CallInv'
<1>1. /\ ex \in [Calls -> ServerReps] /\ sv \in Assocs /\ up \in BOOLEAN
      /\ c2s \in Seq(Packets)
  BY DEF CallInv, ServerTypes, WireTypes
<1>2. /\ c2s # <<>> /\ c2s' = Tail(c2s) /\ s2c' = s2c
      /\ Head(c2s).type \in {"request", "alert", "orphaned"}
  BY DEF LaterPacket, Arrives
<1>3. PICK p \in Packets : p = Head(c2s)
  BY <1>1, <1>2
<1>4. ASSUME SameAssoc(sv), ex' = ex, up' \in BOOLEAN, up' => up
      PROVE  CallInv'
  <2>1. \A j \in Calls : Nudged(ex[j], ex'[j])
    BY <1>1, <1>4 DEF Nudged
  <2> QED BY <1>1, <1>2, <1>4, <2>1, AllNudged
<1>6. PICK s : ReadsOn(s) /\ LaterOn(s, p) /\ s \in Assocs /\ s.link = sv.link /\ s.ref = sv.ref
  BY <1>1, <1>3, LaterReads, ReadsOnEffect
<1>7. CASE ~ForLinkedCall(p)
  <2>1. sv' = s /\ ex' = ex /\ up' = up
    BY <1>6, <1>7 DEF LaterOn
  <2> QED BY <1>6, <1>1, <1>4, <2>1 DEF SameAssoc
<1>8. CASE ForLinkedCall(p)
  <2>1. PICK k \in Calls : k = sv.link /\ p.call = k
    BY <1>1, <1>8 DEF ForLinkedCall, Assocs
  <2>2. k # 0
    BY DEF Calls
  <2>3. ex[k].pc # "none"
    BY <2>1, <2>2 DEF CallInv, BeginsOnce
  <2>4. LaterFor(k)
    BY <1>2, <2>1, <2>3 DEF LaterFor
  <2>5. PICK st \in ServerCallStates : st = ex[k].st
    BY <1>1 DEF ServerReps
  <2>6. /\ Event(p) \in {"recv", "remote_alert", "orphaned"}
        /\ ServerDoes(st, Event(p), "handle_frag") => st = "REQUEST"
    BY <1>2, <1>3, LaterEvents
  <2>7. CASE ~ServerLegal(st, Event(p))
    <3>1. Abort(s, Event(p), k) /\ ex' = ex
      BY <1>6, <1>8, <2>1, <2>5, <2>7 DEF LaterOn
    <3>2. PICK what \in {"recv", "remote_alert", "orphaned"} : what = Event(p)
      BY <2>6
    <3>3. SameAssoc(sv) /\ up' = FALSE
      BY <1>6, <3>1, <3>2, AbortEffect DEF SameAssoc
    <3> QED BY <1>4, <3>1, <3>3
  <2>8. CASE ServerLegal(st, Event(p))
    <3>1. /\ up' = up
          /\ \/ ServerDoes(st, Event(p), "handle_frag") /\ HandleFrag(s, p)
             \/ ProcessAlert(s, p) \/ StopOrphan(s, p) \/ (sv' = s /\ ex' = ex)
      BY <1>6, <1>8, <2>1, <2>5, <2>8 DEF LaterOn
    <3>2. CASE ServerDoes(st, Event(p), "handle_frag") /\ HandleFrag(s, p)
      BY <1>6, <2>1, <2>4, <2>5, <2>6, <3>1, <3>2, HandleFragKeepsInv
    <3>3. CASE ProcessAlert(s, p)
      BY <1>6, <2>1, <2>4, <3>1, <3>3, AlertKeepsInv
    <3>4. CASE StopOrphan(s, p)
      BY <1>6, <2>1, <2>4, <3>1, <3>4, OrphanKeepsInv
    <3>5. CASE sv' = s /\ ex' = ex
      BY <1>6, <1>1, <1>4, <3>1, <3>5 DEF SameAssoc
    <3> QED BY <3>1, <3>2, <3>3, <3>4, <3>5
  <2> QED BY <2>7, <2>8
<1> QED BY <1>7, <1>8

\* A call comes into being and takes a reference to the association.
LEMMA BeginsKeepsInv ==
  ASSUME CallInv, Running, UNCHANGED clientVars, UNCHANGED <<up, s2c>>, c2s # <<>>,
         c2s' = Tail(c2s), Begins(Head(c2s)), NEW k \in Calls, k = Head(c2s).call,
         NEW q \in ServerReps, ex' = [ex EXCEPT ![k] = q], q.pc # "none", q.assoc,
         Stage(q, k), Steady(q), \A b \in Nat : Answered(ex[k], k, b) => Answered(q, k, b),
         sv' \in Assocs, sv'.link = k, sv'.ref = sv.ref + 1
  PROVE  CallInv'
<1>1. cl' = cl /\ canc' = canc /\ result' = result /\ up' = up /\ s2c' = s2c
  BY DEF clientVars
<1>2. /\ ClientTypes' /\ OwnResponse'
  BY <1>1 DEF CallInv, ClientTypes, OwnResponse, InCall, InSendmsg
<1>3. /\ c2s \in Seq(Packets) /\ s2c \in Seq(Packets) /\ cl.call \in Nat
      /\ ex \in [Calls -> ServerReps] /\ Stages /\ AssocTracksCalls /\ up \in BOOLEAN
  BY DEF CallInv, WireTypes, ClientTypes, ClientReps, ServerTypes
<1>4. /\ ex' \in [Calls -> ServerReps] /\ ex'[k] = q
      /\ \A j \in Calls : j # k => ex'[j] = ex[j]
  BY <1>3
<1>5. /\ 1 \in 1..Len(c2s) /\ Head(c2s) = c2s[1] /\ c2s' \in Seq(Packets)
      /\ \A i \in 1..Len(c2s') : i + 1 \in 1..Len(c2s) /\ i + 1 # 1 /\ c2s'[i] = c2s[i + 1]
  BY <1>3, TailPackets
<1>6. k \in 1..cl.call /\ ex[k].pc = "none"
  BY <1>5 DEF CallInv, BeginsOnce
<1>7. ServerTypes' /\ WireTypes'
  BY <1>1, <1>3, <1>4, <1>5 DEF ServerTypes, WireTypes
<1>8. BeginsOnce'
  <2>1. \A i \in 1..Len(c2s') : c2s'[i].call \in 1..cl'.call
    BY <1>1, <1>5 DEF CallInv, BeginsOnce
  <2>2. \A i \in 1..Len(s2c') : s2c'[i].call \in 1..cl'.call
                                 /\ s2c'[i].type \in {"response", "fault"}
    BY <1>1 DEF CallInv, BeginsOnce
  <2>3. \A j \in Calls : j > cl'.call => ex'[j].pc = "none"
    <3> TAKE j \in Calls
    <3> HAVE j > cl'.call
    <3>1. j # k
      BY <1>1, <1>3, <1>6
    <3> QED BY <1>1, <1>4, <3>1 DEF CallInv, BeginsOnce
  <2>4. \A i \in 1..cl.call : i \in Calls
    BY <1>3, WireAssumption DEF CallInv, ClientTypes, Calls
  <2>5. \A i \in 1..Len(c2s') : Begins(c2s'[i]) => c2s'[i].call # k
    BY <1>5, SMTT(30) DEF CallInv, BeginsOnce
  <2>6. \A i \in 1..Len(c2s') : Begins(c2s'[i]) => ex'[c2s'[i].call].pc = "none"
    <3> TAKE i \in 1..Len(c2s')
    <3> HAVE Begins(c2s'[i])
    <3>1. c2s'[i].call \in Calls /\ c2s'[i].call # k
      BY <1>1, <2>1, <2>4, <2>5
    <3>2. i + 1 \in 1..Len(c2s) /\ c2s'[i] = c2s[i + 1]
      BY <1>5
    <3>3. ex[c2s'[i].call].pc = "none"
      BY <3>2 DEF CallInv, BeginsOnce
    <3> QED BY <1>4, <3>1, <3>3
  <2>7. \A i, j \in 1..Len(c2s') :
          Begins(c2s'[i]) /\ Begins(c2s'[j]) /\ c2s'[i].call = c2s'[j].call => i = j
    <3> TAKE i, j \in 1..Len(c2s')
    <3> HAVE Begins(c2s'[i]) /\ Begins(c2s'[j]) /\ c2s'[i].call = c2s'[j].call
    <3>1. i + 1 = j + 1
      BY <1>5 DEF CallInv, BeginsOnce
    <3> QED BY <3>1
  <2>8. InCall' /\ (cl'.nsent = 0 \/ (cl'.pc = "send" /\ Begins(cl'.sending)))
          => Unknown(cl.call)'
    <3>1. SUFFICES ASSUME Unknown(cl.call), InCall
                   PROVE  Unknown(cl.call)'
      BY <1>1 DEF CallInv, BeginsOnce, InCall
    <3>2. cl.call \in Calls
      BY <1>3, <3>1 DEF CallInv, ClientTypes, Calls
    <3>3. PICK j : j = cl.call /\ cl'.call = j
      BY <1>1
    <3>4. j # k
      BY <1>5, <3>1, <3>3 DEF Unknown
    <3>5. \A i \in 1..Len(c2s') : Begins(c2s'[i]) => c2s'[i].call # j
      BY <1>5, <3>1, <3>3 DEF Unknown
    <3> QED BY <1>4, <3>1, <3>2, <3>3, <3>4, <3>5 DEF Unknown
  <2> QED BY <1>1, <1>4, <2>1, <2>2, <2>3, <2>6, <2>7, <2>8 DEF BeginsOnce
<1>9. Stages'
  <2> SUFFICES ASSUME NEW j \in Calls
               PROVE  Stage(ex'[j], j) /\ (up' => Steady(ex'[j]))
    BY DEF Stages
  <2>1. CASE j = k
    BY <1>4, <2>1
  <2>2. CASE j # k
    BY <1>1, <1>3, <1>4, <2>2 DEF Stages
  <2> QED BY <2>1, <2>2
<1>10. AssocTracksCalls'
  <2>1. ~ex[k].assoc
    BY <1>3, <1>6 DEF Stages, Stage
  <2>2. \A j \in Calls : j # k => ex'[j].assoc = ex[j].assoc
    BY <1>4
  <2>3. Cardinality({j \in Calls : ex'[j].assoc}) = Cardinality({j \in Calls : ex[j].assoc}) + 1
    BY <1>3, <1>4, <2>1, <2>2, OneMore, ZenonT(60)
  <2> QED BY <1>3, <1>4, <2>3 DEF AssocTracksCalls
<1>11. Stream'
  <2>1. SUFFICES ASSUME InCall, Alive
                 PROVE  Stream'
    BY <1>1 DEF Stream, InCall, Alive
  <2>2. PICK a, b \in Nat : /\ Queued(cl.msgs, cl.call, cl.astat)
                            /\ Runs("response", cl.msgs, cl.call, Len(cl.got), a)
                            /\ Runs("response", s2c, cl.call, a, b)
                            /\ up => Answered(ex[cl.call], cl.call, b)
    BY <2>1 DEF CallInv, Stream
  <2>3. cl.call \in Calls
    BY <1>3, <2>1 DEF CallInv, ClientTypes, Calls
  <2>4. up' => Answered(ex'[cl.call], cl.call, b)
    <3>1. CASE cl.call = k
      BY <1>1, <1>4, <2>2, <3>1
    <3>2. CASE cl.call # k
      BY <1>1, <1>4, <2>2, <2>3, <3>2
    <3> QED BY <3>1, <3>2
  <2> QED BY <1>1, <2>2, <2>4 DEF Stream
<1> QED BY <1>2, <1>7, <1>8, <1>9, <1>10, <1>11 DEF CallInv

\* The record of a new call
LEMMA NewCallEffect ==
  ASSUME NEW p \in Packets
  PROVE  /\ NewCall(p) \in ServerReps
         /\ NewCall(p).assoc /\ NewCall(p).nsent = 0 /\ ~NewCall(p).failed
         /\ ~NewCall(p).executed /\ NewCall(p).st \in {"REQUEST", "RESPONSE"}
<1>1. PICK n \in ServerReps : n = NoRep
  BY NoRepType
<1>2. n.nsent = 0 /\ n.failed = FALSE /\ n.executed = FALSE
  BY <1>1 DEF NoRep
<1>3. PICK st \in {"REQUEST", "RESPONSE"} : st = IF p.last THEN "RESPONSE" ELSE "REQUEST"
  OBVIOUS
<1>4. PICK r : r = [n EXCEPT !.assoc = TRUE, !.accepting = TRUE, !.st = st]
  OBVIOUS
<1>5. r \in ServerReps
  <2>1. st \in ServerCallStates
    BY ServerStates
  <2> QED BY <1>4, <2>1 DEF ServerReps
<1>6. r.assoc = TRUE /\ r.nsent = 0 /\ r.failed = FALSE /\ r.executed = FALSE /\ r.st = st
  BY <1>2, <1>4 DEF ServerReps
<1>7. PICK q : q = NewCall(p)
  OBVIOUS
<1>8. q = IF p.alert THEN Cancel(r) ELSE r
  BY <1>1, <1>3, <1>4, <1>7 DEF NewCall
<1>9. Nudged(r, q)
  <2>1. CASE p.alert
    BY <1>5, <1>8, <2>1, CancelNudges
  <2>2. CASE ~p.alert
    BY <1>5, <1>8, <2>2 DEF Nudged
  <2> QED BY <2>1, <2>2
<1>10. q \in ServerReps /\ q.assoc /\ q.nsent = 0 /\ ~q.failed /\ ~q.executed /\ q.st = st
  BY <1>6, <1>9 DEF Nudged
<1> QED BY <1>7, <1>10

\* A call that may begin has not sent, failed or ended.
LEMMA FreshAnswered ==
  ASSUME NEW k \in Calls, NEW r, NEW q, Stage(r, k), r.pc = "none", q.nsent = 0, q.pc # "send",
         NEW b \in Nat, Answered(r, k, b)
  PROVE  Answered(q, k, b)
BY DEF Stage, Answered

\* rpc__cn_assoc_push_call
LEMMA PushCallEffect ==
  ASSUME NEW s \in Assocs, NEW p \in Packets, NEW k \in Calls, p.call = k
  PROVE  PushCall(s, p) \in Assocs /\ PushCall(s, p).link = k /\ PushCall(s, p).ref = s.ref + 1
<1>1. s.msgs \in Seq(Packets)
  BY DEF Assocs
<1>2. PICK m \in Seq(Packets) : m = Append(s.msgs, p)
  BY <1>1, AppendPackets
<1>3. PICK ref \in Int : ref = s.ref + 1
  BY DEF Assocs
<1>4. PICK o \in BOOLEAN : o = (s.overlap \/ s.link # 0)
  OBVIOUS
<1>5. PICK t : t = PushCall(s, p)
  OBVIOUS
<1>6. t = [s EXCEPT !.link = k, !.ref = ref, !.msgs = m, !.overlap = o]
  BY <1>2, <1>3, <1>4, <1>5 DEF PushCall
<1>7. t \in Assocs
  BY <1>6 DEF Assocs
<1>8. t.link = k /\ t.ref = ref
  BY <1>6 DEF Assocs
<1> QED BY <1>3, <1>5, <1>7, <1>8

\* The faults of a call that has not ended are legal.
LEMMA FaultLegal ==
  ASSUME NEW st \in {"REQUEST", "RESPONSE"}
  PROVE  ServerLegal(st, "fault_dne")
<1>1. CASE st = "REQUEST"
  BY <1>1 DEF ServerLegal, ServerCallTable
<1>2. CASE st = "RESPONSE"
  BY <1>2 DEF ServerLegal, ServerCallTable
<1> QED BY <1>1, <1>2

\* The first fragment of a request: the call gets a thread, waits for one, or is
\* What becomes of the first fragment p of a call, with s for the association
FirstOn(s, p) ==
  LET r == PushCall(s, p)
      e == [ex EXCEPT ![p.call] = NewCall(p)]
  IN  \/ /\ \E pc \in {"ready", "queued"} : ex' = [e EXCEPT ![p.call].pc = pc]
         /\ sv' = r /\ UNCHANGED <<up, s2c, seen>>
      \/ CallReject([r EXCEPT !.rcvr = "busy"], [e EXCEPT ![p.call].mine = TRUE], p.call)

LEMMA FirstReads ==
  ASSUME CallInv, FirstFragment
  PROVE  \E s \in Assocs : ReadsOn(s) /\ FirstOn(s, Head(c2s))
<1>1. sv \in Assocs /\ c2s # <<>>
  BY DEF CallInv, ServerTypes, FirstFragment, Arrives
<1>2. PICK m \in ReadAhead(sv.ovf, c2s) : FirstOn([sv EXCEPT !.ovf = m], Head(c2s))
  BY DEF FirstFragment, FirstOn
<1>3. PICK s : s = [sv EXCEPT !.ovf = m]
  OBVIOUS
<1>4. ReadsOn(s)
  BY <1>1, <1>3, ReadsAhead
<1> QED BY <1>1, <1>2, <1>3, <1>4, ReadsOnEffect

\* refused (handle_first_frag_action_rtn).
LEMMA FirstFragmentKeepsInv ==
  ASSUME CallInv, Running, UNCHANGED clientVars, FirstFragment
  PROVE  CallInv'
<1>1. /\ ex \in [Calls -> ServerReps] /\ sv \in Assocs /\ up \in BOOLEAN
      /\ c2s \in Seq(Packets) /\ cl.call \in Nat /\ Stages
  BY DEF CallInv, ServerTypes, WireTypes, ClientTypes, ClientReps
<1>2. c2s # <<>> /\ c2s' = Tail(c2s) /\ Begins(Head(c2s))
  BY DEF FirstFragment, Arrives, Begins
<1>3. PICK p \in Packets : p = Head(c2s)
  BY <1>1, <1>2
<1>4. PICK k \in Calls : k = p.call
  <2>1. Head(c2s).call \in 1..cl.call
    BY <1>1, <1>2, TailPackets DEF CallInv, BeginsOnce
  <2> QED BY <1>1, <1>3, <2>1, WireAssumption DEF CallInv, ClientTypes, Calls
<1>5. ex[k].pc = "none" /\ Stage(ex[k], k)
  BY <1>1, <1>2, <1>3, <1>4, TailPackets DEF CallInv, BeginsOnce, Stages
<1>6. PICK m \in ServerReps :
        /\ m = NewCall(p) /\ m.assoc /\ m.nsent = 0 /\ ~m.failed /\ ~m.executed
        /\ m.st \in {"REQUEST", "RESPONSE"}
  BY NewCallEffect
<1>7. PICK s \in Assocs :
        /\ s.link = k /\ s.ref = sv.ref + 1
        /\ LET e == [ex EXCEPT ![p.call] = NewCall(p)] IN
           \/ /\ \E pc \in {"ready", "queued"} : ex' = [e EXCEPT ![p.call].pc = pc]
              /\ sv' = s /\ UNCHANGED <<up, s2c, seen>>
           \/ CallReject([s EXCEPT !.rcvr = "busy"], [e EXCEPT ![p.call].mine = TRUE], p.call)
  <2>1. PICK r \in Assocs : ReadsOn(r) /\ FirstOn(r, p)
    BY <1>3, FirstReads
  <2>2. PICK s : s = PushCall(r, p)
    OBVIOUS
  <2>3. s \in Assocs /\ s.link = k /\ s.ref = sv.ref + 1
    BY <1>1, <1>4, <2>1, <2>2, PushCallEffect, ReadsOnEffect
  <2> QED BY <2>1, <2>2, <2>3 DEF FirstOn
<1>8. PICK e : e = [ex EXCEPT ![k] = m]
  OBVIOUS
<1>9. e \in [Calls -> ServerReps] /\ e[k] = m
  BY <1>1, <1>8
<1>10. CASE /\ \E pc \in {"ready", "queued"} : ex' = [e EXCEPT ![k].pc = pc]
            /\ sv' = s /\ UNCHANGED <<up, s2c, seen>>
  <2>1. PICK pc \in {"ready", "queued"} : ex' = [e EXCEPT ![k].pc = pc]
    BY <1>10
  <2>2. PICK q : q = [m EXCEPT !.pc = pc]
    OBVIOUS
  <2>3. q \in ServerReps
    <3>1. CASE q = [m EXCEPT !.pc = "ready"]
      BY <3>1 DEF ServerReps
    <3>2. CASE q = [m EXCEPT !.pc = "queued"]
      BY <3>2 DEF ServerReps
    <3> QED BY <2>2, <3>1, <3>2
  <2>4. q.pc = pc /\ q.assoc /\ q.nsent = 0 /\ ~q.failed
    BY <1>6, <2>2 DEF ServerReps
  <2>5. Stage(q, k) /\ Steady(q)
    BY <2>1, <2>4 DEF Stage, Steady
  <2>6. \A b \in Nat : Answered(ex[k], k, b) => Answered(q, k, b)
    <3>1. q.pc # "send"
      BY <2>1, <2>4
    <3> QED BY <1>5, <2>4, <3>1, FreshAnswered
  <2>7. ex' = [ex EXCEPT ![k] = q]
    BY <1>1, <1>8, <1>9, <2>1, <2>2
  <2>8. q.pc # "none"
    BY <2>1, <2>4
  <2> QED BY <1>2, <1>3, <1>4, <1>7, <1>10, <2>3, <2>4, <2>5, <2>6, <2>7, <2>8, BeginsKeepsInv
<1>11. CASE CallReject([s EXCEPT !.rcvr = "busy"], [e EXCEPT ![k].mine = TRUE], k)
  <2>1. PICK o : o = [m EXCEPT !.mine = TRUE, !.status = "rejected"]
    OBVIOUS
  <2>2. o \in ServerReps
    BY <2>1 DEF ServerReps
  <2>3. o.assoc = m.assoc /\ o.st = m.st
    BY <2>1 DEF ServerReps
  <2>4. PICK f : f = [ex EXCEPT ![k] = o]
    OBVIOUS
  <2>5. f \in [Calls -> ServerReps] /\ f[k] = o
    BY <1>1, <2>2, <2>4
  <2>6. PICK t : t = [s EXCEPT !.rcvr = "busy"]
    OBVIOUS
  <2>7. t \in Assocs /\ t.link = k /\ t.ref = sv.ref + 1
    BY <1>7, <2>6 DEF Assocs
  <2>8. [[e EXCEPT ![k].mine = TRUE] EXCEPT ![k].status = "rejected"] = f
    BY <1>1, <1>8, <1>9, <2>1, <2>4
  <2>9. FaultEvent(t, f, k, "fault_dne", "ending")
    BY <1>11, <2>6, <2>8 DEF CallReject
  <2>10. Fails(t, f, k, "fault_dne", "ending")
    BY <1>1, <2>5, <2>7, <2>9, FaultEventEffect
  <2>11. ServerLegal(f[k].st, "fault_dne")
    BY <1>6, <2>3, <2>5, FaultLegal
  <2>12. PICK q : ex' = [f EXCEPT ![k] = q] /\ Ended(o, q, k, "ending")
    BY <2>5, <2>10, <2>11 DEF Fails
  <2>13. Stage(q, k) /\ Steady(q) /\ q.pc # "none" /\ \A b \in Nat : Answered(q, k, b)
    <3>1. PICK then \in {"mgr", "ending"} : then = "ending"
      OBVIOUS
    <3> QED BY <2>12, <3>1, EndedStage
  <2>14. q \in ServerReps /\ q.assoc
    BY <1>6, <2>3, <2>12 DEF Ended
  <2>15. ex' = [ex EXCEPT ![k] = q]
    BY <1>1, <2>4, <2>12
  <2>16. sv' \in Assocs /\ sv'.link = k /\ sv'.ref = sv.ref + 1 /\ up' = up
    BY <2>7, <2>10, <2>11 DEF Fails, SameAssoc
  <2>17. s2c' = s2c
    BY <2>9 DEF FaultEvent
  <2> QED BY <1>2, <1>3, <1>4, <2>13, <2>14, <2>15, <2>16, <2>17, BeginsKeepsInv
<1>12. \/ /\ \E pc \in {"ready", "queued"} : ex' = [e EXCEPT ![k].pc = pc]
          /\ sv' = s /\ UNCHANGED <<up, s2c, seen>>
       \/ CallReject([s EXCEPT !.rcvr = "busy"], [e EXCEPT ![k].mine = TRUE], k)
  BY <1>4, <1>6, <1>7, <1>8
<1> QED BY <1>10, <1>11, <1>12

\* Every step of the server keeps the invariant.
LEMMA ServerStepKeepsInv ==
  ASSUME CallInv, ServerStep, UNCHANGED clientVars
  PROVE  CallInv'
BY ExecutorKeepsInv, FirstFragmentKeepsInv, LaterPacketKeepsInv, ServerDisconnectsKeepsInv
   DEF ServerStep, ServerReceiver

-----------------------------------------------------------------------------
(* The theorems *)

\* The invariant holds before the first call.
LEMMA CallInvInit == Init => CallInv
<1> SUFFICES ASSUME Init PROVE CallInv
  OBVIOUS
<1>1. /\ up = TRUE /\ c2s = <<>> /\ s2c = <<>> /\ cl = NoCall /\ canc = NoCancels
      /\ result = [k \in Calls |-> "none"] /\ ex = [k \in Calls |-> NoRep]
      /\ sv.link = 0 /\ sv.ref = 0
  BY DEF Init, WireInit, ClientInit, ServerInit
<1>2. cl.pc = "idle" /\ cl.call = 0 /\ cl.link = 0 /\ cl.got = <<>>
  BY <1>1 DEF NoCall
<1>3. ClientTypes
  <2>1. result \in [Calls -> Outcomes]
    BY <1>1 DEF Outcomes
  <2> QED BY <1>1, <1>2, <2>1, NoCallType, NoCancelsType, WireAssumption
        DEF ClientTypes, InCall, InSendmsg
<1>4. ServerTypes
  <2>1. sv = [assoc |-> "OPEN", astat |-> "ok", link |-> 0, ref |-> 0, msgs |-> <<>>,
              sendmsg |-> FALSE, rcvr |-> "recv", ovf |-> 0, fatal |-> "none", victim |-> 0,
              overlap |-> FALSE]
    BY DEF Init, ServerInit
  <2>2. sv \in Assocs
    BY <2>1 DEF Assocs
  <2> QED BY <1>1, <2>2, NoRepType DEF ServerTypes
<1>5. WireTypes
  BY <1>1 DEF WireTypes
<1>6. \A k \in Calls : /\ ex[k].pc = "none" /\ ex[k].nsent = 0 /\ ~ex[k].failed
                       /\ ex[k].st = "INIT" /\ ~ex[k].assoc /\ ~ex[k].executed
  BY <1>1 DEF NoRep
<1>7. BeginsOnce
  BY <1>1, <1>2, <1>6 DEF BeginsOnce, InCall
<1>8. Stages
  BY <1>6 DEF Stages, Stage, Steady
<1>9. AssocTracksCalls
  <2>1. {k \in Calls : ex[k].assoc} = {}
    BY <1>6
  <2> QED BY <1>1, <2>1, FS_EmptySet DEF AssocTracksCalls
<1>10. Stream /\ OwnResponse
  BY <1>2 DEF Stream, InCall, OwnResponse, InOrder
<1> QED BY <1>3, <1>4, <1>5, <1>7, <1>8, <1>9, <1>10 DEF CallInv

\* Every step keeps it.
LEMMA CallInvNext == CallInv /\ [Next]_vars => CallInv'
<1> SUFFICES ASSUME CallInv, [Next]_vars PROVE CallInv'
  OBVIOUS
<1>1. CASE ClientStep /\ UNCHANGED serverVars
  BY <1>1, ClientKeepsInv DEF ServerKeeps
<1>2. CASE ServerStep /\ UNCHANGED clientVars
  BY <1>2, ServerStepKeepsInv
<1>3. CASE Break
  BY <1>3, BreakKeepsInv
<1>4. CASE UNCHANGED vars
  BY <1>4 DEF vars, wireVars, clientVars, serverVars, CallInv, ClientTypes, ServerTypes,
     WireTypes, BeginsOnce, Unknown, Stages, AssocTracksCalls, Running, Stream, InCall,
     InSendmsg, Alive, OwnResponse
<1> QED BY <1>1, <1>2, <1>3, <1>4 DEF Next

\* What the types of the run say follows: as the references are those of the calls
\* there are never more than calls.
LEMMA CallInvTypeOK == CallInv => TypeOK
<1> SUFFICES ASSUME CallInv PROVE TypeOK
  OBVIOUS
<1>1. /\ up \in BOOLEAN /\ cl \in ClientReps /\ canc \in Cancels /\ sv \in Assocs
      /\ ex \in [Calls -> ServerReps] /\ result \in [Calls -> Outcomes]
      /\ cl.link \in {0, cl.call}
  BY DEF CallInv, ClientTypes, ServerTypes, WireTypes
<1>2. sv.ref \in 0..NCalls
  <2> DEFINE S == {k \in Calls : ex[k].assoc}
  <2>1. IsFiniteSet(Calls) /\ Cardinality(Calls) = NCalls
    BY WireAssumption, FS_Interval DEF Calls
  <2>2. IsFiniteSet(S) /\ Cardinality(S) <= Cardinality(Calls)
    BY <2>1, FS_Subset
  <2>3. Cardinality(S) \in Nat
    BY <2>2, FS_CardinalityType
  <2>4. sv.ref = Cardinality(S)
    BY DEF CallInv, AssocTracksCalls
  <2> HIDE DEF S
  <2> QED BY <2>1, <2>2, <2>3, <2>4, WireAssumption
<1>3. cl.st \in ClientCallStates /\ sv.link \in Calls \cup {0}
  BY <1>1 DEF ClientReps, Assocs
<1>4. canc.local \in Nat /\ canc.count \in Nat
  BY <1>1 DEF Cancels
<1>5. \A k \in Calls : ex[k].st \in ServerCallStates /\ ex[k].count \in Nat
  BY <1>1 DEF ServerReps
<1> QED BY <1>1, <1>2, <1>3, <1>4, <1>5 DEF TypeOK, Outcomes

\* CallInv is an invariant of the calls over an association.
LEMMA CallInvHolds == Spec => []CallInv
<1>1. Init => CallInv
  BY CallInvInit
<1>2. CallInv /\ [Next]_vars => CallInv'
  BY CallInvNext
<1> QED BY <1>1, <1>2, PTL DEF Spec

\* For every number of calls, fragments and cancels the records of the two ends
\* keep their types, and the association of the server has never more references
\* than there are calls (rpc__cn_assoc_alloc and rpc__cn_assoc_dealloc).
THEOREM CallTypes == Spec => []TypeOK
<1>1. CallInv => TypeOK
  BY CallInvTypeOK
<1> QED BY <1>1, CallInvHolds, PTL

\* The association of the server counts the calls that hold it, and the call it
\* points to has not been freed (rpc__cn_assoc_push_call and pop_call).
THEOREM AssocTracksCallsHolds == Spec => []AssocTracksCalls
<1>1. CallInv => AssocTracksCalls
  BY DEF CallInv
<1> QED BY <1>1, CallInvHolds, PTL

\* A caller is given the response to its own call only, in order and without a
\* gap, however the calls before it ended and whenever the connection breaks
\* (rpc__cn_assoc_receive_frag).
THEOREM OwnResponseHolds == Spec => []OwnResponse
<1>1. CallInv => OwnResponse
  BY DEF CallInv
<1> QED BY <1>1, CallInvHolds, PTL
=============================================================================
