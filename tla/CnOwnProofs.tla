------------------------------ MODULE CnOwnProofs ------------------------------
(***************************************************************************)
(* Proof about CnCall for every number of calls, of fragments and of       *)
(* cancels: as long as calls do not overlap on the association a manager   *)
(* is given the request of its own call, and all of it if its caller is    *)
(* told that the call succeeded.                                           *)
(***************************************************************************)
EXTENDS CnLegalProofs

-----------------------------------------------------------------------------
(* The invariant *)

\* The executor of the call may yet take a fragment from the queue.
CanRead(r) ==
  \/ r.pc = "wait"
  \/ /\ r.status # "orphaned"
     /\ \/ r.pc \in {"queued", "ready", "recvd"}
        \/ /\ r.pc = "mgr" \/ (r.pc \in {"send", "sent"} /\ r.then = "mgr")
           /\ ~r.failed /\ ~r.gotlast /\ r.st # "COMPLETED"

\* The queue s has the fragments of request k that follow the first n.
Follows(s, k, n) ==
  \A i \in 1..Len(s) : s[i].type = "request" /\ s[i].call = k /\ s[i].n = n + i

\* What the manager of call k has been given, and the queue when it is k's: its
\* fragments, those that follow.  The first a fragments of the request have come in.
Owned(k, a) ==
  /\ InOrder(seen[k], k)
  /\ ex[k].pc = "none" => a = 0 /\ seen[k] = <<>>
  /\ sv.link = k /\ sv.assoc = "OPEN" /\ CanRead(ex[k]) =>
       /\ Follows(sv.msgs, k, Len(seen[k]))
       /\ ex[k].st = "REQUEST" /\ ~Maybe(k) => a = Len(seen[k]) + Len(sv.msgs)

\* A send was given up for a cancel after the call had failed: nothing of the request
\* is sent any more.
GaveUp(c) == c.status # "ok" /\ c.err # "ok"

\* The fragments of the request that have been put on the wire
SendsRequest(c) == c.pc = "send" /\ c.sending.type = "request"
SentRequests(c) == IF SendsRequest(c) THEN c.nsent - 1 ELSE c.nsent

\* The fragments of every request are on the wire in order and without a gap.
Requests ==
  \A k \in Calls : \E a, b \in Nat :
    /\ Runs("request", c2s, k, a, b) /\ Owned(k, a)
    /\ InCall /\ cl.call = k /\ up /\ ~GaveUp(cl) => b = SentRequests(cl)

\* The caller sends the fragments by their numbers; the last of a response tells it
\* that the manager has the whole request.
Sends(c) ==
  /\ SendsRequest(c) => c.sending.n = c.nsent /\ c.err = "ok" /\ c.nsent > 0
  /\ c.err = "fault" => c.pc = "stub" \/ (c.pc \in {"send", "sent"} /\ c.sending.type = "orphaned")

Ends(p) == p.type = "response" /\ p.last

Hears(c, k) ==
  /\ \A i \in 1..Len(c.msgs) : Ends(c.msgs[i]) => ex[k].gotlast
  /\ c.gotlast => ex[k].gotlast \/ c.err = "fault"

Caller ==
  /\ InCall => Sends(cl) /\ Hears(cl, cl.call)
  /\ \A k \in Calls \ MaybeCalls : result[k] = "ok" => ex[k].gotlast

\* The association is closed for good, and its status is bad as long as it has a call;
\* one without a call has nothing in its queue.
Queue(s) ==
  /\ s.rcvr = "recv" => s.assoc = "OPEN"
  /\ s.assoc = "CLOSED" /\ s.link # 0 => s.astat # "ok"
  /\ s.link = 0 /\ s.assoc = "OPEN" => s.msgs = <<>>
  /\ up => s.astat = "ok"

\* On a connection that is up a call answers when it has the whole request.
Replies(r) ==
  /\ r.pc \in {"none", "queued", "ready", "wait"} => ~r.gotlast
  /\ r.pc = "send" => ~r.failed
  /\ up =>
       /\ r.pc = "sent" => ~r.failed
       /\ r.pc = "caf" => r.status = "orphaned"
       /\ r.pc = "ending" /\ r.st \in {"REQUEST", "RESPONSE"} => r.gotlast \/ r.status = "orphaned"
       /\ r.pc = "send" /\ Ends(r.sending) => r.gotlast

Told == \A i \in 1..Len(s2c) : Ends(s2c[i]) => ex[s2c[i].call].gotlast

OwnTypes == seen \in [Calls -> Seq(Nat \X Nat)]

OwnInv ==
  /\ OwnTypes
  /\ ~sv.overlap => Requests /\ Caller /\ Queue(sv) /\ Told /\ \A k \in Calls : Replies(ex[k])

-----------------------------------------------------------------------------
(* What a step of the server does to a call and to the queue *)

\* The record r of a call becomes q: what cannot read any more stays so, and the
\* whole request is never lost.
Heeds(r, q) ==
  /\ CanRead(q) => CanRead(r)
  /\ r.gotlast => q.gotlast
  /\ Replies(q)

\* The association t is to calls and to its receiver what s is; a send that fails
\* has found the connection down.
SameQueue(s, t) ==
  /\ t.assoc = s.assoc /\ t.link = s.link /\ t.msgs = s.msgs
  /\ t.rcvr = "recv" => s.rcvr = "recv" \/ s.assoc = "OPEN"
  /\ t.astat = s.astat \/ (t.astat = "closed" /\ ~up)

\* The executor of call k takes the head of the queue.
Draws(k) ==
  /\ sv.link = k /\ sv'.link = k /\ sv.assoc = "OPEN" /\ CanRead(ex[k])
  /\ ex'[k].pc # "none"
  /\ sv.msgs # <<>> /\ sv'.msgs = Tail(sv.msgs)
  /\ seen' = [seen EXCEPT ![k] = Append(@, <<k, Len(@) + 1>>)]

\* The queue is left to its reader or to nobody, or is read.
Passes ==
  \/ seen' = seen /\ sv'.link = sv.link /\ sv'.msgs = sv.msgs
  \/ seen' = seen /\ \A k \in Calls : sv'.link = k => sv'.assoc = "CLOSED" \/ ~CanRead(ex'[k])
  \/ \E k \in Calls : Draws(k)

Minds ==
  /\ \A k \in Calls : Heeds(ex[k], ex'[k])
  /\ Queue(sv') /\ (sv'.assoc = "OPEN" => sv.assoc = "OPEN") /\ Passes

\* What was read of call k, then the queue
InLine(g, s, k, n) == InOrder(g, k) /\ Follows(s, k, Len(g)) /\ Len(g) + Len(s) = n

\* The head of the queue is read.
LEMMA DrawsInOrder ==
  ASSUME NEW k \in Calls, NEW s \in Seq(Packets), NEW g \in Seq(Nat \X Nat), s # <<>>,
         NEW n, InLine(g, s, k, n)
  PROVE  InLine(Append(g, <<k, Len(g) + 1>>), Tail(s), k, n)
<1>0. PICK h, t : h = Append(g, <<k, Len(g) + 1>>) /\ t = Tail(s)
  OBVIOUS
<1>1. k \in Nat /\ Len(g) \in Nat /\ Len(s) \in Nat
  BY WireAssumption DEF Calls
<1>2. <<k, Len(g) + 1>> \in Nat \X Nat
  BY <1>1
<1>3. /\ Len(h) = Len(g) + 1 /\ h[Len(g) + 1] = <<k, Len(g) + 1>>
      /\ \A i \in 1..Len(g) : h[i] = g[i]
  BY <1>0, <1>1, <1>2
<1>4. InOrder(h, k)
  <2>1. ASSUME NEW i \in 1..Len(h)
        PROVE  h[i] = <<k, i>>
    <3>1. CASE i = Len(g) + 1
      BY <1>3, <3>1
    <3>2. CASE i \in 1..Len(g)
      BY <1>3, <3>2 DEF InOrder, InLine
    <3> QED BY <1>1, <1>3, <3>1, <3>2
  <2> QED BY <2>1 DEF InOrder
<1>5. Len(t) = Len(s) - 1 /\ \A i \in 1..Len(t) : i \in Nat /\ i + 1 \in 1..Len(s) /\ t[i] = s[i + 1]
  BY <1>0
<1>6. Follows(t, k, Len(h))
  <2>1. ASSUME NEW i \in 1..Len(t)
        PROVE  t[i].type = "request" /\ t[i].call = k /\ t[i].n = Len(h) + i
    <3>1. PICK j \in 1..Len(s) : j = i + 1 /\ t[i] = s[j] /\ i \in Nat
      BY <1>5
    <3>2. s[j].type = "request" /\ s[j].call = k /\ s[j].n = Len(g) + j
      BY DEF InLine, Follows
    <3> QED BY <1>1, <1>3, <3>1, <3>2
  <2> QED BY <2>1 DEF Follows
<1>7. InLine(h, t, k, n)
  BY <1>1, <1>3, <1>4, <1>5, <1>6 DEF InLine
<1> QED BY <1>0, <1>7

\* What a manager has been given stays in order, and so does what it may yet get.
LEMMA OwnedOn ==
  ASSUME CallInv, OwnTypes, Minds, NEW k \in Calls, NEW a \in Nat, Owned(k, a),
         ex'[k].pc = "none" => ex[k].pc = "none", ex'[k].st = "REQUEST" => ex[k].st = "REQUEST",
         NEW c \in Nat,
         c = a \/ (ex'[k].pc # "none" /\ ~(sv'.link = k /\ ex'[k].st = "REQUEST" /\ ~Maybe(k)))
  PROVE  Owned(k, c)'
<1>1. seen[k] \in Seq(Nat \X Nat) /\ sv.msgs \in Seq(Packets)
  BY DEF OwnTypes, CallInv, ServerTypes, Assocs
<1>2. CanRead(ex'[k]) => CanRead(ex[k])
  BY DEF Minds, Heeds
<1>3. PICK g \in Seq(Nat \X Nat), m \in Seq(Packets) : g = seen[k] /\ m = sv.msgs
  BY <1>1
<1>4. CASE seen' = seen
  <2>1. InOrder(seen'[k], k)
    BY <1>4 DEF Owned
  <2>2. ex'[k].pc = "none" => c = 0 /\ seen'[k] = <<>>
    BY <1>4 DEF Owned
  <2>3. ASSUME sv'.link = k, sv'.assoc = "OPEN", CanRead(ex'[k])
        PROVE  /\ Follows(sv'.msgs, k, Len(seen'[k]))
               /\ ex'[k].st = "REQUEST" /\ ~Maybe(k) => c = Len(seen'[k]) + Len(sv'.msgs)
    <3>1. CASE sv'.link = sv.link /\ sv'.msgs = sv.msgs
      BY <1>2, <1>4, <2>3, <3>1 DEF Owned, Minds
    <3>2. CASE \E j \in Calls : Draws(j)
      <4>1. PICK j \in Calls : seen' = [seen EXCEPT ![j] = Append(@, <<j, Len(@) + 1>>)] /\ sv'.link = j
        BY <3>2 DEF Draws
      <4>2. g = Append(g, <<k, Len(g) + 1>>)
        BY <1>3, <1>4, <2>3, <4>1 DEF OwnTypes
      <4>3. <<k, Len(g) + 1>> \in Nat \X Nat
        BY WireAssumption DEF Calls
      <4>4. Len(Append(g, <<k, Len(g) + 1>>)) = Len(g) + 1 /\ Len(g) \in Nat
        BY <4>3
      <4> QED BY <4>2, <4>4
    <3> QED BY <2>3, <3>1, <3>2 DEF Minds, Passes
  <2> QED BY <2>1, <2>2, <2>3 DEF Owned, InOrder, CanRead
<1>5. CASE seen' # seen
  <2>1. PICK j \in Calls : Draws(j)
    BY <1>5 DEF Minds, Passes
  <2>2. CASE j = k
    <3>1. seen'[k] = Append(g, <<k, Len(g) + 1>>) /\ sv'.msgs = Tail(m) /\ m # <<>> /\ sv'.link = k
      BY <1>3, <2>1, <2>2 DEF Draws, OwnTypes
    <3>2. /\ Follows(m, k, Len(g)) /\ InOrder(g, k) /\ ex'[k].pc # "none"
          /\ ex[k].st = "REQUEST" /\ ~Maybe(k) => a = Len(g) + Len(m)
      BY <1>3, <2>1, <2>2 DEF Draws, Owned
    <3>3. InLine(g, m, k, Len(g) + Len(m))
      BY <3>2 DEF InLine
    <3>4. InLine(Append(g, <<k, Len(g) + 1>>), Tail(m), k, Len(g) + Len(m))
      BY <3>1, <3>3, DrawsInOrder
    <3>5. InLine(seen'[k], sv'.msgs, k, Len(g) + Len(m))
      BY <3>1, <3>4
    <3> QED BY <3>2, <3>5 DEF Owned, InLine, InOrder, Follows
  <2>3. CASE j # k
    <3>1. seen'[k] = seen[k] /\ sv'.link # k
      BY <2>1, <2>3 DEF Draws, OwnTypes
    <3> QED BY <3>1 DEF Owned, InOrder
  <2> QED BY <2>2, <2>3
<1> QED BY <1>4, <1>5

\* A packet that the server has read, if any, is the next of no request that goes on.
Consumes ==
  \/ c2s' = c2s
  \/ /\ c2s # <<>> /\ c2s' = Tail(c2s)
     /\ LET p == Head(c2s) IN
        p.type = "request" =>
          /\ p.n # 1
          /\ ~(sv'.link = p.call /\ ex'[p.call].st = "REQUEST" /\ ~Maybe(p.call))

\* A request with its head read: it goes on with what follows.
LEMMA ConsumesOwn ==
  ASSUME CallInv, OwnTypes, Minds, Behaves, \A j \in Calls : Speaks(ex[j], ex'[j], j), Consumes,
         NEW k \in Calls, NEW a \in Nat, NEW b \in Nat, Runs("request", c2s, k, a, b), Owned(k, a)
  PROVE  \E c \in Nat : Runs("request", c2s', k, c, b) /\ Owned(k, c)'
<1>1. /\ ex'[k].pc = "none" => ex[k].pc = "none"
      /\ ex'[k].st = "REQUEST" => ex[k].st = "REQUEST"
  BY DEF Speaks, Behaves, Fair
<1>2. CASE Runs("request", c2s', k, a, b)
  <2>1. Owned(k, a)'
    BY <1>1, OwnedOn
  <2> QED BY <1>2, <2>1
<1>3. CASE /\ c2s # <<>> /\ c2s' = Tail(c2s)
           /\ Head(c2s).type = "request" /\ Head(c2s).call = k
  <2>1. c2s \in Seq(Packets) /\ k \in Nat
    BY WireAssumption DEF CallInv, WireTypes, Calls
  <2>2. Head(c2s).n = a + 1 /\ Runs("request", Tail(c2s), k, a + 1, b)
    BY <1>3, <2>1, RunsTail
  <2>3. Head(c2s).n # 1 /\ ~(sv'.link = k /\ ex'[k].st = "REQUEST" /\ ~Maybe(k))
    BY <1>3 DEF Consumes
  <2>4. a # 0
    BY <2>2, <2>3
  <2>5. ex'[k].pc # "none"
    BY <1>1, <2>4 DEF Owned
  <2>6. Owned(k, a + 1)'
    BY <1>1, <2>3, <2>5, OwnedOn
  <2> QED BY <1>3, <2>2, <2>6
<1>4. CASE c2s # <<>> /\ c2s' = Tail(c2s) /\ ~(Head(c2s).type = "request" /\ Head(c2s).call = k)
  <2>1. c2s \in Seq(Packets) /\ k \in Nat
    BY WireAssumption DEF CallInv, WireTypes, Calls
  <2>2. Runs("request", Tail(c2s), k, a, b)
    BY <1>4, <2>1, RunsTailOther
  <2> QED BY <1>2, <1>4, <2>2
<1> QED BY <1>2, <1>3, <1>4 DEF Consumes

\* A caller that counts on it that the manager has the whole request may go on so.
LEMMA CallerOn ==
  ASSUME CallInv, Caller, UNCHANGED clientVars, \A k \in Calls : ex[k].gotlast => ex'[k].gotlast
  PROVE  Caller'
<1>1. cl' = cl /\ result' = result
  BY DEF clientVars
<1>2. \A k \in Calls \ MaybeCalls : result'[k] = "ok" => ex'[k].gotlast
  BY <1>1 DEF Caller
<1>3. InCall' => cl.call \in Calls /\ Sends(cl) /\ Hears(cl, cl.call)
  BY <1>1 DEF Caller, InCall, CallInv, ClientTypes, ClientReps, Calls
<1>4. InCall' => (Sends(cl) /\ Hears(cl, cl.call))'
  BY <1>1, <1>3 DEF Sends, Hears, SendsRequest, Ends
<1> QED BY <1>2, <1>4 DEF Caller

\* A step of the server that leaves requests and their queue in order
LEMMA MindsKeepOwn ==
  ASSUME CallInv, OwnInv, UNCHANGED clientVars, up' => up, OwnTypes', Behaves,
         \A j \in Calls : Speaks(ex[j], ex'[j], j), Consumes, ~sv.overlap => Minds /\ Told'
  PROVE  OwnInv'
<1>1. sv'.overlap = sv.overlap
  BY DEF Behaves, Drains
<1> SUFFICES ASSUME ~sv.overlap
             PROVE  (Requests /\ Caller /\ Queue(sv) /\ Told /\ \A k \in Calls : Replies(ex[k]))'
  BY <1>1 DEF OwnInv
<1>2. Minds /\ OwnTypes /\ Requests /\ Caller
  BY DEF OwnInv
<1>3. cl' = cl /\ result' = result
  BY DEF clientVars
<1>4. Requests'
  <2>1. ASSUME NEW k \in Calls
        PROVE  \E c, b \in Nat :
                 /\ Runs("request", c2s', k, c, b) /\ Owned(k, c)'
                 /\ (InCall /\ cl.call = k /\ up /\ ~GaveUp(cl))' => b = SentRequests(cl')
    <3>1. PICK a, b \in Nat :
            /\ Runs("request", c2s, k, a, b) /\ Owned(k, a)
            /\ InCall /\ cl.call = k /\ up /\ ~GaveUp(cl) => b = SentRequests(cl)
      BY <1>2 DEF Requests
    <3>2. PICK c \in Nat : Runs("request", c2s', k, c, b) /\ Owned(k, c)'
      BY <1>2, <3>1, ConsumesOwn
    <3>3. (InCall /\ cl.call = k /\ up /\ ~GaveUp(cl))' => b = SentRequests(cl')
      BY <1>3, <3>1 DEF InCall
    <3> QED BY <3>2, <3>3
  <2> QED BY <2>1 DEF Requests, Runs, Hits, SentRequests, SendsRequest
<1>5. \A k \in Calls : ex[k].gotlast => ex'[k].gotlast
  BY <1>2 DEF Minds, Heeds
<1>6. Caller'
  BY <1>2, <1>5, CallerOn
<1>7. Queue(sv)'
  BY <1>2 DEF Minds, Queue
<1>8. \A k \in Calls : Replies(ex[k])'
  BY <1>2 DEF Minds, Heeds, Replies
<1> QED BY <1>4, <1>6, <1>7, <1>8

-----------------------------------------------------------------------------
(* The steps of a call's executor *)

\* No call has found another one on the association.
OneByOne == CallInv /\ BlameInv /\ OwnInv /\ ~sv.overlap

\* Where a step of the server begins
LEMMA AtOwn ==
  ASSUME OneByOne, NEW k \in Calls
  PROVE  /\ sv \in Assocs /\ ex \in [Calls -> ServerReps] /\ ex[k] \in ServerReps
         /\ Sound(ex[k]) /\ Stage(ex[k], k) /\ (up => Steady(ex[k])) /\ Replies(ex[k])
         /\ Queue(sv) /\ Told /\ OwnTypes
         /\ ex[k].assoc => sv.link = k
         /\ ex[k].gotlast => ex[k].st # "REQUEST"
         /\ ex[k].pc = "wait" => ex[k].looks = k
BY AtBlame, AtStep DEF OneByOne, OwnInv, BlameInv, Apart

\* A call that is only nudged
LEMMA NudgedHeeds ==
  ASSUME NEW r, NEW m, NEW q, Heeds(r, m), Nudged(m, q), Kept(m, q)
  PROVE  Heeds(r, q)
<1>1. CanRead(q) => CanRead(m)
  BY DEF Nudged, Kept, CanRead
<1>2. Replies(m) => Replies(q)
  BY DEF Nudged, Kept, Replies
<1> QED BY <1>1, <1>2 DEF Heeds, Kept

\* A call that is left alone
LEMMA StaysHeeding ==
  ASSUME OneByOne
  PROVE  \A j \in Calls : Heeds(ex[j], ex[j])
BY AtOwn DEF Heeds

\* The other calls are left alone.
LEMMA AloneHeeds ==
  ASSUME OneByOne, NEW k \in Calls, NEW q, ex' = [ex EXCEPT ![k] = q], Heeds(ex[k], q)
  PROVE  \A j \in Calls : Heeds(ex[j], ex'[j])
BY AtOwn, StaysHeeding

\* A call makes a step and somebody may be woken.
LEMMA WokenHeeds ==
  ASSUME OneByOne, NEW k \in Calls, NEW q \in ServerReps,
         NEW w \in Calls \cup {0}, ex' = Wake([ex EXCEPT ![k] = q], w), Heeds(ex[k], q)
  PROVE  \A j \in Calls : Heeds(ex[j], ex'[j])
<1>1. PICK e : e = [ex EXCEPT ![k] = q]
  OBVIOUS
<1>2. /\ e \in [Calls -> ServerReps] /\ e[k] = q /\ \A j \in Calls : j # k => e[j] = ex[j]
  BY <1>1, AtOwn
<1>3. \A j \in Calls : Heeds(ex[j], e[j])
  BY <1>2, StaysHeeding
<1>4. \A j \in Calls : Nudged(e[j], ex'[j]) /\ Kept(e[j], ex'[j])
  BY <1>1, <1>2, WakesNudge, WakeKept
<1> QED BY <1>3, <1>4, NudgedHeeds

\* The queue is left alone.
LEMMA QuietMinds ==
  ASSUME OneByOne, SameQueue(sv, sv'), seen' = seen, \A j \in Calls : Heeds(ex[j], ex'[j])
  PROVE  Minds
<1>1. Queue(sv)
  BY DEF OneByOne, OwnInv
<1> QED BY <1>1 DEF Minds, Queue, Passes, SameQueue

\* Nothing is told.
LEMMA ToldOn ==
  ASSUME OneByOne, \A j \in Calls : Heeds(ex[j], ex'[j]), Shortens(s2c, s2c')
  PROVE  Told'
<1>1. s2c \in Seq(Packets) /\ Told
  BY DEF OneByOne, OwnInv, CallInv, WireTypes
<1>2. PICK d \in Nat : Later(s2c, s2c', d)
  BY <1>1, ShorterPackets
<1>3. \A i \in 1..Len(s2c) : s2c[i].call \in Calls
  BY WireAssumption DEF OneByOne, CallInv, BeginsOnce, ClientTypes, ClientReps, Calls
<1>4. \A i \in 1..Len(s2c) : Ends(s2c[i]) => ex'[s2c[i].call].gotlast
  BY <1>1, <1>3 DEF Told, Heeds
<1> QED BY <1>2, <1>4 DEF Told, Later

\* The thread gets the call, refuses it, is done with it, takes a cancel, gives a
\* send up or has sent.
LEMMA TurnMinds ==
  ASSUME OneByOne, NEW k \in Calls,
         \/ ExecutorStarts(k) \/ ExecutorRefuses(k) \/ ManagerReturns(k)
         \/ ManagerTakesCancel(k) \/ ServerSendmsgCancelled(k)
         \/ ServerSent(k) /\ ex[k].then # "freed"
  PROVE  Minds /\ Told'
<1>1. /\ sv \in Assocs /\ ex \in [Calls -> ServerReps]
      /\ Replies(ex[k]) /\ Stage(ex[k], k) /\ (up => Steady(ex[k]))
  BY AtOwn
<1>2. PICK r \in ServerReps : r = ex[k]
  BY <1>1
<1>3. ASSUME NEW q, ex' = [ex EXCEPT ![k] = q], Heeds(r, q), SameQueue(sv, sv')
      PROVE  Minds /\ Told'
  <2>1. \A j \in Calls : Heeds(ex[j], ex'[j])
    BY <1>2, <1>3, AloneHeeds
  <2>2. seen' = seen /\ s2c' = s2c
    BY DEF ExecutorStarts, ExecutorRefuses, ManagerReturns, ManagerTakesCancel,
           ServerSendmsgCancelled, ServerSent, wireVars
  <2> QED BY <1>3, <2>1, <2>2, QuietMinds, ToldOn DEF Shortens
<1>4. sv' = sv => SameQueue(sv, sv')
  BY DEF SameQueue
<1>5. ASSUME NEW a \in {"ok", "closed"}, sv' = [sv EXCEPT !.sendmsg = FALSE, !.astat = a],
             a = sv.astat \/ (a = "closed" /\ ~up)
      PROVE  SameQueue(sv, sv')
  BY <1>1, <1>5 DEF SameQueue, Assocs
<1>6. ASSUME NEW m, Nudged(r, m), Kept(r, m), NEW pc \in {"ready", "rejecting", "ending"},
             NEW q, q = [m EXCEPT !.pc = pc]
      PROVE  /\ q.pc = pc /\ q.gotlast = r.gotlast /\ q.status = r.status /\ q.st = r.st
             /\ q.failed = r.failed
  BY <1>6 DEF Nudged, Kept, ServerReps
<1>7. Nudged(r, r) /\ Kept(r, r) /\ Nudged(r, CancelCaf(r)) /\ Kept(r, CancelCaf(r))
  BY CancelNudges, CancelKept DEF Nudged, Kept
<1>8. CASE ExecutorStarts(k)
  <2>1. PICK q : q = [r EXCEPT !.pc = "ready"]
    OBVIOUS
  <2>2. ex' = [ex EXCEPT ![k] = q] /\ sv' = sv /\ r.pc = "queued"
    BY <1>2, <1>8, <2>1 DEF ExecutorStarts
  <2>3. q.pc = "ready" /\ q.gotlast = r.gotlast /\ q.status = r.status
    BY <1>6, <1>7, <2>1
  <2>4. Heeds(r, q)
    BY <1>1, <1>2, <2>2, <2>3 DEF Heeds, CanRead, Replies
  <2> QED BY <1>3, <1>4, <2>2, <2>4
<1>9. CASE ExecutorRefuses(k)
  <2>1. PICK q : q = [CancelCaf(r) EXCEPT !.pc = "rejecting"]
    OBVIOUS
  <2>2. ex' = [ex EXCEPT ![k] = q] /\ sv' = sv
    BY <1>2, <1>9, <2>1 DEF ExecutorRefuses
  <2>3. q.pc = "rejecting" /\ q.gotlast = r.gotlast
    BY <1>6, <1>7, <2>1
  <2>4. Heeds(r, q)
    BY <2>3 DEF Heeds, CanRead, Replies
  <2> QED BY <1>3, <1>4, <2>2, <2>4
<1>10. CASE ManagerReturns(k)
  <2>1. PICK q : q = [CancelCaf(r) EXCEPT !.pc = "ending"]
    OBVIOUS
  <2>2. ex' = [ex EXCEPT ![k] = q] /\ sv' = sv
    BY <1>2, <1>10, <2>1 DEF ManagerReturns
  <2>3. q.pc = "ending" /\ q.gotlast = r.gotlast /\ q.status = r.status /\ q.st = r.st
    BY <1>6, <1>7, <2>1
  <2>4. \/ r.pc = "caf"
        \/ r.pc = "mgr" /\ (r.gotlast \/ r.st = "COMPLETED" \/ r.status = "orphaned")
    BY <1>2, <1>10 DEF ManagerReturns
  <2>5. Heeds(r, q)
    BY <1>1, <1>2, <2>3, <2>4 DEF Heeds, CanRead, Replies
  <2> QED BY <1>3, <1>4, <2>2, <2>5
<1>11. CASE ManagerTakesCancel(k)
  <2>1. PICK q : q = [r EXCEPT !.cancelled = FALSE, !.acted = TRUE]
    OBVIOUS
  <2>2. q.st = r.st /\ q.pc = r.pc /\ q.status = r.status
    BY <2>1 DEF ServerReps
  <2>3. q.gotlast = r.gotlast /\ q.failed = r.failed /\ q.then = r.then
    BY <2>1 DEF ServerReps
  <2>4. ex' = [ex EXCEPT ![k] = q] /\ sv' = sv /\ r.pc = "mgr"
    BY <1>2, <1>11, <2>1 DEF ManagerTakesCancel, InManager
  <2>5. Heeds(r, q)
    BY <1>1, <1>2, <2>2, <2>3, <2>4 DEF Heeds, CanRead, Replies
  <2> QED BY <1>3, <1>4, <2>4, <2>5
<1>14. CASE ServerSendmsgCancelled(k) /\ sv.link = 0
  <2>1. Abort(sv, "null_call_rep", k) /\ ex' = ex /\ seen' = seen /\ s2c' = s2c
    BY <1>14 DEF ServerSendmsgCancelled
  <2>2. SameQueue(sv, sv')
    BY <1>1, <2>1 DEF Abort, SameQueue, Assocs
  <2>3. \A j \in Calls : Heeds(ex[j], ex'[j])
    BY <2>1, StaysHeeding
  <2> QED BY <2>1, <2>2, <2>3, QuietMinds, ToldOn DEF Shortens
<1>12. CASE ServerSendmsgCancelled(k) /\ sv.link # 0
  <2>1. PICK q : q = [r EXCEPT !.pc = "mgr", !.failed = TRUE, !.cancelled = FALSE, !.acted = TRUE,
                               !.unsaid = r.sending.last]
    OBVIOUS
  <2>2. q.pc = "mgr" /\ q.gotlast = r.gotlast /\ q.failed
    BY <2>1 DEF ServerReps
  <2>3. ex' = [ex EXCEPT ![k] = q]
    BY <1>2, <1>12, <2>1 DEF ServerSendmsgCancelled
  <2>4. sv' = [sv EXCEPT !.sendmsg = FALSE, !.astat = sv.astat] /\ sv.astat \in {"ok", "closed"}
    BY <1>1, <1>12, SendOver DEF ServerSendmsgCancelled
  <2>5. Heeds(r, q)
    BY <2>2 DEF Heeds, CanRead, Replies
  <2> QED BY <1>3, <1>5, <2>3, <2>4, <2>5
<1>13. CASE ServerSent(k) /\ ex[k].then # "freed"
  <2>1. PICK q : q = [r EXCEPT !.pc = r.then]
    OBVIOUS
  <2>2. PICK a \in {"ok", "closed"} : a = IF r.failed THEN "closed" ELSE sv.astat
    BY <1>1 DEF Assocs
  <2>3. /\ ex' = [ex EXCEPT ![k] = q] /\ r.pc = "sent"
        /\ sv' = [sv EXCEPT !.sendmsg = FALSE, !.astat = a]
    BY <1>1, <1>2, <1>13, <2>1, <2>2 DEF ServerSent
  <2>4. q.st = r.st /\ q.pc = r.then /\ q.status = r.status /\ q.failed = r.failed
    BY <2>1 DEF ServerReps
  <2>5. /\ q.gotlast = r.gotlast /\ r.then \in {"mgr", "ending"}
        /\ r.then = "ending" => r.st = "COMPLETED"
    BY <1>1, <1>2, <1>13, <2>1, <2>3 DEF ServerReps, Stage
  <2>6. a = sv.astat \/ (a = "closed" /\ ~up)
    BY <1>1, <1>2, <2>2, <2>3 DEF Replies
  <2>7. Heeds(r, q)
    BY <2>3, <2>4, <2>5 DEF Heeds, CanRead, Replies
  <2> QED BY <1>3, <1>5, <2>3, <2>6, <2>7
<1> QED BY <1>8, <1>9, <1>10, <1>11, <1>12, <1>13, <1>14

\* The packet is out.
LEMMA SendmsgMinds ==
  ASSUME OneByOne, NEW k \in Calls, ServerSendmsg(k)
  PROVE  Minds /\ Told'
<1>1. /\ ex \in [Calls -> ServerReps] /\ Replies(ex[k]) /\ Stage(ex[k], k) /\ Told
  BY AtOwn
<1>2. PICK r \in ServerReps : r = ex[k]
  BY <1>1
<1>3. s2c \in Seq(Packets) /\ r.pc = "send" /\ sv' = sv /\ seen' = seen
  BY <1>2 DEF OneByOne, CallInv, WireTypes, ServerSendmsg
<1>4. PICK f \in BOOLEAN :
        ex' = [ex EXCEPT ![k] = [r EXCEPT !.pc = "sent"]]
        \/ (~up /\ ex' = [ex EXCEPT ![k] = [r EXCEPT !.pc = "sent", !.failed = f]])
  BY <1>2 DEF ServerSendmsg
<1>5. PICK q : ex' = [ex EXCEPT ![k] = q] /\
        (q = [r EXCEPT !.pc = "sent"] \/ (~up /\ q = [r EXCEPT !.pc = "sent", !.failed = f]))
  BY <1>4
<1>6. q.st = r.st /\ q.pc = "sent" /\ q.status = r.status
  BY <1>5 DEF ServerReps
<1>7. q.gotlast = r.gotlast /\ q.then = r.then /\ (q.failed = r.failed \/ ~up)
  BY <1>5 DEF ServerReps
<1>8. ~r.failed
  BY <1>1, <1>2, <1>3 DEF Replies
<1>9. Heeds(r, q)
  BY <1>3, <1>6, <1>7, <1>8 DEF Heeds, CanRead, Replies
<1>10. \A j \in Calls : Heeds(ex[j], ex'[j])
  BY <1>2, <1>5, <1>9, AloneHeeds
<1>11. Minds
  BY <1>3, <1>10, QuietMinds DEF SameQueue
<1>12. CASE s2c' = s2c
  BY <1>10, <1>11, <1>12, ToldOn DEF Shortens
<1>13. CASE up /\ s2c' = Append(s2c, r.sending)
  <2>1. r.sending \in Packets /\ r.sending.call = k /\ (Ends(r.sending) => r.gotlast)
    BY <1>1, <1>2, <1>3, <1>13 DEF Stage, Replies, ServerReps
  <2>2. \A i \in 1..Len(s2c') : s2c'[i] = r.sending \/ (i \in 1..Len(s2c) /\ s2c'[i] = s2c[i])
    BY <1>3, <1>13, <2>1, AppendPackets
  <2>3. \A i \in 1..Len(s2c) : s2c[i].call \in Calls
    <3>1. \A i \in 1..Len(s2c) : s2c[i].call \in 1..cl.call
      BY DEF OneByOne, CallInv, BeginsOnce
    <3>2. cl.call \in Nat /\ cl.call <= NCalls /\ NCalls \in Nat
      BY WireAssumption DEF OneByOne, CallInv, ClientTypes, ClientReps
    <3> QED BY <3>1, <3>2 DEF Calls
  <2>4. \A i \in 1..Len(s2c') : Ends(s2c'[i]) => ex'[s2c'[i].call].gotlast
    BY <1>1, <1>2, <1>10, <2>1, <2>2, <2>3 DEF Told, Heeds
  <2> QED BY <1>11, <2>4 DEF Told
<1> QED BY <1>2, <1>12, <1>13 DEF ServerSendmsg

\* Into the stub
LEMMA InvokeMinds ==
  ASSUME OneByOne, NEW k \in Calls, Invoke(k)
  PROVE  Minds /\ Told'
<1>1. sv \in Assocs /\ ex \in [Calls -> ServerReps]
  BY AtOwn
<1>2. PICK r \in ServerReps : r = ex[k]
  BY <1>1
<1>3. r.pc = "recvd" /\ seen' = seen /\ s2c' = s2c
  BY <1>2 DEF Invoke
<1>4. ASSUME \A j \in Calls : Heeds(ex[j], ex'[j]), SameQueue(sv, sv')
      PROVE  Minds /\ Told'
  BY <1>3, <1>4, QuietMinds, ToldOn DEF Shortens
<1>5. CASE r.assoc
  <2>1. PICK m : m = EnablePost(r)
    OBVIOUS
  <2>2. Nudged(r, m) /\ Kept(r, m)
    BY <2>1, CancelNudges, CancelKept
  <2>3. PICK q : q = [m EXCEPT !.pc = "mgr"]
    OBVIOUS
  <2>4. q.pc = "mgr" /\ q.status = r.status /\ q.gotlast = r.gotlast
    BY <2>2, <2>3 DEF Nudged, Kept, ServerReps
  <2>5. ex' = [ex EXCEPT ![k] = q] /\ sv' = sv
    BY <1>2, <1>5, <2>1, <2>3 DEF Invoke
  <2>6. Heeds(r, q)
    BY <1>3, <2>4 DEF Heeds, CanRead, Replies
  <2>7. \A j \in Calls : Heeds(ex[j], ex'[j])
    BY <1>2, <2>5, <2>6, AloneHeeds
  <2> QED BY <1>4, <2>5, <2>7 DEF SameQueue
<1>6. CASE ~r.assoc
  <2>1. Abort(sv, "null_assoc", k) /\ ex' = ex
    BY <1>2, <1>6 DEF Invoke
  <2>2. SameQueue(sv, sv')
    BY <1>1, <2>1 DEF Abort, SameQueue, Assocs
  <2> QED BY <1>4, <2>1, <2>2, StaysHeeding
<1> QED BY <1>5, <1>6

\* A thread that gets no fragment does not ask for another one.
LEMMA FailsUnread ==
  ASSUME NEW r \in ServerReps
  PROVE  LET q == ReceiveFails(r) IN
         /\ q \in ServerReps /\ q.gotlast = r.gotlast /\ q.status = r.status
         /\ q.pc = "caf" \/ (q.pc = "mgr" /\ q.failed)
<1>1. PICK q : q = ReceiveFails(r)
  OBVIOUS
<1>2. q \in ServerReps
  BY <1>1, ReceiveFailsEffect DEF Received
<1>3. q.gotlast = r.gotlast /\ q.status = r.status /\ (q.pc = "caf" \/ (q.pc = "mgr" /\ q.failed))
  BY <1>1 DEF ReceiveFails, ServerReps
<1> QED BY <1>1, <1>2, <1>3

\* An executor finds that the association has failed, that the queue is empty, or a
\* fragment.
Finds(s, r, q, k) ==
  /\ sv'.assoc = s.assoc /\ sv'.astat = s.astat /\ sv'.link = s.link /\ sv'.rcvr = s.rcvr
  /\ \/ /\ s.astat # "ok" /\ seen' = seen
        /\ q.gotlast = r.gotlast /\ q.status = r.status
        /\ q.pc = "caf" \/ (q.pc = "mgr" /\ q.failed)
     \/ /\ s.astat = "ok" /\ SkipDummy(s.msgs) = <<>> /\ sv'.msgs = <<>> /\ seen' = seen
        /\ q.gotlast = r.gotlast /\ q.pc = "wait"
     \/ /\ s.astat = "ok" /\ SkipDummy(s.msgs) # <<>> /\ sv'.msgs = Tail(SkipDummy(s.msgs))
        /\ q.pc \in {"mgr", "recvd"}
        /\ LET p == Head(SkipDummy(s.msgs)) IN
           seen' = [seen EXCEPT ![k] = Append(@, <<p.call, p.n>>)]

\* rpc__cn_assoc_receive_frag and the loop around it
LEMMA ReceiveFragFinds ==
  ASSUME NEW s \in Assocs, NEW e \in [Calls -> ServerReps], NEW k \in Calls, ReceiveFrag(s, e, k)
  PROVE  \E q : ex' = [e EXCEPT ![k] = q] /\ Finds(s, e[k], q, k)
<1> DEFINE m == SkipDummy(s.msgs)
<1>1. PICK r \in ServerReps : r = e[k]
  OBVIOUS
<1>2. ASSUME NEW msgs, sv' = [s EXCEPT !.msgs = msgs]
      PROVE  /\ sv'.assoc = s.assoc /\ sv'.astat = s.astat /\ sv'.link = s.link
             /\ sv'.rcvr = s.rcvr /\ sv'.msgs = msgs
  <2>1. PICK t : t = sv'
    OBVIOUS
  <2>2. /\ t.assoc = s.assoc /\ t.astat = s.astat /\ t.link = s.link
        /\ t.rcvr = s.rcvr /\ t.msgs = msgs
    BY <1>2, <2>1 DEF Assocs
  <2> QED BY <2>1, <2>2
<1> HIDE DEF m
<1>3. CASE s.astat # "ok"
  <2>1. PICK q : q = ReceiveFails(r)
    OBVIOUS
  <2>2. ex' = [e EXCEPT ![k] = q] /\ seen' = seen
    BY <1>1, <1>3, <2>1 DEF ReceiveFrag
  <2>3. PICK msgs : msgs = IF s.msgs = <<>> THEN s.msgs ELSE Tail(s.msgs)
    OBVIOUS
  <2>4. sv' = [s EXCEPT !.msgs = msgs]
    BY <1>3, <2>3 DEF ReceiveFrag, Assocs
  <2>5. q.gotlast = r.gotlast /\ q.status = r.status /\ (q.pc = "caf" \/ (q.pc = "mgr" /\ q.failed))
    BY <2>1, FailsUnread
  <2>6. Finds(s, r, q, k)
    BY <1>2, <1>3, <2>2, <2>4, <2>5 DEF Finds
  <2> QED BY <1>1, <2>2, <2>6
<1>4. CASE s.astat = "ok" /\ m = <<>>
  <2>1. PICK q : q = [r EXCEPT !.pc = "wait", !.looks = s.link, !.woken = FALSE]
    OBVIOUS
  <2>2. sv' = [s EXCEPT !.msgs = m] /\ ex' = [e EXCEPT ![k] = q] /\ seen' = seen
    BY <1>1, <1>4, <2>1 DEF ReceiveFrag, m
  <2>3. q.gotlast = r.gotlast /\ q.pc = "wait"
    BY <2>1 DEF ServerReps
  <2>4. Finds(s, r, q, k)
    BY <1>2, <1>4, <2>2, <2>3 DEF Finds, m
  <2> QED BY <1>1, <2>2, <2>4
<1>5. CASE s.astat = "ok" /\ m # <<>>
  <2>1. PICK q : q = [r EXCEPT !.pc = IF r.executed THEN "mgr" ELSE "recvd",
                               !.executed = TRUE, !.gotlast = Head(m).last]
    OBVIOUS
  <2>2. /\ sv' = [s EXCEPT !.msgs = Tail(m)] /\ ex' = [e EXCEPT ![k] = q]
        /\ seen' = [seen EXCEPT ![k] = Append(@, <<Head(m).call, Head(m).n>>)]
    BY <1>1, <1>5, <2>1 DEF ReceiveFrag, m
  <2>3. q.pc \in {"mgr", "recvd"}
    BY <2>1 DEF ServerReps
  <2>4. Finds(s, r, q, k)
    BY <1>2, <1>5, <2>2, <2>3 DEF Finds, m
  <2> QED BY <1>1, <2>2, <2>4
<1> QED BY <1>3, <1>4, <1>5 DEF m

\* A queue that has fragments of a request only has no dummy fragment.
LEMMA FollowsSkip ==
  ASSUME NEW s \in Seq(Packets), NEW k \in Calls, NEW n \in Nat, Follows(s, k, n)
  PROVE  /\ SkipDummy(s) = s
         /\ s # <<>> => Head(s).call = k /\ Head(s).n = n + 1
<1>1. CASE s = <<>>
  BY <1>1 DEF SkipDummy
<1>2. CASE s # <<>>
  <2>1. Head(s) = s[1] /\ 1 \in 1..Len(s)
    BY <1>2, TailPackets
  <2>2. s[1].type = "request" /\ s[1].call = k /\ s[1].n = n + 1
    BY <2>1 DEF Follows
  <2>3. Head(s) # Dummy
    BY <2>1, <2>2, DummyType
  <2> QED BY <2>1, <2>2, <2>3 DEF SkipDummy
<1> QED BY <1>1, <1>2

\* What the executor of the linked call finds is the next fragment of its request.
LEMMA FindsMinds ==
  ASSUME OneByOne, NEW k \in Calls, sv.link = k, CanRead(ex[k]), ~ex[k].gotlast,
         NEW m, m.gotlast = ex[k].gotlast, NEW q, Finds(sv, m, q, k),
         ex' = [ex EXCEPT ![k] = q], s2c' = s2c
  PROVE  Minds /\ Told'
<1>1. sv \in Assocs /\ ex \in [Calls -> ServerReps] /\ Queue(sv) /\ OwnTypes
  BY AtOwn
<1>2. PICK g \in Seq(Nat \X Nat), s \in Seq(Packets) : g = seen[k] /\ s = sv.msgs
  BY <1>1 DEF OwnTypes, Assocs
<1>3. sv.astat # "ok" => ~up
  BY <1>1 DEF Queue
<1>4. sv.astat = "ok" => sv.assoc = "OPEN"
  BY <1>1 DEF Queue, Assocs, Calls
<1>5. sv.astat = "ok" => Follows(s, k, Len(g))
  BY <1>2, <1>4 DEF OneByOne, OwnInv, Requests, Owned
<1>6. sv.astat = "ok" =>
        SkipDummy(s) = s /\ (s # <<>> => Head(s).call = k /\ Head(s).n = Len(g) + 1)
  <2>1. Len(g) \in Nat
    OBVIOUS
  <2> QED BY <1>5, <2>1, FollowsSkip
<1>7. Heeds(ex[k], q)
  BY <1>3 DEF Finds, Heeds, CanRead, Replies
<1>8. \A j \in Calls : Heeds(ex[j], ex'[j])
  BY <1>7, AloneHeeds
<1>9. Queue(sv')
  BY <1>1 DEF Finds, Queue, Calls
<1>10. Passes
  <2>1. CASE sv.astat # "ok"
    <3>1. ~CanRead(ex'[k]) /\ seen' = seen /\ sv'.link = k
      BY <1>1, <2>1 DEF Finds, CanRead
    <3> QED BY <3>1 DEF Passes
  <2>2. CASE sv.astat = "ok" /\ s = <<>>
    BY <1>2, <1>6, <2>2 DEF Finds, Passes
  <2>3. CASE sv.astat = "ok" /\ s # <<>>
    <3>1. /\ sv'.link = sv.link /\ sv'.msgs = Tail(s) /\ q.pc \in {"mgr", "recvd"}
          /\ seen' = [seen EXCEPT ![k] = Append(@, <<Head(s).call, Head(s).n>>)]
      BY <1>2, <1>6, <2>3 DEF Finds
    <3>2. seen' = [seen EXCEPT ![k] = Append(@, <<k, Len(@) + 1>>)]
      BY <1>2, <1>6, <2>3, <3>1
    <3>3. Draws(k)
      BY <1>1, <1>2, <1>4, <2>3, <3>1, <3>2 DEF Draws
    <3> QED BY <3>3 DEF Passes
  <2> QED BY <2>1, <2>2, <2>3
<1>11. sv'.assoc = sv.assoc
  BY DEF Finds
<1>12. Minds
  BY <1>8, <1>9, <1>10, <1>11 DEF Minds
<1> QED BY <1>8, <1>12, ToldOn DEF Shortens

\* A manager that receives has a call that goes on.
LEMMA ManagerOpenReads ==
  ASSUME OneByOne, NEW k \in Calls, InManager(k), ~ex[k].failed, ~ex[k].gotlast,
         ex[k].status # "orphaned"
  PROVE  CanRead(ex[k])
<1>1. ex[k].st # "COMPLETED"
  BY ManagerOpen DEF OneByOne
<1> QED BY <1>1 DEF InManager, CanRead

\* The executor looks for a fragment.
LEMMA ReceiveMinds ==
  ASSUME OneByOne, NEW k \in Calls,
         ExecutorReceives(k) \/ ManagerReceives(k) \/ ExecutorWakes(k) \/ ExecutorWaitCancelled(k)
  PROVE  Minds /\ Told'
<1>1. /\ sv \in Assocs /\ ex \in [Calls -> ServerReps] /\ Sound(ex[k]) /\ Replies(ex[k])
      /\ ex[k].assoc => sv.link = k
      /\ ex[k].pc = "wait" => ex[k].looks = k
  BY AtOwn
<1>2. PICK r \in ServerReps : r = ex[k]
  BY <1>1
<1>3. s2c' = s2c
  BY DEF ExecutorReceives, ManagerReceives, ExecutorWakes, ExecutorWaitCancelled, CallReceiveFor,
     wireVars
<1>4. PICK m : m = ReceiveFails(r)
  OBVIOUS
<1>5. m \in ServerReps /\ m.gotlast = r.gotlast /\ m.status = r.status
      /\ (m.pc = "caf" \/ (m.pc = "mgr" /\ m.failed))
  BY <1>4, FailsUnread
<1>6. ASSUME NEW q, ex' = [ex EXCEPT ![k] = q], sv' = sv, seen' = seen,
             q.gotlast = r.gotlast, q.status = r.status,
             (q.pc = "caf" /\ r.status = "orphaned") \/ (q.pc = "mgr" /\ q.failed)
      PROVE  Minds /\ Told'
  <2>1. Heeds(r, q)
    BY <1>6 DEF Heeds, CanRead, Replies
  <2>2. \A j \in Calls : Heeds(ex[j], ex'[j])
    BY <1>2, <1>6, <2>1, AloneHeeds
  <2> QED BY <1>3, <1>6, <2>2, QuietMinds, ToldOn DEF Shortens, SameQueue
<1>7. CASE ExecutorReceives(k) \/ ManagerReceives(k)
  <2>1. CallReceiveFor(k)
    BY <1>7 DEF ExecutorReceives, ManagerReceives
  <2>2. CASE r.status = "orphaned"
    <3>1. ex' = [ex EXCEPT ![k] = m] /\ sv' = sv /\ seen' = seen
      BY <1>2, <1>4, <2>1, <2>2 DEF CallReceiveFor
    <3> QED BY <1>5, <1>6, <2>2, <3>1
  <2>3. CASE r.status # "orphaned"
    <3>1. ReceiveFrag(sv, ex, k)
      BY <1>2, <2>1, <2>3 DEF CallReceiveFor
    <3>2. CanRead(r) /\ ~r.gotlast
      <4>1. CASE ExecutorReceives(k)
        BY <1>1, <1>2, <2>3, <4>1 DEF ExecutorReceives, CanRead, Replies
      <4>2. CASE ManagerReceives(k)
        BY <1>2, <2>3, <4>2, ManagerOpenReads DEF ManagerReceives
      <4> QED BY <1>7, <4>1, <4>2
    <3>3. sv.link = k
      BY <1>1, <1>2, <1>7, <2>3 DEF Sound, Working, ExecutorReceives, ManagerReceives, InManager
    <3>4. PICK q : ex' = [ex EXCEPT ![k] = q] /\ Finds(sv, r, q, k)
      BY <1>1, <1>2, <3>1, ReceiveFragFinds
    <3> QED BY <1>2, <1>3, <3>2, <3>3, <3>4, FindsMinds
  <2> QED BY <2>2, <2>3
<1>8. CASE ExecutorWakes(k) /\ r.looks # sv.link
  <2>1. PICK q : q = [m EXCEPT !.woken = FALSE]
    OBVIOUS
  <2>2. /\ q.gotlast = m.gotlast /\ q.pc = m.pc /\ q.status = m.status /\ q.failed = m.failed
    BY <1>5, <2>1 DEF ServerReps
  <2>3. ex' = [ex EXCEPT ![k] = q] /\ sv' = sv /\ seen' = seen /\ r.pc = "wait"
    BY <1>2, <1>4, <1>8, <2>1 DEF ExecutorWakes
  <2>4. r.status = "orphaned"
    BY <1>1, <1>2, <1>8, <2>3 DEF Sound, Working
  <2> QED BY <1>5, <1>6, <2>2, <2>3, <2>4
<1>9. CASE ExecutorWakes(k) /\ r.looks = sv.link
  <2>1. PICK s : s = [r EXCEPT !.woken = FALSE]
    OBVIOUS
  <2>2. s \in ServerReps
    BY <2>1, ZenonT(60) DEF ServerReps
  <2>3. s.gotlast = r.gotlast
    BY <2>1 DEF ServerReps
  <2>4. PICK e : e = [ex EXCEPT ![k] = s]
    OBVIOUS
  <2>5. ReceiveFrag(sv, e, k) /\ r.pc = "wait"
    BY <1>2, <1>9, <2>1, <2>4 DEF ExecutorWakes
  <2>6. e \in [Calls -> ServerReps] /\ e[k] = s
    BY <1>1, <2>2, <2>4
  <2>7. PICK q : ex' = [e EXCEPT ![k] = q] /\ Finds(sv, s, q, k)
    BY <1>1, <2>5, <2>6, ReceiveFragFinds
  <2>8. ex' = [ex EXCEPT ![k] = q]
    BY <1>1, <2>4, <2>7
  <2>9. sv.link = k /\ CanRead(r) /\ ~r.gotlast
    BY <1>1, <1>2, <1>9, <2>5 DEF CanRead, Replies
  <2> QED BY <1>2, <1>3, <2>3, <2>7, <2>8, <2>9, FindsMinds
<1>10. CASE ExecutorWaitCancelled(k)
  <2>1. PICK q : q = [m EXCEPT !.woken = FALSE, !.cancelled = FALSE, !.acted = TRUE]
    OBVIOUS
  <2>2. q.gotlast = m.gotlast /\ q.pc = m.pc /\ q.status = m.status /\ q.failed = m.failed
    BY <1>5, <2>1 DEF ServerReps
  <2>3. ex' = [ex EXCEPT ![k] = q] /\ sv' = sv /\ seen' = seen /\ r.executed
    BY <1>2, <1>4, <1>10, <2>1 DEF ExecutorWaitCancelled
  <2>4. m.pc = "mgr"
    BY <1>4, <2>3 DEF ReceiveFails, ServerReps
  <2>5. m.failed
    BY <1>5, <2>4
  <2> QED BY <1>5, <1>6, <2>2, <2>3, <2>4, <2>5
<1> QED BY <1>2, <1>7, <1>8, <1>9, <1>10

\* A fault event ends the process or completes the call, which answers nothing.
Refuses(s, e, k, event, then) ==
  /\ SameQueue(s, sv')
  /\ \/ ~ServerLegal(e[k].st, event) /\ ex' = e
     \/ \E q : /\ ex' = [e EXCEPT ![k] = q] /\ q.st = "COMPLETED" /\ q.gotlast = e[k].gotlast
               /\ q.pc = then \/ (q.pc = "send" /\ ~q.failed /\ q.sending.type = "fault")

\* And leaves the association alone.
LEMMA FaultRefuses ==
  ASSUME NEW s \in Assocs, NEW e \in [Calls -> ServerReps],
         NEW k \in Calls, NEW event \in {"fault", "fault_dne"}, NEW then \in {"mgr", "ending"},
         FaultEvent(s, e, k, event, then)
  PROVE  Refuses(s, e, k, event, then)
<1>1. CASE ~ServerLegal(e[k].st, event)
  <2>1. Abort(s, event, k) /\ ex' = e
    BY <1>1 DEF FaultEvent
  <2>2. SameQueue(s, sv')
    BY <2>1 DEF Abort, SameQueue, Assocs
  <2> QED BY <1>1, <2>1, <2>2 DEF Refuses
<1>2. CASE ServerLegal(e[k].st, event)
  <2>1. PICK r \in ServerReps : r = e[k]
    OBVIOUS
  <2>2. PICK status :
          status = IF s.astat # "ok" /\ r.st = "RESPONSE" /\ ~Maybe(k) THEN "orphaned" ELSE r.status
    OBVIOUS
  <2>3. PICK c : c = [r EXCEPT !.st = "COMPLETED", !.status = status]
    OBVIOUS
  <2>4. PICK f : f = [e EXCEPT ![k].st = "COMPLETED", ![k].status = status]
    OBVIOUS
  <2>5. f = [e EXCEPT ![k] = c]
    BY <2>1, <2>3, <2>4
  <2>6. IF Maybe(k) \/ s.astat # "ok" THEN sv' = s /\ ex' = [f EXCEPT ![k].pc = then]
        ELSE SendFrag(s, f, k, LastFault(k), then)
    BY <1>2, <2>1, <2>2, <2>4 DEF FaultEvent
  <2>7. CASE Maybe(k) \/ s.astat # "ok"
    <3>1. PICK q : q = [c EXCEPT !.pc = then]
      OBVIOUS
    <3>2. ex' = [e EXCEPT ![k] = q] /\ sv' = s
      BY <2>5, <2>6, <2>7, <3>1
    <3>3. q.st = "COMPLETED" /\ q.pc = then /\ q.gotlast = r.gotlast
      BY <2>3, <3>1 DEF ServerReps
    <3> QED BY <2>1, <3>2, <3>3 DEF Refuses, SameQueue
  <2>8. CASE ~Maybe(k) /\ s.astat = "ok"
    <3>0. LastFault(k).type = "fault"
      BY DEF LastFault, Fault, Packet
    <3>1. PICK p : p = LastFault(k) /\ p.type = "fault"
      BY <3>0
    <3>2. PICK q : q = [c EXCEPT !.pc = "send", !.sending = p, !.then = then, !.failed = FALSE]
      OBVIOUS
    <3>3. ex' = [e EXCEPT ![k] = q] /\ sv' = [s EXCEPT !.sendmsg = TRUE]
      BY <2>5, <2>6, <2>8, <3>1, <3>2 DEF SendFrag
    <3>4. q.st = "COMPLETED" /\ q.pc = "send" /\ ~q.failed
      BY <2>3, <3>2 DEF ServerReps
    <3>5. q.gotlast = r.gotlast /\ q.sending = p
      BY <2>3, <3>2 DEF ServerReps
    <3>6. SameQueue(s, sv')
      BY <3>3 DEF SameQueue, Assocs
    <3> QED BY <2>1, <3>1, <3>3, <3>4, <3>5, <3>6 DEF Refuses
  <2> QED BY <2>7, <2>8
<1> QED BY <1>1, <1>2

\* The steps in which a fault may go out
LEMMA FaultsMind ==
  ASSUME OneByOne, NEW k \in Calls, ManagerFaults(k) \/ ExecutorRejects(k)
  PROVE  Minds /\ Told'
<1>1. sv \in Assocs /\ ex \in [Calls -> ServerReps]
  BY AtOwn
<1>2. PICK r \in ServerReps : r = ex[k]
  BY <1>1
<1>3. seen' = seen /\ s2c' = s2c
  BY DEF ManagerFaults, ExecutorRejects, CallReject, FaultEvent
<1>4. ASSUME NEW q, ex' = [ex EXCEPT ![k] = q], Heeds(r, q), SameQueue(sv, sv')
      PROVE  Minds /\ Told'
  <2>1. \A j \in Calls : Heeds(ex[j], ex'[j])
    BY <1>2, <1>4, AloneHeeds
  <2> QED BY <1>3, <1>4, <2>1, QuietMinds, ToldOn DEF Shortens
<1>5. ASSUME NEW q, q.st = "COMPLETED", q.gotlast = r.gotlast,
             q.pc \in {"mgr", "ending"} \/ (q.pc = "send" /\ ~q.failed /\ q.sending.type = "fault")
      PROVE  Heeds(r, q)
  BY <1>5 DEF Heeds, CanRead, Replies, Ends
<1>6. CASE ManagerFaults(k)
  <2>1. FaultEvent(sv, ex, k, "fault", "mgr")
    BY <1>6 DEF ManagerFaults
  <2>2. Refuses(sv, ex, k, "fault", "mgr")
    BY <1>1, <2>1, FaultRefuses
  <2>3. CASE ex' = ex
    BY <1>3, <2>2, <2>3, StaysHeeding, QuietMinds, ToldOn DEF Refuses, Shortens
  <2>4. CASE ex' # ex
    <3>1. PICK q : /\ ex' = [ex EXCEPT ![k] = q] /\ q.st = "COMPLETED" /\ q.gotlast = r.gotlast
                   /\ q.pc = "mgr" \/ (q.pc = "send" /\ ~q.failed /\ q.sending.type = "fault")
      BY <1>2, <2>2, <2>4 DEF Refuses
    <3> QED BY <1>4, <1>5, <2>2, <3>1 DEF Refuses
  <2> QED BY <2>3, <2>4
<1>7. CASE ExecutorRejects(k)
  <2>1. PICK c : c = [r EXCEPT !.status = "rejected"]
    OBVIOUS
  <2>2. c \in ServerReps /\ c.pc = r.pc /\ c.gotlast = r.gotlast
    BY <2>1 DEF ServerReps
  <2>3. PICK e : e = [ex EXCEPT ![k] = c]
    OBVIOUS
  <2>4. e \in [Calls -> ServerReps] /\ e[k] = c
    BY <1>1, <2>2, <2>3
  <2>5. [ex EXCEPT ![k].status = "rejected"] = e
    BY <1>2, <2>1, <2>3
  <2>6. FaultEvent(sv, e, k, "fault_dne", "ending") /\ r.pc = "rejecting"
    BY <1>2, <1>7, <2>5 DEF ExecutorRejects, CallReject
  <2>7. Refuses(sv, e, k, "fault_dne", "ending")
    BY <1>1, <2>4, <2>6, FaultRefuses
  <2>8. CASE ex' = e
    <3>1. Heeds(r, c)
      BY <2>2, <2>6 DEF Heeds, CanRead, Replies
    <3> QED BY <1>4, <2>3, <2>7, <2>8, <3>1 DEF Refuses
  <2>9. CASE ex' # e
    <3>1. PICK q : /\ ex' = [e EXCEPT ![k] = q] /\ q.st = "COMPLETED" /\ q.gotlast = c.gotlast
                   /\ q.pc = "ending" \/ (q.pc = "send" /\ ~q.failed /\ q.sending.type = "fault")
      BY <2>4, <2>7, <2>9 DEF Refuses
    <3>2. ex' = [ex EXCEPT ![k] = q]
      BY <1>1, <2>3, <3>1
    <3> QED BY <1>4, <1>5, <2>2, <2>7, <3>1, <3>2 DEF Refuses
  <2> QED BY <2>8, <2>9
<1> QED BY <1>6, <1>7

\* rpc_call_transmit
LEMMA SendsMind ==
  ASSUME OneByOne, NEW k \in Calls, ManagerSends(k)
  PROVE  Minds /\ Told'
<1>1. sv \in Assocs /\ ex \in [Calls -> ServerReps]
  BY AtOwn
<1>2. PICK r \in ServerReps : r = ex[k]
  BY <1>1
<1>3. r.pc = "mgr" /\ r.gotlast /\ seen' = seen /\ s2c' = s2c
  BY <1>2 DEF ManagerSends, InManager
<1>4. ASSUME NEW q, ex' = [ex EXCEPT ![k] = q], q.gotlast = r.gotlast,
             q.pc = "mgr" \/ (q.pc = "send" /\ ~q.failed), SameQueue(sv, sv')
      PROVE  Minds /\ Told'
  <2>1. Heeds(r, q)
    BY <1>3, <1>4 DEF Heeds, CanRead, Replies
  <2>2. \A j \in Calls : Heeds(ex[j], ex'[j])
    BY <1>2, <1>4, <2>1, AloneHeeds
  <2> QED BY <1>3, <1>4, <2>2, QuietMinds, ToldOn DEF Shortens
<1>5. CASE ~ServerLegal(r.st, "send")
  <2>1. Abort(sv, "send", k) /\ ex' = ex
    BY <1>2, <1>5 DEF ManagerSends
  <2>2. SameQueue(sv, sv')
    BY <1>1, <2>1 DEF Abort, SameQueue, Assocs
  <2> QED BY <1>3, <2>1, <2>2, StaysHeeding, QuietMinds, ToldOn DEF Shortens
<1>6. CASE ServerLegal(r.st, "send") /\ sv.astat # "ok"
  <2>1. PICK q : q = [r EXCEPT !.status = "orphaned"]
    OBVIOUS
  <2>2. q.pc = r.pc /\ q.gotlast = r.gotlast
    BY <2>1 DEF ServerReps
  <2>3. ex' = [ex EXCEPT ![k] = q] /\ sv' = sv
    BY <1>2, <1>6, <2>1 DEF ManagerSends
  <2> QED BY <1>3, <1>4, <2>2, <2>3 DEF SameQueue
<1>7. CASE ServerLegal(r.st, "send") /\ sv.astat = "ok"
  <2>1. PICK n \in Nat : n = r.nsent + 1
    BY DEF ServerReps
  <2>2. PICK m : m = [r EXCEPT !.nsent = n]
    OBVIOUS
  <2>3. m \in ServerReps /\ m.pc = r.pc /\ m.gotlast = r.gotlast
    BY <2>2 DEF ServerReps
  <2>4. PICK p : p = Response(k, n, FALSE, FALSE, 0)
    OBVIOUS
  <2>5. PICK e : e = [ex EXCEPT ![k] = m]
    OBVIOUS
  <2>6. [ex EXCEPT ![k].nsent = ex[k].nsent + 1] = e
    BY <1>1, <1>2, <2>1, <2>2, <2>5
  <2>7. IF Maybe(k) THEN ex' = e /\ sv' = sv ELSE SendFrag(sv, e, k, p, "mgr")
    BY <1>2, <1>7, <2>1, <2>4, <2>6 DEF ManagerSends
  <2>8. CASE Maybe(k)
    BY <1>3, <1>4, <2>3, <2>5, <2>7, <2>8 DEF SameQueue
  <2>9. CASE ~Maybe(k)
    <3>1. PICK q : q = [m EXCEPT !.pc = "send", !.sending = p, !.then = "mgr", !.failed = FALSE]
      OBVIOUS
    <3>2. ex' = [ex EXCEPT ![k] = q] /\ sv' = [sv EXCEPT !.sendmsg = TRUE]
      BY <1>1, <2>5, <2>7, <2>9, <3>1 DEF SendFrag
    <3>3. q.pc = "send" /\ q.gotlast = r.gotlast /\ ~q.failed
      BY <2>3, <3>1 DEF ServerReps
    <3>4. SameQueue(sv, sv')
      BY <1>1, <3>2 DEF SameQueue, Assocs
    <3> QED BY <1>4, <3>2, <3>3, <3>4
  <2> QED BY <2>8, <2>9
<1> QED BY <1>5, <1>6, <1>7

\* The call gives the association back: nobody reads from it.
LEMMA EndCallMinds ==
  ASSUME OneByOne, NEW s \in Assocs, SameQueue(sv, s), NEW k \in Calls, NEW m \in ServerReps,
         m.assoc = ex[k].assoc, m.gotlast = ex[k].gotlast, EndCall(s, [ex EXCEPT ![k] = m], k),
         seen' = seen, s2c' = s2c
  PROVE  Minds /\ Told'
<1>1. /\ sv \in Assocs /\ ex \in [Calls -> ServerReps] /\ Queue(sv)
      /\ ex[k].assoc => sv.link = k
  BY AtOwn
<1>2. PICK n : n = NoRep
  OBVIOUS
<1>3. n \in ServerReps
  BY <1>2, NoRepType
<1>4. PICK e : e = [ex EXCEPT ![k] = m]
  OBVIOUS
<1>5. PICK q : q = [n EXCEPT !.pc = "freed", !.gotlast = e[k].gotlast, !.acted = e[k].acted,
                             !.late = e[k].late, !.unsaid = e[k].unsaid]
  OBVIOUS
<1>6. ex' = [ex EXCEPT ![k] = q] /\ e[k] = m
  BY <1>1, <1>2, <1>4, <1>5 DEF EndCall
<1>7. q.pc = "freed" /\ q.gotlast = m.gotlast
  BY <1>3, <1>5, <1>6 DEF ServerReps
<1>8. Heeds(ex[k], q)
  BY <1>7 DEF Heeds, CanRead, Replies
<1>9. \A j \in Calls : Heeds(ex[j], ex'[j])
  BY <1>6, <1>8, AloneHeeds
<1>10. PICK rcvr : rcvr = IF ~m.mine THEN s.rcvr ELSE IF s.assoc = "CLOSED" THEN "done" ELSE "recv"
  OBVIOUS
<1>11. rcvr = "recv" => s.rcvr = "recv" \/ s.assoc = "OPEN"
  BY <1>10 DEF Assocs
<1>12. CASE m.assoc
  <2>1. PICK f : f = [s EXCEPT !.link = 0, !.astat = "ok", !.ref = s.ref - 1, !.msgs = <<>>]
    OBVIOUS
  <2>2. s.link = k
    BY <1>1, <1>12 DEF SameQueue
  <2>3. f = FreeRep(s, k)
    BY <2>1, <2>2 DEF FreeRep, Assocs
  <2>4. /\ f.link = 0 /\ f.msgs = <<>> /\ f.astat = "ok" /\ f.assoc = s.assoc
        /\ f.rcvr = s.rcvr /\ f \in Assocs
    <3>1. f.link = 0 /\ f.msgs = <<>> /\ f.astat = "ok"
      BY <2>1 DEF Assocs
    <3>2. f.assoc = s.assoc /\ f.rcvr = s.rcvr
      BY <2>1 DEF Assocs
    <3> QED BY <2>3, <3>1, <3>2, FreeRepEffect
  <2>5. sv' = [f EXCEPT !.rcvr = rcvr]
    BY <1>4, <1>6, <1>10, <1>12, <2>3, <2>4 DEF EndCall
  <2>6. PICK t : t = sv'
    OBVIOUS
  <2>7. t.link = 0 /\ t.msgs = <<>> /\ t.astat = "ok" /\ t.assoc = s.assoc /\ t.rcvr = rcvr
    BY <2>4, <2>5, <2>6 DEF Assocs
  <2>8. s.assoc = sv.assoc /\ k # 0 /\ \A j \in Calls : j # 0
    BY WireAssumption DEF SameQueue, Calls
  <2>9. Passes
    BY <2>6, <2>7, <2>8 DEF Passes
  <2>10. Queue(sv')
    BY <1>1, <1>11, <2>6, <2>7, <2>8 DEF Queue, SameQueue
  <2>11. Minds
    BY <1>9, <2>6, <2>7, <2>8, <2>9, <2>10 DEF Minds
  <2> QED BY <1>9, <2>11, ToldOn DEF Shortens
<1>13. CASE ~m.assoc
  <2>1. sv' = [s EXCEPT !.rcvr = rcvr]
    BY <1>4, <1>6, <1>10, <1>13 DEF EndCall
  <2>2. PICK t : t = sv'
    OBVIOUS
  <2>3. t.link = s.link /\ t.msgs = s.msgs /\ t.astat = s.astat /\ t.assoc = s.assoc /\ t.rcvr = rcvr
    BY <2>1, <2>2 DEF Assocs
  <2>4. SameQueue(sv, sv')
    BY <1>11, <2>2, <2>3 DEF SameQueue
  <2> QED BY <1>9, <2>4, QuietMinds, ToldOn DEF Shortens
<1> QED BY <1>12, <1>13

\* The call ends, at once or after the last of the response.
LEMMA EndMinds ==
  ASSUME OneByOne, NEW k \in Calls, ServerCallEnd(k) \/ (ServerSent(k) /\ ex[k].then = "freed")
  PROVE  Minds /\ Told'
<1>1. sv \in Assocs /\ ex \in [Calls -> ServerReps] /\ Replies(ex[k])
  BY AtOwn
<1>2. PICK r \in ServerReps : r = ex[k]
  BY <1>1
<1>3. seen' = seen /\ s2c' = s2c
  BY DEF ServerCallEnd, ServerSent, wireVars
<1>4. CASE ServerCallEnd(k)
  <2>1. PICK st \in {"NO_NSTATE", "COMPLETED"} :
          st = IF r.st = "REQUEST" THEN "NO_NSTATE" ELSE "COMPLETED"
    OBVIOUS
  <2>2. PICK m : m = [r EXCEPT !.st = st]
    OBVIOUS
  <2>3. m \in ServerReps /\ m.assoc = r.assoc /\ m.gotlast = r.gotlast
    <3>1. st \in ServerCallStates
      BY ServerStates
    <3> QED BY <2>2, <3>1 DEF ServerReps
  <2>4. PICK e : e = [ex EXCEPT ![k] = m]
    OBVIOUS
  <2>5. [ex EXCEPT ![k].st = IF @ = "REQUEST" THEN "NO_NSTATE" ELSE "COMPLETED"] = e
    BY <1>1, <1>2, <2>1, <2>2, <2>4
  <2>6. CASE r.st = "RESPONSE" /\ ~Maybe(k) /\ r.status # "orphaned"
    <3>1. PICK p : p = LastResponse(k)
      OBVIOUS
    <3>2. SendFrag(sv, e, k, p, "freed") /\ r.pc = "ending"
      BY <1>2, <1>4, <2>5, <2>6, <3>1 DEF ServerCallEnd
    <3>3. PICK q : q = [m EXCEPT !.pc = "send", !.sending = p, !.then = "freed", !.failed = FALSE]
      OBVIOUS
    <3>4. ex' = [ex EXCEPT ![k] = q] /\ sv' = [sv EXCEPT !.sendmsg = TRUE]
      BY <1>1, <2>4, <3>2, <3>3 DEF SendFrag
    <3>5. q.pc = "send" /\ q.then = "freed" /\ ~q.failed
      BY <2>3, <3>3 DEF ServerReps
    <3>6. q.gotlast = r.gotlast
      BY <2>3, <3>3 DEF ServerReps
    <3>7. up => r.gotlast
      BY <1>1, <1>2, <2>6, <3>2 DEF Replies
    <3>8. Heeds(r, q)
      BY <3>5, <3>6, <3>7 DEF Heeds, CanRead, Replies
    <3>9. \A j \in Calls : Heeds(ex[j], ex'[j])
      BY <1>2, <3>4, <3>8, AloneHeeds
    <3>10. SameQueue(sv, sv')
      BY <1>1, <3>4 DEF SameQueue, Assocs
    <3> QED BY <1>3, <3>9, <3>10, QuietMinds, ToldOn DEF Shortens
  <2>7. CASE ~(r.st = "RESPONSE" /\ ~Maybe(k) /\ r.status # "orphaned")
    <3>1. EndCall(sv, [ex EXCEPT ![k] = m], k)
      BY <1>2, <1>4, <2>4, <2>5, <2>7 DEF ServerCallEnd
    <3>2. SameQueue(sv, sv)
      BY DEF SameQueue
    <3> QED BY <1>1, <1>2, <1>3, <2>3, <3>1, <3>2, EndCallMinds
  <2> QED BY <2>6, <2>7
<1>5. CASE ServerSent(k) /\ ex[k].then = "freed"
  <2>1. PICK a \in {"ok", "closed"} : a = IF r.failed THEN "closed" ELSE sv.astat
    BY <1>1 DEF Assocs
  <2>2. PICK s : s = [sv EXCEPT !.sendmsg = FALSE, !.astat = a]
    OBVIOUS
  <2>3. r.failed => ~up
    BY <1>1, <1>2, <1>5 DEF Replies, ServerSent
  <2>4. s \in Assocs /\ SameQueue(sv, s)
    BY <1>1, <2>1, <2>2, <2>3 DEF Assocs, SameQueue
  <2>5. EndCall(s, ex, k)
    BY <1>1, <1>2, <1>5, <2>1, <2>2 DEF ServerSent
  <2>6. ex = [ex EXCEPT ![k] = r]
    BY <1>1, <1>2
  <2>7. EndCall(s, [ex EXCEPT ![k] = r], k)
    BY <2>5, <2>6
  <2> QED BY <1>2, <1>3, <2>4, <2>7, EndCallMinds
<1> QED BY <1>4, <1>5

\* A fragment that is read is one of a call, and the connection does not come up.
LEMMA ExecutorTypes ==
  ASSUME CallInv, OwnTypes, NEW k \in Calls, ExecutorStep(k)
  PROVE  OwnTypes' /\ (up' => up)
<1>1. sv \in Assocs /\ ex \in [Calls -> ServerReps]
  BY AtStep, SMTT(30)
<1>2. up' => up
  BY DEF ExecutorStep, ExecutorStarts, ExecutorReceives, ExecutorWakes, ExecutorWaitCancelled,
     Invoke, ManagerReceives, CallReceiveFor, ManagerSends, ManagerFaults, ManagerTakesCancel,
     ExecutorRefuses, ExecutorRejects, CallReject, FaultEvent, Abort, ManagerReturns,
     ServerCallEnd, ServerSendmsg, ServerSent, ServerSendmsgCancelled, wireVars
<1>3. ASSUME NEW e \in [Calls -> ServerReps], ReceiveFrag(sv, e, k)
      PROVE  OwnTypes'
  <2>1. PICK m \in Seq(Packets) : m = SkipDummy(sv.msgs)
    BY <1>1, SkipDummyLast DEF Assocs
  <2>2. \/ seen' = seen
        \/ m # <<>> /\ seen' = [seen EXCEPT ![k] = Append(@, <<Head(m).call, Head(m).n>>)]
    BY <1>3, <2>1 DEF ReceiveFrag
  <2>3. ASSUME m # <<>>
        PROVE  <<Head(m).call, Head(m).n>> \in Nat \X Nat
    <3>1. Head(m) \in Packets
      BY <2>3
    <3> QED BY <3>1 DEF Packets
  <2>4. PICK g : g = <<Head(m).call, Head(m).n>>
    OBVIOUS
  <2>5. seen' = seen \/ (g \in Nat \X Nat /\ seen' = [seen EXCEPT ![k] = Append(@, g)])
    BY <2>2, <2>3, <2>4
  <2>6. PICK s \in Seq(Nat \X Nat) : s = seen[k]
    BY DEF OwnTypes
  <2>7. g \in Nat \X Nat => Append(s, g) \in Seq(Nat \X Nat)
    OBVIOUS
  <2>8. seen' = seen \/ (g \in Nat \X Nat /\ seen' = [seen EXCEPT ![k] = Append(s, g)])
    BY <2>5, <2>6
  <2> QED BY <2>7, <2>8 DEF OwnTypes
<1>4. seen' = seen => OwnTypes'
  BY DEF OwnTypes
<1>5. CASE ExecutorReceives(k) \/ ManagerReceives(k) \/ ExecutorWakes(k) \/ ExecutorWaitCancelled(k)
  <2>1. PICK r \in ServerReps : r = ex[k]
    BY <1>1
  <2>2. [ex EXCEPT ![k].woken = FALSE] \in [Calls -> ServerReps]
    <3>1. PICK q : q = [r EXCEPT !.woken = FALSE]
      OBVIOUS
    <3>2. q \in ServerReps
      BY <3>1, ZenonT(60) DEF ServerReps
    <3> QED BY <1>1, <2>1, <3>1, <3>2
  <2> QED BY <1>1, <1>2, <1>3, <1>4, <1>5, <2>2
      DEF ExecutorReceives, ManagerReceives, ExecutorWakes, ExecutorWaitCancelled, CallReceiveFor
<1>6. CASE ~(\/ ExecutorReceives(k) \/ ManagerReceives(k) \/ ExecutorWakes(k)
             \/ ExecutorWaitCancelled(k))
  <2>1. \/ ExecutorStarts(k) \/ Invoke(k) \/ ManagerSends(k) \/ ManagerFaults(k) \/ ManagerTakesCancel(k)
        => seen' = seen
    BY DEF ExecutorStarts, Invoke, ManagerSends, ManagerFaults, ManagerTakesCancel, FaultEvent
  <2>2. \/ ExecutorRefuses(k) \/ ExecutorRejects(k) \/ ManagerReturns(k) \/ ServerCallEnd(k)
        => seen' = seen
    BY DEF ExecutorRefuses, ExecutorRejects, CallReject, FaultEvent, ManagerReturns, ServerCallEnd
  <2>3. ServerSendmsg(k) \/ ServerSent(k) \/ ServerSendmsgCancelled(k) => seen' = seen
    BY DEF ServerSendmsg, ServerSent, ServerSendmsgCancelled
  <2> QED BY <1>2, <1>4, <1>6, <2>1, <2>2, <2>3 DEF ExecutorStep
<1> QED BY <1>2, <1>5, <1>6

\* The packet that goes out was said.
LEMMA SendmsgSpeaks ==
  ASSUME CallInv, NEW k \in Calls, ServerSendmsg(k)
  PROVE  \A j \in Calls : Speaks(ex[j], ex'[j], j)
<1>1. ex \in [Calls -> ServerReps]
  BY AtStep
<1>2. PICK r \in ServerReps : r = ex[k]
  BY <1>1
<1>3. r.pc = "send"
  BY <1>2 DEF ServerSendmsg
<1>4. PICK f \in BOOLEAN :
        \/ ex' = [ex EXCEPT ![k] = [r EXCEPT !.pc = "sent"]]
        \/ ex' = [ex EXCEPT ![k] = [r EXCEPT !.pc = "sent", !.failed = f]]
  BY <1>2 DEF ServerSendmsg
<1>5. PICK q : ex' = [ex EXCEPT ![k] = q] /\
        (q = [r EXCEPT !.pc = "sent"] \/ q = [r EXCEPT !.pc = "sent", !.failed = f])
  BY <1>4
<1>6. q.st = r.st /\ q.pc = "sent"
  BY <1>5 DEF ServerReps
<1>7. Speaks(r, q, k)
  BY <1>3, <1>6, QuietSpeaks
<1> QED BY <1>1, <1>2, <1>5, <1>7, AloneSpeaks

\* A step of the thread of a call
LEMMA ExecutorKeepsOwn ==
  ASSUME CallInv, BlameInv, OwnInv, UNCHANGED clientVars, NEW k \in Calls, ExecutorStep(k)
  PROVE  OwnInv'
<1>1. OwnTypes' /\ (up' => up)
  BY ExecutorTypes DEF OwnInv
<1>2. Behaves
  BY ExecutorBehaves
<1>3. \A j \in Calls : Speaks(ex[j], ex'[j], j)
  BY ReceiverSpeaks, TurnSpeaks, FaultsSpeak, EndSpeaks, ResponseSpeaks, SendmsgSpeaks
  DEF ExecutorStep
<1>4. Consumes
  <2>1. c2s' = c2s
    BY ExecutorWire DEF ServerSendmsg
  <2> QED BY <2>1 DEF Consumes
<1>5. ASSUME ~sv.overlap
      PROVE  Minds /\ Told'
  <2>1. OneByOne
    BY <1>5 DEF OneByOne
  <2> QED BY <2>1, TurnMinds, SendmsgMinds, InvokeMinds, ReceiveMinds, FaultsMind, SendsMind, EndMinds
      DEF ExecutorStep
<1> QED BY <1>1, <1>2, <1>3, <1>4, <1>5, MindsKeepOwn

-----------------------------------------------------------------------------
(* The steps of the server's receiver *)

\* The head of the queue to the server
LEMMA HeadOwn ==
  ASSUME CallInv, c2s # <<>>
  PROVE  /\ c2s \in Seq(Packets) /\ Head(c2s) \in Packets /\ Head(c2s).call \in Calls
         /\ Head(c2s).call # 0 /\ Head(c2s).call \in Nat
         /\ Begins(Head(c2s)) => ex[Head(c2s).call].pc = "none"
<1>1. c2s \in Seq(Packets)
  BY DEF CallInv, WireTypes
<1>2. Head(c2s) \in Packets /\ Head(c2s) = c2s[1] /\ 1 \in 1..Len(c2s)
  BY <1>1, TailPackets
<1>3. c2s[1].call \in 1..cl.call /\ cl.call <= NCalls /\ cl.call \in Nat
  BY <1>2 DEF CallInv, BeginsOnce, ClientTypes, ClientReps
<1>4. c2s[1].call \in Calls /\ c2s[1].call # 0 /\ c2s[1].call \in Nat
  BY <1>3, WireAssumption, SMTT(30) DEF Calls
<1>5. Begins(c2s[1]) => ex[c2s[1].call].pc = "none"
  BY <1>2 DEF CallInv, BeginsOnce
<1> QED BY <1>1, <1>2, <1>4, <1>5

\* An orphan reads nothing more.
LEMMA OrphanMinds ==
  ASSUME OneByOne, Running, NEW p, NEW k \in Calls, p.call = k, sv.link = k,
         NEW s \in Assocs, ReadsOn(s), StopOrphan(s, p), seen' = seen, s2c' = s2c, up' = up
  PROVE  Minds /\ Told'
<1>1. /\ sv \in Assocs /\ ex \in [Calls -> ServerReps] /\ Queue(sv) /\ Replies(ex[k])
  BY AtOwn
<1>0. /\ s.assoc = sv.assoc /\ s.link = sv.link /\ s.msgs = sv.msgs
      /\ s.rcvr = sv.rcvr /\ s.astat = sv.astat
  BY <1>1, ReadsOnEffect
<1>2. PICK r \in ServerReps : r = ex[k]
  BY <1>1
<1>3. PICK o : o = [r EXCEPT !.status = "orphaned"]
  OBVIOUS
<1>4. o \in ServerReps
  BY <1>3 DEF ServerReps
<1>5. o.pc = r.pc /\ o.st = r.st /\ o.status = "orphaned" /\ o.gotlast = r.gotlast
  BY <1>3 DEF ServerReps
<1>6. o.failed = r.failed /\ o.then = r.then /\ o.sending = r.sending
  BY <1>3 DEF ServerReps
<1>7. PICK e : e = [ex EXCEPT ![k].status = "orphaned"]
  OBVIOUS
<1>8. e = [ex EXCEPT ![k] = o] /\ e[k] = o
  BY <1>1, <1>2, <1>3, <1>7
<1>9. CASE r.pc = "queued"
  <2>1. PICK q : q = [o EXCEPT !.pc = "ending", !.mine = TRUE]
    OBVIOUS
  <2>2. ex' = [ex EXCEPT ![k] = q] /\ sv' = [s EXCEPT !.rcvr = "busy"]
    <3>1. /\ ex' = [e EXCEPT ![k].pc = "ending", ![k].mine = TRUE]
          /\ sv' = [s EXCEPT !.rcvr = "busy"]
      BY <1>2, <1>7, <1>9 DEF StopOrphan
    <3>2. [e EXCEPT ![k].pc = "ending", ![k].mine = TRUE] = [e EXCEPT ![k] = q]
      BY <1>1, <1>8, <2>1
    <3> QED BY <1>1, <1>8, <3>1, <3>2
  <2>3. q.pc = "ending" /\ q.gotlast = r.gotlast /\ q.status = "orphaned"
    BY <1>4, <1>5, <2>1 DEF ServerReps
  <2>4. Heeds(r, q)
    BY <2>3 DEF Heeds, CanRead, Replies
  <2>5. \A j \in Calls : Heeds(ex[j], ex'[j])
    BY <1>2, <2>2, <2>4, AloneHeeds
  <2>6. SameQueue(sv, sv')
    BY <1>0, <2>2 DEF SameQueue, Assocs
  <2> QED BY <2>5, <2>6, QuietMinds, ToldOn DEF Shortens
<1>10. CASE r.pc # "queued"
  <2>1. PICK m : m = Cancel(o)
    OBVIOUS
  <2>2. m \in ServerReps /\ Nudged(o, m) /\ Kept(o, m)
    BY <1>4, <2>1, CancelNudges, CancelKept DEF Nudged
  <2>3. PICK q : q = [m EXCEPT !.st = "COMPLETED", !.assoc = FALSE]
    OBVIOUS
  <2>4. q \in ServerReps
    <3>1. "COMPLETED" \in ServerCallStates
      BY ServerStates
    <3> QED BY <2>2, <2>3, <3>1, ZenonT(60) DEF ServerReps
  <2>5. q.pc = m.pc /\ q.st = "COMPLETED" /\ q.status = m.status /\ q.gotlast = m.gotlast
    BY <2>2, <2>3 DEF ServerReps
  <2>6. q.failed = m.failed /\ q.then = m.then /\ q.sending = m.sending
    BY <2>2, <2>3 DEF ServerReps
  <2>7. q.pc = r.pc /\ q.status = "orphaned" /\ q.gotlast = r.gotlast
    <3>1. m.pc = o.pc /\ m.status = o.status /\ m.gotlast = o.gotlast
      BY <2>2 DEF Nudged, Kept
    <3> QED BY <1>5, <2>5, <3>1
  <2>8. q.failed = r.failed /\ (q.pc = "send" => q.sending = r.sending)
    BY <1>6, <2>2, <2>6 DEF Nudged
  <2>9. Heeds(r, q)
    <3>1. Replies(q)
      BY <1>1, <1>2, <2>5, <2>7, <2>8 DEF Replies
    <3>2. CanRead(q) => CanRead(r)
      BY <2>7 DEF CanRead
    <3> QED BY <2>7, <3>1, <3>2 DEF Heeds
  <2>10. PICK w \in Calls \cup {0} : ex' = Wake([ex EXCEPT ![k] = q], w)
    <3>1. PICK w \in Signalled(e) :
            ex' = Wake([e EXCEPT ![k] = [Cancel(e[k]) EXCEPT !.st = "COMPLETED", !.assoc = FALSE]], w)
      BY <1>1, <1>2, <1>7, <1>10 DEF StopOrphan
    <3>2. w \in Calls \cup {0}
      BY DEF Signalled, Waiters
    <3> QED BY <1>1, <1>8, <2>1, <2>3, <3>1, <3>2
  <2>11. \A j \in Calls : Heeds(ex[j], ex'[j])
    BY <1>2, <2>4, <2>9, <2>10, WokenHeeds
  <2>12. sv' = FreeRep(s, k)
    BY <1>2, <1>10 DEF StopOrphan
  <2>13. PICK t : t = [s EXCEPT !.link = 0, !.astat = "ok", !.ref = s.ref - 1, !.msgs = <<>>]
    OBVIOUS
  <2>14. t = sv'
    BY <1>0, <2>12, <2>13 DEF FreeRep, Assocs
  <2>15. t.link = 0 /\ t.msgs = <<>> /\ t.astat = "ok" /\ t.assoc = sv.assoc /\ t.rcvr = sv.rcvr
    BY <1>0, <2>13 DEF Assocs
  <2>16. Queue(sv')
    BY <1>1, <2>14, <2>15 DEF Queue
  <2>17. Passes
    <3>1. \A j \in Calls : j # 0
      BY WireAssumption DEF Calls
    <3> QED BY <2>14, <2>15, <3>1 DEF Passes
  <2>18. Minds
    BY <2>11, <2>14, <2>15, <2>16, <2>17 DEF Minds
  <2> QED BY <2>11, <2>18, ToldOn DEF Shortens
<1> QED BY <1>9, <1>10

\* An alert is counted.
LEMMA AlertMinds ==
  ASSUME OneByOne, NEW p, NEW k \in Calls, p.call = k, NEW s \in Assocs, ReadsOn(s),
         ProcessAlert(s, p), seen' = seen, s2c' = s2c
  PROVE  Minds /\ Told'
<1>1. ex \in [Calls -> ServerReps]
  BY AtOwn
<1>2. PICK r \in ServerReps : r = ex[k]
  BY <1>1
<1>3. PICK n \in Nat : n = r.alerts + 1
  BY DEF ServerReps
<1>4. PICK m : m = [r EXCEPT !.alerts = n]
  OBVIOUS
<1>5. m \in ServerReps
  BY <1>4 DEF ServerReps
<1>6. Nudged(r, m)
  BY <1>4, <1>5 DEF Nudged, ServerReps
<1>7. Kept(r, m)
  BY <1>4, <1>5 DEF Kept, ServerReps
<1>8. PICK q : q = Cancel(m)
  OBVIOUS
<1>9. ex' = [ex EXCEPT ![k] = q] /\ sv' = s
  BY <1>2, <1>3, <1>4, <1>8 DEF ProcessAlert
<1>10. Heeds(r, r)
  BY <1>2, StaysHeeding
<1>11. Heeds(r, m)
  BY <1>6, <1>7, <1>10, NudgedHeeds
<1>12. Nudged(m, q) /\ Kept(m, q)
  BY <1>5, <1>8, CancelNudges, CancelKept
<1>13. Heeds(r, q)
  BY <1>11, <1>12, NudgedHeeds
<1>14. \A j \in Calls : Heeds(ex[j], ex'[j])
  BY <1>2, <1>9, <1>13, AloneHeeds
<1>15. SameQueue(sv, sv')
  BY <1>9, ReadsOnEffect, AtOwn DEF SameQueue
<1> QED BY <1>14, <1>15, QuietMinds, ToldOn DEF Shortens

\* The next fragment comes to the end of the queue.
LEMMA FollowsAppend ==
  ASSUME NEW k \in Calls, NEW s \in Seq(Packets), NEW p \in Packets, NEW n \in Nat,
         Follows(s, k, n), p.type = "request", p.call = k, p.n = n + Len(s) + 1
  PROVE  Follows(Append(s, p), k, n) /\ Len(Append(s, p)) = Len(s) + 1
<1>1. PICK t : t = Append(s, p)
  OBVIOUS
<1>2. /\ Len(t) = Len(s) + 1 /\ Len(s) \in Nat /\ t[Len(s) + 1] = p
      /\ \A i \in 1..Len(s) : t[i] = s[i]
  BY <1>1
<1>3. ASSUME NEW i \in 1..Len(t)
      PROVE  t[i].type = "request" /\ t[i].call = k /\ t[i].n = n + i
  <2>1. CASE i = Len(s) + 1
    BY <1>2, <2>1
  <2>2. CASE i \in 1..Len(s)
    BY <1>2, <2>2 DEF Follows
  <2> QED BY <1>2, <2>1, <2>2
<1> QED BY <1>1, <1>2, <1>3 DEF Follows

\* A later fragment of the request goes into the queue (handle_frag_action_rtn).
LEMMA HandleFragKeepsOwn ==
  ASSUME CallInv, BlameInv, OwnInv, Running, UNCHANGED clientVars,
         up' = up, seen' = seen, s2c' = s2c,
         NEW p \in Packets, NEW k \in Calls, p.call = k, sv.link = k, ~Maybe(k),
         c2s # <<>>, p = Head(c2s), c2s' = Tail(c2s), p.type = "request", ex[k].st = "REQUEST",
         NEW a \in Assocs, ReadsOn(a), HandleFrag(a, p)
  PROVE  OwnInv'
<1>1. OwnTypes' /\ OwnTypes
  BY DEF OwnTypes, OwnInv
<1>2. sv \in Assocs /\ ex \in [Calls -> ServerReps] /\ c2s \in Seq(Packets) /\ k \in Nat
  BY AtBlame, WireAssumption DEF CallInv, WireTypes, Calls
<1>3. PICK msgs : msgs = Append(sv.msgs, p)
  OBVIOUS
<1>0. /\ a.overlap = sv.overlap /\ a.link = sv.link /\ a.msgs = sv.msgs
      /\ a.assoc = sv.assoc /\ a.astat = sv.astat /\ a.rcvr = sv.rcvr
  BY <1>2, ReadsOnEffect
<1>4. PICK s : s = [a EXCEPT !.msgs = msgs]
  OBVIOUS
<1>5. s.overlap = sv.overlap /\ s.link = k /\ s.msgs = msgs
  BY <1>0, <1>4 DEF Assocs
<1>6. s.assoc = sv.assoc /\ s.astat = sv.astat /\ s.rcvr = sv.rcvr
  BY <1>0, <1>4 DEF Assocs
<1>7. sv' = s
  BY <1>0, <1>3, <1>4 DEF HandleFrag
<1> SUFFICES ASSUME ~sv.overlap
             PROVE  (Requests /\ Caller /\ Queue(sv) /\ Told /\ \A j \in Calls : Replies(ex[j]))'
  BY <1>1, <1>5, <1>7 DEF OwnInv
<1>8. OneByOne
  BY DEF OneByOne
<1>9. Queue(sv) /\ Replies(ex[k]) /\ Requests /\ Caller
  BY <1>8, AtOwn DEF OwnInv
<1>10. PICK r \in ServerReps : r = ex[k]
  BY <1>2
<1>11. r.pc \notin {"none", "freed"} /\ k # 0 /\ r.st = "REQUEST"
  BY <1>10, LinkedOpen, WireAssumption DEF Calls
<1>12. PICK st \in {"REQUEST", "RESPONSE"} : st = IF p.last THEN "RESPONSE" ELSE "REQUEST"
  OBVIOUS
<1>13. PICK q : q = [r EXCEPT !.st = st]
  OBVIOUS
<1>14. q \in ServerReps
  <2>1. st \in ServerCallStates
    BY ServerStates
  <2> QED BY <1>13, <2>1 DEF ServerReps
<1>15. q.st = st /\ q.pc = r.pc /\ q.status = r.status /\ q.then = r.then
  BY <1>13 DEF ServerReps
<1>16. q.gotlast = r.gotlast /\ q.failed = r.failed /\ q.sending = r.sending
  BY <1>13 DEF ServerReps
<1>17. PICK e : e = [ex EXCEPT ![k] = q]
  OBVIOUS
<1>18. e \in [Calls -> ServerReps] /\ e[k] = q
  BY <1>2, <1>14, <1>17
<1>19. PICK w \in Calls \cup {0} : ex' = Wake(e, w)
  <2>1. [ex EXCEPT ![p.call].st = IF p.last THEN "RESPONSE" ELSE "REQUEST"] = e
    BY <1>2, <1>10, <1>12, <1>13, <1>17
  <2>2. PICK w \in Signalled(ex) : ex' = Wake(e, w)
    BY <2>1 DEF HandleFrag
  <2>3. w \in Calls \cup {0}
    BY DEF Signalled, Waiters
  <2> QED BY <2>2, <2>3
<1>20. CanRead(q) => CanRead(r)
  BY <1>11, <1>15, <1>16 DEF CanRead
<1>21. Heeds(r, q)
  <2>1. Replies(q)
    BY <1>9, <1>10, <1>11, <1>15, <1>16 DEF Replies
  <2> QED BY <1>16, <1>20, <2>1 DEF Heeds
<1>22. \A j \in Calls : Heeds(ex[j], ex'[j])
  BY <1>8, <1>10, <1>14, <1>17, <1>19, <1>21, WokenHeeds
<1>23. ex'[k].pc = r.pc /\ ex'[k].st = st
  <2>1. Nudged(q, ex'[k])
    BY <1>18, <1>19, WakesNudge
  <2> QED BY <1>15, <2>1 DEF Nudged
<1>24. ASSUME NEW j \in Calls
       PROVE  \E c, b \in Nat :
                /\ Runs("request", c2s', j, c, b) /\ Owned(j, c)'
                /\ (InCall /\ cl.call = j /\ up /\ ~GaveUp(cl))' => b = SentRequests(cl')
  <2>1. PICK n, b \in Nat :
          /\ Runs("request", c2s, j, n, b) /\ Owned(j, n)
          /\ InCall /\ cl.call = j /\ up /\ ~GaveUp(cl) => b = SentRequests(cl)
    BY <1>9 DEF Requests
  <2>2. (InCall /\ cl.call = j /\ up /\ ~GaveUp(cl))' => b = SentRequests(cl')
    BY <2>1 DEF InCall, clientVars
  <2>3. CASE j # k
    <3>1. Runs("request", Tail(c2s), j, n, b)
      <4>1. j \in Nat
        BY WireAssumption DEF Calls
      <4> QED BY <1>2, <2>1, <2>3, <4>1, RunsTailOther
    <3>2. ex'[j].pc = "none" => ex[j].pc = "none"
      <4>1. Nudged(e[j], ex'[j]) /\ e[j] = ex[j]
        BY <1>2, <1>17, <1>18, <1>19, <2>3, WakesNudge
      <4> QED BY <4>1 DEF Nudged
    <3>3. Owned(j, n)'
      BY <1>5, <1>7, <2>1, <2>3, <3>2 DEF Owned, InOrder
    <3> QED BY <2>2, <3>1, <3>3
  <2>4. CASE j = k
    <3>1. p.n = n + 1 /\ Runs("request", Tail(c2s), k, n + 1, b)
      BY <1>2, <2>1, <2>4, RunsTail
    <3>2. PICK g \in Seq(Nat \X Nat), m \in Seq(Packets) : g = seen[k] /\ m = sv.msgs
      BY <1>1, <1>2 DEF OwnTypes, Assocs
    <3>3. ASSUME sv.assoc = "OPEN", CanRead(ex'[k])
          PROVE  Follows(msgs, k, Len(g)) /\ n + 1 = Len(g) + Len(msgs)
      <4>1. CanRead(r)
        BY <1>10, <1>22, <3>3 DEF Heeds
      <4>2. Follows(m, k, Len(g)) /\ n = Len(g) + Len(m)
        BY <1>10, <1>11, <2>1, <2>4, <3>2, <3>3, <4>1 DEF Owned
      <4>3. Len(g) \in Nat /\ Len(m) \in Nat
        OBVIOUS
      <4>4. p.n = Len(g) + Len(m) + 1
        BY <3>1, <4>2, <4>3
      <4>5. Follows(Append(m, p), k, Len(g)) /\ Len(Append(m, p)) = Len(m) + 1
        BY <4>2, <4>3, <4>4, FollowsAppend
      <4>6. msgs = Append(m, p)
        BY <1>3, <3>2
      <4>7. Follows(msgs, k, Len(g)) /\ Len(msgs) = Len(m) + 1
        BY <4>5, <4>6
      <4> QED BY <4>2, <4>3, <4>7
    <3>4. Owned(j, n + 1)'
      BY <1>5, <1>6, <1>7, <1>11, <1>23, <2>1, <2>4, <3>2, <3>3 DEF Owned, InOrder, Follows, CanRead
    <3>5. Runs("request", c2s', j, n + 1, b) /\ n + 1 \in Nat
      BY <2>4, <3>1
    <3> QED BY <2>2, <3>4, <3>5
  <2> QED BY <2>3, <2>4
<1>25. Requests'
  BY <1>24 DEF Requests, Runs, Hits, SentRequests, SendsRequest
<1>26. Caller'
  BY <1>9, <1>22, CallerOn DEF Heeds
<1>27. Queue(sv)'
  BY <1>5, <1>6, <1>7, <1>9, <1>11 DEF Queue
<1>28. Told'
  BY <1>8, <1>22, ToldOn DEF Shortens
<1>29. \A j \in Calls : Replies(ex[j])'
  BY <1>22 DEF Heeds, Replies
<1> QED BY <1>25, <1>26, <1>27, <1>28, <1>29

\* A packet that does not begin a call
LEMMA LaterPacketKeepsOwn ==
  ASSUME CallInv, BlameInv, OwnInv, Running, UNCHANGED clientVars, LaterPacket
  PROVE  OwnInv'
<1>1. ex \in [Calls -> ServerReps] /\ sv \in Assocs
  BY DEF CallInv, ServerTypes
<1>2. /\ c2s # <<>> /\ c2s' = Tail(c2s) /\ s2c' = s2c /\ seen' = seen
      /\ Head(c2s).type \in {"request", "alert", "orphaned"}
      /\ Head(c2s).type = "request" => Head(c2s).n > 1
  BY DEF LaterPacket, Arrives
<1>3. PICK p \in Packets : p = Head(c2s) /\ p.call \in Calls /\ p.call # 0 /\ p.n \in Nat
  BY <1>2, HeadOwn DEF Packets
<1>4. OwnTypes' /\ (up' => up)
  BY <1>2 DEF OwnInv, OwnTypes, LaterPacket, Abort
<1>5. \A j \in Calls : Speaks(ex[j], ex'[j], j)
  BY LaterSpeaks
<1>6. ASSUME Behaves, ~sv.overlap => Minds /\ Told',
             p.type = "request" =>
               ~(sv'.link = p.call /\ ex'[p.call].st = "REQUEST" /\ ~Maybe(p.call))
      PROVE  OwnInv'
  <2>1. p.type = "request" => p.n # 1
    BY <1>2, <1>3
  <2>2. Consumes
    BY <1>2, <1>3, <1>6, <2>1 DEF Consumes
  <2> QED BY <1>4, <1>5, <1>6, <2>2, MindsKeepOwn
<1>0. PICK s \in Assocs : ReadsOn(s) /\ LaterOn(s, p)
  BY <1>3, LaterReads
<1>10. /\ s.overlap = sv.overlap /\ s.link = sv.link /\ s.msgs = sv.msgs /\ s.fatal = sv.fatal
       /\ s.assoc = sv.assoc /\ s.astat = sv.astat /\ s.rcvr = sv.rcvr
  BY <1>0, <1>1, ReadsOnEffect
<1>7. ASSUME sv' = s, ex' = ex
      PROVE  Behaves /\ (~sv.overlap => Minds /\ Told')
  <2>1. \A j \in Calls : Fair(ex[j], ex'[j], j)
    BY <1>7, AtBlame
  <2>2. Behaves
    BY <1>1, <1>7, <1>10, <2>1, SameDrains DEF Behaves
  <2>3. ASSUME ~sv.overlap
        PROVE  Minds /\ Told'
    <3>1. OneByOne
      BY <2>3 DEF OneByOne
    <3>2. \A j \in Calls : Heeds(ex[j], ex'[j])
      BY <1>7, <3>1, StaysHeeding
    <3> QED BY <1>2, <1>7, <1>10, <3>1, <3>2, QuietMinds, ToldOn DEF SameQueue, Shortens
  <2> QED BY <2>2, <2>3
<1>8. CASE ~ForLinkedCall(p)
  <2>1. sv' = s /\ ex' = ex
    BY <1>0, <1>8 DEF LaterOn
  <2> QED BY <1>3, <1>6, <1>10, <1>7, <1>8, <2>1 DEF ForLinkedCall
<1>9. CASE ForLinkedCall(p)
  <2>1. PICK k \in Calls : k = sv.link /\ p.call = k /\ ~Maybe(k)
    BY <1>3, <1>9 DEF ForLinkedCall
  <2>2. PICK r \in ServerReps : r = ex[k]
    BY <1>1
  <2>3. r.st \in {"REQUEST", "RESPONSE", "COMPLETED"}
    BY <2>1, <2>2, LinkedOpen
  <2>4. CASE ~ServerLegal(r.st, Event(p))
    <3>1. PICK event \in {"recv", "remote_alert", "orphaned"} :
            event = Event(p) /\ (event = "recv" <=> p.type = "request")
      BY <1>2, <1>3 DEF Event
    <3>2. Abort(s, event, k) /\ ex' = ex
      BY <1>0, <1>9, <2>1, <2>2, <2>4, <3>1 DEF LaterOn
    <3>3. /\ event \in {"recv", "remote_alert"}
          /\ r.st = "COMPLETED" \/ (r.st = "RESPONSE" /\ event = "recv")
      BY <2>3, <2>4, <3>1, EventIllegal
    <3>4. Drains /\ sv'.fatal = event /\ sv'.victim = k
      BY <1>10, <3>2, AbortDrains
    <3>5. r.st = "COMPLETED"
      <4>1. p.type = "request" => r.st # "RESPONSE"
        <5>1. c2s \in Seq(Packets) /\ p = c2s[1] /\ 1 \in 1..Len(c2s)
          BY <1>2, <1>3, TailPackets DEF CallInv, WireTypes
        <5> QED BY <2>1, <2>2, <5>1 DEF BlameInv, Closed, NoMore
      <4> QED BY <3>1, <3>3, <4>1
    <3>6. IllegalOnlyAfterCompletion'
      BY <2>2, <3>2, <3>3, <3>4, <3>5 DEF IllegalOnlyAfterCompletion
    <3>7. Behaves
      <4>1. \A j \in Calls : Fair(ex[j], ex'[j], j)
        BY <3>2, AtBlame
      <4> QED BY <3>4, <3>6, <4>1 DEF Behaves
    <3>8. ASSUME ~sv.overlap
          PROVE  Minds /\ Told'
      <4>1. OneByOne
        BY <3>8 DEF OneByOne
      <4>2. \A j \in Calls : Heeds(ex[j], ex'[j])
        BY <3>2, <4>1, StaysHeeding
      <4>3. SameQueue(sv, sv')
        BY <1>10, <3>2 DEF Abort, SameQueue, Assocs
      <4> QED BY <1>2, <4>1, <4>2, <4>3, QuietMinds, ToldOn DEF Shortens
    <3>9. ex'[p.call].st # "REQUEST"
      BY <2>1, <2>2, <3>2, <3>5
    <3> QED BY <1>6, <3>7, <3>8, <3>9
  <2>5. CASE ServerLegal(r.st, Event(p))
    <3>1. /\ up' = up
          /\ \/ ServerDoes(r.st, Event(p), "handle_frag") /\ HandleFrag(s, p)
             \/ ServerDoes(r.st, Event(p), "process_alert_msg") /\ ProcessAlert(s, p)
             \/ ServerDoes(r.st, Event(p), "stop_orphan") /\ StopOrphan(s, p)
             \/ ServerDoes(r.st, Event(p), "COMPLETED") /\ sv' = s /\ ex' = ex
      BY <1>0, <1>9, <2>1, <2>2, <2>5 DEF LaterOn
    <3>2. CASE ServerDoes(r.st, Event(p), "handle_frag") /\ HandleFrag(s, p)
      <4>1. p.type = "request" /\ r.st = "REQUEST"
        BY <1>2, <1>3, <3>2, HandlesRequests DEF ServerReps
      <4> QED BY <1>0, <1>2, <1>3, <2>1, <2>2, <3>1, <3>2, <4>1, HandleFragKeepsOwn
    <3>3. ASSUME p.type = "request"
          PROVE  /\ ~ServerDoes(r.st, Event(p), "process_alert_msg")
                 /\ ~ServerDoes(r.st, Event(p), "stop_orphan")
                 /\ ~ServerDoes(r.st, Event(p), "COMPLETED")
      <4>1. Event(p) = "recv"
        BY <3>3 DEF Event
      <4> QED BY <2>3, <4>1 DEF ServerDoes, ServerLegal, ServerCallTable
    <3>4. CASE ServerDoes(r.st, Event(p), "process_alert_msg") /\ ProcessAlert(s, p)
      <4>1. Behaves
        <5>1. PICK n \in Nat : n = r.alerts + 1
          BY DEF ServerReps
        <5>2. PICK m : m = [r EXCEPT !.alerts = n]
          OBVIOUS
        <5>3. m \in ServerReps
          BY <5>2 DEF ServerReps
        <5>4. Nudged(r, m)
          BY <5>2, <5>3 DEF Nudged, ServerReps
        <5>5. Kept(r, m)
          BY <5>2, <5>3 DEF Kept, ServerReps
        <5>6. PICK q : q = Cancel(m)
          OBVIOUS
        <5>7. Nudged(r, q)
          BY <5>3, <5>4, <5>6, CancelNudges, NudgedTwice
        <5>8. Kept(r, q)
          BY <5>3, <5>5, <5>6, CancelKept DEF Kept
        <5>9. ex' = [ex EXCEPT ![k] = q] /\ sv' = s
          BY <2>1, <2>2, <3>4, <5>1, <5>2, <5>6 DEF ProcessAlert
        <5>10. Fair(r, q, k)
          BY <2>2, <5>7, <5>8, NudgedFair, AtBlame
        <5>11. \A j \in Calls : Fair(ex[j], ex'[j], j)
          BY <2>2, <5>9, <5>10, AloneFair
        <5> QED BY <1>1, <1>10, <5>9, <5>11, SameDrains DEF Behaves
      <4>2. ASSUME ~sv.overlap
            PROVE  Minds /\ Told'
        <5>1. OneByOne
          BY <4>2 DEF OneByOne
        <5> QED BY <1>0, <1>2, <2>1, <3>4, <5>1, AlertMinds
      <4> QED BY <1>6, <3>3, <3>4, <4>1, <4>2
    <3>5. CASE ServerDoes(r.st, Event(p), "stop_orphan") /\ StopOrphan(s, p)
      <4>1. Behaves
        BY <1>0, <2>1, <3>5, OrphanBehaves
      <4>2. ASSUME ~sv.overlap
            PROVE  Minds /\ Told'
        <5>1. OneByOne
          BY <4>2 DEF OneByOne
        <5> QED BY <1>0, <1>2, <2>1, <3>1, <3>5, <5>1, OrphanMinds
      <4> QED BY <1>6, <3>3, <3>5, <4>1, <4>2
    <3>6. CASE ServerDoes(r.st, Event(p), "COMPLETED") /\ sv' = s /\ ex' = ex
      BY <1>6, <1>7, <3>3, <3>6
    <3> QED BY <3>1, <3>2, <3>4, <3>5, <3>6
  <2> QED BY <2>4, <2>5
<1> QED BY <1>8, <1>9

\* The connection is gone (rem_mark_cancel_action_rtn).
LEMMA DisconnectMinds ==
  ASSUME OneByOne, Running, ServerDisconnects
  PROVE  Minds /\ Told'
<1>1. sv \in Assocs /\ ex \in [Calls -> ServerReps]
  BY DEF OneByOne, CallInv, ServerTypes
<1>2. PICK w \in Signalled(ex) :
        LET e == Wake(ex, w)
            k == sv.link
        IN  \/ k = 0 /\ ex' = e
            \/ /\ k # 0 /\ ex[k].pc = "queued"
               /\ ex' = [e EXCEPT ![k].pc = "ending", ![k].mine = TRUE]
            \/ /\ k # 0 /\ ex[k].pc # "queued"
               /\ \E v \in Signalled(e) : ex' = Wake([e EXCEPT ![k] = Cancel(e[k])], v)
  BY DEF ServerDisconnects
<1>3. PICK e : e = Wake(ex, w)
  OBVIOUS
<1>4. e \in [Calls -> ServerReps] /\ \A j \in Calls : Nudged(ex[j], e[j]) /\ Kept(ex[j], e[j])
  BY <1>1, <1>2, <1>3, WakesNudge, WakeKept DEF Signalled, Waiters
<1>5. \A j \in Calls : Heeds(ex[j], e[j])
  BY <1>4, StaysHeeding, NudgedHeeds
<1>6. ~up /\ up' = up /\ seen' = seen /\ s2c' = s2c
  BY DEF ServerDisconnects, wireVars
<1>7. PICK m, rcvr : /\ sv' = [sv EXCEPT !.assoc = "CLOSED", !.astat = "closed", !.msgs = m,
                                          !.rcvr = rcvr]
                     /\ rcvr \in {"busy", "done"}
  <2>1. PICK m : m = QueueDummy(sv.msgs)
    OBVIOUS
  <2>2. PICK s : s = [sv EXCEPT !.assoc = "CLOSED", !.astat = "closed", !.msgs = m]
    OBVIOUS
  <2>3. \E rcvr \in {"busy", "done"} : sv' = [s EXCEPT !.rcvr = rcvr]
    BY <2>1, <2>2 DEF ServerDisconnects
  <2>4. PICK rcvr \in {"busy", "done"} : sv' = [s EXCEPT !.rcvr = rcvr]
    BY <2>3
  <2>5. [s EXCEPT !.rcvr = rcvr] = [sv EXCEPT !.assoc = "CLOSED", !.astat = "closed", !.msgs = m,
                                              !.rcvr = rcvr]
    BY <1>1, <2>2 DEF Assocs
  <2> QED BY <2>4, <2>5
<1>8. sv'.assoc = "CLOSED" /\ sv'.astat = "closed" /\ sv'.rcvr # "recv"
  <2>1. PICK s : s = [sv EXCEPT !.assoc = "CLOSED", !.astat = "closed", !.msgs = m, !.rcvr = rcvr]
    OBVIOUS
  <2>2. s.assoc = "CLOSED" /\ s.astat = "closed" /\ s.rcvr = rcvr
    BY <1>1, <2>1 DEF Assocs
  <2> QED BY <1>7, <2>1, <2>2
<1>9. Queue(sv') /\ Passes /\ (sv'.assoc = "OPEN" => sv.assoc = "OPEN")
  BY <1>6, <1>8 DEF Queue, Passes
<1>10. ASSUME \A j \in Calls : Heeds(ex[j], ex'[j])
       PROVE  Minds /\ Told'
  BY <1>6, <1>9, <1>10, ToldOn DEF Minds, Shortens
<1>11. CASE sv.link = 0
  <2>1. ex' = e
    BY <1>2, <1>3, <1>11
  <2> QED BY <1>5, <1>10, <2>1
<1>12. CASE sv.link # 0 /\ ex[sv.link].pc = "queued"
  <2>1. PICK k \in Calls : k = sv.link
    BY <1>1, <1>12 DEF Assocs
  <2>2. PICK r \in ServerReps : r = e[k]
    BY <1>4
  <2>3. PICK q : q = [r EXCEPT !.pc = "ending", !.mine = TRUE]
    OBVIOUS
  <2>4. q.pc = "ending" /\ q.gotlast = r.gotlast
    BY <2>3 DEF ServerReps
  <2>5. ex' = [e EXCEPT ![k] = q]
    BY <1>2, <1>3, <1>12, <2>1, <2>2, <2>3
  <2>6. ex'[k] = q /\ \A j \in Calls : j # k => ex'[j] = e[j]
    BY <1>4, <2>5
  <2>7. Heeds(ex[k], q)
    <3>1. ex[k].gotlast => r.gotlast
      BY <1>5, <2>2 DEF Heeds
    <3> QED BY <1>6, <2>4, <3>1 DEF Heeds, CanRead, Replies
  <2> QED BY <1>5, <1>10, <2>6, <2>7
<1>13. CASE sv.link # 0 /\ ex[sv.link].pc # "queued"
  <2>1. PICK k \in Calls : k = sv.link
    BY <1>1, <1>13 DEF Assocs
  <2>2. PICK q : q = Cancel(e[k])
    OBVIOUS
  <2>3. PICK c : c = [e EXCEPT ![k] = q]
    OBVIOUS
  <2>4. PICK v \in Signalled(e) : ex' = Wake(c, v)
    BY <1>2, <1>3, <1>13, <2>1, <2>2, <2>3
  <2>5. Nudged(e[k], q) /\ q \in ServerReps /\ Kept(e[k], q)
    BY <1>4, <2>2, CancelNudges, CancelKept DEF Nudged
  <2>6. c \in [Calls -> ServerReps] /\ c[k] = q /\ \A j \in Calls : j # k => c[j] = e[j]
    BY <1>4, <2>3, <2>5
  <2>7. \A j \in Calls : Heeds(ex[j], c[j])
    BY <1>5, <2>5, <2>6, NudgedHeeds
  <2>8. PICK u \in Calls \cup {0} : u = v
    BY <2>4 DEF Signalled, Waiters
  <2>9. \A j \in Calls : Nudged(c[j], ex'[j]) /\ Kept(c[j], ex'[j])
    BY <2>4, <2>6, <2>8, WakesNudge, WakeKept
  <2>10. \A j \in Calls : Heeds(ex[j], ex'[j])
    BY <2>7, <2>9, NudgedHeeds
  <2> QED BY <1>10, <2>10
<1> QED BY <1>11, <1>12, <1>13

\* It leaves requests as they are.
LEMMA DisconnectKeepsOwn ==
  ASSUME CallInv, BlameInv, OwnInv, Running, UNCHANGED clientVars, ServerDisconnects
  PROVE  OwnInv'
<1>1. OwnTypes' /\ (up' => up) /\ Consumes
  BY DEF OwnInv, OwnTypes, ServerDisconnects, wireVars, Consumes
<1>2. Behaves /\ \A j \in Calls : Speaks(ex[j], ex'[j], j)
  BY DisconnectBehaves, DisconnectSpeaks
<1>3. ASSUME ~sv.overlap
      PROVE  Minds /\ Told'
  <2>1. OneByOne
    BY <1>3 DEF OneByOne
  <2> QED BY <2>1, DisconnectMinds
<1> QED BY <1>1, <1>2, <1>3, MindsKeepOwn

\* A call that begins has read nothing; the association is its own.
Fresh(q, s) ==
  /\ q.pc # "none" /\ ~q.gotlast /\ Replies(q)
  /\ sv'.overlap = s.overlap /\ SameQueue(s, sv')

\* The first fragment of a request, for an executor or refused
LEMMA FirstFragmentFresh ==
  ASSUME CallInv, NEW p \in Packets, NEW k \in Calls, k = p.call,
         NEW a \in Assocs, FirstOn(a, p), NEW s \in Assocs, s = PushCall(a, p)
  PROVE  \E q : ex' = [ex EXCEPT ![k] = q] /\ Fresh(q, s)
<1>1. sv \in Assocs /\ ex \in [Calls -> ServerReps]
  BY AtStep
<1>2. PICK m \in ServerReps : m = NewCall(p)
  BY NewCallEffect
<1>3. m.st \in {"REQUEST", "RESPONSE"} /\ ~m.gotlast
  BY <1>2, NewCallEffect, NewCallFresh
<1>4. PICK e : e = [ex EXCEPT ![k] = m]
  OBVIOUS
<1>5. e \in [Calls -> ServerReps] /\ e[k] = m
  BY <1>1, <1>4
<1>6. CASE sv' = s /\ \E pc \in {"ready", "queued"} : ex' = [e EXCEPT ![k].pc = pc]
  <2>1. PICK pc \in {"ready", "queued"} : ex' = [e EXCEPT ![k].pc = pc]
    BY <1>6
  <2>2. PICK q : q = [m EXCEPT !.pc = pc]
    OBVIOUS
  <2>3. q.pc = pc /\ q.gotlast = m.gotlast
    BY <2>2 DEF ServerReps
  <2>4. ex' = [ex EXCEPT ![k] = q]
    BY <1>1, <1>4, <1>5, <2>1, <2>2
  <2>5. Fresh(q, s)
    BY <1>3, <1>6, <2>3 DEF Fresh, Replies, SameQueue
  <2> QED BY <2>4, <2>5
<1>7. CASE CallReject([s EXCEPT !.rcvr = "busy"], [e EXCEPT ![k].mine = TRUE], k)
  <2>1. PICK o : o = [m EXCEPT !.mine = TRUE, !.status = "rejected"]
    OBVIOUS
  <2>2. o \in ServerReps
    BY <2>1 DEF ServerReps
  <2>3. o.st = m.st /\ o.gotlast = m.gotlast
    BY <2>1 DEF ServerReps
  <2>4. PICK f : f = [ex EXCEPT ![k] = o]
    OBVIOUS
  <2>5. f \in [Calls -> ServerReps] /\ f[k] = o
    BY <1>1, <2>2, <2>4
  <2>6. PICK t : t = [s EXCEPT !.rcvr = "busy"]
    OBVIOUS
  <2>7. t \in Assocs /\ LikeAssoc(s, t)
    <3>1. t \in Assocs
      BY <2>6, RcvrTyped
    <3>2. LikeAssoc(s, t)
      BY <2>6 DEF Assocs, LikeAssoc
    <3> QED BY <3>1, <3>2
  <2>8. t.assoc = s.assoc /\ t.astat = s.astat /\ t.rcvr = "busy"
    BY <2>6 DEF Assocs
  <2>9. [[e EXCEPT ![k].mine = TRUE] EXCEPT ![k].status = "rejected"] = f
    BY <1>1, <1>4, <1>5, <2>1, <2>4
  <2>10. FaultEvent(t, f, k, "fault_dne", "ending")
    BY <1>7, <2>6, <2>9 DEF CallReject
  <2>11. Charges(t, f, k, "fault_dne", "ending") /\ Refuses(t, f, k, "fault_dne", "ending")
    BY <2>5, <2>7, <2>10, FaultCharges, FaultRefuses
  <2>12. ServerLegal(f[k].st, "fault_dne")
    BY <1>3, <2>3, <2>5, FaultLegal
  <2>13. PICK q : /\ ex' = [f EXCEPT ![k] = q] /\ q.st = "COMPLETED" /\ q.gotlast = o.gotlast
                  /\ q.pc = "ending" \/ (q.pc = "send" /\ ~q.failed /\ q.sending.type = "fault")
    BY <2>5, <2>11, <2>12 DEF Refuses
  <2>14. Replies(q)
    BY <2>13 DEF Replies, Ends
  <2>15. ex' = [ex EXCEPT ![k] = q]
    BY <1>1, <2>4, <2>13
  <2>16. sv'.overlap = s.overlap
    BY <2>7, <2>11, <2>12 DEF Charges, LikeAssoc
  <2>17. SameQueue(s, sv')
    BY <2>7, <2>8, <2>11 DEF Refuses, SameQueue, LikeAssoc
  <2>18. Fresh(q, s)
    BY <1>3, <2>3, <2>13, <2>14, <2>16, <2>17 DEF Fresh
  <2> QED BY <2>15, <2>18
<1>8. \/ sv' = s /\ \E pc \in {"ready", "queued"} : ex' = [e EXCEPT ![k].pc = pc]
      \/ CallReject([s EXCEPT !.rcvr = "busy"], [e EXCEPT ![k].mine = TRUE], k)
  BY <1>2, <1>4 DEF FirstOn
<1> QED BY <1>6, <1>7, <1>8

\* It begins a request: the call has the association and the queue for itself.
LEMMA FirstFragmentKeepsOwn ==
  ASSUME CallInv, OwnInv, Running, UNCHANGED clientVars, FirstFragment
  PROVE  OwnInv'
<1>1. /\ ex \in [Calls -> ServerReps] /\ sv \in Assocs /\ c2s \in Seq(Packets)
      /\ \A j \in Calls : j # 0 /\ j \in Nat
  BY WireAssumption DEF CallInv, ServerTypes, WireTypes, Calls
<1>2. /\ c2s # <<>> /\ c2s' = Tail(c2s) /\ Head(c2s).type = "request" /\ Head(c2s).n = 1
      /\ sv.rcvr = "recv"
  BY DEF FirstFragment, Arrives, ReceiverReady
<1>3. PICK p \in Packets : p = Head(c2s)
  BY <1>1, <1>2
<1>4. PICK k \in Calls : k = p.call /\ ex[k].pc = "none"
  BY <1>2, <1>3, HeadOwn DEF Begins
<1>5. seen' = seen /\ s2c' = s2c /\ (up' => up)
  BY DEF FirstFragment, CallReject, FaultEvent, Abort
<1>6. PICK msgs : msgs = Append(sv.msgs, p)
  OBVIOUS
<1>0. PICK d \in Assocs : ReadsOn(d) /\ FirstOn(d, p)
  BY <1>3, FirstReads
<1>7. PICK s \in Assocs : s = PushCall(d, p)
  BY <1>4, PushCallEffect
<1>8. /\ s.overlap = (sv.overlap \/ sv.link # 0) /\ s.link = k /\ s.msgs = msgs
      /\ s.assoc = sv.assoc /\ s.astat = sv.astat /\ s.rcvr = sv.rcvr
  <2>6. /\ d.overlap = sv.overlap /\ d.link = sv.link /\ d.msgs = sv.msgs /\ d.ref = sv.ref
        /\ d.assoc = sv.assoc /\ d.astat = sv.astat /\ d.rcvr = sv.rcvr
    BY <1>0, <1>1, ReadsOnEffect
  <2>1. PICK o : o = (sv.overlap \/ sv.link # 0)
    OBVIOUS
  <2>2. PICK ref : ref = sv.ref + 1
    OBVIOUS
  <2>3. PICK t : t = [d EXCEPT !.link = k, !.ref = ref, !.msgs = msgs, !.overlap = o]
    OBVIOUS
  <2>4. /\ t.overlap = o /\ t.link = k /\ t.msgs = msgs
        /\ t.assoc = sv.assoc /\ t.astat = sv.astat /\ t.rcvr = sv.rcvr
    BY <2>3, <2>6 DEF Assocs
  <2>5. s = t
    BY <1>4, <1>6, <1>7, <2>1, <2>2, <2>3, <2>6 DEF PushCall
  <2> QED BY <2>1, <2>4, <2>5
<1>9. PICK q : ex' = [ex EXCEPT ![k] = q] /\ Fresh(q, s)
  BY <1>0, <1>4, <1>7, FirstFragmentFresh
<1>10. ex'[k] = q /\ \A j \in Calls : j # k => ex'[j] = ex[j]
  BY <1>1, <1>9
<1>11. /\ sv'.overlap = (sv.overlap \/ sv.link # 0) /\ sv'.link = k /\ sv'.msgs = msgs
       /\ sv'.assoc = sv.assoc
       /\ sv'.rcvr = "recv" => sv.rcvr = "recv"
       /\ sv'.astat = sv.astat \/ ~up
  BY <1>2, <1>8, <1>9 DEF Fresh, SameQueue
<1> SUFFICES ASSUME ~sv'.overlap
             PROVE  (Requests /\ Caller /\ Queue(sv) /\ Told /\ \A j \in Calls : Replies(ex[j]))'
  BY <1>5 DEF OwnInv, OwnTypes
<1>12. ~sv.overlap /\ sv.link = 0
  BY <1>11
<1>13. Requests /\ Caller /\ Queue(sv) /\ Told /\ \A j \in Calls : Replies(ex[j])
  BY <1>12 DEF OwnInv
<1>14. \A j \in Calls : ex[j].gotlast => ex'[j].gotlast
  BY <1>4, <1>10, <1>13 DEF Replies
<1>15. sv.assoc = "OPEN" /\ sv.msgs = <<>>
  BY <1>2, <1>12, <1>13 DEF Queue
<1>16. Queue(sv)'
  BY <1>1, <1>2, <1>5, <1>11, <1>13, <1>15 DEF Queue
<1>17. Told'
  <2>1. ASSUME NEW i \in 1..Len(s2c), Ends(s2c[i])
        PROVE  ex'[s2c[i].call].gotlast
    <3>1. s2c[i].call \in Calls
      <4>1. s2c[i].call \in 1..cl.call
        BY DEF CallInv, BeginsOnce
      <4>2. cl.call \in Nat /\ cl.call <= NCalls /\ NCalls \in Nat
        BY WireAssumption DEF CallInv, ClientTypes, ClientReps
      <4> QED BY <4>1, <4>2 DEF Calls
    <3>2. ex[s2c[i].call].gotlast
      BY <1>13, <2>1 DEF Told
    <3> QED BY <1>14, <3>1, <3>2
  <2> QED BY <1>5, <2>1 DEF Told, Ends
<1>18. \A j \in Calls : Replies(ex[j])'
  <2>1. Replies(q)
    BY <1>9 DEF Fresh
  <2>2. \A j \in Calls : Replies(ex'[j])
    BY <1>10, <1>13, <2>1
  <2> QED BY <1>5, <2>2 DEF Replies
<1>19. Caller'
  BY <1>13, <1>14, CallerOn
<1>20. ASSUME NEW j \in Calls
       PROVE  \E c, b \in Nat :
                /\ Runs("request", c2s', j, c, b) /\ Owned(j, c)'
                /\ (InCall /\ cl.call = j /\ up /\ ~GaveUp(cl))' => b = SentRequests(cl')
  <2>1. PICK a, b \in Nat :
          /\ Runs("request", c2s, j, a, b) /\ Owned(j, a)
          /\ InCall /\ cl.call = j /\ up /\ ~GaveUp(cl) => b = SentRequests(cl)
    BY <1>13 DEF Requests
  <2>2. (InCall /\ cl.call = j /\ up /\ ~GaveUp(cl))' => b = SentRequests(cl')
    BY <1>5, <2>1 DEF InCall, clientVars
  <2>3. CASE j # k
    <3>1. Runs("request", c2s', j, a, b)
      BY <1>1, <1>2, <1>3, <1>4, <2>1, <2>3, RunsTailOther
    <3>2. Owned(j, a)'
      BY <1>5, <1>10, <1>11, <2>1, <2>3 DEF Owned, InOrder
    <3> QED BY <2>2, <3>1, <3>2
  <2>4. CASE j = k
    <3>1. a = 0 /\ seen[k] = <<>>
      BY <1>4, <2>1, <2>4 DEF Owned
    <3>2. Runs("request", Tail(c2s), k, 0 + 1, b)
      BY <1>1, <1>2, <1>3, <1>4, <2>1, <2>4, <3>1, RunsTail
    <3>3. Runs("request", c2s', j, 1, b)
      <4>1. 0 + 1 = 1
        OBVIOUS
      <4>2. Runs("request", Tail(c2s), k, 1, b)
        BY <3>2, <4>1
      <4> QED BY <1>2, <2>4, <4>2
    <3>4. PICK m \in Seq(Packets) : m = <<>>
      <4>1. <<>> \in Seq(Packets)
        OBVIOUS
      <4> QED BY <4>1, Zenon
    <3>5. Follows(m, k, 0) /\ Len(m) = 0
      <4>1. Len(m) = 0 /\ 1..Len(m) = {}
        BY <3>4
      <4> QED BY <4>1 DEF Follows
    <3>6. Follows(Append(m, p), k, 0) /\ Len(Append(m, p)) = 1
      <4>1. p.n = 0 + Len(m) + 1 /\ p.type = "request" /\ p.call = k /\ 0 \in Nat
        BY <1>2, <1>3, <1>4, <3>5
      <4>2. Len(m) + 1 = 1
        BY <3>5
      <4> QED BY <3>5, <4>1, <4>2, FollowsAppend
    <3>7. Append(m, p) = msgs
      BY <1>6, <1>15, <3>4
    <3>8. Follows(msgs, k, 0) /\ Len(msgs) = 1
      BY <3>6, <3>7
    <3>9. Len(seen[k]) = 0
      BY <3>1
    <3>10. InOrder(seen[k], k)
      BY <2>1, <2>4 DEF Owned
    <3>11. q.pc # "none"
      BY <1>9 DEF Fresh
    <3>12. Owned(k, 1)'
      BY <1>5, <1>10, <1>11, <3>8, <3>9, <3>10, <3>11 DEF Owned, InOrder, Follows
    <3> QED BY <2>2, <2>4, <3>3, <3>12
  <2> QED BY <2>3, <2>4
<1>21. Requests'
  BY <1>20 DEF Requests, Runs, Hits, SentRequests, SendsRequest
<1> QED BY <1>16, <1>17, <1>18, <1>19, <1>21

\* The steps of the server
LEMMA ServerKeepsOwn ==
  ASSUME CallInv, BlameInv, OwnInv, ServerStep, UNCHANGED clientVars
  PROVE  OwnInv'
BY ExecutorKeepsOwn, FirstFragmentKeepsOwn, LaterPacketKeepsOwn, DisconnectKeepsOwn
   DEF ServerStep, ServerReceiver

-----------------------------------------------------------------------------
(* The steps of the caller *)

\* The thread goes on: what it knows is what it was told in the queue.
Resumes(c, d) ==
  /\ d.nsent = c.nsent /\ d.status = c.status
  /\ d.err \in {c.err, c.status, "closed"} \/ (d.err = "fault" /\ d.pc = "stub")
  /\ \A i \in 1..Len(d.msgs) : \E j \in 1..Len(c.msgs) : d.msgs[i] = c.msgs[j]
  /\ d.gotlast => c.gotlast \/ d.err = "fault" \/ \E j \in 1..Len(c.msgs) : Ends(c.msgs[j])

\* What a step of the calling thread makes of call k of the caller
Yields(b, d, k) ==
  d.pc # "idle" =>
    /\ Sends(d) /\ Hears(d, k)
    /\ ~GaveUp(d) => ~GaveUp(b) /\ SentRequests(d) = SentRequests(b)

\* A last fragment in the queue is that of a response or a fault.
Heard(c) == \A i \in 1..Len(c.msgs) : c.msgs[i].last => c.msgs[i].type \in {"response", "fault"}

\* What is left of a queue was in it.
LEMMA SkipDummyPart ==
  ASSUME NEW s \in Seq(Packets)
  PROVE  /\ SkipDummy(s) \in Seq(Packets)
         /\ \A i \in 1..Len(SkipDummy(s)) : \E j \in 1..Len(s) : SkipDummy(s)[i] = s[j]
<1>1. CASE s # <<>> /\ Head(s) = Dummy
  BY <1>1, TailPackets DEF SkipDummy
<1>2. CASE ~(s # <<>> /\ Head(s) = Dummy)
  BY <1>2 DEF SkipDummy
<1> QED BY <1>1, <1>2

\* rpc__cn_assoc_receive_frag: what the caller takes from its queue
LEMMA ReceiveResumes ==
  ASSUME NEW c \in ClientReps, Heard(c)
  PROVE  Resumes(c, Receive(c))
<1>1. PICK m \in Seq(Packets) :
        m = SkipDummy(c.msgs) /\ \A i \in 1..Len(m) : \E j \in 1..Len(c.msgs) : m[i] = c.msgs[j]
  BY SkipDummyPart DEF ClientReps
<1>2. PICK d : d = Receive(c)
  OBVIOUS
<1>3. CASE c.astat # "ok"
  <2>1. d = [c EXCEPT !.pc = "stub", !.err = c.astat] /\ c.astat = "closed"
    BY <1>2, <1>3 DEF Receive, ClientReps
  <2>2. d.nsent = c.nsent /\ d.status = c.status /\ d.err = "closed"
    BY <2>1 DEF ClientReps
  <2>3. d.msgs = c.msgs /\ d.gotlast = c.gotlast
    BY <2>1 DEF ClientReps
  <2> QED BY <1>2, <2>2, <2>3 DEF Resumes
<1>4. CASE c.astat = "ok" /\ m = <<>>
  <2>1. d = [c EXCEPT !.pc = "sleep", !.msgs = <<>>]
    BY <1>1, <1>2, <1>4 DEF Receive
  <2>2. d.nsent = c.nsent /\ d.status = c.status /\ d.err = c.err
    BY <2>1 DEF ClientReps
  <2>3. d.msgs = <<>> /\ d.gotlast = c.gotlast
    BY <2>1 DEF ClientReps
  <2> QED BY <1>2, <2>2, <2>3 DEF Resumes
<1>5. CASE c.astat = "ok" /\ m # <<>>
  <2>1. PICK e, t : t = Tail(m) /\ e = [c EXCEPT !.msgs = t]
    OBVIOUS
  <2>2. PICK p \in Packets : p = Head(m) /\ \E j \in 1..Len(c.msgs) : p = c.msgs[j]
    <3>1. Head(m) = m[1] /\ 1 \in 1..Len(m) /\ Head(m) \in Packets
      BY <1>5
    <3>2. \E j \in 1..Len(c.msgs) : Head(m) = c.msgs[j]
      BY <1>1, <3>1
    <3> QED BY <3>1, <3>2, Zenon
  <2>3. d = Take(e, p)
    BY <1>1, <1>2, <1>5, <2>1, <2>2 DEF Receive
  <2>4. \A i \in 1..Len(t) : \E j \in 1..Len(c.msgs) : t[i] = c.msgs[j]
    BY <1>1, <1>5, <2>1, TailPackets
  <2>5. CASE p.type = "fault"
    <3>1. d = [e EXCEPT !.pc = "stub", !.gotlast = TRUE, !.err = "fault"]
      BY <2>3, <2>5 DEF Take
    <3>2. d.nsent = c.nsent /\ d.status = c.status /\ d.err = "fault"
      BY <2>1, <3>1 DEF ClientReps
    <3>3. d.pc = "stub" /\ d.msgs = t
      BY <2>1, <3>1 DEF ClientReps
    <3> QED BY <1>2, <2>4, <3>2, <3>3 DEF Resumes
  <2>6. CASE p.type # "fault"
    <3>1. PICK got : got = Append(e.got, <<p.call, p.n>>)
      OBVIOUS
    <3>2. d = [e EXCEPT !.pc = "stub", !.got = got, !.gotlast = p.last, !.err = e.status]
      BY <2>1, <2>3, <2>6, <3>1 DEF Take, ClientReps
    <3>3. d.nsent = c.nsent /\ d.status = c.status /\ d.err = c.status
      BY <2>1, <3>2 DEF ClientReps
    <3>4. d.msgs = t /\ d.gotlast = p.last
      BY <2>1, <3>2 DEF ClientReps
    <3>5. p.last => \E j \in 1..Len(c.msgs) : Ends(c.msgs[j])
      BY <2>2, <2>6 DEF Heard, Ends
    <3> QED BY <1>2, <2>4, <3>3, <3>4, <3>5 DEF Resumes
  <2> QED BY <2>5, <2>6
<1> QED BY <1>3, <1>4, <1>5

\* Going on
LEMMA GotoResumes ==
  ASSUME NEW c \in ClientReps, NEW then, Heard(c)
  PROVE  Resumes(c, Goto(c, then))
<1>1. CASE then = "recv"
  BY <1>1, ReceiveResumes DEF Goto
<1>2. CASE then # "recv"
  <2>1. PICK d : d = Goto(c, then) /\ d = [c EXCEPT !.pc = "stub"]
    BY <1>2 DEF Goto
  <2>2. d.nsent = c.nsent /\ d.status = c.status /\ d.err = c.err
    BY <2>1 DEF ClientReps
  <2>3. d.msgs = c.msgs /\ d.gotlast = c.gotlast
    BY <2>1 DEF ClientReps
  <2> QED BY <2>1, <2>2, <2>3 DEF Resumes
<1> QED BY <1>1, <1>2

\* rpc__cn_call_forward_cancel
LEMMA ForwardResumes ==
  ASSUME NEW c \in ClientReps, NEW k, NEW then, ForwardThen(c, k, then), Settled(c), Heard(c)
  PROVE  Resumes(c, cl')
<1>1. PICK d : d = IF k.local > 0 THEN [c EXCEPT !.err = c.status] ELSE c
  OBVIOUS
<1>2. d \in ClientReps /\ d.nsent = c.nsent /\ d.status = c.status /\ d.err \in {c.err, c.status}
  <2>1. d = c \/ d = [c EXCEPT !.err = c.status]
    BY <1>1
  <2>2. d \in ClientReps
    BY <2>1 DEF ClientReps
  <2>3. d.nsent = c.nsent /\ d.status = c.status /\ d.err \in {c.err, c.status}
    BY <2>1 DEF ClientReps
  <2> QED BY <2>2, <2>3
<1>3. d.msgs = c.msgs /\ d.gotlast = c.gotlast /\ c.status # "closed" /\ c.status # "fault"
  <2>1. d = c \/ d = [c EXCEPT !.err = c.status]
    BY <1>1
  <2> QED BY <2>1 DEF ClientReps
<1>4. ClientLegal(c.st, "local_alert")
  BY AlertLegal
<1>5. cl' = Goto(d, then) \/ cl' = BeginSend(d, RemoteAlert(c.call), then)
  BY <1>1, <1>4 DEF ForwardThen
<1>6. CASE cl' = Goto(d, then)
  <2>1. Heard(d)
    BY <1>3 DEF Heard
  <2>2. Resumes(d, cl')
    BY <1>2, <1>6, <2>1, GotoResumes
  <2> QED BY <1>2, <1>3, <2>2 DEF Resumes
<1>7. CASE cl' = BeginSend(d, RemoteAlert(c.call), then)
  <2>1. PICK p : p = RemoteAlert(c.call)
    OBVIOUS
  <2>2. PICK e : /\ e = cl'
                 /\ e = [d EXCEPT !.pc = "send", !.sending = p, !.then = then, !.failed = FALSE]
    BY <1>7, <2>1 DEF BeginSend
  <2>3. e.nsent = d.nsent /\ e.status = d.status /\ e.err = d.err
    BY <1>2, <2>2 DEF ClientReps
  <2>4. e.msgs = d.msgs /\ e.gotlast = d.gotlast
    BY <1>2, <2>2 DEF ClientReps
  <2> QED BY <1>2, <1>3, <2>2, <2>3, <2>4 DEF Resumes
<1> QED BY <1>5, <1>6, <1>7

\* A thread that goes on, from b or from what b became
LEMMA ResumesYields ==
  ASSUME NEW b, NEW c \in ClientReps, NEW d, NEW k, Going(c, d), Resumes(c, d), Hears(c, k),
         c.err # "fault",
         ~GaveUp(c) => ~GaveUp(b) /\ SentRequests(b) = c.nsent
  PROVE  Yields(b, d, k)
<1>1. c.status # "fault" /\ c.status \in {"ok", "cancel_timeout"}
  BY DEF ClientReps
<1>2. ~SendsRequest(d)
  BY DEF Going, SendsRequest
<1>3. Sends(d)
  BY <1>1, <1>2 DEF Sends, Resumes
<1>4. Hears(d, k)
  BY <1>1 DEF Hears, Resumes
<1>5. GaveUp(c) => GaveUp(d)
  BY <1>1 DEF GaveUp, Resumes
<1>6. SentRequests(d) = c.nsent
  BY <1>2 DEF SentRequests, Resumes
<1> QED BY <1>3, <1>4, <1>5, <1>6 DEF Yields

\* The caller is told that call k was a success only if its manager has the request.
Settles(k) ==
  \A j \in Calls \ MaybeCalls : result'[j] = "ok" => result[j] = "ok" \/ (j = k /\ ex[k].gotlast)

\* The rest of rpc__cn_call_end
LEMMA FinishYields ==
  ASSUME ClientTypes, NEW b, NEW c, NEW k, c.call = k, Hears(c, k), NEW kk, Finish(c, kk)
  PROVE  Yields(b, cl', k) /\ Settles(k)
<1>1. PICK n \in ClientReps : n = NoCall /\ n.pc = "idle"
  <2>1. NoCall.pc = "idle"
    BY DEF NoCall
  <2> QED BY <2>1, NoCallType
<1>2. PICK a : cl' = [n EXCEPT !.call = c.call, !.rcvr = c.rcvr, !.ovf = c.ovf, !.assoc = a]
  BY <1>1 DEF Finish
<1>3. PICK d : /\ d = cl'
               /\ d = [n EXCEPT !.call = c.call, !.rcvr = c.rcvr, !.ovf = c.ovf, !.assoc = a]
  BY <1>2
<1>4. d.pc = "idle"
  BY <1>1, <1>3 DEF ClientReps
<1>5. PICK o : o = Outcome(c)
  OBVIOUS
<1>6. o = "ok" /\ ~Maybe(k) => ex[k].gotlast
  BY <1>5 DEF Outcome, Hears
<1>7. result' = [result EXCEPT ![k] = o] /\ result \in [Calls -> Outcomes]
  BY <1>5 DEF Finish, ClientTypes
<1>8. Settles(k)
  <2>1. ASSUME NEW j \in Calls \ MaybeCalls, result'[j] = "ok"
        PROVE  result[j] = "ok" \/ (j = k /\ ex[k].gotlast)
    <3>1. CASE j = k
      BY <1>6, <1>7, <2>1, <3>1 DEF Maybe
    <3>2. CASE j # k
      BY <1>7, <2>1, <3>2
    <3> QED BY <3>1, <3>2
  <2> QED BY <2>1 DEF Settles
<1> QED BY <1>3, <1>4, <1>8 DEF Yields

\* rpc__cn_transmit_buffers: the next fragment
LEMMA TransmitYields ==
  ASSUME ClientTypes, AtStub, NEW k, Hears(cl, k), NEW last \in BOOLEAN, TransmitBuffers(last)
  PROVE  Yields(cl, cl', k)
<1>1. PICK c \in ClientReps : c = cl /\ c.pc = "stub" /\ c.err = "ok" /\ c.nsent \in Nat
  BY DEF ClientTypes, AtStub, ClientReps
<1>2. PICK n \in Nat : n = cl.nsent + 1
  BY <1>1
<1>3. PICK p : p = Request(cl.call, n, last, FirstAlert)
  OBVIOUS
<1>4. p.type = "request" /\ p.n = n
  BY <1>3 DEF Request, Packet
<1>5. PICK phase : phase = IF last THEN "out" ELSE "in"
  OBVIOUS
<1>6. PICK then : then = IF last /\ ~Maybe(cl.call) THEN "recv" ELSE "stub"
  OBVIOUS
<1>7. PICK e : e = [c EXCEPT !.nsent = n, !.phase = phase]
  OBVIOUS
<1>8. cl' = BeginSend(e, p, then)
  <2>1. [cl EXCEPT !.nsent = @ + 1, !.phase = phase] = e
    BY <1>1, <1>2, <1>7 DEF ClientReps
  <2> QED BY <1>2, <1>3, <1>5, <1>6, <2>1 DEF TransmitBuffers
<1>9. PICK d : /\ d = cl'
               /\ d = [e EXCEPT !.pc = "send", !.sending = p, !.then = then, !.failed = FALSE]
  BY <1>8 DEF BeginSend
<1>10. d.pc = "send" /\ d.sending = p /\ d.nsent = n
  BY <1>7, <1>9 DEF ClientReps
<1>11. d.err = c.err /\ d.msgs = c.msgs /\ d.gotlast = c.gotlast
  BY <1>7, <1>9 DEF ClientReps
<1>12. SentRequests(d) = c.nsent /\ SentRequests(c) = c.nsent
  BY <1>1, <1>2, <1>4, <1>10 DEF SentRequests, SendsRequest
<1>13. Sends(d)
  BY <1>1, <1>2, <1>4, <1>10, <1>11 DEF Sends, SendsRequest
<1>14. Hears(d, k)
  BY <1>1, <1>11 DEF Hears
<1>15. ~GaveUp(c) /\ ~GaveUp(d)
  BY <1>1, <1>11 DEF GaveUp
<1> QED BY <1>1, <1>9, <1>12, <1>13, <1>14, <1>15 DEF Yields

\* What the stub does of the call
LEMMA StubYields ==
  ASSUME ClientTypes, Orderly(cl), NEW k, Hears(cl, k), Heard(cl),
         \/ CallTransmitBuffers \/ CallTransmitSends \/ CallTransmitFailed
         \/ CallTransceive \/ CallTransceiveFailed \/ CallReceive
  PROVE  Yields(cl, cl', k) /\ result' = result
<1>0. result' = result
  BY DEF CallTransmitBuffers, CallTransmitSends, CallTransmitFailed, CallTransceive,
         CallTransceiveFailed, CallReceive
<1>1. PICK c \in ClientReps : c = cl /\ c.pc = "stub" /\ c.err = "ok" /\ AtStub
  BY DEF CallTransmitBuffers, CallTransmitSends, CallTransmitFailed, CallTransceive,
         CallTransceiveFailed, CallReceive, AtStub, ClientTypes
<1>2. ~GaveUp(c) /\ SentRequests(c) = c.nsent
  BY <1>1 DEF GaveUp, SentRequests, SendsRequest
<1>3. ASSUME NEW e \in ClientReps, e.nsent = c.nsent, e.err = "ok", e.msgs = c.msgs,
             e.gotlast = c.gotlast
      PROVE  Hears(e, k) /\ Heard(e) /\ (Going(e, cl') /\ Resumes(e, cl') => Yields(cl, cl', k))
  <2>1. Hears(e, k) /\ Heard(e)
    BY <1>1, <1>3 DEF Hears, Heard
  <2> QED BY <1>1, <1>2, <1>3, <2>1, ResumesYields
<1>4. CASE CallTransmitBuffers
  <2>1. PICK e : e = [c EXCEPT !.st = "REQUEST"]
    OBVIOUS
  <2>2. e \in ClientReps
    <3>1. "REQUEST" \in ClientCallStates
      BY ClientStates
    <3> QED BY <2>1, <3>1 DEF ClientReps
  <2>3. e.st = "REQUEST" /\ e.nsent = c.nsent /\ e.err = "ok"
    BY <1>1, <2>1 DEF ClientReps
  <2>4. e.msgs = c.msgs /\ e.gotlast = c.gotlast
    BY <2>1 DEF ClientReps
  <2>5. ForwardThen(e, canc, "stub") /\ Settled(e)
    BY <1>1, <1>4, <2>1, <2>3 DEF CallTransmitBuffers, Settled
  <2> QED BY <1>0, <1>3, <2>2, <2>3, <2>4, <2>5, ForwardGoing, ForwardResumes
<1>5. CASE CallTransmitSends
  <2>1. TransmitBuffers(FALSE)
    BY <1>5 DEF CallTransmitSends
  <2> QED BY <1>0, <1>1, <2>1, TransmitYields
<1>6. CASE CallTransmitFailed
  <2>1. ForwardThen(c, canc, "stub") /\ Settled(c)
    BY <1>1, <1>6 DEF CallTransmitFailed, Orderly, Settled
  <2> QED BY <1>0, <1>1, <1>3, <2>1, ForwardGoing, ForwardResumes
<1>7. CASE CallTransceive
  <2>1. TransmitBuffers(TRUE)
    BY <1>7 DEF CallTransceive
  <2> QED BY <1>0, <1>1, <2>1, TransmitYields
<1>8. CASE CallTransceiveFailed
  <2>1. CASE cl.status = "ok"
    <3>1. PICK e : e = [c EXCEPT !.phase = "out"]
      OBVIOUS
    <3>2. e \in ClientReps
      BY <3>1, SMTT(30) DEF ClientReps
    <3>3. e.st = c.st /\ e.nsent = c.nsent /\ e.err = "ok"
      BY <1>1, <3>1 DEF ClientReps
    <3>4. e.msgs = c.msgs /\ e.gotlast = c.gotlast
      BY <3>1 DEF ClientReps
    <3>5. ForwardThen(e, canc, "recv") /\ Settled(e)
      BY <1>1, <1>8, <2>1, <3>1, <3>3 DEF CallTransceiveFailed, Orderly, Settled
    <3> QED BY <1>0, <1>3, <3>2, <3>3, <3>4, <3>5, ForwardGoing, ForwardResumes
  <2>2. CASE cl.status # "ok"
    <3>1. PICK d : d = cl' /\ d = [c EXCEPT !.phase = "out", !.err = c.status]
      BY <1>1, <1>8, <2>2 DEF CallTransceiveFailed
    <3>2. d.pc = "stub" /\ d.err = c.status /\ d.status = c.status
      BY <1>1, <3>1 DEF ClientReps
    <3>3. d.msgs = c.msgs /\ d.gotlast = c.gotlast
      BY <3>1 DEF ClientReps
    <3>4. Sends(d) /\ GaveUp(d)
      BY <1>1, <2>2, <3>2 DEF Sends, SendsRequest, GaveUp
    <3>5. Hears(d, k)
      BY <1>1, <3>3 DEF Hears
    <3> QED BY <1>0, <3>1, <3>4, <3>5 DEF Yields
  <2> QED BY <2>1, <2>2
<1>9. CASE CallReceive
  <2>1. cl' = Receive(c)
    BY <1>1, <1>9 DEF CallReceive
  <2> QED BY <1>0, <1>1, <1>3, <2>1, ReceiveGoing, ReceiveResumes
<1> QED BY <1>4, <1>5, <1>6, <1>7, <1>8, <1>9

\* What follows a packet that went out, or did not
LEMMA AfterSendYields ==
  ASSUME ClientTypes, Orderly(cl), InSendmsg, Sends(cl), NEW k, k = cl.call, Hears(cl, k),
         Heard(cl), NEW c \in ClientReps, Unmoved(cl, c), c.status = cl.status, c.err = cl.err,
         c.msgs = cl.msgs, c.gotlast = cl.gotlast,
         cl.pc = "sent" \/ (cl.status # "ok" /\ c.failed),
         NEW kk, AfterSend(c, kk)
  PROVE  Yields(cl, cl', k) /\ Settles(k)
<1>1. /\ c.pc \in {"send", "sent"} /\ c.st = cl.st /\ c.call = k /\ c.pc = cl.pc
      /\ c.sending = cl.sending /\ c.nsent = cl.nsent /\ Orderly(c)
  BY DEF InSendmsg, Unmoved, Orderly
<1>2. Hears(c, k) /\ Heard(c) /\ (c.sending.type # "orphaned" => c.err # "fault")
  BY <1>1 DEF Hears, Heard, Sends
<1>3. result' = result => Settles(k)
  BY DEF Settles
<1>4. ASSUME NEW e \in ClientReps, e.msgs = c.msgs, e.gotlast = c.gotlast, c.err # "fault",
             e.err # "fault", ~GaveUp(e) => ~GaveUp(cl) /\ SentRequests(cl) = e.nsent
      PROVE  Heard(e) /\ (Going(e, cl') /\ Resumes(e, cl') => Yields(cl, cl', k))
  <2>1. Hears(e, k) /\ Heard(e)
    BY <1>2, <1>4 DEF Hears, Heard
  <2> QED BY <1>4, <2>1, ResumesYields
<1>5. CASE c.sending.type = "alert"
  <2>1. PICK e : e = [c EXCEPT !.err = c.status]
    OBVIOUS
  <2>2. e \in ClientReps
    <3>1. c.status \in {"ok", "cancel_timeout"}
      BY DEF ClientReps
    <3> QED BY <2>1, <3>1, ClientFields
  <2>3. e.st = c.st /\ e.nsent = c.nsent /\ e.status = c.status /\ e.err = c.status
    BY <2>1 DEF ClientReps
  <2>4. e.msgs = c.msgs /\ e.gotlast = c.gotlast /\ c.status # "fault"
    BY <2>1 DEF ClientReps
  <2>5. (\E j : ForwardThen(e, j, c.then)) /\ result' = result
    BY <1>5, <2>1 DEF AfterSend
  <2>6. PICK j : ForwardThen(e, j, c.then)
    BY <2>5
  <2>7. Settled(e)
    BY <1>1, <1>5, <2>3 DEF Orderly, Settled
  <2>8. ~GaveUp(e) => ~GaveUp(cl) /\ SentRequests(cl) = e.nsent
    BY <1>1, <1>5, <2>3 DEF GaveUp, SentRequests, SendsRequest
  <2>9. Heard(e) /\ (Going(e, cl') /\ Resumes(e, cl') => Yields(cl, cl', k))
    BY <1>2, <1>4, <1>5, <2>2, <2>3, <2>4, <2>8
  <2> QED BY <1>3, <2>2, <2>5, <2>6, <2>7, <2>9, ForwardGoing, ForwardResumes
<1>6. CASE c.sending.type = "orphaned"
  <2>1. PICK e : e = [c EXCEPT !.st = "FAILED"] /\ Finish(e, kk)
    BY <1>6 DEF AfterSend
  <2>2. e.call = k /\ e.msgs = c.msgs /\ e.gotlast = c.gotlast /\ e.err = c.err
    BY <1>1, <2>1 DEF ClientReps
  <2>3. Hears(e, k)
    BY <1>2, <2>2 DEF Hears
  <2> QED BY <2>1, <2>2, <2>3, FinishYields
<1>7. CASE c.sending.type = "request" /\ ~c.sending.last
  <2>1. PICK err : err = IF ~c.failed THEN c.err ELSE IF c.status # "ok" THEN c.status ELSE "closed"
    OBVIOUS
  <2>2. PICK e : e = [c EXCEPT !.st = "REQUEST", !.err = err]
    OBVIOUS
  <2>3. ForwardThen(e, kk, "stub") /\ result' = result
    BY <1>7, <2>1, <2>2 DEF AfterSend
  <2>4. e \in ClientReps
    <3>1. "REQUEST" \in ClientCallStates /\ err \in {"ok", "fault", "closed", "cancel_timeout"}
      BY <2>1, ClientStates DEF ClientReps
    <3> QED BY <2>2, <3>1 DEF ClientReps
  <2>5. e.st = "REQUEST" /\ e.nsent = c.nsent /\ e.status = c.status /\ e.err = err
    BY <2>2 DEF ClientReps
  <2>6. e.msgs = c.msgs /\ e.gotlast = c.gotlast /\ c.status # "fault"
    BY <2>2 DEF ClientReps
  <2>7. err # "fault"
    BY <1>2, <1>7, <2>1, <2>6
  <2>8. ~GaveUp(e) => ~GaveUp(cl) /\ SentRequests(cl) = e.nsent
    BY <1>1, <1>7, <2>1, <2>5 DEF GaveUp, SentRequests, SendsRequest
  <2>9. Heard(e) /\ (Going(e, cl') /\ Resumes(e, cl') => Yields(cl, cl', k))
    BY <1>2, <1>4, <1>7, <2>4, <2>5, <2>6, <2>7, <2>8
  <2>10. Settled(e)
    BY <2>5 DEF Settled
  <2> QED BY <1>3, <2>3, <2>4, <2>9, <2>10, ForwardGoing, ForwardResumes
<1>8. CASE c.sending.type = "request" /\ c.sending.last
  <2>1. PICK st \in {"COMPLETED", "RESPONSE"} : st = IF Maybe(c.call) THEN "COMPLETED" ELSE "RESPONSE"
    OBVIOUS
  <2>2. PICK e : e = [c EXCEPT !.st = st]
    OBVIOUS
  <2>3. /\ IF c.status = "ok" THEN ForwardThen(e, kk, c.then)
           ELSE cl' = [e EXCEPT !.pc = "stub", !.err = c.status] /\ canc' = kk
        /\ result' = result
    BY <1>8, <2>1, <2>2 DEF AfterSend
  <2>4. e \in ClientReps
    <3>1. st \in ClientCallStates
      BY ClientStates
    <3> QED BY <2>2, <3>1 DEF ClientReps
  <2>5. e.st = st /\ e.nsent = c.nsent /\ e.status = c.status /\ e.err = c.err
    BY <2>2 DEF ClientReps
  <2>6. e.msgs = c.msgs /\ e.gotlast = c.gotlast /\ c.status # "fault"
    BY <2>2 DEF ClientReps
  <2>7. CASE c.status = "ok"
    <3>1. Settled(e)
      BY <2>5 DEF Settled
    <3>2. ~GaveUp(cl) /\ SentRequests(cl) = e.nsent
      BY <1>1, <2>5, <2>7 DEF GaveUp, SentRequests, SendsRequest
    <3>3. Heard(e) /\ (Going(e, cl') /\ Resumes(e, cl') => Yields(cl, cl', k))
      BY <1>2, <1>4, <1>8, <2>4, <2>5, <2>6, <3>2
    <3> QED BY <1>3, <2>3, <2>4, <2>7, <3>1, <3>3, ForwardGoing, ForwardResumes
  <2>8. CASE c.status # "ok"
    <3>1. PICK d : d = cl' /\ d = [e EXCEPT !.pc = "stub", !.err = c.status]
      BY <2>3, <2>8
    <3>2. d.pc = "stub" /\ d.err = c.status /\ d.status = c.status
      BY <2>4, <2>5, <3>1 DEF ClientReps
    <3>3. d.msgs = c.msgs /\ d.gotlast = c.gotlast
      BY <2>4, <2>6, <3>1 DEF ClientReps
    <3>4. Sends(d) /\ GaveUp(d)
      BY <2>6, <2>8, <3>2 DEF Sends, SendsRequest, GaveUp
    <3>5. Hears(d, k)
      BY <1>2, <1>8, <3>3 DEF Hears
    <3> QED BY <1>3, <2>3, <3>1, <3>4, <3>5 DEF Yields
  <2> QED BY <2>7, <2>8
<1>9. c.sending.type \in {"alert", "orphaned", "request"}
  BY <1>1 DEF ClientTypes, Sendable
<1> QED BY <1>5, <1>6, <1>7, <1>8, <1>9

\* The thread waits, or takes the lock again.
LEMMA WaitYields ==
  ASSUME ClientTypes, Orderly(cl), Sends(cl), NEW k, k = cl.call, Hears(cl, k), Heard(cl),
         Sent \/ SendmsgCancelled \/ Awake \/ SleepCancelled
  PROVE  Yields(cl, cl', k) /\ Settles(k)
<1>1. PICK c \in ClientReps : c = cl
  BY DEF ClientTypes
<1>2. result' = result => Settles(k)
  BY DEF Settles
<1>3. CASE Sent
  <2>1. PICK d : d = IF cl.failed THEN [cl EXCEPT !.astat = "closed"] ELSE cl
    OBVIOUS
  <2>2. d = c \/ d = [c EXCEPT !.astat = "closed"]
    BY <1>1, <2>1
  <2>3. d \in ClientReps
    BY <2>2, ClientFields
  <2>4. d.pc = c.pc /\ d.call = c.call /\ d.link = c.link /\ d.st = c.st /\ d.phase = c.phase
    BY <2>2 DEF ClientReps
  <2>5. d.nsent = c.nsent /\ d.sending = c.sending /\ d.fatal = c.fatal
    BY <2>2 DEF ClientReps
  <2>6. d.status = c.status /\ d.err = c.err /\ d.msgs = c.msgs /\ d.gotlast = c.gotlast
    BY <2>2 DEF ClientReps
  <2>7. Unmoved(cl, d) /\ AfterSend(d, canc) /\ InSendmsg /\ cl.pc = "sent"
    BY <1>1, <1>3, <2>1, <2>4, <2>5 DEF Unmoved, Sent, InSendmsg
  <2> QED BY <1>1, <2>3, <2>6, <2>7, AfterSendYields
<1>4. CASE SendmsgCancelled
  <2>1. CASE cl.status = "ok"
    <3>1. cl' = c /\ result' = result
      BY <1>1, <1>4, <2>1 DEF SendmsgCancelled
    <3>2. Yields(c, c, k)
      BY <1>1 DEF Yields
    <3> QED BY <1>1, <1>2, <3>1, <3>2
  <2>2. CASE cl.status # "ok"
    <3>1. PICK d : d = [c EXCEPT !.failed = TRUE]
      OBVIOUS
    <3>2. d \in ClientReps
      BY <3>1 DEF ClientReps
    <3>3. d.pc = c.pc /\ d.call = c.call /\ d.link = c.link /\ d.st = c.st /\ d.phase = c.phase
      BY <3>1 DEF ClientReps
    <3>4. d.nsent = c.nsent /\ d.sending = c.sending /\ d.fatal = c.fatal
      BY <3>1 DEF ClientReps
    <3>5. /\ d.status = c.status /\ d.err = c.err /\ d.msgs = c.msgs /\ d.gotlast = c.gotlast
          /\ d.failed
      BY <3>1 DEF ClientReps
    <3>6. PICK kk : AfterSend(d, kk)
      BY <1>1, <1>4, <2>2, <3>1 DEF SendmsgCancelled
    <3>7. Unmoved(cl, d) /\ InSendmsg
      BY <1>1, <1>4, <3>3, <3>4 DEF Unmoved, SendmsgCancelled, InSendmsg
    <3> QED BY <1>1, <2>2, <3>2, <3>5, <3>6, <3>7, AfterSendYields
  <2> QED BY <2>1, <2>2
<1>5. CASE Awake \/ SleepCancelled
  <2>1. c.pc = "sleep" /\ result' = result
    BY <1>1, <1>5 DEF Awake, SleepCancelled
  <2>2. Settled(c) /\ c.err # "fault" /\ SentRequests(c) = c.nsent
    BY <1>1, <2>1 DEF Orderly, Settled, Sends, SentRequests, SendsRequest
  <2>3. Going(c, cl') /\ Resumes(c, cl') => Yields(c, cl', k)
    BY <1>1, <2>2, ResumesYields
  <2>4. CASE Awake
    <3>1. cl' = Receive(c)
      BY <1>1, <2>4 DEF Awake
    <3> QED BY <1>1, <1>2, <2>1, <2>3, <3>1, ReceiveGoing, ReceiveResumes
  <2>5. CASE SleepCancelled /\ cl.status = "ok"
    <3>1. PICK kk : ForwardThen(c, kk, "recv")
      BY <1>1, <2>5 DEF SleepCancelled
    <3> QED BY <1>1, <1>2, <2>1, <2>2, <2>3, <3>1, ForwardGoing, ForwardResumes
  <2>6. CASE SleepCancelled /\ cl.status # "ok"
    <3>1. PICK d : d = cl' /\ d = [c EXCEPT !.pc = "stub", !.err = c.status]
      BY <1>1, <2>6 DEF SleepCancelled
    <3>2. d.pc = "stub" /\ d.err = c.status /\ d.status = c.status
      BY <3>1 DEF ClientReps
    <3>3. d.msgs = c.msgs /\ d.gotlast = c.gotlast
      BY <3>1 DEF ClientReps
    <3>4. Sends(d) /\ GaveUp(d)
      BY <1>1, <2>6, <3>2 DEF Sends, SendsRequest, GaveUp
    <3>5. Hears(d, k)
      BY <1>1, <2>2, <3>3 DEF Hears
    <3> QED BY <1>2, <2>1, <3>1, <3>4, <3>5 DEF Yields
  <2> QED BY <1>5, <2>4, <2>5, <2>6
<1> QED BY <1>3, <1>4, <1>5

\* rpc_call_end
LEMMA EndYields ==
  ASSUME ClientTypes, Sends(cl), NEW k, k = cl.call, Hears(cl, k), CallEnd
  PROVE  Yields(cl, cl', k) /\ Settles(k)
<1>1. CASE ~ClientDoes(cl.st, "end", "abort_send")
  BY <1>1, FinishYields DEF CallEnd
<1>2. CASE ClientDoes(cl.st, "end", "abort_send")
  <2>1. PICK c \in ClientReps : c = cl /\ c.pc = "stub"
    BY DEF ClientTypes, CallEnd
  <2>2. PICK p : p = Orphaned(cl.call)
    OBVIOUS
  <2>3. p.type = "orphaned"
    BY <2>2 DEF Orphaned, Packet
  <2>4. PICK d : /\ d = cl'
                 /\ d = [c EXCEPT !.pc = "send", !.sending = p, !.then = "end", !.failed = FALSE]
    BY <1>2, <2>1, <2>2 DEF CallEnd, BeginSend
  <2>5. d.pc = "send" /\ d.sending = p /\ d.nsent = c.nsent
    BY <2>4 DEF ClientReps
  <2>6. d.msgs = c.msgs /\ d.gotlast = c.gotlast
    BY <2>4 DEF ClientReps
  <2>7. d.err = c.err /\ d.status = c.status
    BY <2>4 DEF ClientReps
  <2>8. Sends(d) /\ SentRequests(d) = SentRequests(c)
    BY <2>1, <2>3, <2>5 DEF Sends, SentRequests, SendsRequest
  <2>9. Hears(d, k) /\ (GaveUp(d) <=> GaveUp(c))
    BY <2>1, <2>6, <2>7 DEF Hears, GaveUp
  <2>10. result' = result
    BY <1>2 DEF CallEnd
  <2> QED BY <2>1, <2>4, <2>8, <2>9, <2>10 DEF Yields, Settles
<1> QED BY <1>1, <1>2

\* A packet goes out: one fragment more.
LEMMA SendmsgYields ==
  ASSUME ClientTypes, Sends(cl), NEW k, k = cl.call, Hears(cl, k), Sendmsg
  PROVE  /\ Sends(cl') /\ Hears(cl', k) /\ result' = result
         /\ GaveUp(cl') <=> GaveUp(cl)
         /\ cl.nsent \in Nat /\ SentRequests(cl') = cl.nsent
         /\ cl.sending.type = "request"
              => /\ cl.sending.n = cl.nsent /\ SentRequests(cl) = cl.nsent - 1 /\ ~GaveUp(cl)
         /\ cl.sending.type # "request" => SentRequests(cl) = cl.nsent
<1>1. PICK c \in ClientReps : c = cl /\ c.pc = "send" /\ c.nsent \in Nat
  BY DEF ClientTypes, Sendmsg, ClientReps
<1>2. PICK f : cl' = [c EXCEPT !.pc = "sent", !.failed = f]
  <2>1. [c EXCEPT !.pc = "sent"] = [c EXCEPT !.pc = "sent", !.failed = c.failed]
    BY DEF ClientReps
  <2> QED BY <1>1, <2>1 DEF Sendmsg
<1>3. PICK d : d = cl' /\ d = [c EXCEPT !.pc = "sent", !.failed = f]
  BY <1>2
<1>4. d.pc = "sent" /\ d.sending = c.sending /\ d.nsent = c.nsent
  BY <1>3 DEF ClientReps
<1>5. d.msgs = c.msgs /\ d.gotlast = c.gotlast
  BY <1>3 DEF ClientReps
<1>6. d.err = c.err /\ d.status = c.status
  BY <1>3 DEF ClientReps
<1>7. Sends(d) /\ Hears(d, k) /\ (GaveUp(d) <=> GaveUp(c))
  BY <1>1, <1>4, <1>5, <1>6 DEF Sends, SendsRequest, Hears, GaveUp
<1>8. SentRequests(d) = c.nsent
  BY <1>4 DEF SentRequests, SendsRequest
<1>9. c.sending.type = "request"
        => c.sending.n = c.nsent /\ SentRequests(c) = c.nsent - 1 /\ ~GaveUp(c)
  BY <1>1 DEF Sends, SendsRequest, SentRequests, GaveUp
<1>10. c.sending.type # "request" => SentRequests(c) = c.nsent
  BY DEF SendsRequest, SentRequests
<1>11. result' = result
  BY DEF Sendmsg
<1> QED BY <1>1, <1>3, <1>7, <1>8, <1>9, <1>10, <1>11

\* What the server has does not change by a step of the client.
LEMMA ClientKeepsServer ==
  ASSUME CallInv, OwnInv, ServerKeeps, up' => up, Shortens(s2c, s2c'),
         ~sv.overlap => Requests' /\ Caller'
  PROVE  OwnInv'
<1>1. sv' = sv /\ ex' = ex /\ seen' = seen
  BY DEF ServerKeeps, serverVars
<1>2. OwnTypes'
  BY <1>1 DEF OwnInv, OwnTypes
<1> SUFFICES ASSUME ~sv.overlap
             PROVE  (Queue(sv) /\ Told /\ \A k \in Calls : Replies(ex[k]))'
  BY <1>1, <1>2 DEF OwnInv
<1>3. Queue(sv) /\ Told /\ \A k \in Calls : Replies(ex[k])
  BY DEF OwnInv
<1>4. Queue(sv)'
  BY <1>1, <1>3 DEF Queue
<1>5. \A k \in Calls : Replies(ex[k])'
  BY <1>1, <1>3 DEF Replies
<1>6. Told'
  <2>1. s2c \in Seq(Packets)
    BY DEF CallInv, WireTypes
  <2>2. PICK d \in Nat : Later(s2c, s2c', d)
    BY <2>1, ShorterPackets
  <2> QED BY <1>1, <1>3, <2>2 DEF Told, Later
<1> QED BY <1>4, <1>5, <1>6

\* What the caller knows of its call, when it goes on with it
LEMMA CallerTold ==
  ASSUME Caller, ServerKeeps, NEW k, InCall' => cl'.call = k /\ Sends(cl') /\ Hears(cl', k),
         Settles(k)
  PROVE  Caller'
<1>1. ex' = ex
  BY DEF ServerKeeps, serverVars
<1>2. InCall' => (Sends(cl) /\ Hears(cl, cl.call))'
  BY <1>1 DEF Sends, Hears, SendsRequest, Ends
<1>3. \A j \in Calls \ MaybeCalls : result'[j] = "ok" => ex'[j].gotlast
  BY <1>1 DEF Caller, Settles
<1> QED BY <1>2, <1>3 DEF Caller

\* The caller's requests, when the server stays where it is
LEMMA CallerRequests ==
  ASSUME ServerKeeps,
         \A j \in Calls : \E a, b \in Nat :
           /\ Runs("request", c2s', j, a, b) /\ Owned(j, a)
           /\ InCall' /\ cl'.call = j /\ up' /\ ~GaveUp(cl') => b = SentRequests(cl')
  PROVE  Requests'
<1>1. sv' = sv /\ ex' = ex /\ seen' = seen
  BY DEF ServerKeeps, serverVars
<1>2. ASSUME NEW j \in Calls
      PROVE  \E a, b \in Nat :
               /\ Runs("request", c2s', j, a, b) /\ Owned(j, a)'
               /\ (InCall /\ cl.call = j /\ up /\ ~GaveUp(cl))' => b = SentRequests(cl')
  <2>1. PICK a, b \in Nat :
          /\ Runs("request", c2s', j, a, b) /\ Owned(j, a)
          /\ InCall' /\ cl'.call = j /\ up' /\ ~GaveUp(cl') => b = SentRequests(cl')
    OBVIOUS
  <2>2. Owned(j, a)'
    BY <1>1, <2>1 DEF Owned, InOrder, Follows, CanRead
  <2>3. (InCall /\ cl.call = j /\ up /\ ~GaveUp(cl))' => b = SentRequests(cl')
    BY <2>1 DEF GaveUp
  <2> QED BY <2>1, <2>2, <2>3
<1> QED BY <1>2 DEF Requests, Runs, Hits, SentRequests, SendsRequest

\* Only sendmsg puts a packet on the wire.
LEMMA OnlySendmsg ==
  ASSUME CallerStep, ~Sendmsg
  PROVE  c2s' = c2s
BY DEF CallerStep, CallTransmitBuffers, CallTransmitSends, CallTransmitFailed, CallTransceive,
   CallTransceiveFailed, CallReceive, Sent, SendmsgCancelled, Awake, SleepCancelled, CallEnd, wireVars

\* A step of the calling thread
LEMMA CallerKeepsOwn ==
  ASSUME CallInv, LegalInv, OwnInv, CallerStep, ServerKeeps
  PROVE  OwnInv'
<1>1. /\ ClientTypes /\ Orderly(cl) /\ c2s \in Seq(Packets) /\ up \in BOOLEAN
      /\ \A j \in Calls : j \in Nat
  BY WireAssumption DEF CallInv, LegalInv, WireTypes, Calls
<1>2. CallerWire
  BY <1>1, CallerSteps
<1>3. InCall /\ Alive /\ up' = up /\ s2c' = s2c
  BY <1>2 DEF CallerWire
<1>4. PICK k \in Calls : k = cl.call
  BY <1>1, <1>3 DEF ClientTypes, ClientReps, Calls
<1>5. Heard(cl)
  <2>1. Dummy.last = FALSE
    BY DEF Dummy, Packet
  <2> QED BY <1>3, <2>1 DEF CallInv, Stream, Queued, Heard
<1> SUFFICES ASSUME ~sv.overlap
             PROVE  Requests' /\ Caller'
  BY <1>3, ClientKeepsServer DEF Shortens
<1>6. Requests /\ Caller /\ Sends(cl) /\ Hears(cl, k)
  BY <1>3, <1>4 DEF OwnInv, Caller
<1>7. CASE ~Sendmsg
  <2>1. c2s' = c2s
    BY <1>7, OnlySendmsg
  <2>2. Yields(cl, cl', k) /\ Settles(k)
    <3>1. CASE \/ CallTransmitBuffers \/ CallTransmitSends \/ CallTransmitFailed
               \/ CallTransceive \/ CallTransceiveFailed \/ CallReceive
      BY <1>1, <1>5, <1>6, <3>1, StubYields DEF Settles
    <3>2. CASE Sent \/ SendmsgCancelled \/ Awake \/ SleepCancelled
      BY <1>1, <1>4, <1>5, <1>6, <3>2, WaitYields
    <3>3. CASE CallEnd
      BY <1>1, <1>4, <1>6, <3>3, EndYields
    <3> QED BY <1>7, <3>1, <3>2, <3>3 DEF CallerStep
  <2>3. Turned(cl, cl')
    BY <1>1, <1>7, StubTurns, WaitTurns, EndTurns DEF CallerStep
  <2>4. InCall' => cl'.call = k /\ Sends(cl') /\ Hears(cl', k)
    BY <1>4, <2>2, <2>3 DEF Turned, Yields, InCall
  <2>5. Caller'
    BY <1>6, <2>2, <2>4, CallerTold
  <2>6. ASSUME NEW j \in Calls
        PROVE  \E a, b \in Nat :
                 /\ Runs("request", c2s', j, a, b) /\ Owned(j, a)
                 /\ InCall' /\ cl'.call = j /\ up' /\ ~GaveUp(cl') => b = SentRequests(cl')
    <3>1. PICK a, b \in Nat :
            /\ Runs("request", c2s, j, a, b) /\ Owned(j, a)
            /\ InCall /\ cl.call = j /\ up /\ ~GaveUp(cl) => b = SentRequests(cl)
      BY <1>6 DEF Requests
    <3>2. InCall' /\ ~GaveUp(cl') => ~GaveUp(cl) /\ SentRequests(cl') = SentRequests(cl)
      BY <2>2 DEF Yields, InCall
    <3>3. InCall' /\ cl'.call = j /\ up' /\ ~GaveUp(cl') => b = SentRequests(cl')
      BY <1>3, <1>4, <2>4, <3>1, <3>2
    <3> QED BY <2>1, <3>1, <3>3
  <2>7. Requests'
    BY <2>6, CallerRequests
  <2> QED BY <2>5, <2>7
<1>8. CASE Sendmsg
  <2>1. /\ Sends(cl') /\ Hears(cl', k) /\ result' = result
        /\ GaveUp(cl') <=> GaveUp(cl)
        /\ cl.nsent \in Nat /\ SentRequests(cl') = cl.nsent
        /\ cl.sending.type = "request"
             => /\ cl.sending.n = cl.nsent /\ SentRequests(cl) = cl.nsent - 1 /\ ~GaveUp(cl)
        /\ cl.sending.type # "request" => SentRequests(cl) = cl.nsent
    BY <1>1, <1>4, <1>6, <1>8, SendmsgYields
  <2>2. cl'.call = k
    <3>1. PICK c \in ClientReps : c = cl
      BY <1>1 DEF ClientTypes
    <3>2. PICK f : cl' = [c EXCEPT !.pc = "sent", !.failed = f]
      <4>1. [c EXCEPT !.pc = "sent"] = [c EXCEPT !.pc = "sent", !.failed = c.failed]
        BY DEF ClientReps
      <4> QED BY <1>8, <3>1, <4>1 DEF Sendmsg
    <3> QED BY <1>4, <3>1, <3>2 DEF ClientReps
  <2>3. Caller'
    BY <1>6, <2>1, <2>2, CallerTold DEF Settles
  <2>4. PICK p \in Packets : p = cl.sending /\ p.call = k
    BY <1>1, <1>4, <1>8 DEF Sendmsg, InSendmsg, ClientTypes, ClientReps, Sendable
  <2>5. ASSUME NEW j \in Calls
        PROVE  \E a, b \in Nat :
                 /\ Runs("request", c2s', j, a, b) /\ Owned(j, a)
                 /\ InCall' /\ cl'.call = j /\ up' /\ ~GaveUp(cl') => b = SentRequests(cl')
    <3>1. PICK a, b \in Nat :
            /\ Runs("request", c2s, j, a, b) /\ Owned(j, a)
            /\ InCall /\ cl.call = j /\ up /\ ~GaveUp(cl) => b = SentRequests(cl)
      BY <1>6 DEF Requests
    <3>2. CASE ~up
      <4>1. c2s' = c2s
        BY <1>8, <3>2 DEF Sendmsg
      <4>2. ~up'
        BY <1>3, <3>2
      <4> QED BY <3>1, <4>1, <4>2
    <3>3. CASE up
      <4>1. c2s' = Append(c2s, p)
        BY <1>8, <2>4, <3>3 DEF Sendmsg
      <4>2. CASE p.type = "request" /\ j = k
        <5>1. b = cl.nsent - 1 /\ p.n = cl.nsent
          BY <1>3, <1>4, <2>1, <2>4, <3>1, <3>3, <4>2
        <5>2. p.n = b + 1 /\ b + 1 \in Nat /\ b + 1 = SentRequests(cl')
          BY <2>1, <5>1
        <5>3. Runs("request", Append(c2s, p), j, a, b + 1)
          BY <1>1, <2>4, <3>1, <4>2, <5>2, RunsAppend
        <5>4. Runs("request", c2s', j, a, b + 1)
          BY <4>1, <5>3
        <5> QED BY <3>1, <5>2, <5>4
      <4>3. CASE ~(p.type = "request" /\ j = k)
        <5>1. Runs("request", Append(c2s, p), j, a, b)
          BY <1>1, <2>4, <3>1, <4>3, RunsAppendOther
        <5>2. Runs("request", c2s', j, a, b)
          BY <4>1, <5>1
        <5>3. cl'.call = j /\ ~GaveUp(cl') => b = SentRequests(cl')
          BY <1>3, <1>4, <2>1, <2>2, <2>4, <3>1, <3>3, <4>3
        <5> QED BY <3>1, <5>2, <5>3
      <4> QED BY <4>2, <4>3
    <3> QED BY <1>1, <3>2, <3>3
  <2>6. Requests'
    BY <2>5, CallerRequests
  <2> QED BY <2>3, <2>6
<1> QED BY <1>7, <1>8

-----------------------------------------------------------------------------
(* The other steps of the client *)

\* A packet comes in: what ends a call the server said of it.
LEMMA ReceivesKeepsOwn ==
  ASSUME CallInv, LegalInv, Ahead, OwnInv, ClientReceives, ServerKeeps
  PROVE  OwnInv'
<1>1. /\ s2c \in Seq(Packets) /\ ClientTypes /\ Receivable /\ s2c # <<>>
      /\ s2c' = Tail(s2c) /\ c2s' = c2s /\ up' = up /\ result' = result
  BY ReceivesFrom DEF CallInv, ClientReceives
<1> SUFFICES ASSUME ~sv.overlap
             PROVE  Requests' /\ Caller'
  BY <1>1, ClientKeepsServer DEF Shortens
<1>2. Requests /\ Caller /\ Told
  BY DEF OwnInv
<1>3. PICK p \in Packets : p = Head(s2c) /\ p = s2c[1] /\ 1 \in 1..Len(s2c)
  BY <1>1, TailPackets
<1>4. PICK c \in ClientReps : Beside(cl, c) /\ Handles(c, p)
  BY <1>3, ReceivesFrom
<1>5. CASE ~ForCall(p)
  <2>1. cl' = c
    BY <1>4, <1>5 DEF Handles
  <2>2. cl'.pc = cl.pc /\ cl'.call = cl.call /\ SentRequests(cl') = SentRequests(cl)
        /\ (GaveUp(cl') <=> GaveUp(cl)) /\ (Sends(cl) => Sends(cl'))
    BY <1>4, <2>1 DEF Beside, SentRequests, SendsRequest, GaveUp, Sends
  <2>5. \A k : Hears(cl, k) => Hears(cl', k)
    BY <1>4, <2>1 DEF Beside, Hears
  <2>6. Requests'
    BY <1>1, <1>2, <2>2, CallerRequests DEF Requests, InCall
  <2>3. InCall' => cl'.call = cl.call /\ Sends(cl') /\ Hears(cl', cl.call)
    BY <1>2, <2>2, <2>5 DEF Caller, InCall
  <2>4. Caller'
    BY <1>1, <1>2, <2>3, CallerTold DEF Settles
  <2> QED BY <2>4, <2>6
<1>6. CASE ForCall(p)
  <2>1. /\ InCall /\ cl.call \in Calls /\ p.call = cl.call
        /\ cl.st \in {"REQUEST", "RESPONSE"}
        /\ p.type = "response" => cl.st = "RESPONSE"
        /\ p.type \in {"response", "fault"}
    BY <1>1, <1>3, <1>6, ArrivesInTime, SMTT(30)
  <2>2. PICK k \in Calls : k = cl.call
    BY <2>1, SMTT(30)
  <2>3. PICK st, m : cl' = [c EXCEPT !.st = st, !.msgs = m] /\ m = Append(c.msgs, p)
    <3>1. CASE p.type = "response"
      <4>1. HandleRecvFrag(c, p)
        BY <1>4, <1>6, <2>1, <3>1, ReceiverDoes DEF Handles, ClientDoes
      <4> QED BY <4>1 DEF HandleRecvFrag
    <3>2. CASE p.type = "fault"
      <4>1. RaiseFault(c, p)
        BY <1>4, <1>6, <2>1, <3>2, ReceiverDoes DEF Handles, ClientDoes
      <4> QED BY <4>1 DEF RaiseFault
    <3> QED BY <2>1, <3>1, <3>2
  <2>4. PICK d : d = cl' /\ d = [c EXCEPT !.st = st, !.msgs = m]
    BY <2>3
  <2>5. d.pc = c.pc /\ d.call = c.call /\ d.nsent = c.nsent /\ d.sending = c.sending
    BY <2>4 DEF ClientReps
  <2>6. d.err = c.err /\ d.status = c.status /\ d.gotlast = c.gotlast /\ d.msgs = m
    BY <2>4 DEF ClientReps
  <2>14. /\ c.pc = cl.pc /\ c.call = cl.call /\ SentRequests(c) = SentRequests(cl)
         /\ (GaveUp(c) <=> GaveUp(cl)) /\ (Sends(cl) => Sends(c)) /\ (Hears(cl, k) => Hears(c, k))
    BY <1>4 DEF Beside, SentRequests, SendsRequest, GaveUp, Sends, Hears
  <2>7. SentRequests(d) = SentRequests(c) /\ (GaveUp(d) <=> GaveUp(c))
    BY <2>5, <2>6 DEF SentRequests, SendsRequest, GaveUp
  <2>8. Sends(c) /\ Hears(c, k)
    BY <1>2, <2>1, <2>2, <2>14 DEF Caller
  <2>9. Sends(d)
    BY <2>5, <2>6, <2>8 DEF Sends, SendsRequest
  <2>10. Hears(d, k)
    <3>1. Ends(p) => ex[k].gotlast
      BY <1>2, <1>3, <2>1, <2>2 DEF Told
    <3>2. \A i \in 1..Len(m) : m[i] = p \/ (i \in 1..Len(c.msgs) /\ m[i] = c.msgs[i])
      BY <2>3, AppendPackets DEF ClientReps
    <3>3. \A i \in 1..Len(m) : Ends(m[i]) => ex[k].gotlast
      BY <2>8, <3>1, <3>2 DEF Hears
    <3> QED BY <2>6, <2>8, <3>3 DEF Hears
  <2>11. Caller'
    BY <1>1, <1>2, <2>2, <2>4, <2>5, <2>9, <2>10, <2>14, CallerTold DEF Settles
  <2>12. ASSUME NEW j \in Calls
         PROVE  \E a, b \in Nat :
                  /\ Runs("request", c2s', j, a, b) /\ Owned(j, a)
                  /\ InCall' /\ cl'.call = j /\ up' /\ ~GaveUp(cl') => b = SentRequests(cl')
    <3>1. PICK a, b \in Nat :
            /\ Runs("request", c2s, j, a, b) /\ Owned(j, a)
            /\ InCall /\ cl.call = j /\ up /\ ~GaveUp(cl) => b = SentRequests(cl)
      BY <1>2 DEF Requests
    <3> QED BY <1>1, <2>1, <2>4, <2>5, <2>7, <2>14, <3>1
  <2>13. Requests'
    BY <2>12, CallerRequests
  <2> QED BY <2>11, <2>13
<1> QED BY <1>5, <1>6

\* Steps that leave the calling thread and its call alone
LEMMA AsideKeepsOwn ==
  ASSUME CallInv, OwnInv, ServerKeeps,
         ClientDisconnects \/ PostCancel \/ TimerFires \/ CancelTimer
  PROVE  OwnInv'
<1>1. up' = up /\ c2s' = c2s /\ s2c' = s2c /\ result' = result
  BY DEF ClientDisconnects, PostCancel, TimerFires, CancelTimer, wireVars
<1> SUFFICES ASSUME ~sv.overlap
             PROVE  Requests' /\ Caller'
  BY <1>1, ClientKeepsServer DEF Shortens
<1>2. Requests /\ Caller
  BY DEF OwnInv
<1>3. PICK c \in ClientReps : c = cl
  BY DEF CallInv, ClientTypes
<1>4. PICK d : d = cl'
  OBVIOUS
<1>5. /\ d.pc = c.pc /\ d.call = c.call /\ d.nsent = c.nsent /\ d.sending = c.sending
      /\ d.err = c.err /\ d.gotlast = c.gotlast /\ (c.status # "ok" => d.status # "ok")
      /\ \A i \in 1..Len(d.msgs) :
           d.msgs[i] = Dummy \/ (i \in 1..Len(c.msgs) /\ d.msgs[i] = c.msgs[i])
  <2>1. CASE ClientDisconnects
    <3>1. PICK msgs : msgs = IF c.assoc = "ACTIVE" THEN Append(c.msgs, Dummy) ELSE c.msgs
      OBVIOUS
    <3>2. PICK assoc : d = [c EXCEPT !.rcvr = FALSE, !.astat = "closed", !.assoc = assoc,
                                     !.msgs = msgs]
      <4>1. PICK assoc : assoc = IF c.assoc = "ACTIVE" THEN "CALL_DONE_WAIT" ELSE "CLOSED"
        OBVIOUS
      <4>2. d = [c EXCEPT !.rcvr = FALSE, !.astat = "closed", !.assoc = assoc, !.msgs = msgs]
        BY <1>3, <1>4, <2>1, <3>1, <4>1 DEF ClientDisconnects, ClientReps
      <4> QED BY <4>2
    <3>3. d.pc = c.pc /\ d.call = c.call /\ d.nsent = c.nsent /\ d.sending = c.sending
      BY <3>2 DEF ClientReps
    <3>4. d.err = c.err /\ d.gotlast = c.gotlast /\ d.status = c.status /\ d.msgs = msgs
      BY <3>2 DEF ClientReps
    <3>5. \A i \in 1..Len(msgs) : msgs[i] = Dummy \/ (i \in 1..Len(c.msgs) /\ msgs[i] = c.msgs[i])
      <4>1. c.msgs \in Seq(Packets) /\ Dummy \in Packets
        BY DummyType DEF ClientReps
      <4> QED BY <3>1, <4>1, AppendPackets
    <3> QED BY <3>3, <3>4, <3>5
  <2>2. CASE CancelTimer
    <3>1. d = c \/ d = [c EXCEPT !.status = "cancel_timeout"]
      BY <1>3, <1>4, <2>2 DEF CancelTimer
    <3>2. d.pc = c.pc /\ d.call = c.call /\ d.nsent = c.nsent /\ d.sending = c.sending
      BY <3>1 DEF ClientReps
    <3>3. /\ d.err = c.err /\ d.gotlast = c.gotlast /\ d.msgs = c.msgs
          /\ d.status \in {c.status, "cancel_timeout"}
      BY <3>1 DEF ClientReps
    <3> QED BY <3>2, <3>3
  <2>3. CASE PostCancel \/ TimerFires
    BY <1>3, <1>4, <2>3 DEF PostCancel, TimerFires
  <2> QED BY <2>1, <2>2, <2>3
<1>6. SentRequests(d) = SentRequests(c) /\ (GaveUp(c) => GaveUp(d)) /\ (Sends(c) => Sends(d))
  BY <1>5 DEF SentRequests, SendsRequest, GaveUp, Sends
<1>7. \A k : Hears(c, k) => Hears(d, k)
  <2>1. ~Ends(Dummy)
    BY DEF Ends, Dummy, Packet
  <2> QED BY <1>5, <2>1 DEF Hears
<1>8. InCall' => cl'.call = cl.call /\ Sends(cl') /\ Hears(cl', cl.call)
  BY <1>2, <1>3, <1>4, <1>5, <1>6, <1>7 DEF Caller, InCall
<1>9. Caller'
  BY <1>1, <1>2, <1>8, CallerTold DEF Settles
<1>10. ASSUME NEW j \in Calls
       PROVE  \E a, b \in Nat :
                /\ Runs("request", c2s', j, a, b) /\ Owned(j, a)
                /\ InCall' /\ cl'.call = j /\ up' /\ ~GaveUp(cl') => b = SentRequests(cl')
  <2>1. PICK a, b \in Nat :
          /\ Runs("request", c2s, j, a, b) /\ Owned(j, a)
          /\ InCall /\ cl.call = j /\ up /\ ~GaveUp(cl) => b = SentRequests(cl)
    BY <1>2 DEF Requests
  <2> QED BY <1>1, <1>3, <1>4, <1>5, <1>6, <2>1 DEF InCall
<1>11. Requests'
  BY <1>10, CallerRequests
<1> QED BY <1>9, <1>11

\* A new call: nothing of its request is on the wire.
LEMMA CallStartKeepsOwn ==
  ASSUME CallInv, OwnInv, ServerKeeps, CallStart
  PROVE  OwnInv'
<1>1. up' = up /\ c2s' = c2s /\ s2c' = s2c /\ result' = result
  BY DEF CallStart, wireVars
<1> SUFFICES ASSUME ~sv.overlap
             PROVE  Requests' /\ Caller'
  BY <1>1, ClientKeepsServer DEF Shortens
<1>2. Requests /\ Caller
  BY DEF OwnInv
<1>3. cl.call \in Nat /\ cl.call < NCalls /\ NCalls \in Nat /\ c2s \in Seq(Packets)
  BY WireAssumption DEF CallInv, ClientTypes, ClientReps, CallStart, WireTypes
<1>4. PICK k \in Calls : k = cl.call + 1 /\ k > cl.call /\ k \in Nat
  BY <1>3 DEF Calls
<1>5. PICK d : d = cl' /\ d = [NoCall EXCEPT !.pc = "stub", !.call = k, !.st = "STUB_WAIT",
                                             !.assoc = "ACTIVE", !.link = k, !.rcvr = cl.rcvr,
                                             !.ovf = cl.ovf]
  BY <1>4 DEF CallStart
<1>6. /\ d.pc = "stub" /\ d.call = k /\ d.nsent = 0 /\ d.err = "ok" /\ d.msgs = <<>>
      /\ d.gotlast = FALSE
  BY <1>5 DEF NoCall
<1>7. Sends(d) /\ SentRequests(d) = 0
  BY <1>6 DEF Sends, SentRequests, SendsRequest
<1>8. Hears(d, k)
  BY <1>6 DEF Hears
<1>9. Caller'
  BY <1>1, <1>2, <1>5, <1>6, <1>7, <1>8, CallerTold DEF Settles
<1>10. ex[k].pc = "none" /\ \A i \in 1..Len(c2s) : c2s[i].call # k
  BY <1>3, <1>4 DEF CallInv, BeginsOnce
<1>11. ASSUME NEW j \in Calls
       PROVE  \E a, b \in Nat :
                /\ Runs("request", c2s', j, a, b) /\ Owned(j, a)
                /\ InCall' /\ cl'.call = j /\ up' /\ ~GaveUp(cl') => b = SentRequests(cl')
  <2>1. PICK a, b \in Nat : Runs("request", c2s, j, a, b) /\ Owned(j, a)
    BY <1>2 DEF Requests
  <2>2. CASE j # k
    BY <1>1, <1>5, <1>6, <2>1, <2>2
  <2>3. CASE j = k
    <3>1. a = 0
      BY <1>10, <2>1, <2>3 DEF Owned
    <3>2. Hits("request", c2s, j) = {}
      BY <1>10, <2>3 DEF Hits
    <3>3. Runs("request", c2s, j, 0, 0)
      BY <1>3, <1>4, <2>3, <3>2, RunsNone
    <3> QED BY <1>1, <1>5, <1>7, <2>1, <3>1, <3>3
  <2> QED BY <2>2, <2>3
<1>12. Requests'
  BY <1>11, CallerRequests
<1> QED BY <1>9, <1>12

\* The connection breaks: what was on it is there still.
LEMMA BreakKeepsOwn ==
  ASSUME CallInv, OwnInv, Break
  PROVE  OwnInv'
<1>1. ServerKeeps /\ ~up' /\ cl' = cl /\ result' = result /\ c2s' = c2s /\ s2c' = s2c
  BY DEF Break, ServerKeeps, clientVars
<1> SUFFICES ASSUME ~sv.overlap
             PROVE  Requests' /\ Caller'
  BY <1>1, ClientKeepsServer DEF Shortens
<1>2. Requests /\ Caller
  BY DEF OwnInv
<1>3. InCall' => cl'.call = cl.call /\ Sends(cl') /\ Hears(cl', cl.call)
  BY <1>1, <1>2 DEF Caller, InCall
<1>4. Caller'
  BY <1>1, <1>2, <1>3, CallerTold DEF Settles
<1>5. Requests'
  BY <1>1, <1>2, CallerRequests DEF Requests, InCall
<1> QED BY <1>4, <1>5

-----------------------------------------------------------------------------
(* Every manager its own request: the theorem *)

\* It holds at first: there is no call.
LEMMA OwnInvInit == Init => OwnInv
<1> SUFFICES ASSUME Init PROVE OwnInv
  OBVIOUS
<1>1. /\ c2s = <<>> /\ s2c = <<>> /\ ex = [k \in Calls |-> NoRep] /\ seen = [k \in Calls |-> <<>>]
      /\ sv.rcvr = "recv" /\ sv.assoc = "OPEN" /\ sv.astat = "ok" /\ sv.link = 0 /\ sv.msgs = <<>>
      /\ cl = NoCall /\ result = [k \in Calls |-> "none"]
  BY DEF Init, WireInit, ServerInit, ClientInit
<1>2. OwnTypes
  BY <1>1 DEF OwnTypes
<1>3. cl.pc = "idle"
  BY <1>1 DEF NoCall
<1>4. \A k \in Calls : ex[k].pc = "none" /\ ex[k].gotlast = FALSE
  BY <1>1 DEF NoRep
<1>5. ASSUME NEW k \in Calls
      PROVE  \E a, b \in Nat :
               /\ Runs("request", c2s, k, a, b) /\ Owned(k, a)
               /\ InCall /\ cl.call = k /\ up /\ ~GaveUp(cl) => b = SentRequests(cl)
  <2>1. k \in Nat /\ k # 0
    BY WireAssumption DEF Calls
  <2>2. Runs("request", c2s, k, 0, 0)
    BY <1>1, <2>1, RunsEmpty
  <2>3. Owned(k, 0)
    BY <1>1, <2>1 DEF Owned, InOrder
  <2> QED BY <1>3, <2>2, <2>3 DEF InCall
<1>6. Requests
  BY <1>5 DEF Requests
<1>7. Caller
  BY <1>1, <1>3 DEF Caller, InCall
<1>8. Queue(sv)
  BY <1>1 DEF Queue
<1>9. Told
  BY <1>1 DEF Told
<1>10. \A k \in Calls : Replies(ex[k])
  BY <1>4 DEF Replies
<1> QED BY <1>2, <1>6, <1>7, <1>8, <1>9, <1>10 DEF OwnInv

\* Every step keeps it.
LEMMA OwnInvNext == CallInv /\ LegalInv /\ Ahead /\ BlameInv /\ OwnInv /\ [Next]_vars => OwnInv'
<1> SUFFICES ASSUME CallInv, LegalInv, Ahead, BlameInv, OwnInv, [Next]_vars PROVE OwnInv'
  OBVIOUS
<1>1. CASE ClientStep /\ UNCHANGED serverVars
  <2>1. ServerKeeps
    BY <1>1 DEF ServerKeeps
  <2> QED BY <1>1, <2>1, CallStartKeepsOwn, CallerKeepsOwn, ReceivesKeepsOwn, AsideKeepsOwn
          DEF ClientStep, ClientReceiver
<1>2. CASE ServerStep /\ UNCHANGED clientVars
  BY <1>2, ServerKeepsOwn
<1>3. CASE Break
  BY <1>3, BreakKeepsOwn
<1>4. CASE UNCHANGED vars
  <2>1. /\ UNCHANGED wireVars /\ UNCHANGED clientVars /\ UNCHANGED serverVars
    BY <1>4 DEF vars
  <2>2. OwnTypes' <=> OwnTypes
    BY <2>1 DEF serverVars, OwnTypes
  <2>3. ServerKeeps /\ up' = up /\ c2s' = c2s /\ s2c' = s2c /\ cl' = cl /\ result' = result
    BY <2>1 DEF ServerKeeps, wireVars, clientVars
  <2>4. ASSUME ~sv.overlap
        PROVE  Requests' /\ Caller'
    <3>1. Requests /\ Caller
      BY <2>4 DEF OwnInv
    <3>2. Requests'
      BY <2>3, <3>1, CallerRequests DEF Requests, InCall
    <3>3. InCall' => cl'.call = cl.call /\ Sends(cl') /\ Hears(cl', cl.call)
      BY <2>3, <3>1 DEF Caller, InCall
    <3>4. Caller'
      BY <2>3, <3>1, <3>3, CallerTold DEF Settles
    <3> QED BY <3>2, <3>4
  <2> QED BY <2>3, <2>4, ClientKeepsServer DEF Shortens
<1> QED BY <1>1, <1>2, <1>3, <1>4 DEF Next

\* What the invariant says of the managers and of the caller
LEMMA OwnInvShows == OwnInv => OwnRequestUnlessOverlap
<1> SUFFICES ASSUME OwnInv, ~sv.overlap PROVE OwnRequestUnlessOverlap
  BY DEF OwnRequestUnlessOverlap
<1>1. Requests /\ Caller
  BY DEF OwnInv
<1>2. OwnRequest
  BY <1>1 DEF Requests, Owned, OwnRequest
<1>3. \A k \in Calls \ MaybeCalls : result[k] = "ok" => ex[k].gotlast
  BY <1>1 DEF Caller
<1> QED BY <1>2, <1>3 DEF OwnRequestUnlessOverlap

\* As long as no call starts on the association before the one before it has left it,
\* a manager is given the fragments of its own call, in order and without a gap, and a
\* caller that is told that its call succeeded knows that the manager had all of them
\* (rpc__cn_assoc_receive_frag, handle_first_frag_action_rtn and handle_frag_action_rtn
\* of cnsclsm.c), whatever is cancelled, faulted or orphaned and whenever the connection
\* breaks, for every number of calls, of fragments and of cancels.
THEOREM OwnRequestUnlessOverlapHolds == Spec => []OwnRequestUnlessOverlap
<1>1. Init => CallInv /\ LegalInv /\ Ahead /\ BlameInv /\ OwnInv
  BY CallInvInit, LegalInvInit, BlameInvInit, OwnInvInit
<1>2. CallInv /\ LegalInv /\ Ahead /\ BlameInv /\ OwnInv /\ [Next]_vars
        => (CallInv /\ LegalInv /\ Ahead /\ BlameInv /\ OwnInv)'
  BY CallInvNext, LegalInvNext, BlameInvNext, OwnInvNext
<1>3. OwnInv => OwnRequestUnlessOverlap
  BY OwnInvShows
<1> QED BY <1>1, <1>2, <1>3, PTL DEF Spec
=============================================================================
