---------------------------- MODULE DgTransferProofs ----------------------------
(***************************************************************************)
(* Proofs about DgTransfer for every length of message, every window,      *)
(* queue and blast size and any number of faults: no fragment is lost, and *)
(* the accounts of the congestion window are right.                        *)
(***************************************************************************)
EXTENDS DgTransfer, FiniteSetTheorems, TLAPS

-----------------------------------------------------------------------------
(* The invariant *)

XqReps ==
  [q : SUBSET Nat, unsent : Nat, next : Nat, re : SUBSET Nat, cw : SUBSET Nat,
   quiet : SUBSET Nat, sent : [AllFrags -> Int], ser : Int, cwindow : Int, freqs : Int,
   window : Int, blast : Nat, maxb : Nat, push : BOOLEAN, frag : BOOLEAN,
   awaiting : BOOLEAN, tries : Nat, resvs : Nat]

\* Fragments that were sent and are queued
Waiting(x) == {f \in x.q : f < x.unsent}

\* The transmit queue: what was not sent yet follows what was, and what is sent
\* again has left the window.
SendQueue(x) ==
  /\ x \in XqReps
  /\ x.unsent <= x.next /\ x.next <= len
  /\ x.q \subseteq 0..(x.next - 1) /\ x.unsent..(x.next - 1) \subseteq x.q
  /\ x.cw \cup x.re \subseteq Waiting(x) /\ x.cw \cap x.re = {}
  /\ x.push => x.next = len
  /\ x.next > 0 /\ ~x.frag => len = 1

\* The limit of a blast rises and falls by two.
Limits(x) ==
  /\ x.blast <= MaxBlast
  /\ x.maxb \in InitialMaxBlast..MaxBlast /\ (x.maxb - InitialMaxBlast) % 2 = 0

\* The accounts of the congestion window
Exact(x) == x.cwindow = Cardinality(x.cw) /\ x.freqs = Cardinality(x.cw \ x.quiet)

Sending == snd.pc \in {"fill", "push"}

SndReps ==
  [pc : {"fill", "push", "sent", "done", "failed"}, part : BOOLEAN, pinging : BOOLEAN,
   pings : Nat]

RqReps ==
  [q : SUBSET Nat, lasts : SUBSET Nat, ser : [AllFrags -> Int], next : Nat, high : Int,
   recving : BOOLEAN, all : BOOLEAN]

\* What has reached the receiver's queue
Received(r, got) == r.q \cup 0..(got - 1)

\* Fragment f may be taken for the last: those behind it have been received.
Ending(r, got, f) == (f + 1)..(len - 1) \subseteq Received(r, got)

\* The receive queue, of which got fragments were consumed
RecvQueue(r, got) ==
  /\ r \in RqReps
  /\ got <= r.next /\ r.next <= len
  /\ r.q \subseteq got..(len - 1) /\ r.q \subseteq got..(got + MaxQueue - 1)
  /\ got..(r.next - 1) \subseteq r.q /\ r.next \notin r.q
  /\ r.all => r.next = len
  /\ r.q # {} /\ ~r.recving => len = 1
  /\ \A f \in r.lasts : Ending(r, got, f)

RcvReps ==
  [pc : {"none", "recv", "over", "failed"}, resv : BOOLEAN, exec : BOOLEAN,
   valid : BOOLEAN, asleep : BOOLEAN, got : Nat, pings : Nat]

Pkts ==
  [type : {"data", "fack", "nocall", "ping", "empty nocall", "working", "over"},
   f : Nat, ser : Int, frag : BOOLEAN, last : BOOLEAN, ask : BOOLEAN,
   next : Nat, win : Nat, mask : SUBSET Nat]

Nets == [there : Seq(Pkts), back : Seq(Pkts)]

\* Packets to the receiver, when the first `next' fragments have been queued for sending
ThereOK(p, next, r, got) ==
  p.type = "data" =>
    /\ p.f < next /\ (p.frag \/ len = 1)
    /\ p.last => Ending(r, got, p.f)

\* Packets to the sender
BackOK(p, r, got) ==
  /\ p.type \in {"fack", "nocall"} => 0..(p.next - 1) \cup p.mask \subseteq Received(r, got)
  /\ p.type = "working" => r.all
  /\ p.type = "over" => got = len

\* Nothing that was queued is neither queued nor received.
Kept(x, r, got) == 0..(x.next - 1) \subseteq x.q \cup Received(r, got)

TransferInv ==
  /\ role \in Roles /\ len \in Lengths /\ faults \in 0..MaxFaults
  /\ net \in Nets
  /\ snd \in SndReps
  /\ SendQueue(xq) /\ Limits(xq)
  /\ Sending \/ xq.q # {} => Exact(xq)
  /\ rcv \in RcvReps /\ RecvQueue(rq, rcv.got)
  /\ rq.q \subseteq 0..(xq.next - 1)
  /\ rcv.pc = "over" => rcv.got = len
  /\ \A p \in Arriving("there") : ThereOK(p, xq.next, rq, rcv.got)
  /\ \A p \in Arriving("back") : BackOK(p, rq, rcv.got)
  /\ snd.pc # "failed" => Kept(xq, rq, rcv.got)
  /\ snd.pc = "done" => rcv.got = len

-----------------------------------------------------------------------------
(* Finite sets of numbers *)

\* How many elements of S are not greater than f
Rank(S, f) == Cardinality({g \in S : g <= f})

\* The elements of a finite set have the ranks 1, 2, ....
LEMMA Ranks ==
  ASSUME NEW S, IsFiniteSet(S), S \subseteq Int
  PROVE  /\ Cardinality(S) \in Nat
         /\ \A f \in S : Rank(S, f) \in 1..Cardinality(S)
         /\ \A f, g \in S : g < f => Rank(S, g) < Rank(S, f)
         /\ \A i \in 1..Cardinality(S) : \E f \in S : Rank(S, f) = i
<1> DEFINE low(f) == {g \in S : g <= f}
           T == 1..Cardinality(S)
           r == [f \in S |-> Rank(S, f)]
<1>1. Cardinality(S) \in Nat
  BY FS_CardinalityType
<1>2. ASSUME NEW f \in S
      PROVE  IsFiniteSet(low(f)) /\ Cardinality(low(f)) \in T
  <2>1. low(f) \in SUBSET S /\ f \in low(f)
    BY S \subseteq Int
  <2>2. IsFiniteSet(low(f)) /\ Cardinality(low(f)) <= Cardinality(S)
    BY <2>1, FS_Subset
  <2>3. Cardinality(low(f)) \in Nat /\ Cardinality(low(f)) # 0
    <3>1. Cardinality(low(f)) \in Nat
      BY <2>2, FS_CardinalityType
    <3>2. Cardinality(low(f)) # 0
      BY <2>1, <2>2, FS_EmptySet
    <3> QED BY <3>1, <3>2
  <2> QED BY <2>2, <2>3, <1>1
<1>3. ASSUME NEW f \in S, NEW g \in S, g < f
      PROVE  Rank(S, g) < Rank(S, f)
  <2>1. low(g) \in SUBSET low(f) /\ f \in low(f) /\ f \notin low(g)
    <3>1. \A h \in S : h \in Int
      BY S \subseteq Int
    <3>2. \A h \in low(g) : h \in low(f)
      BY <3>1, <1>3
    <3>3. f \in low(f) /\ f \notin low(g)
      BY <3>1, <1>3
    <3> QED BY <3>2, <3>3
  <2>2. /\ Cardinality(low(g)) <= Cardinality(low(f))
        /\ Cardinality(low(f)) = Cardinality(low(g)) => low(f) = low(g)
    BY <2>1, <1>2, FS_Subset
  <2> QED BY <2>1, <2>2, <1>1, <1>2 DEF Rank
<1>4. r \in Injection(S, T)
  <2>1. r \in [S -> T]
    BY <1>2 DEF Rank
  <2>2. ASSUME NEW f \in S, NEW g \in S, r[f] = r[g]
        PROVE  f = g
    <3>1. f \in Int /\ g \in Int /\ r[f] = Rank(S, f) /\ r[g] = Rank(S, g)
      BY S \subseteq Int
    <3>2. Rank(S, f) \in Nat
      BY <1>1, <1>2 DEF Rank
    <3> QED BY <3>1, <3>2, <2>2, <1>3
  <2> QED BY <2>1, <2>2 DEF Injection, IsInjective
<1>5. IsFiniteSet(T) /\ Cardinality(T) = Cardinality(S)
  BY <1>1, FS_Interval
<1>6. r \in Surjection(S, T)
  BY <1>4, <1>5, FS_Injection
<1>7. \A i \in T : \E f \in S : r[f] = i
  BY <1>6 DEF Surjection
<1> QED BY <1>1, <1>2, <1>3, <1>7 DEF Rank

\* A finite set that is not empty has a greatest and a least element.
LEMMA Extremes ==
  ASSUME NEW S, IsFiniteSet(S), S \subseteq Int, S # {}
  PROVE  /\ Max(S) \in S /\ \A g \in S : g <= Max(S)
         /\ Min(S) \in S /\ \A g \in S : Min(S) <= g
<1> DEFINE n == Cardinality(S)
<1>1. n \in Nat /\ n # 0
  BY FS_CardinalityType, FS_EmptySet
<1>0. /\ \A f \in S : Rank(S, f) \in 1..n
      /\ \A f, g \in S : g < f => Rank(S, g) < Rank(S, f)
      /\ \A i \in 1..n : \E f \in S : Rank(S, f) = i
  BY Ranks, Zenon
<1> HIDE DEF n
<1>2. PICK f \in S : Rank(S, f) = n
  BY <1>0, <1>1
<1>3. \A g \in S : g <= f
  <2>1. TAKE g \in S
  <2>2. f \in Int /\ g \in Int
    BY S \subseteq Int
  <2>3. ~(f < g)
    BY <1>0, <1>1, <1>2, <2>2
  <2> QED BY <2>2, <2>3
<1>4. PICK e \in S : Rank(S, e) = 1
  BY <1>0, <1>1
<1>5. \A g \in S : e <= g
  <2>1. TAKE g \in S
  <2>2. e \in Int /\ g \in Int /\ Rank(S, g) \in 1..n
    BY <1>0, S \subseteq Int
  <2>3. ~(g < e)
    BY <1>0, <1>1, <1>4, <2>2
  <2> QED BY <2>2, <2>3
<1>6. Max(S) \in S /\ \A g \in S : Max(S) >= g
  <2>1. \A g \in S : f >= g
    BY <1>3, S \subseteq Int
  <2> QED BY <2>1 DEF Max
<1>7. Min(S) \in S /\ \A g \in S : Min(S) <= g
  BY <1>5 DEF Min
<1> QED BY <1>6, <1>7, S \subseteq Int

\* The same of two numbers
LEMMA OfTwo ==
  ASSUME NEW a \in Int, NEW b \in Int
  PROVE  /\ Max({a, b}) = IF a >= b THEN a ELSE b
         /\ Min({a, b}) = IF a <= b THEN a ELSE b
<1>1. IsFiniteSet({a, b}) /\ {a, b} \subseteq Int
  <2>1. IsFiniteSet({a}) /\ {a, b} = {a} \cup {b}
    BY FS_Singleton
  <2>2. IsFiniteSet({a} \cup {b})
    BY <2>1, FS_AddElement
  <2> QED BY <2>1, <2>2
<1>2. /\ Max({a, b}) \in {a, b} /\ \A g \in {a, b} : g <= Max({a, b})
      /\ Min({a, b}) \in {a, b} /\ \A g \in {a, b} : Min({a, b}) <= g
  BY <1>1, Extremes
<1> QED BY <1>2

\* Numbers below a bound
LEMMA Bounded ==
  ASSUME NEW S \in SUBSET Nat, NEW n \in Nat, \A f \in S : f < n
  PROVE  IsFiniteSet(S) /\ S \subseteq Int /\ Cardinality(S) \in Nat
<1>1. \A f \in S : f <= n
  OBVIOUS
<1>2. IsFiniteSet(S)
  BY <1>1, FS_BoundedSetOfNaturals
<1> QED BY <1>2, FS_CardinalityType

\* Numbers from a to b
LEMMA Between ==
  ASSUME NEW a \in Int, NEW b \in Int, a <= b + 1
  PROVE  IsFiniteSet(a..b) /\ Cardinality(a..b) = b - a + 1
<1>1. IsFiniteSet(a..b) /\ Cardinality(a..b) = IF a > b THEN 0 ELSE b - a + 1
  BY FS_Interval
<1> QED BY <1>1

-----------------------------------------------------------------------------
(* The transmit queue *)

\* What may be sent again and what was not sent yet
LEMMA QueueParts ==
  ASSUME NEW x, SendQueue(x)
  PROVE  /\ x.re \subseteq Nat /\ x.unsent \in Nat /\ x.next \in Nat /\ x.blast \in Nat
         /\ \A f \in x.re : f < x.unsent
         /\ x.re \cup x.cw \cup Resendable(x) \subseteq x.q /\ x.q \subseteq Nat
         /\ Resendable(x) \cap x.cw = {} /\ x.re \cap x.unsent..(x.next - 1) = {}
         /\ \A f \in x.q : f < x.next
         /\ IsFiniteSet(x.q) /\ IsFiniteSet(x.re) /\ IsFiniteSet(x.cw)
         /\ IsFiniteSet(Resendable(x))
<1>1. x.re \in SUBSET Nat /\ x.unsent \in Nat /\ x.next \in Nat /\ x.blast \in Nat
  BY DEF SendQueue, XqReps
<1>2. x.q \in SUBSET Nat /\ \A f \in x.q : f < x.next
  BY <1>1 DEF SendQueue, XqReps
<1>3. x.re \cup x.cw \subseteq x.q /\ \A f \in x.re \cup x.cw : f < x.unsent
  BY DEF SendQueue, Waiting
<1>4. Resendable(x) \subseteq x.q
  BY <1>3 DEF Resendable, SendQueue
<1>5. Resendable(x) \cap x.cw = {} /\ x.re \cap x.unsent..(x.next - 1) = {}
  BY <1>1, <1>3 DEF Resendable, SendQueue
<1>6. IsFiniteSet(x.q)
  BY <1>1, <1>2, Bounded
<1>7. \A T \in SUBSET x.q : IsFiniteSet(T)
  BY <1>6, FS_Subset
<1> QED BY <1>1, <1>2, <1>3, <1>4, <1>5, <1>6, <1>7

\* The fragments of a blast have the places 1, 2, ... in it.
LEMMA Places ==
  ASSUME NEW x, SendQueue(x)
  PROVE  LET b == BlastFrags(x) IN
         /\ b \subseteq x.q /\ b \cap x.cw = {} /\ IsFiniteSet(b) /\ Cardinality(b) \in Nat
         /\ \A f \in b : Place(x, f) \in 1..Cardinality(b)
         /\ \A i \in 1..Cardinality(b) : \E f \in b : Place(x, f) = i
<1> DEFINE b == BlastFrags(x)
           u == x.unsent..(x.next - 1)
           n == Cardinality(x.re)
           T == 1..Cardinality(b)
           r == [f \in b |-> Place(x, f)]
<1>1. /\ x.re \subseteq Nat /\ x.unsent \in Nat /\ x.next \in Nat /\ x.blast \in Nat
      /\ \A f \in x.re : f < x.unsent
      /\ Resendable(x) = x.re \cup u /\ IsFiniteSet(Resendable(x)) /\ IsFiniteSet(x.re)
  BY QueueParts DEF Resendable
<1>2. b \in SUBSET Resendable(x) /\ \A f \in b : Place(x, f) <= x.blast
  BY DEF BlastFrags
<1>3. b \subseteq x.q /\ b \cap x.cw = {} /\ IsFiniteSet(b) /\ Cardinality(b) \in Nat
  <2>1. IsFiniteSet(b)
    BY <1>1, <1>2, FS_Subset
  <2> QED BY <1>2, <2>1, FS_CardinalityType, QueueParts
<1>4. /\ n \in Nat /\ \A f \in x.re : Rank(x.re, f) \in 1..n
      /\ \A f, g \in x.re : g < f => Rank(x.re, g) < Rank(x.re, f)
  <2>1. x.re \subseteq Int
    BY <1>1
  <2> QED BY <1>1, <2>1, Ranks, Zenon
<1>5. \A f \in x.re : Place(x, f) = Rank(x.re, f)
  BY DEF Place, Rank
<1>6. \A f \in u : f \in Nat /\ f \notin x.re /\ Place(x, f) = n + f - x.unsent + 1
  BY <1>1 DEF Place
<1>7. \A f \in Resendable(x) : f \in Nat /\ Place(x, f) \in Nat /\ Place(x, f) >= 1
  BY <1>1, <1>4, <1>5, <1>6
<1>8. \A f, g \in Resendable(x) : Place(x, f) = Place(x, g) => f = g
  <2> TAKE f, g \in Resendable(x)
  <2>1. CASE f \in x.re /\ g \in x.re
    BY <2>1, <1>4, <1>5, <1>7
  <2>2. CASE f \in u /\ g \in u
    BY <2>2, <1>1, <1>4, <1>6
  <2>3. CASE (f \in x.re /\ g \in u) \/ (f \in u /\ g \in x.re)
    BY <2>3, <1>1, <1>4, <1>5, <1>6
  <2>4. (f \in x.re \/ f \in u) /\ (g \in x.re \/ g \in u)
    BY <1>1
  <2> QED BY <2>1, <2>2, <2>3, <2>4
<1>9. ASSUME NEW f \in b
      PROVE  Place(x, f) <= Cardinality(b)
  <2>1. CASE f \in x.re
    <3>1. {g \in x.re : g <= f} \in SUBSET b
      <4>1. ASSUME NEW g \in x.re, g <= f
            PROVE  g \in b
        <5>1. Place(x, g) <= Place(x, f)
          BY <2>1, <4>1, <1>1, <1>4, <1>5, <1>7
        <5> QED BY <5>1, <1>1, <1>2, <1>7 DEF BlastFrags
      <4> QED BY <4>1
    <3>2. Cardinality({g \in x.re : g <= f}) <= Cardinality(b)
      BY <3>1, <1>3, FS_Subset
    <3> QED BY <2>1, <3>2, <1>5 DEF Rank
  <2>2. CASE f \in u
    <3>1. x.re \cup x.unsent..f \in SUBSET b
      <4>1. ASSUME NEW g \in x.re
            PROVE  g \in b
        <5>1. Place(x, g) <= Place(x, f)
          BY <2>2, <1>1, <1>4, <1>5, <1>6
        <5> QED BY <5>1, <1>1, <1>2, <1>7 DEF BlastFrags
      <4>2. ASSUME NEW g \in x.unsent..f
            PROVE  g \in b
        <5>1. g \in u /\ Place(x, g) <= Place(x, f)
          BY <2>2, <1>1, <1>4, <1>6
        <5> QED BY <5>1, <1>1, <1>2, <1>7 DEF BlastFrags
      <4> QED BY <4>1, <4>2
    <3>2. /\ IsFiniteSet(x.unsent..f) /\ Cardinality(x.unsent..f) = f - x.unsent + 1
          /\ x.re \cap x.unsent..f = {}
      BY <2>2, <1>1, FS_Interval
    <3>3. Cardinality(x.re \cup x.unsent..f) = n + (f - x.unsent + 1) - 0
      <4>1. Cardinality(x.re \cup x.unsent..f)
              = n + Cardinality(x.unsent..f) - Cardinality(x.re \cap x.unsent..f)
        BY <3>2, <1>1, FS_Union
      <4>2. Cardinality(x.re \cap x.unsent..f) = 0
        BY <3>2, FS_EmptySet
      <4> QED BY <4>1, <4>2, <3>2
    <3>4. Cardinality(x.re \cup x.unsent..f) <= Cardinality(b)
      BY <3>1, <1>3, FS_Subset
    <3> QED BY <2>2, <3>3, <3>4, <1>1, <1>4, <1>6
  <2> QED BY <2>1, <2>2, <1>1, <1>2
<1>10. \A f \in b : Place(x, f) \in T
  BY <1>2, <1>3, <1>7, <1>9
<1>11. r \in Injection(b, T)
  BY <1>2, <1>8, <1>10 DEF Injection, IsInjective
<1>12. IsFiniteSet(T) /\ Cardinality(T) = Cardinality(b)
  BY <1>3, FS_Interval
<1>13. r \in Surjection(b, T)
  BY <1>11, <1>12, FS_Injection
<1>14. \A i \in T : \E f \in b : r[f] = i
  BY <1>13 DEF Surjection
<1> QED BY <1>3, <1>10, <1>14

\* Of what was not sent yet a blast takes the first.
LEMMA FirstUnsent ==
  ASSUME NEW x, SendQueue(x)
  PROVE  LET n == Cardinality(BlastFrags(x) \ x.re) IN
         /\ n \in Nat /\ x.unsent + n <= x.next
         /\ \A f \in BlastFrags(x) : f < x.unsent + n
<1> DEFINE b == BlastFrags(x)
           u == x.unsent..(x.next - 1)
           n == Cardinality(b \ x.re)
<1>1. /\ x.re \subseteq Nat /\ x.unsent \in Nat /\ x.next \in Nat /\ x.blast \in Nat
      /\ \A f \in x.re : f < x.unsent
      /\ Resendable(x) = x.re \cup u /\ IsFiniteSet(x.re) /\ x.re \cap u = {}
      /\ x.unsent <= x.next
  BY QueueParts DEF Resendable, SendQueue
<1>2. b \in SUBSET Resendable(x) /\ IsFiniteSet(b)
  BY Places DEF BlastFrags
<1>3. b \ x.re \in SUBSET u /\ IsFiniteSet(b \ x.re) /\ n \in Nat
  <2>1. b \ x.re \in SUBSET u
    BY <1>1, <1>2
  <2>2. b \ x.re \in SUBSET b
    OBVIOUS
  <2>3. IsFiniteSet(b \ x.re)
    BY <1>2, <2>2, FS_Subset
  <2> QED BY <2>1, <2>3, FS_CardinalityType
<1>4. x.unsent + n <= x.next
  <2>1. IsFiniteSet(u) /\ Cardinality(u) = x.next - x.unsent
    <3>1. x.unsent \in Int /\ x.next - 1 \in Int /\ x.unsent <= (x.next - 1) + 1
      BY <1>1
    <3>2. IsFiniteSet(u) /\ Cardinality(u) = (x.next - 1) - x.unsent + 1
      BY <3>1, Between
    <3> QED BY <1>1, <3>2
  <2>2. n <= Cardinality(u)
    BY <1>3, <2>1, FS_Subset
  <2> QED BY <1>1, <1>3, <2>1, <2>2
<1>5. ASSUME NEW f \in b
      PROVE  f < x.unsent + n
  <2>1. CASE f \in x.re
    BY <2>1, <1>1, <1>3
  <2>2. CASE f \in u
    <3>1. x.unsent..f \in SUBSET (b \ x.re)
      <4>1. ASSUME NEW g \in x.unsent..f
            PROVE  g \in b \ x.re
        <5>1. g \in u /\ g \notin x.re /\ g <= f /\ f \notin x.re /\ g \in Int /\ f \in Int
          BY <2>2, <1>1
        <5>2. Cardinality(x.re) \in Nat
          BY <1>1, FS_CardinalityType
        <5>3. Place(x, g) \in Int /\ Place(x, f) \in Int /\ Place(x, g) <= Place(x, f)
          BY <5>1, <5>2, <1>1 DEF Place
        <5>4. Place(x, f) <= x.blast
          BY DEF BlastFrags
        <5> QED BY <5>1, <5>3, <5>4, <1>1 DEF BlastFrags
      <4> QED BY <4>1
    <3>2. Cardinality(x.unsent..f) = f - x.unsent + 1
      <4>1. f \in Int /\ x.unsent \in Int /\ x.unsent <= f + 1
        BY <2>2, <1>1
      <4> QED BY <4>1, Between
    <3>3. Cardinality(x.unsent..f) <= n
      BY <3>1, <1>3, FS_Subset
    <3> QED BY <2>2, <3>2, <3>3, <1>1, <1>3
  <2> QED BY <2>1, <2>2, <1>1, <1>2
<1> QED BY <1>3, <1>4, <1>5

\* Sets that have nothing in common
LEMMA Joined ==
  ASSUME NEW S, NEW T, IsFiniteSet(S), IsFiniteSet(T), S \cap T = {}
  PROVE  Cardinality(S \cup T) = Cardinality(S) + Cardinality(T)
<1>1. Cardinality(S) \in Nat /\ Cardinality(T) \in Nat
  BY FS_CardinalityType
<1>2. Cardinality(S \cup T) = Cardinality(S) + Cardinality(T) - 0
  BY FS_Union, FS_EmptySet
<1> QED BY <1>1, <1>2

\* A set without a part of it
LEMMA Without ==
  ASSUME NEW S, NEW T, NEW U, IsFiniteSet(S), S = T \cup U, T \cap U = {}
  PROVE  Cardinality(T) = Cardinality(S) - Cardinality(U)
<1>1. T \in SUBSET S /\ U \in SUBSET S
  OBVIOUS
<1>2. IsFiniteSet(T) /\ IsFiniteSet(U)
  BY <1>1, FS_Subset
<1>3. Cardinality(T) \in Nat /\ Cardinality(U) \in Nat
  BY <1>2, FS_CardinalityType
<1>4. Cardinality(S) = Cardinality(T) + Cardinality(U)
  BY <1>2, Joined
<1> QED BY <1>3, <1>4

\* A blast leaves the queue as it is.
LEMMA XmitQueue ==
  ASSUME NEW x, SendQueue(x)
  PROVE  LET y == Xmit(x) IN
         /\ SendQueue(y) /\ y.q = x.q /\ y.next = x.next /\ y.unsent >= x.unsent
         /\ y.maxb = x.maxb /\ y.blast = 0
         /\ Exact(x) => Exact(y)
<1> DEFINE b == BlastFrags(x)
           asked == {f \in b : Asks(x, f)}
           n == Cardinality(b \ x.re)
           sent == [f \in AllFrags |-> IF f \in b THEN x.ser + Place(x, f) - 1 ELSE x.sent[f]]
           aw == x.awaiting \/ \E f \in b : Asks(x, f) \/ EndsMessage(x, f)
<1>1. /\ b \subseteq x.q /\ b \cap x.cw = {} /\ IsFiniteSet(b) /\ Cardinality(b) \in Nat
      /\ \A f \in b : Place(x, f) \in 1..Cardinality(b)
  BY Places
<1>2. /\ n \in Nat /\ x.unsent + n <= x.next /\ x.unsent + n \in Nat
      /\ \A f \in b : f < x.unsent + n
  <2>1. /\ n \in Nat /\ x.unsent + n <= x.next
        /\ \A f \in b : f < x.unsent + n
    BY FirstUnsent
  <2>2. x.unsent \in Nat
    BY DEF SendQueue, XqReps
  <2>3. x.unsent + n \in Nat
    BY <2>1, <2>2
  <2> QED BY <2>1, <2>3, Zenon
<1>3. IsFiniteSet(asked) /\ Cardinality(asked) \in Nat /\ IsFiniteSet(x.cw)
  BY <1>1, FS_Subset, FS_CardinalityType, QueueParts, asked \in SUBSET b
<1>4. /\ x.sent \in [AllFrags -> Int] /\ x.ser \in Int /\ x.cwindow \in Int /\ x.freqs \in Int
      /\ x.q \in SUBSET Nat /\ x.cw \in SUBSET Nat /\ x.quiet \in SUBSET Nat /\ x.unsent \in Nat
      /\ x.awaiting \in BOOLEAN
  BY DEF SendQueue, XqReps
<1>5. sent \in [AllFrags -> Int]
  BY <1>1, <1>4
<1>6. aw \in BOOLEAN
  BY <1>4
<1>7. /\ x.cw \cup b \in SUBSET Nat /\ (x.quiet \cup b) \ asked \in SUBSET Nat
      /\ x.ser + Cardinality(b) \in Int /\ x.cwindow + Cardinality(b) \in Int
      /\ x.freqs + Cardinality(asked) \in Int
  BY <1>1, <1>3, <1>4
<1>8. PICK s \in [AllFrags -> Int], e \in Int, c \in SUBSET Nat, w \in Int, t \in SUBSET Nat,
           q \in Int, u \in Nat, a \in BOOLEAN :
        /\ s = sent /\ e = x.ser + Cardinality(b) /\ c = x.cw \cup b
        /\ w = x.cwindow + Cardinality(b) /\ t = (x.quiet \cup b) \ asked
        /\ q = x.freqs + Cardinality(asked) /\ u = x.unsent + n /\ a = aw
  BY <1>2, <1>5, <1>6, <1>7, Zenon
<1>9. PICK y : y = Xmit(x)
  OBVIOUS
<1>10. y = [x EXCEPT !.sent = s, !.ser = e, !.cw = c, !.cwindow = w, !.quiet = t, !.freqs = q,
                     !.unsent = u, !.re = {}, !.blast = 0, !.awaiting = a]
  BY <1>8, <1>9 DEF Xmit, SendQueue, XqReps
<1> HIDE DEF b, asked, n, sent, aw
<1>11. x \in XqReps
  BY DEF SendQueue
<1>12. y \in XqReps
  BY <1>10, <1>11 DEF XqReps
<1>13. /\ y.q = x.q /\ y.next = x.next /\ y.maxb = x.maxb /\ y.push = x.push /\ y.frag = x.frag
       /\ y.blast = 0 /\ y.re = {} /\ y.cw = c /\ y.unsent = u
       /\ y.cwindow = w /\ y.freqs = q /\ y.quiet = t
  BY <1>10, <1>11 DEF XqReps
<1>14. /\ y.unsent >= x.unsent /\ y.unsent <= y.next
       /\ y.unsent..(y.next - 1) \subseteq y.q
  BY <1>2, <1>4, <1>8, <1>13 DEF SendQueue
<1>15. y.cw \subseteq Waiting(y)
  <2>1. \A f \in x.cw : f \in x.q /\ f < x.unsent
    BY DEF SendQueue, Waiting
  <2> QED BY <1>1, <1>2, <1>4, <1>8, <1>13, <2>1 DEF Waiting
<1>16. SendQueue(y)
  BY <1>12, <1>13, <1>14, <1>15 DEF SendQueue
<1>17. ASSUME Exact(x)
       PROVE  Exact(y)
  <2>1. Cardinality(x.cw \cup b) = Cardinality(x.cw) + Cardinality(b)
    <3>1. x.cw \cap b = {}
      BY <1>1
    <3> QED BY <1>1, <1>3, <3>1, Joined
  <2>2. Cardinality(y.cw \ y.quiet) = Cardinality(x.cw \ x.quiet) + Cardinality(asked)
    <3>1. PICK r : r = x.cw \ x.quiet
      OBVIOUS
    <3>2. r \in SUBSET x.cw /\ asked \in SUBSET b
      BY <3>1 DEF asked
    <3>3. r \cap asked = {}
      BY <1>1, <3>2
    <3>4. IsFiniteSet(r)
      BY <1>3, <3>2, FS_Subset
    <3>5. Cardinality(r \cup asked) = Cardinality(r) + Cardinality(asked)
      BY <1>3, <3>3, <3>4, Joined
    <3>6. c \ t = r \cup asked
      BY <1>1, <1>8, <3>1, <3>2
    <3>7. y.cw \ y.quiet = r \cup asked
      BY <3>6, <1>13
    <3> QED BY <3>1, <3>5, <3>7
  <2> QED BY <1>8, <1>13, <1>17, <2>1, <2>2 DEF Exact
<1> QED BY <1>9, <1>13, <1>14, <1>16, <1>17

\* What a blast sends: fragments of the queue.
LEMMA BlastSent ==
  ASSUME NEW x, SendQueue(x)
  PROVE  /\ BlastPackets(x) \in Seq(Pkts)
         /\ \A i \in 1..Len(BlastPackets(x)) :
              LET p == BlastPackets(x)[i] IN
              /\ p.type = "data" /\ p.f \in x.q /\ p.frag = x.frag
              /\ p.last => x.push /\ \A g \in x.q : g <= p.f
<1> DEFINE n == Cardinality(BlastFrags(x))
           f(i) == CHOOSE g \in BlastFrags(x) : Place(x, g) = i
           pkt(i) == Data(f(i), x.ser + i - 1, x.frag, EndsMessage(x, f(i)),
                          Asks(x, f(i)) /\ ~EndsMessage(x, f(i)))
<1>1. n \in Nat /\ \A i \in 1..n : f(i) \in x.q
  BY Places
<1>2. BlastPackets(x) = [i \in 1..n |-> pkt(i)]
  BY DEF BlastPackets
<1>3. x.ser \in Int /\ x.frag \in BOOLEAN /\ x.push \in BOOLEAN /\ x.q \subseteq Nat
  BY DEF SendQueue, XqReps
<1>4. ASSUME NEW i \in 1..n
      PROVE  /\ pkt(i) \in Pkts
             /\ pkt(i).type = "data" /\ pkt(i).f \in x.q /\ pkt(i).frag = x.frag
             /\ pkt(i).last => x.push /\ \A g \in x.q : g <= pkt(i).f
  <2>1. PICK g \in x.q : g = f(i)
    BY <1>1
  <2>2. PICK e \in Int : e = x.ser + i - 1
    BY <1>1, <1>3
  <2>3. PICK l \in BOOLEAN : l = EndsMessage(x, g)
    BY <1>3 DEF EndsMessage
  <2>4. PICK a \in BOOLEAN : a = (Asks(x, g) /\ ~EndsMessage(x, g))
    OBVIOUS
  <2>5. PICK p : p = pkt(i)
    OBVIOUS
  <2>6. p = Data(g, e, x.frag, l, a)
    BY <2>1, <2>2, <2>3, <2>4, <2>5
  <2> HIDE DEF pkt, f, n
  <2>7. /\ p.type = "data" /\ p.f = g /\ p.ser = e /\ p.frag = x.frag /\ p.last = l
        /\ p \in Pkts
    BY <2>6, <1>3 DEF Data, Packet, Pkts
  <2>8. l => x.push /\ \A h \in x.q : h <= g
    <3>1. IsFiniteSet(x.q) /\ x.q \subseteq Int /\ x.q # {}
      BY QueueParts, <1>3
    <3>2. \A h \in x.q : h <= Max(x.q)
      BY <3>1, Extremes
    <3> QED BY <2>3, <3>2 DEF EndsMessage
  <2> QED BY <2>5, <2>7, <2>8
<1> HIDE DEF pkt, f, n
<1>5. BlastPackets(x) \in Seq(Pkts) /\ Len(BlastPackets(x)) = n
  BY <1>1, <1>2, <1>4
<1>6. \A i \in 1..n : BlastPackets(x)[i] = pkt(i)
  BY <1>2
<1> QED BY <1>4, <1>5, <1>6

\* Fragments S leave the queue, the window or the fragments to be sent again.
LEMMA Requeued ==
  ASSUME NEW x, SendQueue(x), NEW S, S \subseteq Waiting(x), NEW y \in XqReps,
         y.q = x.q \ S, y.unsent = x.unsent, y.next = x.next, y.push = x.push, y.frag = x.frag,
         y.cw \cup y.re \subseteq Waiting(x) \ S, y.re \cap y.cw = {}
  PROVE  SendQueue(y)
<1>1. /\ x.unsent <= x.next /\ x.next <= len /\ (x.push => x.next = len)
      /\ x.next > 0 /\ ~x.frag => len = 1
      /\ x.unsent..(x.next - 1) \subseteq x.q /\ x.q \subseteq 0..(x.next - 1)
      /\ x.unsent \in Nat /\ x.next \in Nat /\ x.q \in SUBSET Nat
  BY DEF SendQueue, XqReps
<1>2. y.cw \cup y.re \subseteq Waiting(y)
  BY DEF Waiting
<1>3. \A f \in S : f < x.unsent /\ f \in Nat
  BY <1>1 DEF Waiting
<1>4. y.unsent..(y.next - 1) \subseteq y.q /\ y.q \subseteq 0..(y.next - 1)
  BY <1>1, <1>3
<1> QED BY <1>1, <1>2, <1>4 DEF SendQueue

\* Fragments leave the window.
LEMMA LeaveQueue ==
  ASSUME NEW x, SendQueue(x), NEW S
  PROVE  LET y == LeaveWindow(x, S) IN
         /\ y \in XqReps /\ y.cw = x.cw \ S
         /\ y.q = x.q /\ y.unsent = x.unsent /\ y.next = x.next /\ y.push = x.push
         /\ y.frag = x.frag /\ y.re = x.re /\ y.maxb = x.maxb /\ y.tries = x.tries
         /\ y.quiet = x.quiet /\ y.blast = x.blast
         /\ Exact(x) => Exact(y)
<1>1. x \in XqReps /\ IsFiniteSet(x.cw) /\ x.cw \in SUBSET Nat
  BY QueueParts DEF SendQueue, XqReps
<1>2. /\ S \cap x.cw \in SUBSET x.cw /\ (S \cap x.cw) \ x.quiet \in SUBSET x.cw
      /\ x.cw \ S \in SUBSET Nat
  BY <1>1
<1>3. IsFiniteSet(S \cap x.cw) /\ IsFiniteSet((S \cap x.cw) \ x.quiet)
  BY <1>1, <1>2, FS_Subset
<1>4. Cardinality(S \cap x.cw) \in Nat /\ Cardinality((S \cap x.cw) \ x.quiet) \in Nat
  BY <1>3, FS_CardinalityType
<1>5. x.cwindow \in Int /\ x.freqs \in Int
  BY <1>1 DEF XqReps
<1>0. /\ x.cwindow - Cardinality(S \cap x.cw) \in Int
      /\ x.freqs - Cardinality((S \cap x.cw) \ x.quiet) \in Int
  BY <1>4, <1>5
<1>6. PICK c \in SUBSET Nat, w \in Int, q \in Int :
        /\ c = x.cw \ S /\ w = x.cwindow - Cardinality(S \cap x.cw)
        /\ q = x.freqs - Cardinality((S \cap x.cw) \ x.quiet)
  BY <1>0, <1>2, Zenon
<1>7. PICK y : y = LeaveWindow(x, S)
  OBVIOUS
<1>8. y = [x EXCEPT !.cw = c, !.cwindow = w, !.freqs = q]
  BY <1>1, <1>6, <1>7 DEF LeaveWindow, XqReps
<1>9. y \in XqReps
  BY <1>1, <1>8 DEF XqReps
<1>10. /\ y.q = x.q /\ y.unsent = x.unsent /\ y.next = x.next /\ y.push = x.push
       /\ y.frag = x.frag /\ y.re = x.re /\ y.maxb = x.maxb /\ y.tries = x.tries
       /\ y.quiet = x.quiet /\ y.blast = x.blast /\ y.cw = c /\ y.cwindow = w /\ y.freqs = q
  BY <1>1, <1>8 DEF XqReps
<1>11. ASSUME Exact(x)
       PROVE  Exact(y)
  <2>1. /\ Cardinality(x.cw \ S) = Cardinality(x.cw) - Cardinality(S \cap x.cw)
        /\ Cardinality((x.cw \ S) \ x.quiet)
              = Cardinality(x.cw \ x.quiet) - Cardinality((S \cap x.cw) \ x.quiet)
    <3>1. PICK T, U : T = x.cw \ S /\ U = S \cap x.cw
      OBVIOUS
    <3>2. x.cw = T \cup U /\ T \cap U = {}
      BY <3>1
    <3>3. Cardinality(T) = Cardinality(x.cw) - Cardinality(U)
      BY <1>1, <3>2, Without
    <3>4. PICK R : R = x.cw \ x.quiet
      OBVIOUS
    <3>5. PICK V, W : V = T \ x.quiet /\ W = U \ x.quiet
      OBVIOUS
    <3>6. R = V \cup W /\ V \cap W = {} /\ R \in SUBSET x.cw
      BY <3>2, <3>4, <3>5
    <3>7. IsFiniteSet(R)
      BY <1>1, <3>6, FS_Subset
    <3>8. Cardinality(V) = Cardinality(R) - Cardinality(W)
      BY <3>6, <3>7, Without
    <3> QED BY <3>1, <3>3, <3>4, <3>5, <3>8
  <2> QED BY <1>6, <1>10, <1>11, <2>1 DEF Exact
<1> QED BY <1>6, <1>7, <1>9, <1>10, <1>11

\* What a fack acknowledges and what it has sent again
LEMMA AckedMissing ==
  ASSUME NEW x, SendQueue(x), NEW p \in Pkts
  PROVE  /\ Acked(x, p) \subseteq Waiting(x) /\ Missing(x, p) \subseteq Waiting(x) \ Acked(x, p)
         /\ IsFiniteSet(Acked(x, p)) /\ Cardinality(Acked(x, p)) \in Nat
         /\ IsFiniteSet(Missing(x, p)) /\ Cardinality(Missing(x, p)) \in Nat
         /\ \A f \in Acked(x, p) : f \in 0..(p.next - 1) \cup p.mask
<1>1. Acked(x, p) \subseteq Waiting(x) /\ Missing(x, p) \subseteq Waiting(x) \ Acked(x, p)
  BY DEF Acked, Missing, Waiting
<1>2. Acked(x, p) \in SUBSET x.q /\ Missing(x, p) \in SUBSET x.q
  BY <1>1 DEF Waiting
<1>3. IsFiniteSet(x.q) /\ x.q \subseteq Nat
  BY QueueParts
<1>4. IsFiniteSet(Acked(x, p)) /\ IsFiniteSet(Missing(x, p))
  BY <1>2, <1>3, FS_Subset
<1>5. p.next \in Nat
  BY DEF Pkts
<1>6. \A f \in Acked(x, p) : f \in 0..(p.next - 1) \cup p.mask
  BY <1>2, <1>3, <1>5 DEF Acked
<1> QED BY <1>1, <1>4, <1>6, FS_CardinalityType

\* A fack allows no blast that is too large.
LEMMA BlastSize ==
  ASSUME NEW x, SendQueue(x), Limits(x), NEW p \in Pkts, NEW cwindow \in Int,
         NEW ready \in Nat, NEW incr \in Nat
  PROVE  NextBlast(x, p, cwindow, ready, incr) \in 0..MaxBlast
<1>1. /\ x.blast \in Nat /\ x.maxb \in Nat /\ x.maxb <= MaxBlast /\ p.win \in Nat
      /\ MaxBlast \in Nat /\ MaxBlast >= 2
  <2>1. MaxBlast \in Nat /\ MaxBlast >= 2
    BY SenderAssumption
  <2>2. x.blast \in Nat /\ x.maxb \in Nat /\ p.win \in Nat
    BY DEF SendQueue, XqReps, Pkts
  <2>3. x.maxb <= MaxBlast
    BY <2>1, <2>2, SenderAssumption DEF Limits
  <2> QED BY <2>1, <2>2, <2>3
<1> DEFINE sum == x.blast + 2 * incr
           low == Min({sum, x.maxb})
           b == Max({low, 2})
           left == p.win - cwindow
           room == IF cwindow + b > p.win THEN Max({left, 0}) ELSE b
<1>0. sum \in Nat /\ left \in Int
  BY <1>1
<1> HIDE DEF sum, left
<1>2. low \in 0..MaxBlast
  <2>1. sum \in Int /\ x.maxb \in Int
    BY <1>0, <1>1
  <2>2. low = IF sum <= x.maxb THEN sum ELSE x.maxb
    BY <2>1, OfTwo, Zenon
  <2> QED BY <2>2, <1>0, <1>1
<1> HIDE DEF low
<1>3. b \in 2..MaxBlast
  <2>1. b = IF low >= 2 THEN low ELSE 2
    BY <1>2, OfTwo
  <2> QED BY <2>1, <1>1, <1>2
<1> HIDE DEF b
<1>4. room \in 0..MaxBlast
  <2>1. Max({left, 0}) = IF left >= 0 THEN left ELSE 0
    BY <1>0, OfTwo
  <2> QED BY <2>1, <1>0, <1>1, <1>3 DEF left
<1> HIDE DEF room
<1>5. Min({ready, room}) \in 0..MaxBlast
  <2>1. Min({ready, room}) = IF ready <= room THEN ready ELSE room
    BY <1>4, OfTwo
  <2> QED BY <2>1, <1>1, <1>4
<1> QED BY <1>5 DEF NextBlast, room, b, low, sum, left

\* The limit of a blast stays between its bounds.
LEMMA BlastLimit ==
  ASSUME NEW x, SendQueue(x), Limits(x), NEW p, NEW m \in MaxBlasts(x, p)
  PROVE  m \in InitialMaxBlast..MaxBlast /\ (m - InitialMaxBlast) % 2 = 0
<1>1. /\ x.maxb \in Nat /\ x.maxb \in InitialMaxBlast..MaxBlast
      /\ (x.maxb - InitialMaxBlast) % 2 = 0
      /\ MaxBlast \in Nat /\ InitialMaxBlast \in Nat /\ (MaxBlast - InitialMaxBlast) % 2 = 0
  BY SenderAssumption DEF SendQueue, XqReps, Limits
<1>2. Min({x.maxb + 2, MaxBlast}) = IF x.maxb + 2 <= MaxBlast THEN x.maxb + 2 ELSE MaxBlast
  <2>1. x.maxb + 2 \in Int /\ MaxBlast \in Int
    BY <1>1
  <2> QED BY <2>1, OfTwo, Zenon
<1>3. m = x.maxb \/ (x.maxb > InitialMaxBlast /\ m = x.maxb - 2) \/ m = Min({x.maxb + 2, MaxBlast})
  BY DEF MaxBlasts
<1>4. CASE m = x.maxb
  BY <1>1, <1>4
<1>5. CASE x.maxb > InitialMaxBlast /\ m = x.maxb - 2
  BY <1>1, <1>5
<1>6. CASE m = Min({x.maxb + 2, MaxBlast})
  BY <1>1, <1>2, <1>6
<1> QED BY <1>3, <1>4, <1>5, <1>6

\* Fragments leave the queue.
LEMMA FreeQueue ==
  ASSUME NEW x \in XqReps, NEW S
  PROVE  LET y == Free(x, S) IN
         /\ y \in XqReps /\ y.q = x.q \ S /\ y.cw = x.cw \ S
         /\ y.unsent = x.unsent /\ y.next = x.next /\ y.re = x.re
         /\ y.cwindow = x.cwindow /\ y.maxb = x.maxb /\ y.blast = x.blast
         /\ y.push = x.push /\ y.frag = x.frag
         /\ Exact(x) /\ S \cap x.cw = {} => Exact(y)
<1>1. /\ x.q \in SUBSET Nat /\ x.quiet \in SUBSET Nat /\ x.cw \in SUBSET Nat
      /\ x.sent \in [AllFrags -> Int]
  BY DEF XqReps
<1>2. [f \in AllFrags |-> IF f \in S THEN 0 ELSE x.sent[f]] \in [AllFrags -> Int]
  BY <1>1
<1>3. PICK q \in SUBSET Nat, c \in SUBSET Nat, t \in SUBSET Nat, s \in [AllFrags -> Int] :
        /\ q = x.q \ S /\ c = x.cw \ S /\ t = x.quiet \ S
        /\ s = [f \in AllFrags |-> IF f \in S THEN 0 ELSE x.sent[f]]
  <2>1. x.q \ S \in SUBSET Nat /\ x.cw \ S \in SUBSET Nat /\ x.quiet \ S \in SUBSET Nat
    BY <1>1
  <2> QED BY <2>1, <1>2, Zenon
<1>4. PICK y : y = Free(x, S)
  OBVIOUS
<1>5. y = [x EXCEPT !.q = q, !.cw = c, !.quiet = t, !.sent = s]
  BY <1>3, <1>4 DEF Free, XqReps
<1>6. y \in XqReps
  BY <1>5 DEF XqReps
<1>7. /\ y.q = q /\ y.unsent = x.unsent /\ y.next = x.next /\ y.re = x.re /\ y.cw = c
      /\ y.cwindow = x.cwindow /\ y.freqs = x.freqs /\ y.maxb = x.maxb /\ y.blast = x.blast
      /\ y.push = x.push /\ y.frag = x.frag /\ y.quiet = t
  BY <1>5 DEF XqReps
<1>8. Exact(x) /\ S \cap x.cw = {} => Exact(y)
  <2>1. S \cap x.cw = {} => y.cw = x.cw /\ y.cw \ y.quiet = x.cw \ x.quiet
    BY <1>3, <1>7
  <2> QED BY <2>1, <1>7 DEF Exact
<1> QED BY <1>3, <1>4, <1>6, <1>7, <1>8

\* rpc__dg_fack_common: what is acknowledged leaves the queue, what is lost leaves the
\* window and goes to those that are sent again.
LEMMA FackQueue ==
  ASSUME NEW x, SendQueue(x), Limits(x), NEW p \in Pkts, NEW incr \in Nat,
         NEW m \in MaxBlasts(x, p)
  PROVE  LET y == FackCommon(x, p, incr, m) IN
         /\ SendQueue(y) /\ Limits(y) /\ y.next = x.next
         /\ y.q \subseteq x.q /\ x.q \ y.q \subseteq 0..(p.next - 1) \cup p.mask
         /\ Exact(x) => Exact(y)
<1>1. PICK A, L : A = Acked(x, p) /\ L = Missing(x, p)
  OBVIOUS
<1>2. /\ A \subseteq Waiting(x) /\ L \subseteq Waiting(x) \ A
      /\ Cardinality(L) \in Nat /\ A \subseteq 0..(p.next - 1) \cup p.mask
  BY <1>1, AckedMissing
<1>3. PICK l : l = LeaveWindow(x, A \cup L)
  OBVIOUS
<1>4. /\ l \in XqReps /\ l.cw = x.cw \ (A \cup L)
      /\ l.q = x.q /\ l.unsent = x.unsent /\ l.next = x.next /\ l.push = x.push
      /\ l.frag = x.frag
      /\ Exact(x) => Exact(l)
  BY <1>3, LeaveQueue
<1>5. PICK y : y = Free(l, A)
  OBVIOUS
<1>6. /\ y \in XqReps /\ y.q = l.q \ A /\ y.cw = l.cw \ A
      /\ y.unsent = l.unsent /\ y.next = l.next /\ y.push = l.push /\ y.frag = l.frag
      /\ Exact(l) /\ A \cap l.cw = {} => Exact(y)
  BY <1>4, <1>5, FreeQueue
<1>7. /\ y.cw = x.cw \ (A \cup L) /\ y.q = x.q \ A
      /\ y.unsent = x.unsent /\ y.next = x.next /\ y.push = x.push /\ y.frag = x.frag
      /\ Exact(x) => Exact(y)
  BY <1>4, <1>6
<1>8. PICK n : n = Cardinality(L) + x.next - x.unsent
  OBVIOUS
<1>9. n \in Nat /\ y.cwindow \in Int
  <2>1. x.next \in Nat /\ x.unsent \in Nat /\ x.unsent <= x.next
    BY DEF SendQueue, XqReps
  <2> QED BY <2>1, <1>2, <1>6, <1>8 DEF XqReps
<1>10. PICK b : b = NextBlast(x, p, y.cwindow, n, incr)
  OBVIOUS
<1>11. b \in 0..MaxBlast
  BY <1>9, <1>10, BlastSize
<1>12. /\ m \in InitialMaxBlast..MaxBlast /\ (m - InitialMaxBlast) % 2 = 0
       /\ m \in Nat /\ b \in Nat /\ b <= MaxBlast
  BY <1>11, BlastLimit, SenderAssumption
<1>13. p.win \in Int /\ L \in SUBSET Nat
  <2>1. x.q \in SUBSET Nat
    BY DEF SendQueue, XqReps
  <2>2. \A f \in L : f \in x.q
    BY <1>2 DEF Waiting
  <2>3. p.win \in Nat
    BY DEF Pkts
  <2> QED BY <2>1, <2>2, <2>3
<1>14. PICK z : z = FackCommon(x, p, incr, m)
  OBVIOUS
<1>15. z = [y EXCEPT !.re = L, !.window = p.win, !.maxb = m, !.awaiting = FALSE,
                     !.tries = 0, !.blast = b]
  BY <1>1, <1>3, <1>5, <1>8, <1>10, <1>14 DEF FackCommon
<1>16. z \in XqReps
  BY <1>6, <1>12, <1>13, <1>15 DEF XqReps
<1>17. /\ z.q = y.q /\ z.unsent = y.unsent /\ z.next = y.next /\ z.push = y.push
       /\ z.frag = y.frag /\ z.cw = y.cw /\ z.quiet = y.quiet /\ z.cwindow = y.cwindow
       /\ z.freqs = y.freqs /\ z.re = L /\ z.maxb = m /\ z.blast = b
  BY <1>6, <1>15 DEF XqReps
<1>18. SendQueue(z)
  <2>1. z.cw \cup z.re \subseteq Waiting(x) \ A /\ z.re \cap z.cw = {}
    <3>1. x.cw \subseteq Waiting(x)
      BY DEF SendQueue
    <3> QED BY <3>1, <1>2, <1>7, <1>17
  <2> QED BY <2>1, <1>2, <1>7, <1>16, <1>17, Requeued
<1>19. Limits(z) /\ (Exact(x) => Exact(z))
  BY <1>7, <1>12, <1>17 DEF Limits, Exact
<1> QED BY <1>2, <1>7, <1>14, <1>17, <1>18, <1>19

\* rpc__dg_xmitq_restart: everything that was sent and is still queued is sent again.
LEMMA RestartQueue ==
  ASSUME NEW x, SendQueue(x), Limits(x)
  PROVE  LET y == Restart(x) IN
         /\ SendQueue(y) /\ Limits(y) /\ y.q = x.q /\ y.next = x.next
         /\ Exact(x) => Exact(y)
<1>1. PICK old : old = Waiting(x)
  OBVIOUS
<1>2. PICK n : n = IF old = {} /\ x.unsent < x.next THEN 1 ELSE Cardinality(old)
  OBVIOUS
<1>3. n \in Nat
  <2>1. IsFiniteSet(x.q) /\ old \in SUBSET x.q
    BY <1>1, QueueParts DEF Waiting
  <2>2. Cardinality(old) \in Nat
    BY <2>1, FS_Subset, FS_CardinalityType
  <2> QED BY <2>2, <1>2
<1>4. PICK b : b = Min({n, 2})
  OBVIOUS
<1>5. b \in Nat /\ b <= MaxBlast
  <2>1. Min({n, 2}) = IF n <= 2 THEN n ELSE 2
    BY <1>3, OfTwo
  <2>2. MaxBlast \in Nat /\ MaxBlast >= 2
    BY SenderAssumption
  <2> QED BY <2>1, <2>2, <1>3, <1>4
<1>6. PICK l : l = LeaveWindow(x, old)
  OBVIOUS
<1>7. /\ l \in XqReps /\ l.cw = x.cw \ old
      /\ l.q = x.q /\ l.unsent = x.unsent /\ l.next = x.next /\ l.push = x.push
      /\ l.frag = x.frag /\ l.re = x.re /\ l.maxb = x.maxb
      /\ Exact(x) => Exact(l)
  BY <1>6, LeaveQueue
<1>8. PICK re : re = IF old = {} THEN x.re ELSE old
  OBVIOUS
<1>9. re \subseteq old /\ re \in SUBSET Nat /\ x.cw \subseteq old
  <2>1. x.re \subseteq old /\ x.cw \subseteq old /\ x.q \in SUBSET Nat
    BY <1>1 DEF SendQueue, XqReps
  <2>2. old \subseteq x.q
    BY <1>1 DEF Waiting
  <2> QED BY <2>1, <2>2, <1>8
<1>10. PICK z : z = [l EXCEPT !.re = re, !.blast = b]
  OBVIOUS
<1>11. /\ z \in XqReps
       /\ z.q = x.q /\ z.unsent = x.unsent /\ z.next = x.next /\ z.push = x.push
       /\ z.frag = x.frag /\ z.re = re /\ z.cw = x.cw \ old /\ z.maxb = x.maxb /\ z.blast = b
       /\ z.cwindow = l.cwindow /\ z.freqs = l.freqs /\ z.quiet = l.quiet /\ z.cw = l.cw
  BY <1>5, <1>7, <1>9, <1>10 DEF XqReps
<1>12. SendQueue(z)
  <2>1. z.cw = {} /\ z.re \subseteq Waiting(x)
    BY <1>1, <1>9, <1>11
  <2>2. z.q = x.q \ {} /\ z.cw \cup z.re \subseteq Waiting(x) \ {} /\ z.re \cap z.cw = {}
    BY <2>1, <1>11
  <2> QED BY <2>2, <1>11, Requeued
<1>13. Limits(z) /\ (Exact(x) => Exact(z))
  BY <1>5, <1>7, <1>11 DEF Limits, Exact
<1>14. Restart(x) = IF x.blast > 0 THEN x ELSE z
  BY <1>1, <1>2, <1>4, <1>6, <1>7, <1>8, <1>10 DEF Restart, Waiting
<1> QED BY <1>11, <1>12, <1>13, <1>14

\* rpc__dg_call_xmitq_timer: the head of the queue is sent again.
LEMMA OldestQueue ==
  ASSUME NEW x, SendQueue(x), Limits(x), x.q # {}
  PROVE  LET y == Oldest(x) IN
         /\ SendQueue(y) /\ Limits(y) /\ y.q = x.q /\ y.next = x.next
         /\ Exact(x) => Exact(y)
<1>1. PICK e : e = Min(x.q)
  OBVIOUS
<1>2. e \in x.q /\ \A g \in x.q : e <= g
  <2>1. IsFiniteSet(x.q) /\ x.q \subseteq Int
    BY QueueParts
  <2> QED BY <2>1, <1>1, Extremes
<1>3. x.q \in SUBSET Nat /\ x.unsent \in Nat /\ x.next \in Nat /\ \A g \in x.q : g < x.next
  BY QueueParts DEF SendQueue, XqReps
<1>4. PICK l : l = LeaveWindow(x, {e})
  OBVIOUS
<1>5. /\ l \in XqReps /\ l.cw = x.cw \ {e}
      /\ l.q = x.q /\ l.unsent = x.unsent /\ l.next = x.next /\ l.push = x.push
      /\ l.frag = x.frag /\ l.re = x.re /\ l.maxb = x.maxb /\ l.tries = x.tries
      /\ Exact(x) => Exact(l)
  BY <1>4, LeaveQueue
<1>6. PICK h : h = {e} \ (x.unsent..x.next)
  OBVIOUS
<1>7. PICK re : re = IF h = {} THEN x.re ELSE h
  OBVIOUS
<1>8. /\ re \in SUBSET Nat /\ re \subseteq Waiting(x) /\ x.cw \subseteq Waiting(x)
      /\ re \cap (x.cw \ {e}) = {}
  <2>1. x.cw \cup x.re \subseteq Waiting(x) /\ x.re \in SUBSET Nat
    BY DEF SendQueue, XqReps
  <2>2. CASE e < x.unsent
    <3>1. h = {e} /\ e \in Waiting(x) /\ e \in Nat
      BY <2>2, <1>2, <1>3, <1>6 DEF Waiting
    <3> QED BY <3>1, <2>1, <1>7
  <2>3. CASE ~(e < x.unsent)
    <3>1. Waiting(x) = {}
      BY <2>3, <1>2, <1>3 DEF Waiting
    <3>2. h = {}
      BY <2>3, <1>2, <1>3, <1>6
    <3> QED BY <3>1, <3>2, <2>1, <1>7
  <2> QED BY <2>2, <2>3
<1>9. PICK n \in Nat : n = x.tries + 1
  BY DEF SendQueue, XqReps
<1>10. PICK z : z = Oldest(x)
  OBVIOUS
<1>11. z = [l EXCEPT !.re = re, !.blast = 1, !.tries = n]
  BY <1>1, <1>4, <1>5, <1>6, <1>7, <1>9, <1>10 DEF Oldest, XqReps
<1>12. /\ z \in XqReps
       /\ z.q = x.q /\ z.unsent = x.unsent /\ z.next = x.next /\ z.push = x.push
       /\ z.frag = x.frag /\ z.re = re /\ z.cw = x.cw \ {e} /\ z.maxb = x.maxb /\ z.blast = 1
       /\ z.cwindow = l.cwindow /\ z.freqs = l.freqs /\ z.quiet = l.quiet /\ z.cw = l.cw
  BY <1>5, <1>8, <1>9, <1>11 DEF XqReps
<1>13. SendQueue(z)
  <2>1. z.q = x.q \ {} /\ z.cw \cup z.re \subseteq Waiting(x) \ {} /\ z.re \cap z.cw = {}
    BY <1>8, <1>12
  <2> QED BY <2>1, <1>12, Requeued
<1>14. Limits(z) /\ (Exact(x) => Exact(z))
  <2>1. 1 <= MaxBlast
    BY SenderAssumption
  <2> QED BY <2>1, <1>5, <1>12 DEF Limits, Exact
<1> QED BY <1>10, <1>12, <1>13, <1>14

\* rpc__dg_xmitq_append_pp, with the blast and the push flag set before or after it
LEMMA AppendQueue ==
  ASSUME NEW x, SendQueue(x), x.next < len, NEW y \in XqReps,
         y.q = x.q \cup {x.next}, y.next = x.next + 1, y.unsent = x.unsent,
         y.re = x.re, y.cw = x.cw,
         y.push => y.next = len, ~y.frag => len = 1, len \in Nat
  PROVE  SendQueue(y)
<1>1. /\ x.unsent \in Nat /\ x.next \in Nat /\ x.unsent <= x.next /\ x.q \in SUBSET Nat
      /\ x.unsent..(x.next - 1) \subseteq x.q /\ x.q \subseteq 0..(x.next - 1)
      /\ x.cw \cap x.re = {} /\ x.cw \cup x.re \subseteq Waiting(x)
  BY DEF SendQueue, XqReps
<1>2. y.unsent..(y.next - 1) \subseteq y.q /\ y.q \subseteq 0..(y.next - 1)
  BY <1>1
<1>3. y.cw \cup y.re \subseteq Waiting(y)
  BY <1>1 DEF Waiting
<1>4. y.unsent <= y.next /\ y.next <= len
  BY <1>1
<1> QED BY <1>1, <1>2, <1>3, <1>4 DEF SendQueue

\* rpc__dg_xmitq_free
LEMMA EmptyQueue ==
  ASSUME NEW x, SendQueue(x), Limits(x)
  PROVE  LET y == FreeAll(x) IN
         SendQueue(y) /\ Limits(y) /\ y.q = {} /\ y.next = x.next
<1>1. x \in XqReps /\ x.next \in Nat
  BY DEF SendQueue, XqReps
<1>2. PICK l : l = Free(x, x.q)
  OBVIOUS
<1>3. /\ l \in XqReps /\ l.q = {} /\ l.cw = x.cw \ x.q
      /\ l.next = x.next /\ l.maxb = x.maxb /\ l.push = x.push /\ l.frag = x.frag
  <2>1. x.q \ x.q = {}
    OBVIOUS
  <2> QED BY <2>1, <1>1, <1>2, FreeQueue
<1>4. x.cw \ x.q = {}
  BY DEF SendQueue, Waiting
<1>5. PICK z : z = FreeAll(x)
  OBVIOUS
<1>6. z = [l EXCEPT !.re = {}, !.unsent = x.next, !.blast = 0, !.awaiting = FALSE, !.tries = 0]
  BY <1>2, <1>5 DEF FreeAll
<1>7. /\ z \in XqReps
      /\ z.q = {} /\ z.re = {} /\ z.cw = {} /\ z.unsent = x.next /\ z.next = x.next
      /\ z.maxb = x.maxb /\ z.push = x.push /\ z.frag = x.frag /\ z.blast = 0
  BY <1>1, <1>3, <1>4, <1>6 DEF XqReps
<1>8. SendQueue(z)
  <2>1. /\ x.next <= len /\ (x.push => x.next = len)
        /\ x.next > 0 /\ ~x.frag => len = 1
    BY DEF SendQueue
  <2>2. z.unsent..(z.next - 1) = {}
    BY <1>1, <1>7
  <2> QED BY <2>1, <2>2, <1>1, <1>7 DEF SendQueue
<1>9. Limits(z)
  BY <1>7, SenderAssumption DEF Limits
<1> QED BY <1>5, <1>7, <1>8, <1>9

-----------------------------------------------------------------------------
(* The network *)

LEMMA Appends ==
  ASSUME NEW T, NEW s \in Seq(T), NEW t \in Seq(T)
  PROVE  /\ s \o t \in Seq(T)
         /\ \A p \in ToSet(s \o t) : p \in ToSet(s) \/ p \in ToSet(t)
<1>1. s \o t \in Seq(T) /\ Len(s \o t) = Len(s) + Len(t)
  OBVIOUS
<1>2. ASSUME NEW i \in 1..Len(s \o t)
      PROVE  (s \o t)[i] \in ToSet(s) \/ (s \o t)[i] \in ToSet(t)
  <2>1. CASE i <= Len(s)
    <3>1. i \in DOMAIN s /\ (s \o t)[i] = s[i]
      BY <2>1
    <3> QED BY <3>1 DEF ToSet
  <2>2. CASE i > Len(s)
    <3>1. i - Len(s) \in DOMAIN t /\ (s \o t)[i] = t[i - Len(s)]
      BY <2>2
    <3> QED BY <3>1 DEF ToSet
  <2> QED BY <2>1, <2>2
<1>3. \A p \in ToSet(s \o t) : \E i \in 1..Len(s \o t) : p = (s \o t)[i]
  BY <1>1 DEF ToSet
<1> QED BY <1>1, <1>2, <1>3

LEMMA Removes ==
  ASSUME NEW T, NEW s \in Seq(T), NEW i \in 1..Len(s)
  PROVE  /\ RemoveAt(s, i) \in Seq(T)
         /\ \A p \in ToSet(RemoveAt(s, i)) : p \in ToSet(s)
<1>1. PICK a, b : a = SubSeq(s, 1, i - 1) /\ b = SubSeq(s, i + 1, Len(s))
  OBVIOUS
<1>2. a \in Seq(T) /\ \A p \in ToSet(a) : p \in ToSet(s)
  <2>1. a \in Seq(T) /\ Len(a) = i - 1 /\ \A j \in 1..Len(a) : a[j] = s[j] /\ j \in 1..Len(s)
    BY <1>1
  <2> QED BY <2>1 DEF ToSet
<1>3. b \in Seq(T) /\ \A p \in ToSet(b) : p \in ToSet(s)
  <2>1. /\ b \in Seq(T) /\ Len(b) = Len(s) - i
        /\ \A j \in 1..Len(b) : b[j] = s[i + j] /\ i + j \in 1..Len(s)
    BY <1>1
  <2>2. \A j \in 1..Len(b) : \E k \in 1..Len(s) : b[j] = s[k]
    BY <2>1
  <2>3. DOMAIN b = 1..Len(b) /\ DOMAIN s = 1..Len(s)
    BY <2>1
  <2>4. \A p \in ToSet(b) : p \in ToSet(s)
    BY <2>2, <2>3, Zenon DEF ToSet
  <2> QED BY <2>1, <2>4
<1>4. RemoveAt(s, i) = a \o b
  BY <1>1 DEF RemoveAt
<1>5. a \o b \in Seq(T) /\ \A p \in ToSet(a \o b) : p \in ToSet(a) \/ p \in ToSet(b)
  BY <1>2, <1>3, Appends
<1> QED BY <1>2, <1>3, <1>4, <1>5

\* A packet arrives and is answered.
LEMMA TakesBack ==
  ASSUME net \in Nets, NEW p, NEW out \in Seq(Pkts), NEW n \in Nat, faults \in Nat,
         Takes("back", p, out, n)
  PROVE  /\ net' \in Nets /\ role' = role /\ len' = len /\ faults' \in 0..MaxFaults
         /\ \A g \in Arriving("back")' : g \in Arriving("back")
         /\ \A g \in Arriving("there")' : g \in Arriving("there") \/ g \in ToSet(out)
<1>1. PICK i \in 1..Len(net["back"]), twice \in BOOLEAN :
        /\ net["back"][i] = p
        /\ Fault(n + Cardinality({x \in 1..2 : IF x = 1 THEN i > 1 ELSE twice}))
        /\ net' = [net EXCEPT !["back"] = RemoveAt(@, i) \o (IF twice THEN <<p>> ELSE <<>>),
                              ![Opposite["back"]] = @ \o out]
        /\ UNCHANGED <<role, len>>
  BY Zenon DEF Takes
<1>2. faults' \in 0..MaxFaults
  <2>1. PICK S : S = {x \in 1..2 : IF x = 1 THEN i > 1 ELSE twice}
    OBVIOUS
  <2>2. S \in SUBSET (1..2)
    BY <2>1
  <2>3. \A x \in 1..2 : x \in Nat /\ x < 3
    OBVIOUS
  <2>4. Cardinality(S) \in Nat
    BY <2>2, <2>3, Bounded
  <2>5. Fault(n + Cardinality(S))
    BY <1>1, <2>1
  <2> QED BY <2>4, <2>5, FragAssumption DEF Fault
<1>3. Opposite["back"] = "there"
  BY DEF Opposite
<1>4. net.there \in Seq(Pkts) /\ net.back \in Seq(Pkts) /\ i \in 1..Len(net.back)
  BY DEF Nets
<1>5. PICK r : r = RemoveAt(net.back, i)
  OBVIOUS
<1>6. r \in Seq(Pkts) /\ \A g \in ToSet(r) : g \in ToSet(net.back)
  BY <1>4, <1>5, Removes
<1>7. PICK c : c = IF twice THEN <<p>> ELSE <<>>
  OBVIOUS
<1>8. p \in Pkts /\ p \in ToSet(net.back)
  BY <1>1, <1>4 DEF ToSet
<1>9. c \in Seq(Pkts) /\ \A g \in ToSet(c) : g \in ToSet(net.back)
  BY <1>7, <1>8 DEF ToSet
<1>10. r \o c \in Seq(Pkts) /\ \A g \in ToSet(r \o c) : g \in ToSet(net.back)
  BY <1>6, <1>9, Appends
<1>11. /\ net.there \o out \in Seq(Pkts)
       /\ \A g \in ToSet(net.there \o out) : g \in ToSet(net.there) \/ g \in ToSet(out)
  BY <1>4, Appends
<1>12. net' = [net EXCEPT !.back = r \o c, !.there = net.there \o out]
  BY <1>1, <1>3, <1>5, <1>7 DEF Nets
<1>13. net' \in Nets /\ net'.back = r \o c /\ net'.there = net.there \o out
  BY <1>10, <1>11, <1>12 DEF Nets
<1> QED BY <1>1, <1>2, <1>10, <1>11, <1>13 DEF Arriving

LEMMA TakesThere ==
  ASSUME net \in Nets, NEW p, NEW out \in Seq(Pkts), NEW n \in Nat, faults \in Nat,
         Takes("there", p, out, n)
  PROVE  /\ net' \in Nets /\ role' = role /\ len' = len /\ faults' \in 0..MaxFaults
         /\ \A g \in Arriving("there")' : g \in Arriving("there")
         /\ \A g \in Arriving("back")' : g \in Arriving("back") \/ g \in ToSet(out)
<1>1. PICK i \in 1..Len(net["there"]), twice \in BOOLEAN :
        /\ net["there"][i] = p
        /\ Fault(n + Cardinality({x \in 1..2 : IF x = 1 THEN i > 1 ELSE twice}))
        /\ net' = [net EXCEPT !["there"] = RemoveAt(@, i) \o (IF twice THEN <<p>> ELSE <<>>),
                              ![Opposite["there"]] = @ \o out]
        /\ UNCHANGED <<role, len>>
  BY Zenon DEF Takes
<1>2. faults' \in 0..MaxFaults
  <2>1. PICK S : S = {x \in 1..2 : IF x = 1 THEN i > 1 ELSE twice}
    OBVIOUS
  <2>2. S \in SUBSET (1..2)
    BY <2>1
  <2>3. \A x \in 1..2 : x \in Nat /\ x < 3
    OBVIOUS
  <2>4. Cardinality(S) \in Nat
    BY <2>2, <2>3, Bounded
  <2>5. Fault(n + Cardinality(S))
    BY <1>1, <2>1
  <2> QED BY <2>4, <2>5, FragAssumption DEF Fault
<1>3. Opposite["there"] = "back"
  BY DEF Opposite
<1>4. net.there \in Seq(Pkts) /\ net.back \in Seq(Pkts) /\ i \in 1..Len(net.there)
  BY DEF Nets
<1>5. PICK r : r = RemoveAt(net.there, i)
  OBVIOUS
<1>6. r \in Seq(Pkts) /\ \A g \in ToSet(r) : g \in ToSet(net.there)
  BY <1>4, <1>5, Removes
<1>7. PICK c : c = IF twice THEN <<p>> ELSE <<>>
  OBVIOUS
<1>8. p \in Pkts /\ p \in ToSet(net.there)
  BY <1>1, <1>4 DEF ToSet
<1>9. c \in Seq(Pkts) /\ \A g \in ToSet(c) : g \in ToSet(net.there)
  BY <1>7, <1>8 DEF ToSet
<1>10. r \o c \in Seq(Pkts) /\ \A g \in ToSet(r \o c) : g \in ToSet(net.there)
  BY <1>6, <1>9, Appends
<1>11. /\ net.back \o out \in Seq(Pkts)
       /\ \A g \in ToSet(net.back \o out) : g \in ToSet(net.back) \/ g \in ToSet(out)
  BY <1>4, Appends
<1>12. net' = [net EXCEPT !.there = r \o c, !.back = net.back \o out]
  BY <1>1, <1>3, <1>5, <1>7 DEF Nets
<1>13. net' \in Nets /\ net'.there = r \o c /\ net'.back = net.back \o out
  BY <1>10, <1>11, <1>12 DEF Nets
<1> QED BY <1>1, <1>2, <1>10, <1>11, <1>13 DEF Arriving

\* Packets are put on the network, or one of them is lost.
LEMMA SendsThere ==
  ASSUME net \in Nets, NEW out \in Seq(Pkts), net' = [net EXCEPT !.there = @ \o out]
  PROVE  /\ net' \in Nets
         /\ \A g \in Arriving("there")' : g \in Arriving("there") \/ g \in ToSet(out)
         /\ \A g \in Arriving("back")' : g \in Arriving("back")
<1>1. net.there \in Seq(Pkts) /\ net.back \in Seq(Pkts)
  BY DEF Nets
<1>2. PICK s : s = net.there \o out
  OBVIOUS
<1>3. s \in Seq(Pkts) /\ \A g \in ToSet(s) : g \in ToSet(net.there) \/ g \in ToSet(out)
  BY <1>1, <1>2, Appends
<1>4. net' \in Nets /\ net'.there = s /\ net'.back = net.back
  BY <1>1, <1>2, <1>3 DEF Nets
<1> QED BY <1>3, <1>4 DEF Arriving

LEMMA SendsBack ==
  ASSUME net \in Nets, NEW out \in Seq(Pkts), net' = [net EXCEPT !.back = @ \o out]
  PROVE  /\ net' \in Nets
         /\ \A g \in Arriving("back")' : g \in Arriving("back") \/ g \in ToSet(out)
         /\ \A g \in Arriving("there")' : g \in Arriving("there")
<1>1. net.there \in Seq(Pkts) /\ net.back \in Seq(Pkts)
  BY DEF Nets
<1>2. PICK s : s = net.back \o out
  OBVIOUS
<1>3. s \in Seq(Pkts) /\ \A g \in ToSet(s) : g \in ToSet(net.back) \/ g \in ToSet(out)
  BY <1>1, <1>2, Appends
<1>4. net' \in Nets /\ net'.back = s /\ net'.there = net.there
  BY <1>1, <1>2, <1>3 DEF Nets
<1> QED BY <1>3, <1>4 DEF Arriving

\* One packet
LEMMA OnePacket ==
  ASSUME NEW p \in Pkts
  PROVE  /\ <<p>> \in Seq(Pkts) /\ \A g \in ToSet(<<p>>) : g = p
         /\ \A s \in Seq(Pkts) : Append(s, p) = s \o <<p>>
<1>1. <<p>> \in Seq(Pkts) /\ \A g \in ToSet(<<p>>) : g = p
  BY DEF ToSet
<1>2. ASSUME NEW s \in Seq(Pkts)
      PROVE  Append(s, p) = s \o <<p>>
  OBVIOUS
<1> QED BY <1>1, <1>2

LEMMA LosesOne ==
  ASSUME net \in Nets, Loses("there") \/ Loses("back"), faults \in Nat
  PROVE  /\ net' \in Nets /\ role' = role /\ len' = len /\ faults' \in 0..MaxFaults
         /\ \A g \in Arriving("there")' : g \in Arriving("there")
         /\ \A g \in Arriving("back")' : g \in Arriving("back")
<1>1. net.there \in Seq(Pkts) /\ net.back \in Seq(Pkts)
  BY DEF Nets
<1>2. role' = role /\ len' = len /\ faults' \in 0..MaxFaults
  BY FragAssumption DEF Loses, Fault
<1>3. CASE Loses("there")
  <2>1. PICK i \in 1..Len(net.there) : net' = [net EXCEPT !["there"] = RemoveAt(@, i)]
    BY <1>3 DEF Loses
  <2>2. PICK s : s = RemoveAt(net.there, i)
    OBVIOUS
  <2>3. s \in Seq(Pkts) /\ \A g \in ToSet(s) : g \in ToSet(net.there)
    BY <1>1, <2>2, Removes
  <2>4. net' \in Nets /\ net'.there = s /\ net'.back = net.back
    BY <1>1, <2>1, <2>2, <2>3 DEF Nets
  <2> QED BY <1>2, <2>3, <2>4 DEF Arriving
<1>4. CASE Loses("back")
  <2>1. PICK i \in 1..Len(net.back) : net' = [net EXCEPT !["back"] = RemoveAt(@, i)]
    BY <1>4 DEF Loses
  <2>2. PICK s : s = RemoveAt(net.back, i)
    OBVIOUS
  <2>3. s \in Seq(Pkts) /\ \A g \in ToSet(s) : g \in ToSet(net.back)
    BY <1>1, <2>2, Removes
  <2>4. net' \in Nets /\ net'.back = s /\ net'.there = net.there
    BY <1>1, <2>1, <2>2, <2>3 DEF Nets
  <2> QED BY <1>2, <2>3, <2>4 DEF Arriving
<1> QED BY <1>3, <1>4

\* Packets as they are made
LEMMA PacketTypes ==
  /\ EmptyNocall \in Pkts /\ Working \in Pkts /\ Over \in Pkts
  /\ EmptyNocall.type = "empty nocall" /\ Working.type = "working" /\ Over.type = "over"
  BY DEF EmptyNocall, Working, Over, Packet, Pkts

LEMMA PingType ==
  ASSUME NEW ser \in Int
  PROVE  Ping(ser) \in Pkts /\ Ping(ser).type = "ping"
  BY DEF Ping, Packet, Pkts

LEMMA FackType ==
  ASSUME NEW type \in {"fack", "nocall"}, NEW ser \in Int, NEW next \in Nat, NEW win \in Nat,
         NEW mask \in SUBSET Nat
  PROVE  LET p == Fack(type, ser, next, win, mask) IN
         p \in Pkts /\ p.type = type /\ p.next = next /\ p.mask = mask
  BY DEF Fack, Packet, Pkts

\* What a blast sends may arrive: what it marks as the end of the message is at
\* the tail of a queue that holds all that was not received.
LEMMA BlastArrives ==
  ASSUME NEW x, SendQueue(x), NEW r, NEW got, Kept(x, r, got), len \in Nat
  PROVE  /\ BlastPackets(x) \in Seq(Pkts)
         /\ \A p \in ToSet(BlastPackets(x)) : ThereOK(p, x.next, r, got)
<1>1. PICK s : s = BlastPackets(x)
  OBVIOUS
<1>2. /\ s \in Seq(Pkts)
      /\ \A i \in 1..Len(s) :
           /\ s[i].type = "data" /\ s[i].f \in x.q /\ s[i].frag = x.frag
           /\ s[i].last => x.push /\ \A g \in x.q : g <= s[i].f
  BY <1>1, BlastSent
<1>3. /\ x.next \in Nat /\ x.q \subseteq 0..(x.next - 1) /\ (x.push => x.next = len)
      /\ x.next > 0 /\ ~x.frag => len = 1
  BY DEF SendQueue, XqReps
<1>4. ASSUME NEW i \in 1..Len(s)
      PROVE  ThereOK(s[i], x.next, r, got)
  <2>1. PICK f : f = s[i].f
    OBVIOUS
  <2>0. f \in x.q /\ s[i].frag = x.frag /\ x.frag \in BOOLEAN
    BY <1>2, <2>1 DEF SendQueue, XqReps
  <2>2. f \in Nat /\ f < x.next /\ (s[i].frag \/ len = 1)
    <3>1. f \in Nat /\ f < x.next
      BY <1>3, <2>0
    <3>2. x.next > 0
      BY <1>3, <3>1
    <3> QED BY <1>3, <2>0, <3>1, <3>2
  <2>3. ASSUME s[i].last, NEW g \in (f + 1)..(len - 1)
        PROVE  g \in Received(r, got)
    <3>0. x.push /\ \A h \in x.q : h <= s[i].f
      BY <1>2, <2>3
    <3>1. x.next = len /\ \A h \in x.q : h <= f
      BY <3>0, <1>3, <2>1
    <3>2. g \notin x.q
      BY <2>2, <3>1
    <3>3. g \in 0..(x.next - 1)
      BY <1>3, <2>2, <3>1
    <3> QED BY <3>2, <3>3 DEF Kept
  <2> QED BY <2>1, <2>2, <2>3 DEF ThereOK, Ending
<1>5. \A p \in ToSet(s) : \E i \in 1..Len(s) : p = s[i]
  BY <1>2 DEF ToSet
<1> QED BY <1>1, <1>2, <1>4, <1>5

-----------------------------------------------------------------------------
(* The receive queue *)

\* It does not outgrow its limit.
LEMMA QueueBound ==
  ASSUME NEW r, NEW got \in Nat, RecvQueue(r, got), len \in Nat
  PROVE  /\ r.q \subseteq Nat /\ r.next \in Nat
         /\ IsFiniteSet(r.q) /\ Cardinality(r.q) \in Nat /\ Cardinality(r.q) <= MaxQueue
         /\ r.next - got <= Cardinality(r.q)
<1>1. /\ r.q \in SUBSET Nat /\ r.next \in Nat /\ r.q \in SUBSET (got..(got + MaxQueue - 1))
      /\ got..(r.next - 1) \in SUBSET r.q /\ got <= r.next
  BY DEF RecvQueue, RqReps
<1>2. MaxQueue \in Nat
  BY ReceiverAssumption
<1>3. got + MaxQueue - 1 \in Int /\ got <= (got + MaxQueue - 1) + 1
  BY <1>2
<1>4. /\ IsFiniteSet(got..(got + MaxQueue - 1))
      /\ Cardinality(got..(got + MaxQueue - 1)) = (got + MaxQueue - 1) - got + 1
  BY <1>3, Between, got \in Int
<1>5. IsFiniteSet(r.q) /\ Cardinality(r.q) <= Cardinality(got..(got + MaxQueue - 1))
  BY <1>1, <1>4, FS_Subset
<1>6. Cardinality(r.q) \in Nat /\ Cardinality(r.q) <= MaxQueue
  <2>1. Cardinality(r.q) \in Nat
    BY <1>5, FS_CardinalityType
  <2> QED BY <2>1, <1>2, <1>4, <1>5
<1>7. r.next - 1 \in Int /\ got <= (r.next - 1) + 1
  BY <1>1
<1>8. Cardinality(got..(r.next - 1)) = (r.next - 1) - got + 1
  BY <1>7, Between, got \in Int
<1>9. Cardinality(got..(r.next - 1)) <= Cardinality(r.q)
  BY <1>1, <1>5, FS_Subset
<1>10. r.next - got <= Cardinality(r.q)
  BY <1>1, <1>6, <1>8, <1>9
<1> QED BY <1>1, <1>5, <1>6, <1>10

\* What a fack says has been received.
LEMMA FackTells ==
  ASSUME NEW r, NEW got \in Nat, RecvQueue(r, got), len \in Nat,
         NEW type \in {"fack", "nocall"}, NEW ser \in Int, NEW resv, NEW pool,
         NEW a \in Facks(type, ser, r, resv, pool)
  PROVE  a \in Pkts /\ BackOK(a, r, got)
<1>1. /\ r.q \subseteq Nat /\ r.next \in Nat
      /\ Cardinality(r.q) \in Nat /\ Cardinality(r.q) <= MaxQueue
  BY QueueBound
<1>2. PICK w \in Windows(r, resv, pool) : a = Fack(type, ser, r.next, w, {f \in r.q : f > r.next})
  BY DEF Facks
<1>3. w \in Nat
  <2>1. PICK room \in Nat : room = MaxQueue - Cardinality(r.q)
    BY <1>1, ReceiverAssumption
  <2>2. RecvWindow \in Int /\ RecvWindow \in Nat
    BY ReceiverAssumption
  <2>3. PICK free \in Nat : free = Min({RecvWindow, room})
    <3>1. Min({RecvWindow, room}) = IF RecvWindow <= room THEN RecvWindow ELSE room
      BY <2>2, OfTwo, room \in Int
    <3> QED BY <3>1, <2>2
  <2>4. \/ w \in {0, 1, 2}
        \/ w \in {free} \cup (IF free > 2 THEN {free - 1} ELSE {})
    BY <2>1, <2>3 DEF Windows
  <2> QED BY <2>3, <2>4
<1>4. PICK mask \in SUBSET Nat : mask = {f \in r.q : f > r.next}
  BY <1>1
<1>5. a \in Pkts /\ a.type = type /\ a.next = r.next /\ a.mask = mask
  <2>1. a = Fack(type, ser, r.next, w, mask)
    BY <1>2, <1>4
  <2>2. LET p == Fack(type, ser, r.next, w, mask) IN
        p \in Pkts /\ p.type = type /\ p.next = r.next /\ p.mask = mask
    BY <1>1, <1>3, FackType
  <2> QED BY <2>1, <2>2
<1>6. 0..(r.next - 1) \cup mask \subseteq Received(r, got)
  <2>1. got..(r.next - 1) \subseteq r.q /\ got <= r.next
    BY DEF RecvQueue
  <2>2. 0..(r.next - 1) \subseteq got..(r.next - 1) \cup 0..(got - 1)
    BY <1>1
  <2> QED BY <2>1, <2>2, <1>4 DEF Received
<1> QED BY <1>5, <1>6 DEF BackOK

\* A larger queue, or more that was consumed
LEMMA ReceivedMore ==
  ASSUME NEW r, NEW got, NEW s, NEW gone, Received(r, got) \subseteq Received(s, gone)
  PROVE  /\ \A f : Ending(r, got, f) => Ending(s, gone, f)
         /\ \A p, n : ThereOK(p, n, r, got) => ThereOK(p, n, s, gone)
         /\ \A x : Kept(x, r, got) => Kept(x, s, gone)
         /\ (r.all => s.all) /\ (got = len => gone = len) =>
              \A p : BackOK(p, r, got) => BackOK(p, s, gone)
<1>1. \A f : Ending(r, got, f) => Ending(s, gone, f)
  BY DEF Ending
<1>2. \A p, n : ThereOK(p, n, r, got) => ThereOK(p, n, s, gone)
  BY <1>1 DEF ThereOK
<1>3. \A x : Kept(x, r, got) => Kept(x, s, gone)
  BY DEF Kept
<1>4. ASSUME r.all => s.all, got = len => gone = len, NEW p, BackOK(p, r, got)
      PROVE  BackOK(p, s, gone)
  BY <1>4 DEF BackOK
<1> QED BY <1>1, <1>2, <1>3, <1>4

\* Everything has been received.
LEMMA ReceivedAll ==
  ASSUME NEW r, NEW got \in Nat, RecvQueue(r, got), len \in Nat, r.all \/ got = len
  PROVE  0..(len - 1) \subseteq Received(r, got)
<1>1. r.next = len \/ got = len
  BY DEF RecvQueue
<1>2. got..(r.next - 1) \subseteq r.q
  BY DEF RecvQueue
<1> QED BY <1>1, <1>2 DEF Received

\* The next fragment to be expected
LEMMA NextMissing ==
  ASSUME NEW q \in SUBSET Nat, NEW n \in Nat, \A f \in q : f < n + MaxQueue
  PROVE  LET m == NextAfter(q, n) IN
         m \in Nat /\ n <= m /\ m \notin q /\ n..(m - 1) \subseteq q
<1> DEFINE S == {f \in n..(n + MaxQueue) : f \notin q}
<1>1. MaxQueue \in Nat
  BY ReceiverAssumption
<1>2. S \subseteq Int /\ n + MaxQueue \in S
  BY <1>1
<1>3. IsFiniteSet(S)
  <2>1. S \in SUBSET Nat /\ n + MaxQueue + 1 \in Nat /\ \A f \in S : f < n + MaxQueue + 1
    BY <1>1
  <2> QED BY <2>1, Bounded
<1>4. Min(S) \in S /\ \A g \in S : Min(S) <= g
  <2>1. S # {}
    BY <1>2
  <2> HIDE DEF S
  <2> QED BY <2>1, <1>2, <1>3, Extremes
<1>5. PICK m : m = Min(S)
  OBVIOUS
<1>6. m \in n..(n + MaxQueue) /\ m \notin q
  BY <1>4, <1>5
<1>7. \A f \in n..(m - 1) : f \in q
  <2>1. TAKE f \in n..(m - 1)
  <2>2. f \in n..(n + MaxQueue) /\ ~(m <= f)
    BY <1>1, <1>6
  <2>3. f \notin S
    BY <2>2, <1>4, <1>5
  <2> QED BY <2>2, <2>3
<1> QED BY <1>1, <1>5, <1>6, <1>7 DEF NextAfter

\* A fragment that is queued finds its place: it was not received before, and it is
\* among the next MaxQueue ones to be consumed.
LEMMA Placed ==
  ASSUME NEW got \in Nat, RecvQueue(rq, got), len \in Nat, NEW f \in Nat, NEW resv, NEW pool,
         Queues(f, resv, pool)
  PROVE  rq.next <= f /\ f < got + MaxQueue
<1>1. /\ rq.q \subseteq Nat /\ rq.next \in Nat /\ IsFiniteSet(rq.q)
      /\ Cardinality(rq.q) \in Nat /\ rq.next - got <= Cardinality(rq.q)
  BY QueueBound
<1>2. MaxQueue \in Nat
  BY ReceiverAssumption
<1>3. CASE f = rq.next /\ MayQueueNext(f, pool)
  BY <1>1, <1>2, <1>3 DEF MayQueueNext
<1>4. CASE f > rq.next /\ MayQueueLater(f, pool)
  <2>1. f < rq.next + MaxQueue /\ (InOrder(rq) # {} => f < Min(rq.q) + MaxQueue)
    BY <1>4 DEF MayQueueLater
  <2>2. /\ \A g \in rq.q : got <= g
        /\ got..(rq.next - 1) \subseteq rq.q /\ got <= rq.next
    BY <1>1 DEF RecvQueue
  <2>3. CASE InOrder(rq) = {}
    <3>1. ~(got < rq.next)
      <4>1. got < rq.next => got \in InOrder(rq)
        BY <2>2, <1>1 DEF InOrder
      <4> QED BY <4>1, <2>3
    <3> QED BY <3>1, <2>1, <2>2, <1>1, <1>2, <1>4
  <2>4. CASE InOrder(rq) # {}
    <3>1. PICK g \in rq.q : g < rq.next
      BY <2>4 DEF InOrder
    <3>2. got \in rq.q
      BY <3>1, <2>2, <1>1
    <3>3. PICK m : m = Min(rq.q)
      OBVIOUS
    <3>4. m \in rq.q /\ m <= got
      <4>1. rq.q \subseteq Int /\ rq.q # {}
        BY <1>1, <3>2
      <4>2. Min(rq.q) \in rq.q /\ \A h \in rq.q : Min(rq.q) <= h
        BY <4>1, <1>1, Extremes
      <4> QED BY <4>2, <3>2, <3>3
    <3> QED BY <3>3, <3>4, <2>1, <2>4, <1>1, <1>2, <1>4
  <2> QED BY <2>3, <2>4
<1> QED BY <1>3, <1>4 DEF Queues

\* rpc__dg_call_recvq_insert
LEMMA InsertQueue ==
  ASSUME NEW got \in Nat, RecvQueue(rq, got), len \in Nat, NEW next \in Nat, next <= len,
         rq.q \subseteq 0..(next - 1),
         NEW p \in Pkts, p.type = "data", ThereOK(p, next, rq, got), NEW resv, NEW pool
  PROVE  LET r == Insert(p, resv, pool) IN
         /\ RecvQueue(r, got) /\ r.q \subseteq 0..(next - 1)
         /\ Received(rq, got) \subseteq Received(r, got)
         /\ rq.all => r.all
<1>1. PICK f \in Nat : f = p.f
  BY DEF Pkts
<1>2. /\ f < next /\ (p.frag \/ len = 1) /\ (p.last => Ending(rq, got, f))
      /\ p.frag \in BOOLEAN /\ p.last \in BOOLEAN /\ p.ser \in Int
  BY <1>1 DEF ThereOK, Pkts
<1>3. /\ rq \in RqReps /\ rq.q \in SUBSET Nat /\ rq.lasts \in SUBSET Nat
      /\ rq.ser \in [AllFrags -> Int] /\ rq.next \in Nat /\ rq.high \in Int
      /\ rq.recving \in BOOLEAN /\ rq.all \in BOOLEAN
  BY DEF RecvQueue, RqReps
<1>4. /\ got <= rq.next /\ rq.next <= len
      /\ rq.q \subseteq got..(len - 1) /\ rq.q \subseteq got..(got + MaxQueue - 1)
      /\ got..(rq.next - 1) \subseteq rq.q /\ rq.next \notin rq.q
      /\ (rq.all => rq.next = len)
      /\ (rq.q # {} /\ ~rq.recving => len = 1)
      /\ \A g \in rq.lasts : Ending(rq, got, g)
  BY DEF RecvQueue
<1>5. PICK v \in BOOLEAN : v = (rq.recving \/ p.frag)
  BY <1>2, <1>3
<1>6. PICK h \in Int : h = Max({rq.high, p.ser})
  <2>1. Max({rq.high, p.ser}) = IF rq.high >= p.ser THEN rq.high ELSE p.ser
    BY <1>2, <1>3, OfTwo, Zenon
  <2> QED BY <2>1, <1>2, <1>3
<1>7. PICK r0 : r0 = [rq EXCEPT !.recving = v, !.high = h]
  OBVIOUS
<1>8. /\ r0 \in RqReps
      /\ r0.q = rq.q /\ r0.lasts = rq.lasts /\ r0.ser = rq.ser /\ r0.next = rq.next
      /\ r0.recving = v /\ r0.all = rq.all
  BY <1>3, <1>7 DEF RqReps
<1>9. r0 = [rq EXCEPT !.recving = @ \/ p.frag, !.high = Max({@, p.ser})]
  BY <1>3, <1>5, <1>6, <1>7 DEF RqReps
<1>10. CASE ~Queues(p.f, resv, pool)
  <2>1. Insert(p, resv, pool) = r0
    BY <1>9, <1>10 DEF Insert
  <2>2. RecvQueue(r0, got)
    <3>1. r0.q # {} /\ ~r0.recving => len = 1
      BY <1>4, <1>5, <1>8
    <3>2. \A g \in r0.lasts : Ending(r0, got, g)
      BY <1>4, <1>8 DEF Ending, Received
    <3> QED BY <3>1, <3>2, <1>4, <1>8 DEF RecvQueue
  <2> QED BY <2>1, <2>2, <1>8 DEF Received
<1>11. CASE Queues(p.f, resv, pool)
  <2>1. rq.next <= f /\ f < got + MaxQueue
    BY <1>1, <1>11, Placed
  <2>2. PICK q \in SUBSET Nat : q = rq.q \cup {f}
    BY <1>3
  <2>3. /\ q \subseteq got..(len - 1) /\ q \subseteq got..(got + MaxQueue - 1)
        /\ q \subseteq 0..(next - 1) /\ f \in q /\ rq.q \subseteq q
    BY <1>2, <1>4, <2>1, <2>2, <1>3, ReceiverAssumption
  <2>4. PICK lasts \in SUBSET Nat : lasts = rq.lasts \cup (IF p.last THEN {f} ELSE {})
    BY <1>3
  <2>5. PICK m : m = NextAfter(q, rq.next)
    OBVIOUS
  <2>6. m \in Nat /\ rq.next <= m /\ m \notin q /\ rq.next..(m - 1) \subseteq q
    <3>1. \A g \in q : g < rq.next + MaxQueue
      BY <2>3, <1>3, <1>4, ReceiverAssumption
    <3> QED BY <3>1, <2>5, <1>3, NextMissing
  <2>7. m <= len /\ got <= m /\ got..(m - 1) \subseteq q
    <3>1. m <= len
      <4>1. rq.next < m => m - 1 \in q
        BY <2>6, <1>3
      <4> QED BY <4>1, <2>3, <2>6, <1>3, <1>4
    <3>2. \A g \in got..(m - 1) : g \in got..(rq.next - 1) \/ g \in rq.next..(m - 1)
      BY <1>3, <2>6
    <3> QED BY <3>1, <3>2, <2>3, <2>6, <1>3, <1>4
  <2>8. PICK c \in BOOLEAN :
          c = (/\ \E g \in q : g < m
               /\ ~v \/ m - 1 \in lasts)
    OBVIOUS
  <2>9. PICK s \in [AllFrags -> Int] : s = [rq.ser EXCEPT ![f] = p.ser]
    BY <1>2, <1>3
  <2>10. PICK r : r = [r0 EXCEPT !.q = q, !.lasts = lasts, !.ser = s, !.next = m,
                                 !.all = rq.all \/ c]
    OBVIOUS
  <2>11. /\ r \in RqReps
         /\ r.q = q /\ r.lasts = lasts /\ r.next = m /\ r.recving = v /\ r.all = (rq.all \/ c)
    BY <1>3, <1>8, <2>6, <2>10 DEF RqReps
  <2>12. Insert(p, resv, pool) = r
    <3>1. Insert(p, resv, pool) =
            [r0 EXCEPT !.q = r0.q \cup {p.f},
                       !.lasts = r0.lasts \cup (IF p.last THEN {p.f} ELSE {}),
                       !.ser[p.f] = p.ser,
                       !.next = NextAfter(r0.q \cup {p.f}, r0.next),
                       !.all = @ \/ (/\ \E g \in r0.q \cup {p.f} : g < NextAfter(r0.q \cup {p.f}, r0.next)
                                     /\ \/ ~r0.recving
                                        \/ NextAfter(r0.q \cup {p.f}, r0.next) - 1
                                             \in r0.lasts \cup (IF p.last THEN {p.f} ELSE {}))]
      BY <1>9, <1>11 DEF Insert
    <3>2. /\ r0.q \cup {p.f} = q /\ r0.lasts \cup (IF p.last THEN {p.f} ELSE {}) = lasts
          /\ NextAfter(r0.q \cup {p.f}, r0.next) = m
      BY <1>1, <1>8, <2>2, <2>4, <2>5
    <3>3. Insert(p, resv, pool) =
            [r0 EXCEPT !.q = q, !.lasts = lasts, !.ser[f] = p.ser, !.next = m,
                       !.all = @ \/ (/\ \E g \in q : g < m
                                     /\ ~r0.recving \/ m - 1 \in lasts)]
      BY <3>1, <3>2, <1>1
    <3> QED BY <3>3, <1>8, <2>8, <2>9, <2>10 DEF RqReps
  <2>13. Received(rq, got) \subseteq Received(r, got) /\ f \in Received(r, got)
    BY <2>3, <2>11 DEF Received
  <2>14. \A g \in r.lasts : Ending(r, got, g)
    <3>1. \A g \in lasts : g \in rq.lasts \/ (p.last /\ g = f)
      BY <2>4
    <3>2. \A g \in lasts : Ending(rq, got, g)
      BY <3>1, <1>2, <1>4
    <3> QED BY <3>2, <2>11, <2>13 DEF Ending
  <2>15. r.q # {} /\ ~r.recving => len = 1
    BY <1>2, <1>5, <2>11
  <2>16. ASSUME r.all
         PROVE  m = len
    <3>1. ~rq.all
      BY <1>2, <1>3, <1>4, <2>1
    <3>2. c
      BY <2>11, <2>16, <3>1
    <3>3. PICK g \in q : g < m
      BY <3>2, <2>8
    <3>4. CASE ~v
      <4>1. len = 1
        BY <3>4, <2>11, <2>15, <3>3
      <4> QED BY <4>1, <2>6, <2>7, <3>3
    <3>5. CASE m - 1 \in lasts
      <4>1. Ending(r, got, m - 1)
        BY <3>5, <2>11, <2>14
      <4>2. m < len => m \in Received(r, got)
        BY <4>1, <2>6 DEF Ending
      <4>3. m \notin Received(r, got)
        BY <2>6, <2>7, <2>11 DEF Received
      <4> QED BY <4>2, <4>3, <2>6, <2>7
    <3> QED BY <3>2, <3>4, <3>5, <2>8
  <2>17. RecvQueue(r, got)
    BY <2>3, <2>6, <2>7, <2>11, <2>14, <2>15, <2>16 DEF RecvQueue
  <2> QED BY <2>3, <2>11, <2>12, <2>13, <2>17
<1> QED BY <1>10, <1>11

\* rpc__dg_call_receive_int: the head of the queue is consumed.
LEMMA ReceiveQueue ==
  ASSUME NEW got \in Nat, RecvQueue(rq, got), len \in Nat, InOrder(rq) # {}, NEW s \in [AllFrags -> Int],
         NEW r,
         LET f == Min(rq.q) IN r = [rq EXCEPT !.q = @ \ {f}, !.lasts = @ \ {f}, !.ser = s]
  PROVE  /\ Min(rq.q) = got /\ got < len
         /\ RecvQueue(r, got + 1) /\ r.q \subseteq rq.q
         /\ Received(rq, got) \subseteq Received(r, got + 1)
         /\ r.all = rq.all
<1>1. /\ rq \in RqReps /\ rq.q \in SUBSET Nat /\ rq.lasts \in SUBSET Nat /\ rq.next \in Nat
  BY DEF RecvQueue, RqReps
<1>2. /\ got <= rq.next /\ rq.next <= len
      /\ rq.q \subseteq got..(len - 1) /\ rq.q \subseteq got..(got + MaxQueue - 1)
      /\ got..(rq.next - 1) \subseteq rq.q /\ rq.next \notin rq.q
      /\ (rq.all => rq.next = len)
      /\ (rq.q # {} /\ ~rq.recving => len = 1)
      /\ \A g \in rq.lasts : Ending(rq, got, g)
  BY DEF RecvQueue
<1>3. got \in rq.q /\ got < rq.next
  <2>1. PICK g \in rq.q : g < rq.next
    BY DEF InOrder
  <2> QED BY <2>1, <1>1, <1>2
<1>4. Min(rq.q) = got
  <2>1. IsFiniteSet(rq.q) /\ rq.q \subseteq Int /\ rq.q # {}
    BY <1>1, <1>3, QueueBound
  <2>2. PICK m : m = Min(rq.q)
    OBVIOUS
  <2>3. m \in rq.q /\ m <= got
    <3>1. Min(rq.q) \in rq.q /\ \A h \in rq.q : Min(rq.q) <= h
      BY <2>1, Extremes
    <3> QED BY <3>1, <2>2, <1>3
  <2> QED BY <2>2, <2>3, <1>1, <1>2
<1>5. /\ r \in RqReps
      /\ r.q = rq.q \ {got} /\ r.lasts = rq.lasts \ {got} /\ r.next = rq.next
      /\ r.recving = rq.recving /\ r.all = rq.all
  BY <1>1, <1>4 DEF RqReps
<1>6. Received(rq, got) \subseteq Received(r, got + 1)
  BY <1>5 DEF Received
<1>7. \A g \in r.lasts : Ending(r, got + 1, g)
  BY <1>2, <1>5, <1>6 DEF Ending
<1>8. /\ r.q \subseteq (got + 1)..(len - 1) /\ r.q \subseteq (got + 1)..((got + 1) + MaxQueue - 1)
      /\ (got + 1)..(r.next - 1) \subseteq r.q /\ got + 1 <= r.next
  BY <1>1, <1>2, <1>3, <1>5, ReceiverAssumption
<1>9. RecvQueue(r, got + 1)
  BY <1>2, <1>5, <1>7, <1>8 DEF RecvQueue
<1> QED BY <1>1, <1>2, <1>3, <1>4, <1>5, <1>6, <1>9

-----------------------------------------------------------------------------
(* Steps *)

\* A step of the sender: the receiver stays as it is.
LEMMA SenderSide ==
  ASSUME TransferInv, UNCHANGED receiverVars, role' = role, len' = len, faults' \in 0..MaxFaults,
         net' \in Nets, snd' \in SndReps,
         SendQueue(xq'), Limits(xq'), xq.next <= xq'.next,
         Sending' \/ xq'.q # {} => Exact(xq'),
         \A p \in Arriving("there")' :
           p \in Arriving("there") \/ ThereOK(p, xq'.next, rq, rcv.got),
         \A p \in Arriving("back")' : p \in Arriving("back"),
         snd'.pc # "failed" => Kept(xq', rq, rcv.got),
         snd'.pc = "done" => rcv.got = len
  PROVE  TransferInv'
<1>1. rq' = rq /\ rcv' = rcv
  BY DEF receiverVars
<1>2. SendQueue(xq)'
  BY DEF SendQueue
<1>3. Limits(xq)' /\ (Sending' \/ xq'.q # {} => Exact(xq)')
  BY DEF Limits, Exact
<1>4. RecvQueue(rq, rcv.got)'
  BY <1>1 DEF TransferInv, RecvQueue, Ending, Received
<1>5. xq.next \in Nat /\ xq'.next \in Nat /\ (rq.q \subseteq 0..(xq.next - 1))
  BY DEF TransferInv, SendQueue, XqReps
<1>6. rq'.q \subseteq 0..(xq'.next - 1)
  BY <1>1, <1>5
<1>7. ASSUME NEW p \in Arriving("there")'
      PROVE  ThereOK(p, xq.next, rq, rcv.got)'
  <2>1. CASE p \in Arriving("there")
    <3>1. ThereOK(p, xq.next, rq, rcv.got) /\ p \in Pkts
      <4>1. net.there \in Seq(Pkts) /\ p \in ToSet(net.there)
        BY <2>1 DEF TransferInv, Nets, Arriving
      <4>2. p \in Pkts
        BY <4>1 DEF ToSet
      <4> QED BY <4>2, <2>1 DEF TransferInv
    <3>2. p.f \in Nat
      BY <3>1 DEF Pkts
    <3> QED BY <3>1, <3>2, <1>1, <1>5 DEF ThereOK, Ending, Received
  <2>2. CASE ThereOK(p, xq'.next, rq, rcv.got)
    BY <2>2, <1>1 DEF ThereOK, Ending, Received
  <2> QED BY <2>1, <2>2
<1>8. \A p \in Arriving("back")' : BackOK(p, rq, rcv.got)'
  BY <1>1 DEF TransferInv, BackOK, Received
<1>9. snd'.pc # "failed" => Kept(xq, rq, rcv.got)'
  BY <1>1 DEF Kept, Received
<1> QED BY <1>1, <1>2, <1>3, <1>4, <1>6, <1>7, <1>8, <1>9 DEF TransferInv

\* A step of the receiver: the sender stays as it is.
LEMMA ReceiverSide ==
  ASSUME TransferInv, UNCHANGED senderVars, role' = role, len' = len, faults' \in 0..MaxFaults,
         net' \in Nets, rcv' \in RcvReps,
         RecvQueue(rq', rcv'.got), rq'.q \subseteq 0..(xq.next - 1),
         Received(rq, rcv.got) \subseteq Received(rq', rcv'.got),
         rq.all => rq'.all, rcv.got = len => rcv'.got = len,
         rcv'.pc = "over" => rcv'.got = len,
         \A p \in Arriving("there")' : p \in Arriving("there"),
         \A p \in Arriving("back")' :
           p \in Arriving("back") \/ BackOK(p, rq', rcv'.got)
  PROVE  TransferInv'
<1>1. xq' = xq /\ snd' = snd
  BY DEF senderVars
<1>2. SendQueue(xq)' /\ Limits(xq)' /\ (Sending' \/ xq'.q # {} => Exact(xq)')
  BY <1>1 DEF TransferInv, SendQueue, Limits, Exact, Sending
<1>3. RecvQueue(rq, rcv.got)'
  BY DEF RecvQueue, Ending, Received
<1>4. PICK r, got : r = rq' /\ got = rcv'.got
  OBVIOUS
<1>5. /\ \A p, n : ThereOK(p, n, rq, rcv.got) => ThereOK(p, n, r, got)
      /\ \A x : Kept(x, rq, rcv.got) => Kept(x, r, got)
      /\ \A p : BackOK(p, rq, rcv.got) => BackOK(p, r, got)
  BY <1>4, ReceivedMore
<1>6. ASSUME NEW p \in Arriving("there")'
      PROVE  ThereOK(p, xq.next, rq, rcv.got)'
  <2>1. ThereOK(p, xq.next, r, got)
    BY <1>5 DEF TransferInv
  <2> QED BY <2>1, <1>1, <1>4 DEF ThereOK, Ending, Received
<1>7. ASSUME NEW p \in Arriving("back")'
      PROVE  BackOK(p, rq, rcv.got)'
  <2>1. BackOK(p, r, got)
    BY <1>4, <1>5 DEF TransferInv
  <2> QED BY <2>1, <1>4 DEF BackOK, Received
<1>8. snd'.pc # "failed" => Kept(xq, rq, rcv.got)'
  <2>1. snd.pc # "failed" => Kept(xq, r, got)
    BY <1>5 DEF TransferInv
  <2> QED BY <2>1, <1>1, <1>4 DEF Kept, Received
<1>9. snd'.pc = "done" => rcv'.got = len
  BY <1>1 DEF TransferInv
<1> QED BY <1>1, <1>2, <1>3, <1>6, <1>7, <1>8, <1>9 DEF TransferInv

\* The length of the message
LEMMA Length ==
  ASSUME len \in Lengths
  PROVE  len \in Nat /\ len > 0 /\ \A f \in 0..(len - 1) : f \in AllFrags
<1>1. Lengths \subseteq Int /\ IsFiniteSet(Lengths) /\ Lengths # {} /\ len \in Nat /\ len > 0
  BY FragAssumption
<1>2. PICK m : m = Max(Lengths)
  OBVIOUS
<1>3. m \in Int /\ len <= m
  <2>1. Max(Lengths) \in Lengths /\ \A g \in Lengths : g <= Max(Lengths)
    BY <1>1, Extremes
  <2> QED BY <2>1, <1>1, <1>2
<1> QED BY <1>1, <1>2, <1>3 DEF AllFrags

\* The transmit queue becomes x, and a blast may go out.
LEMMA QueueStep ==
  ASSUME TransferInv, UNCHANGED receiverVars, role' = role, len' = len, faults' \in 0..MaxFaults,
         net' \in Nets, snd' \in SndReps,
         NEW x, SendQueue(x), Limits(x), xq.next <= x.next, Kept(x, rq, rcv.got),
         xq' = x \/ xq' = Xmit(x),
         Sending' \/ x.q # {} => Exact(x),
         \A p \in Arriving("there")' :
           p \in Arriving("there") \/ p \in ToSet(BlastPackets(x)) \/ p.type # "data",
         \A p \in Arriving("back")' : p \in Arriving("back"),
         snd'.pc = "done" => rcv.got = len
  PROVE  TransferInv'
<1>1. PICK y : y = xq'
  OBVIOUS
<1>2. /\ SendQueue(y) /\ Limits(y) /\ y.q = x.q /\ y.next = x.next
      /\ Exact(x) => Exact(y)
  <2>1. CASE y = x
    BY <2>1
  <2>2. CASE y = Xmit(x)
    <3>1. /\ SendQueue(y) /\ y.q = x.q /\ y.next = x.next /\ y.maxb = x.maxb /\ y.blast = 0
          /\ Exact(x) => Exact(y)
      BY <2>2, XmitQueue
    <3>2. Limits(y)
      BY <3>1, SenderAssumption DEF Limits
    <3> QED BY <3>1, <3>2
  <2> QED BY <1>1, <2>1, <2>2
<1>3. len \in Nat
  BY Length DEF TransferInv
<1>4. \A p \in ToSet(BlastPackets(x)) : ThereOK(p, x.next, rq, rcv.got)
  BY <1>3, BlastArrives
<1>5. \A p \in Arriving("there")' : p \in Arriving("there") \/ ThereOK(p, xq'.next, rq, rcv.got)
  <2>1. ASSUME NEW p, p.type # "data"
        PROVE  ThereOK(p, xq'.next, rq, rcv.got)
    BY <2>1 DEF ThereOK
  <2>2. xq'.next = x.next
    BY <1>1, <1>2
  <2> QED BY <1>4, <2>1, <2>2
<1>6. Kept(xq', rq, rcv.got)
  BY <1>1, <1>2 DEF Kept
<1>7. SendQueue(xq') /\ Limits(xq') /\ xq.next <= xq'.next
  BY <1>1, <1>2
<1>8. Sending' \/ xq'.q # {} => Exact(xq')
  BY <1>1, <1>2
<1> QED BY <1>5, <1>6, <1>7, <1>8, SenderSide

\* The transmit queue becomes x, and a blast goes out if one is ready.
LEMMA TransmitStep ==
  ASSUME TransferInv, UNCHANGED receiverVars, snd' \in SndReps,
         NEW x, SendQueue(x), Limits(x), xq.next <= x.next, Kept(x, rq, rcv.got),
         Transmit(x), Sending' \/ x.q # {} => Exact(x), snd'.pc # "done"
  PROVE  TransferInv'
<1>1. BlastPackets(x) \in Seq(Pkts)
  BY BlastSent
<1>2. net \in Nets
  BY DEF TransferInv
<1>3. net' = [net EXCEPT !.there = @ \o BlastPackets(x)]
  BY DEF Transmit, Sends
<1>6. /\ net' \in Nets
      /\ \A g \in Arriving("there")' : g \in Arriving("there") \/ g \in ToSet(BlastPackets(x))
      /\ \A g \in Arriving("back")' : g \in Arriving("back")
  BY <1>1, <1>2, <1>3, SendsThere
<1>7. role' = role /\ len' = len /\ faults' \in 0..MaxFaults
  BY DEF Transmit, Sends, TransferInv
<1>8. xq' = x \/ xq' = Xmit(x)
  BY DEF Transmit
<1> QED BY <1>6, <1>7, <1>8, QueueStep

\* A packet to the sender is answered by a blast or not at all.
LEMMA AnswerStep ==
  ASSUME TransferInv, UNCHANGED receiverVars, snd' \in SndReps, NEW p,
         NEW x, SendQueue(x), Limits(x), xq.next <= x.next, Kept(x, rq, rcv.got),
         xq' = x \/ xq' = Xmit(x), NEW out, out = <<>> \/ out = BlastPackets(x), Answers(p, out),
         Sending' \/ x.q # {} => Exact(x), snd'.pc = "done" => rcv.got = len
  PROVE  TransferInv'
<1>1. out \in Seq(Pkts) /\ \A g \in ToSet(out) : g \in ToSet(BlastPackets(x))
  <2>1. CASE out = <<>>
    <3>1. \A g : g \notin ToSet(out)
      BY <2>1 DEF ToSet
    <3> QED BY <2>1, <3>1
  <2>2. CASE out = BlastPackets(x)
    BY <2>2, BlastSent
  <2> QED BY <2>1, <2>2
<1>2. net \in Nets /\ faults \in Nat
  BY DEF TransferInv
<1>3. Takes("back", p, out, 0)
  BY DEF Answers
<1>4. /\ net' \in Nets /\ role' = role /\ len' = len /\ faults' \in 0..MaxFaults
      /\ \A g \in Arriving("back")' : g \in Arriving("back")
      /\ \A g \in Arriving("there")' : g \in Arriving("there") \/ g \in ToSet(out)
  BY <1>1, <1>2, <1>3, TakesBack
<1> QED BY <1>1, <1>4, QueueStep

\* rpc__dg_call_transmit_int: a fragment is added to the queue.
LEMMA StepAppendFull ==
  ASSUME TransferInv, UNCHANGED receiverVars, AppendFull
  PROVE  TransferInv'
<1>1. /\ xq \in XqReps /\ SendQueue(xq) /\ Limits(xq) /\ Exact(xq) /\ Kept(xq, rq, rcv.got)
      /\ snd \in SndReps /\ snd.pc = "fill" /\ xq.next < len - 1 /\ len \in Nat
  <2>1. len \in Nat
    BY Length DEF TransferInv
  <2> QED BY <2>1 DEF TransferInv, AppendFull, SendQueue, Sending
<1>2. PICK x : x = AppendFrag(xq)
  OBVIOUS
<1>3. PICK n \in {0, 1, 2} :
        n = IF x.resvs < 2 THEN 1 ELSE IF Cardinality(x.q) > 1 THEN 2 ELSE 0
  BY Zenon
<1>4. /\ snd' = [snd EXCEPT !.part = FALSE]
      /\ IF x.freqs = 0 /\ n > 0
         THEN Transmit([x EXCEPT !.blast = n])
         ELSE xq' = x /\ UNCHANGED fragVars
  BY <1>2, <1>3 DEF AppendFull
<1>5. snd' \in SndReps /\ snd'.pc = "fill"
  BY <1>1, <1>4 DEF SndReps
<1>6. /\ xq.next \in Nat /\ xq.q \in SUBSET Nat /\ xq.push \in BOOLEAN /\ xq.frag \in BOOLEAN
      /\ (xq.push => xq.next = len)
  BY <1>1 DEF SendQueue, XqReps
<1>7. ~xq.push
  BY <1>1, <1>6
<1>8. PICK q \in SUBSET Nat, m \in Nat : q = xq.q \cup {xq.next} /\ m = xq.next + 1
  <2>1. xq.q \cup {xq.next} \in SUBSET Nat /\ xq.next + 1 \in Nat
    BY <1>6
  <2> QED BY <2>1, Zenon
<1>9. x = [xq EXCEPT !.q = q, !.next = m, !.frag = TRUE]
  BY <1>1, <1>2, <1>7, <1>8 DEF AppendFrag, XqReps
<1>10. ASSUME NEW y, y = x \/ y = [x EXCEPT !.blast = n]
       PROVE  /\ SendQueue(y) /\ Limits(y) /\ xq.next <= y.next /\ Kept(y, rq, rcv.got)
              /\ Exact(y)
  <2>1. /\ y \in XqReps
        /\ y.q = q /\ y.next = m /\ y.unsent = xq.unsent /\ y.re = xq.re /\ y.cw = xq.cw
        /\ y.push = FALSE /\ y.frag = TRUE
        /\ y.cwindow = xq.cwindow /\ y.freqs = xq.freqs /\ y.quiet = xq.quiet
        /\ y.maxb = xq.maxb /\ y.blast \in {xq.blast, n}
    <3>1. CASE y = x
      BY <3>1, <1>1, <1>7, <1>9 DEF XqReps
    <3>2. CASE y = [x EXCEPT !.blast = n]
      <4>1. y = [xq EXCEPT !.q = q, !.next = m, !.frag = TRUE, !.blast = n]
        BY <3>2, <1>1, <1>9 DEF XqReps
      <4>2. n \in Nat
        BY <1>3
      <4> QED BY <4>1, <4>2, <1>1, <1>7 DEF XqReps
    <3> QED BY <1>10, <3>1, <3>2
  <2>2. SendQueue(y)
    BY <2>1, <1>1, <1>6, <1>8, AppendQueue
  <2>3. Limits(y) /\ Exact(y)
    BY <2>1, <1>1, <1>3, SenderAssumption DEF Limits, Exact
  <2>4. Kept(y, rq, rcv.got)
    <3>1. 0..(m - 1) \subseteq 0..(xq.next - 1) \cup {xq.next}
      BY <1>6, <1>8
    <3> QED BY <3>1, <2>1, <1>1, <1>8 DEF Kept
  <2> QED BY <2>1, <2>2, <2>3, <2>4, <1>6, <1>8
<1>11. CASE x.freqs = 0 /\ n > 0
  <2>1. PICK y : y = [x EXCEPT !.blast = n]
    OBVIOUS
  <2>2. Transmit(y)
    BY <2>1, <1>4, <1>11
  <2> QED BY <2>1, <2>2, <1>5, <1>10, TransmitStep
<1>12. CASE ~(x.freqs = 0 /\ n > 0)
  <2>1. xq' = x /\ net' = net /\ role' = role /\ len' = len /\ faults' = faults
    BY <1>4, <1>12 DEF fragVars
  <2>2. /\ SendQueue(x) /\ Limits(x) /\ xq.next <= x.next /\ Kept(x, rq, rcv.got) /\ Exact(x)
    BY <1>10
  <2>3. net' \in Nets /\ faults' \in 0..MaxFaults
    BY <2>1 DEF TransferInv
  <2>4. \A way : Arriving(way)' = Arriving(way)
    BY <2>1 DEF Arriving
  <2> QED BY <2>1, <2>2, <2>3, <2>4, <1>5, QueueStep
<1> QED BY <1>11, <1>12

\* rpc__dg_call_xmitq_push
LEMMA StepPush ==
  ASSUME TransferInv, UNCHANGED receiverVars, Push
  PROVE  TransferInv'
<1>1. /\ xq \in XqReps /\ SendQueue(xq) /\ Limits(xq) /\ Exact(xq) /\ Kept(xq, rq, rcv.got)
      /\ snd \in SndReps /\ snd.pc = "fill" /\ xq.next = len - 1 /\ len \in Nat
  <2>1. len \in Nat
    BY Length DEF TransferInv
  <2> QED BY <2>1 DEF TransferInv, Push, SendQueue, Sending
<1>2. PICK n : n = IF xq.q = {} THEN 1 ELSE IF xq.freqs = 0 THEN 2 ELSE xq.blast
  OBVIOUS
<1>3. n \in Nat /\ n <= MaxBlast
  BY <1>1, <1>2, SenderAssumption DEF Limits, XqReps
<1>4. PICK x : x = AppendFrag([xq EXCEPT !.blast = n, !.push = TRUE])
  OBVIOUS
<1>5. /\ Transmit(x)
      /\ snd' = [snd EXCEPT !.pc = IF xq'.unsent = xq'.next THEN "sent" ELSE "push",
                            !.part = FALSE]
  BY <1>2, <1>4 DEF Push
<1>6. snd' \in SndReps /\ snd'.pc # "done"
  BY <1>1, <1>5 DEF SndReps
<1>7. /\ xq.next \in Nat /\ xq.q \in SUBSET Nat /\ xq.frag \in BOOLEAN
      /\ (xq.next > 0 /\ ~xq.frag => len = 1)
  BY <1>1 DEF SendQueue, XqReps
<1>8. PICK q \in SUBSET Nat, m \in Nat : q = xq.q \cup {xq.next} /\ m = xq.next + 1
  <2>1. xq.q \cup {xq.next} \in SUBSET Nat /\ xq.next + 1 \in Nat
    BY <1>7
  <2> QED BY <2>1, Zenon
<1>9. x = [xq EXCEPT !.blast = n, !.push = TRUE, !.q = q, !.next = m]
  BY <1>1, <1>4, <1>7, <1>8 DEF AppendFrag, XqReps
<1>10. /\ x \in XqReps
       /\ x.q = q /\ x.next = m /\ x.unsent = xq.unsent /\ x.re = xq.re /\ x.cw = xq.cw
       /\ x.push = TRUE /\ x.frag = xq.frag
       /\ x.cwindow = xq.cwindow /\ x.freqs = xq.freqs /\ x.quiet = xq.quiet
       /\ x.maxb = xq.maxb /\ x.blast = n
  BY <1>1, <1>3, <1>9 DEF XqReps
<1>11. SendQueue(x)
  <2>1. ~x.frag => len = 1
    BY <1>1, <1>7, <1>10
  <2>2. x.next = len /\ xq.next < len
    BY <1>1, <1>7, <1>8, <1>10
  <2> QED BY <2>1, <2>2, <1>1, <1>8, <1>10, AppendQueue
<1>12. Limits(x) /\ Exact(x)
  BY <1>1, <1>3, <1>10 DEF Limits, Exact
<1>13. Kept(x, rq, rcv.got)
  <2>1. 0..(m - 1) \subseteq 0..(xq.next - 1) \cup {xq.next}
    BY <1>7, <1>8
  <2> QED BY <2>1, <1>1, <1>8, <1>10 DEF Kept
<1>14. xq.next <= x.next
  BY <1>7, <1>8, <1>10
<1> QED BY <1>5, <1>6, <1>11, <1>12, <1>13, <1>14, TransmitStep

LEMMA StepSenderThread ==
  ASSUME TransferInv, UNCHANGED receiverVars, SenderThread
  PROVE  TransferInv'
<1>1. CASE StartFrag
  <2>1. /\ xq' = xq /\ net' = net /\ role' = role /\ len' = len /\ faults' = faults
        /\ snd' = [snd EXCEPT !.part = TRUE] /\ snd.pc = "fill"
    BY <1>1 DEF StartFrag, fragVars
  <2>2. snd' \in SndReps /\ snd'.pc = "fill"
    BY <2>1 DEF TransferInv, SndReps
  <2>3. /\ net' \in Nets /\ faults' \in 0..MaxFaults
        /\ SendQueue(xq) /\ Limits(xq) /\ Exact(xq) /\ Kept(xq, rq, rcv.got)
    BY <2>1 DEF TransferInv, Sending
  <2>4. \A way : Arriving(way)' = Arriving(way)
    BY <2>1 DEF Arriving
  <2>5. xq.next <= xq.next
    BY <2>3 DEF SendQueue, XqReps
  <2> QED BY <2>1, <2>2, <2>3, <2>4, <2>5, QueueStep
<1>2. CASE Wake
  <2>1. /\ Transmit(xq)
        /\ snd' = [snd EXCEPT !.pc = IF @ = "push" /\ xq'.unsent = xq'.next THEN "sent" ELSE @]
        /\ snd.pc \in {"fill", "push", "sent"}
    BY <1>2 DEF Wake, WaitsForRoom, ThreadWaits
  <2>2. /\ snd' \in SndReps /\ snd'.pc # "done" /\ (Sending' => Sending)
    BY <2>1 DEF TransferInv, SndReps, Sending
  <2>3. /\ SendQueue(xq) /\ Limits(xq) /\ Kept(xq, rq, rcv.got)
        /\ (Sending' \/ xq.q # {} => Exact(xq))
    BY <2>1, <2>2 DEF TransferInv
  <2>4. xq.next <= xq.next
    BY <2>3 DEF SendQueue, XqReps
  <2> QED BY <2>1, <2>2, <2>3, <2>4, TransmitStep
<1> QED BY <1>1, <1>2, StepAppendFull, StepPush DEF SenderThread

\* rpc__dg_xmitq_free: the message arrived, or it is given up.
LEMMA FreeStep ==
  ASSUME TransferInv, UNCHANGED receiverVars, role' = role, len' = len, faults' \in 0..MaxFaults,
         net' \in Nets, snd' \in SndReps, xq' = FreeAll(xq), snd'.pc \notin {"fill", "push"},
         \A p \in Arriving("there")' : p \in Arriving("there"),
         \A p \in Arriving("back")' : p \in Arriving("back"),
         snd'.pc # "failed" => 0..(len - 1) \subseteq Received(rq, rcv.got),
         snd'.pc = "done" => rcv.got = len
  PROVE  TransferInv'
<1>1. PICK y : y = xq'
  OBVIOUS
<1>2. SendQueue(xq) /\ Limits(xq) /\ xq.next \in Nat /\ xq.next <= len /\ len \in Nat
  BY Length DEF TransferInv, SendQueue, XqReps
<1>3. SendQueue(y) /\ Limits(y) /\ y.q = {} /\ y.next = xq.next
  BY <1>1, <1>2, EmptyQueue
<1>4. snd'.pc # "failed" => Kept(y, rq, rcv.got)
  BY <1>2, <1>3 DEF Kept
<1>5. ~Sending' /\ xq'.q = {}
  BY <1>1, <1>3 DEF Sending
<1>6. SendQueue(xq') /\ Limits(xq') /\ xq.next <= xq'.next
  BY <1>1, <1>2, <1>3
<1>7. snd'.pc # "failed" => Kept(xq', rq, rcv.got)
  BY <1>1, <1>4
<1>8. \A p \in Arriving("there")' :
        p \in Arriving("there") \/ ThereOK(p, xq'.next, rq, rcv.got)
  OBVIOUS
<1> QED BY <1>5, <1>6, <1>7, <1>8, SenderSide

\* RPC_DG_START_XMIT sends a blast or nothing.
LEMMA RestartOutcome ==
  ASSUME NEW x
  PROVE  /\ Restarted(x) = x \/ Restarted(x) = Xmit(x)
         /\ RestartPackets(x) = <<>> \/ RestartPackets(x) = BlastPackets(x)
  BY DEF Restarted, RestartPackets

\* The peer is taken for dead.
LEMMA StepFails ==
  ASSUME TransferInv, UNCHANGED receiverVars, Fails, faults' \in 0..MaxFaults
  PROVE  TransferInv'
<1>1. /\ snd' = [snd EXCEPT !.pc = "failed"] /\ xq' = FreeAll(xq)
      /\ net' = net /\ role' = role /\ len' = len
  BY DEF Fails
<1>2. snd' \in SndReps /\ snd'.pc = "failed"
  BY <1>1 DEF TransferInv, SndReps
<1>3. net' \in Nets /\ \A way : Arriving(way)' = Arriving(way)
  BY <1>1 DEF TransferInv, Arriving
<1> QED BY <1>1, <1>2, <1>3, FreeStep

LEMMA StepXmitqTimer ==
  ASSUME TransferInv, UNCHANGED receiverVars, NEW cost \in {0, 1}, XmitqTimer(cost)
  PROVE  TransferInv'
<1>1. faults' \in 0..MaxFaults
  BY FragAssumption DEF XmitqTimer, Fault, TransferInv
<1>2. CASE Unanswered
  BY <1>1, <1>2, StepFails DEF XmitqTimer
<1>3. CASE ~Unanswered
  <2>1. PICK x, out : x = Oldest(xq) /\ out = RestartPackets(x)
    OBVIOUS
  <2>2. /\ xq' = x \/ xq' = Xmit(x)
        /\ out = <<>> \/ out = BlastPackets(x)
        /\ net' = [net EXCEPT !.there = @ \o out]
        /\ snd' = snd /\ role' = role /\ len' = len
        /\ snd.pc \in {"fill", "push", "sent"} /\ xq.q # {}
    BY <1>3, <2>1, RestartOutcome DEF XmitqTimer
  <2>3. /\ SendQueue(xq) /\ Limits(xq) /\ Exact(xq) /\ Kept(xq, rq, rcv.got) /\ xq.next \in Nat
    BY <2>2 DEF TransferInv, SendQueue, XqReps
  <2>4. SendQueue(x) /\ Limits(x) /\ Exact(x) /\ x.q = xq.q /\ x.next = xq.next
    BY <2>1, <2>2, <2>3, OldestQueue
  <2>5. Kept(x, rq, rcv.got) /\ xq.next <= x.next
    BY <2>3, <2>4 DEF Kept
  <2>6. out \in Seq(Pkts) /\ \A g \in ToSet(out) : g \in ToSet(BlastPackets(x))
    <3>1. CASE out = <<>>
      <4>1. \A g : g \notin ToSet(out)
        BY <3>1 DEF ToSet
      <4> QED BY <3>1, <4>1
    <3>2. CASE out = BlastPackets(x)
      BY <3>2, <2>4, BlastSent
    <3> QED BY <2>2, <3>1, <3>2
  <2>7. /\ net' \in Nets
        /\ \A g \in Arriving("there")' : g \in Arriving("there") \/ g \in ToSet(out)
        /\ \A g \in Arriving("back")' : g \in Arriving("back")
    <3>1. net \in Nets
      BY DEF TransferInv
    <3> QED BY <2>2, <2>6, <3>1, SendsThere
  <2>8. snd' \in SndReps /\ snd'.pc # "done"
    BY <2>2 DEF TransferInv
  <2> QED BY <1>1, <2>2, <2>4, <2>5, <2>6, <2>7, <2>8, QueueStep
<1> QED BY <1>2, <1>3

LEMMA StepPingTimer ==
  ASSUME TransferInv, UNCHANGED receiverVars, NEW cost \in {0, 1}, PingTimer(cost)
  PROVE  TransferInv'
<1>1. faults' \in 0..MaxFaults
  BY FragAssumption DEF PingTimer, Fault, TransferInv
<1>2. CASE Fails
  BY <1>1, <1>2, StepFails
<1>3. CASE ~Fails
  <2>1. /\ snd' = [snd EXCEPT !.pinging = TRUE, !.pings = IF snd.pinging THEN @ + 1 ELSE 1]
        /\ xq' = [xq EXCEPT !.ser = @ + 1]
        /\ net' = [net EXCEPT !.there = Append(@, Ping(xq.ser + 1))]
        /\ role' = role /\ len' = len /\ snd.pc = "sent"
    BY <1>3 DEF PingTimer
  <2>2. /\ SendQueue(xq) /\ Limits(xq) /\ Kept(xq, rq, rcv.got) /\ xq.next \in Nat
        /\ xq \in XqReps /\ xq.ser \in Int /\ snd \in SndReps
        /\ (xq.q # {} => Exact(xq))
    BY <2>1 DEF TransferInv, SendQueue, XqReps
  <2>3. PICK x : x = xq'
    OBVIOUS
  <2>4. PICK e \in Int : e = xq.ser + 1
    BY <2>2
  <2>5. /\ x \in XqReps
        /\ x.q = xq.q /\ x.unsent = xq.unsent /\ x.next = xq.next /\ x.push = xq.push
        /\ x.frag = xq.frag /\ x.re = xq.re /\ x.cw = xq.cw /\ x.maxb = xq.maxb
        /\ x.blast = xq.blast
        /\ x.cwindow = xq.cwindow /\ x.freqs = xq.freqs /\ x.quiet = xq.quiet
    <3>1. x = [xq EXCEPT !.ser = e]
      BY <2>1, <2>2, <2>3, <2>4 DEF XqReps
    <3> QED BY <3>1, <2>2 DEF XqReps
  <2>6. SendQueue(x) /\ Limits(x) /\ (Exact(xq) => Exact(x)) /\ Kept(x, rq, rcv.got)
    BY <2>2, <2>5 DEF SendQueue, Waiting, Limits, Exact, Kept
  <2>7. /\ net' \in Nets
        /\ \A g \in Arriving("there")' : g \in Arriving("there") \/ g.type # "data"
        /\ \A g \in Arriving("back")' : g \in Arriving("back")
    <3>1. net \in Nets /\ net.there \in Seq(Pkts)
      BY DEF TransferInv, Nets
    <3>2. PICK ping \in Pkts : ping = Ping(e) /\ ping.type = "ping"
      BY PingType
    <3>3. PICK out : out = <<ping>>
      OBVIOUS
    <3>4. /\ out \in Seq(Pkts) /\ \A g \in ToSet(out) : g = ping
          /\ Append(net.there, ping) = net.there \o out
      BY <3>1, <3>3, OnePacket
    <3>5. net' = [net EXCEPT !.there = @ \o out]
      BY <2>1, <2>4, <3>1, <3>2, <3>4 DEF Nets
    <3> QED BY <3>1, <3>2, <3>4, <3>5, SendsThere
  <2>8. snd' \in SndReps /\ snd'.pc = "sent"
    <3>1. PICK n \in Nat : n = IF snd.pinging THEN snd.pings + 1 ELSE 1
      BY <2>2 DEF SndReps
    <3>2. snd' = [snd EXCEPT !.pinging = TRUE, !.pings = n]
      BY <2>1, <2>2, <3>1 DEF SndReps
    <3> QED BY <2>1, <2>2, <3>2 DEF SndReps
  <2>9. ~Sending'
    BY <2>8 DEF Sending
  <2>10. xq.next <= x.next
    BY <2>2, <2>5
  <2> QED BY <1>1, <2>1, <2>2, <2>3, <2>5, <2>6, <2>7, <2>8, <2>9, <2>10, QueueStep
<1> QED BY <1>2, <1>3

\* What arrives is a packet.
LEMMA ArrivingPackets ==
  ASSUME net \in Nets, NEW p,
         p \in Arriving("there") \/ p \in Arriving("back")
  PROVE  p \in Pkts
<1>1. net.there \in Seq(Pkts) /\ net.back \in Seq(Pkts)
  BY DEF Nets
<1> QED BY <1>1 DEF Arriving, ToSet

\* rpc__dg_fack_common
LEMMA StepFacked ==
  ASSUME TransferInv, UNCHANGED receiverVars, NEW p \in Arriving("back"),
         p.type \in {"fack", "nocall"}, Facked(p),
         snd' \in SndReps, snd'.pc = snd.pc, ~Ended
  PROVE  TransferInv'
<1>1. PICK incr \in 0..Cardinality(Acked(xq, p)), maxb \in MaxBlasts(xq, p) :
        LET x == FackCommon(xq, p, incr, maxb)
        IN  Answers(p, RestartPackets(x)) /\ xq' = Restarted(x)
  BY Zenon DEF Facked
<1>2. p \in Pkts
  BY ArrivingPackets DEF TransferInv
<1>3. /\ SendQueue(xq) /\ Limits(xq) /\ xq.next \in Nat /\ xq.q \in SUBSET Nat
      /\ (Sending \/ xq.q # {} => Exact(xq))
      /\ Kept(xq, rq, rcv.got) /\ BackOK(p, rq, rcv.got)
  BY DEF TransferInv, SendQueue, XqReps, Ended
<1>4. incr \in Nat
  BY <1>2, <1>3, AckedMissing
<1>5. PICK x : x = FackCommon(xq, p, incr, maxb)
  OBVIOUS
<1>6. /\ SendQueue(x) /\ Limits(x) /\ x.next = xq.next
      /\ x.q \subseteq xq.q /\ xq.q \ x.q \subseteq 0..(p.next - 1) \cup p.mask
      /\ (Exact(xq) => Exact(x))
  BY <1>2, <1>3, <1>4, <1>5, FackQueue
<1>7. Kept(x, rq, rcv.got)
  <2>1. 0..(p.next - 1) \cup p.mask \subseteq Received(rq, rcv.got)
    BY <1>3 DEF BackOK
  <2> QED BY <2>1, <1>3, <1>6 DEF Kept
<1>8. PICK out : out = RestartPackets(x)
  OBVIOUS
<1>9. /\ Answers(p, out) /\ (out = <<>> \/ out = BlastPackets(x))
      /\ xq' = x \/ xq' = Xmit(x)
  BY <1>1, <1>5, <1>8, RestartOutcome
<1>10. Sending' \/ x.q # {} => Exact(x)
  BY <1>3, <1>6 DEF Sending
<1>11. xq.next <= x.next /\ snd'.pc # "done"
  BY <1>3, <1>6 DEF Ended
<1> QED BY <1>6, <1>7, <1>9, <1>10, <1>11, AnswerStep

\* A packet that is acted upon while the queue keeps its fragments
LEMMA StepRestart ==
  ASSUME TransferInv, UNCHANGED receiverVars, NEW p, NEW out, Answers(p, out), ~Ended,
         out = <<>> \/ out = RestartPackets(Restart(xq)),
         xq' = Restart(xq) \/ xq' = Restarted(Restart(xq)),
         snd' \in SndReps, snd'.pc = snd.pc
  PROVE  TransferInv'
<1>1. PICK x : x = Restart(xq)
  OBVIOUS
<1>2. /\ SendQueue(xq) /\ Limits(xq) /\ xq.next \in Nat
      /\ (Sending \/ xq.q # {} => Exact(xq)) /\ Kept(xq, rq, rcv.got)
  BY DEF TransferInv, SendQueue, XqReps, Ended
<1>3. SendQueue(x) /\ Limits(x) /\ x.q = xq.q /\ x.next = xq.next /\ (Exact(xq) => Exact(x))
  BY <1>1, <1>2, RestartQueue
<1>4. /\ out = <<>> \/ out = BlastPackets(x)
      /\ xq' = x \/ xq' = Xmit(x)
  BY <1>1, RestartOutcome
<1>5. Kept(x, rq, rcv.got) /\ xq.next <= x.next
  BY <1>2, <1>3 DEF Kept
<1>6. (Sending' \/ x.q # {} => Exact(x)) /\ snd'.pc # "done"
  BY <1>2, <1>3 DEF Sending, Ended
<1> QED BY <1>3, <1>4, <1>5, <1>6, AnswerStep

\* A packet after which nothing is left to send
LEMMA StepFreed ==
  ASSUME TransferInv, UNCHANGED receiverVars, NEW p, Answers(p, <<>>), xq' = FreeAll(xq),
         snd' \in SndReps, snd'.pc \in {"sent", "done"},
         rq.all \/ rcv.got = len, snd'.pc = "done" => rcv.got = len
  PROVE  TransferInv'
<1>1. /\ net \in Nets /\ faults \in Nat /\ len \in Nat
      /\ rcv.got \in Nat /\ RecvQueue(rq, rcv.got)
  BY Length DEF TransferInv, RcvReps
<1>2. Takes("back", p, <<>>, 0) /\ <<>> \in Seq(Pkts) /\ \A g : g \notin ToSet(<<>>)
  BY DEF Answers, ToSet
<1>3. /\ net' \in Nets /\ role' = role /\ len' = len /\ faults' \in 0..MaxFaults
      /\ \A g \in Arriving("back")' : g \in Arriving("back")
      /\ \A g \in Arriving("there")' : g \in Arriving("there")
  <2>1. PICK out \in Seq(Pkts) : out = <<>> /\ \A g : g \notin ToSet(out)
    BY <1>2, Zenon
  <2>2. Takes("back", p, out, 0)
    BY <1>2, <2>1
  <2> QED BY <1>1, <2>1, <2>2, TakesBack
<1>4. 0..(len - 1) \subseteq Received(rq, rcv.got)
  BY <1>1, ReceivedAll
<1> QED BY <1>3, <1>4, FreeStep

LEMMA StepSenderGets ==
  ASSUME TransferInv, UNCHANGED receiverVars, NEW p \in Arriving("back"), SenderGets(p)
  PROVE  TransferInv'
<1>1. /\ snd \in SndReps /\ BackOK(p, rq, rcv.got)
      /\ SendQueue(xq) /\ Limits(xq) /\ xq.next \in Nat /\ xq.next <= xq.next
      /\ (Sending \/ xq.q # {} => Exact(xq))
      /\ (snd.pc # "failed" => Kept(xq, rq, rcv.got))
      /\ (snd.pc = "done" => rcv.got = len)
  BY DEF TransferInv, SendQueue, XqReps
<1>2. CASE Ignores(p)
  <2>1. Answers(p, <<>>) /\ xq' = xq /\ snd' = snd
    BY <1>2 DEF SenderGets, senderVars
  <2>2. Takes("back", p, <<>>, 0) /\ <<>> \in Seq(Pkts) /\ \A g : g \notin ToSet(<<>>)
    BY <2>1 DEF Answers, ToSet
  <2>3. net \in Nets /\ faults \in Nat
    BY DEF TransferInv
  <2>4. /\ net' \in Nets /\ role' = role /\ len' = len /\ faults' \in 0..MaxFaults
        /\ \A g \in Arriving("back")' : g \in Arriving("back")
        /\ \A g \in Arriving("there")' : g \in Arriving("there")
    <3>1. PICK out \in Seq(Pkts) : out = <<>> /\ \A g : g \notin ToSet(out)
      BY <2>2, Zenon
    <3>2. Takes("back", p, out, 0)
      BY <2>2, <3>1
    <3> QED BY <2>3, <3>1, <3>2, TakesBack
  <2>5. Sending' \/ xq'.q # {} => Exact(xq')
    BY <1>1, <2>1 DEF Sending
  <2>6. \A g \in Arriving("there")' : g \in Arriving("there") \/ ThereOK(g, xq'.next, rq, rcv.got)
    BY <2>4
  <2> QED BY <1>1, <2>1, <2>4, <2>5, <2>6, SenderSide
<1>3. CASE ~Ignores(p)
  <2>1. GotFack(p) \/ GotNocall(p) \/ GotWorking(p) \/ GotOver(p) \/ GotPing(p)
    BY <1>3 DEF SenderGets
  <2>2. ~Ended
    BY <1>3 DEF Ignores
  <2>3. ASSUME StopsPinging
        PROVE  snd' \in SndReps /\ snd'.pc = snd.pc
    <3>1. snd' = [snd EXCEPT !.pinging = FALSE, !.pings = 0]
      BY <2>3 DEF StopsPinging
    <3> QED BY <3>1, <1>1 DEF SndReps
  <2>4. CASE GotFack(p)
    BY <1>1, <2>2, <2>4, StepFacked DEF GotFack
  <2>5. CASE GotNocall(p)
    <3>1. CASE p.type = "nocall" /\ Facked(p)
      BY <2>2, <2>3, <2>5, <3>1, StepFacked DEF GotNocall
    <3>2. CASE p.type = "empty nocall" /\ xq' = Restart(xq) /\ Answers(p, <<>>)
      BY <2>2, <2>3, <2>5, <3>2, StepRestart DEF GotNocall
    <3> QED BY <2>5, <3>1, <3>2 DEF GotNocall
  <2>6. CASE GotWorking(p)
    <3>1. rq.all /\ snd.pc = "sent"
      BY <1>1, <2>6 DEF GotWorking, AcceptsWorking, BackOK
    <3> QED BY <2>3, <2>6, <3>1, StepFreed DEF GotWorking
  <2>7. CASE GotOver(p)
    <3>1. rcv.got = len /\ snd' \in SndReps /\ snd'.pc = "done"
      BY <1>1, <2>7 DEF GotOver, BackOK, SndReps
    <3> QED BY <2>7, <3>1, StepFreed DEF GotOver
  <2>8. CASE GotPing(p)
    <3>1. PICK out : out = RestartPackets(Restart(xq))
      OBVIOUS
    <3>2. Answers(p, out) /\ xq' = Restarted(Restart(xq)) /\ snd' = snd
      BY <2>8, <3>1 DEF GotPing
    <3> QED BY <1>1, <2>2, <3>1, <3>2, StepRestart
  <2> QED BY <2>1, <2>4, <2>5, <2>6, <2>7, <2>8
<1> QED BY <1>2, <1>3

\* The shape of a step of the receiver that handles a packet
LEMMA HandlesStep ==
  ASSUME TransferInv, UNCHANGED senderVars, NEW p \in Arriving("there"), NEW n \in Nat,
         NEW out \in Seq(Pkts), Handles(p, out, n),
         rcv' \in RcvReps, rcv'.got = rcv.got, rcv'.pc = "over" => rcv.pc = "over",
         NEW r, rq' = r, RecvQueue(r, rcv.got), r.q \subseteq 0..(xq.next - 1),
         Received(rq, rcv.got) \subseteq Received(r, rcv.got), rq.all => r.all,
         \A g \in ToSet(out) : BackOK(g, r, rcv.got)
  PROVE  TransferInv'
<1>1. net \in Nets /\ faults \in Nat /\ (rcv.pc = "over" => rcv.got = len)
  BY DEF TransferInv
<1>2. Takes("there", p, out, n)
  BY DEF Handles
<1>3. /\ net' \in Nets /\ role' = role /\ len' = len /\ faults' \in 0..MaxFaults
      /\ \A g \in Arriving("there")' : g \in Arriving("there")
      /\ \A g \in Arriving("back")' : g \in Arriving("back") \/ g \in ToSet(out)
  BY <1>1, <1>2, TakesThere
<1>4. \A g \in Arriving("back")' : g \in Arriving("back") \/ BackOK(g, rq', rcv'.got)
  <2>1. ASSUME NEW g, BackOK(g, r, rcv.got)
        PROVE  BackOK(g, rq', rcv'.got)
    BY <2>1
  <2> QED BY <1>3, <2>1
<1>5. Received(rq, rcv.got) \subseteq Received(rq', rcv'.got) /\ RecvQueue(rq', rcv'.got)
  OBVIOUS
<1> QED BY <1>1, <1>3, <1>4, <1>5, ReceiverSide

\* rpc__dg_call_recvq_insert and the fack it may send
LEMMA StepInserts ==
  ASSUME TransferInv, UNCHANGED senderVars, NEW p \in Arriving("there"), p.type = "data",
         NEW call \in RcvReps, call.got = rcv.got, call.pc = "recv",
         NEW pool, NEW cost \in {0, 1}, Inserts(p, call, pool, cost)
  PROVE  TransferInv'
<1>1. PICK r : r = Insert(p, call.resv, pool)
  OBVIOUS
<1>2. /\ IF AsksForFack(r, p)
         THEN \E a \in Facks("fack", p.ser, r, call.resv, pool) : Handles(p, <<a>>, cost)
         ELSE Handles(p, <<>>, cost)
      /\ rq' = r
      /\ rcv' = [call EXCEPT !.asleep = @ /\ ~Wakes(r, pool), !.pings = 0]
  BY <1>1 DEF Inserts
<1>3. p \in Pkts /\ p.ser \in Int
  <2>1. p \in Pkts
    BY ArrivingPackets DEF TransferInv
  <2> QED BY <2>1 DEF Pkts
<1>4. PICK got \in Nat : got = rcv.got
  <2>1. rcv.got \in Nat
    BY DEF TransferInv, RcvReps
  <2> QED BY <2>1
<1>5. /\ RecvQueue(rq, got) /\ len \in Nat /\ xq.next \in Nat /\ xq.next <= len
      /\ rq.q \subseteq 0..(xq.next - 1) /\ ThereOK(p, xq.next, rq, got)
  BY <1>4, Length DEF TransferInv, SendQueue, XqReps
<1>6. /\ RecvQueue(r, got) /\ r.q \subseteq 0..(xq.next - 1)
      /\ Received(rq, got) \subseteq Received(r, got) /\ (rq.all => r.all)
  BY <1>1, <1>3, <1>5, InsertQueue
<1>7. rcv' \in RcvReps /\ rcv'.got = rcv.got /\ rcv'.pc = "recv"
  <2>1. PICK b \in BOOLEAN : b = (call.asleep /\ ~Wakes(r, pool))
    BY DEF RcvReps
  <2>2. rcv' = [call EXCEPT !.asleep = b, !.pings = 0]
    BY <1>2, <2>1 DEF RcvReps
  <2> QED BY <2>2 DEF RcvReps
<1>8. \E out \in Seq(Pkts) :
        Handles(p, out, cost) /\ \A g \in ToSet(out) : BackOK(g, r, got)
  <2>1. CASE AsksForFack(r, p)
    <3>1. PICK a \in Facks("fack", p.ser, r, call.resv, pool) : Handles(p, <<a>>, cost)
      BY <1>2, <2>1
    <3>2. a \in Pkts /\ BackOK(a, r, got)
      BY <1>3, <1>5, <1>6, FackTells
    <3>3. <<a>> \in Seq(Pkts) /\ \A g \in ToSet(<<a>>) : g = a
      BY <3>2, OnePacket
    <3>4. PICK out : out = <<a>>
      OBVIOUS
    <3> QED BY <3>1, <3>2, <3>3, <3>4
  <2>2. CASE ~AsksForFack(r, p)
    <3>1. PICK out : out = <<>>
      OBVIOUS
    <3>2. out \in Seq(Pkts) /\ \A g : g \notin ToSet(out)
      BY <3>1 DEF ToSet
    <3>3. Handles(p, out, cost)
      BY <1>2, <2>2, <3>1
    <3> QED BY <3>2, <3>3
  <2> QED BY <2>1, <2>2
<1>9. PICK out \in Seq(Pkts) :
        Handles(p, out, cost) /\ \A g \in ToSet(out) : BackOK(g, r, rcv.got)
  BY <1>4, <1>8
<1> QED BY <1>2, <1>4, <1>6, <1>7, <1>9, HandlesStep

\* A packet that changes nothing but is answered
LEMMA StepReplies ==
  ASSUME TransferInv, UNCHANGED senderVars, UNCHANGED receiverVars,
         NEW p \in Arriving("there"), NEW n \in Nat,
         NEW out \in Seq(Pkts), Handles(p, out, n),
         \A g \in ToSet(out) : BackOK(g, rq, rcv.got)
  PROVE  TransferInv'
<1>1. rq' = rq /\ rcv' = rcv
  BY DEF receiverVars
<1>2. /\ rcv' \in RcvReps /\ RecvQueue(rq, rcv.got) /\ rq.q \subseteq 0..(xq.next - 1)
      /\ Received(rq, rcv.got) \subseteq Received(rq, rcv.got)
      /\ rcv'.got = rcv.got /\ (rcv'.pc = "over" => rcv.pc = "over")
  BY <1>1 DEF TransferInv
<1> QED BY <1>1, <1>2, HandlesStep

LEMMA StepReceiverGets ==
  ASSUME TransferInv, UNCHANGED senderVars, NEW p \in Arriving("there"), ReceiverGets(p)
  PROVE  TransferInv'
<1>0. \A pool : Shortage(pool) \in {0, 1}
  BY DEF Shortage
<1>1. rcv \in RcvReps /\ p \in Pkts /\ len \in Nat
  BY ArrivingPackets, Length DEF TransferInv
<1>2. CASE GotRequest(p)
  <2>1. PICK pool \in Pools :
          \/ rcv.pc = "recv" /\ Inserts(p, rcv, pool, Shortage(pool))
          \/ rcv.pc = "none" /\ \E resv \in BOOLEAN :
               Inserts(p, [rcv EXCEPT !.pc = "recv", !.resv = resv], pool,
                       IF resv THEN Shortage(pool) ELSE 1)
    BY <1>2, Zenon DEF GotRequest
  <2>2. p.type = "data"
    BY <1>2 DEF GotRequest
  <2>3. CASE rcv.pc = "recv" /\ Inserts(p, rcv, pool, Shortage(pool))
    BY <1>0, <1>1, <2>2, <2>3, StepInserts
  <2>4. CASE rcv.pc = "none" /\ \E resv \in BOOLEAN :
               Inserts(p, [rcv EXCEPT !.pc = "recv", !.resv = resv], pool,
                       IF resv THEN Shortage(pool) ELSE 1)
    <3>1. PICK resv \in BOOLEAN :
               Inserts(p, [rcv EXCEPT !.pc = "recv", !.resv = resv], pool,
                       IF resv THEN Shortage(pool) ELSE 1)
      BY <2>4
    <3>2. PICK call : call = [rcv EXCEPT !.pc = "recv", !.resv = resv]
      OBVIOUS
    <3>3. call \in RcvReps /\ call.got = rcv.got /\ call.pc = "recv"
      BY <1>1, <3>2 DEF RcvReps
    <3>4. PICK cost \in {0, 1} : cost = IF resv THEN Shortage(pool) ELSE 1
      BY <1>0
    <3>5. Inserts(p, call, pool, cost)
      BY <3>1, <3>2, <3>4
    <3> QED BY <2>2, <3>3, <3>5, StepInserts
  <2> QED BY <2>1, <2>3, <2>4
<1>3. CASE GotResponse(p)
  <2>1. p.type = "data" /\ rcv.pc = "recv"
    BY <1>3 DEF GotResponse
  <2>2. CASE rq.all
    <3>1. PICK out : out = <<>>
      OBVIOUS
    <3>2. out \in Seq(Pkts) /\ \A g : g \notin ToSet(out)
      BY <3>1 DEF ToSet
    <3>3. Handles(p, out, 0) /\ UNCHANGED receiverVars
      BY <1>3, <2>2, <3>1 DEF GotResponse
    <3> QED BY <3>2, <3>3, StepReplies
  <2>3. CASE ~rq.all
    <3>1. PICK pool \in Pools : Inserts(p, rcv, pool, Shortage(pool))
      BY <1>3, <2>3 DEF GotResponse
    <3> QED BY <1>0, <1>1, <2>1, <3>1, StepInserts
  <2> QED BY <2>2, <2>3
<1>4. CASE GotDataLate(p)
  <2>1. rcv.got = len
    BY <1>4 DEF GotDataLate, TransferInv
  <2>2. PICK out : out = IF role = "client" \/ p.last \/ ~p.frag THEN <<Over>> ELSE <<>>
    OBVIOUS
  <2>3. Handles(p, out, 0) /\ UNCHANGED receiverVars
    BY <1>4, <2>2 DEF GotDataLate
  <2>4. BackOK(Over, rq, rcv.got) /\ Over \in Pkts
    BY <2>1, PacketTypes DEF BackOK
  <2>5. out \in Seq(Pkts) /\ \A g \in ToSet(out) : BackOK(g, rq, rcv.got)
    <3>1. CASE out = <<Over>>
      BY <2>4, <3>1, OnePacket
    <3>2. CASE out = <<>>
      <4>1. \A g : g \notin ToSet(out)
        BY <3>2 DEF ToSet
      <4> QED BY <3>2, <4>1
    <3> QED BY <2>2, <3>1, <3>2
  <2> QED BY <2>3, <2>5, StepReplies
<1>5. CASE GotPingOfSender(p)
  <2>1. UNCHANGED receiverVars
    BY <1>5 DEF GotPingOfSender
  <2>2. ASSUME NEW a \in Pkts, BackOK(a, rq, rcv.got), NEW n \in Nat, Handles(p, <<a>>, n)
        PROVE  TransferInv'
    <3>1. PICK out : out = <<a>>
      OBVIOUS
    <3>2. out \in Seq(Pkts) /\ \A g \in ToSet(out) : g = a
      BY <2>2, <3>1, OnePacket
    <3>3. Handles(p, out, n) /\ \A g \in ToSet(out) : BackOK(g, rq, rcv.got)
      BY <2>2, <3>1, <3>2
    <3> QED BY <2>1, <3>2, <3>3, StepReplies
  <2>3. CASE rcv.pc = "none" /\ Handles(p, <<EmptyNocall>>, 0)
    BY <2>2, <2>3, PacketTypes DEF BackOK
  <2>4. CASE rcv.pc = "over" /\ Handles(p, <<Over>>, 0)
    <3>1. rcv.got = len
      BY <2>4 DEF TransferInv
    <3> QED BY <2>2, <2>4, <3>1, PacketTypes DEF BackOK
  <2>5. CASE rq.all /\ Handles(p, <<Working>>, 0)
    BY <2>2, <2>5, PacketTypes DEF BackOK
  <2>6. CASE \E pool \in Pools : \E a \in Facks("nocall", p.ser, rq, rcv.resv, pool) :
               Handles(p, <<a>>, Shortage(pool))
    <3>1. PICK pool \in Pools : \E a \in Facks("nocall", p.ser, rq, rcv.resv, pool) :
               Handles(p, <<a>>, Shortage(pool))
      BY <2>6
    <3>2. PICK a \in Facks("nocall", p.ser, rq, rcv.resv, pool) :
               Handles(p, <<a>>, Shortage(pool))
      BY <3>1
    <3>3. p.ser \in Int /\ rcv.got \in Nat /\ RecvQueue(rq, rcv.got)
      BY <1>1 DEF Pkts, RcvReps, TransferInv
    <3>4. a \in Pkts /\ BackOK(a, rq, rcv.got)
      BY <1>1, <3>3, FackTells
    <3> QED BY <1>0, <2>2, <3>2, <3>4
  <2> QED BY <1>5, <2>3, <2>4, <2>5, <2>6, Zenon DEF GotPingOfSender
<1> QED BY <1>2, <1>3, <1>4, <1>5 DEF ReceiverGets

\* The thread and the timer of the receiver: what is sent, if anything, is one packet.
LEMMA ThreadStep ==
  ASSUME TransferInv, UNCHANGED senderVars, role' = role, len' = len, faults' \in 0..MaxFaults,
         net' = net \/ \E g \in Pkts : /\ net' = [net EXCEPT !.back = Append(@, g)]
                                       /\ BackOK(g, rq', rcv'.got),
         rcv' \in RcvReps, RecvQueue(rq', rcv'.got), rq'.q \subseteq rq.q,
         Received(rq, rcv.got) \subseteq Received(rq', rcv'.got),
         rq.all => rq'.all, rcv.got = len => rcv'.got = len,
         rcv'.pc = "over" => rcv'.got = len
  PROVE  TransferInv'
<1>1. net \in Nets /\ rq.q \subseteq 0..(xq.next - 1)
  BY DEF TransferInv
<1>2. rq'.q \subseteq 0..(xq.next - 1)
  BY <1>1
<1>3. CASE net' = net
  <2>1. net' \in Nets /\ \A way : Arriving(way)' = Arriving(way)
    BY <1>1, <1>3 DEF Arriving
  <2> QED BY <1>2, <2>1, ReceiverSide
<1>4. CASE \E g \in Pkts : /\ net' = [net EXCEPT !.back = Append(@, g)]
                           /\ BackOK(g, rq', rcv'.got)
  <2>1. PICK g \in Pkts : /\ net' = [net EXCEPT !.back = Append(@, g)]
                          /\ BackOK(g, rq', rcv'.got)
    BY <1>4
  <2>2. net.back \in Seq(Pkts)
    BY <1>1 DEF Nets
  <2>3. PICK out : out = <<g>>
    OBVIOUS
  <2>4. /\ out \in Seq(Pkts) /\ \A p \in ToSet(out) : p = g
        /\ Append(net.back, g) = net.back \o out
    BY <2>2, <2>3, OnePacket
  <2>5. net' = [net EXCEPT !.back = @ \o out]
    BY <1>1, <2>1, <2>4 DEF Nets
  <2>6. /\ net' \in Nets
        /\ \A p \in Arriving("back")' : p \in Arriving("back") \/ p \in ToSet(out)
        /\ \A p \in Arriving("there")' : p \in Arriving("there")
    BY <1>1, <2>4, <2>5, SendsBack
  <2>7. \A p \in Arriving("back")' : p \in Arriving("back") \/ BackOK(p, rq', rcv'.got)
    BY <2>1, <2>4, <2>6
  <2> QED BY <1>2, <2>6, <2>7, ReceiverSide
<1> QED BY <1>3, <1>4

\* The receive queue stays as it is.
LEMMA IdleStep ==
  ASSUME TransferInv, UNCHANGED senderVars, rq' = rq,
         role' = role, len' = len, faults' \in 0..MaxFaults,
         net' = net \/ \E g \in Pkts : /\ net' = [net EXCEPT !.back = Append(@, g)]
                                       /\ BackOK(g, rq, rcv.got),
         rcv' \in RcvReps, rcv'.got = rcv.got,
         rcv'.pc = "over" => rcv.got = len
  PROVE  TransferInv'
<1>1. RecvQueue(rq', rcv'.got) /\ rq'.q \subseteq rq.q /\ (rq.all => rq'.all)
  BY DEF TransferInv
<1>2. Received(rq, rcv.got) \subseteq Received(rq', rcv'.got)
  OBVIOUS
<1>3. net' = net \/ \E g \in Pkts : /\ net' = [net EXCEPT !.back = Append(@, g)]
                                    /\ BackOK(g, rq', rcv'.got)
  OBVIOUS
<1> QED BY <1>1, <1>2, <1>3, ThreadStep

LEMMA StepReceive ==
  ASSUME TransferInv, UNCHANGED senderVars, Receive
  PROVE  TransferInv'
<1>1. PICK f : f = Min(rq.q)
  OBVIOUS
<1>2. PICK r : r = [rq EXCEPT !.q = @ \ {f}, !.lasts = @ \ {f}, !.ser[f] = 0]
  OBVIOUS
<1>3. /\ rcv.pc = "recv" /\ InOrder(rq) # {} /\ rq' = r
      /\ rcv' = [rcv EXCEPT !.got = @ + 1, !.valid = role = "client"]
      /\ IF Cardinality(rq.q) = MaxQueue
         THEN \E pool \in Pools : \E a \in Facks("fack", rq.ser[f], r, TRUE, pool) :
                net' = [net EXCEPT !.back = Append(@, a)] /\ Fault(Shortage(pool)) /\ UNCHANGED <<role, len>>
         ELSE UNCHANGED fragVars
  BY <1>1, <1>2 DEF Receive
<1>4. /\ rcv \in RcvReps /\ RecvQueue(rq, rcv.got) /\ len \in Nat /\ rq \in RqReps
      /\ faults \in 0..MaxFaults /\ len \in Lengths
  BY Length DEF TransferInv, RecvQueue
<1>5. PICK got \in Nat : got = rcv.got
  <2>1. rcv.got \in Nat
    BY <1>4 DEF RcvReps
  <2> QED BY <2>1
<1>6. rq.ser \in [AllFrags -> Int]
  BY <1>4 DEF RqReps
<1>7. PICK s \in [AllFrags -> Int] : s = [rq.ser EXCEPT ![f] = 0]
  <2>1. [rq.ser EXCEPT ![f] = 0] = [x \in AllFrags |-> IF x = f THEN 0 ELSE rq.ser[x]]
    BY <1>6
  <2>2. [x \in AllFrags |-> IF x = f THEN 0 ELSE rq.ser[x]] \in [AllFrags -> Int]
    BY <1>6
  <2> QED BY <2>1, <2>2
<1>8. LET e == Min(rq.q) IN r = [rq EXCEPT !.q = @ \ {e}, !.lasts = @ \ {e}, !.ser = s]
  BY <1>1, <1>2, <1>4, <1>7 DEF RqReps
<1>9. /\ f = got /\ got < len
      /\ RecvQueue(r, got + 1) /\ r.q \subseteq rq.q
      /\ Received(rq, got) \subseteq Received(r, got + 1)
      /\ r.all = rq.all
  BY <1>1, <1>3, <1>4, <1>5, <1>8, ReceiveQueue
<1>10. rcv' \in RcvReps /\ rcv'.got = got + 1 /\ rcv'.pc = "recv"
  <2>1. PICK m \in Nat, b \in BOOLEAN : m = rcv.got + 1 /\ b = (role = "client")
    <3>1. rcv.got + 1 \in Nat /\ (role = "client") \in BOOLEAN
      BY <1>5
    <3> QED BY <3>1, Zenon
  <2>2. rcv' = [rcv EXCEPT !.got = m, !.valid = b]
    BY <1>3, <1>4, <2>1 DEF RcvReps
  <2> QED BY <1>3, <1>4, <1>5, <2>1, <2>2 DEF RcvReps
<1>11. /\ role' = role /\ len' = len /\ faults' \in 0..MaxFaults
       /\ net' = net \/ \E g \in Pkts : /\ net' = [net EXCEPT !.back = Append(@, g)]
                                        /\ BackOK(g, r, got + 1)
  <2>1. CASE Cardinality(rq.q) = MaxQueue
    <3>1. PICK pool \in Pools : \E a \in Facks("fack", rq.ser[f], r, TRUE, pool) :
                net' = [net EXCEPT !.back = Append(@, a)] /\ Fault(Shortage(pool)) /\ UNCHANGED <<role, len>>
      BY <1>3, <2>1
    <3>2. PICK a \in Facks("fack", rq.ser[f], r, TRUE, pool) :
                net' = [net EXCEPT !.back = Append(@, a)] /\ Fault(Shortage(pool)) /\ UNCHANGED <<role, len>>
      BY <3>1
    <3>3. f \in AllFrags
      BY <1>4, <1>5, <1>9, Length
    <3>4. rq.ser[f] \in Int
      BY <1>6, <3>3
    <3>5. a \in Pkts /\ BackOK(a, r, got + 1)
      BY <1>4, <1>9, <3>4, FackTells, got + 1 \in Nat
    <3>6. faults' \in 0..MaxFaults
      BY <1>4, <3>2, FragAssumption DEF Fault, Shortage
    <3> QED BY <3>2, <3>5, <3>6
  <2>2. CASE Cardinality(rq.q) # MaxQueue
    BY <1>3, <1>4, <2>2 DEF fragVars
  <2> QED BY <2>1, <2>2
<1>12. rcv.got = len => rcv'.got = len
  BY <1>4, <1>5, <1>9
<1> QED BY <1>3, <1>5, <1>9, <1>10, <1>11, <1>12, ThreadStep

LEMMA StepReceiverThread ==
  ASSUME TransferInv, UNCHANGED senderVars, ReceiverThread
  PROVE  TransferInv'
<1>1. /\ rcv \in RcvReps /\ RecvQueue(rq, rcv.got) /\ len \in Nat /\ rq \in RqReps
      /\ faults \in 0..MaxFaults /\ rcv.got \in Nat
  <2>1. rcv \in RcvReps /\ RecvQueue(rq, rcv.got) /\ len \in Nat /\ faults \in 0..MaxFaults
    BY Length DEF TransferInv
  <2>2. rq \in RqReps
    BY <2>1 DEF RecvQueue
  <2>3. rcv.got \in Nat
    BY <2>1 DEF RcvReps
  <2> QED BY <2>1, <2>2, <2>3
<1>2. CASE StartExecutor
  <2>1. rcv' \in RcvReps /\ rcv'.got = rcv.got /\ rcv'.pc = "recv"
    BY <1>1, <1>2 DEF StartExecutor, RcvReps
  <2>2. CASE rcv.resv
    <3>1. /\ rq' = rq /\ role' = role /\ len' = len /\ faults' = faults /\ net' = net
      BY <1>2, <2>2 DEF StartExecutor, fragVars
    <3> QED BY <1>1, <2>1, <3>1, IdleStep
  <2>3. CASE ~rcv.resv
    <3>1. PICK type : type = IF rq.recving THEN "fack" ELSE "nocall"
      OBVIOUS
    <3>2. PICK a \in Facks(type, rq.high, rq, TRUE, "plenty") : Sends("back", <<a>>)
      BY <1>2, <2>3, <3>1 DEF StartExecutor
    <3>3. type \in {"fack", "nocall"} /\ rq.high \in Int
      BY <1>1, <3>1 DEF RqReps
    <3>4. a \in Pkts /\ BackOK(a, rq, rcv.got)
      BY <1>1, <3>2, <3>3, FackTells
    <3>5. /\ net' = [net EXCEPT !.back = Append(@, a)]
          /\ role' = role /\ len' = len /\ faults' = faults
      <4>1. net \in Nets /\ net.back \in Seq(Pkts)
        BY DEF TransferInv, Nets
      <4>2. Append(net.back, a) = net.back \o <<a>>
        BY <3>4, <4>1, OnePacket
      <4> QED BY <3>2, <4>1, <4>2 DEF Sends, Nets
    <3>6. rq' = rq
      BY <1>2 DEF StartExecutor
    <3> QED BY <1>1, <2>1, <3>4, <3>5, <3>6, IdleStep
  <2> QED BY <2>2, <2>3
<1>3. CASE Sleep
  <2>1. rcv' \in RcvReps /\ rcv'.got = rcv.got /\ rcv'.pc = "recv"
    BY <1>1, <1>3 DEF Sleep, RcvReps
  <2>2. /\ rq' = rq /\ role' = role /\ len' = len /\ faults' = faults /\ net' = net
    BY <1>3 DEF Sleep, fragVars
  <2> QED BY <1>1, <2>1, <2>2, IdleStep
<1>4. CASE Reply
  <2>1. rcv' \in RcvReps /\ rcv'.got = rcv.got /\ rq.all /\ rq.q = {} /\ rq' = rq
    BY <1>1, <1>4 DEF Reply, RcvReps
  <2>2. rcv.got = len
    <3>1. rq.next = len /\ rcv.got <= len /\ rcv.got..(rq.next - 1) \subseteq rq.q
      BY <1>1, <2>1 DEF RecvQueue
    <3>2. rcv.got < len => rcv.got \in rcv.got..(rq.next - 1)
      BY <1>1, <3>1
    <3> QED BY <1>1, <2>1, <3>1, <3>2
  <2>3. Over \in Pkts /\ BackOK(Over, rq, rcv.got)
    BY <2>2, PacketTypes DEF BackOK
  <2>4. /\ net' = [net EXCEPT !.back = Append(@, Over)]
        /\ role' = role /\ len' = len /\ faults' = faults
    <3>1. net \in Nets /\ net.back \in Seq(Pkts)
      BY DEF TransferInv, Nets
    <3>2. Append(net.back, Over) = net.back \o <<Over>>
      BY <2>3, <3>1, OnePacket
    <3> QED BY <1>4, <3>1, <3>2 DEF Reply, Sends, Nets
  <2> QED BY <1>1, <2>1, <2>2, <2>3, <2>4, IdleStep
<1> QED BY <1>2, <1>3, <1>4, StepReceive DEF ReceiverThread

LEMMA StepReceiverTimer ==
  ASSUME TransferInv, UNCHANGED senderVars, NEW cost \in {0, 1}, ReceiverTimer(cost)
  PROVE  TransferInv'
<1>1. /\ rcv \in RcvReps /\ rcv.pings \in Nat /\ rcv.pc = "recv" /\ rq' = rq
      /\ role' = role /\ len' = len
  BY DEF TransferInv, RcvReps, ReceiverTimer
<1>2. faults' \in 0..MaxFaults
  BY FragAssumption DEF ReceiverTimer, Fault, TransferInv
<1>3. CASE rcv.pings >= MaxPings
  <2>1. rcv' \in RcvReps /\ rcv'.got = rcv.got /\ rcv'.pc = "failed" /\ net' = net
    BY <1>1, <1>3 DEF ReceiverTimer, RcvReps
  <2> QED BY <1>1, <1>2, <2>1, IdleStep
<1>4. CASE ~(rcv.pings >= MaxPings)
  <2>1. /\ rcv' \in RcvReps /\ rcv'.got = rcv.got /\ rcv'.pc = "recv"
        /\ net' = [net EXCEPT !.back = Append(@, Ping(rcv.pings))]
    BY <1>1, <1>4 DEF ReceiverTimer, RcvReps
  <2>2. PICK g \in Pkts : g = Ping(rcv.pings) /\ g.type = "ping"
    BY <1>1, PingType
  <2>3. BackOK(g, rq, rcv.got)
    BY <2>2 DEF BackOK
  <2> QED BY <1>1, <1>2, <2>1, <2>2, <2>3, IdleStep
<1> QED BY <1>3, <1>4

-----------------------------------------------------------------------------
(* The theorems *)

LEMMA TransferInvInit ==
  ASSUME Init
  PROVE  TransferInv
<1>1. /\ role \in Roles /\ len \in Lengths /\ net = Silence /\ faults = 0
  BY DEF Init, FragInit
<1>2. len \in Nat /\ len > 0 /\ MaxFaults \in Nat
  BY <1>1, Length, FragAssumption
<1>3. PICK n \in Reservations :
     xq = [q |-> {}, unsent |-> 0, next |-> 0, re |-> {}, cw |-> {}, quiet |-> {},
           sent |-> [f \in AllFrags |-> 0], ser |-> 0, cwindow |-> 0, freqs |-> 0,
           window |-> InitialWindow, blast |-> 0, maxb |-> InitialMaxBlast,
           push |-> FALSE, frag |-> FALSE, awaiting |-> FALSE, tries |-> 0, resvs |-> n]
  BY DEF Init, SenderInit
<1>4. snd = [pc |-> "fill", part |-> FALSE, pinging |-> FALSE, pings |-> 0]
  BY DEF Init, SenderInit
<1>5. /\ rq = [q |-> {}, lasts |-> {}, ser |-> [f \in AllFrags |-> 0],
               next |-> 0, high |-> 0, recving |-> FALSE, all |-> FALSE]
      /\ rcv = [pc |-> IF role = "client" THEN "none" ELSE "recv",
                resv |-> role = "server", exec |-> role = "server",
                valid |-> FALSE, asleep |-> FALSE, got |-> 0, pings |-> 0]
  BY DEF Init, ReceiverInit, AllFrags
<1>6. /\ n \in Nat /\ InitialWindow \in Int /\ InitialMaxBlast \in Nat /\ MaxBlast \in Nat
      /\ InitialMaxBlast \in InitialMaxBlast..MaxBlast
  BY SenderAssumption
<1>7. xq \in XqReps
  <2>1. PICK sent \in [AllFrags -> Int] : sent = [f \in AllFrags |-> 0]
    <3>1. [f \in AllFrags |-> 0] \in [AllFrags -> Int]
      OBVIOUS
    <3> QED BY <3>1
  <2> QED BY <2>1, <1>3, <1>6 DEF XqReps
<1>8. /\ xq.q = {} /\ xq.unsent = 0 /\ xq.next = 0 /\ xq.re = {} /\ xq.cw = {} /\ xq.blast = 0
      /\ xq.push = FALSE /\ xq.cwindow = 0 /\ xq.freqs = 0 /\ xq.maxb = InitialMaxBlast
  BY <1>3
<1>9. SendQueue(xq)
  <2>1. 0..(xq.next - 1) = {} /\ xq.unsent..(xq.next - 1) = {}
    BY <1>8
  <2> QED BY <2>1, <1>2, <1>7, <1>8 DEF SendQueue
<1>10. Limits(xq)
  BY <1>6, <1>8 DEF Limits
<1>11. Exact(xq)
  <2>1. xq.cw \ xq.quiet = {}
    BY <1>8
  <2> QED BY <2>1, <1>8, FS_EmptySet DEF Exact
<1>12. snd \in SndReps /\ snd.pc = "fill"
  BY <1>4 DEF SndReps
<1>13. rcv \in RcvReps /\ rcv.got = 0 /\ rcv.pc # "over"
  BY <1>5 DEF RcvReps
<1>14. rq \in RqReps /\ rq.q = {} /\ rq.next = 0 /\ rq.lasts = {} /\ rq.all = FALSE
  <2>1. PICK ser \in [AllFrags -> Int] : ser = [f \in AllFrags |-> 0]
    <3>1. [f \in AllFrags |-> 0] \in [AllFrags -> Int]
      OBVIOUS
    <3> QED BY <3>1
  <2> QED BY <2>1, <1>5 DEF RqReps
<1>15. RecvQueue(rq, rcv.got)
  <2>1. rcv.got..(rq.next - 1) = {}
    BY <1>13, <1>14
  <2> QED BY <2>1, <1>2, <1>13, <1>14 DEF RecvQueue
<1>16. net \in Nets /\ \A g : g \notin Arriving("there") /\ g \notin Arriving("back")
  BY <1>1 DEF Silence, Nets, Arriving, ToSet
<1>17. Kept(xq, rq, rcv.got)
  BY <1>8 DEF Kept
<1> QED BY <1>1, <1>2, <1>9, <1>10, <1>11, <1>12, <1>13, <1>14, <1>15, <1>16, <1>17
       DEF TransferInv

LEMMA TransferInvNext ==
  ASSUME TransferInv, [Next]_vars
  PROVE  TransferInv'
<1>1. CASE UNCHANGED vars
  <2>1. /\ role' = role /\ len' = len /\ net' = net /\ faults' = faults
        /\ xq' = xq /\ snd' = snd /\ rq' = rq /\ rcv' = rcv
    BY <1>1 DEF vars, fragVars, senderVars, receiverVars
  <2>2. /\ faults' \in 0..MaxFaults /\ rcv' \in RcvReps /\ rcv'.got = rcv.got
        /\ (rcv'.pc = "over" => rcv.got = len)
    BY <2>1 DEF TransferInv
  <2> QED BY <2>1, <2>2, IdleStep DEF senderVars
<1>2. CASE Threads
  BY <1>2, StepSenderThread, StepReceiverThread DEF Threads
<1>3. CASE Deliver
  BY <1>3, StepSenderGets, StepReceiverGets DEF Deliver
<1>4. CASE Timers
  <2>1. PICK cost \in {0, 1} :
          \/ UNCHANGED receiverVars /\ SenderTimer(cost)
          \/ UNCHANGED senderVars /\ ReceiverTimer(cost)
    <3>1. PICK cost \in {0, 1} : cost = IF Quiet THEN 0 ELSE 1
      OBVIOUS
    <3>2. \/ UNCHANGED receiverVars /\ SenderTimer(cost)
          \/ UNCHANGED senderVars /\ ReceiverTimer(cost)
      BY <1>4, <3>1 DEF Timers
    <3> QED BY <3>2
  <2> QED BY <2>1, StepXmitqTimer, StepPingTimer, StepReceiverTimer DEF SenderTimer
<1>5. CASE Lose
  <2>1. /\ Loses("there") \/ Loses("back")
        /\ UNCHANGED senderVars /\ rq' = rq /\ rcv' = rcv
    BY <1>5 DEF Lose, receiverVars
  <2>2. /\ net \in Nets /\ faults \in Nat /\ rcv' \in RcvReps /\ RecvQueue(rq', rcv'.got)
        /\ rq'.q \subseteq 0..(xq.next - 1) /\ (rcv'.pc = "over" => rcv'.got = len)
    BY <2>1 DEF TransferInv
  <2>3. /\ net' \in Nets /\ role' = role /\ len' = len /\ faults' \in 0..MaxFaults
        /\ \A g \in Arriving("there")' : g \in Arriving("there")
        /\ \A g \in Arriving("back")' : g \in Arriving("back")
    BY <2>1, <2>2, LosesOne
  <2>4. Received(rq, rcv.got) \subseteq Received(rq', rcv'.got)
    BY <2>1
  <2> QED BY <2>1, <2>2, <2>3, <2>4, ReceiverSide
<1> QED BY <1>1, <1>2, <1>3, <1>4, <1>5 DEF Next, Runs

LEMMA TransferInvHolds == Spec => []TransferInv
<1>1. Init => TransferInv
  BY TransferInvInit
<1>2. TransferInv /\ [Next]_vars => TransferInv'
  BY TransferInvNext
<1> QED BY <1>1, <1>2, PTL DEF Spec

\* However long the message, the windows, the queues and the blasts are, and however
\* many packets are lost, duplicated and reordered: while fragments are queued,
\* cwindow_size and freqs_out count what is in the window and the facks outstanding,
\* a blast does not exceed its limit, and the receive queue does not exceed
\* max_queue_len (rpc__dg_call_xmit, rpc__dg_fack_common, rpc__dg_call_recvq_insert).
THEOREM TypeOKHolds == Spec => []TypeOK
<1>1. ASSUME TransferInv
      PROVE  TypeOK
  <2>1. /\ role \in Roles /\ len \in Lengths /\ faults \in 0..MaxFaults /\ len \in Nat
        /\ snd \in SndReps /\ SendQueue(xq) /\ Limits(xq) /\ xq.blast \in Nat
        /\ (xq.q # {} => Exact(xq))
        /\ rcv \in RcvReps /\ RecvQueue(rq, rcv.got)
    BY <1>1, Length DEF TransferInv, SendQueue, XqReps
  <2>2. /\ snd.pc \in {"fill", "push", "sent", "done", "failed"}
        /\ rcv.pc \in {"none", "recv", "over", "failed"} /\ rcv.got \in Nat
    BY <2>1 DEF SndReps, RcvReps
  <2>3. /\ xq.q \subseteq 0..(xq.next - 1) /\ xq.unsent..(xq.next - 1) \subseteq xq.q
        /\ xq.cw \cup xq.re \subseteq {f \in xq.q : f < xq.unsent}
    BY <2>1 DEF SendQueue, Waiting
  <2>4. xq.q # {} => xq.cwindow = Cardinality(xq.cw) /\ xq.freqs = Cardinality(xq.cw \ xq.quiet)
    BY <2>1 DEF Exact
  <2>5. xq.maxb \in InitialMaxBlast..MaxBlast /\ xq.blast \in 0..MaxBlast
    BY <2>1, SenderAssumption DEF Limits
  <2>6. /\ rq.q \subseteq 0..(len - 1) /\ Cardinality(rq.q) <= MaxQueue
        /\ rq.next \in 0..len /\ rcv.got \in 0..len
    <3>1. Cardinality(rq.q) <= MaxQueue /\ rq.next \in Nat
      BY <2>1, <2>2, QueueBound
    <3>2. rcv.got <= rq.next /\ rq.next <= len /\ rq.q \subseteq rcv.got..(len - 1)
      BY <2>1 DEF RecvQueue
    <3> QED BY <2>1, <2>2, <3>1, <3>2
  <2> QED BY <2>1, <2>2, <2>3, <2>4, <2>5, <2>6 DEF TypeOK
<1> QED BY <1>1, TransferInvHolds, PTL

\* Of a message of any length, sent in blasts of any size through any number of losses,
\* duplicates and reorderings, no fragment is freed that the receiver does not have
\* (rpc__dg_fack_common), the receiver takes no message for complete that is not
\* (rpc__dg_call_recvq_insert), although an earlier fragment may be marked as the last,
\* and the sender is told that everything arrived only when it was consumed.
THEOREM NothingLostHolds == Spec => []NothingLost
<1>1. ASSUME TransferInv
      PROVE  NothingLost
  <2>1. (snd.pc # "failed" => Kept(xq, rq, rcv.got)) /\ (snd.pc = "done" => rcv.got = len)
    BY <1>1 DEF TransferInv
  <2>2. rq.all => rq.next = len
    BY <1>1 DEF TransferInv, RecvQueue
  <2>3. snd.pc # "failed" => 0..(xq.next - 1) \subseteq xq.q \cup rq.q \cup 0..(rcv.got - 1)
    BY <2>1 DEF Kept, Received
  <2> QED BY <2>1, <2>2, <2>3 DEF NothingLost
<1> QED BY <1>1, TransferInvHolds, PTL

=============================================================================
