------------------------- MODULE CnAssocClientProofs -------------------------
(***************************************************************************)
(* Proofs about CnAssoc, the client's half: for every number of threads,   *)
(* connections, calls and faults the client counts who has an association, *)
(* its groups list the associations that are open, and one call uses an    *)
(* association at a time.  CnAssocProofs goes on with the server's half.   *)
(***************************************************************************)
EXTENDS CnAssoc, FiniteSetTheorems, TLAPS

-----------------------------------------------------------------------------
(* The lists of groups *)

NoDup(l) == \A i, j \in DOMAIN l : l[i] = l[j] => i = j

\* Unlinking an association (rpc__cn_assoc_grp_rem_assoc) takes it, and nobody else, off
\* the list.
LEMMA WithoutList ==
  ASSUME NEW l \in Seq(Conns), NEW a, NoDup(l)
  PROVE  /\ Without(l, a) \in Seq(Conns) /\ NoDup(Without(l, a))
         /\ \A x : x \in Members(Without(l, a)) <=> x \in Members(l) /\ x # a
  <1> DEFINE r == Without(l, a)
  <1>1. Len(l) \in Nat /\ DOMAIN l = 1..Len(l)
    OBVIOUS
  <1>2. CASE a \notin Members(l)
    BY <1>2 DEF Without
  <1>3. CASE a \in Members(l)
    <2> DEFINE i == CHOOSE i \in DOMAIN l : l[i] = a
    <2>1. i \in 1..Len(l) /\ l[i] = a
      BY <1>1, <1>3 DEF Members
    <2>2. r = [k \in 1..(Len(l) - 1) |-> IF k < i THEN l[k] ELSE l[k + 1]]
      BY <1>3 DEF Without, Unlink
    <2> HIDE DEF i, r
    <2>3. r \in Seq(Conns) /\ Len(r) = Len(l) - 1 /\ DOMAIN r = 1..(Len(l) - 1)
      BY <1>1, <2>1, <2>2
    <2>4. \A k \in 1..(Len(l) - 1) : r[k] = IF k < i THEN l[k] ELSE l[k + 1]
      BY <2>2
    <2>5. NoDup(r)
      <3> SUFFICES ASSUME NEW j \in 1..(Len(l) - 1), NEW k \in 1..(Len(l) - 1), r[j] = r[k]
                   PROVE  j = k
        BY <2>3 DEF NoDup
      <3>1. \A m, n \in 1..Len(l) : l[m] = l[n] => m = n
        BY <1>1 DEF NoDup
      <3> DEFINE Place(m) == IF m < i THEN m ELSE m + 1
      <3>2. Place(j) \in 1..Len(l) /\ Place(k) \in 1..Len(l) /\ (Place(j) = Place(k) => j = k)
        BY <1>1, <2>1
      <3>3. r[j] = l[Place(j)] /\ r[k] = l[Place(k)]
        BY <2>4
      <3> HIDE DEF Place
      <3>4. Place(j) = Place(k)
        BY <3>1, <3>2, <3>3
      <3>5. QED
        BY <3>2, <3>4
    <2>6. ASSUME NEW x, x \in Members(r) PROVE x \in Members(l) /\ x # a
      <3>1. PICK k \in 1..(Len(l) - 1) : x = r[k]
        BY <2>3, <2>6 DEF Members
      <3>2. CASE k < i
        <4>1. k \in DOMAIN l /\ x = l[k] /\ k # i
          BY <1>1, <2>1, <2>4, <3>1, <3>2
        <4>2. QED
          BY <1>1, <2>1, <4>1 DEF Members, NoDup
      <3>3. CASE ~(k < i)
        <4>1. k + 1 \in DOMAIN l /\ x = l[k + 1] /\ k + 1 # i
          BY <1>1, <2>1, <2>4, <3>1, <3>3
        <4>2. QED
          BY <1>1, <2>1, <4>1 DEF Members, NoDup
      <3>4. QED
        BY <3>2, <3>3
    <2>7. ASSUME NEW x, x \in Members(l), x # a PROVE x \in Members(r)
      <3>1. PICK k \in 1..Len(l) : x = l[k]
        BY <1>1, <2>7 DEF Members
      <3>2. k # i
        BY <2>1, <2>7, <3>1
      <3>3. CASE k < i
        <4>1. k \in 1..(Len(l) - 1) /\ r[k] = x
          BY <1>1, <2>1, <2>4, <3>1, <3>3
        <4>2. QED
          BY <2>3, <4>1 DEF Members
      <3>4. CASE k > i
        <4>1. k - 1 \in 1..(Len(l) - 1) /\ ~(k - 1 < i) /\ (k - 1) + 1 = k
          BY <1>1, <2>1, <3>1, <3>4
        <4>2. r[k - 1] = x
          BY <2>4, <3>1, <4>1
        <4>3. QED
          BY <2>3, <4>1, <4>2 DEF Members
      <3>5. QED
        BY <2>1, <3>1, <3>2, <3>3, <3>4
    <2>8. QED
      BY <2>3, <2>5, <2>6, <2>7 DEF r
  <1>4. QED
    BY <1>2, <1>3

\* A list is empty when it has no member.
LEMMA MembersEmpty ==
  ASSUME NEW l \in Seq(Conns)
  PROVE  l = <<>> <=> Members(l) = {}
  <1>1. Len(l) \in Nat /\ DOMAIN l = 1..Len(l)
    OBVIOUS
  <1>2. ASSUME l # <<>> PROVE l[1] \in Members(l)
    <2>1. Len(l) # 0
      BY <1>2
    <2>2. 1 \in DOMAIN l
      BY <1>1, <2>1
    <2>3. QED
      BY <2>2 DEF Members
  <1>3. ASSUME l = <<>> PROVE Members(l) = {}
    <2>1. DOMAIN l = {}
      BY <1>3
    <2>2. QED
      BY <2>1 DEF Members
  <1>4. QED
    BY <1>2, <1>3

\* An association that is new to a list is added at its end (rpc__cn_assoc_grp_add_assoc).
LEMMA AppendList ==
  ASSUME NEW l \in Seq(Conns), NEW a \in Conns, NoDup(l), a \notin Members(l)
  PROVE  /\ Append(l, a) \in Seq(Conns) /\ NoDup(Append(l, a)) /\ Append(l, a) # <<>>
         /\ \A x : x \in Members(Append(l, a)) <=> x \in Members(l) \/ x = a
  <1> DEFINE m == Append(l, a)
             n == Len(l)
  <1>1. n \in Nat /\ DOMAIN l = 1..n /\ DOMAIN m = 1..(n + 1) /\ m \in Seq(Conns)
        /\ m[n + 1] = a /\ \A i \in 1..n : m[i] = l[i]
    OBVIOUS
  <1>2. \A i \in 1..n : l[i] # a
    BY <1>1 DEF Members
  <1> HIDE DEF m, n
  <1>3. \A i \in 1..(n + 1) : i \in 1..n \/ i = n + 1
    BY <1>1
  <1>4. NoDup(m)
    BY <1>1, <1>2, <1>3 DEF NoDup
  <1>5. \A x : x \in Members(m) <=> x \in Members(l) \/ x = a
    <2>1. n + 1 \in 1..(n + 1) /\ \A i \in 1..n : i \in 1..(n + 1)
      BY <1>1
    <2>2. QED
      BY <1>1, <1>3, <2>1 DEF Members
  <1>6. m # <<>>
    BY <1>1
  <1>7. QED
    BY <1>1, <1>4, <1>5, <1>6 DEF m

\* The groups list the associations that are in them, once each; S are the states of such
\* associations.
Lists(acb, grp, S) ==
  \A g \in Conns :
    /\ grp[g].st = "ACTIVE" <=> grp[g].list # <<>>
    /\ \A a \in Members(grp[g].list) : acb[a].grp = g /\ acb[a].st \in S
    /\ NoDup(grp[g].list)

\* acb2 is acb with b as association a.
Altered(acb, acb2, a, b) == acb2[a] = b /\ \A x \in Conns : x # a => acb2[x] = acb[x]

LEMMA MembersInConns ==
  ASSUME NEW l \in Seq(Conns), NEW x \in Members(l)
  PROVE  x \in Conns
  BY DEF Members

\* A step at an association that stays in its group, or is in none
LEMMA ListsSame ==
  ASSUME NEW acb, NEW grp, NEW S, Lists(acb, grp, S),
         \A g \in Conns : grp[g].list \in Seq(Conns),
         NEW a \in Conns, NEW b, NEW acb2, Altered(acb, acb2, a, b),
         \A g \in Conns : a \in Members(grp[g].list) => b.grp = acb[a].grp /\ b.st \in S,
         NEW grp2, \A g \in Conns : /\ grp2[g].list = grp[g].list
                                    /\ grp2[g].st = "ACTIVE" <=> grp[g].st = "ACTIVE"
  PROVE  Lists(acb2, grp2, S)
  <1>1. ASSUME NEW g \in Conns, NEW x \in Members(grp[g].list)
        PROVE  acb2[x].grp = g /\ acb2[x].st \in S
    <2>1. x \in Conns
      BY MembersInConns
    <2>2. acb[x].grp = g /\ acb[x].st \in S
      BY DEF Lists
    <2>3. x # a => acb2[x] = acb[x]
      BY <2>1 DEF Altered
    <2>4. acb2[a] = b
      BY DEF Altered
    <2>5. QED
      BY <2>2, <2>3, <2>4
  <1>2. QED
    BY <1>1 DEF Lists

\* An association leaves its group, if it has one (rpc__cn_assoc_grp_rem_assoc).
LEMMA ListsRemoved ==
  ASSUME NEW acb, NEW grp, NEW S, Lists(acb, grp, S),
         \A g \in Conns : grp[g].list \in Seq(Conns),
         NEW a \in Conns, NEW b, NEW acb2, Altered(acb, acb2, a, b),
         NEW grp2,
         \A g \in Conns : /\ grp2[g].list = IF g = acb[a].grp THEN Without(grp[g].list, a)
                                            ELSE grp[g].list
                          /\ grp2[g].st = "ACTIVE" <=> grp2[g].list # <<>>
  PROVE  /\ Lists(acb2, grp2, S)
         /\ \A g \in Conns : a \notin Members(grp2[g].list)
         /\ \A g \in Conns : grp2[g].list \in Seq(Conns)
  <1>1. \A x \in Conns : x # a => acb2[x] = acb[x]
    BY DEF Altered
  <1>2. ASSUME NEW g \in Conns
        PROVE  /\ grp2[g].list \in Seq(Conns) /\ NoDup(grp2[g].list)
               /\ a \notin Members(grp2[g].list)
               /\ \A x \in Members(grp2[g].list) : x \in Members(grp[g].list)
    <2>1. grp[g].list \in Seq(Conns) /\ NoDup(grp[g].list)
      BY DEF Lists
    <2>2. CASE g = acb[a].grp
      <3>1. grp2[g].list = Without(grp[g].list, a)
        BY <2>2
      <3>2. QED
        BY <2>1, <3>1, WithoutList
    <2>3. CASE g # acb[a].grp
      <3>1. grp2[g].list = grp[g].list
        BY <2>3
      <3>2. a \notin Members(grp[g].list)
        BY <2>3 DEF Lists
      <3>3. QED
        BY <2>1, <3>1, <3>2
    <2>4. QED
      BY <2>2, <2>3
  <1>3. ASSUME NEW g \in Conns, NEW x \in Members(grp2[g].list)
        PROVE  acb2[x].grp = g /\ acb2[x].st \in S
    <2>1. x # a /\ x \in Members(grp[g].list) /\ x \in Conns
      BY <1>2, MembersInConns
    <2>2. QED
      BY <1>1, <2>1 DEF Lists
  <1>4. QED
    BY <1>2, <1>3 DEF Lists

\* An association in no group joins one (rpc__cn_assoc_grp_add_assoc).
LEMMA ListsAdded ==
  ASSUME NEW acb, NEW grp, NEW S, Lists(acb, grp, S),
         NEW a \in Conns, \A g \in Conns : a \notin Members(grp[g].list),
         \A g \in Conns : grp[g].list \in Seq(Conns),
         NEW h \in Conns,
         NEW b, NEW acb2, Altered(acb, acb2, a, b), b.grp = h, b.st \in S,
         NEW grp2, grp2[h].list = Append(grp[h].list, a), grp2[h].st = "ACTIVE",
         \A g \in Conns : g # h => grp2[g].list = grp[g].list /\ grp2[g].st = grp[g].st
  PROVE  Lists(acb2, grp2, S)
  <1>1. acb2[a] = b /\ \A x \in Conns : x # a => acb2[x] = acb[x]
    BY DEF Altered
  <1>2. /\ NoDup(grp2[h].list) /\ grp2[h].list # <<>>
        /\ \A x : x \in Members(grp2[h].list) <=> x \in Members(grp[h].list) \/ x = a
    <2>1. NoDup(grp[h].list)
      BY DEF Lists
    <2>2. QED
      BY <2>1, AppendList
  <1>3. ASSUME NEW g \in Conns
        PROVE  /\ grp2[g].st = "ACTIVE" <=> grp2[g].list # <<>>
               /\ \A x \in Members(grp2[g].list) : acb2[x].grp = g /\ acb2[x].st \in S
               /\ NoDup(grp2[g].list)
    <2>1. CASE g = h
      <3>1. \A x \in Members(grp[h].list) : x # a /\ x \in Conns /\ acb[x].grp = h /\ acb[x].st \in S
        BY MembersInConns DEF Lists
      <3>2. \A x \in Members(grp2[h].list) : acb2[x].grp = h /\ acb2[x].st \in S
        BY <1>1, <1>2, <3>1
      <3>3. QED
        BY <1>2, <2>1, <3>2
    <2>2. CASE g # h
      <3>1. grp2[g].list = grp[g].list /\ grp2[g].st = grp[g].st
        BY <2>2
      <3>2. \A x \in Members(grp[g].list) : x # a /\ x \in Conns
        BY MembersInConns
      <3>3. QED
        BY <1>1, <3>1, <3>2 DEF Lists
    <2>3. QED
      BY <2>1, <2>2
  <1>4. QED
    BY <1>3 DEF Lists

-----------------------------------------------------------------------------
(* What the client's variables hold *)

\* The packets of each end; what they are about is a connection or a call of the bounds.
ClientPacket ==
  [type : {"bind", "request", "orphaned"}, group : 0..MaxConns, call : 0..MaxCalls]
ServerPacket ==
  [type : {"ack", "nak", "shutdown", "response"}, group : 0..MaxConns, call : 0..MaxCalls]

ClientAcb ==
  [life : {"new", "live", "freed"},
   st : {"CLOSED", "INIT_WAIT", "OPEN", "ACTIVE", "CALL_DONE_WAIT"},
   cn : {"CLOSED", "CONNECTING", "OPEN"}, ref : Nat, users : Nat, owner : SUBSET Threads,
   ok : BOOLEAN, syn : BOOLEAN, grp : 0..MaxConns, shut : BOOLEAN, reqs : Nat,
   rx : {"idle", "recv", "done"}, cancel : BOOLEAN]

ClientGroup == [st : {"CLOSED", "ACTIVE"}, remid : 0..MaxConns, list : Seq(Conns), refs : Int]

Client == [acb : [Conns -> ClientAcb], grp : [Conns -> ClientGroup]]

Caller ==
  [pc : {"idle", "request", "grpwait", "sleep", "connect", "bindwait", "call", "wait", "reply",
         "done"},
   a : 0..MaxConns, hold : BOOLEAN, call : 0..MaxCalls, grp : 0..MaxConns]

ClientTypes == cli \in Client /\ thr \in [Threads -> Caller] /\ calls \in 0..MaxCalls

Connection == [up : BOOLEAN, c2s : Seq(ClientPacket), s2c : Seq(ServerPacket)]

NetTypes == net \in [Conns -> Connection]

\* States of associations that are in a group
Grouped == {"OPEN", "ACTIVE"}

Receiving(b) == IF b.rx = "recv" THEN 1 ELSE 0

\* n is how many others than a receiver have the association.
AcbOK(b, n) ==
  /\ b.ref = n + Receiving(b)
  /\ b.life = "live" <=> b.ref > 0
  /\ b.st \in Grouped => b.rx = "recv"
  /\ b.cancel => b.st \notin Grouped
  /\ b.cn = "OPEN" => b.life = "live"
  /\ b.st = "INIT_WAIT" => b.ok /\ b.cn # "CONNECTING"

\* What a caller at place r may find in the association that it has
CallerOK(r, b) ==
  /\ b.users > 0
  /\ r.pc = "connect" => /\ b.st = "CLOSED" /\ b.cn = "CONNECTING"
                         /\ b.rx = "idle" /\ ~b.syn /\ b.ok
  /\ r.pc = "bindwait" => /\ b.st \in {"INIT_WAIT", "OPEN", "CLOSED"}
                          /\ b.ok /\ b.syn => b.st = "OPEN"
  /\ r.pc \in {"call", "wait", "reply", "done"} => b.st \in {"ACTIVE", "CLOSED", "CALL_DONE_WAIT"}

\* Places of a caller that has no association
Unheld == {"idle", "request", "grpwait", "sleep"}

Held(a) == IF \E t \in Threads : thr[t].a = a THEN 1 ELSE 0

CallerInv ==
  /\ \A t, u \in Threads : thr[t].a = thr[u].a /\ thr[t].a # 0 => t = u
  /\ \A t \in Threads : thr[t].a = 0 <=> thr[t].pc \in Unheld
  /\ \A t \in Threads : thr[t].a # 0 => CallerOK(thr[t], cli.acb[thr[t].a])

AcbInv == \A a \in Conns : AcbOK(cli.acb[a], Held(a))

ClientLists == Lists(cli.acb, cli.grp, Grouped)

ClientInv == ClientTypes /\ NetTypes /\ CallerInv /\ AcbInv /\ ClientLists

\* A step that changes one association, and the callers that have it or come to have it
LEMMA AcbStep ==
  ASSUME ClientTypes, CallerInv, AcbInv,
         NEW a \in Conns, NEW b, cli'.acb = [cli.acb EXCEPT ![a] = b],
         \A t \in Threads : \/ thr'[t].a = thr[t].a /\ thr'[t].pc = thr[t].pc
                            \/ thr[t].a \in {0, a} /\ thr'[t].a \in {0, a},
         \A t, u \in Threads : thr'[t].a = a /\ thr'[u].a = a => t = u,
         \A t \in Threads : thr'[t].a = 0 <=> thr'[t].pc \in Unheld,
         \A t \in Threads : thr'[t].a = a => CallerOK(thr'[t], b),
         AcbOK(b, Held(a)')
  PROVE  CallerInv' /\ AcbInv'
  <1>1. cli'.acb[a] = b /\ \A x \in Conns : x # a => cli'.acb[x] = cli.acb[x]
    BY DEF ClientTypes, Client
  <1>2. 0 \notin Conns /\ \A t \in Threads : thr[t].a # 0 => thr[t].a \in Conns
    BY DEF Conns, ClientTypes, Caller
  <1>3. \A t \in Threads : thr'[t].a # 0 /\ thr'[t].a # a =>
          thr'[t].a = thr[t].a /\ thr'[t].pc = thr[t].pc
    OBVIOUS
  <1>4. \A t \in Threads : \A x \in Conns : x # a => (thr'[t].a = x <=> thr[t].a = x)
    BY <1>2
  <1>5. \A x \in Conns : x # a => Held(x)' = Held(x)
    BY <1>4 DEF Held
  <1>6. AcbInv'
    BY <1>1, <1>5 DEF AcbInv
  <1>7. \A t, u \in Threads : thr'[t].a = thr'[u].a /\ thr'[t].a # 0 => t = u
    BY <1>3 DEF CallerInv
  <1>8. ASSUME NEW t \in Threads, thr'[t].a # 0
        PROVE  CallerOK(thr'[t], cli'.acb[thr'[t].a])
    <2>1. CASE thr'[t].a = a
      BY <1>1, <2>1
    <2>2. CASE thr'[t].a # a
      <3>1. thr'[t].a = thr[t].a /\ thr'[t].pc = thr[t].pc /\ thr[t].a \in Conns
        BY <1>2, <1>3, <1>8, <2>2
      <3>2. CallerOK(thr[t], cli.acb[thr[t].a])
        BY <1>2, <3>1 DEF CallerInv
      <3>3. cli'.acb[thr'[t].a] = cli.acb[thr[t].a]
        BY <1>1, <2>2, <3>1
      <3>4. QED
        BY <3>1, <3>2, <3>3 DEF CallerOK
    <2>3. QED
      BY <2>1, <2>2
  <1>9. QED
    BY <1>6, <1>7, <1>8 DEF CallerInv

-----------------------------------------------------------------------------
(* What the client's routines make of an association *)

\* d is c with b as association a, and with the same groups.
Becomes(c, d, a, b) ==
  /\ b \in ClientAcb /\ d \in Client
  /\ d.acb = [c.acb EXCEPT ![a] = b] /\ d.grp = c.grp

\* A group is left by a: it lives on with its other associations, or is gone.
Leaves(c, d, a) ==
  \A g \in Conns :
    /\ d.grp[g].list = IF g = c.acb[a].grp THEN Without(c.grp[g].list, a) ELSE c.grp[g].list
    /\ d.grp[g].st = "ACTIVE" <=> d.grp[g].list # <<>>
    /\ d.grp[g].st = "ACTIVE" => /\ c.grp[g].st = "ACTIVE" /\ d.grp[g].refs = c.grp[g].refs
                                 /\ d.grp[g].remid = c.grp[g].remid
    /\ d.grp[g].refs \in {0, c.grp[g].refs}

\* d is c with b as association a, which has left its group.
BecomesAlone(c, d, a, b) ==
  /\ b \in ClientAcb /\ d \in Client
  /\ d.acb = [c.acb EXCEPT ![a] = b] /\ Leaves(c, d, a)

\* d is c with b as association a, which has joined a group.
BecomesMember(c, d, a, b) ==
  /\ b \in ClientAcb /\ d \in Client
  /\ d.acb = [c.acb EXCEPT ![a] = b] /\ b.grp \in Conns /\ b.st \in Grouped
  /\ d.grp[b.grp].list = Append(c.grp[b.grp].list, a) /\ d.grp[b.grp].st = "ACTIVE"
  /\ \A g \in Conns : g # b.grp => d.grp[g] = c.grp[g]

\* rpc__cn_assoc_acb_dealloc
AfterDealloc(b) ==
  IF b.ref > 1 THEN [b EXCEPT !.ref = b.ref - 1] ELSE [NewAcb EXCEPT !.life = "freed"]

\* The initial association block, also after it was freed
LEMMA NewAcbType == NewAcb \in ClientAcb /\ [NewAcb EXCEPT !.life = "freed"] \in ClientAcb
  <1>1. 0 \in 0..MaxConns
    BY BindAssumption
  <1>2. QED
    BY <1>1 DEF NewAcb, ClientAcb

\* Changing fields of one association changes nothing else.
LEMMA AcbExcept ==
  ASSUME NEW c \in Client, NEW a \in Conns, NEW b \in ClientAcb
  PROVE  Becomes(c, [c EXCEPT !.acb[a] = b], a, b)
  BY DEF Becomes, Client

\* One change after the other
LEMMA BecomesTwice ==
  ASSUME NEW c \in Client, NEW a \in Conns, NEW d, NEW e, NEW b, NEW b2,
         Becomes(d, e, a, b2)
  PROVE  /\ Becomes(c, d, a, b) => Becomes(c, e, a, b2)
         /\ BecomesAlone(c, d, a, b) => BecomesAlone(c, e, a, b2)
  <1>1. ASSUME d.acb = [c.acb EXCEPT ![a] = b] PROVE e.acb = [c.acb EXCEPT ![a] = b2]
    <2>1. c.acb \in [Conns -> ClientAcb] /\ e.acb = [d.acb EXCEPT ![a] = b2]
      BY DEF Client, Becomes
    <2>2. QED
      BY <1>1, <2>1
  <1>2. QED
    BY <1>1 DEF Becomes, BecomesAlone, Leaves

\* rpc__cn_assoc_acb_dealloc drops a reference, and the block with the last one.
LEMMA DeallocAcbShape ==
  ASSUME NEW c \in Client, NEW a \in Conns
  PROVE  Becomes(c, DeallocAcb(c, a), a, AfterDealloc(c.acb[a]))
  <1> DEFINE b == c.acb[a]
  <1>1. b \in ClientAcb /\ b.ref \in Nat
    BY DEF Client, ClientAcb
  <1>2. CASE b.ref > 1
    <2>1. [b EXCEPT !.ref = b.ref - 1] \in ClientAcb
      <3>1. b.ref - 1 \in Nat
        BY <1>1, <1>2
      <3>2. QED
        BY <1>1, <3>1 DEF ClientAcb
    <2>2. DeallocAcb(c, a) = [c EXCEPT !.acb[a] = [b EXCEPT !.ref = b.ref - 1]]
      BY <1>2 DEF DeallocAcb
    <2>3. AfterDealloc(b) = [b EXCEPT !.ref = b.ref - 1]
      BY <1>2 DEF AfterDealloc
    <2>4. QED
      BY <2>1, <2>2, <2>3, AcbExcept
  <1>3. CASE ~(b.ref > 1)
    <2>1. DeallocAcb(c, a) = [c EXCEPT !.acb[a] = [NewAcb EXCEPT !.life = "freed"]]
      BY <1>3 DEF DeallocAcb
    <2>2. AfterDealloc(b) = [NewAcb EXCEPT !.life = "freed"]
      BY <1>3 DEF AfterDealloc
    <2>3. QED
      BY <2>1, <2>2, NewAcbType, AcbExcept
  <1>4. QED
    BY <1>2, <1>3

\* rem_assoc, in any group or none
LEMMA RemFromGroupShape ==
  ASSUME NEW c \in Client, NEW a \in Conns, Lists(c.acb, c.grp, Grouped)
  PROVE  BecomesAlone(c, RemFromGroup(c, a), a, [c.acb[a] EXCEPT !.grp = 0])
  <1> DEFINE b == c.acb[a]
             g == b.grp
             d == RemFromGroup(c, a)
             rest == Without(c.grp[g].list, a)
  <1>1. /\ c.acb \in [Conns -> ClientAcb] /\ c.grp \in [Conns -> ClientGroup]
        /\ b \in ClientAcb /\ g \in 0..MaxConns
    BY DEF Client, ClientAcb
  <1>2. [b EXCEPT !.grp = 0] \in ClientAcb
    <2>1. 0 \in 0..MaxConns
      BY BindAssumption
    <2>2. QED
      BY <1>1, <2>1 DEF ClientAcb
  <1>3. \A h \in Conns : /\ c.grp[h].list \in Seq(Conns) /\ NoDup(c.grp[h].list)
                         /\ c.grp[h].st = "ACTIVE" <=> c.grp[h].list # <<>>
    BY <1>1 DEF Lists, ClientGroup
  <1>4. CASE g = 0
    <2>1. d = c
      BY <1>4 DEF RemFromGroup
    <2>2. [b EXCEPT !.grp = 0] = b
      BY <1>1, <1>4 DEF ClientAcb
    <2>3. c.acb = [c.acb EXCEPT ![a] = b]
      BY <1>1
    <2>4. \A h \in Conns : h # g
      BY <1>4 DEF Conns
    <2>5. Leaves(c, c, a)
      BY <1>3, <2>4 DEF Leaves
    <2>6. QED
      BY <1>1, <2>1, <2>2, <2>3, <2>5 DEF BecomesAlone
  <1>5. CASE g # 0
    <2>1. g \in Conns
      BY <1>1, <1>5, BindAssumption DEF Conns
    <2> DEFINE k == IF rest = <<>> THEN NoGroup ELSE [c.grp[g] EXCEPT !.list = rest]
    <2>2. d = [c EXCEPT !.acb[a].grp = 0, !.grp[g] = k]
      BY <1>5 DEF RemFromGroup
    <2>3. rest \in Seq(Conns)
      BY <1>3, <2>1, WithoutList
    <2>4. k \in ClientGroup /\ k.list = rest /\ c.grp[g] \in ClientGroup
          /\ (rest # <<>> => k = [c.grp[g] EXCEPT !.list = rest])
          /\ (rest = <<>> => k = NoGroup)
      <3>1. c.grp[g] \in ClientGroup
        BY <1>1, <2>1
      <3>2. NoGroup \in ClientGroup /\ NoGroup.list = <<>>
        BY BindAssumption DEF NoGroup, ClientGroup
      <3>3. QED
        BY <2>3, <3>1, <3>2 DEF ClientGroup
    <2>5. rest # <<>> => c.grp[g].st = "ACTIVE"
      <3>1. \A x : x \in Members(rest) => x \in Members(c.grp[g].list)
        BY <1>3, <2>1, WithoutList
      <3>2. c.grp[g].list \in Seq(Conns)
        BY <1>3, <2>1
      <3> HIDE DEF g, rest
      <3>3. rest # <<>> => c.grp[g].list # <<>>
        BY <2>3, <3>1, <3>2, MembersEmpty
      <3>4. QED
        BY <1>3, <2>1, <3>3
    <2> HIDE DEF k, rest
    <2>6. d.acb = [c.acb EXCEPT ![a] = [b EXCEPT !.grp = 0]] /\ d.grp = [c.grp EXCEPT ![g] = k]
      BY <2>1, <2>2 DEF Client
    <2>7. d \in Client
      <3>1. d = [acb |-> [c.acb EXCEPT ![a] = [b EXCEPT !.grp = 0]], grp |-> [c.grp EXCEPT ![g] = k]]
        BY <2>2 DEF Client
      <3>2. QED
        BY <1>1, <1>2, <2>1, <2>4, <3>1 DEF Client
    <2> HIDE DEF b, d
    <2>8. ASSUME NEW h \in Conns
          PROVE  /\ d.grp[h].list = IF h = g THEN rest ELSE c.grp[h].list
                 /\ d.grp[h].st = "ACTIVE" <=> d.grp[h].list # <<>>
                 /\ d.grp[h].st = "ACTIVE" => /\ c.grp[h].st = "ACTIVE"
                                              /\ d.grp[h].refs = c.grp[h].refs
                                              /\ d.grp[h].remid = c.grp[h].remid
                 /\ d.grp[h].refs \in {0, c.grp[h].refs}
      <3>1. CASE h # g
        BY <1>1, <1>3, <2>1, <2>6, <3>1
      <3>2. CASE h = g /\ rest = <<>>
        <4>1. d.grp[h] = NoGroup
          BY <1>1, <2>1, <2>4, <2>6, <3>2
        <4>2. QED
          BY <3>2, <4>1 DEF NoGroup
      <3>3. CASE h = g /\ rest # <<>>
        <4>1. d.grp[h] = [c.grp[g] EXCEPT !.list = rest]
          BY <1>1, <2>1, <2>4, <2>6, <3>3
        <4>2. QED
          BY <2>4, <2>5, <3>3, <4>1 DEF ClientGroup
      <3>4. QED
        BY <3>1, <3>2, <3>3
    <2>9. Leaves(c, d, a)
      BY <2>8 DEF Leaves, rest, b
    <2>10. QED
      BY <1>2, <2>6, <2>7, <2>9 DEF BecomesAlone, b, d
  <1>6. QED
    BY <1>4, <1>5

\* rem_mark_abort_action_rtn: the association is closed and has left its group.
LEMMA RemMarkAbortShape ==
  ASSUME NEW c \in Client, NEW a \in Conns, Lists(c.acb, c.grp, Grouped), NEW ok \in BOOLEAN
  PROVE  BecomesAlone(c, RemMarkAbort(c, a, ok), a,
           [c.acb[a] EXCEPT !.grp = 0, !.cancel = @ \/ c.acb[a].cn = "OPEN",
                            !.st = "CLOSED", !.ok = ok])
  <1> DEFINE b == c.acb[a]
             b1 == [b EXCEPT !.grp = 0]
             b2 == [b1 EXCEPT !.cancel = @ \/ b1.cn = "OPEN"]
             b3 == [b2 EXCEPT !.st = "CLOSED", !.ok = ok]
             d1 == RemFromGroup(c, a)
             d2 == CloseConnect(d1, a)
             d3 == MarkAssoc(d2, a, ok)
  <1>1. BecomesAlone(c, d1, a, b1)
    BY RemFromGroupShape
  <1>2. d1 \in Client /\ d1.acb[a] = b1 /\ b1 \in ClientAcb
    BY <1>1 DEF BecomesAlone, Client
  <1>3. Becomes(d1, d2, a, b2)
    <2>1. b2 \in ClientAcb
      BY <1>2 DEF ClientAcb
    <2>2. d2 = [d1 EXCEPT !.acb[a] = b2]
      BY <1>2 DEF CloseConnect, Client
    <2> HIDE DEF b1, b2, d1, d2
    <2>3. QED
      BY <1>2, <2>1, <2>2, AcbExcept
  <1>4. d2 \in Client /\ d2.acb[a] = b2 /\ b2 \in ClientAcb
    BY <1>2, <1>3 DEF Becomes, Client
  <1>5. Becomes(d2, d3, a, b3)
    <2>1. b3 \in ClientAcb
      BY <1>4, ZenonT(60) DEF ClientAcb
    <2>2. d3 = [d2 EXCEPT !.acb[a] = b3]
      BY <1>4 DEF MarkAssoc, Client
    <2> HIDE DEF b2, b3, d2, d3
    <2>3. QED
      BY <1>4, <2>1, <2>2, AcbExcept
  <1> HIDE DEF b1, d1, d2
  <1>6. BecomesAlone(c, d2, a, b2)
    BY <1>1, <1>3, BecomesTwice
  <1>7. BecomesAlone(c, d3, a, b3)
    BY <1>5, <1>6, BecomesTwice
  <1>8. d3 = RemMarkAbort(c, a, ok)
    BY DEF RemMarkAbort, d1, d2
  <1>9. b3 = [b EXCEPT !.grp = 0, !.cancel = @ \/ b.cn = "OPEN", !.st = "CLOSED", !.ok = ok]
    BY DEF Client, ClientAcb, b1
  <1> HIDE DEF b3, d3
  <1>10. QED
    BY <1>7, <1>8, <1>9

-----------------------------------------------------------------------------
(* Steps of the client *)

\* An association that has not had the ack to its bind
Young(b) == b.life = "new" \/ b.cn = "CONNECTING" \/ b.st = "INIT_WAIT"

\* The bind of an association is being sent.
Called(a) == \E t \in Threads : Connects(t) /\ thr[t].a = a

\* The block b0 of an association becomes b: it does not begin again.
Ages(a, b0, b) ==
  /\ b.life = "new" => b0.life = "new"
  /\ Young(b) => Young(b0)
  /\ b.st = "INIT_WAIT" => b0.st = "INIT_WAIT" \/ Called(a)

\* An ack has come for a, whose group is new or has been told of already.
AckTaken(c, d, a, b) ==
  /\ BecomesMember(c, d, a, b) /\ c.acb[a].st = "INIT_WAIT" /\ b.st = "OPEN" /\ ~Young(b)
  /\ net[a].s2c # <<>> /\ Head(net[a].s2c).type = "ack"
  /\ Head(net[a].s2c).group = d.grp[b.grp].remid
  /\ d.grp[b.grp].refs = c.grp[b.grp].refs
  /\ \/ b.grp = a
     \/ c.grp[b.grp].st = "ACTIVE" /\ d.grp[b.grp].remid = c.grp[b.grp].remid

\* The association a becomes b: it stays in its group if it is in one, has left it, or has
\* joined one.
Turns(c, d, a, b) ==
  /\ \/ /\ Becomes(c, d, a, b)
        /\ c.acb[a].st \in Grouped <=> b.st \in Grouped
        /\ b.st \in Grouped => b.grp = c.acb[a].grp
     \/ BecomesAlone(c, d, a, b) /\ b.st \notin Grouped
     \/ AckTaken(c, d, a, b)
  /\ Ages(a, c.acb[a], b)

Changes(a, b) == Turns(cli, cli', a, b)

\* What is in a group after a step has been in it before, or an ack has come for it; an
\* active group has been active before, or that ack is for its first association.
Stays(x) ==
  cli'.acb[x].st \in Grouped =>
    /\ cli.acb[x].st \in Grouped /\ cli'.acb[x].grp = cli.acb[x].grp
    /\ cli.acb[x].grp \in Conns /\ x \in Members(cli.grp[cli.acb[x].grp].list)
         => x \in Members(cli'.grp[cli.acb[x].grp].list)
Stands(g) ==
  cli'.grp[g].st = "ACTIVE" => cli.grp[g].st = "ACTIVE" /\ cli'.grp[g].remid = cli.grp[g].remid
Joined(x) ==
  /\ cli.acb[x].st = "INIT_WAIT" /\ cli'.acb[x].st = "OPEN" /\ ~Young(cli'.acb[x])
  /\ net[x].s2c # <<>> /\ Head(net[x].s2c).type = "ack"
  /\ LET g == cli'.acb[x].grp IN
       /\ g \in Conns /\ x \in Members(cli'.grp[g].list)
       /\ Head(net[x].s2c).group = cli'.grp[g].remid

\* A group keeps the count of the handles that are in it, but for rpc__cn_network_maint.
RefsKept(g) ==
  /\ cli'.grp[g].refs \in {0, cli.grp[g].refs}
  /\ cli'.grp[g].st = "ACTIVE" => cli'.grp[g].refs = cli.grp[g].refs

\* What every step of the client does, at most
Onward ==
  \A x \in Conns :
    /\ Ages(x, cli.acb[x], cli'.acb[x])
    /\ Stays(x) \/ Joined(x)
    /\ Stands(x) \/ (Joined(x) /\ cli'.acb[x].grp = x)
    /\ RefsKept(x) \/ \E t \in Threads : Maintains(t)

LEMMA ChangesLists ==
  ASSUME ClientTypes, ClientLists, NEW a \in Conns, NEW b, Changes(a, b)
  PROVE  ClientLists' /\ cli' \in Client /\ cli'.acb = [cli.acb EXCEPT ![a] = b] /\ b \in ClientAcb
  <1>1. /\ DOMAIN cli.acb = Conns
        /\ \A g \in Conns : cli.grp[g].list \in Seq(Conns)
    BY DEF ClientTypes, Client, ClientGroup
  <1>2. Lists(cli.acb, cli.grp, Grouped)
    BY DEF ClientLists
  <1>3. CASE /\ Becomes(cli, cli', a, b)
             /\ cli.acb[a].st \in Grouped <=> b.st \in Grouped
             /\ b.st \in Grouped => b.grp = cli.acb[a].grp
    <2>1. \A g \in Conns : a \in Members(cli.grp[g].list) =>
            b.grp = cli.acb[a].grp /\ b.st \in Grouped
      BY <1>2, <1>3 DEF Lists
    <2> DEFINE acb == cli.acb
               grp == cli.grp
               acb2 == cli'.acb
               grp2 == cli'.grp
    <2>2. Altered(acb, acb2, a, b) /\ grp2 = grp
      BY <1>1, <1>3 DEF Becomes, Altered
    <2>3. Lists(acb, grp, Grouped) /\ \A g \in Conns : grp[g].list \in Seq(Conns)
      BY <1>1, <1>2
    <2>4. \A g \in Conns : a \in Members(grp[g].list) => b.grp = acb[a].grp /\ b.st \in Grouped
      BY <2>1
    <2>5. \A g \in Conns : grp2[g].list = grp[g].list /\ (grp2[g].st = "ACTIVE" <=> grp[g].st = "ACTIVE")
      BY <2>2
    <2> HIDE DEF acb, grp, acb2, grp2
    <2>6. Lists(acb2, grp2, Grouped)
      BY <2>2, <2>3, <2>4, <2>5, ListsSame
    <2>7. QED
      BY <1>3, <2>6 DEF Becomes, ClientLists, acb2, grp2
  <1>4. CASE BecomesAlone(cli, cli', a, b)
    <2> DEFINE acb == cli.acb
               grp == cli.grp
               acb2 == cli'.acb
               grp2 == cli'.grp
    <2>1. Altered(acb, acb2, a, b)
      BY <1>1, <1>4 DEF BecomesAlone, Altered
    <2>2. Lists(acb, grp, Grouped) /\ \A g \in Conns : grp[g].list \in Seq(Conns)
      BY <1>1, <1>2
    <2>3. \A g \in Conns : /\ grp2[g].list = IF g = acb[a].grp THEN Without(grp[g].list, a)
                                                 ELSE grp[g].list
                           /\ grp2[g].st = "ACTIVE" <=> grp2[g].list # <<>>
      BY <1>4 DEF BecomesAlone, Leaves
    <2> HIDE DEF acb, grp, acb2, grp2
    <2>4. Lists(acb2, grp2, Grouped)
      BY <2>1, <2>2, <2>3, ListsRemoved
    <2>5. QED
      BY <1>4, <2>4 DEF BecomesAlone, ClientLists, acb2, grp2
  <1>5. CASE BecomesMember(cli, cli', a, b) /\ cli.acb[a].st = "INIT_WAIT"
    <2> DEFINE acb == cli.acb
               grp == cli.grp
               acb2 == cli'.acb
               grp2 == cli'.grp
               h == b.grp
    <2>1. Altered(acb, acb2, a, b) /\ h \in Conns /\ b.st \in Grouped
          /\ grp2[h].list = Append(grp[h].list, a) /\ grp2[h].st = "ACTIVE"
      BY <1>1, <1>5 DEF BecomesMember, Altered
    <2>2. \A g \in Conns : g # h => grp2[g].list = grp[g].list /\ grp2[g].st = grp[g].st
      BY <1>5 DEF BecomesMember
    <2>3. Lists(acb, grp, Grouped) /\ \A g \in Conns : grp[g].list \in Seq(Conns)
      BY <1>1, <1>2
    <2>4. \A g \in Conns : a \notin Members(grp[g].list)
      BY <1>5, <2>3 DEF Lists, Grouped
    <2> HIDE DEF acb, grp, acb2, grp2
    <2>5. Lists(acb2, grp2, Grouped)
      BY <2>1, <2>2, <2>3, <2>4, ListsAdded
    <2>6. QED
      BY <1>5, <2>5 DEF BecomesMember, ClientLists, acb2, grp2
  <1>6. QED
    BY <1>3, <1>4, <1>5 DEF Changes, Turns, AckTaken

LEMMA StillOnward == UNCHANGED cli => Onward
  BY DEF Onward, Ages, Stays, Stands, RefsKept

LEMMA ChangesOnward ==
  ASSUME ClientTypes, ClientLists, NEW a \in Conns, NEW b, Changes(a, b),
         cli'.acb = [cli.acb EXCEPT ![a] = b]
  PROVE  Onward
  <1>1. /\ DOMAIN cli.acb = Conns /\ cli \in Client
        /\ \A g \in Conns : cli.grp[g].list \in Seq(Conns)
    BY DEF ClientTypes, Client, ClientGroup
  <1>2. cli'.acb[a] = b /\ \A x \in Conns : x # a => cli'.acb[x] = cli.acb[x]
    BY <1>1
  <1>3. \A x \in Conns : Ages(x, cli.acb[x], cli'.acb[x])
    BY <1>2 DEF Changes, Turns, Ages
  <1>4. CASE /\ Becomes(cli, cli', a, b)
             /\ cli.acb[a].st \in Grouped <=> b.st \in Grouped
             /\ b.st \in Grouped => b.grp = cli.acb[a].grp
    <2>1. cli'.grp = cli.grp
      BY <1>4 DEF Becomes
    <2>2. \A x \in Conns : Stays(x)
      BY <1>2, <1>4, <2>1 DEF Stays
    <2>3. QED
      BY <1>3, <2>1, <2>2 DEF Onward, Stands, RefsKept
  <1>5. CASE BecomesAlone(cli, cli', a, b) /\ b.st \notin Grouped
    <2>1. \A g \in Conns : Stands(g) /\ RefsKept(g)
      BY <1>5 DEF BecomesAlone, Leaves, Stands, RefsKept
    <2>2. ASSUME NEW x \in Conns, cli'.acb[x].st \in Grouped, x \in Members(cli.grp[cli.acb[x].grp].list),
                 cli.acb[x].grp \in Conns
          PROVE  x \in Members(cli'.grp[cli.acb[x].grp].list)
      <3> DEFINE g == cli.acb[x].grp
                 l == cli.grp[g].list
      <3>1. x # a
        BY <1>2, <1>5, <2>2
      <3>2. l \in Seq(Conns) /\ NoDup(l) /\ x \in Members(l)
        BY <1>1, <2>2 DEF ClientLists, Lists
      <3>3. cli'.grp[g].list = Without(l, a) \/ cli'.grp[g].list = l
        BY <1>5, <2>2 DEF BecomesAlone, Leaves
      <3> HIDE DEF g, l
      <3>4. x \in Members(Without(l, a))
        BY <3>1, <3>2, WithoutList
      <3>5. QED
        BY <3>2, <3>3, <3>4 DEF g
    <2>3. \A x \in Conns : Stays(x)
      BY <1>2, <1>5, <2>2 DEF Stays
    <2>4. QED
      BY <1>3, <2>1, <2>3 DEF Onward
  <1>6. CASE AckTaken(cli, cli', a, b)
    <2> DEFINE h == b.grp
    <2>1. /\ h \in Conns /\ cli'.grp[h].list = Append(cli.grp[h].list, a)
          /\ \A g \in Conns : g # h => cli'.grp[g] = cli.grp[g]
      BY <1>6 DEF AckTaken, BecomesMember
    <2>2. cli.grp[h].list \in Seq(Conns) /\ NoDup(cli.grp[h].list) /\ a \notin Members(cli.grp[h].list)
      BY <1>1, <1>6, <2>1 DEF ClientLists, Lists, AckTaken, Grouped
    <2>3. \A x : x \in Members(cli'.grp[h].list) <=> x \in Members(cli.grp[h].list) \/ x = a
      BY <2>1, <2>2, AppendList
    <2>4. Joined(a)
      BY <1>2, <1>6, <2>1, <2>3 DEF Joined, AckTaken
    <2>5. ASSUME NEW x \in Conns, x # a PROVE Stays(x)
      BY <1>2, <2>1, <2>3, <2>5 DEF Stays
    <2>6. ASSUME NEW x \in Conns PROVE Stands(x) \/ (Joined(x) /\ cli'.acb[x].grp = x)
      BY <1>2, <1>6, <2>1, <2>4 DEF Stands, AckTaken
    <2>7. \A x \in Conns : RefsKept(x)
      BY <1>6, <2>1 DEF RefsKept, AckTaken
    <2>8. QED
      BY <1>3, <2>4, <2>5, <2>6, <2>7 DEF Onward
  <1>7. QED
    BY <1>4, <1>5, <1>6 DEF Changes, Turns

\* The caller t comes to be as r.
Moves(t, r) == thr' = [thr EXCEPT ![t] = r]

\* A step of one caller at one association, which nobody else has
LEMMA CallerStep ==
  ASSUME ClientInv, NEW t \in Threads, NEW a \in Conns, NEW b, Changes(a, b),
         NEW r \in Caller, Moves(t, r),
         thr[t].a \in {0, a}, r.a \in {0, a}, r.a = 0 <=> r.pc \in Unheld,
         \A u \in Threads : thr[u].a = a => u = t,
         r.a = a => CallerOK(r, b),
         r.a = a => AcbOK(b, 1), r.a = 0 => AcbOK(b, 0)
  PROVE  CallerInv' /\ AcbInv' /\ ClientLists' /\ Onward /\ cli' \in Client /\ thr' \in [Threads -> Caller]
  <1>1. /\ ClientLists' /\ cli' \in Client
        /\ cli'.acb = [cli.acb EXCEPT ![a] = b]
    BY ChangesLists DEF ClientInv
  <1>2. thr \in [Threads -> Caller]
    BY DEF ClientInv, ClientTypes
  <1>3. thr'[t] = r /\ \A u \in Threads : u # t => thr'[u] = thr[u]
    BY <1>2 DEF Moves
  <1>4. \A u \in Threads : thr'[u].a = a <=> u = t /\ r.a = a
    BY <1>3
  <1>5. Held(a)' = IF r.a = a THEN 1 ELSE 0
    BY <1>4 DEF Held
  <1>6. \A u \in Threads : \/ thr'[u].a = thr[u].a /\ thr'[u].pc = thr[u].pc
                           \/ thr[u].a \in {0, a} /\ thr'[u].a \in {0, a}
    BY <1>3
  <1>7. \A u \in Threads : thr'[u].a = 0 <=> thr'[u].pc \in Unheld
    BY <1>3 DEF ClientInv, CallerInv
  <1>8. \A u \in Threads : thr'[u].a = a => CallerOK(thr'[u], b)
    BY <1>3, <1>4
  <1>9. \A u, v \in Threads : thr'[u].a = a /\ thr'[v].a = a => u = v
    BY <1>4
  <1>10. AcbOK(b, Held(a)')
    <2>1. CASE r.a = a
      BY <1>5, <2>1
    <2>2. CASE r.a # a
      BY <1>5, <2>2
    <2>3. QED
      BY <2>1, <2>2
  <1>11. CallerInv' /\ AcbInv'
    <2>1. ClientTypes /\ CallerInv /\ AcbInv
      BY DEF ClientInv
    <2>2. QED
      BY <1>1, <1>6, <1>7, <1>8, <1>9, <1>10, <2>1, AcbStep
  <1>12. thr' \in [Threads -> Caller]
    BY <1>2 DEF Moves
  <1>13. QED
    BY <1>1, <1>11, <1>12, ChangesOnward DEF ClientInv

\* A step of the receiver or the timer at one association; callers that wait may go on.
LEMMA ReceiverStep ==
  ASSUME ClientInv, NEW a \in Conns, NEW b, Changes(a, b),
         thr' \in [Threads -> Caller],
         \A t \in Threads : /\ thr'[t].a = thr[t].a
                            /\ thr'[t].pc = thr[t].pc \/ (thr[t].pc = "wait" /\ thr'[t].pc = "reply"),
         \A t \in Threads : thr[t].a = a => CallerOK(thr[t], b),
         AcbOK(b, Held(a))
  PROVE  CallerInv' /\ AcbInv' /\ ClientLists' /\ Onward /\ cli' \in Client
  <1>1. /\ ClientLists' /\ cli' \in Client
        /\ cli'.acb = [cli.acb EXCEPT ![a] = b]
    BY ChangesLists DEF ClientInv
  <1>2. cli'.acb[a] = b /\ \A x \in Conns : x # a => cli'.acb[x] = cli.acb[x]
    BY <1>1 DEF ClientInv, ClientTypes, Client
  <1>3. \A x \in Conns : Held(x)' = Held(x)
    BY DEF Held
  <1>4. AcbInv'
    BY <1>2, <1>3 DEF AcbInv, ClientInv
  <1>5. ASSUME NEW t \in Threads, thr'[t].a # 0
        PROVE  CallerOK(thr'[t], cli'.acb[thr'[t].a])
    <2>1. thr[t].a \in Conns /\ thr[t].a # 0
      BY <1>5 DEF ClientInv, ClientTypes, Caller, Conns
    <2>2. CallerOK(thr[t], cli'.acb[thr[t].a])
      BY <1>2, <2>1 DEF ClientInv, CallerInv
    <2>3. QED
      BY <2>2 DEF CallerOK
  <1>6. \A t \in Threads : thr'[t].a = 0 <=> thr'[t].pc \in Unheld
    BY DEF ClientInv, CallerInv, Unheld
  <1>7. \A t, u \in Threads : thr'[t].a = thr'[u].a /\ thr'[t].a # 0 => t = u
    BY DEF ClientInv, CallerInv
  <1>8. Onward
    BY <1>1, ChangesOnward DEF ClientInv
  <1>9. QED
    BY <1>1, <1>4, <1>5, <1>6, <1>7, <1>8 DEF CallerInv

\* A step of a caller that has no association, to where it has none either
LEMMA UnheldStep ==
  ASSUME ClientInv, NEW t \in Threads, UNCHANGED cli,
         NEW r \in Caller, Moves(t, r),
         thr[t].a = 0, r.a = 0, r.pc \in Unheld
  PROVE  CallerInv' /\ AcbInv' /\ ClientLists' /\ Onward /\ cli' \in Client /\ thr' \in [Threads -> Caller]
  <1>1. thr \in [Threads -> Caller] /\ cli \in Client
    BY DEF ClientInv, ClientTypes
  <1>2. thr'[t] = r /\ \A u \in Threads : u # t => thr'[u] = thr[u]
    BY <1>1 DEF Moves
  <1>3. \A x \in Conns : Held(x)' = Held(x)
    BY <1>2 DEF Held
  <1>4. AcbInv'
    BY <1>3 DEF AcbInv, ClientInv
  <1>5. CallerInv'
    <2>1. CallerInv
      BY DEF ClientInv
    <2>2. \A u \in Threads : thr'[u].a = thr[u].a
      BY <1>2
    <2>3. \A u \in Threads : thr'[u].a # 0 => thr'[u] = thr[u]
      BY <1>2
    <2>4. \A u \in Threads : thr'[u].a = 0 <=> thr'[u].pc \in Unheld
      BY <1>2, <2>1 DEF CallerInv
    <2>5. QED
      BY <2>1, <2>2, <2>3, <2>4 DEF CallerInv
  <1>6. QED
    BY <1>1, <1>4, <1>5, StillOnward DEF ClientInv, ClientLists, Moves

-----------------------------------------------------------------------------
(* What is known where a step is taken *)

\* A reference less, by somebody who had one
LEMMA AfterDeallocOK ==
  ASSUME NEW b \in ClientAcb, NEW n \in Nat, AcbOK(b, n + 1)
  PROVE  /\ AfterDealloc(b) \in ClientAcb /\ AcbOK(AfterDealloc(b), n)
         /\ n > 0 \/ b.rx = "recv" => AfterDealloc(b) = [b EXCEPT !.ref = b.ref - 1]
         /\ b.st \in Grouped => AfterDealloc(b).st = b.st /\ AfterDealloc(b).grp = b.grp
         /\ AfterDealloc(b).life = "new" => b.life = "new"
         /\ Young(AfterDealloc(b)) => Young(b)
         /\ AfterDealloc(b).st \in {b.st, "CLOSED"}
  <1>1. b.ref = n + 1 + Receiving(b) /\ Receiving(b) \in {0, 1}
        /\ (b.rx = "recv" <=> Receiving(b) = 1)
    BY DEF AcbOK, Receiving
  <1>2. CASE b.ref > 1
    <2> DEFINE d == [b EXCEPT !.ref = b.ref - 1]
    <2>1. AfterDealloc(b) = d
      BY <1>2 DEF AfterDealloc
    <2>2. d \in ClientAcb /\ d.ref = b.ref - 1 /\ d.life = b.life /\ d.st = b.st /\ d.rx = b.rx
          /\ d.cancel = b.cancel /\ d.cn = b.cn /\ d.grp = b.grp /\ d.ok = b.ok
      BY <1>1, <1>2 DEF ClientAcb
    <2>3. Receiving(d) = Receiving(b)
      BY <2>2 DEF Receiving
    <2> HIDE DEF d
    <2>4. AcbOK(d, n)
      BY <1>1, <1>2, <2>2, <2>3 DEF AcbOK
    <2>5. QED
      BY <2>1, <2>2, <2>4 DEF d, Young
  <1>3. CASE ~(b.ref > 1)
    <2> DEFINE d == [NewAcb EXCEPT !.life = "freed"]
    <2>1. AfterDealloc(b) = d
      BY <1>3 DEF AfterDealloc
    <2>2. d \in ClientAcb
      BY NewAcbType
    <2>3. n = 0 /\ b.rx # "recv" /\ b.st \notin Grouped
      BY <1>1, <1>3 DEF AcbOK
    <2>4. d.ref = 0 /\ d.rx = "idle" /\ d.st = "CLOSED" /\ d.life = "freed" /\ d.cn = "CLOSED"
      BY DEF NewAcb
    <2> HIDE DEF d
    <2>5. AcbOK(d, n)
      BY <2>3, <2>4 DEF AcbOK, Grouped, Receiving
    <2>6. QED
      BY <2>1, <2>2, <2>3, <2>4, <2>5 DEF Young
  <1>4. QED
    BY <1>2, <1>3

\* A caller is alone at its association, and has it counted.
LEMMA Holder ==
  ASSUME ClientInv, NEW t \in Threads, thr[t].pc \notin Unheld
  PROVE  /\ thr[t] \in Caller /\ thr[t].a \in Conns /\ thr[t].a # 0
         /\ cli.acb[thr[t].a] \in ClientAcb
         /\ CallerOK(thr[t], cli.acb[thr[t].a]) /\ AcbOK(cli.acb[thr[t].a], 1)
         /\ \A u \in Threads : thr[u].a = thr[t].a => u = t
  <1>1. thr[t] \in Caller /\ thr[t].a # 0
    BY DEF ClientInv, ClientTypes, CallerInv
  <1>2. thr[t].a \in Conns
    BY <1>1 DEF Caller, Conns
  <1>3. Held(thr[t].a) = 1
    BY DEF Held
  <1>4. cli.acb[thr[t].a] \in ClientAcb /\ AcbOK(cli.acb[thr[t].a], 1)
    <2>1. AcbOK(cli.acb[thr[t].a], Held(thr[t].a))
      BY <1>2 DEF ClientInv, AcbInv
    <2>2. QED
      BY <1>2, <1>3, <2>1 DEF ClientInv, ClientTypes, Client
  <1>5. QED
    BY <1>1, <1>2, <1>4 DEF ClientInv, CallerInv

\* An association without users, or without references, has no caller.
LEMMA Nobody ==
  ASSUME ClientInv, NEW a \in Conns, cli.acb[a].users = 0 \/ cli.acb[a].life # "live"
  PROVE  Held(a) = 0 /\ \A t \in Threads : thr[t].a # a
  <1>1. ASSUME NEW t \in Threads, thr[t].a = a PROVE FALSE
    <2>1. thr[t].pc \notin Unheld
      BY <1>1 DEF ClientInv, CallerInv, Conns
    <2>2. CallerOK(thr[t], cli.acb[a]) /\ AcbOK(cli.acb[a], 1) /\ cli.acb[a] \in ClientAcb
      BY <1>1, <2>1, Holder
    <2>3. cli.acb[a].users > 0
      BY <2>2 DEF CallerOK
    <2>4. cli.acb[a].ref > 0
      BY <2>2 DEF AcbOK, Receiving
    <2>5. cli.acb[a].life = "live"
      BY <2>2, <2>4 DEF AcbOK
    <2>6. QED
      BY <2>3, <2>5
  <1>2. QED
    BY <1>1 DEF Held

\* The members of a group's list
LEMMA Member ==
  ASSUME ClientInv, NEW g \in Conns, NEW a \in Members(cli.grp[g].list)
  PROVE  /\ a \in Conns /\ cli.acb[a] \in ClientAcb
         /\ cli.acb[a].grp = g /\ cli.acb[a].st \in Grouped
         /\ AcbOK(cli.acb[a], Held(a))
  <1>1. cli.grp[g].list \in Seq(Conns)
    BY DEF ClientInv, ClientTypes, Client, ClientGroup
  <1>2. a \in Conns
    BY <1>1, MembersInConns
  <1>3. QED
    BY <1>2 DEF ClientInv, ClientTypes, Client, ClientLists, Lists, AcbInv

-----------------------------------------------------------------------------
(* The actions of rpc__cn_assoc_request *)

LEMMA CallersApart ==
  ASSUME ClientInv, NEW t \in Threads,
         Begin(t) \/ WaitForCreator(t) \/ WaitAbandoned(t) \/ Slept(t)
  PROVE  ClientInv' /\ Onward
  <1>1. thr \in [Threads -> Caller] /\ thr[t] \in Caller /\ cli \in Client /\ calls \in 0..MaxCalls
    BY DEF ClientInv, ClientTypes
  <1>2. 0 \in 0..MaxCalls /\ 0 \in 0..MaxConns
    BY BindAssumption
  <1>3. thr[t].pc \in Unheld => thr[t].a = 0
    BY DEF ClientInv, CallerInv
  <1>4. IdleThread \in Caller /\ IdleThread.a = 0 /\ IdleThread.pc \in Unheld
    BY <1>2 DEF IdleThread, Caller, Unheld
  <1>5. CASE Begin(t)
    <2> DEFINE r == [IdleThread EXCEPT !.pc = "request", !.call = calls + 1]
    <2>1. calls + 1 \in 0..MaxCalls
      BY <1>1, <1>5, BindAssumption DEF Begin
    <2>2. r \in Caller /\ r.a = 0 /\ r.pc \in Unheld
      BY <1>2, <2>1 DEF IdleThread, Caller, Unheld
    <2>3. /\ thr' = [thr EXCEPT ![t] = r] /\ thr[t].pc = "idle" /\ UNCHANGED <<cli, net>>
          /\ calls' = calls + 1
      BY <1>5 DEF Begin
    <2> HIDE DEF r
    <2>4. CallerInv' /\ AcbInv' /\ ClientLists' /\ Onward /\ cli' \in Client /\ thr' \in [Threads -> Caller]
      BY <1>3, <2>2, <2>3, UnheldStep DEF Unheld, Moves
    <2>5. QED
      BY <2>1, <2>3, <2>4 DEF ClientInv, ClientTypes, NetTypes
  <1>6. CASE WaitForCreator(t)
    <2> DEFINE r == [thr[t] EXCEPT !.pc = "grpwait"]
    <2>1. /\ thr' = [thr EXCEPT ![t] = r] /\ thr[t].pc = "request" /\ UNCHANGED <<cli, net, calls>>
      BY <1>6 DEF WaitForCreator
    <2>2. r \in Caller /\ r.a = 0 /\ r.pc \in Unheld
      BY <1>1, <1>3, <2>1 DEF Caller, Unheld
    <2> HIDE DEF r
    <2>3. CallerInv' /\ AcbInv' /\ ClientLists' /\ Onward /\ cli' \in Client /\ thr' \in [Threads -> Caller]
      BY <1>3, <2>2, <2>1, UnheldStep DEF Unheld, Moves
    <2>4. QED
      BY <2>1, <2>3 DEF ClientInv, ClientTypes, NetTypes
  <1>7. CASE WaitAbandoned(t)
    <2>1. /\ thr' = [thr EXCEPT ![t] = IdleThread] /\ thr[t].pc \in Unheld
          /\ UNCHANGED <<cli, net, calls>>
      BY <1>7 DEF WaitAbandoned, Abandons, Unheld
    <2>2. CallerInv' /\ AcbInv' /\ ClientLists' /\ Onward /\ cli' \in Client /\ thr' \in [Threads -> Caller]
      BY <1>3, <1>4, <2>1, UnheldStep DEF Moves
    <2>3. QED
      BY <2>1, <2>2 DEF ClientInv, ClientTypes, NetTypes
  <1>8. CASE Slept(t)
    <2> DEFINE r == [thr[t] EXCEPT !.pc = "request"]
    <2>1. /\ thr' = [thr EXCEPT ![t] = r] /\ thr[t].pc = "sleep" /\ UNCHANGED <<cli, net, calls>>
      BY <1>8 DEF Slept
    <2>2. r \in Caller /\ r.a = 0 /\ r.pc \in Unheld
      BY <1>1, <1>3, <2>1 DEF Caller, Unheld
    <2> HIDE DEF r
    <2>3. CallerInv' /\ AcbInv' /\ ClientLists' /\ Onward /\ cli' \in Client /\ thr' \in [Threads -> Caller]
      BY <1>3, <2>2, <2>1, UnheldStep DEF Unheld, Moves
    <2>4. QED
      BY <2>1, <2>3 DEF ClientInv, ClientTypes, NetTypes
  <1>9. QED
    BY <1>5, <1>6, <1>7, <1>8

\* rpc__cn_assoc_grp_lkup_by_addr finds an association that nobody uses.
LEMMA ReuseKeeps ==
  ASSUME ClientInv, NEW t \in Threads, Reuse(t)
  PROVE  ClientInv' /\ Onward
  <1>1. PICK g \in Active(cli) : \E i \in Free(g) :
          /\ cli' = Allocate(cli, cli.grp[g].list[i], t)
          /\ thr' = [thr EXCEPT ![t] = [@ EXCEPT !.pc = "call", !.a = cli.grp[g].list[i], !.grp = g]]
    BY DEF Reuse
  <1>2. PICK i \in Free(g) :
          /\ cli' = Allocate(cli, cli.grp[g].list[i], t)
          /\ thr' = [thr EXCEPT ![t] = [@ EXCEPT !.pc = "call", !.a = cli.grp[g].list[i], !.grp = g]]
    BY <1>1
  <1> DEFINE a == cli.grp[g].list[i]
             b == cli.acb[a]
             b2 == [b EXCEPT !.ref = b.ref + 1, !.users = b.users + 1, !.st = "ACTIVE", !.owner = {t}]
             r == [thr[t] EXCEPT !.pc = "call", !.a = a, !.grp = g]
  <1>3. g \in Conns /\ a \in Members(cli.grp[g].list) /\ b.users = 0
    BY DEF Active, Free, Members
  <1> HIDE DEF a
  <1>4. a \in Conns /\ b \in ClientAcb /\ b.st \in Grouped /\ AcbOK(b, 0)
        /\ \A u \in Threads : thr[u].a # a
    BY <1>3, Member, Nobody
  <1>5. thr[t] \in Caller /\ thr[t].a = 0 /\ cli \in Client /\ UNCHANGED <<net, calls>>
    BY DEF ClientInv, ClientTypes, CallerInv, Reuse, AtRequest, Unheld
  <1>6. b2 \in ClientAcb /\ b2.st = "ACTIVE" /\ b2.grp = b.grp /\ b2.users = b.users + 1
        /\ b2.ref = b.ref + 1 /\ b2.rx = b.rx /\ b2.cancel = b.cancel /\ b2.cn = b.cn
        /\ b2.life = b.life
    <2>1. b \in ClientAcb
      BY <1>4
    <2> HIDE DEF b
    <2>2. b.ref + 1 \in Nat /\ b.users + 1 \in Nat /\ {t} \in SUBSET Threads
      BY <2>1 DEF ClientAcb
    <2>3. b2 \in ClientAcb
      BY <2>1, <2>2 DEF ClientAcb
    <2>4. QED
      BY <2>1, <2>3 DEF ClientAcb
  <1>7. cli' = [cli EXCEPT !.acb[a] = b2] /\ thr' = [thr EXCEPT ![t] = r]
    BY <1>2 DEF Allocate, a
  <1>8. b.users = 0 /\ b.ref \in Nat
    BY <1>3, <1>4 DEF ClientAcb
  <1> HIDE DEF b2
  <1>9. Changes(a, b2)
    <2>1. Becomes(cli, cli', a, b2)
      BY <1>4, <1>5, <1>6, <1>7, AcbExcept
    <2>2. QED
      BY <1>4, <1>6, <2>1 DEF Changes, Turns, Grouped, Ages, Young
  <1>10. r \in Caller /\ r.a = a /\ r.pc = "call" /\ a # 0
    <2>1. a \in 0..MaxConns /\ g \in 0..MaxConns
      BY <1>3, <1>4 DEF Conns
    <2>2. QED
      BY <1>4, <1>5, <2>1 DEF Caller, Conns
  <1> HIDE DEF b, r
  <1>11. AcbOK(b2, 1)
    <2>1. b.rx = "recv" /\ b.life = "live" /\ b.ref = 1 /\ ~b.cancel
      BY <1>4 DEF AcbOK, Receiving
    <2>2. b2.ref = 2 /\ b2.rx = "recv" /\ b2.life = "live" /\ ~b2.cancel
      BY <1>6, <2>1
    <2>3. QED
      BY <1>6, <2>2 DEF AcbOK, Receiving
  <1>12. CallerOK(r, b2)
    BY <1>6, <1>8, <1>10 DEF CallerOK
  <1>13. CallerInv' /\ AcbInv' /\ ClientLists' /\ Onward /\ cli' \in Client /\ thr' \in [Threads -> Caller]
    <2>1. Moves(t, r) /\ thr[t].a \in {0, a} /\ r.a \in {0, a} /\ (r.a = 0 <=> r.pc \in Unheld)
          /\ \A u \in Threads : thr[u].a = a => u = t
      BY <1>4, <1>5, <1>7, <1>10 DEF Unheld, Moves
    <2>2. r \in Caller /\ (r.a = a => CallerOK(r, b2) /\ AcbOK(b2, 1)) /\ (r.a = 0 => AcbOK(b2, 0))
      BY <1>10, <1>11, <1>12
    <2>3. QED
      BY <1>4, <1>9, <2>1, <2>2, CallerStep
  <1>14. QED
    BY <1>5, <1>13 DEF ClientInv, ClientTypes, NetTypes

\* rpc__cn_assoc_open up to the connect
LEMMA ConnectingKeeps ==
  ASSUME ClientInv, NEW t \in Threads, NEW hold \in BOOLEAN, NEW remid \in 0..MaxConns,
         AtRequest(t), Connecting(t, hold, remid)
  PROVE  ClientInv' /\ Onward
  <1>1. PICK a \in Unused :
          /\ cli' = Opened(cli, a, t)
          /\ thr' = [thr EXCEPT ![t] = [thr[t] EXCEPT !.pc = "connect", !.a = a,
                                                      !.grp = remid, !.hold = @ \/ hold]]
    BY DEF Connecting
  <1> DEFINE b == cli.acb[a]
             b2 == [NewAcb EXCEPT !.life = "live", !.cn = "CONNECTING", !.ref = 1,
                                  !.users = 1, !.owner = {t}]
             r == [thr[t] EXCEPT !.pc = "connect", !.a = a, !.grp = remid, !.hold = @ \/ hold]
  <1>2. a \in Conns /\ b.life = "new"
    BY DEF Unused
  <1>3. b \in ClientAcb /\ AcbOK(b, 0) /\ \A u \in Threads : thr[u].a # a
    <2>1. Held(a) = 0 /\ \A u \in Threads : thr[u].a # a
      BY <1>2, Nobody
    <2>2. QED
      BY <1>2, <2>1 DEF ClientInv, ClientTypes, Client, AcbInv
  <1>4. b.st \notin Grouped
    BY <1>2, <1>3 DEF AcbOK, Receiving
  <1>5. thr[t] \in Caller /\ thr[t].a = 0 /\ cli \in Client /\ UNCHANGED <<net, calls>>
    BY DEF ClientInv, ClientTypes, CallerInv, Connecting, AtRequest, Unheld
  <1>6. b2 \in ClientAcb /\ b2.life = "live" /\ b2.st = "CLOSED" /\ b2.cn = "CONNECTING"
        /\ b2.ref = 1 /\ b2.users = 1 /\ b2.rx = "idle" /\ ~b2.syn /\ ~b2.cancel
        /\ b2.ok
    <2>1. {t} \in SUBSET Threads /\ 1 \in Nat
      OBVIOUS
    <2>2. NewAcb \in ClientAcb
      BY NewAcbType
    <2>3. QED
      BY <2>1, <2>2 DEF NewAcb, ClientAcb
  <1>7. cli' = [cli EXCEPT !.acb[a] = b2] /\ thr' = [thr EXCEPT ![t] = r]
    BY <1>1 DEF Opened
  <1> HIDE DEF b, b2
  <1>8. Changes(a, b2)
    <2>1. Becomes(cli, cli', a, b2)
      BY <1>2, <1>5, <1>6, <1>7, AcbExcept
    <2>2. QED
      BY <1>2, <1>4, <1>6, <2>1 DEF Changes, Turns, b, Ages, Young, Grouped
  <1>9. r \in Caller /\ r.a = a /\ r.pc = "connect" /\ a # 0
    <2>1. a \in 0..MaxConns /\ a # 0
      BY <1>2 DEF Conns
    <2>2. QED
      BY <1>5, <2>1 DEF Caller
  <1> HIDE DEF r
  <1>10. AcbOK(b2, 1)
    BY <1>6 DEF AcbOK, Receiving, Grouped
  <1>11. CallerOK(r, b2)
    BY <1>6, <1>9 DEF CallerOK
  <1>12. CallerInv' /\ AcbInv' /\ ClientLists' /\ Onward /\ cli' \in Client /\ thr' \in [Threads -> Caller]
    <2>1. Moves(t, r) /\ thr[t].a \in {0, a} /\ r.a \in {0, a} /\ (r.a = 0 <=> r.pc \in Unheld)
          /\ \A u \in Threads : thr[u].a = a => u = t
      BY <1>3, <1>5, <1>7, <1>9 DEF Unheld, Moves
    <2>2. r \in Caller /\ (r.a = a => CallerOK(r, b2) /\ AcbOK(b2, 1)) /\ (r.a = 0 => AcbOK(b2, 0))
      BY <1>9, <1>10, <1>11
    <2>3. QED
      BY <1>2, <1>8, <2>1, <2>2, CallerStep
  <1>13. QED
    BY <1>5, <1>12 DEF ClientInv, ClientTypes, NetTypes

LEMMA OpensKeep ==
  ASSUME ClientInv, NEW t \in Threads, OpenFirst(t) \/ OpenSecond(t)
  PROVE  ClientInv' /\ Onward
  <1>1. CASE OpenFirst(t)
    <2>1. AtRequest(t) /\ Connecting(t, TRUE, 0)
      BY <1>1 DEF OpenFirst
    <2>2. 0 \in 0..MaxConns
      BY BindAssumption
    <2>3. QED
      BY <2>1, <2>2, ConnectingKeeps
  <1>2. CASE OpenSecond(t)
    <2>1. PICK g \in Active(cli) : Connecting(t, FALSE, cli.grp[g].remid)
      BY <1>2 DEF OpenSecond
    <2>2. AtRequest(t) /\ cli.grp[g].remid \in 0..MaxConns
      BY <1>2 DEF OpenSecond, Active, ClientInv, ClientTypes, Client, ClientGroup
    <2>3. QED
      BY <2>1, <2>2, ConnectingKeeps
  <1>3. QED
    BY <1>1, <1>2

\* The association is given up; c and b are what the error has made of it before.
LEMMA OpenFailsKeeps ==
  ASSUME ClientInv, NEW t \in Threads, thr[t].pc \in {"connect", "bindwait"},
         NEW c, NEW retry \in BOOLEAN, NEW b,
         Becomes(cli, c, thr[t].a, b), AcbOK(b, 1),
         b.users = cli.acb[thr[t].a].users, Ages(thr[t].a, cli.acb[thr[t].a], b),
         cli.acb[thr[t].a].st \in Grouped <=> b.st \in Grouped,
         b.st \in Grouped => b.grp = cli.acb[thr[t].a].grp,
         OpenFails(t, c, retry), UNCHANGED <<net, calls>>
  PROVE  ClientInv' /\ Onward
  <1> DEFINE a == thr[t].a
             b0 == cli.acb[a]
             b1 == [b EXCEPT !.users = b.users - 1]
             d1 == [Uncount(c, a) EXCEPT !.acb[a].ref = @ + 1]
             b2 == AfterDealloc(b1)
  <1>1. thr[t] \in Caller /\ a \in Conns /\ a # 0 /\ CallerOK(thr[t], b0)
        /\ \A u \in Threads : thr[u].a = a => u = t
    BY Holder DEF Unheld
  <1>2. cli \in Client /\ c \in Client /\ b \in ClientAcb /\ c.acb[a] = b
    BY <1>1 DEF ClientInv, ClientTypes, Becomes, Client
  <1>3. b.users > 0 /\ b.users \in Nat /\ b.ref \in Nat /\ b.ref > 0
    BY <1>1, <1>2 DEF CallerOK, ClientAcb, AcbOK, Receiving
  <1> HIDE DEF b0
  <1>4. b1 \in ClientAcb /\ b1.ref = b.ref /\ b1.life = b.life /\ b1.st = b.st /\ b1.rx = b.rx
        /\ b1.cancel = b.cancel /\ b1.cn = b.cn /\ b1.grp = b.grp /\ b1.ok = b.ok
    <2>1. b.users - 1 \in Nat
      BY <1>3
    <2>2. QED
      BY <1>2, <2>1 DEF ClientAcb
  <1>5. Becomes(c, d1, a, b1)
    <2>1. d1 = [c EXCEPT !.acb[a] = b1]
      <3> DEFINE e == [b EXCEPT !.ref = b.ref - 1, !.users = b.users - 1]
      <3>1. Uncount(c, a) = [c EXCEPT !.acb[a] = e]
        BY <1>2 DEF Uncount
      <3>2. [e EXCEPT !.ref = e.ref + 1] = b1
        <4>1. e.ref + 1 = b.ref
          BY <1>2, <1>3 DEF ClientAcb
        <4>2. QED
          BY <1>2, <4>1 DEF ClientAcb
      <3> HIDE DEF e, b1
      <3>3. d1 = [c EXCEPT !.acb[a] = [e EXCEPT !.ref = e.ref + 1]]
        BY <1>1, <1>2, <3>1, ZenonT(60) DEF Client
      <3>4. QED
        BY <3>2, <3>3
    <2> HIDE DEF b1, d1, a
    <2>2. QED
      BY <1>1, <1>2, <1>4, <2>1, AcbExcept
  <1>6. d1 \in Client /\ d1.acb[a] = b1
    BY <1>1, <1>2, <1>5 DEF Becomes, Client
  <1>7. AcbOK(b1, 0 + 1)
    <2>1. Receiving(b1) = Receiving(b)
      BY <1>4 DEF Receiving
    <2> HIDE DEF b1
    <2>2. QED
      BY <1>4, <2>1 DEF AcbOK
  <1> HIDE DEF d1, b1, a
  <1>8. b2 \in ClientAcb /\ AcbOK(b2, 0) /\ (b2.life = "new" => b1.life = "new")
        /\ (b1.st \in Grouped => b2.st = b1.st /\ b2.grp = b1.grp)
        /\ (Young(b2) => Young(b1)) /\ b2.st \in {b1.st, "CLOSED"}
    BY <1>4, <1>7, AfterDeallocOK
  <1>9. cli' = DeallocAcb(d1, a)
    BY DEF OpenFails, d1, a
  <1>10. Becomes(d1, cli', a, b2)
    BY <1>1, <1>6, <1>9, DeallocAcbShape
  <1> HIDE DEF b2
  <1>11. Becomes(cli, cli', a, b2)
    <2>1. Becomes(cli, c, a, b)
      BY DEF a
    <2>2. Becomes(cli, d1, a, b1)
      BY <1>1, <1>2, <1>5, <2>1, BecomesTwice
    <2>3. QED
      BY <1>1, <1>2, <1>10, <2>2, BecomesTwice
  <1>12. Changes(a, b2)
    <2>1. Ages(a, cli.acb[a], b2)
      BY <1>4, <1>8 DEF Ages, Young, a
    <2>2. /\ cli.acb[a].st \in Grouped <=> b2.st \in Grouped
          /\ b2.st \in Grouped => b2.grp = cli.acb[a].grp
      BY <1>4, <1>8 DEF Grouped, a
    <2>3. QED
      BY <1>11, <2>1, <2>2 DEF Changes, Turns
  <1>13. PICK r \in Caller : Moves(t, r) /\ r.a = 0 /\ r.pc \in Unheld
    <2>1. IdleThread \in Caller /\ IdleThread.a = 0 /\ IdleThread.pc \in Unheld
      BY BindAssumption DEF IdleThread, Caller, Unheld
    <2> DEFINE r == [thr[t] EXCEPT !.pc = "sleep", !.a = 0, !.grp = 0]
    <2>2. r \in Caller /\ r.a = 0 /\ r.pc \in Unheld
      <3>1. 0 \in 0..MaxConns /\ thr[t] \in Caller
        BY <1>1, BindAssumption
      <3>2. QED
        BY <3>1 DEF Caller, Unheld
    <2>3. Moves(t, r) \/ Moves(t, IdleThread)
      BY DEF OpenFails, Moves
    <2>4. QED
      BY <2>1, <2>2, <2>3
  <1>14. CallerInv' /\ AcbInv' /\ ClientLists' /\ Onward /\ cli' \in Client /\ thr' \in [Threads -> Caller]
    <2>1. thr[t].a \in {0, a} /\ r.a \in {0, a} /\ (r.a = 0 <=> r.pc \in Unheld)
      BY <1>13 DEF a
    <2>2. (r.a = a => CallerOK(r, b2) /\ AcbOK(b2, 1)) /\ (r.a = 0 => AcbOK(b2, 0))
      BY <1>1, <1>8, <1>13
    <2>3. QED
      BY <1>1, <1>12, <1>13, <2>1, <2>2, CallerStep
  <1>15. QED
    BY <1>14 DEF ClientInv, ClientTypes, NetTypes

\* Every way in which a call does not come to have an association
LEMMA FailuresKeep ==
  ASSUME ClientInv, NEW t \in Threads,
         \/ BindSendFails(t) \/ ConnectFails(t) \/ ConnectAbandoned(t)
         \/ BindAbandoned(t) \/ BindFails(t)
  PROVE  ClientInv' /\ Onward
  <1> DEFINE a == thr[t].a
             b0 == cli.acb[a]
  <1>1. thr[t].pc \in {"connect", "bindwait"} /\ UNCHANGED calls /\ UNCHANGED net
    BY DEF BindSendFails, ConnectFails, ConnectAbandoned, BindAbandoned, BindFails, Abandons
  <1>2. cli \in Client /\ a \in Conns /\ b0 \in ClientAcb /\ CallerOK(thr[t], b0) /\ AcbOK(b0, 1)
    <2>1. cli \in Client
      BY DEF ClientInv, ClientTypes
    <2>2. QED
      BY <1>1, <2>1, Holder DEF Unheld
  <1>3. ASSUME thr[t].pc = "connect", NEW c, NEW retry \in BOOLEAN, OpenFails(t, c, retry),
               NEW cn \in {"CLOSED", "CONNECTING", "OPEN"},
               c = [cli EXCEPT !.acb[a] = [b0 EXCEPT !.cn = cn, !.st = "CLOSED", !.ok = FALSE]]
        PROVE  ClientInv' /\ Onward
    <2> DEFINE b == [b0 EXCEPT !.cn = cn, !.st = "CLOSED", !.ok = FALSE]
    <2>1. b0.st = "CLOSED" /\ b0.cn = "CONNECTING"
      BY <1>2, <1>3 DEF CallerOK
    <2> HIDE DEF b0
    <2>2. b \in ClientAcb /\ b.ref = b0.ref /\ b.users = b0.users /\ b.st = "CLOSED"
          /\ b.rx = b0.rx /\ b.life = b0.life /\ b.cancel = b0.cancel
      BY <1>2 DEF ClientAcb
    <2>3. Becomes(cli, c, a, b)
      BY <1>2, <1>3, <2>2, AcbExcept
    <2>4. AcbOK(b, 1)
      <3>1. Receiving(b) = Receiving(b0) /\ b0.ref > 0
        BY <1>2, <2>2 DEF Receiving, AcbOK
      <3> HIDE DEF b
      <3>2. b.st \notin Grouped
        BY <2>2 DEF Grouped
      <3>3. QED
        BY <1>2, <2>2, <3>1, <3>2 DEF AcbOK
    <2>5. b0.st \notin Grouped /\ b.st \notin Grouped /\ Ages(a, b0, b)
      BY <2>1, <2>2 DEF Grouped, Ages, Young
    <2> HIDE DEF b
    <2>6. QED
      BY <1>1, <1>3, <2>2, <2>3, <2>4, <2>5, OpenFailsKeeps DEF b0
  <1>4. ASSUME OpenFails(t, cli, FALSE)
        PROVE  ClientInv' /\ Onward
    <2>1. Becomes(cli, cli, a, b0)
      <3>1. cli.acb = [cli.acb EXCEPT ![a] = b0]
        BY <1>2 DEF Client
      <3>2. QED
        BY <1>2, <3>1 DEF Becomes
    <2>2. Ages(a, b0, b0)
      BY DEF Ages
    <2>3. QED
      BY <1>1, <1>2, <1>4, <2>1, <2>2, OpenFailsKeeps
  <1>5. CASE BindSendFails(t)
    <2> DEFINE c == MarkAssoc([cli EXCEPT !.acb[a].cn = "OPEN"], a, FALSE)
    <2>1. c = [cli EXCEPT !.acb[a] = [b0 EXCEPT !.cn = "OPEN", !.st = "CLOSED", !.ok = FALSE]]
      BY <1>2 DEF MarkAssoc, Client
    <2>2. thr[t].pc = "connect" /\ OpenFails(t, c, FALSE)
      BY <1>5 DEF BindSendFails
    <2> HIDE DEF c
    <2>3. QED
      BY <1>3, <2>1, <2>2
  <1>6. CASE ConnectFails(t)
    <2> DEFINE c == MarkAssoc([cli EXCEPT !.acb[thr[t].a].cn = "CLOSED"], thr[t].a, FALSE)
    <2>1. c = [cli EXCEPT !.acb[a] = [b0 EXCEPT !.cn = "CLOSED", !.st = "CLOSED", !.ok = FALSE]]
      BY <1>2 DEF MarkAssoc, Client
    <2>2. thr[t].pc = "connect" /\ OpenFails(t, c, TRUE)
      BY <1>6 DEF ConnectFails
    <2> HIDE DEF c
    <2>3. QED
      BY <1>3, <2>1, <2>2
  <1>7. CASE ConnectAbandoned(t)
    <2> DEFINE c == MarkAssoc(cli, thr[t].a, FALSE)
    <2>1. b0.cn \in {"CLOSED", "CONNECTING", "OPEN"}
      BY <1>2 DEF ClientAcb
    <2>2. c = [cli EXCEPT !.acb[a] = [b0 EXCEPT !.cn = b0.cn, !.st = "CLOSED", !.ok = FALSE]]
      <3>1. [b0 EXCEPT !.cn = b0.cn, !.st = "CLOSED", !.ok = FALSE]
              = [b0 EXCEPT !.st = "CLOSED", !.ok = FALSE]
        BY <1>2 DEF ClientAcb
      <3>2. c = [cli EXCEPT !.acb[a] = [b0 EXCEPT !.st = "CLOSED", !.ok = FALSE]]
        BY <1>2 DEF MarkAssoc, Client
      <3>3. QED
        BY <3>1, <3>2
    <2>3. thr[t].pc = "connect" /\ OpenFails(t, c, TRUE)
      BY <1>7 DEF ConnectAbandoned
    <2> HIDE DEF c
    <2>4. QED
      BY <1>3, <2>1, <2>2, <2>3
  <1>8. CASE BindAbandoned(t) \/ BindFails(t)
    BY <1>4, <1>8 DEF BindAbandoned, BindFails
  <1>9. QED
    BY <1>5, <1>6, <1>7, <1>8

\* The connection is made: the receiver is woken and the bind is sent.
LEMMA ConnectsKeeps ==
  ASSUME ClientInv, NEW t \in Threads, Connects(t)
  PROVE  ClientInv' /\ Onward
  <1> DEFINE a == thr[t].a
             b0 == cli.acb[a]
             b == [b0 EXCEPT !.cn = "OPEN", !.st = "INIT_WAIT"]
             r == [thr[t] EXCEPT !.pc = "bindwait"]
             n == [up |-> TRUE, c2s |-> <<Bind(thr[t].grp)>>, s2c |-> <<>>]
  <1>1. thr[t].pc = "connect" /\ cli' = [cli EXCEPT !.acb[a].cn = "OPEN", !.acb[a].st = "INIT_WAIT"]
        /\ thr' = [thr EXCEPT ![t] = r] /\ UNCHANGED calls /\ net' = [net EXCEPT ![a] = n]
    BY DEF Connects
  <1>2. /\ thr[t] \in Caller /\ a \in Conns /\ a # 0 /\ b0 \in ClientAcb
        /\ CallerOK(thr[t], b0) /\ AcbOK(b0, 1) /\ \A u \in Threads : thr[u].a = a => u = t
    BY <1>1, Holder DEF Unheld
  <1>3. cli \in Client /\ net \in [Conns -> Connection]
    BY DEF ClientInv, ClientTypes, NetTypes
  <1>4. cli' = [cli EXCEPT !.acb[a] = b]
    BY <1>1, <1>2, <1>3 DEF Client
  <1> HIDE DEF b0
  <1>5. b \in ClientAcb /\ b.ref = b0.ref /\ b.users = b0.users /\ b.st = "INIT_WAIT"
        /\ b.rx = b0.rx /\ b.life = b0.life /\ b.cancel = b0.cancel /\ b.syn = b0.syn
        /\ b.ok = b0.ok /\ b.cn = "OPEN"
    BY <1>2 DEF ClientAcb
  <1>6. b0.st = "CLOSED" /\ ~b0.syn /\ b0.users > 0 /\ b0.ok /\ b0.cn = "CONNECTING"
    BY <1>1, <1>2 DEF CallerOK
  <1>7. Changes(a, b)
    <2>1. Becomes(cli, cli', a, b)
      BY <1>2, <1>3, <1>4, <1>5, AcbExcept
    <2>2. QED
      <3>1. Called(a)
        BY DEF Called
      <3>2. Ages(a, b0, b)
        BY <1>5, <1>6, <3>1 DEF Ages, Young
      <3>3. QED
        BY <1>5, <1>6, <2>1, <3>2 DEF Changes, Turns, Grouped, b0
  <1> HIDE DEF b
  <1>8. AcbOK(b, 1)
    <2>1. Receiving(b) = Receiving(b0) /\ b0.ref > 0 /\ b.st \notin Grouped
      BY <1>2, <1>5 DEF Receiving, AcbOK, Grouped
    <2>2. QED
      BY <1>2, <1>5, <1>6, <2>1 DEF AcbOK
  <1>9. r \in Caller /\ r.a = a /\ r.pc = "bindwait"
    BY <1>2 DEF Caller
  <1> HIDE DEF r
  <1>10. CallerOK(r, b)
    BY <1>5, <1>6, <1>9 DEF CallerOK
  <1>11. CallerInv' /\ AcbInv' /\ ClientLists' /\ Onward /\ cli' \in Client /\ thr' \in [Threads -> Caller]
    <2>1. Moves(t, r) /\ thr[t].a \in {0, a} /\ r.a \in {0, a} /\ (r.a = 0 <=> r.pc \in Unheld)
      BY <1>1, <1>2, <1>9 DEF Unheld, Moves
    <2>2. r \in Caller /\ (r.a = a => CallerOK(r, b) /\ AcbOK(b, 1)) /\ (r.a = 0 => AcbOK(b, 0))
      BY <1>2, <1>8, <1>9, <1>10
    <2> HIDE DEF a
    <2>3. QED
      BY <1>2, <1>7, <2>1, <2>2, CallerStep
  <1>12. NetTypes'
    <2>1. thr[t].grp \in 0..MaxConns /\ 0 \in 0..MaxCalls
      BY <1>2, BindAssumption DEF Caller
    <2>2. Bind(thr[t].grp) \in ClientPacket
      BY <2>1 DEF Bind, Message, ClientPacket
    <2>3. n \in Connection
      BY <2>2 DEF Connection
    <2> HIDE DEF n, a
    <2>4. QED
      BY <1>1, <1>2, <1>3, <2>3 DEF NetTypes
  <1>13. QED
    BY <1>1, <1>11, <1>12 DEF ClientInv, ClientTypes

\* The syntax is negotiated: the caller has the association that it opened.
LEMMA BoundKeeps ==
  ASSUME ClientInv, NEW t \in Threads, Bound(t)
  PROVE  ClientInv' /\ Onward
  <1> DEFINE a == thr[t].a
             b0 == cli.acb[a]
             b1 == [b0 EXCEPT !.ref = b0.ref - 1, !.users = b0.users - 1]
             b2 == [b1 EXCEPT !.ref = b1.ref + 1, !.users = b1.users + 1, !.st = "ACTIVE",
                              !.owner = {t}]
             b == [b0 EXCEPT !.st = "ACTIVE", !.owner = {t}]
             r == [thr[t] EXCEPT !.pc = "call", !.grp = b0.grp]
  <1>1. thr[t].pc = "bindwait" /\ b0.ok /\ b0.syn /\ cli' = Allocate(Uncount(cli, a), a, t)
        /\ thr' = [thr EXCEPT ![t] = r] /\ UNCHANGED <<net, calls>>
    BY DEF Bound
  <1>2. /\ thr[t] \in Caller /\ a \in Conns /\ a # 0 /\ b0 \in ClientAcb
        /\ CallerOK(thr[t], b0) /\ AcbOK(b0, 1) /\ \A u \in Threads : thr[u].a = a => u = t
    BY <1>1, Holder DEF Unheld
  <1>3. cli \in Client
    BY DEF ClientInv, ClientTypes
  <1>4. cli' = [cli EXCEPT !.acb[a] = b2]
    <2>1. Uncount(cli, a) = [cli EXCEPT !.acb[a] = b1]
      BY <1>2, <1>3 DEF Uncount
    <2> DEFINE d == Uncount(cli, a)
    <2>2. d.acb[a] = b1
      BY <1>2, <1>3, <2>1 DEF Client
    <2>3. cli' = [d EXCEPT !.acb[a] = [b1 EXCEPT !.ref = b1.ref + 1, !.users = b1.users + 1,
                                                 !.st = "ACTIVE", !.owner = {t}]]
      BY <1>1, <2>2 DEF Allocate
    <2> HIDE DEF b1, a
    <2>4. QED
      BY <1>2, <1>3, <2>1, <2>3 DEF Client
  <1> HIDE DEF b0
  <1>5. b2 = b
    <2>1. (b0.ref - 1) + 1 = b0.ref /\ (b0.users - 1) + 1 = b0.users
      BY <1>2 DEF ClientAcb
    <2>2. QED
      BY <1>2, <2>1 DEF ClientAcb
  <1>6. b0.st = "OPEN" /\ b0.users > 0
    BY <1>1, <1>2 DEF CallerOK
  <1>7. b \in ClientAcb /\ b.ref = b0.ref /\ b.users = b0.users /\ b.st = "ACTIVE"
        /\ b.rx = b0.rx /\ b.life = b0.life /\ b.cancel = b0.cancel /\ b.grp = b0.grp /\ b.cn = b0.cn
    <2>1. {t} \in SUBSET Threads
      OBVIOUS
    <2>2. QED
      BY <1>2, <2>1 DEF ClientAcb
  <1> HIDE DEF b, b2
  <1>8. Changes(a, b)
    <2>1. Becomes(cli, cli', a, b)
      BY <1>2, <1>3, <1>4, <1>5, <1>7, AcbExcept
    <2>2. QED
      BY <1>6, <1>7, <2>1 DEF Changes, Turns, Grouped, Ages, Young, b0
  <1>9. AcbOK(b, 1)
    <2>1. Receiving(b) = Receiving(b0) /\ b0.st \in Grouped
      BY <1>6, <1>7 DEF Receiving, Grouped
    <2>2. QED
      BY <1>2, <1>7, <2>1 DEF AcbOK
  <1>10. r \in Caller /\ r.a = a /\ r.pc = "call"
    <2>1. b0.grp \in 0..MaxConns
      BY <1>2 DEF ClientAcb
    <2>2. QED
      BY <1>2, <2>1 DEF Caller
  <1> HIDE DEF r
  <1>11. CallerOK(r, b)
    BY <1>6, <1>7, <1>10 DEF CallerOK
  <1>12. CallerInv' /\ AcbInv' /\ ClientLists' /\ Onward /\ cli' \in Client /\ thr' \in [Threads -> Caller]
    <2>1. Moves(t, r) /\ thr[t].a \in {0, a} /\ r.a \in {0, a} /\ (r.a = 0 <=> r.pc \in Unheld)
      BY <1>1, <1>2, <1>10 DEF Unheld, Moves
    <2>2. r \in Caller /\ (r.a = a => CallerOK(r, b) /\ AcbOK(b, 1)) /\ (r.a = 0 => AcbOK(b, 0))
      BY <1>2, <1>9, <1>10, <1>11
    <2> HIDE DEF a
    <2>3. QED
      BY <1>2, <1>8, <2>1, <2>2, CallerStep
  <1>13. QED
    BY <1>1, <1>12 DEF ClientInv, ClientTypes, NetTypes

-----------------------------------------------------------------------------
(* The actions of calls *)

\* A caller that has its association for a call goes on.
LEMMA HolderMoves ==
  ASSUME ClientInv, NEW t \in Threads, thr[t].pc \in {"call", "reply"},
         NEW r \in Caller, Moves(t, r), r.a = thr[t].a, r.pc \in {"wait", "done"},
         cli' \in Client, cli'.acb = cli.acb,
         \A g \in Conns : /\ cli'.grp[g].list = cli.grp[g].list /\ cli'.grp[g].st = cli.grp[g].st
                          /\ cli'.grp[g].remid = cli.grp[g].remid
                          /\ RefsKept(g) \/ Maintains(t)
  PROVE  CallerInv' /\ AcbInv' /\ ClientLists' /\ Onward /\ thr' \in [Threads -> Caller]
  <1>1. thr'[t] = r /\ (\A u \in Threads : u # t => thr'[u] = thr[u])
        /\ thr' \in [Threads -> Caller]
    BY DEF ClientInv, ClientTypes, Moves
  <1>2. thr[t].a # 0 /\ CallerOK(thr[t], cli.acb[thr[t].a])
    BY Holder DEF Unheld
  <1>3. \A u \in Threads : thr'[u].a = thr[u].a
    BY <1>1
  <1>4. AcbInv'
    <2>1. \A a \in Conns : Held(a)' = Held(a)
      BY <1>3 DEF Held
    <2>2. QED
      BY <2>1 DEF AcbInv, ClientInv
  <1>5. CallerInv'
    <2>1. CallerInv
      BY DEF ClientInv
    <2>2. \A u \in Threads : thr'[u].a = 0 <=> thr'[u].pc \in Unheld
      BY <1>1, <1>2, <2>1 DEF CallerInv, Unheld
    <2>3. CallerOK(r, cli.acb[thr[t].a])
      BY <1>2 DEF CallerOK
    <2>4. \A u \in Threads : thr'[u].a # 0 => CallerOK(thr'[u], cli'.acb[thr'[u].a])
      BY <1>1, <2>1, <2>3 DEF CallerInv
    <2>5. QED
      BY <1>3, <2>1, <2>2, <2>4 DEF CallerInv
  <1>6. ClientLists'
    BY DEF ClientInv, ClientLists, Lists
  <1>7. QED
    BY <1>1, <1>4, <1>5, <1>6 DEF Onward, Ages, Stays, Stands

\* What the client sends
LEMMA ToServerType ==
  ASSUME NEW n \in [Conns -> Connection], NEW a \in Conns, NEW p \in ClientPacket
  PROVE  ToServer(n, a, p) \in [Conns -> Connection]
  <1>1. n[a] \in Connection /\ n[a].c2s \in Seq(ClientPacket)
    BY DEF Connection
  <1>2. Append(n[a].c2s, p) \in Seq(ClientPacket)
    BY <1>1
  <1> DEFINE k == [n[a] EXCEPT !.c2s = Append(n[a].c2s, p)]
  <1>3. k \in Connection
    BY <1>1, <1>2 DEF Connection
  <1>4. ToServer(n, a, p) = n \/ ToServer(n, a, p) = [n EXCEPT ![a] = k]
    BY DEF ToServer
  <1> HIDE DEF k
  <1>5. QED
    BY <1>3, <1>4

LEMMA SendsRequestKeeps ==
  ASSUME ClientInv, NEW t \in Threads, SendsRequest(t)
  PROVE  ClientInv' /\ Onward
  <1> DEFINE r == [thr[t] EXCEPT !.pc = "wait"]
             a == thr[t].a
  <1>1. thr[t].pc = "call" /\ thr' = [thr EXCEPT ![t] = r] /\ UNCHANGED <<cli, calls>>
        /\ (net' = net \/ net' = ToServer(net, a, Request(thr[t].call)))
    BY DEF SendsRequest
  <1>2. thr[t] \in Caller /\ a \in Conns /\ cli \in Client /\ net \in [Conns -> Connection]
    <2>1. thr[t] \in Caller /\ a \in Conns
      BY <1>1, Holder DEF Unheld
    <2>2. QED
      BY <2>1 DEF ClientInv, ClientTypes, NetTypes
  <1>3. r \in Caller /\ r.a = a /\ r.pc = "wait" /\ Moves(t, r)
    BY <1>1, <1>2 DEF Caller, Moves
  <1> HIDE DEF r
  <1>4. CallerInv' /\ AcbInv' /\ ClientLists' /\ Onward /\ thr' \in [Threads -> Caller]
    BY <1>1, <1>2, <1>3, HolderMoves DEF RefsKept
  <1>5. NetTypes'
    <2>1. Request(thr[t].call) \in ClientPacket
      BY <1>2, BindAssumption DEF Request, Message, ClientPacket, Caller
    <2>2. QED
      BY <1>1, <1>2, <2>1, ToServerType DEF NetTypes
  <1>6. QED
    BY <1>1, <1>2, <1>4, <1>5 DEF ClientInv, ClientTypes

\* rpc__cn_network_maint and rpc__cn_network_stop_maint
LEMMA MaintainsKeeps ==
  ASSUME ClientInv, NEW t \in Threads, Maintains(t)
  PROVE  ClientInv' /\ Onward
  <1> DEFINE r == [thr[t] EXCEPT !.pc = "done"]
             a == thr[t].a
  <1>1. thr[t].pc = "reply" /\ thr' = [thr EXCEPT ![t] = r] /\ UNCHANGED <<net, calls>>
    BY DEF Maintains
  <1>2. thr[t] \in Caller /\ cli \in Client
    BY DEF ClientInv, ClientTypes
  <1>3. r \in Caller /\ r.a = a /\ r.pc = "done" /\ Moves(t, r)
    BY <1>1, <1>2 DEF Caller, Moves
  <1>4. cli' = cli \/ \E g \in Conns : \E n \in Int : cli' = [cli EXCEPT !.grp[g].refs = n]
    <2>1. \A g \in Conns : cli.grp[g].refs \in Int
      BY <1>2 DEF Client, ClientGroup
    <2> DEFINE h == IF kind[thr[t].call] = "open" THEN thr[t].grp ELSE ctx.grp
    <2>2. \/ UNCHANGED cli
          \/ h \in Active(cli) /\ cli' = [cli EXCEPT !.grp[h].refs = cli.grp[h].refs + 1]
          \/ h \in Active(cli) /\ cli' = [cli EXCEPT !.grp[h].refs = cli.grp[h].refs - 1]
      BY DEF Maintains
    <2> HIDE DEF h
    <2>3. h \in Active(cli) => h \in Conns
      BY DEF Active
    <2>4. h \in Conns => cli.grp[h].refs + 1 \in Int /\ cli.grp[h].refs - 1 \in Int
      BY <2>1
    <2>5. QED
      BY <2>2, <2>3, <2>4
  <1>5. /\ cli' \in Client /\ cli'.acb = cli.acb
        /\ \A g \in Conns : /\ cli'.grp[g].list = cli.grp[g].list /\ cli'.grp[g].st = cli.grp[g].st
                            /\ cli'.grp[g].remid = cli.grp[g].remid
    <2>1. CASE cli' = cli
      BY <1>2, <2>1
    <2>2. ASSUME NEW g \in Conns, NEW n \in Int, cli' = [cli EXCEPT !.grp[g].refs = n]
          PROVE  /\ cli' \in Client /\ cli'.acb = cli.acb
                 /\ \A x \in Conns : /\ cli'.grp[x].list = cli.grp[x].list /\ cli'.grp[x].st = cli.grp[x].st
                                     /\ cli'.grp[x].remid = cli.grp[x].remid
      <3> DEFINE k == [cli.grp[g] EXCEPT !.refs = n]
      <3>1. k \in ClientGroup /\ k.list = cli.grp[g].list /\ k.st = cli.grp[g].st
            /\ k.remid = cli.grp[g].remid
        BY <1>2 DEF Client, ClientGroup
      <3>2. cli' = [cli EXCEPT !.grp[g] = k]
        BY <2>2
      <3> HIDE DEF k
      <3>3. QED
        BY <1>2, <3>1, <3>2 DEF Client
    <2>3. QED
      BY <1>4, <2>1, <2>2
  <1> HIDE DEF r
  <1>6. CallerInv' /\ AcbInv' /\ ClientLists' /\ Onward /\ thr' \in [Threads -> Caller]
    BY <1>1, <1>3, <1>5, HolderMoves
  <1>7. QED
    BY <1>1, <1>5, <1>6 DEF ClientInv, ClientTypes, NetTypes

\* A change within the group, and then the end of the association
LEMMA BecomesThenAlone ==
  ASSUME NEW c \in Client, NEW a \in Conns, NEW d, NEW e, NEW b, NEW b2,
         Becomes(c, d, a, b), b.grp = c.acb[a].grp, BecomesAlone(d, e, a, b2)
  PROVE  BecomesAlone(c, e, a, b2)
  <1>1. c.acb \in [Conns -> ClientAcb] /\ d.acb = [c.acb EXCEPT ![a] = b] /\ d.grp = c.grp
        /\ e.acb = [d.acb EXCEPT ![a] = b2]
    BY DEF Client, Becomes, BecomesAlone
  <1>2. d.acb[a].grp = c.acb[a].grp /\ e.acb = [c.acb EXCEPT ![a] = b2]
    BY <1>1
  <1>3. Leaves(c, e, a)
    BY <1>1, <1>2 DEF BecomesAlone, Leaves
  <1>4. QED
    BY <1>2, <1>3 DEF BecomesAlone

\* rpc__cn_assoc_pop_call
LEMMA PopCallShape ==
  ASSUME NEW c \in Client, NEW a \in Conns, NEW t \in Threads,
         c.acb[a].st \in {"ACTIVE", "CLOSED", "CALL_DONE_WAIT"}
  PROVE  \E b \in ClientAcb :
           /\ Becomes(c, PopCall(c, a, t), a, b)
           /\ b.st = IF c.acb[a].st = "ACTIVE" THEN "ACTIVE" ELSE "CLOSED"
           /\ b.ref = c.acb[a].ref /\ b.users = c.acb[a].users /\ b.rx = c.acb[a].rx
           /\ b.life = c.acb[a].life /\ b.cn = c.acb[a].cn /\ b.cancel = c.acb[a].cancel
           /\ b.grp = c.acb[a].grp
  <1> DEFINE b0 == c.acb[a]
             b1 == [b0 EXCEPT !.ok = TRUE, !.owner = b0.owner \ {t}]
             b2 == [b1 EXCEPT !.st = "CLOSED"]
             d == [c EXCEPT !.acb[a] = b1]
  <1>1. b0 \in ClientAcb /\ b0.owner \ {t} \in SUBSET Threads
    BY DEF Client, ClientAcb
  <1>2. b1 \in ClientAcb /\ b1.st = b0.st /\ b1.ref = b0.ref /\ b1.users = b0.users
        /\ b1.rx = b0.rx /\ b1.life = b0.life /\ b1.cn = b0.cn /\ b1.cancel = b0.cancel
        /\ b1.grp = b0.grp
    <2> HIDE DEF b0
    <2>1. QED
      BY <1>1 DEF ClientAcb
  <1>3. Becomes(c, d, a, b1)
    <2> HIDE DEF b1, d
    <2>1. d = [c EXCEPT !.acb[a] = b1]
      BY DEF d
    <2>2. QED
      BY <1>2, <2>1, AcbExcept
  <1>4. CASE b0.st \in {"ACTIVE", "CLOSED"}
    <2>1. PopCall(c, a, t) = d
      BY <1>4 DEF PopCall
    <2> HIDE DEF d, b1
    <2>2. QED
      BY <1>2, <1>3, <1>4, <2>1
  <1>5. CASE b0.st = "CALL_DONE_WAIT"
    <2>1. PopCall(c, a, t) = [d EXCEPT !.acb[a].st = "CLOSED"]
      BY <1>5 DEF PopCall
    <2>2. d \in Client /\ d.acb[a] = b1
      BY <1>1, <1>3 DEF Becomes, Client
    <2> HIDE DEF d, b1, b0
    <2>3. PopCall(c, a, t) = [d EXCEPT !.acb[a] = b2]
      BY <2>1, <2>2 DEF Client
    <2>4. b2 \in ClientAcb /\ b2.st = "CLOSED" /\ b2.ref = b1.ref /\ b2.users = b1.users
          /\ b2.rx = b1.rx /\ b2.life = b1.life /\ b2.cn = b1.cn /\ b2.cancel = b1.cancel
          /\ b2.grp = b1.grp
      BY <1>2 DEF ClientAcb
    <2> HIDE DEF b2
    <2>5. Becomes(d, PopCall(c, a, t), a, b2)
      BY <2>2, <2>3, <2>4, AcbExcept
    <2>6. Becomes(c, PopCall(c, a, t), a, b2)
      BY <1>3, <2>5, BecomesTwice
    <2>7. QED
      BY <1>2, <1>5, <2>4, <2>6 DEF b0
  <1>6. QED
    BY <1>4, <1>5

\* rpc__cn_assoc_dealloc up to its rpc__cn_assoc_acb_dealloc
LEMMA DeallocateShape ==
  ASSUME NEW c \in Client, NEW a \in Conns, Lists(c.acb, c.grp, Grouped),
         c.acb[a].st \in {"ACTIVE", "CLOSED"}, c.acb[a].users > 0
  PROVE  \E d, b :
           /\ Deallocate(c, a) = DeallocAcb(d, a) /\ d \in Client /\ b \in ClientAcb /\ d.acb[a] = b
           /\ \/ /\ Becomes(c, d, a, b) /\ b.cancel = c.acb[a].cancel
                 /\ c.acb[a].st = "ACTIVE" => b.st = "OPEN" /\ b.grp = c.acb[a].grp
                 /\ c.acb[a].st = "CLOSED" => b.st = "CLOSED"
              \/ BecomesAlone(c, d, a, b) /\ b.st = "CLOSED"
           /\ b.ref = c.acb[a].ref /\ b.rx = c.acb[a].rx /\ b.life = c.acb[a].life
           /\ b.cn = c.acb[a].cn
  <1> DEFINE b0 == c.acb[a]
             b1 == [b0 EXCEPT !.ok = TRUE]
             d1 == [c EXCEPT !.acb[a] = [@ EXCEPT !.ok = TRUE]]
             b2 == [b1 EXCEPT !.users = b1.users - 1, !.st = "OPEN"]
             d2 == [d1 EXCEPT !.acb[a] = [d1.acb[a] EXCEPT !.users = @ - 1, !.st = "OPEN"]]
             b3 == [b2 EXCEPT !.grp = 0, !.cancel = @ \/ b2.cn = "OPEN", !.st = "CLOSED", !.ok = TRUE]
             d3 == RemMarkAbort(d2, a, TRUE)
  <1>1. b0 \in ClientAcb /\ c.acb \in [Conns -> ClientAcb]
    BY DEF Client
  <1>2. b1 \in ClientAcb /\ b1.st = b0.st /\ b1.ref = b0.ref /\ b1.users = b0.users
        /\ b1.rx = b0.rx /\ b1.life = b0.life /\ b1.cn = b0.cn /\ b1.cancel = b0.cancel
        /\ b1.grp = b0.grp
    <2> HIDE DEF b0
    <2>1. QED
      BY <1>1 DEF ClientAcb
  <1>3. Becomes(c, d1, a, b1)
    <2> HIDE DEF b1, d1
    <2>1. d1 = [c EXCEPT !.acb[a] = b1]
      BY DEF d1, b1
    <2>2. QED
      BY <1>2, <2>1, AcbExcept
  <1>4. d1 \in Client /\ d1.acb[a] = b1
    BY <1>1, <1>3 DEF Becomes
  <1>5. b0.st = "ACTIVE" => /\ b2 \in ClientAcb /\ b2.st = "OPEN" /\ b2.ref = b0.ref
                            /\ b2.rx = b0.rx /\ b2.life = b0.life /\ b2.cn = b0.cn
                            /\ b2.cancel = b0.cancel /\ b2.grp = b0.grp
    <2> HIDE DEF b0, b1
    <2>1. b1.users - 1 \in Nat
      BY <1>1, <1>2 DEF ClientAcb, b0
    <2>2. QED
      BY <1>2, <2>1 DEF ClientAcb
  <1>6. b0.st = "ACTIVE" => Becomes(d1, d2, a, b2)
    <2> HIDE DEF b1, d1
    <2>1. d2 = [d1 EXCEPT !.acb[a] = b2]
      BY <1>4
    <2> HIDE DEF b0, b2, d2
    <2>2. QED
      BY <1>4, <1>5, <2>1, AcbExcept
  <1>7. b0.st = "ACTIVE" => Becomes(c, d2, a, b2)
    <2> HIDE DEF b0, b1, b2, d1, d2
    <2>1. QED
      BY <1>3, <1>6, BecomesTwice
  <1>8. CASE b0.st = "CLOSED"
    <2>1. Deallocate(c, a) = DeallocAcb(d1, a)
      BY <1>8 DEF Deallocate
    <2> HIDE DEF d1, b1
    <2>2. QED
      BY <1>2, <1>3, <1>4, <1>8, <2>1
  <1>9. CASE b0.st = "ACTIVE" /\ ~(b0.shut /\ MayShrink(c.grp[b0.grp]))
    <2>1. Deallocate(c, a) = DeallocAcb(d2, a)
      BY <1>9 DEF Deallocate
    <2> HIDE DEF d1, b1, d2, b2
    <2>2. d2 \in Client /\ d2.acb[a] = b2
      BY <1>1, <1>7, <1>9 DEF Becomes
    <2>3. QED
      BY <1>5, <1>7, <1>9, <2>1, <2>2
  <1>10. CASE b0.st = "ACTIVE" /\ b0.shut /\ MayShrink(c.grp[b0.grp])
    <2>1. Deallocate(c, a) = DeallocAcb(d3, a)
      BY <1>10 DEF Deallocate
    <2> HIDE DEF d1, b1, d2, b2
    <2>2. d2 \in Client /\ d2.acb[a] = b2 /\ b2 \in ClientAcb
      BY <1>1, <1>5, <1>7, <1>10 DEF Becomes
    <2>3. Lists(d2.acb, d2.grp, Grouped)
      <3> DEFINE acb == c.acb
                 grp == c.grp
                 acb2 == d2.acb
                 grp2 == d2.grp
      <3>1. Altered(acb, acb2, a, b2) /\ grp2 = grp
        BY <1>1, <1>7, <1>10 DEF Becomes, Altered
      <3>2. Lists(acb, grp, Grouped) /\ \A g \in Conns : grp[g].list \in Seq(Conns)
        BY DEF Client, ClientGroup
      <3>3. b2.grp = acb[a].grp /\ b2.st \in Grouped
        BY <1>5, <1>10 DEF Grouped
      <3> HIDE DEF acb, grp, acb2, grp2
      <3>4. \A g \in Conns : grp2[g].list = grp[g].list /\ (grp2[g].st = "ACTIVE" <=> grp[g].st = "ACTIVE")
        BY <3>1
      <3>5. Lists(acb2, grp2, Grouped)
        BY <3>1, <3>2, <3>3, <3>4, ListsSame
      <3>6. QED
        BY <3>5 DEF acb2, grp2
    <2>4. BecomesAlone(d2, d3, a, b3)
      <3>1. BecomesAlone(d2, RemMarkAbort(d2, a, TRUE), a,
              [d2.acb[a] EXCEPT !.grp = 0, !.cancel = @ \/ d2.acb[a].cn = "OPEN",
                                !.st = "CLOSED", !.ok = TRUE])
        BY <2>2, <2>3, RemMarkAbortShape
      <3>2. QED
        BY <2>2, <3>1
    <2>5. b3 \in ClientAcb /\ b3.st = "CLOSED" /\ b3.ref = b2.ref
          /\ b3.rx = b2.rx /\ b3.life = b2.life /\ b3.cn = b2.cn
      <3>1. b3 \in ClientAcb
        BY <2>4 DEF BecomesAlone
      <3>2. QED
        BY <2>2, <3>1 DEF ClientAcb
    <2> HIDE DEF b3, d3
    <2>6. BecomesAlone(c, d3, a, b3)
      BY <1>5, <1>7, <1>10, <2>4, BecomesThenAlone
    <2>7. d3 \in Client /\ d3.acb[a] = b3
      BY <1>1, <2>6 DEF BecomesAlone
    <2>8. QED
      BY <1>5, <1>10, <2>1, <2>5, <2>6, <2>7
  <1>11. QED
    BY <1>8, <1>9, <1>10

\* The end of a call on its association, in every state that it may find it in
LEMMA LeaveKeeps ==
  ASSUME ClientInv, NEW t \in Threads, thr[t].pc \in {"wait", "reply", "done"}, Leave(t),
         NetTypes', UNCHANGED calls
  PROVE  ClientInv' /\ Onward
  <1> DEFINE a == thr[t].a
             b0 == cli.acb[a]
             c == PopCall(cli, a, t)
  <1>1. /\ thr[t] \in Caller /\ a \in Conns /\ a # 0 /\ b0 \in ClientAcb
        /\ CallerOK(thr[t], b0) /\ AcbOK(b0, 1) /\ \A u \in Threads : thr[u].a = a => u = t
    BY Holder DEF Unheld
  <1>2. cli \in Client
    BY DEF ClientInv, ClientTypes
  <1>3. b0.st \in {"ACTIVE", "CLOSED", "CALL_DONE_WAIT"} /\ b0.users > 0
    BY <1>1 DEF CallerOK
  <1>4. PICK b1 \in ClientAcb :
          /\ Becomes(cli, c, a, b1) /\ b1.st = IF b0.st = "ACTIVE" THEN "ACTIVE" ELSE "CLOSED"
          /\ b1.ref = b0.ref /\ b1.users = b0.users /\ b1.rx = b0.rx
          /\ b1.life = b0.life /\ b1.cn = b0.cn /\ b1.cancel = b0.cancel /\ b1.grp = b0.grp
    BY <1>1, <1>2, <1>3, PopCallShape
  <1> HIDE DEF c
  <1>5. c \in Client /\ c.acb[a] = b1
    BY <1>1, <1>2, <1>4 DEF Becomes, Client
  <1>6. Lists(c.acb, c.grp, Grouped)
    <2> DEFINE acb == cli.acb
               grp == cli.grp
               acb2 == c.acb
               grp2 == c.grp
    <2>1. Altered(acb, acb2, a, b1) /\ grp2 = grp
      BY <1>1, <1>2, <1>4 DEF Becomes, Altered, Client
    <2>2. Lists(acb, grp, Grouped) /\ \A g \in Conns : grp[g].list \in Seq(Conns)
      BY <1>2 DEF Client, ClientGroup, ClientInv, ClientLists
    <2>3. \A g \in Conns : a \in Members(grp[g].list) => b1.grp = acb[a].grp /\ b1.st \in Grouped
      BY <1>3, <1>4, <2>2 DEF Lists, Grouped
    <2> HIDE DEF acb, grp, acb2, grp2
    <2>4. \A g \in Conns : grp2[g].list = grp[g].list /\ (grp2[g].st = "ACTIVE" <=> grp[g].st = "ACTIVE")
      BY <2>1
    <2>5. Lists(acb2, grp2, Grouped)
      BY <1>1, <2>1, <2>2, <2>3, <2>4, ListsSame
    <2>6. QED
      BY <2>5 DEF acb2, grp2
  <1>7. PICK d, b :
           /\ Deallocate(c, a) = DeallocAcb(d, a) /\ d \in Client /\ b \in ClientAcb /\ d.acb[a] = b
           /\ \/ /\ Becomes(c, d, a, b) /\ b.cancel = b1.cancel
                 /\ b1.st = "ACTIVE" => b.st = "OPEN" /\ b.grp = b1.grp
                 /\ b1.st = "CLOSED" => b.st = "CLOSED"
              \/ BecomesAlone(c, d, a, b) /\ b.st = "CLOSED"
           /\ b.ref = b1.ref /\ b.rx = b1.rx /\ b.life = b1.life /\ b.cn = b1.cn
    <2>1. b1.st \in {"ACTIVE", "CLOSED"} /\ b1.users > 0
      BY <1>3, <1>4
    <2> HIDE DEF a, b0
    <2>2. QED
      BY <1>1, <1>5, <1>6, <2>1, DeallocateShape
  <1> DEFINE b2 == AfterDealloc(b)
  <1>8. cli' = DeallocAcb(d, a)
    BY <1>7 DEF Leave, a, c
  <1>9. AcbOK(b, 0 + 1)
    <2>1. b.ref = 1 + Receiving(b) /\ (b.life = "live" <=> b.ref > 0) /\ (b.cn = "OPEN" => b.life = "live")
      <3>1. Receiving(b) = Receiving(b0)
        BY <1>4, <1>7 DEF Receiving
      <3>2. QED
        BY <1>1, <1>4, <1>7, <3>1 DEF AcbOK
    <2>2. b.st \in Grouped => b0.st = "ACTIVE" /\ b.cancel = b0.cancel
      BY <1>3, <1>4, <1>7 DEF Grouped
    <2>3. b.st \in Grouped => b.rx = "recv" /\ ~b.cancel
      BY <1>1, <1>4, <1>7, <2>2 DEF AcbOK, Grouped
    <2>4. b.st # "INIT_WAIT"
      BY <1>4, <1>7
    <2>5. QED
      BY <2>1, <2>3, <2>4 DEF AcbOK
  <1>10. b2 \in ClientAcb /\ AcbOK(b2, 0) /\ (b.st \in Grouped => b2.st = b.st /\ b2.grp = b.grp)
         /\ (b2.life = "new" => b.life = "new")
         /\ (Young(b2) => Young(b)) /\ b2.st \in {b.st, "CLOSED"}
    BY <1>7, <1>9, AfterDeallocOK
  <1>11. Becomes(d, cli', a, b2)
    <2>1. Becomes(d, DeallocAcb(d, a), a, AfterDealloc(d.acb[a]))
      BY <1>1, <1>7, DeallocAcbShape
    <2>2. QED
      BY <1>7, <1>8, <2>1
  <1> HIDE DEF b2
  <1>12. Changes(a, b2)
    <2>a. Ages(a, b0, b2)
      <3>1. b.st # "INIT_WAIT" /\ b.life = b0.life /\ b.cn = b0.cn
        BY <1>4, <1>7
      <3>2. QED
        BY <1>10, <3>1 DEF Ages, Young
    <2>1. CASE BecomesAlone(c, d, a, b) /\ b.st = "CLOSED"
      <3>1. BecomesAlone(cli, d, a, b)
        BY <1>1, <1>2, <1>4, <2>1, BecomesThenAlone
      <3>2. BecomesAlone(cli, cli', a, b2)
        BY <1>1, <1>2, <1>11, <3>1, BecomesTwice
      <3>3. b2.st \notin Grouped
        BY <1>10, <2>1 DEF Grouped
      <3>4. QED
        BY <2>a, <3>2, <3>3 DEF Changes, Turns
    <2>2. CASE /\ Becomes(c, d, a, b)
               /\ b1.st = "ACTIVE" => b.st = "OPEN" /\ b.grp = b1.grp
               /\ b1.st = "CLOSED" => b.st = "CLOSED"
      <3>1. Becomes(cli, d, a, b)
        BY <1>1, <1>2, <1>4, <2>2, BecomesTwice
      <3>2. Becomes(cli, cli', a, b2)
        BY <1>1, <1>2, <1>11, <3>1, BecomesTwice
      <3>3. /\ b0.st \in Grouped <=> b2.st \in Grouped
            /\ b2.st \in Grouped => b2.grp = b0.grp
        BY <1>3, <1>4, <1>10, <2>2 DEF Grouped
      <3>4. QED
        BY <2>a, <3>2, <3>3 DEF Changes, Turns
    <2>3. QED
      BY <1>7, <2>1, <2>2
  <1>13. IdleThread \in Caller /\ IdleThread.a = 0 /\ IdleThread.pc \in Unheld
    BY BindAssumption DEF IdleThread, Caller, Unheld
  <1>14. CallerInv' /\ AcbInv' /\ ClientLists' /\ Onward /\ cli' \in Client /\ thr' \in [Threads -> Caller]
    <2> DEFINE r == IdleThread
    <2>1. Moves(t, r) /\ thr[t].a \in {0, a} /\ r.a \in {0, a} /\ (r.a = 0 <=> r.pc \in Unheld)
      BY <1>13 DEF Leave, Moves, a
    <2>2. r \in Caller /\ (r.a = a => CallerOK(r, b2) /\ AcbOK(b2, 1)) /\ (r.a = 0 => AcbOK(b2, 0))
      BY <1>1, <1>10, <1>13
    <2> HIDE DEF a, r
    <2>3. QED
      BY <1>1, <1>12, <2>1, <2>2, CallerStep
  <1>15. QED
    BY <1>14 DEF ClientInv, ClientTypes

LEMMA EndsKeep ==
  ASSUME ClientInv, NEW t \in Threads, CallEnds(t) \/ CallBreaks(t) \/ CallAbandoned(t)
  PROVE  ClientInv' /\ Onward
  <1>1. thr[t].pc \in {"wait", "reply", "done"} /\ Leave(t) /\ UNCHANGED calls
    BY DEF CallEnds, CallBreaks, CallAbandoned, Abandons
  <1>2. thr[t] \in Caller /\ thr[t].a \in Conns /\ net \in [Conns -> Connection]
    <2>1. thr[t] \in Caller /\ thr[t].a \in Conns
      BY <1>1, Holder DEF Unheld
    <2>2. QED
      BY <2>1 DEF ClientInv, NetTypes
  <1>3. Orphaned(thr[t].call) \in ClientPacket
    BY <1>2, BindAssumption DEF Orphaned, Message, ClientPacket, Caller
  <1>4. NetTypes'
    <2>1. net' = net \/ net' = ToServer(net, thr[t].a, Orphaned(thr[t].call))
      BY DEF CallEnds, CallBreaks, CallAbandoned
    <2>2. QED
      BY <1>2, <1>3, <2>1, ToServerType DEF NetTypes
  <1>5. QED
    BY <1>1, <1>4, LeaveKeeps

-----------------------------------------------------------------------------
(* The actions of receivers and of the timer *)

LEMMA ReceiverStartsKeeps ==
  ASSUME ClientInv, NEW a \in Conns, ReceiverStarts(a)
  PROVE  ClientInv' /\ Onward
  <1> DEFINE b0 == cli.acb[a]
             b1 == [b0 EXCEPT !.cancel = FALSE]
             b2 == [b0 EXCEPT !.rx = "recv", !.ref = b0.ref + 1]
             b == IF b0.cancel THEN b1 ELSE b2
  <1>1. cli \in Client /\ b0 \in ClientAcb /\ AcbOK(b0, Held(a)) /\ Held(a) \in Nat
        /\ thr \in [Threads -> Caller]
    BY DEF ClientInv, ClientTypes, Client, AcbInv, Held
  <1>2. b0.rx = "idle" /\ b0.cn = "OPEN" /\ UNCHANGED <<thr, calls, net>>
    BY DEF ReceiverStarts
  <1>3. cli' = [cli EXCEPT !.acb[a] = b]
    <2>1. CASE b0.cancel
      BY <1>1, <2>1 DEF ReceiverStarts
    <2>2. CASE ~b0.cancel
      BY <1>1, <2>2 DEF ReceiverStarts, Client
    <2>3. QED
      BY <2>1, <2>2
  <1> HIDE DEF b0
  <1>4. b1 \in ClientAcb /\ b1.ref = b0.ref /\ b1.rx = b0.rx /\ b1.st = b0.st /\ b1.cn = b0.cn
        /\ b1.life = b0.life /\ b1.users = b0.users /\ b1.ok = b0.ok /\ b1.syn = b0.syn
        /\ ~b1.cancel /\ b1.grp = b0.grp
    BY <1>1 DEF ClientAcb
  <1>5. b2 \in ClientAcb /\ b2.ref = b0.ref + 1 /\ b2.rx = "recv" /\ b2.st = b0.st /\ b2.cn = b0.cn
        /\ b2.life = b0.life /\ b2.users = b0.users /\ b2.ok = b0.ok /\ b2.syn = b0.syn
        /\ b2.cancel = b0.cancel /\ b2.grp = b0.grp
    <2>1. b0.ref + 1 \in Nat
      BY <1>1 DEF ClientAcb
    <2>2. QED
      BY <1>1, <2>1 DEF ClientAcb
  <1> HIDE DEF b1, b2
  <1>6. b \in ClientAcb /\ b.st = b0.st /\ b.cn = b0.cn /\ b.users = b0.users /\ b.ok = b0.ok
        /\ b.syn = b0.syn /\ b.grp = b0.grp /\ b.life = b0.life
    <2>1. CASE b0.cancel
      BY <1>4, <2>1
    <2>2. CASE ~b0.cancel
      BY <1>5, <2>2
    <2>3. QED
      BY <2>1, <2>2
  <1>7. AcbOK(b, Held(a))
    <2>1. Receiving(b0) = 0 /\ b0.life = "live" /\ b0.st \notin Grouped /\ b0.ref = Held(a)
      BY <1>1, <1>2 DEF AcbOK, Receiving
    <2>2. CASE b0.cancel
      <3>1. Receiving(b1) = 0
        BY <1>2, <1>4 DEF Receiving
      <3>2. AcbOK(b1, Held(a))
        BY <1>1, <1>4, <2>1, <3>1 DEF AcbOK
      <3>3. QED
        BY <2>2, <3>2
    <2>3. CASE ~b0.cancel
      <3>1. Receiving(b2) = 1
        BY <1>5 DEF Receiving
      <3>2. AcbOK(b2, Held(a))
        BY <1>1, <1>5, <2>1, <3>1 DEF AcbOK
      <3>3. QED
        BY <2>3, <3>2
    <2>4. QED
      BY <2>2, <2>3
  <1> HIDE DEF b
  <1>8. Changes(a, b)
    <2>1. Becomes(cli, cli', a, b)
      BY <1>1, <1>3, <1>6, AcbExcept
    <2>2. QED
      BY <1>6, <2>1 DEF Changes, Turns, Ages, Young, b0
  <1>9. ASSUME NEW t \in Threads, thr[t].a = a PROVE CallerOK(thr[t], b)
    <2>1. CallerOK(thr[t], b0)
      BY <1>9 DEF ClientInv, CallerInv, b0, Conns
    <2>2. QED
      BY <1>2, <1>6, <2>1 DEF CallerOK
  <1>10. CallerInv' /\ AcbInv' /\ ClientLists' /\ Onward /\ cli' \in Client
    BY <1>1, <1>2, <1>7, <1>8, <1>9, ReceiverStep
  <1>11. QED
    BY <1>1, <1>2, <1>10 DEF ClientInv, ClientTypes, NetTypes

\* What the receiver's events leave to a caller that has the association
Bearable(b0, b) == \A r \in Caller : CallerOK(r, b0) => CallerOK(r, b)

\* An event at an association that does not change who has it
LEMMA EventStep ==
  ASSUME ClientInv, NEW a \in Conns, NEW b, Changes(a, b),
         thr' \in [Threads -> Caller],
         \A t \in Threads : /\ thr'[t].a = thr[t].a
                            /\ thr'[t].pc = thr[t].pc \/ (thr[t].pc = "wait" /\ thr'[t].pc = "reply"),
         b.ref = cli.acb[a].ref, b.rx = cli.acb[a].rx, b.life = cli.acb[a].life,
         b.cn = cli.acb[a].cn,
         b.st \in Grouped => b.rx = "recv" /\ ~b.cancel,
         b.st = "INIT_WAIT" => cli.acb[a].st = "INIT_WAIT" /\ b.ok,
         Bearable(cli.acb[a], b) \/ \A t \in Threads : thr[t].a # a
  PROVE  CallerInv' /\ AcbInv' /\ ClientLists' /\ Onward /\ cli' \in Client
  <1>1. AcbOK(cli.acb[a], Held(a))
    BY DEF ClientInv, AcbInv
  <1>2. Receiving(b) = Receiving(cli.acb[a])
    BY DEF Receiving
  <1>3. AcbOK(b, Held(a))
    BY <1>1, <1>2 DEF AcbOK
  <1>4. ASSUME NEW t \in Threads, thr[t].a = a PROVE CallerOK(thr[t], b)
    <2>1. CallerOK(thr[t], cli.acb[a]) /\ thr[t] \in Caller
      BY <1>4 DEF ClientInv, ClientTypes, CallerInv, Conns
    <2>2. QED
      BY <1>4, <2>1 DEF Bearable
  <1>5. QED
    BY <1>3, <1>4, ReceiverStep

\* mark_assoc_action_rtn
LEMMA MarkShape ==
  ASSUME NEW c \in Client, NEW a \in Conns, NEW ok \in BOOLEAN
  PROVE  Becomes(c, MarkAssoc(c, a, ok), a, [c.acb[a] EXCEPT !.st = "CLOSED", !.ok = ok])
  <1> DEFINE b0 == c.acb[a]
             b == [b0 EXCEPT !.st = "CLOSED", !.ok = ok]
             d == MarkAssoc(c, a, ok)
  <1>1. c \in Client /\ c.acb[a] = b0 /\ b0 \in ClientAcb
    BY DEF Client
  <1> HIDE DEF b0
  <1>2. b \in ClientAcb
    BY <1>1 DEF ClientAcb
  <1>3. d = [c EXCEPT !.acb[a] = b]
    BY <1>1 DEF MarkAssoc, Client
  <1> HIDE DEF b, d
  <1>4. Becomes(c, d, a, b)
    BY <1>1, <1>2, <1>3, AcbExcept
  <1>5. QED
    BY <1>1, <1>4 DEF b, d

\* A closed association with an error is what a caller can cope with anywhere, once there is
\* a receiver.
LEMMA ClosedBearable ==
  ASSUME NEW b0, NEW b, b0.rx = "recv", b.users = b0.users,
         (b.st = "CLOSED" /\ ~b.ok) \/ (b.st = "CALL_DONE_WAIT" /\ b0.st = "ACTIVE")
  PROVE  Bearable(b0, b)
  BY DEF Bearable, CallerOK

\* rpc__cn_assoc_grp_lkup_by_remid or rpc__cn_assoc_grp_alloc finds a group.
LEMMA GroupForType ==
  ASSUME NEW a \in Conns, NEW remid
  PROVE  \E g \in Conns :
           /\ GroupFor(cli, a, remid) = g
           /\ g = a \/ (cli.grp[g].st = "ACTIVE" /\ cli.grp[g].remid = remid)
  <1>1. CASE \E g \in Active(cli) : cli.grp[g].remid = remid
    <2>1. PICK g \in Active(cli) : GroupFor(cli, a, remid) = g /\ cli.grp[g].remid = remid
      BY <1>1 DEF GroupFor
    <2>2. QED
      BY <2>1 DEF Active
  <1>2. CASE ~\E g \in Active(cli) : cli.grp[g].remid = remid
    BY <1>2 DEF GroupFor
  <1>3. QED
    BY <1>1, <1>2

\* What an event makes of the association a; d is the client afterwards.
Event(d, a) ==
  \E b : /\ Turns(cli, d, a, b)
         /\ b.ref = cli.acb[a].ref /\ b.rx = cli.acb[a].rx /\ b.life = cli.acb[a].life
         /\ b.cn = cli.acb[a].cn /\ (b.st \in Grouped => b.rx = "recv" /\ ~b.cancel)
         /\ b.st = "INIT_WAIT" => cli.acb[a].st = "INIT_WAIT" /\ b.ok
         /\ Bearable(cli.acb[a], b)

LEMMA NoEvent ==
  ASSUME ClientInv, NEW a \in Conns
  PROVE  Event(cli, a)
  <1> DEFINE b == cli.acb[a]
  <1>1. cli \in Client /\ b \in ClientAcb /\ AcbOK(b, Held(a))
    BY DEF ClientInv, ClientTypes, Client, AcbInv
  <1>2. Becomes(cli, cli, a, b)
    <2>1. cli.acb = [cli.acb EXCEPT ![a] = b]
      BY <1>1 DEF Client
    <2>2. QED
      BY <1>1, <2>1 DEF Becomes
  <1>3. Bearable(b, b)
    BY DEF Bearable
  <1>4. (b.st \in Grouped => b.rx = "recv" /\ ~b.cancel) /\ (b.st = "INIT_WAIT" => b.ok)
    BY <1>1 DEF AcbOK
  <1>5. Turns(cli, cli, a, b)
    BY <1>2 DEF Turns, Ages
  <1> HIDE DEF b
  <1>6. QED
    BY <1>3, <1>4, <1>5 DEF Event, b

LEMMA AcceptConfEvent ==
  ASSUME ClientInv, NEW a \in Conns, NEW remid \in 0..MaxConns,
         cli.acb[a].rx = "recv", ~cli.acb[a].cancel,
         net[a].s2c # <<>>, Head(net[a].s2c).type = "ack", Head(net[a].s2c).group = remid
  PROVE  Event(AcceptConf(cli, a, remid), a)
  <1> DEFINE b0 == cli.acb[a]
             g == GroupFor(cli, a, remid)
             b == [b0 EXCEPT !.st = "OPEN", !.syn = TRUE, !.grp = g]
             k == [cli.grp[g] EXCEPT !.st = "ACTIVE", !.remid = remid, !.list = Append(@, a)]
             d == AcceptConf(cli, a, remid)
  <1>1. CASE b0.st # "INIT_WAIT"
    BY <1>1, NoEvent DEF AcceptConf
  <1>2. CASE b0.st = "INIT_WAIT"
    <2>1. g \in Conns /\ g \in 0..MaxConns
          /\ (g = a \/ (cli.grp[g].st = "ACTIVE" /\ cli.grp[g].remid = remid))
      <3>1. PICK h \in Conns :
              g = h /\ (h = a \/ (cli.grp[h].st = "ACTIVE" /\ cli.grp[h].remid = remid))
        BY GroupForType
      <3>2. h \in 0..MaxConns
        BY DEF Conns
      <3>3. QED
        BY <3>1, <3>2
    <2>2. /\ cli \in Client /\ b0 \in ClientAcb /\ cli.acb \in [Conns -> ClientAcb]
          /\ cli.grp \in [Conns -> ClientGroup] /\ cli.grp[g] \in ClientGroup
      BY <2>1 DEF ClientInv, ClientTypes, Client
    <2>3. d = [cli EXCEPT !.acb[a] = b, !.grp[g] = k]
      BY <1>2 DEF AcceptConf
    <2> HIDE DEF b0, g
    <2>4. b \in ClientAcb /\ b.ref = b0.ref /\ b.rx = b0.rx /\ b.life = b0.life /\ b.cn = b0.cn
          /\ b.st = "OPEN" /\ b.grp = g /\ b.cancel = b0.cancel /\ b.users = b0.users
      BY <2>1, <2>2 DEF ClientAcb
    <2>5. k \in ClientGroup /\ k.st = "ACTIVE" /\ k.list = Append(cli.grp[g].list, a)
          /\ k.remid = remid /\ k.refs = cli.grp[g].refs
      <3>1. Append(cli.grp[g].list, a) \in Seq(Conns)
        BY <2>2 DEF ClientGroup
      <3>2. QED
        BY <2>2, <3>1 DEF ClientGroup
    <2> HIDE DEF b, k, d
    <2>6. d = [acb |-> [cli.acb EXCEPT ![a] = b], grp |-> [cli.grp EXCEPT ![g] = k]]
      BY <2>2, <2>3 DEF Client
    <2>7. d \in Client
      BY <2>1, <2>2, <2>4, <2>5, <2>6 DEF Client
    <2>8. BecomesMember(cli, d, a, b)
      BY <2>1, <2>2, <2>4, <2>5, <2>6, <2>7 DEF BecomesMember, Grouped
    <2>9. Bearable(b0, b)
      <3>1. ASSUME NEW r \in Caller, CallerOK(r, b0) PROVE CallerOK(r, b)
        <4>1. b0.rx = "recv"
          BY DEF b0
        <4>2. QED
          BY <1>2, <2>4, <3>1, <4>1 DEF CallerOK
      <3>2. QED
        BY <3>1 DEF Bearable
    <2>10. b0.st \notin Grouped /\ (b.st \in Grouped => b.rx = "recv" /\ ~b.cancel)
      BY <1>2, <2>4 DEF Grouped, b0
    <2>11. Turns(cli, d, a, b)
      <3>1. AcbOK(b0, Held(a)) /\ b0.ref \in Nat
        BY <2>2 DEF ClientInv, AcbInv, b0, ClientAcb
      <3>2. b0.life = "live" /\ b0.cn # "CONNECTING"
        BY <1>2, <3>1 DEF AcbOK, Receiving, Held, b0
      <3>3. ~Young(b)
        BY <2>4, <3>2 DEF Young
      <3>4. d.grp[g] = k
        BY <2>1, <2>2, <2>6
      <3>5. AckTaken(cli, d, a, b)
        BY <1>2, <2>1, <2>4, <2>5, <2>8, <3>3, <3>4 DEF AckTaken, b0
      <3>6. QED
        BY <2>4, <3>2, <3>3, <3>5 DEF Turns, Ages, b0
    <2>12. QED
      BY <2>4, <2>9, <2>10, <2>11 DEF Event, b0, d
  <1>3. QED
    BY <1>1, <1>2

\* abort_assoc_action_rtn
LEMMA CloseConnectShape ==
  ASSUME NEW c \in Client, NEW a \in Conns
  PROVE  Becomes(c, CloseConnect(c, a), a, [c.acb[a] EXCEPT !.cancel = @ \/ c.acb[a].cn = "OPEN"])
  <1> DEFINE b0 == c.acb[a]
             b == [b0 EXCEPT !.cancel = @ \/ b0.cn = "OPEN"]
             d == CloseConnect(c, a)
  <1>1. c \in Client /\ c.acb[a] = b0 /\ b0 \in ClientAcb
    BY DEF Client
  <1> HIDE DEF b0
  <1>2. b \in ClientAcb
    BY <1>1 DEF ClientAcb
  <1>3. d = [c EXCEPT !.acb[a] = b]
    BY <1>1 DEF CloseConnect, Client
  <1> HIDE DEF b, d
  <1>4. Becomes(c, d, a, b)
    BY <1>1, <1>2, <1>3, AcbExcept
  <1>5. QED
    BY <1>1, <1>4 DEF b, d

LEMMA RejectConfEvent ==
  ASSUME ClientInv, NEW a \in Conns, cli.acb[a].rx = "recv", ~cli.acb[a].cancel
  PROVE  Event(RejectConf(cli, a), a)
  <1> DEFINE b0 == cli.acb[a]
             b1 == [b0 EXCEPT !.cancel = @ \/ b0.cn = "OPEN"]
             b == [b1 EXCEPT !.st = "CLOSED", !.ok = FALSE]
             d1 == CloseConnect(cli, a)
             d == MarkAssoc(d1, a, FALSE)
  <1>1. CASE b0.st # "INIT_WAIT"
    BY <1>1, NoEvent DEF RejectConf
  <1>2. CASE b0.st = "INIT_WAIT"
    <2>1. cli \in Client /\ b0 \in ClientAcb
      BY DEF ClientInv, ClientTypes, Client
    <2>2. Becomes(cli, d1, a, b1)
      BY <2>1, CloseConnectShape
    <2>3. d1 \in Client /\ d1.acb[a] = b1 /\ b1 \in ClientAcb
      BY <2>1, <2>2 DEF Becomes, Client
    <2>4. Becomes(d1, d, a, b)
      <3>1. Becomes(d1, MarkAssoc(d1, a, FALSE), a, [d1.acb[a] EXCEPT !.st = "CLOSED", !.ok = FALSE])
        BY <2>3, MarkShape
      <3>2. QED
        BY <2>3, <3>1
    <2>5. Becomes(cli, d, a, b)
      <3> HIDE DEF b, b1, d, d1
      <3>1. QED
        BY <2>1, <2>2, <2>4, BecomesTwice
    <2> HIDE DEF b0
    <2>6. b1.ref = b0.ref /\ b1.rx = b0.rx /\ b1.life = b0.life /\ b1.cn = b0.cn
          /\ b1.users = b0.users
      BY <2>1 DEF ClientAcb
    <2> HIDE DEF b1
    <2>7. b.ref = b0.ref /\ b.rx = b0.rx /\ b.life = b0.life /\ b.cn = b0.cn
          /\ b.users = b0.users /\ b.st = "CLOSED" /\ ~b.ok
      BY <2>3, <2>6 DEF ClientAcb
    <2> HIDE DEF b
    <2>8. Bearable(b0, b)
      BY <2>7, ClosedBearable DEF b0
    <2>9. Turns(cli, d, a, b) /\ (b.st \in Grouped => b.rx = "recv" /\ ~b.cancel)
      BY <1>2, <2>5, <2>7 DEF Turns, Grouped, Ages, Young, b0
    <2>10. RejectConf(cli, a) = d
      BY <1>2 DEF RejectConf, b0
    <2> HIDE DEF d
    <2>11. QED
      BY <2>7, <2>8, <2>9, <2>10 DEF Event, b0
  <1>3. QED
    BY <1>1, <1>2

LEMMA ShutdownIndEvent ==
  ASSUME ClientInv, NEW a \in Conns, cli.acb[a].rx = "recv", ~cli.acb[a].cancel
  PROVE  Event(ShutdownInd(cli, a), a)
  <1> DEFINE b0 == cli.acb[a]
             b1 == [b0 EXCEPT !.shut = TRUE]
             d1 == [cli EXCEPT !.acb[a].shut = TRUE]
             b2 == [b0 EXCEPT !.grp = 0, !.cancel = @ \/ b0.cn = "OPEN", !.st = "CLOSED", !.ok = FALSE]
             d2 == RemMarkAbort(cli, a, FALSE)
  <1>1. cli \in Client /\ b0 \in ClientAcb /\ Lists(cli.acb, cli.grp, Grouped)
    BY DEF ClientInv, ClientTypes, Client, ClientLists
  <1>2. CASE b0.st \in Grouped /\ ShutdownInd(cli, a) = d1
    <2>1. d1 = [cli EXCEPT !.acb[a] = b1]
      BY <1>1 DEF Client
    <2> HIDE DEF b0
    <2>2. b1 \in ClientAcb /\ b1.ref = b0.ref /\ b1.rx = b0.rx /\ b1.life = b0.life
          /\ b1.cn = b0.cn /\ b1.users = b0.users /\ b1.st = b0.st /\ b1.ok = b0.ok
          /\ b1.syn = b0.syn /\ b1.cancel = b0.cancel /\ b1.grp = b0.grp
      BY <1>1 DEF ClientAcb
    <2> HIDE DEF b1, d1
    <2>3. Becomes(cli, d1, a, b1)
      BY <1>1, <2>1, <2>2, AcbExcept
    <2>4. Turns(cli, d1, a, b1) /\ (b1.st \in Grouped => b1.rx = "recv" /\ ~b1.cancel)
      BY <1>1, <1>2, <2>2, <2>3 DEF Turns, Ages, Young, Grouped, AcbOK, ClientInv, AcbInv, b0
    <2>5. Bearable(b0, b1)
      BY <2>2 DEF Bearable, CallerOK
    <2>6. QED
      BY <1>2, <2>2, <2>4, <2>5 DEF Event, Grouped, b0
  <1>3. CASE ShutdownInd(cli, a) = d2
    <2>1. BecomesAlone(cli, d2, a, b2)
      BY <1>1, RemMarkAbortShape
    <2> HIDE DEF b0
    <2>2. b2.ref = b0.ref /\ b2.rx = b0.rx /\ b2.life = b0.life
          /\ b2.cn = b0.cn /\ b2.users = b0.users /\ b2.st = "CLOSED" /\ ~b2.ok
      BY <1>1 DEF ClientAcb
    <2> HIDE DEF b2, d2
    <2>3. Turns(cli, d2, a, b2) /\ (b2.st \in Grouped => b2.rx = "recv" /\ ~b2.cancel)
      BY <2>1, <2>2 DEF Turns, Grouped, Ages, Young, b0
    <2>4. Bearable(b0, b2)
      BY <2>2, ClosedBearable DEF b0
    <2>5. QED
      BY <1>3, <2>2, <2>3, <2>4 DEF Event, b0
  <1>4. CASE ShutdownInd(cli, a) = cli
    BY <1>4, NoEvent
  <1>5. \/ b0.st \in Grouped /\ ShutdownInd(cli, a) = d1
        \/ ShutdownInd(cli, a) = d2 \/ ShutdownInd(cli, a) = cli
    <2>1. CASE b0.st = "OPEN"
      <3>1. ShutdownInd(cli, a) = d1 \/ ShutdownInd(cli, a) = d2
        BY <2>1 DEF ShutdownInd, ShutdownIfAllowed
      <3>2. QED
        BY <2>1, <3>1 DEF Grouped
    <2>2. CASE b0.st = "ACTIVE"
      BY <2>2 DEF ShutdownInd, Grouped
    <2>3. CASE b0.st # "OPEN" /\ b0.st # "ACTIVE"
      BY <2>3 DEF ShutdownInd
    <2>4. QED
      BY <2>1, <2>2, <2>3
  <1>6. QED
    BY <1>2, <1>3, <1>4, <1>5

\* A packet is received.
LEMMA ReceiverTakesKeeps ==
  ASSUME ClientInv, NEW a \in Conns, ReceiverTakes(a)
  PROVE  ClientInv' /\ Onward
  <1> DEFINE p == Head(net[a].s2c)
             n == [net[a] EXCEPT !.s2c = Tail(net[a].s2c)]
  <1>1. /\ cli.acb[a].rx = "recv" /\ ~cli.acb[a].cancel /\ net[a].s2c # <<>>
        /\ net' = [net EXCEPT ![a].s2c = Tail(@)] /\ UNCHANGED calls
    BY DEF ReceiverTakes
  <1>2. net \in [Conns -> Connection] /\ net[a] \in Connection /\ thr \in [Threads -> Caller]
    BY DEF ClientInv, ClientTypes, NetTypes
  <1>3. p \in ServerPacket /\ Tail(net[a].s2c) \in Seq(ServerPacket)
    <2>1. net[a].s2c \in Seq(ServerPacket)
      BY <1>2 DEF Connection
    <2>2. QED
      BY <1>1, <2>1
  <1>4. NetTypes'
    <2>1. n \in Connection
      BY <1>2, <1>3 DEF Connection
    <2>2. net' = [net EXCEPT ![a] = n]
      BY <1>1
    <2> HIDE DEF n
    <2>3. QED
      BY <1>2, <2>1, <2>2 DEF NetTypes
  <1>5. p.type \in {"ack", "nak", "shutdown", "response"} /\ p.group \in 0..MaxConns
    <2> HIDE DEF p
    <2>1. QED
      BY <1>3 DEF ServerPacket
  <1>6. Event(cli', a)
    <2>1. cli' = CASE p.type = "ack" -> AcceptConf(cli, a, p.group)
                   [] p.type = "nak" -> RejectConf(cli, a)
                   [] p.type = "shutdown" -> ShutdownInd(cli, a)
                   [] p.type = "response" -> cli
      BY DEF ReceiverTakes
    <2>2. CASE p.type = "ack"
      <3>1. cli' = AcceptConf(cli, a, p.group)
        BY <2>1, <2>2
      <3>2. QED
        BY <1>1, <1>5, <2>2, <3>1, AcceptConfEvent
    <2> HIDE DEF p
    <2>3. CASE p.type = "nak"
      BY <1>1, <2>1, <2>3, RejectConfEvent
    <2>4. CASE p.type = "shutdown"
      BY <1>1, <2>1, <2>4, ShutdownIndEvent
    <2>5. CASE p.type = "response"
      BY <2>1, <2>5, NoEvent
    <2>6. QED
      BY <1>5, <2>2, <2>3, <2>4, <2>5
  <1>7. PICK b : /\ Turns(cli, cli', a, b)
                 /\ b.ref = cli.acb[a].ref /\ b.rx = cli.acb[a].rx /\ b.life = cli.acb[a].life
                 /\ b.cn = cli.acb[a].cn /\ (b.st \in Grouped => b.rx = "recv" /\ ~b.cancel)
                 /\ b.st = "INIT_WAIT" => cli.acb[a].st = "INIT_WAIT" /\ b.ok
                 /\ Bearable(cli.acb[a], b)
    BY <1>6 DEF Event
  <1>8. /\ thr' \in [Threads -> Caller]
        /\ \A t \in Threads : /\ thr'[t].a = thr[t].a
                              /\ thr'[t].pc = thr[t].pc \/ (thr[t].pc = "wait" /\ thr'[t].pc = "reply")
    <2> DEFINE owners == {t \in cli.acb[a].owner : thr[t].pc = "wait" /\ thr[t].call = p.call}
    <2>1. thr' = [t \in Threads |-> IF p.type = "response" /\ t \in owners
                                    THEN [thr[t] EXCEPT !.pc = "reply"] ELSE thr[t]]
      BY DEF ReceiverTakes
    <2>2. \A t \in owners : thr[t].pc = "wait"
      OBVIOUS
    <2> HIDE DEF owners, p
    <2>3. ASSUME NEW t \in Threads
          PROVE  /\ thr'[t] \in Caller /\ thr'[t].a = thr[t].a
                 /\ thr'[t].pc = thr[t].pc \/ (thr[t].pc = "wait" /\ thr'[t].pc = "reply")
      <3>1. CASE p.type = "response" /\ t \in owners
        <4>1. thr'[t] = [thr[t] EXCEPT !.pc = "reply"] /\ thr[t] \in Caller
          BY <1>2, <2>1, <3>1
        <4>2. QED
          BY <2>2, <3>1, <4>1 DEF Caller
      <3>2. CASE ~(p.type = "response" /\ t \in owners)
        <4>1. thr'[t] = thr[t] /\ thr[t] \in Caller
          BY <1>2, <2>1, <3>2
        <4>2. QED
          BY <4>1
      <3>3. QED
        BY <3>1, <3>2
    <2>4. QED
      BY <2>1, <2>3
  <1>9. CallerInv' /\ AcbInv' /\ ClientLists' /\ Onward /\ cli' \in Client
    <2>1. Changes(a, b)
      BY <1>7 DEF Changes
    <2>2. QED
      BY <1>7, <1>8, <2>1, EventStep
  <1>10. QED
    BY <1>1, <1>4, <1>8, <1>9 DEF ClientInv, ClientTypes

\* NO_CONN_IND: the association has left its group, and callers find an error.
LEMMA NoConnIndShape ==
  ASSUME ClientInv, NEW a \in Conns, cli.acb[a].rx = "recv"
  PROVE  \E b \in ClientAcb :
           /\ Turns(cli, NoConnInd(cli, a), a, b) /\ NoConnInd(cli, a) \in Client
           /\ NoConnInd(cli, a).acb[a] = b
           /\ b.ref = cli.acb[a].ref /\ b.life = cli.acb[a].life
           /\ b.st \notin Grouped /\ b.st # "INIT_WAIT" /\ Bearable(cli.acb[a], b)
  <1> DEFINE b0 == cli.acb[a]
             e == NoConnInd(cli, a)
             b1 == [b0 EXCEPT !.grp = 0]
             b2 == [b1 EXCEPT !.st = "CLOSED", !.ok = FALSE]
             b3 == [b2 EXCEPT !.st = "CALL_DONE_WAIT"]
             b4 == [b0 EXCEPT !.st = "CLOSED", !.ok = FALSE]
             d1 == RemFromGroup(cli, a)
             d2 == MarkAssoc(d1, a, FALSE)
             d3 == [d2 EXCEPT !.acb[a].st = "CALL_DONE_WAIT"]
             d4 == MarkAssoc(cli, a, FALSE)
  <1>1. cli \in Client /\ b0 \in ClientAcb /\ Lists(cli.acb, cli.grp, Grouped)
        /\ cli.acb \in [Conns -> ClientAcb]
    BY DEF ClientInv, ClientTypes, Client, ClientLists
  <1>2. BecomesAlone(cli, d1, a, b1)
    BY <1>1, RemFromGroupShape
  <1>3. d1 \in Client /\ d1.acb[a] = b1 /\ b1 \in ClientAcb
    BY <1>1, <1>2 DEF BecomesAlone
  <1>4. Becomes(d1, d2, a, b2)
    <2>1. Becomes(d1, MarkAssoc(d1, a, FALSE), a, [d1.acb[a] EXCEPT !.st = "CLOSED", !.ok = FALSE])
      BY <1>3, MarkShape
    <2>2. QED
      BY <1>3, <2>1
  <1>5. BecomesAlone(cli, d2, a, b2)
    <2> HIDE DEF d1, d2, b1, b2
    <2>1. QED
      BY <1>1, <1>2, <1>4, BecomesTwice
  <1>6. d2 \in Client /\ d2.acb[a] = b2 /\ b2 \in ClientAcb
    BY <1>1, <1>5 DEF BecomesAlone
  <1>7. b1.ref = b0.ref /\ b1.life = b0.life /\ b1.users = b0.users /\ b1.cn = b0.cn
    <2> HIDE DEF b0
    <2>1. QED
      BY <1>1 DEF ClientAcb
  <1>8. b2.ref = b0.ref /\ b2.life = b0.life /\ b2.users = b0.users
        /\ b2.st = "CLOSED" /\ ~b2.ok /\ b2.cn = b0.cn
    <2> HIDE DEF b0, b1
    <2>1. QED
      BY <1>3, <1>7 DEF ClientAcb
  <1>9. CASE b0.st = "INIT_WAIT"
    <2>1. Becomes(cli, d4, a, b4) /\ e = d4
      BY <1>1, <1>9, MarkShape DEF NoConnInd
    <2> HIDE DEF e, d4, b0
    <2>2. b4 \in ClientAcb /\ b4.ref = b0.ref /\ b4.life = b0.life /\ b4.users = b0.users
          /\ b4.st = "CLOSED" /\ ~b4.ok /\ b4.cn = b0.cn
      BY <1>1 DEF ClientAcb
    <2> HIDE DEF b4
    <2>3. Bearable(b0, b4)
      BY <2>2, ClosedBearable DEF b0
    <2>4. Turns(cli, e, a, b4) /\ b4.st \notin Grouped
      BY <1>9, <2>1, <2>2 DEF Turns, Grouped, Ages, Young, b0
    <2>5. e \in Client /\ e.acb[a] = b4
      BY <1>1, <2>1 DEF Becomes
    <2>6. QED
      BY <2>2, <2>3, <2>4, <2>5 DEF e, b0
  <1>10. CASE b0.st = "OPEN"
    <2>1. e = d2
      BY <1>10 DEF NoConnInd
    <2> HIDE DEF e, d2, b0, b2
    <2>2. Bearable(b0, b2)
      BY <1>8, ClosedBearable DEF b0
    <2>3. Turns(cli, e, a, b2) /\ b2.st \notin Grouped
      BY <1>5, <1>8, <2>1 DEF Turns, Grouped, Ages, Young, b0
    <2>4. QED
      BY <1>6, <1>8, <2>1, <2>2, <2>3 DEF e, b0
  <1>11. CASE b0.st = "ACTIVE"
    <2>1. e = d3
      BY <1>11 DEF NoConnInd
    <2> HIDE DEF e, d2, b0, b2
    <2>2. d3 = [d2 EXCEPT !.acb[a] = b3]
      BY <1>6 DEF Client
    <2>3. b3 \in ClientAcb /\ b3.ref = b2.ref /\ b3.life = b2.life /\ b3.users = b2.users
          /\ b3.st = "CALL_DONE_WAIT" /\ b3.cn = b2.cn
      BY <1>6 DEF ClientAcb
    <2> HIDE DEF b3, d3
    <2>4. Becomes(d2, d3, a, b3)
      BY <1>6, <2>2, <2>3, AcbExcept
    <2>5. BecomesAlone(cli, d3, a, b3)
      BY <1>1, <1>5, <2>4, BecomesTwice
    <2>6. Bearable(b0, b3)
      BY <1>8, <1>11, <2>3, ClosedBearable DEF b0
    <2>7. Turns(cli, e, a, b3) /\ b3.st \notin Grouped
      BY <1>8, <2>1, <2>3, <2>5 DEF Turns, Grouped, Ages, Young, b0
    <2>8. e \in Client /\ e.acb[a] = b3
      BY <1>1, <2>1, <2>5 DEF BecomesAlone
    <2>9. QED
      BY <1>8, <2>3, <2>6, <2>7, <2>8 DEF e, b0
  <1>12. CASE b0.st \notin {"INIT_WAIT", "OPEN", "ACTIVE"}
    <2>1. e = cli
      BY <1>12 DEF NoConnInd
    <2>2. Becomes(cli, cli, a, b0)
      <3>1. cli.acb = [cli.acb EXCEPT ![a] = b0]
        BY <1>1
      <3>2. QED
        BY <1>1, <3>1 DEF Becomes
    <2>3. Turns(cli, e, a, b0) /\ b0.st \notin Grouped
      BY <1>12, <2>1, <2>2 DEF Turns, Grouped, Ages
    <2>4. Bearable(b0, b0)
      BY DEF Bearable
    <2>5. QED
      BY <1>1, <1>12, <2>1, <2>3, <2>4
  <1>13. QED
    BY <1>9, <1>10, <1>11, <1>12

\* The change within the group or out of it, and then one to a block that is in none
LEMMA TurnsTwice ==
  ASSUME NEW c \in Client, NEW a \in Conns, NEW d, NEW e, NEW b, NEW b2,
         Turns(c, d, a, b), b.st \notin Grouped, b2.st \notin Grouped, Becomes(d, e, a, b2),
         Ages(a, b, b2)
  PROVE  Turns(c, e, a, b2)
  <1>1. Ages(a, c.acb[a], b2)
    BY DEF Turns, Ages
  <1>2. CASE Becomes(c, d, a, b) /\ c.acb[a].st \notin Grouped
    <2>1. Becomes(c, e, a, b2)
      BY <1>2, BecomesTwice
    <2>2. QED
      BY <1>1, <1>2, <2>1 DEF Turns
  <1>3. CASE BecomesAlone(c, d, a, b)
    <2>1. BecomesAlone(c, e, a, b2)
      BY <1>3, BecomesTwice
    <2>2. QED
      BY <1>1, <2>1 DEF Turns
  <1>4. QED
    BY <1>2, <1>3 DEF Turns, AckTaken, BecomesMember

\* The receiver closes its end of the connection and gives the association up.
LEMMA ReceiverEndsKeeps ==
  ASSUME ClientInv, NEW a \in Conns, ReceiverEnds(a)
  PROVE  ClientInv' /\ Onward
  <1> DEFINE b0 == cli.acb[a]
             c == IF b0.cancel THEN cli ELSE NoConnInd(cli, a)
             n == [net[a] EXCEPT !.up = FALSE, !.s2c = <<>>]
  <1>1. /\ b0.rx = "recv" /\ net' = [net EXCEPT ![a] = n] /\ UNCHANGED <<thr, calls>>
        /\ cli' = DeallocAcb([c EXCEPT !.acb[a] = [c.acb[a] EXCEPT !.cn = "CLOSED", !.rx = "done",
                                                                   !.cancel = FALSE]], a)
    BY DEF ReceiverEnds
  <1>2. cli \in Client /\ b0 \in ClientAcb /\ AcbOK(b0, Held(a)) /\ Held(a) \in Nat
        /\ thr \in [Threads -> Caller] /\ net \in [Conns -> Connection] /\ cli.acb \in [Conns -> ClientAcb]
    BY DEF ClientInv, ClientTypes, NetTypes, Client, AcbInv, Held
  <1>3. PICK b1 \in ClientAcb :
          /\ Turns(cli, c, a, b1) /\ c \in Client /\ c.acb[a] = b1
          /\ b1.ref = b0.ref /\ b1.life = b0.life
          /\ b1.st \notin Grouped /\ Bearable(b0, b1) /\ (b1.st = "INIT_WAIT" => b1.ok)
    <2>1. CASE b0.cancel
      <3>1. Becomes(cli, cli, a, b0)
        <4>1. cli.acb = [cli.acb EXCEPT ![a] = b0]
          BY <1>2
        <4>2. QED
          BY <1>2, <4>1 DEF Becomes
      <3>2. b0.st \notin Grouped
        BY <1>2, <2>1 DEF AcbOK
      <3>3. Turns(cli, cli, a, b0)
        BY <3>1, <3>2 DEF Turns, Ages
      <3>4. Bearable(b0, b0) /\ (b0.st = "INIT_WAIT" => b0.ok)
        BY <1>2 DEF Bearable, AcbOK
      <3>5. QED
        BY <1>2, <2>1, <3>2, <3>3, <3>4
    <2>2. CASE ~b0.cancel
      <3>1. c = NoConnInd(cli, a)
        BY <2>2
      <3>2. QED
        BY <1>1, <3>1, NoConnIndShape
    <2>3. QED
      BY <2>1, <2>2
  <1> HIDE DEF c
  <1> DEFINE b2 == [b1 EXCEPT !.cn = "CLOSED", !.rx = "done", !.cancel = FALSE]
             d == [c EXCEPT !.acb[a] = b2]
             b3 == AfterDealloc(b2)
  <1>4. b2 \in ClientAcb /\ b2.ref = b0.ref /\ b2.life = b0.life /\ b2.st = b1.st /\ b2.rx = "done"
        /\ ~b2.cancel /\ b2.cn = "CLOSED" /\ b2.users = b1.users /\ b2.ok = b1.ok /\ b2.syn = b1.syn
    <2> HIDE DEF b0
    <2>1. QED
      BY <1>3, ZenonT(60) DEF ClientAcb
  <1>5. cli' = DeallocAcb(d, a)
    BY <1>1, <1>3
  <1> HIDE DEF b2, b0
  <1>6. Becomes(c, d, a, b2)
    BY <1>3, <1>4, AcbExcept
  <1>7. d \in Client /\ d.acb[a] = b2
    BY <1>3, <1>6 DEF Becomes, Client
  <1> HIDE DEF d
  <1>8. AcbOK(b2, Held(a) + 1)
    <2>1. Receiving(b0) = 1 /\ Receiving(b2) = 0 /\ b2.st \notin Grouped
          /\ (b2.st = "INIT_WAIT" => b2.ok)
      BY <1>1, <1>3, <1>4 DEF Receiving
    <2>2. QED
      BY <1>2, <1>4, <2>1 DEF AcbOK
  <1>9. /\ b3 \in ClientAcb /\ AcbOK(b3, Held(a))
        /\ Held(a) > 0 => b3 = [b2 EXCEPT !.ref = b2.ref - 1]
        /\ b3.life = "new" => b2.life = "new"
        /\ Young(b3) => Young(b2)
        /\ b3.st \in {b2.st, "CLOSED"}
    BY <1>2, <1>4, <1>8, AfterDeallocOK
  <1>10. Becomes(d, cli', a, b3)
    <2>1. Becomes(d, DeallocAcb(d, a), a, AfterDealloc(d.acb[a]))
      BY <1>7, DeallocAcbShape
    <2>2. QED
      BY <1>5, <1>7, <2>1
  <1>11. Changes(a, b3)
    <2> HIDE DEF b3
    <2>1. Turns(cli, d, a, b2)
      <3>1. b1.life = b2.life /\ b1.st = b2.st /\ b2.cn = "CLOSED"
        BY <1>3, <1>4
      <3>2. Ages(a, b1, b2)
        BY <3>1 DEF Ages, Young
      <3>3. QED
        BY <1>2, <1>3, <1>6, <3>1, <3>2, TurnsTwice
    <2>2. b2.st \notin Grouped /\ b3.st \notin Grouped /\ Ages(a, b2, b3)
      BY <1>3, <1>4, <1>9 DEF Grouped, Ages
    <2>3. Turns(cli, cli', a, b3)
      BY <1>2, <1>10, <2>1, <2>2, TurnsTwice
    <2>4. QED
      BY <2>3 DEF Changes
  <1>12. ASSUME NEW t \in Threads, thr[t].a = a PROVE CallerOK(thr[t], b3)
    <2>1. CallerOK(thr[t], b0) /\ thr[t] \in Caller
      BY <1>2, <1>12 DEF ClientInv, CallerInv, b0, Conns
    <2>2. CallerOK(thr[t], b1) /\ thr[t].pc # "connect"
      BY <1>1, <1>3, <2>1 DEF Bearable, CallerOK
    <2>3. Held(a) > 0
      BY <1>12 DEF Held
    <2>4. b3.users = b1.users /\ b3.st = b1.st /\ b3.ok = b1.ok /\ b3.syn = b1.syn
      <3>1. b3 = [b2 EXCEPT !.ref = b2.ref - 1]
        BY <1>9, <2>3
      <3> HIDE DEF b3
      <3>2. QED
        BY <1>4, <3>1 DEF ClientAcb
    <2> HIDE DEF b3
    <2>5. QED
      BY <2>2, <2>4 DEF CallerOK
  <1> HIDE DEF b3
  <1>13. CallerInv' /\ AcbInv' /\ ClientLists' /\ Onward /\ cli' \in Client
    BY <1>1, <1>2, <1>9, <1>11, <1>12, ReceiverStep
  <1>14. NetTypes'
    <2>1. n \in Connection
      <3>1. net[a] \in Connection /\ <<>> \in Seq(ServerPacket)
        BY <1>2
      <3>2. QED
        BY <3>1 DEF Connection
    <2> HIDE DEF n
    <2>2. QED
      BY <1>1, <1>2, <2>1 DEF NetTypes
  <1>15. QED
    BY <1>1, <1>2, <1>13, <1>14 DEF ClientInv, ClientTypes

\* The timer ends an association that nobody uses.
LEMMA ClientReclaimsKeeps ==
  ASSUME ClientInv, NEW g \in Conns, ClientReclaims(g)
  PROVE  ClientInv' /\ Onward
  <1>1. PICK a \in Idle(cli.grp[g].list, cli.acb) :
          cli' = IF cli.acb[a].reqs <= MaxShutdowns
                 THEN [ShutdownIfAllowed(cli, a, TRUE) EXCEPT !.acb[a].reqs = @ + 1]
                 ELSE RemMarkAbort(cli, a, FALSE)
    BY DEF ClientReclaims
  <1> DEFINE b0 == cli.acb[a]
             B(ok) == [b0 EXCEPT !.grp = 0, !.cancel = @ \/ b0.cn = "OPEN", !.st = "CLOSED", !.ok = ok]
             D(ok) == RemMarkAbort(cli, a, ok)
  <1>2. a \in Members(cli.grp[g].list) /\ b0.users = 0
    BY DEF Idle
  <1>3. a \in Conns /\ b0 \in ClientAcb /\ b0.grp = g /\ \A t \in Threads : thr[t].a # a
    BY <1>2, Member, Nobody
  <1>4. cli \in Client /\ Lists(cli.acb, cli.grp, Grouped) /\ MayShrink(cli.grp[g])
        /\ thr \in [Threads -> Caller] /\ cli.acb \in [Conns -> ClientAcb]
        /\ UNCHANGED <<thr, calls, net>>
    BY DEF ClientInv, ClientTypes, ClientLists, ClientReclaims, Client
  <1>5. \A ok \in BOOLEAN : BecomesAlone(cli, D(ok), a, B(ok))
    BY <1>3, <1>4, RemMarkAbortShape
  <1>6. ShutdownIfAllowed(cli, a, TRUE) = D(TRUE)
    BY <1>3, <1>4 DEF ShutdownIfAllowed
  <1> HIDE DEF b0
  <1>7. \A ok \in BOOLEAN : B(ok).ref = b0.ref /\ B(ok).rx = b0.rx /\ B(ok).life = b0.life
          /\ B(ok).cn = b0.cn /\ B(ok).st = "CLOSED"
    BY <1>3 DEF ClientAcb
  <1> HIDE DEF B, D
  <1>8. PICK b : /\ BecomesAlone(cli, cli', a, b) /\ b.ref = b0.ref /\ b.rx = b0.rx
                 /\ b.life = b0.life /\ b.cn = b0.cn /\ b.st = "CLOSED"
    <2>1. CASE ~(cli.acb[a].reqs <= MaxShutdowns)
      <3>1. cli' = D(FALSE)
        BY <1>1, <2>1 DEF D
      <3>2. QED
        BY <1>5, <1>7, <3>1
    <2>2. CASE cli.acb[a].reqs <= MaxShutdowns
      <3> DEFINE d == D(TRUE)
                 b == B(TRUE)
                 b2 == [b EXCEPT !.reqs = b.reqs + 1]
      <3>1. BecomesAlone(cli, d, a, b) /\ b.st = "CLOSED" /\ b.ref = b0.ref /\ b.rx = b0.rx
            /\ b.life = b0.life /\ b.cn = b0.cn
        BY <1>5, <1>7
      <3>2. cli' = [d EXCEPT !.acb[a].reqs = d.acb[a].reqs + 1]
        BY <1>1, <1>6, <2>2
      <3> HIDE DEF d, b
      <3>3. d \in Client /\ d.acb[a] = b /\ b \in ClientAcb
        BY <1>3, <1>4, <3>1 DEF BecomesAlone
      <3>4. b2 \in ClientAcb /\ b2.st = b.st /\ b2.ref = b.ref /\ b2.rx = b.rx /\ b2.life = b.life
            /\ b2.cn = b.cn
        BY <3>3 DEF ClientAcb
      <3>5. cli' = [d EXCEPT !.acb[a] = b2]
        BY <3>2, <3>3
      <3> HIDE DEF b2
      <3>6. Becomes(d, cli', a, b2)
        BY <1>3, <3>3, <3>4, <3>5, AcbExcept
      <3>7. BecomesAlone(cli, cli', a, b2)
        BY <1>3, <1>4, <3>1, <3>6, BecomesTwice
      <3>8. QED
        BY <3>1, <3>4, <3>7
    <2>3. QED
      BY <2>1, <2>2
  <1>9. Changes(a, b)
    BY <1>8 DEF Changes, Turns, Ages, Young, Grouped, b0
  <1>10. b.st \notin Grouped
    BY <1>8 DEF Grouped
  <1>11. CallerInv' /\ AcbInv' /\ ClientLists' /\ Onward /\ cli' \in Client
    BY <1>3, <1>4, <1>8, <1>9, <1>10, EventStep DEF b0
  <1>12. QED
    BY <1>4, <1>11 DEF ClientInv, ClientTypes, NetTypes

-----------------------------------------------------------------------------
(* The client's part of the invariant *)

\* What the server sends
LEMMA ToClientType ==
  ASSUME NEW n \in [Conns -> Connection], NEW a \in Conns, NEW p \in ServerPacket
  PROVE  ToClient(n, a, p) \in [Conns -> Connection]
  <1>1. n[a] \in Connection /\ n[a].s2c \in Seq(ServerPacket)
    BY DEF Connection
  <1>2. Append(n[a].s2c, p) \in Seq(ServerPacket)
    BY <1>1
  <1> DEFINE k == [n[a] EXCEPT !.s2c = Append(n[a].s2c, p)]
  <1>3. k \in Connection
    BY <1>1, <1>2 DEF Connection
  <1>4. ToClient(n, a, p) = n \/ ToClient(n, a, p) = [n EXCEPT ![a] = k]
    BY DEF ToClient
  <1> HIDE DEF k
  <1>5. QED
    BY <1>3, <1>4

\* A packet is taken off the connection by the server.
LEMMA TakenType ==
  ASSUME NEW n \in [Conns -> Connection], NEW a \in Conns, n[a].c2s # <<>>
  PROVE  /\ [n EXCEPT ![a].c2s = Tail(@)] \in [Conns -> Connection]
         /\ Head(n[a].c2s) \in ClientPacket
  <1>1. n[a] \in Connection /\ n[a].c2s \in Seq(ClientPacket)
    BY DEF Connection
  <1>2. Tail(n[a].c2s) \in Seq(ClientPacket) /\ Head(n[a].c2s) \in ClientPacket
    BY <1>1
  <1> DEFINE k == [n[a] EXCEPT !.c2s = Tail(n[a].c2s)]
  <1>3. k \in Connection
    BY <1>1, <1>2 DEF Connection
  <1>4. [n EXCEPT ![a].c2s = Tail(@)] = [n EXCEPT ![a] = k]
    OBVIOUS
  <1> HIDE DEF k
  <1>5. QED
    BY <1>2, <1>3, <1>4

LEMMA ServerNet ==
  ASSUME NetTypes,
         \/ \E a \in Conns : ServerReceiver(a) \/ ServerReclaims(a)
         \/ \E c \in Calls : ExecutorStep(c)
  PROVE  NetTypes'
  <1>1. net \in [Conns -> Connection]
    BY DEF NetTypes
  <1>2. 0 \in 0..MaxConns /\ 0 \in 0..MaxCalls
    BY BindAssumption
  <1>3. ASSUME NEW a \in Conns, Accepts(a) PROVE NetTypes'
    BY <1>1, <1>3 DEF Accepts, NetTypes
  <1>4. ASSUME NEW a \in Conns, ServerTakes(a) PROVE NetTypes'
    <2> DEFINE n == [net EXCEPT ![a].c2s = Tail(@)]
               p == Head(net[a].c2s)
    <2>1. n \in [Conns -> Connection] /\ p \in ClientPacket
      BY <1>1, <1>4, TakenType DEF ServerTakes
    <2>2. p.group \in 0..MaxConns /\ a \in 0..MaxConns
      BY <2>1 DEF ClientPacket, Conns
    <2>3. BindAck(p.group) \in ServerPacket /\ BindAck(a) \in ServerPacket /\ BindNak \in ServerPacket
      BY <1>2, <2>2 DEF BindAck, BindNak, Message, ServerPacket
    <2>4. \/ net' = n \/ net' = ToClient(n, a, BindAck(p.group))
          \/ net' = ToClient(n, a, BindAck(a)) \/ net' = ToClient(n, a, BindNak)
      BY <1>4 DEF ServerTakes, BindInd
    <2> HIDE DEF n, p
    <2>5. QED
      BY <2>1, <2>3, <2>4, ToClientType DEF NetTypes
  <1>5. ASSUME NEW a \in Conns, ServerEnds(a) PROVE NetTypes'
    <2> DEFINE k == [net[a] EXCEPT !.up = FALSE, !.c2s = <<>>]
    <2>1. net[a] \in Connection /\ <<>> \in Seq(ClientPacket)
      BY <1>1
    <2>2. k \in Connection
      BY <2>1 DEF Connection
    <2>3. net' = [net EXCEPT ![a] = k]
      BY <1>5 DEF ServerEnds
    <2> HIDE DEF k
    <2>4. QED
      BY <1>1, <2>2, <2>3 DEF NetTypes
  <1>6. ASSUME NEW g \in Conns, ServerReclaims(g) PROVE NetTypes'
    <2>1. Shutdown \in ServerPacket
      BY <1>2 DEF Shutdown, Message, ServerPacket
    <2>2. PICK a \in Idle(srv.grp[g].list, srv.acb) : net' = net \/ net' = ToClient(net, a, Shutdown)
      BY <1>6 DEF ServerReclaims
    <2>3. CASE a \in Conns
      BY <1>1, <2>1, <2>2, <2>3, ToClientType DEF NetTypes
    <2>4. CASE a \notin Conns
      <3>1. net' = net \/ net' = [net EXCEPT ![a].s2c = Append(@, Shutdown)]
        BY <2>2 DEF ToClient
      <3>2. net' = net
        BY <1>1, <2>4, <3>1
      <3>3. QED
        BY <1>1, <3>2 DEF NetTypes
    <2>5. QED
      BY <2>3, <2>4
  <1>7. ASSUME NEW c \in Calls, ExecutorStep(c) PROVE NetTypes'
    <2>1. Response(c) \in ServerPacket
      BY <1>2 DEF Response, Message, ServerPacket, Calls
    <2>2. net' = net \/ net' = ToClient(net, ex[c].a, Response(c))
      BY <1>7 DEF ExecutorStep, Responds, ExecutorEnds
    <2>3. CASE ex[c].a \in Conns
      BY <1>1, <2>1, <2>2, <2>3, ToClientType DEF NetTypes
    <2>4. CASE ex[c].a \notin Conns
      <3>1. net' = net \/ net' = [net EXCEPT ![ex[c].a].s2c = Append(@, Response(c))]
        BY <2>2 DEF ToClient
      <3>2. net' = net
        BY <1>1, <2>4, <3>1
      <3>3. QED
        BY <1>1, <3>2 DEF NetTypes
    <2>5. QED
      BY <2>3, <2>4
  <1>8. QED
    BY <1>3, <1>4, <1>5, <1>6, <1>7 DEF ServerReceiver

LEMMA BreaksNet ==
  ASSUME NetTypes, NEW a \in Conns, Breaks(a)
  PROVE  NetTypes'
  <1>1. net \in [Conns -> Connection] /\ net[a] \in Connection
    BY DEF NetTypes
  <1>2. PICK n \in {net[a], [net[a] EXCEPT !.c2s = <<>>, !.s2c = <<>>]} :
          net' = [net EXCEPT ![a] = [n EXCEPT !.up = FALSE]]
    BY DEF Breaks
  <1>3. n \in Connection
    <2>1. <<>> \in Seq(ClientPacket) /\ <<>> \in Seq(ServerPacket)
      OBVIOUS
    <2>2. QED
      BY <1>1, <2>1 DEF Connection
  <1>4. [n EXCEPT !.up = FALSE] \in Connection
    BY <1>3 DEF Connection
  <1>5. QED
    BY <1>1, <1>2, <1>4 DEF NetTypes

LEMMA ClientInvInit == Init => ClientInv
  <1> SUFFICES ASSUME Init PROVE ClientInv
    OBVIOUS
  <1>1. 0 \in 0..MaxConns /\ 0 \in 0..MaxCalls /\ <<>> \in Seq(Conns)
        /\ <<>> \in Seq(ClientPacket) /\ <<>> \in Seq(ServerPacket)
    BY BindAssumption
  <1>2. NewAcb \in ClientAcb /\ NoGroup \in ClientGroup /\ IdleThread \in Caller
    BY <1>1, NewAcbType DEF NoGroup, ClientGroup, IdleThread, Caller
  <1>3. ClientTypes
    <2>1. cli = [acb |-> [a \in Conns |-> NewAcb], grp |-> [a \in Conns |-> NoGroup]]
          /\ thr = [t \in Threads |-> IdleThread] /\ calls = 0
      BY DEF Init, ClientInit
    <2>2. QED
      BY <1>1, <1>2, <2>1 DEF ClientTypes, Client
  <1>4. NetTypes
    <2>1. [up |-> FALSE, c2s |-> <<>>, s2c |-> <<>>] \in Connection
      BY <1>1 DEF Connection
    <2>2. QED
      BY <2>1 DEF NetTypes, Init, NetInit
  <1>5. \A t \in Threads : thr[t] = IdleThread
    BY DEF Init, ClientInit
  <1>6. \A a \in Conns : cli.acb[a] = NewAcb /\ cli.grp[a] = NoGroup
    BY DEF Init, ClientInit
  <1>7. CallerInv
    BY <1>5 DEF CallerInv, IdleThread, Unheld
  <1>8. AcbInv
    <2>1. \A a \in Conns : Held(a) = 0
      BY <1>5 DEF Held, IdleThread, Conns
    <2>2. AcbOK(NewAcb, 0)
      BY DEF AcbOK, NewAcb, Receiving, Grouped
    <2>3. QED
      BY <1>6, <2>1, <2>2 DEF AcbInv
  <1>9. ClientLists
    <2>1. Members(NoGroup.list) = {} /\ NoDup(NoGroup.list) /\ NoGroup.list = <<>> /\ NoGroup.st # "ACTIVE"
      BY DEF Members, NoDup, NoGroup
    <2>2. QED
      BY <1>6, <2>1 DEF ClientLists, Lists
  <1>10. QED
    BY <1>3, <1>4, <1>7, <1>8, <1>9 DEF ClientInv

LEMMA ClientInvNext == ClientInv /\ [Next]_vars => ClientInv' /\ Onward
  <1> SUFFICES ASSUME ClientInv, [Next]_vars PROVE ClientInv' /\ Onward
    OBVIOUS
  <1>1. ASSUME UNCHANGED clientVars, NetTypes' PROVE ClientInv' /\ Onward
    <2>1. UNCHANGED cli
      BY <1>1 DEF clientVars
    <2>2. ClientInv'
      BY <1>1 DEF clientVars, ClientInv, ClientTypes, CallerInv, AcbInv, ClientLists, Held
    <2>3. QED
      BY <2>1, <2>2, StillOnward
  <1>2. NetTypes
    BY DEF ClientInv
  <1>3. CASE UNCHANGED vars
    <2>1. UNCHANGED clientVars /\ UNCHANGED net
      BY <1>3 DEF vars, netVars
    <2>2. QED
      BY <1>1, <1>2, <2>1 DEF NetTypes
  <1>4. ASSUME NEW t \in Threads, CallerRuns(t) \/ Begin(t) \/ CallerStops(t)
        PROVE  ClientInv' /\ Onward
    BY <1>4, CallersApart, ReuseKeeps, OpensKeep, FailuresKeep, ConnectsKeeps, BoundKeeps,
       SendsRequestKeeps, MaintainsKeeps, EndsKeep DEF CallerRuns, CallerStops
  <1>5. ASSUME NEW a \in Conns, ClientReceiver(a) \/ ClientReclaims(a)
        PROVE  ClientInv' /\ Onward
    BY <1>5, ReceiverStartsKeeps, ReceiverTakesKeeps, ReceiverEndsKeeps, ClientReclaimsKeeps
       DEF ClientReceiver
  <1>6. ASSUME NEW a \in Conns, (ServerReceiver(a) \/ ServerReclaims(a)) /\ UNCHANGED clientVars
        PROVE  ClientInv' /\ Onward
    BY <1>1, <1>2, <1>6, ServerNet
  <1>7. ASSUME NEW c \in Calls, ExecutorStep(c) /\ UNCHANGED clientVars
        PROVE  ClientInv' /\ Onward
    BY <1>1, <1>2, <1>7, ServerNet
  <1>8. ASSUME NEW a \in Conns, Breaks(a) PROVE ClientInv' /\ Onward
    BY <1>1, <1>2, <1>8, BreaksNet DEF Breaks
  <1>9. QED
    BY <1>3, <1>4, <1>5, <1>6, <1>7, <1>8 DEF Next, Runs

\* Callers that have an association are counted in it, so nobody else takes it; OneCaller
\* is what rpc__cn_assoc_grp_lkup_by_addr relies on.
LEMMA HoldersHeld ==
  ASSUME ClientInv, NEW a \in Conns
  PROVE  Cardinality(Holders(a)) = Held(a) /\ IsFiniteSet(Holders(a))
  <1>1. CASE Holders(a) = {}
    <2>1. Held(a) = 0
      BY <1>1 DEF Holders, Held
    <2>2. QED
      BY <1>1, <2>1, FS_EmptySet
  <1>2. CASE Holders(a) # {}
    <2>1. PICK t \in Threads : thr[t].a = a
      BY <1>2 DEF Holders
    <2>2. Holders(a) = {t}
      BY <2>1 DEF Holders, ClientInv, CallerInv, Conns
    <2>3. Held(a) = 1
      BY <2>1 DEF Held
    <2>4. QED
      BY <2>2, <2>3, FS_Singleton
  <1>3. QED
    BY <1>1, <1>2

\* An association is used by one call at a time, whoever opens, shares, loses or gives up
\* associations in whatever order (assoc_ref_count).
THEOREM OneCallerHolds == Spec => []OneCaller
  <1>1. ClientInv => OneCaller
    <2> SUFFICES ASSUME ClientInv, NEW a \in Conns PROVE Cardinality(Holders(a)) <= 1
      BY DEF OneCaller
    <2>1. QED
      BY HoldersHeld DEF Held
  <1>2. QED
    BY <1>1, ClientInvInit, ClientInvNext, PTL DEF Spec
=============================================================================
