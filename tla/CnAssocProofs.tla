---------------------------- MODULE CnAssocProofs ----------------------------
(***************************************************************************)
(* Proofs about CnAssoc, the server's half, on top of the client's half in *)
(* CnAssocClientProofs, and both ends together: for every number of        *)
(* threads, connections, calls and faults, both keep an association        *)
(* exactly as long as somebody has it, context handles are not run down    *)
(* under a call, the ends agree about the group of an association, and     *)
(* callers that begin together have one group made for them.               *)
(***************************************************************************)
EXTENDS CnAssocClientProofs

-----------------------------------------------------------------------------
(* What the server's variables hold *)

ServerAcb ==
  [life : {"new", "live", "freed"}, st : {"CLOSED", "OPEN"}, ref : Nat, users : Nat,
   ok : BOOLEAN, grp : 0..MaxConns, reqs : Nat, rx : {"idle", "recv", "done"}, cancel : BOOLEAN]

ServerGroup ==
  [st : {"NEW", "ACTIVE", "CALL_WAIT", "CLOSED"}, list : Seq(Conns), calls : Nat, refs : Nat,
   aborted : BOOLEAN]

Server == [acb : [Conns -> ServerAcb], grp : [Conns -> ServerGroup]]

CallExec ==
  [pc : {"none", "run", "sent", "ended"}, a : 0..MaxConns, grp : 0..MaxConns, orphan : BOOLEAN]

ServerTypes == srv \in Server /\ ex \in [Calls -> CallExec]

\* The calls that an association carries, and those that a group has counted in
On(a) == {c \in Calls : Executing(c) /\ ex[c].a = a}
In(g) == {c \in Calls : Executing(c) /\ ex[c].grp = g}
OnCount(a) == Cardinality(On(a))
InCount(g) == Cardinality(In(g))

\* n executors have the association.
SrvAcbOK(b, n) ==
  /\ b.ref = n + Receiving(b)
  /\ b.life = "live" <=> b.ref > 0
  /\ b.st = "OPEN" => b.rx = "recv" /\ ~b.cancel /\ b.users = n /\ b.grp # 0

\* n executors count on the group's handles.  It may have counted more: a call whose
\* association left before it was over is never counted out.
GroupOK(k, n) ==
  /\ k.calls >= n
  /\ n > 0 => k.st \in {"ACTIVE", "CALL_WAIT"}
  /\ k.st = "ACTIVE" <=> k.list # <<>>
  /\ NoDup(k.list)

\* The lists of groups have the open associations, where those say that they are.
Listed(acb, grp) ==
  \A x, g \in Conns : x \in Members(grp[g].list) <=> acb[x].grp = g /\ acb[x].st = "OPEN"

\* An association is in the group that counted its calls, or in none any more.
Counted(c) ==
  /\ ex[c].a \in Conns /\ ex[c].grp \in Conns
  /\ srv.acb[ex[c].a].grp \in {0, ex[c].grp}

CountsInv ==
  /\ \A a \in Conns : SrvAcbOK(srv.acb[a], OnCount(a))
  /\ \A g \in Conns : GroupOK(srv.grp[g], InCount(g))
  /\ Listed(srv.acb, srv.grp)
  /\ \A c \in Calls : Executing(c) => Counted(c)

-----------------------------------------------------------------------------
(* The lists of the server's groups *)

LEMMA ListedKept ==
  ASSUME NEW acb, NEW grp, Listed(acb, grp), NEW a \in Conns, NEW b,
         NEW acb2, Altered(acb, acb2, a, b),
         (b.grp = acb[a].grp /\ b.st = acb[a].st) \/ (b.st # "OPEN" /\ acb[a].st # "OPEN"),
         NEW grp2, \A g \in Conns : grp2[g].list = grp[g].list
  PROVE  Listed(acb2, grp2)
  BY DEF Listed, Altered

LEMMA ListedLeft ==
  ASSUME NEW acb, NEW grp, Listed(acb, grp), NEW a \in Conns, NEW b,
         NEW acb2, Altered(acb, acb2, a, b), b.st # "OPEN",
         NEW grp2,
         \A g \in Conns : grp[g].list \in Seq(Conns) /\ NoDup(grp[g].list),
         \A g \in Conns : grp2[g].list = IF g = acb[a].grp THEN Without(grp[g].list, a)
                                         ELSE grp[g].list
  PROVE  Listed(acb2, grp2)
  <1>1. \A g \in Conns : \A x : x \in Members(Without(grp[g].list, a)) <=>
                                  x \in Members(grp[g].list) /\ x # a
    BY WithoutList
  <1>2. ASSUME NEW x \in Conns, NEW g \in Conns
        PROVE  x \in Members(grp2[g].list) <=> acb2[x].grp = g /\ acb2[x].st = "OPEN"
    <2>1. x \in Members(grp[g].list) <=> acb[x].grp = g /\ acb[x].st = "OPEN"
      BY DEF Listed
    <2>2. acb2[a].st # "OPEN" /\ (x # a => acb2[x] = acb[x])
      BY DEF Altered
    <2>3. CASE g = acb[a].grp
      <3>1. grp2[g].list = Without(grp[g].list, a)
        BY <2>3
      <3>2. x \in Members(grp2[g].list) <=> x \in Members(grp[g].list) /\ x # a
        BY <1>1, <3>1
      <3>3. QED
        BY <2>1, <2>2, <3>2
    <2>4. CASE g # acb[a].grp
      <3>1. grp2[g].list = grp[g].list
        BY <2>4
      <3>2. QED
        BY <2>1, <2>2, <2>4, <3>1
    <2>5. QED
      BY <2>3, <2>4
  <1>3. QED
    BY <1>2 DEF Listed

LEMMA ListedJoined ==
  ASSUME NEW acb, NEW grp, Listed(acb, grp), NEW a \in Conns, NEW b, NEW h \in Conns,
         NEW acb2, Altered(acb, acb2, a, b), b.st = "OPEN", b.grp = h, acb[a].st # "OPEN",
         NEW grp2,
         \A g \in Conns : grp[g].list \in Seq(Conns) /\ NoDup(grp[g].list),
         \A g \in Conns : grp2[g].list = IF g = h THEN Append(grp[g].list, a)
                                         ELSE grp[g].list
  PROVE  Listed(acb2, grp2) /\ NoDup(grp2[h].list) /\ grp2[h].list # <<>>
  <1>1. \A g \in Conns : a \notin Members(grp[g].list)
    BY DEF Listed
  <1>2. /\ \A x : x \in Members(grp2[h].list) <=> x \in Members(grp[h].list) \/ x = a
        /\ NoDup(grp2[h].list) /\ grp2[h].list # <<>>
    <2>1. grp2[h].list = Append(grp[h].list, a)
      OBVIOUS
    <2>2. QED
      BY <1>1, <2>1, AppendList
  <1>3. ASSUME NEW x \in Conns, NEW g \in Conns
        PROVE  x \in Members(grp2[g].list) <=> acb2[x].grp = g /\ acb2[x].st = "OPEN"
    <2>1. x \in Members(grp[g].list) <=> acb[x].grp = g /\ acb[x].st = "OPEN"
      BY DEF Listed
    <2>2. acb2[a] = b /\ (x # a => acb2[x] = acb[x])
      BY DEF Altered
    <2>3. CASE g = h
      BY <1>2, <2>1, <2>2, <2>3
    <2>4. CASE g # h
      <3>1. grp2[g].list = grp[g].list
        BY <2>4
      <3>2. QED
        BY <2>1, <2>2, <2>4, <3>1
    <2>5. QED
      BY <2>3, <2>4
  <1>4. QED
    BY <1>2, <1>3 DEF Listed

-----------------------------------------------------------------------------
(* Counting executors *)

LEMMA OnFinite ==
  ASSUME NEW x
  PROVE  /\ IsFiniteSet(On(x)) /\ OnCount(x) \in Nat /\ (OnCount(x) = 0 <=> On(x) = {})
         /\ IsFiniteSet(In(x)) /\ InCount(x) \in Nat /\ (InCount(x) = 0 <=> In(x) = {})
  <1>1. IsFiniteSet(Calls)
    <2>1. 1 \in Int /\ MaxCalls \in Int
      BY BindAssumption
    <2>2. QED
      BY <2>1, FS_Interval DEF Calls
  <1>2. On(x) \subseteq Calls /\ In(x) \subseteq Calls
    BY DEF On, In
  <1>3. QED
    BY <1>1, <1>2, FS_Subset, FS_CardinalityType, FS_EmptySet DEF OnCount, InCount

\* An executor more, or one less
LEMMA CountMore ==
  ASSUME NEW c, NEW x,
         On(x)' = On(x) \cup {c}, c \notin On(x)
  PROVE  OnCount(x)' = OnCount(x) + 1
  BY OnFinite, FS_AddElement DEF OnCount

LEMMA CountLess ==
  ASSUME NEW c, NEW x,
         On(x)' = On(x) \ {c}, c \in On(x)
  PROVE  OnCount(x)' = OnCount(x) - 1
  BY OnFinite, FS_RemoveElement DEF OnCount

LEMMA CountMoreIn ==
  ASSUME NEW c, NEW x,
         In(x)' = In(x) \cup {c}, c \notin In(x)
  PROVE  InCount(x)' = InCount(x) + 1
  BY OnFinite, FS_AddElement DEF InCount

LEMMA CountLessIn ==
  ASSUME NEW c, NEW x,
         In(x)' = In(x) \ {c}, c \in In(x)
  PROVE  InCount(x)' = InCount(x) - 1
  BY OnFinite, FS_RemoveElement DEF InCount

\* The executors stay where they are.
SameExecutors == \A c \in Calls : /\ Executing(c)' <=> Executing(c)
                                  /\ ex'[c].a = ex[c].a /\ ex'[c].grp = ex[c].grp

LEMMA CountsSame ==
  ASSUME SameExecutors
  PROVE  \A x : /\ On(x)' = On(x) /\ In(x)' = In(x)
                /\ OnCount(x)' = OnCount(x) /\ InCount(x)' = InCount(x)
  <1> SUFFICES ASSUME NEW x
               PROVE /\ On(x)' = On(x) /\ In(x)' = In(x)
                     /\ OnCount(x)' = OnCount(x) /\ InCount(x)' = InCount(x)
    OBVIOUS
  <1>1. On(x)' = On(x) /\ In(x)' = In(x)
    BY DEF SameExecutors, On, In
  <1>2. QED
    BY <1>1 DEF OnCount, InCount

\* The server comes to have b as association a and k as group g.
Put(s, a, b, g, k) == [acb |-> [s.acb EXCEPT ![a] = b], grp |-> [s.grp EXCEPT ![g] = k]]
Gets(a, b, g, k) == srv' = Put(srv, a, b, g, k)

LEMMA CountsStep ==
  ASSUME ServerTypes, CountsInv,
         NEW a \in Conns, NEW b \in ServerAcb, NEW g \in Conns, NEW k \in ServerGroup,
         Gets(a, b, g, k),
         \A x \in Conns : x # a => OnCount(x)' = OnCount(x),
         \A x \in Conns : x # g => InCount(x)' = InCount(x),
         SrvAcbOK(b, OnCount(a)'), GroupOK(k, InCount(g)'),
         Listed(srv'.acb, srv'.grp),
         \A c \in Calls : Executing(c)' => Counted(c)'
  PROVE  srv' \in Server /\ CountsInv'
  <1>1. srv.acb \in [Conns -> ServerAcb] /\ srv.grp \in [Conns -> ServerGroup]
    BY DEF ServerTypes, Server
  <1>2. srv'.acb = [srv.acb EXCEPT ![a] = b] /\ srv'.grp = [srv.grp EXCEPT ![g] = k]
    BY DEF Gets, Put
  <1>3. srv' \in Server
    BY <1>1 DEF Gets, Put, Server
  <1>4. ASSUME NEW x \in Conns PROVE SrvAcbOK(srv'.acb[x], OnCount(x)')
    <2>1. CASE x = a
      BY <1>1, <1>2, <2>1
    <2>2. CASE x # a
      BY <1>1, <1>2, <2>2 DEF CountsInv
    <2>3. QED
      BY <2>1, <2>2
  <1>5. ASSUME NEW x \in Conns PROVE GroupOK(srv'.grp[x], InCount(x)')
    <2>1. CASE x = g
      BY <1>1, <1>2, <2>1
    <2>2. CASE x # g
      BY <1>1, <1>2, <2>2 DEF CountsInv
    <2>3. QED
      BY <2>1, <2>2
  <1>6. QED
    BY <1>3, <1>4, <1>5 DEF CountsInv

\* A step that leaves the executors alone
LEMMA CountsStill ==
  ASSUME ServerTypes, CountsInv, SameExecutors,
         NEW a \in Conns, NEW b \in ServerAcb, NEW g \in Conns, NEW k \in ServerGroup,
         Gets(a, b, g, k),
         SrvAcbOK(b, OnCount(a)), GroupOK(k, InCount(g)),
         On(a) = {} \/ b.grp \in {0, srv.acb[a].grp},
         Listed(srv'.acb, srv'.grp)
  PROVE  srv' \in Server /\ CountsInv'
  <1>1. \A x : OnCount(x)' = OnCount(x) /\ InCount(x)' = InCount(x)
    BY CountsSame
  <1>2. ASSUME NEW c \in Calls, Executing(c)' PROVE Counted(c)'
    <2>1. Counted(c) /\ ex'[c].a = ex[c].a /\ ex'[c].grp = ex[c].grp /\ Executing(c)
      BY <1>2 DEF SameExecutors, CountsInv
    <2>2. srv'.acb[ex[c].a].grp \in {0, ex[c].grp}
      <3>1. CASE ex[c].a = a
        <4>1. On(a) # {}
          BY <2>1, <3>1 DEF On
        <4>2. srv'.acb[a] = b
          BY DEF Gets, Put, ServerTypes, Server
        <4>3. QED
          BY <2>1, <3>1, <4>1, <4>2 DEF Counted
      <3>2. CASE ex[c].a # a
        <4>1. srv'.acb[ex[c].a] = srv.acb[ex[c].a]
          BY <2>1, <3>2 DEF Counted, Gets, Put, ServerTypes, Server
        <4>2. QED
          BY <2>1, <4>1 DEF Counted
      <3>3. QED
        BY <3>1, <3>2
    <2>3. QED
      BY <2>1, <2>2 DEF Counted
  <1>3. QED
    BY <1>1, <1>2, CountsStep

-----------------------------------------------------------------------------
(* The server's steps, and what they do to the counts *)

\* An association that is open has been open before, in the same group.
Remains(x) ==
  srv'.acb[x].st = "OPEN" => srv.acb[x].st = "OPEN" /\ srv'.acb[x].grp = srv.acb[x].grp

LEMMA GetsAcb ==
  ASSUME ServerTypes, NEW a \in Conns, NEW b, srv' = [srv EXCEPT !.acb[a] = b]
  PROVE  /\ Gets(a, b, a, srv.grp[a]) /\ srv.grp[a] \in ServerGroup
         /\ Altered(srv.acb, srv'.acb, a, b) /\ \A g \in Conns : srv'.grp[g].list = srv.grp[g].list
  BY DEF ServerTypes, Server, Gets, Put, Altered

LEMMA GetsAltered ==
  ASSUME ServerTypes, NEW a \in Conns, NEW b, NEW g \in Conns, NEW k, Gets(a, b, g, k)
  PROVE  /\ Altered(srv.acb, srv'.acb, a, b)
         /\ srv'.grp[g] = k /\ \A h \in Conns : h # g => srv'.grp[h] = srv.grp[h]
  BY DEF ServerTypes, Server, Gets, Put, Altered

LEMMA ServerTyped ==
  ASSUME ServerTypes
  PROVE  /\ srv \in Server
         /\ \A a \in Conns : srv.acb[a] \in ServerAcb /\ srv.grp[a] \in ServerGroup
                             /\ srv.grp[a].list \in Seq(Conns) /\ srv.grp[a].calls \in Nat
         /\ \A c \in Calls : ex[c] \in CallExec
  BY DEF ServerTypes, Server, ServerGroup

\* Nobody has an association that is not live, and it is not open.
LEMMA NotLive ==
  ASSUME ServerTypes, CountsInv, NEW a \in Conns, srv.acb[a].life # "live"
  PROVE  On(a) = {} /\ OnCount(a) = 0 /\ srv.acb[a].rx # "recv" /\ srv.acb[a].st # "OPEN"
  <1>1. SrvAcbOK(srv.acb[a], OnCount(a)) /\ srv.acb[a] \in ServerAcb
    BY ServerTyped DEF CountsInv
  <1>2. OnCount(a) \in Nat /\ srv.acb[a].ref \in Nat /\ (OnCount(a) = 0 <=> On(a) = {})
    BY <1>1, OnFinite DEF ServerAcb
  <1>3. QED
    BY <1>1, <1>2 DEF SrvAcbOK, Receiving

LEMMA AcceptsCounts ==
  ASSUME ServerTypes, CountsInv, NEW a \in Conns, Accepts(a)
  PROVE  ServerTypes' /\ CountsInv'
  <1> DEFINE b == [NoAcb EXCEPT !.life = "live", !.ref = 1, !.rx = "recv"]
  <1>1. srv.acb[a].life = "new" /\ srv' = [srv EXCEPT !.acb[a] = b] /\ ex' = ex
    BY DEF Accepts
  <1>2. b \in ServerAcb
    <2>1. 0 \in 0..MaxConns
      BY BindAssumption
    <2>2. QED
      BY <2>1 DEF NoAcb, ServerAcb
  <1>3. b.life = "live" /\ b.ref = 1 /\ b.rx = "recv" /\ b.st = "CLOSED" /\ b.grp = 0
    BY DEF NoAcb
  <1> HIDE DEF b
  <1>4. OnCount(a) = 0 /\ On(a) = {} /\ srv.acb[a].st # "OPEN"
    BY <1>1, NotLive
  <1>5. SrvAcbOK(b, OnCount(a)) /\ GroupOK(srv.grp[a], InCount(a))
    BY <1>3, <1>4 DEF SrvAcbOK, Receiving, CountsInv
  <1>6. /\ Gets(a, b, a, srv.grp[a]) /\ srv.grp[a] \in ServerGroup
        /\ Altered(srv.acb, srv'.acb, a, b) /\ \A g \in Conns : srv'.grp[g].list = srv.grp[g].list
    BY <1>1, GetsAcb
  <1>7. Listed(srv'.acb, srv'.grp)
    BY <1>3, <1>4, <1>6, ListedKept DEF CountsInv
  <1>8. SameExecutors
    BY <1>1 DEF SameExecutors, Executing
  <1>9. srv' \in Server /\ CountsInv'
    BY <1>2, <1>4, <1>5, <1>6, <1>7, <1>8, CountsStill
  <1>10. QED
    BY <1>1, <1>9 DEF ServerTypes

\* A bind at an association that is new to its receiver: it joins h.
LEMMA AddToCounts ==
  ASSUME ServerTypes, CountsInv, NEW a \in Conns, NEW h \in Conns, srv' = AddTo(srv, a, h),
         ex' = ex,
         srv.acb[a].rx = "recv", ~srv.acb[a].cancel, srv.acb[a].st # "OPEN",
         srv.acb[a].users = 0, On(a) = {}
  PROVE  ServerTypes' /\ CountsInv'
  <1> DEFINE b0 == srv.acb[a]
             k0 == srv.grp[h]
             b == [b0 EXCEPT !.st = "OPEN", !.grp = h]
             k == [k0 EXCEPT !.st = "ACTIVE", !.list = Append(k0.list, a)]
  <1>1. b0 \in ServerAcb /\ k0 \in ServerGroup /\ srv \in Server
        /\ SrvAcbOK(b0, OnCount(a)) /\ GroupOK(k0, InCount(h))
    BY ServerTyped DEF CountsInv
  <1>2. b \in ServerAcb /\ b.st = "OPEN" /\ b.grp = h /\ b.ref = b0.ref /\ b.life = b0.life
        /\ b.rx = b0.rx /\ b.cancel = b0.cancel /\ b.users = b0.users
    <2>1. h \in 0..MaxConns
      BY DEF Conns
    <2> HIDE DEF b0
    <2>2. QED
      BY <1>1, <2>1 DEF ServerAcb
  <1>3. k \in ServerGroup /\ k.st = "ACTIVE" /\ k.list = Append(k0.list, a) /\ k.calls = k0.calls
    <2>1. Append(k0.list, a) \in Seq(Conns)
      BY <1>1 DEF ServerGroup
    <2> HIDE DEF k0
    <2>2. QED
      BY <1>1, <2>1 DEF ServerGroup
  <1>4. Gets(a, b, h, k)
    BY <1>1 DEF AddTo, Gets, Put, Server
  <1> HIDE DEF b, k
  <1>5. Altered(srv.acb, srv'.acb, a, b)
        /\ srv'.grp[h] = k /\ \A g \in Conns : g # h => srv'.grp[g] = srv.grp[g]
    BY <1>4, GetsAltered
  <1>6. Listed(srv'.acb, srv'.grp) /\ NoDup(srv'.grp[h].list) /\ srv'.grp[h].list # <<>>
    <2> DEFINE acb == srv.acb
               grp == srv.grp
               acb2 == srv'.acb
               grp2 == srv'.grp
    <2>1. Listed(acb, grp) /\ Altered(acb, acb2, a, b) /\ b.st = "OPEN" /\ b.grp = h
          /\ acb[a].st # "OPEN"
      BY <1>2, <1>5 DEF CountsInv
    <2>2. \A g \in Conns : grp[g].list \in Seq(Conns) /\ NoDup(grp[g].list)
      BY ServerTyped DEF CountsInv, GroupOK
    <2>3. \A g \in Conns : grp2[g].list = IF g = h THEN Append(grp[g].list, a) ELSE grp[g].list
      BY <1>3, <1>5
    <2> HIDE DEF acb, grp, acb2, grp2
    <2>4. Listed(acb2, grp2) /\ NoDup(grp2[h].list) /\ grp2[h].list # <<>>
      BY <2>1, <2>2, <2>3, ListedJoined
    <2>5. QED
      BY <2>4 DEF acb2, grp2
  <1>7. OnCount(a) = 0
    BY OnFinite
  <1>8. SrvAcbOK(b, OnCount(a))
    <2>1. Receiving(b) = Receiving(b0) /\ h # 0
      BY <1>2 DEF Receiving, Conns
    <2>2. QED
      BY <1>1, <1>2, <1>7, <2>1 DEF SrvAcbOK
  <1>9. GroupOK(k, InCount(h))
    BY <1>1, <1>3, <1>5, <1>6 DEF GroupOK
  <1>10. SameExecutors
    BY DEF SameExecutors, Executing
  <1>11. srv' \in Server /\ CountsInv'
    BY <1>2, <1>3, <1>4, <1>6, <1>8, <1>9, <1>10, CountsStill
  <1>12. QED
    BY <1>11 DEF ServerTypes

\* What is known of an open association: its group is active.
LEMMA OpenIsGrouped ==
  ASSUME ServerTypes, CountsInv, NEW a \in Conns, srv.acb[a].st = "OPEN"
  PROVE  /\ srv.acb[a].grp \in Conns /\ srv.acb[a].rx = "recv" /\ ~srv.acb[a].cancel
         /\ srv.acb[a].users = OnCount(a) /\ srv.acb[a].ref = OnCount(a) + 1
         /\ a \in Members(srv.grp[srv.acb[a].grp].list)
         /\ srv.grp[srv.acb[a].grp].st = "ACTIVE"
  <1>1. SrvAcbOK(srv.acb[a], OnCount(a)) /\ srv.acb[a] \in ServerAcb
    BY ServerTyped DEF CountsInv
  <1>2. srv.acb[a].grp \in Conns /\ srv.acb[a].rx = "recv" /\ ~srv.acb[a].cancel
        /\ srv.acb[a].users = OnCount(a) /\ srv.acb[a].ref = OnCount(a) + 1
    BY <1>1 DEF SrvAcbOK, Receiving, ServerAcb, Conns
  <1> DEFINE g == srv.acb[a].grp
  <1>3. a \in Members(srv.grp[g].list)
    BY <1>2 DEF CountsInv, Listed
  <1>4. srv.grp[g].list \in Seq(Conns) /\ GroupOK(srv.grp[g], InCount(g))
    BY <1>2, ServerTyped DEF CountsInv
  <1>5. srv.grp[g].list # <<>>
    <2> HIDE DEF g
    <2>1. QED
      BY <1>3, <1>4, MembersEmpty
  <1>6. QED
    BY <1>2, <1>3, <1>4, <1>5 DEF GroupOK

\* A request is given to an executor, which has not had it yet.
LEMMA RequestCounts ==
  ASSUME ServerTypes, CountsInv, NEW a \in Conns, NEW c \in Calls, RequestInd(a, c),
         srv.acb[a].st = "OPEN", ex[c].pc = "none"
  PROVE  ServerTypes' /\ CountsInv'
  <1>0. PICK g \in Conns : g = srv.acb[a].grp
    BY OpenIsGrouped
  <1> DEFINE b0 == srv.acb[a]
             k0 == srv.grp[g]
             b == [b0 EXCEPT !.ref = b0.ref + 1, !.users = b0.users + 1]
             k == [k0 EXCEPT !.calls = k0.calls + 1]
             e == [NoCall EXCEPT !.pc = "run", !.a = a, !.grp = g]
  <1>1. g = b0.grp /\ b0.rx = "recv" /\ ~b0.cancel /\ b0.users = OnCount(a)
        /\ b0.ref = OnCount(a) + 1 /\ k0.st = "ACTIVE"
    BY <1>0, OpenIsGrouped
  <1>2. b0 \in ServerAcb /\ k0 \in ServerGroup /\ srv \in Server
        /\ SrvAcbOK(b0, OnCount(a)) /\ GroupOK(k0, InCount(g)) /\ OnCount(a) \in Nat
        /\ InCount(g) \in Nat
    BY <1>1, ServerTyped, OnFinite DEF CountsInv
  <1>3. b \in ServerAcb /\ b.st = "OPEN" /\ b.grp = g /\ b.ref = b0.ref + 1 /\ b.life = b0.life
        /\ b.rx = "recv" /\ ~b.cancel /\ b.users = b0.users + 1
    <2> HIDE DEF b0
    <2>1. b0.ref + 1 \in Nat /\ b0.users + 1 \in Nat
      BY <1>1, <1>2
    <2>2. QED
      BY <1>1, <1>2, <2>1 DEF ServerAcb, b0
  <1>4. k \in ServerGroup /\ k.st = "ACTIVE" /\ k.list = k0.list /\ k.calls = k0.calls + 1
    <2> HIDE DEF k0
    <2>1. QED
      BY <1>1, <1>2 DEF ServerGroup
  <1>5. Gets(a, b, g, k)
    BY <1>1, <1>2 DEF RequestInd, Gets, Put, Server
  <1>6. e \in CallExec /\ e.pc = "run" /\ e.a = a /\ e.grp = g
    <2>1. 0 \in 0..MaxConns /\ a \in 0..MaxConns /\ g \in 0..MaxConns
      BY <1>1, BindAssumption DEF Conns
    <2>2. QED
      BY <2>1 DEF NoCall, CallExec
  <1>7. ex' = [ex EXCEPT ![c] = e]
    BY <1>0 DEF RequestInd
  <1> HIDE DEF b, k, e
  <1>8. ex'[c] = e /\ ex' \in [Calls -> CallExec] /\ \A d \in Calls : d # c => ex'[d] = ex[d]
    BY <1>6, <1>7 DEF ServerTypes
  <1>9. ~Executing(c) /\ Executing(c)' /\ \A d \in Calls : d # c => (Executing(d)' <=> Executing(d))
    BY <1>6, <1>8 DEF Executing
  <1> HIDE DEF b0, k0
  <1>10. OnCount(a)' = OnCount(a) + 1 /\ \A x \in Conns : x # a => OnCount(x)' = OnCount(x)
    <2>1. On(a)' = On(a) \cup {c} /\ c \notin On(a)
      BY <1>6, <1>8, <1>9 DEF On
    <2>2. \A x \in Conns : x # a => On(x)' = On(x)
      BY <1>6, <1>8, <1>9 DEF On
    <2>3. QED
      BY <2>1, <2>2, CountMore DEF OnCount
  <1>11. InCount(g)' = InCount(g) + 1 /\ \A x \in Conns : x # g => InCount(x)' = InCount(x)
    <2>1. In(g)' = In(g) \cup {c} /\ c \notin In(g)
      BY <1>6, <1>8, <1>9 DEF In
    <2>2. \A x \in Conns : x # g => In(x)' = In(x)
      BY <1>6, <1>8, <1>9 DEF In
    <2>3. QED
      BY <2>1, <2>2, CountMoreIn DEF InCount
  <1>12. SrvAcbOK(b, OnCount(a)')
    <2>1. Receiving(b) = 1 /\ g # 0
      BY <1>1, <1>3 DEF Receiving, Conns
    <2>2. QED
      BY <1>1, <1>2, <1>3, <1>10, <2>1 DEF SrvAcbOK
  <1>13. GroupOK(k, InCount(g)')
    <2>1. k0.calls >= InCount(g) /\ k0.calls \in Nat
      BY <1>2 DEF GroupOK, ServerGroup
    <2>2. k.calls >= InCount(g)'
      BY <1>2, <1>4, <1>11, <2>1
    <2>3. QED
      BY <1>1, <1>2, <1>4, <2>2 DEF GroupOK
  <1>14. Altered(srv.acb, srv'.acb, a, b)
         /\ srv'.grp[g] = k /\ \A h \in Conns : h # g => srv'.grp[h] = srv.grp[h]
    BY <1>1, <1>5, GetsAltered
  <1>15. Listed(srv'.acb, srv'.grp)
    <2>1. b.grp = srv.acb[a].grp /\ b.st = srv.acb[a].st
      BY <1>1, <1>3 DEF b0
    <2>2. \A h \in Conns : srv'.grp[h].list = srv.grp[h].list
      BY <1>4, <1>14 DEF k0
    <2>3. QED
      BY <1>14, <2>1, <2>2, ListedKept DEF CountsInv
  <1>16. ASSUME NEW d \in Calls, Executing(d)' PROVE Counted(d)'
    <2>1. CASE d = c
      BY <1>1, <1>3, <1>6, <1>8, <1>14, <2>1 DEF Counted, Altered
    <2>2. CASE d # c
      <3>1. Counted(d) /\ ex'[d] = ex[d]
        BY <1>8, <1>9, <1>16, <2>2 DEF CountsInv
      <3>2. \A x \in Conns : srv'.acb[x].grp = srv.acb[x].grp
        BY <1>1, <1>3, <1>14 DEF Altered, b0
      <3>3. QED
        BY <3>1, <3>2 DEF Counted
    <2>3. QED
      BY <2>1, <2>2
  <1>17. srv' \in Server /\ CountsInv'
    BY <1>1, <1>3, <1>4, <1>5, <1>10, <1>11, <1>12, <1>13, <1>15, <1>16, CountsStep
  <1>18. QED
    BY <1>8, <1>17 DEF ServerTypes

\* An association is given up by somebody who had it (rpc__cn_assoc_acb_dealloc).
SrvAfterDealloc(b) ==
  IF b.ref > 1 THEN [b EXCEPT !.ref = b.ref - 1] ELSE [NoAcb EXCEPT !.life = "freed"]

LEMMA SrvDeallocOK ==
  ASSUME NEW b \in ServerAcb, NEW n \in Nat, b.ref = n + 1 + Receiving(b), b.life = "live",
         b.st = "OPEN" => b.rx = "recv" /\ ~b.cancel /\ b.users = n /\ b.grp # 0
  PROVE  /\ SrvAfterDealloc(b) \in ServerAcb /\ SrvAcbOK(SrvAfterDealloc(b), n)
         /\ SrvAfterDealloc(b).st = b.st /\ SrvAfterDealloc(b).grp \in {0, b.grp}
         /\ b.st = "OPEN" => SrvAfterDealloc(b).grp = b.grp
         /\ SrvAfterDealloc(b).life # "new"
  <1>1. Receiving(b) \in {0, 1} /\ (b.rx = "recv" <=> Receiving(b) = 1)
    BY DEF Receiving
  <1>2. CASE b.ref > 1
    <2> DEFINE d == [b EXCEPT !.ref = b.ref - 1]
    <2>1. SrvAfterDealloc(b) = d
      BY <1>2 DEF SrvAfterDealloc
    <2>2. d \in ServerAcb /\ d.ref = b.ref - 1 /\ d.life = b.life /\ d.st = b.st /\ d.rx = b.rx
          /\ d.cancel = b.cancel /\ d.users = b.users /\ d.grp = b.grp
      BY <1>1, <1>2 DEF ServerAcb
    <2>3. Receiving(d) = Receiving(b)
      BY <2>2 DEF Receiving
    <2> HIDE DEF d
    <2>4. SrvAcbOK(d, n)
      BY <1>1, <1>2, <2>2, <2>3 DEF SrvAcbOK
    <2>5. QED
      BY <2>1, <2>2, <2>4
  <1>3. CASE ~(b.ref > 1)
    <2> DEFINE d == [NoAcb EXCEPT !.life = "freed"]
    <2>1. SrvAfterDealloc(b) = d
      BY <1>3 DEF SrvAfterDealloc
    <2>2. d \in ServerAcb
      <3>1. 0 \in 0..MaxConns
        BY BindAssumption
      <3>2. QED
        BY <3>1 DEF NoAcb, ServerAcb
    <2>3. n = 0 /\ b.rx # "recv" /\ b.st = "CLOSED"
      BY <1>1, <1>3 DEF ServerAcb
    <2>4. d.ref = 0 /\ d.rx = "idle" /\ d.st = "CLOSED" /\ d.life = "freed" /\ d.grp = 0
      BY DEF NoAcb
    <2> HIDE DEF d
    <2>5. SrvAcbOK(d, n)
      BY <2>3, <2>4 DEF SrvAcbOK, Receiving
    <2>6. QED
      BY <2>1, <2>2, <2>3, <2>4, <2>5
  <1>4. QED
    BY <1>2, <1>3

LEMMA SrvDeallocShape ==
  ASSUME NEW s \in Server, NEW a \in Conns
  PROVE  DeallocServerAcb(s, a) =
           [acb |-> [s.acb EXCEPT ![a] = SrvAfterDealloc(s.acb[a])], grp |-> s.grp]
  BY DEF DeallocServerAcb, SrvAfterDealloc, Server

\* rundown_handles_action_rtn, for the group
RanDown(m) ==
  IF m.st = "CALL_WAIT" /\ m.calls = 0 THEN [m EXCEPT !.st = "CLOSED", !.refs = 0] ELSE m

\* What pop_call makes of the group
CountedOut(k) == RanDown([k EXCEPT !.calls = k.calls - 1])

LEMMA CountedOutOK ==
  ASSUME NEW k \in ServerGroup, NEW n \in Nat, GroupOK(k, n + 1)
  PROVE  /\ CountedOut(k) \in ServerGroup /\ GroupOK(CountedOut(k), n)
         /\ CountedOut(k).list = k.list
  <1> DEFINE m == [k EXCEPT !.calls = k.calls - 1]
             d == [m EXCEPT !.st = "CLOSED", !.refs = 0]
  <1>1. k.calls \in Nat /\ k.calls >= n + 1 /\ k.calls - 1 \in Nat
    BY DEF GroupOK, ServerGroup
  <1>2. m \in ServerGroup /\ m.calls = k.calls - 1 /\ m.st = k.st /\ m.list = k.list
    BY <1>1 DEF ServerGroup
  <1> HIDE DEF m
  <1>3. d \in ServerGroup /\ d.calls = m.calls /\ d.st = "CLOSED" /\ d.list = k.list
    BY <1>2 DEF ServerGroup
  <1> HIDE DEF d
  <1>4. GroupOK(m, n)
    BY <1>1, <1>2 DEF GroupOK
  <1>5. k.st = "CALL_WAIT" /\ m.calls = 0 => GroupOK(d, n)
    BY <1>1, <1>2, <1>3 DEF GroupOK
  <1>6. CountedOut(k) = IF k.st = "CALL_WAIT" /\ m.calls = 0 THEN d ELSE m
    BY <1>2 DEF CountedOut, RanDown, m, d
  <1>7. QED
    BY <1>2, <1>3, <1>4, <1>5, <1>6

\* The association says that it is in group h, or in none.
Says(b, h) == [b EXCEPT !.grp = h]

\* Its group becomes m.
PutGroup(s, g, m) == [acb |-> s.acb, grp |-> [s.grp EXCEPT ![g] = m]]

LEMMA RundownShape ==
  ASSUME NEW s \in Server, NEW a \in Conns, NEW g \in Conns, NEW m, NEW s2,
         s2 = PutGroup(s, g, m)
  PROVE  \E h \in {0, s.acb[a].grp} :
           /\ Rundown(s2, a, g) = Put(s, a, Says(s.acb[a], h), g, RanDown(m))
           /\ m.st = "ACTIVE" => h = s.acb[a].grp
  <1> DEFINE b == s.acb[a]
  <1>1. s.acb \in [Conns -> ServerAcb] /\ s.grp \in [Conns -> ServerGroup] /\ b \in ServerAcb
    BY DEF Server
  <1>0. s2 = [acb |-> s.acb, grp |-> [s.grp EXCEPT ![g] = m]]
    BY DEF PutGroup
  <1>2. s2.grp[g] = m /\ s2.acb = s.acb
    BY <1>0, <1>1
  <1>3. CASE m.st = "CALL_WAIT" /\ m.calls = 0
    <2> DEFINE d == [m EXCEPT !.st = "CLOSED", !.refs = 0]
               acb == s.acb
               grp == s.grp
               e == [s2 EXCEPT !.acb[a].grp = 0]
    <2>1. RanDown(m) = d
      BY <1>3 DEF RanDown
    <2>2. Rundown(s2, a, g) = [s2 EXCEPT !.acb[a].grp = 0, !.grp[g] = d]
      BY <1>2, <1>3 DEF Rundown, NoCalls
    <2> HIDE DEF d
    <2>3. [[grp EXCEPT ![g] = m] EXCEPT ![g] = d] = [grp EXCEPT ![g] = d]
      BY <1>1
    <2> HIDE DEF acb, grp
    <2>4. e = [acb |-> [acb EXCEPT ![a].grp = 0], grp |-> [grp EXCEPT ![g] = m]]
      BY <1>0 DEF acb, grp
    <2>5. Rundown(s2, a, g) = [e EXCEPT !.grp[g] = d]
      BY <2>2
    <2> HIDE DEF e
    <2>6. Rundown(s2, a, g) =
            [acb |-> [acb EXCEPT ![a].grp = 0], grp |-> [[grp EXCEPT ![g] = m] EXCEPT ![g] = d]]
      BY <2>4, <2>5
    <2>7. Rundown(s2, a, g) = [acb |-> [s.acb EXCEPT ![a] = Says(s.acb[a], 0)],
                               grp |-> [s.grp EXCEPT ![g] = d]]
      BY <2>3, <2>6 DEF acb, grp, Says
    <2>8. 0 \in {0, s.acb[a].grp} /\ m.st # "ACTIVE"
      BY <1>3
    <2>9. QED
      BY <2>1, <2>7, <2>8 DEF Put
  <1>4. CASE ~(m.st = "CALL_WAIT" /\ m.calls = 0)
    <2>1. RanDown(m) = m
      BY <1>4 DEF RanDown
    <2>2. Rundown(s2, a, g) = s2
      BY <1>2, <1>4 DEF Rundown, NoCalls
    <2>3. [s.acb EXCEPT ![a] = Says(b, b.grp)] = s.acb
      <3>1. Says(b, b.grp) = b
        BY <1>1 DEF ServerAcb, Says
      <3> HIDE DEF b
      <3>2. QED
        BY <1>1, <3>1 DEF b
    <2>4. QED
      BY <1>0, <2>1, <2>2, <2>3 DEF Put
  <1>5. QED
    BY <1>3, <1>4

LEMMA CountOutShape ==
  ASSUME NEW s \in Server, NEW a \in Conns, NEW g \in Conns
  PROVE  \E h \in {0, s.acb[a].grp} :
           /\ CountOut(s, a, g) = Put(s, a, Says(s.acb[a], h), g, CountedOut(s.grp[g]))
           /\ s.grp[g].st = "ACTIVE" => h = s.acb[a].grp
  <1> DEFINE k == s.grp[g]
             m == [k EXCEPT !.calls = k.calls - 1]
             s2 == [s EXCEPT !.grp[g].calls = @ - 1]
  <1>1. s2 = PutGroup(s, g, m)
    BY DEF PutGroup, Server
  <1>2. m.st = k.st
    BY DEF Server, ServerGroup
  <1>3. CountOut(s, a, g) = Rundown(s2, a, g) /\ CountedOut(k) = RanDown(m)
    BY DEF CountOut, CountedOut
  <1> HIDE DEF s2, m
  <1>4. PICK h \in {0, s.acb[a].grp} :
          /\ Rundown(s2, a, g) = Put(s, a, Says(s.acb[a], h), g, RanDown(m))
          /\ m.st = "ACTIVE" => h = s.acb[a].grp
    BY <1>1, RundownShape
  <1>5. QED
    BY <1>2, <1>3, <1>4

\* An executor is done with its association and its group.
LEMMA ExecutorEndsCounts ==
  ASSUME ServerTypes, CountsInv, NEW c \in Calls, ExecutorEnds(c)
  PROVE  /\ ServerTypes' /\ CountsInv'
         /\ \A x \in Conns : Remains(x) /\ (srv'.acb[x] # srv.acb[x] => x = ex[c].a)
  <1>1. Executing(c) /\ Counted(c)
    BY DEF ExecutorEnds, Executing, CountsInv
  <1>2. PICK a \in Conns, h \in Conns : ex[c].a = a /\ ex[c].grp = h
    BY <1>1 DEF Counted
  <1> DEFINE b0 == srv.acb[a]
             k0 == srv.grp[h]
             s == IF b0.grp = 0 THEN srv ELSE CountOut(srv, a, b0.grp)
             n == OnCount(a) - 1
             i == InCount(h) - 1
  <1>3. /\ srv \in Server /\ b0 \in ServerAcb /\ k0 \in ServerGroup /\ ex \in [Calls -> CallExec]
        /\ SrvAcbOK(b0, OnCount(a)) /\ GroupOK(k0, InCount(h)) /\ b0.grp \in {0, h}
    BY <1>1, <1>2, ServerTyped DEF CountsInv, Counted, ServerTypes
  <1>4. /\ OnCount(a) \in Nat /\ InCount(h) \in Nat /\ n \in Nat /\ i \in Nat
        /\ OnCount(a) = n + 1 /\ InCount(h) = i + 1
    <2>1. c \in On(a) /\ c \in In(h)
      BY <1>1, <1>2 DEF On, In
    <2>2. QED
      BY <2>1, OnFinite
  <1>5. ex' = [ex EXCEPT ![c].pc = "ended"]
        /\ srv' = DeallocServerAcb([s EXCEPT !.acb[a] = [s.acb[a] EXCEPT !.ok = TRUE,
                                     !.users = @ - (IF s.acb[a].st = "OPEN" THEN 1 ELSE 0)]], a)
    BY <1>2 DEF ExecutorEnds, GroupOf
  <1>6. PICK h2 \in {0, b0.grp}, k \in ServerGroup :
          /\ s = Put(srv, a, Says(b0, h2), h, k)
          /\ GroupOK(k, i) /\ k.list = k0.list
          /\ b0.st = "OPEN" => h2 = b0.grp
    <2>1. CASE b0.grp = 0
      <3>1. Says(b0, b0.grp) = b0
        BY <1>3 DEF ServerAcb, Says
      <3>2. s = Put(srv, a, b0, h, k0)
        BY <1>3, <2>1 DEF Put, Server
      <3>3. GroupOK(k0, i)
        <4>1. k0.calls \in Nat
          BY <1>3 DEF ServerGroup
        <4>2. QED
          BY <1>3, <1>4, <4>1 DEF GroupOK
      <3> b0.grp \in {0, b0.grp} /\ k0 \in ServerGroup
        BY <1>3
      <3>4. WITNESS b0.grp \in {0, b0.grp}, k0 \in ServerGroup
      <3>5. QED
        BY <3>1, <3>2, <3>3
    <2>2. CASE b0.grp # 0
      <3>1. s = CountOut(srv, a, h) /\ b0.grp = h
        BY <1>3, <2>2
      <3> HIDE DEF s
      <3>2. PICK h2 \in {0, b0.grp} :
              /\ s = Put(srv, a, Says(b0, h2), h, CountedOut(k0))
              /\ k0.st = "ACTIVE" => h2 = b0.grp
        BY <1>3, <3>1, CountOutShape
      <3>3. CountedOut(k0) \in ServerGroup /\ GroupOK(CountedOut(k0), i) /\ CountedOut(k0).list = k0.list
        BY <1>3, <1>4, CountedOutOK
      <3>4. b0.st = "OPEN" => k0.st = "ACTIVE"
        BY <3>1, OpenIsGrouped
      <3> HIDE DEF k0, b0, i
      <3> CountedOut(k0) \in ServerGroup
        BY <3>3
      <3>5. WITNESS h2 \in {0, b0.grp}, CountedOut(k0) \in ServerGroup
      <3>6. QED
        BY <3>2, <3>3, <3>4 DEF b0
    <2>3. QED
      BY <2>1, <2>2
  <1> HIDE DEF s
  <1> DEFINE b1 == Says(b0, h2)
             b2 == [b1 EXCEPT !.ok = TRUE, !.users = @ - (IF b1.st = "OPEN" THEN 1 ELSE 0)]
             b == SrvAfterDealloc(b2)
  <1>7. /\ b2 \in ServerAcb /\ b2.ref = b0.ref /\ b2.st = b0.st /\ b2.rx = b0.rx
        /\ b2.life = b0.life /\ b2.cancel = b0.cancel /\ b2.grp = h2
        /\ b0.st = "OPEN" => b2.users = n
    <2>1. h2 \in 0..MaxConns
      BY <1>3, BindAssumption DEF Conns
    <2>2. b0.st = "OPEN" => b0.users = OnCount(a)
      BY <1>3 DEF SrvAcbOK
    <2> HIDE DEF b0
    <2>3. b1 \in ServerAcb /\ b1.ref = b0.ref /\ b1.st = b0.st /\ b1.rx = b0.rx
          /\ b1.life = b0.life /\ b1.cancel = b0.cancel /\ b1.grp = h2 /\ b1.users = b0.users
      BY <1>3, <2>1 DEF ServerAcb, Says
    <2> HIDE DEF b1
    <2>4. b1.users - (IF b1.st = "OPEN" THEN 1 ELSE 0) \in Nat
      BY <1>4, <2>2, <2>3 DEF ServerAcb
    <2> HIDE DEF n
    <2>5. QED
      BY <2>2, <2>3, <2>4 DEF ServerAcb, n
  <1>8. Gets(a, b, h, k)
    <2>1. s \in Server /\ s.acb[a] = b1 /\ b1 \in ServerAcb
      <3>1. h2 \in 0..MaxConns
        BY <1>3, BindAssumption DEF Conns
      <3>2. b1 \in ServerAcb
        <4> HIDE DEF b0
        <4>1. QED
          BY <1>3, <3>1 DEF ServerAcb, Says
      <3> HIDE DEF b1
      <3>3. QED
        BY <1>3, <1>6, <3>2 DEF Server, Put, b1
    <2> DEFINE s2 == [s EXCEPT !.acb[a] = b2]
    <2> HIDE DEF b1, b2
    <2>2. s2 \in Server /\ s2.acb[a] = b2 /\ s2.grp = s.grp /\ s2.acb = [s.acb EXCEPT ![a] = b2]
      BY <1>7, <2>1 DEF Server
    <2>3. srv' = DeallocServerAcb(s2, a)
      BY <1>5, <2>1 DEF b2
    <2> HIDE DEF s2
    <2>4. srv' = [acb |-> [s2.acb EXCEPT ![a] = b], grp |-> s2.grp]
      BY <2>2, <2>3, SrvDeallocShape
    <2> HIDE DEF b
    <2>5. [s2.acb EXCEPT ![a] = b] = [srv.acb EXCEPT ![a] = b]
      BY <1>3, <1>6, <2>2 DEF Server, Put
    <2>6. QED
      BY <1>6, <2>2, <2>4, <2>5 DEF Gets, Put
  <1>9. /\ b \in ServerAcb /\ SrvAcbOK(b, n) /\ b.st = b0.st /\ b.grp \in {0, b0.grp}
        /\ b0.st = "OPEN" => b.grp = b0.grp
    <2>1. b2.ref = n + 1 + Receiving(b2) /\ b2.life = "live"
      <3>1. Receiving(b2) = Receiving(b0) /\ Receiving(b0) \in {0, 1}
        BY <1>7 DEF Receiving
      <3>2. QED
        BY <1>3, <1>4, <1>7, <3>1 DEF SrvAcbOK
    <2>2. b2.st = "OPEN" => b2.rx = "recv" /\ ~b2.cancel /\ b2.users = n /\ b2.grp # 0
      BY <1>3, <1>6, <1>7 DEF SrvAcbOK
    <2> HIDE DEF b2, n
    <2>3. /\ b \in ServerAcb /\ SrvAcbOK(b, n) /\ b.st = b2.st /\ b.grp \in {0, b2.grp}
          /\ b2.st = "OPEN" => b.grp = b2.grp
      BY <1>4, <1>7, <2>1, <2>2, SrvDeallocOK
    <2>4. QED
      BY <1>6, <1>7, <2>3
  <1> HIDE DEF b, b1, b2
  <1>10. ~Executing(c)' /\ (\A d \in Calls : d # c => (Executing(d)' <=> Executing(d)))
         /\ ex' \in [Calls -> CallExec] /\ \A d \in Calls : ex'[d].a = ex[d].a /\ ex'[d].grp = ex[d].grp
    BY <1>3, <1>5 DEF Executing, CallExec
  <1>11. OnCount(a)' = n /\ \A x \in Conns : x # a => OnCount(x)' = OnCount(x)
    <2>1. On(a)' = On(a) \ {c} /\ c \in On(a)
      BY <1>1, <1>2, <1>10 DEF On
    <2>2. \A x \in Conns : x # a => On(x)' = On(x)
      BY <1>2, <1>10 DEF On
    <2>3. QED
      BY <2>1, <2>2, CountLess DEF OnCount
  <1>12. InCount(h)' = i /\ \A x \in Conns : x # h => InCount(x)' = InCount(x)
    <2>1. In(h)' = In(h) \ {c} /\ c \in In(h)
      BY <1>1, <1>2, <1>10 DEF In
    <2>2. \A x \in Conns : x # h => In(x)' = In(x)
      BY <1>2, <1>10 DEF In
    <2>3. QED
      BY <2>1, <2>2, CountLessIn DEF InCount
  <1>13. Altered(srv.acb, srv'.acb, a, b)
         /\ srv'.grp[h] = k /\ \A g \in Conns : g # h => srv'.grp[g] = srv.grp[g]
    BY <1>8, GetsAltered
  <1>14. Listed(srv'.acb, srv'.grp)
    <2>1. \A g \in Conns : srv'.grp[g].list = srv.grp[g].list
      BY <1>6, <1>13
    <2>2. (b.grp = srv.acb[a].grp /\ b.st = srv.acb[a].st) \/ (b.st # "OPEN" /\ srv.acb[a].st # "OPEN")
      BY <1>9
    <2>3. QED
      BY <1>13, <2>1, <2>2, ListedKept DEF CountsInv
  <1>15. ASSUME NEW d \in Calls, Executing(d)' PROVE Counted(d)'
    <2>1. Counted(d) /\ ex'[d].a = ex[d].a /\ ex'[d].grp = ex[d].grp
      BY <1>10, <1>15 DEF CountsInv
    <2>2. \A x \in Conns : srv'.acb[x].grp \in {0, srv.acb[x].grp}
      BY <1>9, <1>13 DEF Altered
    <2>3. QED
      BY <2>1, <2>2 DEF Counted
  <1>16. SrvAcbOK(b, OnCount(a)') /\ GroupOK(k, InCount(h)')
    BY <1>6, <1>9, <1>11, <1>12
  <1> HIDE DEF b0, k0, n, i
  <1>17. srv' \in Server /\ CountsInv'
    BY <1>8, <1>9, <1>11, <1>12, <1>14, <1>15, <1>16, CountsStep
  <1>18. \A x \in Conns : Remains(x)
    BY <1>9, <1>13 DEF Altered, Remains, b0
  <1>19. QED
    BY <1>2, <1>10, <1>13, <1>17, <1>18 DEF ServerTypes, Altered

LEMMA CountsUnchanged ==
  ASSUME ServerTypes, CountsInv, SameExecutors, srv' = srv
  PROVE  CountsInv'
  <1>1. \A x : OnCount(x)' = OnCount(x) /\ InCount(x)' = InCount(x)
    BY CountsSame
  <1>2. \A c \in Calls : Executing(c)' => Counted(c)'
    BY DEF SameExecutors, CountsInv, Counted
  <1>3. QED
    BY <1>1, <1>2 DEF CountsInv

\* Only the number of handles changes.
SetsRefs(g, n) == srv' = [srv EXCEPT !.grp[g].refs = n]

LEMMA HandlesCounts ==
  ASSUME ServerTypes, CountsInv, SameExecutors, NEW g \in Conns, NEW n \in Nat,
         SetsRefs(g, n)
  PROVE  srv' \in Server /\ CountsInv'
  <1> DEFINE k0 == srv.grp[g]
             k == [k0 EXCEPT !.refs = n]
             b == srv.acb[g]
  <1>1. /\ srv \in Server /\ k0 \in ServerGroup /\ b \in ServerAcb
        /\ SrvAcbOK(b, OnCount(g)) /\ GroupOK(k0, InCount(g))
    BY ServerTyped DEF CountsInv
  <1>2. k \in ServerGroup /\ k.st = k0.st /\ k.calls = k0.calls /\ k.list = k0.list
    <2> HIDE DEF k0
    <2>1. QED
      BY <1>1 DEF ServerGroup
  <1>3. Gets(g, b, g, k)
    BY <1>1 DEF SetsRefs, Gets, Put, Server
  <1> HIDE DEF k
  <1>4. Altered(srv.acb, srv'.acb, g, b)
        /\ srv'.grp[g] = k /\ \A h \in Conns : h # g => srv'.grp[h] = srv.grp[h]
    BY <1>3, GetsAltered
  <1>5. Listed(srv'.acb, srv'.grp)
    <2>1. \A h \in Conns : srv'.grp[h].list = srv.grp[h].list
      BY <1>2, <1>4
    <2>2. (b.grp = srv.acb[g].grp /\ b.st = srv.acb[g].st) \/ (b.st # "OPEN" /\ srv.acb[g].st # "OPEN")
      OBVIOUS
    <2> HIDE DEF b
    <2>3. QED
      BY <1>4, <2>1, <2>2, ListedKept DEF CountsInv
  <1>6. GroupOK(k, InCount(g))
    BY <1>1, <1>2 DEF GroupOK
  <1>7. QED
    BY <1>1, <1>2, <1>3, <1>5, <1>6, CountsStill

LEMMA RespondsCounts ==
  ASSUME ServerTypes, CountsInv, NEW c \in Calls, Responds(c)
  PROVE  ServerTypes' /\ CountsInv' /\ srv'.acb = srv.acb
  <1> DEFINE g == GroupOf(c)
  <1>1. ex \in [Calls -> CallExec] /\ srv \in Server
    BY DEF ServerTypes
  <1>2. ex' = [ex EXCEPT ![c] = [@ EXCEPT !.pc = "sent", !.orphan = FALSE]] /\ ex[c].pc = "run"
    BY DEF Responds
  <1>3. ex' \in [Calls -> CallExec] /\ SameExecutors
    BY <1>1, <1>2 DEF CallExec, SameExecutors, Executing
  <1>4. CASE srv' = srv
    BY <1>1, <1>3, <1>4, CountsUnchanged DEF ServerTypes
  <1>5. CASE srv' # srv
    <2>1. /\ g # 0 /\ srv.grp[g].st = "ACTIVE"
          /\ \/ srv' = Mon(srv, g)
             \/ srv.grp[g].refs > 0 /\ srv' = [srv EXCEPT !.grp[g].refs = @ - 1]
      BY <1>5 DEF Responds
    <2>2. g \in Conns
      <3>1. Counted(c)
        BY <1>2 DEF CountsInv, Executing
      <3>2. g \in 0..MaxConns
        BY <3>1, ServerTyped DEF Counted, GroupOf, ServerAcb
      <3>3. QED
        BY <2>1, <3>2 DEF Conns
    <2>3. srv.grp[g].refs \in Nat
      BY <2>2, ServerTyped DEF ServerGroup
    <2>4. PICK h \in Conns, n \in Nat : SetsRefs(h, n)
      <3>1. CASE srv' = Mon(srv, g)
        <4>1. srv.grp[g].refs + 1 \in Nat
          BY <2>3
        <4>2. SetsRefs(g, srv.grp[g].refs + 1)
          BY <3>1 DEF Mon, SetsRefs
        <4>3. QED
          BY <2>2, <4>1, <4>2
      <3>2. CASE srv.grp[g].refs > 0 /\ srv' = [srv EXCEPT !.grp[g].refs = @ - 1]
        <4>1. srv.grp[g].refs - 1 \in Nat
          BY <2>3, <3>2
        <4>2. SetsRefs(g, srv.grp[g].refs - 1)
          BY <3>2 DEF SetsRefs
        <4>3. QED
          BY <2>2, <4>1, <4>2
      <3>3. QED
        BY <2>1, <3>1, <3>2
    <2>5. srv' \in Server /\ CountsInv'
      BY <1>3, <2>4, HandlesCounts
    <2>6. srv'.acb = srv.acb
      BY <2>4 DEF SetsRefs, ServerTypes, Server
    <2>7. QED
      BY <1>3, <2>5, <2>6 DEF ServerTypes
  <1>6. QED
    BY <1>4, <1>5

\* An open association leaves its group, which is left to its other associations or to the
\* calls that it has counted in.
LEMMA RemServerShape ==
  ASSUME ServerTypes, CountsInv, NEW a \in Conns, NEW g \in Conns,
         srv.acb[a].st = "OPEN", srv.acb[a].grp = g
  PROVE  \E h \in {0, g}, k \in ServerGroup :
           /\ RemFromServerGroup(srv, a) = Put(srv, a, Says(srv.acb[a], h), g, k)
           /\ k.list = Without(srv.grp[g].list, a) /\ GroupOK(k, InCount(g))
  <1> DEFINE k0 == srv.grp[g]
             b0 == srv.acb[a]
             rest == Without(k0.list, a)
  <1>1. srv \in Server /\ k0 \in ServerGroup /\ GroupOK(k0, InCount(g)) /\ k0.st = "ACTIVE"
        /\ InCount(g) \in Nat /\ b0 \in ServerAcb
    BY ServerTyped, OpenIsGrouped, OnFinite DEF CountsInv
  <1>2. rest \in Seq(Conns) /\ NoDup(rest) /\ k0.calls \in Nat /\ k0.calls >= InCount(g)
    BY <1>1, ServerTyped, WithoutList DEF GroupOK
  <1>3. g # 0
    BY DEF Conns
  <1>4. CASE rest = <<>>
    <2> DEFINE m == [k0 EXCEPT !.list = <<>>, !.st = "CALL_WAIT"]
               s2 == [srv EXCEPT !.grp[g] = [@ EXCEPT !.list = <<>>, !.st = "CALL_WAIT"]]
               d == [m EXCEPT !.st = "CLOSED", !.refs = 0]
    <2>1. RemFromServerGroup(srv, a) = Rundown(s2, a, g)
      BY <1>3, <1>4 DEF RemFromServerGroup
    <2>2. s2 = PutGroup(srv, g, m)
      BY <1>1 DEF PutGroup, Server
    <2>3. m \in ServerGroup /\ m.st = "CALL_WAIT" /\ m.list = <<>> /\ m.calls = k0.calls
      <3>1. <<>> \in Seq(Conns)
        OBVIOUS
      <3> HIDE DEF k0
      <3>2. QED
        BY <1>1, <3>1 DEF ServerGroup
    <2> HIDE DEF s2, m
    <2>4. d \in ServerGroup /\ d.st = "CLOSED" /\ d.list = <<>> /\ d.calls = m.calls
      BY <2>3 DEF ServerGroup
    <2>5. RanDown(m) = IF m.calls = 0 THEN d ELSE m
      BY <2>3 DEF RanDown
    <2> HIDE DEF d
    <2>6. RanDown(m) \in ServerGroup /\ RanDown(m).list = rest /\ GroupOK(RanDown(m), InCount(g))
      <3>1. NoDup(<<>>)
        BY <1>2, <1>4
      <3>2. m.calls = 0 => GroupOK(d, InCount(g))
        BY <1>1, <1>2, <2>3, <2>4, <3>1 DEF GroupOK
      <3>3. m.calls # 0 => GroupOK(m, InCount(g))
        BY <1>1, <1>2, <2>3, <3>1 DEF GroupOK
      <3>4. QED
        BY <1>4, <2>3, <2>4, <2>5, <3>2, <3>3
    <2>7. PICK h \in {0, g} : Rundown(s2, a, g) = Put(srv, a, Says(b0, h), g, RanDown(m))
      BY <1>1, <2>2, RundownShape
    <2>8. QED
      BY <2>1, <2>6, <2>7
  <1>5. CASE rest # <<>>
    <2> DEFINE k == [k0 EXCEPT !.list = rest]
    <2>1. RemFromServerGroup(srv, a) = Put(srv, a, Says(b0, 0), g, k)
      BY <1>1, <1>3, <1>5 DEF RemFromServerGroup, Put, Says, Server
    <2>2. k \in ServerGroup /\ k.list = rest /\ k.st = "ACTIVE" /\ k.calls = k0.calls
      <3> HIDE DEF k0, rest
      <3>1. QED
        BY <1>1, <1>2 DEF ServerGroup
    <2> HIDE DEF k
    <2>3. GroupOK(k, InCount(g))
      BY <1>2, <1>5, <2>2 DEF GroupOK
    <2>4. QED
      BY <2>1, <2>2, <2>3
  <1>6. QED
    BY <1>4, <1>5

\* An open association closes as b.
LEMMA ClosesCounts ==
  ASSUME ServerTypes, CountsInv, SameExecutors, NEW a \in Conns, NEW b \in ServerAcb,
         NEW g \in Conns, NEW k \in ServerGroup, Gets(a, b, g, k),
         srv.acb[a].st = "OPEN", srv.acb[a].grp = g, b.st = "CLOSED", b.grp \in {0, g},
         SrvAcbOK(b, OnCount(a)),
         k.list = Without(srv.grp[g].list, a), GroupOK(k, InCount(g))
  PROVE  srv' \in Server /\ CountsInv'
  <1>1. Altered(srv.acb, srv'.acb, a, b)
        /\ srv'.grp[g] = k /\ \A h \in Conns : h # g => srv'.grp[h] = srv.grp[h]
    BY GetsAltered
  <1>2. Listed(srv'.acb, srv'.grp)
    <2> DEFINE acb == srv.acb
               grp == srv.grp
               acb2 == srv'.acb
               grp2 == srv'.grp
    <2>1. Listed(acb, grp) /\ Altered(acb, acb2, a, b) /\ b.st # "OPEN"
      BY <1>1 DEF CountsInv
    <2>2. \A h \in Conns : grp[h].list \in Seq(Conns) /\ NoDup(grp[h].list)
      BY ServerTyped DEF CountsInv, GroupOK
    <2>3. \A h \in Conns : grp2[h].list = IF h = acb[a].grp THEN Without(grp[h].list, a)
                                          ELSE grp[h].list
      BY <1>1
    <2> HIDE DEF acb, grp, acb2, grp2
    <2>4. Listed(acb2, grp2)
      BY <2>1, <2>2, <2>3, ListedLeft
    <2>5. QED
      BY <2>4 DEF acb2, grp2
  <1>3. QED
    BY <1>2, CountsStill

LEMMA PutShape ==
  ASSUME NEW s \in Server, NEW a \in Conns, NEW g \in Conns, NEW b \in ServerAcb,
         NEW k \in ServerGroup
  PROVE  /\ Put(s, a, b, g, k) \in Server
         /\ Put(s, a, b, g, k).acb[a] = b /\ Put(s, a, b, g, k).grp[g] = k
         /\ \A d : [Put(s, a, b, g, k) EXCEPT !.acb[a] = d] = Put(s, a, d, g, k)
         /\ DeallocServerAcb(Put(s, a, b, g, k), a) = Put(s, a, SrvAfterDealloc(b), g, k)
  <1> DEFINE p == Put(s, a, b, g, k)
  <1>1. p \in Server /\ p.acb[a] = b /\ p.acb = [s.acb EXCEPT ![a] = b]
        /\ p.grp = [s.grp EXCEPT ![g] = k] /\ p.grp[g] = k
    BY DEF Put, Server
  <1> HIDE DEF p
  <1>2. ASSUME NEW d PROVE [p EXCEPT !.acb[a] = d] = Put(s, a, d, g, k)
    <2>1. [p EXCEPT !.acb[a] = d] = [acb |-> [p.acb EXCEPT ![a] = d], grp |-> p.grp]
      BY <1>1 DEF Server
    <2>2. [p.acb EXCEPT ![a] = d] = [s.acb EXCEPT ![a] = d]
      BY <1>1 DEF Server
    <2>3. QED
      BY <1>1, <2>1, <2>2 DEF Put
  <1>3. DeallocServerAcb(p, a) = Put(s, a, SrvAfterDealloc(b), g, k)
    <2>1. DeallocServerAcb(p, a) = [acb |-> [p.acb EXCEPT ![a] = SrvAfterDealloc(b)], grp |-> p.grp]
      BY <1>1, SrvDeallocShape
    <2>2. [p.acb EXCEPT ![a] = SrvAfterDealloc(b)] = [s.acb EXCEPT ![a] = SrvAfterDealloc(b)]
      BY <1>1 DEF Server
    <2>3. QED
      BY <1>1, <2>1, <2>2 DEF Put
  <1>4. QED
    BY <1>1, <1>2, <1>3 DEF p

\* decr_assoc_count_action_rtn and the mark, which the ends of an association have in common
LEMMA MarkedShape ==
  ASSUME ServerTypes, CountsInv, NEW a \in Conns, NEW g \in Conns,
         srv.acb[a].st = "OPEN", srv.acb[a].grp = g
  PROVE  \E b \in ServerAcb, k \in ServerGroup :
           /\ MarkServer(RemFromServerGroup(srv, a), a) = Put(srv, a, b, g, k)
           /\ b.st = "CLOSED" /\ b.ref = srv.acb[a].ref /\ b.rx = srv.acb[a].rx
           /\ b.life = srv.acb[a].life /\ b.grp \in {0, g}
           /\ k.list = Without(srv.grp[g].list, a) /\ GroupOK(k, InCount(g))
  <1> DEFINE b0 == srv.acb[a]
  <1>1. srv \in Server /\ b0 \in ServerAcb
    BY ServerTyped
  <1>2. PICK h \in {0, g}, k \in ServerGroup :
          /\ RemFromServerGroup(srv, a) = Put(srv, a, Says(b0, h), g, k)
          /\ k.list = Without(srv.grp[g].list, a) /\ GroupOK(k, InCount(g))
    BY RemServerShape
  <1> DEFINE b1 == Says(b0, h)
             p == Put(srv, a, b1, g, k)
             b == [b1 EXCEPT !.st = "CLOSED", !.ok = FALSE]
  <1>3. b1 \in ServerAcb /\ b1.ref = b0.ref /\ b1.rx = b0.rx /\ b1.life = b0.life /\ b1.grp = h
    <2>1. h \in 0..MaxConns
      BY BindAssumption DEF Conns
    <2> HIDE DEF b0
    <2>2. QED
      BY <1>1, <2>1 DEF ServerAcb, Says
  <1> HIDE DEF b1
  <1>4. b \in ServerAcb /\ b.st = "CLOSED" /\ b.ref = b1.ref /\ b.rx = b1.rx
        /\ b.life = b1.life /\ b.grp = b1.grp
    BY <1>3 DEF ServerAcb
  <1>5. p \in Server /\ p.acb[a] = b1 /\ \A d : [p EXCEPT !.acb[a] = d] = Put(srv, a, d, g, k)
    BY <1>1, <1>3, PutShape
  <1> HIDE DEF p
  <1>6. MarkServer(p, a) = [p EXCEPT !.acb[a] = b]
    BY <1>5 DEF MarkServer, Server
  <1> HIDE DEF b
  <1>7. MarkServer(p, a) = Put(srv, a, b, g, k)
    BY <1>5, <1>6
  <1>8. RemFromServerGroup(srv, a) = p
    BY <1>2 DEF p, b1
  <1> HIDE DEF b0
  <1>9. QED
    BY <1>2, <1>3, <1>4, <1>7, <1>8 DEF b0

LEMMA ServerEndsCounts ==
  ASSUME ServerTypes, CountsInv, NEW a \in Conns, ServerEnds(a)
  PROVE  ServerTypes' /\ CountsInv' /\ srv'.acb[a].st = "CLOSED"
         /\ \A x \in Conns : x # a => srv'.acb[x] = srv.acb[x]
  <1> DEFINE b0 == srv.acb[a]
             s == IF b0.cancel \/ b0.st # "OPEN" THEN srv
                  ELSE MarkServer(RemFromServerGroup(srv, a), a)
  <1>1. srv \in Server /\ b0 \in ServerAcb /\ SrvAcbOK(b0, OnCount(a)) /\ OnCount(a) \in Nat
    BY ServerTyped, OnFinite DEF CountsInv
  <1>2. b0.rx = "recv" /\ ex' = ex
        /\ srv' = DeallocServerAcb([s EXCEPT !.acb[a] = [s.acb[a] EXCEPT !.rx = "done",
                                                                        !.cancel = FALSE]], a)
    BY DEF ServerEnds
  <1>3. SameExecutors
    BY <1>2 DEF SameExecutors, Executing
  <1>4. ASSUME NEW g \in Conns, NEW k \in ServerGroup, NEW b1 \in ServerAcb,
               s = Put(srv, a, b1, g, k),
               b1.st = "CLOSED", b1.ref = b0.ref, b1.rx = b0.rx, b1.life = b0.life
        PROVE  \E b \in ServerAcb : /\ Gets(a, b, g, k) /\ SrvAcbOK(b, OnCount(a))
                                    /\ b.st = "CLOSED" /\ b.grp \in {0, b1.grp}
    <2> DEFINE b2 == [b1 EXCEPT !.rx = "done", !.cancel = FALSE]
    <2>1. b2 \in ServerAcb /\ b2.ref = b1.ref /\ b2.st = b1.st /\ b2.rx = "done"
          /\ b2.life = b1.life /\ b2.grp = b1.grp
      BY DEF ServerAcb
    <2> HIDE DEF s
    <2>2. s.acb[a] = b1 /\ \A d : [s EXCEPT !.acb[a] = d] = Put(srv, a, d, g, k)
      <3> DEFINE p == Put(srv, a, b1, g, k)
      <3>1. p.acb[a] = b1 /\ \A d : [p EXCEPT !.acb[a] = d] = Put(srv, a, d, g, k)
        BY <1>1, PutShape
      <3> HIDE DEF p
      <3>2. s = p
        BY <1>4 DEF p
      <3>3. QED
        BY <3>1, <3>2
    <2>3. srv' = DeallocServerAcb([s EXCEPT !.acb[a] = b2], a)
      BY <1>2, <2>2
    <2> HIDE DEF b2, b0
    <2>4. srv' = Put(srv, a, SrvAfterDealloc(b2), g, k)
      <3>1. [s EXCEPT !.acb[a] = b2] = Put(srv, a, b2, g, k)
        BY <2>2
      <3>2. DeallocServerAcb(Put(srv, a, b2, g, k), a) = Put(srv, a, SrvAfterDealloc(b2), g, k)
        BY <1>1, <2>1, PutShape
      <3> DEFINE q == [s EXCEPT !.acb[a] = b2]
      <3>3. srv' = DeallocServerAcb(q, a) /\ q = Put(srv, a, b2, g, k)
        BY <2>3, <3>1
      <3> HIDE DEF q
      <3>4. QED
        BY <3>2, <3>3
    <2>5. b2.ref = OnCount(a) + 1 + Receiving(b2) /\ b2.life = "live"
      BY <1>1, <1>2, <1>4, <2>1 DEF SrvAcbOK, Receiving
    <2>6. /\ SrvAfterDealloc(b2) \in ServerAcb /\ SrvAcbOK(SrvAfterDealloc(b2), OnCount(a))
          /\ SrvAfterDealloc(b2).st = b2.st /\ SrvAfterDealloc(b2).grp \in {0, b2.grp}
      BY <1>1, <1>4, <2>1, <2>5, SrvDeallocOK
    <2>7. QED
      BY <1>4, <2>1, <2>4, <2>6 DEF Gets
  <1>5. CASE b0.st = "OPEN"
    <2>1. PICK g \in Conns : b0.grp = g
      BY <1>5, OpenIsGrouped
    <2>2. s = MarkServer(RemFromServerGroup(srv, a), a)
      BY <1>5, OpenIsGrouped
    <2> HIDE DEF s
    <2>3. PICK b1 \in ServerAcb, k \in ServerGroup :
            /\ s = Put(srv, a, b1, g, k)
            /\ b1.st = "CLOSED" /\ b1.ref = b0.ref /\ b1.rx = b0.rx
            /\ b1.life = b0.life /\ b1.grp \in {0, g}
            /\ k.list = Without(srv.grp[g].list, a) /\ GroupOK(k, InCount(g))
      BY <1>5, <2>1, <2>2, MarkedShape
    <2>4. PICK b \in ServerAcb : /\ Gets(a, b, g, k) /\ SrvAcbOK(b, OnCount(a))
                                 /\ b.st = "CLOSED" /\ b.grp \in {0, b1.grp}
      BY <1>4, <2>3
    <2>5. srv' \in Server /\ CountsInv'
      BY <1>3, <1>5, <2>1, <2>3, <2>4, ClosesCounts
    <2>6. Altered(srv.acb, srv'.acb, a, b)
      BY <2>1, <2>4, GetsAltered
    <2>7. QED
      BY <1>2, <2>4, <2>5, <2>6 DEF ServerTypes, Altered
  <1>6. CASE b0.st # "OPEN"
    <2>1. s = srv /\ b0.st = "CLOSED"
      BY <1>1, <1>6 DEF ServerAcb
    <2> DEFINE k == srv.grp[a]
    <2>2. k \in ServerGroup /\ GroupOK(k, InCount(a))
      BY ServerTyped DEF CountsInv
    <2>3. s = Put(srv, a, b0, a, k)
      BY <1>1, <2>1 DEF Put, Server
    <2> HIDE DEF s
    <2>4. PICK b \in ServerAcb : /\ Gets(a, b, a, k) /\ SrvAcbOK(b, OnCount(a))
                                 /\ b.st = "CLOSED" /\ b.grp \in {0, b0.grp}
      BY <1>1, <1>4, <2>1, <2>2, <2>3
    <2>5. /\ Altered(srv.acb, srv'.acb, a, b)
          /\ srv'.grp[a] = k /\ \A h \in Conns : h # a => srv'.grp[h] = srv.grp[h]
      BY <2>4, GetsAltered
    <2>6. Listed(srv'.acb, srv'.grp)
      <3>1. \A h \in Conns : srv'.grp[h].list = srv.grp[h].list
        BY <2>5
      <3>2. (b.grp = srv.acb[a].grp /\ b.st = srv.acb[a].st) \/ (b.st # "OPEN" /\ srv.acb[a].st # "OPEN")
        BY <1>6, <2>4
      <3>3. QED
        BY <2>5, <3>1, <3>2, ListedKept DEF CountsInv
    <2>7. srv' \in Server /\ CountsInv'
      BY <1>3, <2>2, <2>4, <2>6, CountsStill
    <2>8. QED
      BY <1>2, <2>4, <2>5, <2>7 DEF ServerTypes, Altered
  <1>7. QED
    BY <1>5, <1>6

\* The timer asks for the end of an association, or makes it.
LEMMA ServerReclaimsCounts ==
  ASSUME ServerTypes, CountsInv, NEW g \in Conns, ServerReclaims(g)
  PROVE  /\ ServerTypes' /\ CountsInv'
         /\ \A x \in Conns : Remains(x) /\ (srv'.acb[x] # srv.acb[x] => srv.acb[x].st = "OPEN")
  <1>1. PICK a \in Idle(srv.grp[g].list, srv.acb) :
          \/ srv' = [srv EXCEPT !.acb[a].reqs = @ + 1]
          \/ srv' = [MarkServer(RemFromServerGroup(srv, a), a)
                       EXCEPT !.acb[a].cancel = TRUE, !.grp[g].aborted = TRUE]
    BY DEF ServerReclaims
  <1> DEFINE b0 == srv.acb[a]
  <1>2. a \in Conns /\ b0.st = "OPEN" /\ b0.grp = g
    <2>1. a \in Members(srv.grp[g].list) /\ srv.grp[g].list \in Seq(Conns)
      BY ServerTyped DEF Idle
    <2>2. a \in Conns
      BY <2>1, MembersInConns
    <2>3. QED
      BY <2>1, <2>2 DEF CountsInv, Listed
  <1>3. /\ srv \in Server /\ b0 \in ServerAcb /\ SrvAcbOK(b0, OnCount(a))
        /\ GroupOK(srv.grp[a], InCount(a))
    BY <1>2, ServerTyped DEF CountsInv
  <1>4. SameExecutors /\ ex' = ex
    BY DEF ServerReclaims, SameExecutors, Executing
  <1>5. CASE srv' = [srv EXCEPT !.acb[a].reqs = @ + 1]
    <2> DEFINE b == [b0 EXCEPT !.reqs = b0.reqs + 1]
    <2>1. b \in ServerAcb /\ b.ref = b0.ref /\ b.st = b0.st /\ b.rx = b0.rx /\ b.life = b0.life
          /\ b.cancel = b0.cancel /\ b.users = b0.users /\ b.grp = b0.grp
      <3> HIDE DEF b0
      <3>1. QED
        BY <1>3 DEF ServerAcb
    <2>2. srv' = [srv EXCEPT !.acb[a] = b]
      BY <1>5
    <2> HIDE DEF b
    <2>3. /\ Gets(a, b, a, srv.grp[a]) /\ srv.grp[a] \in ServerGroup
          /\ Altered(srv.acb, srv'.acb, a, b) /\ \A h \in Conns : srv'.grp[h].list = srv.grp[h].list
      BY <1>2, <2>2, GetsAcb
    <2>4. Listed(srv'.acb, srv'.grp)
      <3>1. (b.grp = srv.acb[a].grp /\ b.st = srv.acb[a].st) \/ (b.st # "OPEN" /\ srv.acb[a].st # "OPEN")
        BY <2>1
      <3>2. Listed(srv.acb, srv.grp)
        BY DEF CountsInv
      <3> DEFINE acb == srv.acb
                 grp == srv.grp
                 acb2 == srv'.acb
                 grp2 == srv'.grp
      <3>3. /\ Listed(acb, grp) /\ Altered(acb, acb2, a, b)
            /\ (b.grp = acb[a].grp /\ b.st = acb[a].st) \/ (b.st # "OPEN" /\ acb[a].st # "OPEN")
            /\ \A h \in Conns : grp2[h].list = grp[h].list
        BY <2>3, <3>1, <3>2
      <3> HIDE DEF acb, grp, acb2, grp2
      <3>4. Listed(acb2, grp2)
        BY <1>2, <3>3, ListedKept
      <3>5. QED
        BY <3>4 DEF acb2, grp2
    <2>5. SrvAcbOK(b, OnCount(a))
      <3>1. Receiving(b) = Receiving(b0)
        BY <2>1 DEF Receiving
      <3>2. QED
        BY <1>3, <2>1, <3>1 DEF SrvAcbOK
    <2>6. b.grp \in {0, srv.acb[a].grp}
      BY <2>1
    <2> HIDE DEF b0
    <2>7. srv' \in Server /\ CountsInv'
      BY <1>2, <1>3, <1>4, <2>1, <2>3, <2>4, <2>5, <2>6, CountsStill
    <2>8. QED
      BY <1>2, <1>4, <2>1, <2>3, <2>7 DEF ServerTypes, Altered, Remains, b0
  <1>6. CASE srv' = [MarkServer(RemFromServerGroup(srv, a), a)
                       EXCEPT !.acb[a].cancel = TRUE, !.grp[g].aborted = TRUE]
    <2> DEFINE p == MarkServer(RemFromServerGroup(srv, a), a)
    <2>1. PICK b1 \in ServerAcb, k1 \in ServerGroup :
            /\ p = Put(srv, a, b1, g, k1)
            /\ b1.st = "CLOSED" /\ b1.ref = b0.ref /\ b1.rx = b0.rx
            /\ b1.life = b0.life /\ b1.grp \in {0, g}
            /\ k1.list = Without(srv.grp[g].list, a) /\ GroupOK(k1, InCount(g))
      BY <1>2, MarkedShape
    <2> HIDE DEF p
    <2> DEFINE b == [b1 EXCEPT !.cancel = TRUE]
               k == [k1 EXCEPT !.aborted = TRUE]
    <2>2. b \in ServerAcb /\ b.ref = b1.ref /\ b.st = b1.st /\ b.rx = b1.rx
          /\ b.life = b1.life /\ b.grp = b1.grp
      BY DEF ServerAcb
    <2>3. k \in ServerGroup /\ k.list = k1.list /\ k.st = k1.st /\ k.calls = k1.calls
      BY DEF ServerGroup
    <2>4. srv' = [p EXCEPT !.acb[a].cancel = TRUE, !.grp[g].aborted = TRUE]
      BY <1>6 DEF p
    <2>5. Gets(a, b, g, k)
      <3>1. p \in Server /\ p.acb[a] = b1 /\ p.grp[g] = k1
        BY <1>2, <1>3, <2>1, PutShape
      <3>2. p.acb = [srv.acb EXCEPT ![a] = b1] /\ p.grp = [srv.grp EXCEPT ![g] = k1]
        BY <2>1 DEF Put
      <3>3. srv' = [acb |-> [p.acb EXCEPT ![a] = b], grp |-> [p.grp EXCEPT ![g] = k]]
        BY <1>2, <2>4, <3>1 DEF Server
      <3> HIDE DEF b, k
      <3>4. [p.acb EXCEPT ![a] = b] = [srv.acb EXCEPT ![a] = b]
            /\ [p.grp EXCEPT ![g] = k] = [srv.grp EXCEPT ![g] = k]
        BY <1>2, <1>3, <3>2 DEF Server
      <3>5. QED
        BY <3>3, <3>4 DEF Gets, Put
    <2> HIDE DEF b, k
    <2>6. SrvAcbOK(b, OnCount(a))
      <3>1. Receiving(b) = Receiving(b0)
        BY <2>1, <2>2 DEF Receiving
      <3>2. QED
        BY <1>3, <2>1, <2>2, <3>1 DEF SrvAcbOK
    <2>7. GroupOK(k, InCount(g))
      BY <2>1, <2>3 DEF GroupOK
    <2>8. b.st = "CLOSED" /\ b.grp \in {0, g} /\ k.list = Without(srv.grp[g].list, a)
      BY <2>1, <2>2, <2>3
    <2>9. srv' \in Server /\ CountsInv'
      BY <1>2, <1>4, <2>2, <2>3, <2>5, <2>6, <2>7, <2>8, ClosesCounts
    <2>10. Altered(srv.acb, srv'.acb, a, b)
      BY <1>2, <2>5, GetsAltered
    <2>11. QED
      BY <1>2, <1>4, <2>8, <2>9, <2>10 DEF ServerTypes, Altered, Remains
  <1>7. QED
    BY <1>1, <1>5, <1>6

-----------------------------------------------------------------------------
(* What is on its way to the server *)

\* Places of a caller whose request is not sent yet
Ahead == {"request", "grpwait", "sleep", "connect", "bindwait", "call"}

IsRequest(a, i) == i \in DOMAIN net[a].c2s /\ net[a].c2s[i].type = "request"
CallAt(a, i) == net[a].c2s[i].call

\* A call that has begun and that the server has not seen
Pending(c) == c \in 1..calls /\ ex[c].pc = "none"

\* The server has not begun to use the association.
Unbound(a) == srv.acb[a].st # "OPEN" /\ srv.acb[a].users = 0 /\ On(a) = {}

\* Nothing goes before a bind.
BindFirst(a) ==
  \A i \in DOMAIN net[a].c2s : net[a].c2s[i].type = "bind" => i = 1 /\ Unbound(a)

\* A request is sent once, by the one caller that has the call.
Unique ==
  /\ \A a, b \in Conns : \A i \in DOMAIN net[a].c2s, j \in DOMAIN net[b].c2s :
       IsRequest(a, i) /\ IsRequest(b, j) /\ CallAt(a, i) = CallAt(b, j) => a = b /\ i = j
  /\ \A t, u \in Threads :
       thr[t].pc \in Ahead /\ thr[u].pc \in Ahead /\ thr[t].call = thr[u].call => t = u
  /\ \A t \in Threads, a \in Conns : \A i \in DOMAIN net[a].c2s :
       thr[t].pc \in Ahead /\ IsRequest(a, i) => CallAt(a, i) # thr[t].call

\* What is still to be asked of the server is new to it.
Unseen ==
  /\ \A a \in Conns : \A i \in DOMAIN net[a].c2s : IsRequest(a, i) => Pending(CallAt(a, i))
  /\ \A t \in Threads : thr[t].pc \in Ahead => Pending(thr[t].call)
  /\ \A c \in Calls : c > calls => ex[c].pc = "none"

\* A connection that is still to be made
Fresh(a) == cli.acb[a].life = "new" \/ \E t \in Threads : thr[t].pc = "connect" /\ thr[t].a = a
FreshInv == \A a \in Conns : Fresh(a) => ~net[a].up /\ srv.acb[a] = NoAcb

WireInv == (\A a \in Conns : BindFirst(a)) /\ Unique /\ Unseen /\ FreshInv

\* Packets of a type: the first s of all are gone from the connection, and none is added.
Later(ty, a, s) ==
  \A i \in DOMAIN net'[a].c2s :
    net'[a].c2s[i].type = ty =>
      i + s \in DOMAIN net[a].c2s /\ net'[a].c2s[i] = net[a].c2s[i + s]

\* No caller comes to have a request to send.
CallersGoOn ==
  \A t \in Threads :
    thr'[t].pc \in Ahead => thr[t].pc \in Ahead /\ thr'[t].call = thr[t].call

LEMMA WireTyped ==
  ASSUME NEW n \in [Conns -> Connection], NEW a \in Conns
  PROVE  /\ n[a] \in Connection /\ n[a].c2s \in Seq(ClientPacket)
         /\ DOMAIN n[a].c2s \subseteq Nat \ {0}
         /\ \A i \in DOMAIN n[a].c2s : n[a].c2s[i] \in ClientPacket
  <1>1. n[a] \in Connection /\ n[a].c2s \in Seq(ClientPacket)
    BY DEF Connection
  <1>2. QED
    BY <1>1

LEMMA UniqueGoesOn ==
  ASSUME Unique, \A a \in Conns : \E s \in {0, 1} : Later("request", a, s), CallersGoOn, NetTypes, NetTypes'
  PROVE  Unique'
  <1>1. ASSUME NEW a \in Conns, NEW b \in Conns, NEW i \in DOMAIN net'[a].c2s,
               NEW j \in DOMAIN net'[b].c2s,
               IsRequest(a, i)', IsRequest(b, j)', CallAt(a, i)' = CallAt(b, j)'
        PROVE  a = b /\ i = j
    <2>1. PICK s \in {0, 1} : Later("request", a, s)
      OBVIOUS
    <2>2. PICK r \in {0, 1} : Later("request", b, r) /\ (a = b => r = s)
      BY <2>1
    <2>3. i + s \in DOMAIN net[a].c2s /\ net'[a].c2s[i] = net[a].c2s[i + s]
      BY <1>1, <2>1 DEF Later, IsRequest
    <2>4. j + r \in DOMAIN net[b].c2s /\ net'[b].c2s[j] = net[b].c2s[j + r]
      BY <1>1, <2>2 DEF Later, IsRequest
    <2>5. a = b /\ i + s = j + r
      BY <1>1, <2>3, <2>4 DEF Unique, IsRequest, CallAt
    <2>6. i \in Nat /\ j \in Nat
      BY WireTyped DEF NetTypes
    <2>7. QED
      BY <2>2, <2>5, <2>6
  <1>2. ASSUME NEW t \in Threads, NEW a \in Conns, NEW i \in DOMAIN net'[a].c2s,
               thr'[t].pc \in Ahead, IsRequest(a, i)'
        PROVE  CallAt(a, i)' # thr'[t].call
    <2>1. PICK s \in {0, 1} : Later("request", a, s)
      OBVIOUS
    <2>2. i + s \in DOMAIN net[a].c2s /\ net'[a].c2s[i] = net[a].c2s[i + s]
      BY <1>2, <2>1 DEF Later, IsRequest
    <2>3. QED
      BY <1>2, <2>2 DEF Unique, IsRequest, CallAt, CallersGoOn
  <1>3. \A t, u \in Threads :
          thr'[t].pc \in Ahead /\ thr'[u].pc \in Ahead /\ thr'[t].call = thr'[u].call => t = u
    BY DEF Unique, CallersGoOn
  <1>4. QED
    BY <1>1, <1>2, <1>3 DEF Unique

\* gone is the call that the server has seen in this step, if it has.
LEMMA UnseenGoesOn ==
  ASSUME Unseen, \A a \in Conns : \E s \in {0, 1} : Later("request", a, s), CallersGoOn, NetTypes, NetTypes',
         calls' = calls, calls \in 0..MaxCalls, NEW gone,
         \A c \in Calls : c # gone /\ ex[c].pc = "none" => ex'[c].pc = "none",
         \A a \in Conns : \A i \in DOMAIN net'[a].c2s : IsRequest(a, i)' => CallAt(a, i)' # gone,
         \A t \in Threads : thr'[t].pc \in Ahead => thr'[t].call # gone,
         gone \in Calls => gone <= calls
  PROVE  Unseen'
  <1>1. \A c : Pending(c) /\ c # gone => Pending(c)'
    BY BindAssumption DEF Pending, Calls
  <1>2. ASSUME NEW a \in Conns, NEW i \in DOMAIN net'[a].c2s, IsRequest(a, i)',
               NEW c, c = CallAt(a, i)'
        PROVE  Pending(c)'
    <2>1. PICK s \in {0, 1} : Later("request", a, s)
      OBVIOUS
    <2>2. i + s \in DOMAIN net[a].c2s /\ net'[a].c2s[i] = net[a].c2s[i + s]
      BY <1>2, <2>1 DEF Later, IsRequest
    <2>3. Pending(c)
      BY <1>2, <2>2 DEF Unseen, IsRequest, CallAt
    <2>4. QED
      BY <1>1, <1>2, <2>3
  <1>3. ASSUME NEW t \in Threads, thr'[t].pc \in Ahead, NEW c, c = thr'[t].call
        PROVE  Pending(c)'
    BY <1>1, <1>3 DEF Unseen, CallersGoOn
  <1>4. \A c \in Calls : c > calls' => ex'[c].pc = "none"
    BY BindAssumption DEF Unseen, Calls
  <1>5. \A a \in Conns : \A i \in DOMAIN net'[a].c2s : IsRequest(a, i)' => Pending(CallAt(a, i))'
    BY <1>2 DEF Pending, CallAt
  <1>6. \A t \in Threads : thr'[t].pc \in Ahead => Pending(thr[t].call)'
    BY <1>3 DEF Pending
  <1>7. QED
    BY <1>4, <1>5, <1>6 DEF Unseen

LEMMA BindsGoOn ==
  ASSUME NetTypes', NEW a \in Conns, BindFirst(a), NEW s \in {0, 1}, Later("bind", a, s),
         s = 0 => (Unbound(a) => Unbound(a)')
  PROVE  BindFirst(a)'
  <1> SUFFICES ASSUME NEW i \in DOMAIN net'[a].c2s, net'[a].c2s[i].type = "bind"
               PROVE  i = 1 /\ Unbound(a)'
    BY DEF BindFirst
  <1>1. i \in Nat /\ i # 0
    BY WireTyped DEF NetTypes
  <1>2. i + s \in DOMAIN net[a].c2s /\ net'[a].c2s[i] = net[a].c2s[i + s]
    BY DEF Later
  <1>3. i + s = 1 /\ Unbound(a)
    BY <1>2 DEF BindFirst
  <1>4. QED
    BY <1>1, <1>3

\* Nothing is seen by the server in the step.
LEMMA UnseenStays ==
  ASSUME Unseen, \A a \in Conns : \E s \in {0, 1} : Later("request", a, s), CallersGoOn, NetTypes, NetTypes',
         calls' = calls, calls \in 0..MaxCalls, thr' \in [Threads -> Caller],
         \A c \in Calls : ex[c].pc = "none" => ex'[c].pc = "none"
  PROVE  Unseen'
  <1>1. \A a \in Conns : \A i \in DOMAIN net'[a].c2s : IsRequest(a, i)' => CallAt(a, i)' # -1
    <2> SUFFICES ASSUME NEW a \in Conns, NEW i \in DOMAIN net'[a].c2s PROVE CallAt(a, i)' # -1
      OBVIOUS
    <2>1. net'[a].c2s[i].call \in 0..MaxCalls
      BY WireTyped DEF NetTypes, ClientPacket
    <2>2. QED
      BY <2>1, BindAssumption DEF CallAt
  <1>2. \A t \in Threads : thr'[t].call # -1
    <2> SUFFICES ASSUME NEW t \in Threads PROVE thr'[t].call # -1
      OBVIOUS
    <2>1. thr'[t].call \in 0..MaxCalls
      BY DEF Caller
    <2>2. QED
      BY <2>1, BindAssumption
  <1>3. -1 \notin Calls
    BY BindAssumption DEF Calls
  <1>4. QED
    BY <1>1, <1>2, <1>3, UnseenGoesOn

-----------------------------------------------------------------------------
(* Steps of the client *)

\* Callers do not come to have requests to send, nor connections to make but unused ones.
QuietCallers == CallersGoOn /\ \A t \in Threads : thr'[t].pc = "connect" => Fresh(thr'[t].a)

\* No connection is made, and no bind and no request is sent.
QuietNet == \A a \in Conns : (net'[a].up => net[a].up) /\ Later("bind", a, 0) /\ Later("request", a, 0)

LEMMA ClientWire ==
  ASSUME ClientInv, ClientInv', WireInv, Onward, QuietCallers, QuietNet,
         UNCHANGED <<calls, serverVars>>
  PROVE  WireInv'
  <1>1. NetTypes /\ NetTypes' /\ calls \in 0..MaxCalls /\ thr' \in [Threads -> Caller]
    BY DEF ClientInv, ClientTypes
  <1>2. srv' = srv /\ ex' = ex /\ calls' = calls
    BY DEF serverVars
  <1>3. \A a \in Conns : Later("bind", a, 0) /\ Later("request", a, 0)
    BY DEF QuietNet
  <1>4. \A a \in Conns : BindFirst(a)'
    <2> SUFFICES ASSUME NEW a \in Conns PROVE BindFirst(a)'
      OBVIOUS
    <2>1. On(a)' = On(a)
      BY <1>2 DEF On, Executing
    <2>2. Unbound(a) => Unbound(a)'
      BY <1>2, <2>1 DEF Unbound
    <2>3. QED
      BY <1>1, <1>3, <2>2, BindsGoOn DEF WireInv
  <1>5. Unique'
    BY <1>1, <1>3, UniqueGoesOn DEF WireInv, QuietCallers
  <1>6. Unseen'
    BY <1>1, <1>2, <1>3, UnseenStays DEF WireInv, QuietCallers
  <1>7. FreshInv'
    <2> SUFFICES ASSUME NEW a \in Conns, Fresh(a)' PROVE ~net'[a].up /\ srv'.acb[a] = NoAcb
      BY DEF FreshInv
    <2>1. Fresh(a)
      BY DEF Fresh, Onward, Ages, QuietCallers
    <2>2. QED
      BY <1>2, <2>1 DEF FreshInv, WireInv, QuietNet
  <1>8. QED
    BY <1>4, <1>5, <1>6, <1>7 DEF WireInv

LEMMA NetStays ==
  ASSUME net' = net, NetTypes
  PROVE  QuietNet
  <1> SUFFICES ASSUME NEW a \in Conns, NEW i \in DOMAIN net[a].c2s PROVE i + 0 = i
    BY DEF QuietNet, Later
  <1>1. i \in Nat
    BY WireTyped DEF NetTypes
  <1>2. QED
    BY <1>1

\* Only one caller moves.
LEMMA MoveQuiet ==
  ASSUME ClientInv, NEW t \in Threads, NEW r, Moves(t, r),
         r.pc \in Ahead => thr[t].pc \in Ahead /\ r.call = thr[t].call,
         r.pc = "connect" => Fresh(r.a)
  PROVE  QuietCallers
  <1>1. thr \in [Threads -> Caller]
    BY DEF ClientInv, ClientTypes
  <1>2. thr'[t] = r /\ \A u \in Threads : u # t => thr'[u] = thr[u]
    BY <1>1 DEF Moves
  <1>3. QED
    BY <1>2 DEF QuietCallers, CallersGoOn, Fresh

LEMMA NobodyMoves ==
  ASSUME thr' = thr
  PROVE  QuietCallers
  BY DEF QuietCallers, CallersGoOn, Fresh

\* A call is given up, or is over.
LEMMA IdleQuiet ==
  ASSUME ClientInv, NEW t \in Threads, thr' = [thr EXCEPT ![t] = IdleThread]
  PROVE  QuietCallers
  BY MoveQuiet DEF Moves, IdleThread, Ahead

\* A caller moves to a place where it still has its request to send, or past it.
LEMMA PlaceQuiet ==
  ASSUME ClientInv, NEW t \in Threads, NEW r, Moves(t, r),
         r.call = thr[t].call, r.pc # "connect", thr[t].pc \in Ahead \/ r.pc \notin Ahead
  PROVE  QuietCallers
  BY MoveQuiet

LEMMA OpenFailsQuiet ==
  ASSUME ClientInv, NEW t \in Threads, thr[t].pc \in {"connect", "bindwait"}, NEW c,
         NEW retry \in BOOLEAN, OpenFails(t, c, retry)
  PROVE  QuietCallers
  <1> DEFINE r == [thr[t] EXCEPT !.pc = "sleep", !.a = 0, !.grp = 0]
  <1>1. thr' = [thr EXCEPT ![t] = r] \/ thr' = [thr EXCEPT ![t] = IdleThread]
    BY DEF OpenFails
  <1>2. r.call = thr[t].call /\ r.pc = "sleep"
    BY DEF ClientInv, ClientTypes, Caller
  <1> HIDE DEF r
  <1>3. CASE thr' = [thr EXCEPT ![t] = r]
    BY <1>2, <1>3, PlaceQuiet DEF Moves, Ahead
  <1>4. QED
    BY <1>1, <1>3, IdleQuiet

\* rpc__cn_assoc_request, but for the connect itself
LEMMA RequestQuiet ==
  ASSUME ClientInv, NEW t \in Threads,
         \/ Reuse(t) \/ OpenSecond(t) \/ OpenFirst(t) \/ WaitForCreator(t)
         \/ Bound(t) \/ BindFails(t) \/ Slept(t)
         \/ BindSendFails(t) \/ ConnectFails(t) \/ ConnectAbandoned(t)
         \/ BindAbandoned(t) \/ WaitAbandoned(t)
  PROVE  QuietCallers /\ UNCHANGED <<net, calls>>
  <1>1. UNCHANGED <<net, calls>>
    BY DEF Reuse, OpenSecond, OpenFirst, Connecting, WaitForCreator, Bound, BindFails, Slept,
           BindSendFails, ConnectFails, ConnectAbandoned, BindAbandoned, WaitAbandoned, Abandons
  <1>2. thr[t] \in Caller
    BY DEF ClientInv, ClientTypes
  <1>3. CASE Reuse(t)
    <2>1. PICK g \in Active(cli) : \E i \in Free(g) :
            thr' = [thr EXCEPT ![t] = [@ EXCEPT !.pc = "call", !.a = cli.grp[g].list[i], !.grp = g]]
      BY <1>3 DEF Reuse
    <2>2. PICK i \in Free(g) :
            thr' = [thr EXCEPT ![t] = [@ EXCEPT !.pc = "call", !.a = cli.grp[g].list[i], !.grp = g]]
      BY <2>1
    <2> DEFINE r == [thr[t] EXCEPT !.pc = "call", !.a = cli.grp[g].list[i], !.grp = g]
    <2>3. Moves(t, r) /\ r.call = thr[t].call /\ r.pc = "call"
      BY <1>2, <2>2 DEF Moves, Caller
    <2> HIDE DEF r
    <2>4. thr[t].pc \in Ahead
      BY <1>3 DEF Reuse, AtRequest, Ahead
    <2>5. QED
      BY <1>1, <2>3, <2>4, PlaceQuiet
  <1>4. ASSUME NEW hold \in BOOLEAN, NEW remid, AtRequest(t), Connecting(t, hold, remid)
        PROVE  QuietCallers
    <2>1. PICK a \in Unused :
            thr' = [thr EXCEPT ![t] = [thr[t] EXCEPT !.pc = "connect", !.a = a,
                                                     !.grp = remid, !.hold = @ \/ hold]]
      BY <1>4 DEF Connecting
    <2> DEFINE r == [thr[t] EXCEPT !.pc = "connect", !.a = a, !.grp = remid, !.hold = @ \/ hold]
    <2>2. Moves(t, r) /\ r.call = thr[t].call /\ r.a = a
      BY <1>2, <2>1 DEF Moves, Caller
    <2> HIDE DEF r
    <2>3. thr[t].pc \in Ahead /\ Fresh(a)
      BY <1>4, <2>1 DEF AtRequest, Ahead, Fresh, Unused
    <2>4. QED
      BY <2>2, <2>3, MoveQuiet
  <1>5. CASE OpenSecond(t) \/ OpenFirst(t)
    BY <1>1, <1>4, <1>5 DEF OpenSecond, OpenFirst
  <1>6. ASSUME NEW p, p # "connect", thr[t].pc \in Ahead, thr' = [thr EXCEPT ![t].pc = p]
        PROVE  QuietCallers
    <2> DEFINE r == [thr[t] EXCEPT !.pc = p]
    <2>1. Moves(t, r) /\ r.call = thr[t].call /\ r.pc = p
      BY <1>2, <1>6 DEF Moves, Caller
    <2> HIDE DEF r
    <2>2. QED
      BY <1>6, <2>1, PlaceQuiet
  <1>7. CASE WaitForCreator(t) \/ Slept(t)
    BY <1>1, <1>6, <1>7 DEF WaitForCreator, Slept, Ahead
  <1>8. CASE Bound(t)
    <2> DEFINE r == [thr[t] EXCEPT !.pc = "call", !.grp = cli.acb[thr[t].a].grp]
    <2>1. Moves(t, r) /\ r.call = thr[t].call /\ r.pc = "call" /\ thr[t].pc \in Ahead
      BY <1>2, <1>8 DEF Moves, Caller, Bound, Ahead
    <2> HIDE DEF r
    <2>2. QED
      BY <1>1, <2>1, PlaceQuiet
  <1>9. CASE \/ BindFails(t) \/ BindSendFails(t) \/ ConnectFails(t) \/ ConnectAbandoned(t)
             \/ BindAbandoned(t)
    <2> DEFINE c1 == MarkAssoc([cli EXCEPT !.acb[thr[t].a].cn = "OPEN"], thr[t].a, FALSE)
               c2 == MarkAssoc([cli EXCEPT !.acb[thr[t].a].cn = "CLOSED"], thr[t].a, FALSE)
               c3 == MarkAssoc(cli, thr[t].a, FALSE)
    <2>1. thr[t].pc \in {"connect", "bindwait"}
      BY <1>9 DEF BindFails, BindSendFails, ConnectFails, ConnectAbandoned, BindAbandoned
    <2>2. BindFails(t) \/ BindAbandoned(t) => OpenFails(t, cli, FALSE)
      BY DEF BindFails, BindAbandoned
    <2>3. BindSendFails(t) => OpenFails(t, c1, FALSE)
      BY DEF BindSendFails
    <2>4. ConnectFails(t) => OpenFails(t, c2, TRUE)
      BY DEF ConnectFails
    <2>5. ConnectAbandoned(t) => OpenFails(t, c3, TRUE)
      BY DEF ConnectAbandoned
    <2> HIDE DEF c1, c2, c3
    <2>6. ASSUME NEW c, NEW retry \in BOOLEAN, OpenFails(t, c, retry) PROVE QuietCallers
      BY <2>1, <2>6, OpenFailsQuiet
    <2>7. QED
      BY <1>1, <1>9, <2>2, <2>3, <2>4, <2>5, <2>6
  <1>10. CASE WaitAbandoned(t)
    BY <1>1, <1>10, IdleQuiet DEF WaitAbandoned
  <1>11. QED
    BY <1>3, <1>5, <1>7, <1>8, <1>9, <1>10

LEMMA SameStreams ==
  ASSUME NetTypes, \A a \in Conns : (net'[a].up => net[a].up) /\ net'[a].c2s = net[a].c2s
  PROVE  QuietNet
  <1> SUFFICES ASSUME NEW a \in Conns, NEW i \in DOMAIN net[a].c2s PROVE i + 0 = i
    BY DEF QuietNet, Later
  <1>1. i \in Nat
    BY WireTyped DEF NetTypes
  <1>2. QED
    BY <1>1

\* A packet that is sent to the server comes last.
LEMMA ToServerShape ==
  ASSUME NEW n \in [Conns -> Connection], NEW a \in Conns, NEW p, n[a].up
  PROVE  /\ ToServer(n, a, p)[a].c2s = Append(n[a].c2s, p) /\ ToServer(n, a, p)[a].up = n[a].up
         /\ \A b \in Conns : b # a => ToServer(n, a, p)[b] = n[b]
  <1>1. n[a] \in Connection
    OBVIOUS
  <1> DEFINE k == [n[a] EXCEPT !.c2s = Append(n[a].c2s, p)]
  <1>2. ToServer(n, a, p) = [n EXCEPT ![a] = k]
    BY DEF ToServer
  <1>3. k.c2s = Append(n[a].c2s, p) /\ k.up = n[a].up
    BY <1>1 DEF Connection
  <1> HIDE DEF k
  <1>4. QED
    BY <1>2, <1>3

LEMMA AppendAt ==
  ASSUME NEW S, NEW l \in Seq(S), NEW p
  PROVE  /\ DOMAIN Append(l, p) = DOMAIN l \cup {Len(l) + 1}
         /\ \A i \in DOMAIN l : Append(l, p)[i] = l[i]
         /\ Append(l, p)[Len(l) + 1] = p
         /\ Len(l) \in Nat /\ Len(l) + 1 \notin DOMAIN l
  <1>1. DOMAIN l = 1..Len(l) /\ Len(l) \in Nat
    OBVIOUS
  <1>2. DOMAIN Append(l, p) = 1..(Len(l) + 1)
    OBVIOUS
  <1>3. \A i \in 1..Len(l) : Append(l, p)[i] = l[i]
    OBVIOUS
  <1>4. Append(l, p)[Len(l) + 1] = p
    OBVIOUS
  <1>5. 1..(Len(l) + 1) = 1..Len(l) \cup {Len(l) + 1}
    BY <1>1
  <1>6. QED
    BY <1>1, <1>2, <1>3, <1>4, <1>5

LEMMA OrphanedQuiet ==
  ASSUME NetTypes, NEW a \in Conns, NEW c, net' = ToServer(net, a, Orphaned(c))
  PROVE  QuietNet
  <1> DEFINE p == Orphaned(c)
  <1>0. p.type = "orphaned" /\ net' = ToServer(net, a, p)
    BY DEF Orphaned, Message
  <1> HIDE DEF p
  <1>1. CASE ~net[a].up
    <2>1. net' = net
      BY <1>0, <1>1 DEF ToServer
    <2>2. QED
      BY <2>1, NetStays
  <1>2. CASE net[a].up
    <2> DEFINE n == ToServer(net, a, p)
    <2>0. /\ n[a].c2s = Append(net[a].c2s, p) /\ n[a].up = net[a].up
          /\ \A b \in Conns : b # a => n[b] = net[b]
      BY <1>2, ToServerShape DEF NetTypes
    <2> HIDE DEF n
    <2>1. /\ net'[a].c2s = Append(net[a].c2s, p) /\ net'[a].up = net[a].up
          /\ \A b \in Conns : b # a => net'[b] = net[b]
      BY <1>0, <2>0 DEF n
    <2>2. ASSUME NEW b \in Conns, NEW ty, ty # "orphaned" PROVE Later(ty, b, 0)
      <3>1. CASE b # a
        <4>1. \A i \in DOMAIN net[b].c2s : i + 0 = i
          BY WireTyped DEF NetTypes
        <4>2. QED
          BY <2>1, <3>1, <4>1 DEF Later
      <3>2. CASE b = a
        <4>1. net[a].c2s \in Seq(ClientPacket) /\ \A i \in DOMAIN net[a].c2s : i + 0 = i
          BY WireTyped DEF NetTypes
        <4> DEFINE l == net[a].c2s
                   l2 == Append(l, p)
        <4>2. /\ DOMAIN l2 = DOMAIN l \cup {Len(l) + 1}
              /\ \A i \in DOMAIN l : l2[i] = l[i]
              /\ l2[Len(l) + 1] = p
          BY <4>1, AppendAt
        <4> HIDE DEF l2
        <4>3. \A i \in DOMAIN l2 : l2[i].type # "orphaned" => i + 0 \in DOMAIN l /\ l2[i] = l[i + 0]
          BY <1>0, <4>1, <4>2
        <4>4. net'[a].c2s = l2
          BY <2>1 DEF l2
        <4>5. QED
          BY <2>2, <3>2, <4>3, <4>4 DEF Later
      <3>3. QED
        BY <3>1, <3>2
    <2>3. QED
      BY <2>1, <2>2 DEF QuietNet
  <1>3. QED
    BY <1>1, <1>2

\* A call, but for the request itself
LEMMA CallQuiet ==
  ASSUME ClientInv, NEW t \in Threads,
         Maintains(t) \/ CallEnds(t) \/ CallBreaks(t) \/ CallAbandoned(t)
  PROVE  QuietCallers /\ QuietNet /\ UNCHANGED calls
  <1>1. thr[t] \in Caller /\ NetTypes
    BY DEF ClientInv, ClientTypes
  <1>2. CASE Maintains(t)
    <2> DEFINE r == [thr[t] EXCEPT !.pc = "done"]
    <2>1. Moves(t, r) /\ r.call = thr[t].call /\ r.pc = "done" /\ UNCHANGED <<net, calls>>
      BY <1>1, <1>2 DEF Moves, Caller, Maintains
    <2> HIDE DEF r
    <2>2. QED
      BY <1>1, <2>1, PlaceQuiet, NetStays DEF Ahead
  <1>3. CASE CallEnds(t) \/ CallBreaks(t)
    <2>1. thr' = [thr EXCEPT ![t] = IdleThread] /\ UNCHANGED <<net, calls>>
      BY <1>3 DEF CallEnds, CallBreaks, Leave
    <2>2. QED
      BY <1>1, <2>1, IdleQuiet, NetStays
  <1>4. CASE CallAbandoned(t)
    <2>1. /\ thr' = [thr EXCEPT ![t] = IdleThread] /\ UNCHANGED calls
          /\ net' = ToServer(net, thr[t].a, Orphaned(thr[t].call))
      BY <1>4 DEF CallAbandoned, Leave, Abandons
    <2>2. PICK h \in Conns : h = thr[t].a
      BY <1>4, Holder DEF CallAbandoned, Unheld
    <2>3. QuietNet
      BY <1>1, <2>1, <2>2, OrphanedQuiet
    <2>4. QED
      BY <2>1, <2>3, IdleQuiet
  <1>5. QED
    BY <1>2, <1>3, <1>4

\* The receiver and the timer
LEMMA ReceiverQuiet ==
  ASSUME ClientInv, NEW a \in Conns, ClientReceiver(a) \/ ClientReclaims(a)
  PROVE  QuietCallers /\ QuietNet /\ UNCHANGED calls
  <1>1. NetTypes /\ net \in [Conns -> Connection] /\ thr \in [Threads -> Caller]
    BY DEF ClientInv, ClientTypes, NetTypes
  <1>2. CASE ReceiverStarts(a) \/ ClientReclaims(a)
    <2>1. UNCHANGED <<thr, net, calls>>
      BY <1>2 DEF ReceiverStarts, ClientReclaims
    <2>2. QED
      BY <1>1, <2>1, NobodyMoves, NetStays
  <1>3. CASE ReceiverTakes(a)
    <2>1. UNCHANGED calls /\ net' = [net EXCEPT ![a].s2c = Tail(@)]
      BY <1>3 DEF ReceiverTakes
    <2>2. \A b \in Conns : net'[b].up = net[b].up /\ net'[b].c2s = net[b].c2s
      BY <1>1, <2>1 DEF Connection
    <2>3. \A t \in Threads : thr'[t] = thr[t] \/ thr'[t] = [thr[t] EXCEPT !.pc = "reply"]
      BY <1>3 DEF ReceiverTakes
    <2>4. \A t \in Threads : thr'[t] = thr[t] \/ thr'[t].pc = "reply"
      <3> SUFFICES ASSUME NEW t \in Threads, thr'[t] = [thr[t] EXCEPT !.pc = "reply"]
                   PROVE  thr'[t].pc = "reply"
        BY <2>3
      <3>1. thr[t] \in Caller
        BY <1>1
      <3>2. QED
        BY <3>1 DEF Caller
    <2>5. QuietCallers
      BY <2>4 DEF QuietCallers, CallersGoOn, Fresh, Ahead
    <2>6. QED
      BY <1>1, <2>1, <2>2, <2>5, SameStreams
  <1>4. CASE ReceiverEnds(a)
    <2>1. UNCHANGED <<thr, calls>> /\ net' = [net EXCEPT ![a] = [@ EXCEPT !.up = FALSE, !.s2c = <<>>]]
      BY <1>4 DEF ReceiverEnds
    <2>2. \A b \in Conns : (net'[b].up => net[b].up) /\ net'[b].c2s = net[b].c2s
      BY <1>1, <2>1 DEF Connection
    <2>3. QED
      BY <1>1, <2>1, <2>2, SameStreams, NobodyMoves
  <1>5. QED
    BY <1>2, <1>3, <1>4 DEF ClientReceiver

\* A call that begins is a new one.
LEMMA BeginWire ==
  ASSUME ClientInv, ClientInv', WireInv, Onward, NEW t \in Threads, Begin(t), UNCHANGED serverVars
  PROVE  WireInv'
  <1> DEFINE r == [IdleThread EXCEPT !.pc = "request", !.call = calls + 1]
  <1>1. /\ thr' = [thr EXCEPT ![t] = r] /\ net' = net /\ calls' = calls + 1 /\ calls + 1 \in Calls
        /\ srv' = srv /\ ex' = ex /\ calls \in Nat /\ cli' = cli
    BY BindAssumption DEF Begin, serverVars, ClientInv, ClientTypes, Calls
  <1>2. r.pc = "request" /\ r.call = calls + 1
    BY DEF IdleThread
  <1> HIDE DEF r
  <1>3. thr'[t] = r /\ \A u \in Threads : u # t => thr'[u] = thr[u]
    BY <1>1 DEF ClientInv, ClientTypes
  <1>4. \A c : Pending(c) => c # calls + 1 /\ Pending(c)'
    BY <1>1 DEF Pending
  <1>5. \A a \in Conns : BindFirst(a)'
    <2> SUFFICES ASSUME NEW a \in Conns PROVE BindFirst(a)'
      OBVIOUS
    <2>1. On(a)' = On(a)
      BY <1>1 DEF On, Executing
    <2>2. Unbound(a)' <=> Unbound(a)
      BY <1>1, <2>1 DEF Unbound
    <2>3. QED
      BY <1>1, <2>2 DEF WireInv, BindFirst
  <1>6. Unique'
    <2>1. \A a \in Conns : \A i \in DOMAIN net[a].c2s :
            /\ IsRequest(a, i)' <=> IsRequest(a, i)
            /\ CallAt(a, i)' = CallAt(a, i)
            /\ IsRequest(a, i) => CallAt(a, i) # calls + 1
      BY <1>1, <1>4 DEF IsRequest, CallAt, WireInv, Unseen
    <2>2. \A u \in Threads : u # t /\ thr'[u].pc \in Ahead => thr[u].pc \in Ahead /\ thr'[u].call # calls + 1
      BY <1>3, <1>4 DEF WireInv, Unseen
    <2>3. Unique
      BY DEF WireInv
    <2>4. \A a, b \in Conns : \A i \in DOMAIN net'[a].c2s, j \in DOMAIN net'[b].c2s :
            IsRequest(a, i)' /\ IsRequest(b, j)' /\ CallAt(a, i)' = CallAt(b, j)' => a = b /\ i = j
      BY <1>1, <2>1, <2>3 DEF Unique
    <2>5. \A u, v \in Threads :
            thr'[u].pc \in Ahead /\ thr'[v].pc \in Ahead /\ thr'[u].call = thr'[v].call => u = v
      BY <1>2, <1>3, <2>2, <2>3 DEF Unique
    <2>6. \A u \in Threads, a \in Conns : \A i \in DOMAIN net'[a].c2s :
            thr'[u].pc \in Ahead /\ IsRequest(a, i)' => CallAt(a, i)' # thr'[u].call
      BY <1>1, <1>2, <1>3, <2>1, <2>2, <2>3 DEF Unique
    <2>7. QED
      BY <2>4, <2>5, <2>6 DEF Unique
  <1>7. Unseen'
    <2>1. Unseen /\ ex[calls + 1].pc = "none"
      BY <1>1 DEF WireInv, Unseen
    <2>2. \A a \in Conns : \A i \in DOMAIN net'[a].c2s : IsRequest(a, i)' => Pending(CallAt(a, i))'
      <3> SUFFICES ASSUME NEW a \in Conns, NEW i \in DOMAIN net[a].c2s, IsRequest(a, i)
                   PROVE  Pending(CallAt(a, i))'
        BY <1>1 DEF IsRequest
      <3>1. PICK c : c = CallAt(a, i)
        OBVIOUS
      <3>2. Pending(c)'
        BY <1>4, <2>1, <3>1 DEF Unseen
      <3>3. QED
        BY <1>1, <3>1, <3>2 DEF Pending, CallAt
    <2>3. \A u \in Threads : thr'[u].pc \in Ahead => Pending(thr[u].call)'
      <3> SUFFICES ASSUME NEW u \in Threads, thr'[u].pc \in Ahead PROVE Pending(thr[u].call)'
        OBVIOUS
      <3>1. PICK c : c = thr'[u].call
        OBVIOUS
      <3>2. CASE u = t
        BY <1>1, <1>2, <1>3, <2>1, <3>1, <3>2 DEF Pending
      <3>3. CASE u # t
        <4>1. Pending(c)'
          BY <1>3, <1>4, <2>1, <3>1, <3>3 DEF Unseen
        <4>2. QED
          BY <3>1, <4>1 DEF Pending
      <3>4. QED
        BY <3>2, <3>3
    <2>4. \A c \in Calls : c > calls' => ex'[c].pc = "none"
      BY <1>1, <2>1, BindAssumption DEF Unseen, Calls
    <2>5. QED
      BY <2>2, <2>3, <2>4 DEF Unseen
  <1>8. FreshInv'
    <2>1. \A a \in Conns : Fresh(a)' => Fresh(a)
      BY <1>1, <1>2, <1>3 DEF Fresh
    <2>2. QED
      BY <1>1, <2>1 DEF WireInv, FreshInv
  <1>9. QED
    BY <1>5, <1>6, <1>7, <1>8 DEF WireInv

\* A request leaves its caller and is on its way.
LEMMA SendsRequestWire ==
  ASSUME ClientInv, ClientInv', WireInv, Onward, NEW t \in Threads, SendsRequest(t),
         UNCHANGED serverVars
  PROVE  WireInv'
  <1> DEFINE r == [thr[t] EXCEPT !.pc = "wait"]
             q == Request(thr[t].call)
  <1>1. /\ thr[t].pc = "call" /\ thr' = [thr EXCEPT ![t] = r] /\ UNCHANGED <<cli, calls, srv, ex>>
        /\ (net' = net \/ net' = ToServer(net, thr[t].a, q))
    BY DEF SendsRequest, serverVars
  <1>2. PICK h \in Conns : h = thr[t].a
    BY <1>1, Holder DEF Unheld
  <1>3. r.pc = "wait" /\ r.call = thr[t].call
    BY DEF ClientInv, ClientTypes, Caller
  <1>4. q.type = "request" /\ q.call = thr[t].call
    BY DEF Request, Message
  <1>5. NetTypes /\ NetTypes' /\ thr \in [Threads -> Caller] /\ net \in [Conns -> Connection]
        /\ thr' \in [Threads -> Caller] /\ calls \in 0..MaxCalls
    BY DEF ClientInv, ClientTypes, NetTypes
  <1> HIDE DEF r, q
  <1>6. QuietCallers
    BY <1>1, <1>3, PlaceQuiet DEF Moves, Ahead
  <1>7. CASE net' = net
    BY <1>1, <1>5, <1>6, <1>7, NetStays, ClientWire DEF serverVars
  <1>8. CASE net' # net
    <2> DEFINE n == ToServer(net, h, q)
               l == net[h].c2s
               l2 == Append(l, q)
    <2>1. net[h].up /\ net' = n
      <3>1. net' = ToServer(net, h, q)
        BY <1>1, <1>2, <1>8
      <3>2. QED
        BY <1>8, <3>1 DEF ToServer
    <2>2. n[h].c2s = l2 /\ n[h].up = net[h].up /\ \A b \in Conns : b # h => n[b] = net[b]
      BY <1>5, <2>1, ToServerShape
    <2> HIDE DEF n
    <2>3. net'[h].c2s = l2 /\ net'[h].up = net[h].up /\ \A b \in Conns : b # h => net'[b] = net[b]
      BY <2>1, <2>2
    <2>4. l \in Seq(ClientPacket)
      BY <1>5, WireTyped
    <2>5. /\ DOMAIN l2 = DOMAIN l \cup {Len(l) + 1} /\ \A i \in DOMAIN l : l2[i] = l[i]
          /\ l2[Len(l) + 1] = q /\ Len(l) + 1 \notin DOMAIN l
      BY <2>4, AppendAt
    <2>6. PICK k : k = Len(l) + 1
      OBVIOUS
    <2> HIDE DEF l2, l
    \* The request is the one packet that is not as before.
    <2>7. ASSUME NEW a \in Conns, NEW i \in DOMAIN net'[a].c2s
          PROVE  \/ i \in DOMAIN net[a].c2s /\ net'[a].c2s[i] = net[a].c2s[i] /\ ~(a = h /\ i = k)
                 \/ a = h /\ i = k /\ net'[a].c2s[i] = q
      <3>1. CASE a = h
        BY <2>3, <2>5, <2>6, <2>7, <3>1 DEF l
      <3>2. CASE a # h
        BY <2>3, <2>7, <3>2
      <3>3. QED
        BY <3>1, <3>2
    <2>8. thr'[t] = r /\ \A u \in Threads : u # t => thr'[u] = thr[u]
      BY <1>1, <1>5
    <2>9. Unique /\ Unseen /\ FreshInv
      BY DEF WireInv
    <2>10. \A a \in Conns : BindFirst(a)'
      <3> SUFFICES ASSUME NEW a \in Conns PROVE BindFirst(a)'
        OBVIOUS
      <3>1. On(a)' = On(a)
        BY <1>1 DEF On, Executing
      <3>2. Unbound(a)' <=> Unbound(a)
        BY <1>1, <3>1 DEF Unbound
      <3>3. \A i \in DOMAIN net'[a].c2s : net'[a].c2s[i].type = "bind" =>
              i \in DOMAIN net[a].c2s /\ net'[a].c2s[i] = net[a].c2s[i]
        BY <1>4, <2>7
      <3>4. QED
        BY <3>2, <3>3 DEF WireInv, BindFirst
    \* The requests are those of before and the one of t.
    <2>11. ASSUME NEW a \in Conns, NEW i \in DOMAIN net'[a].c2s, IsRequest(a, i)'
           PROVE  \/ i \in DOMAIN net[a].c2s /\ IsRequest(a, i) /\ CallAt(a, i)' = CallAt(a, i)
                     /\ CallAt(a, i) # thr[t].call /\ ~(a = h /\ i = k)
                  \/ a = h /\ i = k /\ CallAt(a, i)' = thr[t].call
      <3>1. CASE i \in DOMAIN net[a].c2s /\ net'[a].c2s[i] = net[a].c2s[i] /\ ~(a = h /\ i = k)
        <4>1. IsRequest(a, i) /\ CallAt(a, i)' = CallAt(a, i)
          BY <2>11, <3>1 DEF IsRequest, CallAt
        <4>2. CallAt(a, i) # thr[t].call
          BY <1>1, <2>9, <3>1, <4>1 DEF Unique, Ahead
        <4>3. QED
          BY <3>1, <4>1, <4>2
      <3>2. CASE a = h /\ i = k /\ net'[a].c2s[i] = q
        BY <1>4, <3>2 DEF CallAt
      <3>3. QED
        BY <2>7, <3>1, <3>2
    <2>12. \A u \in Threads : thr'[u].pc \in Ahead =>
             u # t /\ thr[u].pc \in Ahead /\ thr'[u].call = thr[u].call /\ thr[u].call # thr[t].call
      BY <1>1, <1>3, <2>8, <2>9 DEF Unique, Ahead
    <2>13. Unique'
      <3>1. \A a, b \in Conns : \A i \in DOMAIN net'[a].c2s, j \in DOMAIN net'[b].c2s :
              IsRequest(a, i)' /\ IsRequest(b, j)' /\ CallAt(a, i)' = CallAt(b, j)' => a = b /\ i = j
        BY <2>9, <2>11 DEF Unique
      <3>2. \A u, v \in Threads :
              thr'[u].pc \in Ahead /\ thr'[v].pc \in Ahead /\ thr'[u].call = thr'[v].call => u = v
        BY <2>9, <2>12 DEF Unique
      <3>3. \A u \in Threads, a \in Conns : \A i \in DOMAIN net'[a].c2s :
              thr'[u].pc \in Ahead /\ IsRequest(a, i)' => CallAt(a, i)' # thr'[u].call
        BY <2>9, <2>11, <2>12 DEF Unique
      <3>4. QED
        BY <3>1, <3>2, <3>3 DEF Unique
    <2>14. Unseen'
      <3>1. \A c : Pending(c)' <=> Pending(c)
        BY <1>1 DEF Pending
      <3>2. \A a \in Conns : \A i \in DOMAIN net'[a].c2s : IsRequest(a, i)' => Pending(CallAt(a, i))'
        <4> SUFFICES ASSUME NEW a \in Conns, NEW i \in DOMAIN net'[a].c2s, IsRequest(a, i)'
                     PROVE  Pending(CallAt(a, i))'
          OBVIOUS
        <4>1. PICK c : c = CallAt(a, i)'
          OBVIOUS
        <4>2. Pending(c)
          BY <1>1, <2>9, <2>11, <4>1 DEF Unseen, Ahead
        <4>3. Pending(c)'
          BY <3>1, <4>2
        <4>4. QED
          BY <4>1, <4>3 DEF Pending, CallAt
      <3>3. \A u \in Threads : thr'[u].pc \in Ahead => Pending(thr[u].call)'
        <4> SUFFICES ASSUME NEW u \in Threads, thr'[u].pc \in Ahead PROVE Pending(thr[u].call)'
          OBVIOUS
        <4>1. PICK c : c = thr[u].call
          OBVIOUS
        <4>2. Pending(c)
          BY <2>9, <2>12, <4>1 DEF Unseen
        <4>3. Pending(c)' /\ c = thr'[u].call
          BY <2>12, <3>1, <4>1, <4>2
        <4>4. QED
          BY <4>3 DEF Pending
      <3>4. \A c \in Calls : c > calls' => ex'[c].pc = "none"
        BY <1>1, <2>9 DEF Unseen
      <3>5. QED
        BY <3>2, <3>3, <3>4 DEF Unseen
    <2>15. FreshInv'
      <3>1. \A a \in Conns : Fresh(a)' => Fresh(a)
        BY <1>1, <1>6 DEF Fresh, QuietCallers
      <3>2. \A a \in Conns : net'[a].up = net[a].up
        BY <2>3
      <3>3. QED
        BY <1>1, <2>9, <3>1, <3>2 DEF FreshInv
    <2>16. QED
      BY <2>10, <2>13, <2>14, <2>15 DEF WireInv
  <1>9. QED
    BY <1>7, <1>8

\* A connection is made, and a bind is on it.
LEMMA ConnectsWire ==
  ASSUME ClientInv, ClientInv', WireInv, Onward, ServerTypes, CountsInv,
         NEW t \in Threads, Connects(t), UNCHANGED serverVars
  PROVE  WireInv'
  <1> DEFINE r == [thr[t] EXCEPT !.pc = "bindwait"]
             q == Bind(thr[t].grp)
             n == [up |-> TRUE, c2s |-> <<q>>, s2c |-> <<>>]
  <1>1. PICK h \in Conns : h = thr[t].a
    BY Holder DEF Connects, Unheld
  <1>2. /\ thr[t].pc = "connect" /\ thr' = [thr EXCEPT ![t] = r] /\ UNCHANGED <<calls, srv, ex>>
        /\ net' = [net EXCEPT ![h] = n]
    BY <1>1 DEF Connects, serverVars
  <1>3. r.pc = "bindwait" /\ r.call = thr[t].call /\ r.a = h
    BY <1>1 DEF ClientInv, ClientTypes, Caller
  <1>4. q.type = "bind" /\ n.c2s = <<q>> /\ n.up = TRUE
    BY DEF Bind, Message
  <1>5. NetTypes /\ NetTypes' /\ thr \in [Threads -> Caller] /\ net \in [Conns -> Connection]
        /\ thr' \in [Threads -> Caller] /\ calls \in 0..MaxCalls
    BY DEF ClientInv, ClientTypes, NetTypes
  <1> HIDE DEF r, q, n
  <1>6. QuietCallers
    BY <1>2, <1>3, PlaceQuiet DEF Moves, Ahead
  <1>7. net'[h] = n /\ \A b \in Conns : b # h => net'[b] = net[b]
    BY <1>2, <1>5
  <1>8. Fresh(h) /\ srv.acb[h] = NoAcb /\ Unique /\ Unseen /\ FreshInv
    BY <1>1, <1>2 DEF WireInv, FreshInv, Fresh
  <1>9. DOMAIN <<q>> = {1} /\ <<q>>[1] = q
    OBVIOUS
  <1>10. \A a \in Conns : BindFirst(a)'
    <2> SUFFICES ASSUME NEW a \in Conns PROVE BindFirst(a)'
      OBVIOUS
    <2>1. On(a)' = On(a)
      BY <1>2 DEF On, Executing
    <2>2. Unbound(a)' <=> Unbound(a)
      BY <1>2, <2>1 DEF Unbound
    <2>3. CASE a = h
      <3>1. NoAcb.life # "live" /\ NoAcb.st # "OPEN" /\ NoAcb.users = 0
        BY DEF NoAcb
      <3>2. On(h) = {}
        BY <1>8, <3>1, NotLive
      <3>3. Unbound(h)
        BY <1>8, <3>1, <3>2 DEF Unbound
      <3>4. QED
        BY <1>4, <1>7, <1>9, <2>2, <2>3, <3>3 DEF BindFirst
    <2>4. CASE a # h
      BY <1>7, <2>2, <2>4 DEF WireInv, BindFirst
    <2>5. QED
      BY <2>3, <2>4
  <1>11. \A a \in Conns : Later("request", a, 0)
    <2> SUFFICES ASSUME NEW a \in Conns PROVE Later("request", a, 0)
      OBVIOUS
    <2>1. CASE a = h
      BY <1>4, <1>7, <1>9, <2>1 DEF Later
    <2>2. CASE a # h
      <3>1. \A i \in DOMAIN net[a].c2s : i + 0 = i
        BY <1>5, WireTyped
      <3>2. QED
        BY <1>7, <2>2, <3>1 DEF Later
    <2>3. QED
      BY <2>1, <2>2
  <1>12. Unique'
    BY <1>5, <1>6, <1>8, <1>11, UniqueGoesOn DEF QuietCallers
  <1>13. Unseen'
    BY <1>2, <1>5, <1>6, <1>8, <1>11, UnseenStays DEF QuietCallers
  <1>14. FreshInv'
    <2>1. thr'[t] = r /\ \A u \in Threads : u # t => thr'[u] = thr[u]
      BY <1>2, <1>5
    <2>2. \A u \in Threads : thr'[u].a = h => u = t
      BY <1>1, <2>1 DEF ClientInv, CallerInv, Conns
    <2>3. cli'.acb[h].life # "new"
      <3>1. AcbOK(cli.acb[h], 1) /\ cli.acb[h] \in ClientAcb
        BY <1>1, <1>2, Holder DEF Unheld, ClientInv, ClientTypes, Client
      <3>2. cli.acb[h].life = "live"
        BY <3>1 DEF AcbOK, Receiving, ClientAcb
      <3>3. QED
        BY <3>2 DEF Onward, Ages
    <2>4. ~Fresh(h)'
      BY <1>3, <2>1, <2>2, <2>3 DEF Fresh
    <2>5. \A a \in Conns : a # h /\ Fresh(a)' => Fresh(a)
      BY <1>6 DEF Fresh, QuietCallers, Onward, Ages
    <2>6. QED
      BY <1>2, <1>7, <1>8, <2>4, <2>5 DEF FreshInv
  <1>15. QED
    BY <1>10, <1>12, <1>13, <1>14 DEF WireInv

-----------------------------------------------------------------------------
(* Steps of the server and of the network *)

LEMMA BreaksWire ==
  ASSUME ClientInv, ClientInv', WireInv, NEW a \in Conns, Breaks(a)
  PROVE  WireInv'
  <1>1. PICK n \in {net[a], [net[a] EXCEPT !.c2s = <<>>, !.s2c = <<>>]} :
          net' = [net EXCEPT ![a] = [n EXCEPT !.up = FALSE]]
    BY DEF Breaks
  <1>2. NetTypes /\ net \in [Conns -> Connection] /\ net[a] \in Connection
    BY DEF ClientInv, NetTypes
  <1>3. /\ net'[a].up = FALSE /\ (net'[a].c2s = net[a].c2s \/ net'[a].c2s = <<>>)
        /\ \A b \in Conns : b # a => net'[b] = net[b]
    <2> DEFINE k == [n EXCEPT !.up = FALSE]
    <2>1. k.up = FALSE /\ (k.c2s = net[a].c2s \/ k.c2s = <<>>)
      BY <1>1, <1>2 DEF Connection
    <2>2. net' = [net EXCEPT ![a] = k]
      BY <1>1
    <2> HIDE DEF k
    <2>3. QED
      BY <1>2, <2>1, <2>2
  <1>4. QuietNet
    <2>1. \A b \in Conns : net'[b].up => net[b].up
      BY <1>3
    <2>2. \A b \in Conns : \A i \in DOMAIN net'[b].c2s :
            i + 0 \in DOMAIN net[b].c2s /\ net'[b].c2s[i] = net[b].c2s[i + 0]
      <3> SUFFICES ASSUME NEW b \in Conns, NEW i \in DOMAIN net'[b].c2s
                   PROVE  i + 0 \in DOMAIN net[b].c2s /\ net'[b].c2s[i] = net[b].c2s[i + 0]
        OBVIOUS
      <3>1. net'[b].c2s = net[b].c2s
        BY <1>3
      <3>2. i \in Nat
        BY <1>2, <3>1, WireTyped
      <3>3. QED
        BY <3>1, <3>2
    <2>3. QED
      BY <2>1, <2>2 DEF QuietNet, Later
  <1>5. UNCHANGED <<calls, serverVars>> /\ thr' = thr /\ cli' = cli
    BY DEF Breaks, clientVars
  <1>6. Onward /\ QuietCallers
    BY <1>5, NobodyMoves, StillOnward
  <1>7. QED
    BY <1>4, <1>5, <1>6, ClientWire

\* A step of the server, but for what it does to calls
LEMMA ServerWire ==
  ASSUME ClientInv, ClientInv', WireInv, UNCHANGED clientVars,
         \A a \in Conns : net'[a].up => net[a].up,
         \A a \in Conns : srv'.acb[a] # srv.acb[a] => ~Fresh(a),
         \A a \in Conns : \E s \in {0, 1} :
           Later("bind", a, s) /\ (s = 0 => (Unbound(a) => Unbound(a)')),
         \A a \in Conns : \E s \in {0, 1} : Later("request", a, s)
  PROVE  /\ (\A a \in Conns : BindFirst(a)') /\ Unique' /\ FreshInv'
         /\ CallersGoOn /\ calls' = calls
         /\ NetTypes /\ NetTypes' /\ calls \in 0..MaxCalls /\ thr' \in [Threads -> Caller]
  <1>1. thr' = thr /\ cli' = cli /\ calls' = calls
    BY DEF clientVars
  <1>2. NetTypes /\ NetTypes' /\ calls \in 0..MaxCalls /\ thr' \in [Threads -> Caller]
    BY <1>1 DEF ClientInv, ClientTypes
  <1>3. CallersGoOn
    BY <1>1 DEF CallersGoOn
  <1>4. \A a \in Conns : BindFirst(a)'
    BY <1>2, BindsGoOn DEF WireInv
  <1>5. Unique'
    BY <1>2, <1>3, UniqueGoesOn DEF WireInv
  <1>6. FreshInv'
    <2>1. \A a \in Conns : Fresh(a)' <=> Fresh(a)
      BY <1>1 DEF Fresh
    <2>2. QED
      BY <2>1 DEF WireInv, FreshInv
  <1>7. QED
    BY <1>1, <1>2, <1>3, <1>4, <1>5, <1>6

\* Nothing is taken off the wire: its streams stay, or that of h is lost.
LEMMA ServerQuiet ==
  ASSUME ClientInv, ClientInv', WireInv, UNCHANGED clientVars, NEW h \in Conns,
         \A a \in Conns : net'[a].up => net[a].up,
         \A a \in Conns : a # h => net'[a].c2s = net[a].c2s,
         net'[h].c2s = net[h].c2s \/ net'[h].c2s = <<>>,
         \A a \in Conns : srv'.acb[a] # srv.acb[a] => ~Fresh(a),
         \A a \in Conns : Unbound(a) => Unbound(a)' \/ net'[a].c2s = <<>>,
         \A c \in Calls : ex[c].pc = "none" => ex'[c].pc = "none"
  PROVE  WireInv'
  <1>1. ASSUME NEW a \in Conns, NEW ty PROVE Later(ty, a, 0) /\ (net'[a].c2s = <<>> => Later(ty, a, 1))
    <2>1. \A i \in DOMAIN net[a].c2s : i + 0 = i
      BY WireTyped DEF ClientInv, NetTypes
    <2>2. net'[a].c2s = net[a].c2s \/ net'[a].c2s = <<>>
      OBVIOUS
    <2>3. net'[a].c2s = <<>> => DOMAIN net'[a].c2s = {}
      OBVIOUS
    <2>4. QED
      BY <2>1, <2>2, <2>3 DEF Later
  <1>2. \A a \in Conns : \E s \in {0, 1} : Later("request", a, s)
    BY <1>1
  <1>3. \A a \in Conns : \E s \in {0, 1} :
          Later("bind", a, s) /\ (s = 0 => (Unbound(a) => Unbound(a)'))
    <2> SUFFICES ASSUME NEW a \in Conns
                 PROVE  \E s \in {0, 1} :
                          Later("bind", a, s) /\ (s = 0 => (Unbound(a) => Unbound(a)'))
      OBVIOUS
    <2>1. CASE net'[a].c2s = <<>>
      <3>1. Later("bind", a, 1)
        BY <1>1, <2>1
      <3>2. QED
        BY <3>1
    <2>2. CASE net'[a].c2s # <<>>
      <3>1. Later("bind", a, 0) /\ (Unbound(a) => Unbound(a)')
        BY <1>1, <2>2
      <3>2. QED
        BY <3>1
    <2>3. QED
      BY <2>1, <2>2
  <1>4. /\ (\A a \in Conns : BindFirst(a)') /\ Unique' /\ FreshInv'
        /\ CallersGoOn /\ calls' = calls
        /\ NetTypes /\ NetTypes' /\ calls \in 0..MaxCalls /\ thr' \in [Threads -> Caller]
    BY <1>2, <1>3, ServerWire
  <1>5. Unseen'
    BY <1>2, <1>4, UnseenStays DEF WireInv
  <1>6. QED
    BY <1>4, <1>5 DEF WireInv

LEMMA ToClientStreams ==
  ASSUME NEW n \in [Conns -> Connection], NEW a, NEW p, NEW b \in Conns
  PROVE  ToClient(n, a, p)[b].up = n[b].up /\ ToClient(n, a, p)[b].c2s = n[b].c2s
  <1> DEFINE k == [n[a] EXCEPT !.s2c = Append(n[a].s2c, p)]
  <1>1. ToClient(n, a, p) = n \/ ToClient(n, a, p) = [n EXCEPT ![a] = k]
    BY DEF ToClient
  <1>2. n[b] \in Connection
    OBVIOUS
  <1>3. a = b => k.up = n[b].up /\ k.c2s = n[b].c2s
    BY <1>2 DEF Connection
  <1> HIDE DEF k
  <1>4. QED
    BY <1>1, <1>3

\* An association that somebody has at the server is not fresh.
LEMMA TakenUp ==
  ASSUME ServerTypes, CountsInv, WireInv, NEW a \in Conns,
         srv.acb[a].rx = "recv" \/ srv.acb[a].st = "OPEN" \/ On(a) # {}
  PROVE  ~Fresh(a)
  <1>1. NoAcb.life # "live" /\ NoAcb.rx # "recv" /\ NoAcb.st # "OPEN"
    BY DEF NoAcb
  <1>2. srv.acb[a] # NoAcb
    BY <1>1, NotLive
  <1>3. QED
    BY <1>2 DEF WireInv, FreshInv

LEMMA AcceptsWire ==
  ASSUME ClientInv, ClientInv', WireInv, ServerTypes, CountsInv, UNCHANGED clientVars,
         NEW a \in Conns, Accepts(a)
  PROVE  WireInv'
  <1> DEFINE b == [NoAcb EXCEPT !.life = "live", !.ref = 1, !.rx = "recv"]
  <1>1. net' = net /\ ex' = ex /\ net[a].up /\ srv' = [srv EXCEPT !.acb[a] = b]
    BY DEF Accepts
  <1>2. b.st # "OPEN" /\ b.users = 0
    BY DEF NoAcb
  <1> HIDE DEF b
  <1>3. srv'.acb[a] = b /\ \A x \in Conns : x # a => srv'.acb[x] = srv.acb[x]
    BY <1>1, GetsAcb DEF Altered
  <1>4. \A x \in Conns : On(x)' = On(x)
    BY <1>1 DEF On, Executing
  <1>5. \A x \in Conns : Unbound(x) => Unbound(x)'
    BY <1>2, <1>3, <1>4 DEF Unbound
  <1>6. ~Fresh(a)
    BY <1>1 DEF WireInv, FreshInv
  <1>7. \A x \in Conns : srv'.acb[x] # srv.acb[x] => ~Fresh(x)
    BY <1>3, <1>6
  <1>8. QED
    BY <1>1, <1>5, <1>7, ServerQuiet

LEMMA ServerEndsWire ==
  ASSUME ClientInv, ClientInv', WireInv, ServerTypes, CountsInv, UNCHANGED clientVars,
         NEW a \in Conns, ServerEnds(a)
  PROVE  WireInv'
  <1>1. ex' = ex /\ srv.acb[a].rx = "recv"
        /\ net' = [net EXCEPT ![a] = [@ EXCEPT !.up = FALSE, !.c2s = <<>>]]
    BY DEF ServerEnds
  <1>2. net'[a].up = FALSE /\ net'[a].c2s = <<>> /\ \A x \in Conns : x # a => net'[x] = net[x]
    <2> DEFINE k == [net[a] EXCEPT !.up = FALSE, !.c2s = <<>>]
    <2>1. net \in [Conns -> Connection] /\ net' = [net EXCEPT ![a] = k]
      BY <1>1 DEF ClientInv, NetTypes
    <2>2. k.up = FALSE /\ k.c2s = <<>>
      BY <2>1 DEF Connection
    <2> HIDE DEF k
    <2>3. QED
      BY <2>1, <2>2
  <1>3. \A x \in Conns : x # a => srv'.acb[x] = srv.acb[x]
    BY ServerEndsCounts
  <1>4. \A x \in Conns : On(x)' = On(x)
    BY <1>1 DEF On, Executing
  <1>5. \A x \in Conns : Unbound(x) => Unbound(x)' \/ net'[x].c2s = <<>>
    BY <1>2, <1>3, <1>4 DEF Unbound
  <1>6. \A x \in Conns : srv'.acb[x] # srv.acb[x] => ~Fresh(x)
    BY <1>1, <1>3, TakenUp
  <1>7. \A x \in Conns : net'[x].up => net[x].up
    BY <1>2
  <1>8. \A x \in Conns : x # a => net'[x].c2s = net[x].c2s
    BY <1>2
  <1>9. QED
    BY <1>1, <1>2, <1>5, <1>6, <1>7, <1>8, ServerQuiet

\* The client is sent something, or not.
LEMMA SentToClient ==
  ASSUME NetTypes, NEW a, NEW p, net' = net \/ net' = ToClient(net, a, p)
  PROVE  \A x \in Conns : net'[x].up = net[x].up /\ net'[x].c2s = net[x].c2s
  <1> DEFINE n == ToClient(net, a, p)
  <1>1. \A x \in Conns : n[x].up = net[x].up /\ n[x].c2s = net[x].c2s
    BY ToClientStreams DEF NetTypes
  <1>2. net' = net \/ net' = n
    OBVIOUS
  <1> HIDE DEF n
  <1>3. QED
    BY <1>1, <1>2

LEMMA ServerReclaimsWire ==
  ASSUME ClientInv, ClientInv', WireInv, ServerTypes, CountsInv, UNCHANGED clientVars,
         NEW g \in Conns, ServerReclaims(g)
  PROVE  WireInv'
  <1>1. ex' = ex /\ \E a : net' = net \/ net' = ToClient(net, a, Shutdown)
    BY DEF ServerReclaims
  <1>2. \A x \in Conns : net'[x].up = net[x].up /\ net'[x].c2s = net[x].c2s
    BY <1>1, SentToClient DEF ClientInv
  <1>3. \A x \in Conns : srv'.acb[x] # srv.acb[x] => srv.acb[x].st = "OPEN"
    BY ServerReclaimsCounts
  <1>4. \A x \in Conns : On(x)' = On(x)
    BY <1>1 DEF On, Executing
  <1>5. \A x \in Conns : Unbound(x) => Unbound(x)'
    BY <1>3, <1>4 DEF Unbound
  <1>6. \A x \in Conns : srv'.acb[x] # srv.acb[x] => ~Fresh(x)
    BY <1>3, TakenUp
  <1>7. QED
    BY <1>1, <1>2, <1>5, <1>6, ServerQuiet

LEMMA ExecutorWire ==
  ASSUME ClientInv, ClientInv', WireInv, ServerTypes, CountsInv, UNCHANGED clientVars,
         NEW c \in Calls, ExecutorStep(c)
  PROVE  WireInv'
  <1>1. ex[c].pc \in {"run", "sent"} /\ ex \in [Calls -> CallExec]
    BY DEF ExecutorStep, Responds, ExecutorEnds, ServerTypes
  <1>2. \A d \in Calls : d # c => ex'[d] = ex[d]
    BY <1>1 DEF ExecutorStep, Responds, ExecutorEnds
  <1>3. PICK h \in Conns : h = ex[c].a
    BY <1>1 DEF CountsInv, Counted, Executing
  <1>4. c \in On(h)
    BY <1>1, <1>3 DEF On, Executing
  <1>5. \A x \in Conns : net'[x].up = net[x].up /\ net'[x].c2s = net[x].c2s
    <2>1. net' = net \/ net' = ToClient(net, ex[c].a, Response(c))
      BY DEF ExecutorStep, Responds, ExecutorEnds
    <2>2. QED
      BY <2>1, SentToClient DEF ClientInv
  <1>6. \A x \in Conns : srv'.acb[x] # srv.acb[x] => x = h
    <2>1. CASE Responds(c)
      <3>1. \/ srv' = srv \/ srv' = [srv EXCEPT !.grp[GroupOf(c)].refs = @ + 1]
            \/ srv' = [srv EXCEPT !.grp[GroupOf(c)].refs = @ - 1]
        BY <2>1 DEF Responds, Mon
      <3>2. srv'.acb = srv.acb
        BY <3>1 DEF ServerTypes, Server
      <3>3. QED
        BY <3>2
    <2>2. CASE ExecutorEnds(c)
      BY <1>3, <2>2, ExecutorEndsCounts
    <2>3. QED
      BY <2>1, <2>2 DEF ExecutorStep
  <1>7. \A x \in Conns : x # h => On(x)' = On(x)
    <2>1. ex'[c].a = ex[c].a
      BY <1>1 DEF ExecutorStep, Responds, ExecutorEnds, CallExec
    <2>2. QED
      BY <1>2, <1>3, <2>1 DEF On, Executing
  <1>8. \A x \in Conns : Unbound(x) => Unbound(x)'
    BY <1>4, <1>6, <1>7 DEF Unbound
  <1>9. \A x \in Conns : srv'.acb[x] # srv.acb[x] => ~Fresh(x)
    BY <1>4, <1>6, TakenUp
  <1>10. \A d \in Calls : ex[d].pc = "none" => ex'[d].pc = "none"
    BY <1>1, <1>2
  <1>11. QED
    BY <1>5, <1>8, <1>9, <1>10, ServerQuiet

\* The first packet is taken off a connection.
LEMMA TailAt ==
  ASSUME NEW S, NEW l \in Seq(S), l # <<>>
  PROVE  /\ 1 \in DOMAIN l /\ Head(l) = l[1]
         /\ \A i \in DOMAIN Tail(l) : i \in Nat /\ i # 0 /\ i + 1 \in DOMAIN l /\ Tail(l)[i] = l[i + 1]
  <1>1. DOMAIN l = 1..Len(l) /\ Len(l) \in Nat /\ Len(l) > 0
    OBVIOUS
  <1>2. Head(l) = l[1] /\ DOMAIN Tail(l) = 1..(Len(l) - 1)
    OBVIOUS
  <1>3. \A i \in 1..(Len(l) - 1) : Tail(l)[i] = l[i + 1]
    OBVIOUS
  <1>4. QED
    BY <1>1, <1>2, <1>3

\* Packets of any type after the server has taken one from a
LEMMA TakenLater ==
  ASSUME NetTypes, NEW a \in Conns, net[a].c2s # <<>>,
         \A x \in Conns : /\ net'[x].up = net[x].up
                          /\ net'[x].c2s = IF x = a THEN Tail(net[a].c2s) ELSE net[x].c2s
  PROVE  \A ty : Later(ty, a, 1) /\ \A x \in Conns : x # a => Later(ty, x, 0)
  <1>1. ASSUME NEW ty PROVE Later(ty, a, 1)
    <2>1. net[a].c2s \in Seq(ClientPacket) /\ net'[a].c2s = Tail(net[a].c2s)
      BY WireTyped DEF NetTypes
    <2>2. QED
      BY <2>1, TailAt DEF Later
  <1>2. ASSUME NEW ty, NEW x \in Conns, x # a PROVE Later(ty, x, 0)
    <2>1. (\A i \in DOMAIN net[x].c2s : i + 0 = i) /\ net'[x].c2s = net[x].c2s
      BY <1>2, WireTyped DEF NetTypes
    <2>2. QED
      BY <2>1 DEF Later
  <1>3. QED
    BY <1>1, <1>2

LEMMA TakesStreams ==
  ASSUME NetTypes, NEW a \in Conns, ServerTakes(a)
  PROVE  \A x \in Conns : /\ net'[x].up = net[x].up
                          /\ net'[x].c2s = IF x = a THEN Tail(net[a].c2s) ELSE net[x].c2s
  <1> DEFINE n == [net EXCEPT ![a].c2s = Tail(@)]
             p == Head(net[a].c2s)
  <1>1. n \in [Conns -> Connection]
    BY TakenType DEF ServerTakes, NetTypes
  <1>2. \A x \in Conns : /\ n[x].up = net[x].up
                         /\ n[x].c2s = IF x = a THEN Tail(net[a].c2s) ELSE net[x].c2s
    <2> DEFINE k == [net[a] EXCEPT !.c2s = Tail(net[a].c2s)]
    <2>1. net \in [Conns -> Connection] /\ n = [net EXCEPT ![a] = k]
      BY DEF NetTypes
    <2>2. k.up = net[a].up /\ k.c2s = Tail(net[a].c2s)
      BY <2>1 DEF Connection
    <2> HIDE DEF k, n
    <2>3. QED
      BY <2>1, <2>2
  <1>3. net' = n \/ \E q : net' = ToClient(n, a, q)
    BY DEF ServerTakes, BindInd
  <1> HIDE DEF n
  <1>4. CASE net' = n
    BY <1>2, <1>4
  <1>5. CASE \E q : net' = ToClient(n, a, q)
    <2>1. PICK q : net' = ToClient(n, a, q)
      BY <1>5
    <2> DEFINE m == ToClient(n, a, q)
    <2>2. \A x \in Conns : m[x].up = n[x].up /\ m[x].c2s = n[x].c2s
      BY <1>1, ToClientStreams
    <2>3. net' = m
      BY <2>1
    <2> HIDE DEF m
    <2>4. QED
      BY <1>2, <2>2, <2>3
  <1>6. QED
    BY <1>3, <1>4, <1>5

\* rpc__cn_call_executor has the call once, and the association of a bind has none.
LEMMA ServerTakesKeeps ==
  ASSUME ClientInv, ClientInv', WireInv, ServerTypes, CountsInv, UNCHANGED clientVars,
         NEW a \in Conns, ServerTakes(a)
  PROVE  ServerTypes' /\ CountsInv' /\ WireInv'
  <1> DEFINE p == Head(net[a].c2s)
  <1>1. NetTypes /\ NetTypes' /\ net[a].c2s # <<>> /\ srv.acb[a].rx = "recv" /\ ~srv.acb[a].cancel
    BY DEF ClientInv, ServerTakes
  <1>2. 1 \in DOMAIN net[a].c2s /\ p = net[a].c2s[1] /\ p \in ClientPacket
    BY <1>1, TailAt, WireTyped DEF NetTypes
  <1>3. \A x \in Conns : /\ net'[x].up = net[x].up
                         /\ net'[x].c2s = IF x = a THEN Tail(net[a].c2s) ELSE net[x].c2s
    BY <1>1, TakesStreams
  <1>4. \A ty : Later(ty, a, 1) /\ \A x \in Conns : x # a => Later(ty, x, 0)
    BY <1>1, <1>3, TakenLater
  <1>5. ~Fresh(a) /\ calls \in 0..MaxCalls
    BY <1>1, TakenUp DEF ClientInv, ClientTypes
  <1>6. \A x \in Conns : \E s \in {0, 1} : Later("request", x, s) /\ (x = a => s = 1)
    BY <1>4
  \* What is left to say is what becomes of the server and its calls.
  <1>7. ASSUME \A x \in Conns : x # a => srv'.acb[x] = srv.acb[x],
               \A x \in Conns : x # a => On(x)' = On(x)
        PROVE  /\ (\A x \in Conns : BindFirst(x)') /\ Unique' /\ FreshInv'
               /\ CallersGoOn /\ calls' = calls /\ thr' \in [Threads -> Caller]
    <2>1. \A x \in Conns : \E s \in {0, 1} :
            Later("bind", x, s) /\ (s = 0 => (Unbound(x) => Unbound(x)'))
      <3> SUFFICES ASSUME NEW x \in Conns
                   PROVE  \E s \in {0, 1} :
                            Later("bind", x, s) /\ (s = 0 => (Unbound(x) => Unbound(x)'))
        OBVIOUS
      <3>1. CASE x = a
        <4>1. Later("bind", x, 1)
          BY <1>4, <3>1
        <4>2. QED
          BY <4>1
      <3>2. CASE x # a
        <4>1. Later("bind", x, 0) /\ (Unbound(x) => Unbound(x)')
          BY <1>4, <1>7, <3>2 DEF Unbound
        <4>2. QED
          BY <4>1
      <3>3. QED
        BY <3>1, <3>2
    <2>2. \A x \in Conns : srv'.acb[x] # srv.acb[x] => ~Fresh(x)
      BY <1>5, <1>7
    <2>3. \A x \in Conns : net'[x].up => net[x].up
      BY <1>3
    <2>4. \A x \in Conns : \E s \in {0, 1} : Later("request", x, s)
      BY <1>6
    <2>5. QED
      BY <2>1, <2>2, <2>3, <2>4, ServerWire
  <1>8. ASSUME \A x \in Conns : x # a => srv'.acb[x] = srv.acb[x],
               \A c \in Calls : ex'[c].pc = ex[c].pc /\ ex'[c].a = ex[c].a
        PROVE  WireInv'
    <2>1. \A x \in Conns : On(x)' = On(x)
      BY <1>8 DEF On, Executing
    <2>2. /\ (\A x \in Conns : BindFirst(x)') /\ Unique' /\ FreshInv'
          /\ CallersGoOn /\ calls' = calls /\ thr' \in [Threads -> Caller]
      BY <1>7, <1>8, <2>1
    <2>3. Unseen'
      <3>1. \A x \in Conns : \E s \in {0, 1} : Later("request", x, s)
        BY <1>6
      <3>2. \A c \in Calls : ex[c].pc = "none" => ex'[c].pc = "none"
        BY <1>8
      <3>3. QED
        BY <1>1, <1>5, <2>2, <3>1, <3>2, UnseenStays DEF WireInv
    <2>4. QED
      BY <2>2, <2>3 DEF WireInv
  <1>9. CASE p.type = "bind" /\ BindInd(a, p.group) /\ UNCHANGED ex
    <2>1. Unbound(a)
      BY <1>2, <1>9 DEF WireInv, BindFirst
    <2>2. ServerTypes' /\ CountsInv' /\ \A x \in Conns : x # a => srv'.acb[x] = srv.acb[x]
      <3>1. ASSUME NEW h \in Conns, srv' = AddTo(srv, a, h)
            PROVE  ServerTypes' /\ CountsInv' /\ \A x \in Conns : x # a => srv'.acb[x] = srv.acb[x]
        <4>1. ServerTypes' /\ CountsInv'
          BY <1>1, <1>9, <2>1, <3>1, AddToCounts DEF Unbound
        <4>2. \A x \in Conns : x # a => srv'.acb[x] = srv.acb[x]
          BY <3>1 DEF AddTo, ServerTypes, Server
        <4>3. QED
          BY <4>1, <4>2
      <3>2. CASE srv' = srv
        <4>1. SameExecutors
          BY <1>9 DEF SameExecutors, Executing
        <4>2. QED
          BY <1>9, <3>2, <4>1, CountsUnchanged DEF ServerTypes
      <3>3. srv' = srv \/ \E h \in Conns : srv' = AddTo(srv, a, h)
        <4>1. p.group \in 0..MaxConns
          BY <1>2 DEF ClientPacket
        <4>2. p.group # 0 => p.group \in Conns
          BY <4>1, BindAssumption DEF Conns
        <4> HIDE DEF p
        <4>3. QED
          BY <1>9, <4>2 DEF BindInd, Joins
      <3>4. QED
        BY <3>1, <3>2, <3>3
    <2>3. WireInv'
      BY <1>8, <1>9, <2>2
    <2>4. QED
      BY <2>2, <2>3
  <1>10. CASE p.type = "request" /\ srv.acb[a].st = "OPEN" /\ RequestInd(a, p.call)
    <2>1. PICK c : c = p.call
      OBVIOUS
    <2>2. IsRequest(a, 1) /\ CallAt(a, 1) = c
      BY <1>2, <1>10, <2>1 DEF IsRequest, CallAt
    <2>3. Unique /\ Unseen /\ Pending(c)
      BY <1>2, <2>2 DEF WireInv, Unseen
    <2>4. c \in Calls /\ ex[c].pc = "none" /\ c <= calls
      BY <1>5, <2>3, BindAssumption DEF Pending, Calls
    <2>5. RequestInd(a, c)
      BY <1>10, <2>1
    <2>6. ServerTypes' /\ CountsInv'
      BY <1>10, <2>4, <2>5, RequestCounts
    <2>7. /\ ex' = [ex EXCEPT ![c] = [NoCall EXCEPT !.pc = "run", !.a = a, !.grp = srv.acb[a].grp]]
          /\ srv' = [srv EXCEPT !.acb[a] = [srv.acb[a] EXCEPT !.ref = @ + 1, !.users = @ + 1],
                                !.grp[srv.acb[a].grp].calls = @ + 1]
      BY <2>5 DEF RequestInd
    <2>8. \A x \in Conns : x # a => srv'.acb[x] = srv.acb[x]
      BY <2>7 DEF ServerTypes, Server
    <2>9. (\A d \in Calls : d # c => ex'[d] = ex[d]) /\ ex'[c].a = a
      BY <2>4, <2>7 DEF ServerTypes, NoCall
    <2>10. \A x \in Conns : x # a => On(x)' = On(x)
      BY <2>4, <2>9 DEF On, Executing
    <2>11. /\ (\A x \in Conns : BindFirst(x)') /\ Unique' /\ FreshInv'
           /\ CallersGoOn /\ calls' = calls /\ thr' \in [Threads -> Caller]
      BY <1>7, <2>8, <2>10
    \* The request was the only one of its call.
    <2>12. ASSUME NEW x \in Conns, NEW i \in DOMAIN net'[x].c2s, IsRequest(x, i)', CallAt(x, i)' = c
           PROVE  FALSE
      <3>1. PICK s \in {0, 1} : Later("request", x, s) /\ (x = a => s = 1)
        BY <1>6
      <3>2. i + s \in DOMAIN net[x].c2s /\ net'[x].c2s[i] = net[x].c2s[i + s]
        BY <2>12, <3>1 DEF Later, IsRequest
      <3>3. IsRequest(x, i + s) /\ CallAt(x, i + s) = c
        BY <2>12, <3>2 DEF IsRequest, CallAt
      <3>4. x = a /\ i + s = 1
        BY <1>2, <2>2, <2>3, <3>2, <3>3 DEF Unique
      <3>5. i \in Nat /\ i # 0
        BY <1>1, WireTyped DEF NetTypes
      <3>6. QED
        BY <3>1, <3>4, <3>5
    <2>13. \A t \in Threads : thr'[t].pc \in Ahead => thr'[t].call # c
      BY <1>2, <2>2, <2>3, <2>11 DEF Unique, CallersGoOn
    <2>14. Unseen'
      <3>1. \A x \in Conns : \E s \in {0, 1} : Later("request", x, s)
        BY <1>6
      <3>2. \A d \in Calls : d # c /\ ex[d].pc = "none" => ex'[d].pc = "none"
        BY <2>9
      <3>3. \A x \in Conns : \A i \in DOMAIN net'[x].c2s : IsRequest(x, i)' => CallAt(x, i)' # c
        BY <2>12
      <3>4. QED
        BY <1>1, <1>5, <2>3, <2>4, <2>11, <2>13, <3>1, <3>2, <3>3, UnseenGoesOn
    <2>15. QED
      BY <2>6, <2>11, <2>14 DEF WireInv
  <1>11. CASE p.type = "orphaned" /\ ex' = [ex EXCEPT ![p.call].orphan = ex[p.call].pc = "run"]
              /\ UNCHANGED srv
    <2>1. PICK c : c = p.call
      OBVIOUS
    <2>2. ex \in [Calls -> CallExec] /\ ex' = [ex EXCEPT ![c].orphan = ex[c].pc = "run"] /\ srv' = srv
      BY <1>11, <2>1 DEF ServerTypes
    <2>3. ex' \in [Calls -> CallExec]
          /\ \A d \in Calls : ex'[d].pc = ex[d].pc /\ ex'[d].a = ex[d].a /\ ex'[d].grp = ex[d].grp
      <3> DEFINE o == ex[c].pc = "run"
                 e == [ex[c] EXCEPT !.orphan = o]
      <3>1. o \in BOOLEAN
        OBVIOUS
      <3>2. ex' = [ex EXCEPT ![c] = e]
        BY <2>2
      <3>3. CASE c \in Calls
        <4> HIDE DEF o
        <4>1. ex[c] \in CallExec
          BY <2>2, <3>3
        <4>2. e \in CallExec /\ e.pc = ex[c].pc /\ e.a = ex[c].a /\ e.grp = ex[c].grp
          BY <3>1, <4>1 DEF CallExec
        <4> HIDE DEF e
        <4>3. QED
          BY <2>2, <3>2, <3>3, <4>2
      <3>4. CASE c \notin Calls
        <4> HIDE DEF e
        <4>1. QED
          BY <2>2, <3>2, <3>4
      <3>5. QED
        BY <3>3, <3>4
    <2>4. SameExecutors
      BY <2>3 DEF SameExecutors, Executing
    <2>5. ServerTypes' /\ CountsInv'
      BY <2>2, <2>3, <2>4, CountsUnchanged DEF ServerTypes
    <2>6. WireInv'
      BY <1>8, <2>2, <2>3
    <2>7. QED
      BY <2>5, <2>6
  <1>12. QED
    BY <1>9, <1>10, <1>11 DEF ServerTakes

-----------------------------------------------------------------------------
(* Every step *)

AssocInv == ClientInv /\ ServerTypes /\ CountsInv /\ WireInv

LEMMA AssocInvInit == Init => AssocInv
  <1> SUFFICES ASSUME Init PROVE AssocInv
    OBVIOUS
  <1>1. /\ srv = [acb |-> [a \in Conns |-> NoAcb], grp |-> [a \in Conns |-> NewGroup]]
        /\ ex = [c \in Calls |-> NoCall]
    BY DEF Init, ServerInit
  <1>2. 0 \in 0..MaxConns /\ <<>> \in Seq(Conns)
    BY BindAssumption
  <1>3. NoAcb \in ServerAcb /\ NewGroup \in ServerGroup /\ NoCall \in CallExec
    BY <1>2 DEF NoAcb, ServerAcb, NewGroup, ServerGroup, NoCall, CallExec
  <1>4. ServerTypes
    BY <1>1, <1>3 DEF ServerTypes, Server
  <1>5. (\A a \in Conns : srv.acb[a] = NoAcb /\ srv.grp[a] = NewGroup) /\ \A c \in Calls : ex[c] = NoCall
    BY <1>1
  <1>6. \A c \in Calls : ex[c].pc = "none" /\ ~Executing(c)
    BY <1>5 DEF NoCall, Executing
  <1>7. \A a : On(a) = {} /\ OnCount(a) = 0 /\ InCount(a) = 0
    BY <1>6, FS_EmptySet DEF On, In, OnCount, InCount
  <1>8. CountsInv
    <2>1. SrvAcbOK(NoAcb, 0)
      BY DEF SrvAcbOK, NoAcb, Receiving
    <2>2. GroupOK(NewGroup, 0) /\ Members(NewGroup.list) = {}
      BY DEF GroupOK, NewGroup, NoDup, Members
    <2>3. Listed(srv.acb, srv.grp)
      BY <1>5, <2>2 DEF Listed, NoAcb
    <2>4. QED
      BY <1>5, <1>6, <1>7, <2>1, <2>2, <2>3 DEF CountsInv
  <1>9. WireInv
    <2>1. \A a \in Conns : ~net[a].up /\ net[a].c2s = <<>>
      BY DEF Init, NetInit
    <2>2. \A a \in Conns : DOMAIN net[a].c2s = {}
      BY <2>1
    <2>3. \A t \in Threads : thr[t].pc = "idle"
      BY DEF Init, ClientInit, IdleThread
    <2>4. \A a \in Conns : BindFirst(a)
      BY <2>2 DEF BindFirst
    <2>5. Unique
      BY <2>2, <2>3 DEF Unique, Ahead
    <2>6. Unseen
      BY <1>6, <2>2, <2>3 DEF Unseen, Ahead
    <2>7. FreshInv
      BY <1>5, <2>1 DEF FreshInv
    <2>8. QED
      BY <2>4, <2>5, <2>6, <2>7 DEF WireInv
  <1>10. QED
    BY <1>4, <1>8, <1>9, ClientInvInit DEF AssocInv

\* A step of the client leaves the server alone.
LEMMA ServerApart ==
  ASSUME ServerTypes, CountsInv, UNCHANGED serverVars
  PROVE  ServerTypes' /\ CountsInv'
  <1>1. srv' = srv /\ ex' = ex
    BY DEF serverVars
  <1>2. SameExecutors
    BY <1>1 DEF SameExecutors, Executing
  <1>3. QED
    BY <1>1, <1>2, CountsUnchanged DEF ServerTypes

LEMMA ClientStepWire ==
  ASSUME ClientInv, ClientInv', ServerTypes, CountsInv, WireInv, UNCHANGED serverVars,
         \/ \E t \in Threads : CallerRuns(t) \/ Begin(t) \/ CallerStops(t)
         \/ \E a \in Conns : ClientReceiver(a) \/ ClientReclaims(a)
  PROVE  WireInv'
  <1>1. NetTypes
    BY DEF ClientInv
  <1>2. CASE \E t \in Threads : CallerRuns(t) \/ Begin(t) \/ CallerStops(t)
    <2>1. PICK t \in Threads : CallerRuns(t) \/ Begin(t) \/ CallerStops(t)
      BY <1>2
    <2>2. CASE \/ Reuse(t) \/ OpenSecond(t) \/ OpenFirst(t) \/ WaitForCreator(t)
               \/ Bound(t) \/ BindFails(t) \/ Slept(t)
               \/ BindSendFails(t) \/ ConnectFails(t) \/ ConnectAbandoned(t)
               \/ BindAbandoned(t) \/ WaitAbandoned(t)
      <3>1. Onward
        BY <2>2, CallersApart, ReuseKeeps, OpensKeep, FailuresKeep, BoundKeeps
      <3>2. QuietCallers /\ net' = net /\ calls' = calls
        BY <2>2, RequestQuiet
      <3>3. QED
        BY <1>1, <3>1, <3>2, NetStays, ClientWire
    <2>3. CASE Maintains(t) \/ CallEnds(t) \/ CallBreaks(t) \/ CallAbandoned(t)
      <3>1. Onward
        BY <2>3, MaintainsKeeps, EndsKeep
      <3>2. QuietCallers /\ QuietNet /\ calls' = calls
        BY <2>3, CallQuiet
      <3>3. QED
        BY <3>1, <3>2, ClientWire
    <2>4. CASE Begin(t)
      BY <2>4, BeginWire, CallersApart
    <2>5. CASE Connects(t)
      BY <2>5, ConnectsWire, ConnectsKeeps
    <2>6. CASE SendsRequest(t)
      BY <2>6, SendsRequestWire, SendsRequestKeeps
    <2>7. QED
      BY <2>1, <2>2, <2>3, <2>4, <2>5, <2>6 DEF CallerRuns, CallerStops
  <1>3. CASE \E a \in Conns : ClientReceiver(a) \/ ClientReclaims(a)
    <2>1. PICK a \in Conns : ClientReceiver(a) \/ ClientReclaims(a)
      BY <1>3
    <2>2. Onward
      BY <2>1, ReceiverStartsKeeps, ReceiverTakesKeeps, ReceiverEndsKeeps, ClientReclaimsKeeps
         DEF ClientReceiver
    <2>3. QED
      BY <2>1, <2>2, ReceiverQuiet, ClientWire
  <1>4. QED
    BY <1>2, <1>3

LEMMA ServerStepKeeps ==
  ASSUME ClientInv, ClientInv', ServerTypes, CountsInv, WireInv, UNCHANGED clientVars,
         \/ \E a \in Conns : ServerReceiver(a) \/ ServerReclaims(a)
         \/ \E c \in Calls : ExecutorStep(c)
  PROVE  ServerTypes' /\ CountsInv' /\ WireInv'
  <1>1. ASSUME NEW a \in Conns, Accepts(a) PROVE ServerTypes' /\ CountsInv' /\ WireInv'
    BY <1>1, AcceptsCounts, AcceptsWire
  <1>2. ASSUME NEW a \in Conns, ServerTakes(a) PROVE ServerTypes' /\ CountsInv' /\ WireInv'
    BY <1>2, ServerTakesKeeps
  <1>3. ASSUME NEW a \in Conns, ServerEnds(a) PROVE ServerTypes' /\ CountsInv' /\ WireInv'
    BY <1>3, ServerEndsCounts, ServerEndsWire
  <1>4. ASSUME NEW a \in Conns, ServerReclaims(a) PROVE ServerTypes' /\ CountsInv' /\ WireInv'
    BY <1>4, ServerReclaimsCounts, ServerReclaimsWire
  <1>5. ASSUME NEW c \in Calls, ExecutorStep(c) PROVE ServerTypes' /\ CountsInv' /\ WireInv'
    <2>1. ServerTypes' /\ CountsInv'
      BY <1>5, RespondsCounts, ExecutorEndsCounts DEF ExecutorStep
    <2>2. QED
      BY <1>5, <2>1, ExecutorWire
  <1>6. QED
    BY <1>1, <1>2, <1>3, <1>4, <1>5 DEF ServerReceiver

LEMMA AssocInvNext == AssocInv /\ [Next]_vars => AssocInv'
  <1> SUFFICES ASSUME ClientInv, ServerTypes, CountsInv, WireInv, [Next]_vars
               PROVE  ServerTypes' /\ CountsInv' /\ WireInv'
    BY ClientInvNext DEF AssocInv
  <1>1. ClientInv'
    BY ClientInvNext
  <1>2. CASE UNCHANGED vars
    <2>1. UNCHANGED <<net, thr, cli, calls, serverVars>>
      BY <1>2 DEF vars, netVars, clientVars
    <2>2. Onward /\ QuietCallers /\ QuietNet
      BY <2>1, NobodyMoves, NetStays, StillOnward DEF ClientInv
    <2>3. QED
      BY <1>1, <2>1, <2>2, ClientWire, ServerApart
  <1>3. CASE \/ \E t \in Threads : (CallerRuns(t) \/ Begin(t) \/ CallerStops(t)) /\ UNCHANGED serverVars
             \/ \E a \in Conns : (ClientReceiver(a) \/ ClientReclaims(a)) /\ UNCHANGED serverVars
    BY <1>1, <1>3, ClientStepWire, ServerApart
  <1>4. CASE \/ \E a \in Conns : (ServerReceiver(a) \/ ServerReclaims(a)) /\ UNCHANGED clientVars
             \/ \E c \in Calls : ExecutorStep(c) /\ UNCHANGED clientVars
    BY <1>1, <1>4, ServerStepKeeps
  <1>5. CASE \E a \in Conns : Breaks(a)
    <2>1. UNCHANGED serverVars
      BY <1>5 DEF Breaks
    <2>2. QED
      BY <1>1, <1>5, <2>1, BreaksWire, ServerApart
  <1>6. QED
    BY <1>2, <1>3, <1>4, <1>5 DEF Next, Runs

-----------------------------------------------------------------------------
(* Handles, and the groups that are to come *)

Handle == [st : {"none", "busy", "held", "gone"}, grp : 0..MaxConns, remid : 0..MaxConns]

\* The handle counts in its group, and no group comes to be under the name of one that the
\* handle is in: a group is called after an association that was the first of it.
HandleInv ==
  /\ ctx \in Handle
  /\ \A g \in Conns : cli.grp[g].refs \in Nat
  /\ ctx.grp \in Active(cli) => cli.grp[ctx.grp].refs > 0
  /\ \A a \in Conns : Young(cli.acb[a]) => cli.grp[a].st # "ACTIVE" /\ ctx.grp # a

\* Who does not take a response with a handle leaves the handle in its group, or gives it up.
LEMMA HandleKept ==
  ASSUME [Next]_vars, ctx \in Handle, \A t \in Threads : ~Maintains(t)
  PROVE  ctx' \in Handle /\ ctx'.grp \in {0, ctx.grp}
  <1>1. NoHandle \in Handle /\ NoHandle.grp = 0 /\ [ctx EXCEPT !.st = "busy"] \in Handle
        /\ [ctx EXCEPT !.st = "busy"].grp = ctx.grp
    BY BindAssumption DEF NoHandle, Handle
  <1>2. ASSUME NEW t \in Threads, CallFails(t) PROVE ctx' \in {ctx, NoHandle}
    BY <1>2 DEF CallFails
  <1>3. ASSUME NEW t \in Threads, NEW c, NEW r, OpenFails(t, c, r) PROVE ctx' \in {ctx, NoHandle}
    BY <1>2, <1>3 DEF OpenFails
  <1>4. ASSUME NEW t \in Threads, CallerRuns(t) PROVE ctx' \in {ctx, NoHandle}
    <2>1. ASSUME NEW h, NEW remid, Connecting(t, h, remid) PROVE ctx' = ctx
      BY <2>1 DEF Connecting
    <2>2. CASE Reuse(t) \/ WaitForCreator(t) \/ Connects(t) \/ Bound(t) \/ Slept(t)
      <3>1. Reuse(t) => ctx' = ctx
        BY DEF Reuse
      <3>2. Connects(t) \/ Bound(t) => ctx' = ctx
        BY DEF Connects, Bound
      <3>3. QED
        BY <2>2, <3>1, <3>2 DEF WaitForCreator, Slept
    <2>3. CASE OpenSecond(t) \/ OpenFirst(t)
      BY <2>1, <2>3 DEF OpenSecond, OpenFirst
    <2>4. CASE SendsRequest(t) \/ CallEnds(t)
      BY <2>4 DEF SendsRequest, CallEnds
    <2>5. CASE BindFails(t) \/ CallBreaks(t)
      BY <1>2, <1>3, <2>5 DEF BindFails, CallBreaks
    <2>6. QED
      BY <1>4, <2>2, <2>3, <2>4, <2>5 DEF CallerRuns
  <1>5. ASSUME NEW t \in Threads, CallerStops(t) PROVE ctx' \in {ctx, NoHandle}
    BY <1>2, <1>3, <1>5 DEF CallerStops, BindSendFails, ConnectFails, ConnectAbandoned,
       BindAbandoned, WaitAbandoned, CallAbandoned
  <1>6. ASSUME NEW t \in Threads, Begin(t) PROVE ctx' \in {ctx, [ctx EXCEPT !.st = "busy"]}
    BY <1>6 DEF Begin
  <1>7. ASSUME NEW a \in Conns, ClientReceiver(a) \/ ClientReclaims(a) PROVE ctx' = ctx
    BY <1>7 DEF ClientReceiver, ReceiverStarts, ReceiverTakes, ReceiverEnds, ClientReclaims
  <1>8. ASSUME UNCHANGED clientVars PROVE ctx' = ctx
    BY <1>8 DEF clientVars
  <1>9. ctx' \in {ctx, NoHandle, [ctx EXCEPT !.st = "busy"]}
    <2>1. ASSUME UNCHANGED vars PROVE ctx' = ctx
      BY <1>8, <2>1 DEF vars
    <2>2. ASSUME NEW a \in Conns, Breaks(a) PROVE ctx' = ctx
      BY <1>8, <2>2 DEF Breaks
    <2>3. QED
      BY <1>4, <1>5, <1>6, <1>7, <1>8, <2>1, <2>2 DEF Next, Runs
  <1>10. QED
    BY <1>1, <1>9

\* What the response with a handle in it makes of the group
LEMMA MaintainsShape ==
  ASSUME ClientInv, HandleInv, NEW t \in Threads, Maintains(t)
  PROVE  /\ ctx' \in Handle /\ Active(cli)' = Active(cli)
         /\ \/ /\ ctx'.grp \in Active(cli) /\ cli'.grp[ctx'.grp].refs > 0
            \/ ctx'.grp = 0
         /\ \A g \in Conns : cli'.grp[g].refs \in Nat
         /\ cli'.acb = cli.acb
  <1> DEFINE g == IF kind[thr[t].call] = "open" THEN thr[t].grp ELSE ctx.grp
  <1>1. /\ cli \in Client /\ cli.grp \in [Conns -> ClientGroup]
        /\ \A x \in Conns : cli.grp[x].remid \in 0..MaxConns /\ DOMAIN cli.grp[x] = {"st", "remid", "list", "refs"}
        /\ \A x \in Conns : cli.grp[x].refs \in Nat
    BY DEF ClientInv, ClientTypes, Client, ClientGroup, HandleInv
  <1>2. NoHandle \in Handle /\ NoHandle.grp = 0
    BY BindAssumption DEF NoHandle, Handle
  <1>3. CASE g \in Active(cli) /\ kind[thr[t].call] = "open"
             /\ ctx' = [st |-> "held", grp |-> g, remid |-> cli.grp[g].remid]
             /\ cli' = [cli EXCEPT !.grp[g].refs = @ + 1]
    <2>1. g \in Conns /\ g \in 0..MaxConns
      BY <1>3 DEF Active, Conns
    <2> HIDE DEF g
    <2>2. /\ cli'.acb = cli.acb
          /\ cli'.grp[g].refs = cli.grp[g].refs + 1 /\ cli'.grp[g].st = cli.grp[g].st
          /\ \A x \in Conns : x # g => cli'.grp[x] = cli.grp[x]
      BY <1>1, <1>3, <2>1 DEF Client
    <2>3. \A x \in Conns : cli'.grp[x].st = cli.grp[x].st
      BY <2>2
    <2>4. Active(cli)' = Active(cli)
      BY <2>3 DEF Active
    <2>5. ctx' \in Handle /\ ctx'.grp = g
      BY <1>1, <1>3, <2>1 DEF Handle
    <2>6. \A x \in Conns : cli'.grp[x].refs \in Nat
      BY <1>1, <2>1, <2>2
    <2>7. cli'.grp[g].refs > 0
      BY <1>1, <2>1, <2>2
    <2>8. QED
      BY <1>3, <2>2, <2>4, <2>5, <2>6, <2>7
  <1>4. CASE g \in Active(cli) /\ kind[thr[t].call] = "close" /\ ctx' = NoHandle
             /\ cli' = [cli EXCEPT !.grp[g].refs = @ - 1]
    <2>1. g \in Conns /\ g = ctx.grp /\ cli.grp[g].refs > 0
      BY <1>4 DEF Active, HandleInv
    <2> HIDE DEF g
    <2>2. /\ cli'.acb = cli.acb
          /\ cli'.grp[g].refs = cli.grp[g].refs - 1 /\ cli'.grp[g].st = cli.grp[g].st
          /\ \A x \in Conns : x # g => cli'.grp[x] = cli.grp[x]
      BY <1>1, <1>4, <2>1 DEF Client
    <2>3. \A x \in Conns : cli'.grp[x].st = cli.grp[x].st
      BY <2>2
    <2>4. Active(cli)' = Active(cli)
      BY <2>3 DEF Active
    <2>5. \A x \in Conns : cli'.grp[x].refs \in Nat
      BY <1>1, <2>1, <2>2
    <2>6. QED
      BY <1>2, <1>4, <2>2, <2>4, <2>5
  <1>5. CASE ctx' = NoHandle /\ UNCHANGED cli
    BY <1>1, <1>2, <1>5 DEF Active
  <1>6. CASE kind[thr[t].call] = "open"
    BY <1>3, <1>5, <1>6 DEF Maintains
  <1>7. CASE kind[thr[t].call] # "open"
    BY <1>4, <1>5, <1>7 DEF Maintains
  <1>8. QED
    BY <1>6, <1>7

LEMMA HandleInvInit == Init => HandleInv
  <1> SUFFICES ASSUME Init PROVE HandleInv
    OBVIOUS
  <1>1. /\ ctx = [st |-> "none", grp |-> 0, remid |-> 0]
        /\ \A g \in Conns : cli.grp[g] = NoGroup
    BY DEF Init, ClientInit
  <1>2. ctx \in Handle /\ ctx.grp = 0 /\ 0 \notin Conns
    BY <1>1, BindAssumption DEF Handle, Conns
  <1>3. QED
    BY <1>1, <1>2 DEF HandleInv, NoGroup, Active

LEMMA HandleInvNext == ClientInv /\ HandleInv /\ [Next]_vars => HandleInv'
  <1> SUFFICES ASSUME ClientInv, HandleInv, [Next]_vars PROVE HandleInv'
    OBVIOUS
  <1>1. Onward /\ 0 \notin Conns
    BY ClientInvNext DEF Conns
  <1>2. ASSUME NEW a \in Conns, Young(cli'.acb[a])
        PROVE  Young(cli.acb[a]) /\ cli'.grp[a].st # "ACTIVE"
    <2>1. Young(cli.acb[a]) /\ ~Joined(a)
      BY <1>1, <1>2 DEF Onward, Ages, Joined
    <2>2. Stands(a)
      BY <1>1, <2>1 DEF Onward
    <2>3. QED
      BY <2>1, <2>2 DEF Stands, HandleInv
  <1>3. CASE \E t \in Threads : Maintains(t)
    <2>1. PICK t \in Threads : Maintains(t)
      BY <1>3
    <2>2. /\ ctx' \in Handle /\ Active(cli)' = Active(cli)
          /\ \/ ctx'.grp \in Active(cli) /\ cli'.grp[ctx'.grp].refs > 0
             \/ ctx'.grp = 0
          /\ \A g \in Conns : cli'.grp[g].refs \in Nat
      BY <2>1, MaintainsShape
    <2>3. ctx'.grp \in Active(cli)' => cli'.grp[ctx'.grp].refs > 0
      BY <1>1, <2>2 DEF Active
    <2>4. ASSUME NEW a \in Conns, Young(cli'.acb[a]) PROVE ctx'.grp # a
      <3>1. a \notin Active(cli)
        BY <1>2, <2>4 DEF HandleInv, Active
      <3>2. QED
        BY <1>1, <2>2, <3>1
    <2>5. QED
      BY <1>2, <2>2, <2>3, <2>4 DEF HandleInv
  <1>4. CASE ~\E t \in Threads : Maintains(t)
    <2>1. ctx' \in Handle /\ ctx'.grp \in {0, ctx.grp}
      BY <1>4, HandleKept DEF HandleInv
    <2>2. \A g \in Conns : RefsKept(g)
      BY <1>1, <1>4 DEF Onward
    <2>3. \A g \in Conns : cli'.grp[g].refs \in Nat
      BY <2>2 DEF RefsKept, HandleInv
    <2>4. ASSUME ctx'.grp \in Active(cli)' PROVE cli'.grp[ctx'.grp].refs > 0
      <3>1. PICK g \in Conns : g = ctx'.grp /\ cli'.grp[g].st = "ACTIVE"
        BY <2>4 DEF Active
      <3>2. g = ctx.grp
        BY <1>1, <2>1, <3>1
      <3>3. ~Joined(g)
        BY <3>2 DEF HandleInv, Joined, Young
      <3>4. cli.grp[g].st = "ACTIVE" /\ cli'.grp[g].refs = cli.grp[g].refs
        BY <1>1, <2>2, <3>1, <3>3 DEF Onward, Stands, RefsKept
      <3>5. cli.grp[g].refs > 0
        BY <3>2, <3>4 DEF HandleInv, Active
      <3>6. QED
        BY <3>1, <3>4, <3>5
    <2>5. \A a \in Conns : Young(cli'.acb[a]) => cli'.grp[a].st # "ACTIVE" /\ ctx'.grp # a
      BY <1>1, <1>2, <2>1 DEF HandleInv
    <2>6. QED
      BY <2>1, <2>3, <2>4, <2>5 DEF HandleInv
  <1>5. QED
    BY <1>3, <1>4

-----------------------------------------------------------------------------
(* Binds and their acks on the wire *)

\* Every packet of a type that is in the stream m has been in l.
Older(m, l, ty) == \A i \in DOMAIN m : m[i].type = ty => \E j \in DOMAIN l : l[j] = m[i]

\* No bind and no ack comes to be on the connection x.
Settled(x) == Older(net'[x].c2s, net[x].c2s, "bind") /\ Older(net'[x].s2c, net[x].s2c, "ack")

\* The server takes a bind from x, which joins the group h that it names, or has a new one.
Answered(x, h) ==
  /\ srv.acb[x].rx = "recv" /\ net[x].c2s # <<>> /\ Head(net[x].c2s).type = "bind"
  /\ Head(net[x].c2s).group = h \/ (Head(net[x].c2s).group = 0 /\ h = x)
  /\ srv' = AddTo(srv, x, h)
  /\ net' = ToClient([net EXCEPT ![x].c2s = Tail(@)], x, BindAck(h))

LEMMA OlderPackets ==
  ASSUME NEW S, NEW l \in Seq(S), NEW ty
  PROVE  /\ Older(l, l, ty) /\ Older(<<>>, l, ty)
         /\ l # <<>> => Older(Tail(l), l, ty)
         /\ \A p : p.type # ty => Older(Append(l, p), l, ty)
  <1>1. Older(l, l, ty) /\ Older(<<>>, l, ty)
    BY DEF Older
  <1>2. ASSUME l # <<>> PROVE Older(Tail(l), l, ty)
    BY <1>2, TailAt DEF Older
  <1>3. ASSUME NEW p, p.type # ty PROVE Older(Append(l, p), l, ty)
    BY <1>3, AppendAt DEF Older
  <1>4. QED
    BY <1>1, <1>2, <1>3

LEMMA Streams ==
  ASSUME NetTypes, NEW x \in Conns
  PROVE  /\ net[x].c2s \in Seq(ClientPacket) /\ net[x].s2c \in Seq(ServerPacket)
         /\ net' = net => Settled(x)
  <1>1. net[x].c2s \in Seq(ClientPacket) /\ net[x].s2c \in Seq(ServerPacket)
    BY DEF NetTypes, Connection
  <1>2. QED
    BY <1>1, OlderPackets DEF Settled

LEMMA ToServerSettled ==
  ASSUME NetTypes, NEW a, NEW p, p.type # "bind", net' = ToServer(net, a, p), NEW x \in Conns
  PROVE  Settled(x)
  <1>1. net'[x].s2c = net[x].s2c /\ net'[x].c2s \in {net[x].c2s, Append(net[x].c2s, p)}
    BY DEF ToServer, NetTypes, Connection
  <1>2. QED
    BY <1>1, Streams, OlderPackets DEF Settled

LEMMA ToClientSettled ==
  ASSUME NetTypes, NEW a, NEW p, p.type # "ack", net' = ToClient(net, a, p), NEW x \in Conns
  PROVE  Settled(x)
  <1>1. net'[x].c2s = net[x].c2s /\ net'[x].s2c \in {net[x].s2c, Append(net[x].s2c, p)}
    BY DEF ToClient, NetTypes, Connection
  <1>2. QED
    BY <1>1, Streams, OlderPackets DEF Settled

LEMMA ClientSettled ==
  ASSUME ClientInv, NEW x \in Conns,
         \/ \E t \in Threads : CallerRuns(t) \/ Begin(t) \/ CallerStops(t)
         \/ \E a \in Conns : ClientReceiver(a) \/ ClientReclaims(a)
  PROVE  Settled(x) \/ Called(x)
  <1>1. NetTypes /\ net \in [Conns -> Connection]
    BY DEF ClientInv, NetTypes
  <1>2. ASSUME NEW t \in Threads, Connects(t) PROVE Settled(x) \/ Called(x)
    <2>1. CASE thr[t].a = x
      BY <1>2, <2>1 DEF Called
    <2>2. CASE thr[t].a # x
      <3>1. net'[x] = net[x]
        BY <1>1, <1>2, <2>2 DEF Connects
      <3>2. QED
        BY <1>1, <3>1, Streams, OlderPackets DEF Settled
    <2>3. QED
      BY <2>1, <2>2
  <1>3. ASSUME NEW t \in Threads, SendsRequest(t) PROVE Settled(x)
    <2>1. Request(thr[t].call).type # "bind"
      BY DEF Request, Message
    <2>2. QED
      BY <1>1, <1>3, <2>1, Streams, ToServerSettled DEF SendsRequest
  <1>4. ASSUME NEW t \in Threads, CallAbandoned(t) PROVE Settled(x)
    <2>1. Orphaned(thr[t].call).type # "bind"
      BY DEF Orphaned, Message
    <2>2. QED
      BY <1>1, <1>4, <2>1, ToServerSettled DEF CallAbandoned
  <1>5. ASSUME NEW a \in Conns, ReceiverTakes(a) PROVE Settled(x)
    <2>1. net[a].s2c # <<>> /\ net' = [net EXCEPT ![a].s2c = Tail(@)]
      BY <1>5 DEF ReceiverTakes
    <2>2. net'[x].c2s = net[x].c2s /\ net'[x].s2c \in {net[x].s2c, Tail(net[x].s2c)}
          /\ (net'[x].s2c = net[x].s2c \/ net[x].s2c # <<>>)
      BY <1>1, <2>1 DEF Connection
    <2>3. QED
      BY <1>1, <2>2, Streams, OlderPackets DEF Settled
  <1>6. ASSUME NEW a \in Conns, ReceiverEnds(a) PROVE Settled(x)
    <2>1. net' = [net EXCEPT ![a] = [@ EXCEPT !.up = FALSE, !.s2c = <<>>]]
      BY <1>6 DEF ReceiverEnds
    <2>2. net'[x].c2s = net[x].c2s /\ net'[x].s2c \in {net[x].s2c, <<>>}
      BY <1>1, <2>1 DEF Connection
    <2>3. QED
      BY <1>1, <2>2, Streams, OlderPackets DEF Settled
  <1>7. ASSUME NEW t \in Threads,
               \/ Reuse(t) \/ OpenSecond(t) \/ OpenFirst(t) \/ WaitForCreator(t)
               \/ Bound(t) \/ BindFails(t) \/ Slept(t) \/ Begin(t)
               \/ BindSendFails(t) \/ ConnectFails(t) \/ ConnectAbandoned(t)
               \/ BindAbandoned(t) \/ WaitAbandoned(t)
        PROVE  Settled(x)
    <2>1. Begin(t) \/ (QuietCallers /\ net' = net)
      BY <1>7, RequestQuiet
    <2>2. net' = net
      BY <2>1 DEF Begin
    <2>3. QED
      BY <1>1, <2>2, Streams
  <1>8. ASSUME NEW t \in Threads, Maintains(t) \/ CallEnds(t) \/ CallBreaks(t) PROVE Settled(x)
    <2>1. net' = net
      BY <1>8 DEF Maintains, CallEnds, CallBreaks
    <2>2. QED
      BY <1>1, <2>1, Streams
  <1>9. ASSUME NEW a \in Conns, ReceiverStarts(a) \/ ClientReclaims(a) PROVE Settled(x)
    <2>1. net' = net
      BY <1>9 DEF ReceiverStarts, ClientReclaims
    <2>2. QED
      BY <1>1, <2>1, Streams
  <1>10. QED
    BY <1>2, <1>3, <1>4, <1>5, <1>6, <1>7, <1>8, <1>9 DEF CallerRuns, CallerStops, ClientReceiver

LEMMA BreaksSettled ==
  ASSUME NetTypes, NEW a \in Conns, Breaks(a), NEW x \in Conns
  PROVE  Settled(x)
  <1>1. PICK n \in {net[a], [net[a] EXCEPT !.c2s = <<>>, !.s2c = <<>>]} :
          net' = [net EXCEPT ![a] = [n EXCEPT !.up = FALSE]]
    BY DEF Breaks
  <1>2. net[a] \in Connection /\ net \in [Conns -> Connection]
    BY DEF NetTypes
  <1>3. n.c2s \in {net[a].c2s, <<>>} /\ n.s2c \in {net[a].s2c, <<>>} /\ DOMAIN n = {"up", "c2s", "s2c"}
    BY <1>1, <1>2 DEF Connection
  <1>4. net'[x].c2s \in {net[x].c2s, <<>>} /\ net'[x].s2c \in {net[x].s2c, <<>>}
    <2>1. CASE x = a
      BY <1>1, <1>2, <1>3, <2>1
    <2>2. CASE x # a
      BY <1>1, <1>2, <2>2
    <2>3. QED
      BY <2>1, <2>2
  <1>5. QED
    BY <1>4, Streams, OlderPackets DEF Settled

\* What the server does to a connection: it takes a bind that it accepts, or nothing that
\* either end's groups depend on begins.
LEMMA ServerSettled ==
  ASSUME ClientInv, ServerTypes, CountsInv, NEW x \in Conns,
         \/ \E a \in Conns : ServerReceiver(a) \/ ServerReclaims(a)
         \/ \E c \in Calls : ExecutorStep(c)
  PROVE  (Settled(x) /\ Remains(x)) \/ \E h \in Conns : Answered(x, h)
  <1>1. NetTypes /\ net \in [Conns -> Connection] /\ srv \in Server
    BY DEF ClientInv, NetTypes, ServerTypes
  <1>2. srv' = srv => Remains(x)
    BY DEF Remains
  <1>3. ASSUME NEW a \in Conns, Accepts(a) PROVE Settled(x) /\ Remains(x)
    <2>1. net' = net
      BY <1>3 DEF Accepts
    <2>2. srv'.acb[x] = srv.acb[x] \/ srv'.acb[x].st = "CLOSED"
      BY <1>1, <1>3 DEF Accepts, Server, NoAcb
    <2>3. QED
      BY <1>1, <2>1, <2>2, Streams DEF Remains
  <1>4. ASSUME NEW a \in Conns, ServerEnds(a) PROVE Settled(x) /\ Remains(x)
    <2>1. net' = [net EXCEPT ![a] = [@ EXCEPT !.up = FALSE, !.c2s = <<>>]]
      BY <1>4 DEF ServerEnds
    <2>2. net'[x].s2c = net[x].s2c /\ net'[x].c2s \in {net[x].c2s, <<>>}
      BY <1>1, <2>1 DEF Connection
    <2>3. Remains(x)
      BY <1>4, ServerEndsCounts DEF Remains
    <2>4. QED
      BY <1>1, <2>2, <2>3, Streams, OlderPackets DEF Settled
  <1>5. ASSUME NEW a \in Conns, ServerReclaims(a) PROVE Settled(x) /\ Remains(x)
    <2>1. Remains(x)
      BY <1>5, ServerReclaimsCounts
    <2>2. PICK b : net' = net \/ net' = ToClient(net, b, Shutdown)
      BY <1>5 DEF ServerReclaims
    <2>3. Shutdown.type # "ack"
      BY DEF Shutdown, Message
    <2>4. QED
      BY <1>1, <2>1, <2>2, <2>3, Streams, ToClientSettled
  <1>6. ASSUME NEW c \in Calls, Responds(c) PROVE Settled(x) /\ Remains(x)
    <2>1. Remains(x)
      BY <1>6, RespondsCounts DEF Remains
    <2>2. net' = net \/ net' = ToClient(net, ex[c].a, Response(c))
      BY <1>6 DEF Responds
    <2>3. Response(c).type # "ack"
      BY DEF Response, Message
    <2>4. QED
      BY <1>1, <2>1, <2>2, <2>3, Streams, ToClientSettled
  <1>7. ASSUME NEW c \in Calls, ExecutorEnds(c) PROVE Settled(x) /\ Remains(x)
    <2>1. net' = net
      BY <1>7 DEF ExecutorEnds
    <2>2. QED
      BY <1>1, <1>7, <2>1, Streams, ExecutorEndsCounts
  <1>8. ASSUME NEW a \in Conns, ServerTakes(a)
        PROVE  (Settled(x) /\ Remains(x)) \/ \E h \in Conns : Answered(x, h)
    <2> DEFINE p == Head(net[a].c2s)
               n == [net EXCEPT ![a].c2s = Tail(@)]
    <2>1. net[a].c2s # <<>> /\ srv.acb[a].rx = "recv"
      BY <1>8 DEF ServerTakes
    <2>2. n \in [Conns -> Connection] /\ n[x].s2c = net[x].s2c
          /\ n[x].c2s = (IF x = a THEN Tail(net[x].c2s) ELSE net[x].c2s)
      <3>1. n \in [Conns -> Connection]
        BY <1>1, <2>1, TakenType
      <3>2. net[a] \in Connection
        BY <1>1
      <3>3. QED
        BY <1>1, <3>1, <3>2 DEF Connection
    <2>3. Older(n[x].c2s, net[x].c2s, "bind")
      BY <1>1, <2>1, <2>2, Streams, OlderPackets
    <2>4. net' = n => Settled(x)
      BY <1>1, <2>2, <2>3, Streams, OlderPackets DEF Settled
    <2>5. ASSUME NEW q, q.type # "ack", net' = ToClient(n, a, q) PROVE Settled(x)
      <3>1. n[x] \in Connection
        BY <2>2
      <3> HIDE DEF n
      <3>2. net'[x].c2s = n[x].c2s /\ net'[x].s2c \in {n[x].s2c, Append(n[x].s2c, q)}
        BY <2>2, <2>5, <3>1 DEF ToClient, Connection
      <3>3. QED
        BY <1>1, <2>2, <2>3, <2>5, <3>2, Streams, OlderPackets DEF Settled
    <2>6. ASSUME NEW h \in Conns, x # a, srv' = AddTo(srv, a, h), net' = ToClient(n, a, BindAck(h))
          PROVE  Settled(x) /\ Remains(x)
      <3>1. srv'.acb[x] = srv.acb[x]
        BY <1>1, <2>6 DEF AddTo, Server
      <3> HIDE DEF n
      <3>2. net'[x] = n[x]
        BY <2>2, <2>6 DEF ToClient
      <3>3. QED
        BY <1>1, <2>2, <2>3, <3>1, <3>2, Streams, OlderPackets DEF Settled, Remains
    <2>7. CASE p.type = "bind" /\ BindInd(a, p.group)
      <3>1. PICK g : g = p.group
        OBVIOUS
      <3>2. g \in 0..MaxConns
        <4>1. p \in ClientPacket
          BY <1>1, <2>1, TailAt, Streams
        <4>2. QED
          BY <3>1, <4>1 DEF ClientPacket
      <3>3. g # 0 => g \in Conns
        BY <3>2, BindAssumption DEF Conns
      <3>4. CASE \E h \in Conns : /\ g = h \/ (g = 0 /\ h = a)
                                  /\ srv' = AddTo(srv, a, h) /\ net' = ToClient(n, a, BindAck(h))
        <4>1. PICK h \in Conns : /\ g = h \/ (g = 0 /\ h = a)
                                 /\ srv' = AddTo(srv, a, h) /\ net' = ToClient(n, a, BindAck(h))
          BY <3>4
        <4>2. x = a => Answered(x, h)
          BY <2>1, <2>7, <3>1, <4>1 DEF Answered
        <4>3. QED
          BY <2>6, <4>1, <4>2
      <3>5. CASE srv' = srv /\ net' = ToClient(n, a, BindNak)
        <4>1. BindNak.type # "ack"
          BY DEF BindNak, Message
        <4>2. QED
          BY <1>2, <2>5, <3>5, <4>1
      <3>6. \/ \E h \in Conns : /\ g = h \/ (g = 0 /\ h = a)
                                /\ srv' = AddTo(srv, a, h) /\ net' = ToClient(n, a, BindAck(h))
            \/ srv' = srv /\ net' = ToClient(n, a, BindNak)
        <4>1. BindInd(a, g)
          BY <2>7, <3>1
        <4> HIDE DEF p, n
        <4>2. QED
          BY <3>3, <4>1 DEF BindInd, Joins, n
      <3>7. QED
        BY <3>4, <3>5, <3>6
    <2>8. CASE srv.acb[a].st = "OPEN" /\ RequestInd(a, p.call) /\ net' = n
      <3>1. Remains(x)
        <4>1. srv' = [srv EXCEPT !.acb[a] = [srv.acb[a] EXCEPT !.ref = @ + 1, !.users = @ + 1],
                                 !.grp[srv.acb[a].grp].calls = @ + 1]
          BY <2>8 DEF RequestInd
        <4>2. srv.acb[a] \in ServerAcb
          BY <1>1 DEF Server
        <4>3. srv'.acb[x].st = srv.acb[x].st /\ srv'.acb[x].grp = srv.acb[x].grp
          BY <1>1, <4>1, <4>2 DEF Server, ServerAcb
        <4>4. QED
          BY <4>3 DEF Remains
      <3>2. QED
        BY <2>4, <2>8, <3>1
    <2>9. CASE net' = n /\ UNCHANGED srv
      BY <1>2, <2>4, <2>9
    <2>10. QED
      BY <1>8, <2>7, <2>8, <2>9 DEF ServerTakes
  <1>9. QED
    BY <1>3, <1>4, <1>5, <1>6, <1>7, <1>8 DEF ServerReceiver, ExecutorStep

-----------------------------------------------------------------------------
(* The group that both ends have an association in *)

\* An ack that is on its way names the server's group; an association is in no group as long
\* as its bind is on its way, and then in the client's group that was told of that group.
Agreed(a) ==
  /\ cli.acb[a].st \in Grouped =>
       cli.acb[a].grp \in Conns /\ a \in Members(cli.grp[cli.acb[a].grp].list)
  /\ \A i \in DOMAIN net[a].s2c : net[a].s2c[i].type = "ack" =>
       /\ net[a].s2c[i].group \in Conns
       /\ srv.acb[a].st = "OPEN" => srv.acb[a].grp = net[a].s2c[i].group
  /\ (\E i \in DOMAIN net[a].c2s : net[a].c2s[i].type = "bind") =>
       cli.acb[a].st \notin Grouped /\ \A i \in DOMAIN net[a].s2c : net[a].s2c[i].type # "ack"
  /\ cli.acb[a].st \in Grouped /\ srv.acb[a].st = "OPEN" =>
       srv.acb[a].grp = cli.grp[cli.acb[a].grp].remid

AgreedInv == \A a \in Conns : Agreed(a)

\* The head of a stream is in it.
LEMMA HeadAck ==
  ASSUME NetTypes, NEW a \in Conns, Joined(a)
  PROVE  \E i \in DOMAIN net[a].s2c :
           net[a].s2c[i].type = "ack" /\ net[a].s2c[i].group = cli'.grp[cli'.acb[a].grp].remid
  BY Streams, TailAt DEF Joined

LEMMA AgreedKept ==
  ASSUME ClientInv, ClientInv', HandleInv, NEW a \in Conns, Agreed(a),
         Onward, Settled(a), Remains(a)
  PROVE  Agreed(a)'
  <1> DEFINE g == cli.acb[a].grp
             h == cli'.acb[a].grp
  <1>1. NetTypes /\ (Stays(a) \/ Joined(a))
    BY DEF ClientInv, Onward
  <1>2. ASSUME NEW i \in DOMAIN net'[a].s2c, net'[a].s2c[i].type = "ack"
        PROVE  \E j \in DOMAIN net[a].s2c : net[a].s2c[j] = net'[a].s2c[i]
    BY <1>2 DEF Settled, Older
  <1>3. \A i \in DOMAIN net'[a].s2c : net'[a].s2c[i].type = "ack" =>
          /\ net'[a].s2c[i].group \in Conns
          /\ srv'.acb[a].st = "OPEN" => srv'.acb[a].grp = net'[a].s2c[i].group
    BY <1>2 DEF Agreed, Remains
  <1>4. CASE Joined(a)
    <2>1. PICK i \in DOMAIN net[a].s2c :
            net[a].s2c[i].type = "ack" /\ net[a].s2c[i].group = cli'.grp[h].remid
      BY <1>1, <1>4, HeadAck
    <2>2. h \in Conns /\ a \in Members(cli'.grp[h].list)
      BY <1>4 DEF Joined
    <2>3. srv'.acb[a].st = "OPEN" => srv'.acb[a].grp = cli'.grp[h].remid
      BY <2>1 DEF Agreed, Remains
    <2>4. ~\E j \in DOMAIN net'[a].c2s : net'[a].c2s[j].type = "bind"
      BY <2>1 DEF Agreed, Settled, Older
    <2>5. QED
      BY <1>3, <2>2, <2>3, <2>4 DEF Agreed
  <1>5. CASE Stays(a) /\ cli'.acb[a].st \in Grouped
    <2>1. /\ cli.acb[a].st \in Grouped /\ g \in Conns /\ h = g
          /\ a \in Members(cli.grp[g].list) /\ a \in Members(cli'.grp[g].list)
      BY <1>5 DEF Stays, Agreed
    <2>2. cli.grp[g].st = "ACTIVE" /\ cli'.grp[g].st = "ACTIVE"
      <3>1. cli.grp[g].list # <<>> /\ cli'.grp[g].list # <<>>
        BY <2>1 DEF Members
      <3>2. QED
        BY <2>1, <3>1 DEF ClientInv, ClientLists, Lists
    <2>3. ~Joined(g)
      BY <2>1, <2>2 DEF HandleInv, Joined, Young
    <2>4. cli'.grp[g].remid = cli.grp[g].remid
      BY <2>1, <2>2, <2>3 DEF Onward, Stands
    <2>5. srv'.acb[a].st = "OPEN" => srv'.acb[a].grp = cli'.grp[h].remid
      BY <2>1, <2>4 DEF Agreed, Remains
    <2>6. ~\E j \in DOMAIN net'[a].c2s : net'[a].c2s[j].type = "bind"
      BY <2>1 DEF Agreed, Settled, Older
    <2>7. QED
      BY <1>3, <2>1, <2>5, <2>6 DEF Agreed
  <1>6. CASE Stays(a) /\ cli'.acb[a].st \notin Grouped
    <2>1. ASSUME \E i \in DOMAIN net'[a].c2s : net'[a].c2s[i].type = "bind",
                 NEW i \in DOMAIN net'[a].s2c
          PROVE  net'[a].s2c[i].type # "ack"
      <3>1. \E j \in DOMAIN net[a].c2s : net[a].c2s[j].type = "bind"
        BY <2>1 DEF Settled, Older
      <3>2. QED
        BY <1>2, <3>1 DEF Agreed
    <2>2. QED
      BY <1>3, <1>6, <2>1 DEF Agreed
  <1>7. QED
    BY <1>1, <1>4, <1>5, <1>6

\* The connection is new, and the bind is the first that is on it.
LEMMA AgreedCalled ==
  ASSUME ClientInv, NEW a \in Conns, Called(a)
  PROVE  Agreed(a)'
  <1>1. PICK t \in Threads : Connects(t) /\ thr[t].a = a
    BY DEF Called
  <1>2. net'[a].s2c = <<>> /\ cli'.acb[a].st = "INIT_WAIT"
    BY <1>1 DEF Connects, ClientInv, NetTypes, ClientTypes, Client, ClientAcb
  <1>3. QED
    BY <1>2 DEF Agreed, Grouped

\* The bind is off the stream, and the ack is on its way unless the connection is broken.
LEMMA AnsweredStreams ==
  ASSUME NetTypes, NEW a \in Conns, NEW h \in Conns, Answered(a, h)
  PROVE  /\ net[a].c2s \in Seq(ClientPacket) /\ net[a].s2c \in Seq(ServerPacket)
         /\ net[a].c2s # <<>> /\ net'[a].c2s = Tail(net[a].c2s)
         /\ net'[a].s2c = net[a].s2c \/ net'[a].s2c = Append(net[a].s2c, BindAck(h))
  <1> DEFINE q == BindAck(h)
             n == [net EXCEPT ![a].c2s = Tail(@)]
  <1>1. /\ net \in [Conns -> Connection] /\ net[a] \in Connection
        /\ net[a].c2s \in Seq(ClientPacket) /\ net[a].s2c \in Seq(ServerPacket)
        /\ net[a].c2s # <<>> /\ net' = ToClient(n, a, q)
    BY Streams DEF NetTypes, Answered
  <1>2. n \in [Conns -> Connection] /\ n[a].s2c = net[a].s2c /\ n[a].c2s = Tail(net[a].c2s)
    BY <1>1, TakenType DEF Connection
  <1> HIDE DEF n, q
  <1>3. net'[a].c2s = n[a].c2s /\ (net'[a].s2c = n[a].s2c \/ net'[a].s2c = Append(n[a].s2c, q))
    BY <1>1, <1>2 DEF ToClient, Connection
  <1>4. QED
    BY <1>1, <1>2, <1>3 DEF q

LEMMA AgreedAnswered ==
  ASSUME ClientInv, ServerTypes, NEW a \in Conns, BindFirst(a), Agreed(a),
         NEW h \in Conns, Answered(a, h),
         UNCHANGED clientVars
  PROVE  Agreed(a)'
  <1> DEFINE q == BindAck(h)
  <1>1. /\ net[a].c2s \in Seq(ClientPacket) /\ net[a].s2c \in Seq(ServerPacket)
        /\ net[a].c2s # <<>> /\ net'[a].c2s = Tail(net[a].c2s)
        /\ net'[a].s2c = net[a].s2c \/ net'[a].s2c = Append(net[a].s2c, q)
    BY AnsweredStreams DEF ClientInv
  <1>2. cli' = cli
    BY DEF clientVars
  <1>3. cli.acb[a].st \notin Grouped /\ \A i \in DOMAIN net[a].s2c : net[a].s2c[i].type # "ack"
    BY <1>1, TailAt DEF Answered, Agreed
  <1>4. \A i \in DOMAIN net'[a].s2c : net'[a].s2c[i].type = "ack" => net'[a].s2c[i].group = h
    <2>1. q.group = h
      BY DEF BindAck, Message
    <2> HIDE DEF q
    <2>2. CASE net'[a].s2c = Append(net[a].s2c, q)
      <3> DEFINE l == net[a].s2c
                 m == net'[a].s2c
      <3>1. \A i \in DOMAIN l : l[i].type # "ack"
        BY <1>3
      <3>2. l \in Seq(ServerPacket) /\ m = Append(l, q)
        BY <1>1, <2>2
      <3> HIDE DEF l, m
      <3>3. /\ DOMAIN m = DOMAIN l \cup {Len(l) + 1}
            /\ (\A i \in DOMAIN l : m[i] = l[i]) /\ m[Len(l) + 1] = q
        BY <3>2, AppendAt
      <3>4. \A i \in DOMAIN m : m[i].type = "ack" => m[i].group = h
        BY <2>1, <3>1, <3>3
      <3>5. QED
        BY <3>4 DEF m
    <2>3. QED
      BY <1>1, <1>3, <2>2
  <1>5. srv'.acb[a].grp = h
    <2>1. srv \in Server /\ srv.acb[a] \in ServerAcb /\ srv' = AddTo(srv, a, h)
      BY ServerTyped DEF Answered
    <2>2. srv'.acb = [srv.acb EXCEPT ![a] = [srv.acb[a] EXCEPT !.st = "OPEN", !.grp = h]]
      BY <2>1 DEF AddTo, Server
    <2>3. QED
      BY <2>1, <2>2 DEF Server, ServerAcb
  <1>6. ~\E i \in DOMAIN net'[a].c2s : net'[a].c2s[i].type = "bind"
    <2> DEFINE l == net[a].c2s
               m == net'[a].c2s
    <2>1. l \in Seq(ClientPacket) /\ l # <<>> /\ m = Tail(l)
      BY <1>1
    <2>2. \A i \in DOMAIN l : l[i].type = "bind" => i = 1
      BY DEF BindFirst
    <2> HIDE DEF l, m
    <2>3. \A i \in DOMAIN m : i \in Nat /\ i # 0 /\ i + 1 \in DOMAIN l /\ m[i] = l[i + 1]
      BY <2>1, TailAt
    <2>4. ~\E i \in DOMAIN m : m[i].type = "bind"
      BY <2>2, <2>3
    <2>5. QED
      BY <2>4 DEF m
  <1>7. QED
    BY <1>2, <1>3, <1>4, <1>5, <1>6 DEF Agreed

LEMMA AgreedInvNext ==
  AssocInv /\ HandleInv /\ AgreedInv /\ [Next]_vars => AgreedInv'
  <1> SUFFICES ASSUME AssocInv, HandleInv, AgreedInv, [Next]_vars, NEW a \in Conns
               PROVE  Agreed(a)'
    BY DEF AgreedInv
  <1>1. ClientInv /\ ClientInv' /\ Onward /\ ServerTypes /\ CountsInv /\ WireInv /\ NetTypes /\ Agreed(a)
    BY ClientInvNext DEF AssocInv, ClientInv, AgreedInv
  <1>2. ASSUME UNCHANGED serverVars PROVE Remains(a)
    BY <1>2 DEF serverVars, Remains
  <1>3. ASSUME Settled(a), Remains(a) PROVE Agreed(a)'
    BY <1>1, <1>3, AgreedKept
  <1>4. CASE UNCHANGED vars
    <2>1. net' = net /\ UNCHANGED serverVars
      BY <1>4 DEF vars, netVars
    <2>2. QED
      BY <1>1, <1>2, <1>3, <2>1, Streams
  <1>5. CASE \/ \E t \in Threads : (CallerRuns(t) \/ Begin(t) \/ CallerStops(t)) /\ UNCHANGED serverVars
             \/ \E x \in Conns : (ClientReceiver(x) \/ ClientReclaims(x)) /\ UNCHANGED serverVars
    BY <1>1, <1>2, <1>3, <1>5, ClientSettled, AgreedCalled
  <1>6. CASE \/ \E x \in Conns : (ServerReceiver(x) \/ ServerReclaims(x)) /\ UNCHANGED clientVars
             \/ \E c \in Calls : ExecutorStep(c) /\ UNCHANGED clientVars
    BY <1>1, <1>3, <1>6, ServerSettled, AgreedAnswered DEF WireInv
  <1>7. CASE \E x \in Conns : Breaks(x)
    <2>1. UNCHANGED serverVars /\ Settled(a)
      BY <1>1, <1>7, BreaksSettled DEF Breaks
    <2>2. QED
      BY <1>2, <1>3, <2>1
  <1>8. QED
    BY <1>4, <1>5, <1>6, <1>7 DEF Next, Runs

LEMMA AgreedInvInit == Init => AgreedInv
  <1> SUFFICES ASSUME Init, NEW a \in Conns PROVE Agreed(a)
    BY DEF AgreedInv
  <1>1. cli.acb[a].st = "CLOSED" /\ net[a].s2c = <<>>
    BY DEF Init, ClientInit, NetInit, NewAcb
  <1>2. QED
    BY <1>1 DEF Agreed, Grouped

-----------------------------------------------------------------------------
(* The creator of a group *)

Opening(t) == thr[t].pc \in {"connect", "bindwait"}

\* The bind of a caller that waits for its ack names the group that it wants, and so does
\* the ack; a new group has the name of the caller's association.
Asked(t) ==
  LET a == thr[t].a
      g == thr[t].grp
  IN  /\ \A i \in DOMAIN net[a].c2s : net[a].c2s[i].type = "bind" => net[a].c2s[i].group = g
      /\ \A i \in DOMAIN net[a].s2c :
           net[a].s2c[i].type = "ack" => net[a].s2c[i].group = IF g = 0 THEN a ELSE g

\* A caller has the flag while it opens the first association of a group, and then no other
\* group is founded; who joins an old group names one whose founder had its ack.
Creator(t) ==
  /\ thr[t].hold => thr[t].pc \notin Unheld
  /\ Opening(t) => /\ thr[t].hold <=> thr[t].grp = 0
                   /\ thr[t].hold => creating
                   /\ thr[t].grp # 0 => thr[t].grp \in Conns /\ ~Young(cli.acb[thr[t].grp])
                   /\ thr[t].grp = 0 => Founded \subseteq {thr[t].a}
  /\ thr[t].pc = "bindwait" => Asked(t)

Creation ==
  /\ \A t \in Threads : Creator(t)
  /\ \A t, u \in Threads : Opening(t) /\ Opening(u) /\ thr[t].hold /\ thr[u].hold => t = u
  /\ \A g \in Active(cli) : cli.grp[g].remid \in Conns /\ ~Young(cli.acb[cli.grp[g].remid])
  /\ \A g, h \in Founded : g = h
  /\ \A a \in Conns :
       cli.acb[a].st = "INIT_WAIT" => \E t \in Threads : thr[t].a = a /\ thr[t].pc = "bindwait"

\* Without retries and without cancels, the flag does what it is for.
CreateInv == abandons \in Nat /\ (Patient = {} /\ abandons = 0 => Creation)

\* A group that is active after a step is one that was, or its founder has its ack.
LEMMA FoundedStep ==
  ASSUME ClientInv, Creation, Onward, NEW g \in Conns, cli'.grp[g].st = "ACTIVE"
  PROVE  /\ cli'.grp[g].remid \in Conns /\ ~Young(cli'.acb[cli'.grp[g].remid])
         /\ cli'.grp[g].remid = g =>
              g \in Founded \/ \E t \in Threads : Opening(t) /\ thr[t].hold /\ thr[t].a = g
  <1> DEFINE r == cli'.grp[g].remid
  <1>1. \A x \in Conns : ~Young(cli.acb[x]) => ~Young(cli'.acb[x])
    BY DEF Onward, Ages
  <1>2. CASE Stands(g)
    <2>1. g \in Active(cli) /\ r = cli.grp[g].remid
      BY <1>2 DEF Stands, Active
    <2>2. r \in Conns /\ ~Young(cli.acb[r])
      BY <2>1 DEF Creation
    <2>3. QED
      BY <1>1, <2>1, <2>2 DEF Founded
  <1>3. CASE Joined(g) /\ cli'.acb[g].grp = g
    <2>1. cli.acb[g].st = "INIT_WAIT" /\ ~Young(cli'.acb[g]) /\ Young(cli.acb[g])
      BY <1>3 DEF Joined, Young
    <2>2. PICK t \in Threads : thr[t].a = g /\ thr[t].pc = "bindwait"
      BY <2>1 DEF Creation
    <2>3. PICK i \in DOMAIN net[g].s2c : net[g].s2c[i].type = "ack" /\ net[g].s2c[i].group = r
      BY <1>3, HeadAck DEF ClientInv
    <2>4. Creator(t) /\ Opening(t)
      BY <2>2 DEF Creation, Opening
    <2>5. r = IF thr[t].grp = 0 THEN g ELSE thr[t].grp
      BY <2>2, <2>3, <2>4 DEF Creator, Asked
    <2>6. CASE thr[t].grp = 0
      BY <2>1, <2>2, <2>4, <2>5, <2>6 DEF Creator
    <2>7. CASE thr[t].grp # 0
      <3>1. r \in Conns /\ ~Young(cli.acb[r])
        BY <2>4, <2>5, <2>7 DEF Creator
      <3>2. QED
        BY <1>1, <2>1, <3>1
    <2>8. QED
      BY <2>6, <2>7
  <1>4. QED
    BY <1>2, <1>3 DEF Onward

\* One group is founded at a time, by the one that opens it.
LEMMA FoundedOnce ==
  ASSUME ClientInv, Creation, Onward
  PROVE  /\ \A g \in Active(cli)' : cli'.grp[g].remid \in Conns /\ ~Young(cli'.acb[cli'.grp[g].remid])
         /\ \A g, h \in Founded' : g = h
         /\ \A t \in Threads : Opening(t) /\ thr[t].grp = 0 => Founded' \subseteq {thr[t].a}
  <1>1. \A g \in Active(cli)' : cli'.grp[g].remid \in Conns /\ ~Young(cli'.acb[cli'.grp[g].remid])
    BY FoundedStep DEF Active
  <1>2. ASSUME NEW g \in Founded'
        PROVE  g \in Founded \/ \E t \in Threads : Opening(t) /\ thr[t].hold /\ thr[t].a = g
    BY <1>2, FoundedStep DEF Founded, Active
  <1>3. ASSUME NEW t \in Threads, Opening(t), thr[t].grp = 0, NEW g \in Founded'
        PROVE  g = thr[t].a
    <2>1. thr[t].hold /\ Founded \subseteq {thr[t].a}
      BY <1>3 DEF Creation, Creator
    <2>2. QED
      BY <1>2, <1>3, <2>1 DEF Creation
  <1>4. ASSUME NEW g \in Founded', NEW h \in Founded' PROVE g = h
    <2>1. CASE g \in Founded /\ h \in Founded
      BY <2>1 DEF Creation
    <2>2. CASE \E t \in Threads : Opening(t) /\ thr[t].hold
      <3>1. PICK t \in Threads : Opening(t) /\ thr[t].hold
        BY <2>2
      <3>2. thr[t].grp = 0
        BY <3>1 DEF Creation, Creator
      <3>3. QED
        BY <1>3, <1>4, <3>1, <3>2
    <2>3. QED
      BY <1>2, <2>1, <2>2
  <1>5. QED
    BY <1>1, <1>3, <1>4

\* The caller goes on as it was, or leaves the opening of an association, which has its ack
\* or has failed.
Proceeds(t) ==
  \/ thr'[t] = thr[t]
  \/ /\ ~Opening(t)' /\ ~(thr'[t].hold /\ thr'[t].pc \in Unheld)
     /\ thr[t].pc = "bindwait" => cli.acb[thr[t].a].st # "INIT_WAIT"

LEMMA CreationKept ==
  ASSUME ClientInv, ClientInv', Creation, Onward,
         \A t \in Threads : Proceeds(t), \A x \in Conns : Settled(x) \/ Called(x),
         \/ creating' = creating
         \/ \E t \in Threads : StopCreating(t) /\ Opening(t) /\ ~Opening(t)'
  PROVE  Creation'
  <1>1. ASSUME NEW t \in Threads, Connects(t) PROVE FALSE
    <2>1. thr[t] \in Caller /\ thr[t].pc = "connect" /\ thr' = [thr EXCEPT ![t].pc = "bindwait"]
      BY <1>1 DEF ClientInv, ClientTypes, Connects
    <2>2. thr'[t].pc = "bindwait"
      BY <2>1 DEF ClientInv, ClientTypes, Caller
    <2>3. thr'[t] = thr[t] \/ ~Opening(t)'
      BY DEF Proceeds
    <2>4. QED
      BY <2>1, <2>2, <2>3 DEF Opening
  <1>2. /\ \A g \in Active(cli)' : cli'.grp[g].remid \in Conns /\ ~Young(cli'.acb[cli'.grp[g].remid])
        /\ \A g, h \in Founded' : g = h
        /\ \A t \in Threads : Opening(t) /\ thr[t].grp = 0 => Founded' \subseteq {thr[t].a}
    BY FoundedOnce
  <1>3. \A t \in Threads : Opening(t)' => thr'[t] = thr[t] /\ Opening(t)
    BY DEF Proceeds, Opening
  <1>4. \A t, u \in Threads : Opening(t)' /\ Opening(u)' /\ thr'[t].hold /\ thr'[u].hold => t = u
    BY <1>3 DEF Creation
  <1>5. ASSUME NEW a \in Conns, cli'.acb[a].st = "INIT_WAIT"
        PROVE  \E t \in Threads : thr'[t].a = a /\ thr'[t].pc = "bindwait"
    <2>1. cli.acb[a].st = "INIT_WAIT"
      BY <1>1, <1>5 DEF Onward, Ages, Called
    <2>2. PICK t \in Threads : thr[t].a = a /\ thr[t].pc = "bindwait"
      BY <2>1 DEF Creation
    <2>3. thr'[t] = thr[t]
      BY <2>1, <2>2 DEF Proceeds
    <2>4. QED
      BY <2>2, <2>3
  <1>6. ASSUME NEW t \in Threads PROVE Creator(t)'
    <2>1. Creator(t) /\ Proceeds(t)
      BY DEF Creation
    <2>2. CASE thr'[t] = thr[t] /\ Opening(t)
      <3>1. thr[t].hold => creating'
        <4>1. ASSUME thr[t].hold, NEW u \in Threads, StopCreating(u), Opening(u), ~Opening(u)'
              PROVE  ~thr[u].hold
          BY <1>3, <2>2, <4>1 DEF Creation, Opening
        <4>2. QED
          BY <2>1, <2>2, <4>1 DEF Creator, StopCreating
      <3>2. thr[t].grp # 0 => thr[t].grp \in Conns /\ ~Young(cli'.acb[thr[t].grp])
        BY <2>1, <2>2 DEF Creator, Onward, Ages
      <3>3. ASSUME thr[t].pc = "bindwait" PROVE Asked(t)'
        <4>1. thr[t].a \in Conns
          BY <3>3 DEF ClientInv, ClientTypes, CallerInv, Caller, Unheld, Conns
        <4>2. Settled(thr[t].a) /\ Asked(t)
          BY <1>1, <2>1, <3>3, <4>1 DEF Creator, Called
        <4>3. QED
          BY <2>2, <4>2 DEF Settled, Older, Asked
      <3>4. QED
        BY <1>2, <2>1, <2>2, <3>1, <3>2, <3>3 DEF Creator, Opening
    <2>3. CASE ~Opening(t)'
      BY <2>1, <2>3 DEF Creator, Proceeds, Opening
    <2>4. QED
      BY <1>3, <2>1, <2>2, <2>3
  <1>7. QED
    BY <1>2, <1>4, <1>5, <1>6 DEF Creation

\* The server acks the bind of a caller with the group that it named, or with a new one.
LEMMA CreationAnswered ==
  ASSUME ClientInv, Creation, UNCHANGED clientVars,
         \A x \in Conns : Settled(x) \/ \E h \in Conns : Answered(x, h)
  PROVE  Creation'
  <1>1. cli' = cli /\ thr' = thr /\ creating' = creating
    BY DEF clientVars
  <1>2. ASSUME NEW t \in Threads, thr[t].pc = "bindwait" PROVE Asked(t)'
    <2> DEFINE a == thr[t].a
               g == thr[t].grp
    <2>1. a \in Conns /\ Asked(t)
      BY <1>2, Holder DEF Unheld, Creation, Creator
    <2>2. CASE Settled(a)
      BY <1>1, <2>1, <2>2 DEF Settled, Older, Asked
    <2>3. ASSUME NEW h \in Conns, Answered(a, h) PROVE Asked(t)'
      <3> DEFINE l == net[a].c2s
                 m == net[a].s2c
                 n == net'[a].s2c
                 q == BindAck(h)
      <3>1. /\ l \in Seq(ClientPacket) /\ l # <<>> /\ net'[a].c2s = Tail(l)
            /\ m \in Seq(ServerPacket) /\ (n = m \/ n = Append(m, q))
        BY <2>1, <2>3, AnsweredStreams DEF ClientInv
      <3>2. /\ Head(l).type = "bind" /\ (Head(l).group = h \/ (Head(l).group = 0 /\ h = a))
            /\ \A i \in DOMAIN l : l[i].type = "bind" => l[i].group = g
            /\ \A i \in DOMAIN m : m[i].type = "ack" => m[i].group = IF g = 0 THEN a ELSE g
            /\ q.group = h
        BY <2>1, <2>3 DEF Answered, Asked, BindAck, Message
      <3> HIDE DEF a, g, l, m, n, q
      <3>3. h = IF g = 0 THEN a ELSE g
        <4>1. 1 \in DOMAIN l /\ Head(l) = l[1]
          BY <3>1, TailAt
        <4>2. h # 0
          BY DEF Conns
        <4>3. QED
          BY <3>2, <4>1, <4>2
      <3>4. \A i \in DOMAIN Tail(l) : Tail(l)[i].type = "bind" => Tail(l)[i].group = g
        <4>1. \A i \in DOMAIN Tail(l) : i + 1 \in DOMAIN l /\ Tail(l)[i] = l[i + 1]
          BY <3>1, TailAt
        <4>2. QED
          BY <3>2, <4>1
      <3>5. \A i \in DOMAIN n : n[i].type = "ack" => n[i].group = h
        <4>1. CASE n = m
          BY <3>2, <3>3, <4>1
        <4>2. CASE n = Append(m, q)
          <5>1. /\ DOMAIN n = DOMAIN m \cup {Len(m) + 1}
                /\ (\A i \in DOMAIN m : n[i] = m[i]) /\ n[Len(m) + 1] = q
            BY <3>1, <4>2, AppendAt
          <5>2. QED
            BY <3>2, <3>3, <5>1
        <4>3. QED
          BY <3>1, <4>1, <4>2
      <3>6. QED
        BY <1>1, <3>1, <3>3, <3>4, <3>5 DEF Asked, n, a, g
    <2>4. QED
      BY <2>1, <2>2, <2>3
  <1>3. ASSUME NEW t \in Threads PROVE Creator(t)'
    <2>1. Creator(t)
      BY DEF Creation
    <2>2. QED
      BY <1>1, <1>2, <2>1 DEF Creator, Opening, Founded, Active
  <1>4. QED
    BY <1>1, <1>3 DEF Creation, Opening, Founded, Active

\* A caller moves that does not open an association, or does so no more.
LEMMA MovesOn ==
  ASSUME ClientInv, NEW t \in Threads, NEW r, Moves(t, r),
         r.pc \notin {"connect", "bindwait"}, r.hold => r.pc \notin Unheld,
         thr[t].pc = "bindwait" => cli.acb[thr[t].a].st # "INIT_WAIT"
  PROVE  \A u \in Threads : Proceeds(u)
  <1>1. thr'[t] = r /\ \A u \in Threads : u # t => thr'[u] = thr[u]
    BY DEF ClientInv, ClientTypes, Moves
  <1>2. QED
    BY <1>1 DEF Proceeds, Opening

\* Without retries and without cancels, a caller that has the flag clears it when it leaves
\* the opening of its association, and nobody else does.
LEMMA ClientProceeds ==
  ASSUME ClientInv, Creation, Patient = {}, abandons \in Nat, abandons' = 0,
         \/ \E t \in Threads : \/ Reuse(t) \/ WaitForCreator(t) \/ Bound(t) \/ BindFails(t)
                               \/ Slept(t) \/ SendsRequest(t) \/ Maintains(t) \/ CallEnds(t)
                               \/ CallBreaks(t) \/ Begin(t) \/ CallerStops(t)
         \/ \E a \in Conns : ClientReceiver(a) \/ ClientReclaims(a)
  PROVE  /\ \A t \in Threads : Proceeds(t)
         /\ \/ creating' = creating
            \/ \E t \in Threads : StopCreating(t) /\ Opening(t) /\ ~Opening(t)'
  <1> DEFINE Freed == \/ creating' = creating
                      \/ \E t \in Threads : StopCreating(t) /\ Opening(t) /\ ~Opening(t)'
  <1>1. thr \in [Threads -> Caller] /\ \A t \in Threads : thr[t] \in Caller /\ Creator(t)
    BY DEF ClientInv, ClientTypes, Creation
  <1>2. IdleThread.pc = "idle" /\ ~IdleThread.hold
    BY DEF IdleThread
  <1>3. ASSUME NEW t \in Threads, Abandons(t) PROVE FALSE
    BY <1>3 DEF Abandons
  <1>4. ASSUME NEW t \in Threads, thr[t].pc \in {"connect", "bindwait"}, NEW c,
               NEW retry \in BOOLEAN, OpenFails(t, c, retry),
               thr[t].pc = "bindwait" => ~cli.acb[thr[t].a].ok
        PROVE  (\A u \in Threads : Proceeds(u)) /\ Freed
    <2>1. Moves(t, IdleThread) /\ StopCreating(t)
      BY <1>4 DEF OpenFails, Moves
    <2>2. thr[t].pc = "bindwait" => cli.acb[thr[t].a].st # "INIT_WAIT"
      BY <1>4, Holder DEF Unheld, AcbOK
    <2>3. \A u \in Threads : Proceeds(u)
      BY <1>2, <2>1, <2>2, MovesOn
    <2>4. thr'[t] = IdleThread
      BY <1>1, <2>1 DEF Moves
    <2>5. QED
      BY <1>2, <1>4, <2>1, <2>3, <2>4 DEF Opening
  <1>5. ASSUME NEW t \in Threads, BindSendFails(t) \/ ConnectFails(t) \/ BindFails(t)
        PROVE  (\A u \in Threads : Proceeds(u)) /\ Freed
    BY <1>4, <1>5 DEF BindSendFails, ConnectFails, BindFails
  <1>6. ASSUME NEW t \in Threads, CallerStops(t)
        PROVE  (\A u \in Threads : Proceeds(u)) /\ Freed
    BY <1>3, <1>5, <1>6 DEF CallerStops, ConnectAbandoned, BindAbandoned, WaitAbandoned, CallAbandoned
  <1>7. ASSUME NEW t \in Threads, Bound(t)
        PROVE  (\A u \in Threads : Proceeds(u)) /\ Freed
    <2> DEFINE r == [thr[t] EXCEPT !.pc = "call", !.grp = cli.acb[thr[t].a].grp]
    <2>1. Moves(t, r) /\ StopCreating(t) /\ thr[t].pc = "bindwait"
          /\ cli.acb[thr[t].a].ok /\ cli.acb[thr[t].a].syn
      BY <1>7 DEF Bound, Moves
    <2>2. r.pc = "call"
      BY <1>1 DEF Caller
    <2>3. cli.acb[thr[t].a].st = "OPEN"
      BY <2>1, Holder DEF Unheld, CallerOK
    <2>4. thr'[t] = r
      BY <1>1, <2>1 DEF Moves
    <2> HIDE DEF r
    <2>5. \A u \in Threads : Proceeds(u)
      BY <2>1, <2>2, <2>3, MovesOn DEF Unheld
    <2>6. QED
      BY <2>1, <2>2, <2>4, <2>5 DEF Opening
  <1>8. ASSUME NEW t \in Threads, CallEnds(t) \/ CallBreaks(t)
        PROVE  (\A u \in Threads : Proceeds(u)) /\ Freed
    <2>1. Moves(t, IdleThread) /\ creating' = creating /\ thr[t].pc # "bindwait"
      BY <1>8 DEF CallEnds, CallBreaks, Leave, Moves
    <2>2. QED
      BY <1>2, <2>1, MovesOn
  <1>9. ASSUME NEW t \in Threads, SendsRequest(t) \/ Maintains(t)
        PROVE  (\A u \in Threads : Proceeds(u)) /\ Freed
    <2>1. PICK pc \in {"wait", "done"} : thr' = [thr EXCEPT ![t].pc = pc]
      BY <1>9 DEF SendsRequest, Maintains
    <2>2. creating' = creating /\ thr[t].pc # "bindwait"
      BY <1>9 DEF SendsRequest, Maintains
    <2> DEFINE r == [thr[t] EXCEPT !.pc = pc]
    <2>3. Moves(t, r) /\ r.pc = pc
      BY <1>1, <2>1 DEF Moves, Caller
    <2> HIDE DEF r
    <2>4. QED
      BY <2>1, <2>2, <2>3, MovesOn DEF Unheld
  <1>10. ASSUME NEW t \in Threads, WaitForCreator(t) \/ Slept(t)
         PROVE  (\A u \in Threads : Proceeds(u)) /\ Freed
    <2>1. PICK pc \in {"grpwait", "request"} : thr' = [thr EXCEPT ![t].pc = pc]
      BY <1>10 DEF WaitForCreator, Slept
    <2>2. creating' = creating /\ thr[t].pc \in Unheld
      BY <1>10 DEF WaitForCreator, Slept, Unheld
    <2>3. ~thr[t].hold /\ thr[t].pc # "bindwait"
      BY <1>1, <2>2 DEF Creator, Unheld
    <2> DEFINE r == [thr[t] EXCEPT !.pc = pc]
    <2>4. Moves(t, r) /\ r.pc = pc /\ ~r.hold
      BY <1>1, <2>1, <2>3 DEF Moves, Caller
    <2> HIDE DEF r
    <2>5. QED
      BY <2>1, <2>2, <2>3, <2>4, MovesOn
  <1>11. ASSUME NEW t \in Threads, Begin(t)
         PROVE  (\A u \in Threads : Proceeds(u)) /\ Freed
    <2> DEFINE r == [IdleThread EXCEPT !.pc = "request", !.call = calls + 1]
    <2>1. Moves(t, r) /\ creating' = creating /\ thr[t].pc = "idle"
      BY <1>11 DEF Begin, Moves
    <2>2. r.pc = "request" /\ ~r.hold
      BY DEF IdleThread
    <2> HIDE DEF r
    <2>3. QED
      BY <2>1, <2>2, MovesOn
  <1>12. ASSUME NEW t \in Threads, Reuse(t)
         PROVE  (\A u \in Threads : Proceeds(u)) /\ Freed
    <2>1. PICK g \in Active(cli) : \E i \in Free(g) :
            thr' = [thr EXCEPT ![t] = [@ EXCEPT !.pc = "call", !.a = cli.grp[g].list[i], !.grp = g]]
      BY <1>12 DEF Reuse
    <2>2. PICK i \in Free(g) :
            thr' = [thr EXCEPT ![t] = [@ EXCEPT !.pc = "call", !.a = cli.grp[g].list[i], !.grp = g]]
      BY <2>1
    <2> DEFINE r == [thr[t] EXCEPT !.pc = "call", !.a = cli.grp[g].list[i], !.grp = g]
    <2>3. Moves(t, r) /\ creating' = creating /\ thr[t].pc # "bindwait"
      BY <1>12, <2>2 DEF Reuse, AtRequest, Moves
    <2>4. r.pc = "call"
      BY <1>1 DEF Caller
    <2> HIDE DEF r
    <2>5. QED
      BY <2>3, <2>4, MovesOn DEF Unheld
  <1>13. ASSUME NEW a \in Conns, ClientReceiver(a) \/ ClientReclaims(a)
         PROVE  (\A u \in Threads : Proceeds(u)) /\ Freed
    <2>1. creating' = creating
      BY <1>13 DEF ClientReceiver, ReceiverStarts, ReceiverTakes, ReceiverEnds, ClientReclaims
    <2>2. CASE ReceiverTakes(a)
      <3>1. \A u \in Threads : \/ thr'[u] = thr[u]
                               \/ thr[u].pc = "wait" /\ thr'[u] = [thr[u] EXCEPT !.pc = "reply"]
        BY <2>2 DEF ReceiverTakes
      <3>2. \A u \in Threads : thr'[u] = thr[u] \/ (thr[u].pc = "wait" /\ thr'[u].pc = "reply")
        BY <1>1, <3>1 DEF Caller
      <3>3. QED
        BY <2>1, <3>2 DEF Proceeds, Opening, Unheld
    <2>3. CASE ~ReceiverTakes(a)
      <3>1. thr' = thr
        BY <1>13, <2>3 DEF ClientReceiver, ReceiverStarts, ReceiverEnds, ClientReclaims
      <3>2. QED
        BY <2>1, <3>1 DEF Proceeds
    <2>4. QED
      BY <2>2, <2>3
  <1>14. QED
    BY <1>5, <1>6, <1>7, <1>8, <1>9, <1>10, <1>11, <1>12, <1>13

\* A caller begins to open an association, or sends the bind; the groups stay as they are.
LEMMA CreationMoved ==
  ASSUME ClientInv, Creation, Onward, NEW t \in Threads, thr[t].pc # "bindwait",
         \A u \in Threads : u # t => thr'[u] = thr[u],
         cli'.grp = cli.grp, creating => creating', Creator(t)',
         \A u \in Threads : u # t /\ thr[u].a # 0 => net'[thr[u].a] = net[thr[u].a],
         \A u \in Threads : u # t /\ thr'[t].hold => ~(Opening(u) /\ thr[u].hold),
         \A x \in Conns : cli'.acb[x].st = "INIT_WAIT" =>
           cli.acb[x].st = "INIT_WAIT" \/ (thr'[t].a = x /\ thr'[t].pc = "bindwait")
  PROVE  Creation'
  <1>1. Active(cli)' = Active(cli) /\ Founded' = Founded
    BY DEF Active, Founded
  <1>2. \A x \in Conns : ~Young(cli.acb[x]) => ~Young(cli'.acb[x])
    BY DEF Onward, Ages
  <1>3. \A g \in Active(cli)' : cli'.grp[g].remid \in Conns /\ ~Young(cli'.acb[cli'.grp[g].remid])
    BY <1>1, <1>2 DEF Creation
  <1>4. ASSUME NEW u \in Threads, u # t PROVE Creator(u)'
    <2>1. Creator(u) /\ thr'[u] = thr[u]
      BY <1>4 DEF Creation
    <2>2. thr[u].pc = "bindwait" => net'[thr[u].a] = net[thr[u].a]
      BY <1>4, Holder DEF Unheld
    <2>3. thr[u].pc = "bindwait" => Asked(u)'
      BY <2>1, <2>2 DEF Creator, Asked
    <2>4. QED
      BY <1>1, <1>2, <2>1, <2>3 DEF Creator, Opening
  <1>5. \A u, v \in Threads : Opening(u)' /\ Opening(v)' /\ thr'[u].hold /\ thr'[v].hold => u = v
    BY DEF Creation, Opening
  <1>6. ASSUME NEW x \in Conns, cli'.acb[x].st = "INIT_WAIT"
        PROVE  \E u \in Threads : thr'[u].a = x /\ thr'[u].pc = "bindwait"
    <2>1. CASE cli.acb[x].st = "INIT_WAIT"
      <3>1. PICK u \in Threads : thr[u].a = x /\ thr[u].pc = "bindwait"
        BY <2>1 DEF Creation
      <3>2. QED
        BY <3>1
    <2>2. QED
      BY <1>6, <2>1
  <1>7. QED
    BY <1>1, <1>3, <1>4, <1>5, <1>6 DEF Creation

\* Whoever opens the first association of a group is alone with that, and no group is there
\* that the server has made for this client.
LEMMA CreationOpens ==
  ASSUME ClientInv, Creation, NEW t \in Threads, OpenFirst(t) \/ OpenSecond(t)
  PROVE  Creation'
  <1>1. ClientInv' /\ Onward
    BY OpensKeep
  <1>2. thr[t] \in Caller /\ thr[t].pc \in Unheld /\ ~thr[t].hold /\ thr[t].pc # "bindwait"
    <2>1. thr[t].pc \in Unheld
      BY DEF OpenFirst, OpenSecond, AtRequest, Unheld
    <2>2. QED
      BY <2>1 DEF ClientInv, ClientTypes, Creation, Creator, Unheld
  <1>3. PICK hold \in BOOLEAN, remid \in 0..MaxConns :
          /\ Connecting(t, hold, remid)
          /\ IF hold THEN OpenFirst(t) /\ remid = 0
             ELSE creating' = creating /\ \E g \in Active(cli) : remid = cli.grp[g].remid
    <2>1. 0 \in 0..MaxConns
      BY BindAssumption
    <2>2. \A g \in Active(cli) : cli.grp[g].remid \in 0..MaxConns
      BY DEF Active, ClientInv, ClientTypes, Client, ClientGroup
    <2>3. QED
      BY <2>1, <2>2 DEF OpenFirst, OpenSecond
  <1>4. PICK a \in Unused :
          /\ cli' = Opened(cli, a, t)
          /\ thr' = [thr EXCEPT ![t] = [thr[t] EXCEPT !.pc = "connect", !.a = a,
                                                      !.grp = remid, !.hold = @ \/ hold]]
    BY <1>3 DEF Connecting
  <1>5. /\ thr'[t].pc = "connect" /\ thr'[t].a = a /\ thr'[t].grp = remid
        /\ thr'[t].hold = hold
        /\ \A u \in Threads : u # t => thr'[u] = thr[u]
    <2>1. thr \in [Threads -> Caller]
      BY DEF ClientInv, ClientTypes
    <2>2. thr'[t] = [thr[t] EXCEPT !.pc = "connect", !.a = a, !.grp = remid, !.hold = @ \/ hold]
          /\ \A u \in Threads : u # t => thr'[u] = thr[u]
      BY <1>4, <2>1
    <2>3. QED
      BY <1>2, <2>2 DEF Caller
  <1>6. /\ cli'.grp = cli.grp
        /\ \A x \in Conns : cli'.acb[x].st = "INIT_WAIT" => cli.acb[x].st = "INIT_WAIT"
    <2>1. cli \in Client /\ a \in Conns
      BY DEF ClientInv, ClientTypes, Unused
    <2>2. /\ cli'.grp = cli.grp
          /\ cli'.acb = [cli.acb EXCEPT ![a] = [NewAcb EXCEPT !.life = "live", !.cn = "CONNECTING",
                                                !.ref = 1, !.users = 1, !.owner = {t}]]
      BY <1>4, <2>1 DEF Opened, Client
    <2>3. cli'.acb[a].st = "CLOSED" /\ \A x \in Conns : x # a => cli'.acb[x] = cli.acb[x]
      BY <2>1, <2>2 DEF Client, NewAcb
    <2>4. QED
      BY <2>2, <2>3
  <1>7. net' = net /\ (creating => creating')
    BY <1>3 DEF Connecting, OpenFirst
  <1>8. CASE hold
    <2>1. Active(cli) = {} /\ ~creating /\ creating' = TRUE /\ remid = 0
      BY <1>3, <1>8 DEF OpenFirst, MayCreate
    <2>2. Founded' = {}
      BY <1>6, <2>1 DEF Founded, Active
    <2>3. Creator(t)'
      BY <1>5, <1>8, <2>1, <2>2 DEF Creator, Opening, Unheld
    <2>4. \A u \in Threads : ~(Opening(u) /\ thr[u].hold)
      BY <2>1 DEF Creation, Creator
    <2>5. QED
      BY <1>1, <1>2, <1>5, <1>6, <1>7, <2>3, <2>4, CreationMoved
  <1>9. CASE ~hold
    <2>1. PICK g \in Active(cli) : remid = cli.grp[g].remid
      BY <1>3, <1>9
    <2>2. remid \in Conns /\ remid # 0 /\ ~Young(cli.acb[remid])
      BY <2>1 DEF Creation, Conns
    <2>3. ~Young(cli'.acb[remid])
      BY <1>1, <2>2 DEF Onward, Ages
    <2>4. Creator(t)'
      BY <1>5, <1>9, <2>2, <2>3 DEF Creator, Opening
    <2>5. QED
      BY <1>1, <1>2, <1>5, <1>6, <1>7, <1>9, <2>4, CreationMoved
  <1>10. QED
    BY <1>8, <1>9

\* The bind that is sent names the group that its caller wants.
LEMMA CreationConnects ==
  ASSUME ClientInv, Creation, NEW t \in Threads, Connects(t)
  PROVE  Creation'
  <1> DEFINE a == thr[t].a
             g == thr[t].grp
  <1>1. ClientInv' /\ Onward
    BY ConnectsKeeps
  <1>2. /\ thr[t] \in Caller /\ a \in Conns /\ thr[t].pc = "connect" /\ Creator(t)
        /\ \A u \in Threads : thr[u].a = a => u = t
    BY Holder DEF Connects, Unheld, Creation
  <1>3. /\ thr'[t].pc = "bindwait" /\ thr'[t].a = a /\ thr'[t].grp = g /\ thr'[t].hold = thr[t].hold
        /\ \A u \in Threads : u # t => thr'[u] = thr[u]
    <2>1. thr \in [Threads -> Caller] /\ thr' = [thr EXCEPT ![t].pc = "bindwait"]
      BY DEF ClientInv, ClientTypes, Connects
    <2>2. QED
      BY <1>2, <2>1 DEF Caller
  <1>4. /\ net'[a].c2s = <<Bind(g)>> /\ net'[a].s2c = <<>>
        /\ \A x \in Conns : x # a => net'[x] = net[x]
    BY <1>2 DEF Connects, ClientInv, NetTypes
  <1>5. cli'.grp = cli.grp /\ \A x \in Conns : x # a => cli'.acb[x] = cli.acb[x]
    <2>1. cli' = [cli EXCEPT !.acb[a].cn = "OPEN", !.acb[a].st = "INIT_WAIT"] /\ cli \in Client
      BY DEF Connects, ClientInv, ClientTypes
    <2>2. QED
      BY <2>1 DEF Client
  <1>6. Asked(t)'
    <2>1. Bind(g).group = g
      BY DEF Bind, Message
    <2>2. QED
      BY <1>3, <1>4, <2>1 DEF Asked
  <1>7. creating' = creating /\ Founded' = Founded
    BY <1>5 DEF Connects, Founded, Active
  <1>8. Creator(t)'
    <2>1. g # 0 => g \in Conns /\ ~Young(cli'.acb[g])
      BY <1>1, <1>2 DEF Creator, Opening, Onward, Ages
    <2>2. QED
      BY <1>2, <1>3, <1>6, <1>7, <2>1 DEF Creator, Opening, Unheld
  <1>9. \A u \in Threads : u # t /\ thr'[t].hold => ~(Opening(u) /\ thr[u].hold)
    BY <1>2, <1>3 DEF Creation, Opening
  <1>10. \A u \in Threads : u # t /\ thr[u].a # 0 => net'[thr[u].a] = net[thr[u].a]
    <2>1. ASSUME NEW u \in Threads, u # t, thr[u].a # 0 PROVE thr[u].a \in Conns /\ thr[u].a # a
      BY <1>2, <2>1 DEF ClientInv, ClientTypes, Caller, Conns
    <2>2. QED
      BY <1>4, <2>1
  <1>11. QED
    BY <1>1, <1>2, <1>3, <1>5, <1>7, <1>8, <1>9, <1>10, CreationMoved

LEMMA CreateInvInit == Init => CreateInv
  <1> SUFFICES ASSUME Init PROVE CreateInv
    OBVIOUS
  <1>1. /\ \A t \in Threads : thr[t].pc = "idle" /\ ~thr[t].hold
        /\ \A a \in Conns : cli.acb[a].st = "CLOSED" /\ cli.grp[a].st = "CLOSED"
        /\ abandons = 0
    BY DEF Init, ClientInit, IdleThread, NewAcb, NoGroup
  <1>2. Active(cli) = {} /\ Founded = {}
    BY <1>1 DEF Active, Founded
  <1>3. QED
    BY <1>1, <1>2 DEF CreateInv, Creation, Creator, Opening

LEMMA CreateInvNext == AssocInv /\ CreateInv /\ [Next]_vars => CreateInv'
  <1> SUFFICES ASSUME AssocInv, CreateInv, [Next]_vars PROVE CreateInv'
    OBVIOUS
  <1>1. ClientInv /\ ClientInv' /\ Onward /\ ServerTypes /\ CountsInv /\ NetTypes
    BY ClientInvNext DEF AssocInv, ClientInv
  <1>2. abandons \in Nat /\ (abandons' = abandons \/ abandons' = abandons + 1)
    BY DEF CreateInv, Next, Runs, CallerRuns, CallerStops, Begin, Breaks, vars, clientVars,
           Reuse, OpenSecond, OpenFirst, Connecting, WaitForCreator, Connects, Bound, BindFails, Slept,
           SendsRequest, Maintains, CallEnds, CallBreaks, BindSendFails, ConnectFails, Abandons,
           ConnectAbandoned, BindAbandoned, WaitAbandoned, CallAbandoned, ClientReceiver,
           ReceiverStarts, ReceiverTakes, ReceiverEnds, ClientReclaims
  <1>3. abandons' \in Nat /\ (abandons' = 0 => abandons = 0)
    BY <1>2
  <1> SUFFICES ASSUME Patient = {}, abandons' = 0 PROVE Creation'
    BY <1>3 DEF CreateInv
  <1>4. Creation
    BY <1>3 DEF CreateInv
  <1>5. ASSUME UNCHANGED clientVars, \A x \in Conns : Settled(x) \/ \E h \in Conns : Answered(x, h)
        PROVE  Creation'
    BY <1>1, <1>4, <1>5, CreationAnswered
  <1>6. CASE UNCHANGED vars
    <2>1. net' = net /\ UNCHANGED clientVars
      BY <1>6 DEF vars, netVars
    <2>2. QED
      BY <1>1, <1>5, <2>1, Streams
  <1>7. CASE \/ \E t \in Threads : CallerRuns(t) \/ Begin(t) \/ CallerStops(t)
             \/ \E a \in Conns : ClientReceiver(a) \/ ClientReclaims(a)
    <2>1. CASE \E t \in Threads : OpenFirst(t) \/ OpenSecond(t)
      BY <1>1, <1>4, <2>1, CreationOpens
    <2>2. CASE \E t \in Threads : Connects(t)
      BY <1>1, <1>4, <2>2, CreationConnects
    <2>3. CASE \/ \E t \in Threads : \/ Reuse(t) \/ WaitForCreator(t) \/ Bound(t) \/ BindFails(t)
                                     \/ Slept(t) \/ SendsRequest(t) \/ Maintains(t) \/ CallEnds(t)
                                     \/ CallBreaks(t) \/ Begin(t) \/ CallerStops(t)
               \/ \E a \in Conns : ClientReceiver(a) \/ ClientReclaims(a)
      <3>1. /\ \A t \in Threads : Proceeds(t)
            /\ \/ creating' = creating
               \/ \E t \in Threads : StopCreating(t) /\ Opening(t) /\ ~Opening(t)'
        BY <1>1, <1>2, <1>4, <2>3, ClientProceeds
      <3>2. \A x \in Conns : Settled(x) \/ Called(x)
        BY <1>1, <1>7, ClientSettled
      <3>3. QED
        BY <1>1, <1>4, <3>1, <3>2, CreationKept
    <2>4. QED
      BY <1>7, <2>1, <2>2, <2>3 DEF CallerRuns
  <1>8. CASE \/ \E x \in Conns : (ServerReceiver(x) \/ ServerReclaims(x)) /\ UNCHANGED clientVars
             \/ \E c \in Calls : ExecutorStep(c) /\ UNCHANGED clientVars
    BY <1>1, <1>5, <1>8, ServerSettled
  <1>9. CASE \E x \in Conns : Breaks(x)
    <2>1. UNCHANGED clientVars /\ \A x \in Conns : Settled(x)
      BY <1>1, <1>9, BreaksSettled DEF Breaks
    <2>2. QED
      BY <1>5, <2>1
  <1>10. QED
    BY <1>6, <1>7, <1>8, <1>9 DEF Next, Runs

-----------------------------------------------------------------------------
(* What follows for the specification *)

\* On both sides an association is kept exactly as long as a receiver, a caller or an
\* executor has it, whatever order they leave it in (assoc_acb_ref_count,
\* rpc__cn_assoc_acb_dealloc).
THEOREM RefsCountHoldersHolds == Spec => []RefsCountHolders
  <1>1. AssocInv => RefsCountHolders
    <2> SUFFICES ASSUME AssocInv, NEW a \in Conns
                 PROVE  /\ LET n == Cardinality(Holders(a))
                                      + (IF cli.acb[a].rx = "recv" THEN 1 ELSE 0)
                           IN  cli.acb[a].ref = n /\ (cli.acb[a].life = "live" <=> n > 0)
                        /\ LET n == Cardinality({c \in Calls : Executing(c) /\ ex[c].a = a})
                                      + (IF srv.acb[a].rx = "recv" THEN 1 ELSE 0)
                           IN  srv.acb[a].ref = n /\ (srv.acb[a].life = "live" <=> n > 0)
      BY DEF RefsCountHolders
    <2>1. Cardinality(Holders(a)) = Held(a) /\ AcbOK(cli.acb[a], Held(a))
      BY HoldersHeld DEF AssocInv, ClientInv, AcbInv
    <2>2. SrvAcbOK(srv.acb[a], OnCount(a))
      BY DEF AssocInv, CountsInv
    <2>3. QED
      BY <2>1, <2>2 DEF AcbOK, SrvAcbOK, Receiving, OnCount, On
  <1>2. QED
    BY <1>1, AssocInvInit, AssocInvNext, PTL DEF Spec

\* The context handles of a client are not run down under a call, whichever of its
\* associations have gone and in whatever order (NO_CALLS_IND, grp_callcnt).
THEOREM NoRundownInCallHolds == Spec => []NoRundownInCall
  <1>1. AssocInv => NoRundownInCall
    <2> SUFFICES ASSUME AssocInv, NEW c \in Calls, Executing(c)
                 PROVE  srv.grp[ex[c].grp].st \in {"ACTIVE", "CALL_WAIT"}
      BY DEF NoRundownInCall
    <2>1. PICK g \in Conns : g = ex[c].grp
      BY DEF AssocInv, CountsInv, Counted
    <2>2. c \in In(g)
      BY <2>1 DEF In
    <2>3. InCount(g) \in Nat /\ InCount(g) # 0
      BY <2>2, OnFinite
    <2>4. GroupOK(srv.grp[g], InCount(g))
      BY DEF AssocInv, CountsInv
    <2>5. QED
      BY <2>1, <2>3, <2>4 DEF GroupOK
  <1>2. QED
    BY <1>1, AssocInvInit, AssocInvNext, PTL DEF Spec

\* The states of both ends are those of the state machine tables, no event comes in a state
\* that has no entry for it, and groups and their members agree, with every count a natural
\* number (rpc__cn_assoc_grp_add_assoc, grp_rem_assoc, rpc__cn_network_maint).
THEOREM TypeOKHolds == Spec => []TypeOK
  <1>1. AssocInv /\ HandleInv => TypeOK
    <2> SUFFICES ASSUME AssocInv, HandleInv PROVE TypeOK
      OBVIOUS
    <2>1. /\ cli.acb \in [Conns -> ClientAcb]
          /\ srv.acb \in [Conns -> ServerAcb] /\ srv.grp \in [Conns -> ServerGroup]
      BY DEF AssocInv, ClientInv, ClientTypes, Client, ServerTypes, Server
    <2>2. ASSUME NEW a \in Conns
          PROVE  /\ cli.acb[a].st \in {"CLOSED", "INIT_WAIT", "OPEN", "ACTIVE", "CALL_DONE_WAIT"}
                 /\ srv.acb[a].st \in {"CLOSED", "OPEN"}
                 /\ {cli.acb[a].ref, cli.acb[a].users, srv.acb[a].ref, srv.acb[a].users} \subseteq Nat
                 /\ {cli.grp[a].refs, srv.grp[a].refs, srv.grp[a].calls} \subseteq Nat
      <3>1. cli.acb[a] \in ClientAcb /\ srv.acb[a] \in ServerAcb /\ srv.grp[a] \in ServerGroup
            /\ cli.grp[a].refs \in Nat
        BY <2>1 DEF HandleInv
      <3>2. cli.acb[a].st \in {"CLOSED", "INIT_WAIT", "OPEN", "ACTIVE", "CALL_DONE_WAIT"}
            /\ cli.acb[a].ref \in Nat /\ cli.acb[a].users \in Nat
        BY <3>1 DEF ClientAcb
      <3>3. srv.acb[a].st \in {"CLOSED", "OPEN"}
            /\ srv.acb[a].ref \in Nat /\ srv.acb[a].users \in Nat
        BY <3>1 DEF ServerAcb
      <3>4. srv.grp[a].refs \in Nat /\ srv.grp[a].calls \in Nat
        BY <3>1 DEF ServerGroup
      <3>5. QED
        BY <3>1, <3>2, <3>3, <3>4
    <2>3. ListsAgree(cli.acb, cli.grp)
      <3>1. ASSUME NEW a \in Conns, cli.acb[a].st \in Grouped PROVE cli.acb[a].life = "live"
        <4>1. AcbOK(cli.acb[a], Held(a)) /\ Held(a) \in {0, 1}
          BY DEF AssocInv, ClientInv, AcbInv, Held
        <4>2. QED
          BY <3>1, <4>1 DEF AcbOK, Receiving
      <3>2. \A g \in Conns : Members(cli.grp[g].list) \subseteq Conns
        BY MembersInConns DEF AssocInv, ClientInv, ClientTypes, Client, ClientGroup
      <3>3. QED
        BY <3>1, <3>2 DEF ListsAgree, AssocInv, ClientInv, ClientLists, Lists, NoDup
    <2>4. ListsAgree(srv.acb, srv.grp)
      <3>1. ASSUME NEW a \in Conns, srv.acb[a].st = "OPEN" PROVE srv.acb[a].life = "live"
        <4>1. SrvAcbOK(srv.acb[a], OnCount(a)) /\ OnCount(a) \in Nat
          BY OnFinite DEF AssocInv, CountsInv
        <4>2. QED
          BY <3>1, <4>1 DEF SrvAcbOK, Receiving
      <3>2. \A g \in Conns : Members(srv.grp[g].list) \subseteq Conns
        BY <2>1, MembersInConns DEF ServerGroup
      <3>3. \A g \in Conns : GroupOK(srv.grp[g], InCount(g))
        BY DEF AssocInv, CountsInv
      <3>4. ASSUME NEW g \in Conns, NEW a \in Members(srv.grp[g].list)
            PROVE  srv.acb[a].grp = g /\ srv.acb[a].life = "live"
        BY <3>1, <3>2 DEF AssocInv, CountsInv, Listed
      <3>5. QED
        BY <3>3, <3>4 DEF ListsAgree, GroupOK, NoDup
    <2>5. QED
      BY <2>2, <2>3, <2>4 DEF TypeOK
  <1>2. AssocInv /\ HandleInv /\ [Next]_vars => AssocInv' /\ HandleInv'
    BY AssocInvNext, HandleInvNext DEF AssocInv
  <1>3. Init => AssocInv /\ HandleInv
    BY AssocInvInit, HandleInvInit
  <1>4. QED
    BY <1>1, <1>2, <1>3, PTL DEF Spec
\* The associations of a client's group are in one group of the server, the one that the
\* client was told of, until one of their ends closes: whatever the order in which binds,
\* acks, errors and reclaims come (rpc__cn_assoc_grp_lkup_by_remid, BindInd's reply).
THEOREM SameGroupHolds == Spec => []SameGroup
  <1>1. AgreedInv => SameGroup
    BY DEF AgreedInv, Agreed, SameGroup, Grouped
  <1>2. AssocInv /\ HandleInv /\ AgreedInv /\ [Next]_vars => AssocInv' /\ HandleInv' /\ AgreedInv'
    BY AssocInvNext, HandleInvNext, AgreedInvNext DEF AssocInv
  <1>3. Init => AssocInv /\ HandleInv /\ AgreedInv
    BY AssocInvInit, HandleInvInit, AgreedInvInit
  <1>4. QED
    BY <1>1, <1>2, <1>3, PTL DEF Spec

\* Threads that make their first calls together have one group made for them at the server,
\* however connecting and binding go, if none is cancelled and none retries
\* (grp_new_in_progress, rpc__cn_assoc_request).
THEOREM OneGroupHolds == Spec => []OneGroup
  <1>1. CreateInv => OneGroup
    <2> SUFFICES ASSUME Creation PROVE Cardinality(Founded) <= 1
      BY DEF CreateInv, OneGroup
    <2>1. CASE Founded = {}
      BY <2>1, FS_EmptySet
    <2>2. CASE Founded # {}
      <3>1. PICK g \in Founded : TRUE
        BY <2>2
      <3>2. Founded = {g}
        BY <3>1 DEF Creation
      <3>3. Cardinality({g}) = 1
        BY FS_Singleton
      <3>4. QED
        BY <3>2, <3>3
    <2>3. QED
      BY <2>1, <2>2
  <1>2. QED
    BY <1>1, AssocInvInit, AssocInvNext, CreateInvInit, CreateInvNext, PTL DEF Spec
=============================================================================
