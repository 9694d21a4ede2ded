------------------------------- MODULE CnAssoc -------------------------------
(***************************************************************************)
(* The associations of a client process with one server, both ends         *)
(* together: CnAssocClient and CnAssocServer over connections that may     *)
(* break.                                                                  *)
(***************************************************************************)
EXTENDS CnAssocClient, CnAssocServer

vars == <<netVars, clientVars, serverVars>>

Init == NetInit /\ ClientInit /\ ServerInit

\* A connection breaks; what was on its way may be lost.
Breaks(a) ==
  /\ net[a].up /\ breaks + abandons < MaxFaults
  /\ \E n \in {net[a], [net[a] EXCEPT !.c2s = <<>>, !.s2c = <<>>]} :
       net' = [net EXCEPT ![a] = [n EXCEPT !.up = FALSE]]
  /\ breaks' = breaks + 1
  /\ UNCHANGED <<kind, clientVars, serverVars>>

\* What threads and timers do; none of it can go on for ever.
Runs ==
  \/ \E t \in Threads : CallerRuns(t) /\ UNCHANGED serverVars
  \/ \E a \in Conns : (ClientReceiver(a) \/ ClientReclaims(a)) /\ UNCHANGED serverVars
  \/ \E a \in Conns : (ServerReceiver(a) \/ ServerReclaims(a)) /\ UNCHANGED clientVars
  \/ \E c \in Calls : ExecutorStep(c) /\ UNCHANGED clientVars

Next ==
  \/ Runs
  \/ \E t \in Threads : (Begin(t) \/ CallerStops(t)) /\ UNCHANGED serverVars
  \/ \E a \in Conns : Breaks(a)

Spec == Init /\ [][Next]_vars

\* Threads and timers run, connects come to an end and managers return; nobody
\* has to make a call, to abandon one or to break a connection.
FairSpec == Spec /\ WF_vars(Runs)

-----------------------------------------------------------------------------
(* Properties *)

Holders(a) == {t \in Threads : thr[t].a = a}
Executing(c) == ex[c].pc \in {"run", "sent"}

\* A group lists each of its associations once, and has them as long as it is active.
ListsAgree(acb, grp) ==
  \A g \in Conns :
    /\ grp[g].st = "ACTIVE" <=> grp[g].list # <<>>
    /\ \A a \in Members(grp[g].list) : acb[a].grp = g /\ acb[a].life = "live"
    /\ \A i, j \in DOMAIN grp[g].list : grp[g].list[i] = grp[g].list[j] => i = j

(* TypeOK: states are those of the state machine tables, no event comes in a *)
(* state that has no entry for it, and the lists of groups are consistent    *)
(* with their members (rpc__cn_assoc_grp_add_assoc, grp_rem_assoc).          *)
TypeOK ==
  /\ \A a \in Conns :
       /\ cli.acb[a].st \in {"CLOSED", "INIT_WAIT", "OPEN", "ACTIVE", "CALL_DONE_WAIT"}
       /\ srv.acb[a].st \in {"CLOSED", "OPEN"}
       /\ {cli.acb[a].ref, cli.acb[a].users, srv.acb[a].ref, srv.acb[a].users} \subseteq Nat
       /\ {cli.grp[a].refs, srv.grp[a].refs, srv.grp[a].calls} \subseteq Nat
  /\ ListsAgree(cli.acb, cli.grp) /\ ListsAgree(srv.acb, srv.grp)

(* RefsCountHolders: on both sides an association is kept exactly as long as *)
(* a receiver, a caller or an executor has it (assoc_acb_ref_count), though  *)
(* they leave it in any order, after errors, cancels and reclaims.           *)
RefsCountHolders ==
  \A a \in Conns :
    /\ LET n == Cardinality(Holders(a)) + (IF cli.acb[a].rx = "recv" THEN 1 ELSE 0)
       IN  cli.acb[a].ref = n /\ (cli.acb[a].life = "live" <=> n > 0)
    /\ LET n == Cardinality({c \in Calls : Executing(c) /\ ex[c].a = a})
                  + (IF srv.acb[a].rx = "recv" THEN 1 ELSE 0)
       IN  srv.acb[a].ref = n /\ (srv.acb[a].life = "live" <=> n > 0)

(* OneCaller: an association is used by one call at a time, from its opening *)
(* on (assoc_ref_count, rpc__cn_assoc_grp_lkup_by_addr).                     *)
OneCaller == \A a \in Conns : Cardinality(Holders(a)) <= 1

\* The client's groups for which the server made a new group
Founded == {g \in Active(cli) : cli.grp[g].remid = g}

(* OneGroup: threads that make their first calls to a server together have   *)
(* one group made for them there (grp_new_in_progress): a client has one set *)
(* of context handles.  Two things break it: a thread that retries keeps the *)
(* flag it set in an earlier pass and may clear another creator's, and the   *)
(* association of an abandoned caller makes its group after the next creator *)
(* has begun.  The flag does not cover a second association that is being    *)
(* opened when the only one of its group goes: it joins the server's old     *)
(* group, with a client's group of its own.                                  *)
OneGroup == Patient = {} /\ abandons = 0 => Cardinality(Founded) <= 1

(* SameGroup: the associations of a client's group are in one group of the   *)
(* server, the one the client has been told of, until an end closes.         *)
SameGroup ==
  \A a \in Conns :
    cli.acb[a].st \in {"OPEN", "ACTIVE"} /\ srv.acb[a].st = "OPEN"
      => srv.acb[a].grp = cli.grp[cli.acb[a].grp].remid

(* NoRundownInCall: context handles are not run down under a call of their   *)
(* client, though its connections are gone (NO_CALLS_IND).                   *)
NoRundownInCall ==
  \A c \in Calls : Executing(c) => srv.grp[ex[c].grp].st \in {"ACTIVE", "CALL_WAIT"}

(* HandleSurvives: a context handle that the client holds is not run down as *)
(* long as connections last and the server's timer aborts none of them: the  *)
(* idle associations of both sides are reclaimed, but never the last one     *)
(* (SHUTDOWN_ALLOWED_PRED, rpc__cn_network_maint and rpc__cn_network_mon).   *)
HandleSurvives ==
  ctx.st = "held" /\ breaks = 0 /\ ~srv.grp[ctx.remid].aborted
    => cli.grp[ctx.grp].st = "ACTIVE" /\ srv.grp[ctx.remid].refs > 0

(* CallReturns: a caller comes back from rpc__cn_assoc_request and from its  *)
(* call, whatever breaks, as long as connections can be made.                *)
CallReturns ==
  \A t \in Threads :
    thr[t].pc # "idle" ~> (thr[t].pc = "idle" \/ Unused = {})

(* RundownHappens: a client that is gone has its context handles run down.   *)
(* A group that loses an association while a call is on it, and is left with *)
(* another one, counts that call for ever.                                   *)
Miscounted(g) == \E c \in Calls : ex[c].grp = g /\ ex[c].pc = "ended" /\ srv.grp[g].calls > 0
RundownHappens ==
  \A g \in Conns :
    srv.grp[g].st = "CALL_WAIT" ~> (srv.grp[g].st = "CLOSED" \/ Miscounted(g))

(* IdleCloses: a connection that nobody uses is closed in the end, unless a  *)
(* context handle keeps it or its association was given up before a receiver *)
(* had it, which leaves the socket open.                                     *)
Kept(a) ==
  \/ ~net[a].up \/ Holders(a) # {} \/ cli.acb[a].life = "freed"
  \/ cli.acb[a].grp # 0 /\ ~MayShrink(cli.grp[cli.acb[a].grp])
IdleCloses == \A a \in Conns : ~Kept(a) ~> Kept(a)
=============================================================================
