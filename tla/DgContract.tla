------------------------------ MODULE DgContract ------------------------------
(***************************************************************************)
(* What the datagram protocol promises the application for the             *)
(* non-idempotent calls of one activity: a call runs at most once, it      *)
(* returns a result only if it ran, and the managers of an activity's      *)
(* calls start in the order in which the client made the calls.  A call    *)
(* that failed may have run, and may still run.                            *)
(***************************************************************************)
EXTENDS Naturals

CONSTANT MaxSeq

VARIABLES
  outcome,   \* how each call ended for the client, "none" before it starts
  execs      \* how often its manager ran

vars == <<outcome, execs>>
Seqs == 1..MaxSeq

Init ==
  /\ outcome = [n \in Seqs |-> "none"]
  /\ execs = [n \in Seqs |-> 0]

\* One call at a time: the earlier calls of the activity have ended.
Start(n) ==
  /\ outcome[n] = "none"
  /\ \A m \in Seqs : m < n => outcome[m] \notin {"none", "pending"}
  /\ outcome' = [outcome EXCEPT ![n] = "pending"]
  /\ UNCHANGED execs

Execute(n) ==
  /\ outcome[n] # "none" /\ execs[n] = 0
  /\ \A m \in Seqs : m > n => execs[m] = 0
  /\ execs' = [execs EXCEPT ![n] = 1]
  /\ UNCHANGED outcome

Return(n) ==
  /\ outcome[n] = "pending" /\ execs[n] = 1
  /\ outcome' = [outcome EXCEPT ![n] = "ok"]
  /\ UNCHANGED execs

\* "denied": the client was told that the manager did not run.
Fail(n) ==
  /\ outcome[n] = "pending"
  /\ \E why \in {"failed", "denied"} : outcome' = [outcome EXCEPT ![n] = why]
  /\ UNCHANGED execs

Next == \E n \in Seqs : Start(n) \/ Execute(n) \/ Return(n) \/ Fail(n)

Spec == Init /\ [][Next]_vars
=============================================================================
