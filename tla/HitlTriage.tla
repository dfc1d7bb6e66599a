----------------------------- MODULE HitlTriage -----------------------------
(***************************************************************************)
(* What a triage run promises to the people who use it, whatever its agent *)
(* does: it asks for one action at a time, acts only under an approval     *)
(* given for what it is asking, uses up every approval it acts under, and  *)
(* asks for nothing more once an approved action has been recorded.  An    *)
(* approval may be lost on the way (the request fails): then nothing       *)
(* happened, or the action has been taken and is still being asked for.    *)
(***************************************************************************)
EXTENDS Naturals, Sequences

CONSTANTS Run,  \* triage runs
          Ask   \* what a run can ask an operator to approve

VARIABLES asking,   \* for every run: what it asks for, "nothing" or "closed"
          licence,  \* the runs that hold an approval not used yet
          acted     \* for every run: the actions it has taken, in order

vars == <<asking, licence, acted>>

NotAsking == {"nothing", "closed"}

Init ==
  /\ asking = [r \in Run |-> "nothing"]
  /\ licence = {}
  /\ acted = [r \in Run |-> <<>>]

Propose(r) ==
  /\ asking[r] = "nothing"
  /\ \E a \in Ask : asking' = [asking EXCEPT ![r] = a]
  /\ UNCHANGED <<licence, acted>>

Approve(r) ==
  /\ asking[r] \notin NotAsking /\ r \notin licence
  /\ licence' = licence \cup {r}
  /\ UNCHANGED <<asking, acted>>

Act(r) ==
  /\ r \in licence
  /\ acted' = [acted EXCEPT ![r] = Append(@, asking[r])]
  /\ licence' = licence \ {r}
  /\ UNCHANGED asking

(* The approved action had no effect; or the run gives up asking.          *)
Spend(r) ==
  /\ r \in licence
  /\ licence' = licence \ {r}
  /\ UNCHANGED <<asking, acted>>

Close(r) ==
  /\ r \notin licence
  /\ asking' = [asking EXCEPT ![r] = "closed"]
  /\ UNCHANGED <<licence, acted>>

Reject(r) ==
  /\ asking[r] \notin NotAsking /\ r \notin licence
  /\ asking' = [asking EXCEPT ![r] = "nothing"]
  /\ UNCHANGED <<licence, acted>>

(* The process ends: approvals under way are lost, and runs may be, too.   *)
Crash ==
  /\ \E lost \in SUBSET Run :
       asking' = [r \in Run |-> IF r \in lost THEN "closed" ELSE asking[r]]
  /\ licence' = {}
  /\ UNCHANGED acted

Next ==
  \/ \E r \in Run : \/ Propose(r) \/ Approve(r) \/ Act(r)
                    \/ Spend(r) \/ Close(r) \/ Reject(r)
  \/ Crash

Spec == Init /\ [][Next]_vars
=============================================================================
