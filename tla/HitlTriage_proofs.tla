-------------------------- MODULE HitlTriage_proofs -------------------------
(***************************************************************************)
(* What the promise of HitlTriage amounts to, for any number of runs: an   *)
(* approval is good for one action, the one that was asked for, and a run  *)
(* that is closed acts no more.                                            *)
(***************************************************************************)
EXTENDS HitlTriage, TLAPS

(* An approval is held only by a run that asks.                            *)
HoldersAsk == \A r \in licence : asking[r] \notin NotAsking

HitlInv ==
  /\ asking \in [Run -> Ask \cup NotAsking]
  /\ licence \in SUBSET Run
  /\ acted \in [Run -> Seq(Ask)]
  /\ HoldersAsk

(* A run that acts uses up its approval, does what it asked for and does   *)
(* it once.                                                                *)
OneActPerApproval ==
  [][\A r \in Run : acted'[r] # acted[r] =>
       /\ r \in licence /\ r \notin licence'
       /\ asking[r] \in Ask /\ acted'[r] = Append(acted[r], asking[r])]_vars

(* A closed run is not reopened, is given no approval and does nothing.    *)
ClosedForGood ==
  [][\A r \in Run : asking[r] = "closed" =>
       asking'[r] = "closed" /\ r \notin licence' /\ acted'[r] = acted[r]]_vars

-----------------------------------------------------------------------------
LEMMA HitlInit == Init => HitlInv
BY DEF Init, HitlInv, HoldersAsk, NotAsking

LEMMA HitlStep ==
  ASSUME HitlInv, [Next]_vars
  PROVE  /\ HitlInv'
         /\ \A r \in Run : acted'[r] # acted[r] =>
              /\ r \in licence /\ r \notin licence'
              /\ asking[r] \in Ask /\ acted'[r] = Append(acted[r], asking[r])
         /\ \A r \in Run : asking[r] = "closed" =>
              asking'[r] = "closed" /\ r \notin licence' /\ acted'[r] = acted[r]
<1> USE DEF HitlInv, HoldersAsk, NotAsking
<1> DEFINE Goal ==
      /\ HitlInv'
      /\ \A r \in Run : acted'[r] # acted[r] =>
           /\ r \in licence /\ r \notin licence'
           /\ asking[r] \in Ask /\ acted'[r] = Append(acted[r], asking[r])
      /\ \A r \in Run : asking[r] = "closed" =>
           asking'[r] = "closed" /\ r \notin licence' /\ acted'[r] = acted[r]
<1>1. ASSUME NEW r \in Run, Propose(r) PROVE Goal
  BY <1>1 DEF Propose
<1>2. ASSUME NEW r \in Run, Approve(r) PROVE Goal
  BY <1>2 DEF Approve
<1>3. ASSUME NEW r \in Run, Act(r) PROVE Goal
  <2>1. asking[r] \in Ask /\ asking[r] # "closed" /\ acted[r] \in Seq(Ask)
    BY <1>3 DEF Act
  <2>2. Append(acted[r], asking[r]) \in Seq(Ask)
    BY <2>1
  <2>3. QED
    BY <1>3, <2>1, <2>2 DEF Act
<1>4. ASSUME NEW r \in Run, Spend(r) PROVE Goal
  BY <1>4 DEF Spend
<1>5. ASSUME NEW r \in Run, Close(r) PROVE Goal
  BY <1>5 DEF Close
<1>6. ASSUME NEW r \in Run, Reject(r) PROVE Goal
  BY <1>6 DEF Reject
<1>7. ASSUME Crash PROVE Goal
  BY <1>7 DEF Crash
<1>8. CASE UNCHANGED vars
  BY <1>8 DEF vars
<1>9. QED
  BY <1>1, <1>2, <1>3, <1>4, <1>5, <1>6, <1>7, <1>8 DEF Next

-----------------------------------------------------------------------------
THEOREM HitlInvariance == Spec => []HitlInv
BY HitlInit, HitlStep, PTL DEF Spec

(* An approval is good for one action, the one that was asked for.         *)
THEOREM ApprovalsAreSpent == Spec => OneActPerApproval
BY HitlStep, HitlInvariance, PTL DEF Spec, OneActPerApproval

(* A closed run is over.                                                   *)
THEOREM ClosedRunsStayClosed == Spec => ClosedForGood
BY HitlStep, HitlInvariance, PTL DEF Spec, ClosedForGood
=============================================================================
