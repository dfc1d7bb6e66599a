------------------------------- MODULE Triage -------------------------------
(***************************************************************************)
(* What triage runs guarantee, and what they promise and do not keep.      *)
(***************************************************************************)
EXTENDS TriageRuns

TypeOK ==
  /\ saver \in {"postgres", "memory"}
  /\ store \in [{"postgres", "memory"} -> [Run -> Checkpoint \cup {NoRun, LostRun}]]
  /\ work \in [Handler -> {Idle} \cup RequestWork]
  /\ history \in [Run -> HistoryRow]
  /\ acted \in [Run -> Seq(HitlNode)]
  /\ cp \in {"missing", "inactive", "active"}
  /\ ssi \in [Currency -> Ssi]
  /\ external \in [Currency -> Ssi]
  /\ trade \in [currency : Currency, settlement : Currency, sendback : 0 .. MaxSendback,
                results : SUBSET BoRule]

-----------------------------------------------------------------------------
(* The mapping to the promise.  The checkpoint of a run is in the store it *)
(* was started with.  An approval is under way from the arrival of the     *)
(* request until the tool has run.                                         *)

CheckpointOf(r) ==
  IF store["postgres"][r] # NoRun THEN store["postgres"][r] ELSE store["memory"][r]

Asking(r) ==
  LET ck == CheckpointOf(r) IN
  CASE ck = NoRun -> "nothing"
    [] ck = LostRun -> "closed"
    [] OTHER -> IF Paused(ck) THEN ck.next
                ELSE IF ck.action \/ ck.next = "END" THEN "closed" ELSE "nothing"

Licensed(r) ==
  /\ Asking(r) \in HitlNode
  /\ \E h \in Handler : /\ work[h].at \in {"invoke", "graph"} /\ work[h].run = r
                        /\ work[h].decision = "approve"
                        /\ work[h].at = "graph" => work[h].resumed

Asks == [r \in Run |-> Asking(r)]
Licences == {r \in Run : Licensed(r)}

Promise == INSTANCE HitlTriage WITH Ask <- HitlNode, asking <- Asks, licence <- Licences

(* While operators take turns, a run asks for one action at a time, acts   *)
(* only under an approval for exactly what it asks, once per approval, and *)
(* asks no more after an action was recorded - through failed requests,    *)
(* restarts, a checkpointer that falls back to memory, and data that       *)
(* changes under a paused run.                                             *)
ActsAsApproved == Promise!Spec

(* A tool that needs approval is executed only by a request that brings an *)
(* operator's approval.                                                    *)
OnlyApprovedActs ==
  \A h \in Handler : work[h].at = "tool" => work[h].decision = "approve"

(* The history is the operators' list of what is left to decide: a run it  *)
(* shows as completed never acts again, whatever is sent to it.            *)
CompletedActsNoMore ==
  [][\A r \in Run : history[r].status = "COMPLETED" => acted'[r] = acted[r]]_<<history, acted>>

(* An approved registration repairs what it was asked for: from then on,   *)
(* until the demo data is refreshed (reset_and_seed truncates the SSIs, and*)
(* is not modelled here), the BO check finds an SSI for the trade.         *)
RegistrationRepairs ==
  \A r \in Run : \A i \in DOMAIN acted[r] :
    acted[r][i] = "register_ssi_node" => "ssi_exists" \notin BoResults

(* Once an approved action has been recorded the request that runs the     *)
(* graph comes to its end: the agent cannot keep it going by asking for    *)
(* one tool after the other.                                               *)
ActedRequestEnds ==
  \A h \in Handler :
    (work[h].at = "graph" /\ work[h].ck.action) ~> (work[h] = Idle)
=============================================================================
