----------------------- MODULE TradeVersioning_proofs -----------------------
(***************************************************************************)
(* What the promise of TradeVersioning amounts to, for any number of       *)
(* trades and proposals: the version in force goes up one by one and never *)
(* back, and what was decided stays decided.                               *)
(***************************************************************************)
EXTENDS TradeVersioning, TLAPS

(* A proposal that was made, as Propose writes it.                         *)
Stages == Undecided \cup {"Done", "Cancelled"}
Made == [stage : Stages, trade : Trade, type : {"AMEND", "CANCEL"}, to : Nat]

PromiseTypeOK ==
  /\ inForce \in [Trade -> Nat]
  /\ proposal \in [Event -> {None} \cup Made]

(* Every step takes the version in force of a trade one up, or leaves it.  *)
UpByOne == [][\A t \in Trade : inForce'[t] \in {inForce[t], inForce[t] + 1}]_inForce

(* A decided proposal is never decided again, nor reopened or forgotten.   *)
DecidedForGood ==
  [][\A e \in Event : proposal[e].stage \in {"Done", "Cancelled"} =>
       proposal'[e] = proposal[e]]_proposal

-----------------------------------------------------------------------------
LEMMA MadeOrNone ==
  ASSUME PromiseTypeOK, NEW e \in Event, proposal[e].stage # "None"
  PROVE  proposal[e] \in Made
BY DEF PromiseTypeOK, None

LEMMA PromiseInit == Init => PromiseTypeOK
BY DEF Init, PromiseTypeOK, None, Undecided

LEMMA PromiseStep ==
  ASSUME PromiseTypeOK, [Next]_<<inForce, proposal>>
  PROVE  /\ PromiseTypeOK'
         /\ \A t \in Trade : inForce'[t] \in {inForce[t], inForce[t] + 1}
         /\ \A e \in Event : proposal[e].stage \in {"Done", "Cancelled"} =>
              proposal'[e] = proposal[e]
<1> USE DEF PromiseTypeOK, Undecided
<1>1. ASSUME NEW T \in SUBSET Trade, Book(T)
      PROVE  /\ PromiseTypeOK'
             /\ \A t \in Trade : inForce'[t] \in {inForce[t], inForce[t] + 1}
             /\ proposal' = proposal
  BY <1>1 DEF Book
<1>2. ASSUME NEW e \in Event, NEW t \in Trade, NEW type \in {"AMEND", "CANCEL"},
             Propose(e, t, type)
      PROVE  /\ PromiseTypeOK'
             /\ inForce' = inForce
             /\ \A f \in Event : proposal[f].stage \in {"Done", "Cancelled"} =>
                  proposal'[f] = proposal[f]
  <2> DEFINE new == [stage |-> "FoUserToValidate", trade |-> t, type |-> type,
                     to |-> IF type = "AMEND" THEN inForce[t] + 1 ELSE 0]
  <2>1. new \in Made
    BY DEF Made, Stages
  <2> HIDE DEF new
  <2>3. proposal' = [proposal EXCEPT ![e] = new] /\ inForce' = inForce /\ proposal[e] = None
    BY <1>2 DEF Propose, new
  <2>4. PromiseTypeOK'
    BY <2>1, <2>3
  <2>5. QED
    BY <2>3, <2>4 DEF None
<1>3. ASSUME NEW e \in Event, NEW s \in {"FoValidated", "Cancelled", "Done"},
             proposal[e].stage \in Undecided,
             proposal' = [proposal EXCEPT ![e].stage = s]
      PROVE  /\ proposal' \in [Event -> {None} \cup Made]
             /\ \A f \in Event : proposal[f].stage \in {"Done", "Cancelled"} =>
                  proposal'[f] = proposal[f]
  <2>1. proposal[e] \in Made
    BY <1>3, MadeOrNone
  <2> DEFINE new == [proposal[e] EXCEPT !.stage = s]
  <2>2. new \in Made
    BY <2>1 DEF Made, Stages
  <2>3. proposal' = [proposal EXCEPT ![e] = new]
    BY <1>3
  <2> HIDE DEF new
  <2>4. QED
    BY <1>3, <2>2, <2>3
<1>4. ASSUME NEW e \in Event, FoApprove(e) \/ Reject(e)
      PROVE  /\ PromiseTypeOK'
             /\ inForce' = inForce
             /\ \A f \in Event : proposal[f].stage \in {"Done", "Cancelled"} =>
                  proposal'[f] = proposal[f]
  BY <1>3, <1>4 DEF FoApprove, Reject
<1>5. ASSUME NEW e \in Event, BoApprove(e)
      PROVE  /\ PromiseTypeOK'
             /\ \A t \in Trade : inForce'[t] \in {inForce[t], inForce[t] + 1}
             /\ \A f \in Event : proposal[f].stage \in {"Done", "Cancelled"} =>
                  proposal'[f] = proposal[f]
  <2>1. proposal[e] \in Made
    BY <1>5, MadeOrNone DEF BoApprove
  <2>2. proposal[e].trade \in Trade /\ proposal[e].to \in Nat
    BY <2>1 DEF Made
  <2>3. /\ proposal' \in [Event -> {None} \cup Made]
        /\ \A f \in Event : proposal[f].stage \in {"Done", "Cancelled"} =>
             proposal'[f] = proposal[f]
    BY <1>3, <1>5 DEF BoApprove
  <2>4. CASE proposal[e].type = "AMEND"
    <3>1. proposal[e].to = inForce[proposal[e].trade] + 1
      BY <1>5, <2>4 DEF BoApprove
    <3>2. inForce' = [inForce EXCEPT ![proposal[e].trade] = proposal[e].to]
      BY <1>5, <2>4 DEF BoApprove
    <3>3. QED
      BY <2>2, <2>3, <3>1, <3>2
  <2>5. CASE proposal[e].type # "AMEND"
    BY <1>5, <2>3, <2>5 DEF BoApprove
  <2>6. QED
    BY <2>4, <2>5
<1>6. CASE UNCHANGED <<inForce, proposal>>
  BY <1>6
<1>7. QED
  BY <1>1, <1>2, <1>4, <1>5, <1>6 DEF Next

-----------------------------------------------------------------------------
THEOREM PromiseInvariance == Spec => []PromiseTypeOK
BY PromiseInit, PromiseStep, PTL DEF Spec

(* The version in force never goes back, and no version is skipped.        *)
THEOREM VersionsGoUpByOne == Spec => UpByOne
<1>1. PromiseTypeOK /\ [Next]_<<inForce, proposal>>
        => [\A t \in Trade : inForce'[t] \in {inForce[t], inForce[t] + 1}]_inForce
  BY PromiseStep
<1>2. QED
  BY <1>1, PromiseInvariance, PTL DEF Spec, UpByOne

(* A decision is final.                                                    *)
THEOREM DecisionsAreFinal == Spec => DecidedForGood
<1>1. PromiseTypeOK /\ [Next]_<<inForce, proposal>>
        => [\A e \in Event : proposal[e].stage \in {"Done", "Cancelled"} =>
              proposal'[e] = proposal[e]]_proposal
  BY PromiseStep
<1>2. QED
  BY <1>1, PromiseInvariance, PTL DEF Spec, DecidedForGood
=============================================================================
