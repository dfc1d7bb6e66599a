-------------------------- MODULE TradeVersioning --------------------------
(***************************************************************************)
(* What the event lifecycle promises about a trade: which version of it is *)
(* in force.  A version other than the first comes into force only as the  *)
(* outcome of a proposal that was made against the version in force at the *)
(* time, that FO and then BO approved, and that nothing overtook: versions *)
(* in force go up by one, a decided proposal stays decided, and a trade    *)
(* once booked always has a version in force.                              *)
(***************************************************************************)
EXTENDS Naturals

CONSTANTS Trade, Event

VARIABLES
  inForce,  \* the version of each trade that is in force, 0 before booking
  proposal  \* the proposals

None == [stage |-> "None"]
Undecided == {"FoUserToValidate", "FoValidated"}

Init ==
  /\ inForce \in [Trade -> {0, 1}]
  /\ proposal = [e \in Event |-> None]

(* Trades are booked, one by one or in a batch.                            *)
Book(T) ==
  /\ T # {}
  /\ \A t \in T : inForce[t] = 0
  /\ inForce' = [t \in Trade |-> IF t \in T THEN 1 ELSE inForce[t]]
  /\ UNCHANGED proposal

(* At most one amendment of a trade is undecided at a time.                *)
Propose(e, t, type) ==
  /\ proposal[e] = None
  /\ inForce[t] # 0
  /\ type = "AMEND" =>
       ~\E f \in Event : /\ proposal[f].stage \in Undecided
                         /\ proposal[f].trade = t
                         /\ proposal[f].type = "AMEND"
  /\ proposal' = [proposal EXCEPT ![e] =
       [stage |-> "FoUserToValidate", trade |-> t, type |-> type,
        to |-> IF type = "AMEND" THEN inForce[t] + 1 ELSE 0]]
  /\ UNCHANGED inForce

FoApprove(e) ==
  /\ proposal[e].stage = "FoUserToValidate"
  /\ proposal' = [proposal EXCEPT ![e].stage = "FoValidated"]
  /\ UNCHANGED inForce

Reject(e) ==
  /\ proposal[e].stage \in Undecided
  /\ proposal' = [proposal EXCEPT ![e].stage = "Cancelled"]
  /\ UNCHANGED inForce

BoApprove(e) ==
  /\ proposal[e].stage = "FoValidated"
  /\ proposal[e].type = "AMEND" => proposal[e].to = inForce[proposal[e].trade] + 1
  /\ proposal' = [proposal EXCEPT ![e].stage = "Done"]
  /\ inForce' = IF proposal[e].type = "AMEND"
                THEN [inForce EXCEPT ![proposal[e].trade] = proposal[e].to]
                ELSE inForce

Next ==
  \/ \E T \in SUBSET Trade : Book(T)
  \/ \E e \in Event :
       \/ \E t \in Trade, type \in {"AMEND", "CANCEL"} : Propose(e, t, type)
       \/ FoApprove(e)
       \/ Reject(e)
       \/ BoApprove(e)

Spec == Init /\ [][Next]_<<inForce, proposal>>
=============================================================================
