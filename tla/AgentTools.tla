----------------------------- MODULE AgentTools -----------------------------
(***************************************************************************)
(* What the FO and BO agents do to the two tables.  A triage request runs  *)
(* the agent's graph inside the handler: the agent calls tools that write  *)
(* at once, in any number and order the model chooses, and stops at the    *)
(* first tool that needs approval; approving it is another request, which  *)
(* executes the tool and lets the agent run on.  No tool and no endpoint   *)
(* looks at the status of the trade, so an agent may be started, and its   *)
(* tools may be called, at any time.  Every tool has a session of its own. *)
(***************************************************************************)
EXTENDS Proposals

(* POST /fo-triage/{id} and /bo-triage/{id}, and a resume whose tool does  *)
(* not touch the two tables (a rejection, an SSI or counterparty update,   *)
(* a tool that failed).                                                    *)
TriageRequest(h, t) ==
  /\ "triage" \in Environment
  /\ Free(h)
  /\ \E at \in {"foTriage", "boTriage"} : SetWork(h, Call(at, t))
  /\ UNCHANGED <<rows, event, batch, setting>>

(* The agent calls one of the tools that need no approval ...              *)
ImmediateStatus(at) ==
  IF at = "foTriage" THEN {"FoValidated",        \* provide_explanation
                           "FoUserToValidate"}   \* escalate_to_fo_user
                     ELSE {"BoUserToValidate"}   \* escalate_to_bo_user

ImmediateTool(h) ==
  LET w == work[h] IN
  /\ "tools" \in Environment
  /\ w.at \in {"foTriage", "boTriage"}
  /\ \E s \in ImmediateStatus(w.at) : SelectCurrent(h, w.trade, s, {}, w.at)
  /\ UNCHANGED <<rows, event, batch, setting>>

(* ... and ends, or stops at a tool that does; the request is answered.    *)
AgentStops(h) ==
  /\ work[h].at \in {"foTriage", "boTriage"}
  /\ SetWork(h, Idle)
  /\ UNCHANGED <<rows, event, batch, setting>>

-----------------------------------------------------------------------------
(* Tools that an operator has just approved (resume).                      *)

(* send_back_to_fo looks the trade up for its count, without a condition   *)
(* on it, and then calls update_workflow_status.                           *)
SendBackToFo(h, t) ==
  /\ "triage" \in Environment
  /\ Free(h)
  /\ \E v \in CurrentVersions(rows, t) :
       SetWork(h, [at |-> "select", trade |-> t, status |-> "FoAgentToCheck",
                   loaded |-> Load(rows, t, v, {}), after |-> "boTriage"])
  /\ UNCHANGED <<rows, event, batch, setting>>

(* create_amend_event and create_cancel_event: no look at the events of    *)
(* the trade.                                                              *)
CreateAmendEvent(h, t) ==
  /\ "agent_events" \in Environment
  /\ Free(h)
  /\ StartProposal(h, t, "AMEND", "number", "foTriage")
  /\ UNCHANGED <<rows, event, batch, setting>>

CreateCancelEvent(h, t) ==
  /\ "agent_events" \in Environment
  /\ Free(h)
  /\ StartProposal(h, t, "CANCEL", "mark", "foTriage")
  /\ UNCHANGED <<rows, event, batch, setting>>

AgentNext ==
  \E h \in Handler :
    \/ ImmediateTool(h)
    \/ AgentStops(h)
    \/ \E t \in Trade :
         \/ TriageRequest(h, t)
         \/ SendBackToFo(h, t)
         \/ CreateAmendEvent(h, t)
         \/ CreateCancelEvent(h, t)
=============================================================================
