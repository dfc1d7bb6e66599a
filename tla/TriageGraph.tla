---------------------------- MODULE TriageGraph ----------------------------
(***************************************************************************)
(* The graphs of the BO and the FO agent (bo_agent.py, fo_agent.py): their *)
(* nodes, the edges between them, the routing functions, and what each     *)
(* node makes of the graph state.  Everything here is a pure operator; the *)
(* nodes that act on the database after an approval are in TriageRuns.     *)
(*                                                                         *)
(* Of the messages only the last one matters to the code that routes: who  *)
(* wrote it and, for an assistant message with tool calls, its first call  *)
(* that needs approval ("read" when none does).                            *)
(***************************************************************************)
EXTENDS CheckRules

BoHitlToolToNode ==
  [register_ssi            |-> "register_ssi_node_di",
   reactivate_counterparty |-> "reactivate_counterparty_node_di",
   update_ssi              |-> "update_ssi_node_di",
   send_back_to_fo         |-> "send_back_to_fo_node_di"]
FoHitlToolToNode ==
  [create_amend_event  |-> "create_amend_event_node",
   create_cancel_event |-> "create_cancel_event_node"]

HitlTools(agent) == DOMAIN (IF agent = "bo" THEN BoHitlToolToNode ELSE FoHitlToolToNode)
HitlTool == HitlTools("bo") \cup HitlTools("fo")
NodeOfTool ==
  [tool \in HitlTool |-> IF tool \in HitlTools("bo") THEN BoHitlToolToNode[tool]
                         ELSE FoHitlToolToNode[tool]]

(* The nodes both graphs stop in front of, and the tool each one executes. *)
ToolOfNode ==
  [reactivate_counterparty_node    |-> "reactivate_counterparty",
   register_ssi_node               |-> "register_ssi",
   send_back_to_fo_node            |-> "send_back_to_fo",
   reactivate_counterparty_node_di |-> "reactivate_counterparty",
   register_ssi_node_di            |-> "register_ssi",
   update_ssi_node_di              |-> "update_ssi",
   send_back_to_fo_node_di         |-> "send_back_to_fo",
   create_amend_event_node         |-> "create_amend_event",
   create_cancel_event_node        |-> "create_cancel_event"]
HitlNode == DOMAIN ToolOfNode

-----------------------------------------------------------------------------
(* Routing *)

ErrorCode == {"AG01", "BE01", "AM04", "AC01"}

(* _determine_triage_path: the codes found in the error message and the    *)
(* names of the failed rules select a path, unless several are selected.   *)
DetermineTriagePath(codes, failed) ==
  LET condition ==
        [AG01        |-> "AG01" \in codes \/ "counterparty_active" \in failed,
         BE01        |-> "BE01" \in codes \/ failed \cap {"bic_format_valid", "iban_format_valid"} # {},
         AM04        |-> "AM04" \in codes,
         MISSING_SSI |-> "AC01" \in codes \/ "ssi_exists" \in failed]
      matched == {p \in DOMAIN condition : condition[p]}
  IN CASE matched = {} -> "UNKNOWN"
       [] \E p \in matched : matched = {p} -> CHOOSE p \in matched : TRUE
       [] OTHER -> "COMPOUND"

(* _TRIAGE_PATH_TO_NODE, through the edges of gather_context.              *)
NodeOfPath ==
  [AG01 |-> "ag01_handler", MISSING_SSI |-> "lookup_ssi", BE01 |-> "be01_handler",
   AM04 |-> "fo_side_handler", COMPOUND |-> "rag_context", UNKNOWN |-> "rag_context"]

(* Mutant: the guard on action_taken is forgotten.                         *)
RouteAfterAgent_NoGuard(ck) ==
  IF ck.last = "text" THEN "END"
  ELSE IF ck.last = "read" THEN "read_tools" ELSE NodeOfTool[ck.last]

(* Mutant: the name of the tool is taken for the name of its node.         *)
RouteAfterAgent_ToolName(ck) ==
  IF ck.last = "text" \/ ck.action THEN "END"
  ELSE IF ck.last = "read" THEN "read_tools" ELSE ck.last

(* _route_after_agent, the same in both graphs: once an action has been    *)
(* taken, or the trade escalated, whatever the agent asks for ends the run.*)
RouteAfterAgent(ck) ==
  IF ck.last = "text" \/ ck.action THEN "END"
  ELSE IF ck.last = "read" THEN "read_tools" ELSE NodeOfTool[ck.last]

(* The node that executes the tools and the nodes after an approved one.   *)
LlmNode(agent) == IF agent = "bo" THEN "deep_investigation" ELSE "agent"

(* Where the edge out of a HITL node leads: the summary on a deterministic *)
(* path, the investigation otherwise.                                      *)
AfterHitl(n) ==
  IF n \in {"reactivate_counterparty_node", "register_ssi_node", "send_back_to_fo_node",
            "create_amend_event_node", "create_cancel_event_node"}
  THEN "agent" ELSE "deep_investigation"

-----------------------------------------------------------------------------
(* A checkpoint: the graph state and the node to run next.  A field that   *)
(* no later node reads is back at its initial value: the codes of the      *)
(* error message and the send-back flag once they have routed the run, the *)
(* offered SSI after the request to register it was decided.               *)

Node == {"model_router", "gather_context", "ag01_handler", "lookup_ssi",
         "prepare_register_ssi", "ssi_not_found_escalate", "be01_handler",
         "fo_side_handler", "rag_context", "agent", "deep_investigation", "read_tools"}
        \cup HitlNode

Last == {"human", "text", "read", "tool"} \cup HitlTool

(* The state start() hands to the graph.                                   *)
InitialState(agent, codes) ==
  [agent |-> agent, next |-> "model_router", last |-> "human", action |-> FALSE,
   codes |-> codes, sentback |-> FALSE, offer |-> NoSsi]

GoTo(ck, n) == [ck EXCEPT !.next = n]

(* The assistant message of a deterministic handler asks for one tool; the *)
(* edge leads to the node that executes it.                                *)
Request(ck, tool, node) == [ck EXCEPT !.last = tool, !.next = node]

(* escalate_to_bo_user has been called: the run counts as acted.           *)
Escalated(ck) ==
  [ck EXCEPT !.last = "human", !.action = TRUE, !.next = "agent", !.sentback = FALSE]

(* gather_context reads the trade and its stored check results, and goes   *)
(* on without them when they cannot be read.  The one of the FO agent only *)
(* adds to the messages.                                                   *)
BoGatherContext(ck, trade) ==
  LET gathered == [ck EXCEPT !.codes = {}]
      path == DetermineTriagePath(ck.codes, trade.results)
  IN {GoTo(gathered, NodeOfPath["UNKNOWN"]),
      [gathered EXCEPT !.sentback = path = "AM04" /\ trade.sendback > 0,
                       !.next = NodeOfPath[path]]}
FoGatherContext(ck) == {GoTo([ck EXCEPT !.codes = {}], "agent")}

Ag01Handler(ck) == {Request(ck, "reactivate_counterparty", "reactivate_counterparty_node")}

(* The external SSI for the currency the trade settles in.                 *)
LookupSsi(ck, trade, external) ==
  LET offer == external[trade.settlement] IN
  {[ck EXCEPT !.offer = offer,
              !.next = IF offer.exists THEN "prepare_register_ssi" ELSE "ssi_not_found_escalate"]}

PrepareRegisterSsi(ck) == {Request(ck, "register_ssi", "register_ssi_node")}

FoSideHandler(ck) ==
  {IF ck.sentback THEN Escalated(ck) ELSE Request(ck, "send_back_to_fo", "send_back_to_fo_node")}

(* An LLM may answer with text or ask for any tools it was given.          *)
LlmAnswers(ck) ==
  LET answered(l) == [ck EXCEPT !.last = l, !.offer = NoSsi] IN
  {GoTo(answered(l), RouteAfterAgent(answered(l))) :
     l \in {"text", "read"} \cup HitlTools(ck.agent)}

ReadTools(ck) == {[GoTo(ck, LlmNode(ck.agent)) EXCEPT !.last = "tool"]}

(* What running the next node, one that needs no approval, can make of a   *)
(* checkpoint, given the trade and the SSIs of the external source.        *)
NodeResults(ck, trade, external) ==
  CASE ck.next = "model_router" -> {GoTo(ck, "gather_context")}
    [] ck.next = "gather_context" ->
         IF ck.agent = "bo" THEN BoGatherContext(ck, trade) ELSE FoGatherContext(ck)
    [] ck.next = "ag01_handler" -> Ag01Handler(ck)
    [] ck.next = "lookup_ssi" -> LookupSsi(ck, trade, external)
    [] ck.next = "prepare_register_ssi" -> PrepareRegisterSsi(ck)
    [] ck.next \in {"ssi_not_found_escalate", "be01_handler"} -> {Escalated(ck)}
    [] ck.next = "fo_side_handler" -> FoSideHandler(ck)
    [] ck.next = "rag_context" -> {GoTo(ck, "deep_investigation")}
    [] ck.next \in {"agent", "deep_investigation"} -> LlmAnswers(ck)
    [] ck.next = "read_tools" -> ReadTools(ck)
=============================================================================
