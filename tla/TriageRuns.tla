----------------------------- MODULE TriageRuns -----------------------------
(***************************************************************************)
(* Triage runs (bo_triage_use_case.py, fo_triage_use_case.py and their     *)
(* routers): a request starts a run or resumes it with an operator's       *)
(* decision, runs the graph node by node with a checkpoint after each,     *)
(* stops in front of a node that needs approval or at the end, and saves   *)
(* what it found to the history.  The use case asks the checkpointer for   *)
(* the latest checkpoint of the run up to three times in one request, and  *)
(* nothing keeps a second request away from the run in between.            *)
(***************************************************************************)
EXTENDS TriageGraph, Sequences

CONSTANTS
  Run,          \* triage runs, as many as are explored
  Handler,      \* worker threads
  Agent,        \* the agents explored: "bo", "fo"
  Currency,     \* currencies of trades and SSIs
  Field,        \* the SSI fields that can be malformed: "bic", "iban"
  Message,      \* the error messages explored, each the set of its codes
  MaxSendback,  \* the send-back count saturates here: the code tests >= 1
  MaxActs,      \* bound on the approved actions explored in one run
  Environment   \* what else happens while the system is explored

(* "failure": requests fail; "restart": the process restarts; "memory": its*)
(* checkpointer may fall back to memory; "auto": the rule engine starts    *)
(* runs; "patch": master data is changed; "amended": the trade's currency  *)
(* has been amended.  The refresh of the demo data is not explored.        *)
ASSUME TriageAssumption ==
  /\ Agent \subseteq {"bo", "fo"}
  /\ Field \subseteq {"bic", "iban"}
  /\ Message \subseteq SUBSET ErrorCode
  /\ MaxSendback \in Nat \ {0} /\ MaxActs \in Nat
  /\ Environment \subseteq {"failure", "restart", "auto", "patch", "amended", "memory"}

VARIABLES
  saver,    \* the checkpointer this process uses: "postgres" or "memory"
  store,    \* what each checkpointer holds: a checkpoint for every run
  work,     \* what each handler's request still has to do
  history,  \* triage_runs, by run id
  acted,    \* for every run, the HITL nodes whose tool took effect, in order
  cp,       \* the counterparty of the trade
  ssi,      \* settlement_instructions that are internal, by currency
  external, \* those that are external
  trade     \* the trade: its currencies, send-backs and stored BO results

graphVars == <<saver, store, history, acted>>
dataVars == <<cp, ssi, external, trade>>
vars == <<graphVars, work, dataVars>>

Ssi == {NoSsi} \cup {SsiRow(bad) : bad \in SUBSET Field}

(* The checkpoint of a thread the checkpointer does not know, and of one   *)
(* that only the memory of an earlier process knew.                        *)
NoRun == [next |-> "unknown"]
LostRun == [next |-> "lost"]

Checkpoint ==
  [agent : Agent, next : Node \cup {"END"}, last : Last, action : BOOLEAN,
   codes : Message \cup {{}}, sentback : BOOLEAN, offer : Ssi]

(* get_state: the latest checkpoint of the run.                            *)
Latest(r) == store[saver][r]
Write(r, ck) == store' = [store EXCEPT ![saver][r] = ck]
IsRun(ck) == ck \notin {NoRun, LostRun}

(* Mutant: only the nodes of the deterministic paths count as pauses.      *)
Paused_Deterministic(ck) ==
  ck.next \in {"reactivate_counterparty_node", "register_ssi_node", "send_back_to_fo_node"}

(* _build_result's test of snapshot.next                                   *)
Paused(ck) == ck.next \in HitlNode

-----------------------------------------------------------------------------
(* A request.  `decision` tells how it came about: a start from the screen,*)
(* a start by the rule engine's auto trigger, or a resume.                 *)

Idle == [at |-> "idle"]
Decision == {"start", "auto", "approve", "reject"}

RequestWork ==
  [at : {"reject"}, run : Run, seen : Checkpoint]
  \cup [at : {"invoke", "result"}, run : Run, decision : Decision]
  \cup [at : {"graph"}, run : Run, decision : Decision, ck : Checkpoint, resumed : BOOLEAN]
  \cup [at : {"tool"}, run : Run, decision : Decision, ck : Checkpoint]
  \cup [at : {"save"}, run : Run, status : {"PENDING_APPROVAL", "COMPLETED"}, action : BOOLEAN]

SetWork(h, w) == work' = [work EXCEPT ![h] = w]

NotSaved == [status |-> "none", action |-> FALSE]
HistoryRow == [status : {"none", "unsaved", "PENDING_APPROVAL", "COMPLETED"}, action : BOOLEAN]

(* Somebody has the run's id: from the answer to the start, or from the    *)
(* history.                                                                *)
Known(r) == history[r].status # "none"

(* The graph goes on in memory from a checkpoint; `resumed` says that the  *)
(* next node is run even if it is one to stop at.                          *)
Graph(r, decision, ck, resumed) ==
  [at |-> "graph", run |-> r, decision |-> decision, ck |-> ck, resumed |-> resumed]
Then(at, w) == [at |-> at, run |-> w.run, decision |-> w.decision]

-----------------------------------------------------------------------------
(* POST /trades/{id}/bo-triage, /fo-triage: start(); the run id is new.    *)
Start(h, r, agent, codes, decision) ==
  LET ck == InitialState(agent, codes) IN
  /\ work[h] = Idle
  /\ history[r] = NotSaved /\ acted[r] = <<>>
  /\ \A s \in {"postgres", "memory"} : store[s][r] = NoRun
  /\ decision = "auto" => "auto" \in Environment
  /\ Write(r, ck)
  /\ SetWork(h, Graph(r, decision, ck, FALSE))
  /\ UNCHANGED <<saver, history, acted, dataVars>>

(* A node that needs no approval, and the checkpoint after it.             *)
GraphNode(h) ==
  LET w == work[h] IN
  /\ w.at = "graph"
  /\ w.ck.next \notin HitlNode \cup {"END"}
  /\ \E ck \in NodeResults(w.ck, trade, external) :
       /\ Write(w.run, ck)
       /\ SetWork(h, Graph(w.run, w.decision, ck, FALSE))
  /\ UNCHANGED <<saver, history, acted, dataVars>>

(* interrupt_before: the graph stops in front of a HITL node unless the    *)
(* invocation has just resumed there, and at the end.                      *)
GraphStops(h) ==
  LET w == work[h] IN
  /\ w.at = "graph"
  /\ w.ck.next = "END" \/ (w.ck.next \in HitlNode /\ ~w.resumed)
  /\ SetWork(h, Then("result", w))
  /\ UNCHANGED <<graphVars, dataVars>>

(* Mutant: the SSI is registered as another external one.                  *)
RegisterSsi_External(ccy, row) ==
  /\ external' = [external EXCEPT ![ccy] = row]
  /\ UNCHANGED <<cp, ssi, trade>>

(* register_ssi: insert or update the internal SSI.                        *)
RegisterSsi(ccy, row) ==
  /\ ssi' = [ssi EXCEPT ![ccy] = row]
  /\ UNCHANGED <<cp, external, trade>>

(* What the tool of a HITL node does to the database, when it succeeds.    *)
(* The arguments are the ones the deterministic handler put together, or   *)
(* whatever an LLM asked for.  The tools that propose events write tables  *)
(* of TradeStore (AgentTools).                                             *)
ToolEffect(ck) ==
  CASE ck.next = "register_ssi_node" -> RegisterSsi(trade.settlement, ck.offer)
    [] ck.next = "register_ssi_node_di" ->
         \E ccy \in Currency, bad \in SUBSET Field : RegisterSsi(ccy, SsiRow(bad))
    [] ck.next = "update_ssi_node_di" ->
         \E ccy \in Currency, bad \in SUBSET Field :
           ssi[ccy].exists /\ RegisterSsi(ccy, SsiRow(bad))
    [] ck.next \in {"reactivate_counterparty_node", "reactivate_counterparty_node_di"} ->
         /\ cp # "missing" /\ cp' = "active"
         /\ UNCHANGED <<ssi, external, trade>>
    [] ck.next \in {"send_back_to_fo_node", "send_back_to_fo_node_di"} ->
         /\ trade' = [trade EXCEPT !.sendback = IF @ < MaxSendback THEN @ + 1 ELSE @]
         /\ UNCHANGED <<cp, ssi, external>>
    [] ck.next \in {"create_amend_event_node", "create_cancel_event_node"} ->
         UNCHANGED dataVars

(* The tool of a HITL node commits ...                                     *)
ToolActs(h) ==
  LET w == work[h] IN
  /\ w.at = "graph" /\ w.ck.next \in HitlNode /\ w.resumed
  /\ ToolEffect(w.ck)
  /\ acted' = [acted EXCEPT ![w.run] = Append(@, w.ck.next)]
  /\ SetWork(h, [at |-> "tool", run |-> w.run, decision |-> w.decision, ck |-> w.ck])
  /\ UNCHANGED <<saver, store, history>>

(* ... or finds nothing to act on, or raises, which the node reports to    *)
(* the agent ...                                                           *)
ToolFails(h) ==
  LET w == work[h] IN
  /\ w.at = "graph" /\ w.ck.next \in HitlNode /\ w.resumed
  /\ SetWork(h, [at |-> "tool", run |-> w.run, decision |-> w.decision, ck |-> w.ck])
  /\ UNCHANGED <<graphVars, dataVars>>

(* ... and then the checkpoint after the node is written, which counts the *)
(* action as taken in either case.                                         *)
ToolRecorded(h) ==
  LET w == work[h]
      ck == [w.ck EXCEPT !.last = "tool", !.action = TRUE, !.next = AfterHitl(w.ck.next)]
  IN /\ w.at = "tool"
     /\ Write(w.run, ck)
     /\ SetWork(h, Graph(w.run, w.decision, ck, FALSE))
     /\ UNCHANGED <<saver, history, acted, dataVars>>

-----------------------------------------------------------------------------
(* _build_result and the router: the latest checkpoint decides whether the *)
(* run is pending or completed; a resume reports the operator's decision   *)
(* as the action taken.  A run of the auto trigger is not saved.           *)
BuildResult(h) ==
  LET w == work[h]
      head == Latest(w.run)
  IN /\ w.at = "result"
     /\ SetWork(h,
          IF w.decision = "auto" THEN Idle
          ELSE [at |-> "save", run |-> w.run,
                status |-> IF Paused(head) THEN "PENDING_APPROVAL" ELSE "COMPLETED",
                action |-> ~Paused(head) /\ (IF w.decision = "start" THEN head.action
                                             ELSE w.decision = "approve")])
     /\ UNCHANGED <<graphVars, dataVars>>

(* TriageResultRepository.save: insert or update by run id.  Both routers  *)
(* swallow a failure to save and answer all the same.                      *)
Save(h) ==
  LET w == work[h] IN
  /\ w.at = "save"
  /\ history' = [history EXCEPT ![w.run] = [status |-> w.status, action |-> w.action]]
  /\ SetWork(h, Idle)
  /\ UNCHANGED <<saver, store, acted, dataVars>>

SaveFails(h) ==
  LET w == work[h] IN
  /\ "failure" \in Environment
  /\ w.at = "save"
  /\ history' = [history EXCEPT ![w.run].status = IF @ = "none" THEN "unsaved" ELSE @]
  /\ SetWork(h, Idle)
  /\ UNCHANGED <<saver, store, acted, dataVars>>

-----------------------------------------------------------------------------
(* POST .../{run_id}/resume.  Only the run id is sent: the request decides *)
(* whatever the run is asking by then.                                     *)

ResumeApproved(h, r) ==
  /\ work[h] = Idle
  /\ Known(r) /\ IsRun(Latest(r))
  /\ Len(acted[r]) < MaxActs
  /\ SetWork(h, [at |-> "invoke", run |-> r, decision |-> "approve"])
  /\ UNCHANGED <<graphVars, dataVars>>

(* A rejection is for the action asked for in the last message; without    *)
(* one the request fails.  The BO use case also fails when the run is at   *)
(* its end; the FO use case does not look.                                 *)
CanReject(ck) ==
  /\ IsRun(ck)
  /\ ck.last \in HitlTool
  /\ ck.agent = "bo" => ck.next # "END"

ResumeRejected(h, r) ==
  /\ work[h] = Idle
  /\ Known(r) /\ CanReject(Latest(r))
  /\ SetWork(h, [at |-> "reject", run |-> r, seen |-> Latest(r)])
  /\ UNCHANGED <<graphVars, dataVars>>

(* Mutant: the rejection is added without saying which node it stands for. *)
RejectedAs_Nothing(seen) == seen.next

(* update_state(as_node = ...): the rejection takes the place of the HITL  *)
(* node's answer, and the edge out of that node says what is next.         *)
RejectedAs(seen) ==
  AfterHitl(IF seen.agent = "bo" THEN seen.next ELSE NodeOfTool[seen.last])

RejectWrite(h) ==
  LET w == work[h] IN
  /\ w.at = "reject"
  /\ Write(w.run, [Latest(w.run) EXCEPT !.last = "tool", !.next = RejectedAs(w.seen)])
  /\ SetWork(h, [at |-> "invoke", run |-> w.run, decision |-> "reject"])
  /\ UNCHANGED <<saver, history, acted, dataVars>>

(* invoke(None): go on from the latest checkpoint.                         *)
Invoke(h) ==
  LET w == work[h] IN
  /\ w.at = "invoke"
  /\ SetWork(h, Graph(w.run, w.decision, Latest(w.run), TRUE))
  /\ UNCHANGED <<graphVars, dataVars>>

-----------------------------------------------------------------------------
(* The rest of the program, and what can go wrong.                         *)

(* run_bo_check looks the SSI up by the trade's currency.                  *)
BoResults == FailedBoRules(cp, ssi[trade.currency])

BoCheck(h) ==
  /\ work[h] = Idle
  /\ trade' = [trade EXCEPT !.results = BoResults]
  /\ UNCHANGED <<graphVars, work, cp, ssi, external>>

(* PATCH /counterparties/{lei} and PATCH /ssis/{id}                        *)
UpdateCounterparty(h) ==
  /\ "patch" \in Environment
  /\ work[h] = Idle
  /\ cp # "missing"
  /\ cp' \in {"active", "inactive"}
  /\ UNCHANGED <<graphVars, work, ssi, external, trade>>

UpdateSsi(h, ccy) ==
  /\ "patch" \in Environment
  /\ work[h] = Idle
  /\ ssi[ccy].exists
  /\ \E bad \in SUBSET Field : ssi' = [ssi EXCEPT ![ccy] = SsiRow(bad)]
  /\ UNCHANGED <<graphVars, work, cp, external, trade>>

(* An LLM, database or checkpointer error ends the request with an error.  *)
RequestFails(h) ==
  /\ "failure" \in Environment
  /\ work[h] # Idle
  /\ SetWork(h, Idle)
  /\ UNCHANGED <<graphVars, dataVars>>

(* get_checkpointer chooses once per process, and falls back to its memory *)
(* when PostgreSQL cannot be reached.                                      *)
Savers == {"postgres"} \cup (IF "memory" \in Environment THEN {"memory"} ELSE {})

Restart ==
  /\ "restart" \in Environment
  /\ work' = [h \in Handler |-> Idle]
  /\ saver' \in Savers
  /\ store' = [store EXCEPT !["memory"] =
                 [r \in Run |-> IF @[r] = NoRun THEN NoRun ELSE LostRun]]
  /\ UNCHANGED <<history, acted, dataVars>>

-----------------------------------------------------------------------------
Init ==
  /\ saver \in Savers
  /\ store = [s \in {"postgres", "memory"} |-> [r \in Run |-> NoRun]]
  /\ work = [h \in Handler |-> Idle]
  /\ history = [r \in Run |-> NotSaved]
  /\ acted = [r \in Run |-> <<>>]
  /\ cp \in {"missing", "inactive", "active"}
  /\ ssi \in [Currency -> Ssi]
  /\ external \in [Currency -> Ssi]
  /\ trade \in [currency : Currency, settlement : Currency, sendback : {0}, results : {{}}]
  /\ "amended" \in Environment \/ trade.currency = trade.settlement

(* What a request does once it has begun.                                  *)
Continue(h) ==
  \/ GraphNode(h) \/ GraphStops(h)
  \/ ToolActs(h) \/ ToolFails(h) \/ ToolRecorded(h)
  \/ RejectWrite(h) \/ Invoke(h)
  \/ BuildResult(h) \/ Save(h) \/ SaveFails(h)

Next ==
  \/ \E h \in Handler :
       \/ \E r \in Run :
            \/ \E agent \in Agent, codes \in Message, decision \in {"start", "auto"} :
                 Start(h, r, agent, codes, decision)
            \/ ResumeApproved(h, r)
            \/ ResumeRejected(h, r)
       \/ Continue(h)
       \/ BoCheck(h)
       \/ UpdateCounterparty(h)
       \/ \E ccy \in Currency : UpdateSsi(h, ccy)
       \/ RequestFails(h)
  \/ Restart

Spec == Init /\ [][Next]_vars
FairSpec == Spec /\ \A h \in Handler : WF_vars(Continue(h))
=============================================================================
