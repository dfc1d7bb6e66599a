---------------------------- MODULE Triage_proofs ----------------------------
(***************************************************************************)
(* What triage runs guarantee for any number of runs, worker threads and   *)
(* currencies, with failures, restarts, the fallback to memory and master  *)
(* data that changes.  Checkpoints are sound however requests overlap; a   *)
(* run keeps its promise to operators while no two requests for the same   *)
(* run overlap.                                                            *)
(***************************************************************************)
EXTENDS Triage, TLAPS

Saver == {"postgres", "memory"}

-----------------------------------------------------------------------------
(* What the graphs make of a checkpoint.                                   *)

BoTool == {"register_ssi", "reactivate_counterparty", "update_ssi", "send_back_to_fo"}
FoTool == {"create_amend_event", "create_cancel_event"}
Investigation == {"agent", "deep_investigation"}

(* The tools that need approval, and the nodes that execute them.          *)
LEMMA Tools ==
  /\ HitlTools("bo") = BoTool /\ HitlTools("fo") = FoTool
  /\ HitlTool = BoTool \cup FoTool
  /\ HitlNode = {"reactivate_counterparty_node", "register_ssi_node", "send_back_to_fo_node",
                 "reactivate_counterparty_node_di", "register_ssi_node_di", "update_ssi_node_di",
                 "send_back_to_fo_node_di", "create_amend_event_node", "create_cancel_event_node"}
  /\ \A tool \in HitlTool : NodeOfTool[tool] \in HitlNode \ {"register_ssi_node"}
<1>1. HitlTools("bo") = BoTool /\ HitlTools("fo") = FoTool
  BY DEF HitlTools, BoHitlToolToNode, FoHitlToolToNode, BoTool, FoTool
<1>2. HitlTool = BoTool \cup FoTool
  BY <1>1 DEF HitlTool
<1>3. HitlNode = {"reactivate_counterparty_node", "register_ssi_node", "send_back_to_fo_node",
                 "reactivate_counterparty_node_di", "register_ssi_node_di", "update_ssi_node_di",
                 "send_back_to_fo_node_di", "create_amend_event_node", "create_cancel_event_node"}
  BY DEF HitlNode, ToolOfNode
<1>4. ASSUME NEW tool \in HitlTool
      PROVE  NodeOfTool[tool] \in HitlNode \ {"register_ssi_node"}
  <2>1. CASE tool \in BoTool
    <3>1. NodeOfTool[tool] = BoHitlToolToNode[tool]
      BY <1>1, <2>1 DEF NodeOfTool
    <3>2. QED
      BY <1>3, <2>1, <3>1 DEF BoHitlToolToNode, BoTool
  <2>2. CASE tool \in FoTool
    <3>1. NodeOfTool[tool] = FoHitlToolToNode[tool]
      BY <1>1, <2>2 DEF NodeOfTool, BoTool, FoTool
    <3>2. QED
      BY <1>3, <2>2, <3>1 DEF FoHitlToolToNode, FoTool
  <2>3. QED
    BY <1>2, <2>1, <2>2
<1>5. QED
  BY <1>1, <1>2, <1>3, <1>4

(* What every checkpoint satisfies, however requests for its run overlap:  *)
(* an SSI is registered only when one is on offer, a request for a tool    *)
(* leads to its node or to the end, and after an action the run only sums  *)
(* up.                                                                     *)
Sound(ck) ==
  /\ ck.next \in {"prepare_register_ssi", "register_ssi_node"} => ck.offer.exists
  /\ ck.last \in HitlTool => ck.next \in HitlNode \/ (ck.next = "END" /\ ck.action)
  /\ ck.action => ck.next \in Investigation \cup {"END"}
  /\ ck.next = "END" => ck.last = "text" \/ ck.action

Datum == [currency : Currency, settlement : Currency, sendback : 0 .. MaxSendback,
          results : SUBSET BoRule]

LEMMA StartIsSound ==
  ASSUME NEW agent \in Agent, NEW codes \in Message
  PROVE  InitialState(agent, codes) \in Checkpoint /\ Sound(InitialState(agent, codes))
BY Tools DEF InitialState, Checkpoint, Sound, Node, Last, Ssi, BoTool, FoTool

LEMMA CheckpointIsRun ==
  ASSUME NEW ck \in Checkpoint
  PROVE  IsRun(ck)
BY Tools DEF Checkpoint, Node, IsRun, NoRun, LostRun

(* An answer of an LLM.                                                    *)
LEMMA LlmAnswersSound ==
  ASSUME NEW ck \in Checkpoint, Sound(ck), ck.next \in Investigation,
         NEW new \in LlmAnswers(ck)
  PROVE  /\ new \in Checkpoint /\ Sound(new)
         /\ new.agent = ck.agent /\ new.action = ck.action
         /\ ck.action => new.next = "END"
<1> DEFINE answered(l) == [ck EXCEPT !.last = l, !.offer = NoSsi]
<1>1. PICK l \in {"text", "read"} \cup HitlTools(ck.agent) :
        new = GoTo(answered(l), RouteAfterAgent(answered(l)))
  BY DEF LlmAnswers
<1>2. l \in {"text", "read"} \cup HitlTool /\ l \in Last
  BY <1>1, Tools, TriageAssumption DEF Checkpoint, Last, HitlTool
<1>3. NoSsi \in Ssi
  BY DEF Ssi
<1>4. answered(l) \in Checkpoint /\ answered(l).last = l /\ answered(l).action = ck.action
  BY <1>2, <1>3 DEF Checkpoint
<1>5. RouteAfterAgent(answered(l)) =
        IF l = "text" \/ ck.action THEN "END"
        ELSE IF l = "read" THEN "read_tools" ELSE NodeOfTool[l]
  <2> HIDE DEF answered
  <2>1. QED
    BY <1>4 DEF RouteAfterAgent
<1> DEFINE n == RouteAfterAgent(answered(l))
<1>6. /\ n \in Node \cup {"END"} /\ n \notin {"prepare_register_ssi", "register_ssi_node"}
      /\ l \in HitlTool => n \in HitlNode \/ (n = "END" /\ ck.action)
      /\ ck.action => n = "END"
      /\ n = "END" => l = "text" \/ ck.action
  BY <1>2, <1>5, Tools DEF Node, BoTool, FoTool
<1> HIDE DEF n
<1>7. /\ new \in Checkpoint
      /\ new.next = n /\ new.last = l /\ new.action = ck.action /\ new.agent = ck.agent
  <2>1. new = [answered(l) EXCEPT !.next = n]
    BY <1>1 DEF GoTo, n
  <2>2. new = [ck EXCEPT !.last = l, !.offer = NoSsi, !.next = n]
    BY <2>1 DEF Checkpoint
  <2>3. QED
    BY <1>2, <1>3, <1>6, <2>2 DEF Checkpoint
<1>8. QED
  BY <1>6, <1>7 DEF Sound

(* The path the failure is triaged on, and gather_context.                 *)
LEMMA PathIs ==
  ASSUME NEW codes, NEW failed
  PROVE  DetermineTriagePath(codes, failed)
           \in {"AG01", "BE01", "AM04", "MISSING_SSI", "UNKNOWN", "COMPOUND"}
<1> DEFINE condition ==
      [AG01        |-> "AG01" \in codes \/ "counterparty_active" \in failed,
       BE01        |-> "BE01" \in codes \/ failed \cap {"bic_format_valid", "iban_format_valid"} # {},
       AM04        |-> "AM04" \in codes,
       MISSING_SSI |-> "AC01" \in codes \/ "ssi_exists" \in failed]
           matched == {p \in DOMAIN condition : condition[p]}
<1>1. DOMAIN condition = {"AG01", "BE01", "AM04", "MISSING_SSI"}
  OBVIOUS
<1>2. matched \subseteq {"AG01", "BE01", "AM04", "MISSING_SSI"}
  BY <1>1
<1> HIDE DEF condition
<1>3. DetermineTriagePath(codes, failed) =
        CASE matched = {} -> "UNKNOWN"
          [] \E p \in matched : matched = {p} -> CHOOSE p \in matched : TRUE
          [] OTHER -> "COMPOUND"
  BY DEF DetermineTriagePath, condition
<1> HIDE DEF matched
<1>4. CASE matched = {}
  BY <1>3, <1>4
<1>5. CASE \E p \in matched : matched = {p}
  <2>1. matched # {} /\ (CHOOSE p \in matched : TRUE) \in matched
    BY <1>5
  <2>2. DetermineTriagePath(codes, failed) = CHOOSE p \in matched : TRUE
    BY <1>3, <1>5, <2>1
  <2>3. QED
    BY <1>2, <2>1, <2>2
<1>6. CASE matched # {} /\ ~ \E p \in matched : matched = {p}
  BY <1>3, <1>6
<1>7. QED
  BY <1>4, <1>5, <1>6

LEMMA GatherSound ==
  ASSUME NEW ck \in Checkpoint, Sound(ck), ck.next = "gather_context", NEW tr,
         NEW new \in BoGatherContext(ck, tr) \cup FoGatherContext(ck)
  PROVE  new \in Checkpoint /\ Sound(new) /\ ~new.action
<1> DEFINE path == DetermineTriagePath(ck.codes, tr.results)
<1>1. path \in {"AG01", "BE01", "AM04", "MISSING_SSI", "UNKNOWN", "COMPOUND"}
  BY PathIs
<1>2. \A p \in {"AG01", "BE01", "AM04", "MISSING_SSI", "UNKNOWN", "COMPOUND"} :
        NodeOfPath[p] \in {"ag01_handler", "lookup_ssi", "be01_handler", "fo_side_handler",
                           "rag_context"}
  BY DEF NodeOfPath
<1> HIDE DEF path
<1>3. PICK n \in {"ag01_handler", "lookup_ssi", "be01_handler", "fo_side_handler",
                  "rag_context", "agent"}, s \in BOOLEAN :
        new = [ck EXCEPT !.codes = {}, !.sentback = s, !.next = n]
  <2>1. CASE new \in FoGatherContext(ck)
    <3>1. new = [ck EXCEPT !.codes = {}, !.sentback = ck.sentback, !.next = "agent"]
      BY <2>1 DEF FoGatherContext, GoTo, Checkpoint
    <3>2. QED
      BY <3>1 DEF Checkpoint
  <2>2. CASE new = GoTo([ck EXCEPT !.codes = {}], NodeOfPath["UNKNOWN"])
    <3>1. new = [ck EXCEPT !.codes = {}, !.sentback = ck.sentback, !.next = NodeOfPath["UNKNOWN"]]
      BY <2>2 DEF GoTo, Checkpoint
    <3>2. QED
      BY <1>2, <3>1 DEF Checkpoint
  <2>3. CASE new \in BoGatherContext(ck, tr) /\ new # GoTo([ck EXCEPT !.codes = {}], NodeOfPath["UNKNOWN"])
    <3>1. new = [[ck EXCEPT !.codes = {}]
                   EXCEPT !.sentback = path = "AM04" /\ tr.sendback > 0, !.next = NodeOfPath[path]]
      BY <2>3 DEF BoGatherContext, path
    <3>2. new = [ck EXCEPT !.codes = {}, !.sentback = path = "AM04" /\ tr.sendback > 0,
                           !.next = NodeOfPath[path]]
      BY <3>1 DEF Checkpoint
    <3>3. QED
      BY <1>1, <1>2, <3>2
  <2>4. QED
    BY <2>1, <2>2, <2>3
<1>4. /\ new \in Checkpoint
      /\ new.next = n /\ new.last = ck.last /\ new.action = ck.action
  BY <1>3 DEF Checkpoint, Node
<1>5. ~ck.action /\ ck.last \notin HitlTool
  BY Tools DEF Sound, Investigation
<1>6. QED
  BY <1>4, <1>5 DEF Sound

(* What running a node that needs no approval leaves behind.               *)
LEMMA NodeResultsSound ==
  ASSUME NEW ck \in Checkpoint, Sound(ck), ck.next \notin HitlNode \cup {"END"},
         NEW tr \in Datum, NEW ext \in [Currency -> Ssi], NEW new \in NodeResults(ck, tr, ext)
  PROVE  new \in Checkpoint /\ Sound(new) /\ (ck.action => new.action)
<1> USE DEF Investigation
<1>a. ck.last \notin HitlTool /\ ck.last \in Last /\ ck.next \in Node
  BY DEF Sound, Checkpoint
<1>1. CASE ck.next \in {"model_router", "rag_context", "read_tools"}
  <2>1. PICK n \in {"gather_context", "agent", "deep_investigation"}, l \in {ck.last, "tool"} :
          new = [ck EXCEPT !.next = n, !.last = l]
    <3>1. CASE ck.next = "model_router"
      <4>1. new = [ck EXCEPT !.next = "gather_context"]
        BY <3>1 DEF NodeResults, GoTo
      <4>2. new = [ck EXCEPT !.next = "gather_context", !.last = ck.last]
        BY <4>1 DEF Checkpoint
      <4>3. QED
        BY <4>2
    <3>2. CASE ck.next = "rag_context"
      <4>1. new = [ck EXCEPT !.next = "deep_investigation"]
        BY <3>2 DEF NodeResults, GoTo
      <4>2. new = [ck EXCEPT !.next = "deep_investigation", !.last = ck.last]
        BY <4>1 DEF Checkpoint
      <4>3. QED
        BY <4>2
    <3>3. CASE ck.next = "read_tools"
      <4>1. new = [[ck EXCEPT !.next = LlmNode(ck.agent)] EXCEPT !.last = "tool"]
        BY <3>3 DEF NodeResults, ReadTools, GoTo
      <4>2. new = [ck EXCEPT !.next = LlmNode(ck.agent), !.last = "tool"]
        BY <4>1 DEF Checkpoint
      <4>3. LlmNode(ck.agent) \in {"agent", "deep_investigation"}
        BY DEF LlmNode
      <4>4. QED
        BY <4>2, <4>3
    <3>4. QED
      BY <1>1, <3>1, <3>2, <3>3
  <2>2. ~ck.action
    BY <1>1 DEF Sound
  <2>3. new \in Checkpoint /\ new.next = n /\ new.last = l /\ new.action = ck.action
    BY <1>a, <2>1 DEF Checkpoint, Node, Last
  <2>4. l \notin HitlTool
    BY <1>a, Tools DEF BoTool, FoTool
  <2>5. QED
    BY <2>2, <2>3, <2>4 DEF Sound
<1>2. CASE ck.next = "gather_context"
  <2>1. new \in BoGatherContext(ck, tr) \cup FoGatherContext(ck)
    BY <1>2 DEF NodeResults
  <2>2. ~ck.action
    BY <1>2 DEF Sound
  <2>3. QED
    BY <1>2, <2>1, <2>2, GatherSound
<1>3. CASE ck.next = "lookup_ssi"
  <2> DEFINE offer == ext[tr.settlement]
             n == IF offer.exists THEN "prepare_register_ssi" ELSE "ssi_not_found_escalate"
  <2>1. new = [ck EXCEPT !.offer = offer, !.next = n]
    BY <1>3 DEF NodeResults, LookupSsi
  <2>2. offer \in Ssi /\ n \in {"prepare_register_ssi", "ssi_not_found_escalate"}
        /\ (n = "prepare_register_ssi" => offer.exists)
    BY DEF Datum
  <2> HIDE DEF offer, n
  <2>3. /\ new \in Checkpoint /\ new.next = n /\ new.last = ck.last /\ new.action = ck.action
        /\ new.offer = offer
    BY <2>1, <2>2 DEF Checkpoint, Node
  <2>4. ~ck.action
    BY <1>3 DEF Sound
  <2>5. QED
    BY <1>a, <2>2, <2>3, <2>4 DEF Sound
<1>4. ASSUME NEW tool \in BoTool,
             NEW n \in {"reactivate_counterparty_node", "register_ssi_node", "send_back_to_fo_node"},
             new = Request(ck, tool, n), n = "register_ssi_node" => ck.offer.exists,
             ck.next \notin {"agent", "deep_investigation"}
      PROVE  new \in Checkpoint /\ Sound(new) /\ (ck.action => new.action)
  <2>1. /\ new \in Checkpoint /\ new.next = n /\ new.last = tool /\ new.action = ck.action
        /\ new.offer = ck.offer
    BY <1>4, Tools DEF Request, Checkpoint, Node, Last
  <2>2. ~ck.action
    BY <1>4 DEF Sound
  <2>3. n \in HitlNode
    BY Tools
  <2>4. QED
    BY <1>4, <2>1, <2>2, <2>3 DEF Sound
<1>5. ASSUME new = Escalated(ck)
      PROVE  new \in Checkpoint /\ Sound(new) /\ (ck.action => new.action)
  <2>1. new \in Checkpoint /\ new.next = "agent" /\ new.last = "human" /\ new.action
    BY <1>5 DEF Escalated, Checkpoint, Node, Last
  <2>2. "human" \notin HitlTool
    BY Tools DEF BoTool, FoTool
  <2>3. QED
    BY <2>1, <2>2 DEF Sound
<1>6. CASE ck.next = "ag01_handler"
  BY <1>4, <1>6 DEF NodeResults, Ag01Handler, BoTool
<1>7. CASE ck.next = "prepare_register_ssi"
  BY <1>4, <1>7 DEF NodeResults, PrepareRegisterSsi, BoTool, Sound
<1>8. CASE ck.next = "fo_side_handler"
  BY <1>4, <1>5, <1>8 DEF NodeResults, FoSideHandler, BoTool
<1>9. CASE ck.next \in {"ssi_not_found_escalate", "be01_handler"}
  BY <1>5, <1>9 DEF NodeResults
<1>10. CASE ck.next \in {"agent", "deep_investigation"}
  <2>1. new \in LlmAnswers(ck)
    BY <1>10 DEF NodeResults
  <2>2. QED
    BY <1>10, <2>1, LlmAnswersSound
<1>11. QED
  BY <1>a, <1>1, <1>2, <1>3, <1>6, <1>7, <1>8, <1>9, <1>10 DEF Node

-----------------------------------------------------------------------------
(* Typing and soundness, however requests overlap.                         *)

WorkSound(w) ==
  /\ w.at \in {"graph", "tool"} => Sound(w.ck)
  /\ w.at = "tool" => w.ck.next \in HitlNode
  /\ w.at = "reject" => CanReject(w.seen)

StoreTyped ==
  /\ saver \in Saver
  /\ store \in [Saver -> [Run -> Checkpoint \cup {NoRun, LostRun}]]
RestTyped ==
  /\ history \in [Run -> HistoryRow]
  /\ acted \in [Run -> Seq(HitlNode)]
  /\ cp \in {"missing", "inactive", "active"}
  /\ ssi \in [Currency -> Ssi]
  /\ external \in [Currency -> Ssi]
  /\ trade \in Datum

(* A request is for a run the checkpointer in use knows.                   *)
Present == \A h \in Handler : work[h] # Idle => IsRun(Latest(work[h].run))

BaseInv ==
  /\ TypeOK
  /\ \A s \in Saver, r \in Run : IsRun(store[s][r]) => Sound(store[s][r])
  /\ \A h \in Handler : WorkSound(work[h])
  /\ Present

LEMMA TypeOKIs ==
  /\ TypeOK <=> StoreTyped /\ work \in [Handler -> {Idle} \cup RequestWork] /\ RestTyped
  /\ TypeOK' <=> StoreTyped' /\ work' \in [Handler -> {Idle} \cup RequestWork] /\ RestTyped'
BY DEF TypeOK, StoreTyped, RestTyped, Saver, Datum

(* What the stage of a request says about its record.                      *)
LEMMA Shape ==
  ASSUME TypeOK, NEW h \in Handler
  PROVE  /\ work[h] # Idle => work[h].run \in Run /\ work[h] \in RequestWork
         /\ work[h].at = "reject" => work[h].seen \in Checkpoint
         /\ work[h].at \in {"invoke", "result", "graph", "tool"} => work[h].decision \in Decision
         /\ work[h].at = "graph" => work[h].ck \in Checkpoint /\ work[h].resumed \in BOOLEAN
         /\ work[h].at = "tool" => work[h].ck \in Checkpoint
         /\ work[h].at = "save" => /\ work[h].status \in {"PENDING_APPROVAL", "COMPLETED"}
                                   /\ work[h].action \in BOOLEAN
         /\ work[h].at = "idle" <=> work[h] = Idle
<1>1. work[h] \in {Idle} \cup RequestWork
  BY DEF TypeOK
<1>2. QED
  BY <1>1 DEF RequestWork, Idle

(* The latest checkpoint of a run that has one.                            *)
LEMMA LatestIs ==
  ASSUME BaseInv, NEW r \in Run, IsRun(Latest(r))
  PROVE  Latest(r) \in Checkpoint /\ Sound(Latest(r))
BY TypeOKIs DEF BaseInv, StoreTyped, Latest, IsRun

(* A request moves on and leaves the checkpoints alone.                    *)
LEMMA RequestMoves ==
  ASSUME BaseInv, NEW h \in Handler, NEW w \in {Idle} \cup RequestWork, SetWork(h, w),
         UNCHANGED <<saver, store>>, WorkSound(w), w # Idle => IsRun(Latest(w.run)), RestTyped'
  PROVE  BaseInv'
<1>1. work'[h] = w /\ \A g \in Handler \ {h} : work'[g] = work[g]
  BY TypeOKIs DEF SetWork, BaseInv
<1>2. work' \in [Handler -> {Idle} \cup RequestWork]
  BY TypeOKIs DEF SetWork, BaseInv
<1>3. TypeOK'
  BY <1>2, TypeOKIs DEF BaseInv, StoreTyped
<1>4. \A g \in Handler : WorkSound(work'[g])
  BY <1>1 DEF BaseInv
<1>5. Present'
  BY <1>1 DEF BaseInv, Present, Latest
<1>6. QED
  BY <1>3, <1>4, <1>5 DEF BaseInv

(* A request moves on and writes a checkpoint of its run.                  *)
LEMMA RequestWrites ==
  ASSUME BaseInv, NEW h \in Handler, NEW w \in RequestWork, SetWork(h, w), WorkSound(w),
         w.run \in Run, NEW ck \in Checkpoint, Sound(ck), Write(w.run, ck),
         UNCHANGED <<saver, history, acted, dataVars>>
  PROVE  BaseInv'
<1>1. work'[h] = w /\ \A g \in Handler \ {h} : work'[g] = work[g]
  BY TypeOKIs DEF SetWork, BaseInv
<1>2. work' \in [Handler -> {Idle} \cup RequestWork]
  BY TypeOKIs DEF SetWork, BaseInv
<1>3. StoreTyped /\ StoreTyped'
  BY TypeOKIs DEF BaseInv, StoreTyped, Write
<1>4. /\ store'[saver][w.run] = ck
      /\ \A s \in Saver, r \in Run : s # saver \/ r # w.run => store'[s][r] = store[s][r]
  BY <1>3 DEF StoreTyped, Write
<1>5. TypeOK'
  BY <1>2, <1>3, TypeOKIs DEF BaseInv, RestTyped, dataVars
<1>6. IsRun(ck)
  BY CheckpointIsRun
<1>7. \A s \in Saver, r \in Run : IsRun(store'[s][r]) => Sound(store'[s][r])
  BY <1>4 DEF BaseInv
<1>8. \A g \in Handler : WorkSound(work'[g])
  BY <1>1 DEF BaseInv
<1>9. Present'
  <2> SUFFICES ASSUME NEW g \in Handler, work'[g] # Idle
               PROVE  IsRun(store'[saver][work'[g].run])
    BY DEF Present, Latest
  <2>1. CASE g = h
    BY <1>1, <1>4, <1>6, <2>1
  <2>2. CASE g # h
    <3>1. work'[g] = work[g] /\ work[g].run \in Run /\ IsRun(store[saver][work[g].run])
      BY <1>1, <2>2, Shape DEF BaseInv, Present, Latest
    <3>2. saver \in Saver
      BY <1>3 DEF StoreTyped
    <3>3. CASE work[g].run = w.run
      BY <1>4, <1>6, <3>1, <3>3
    <3>4. CASE work[g].run # w.run
      BY <1>4, <3>1, <3>2, <3>4
    <3>5. QED
      BY <3>3, <3>4
  <2>3. QED
    BY <2>1, <2>2
<1>10. QED
  BY <1>5, <1>7, <1>8, <1>9 DEF BaseInv

(* What is true of the data after a tool that needed approval.             *)
LEMMA ToolTypes ==
  ASSUME TypeOK, NEW ck \in Checkpoint, ck.next \in HitlNode, ToolEffect(ck)
  PROVE  /\ cp' \in {"missing", "inactive", "active"}
         /\ ssi' \in [Currency -> Ssi] /\ UNCHANGED external /\ trade' \in Datum
         /\ trade'.currency = trade.currency /\ trade'.settlement = trade.settlement
<1> USE DEF ToolEffect
<1>a. /\ cp \in {"missing", "inactive", "active"} /\ ssi \in [Currency -> Ssi]
      /\ trade \in Datum /\ ck.offer \in Ssi
  BY TypeOKIs DEF RestTyped, Checkpoint
<1>b. \A bad \in SUBSET Field : SsiRow(bad) \in Ssi
  BY DEF Ssi
<1>1. CASE ck.next = "register_ssi_node"
  BY <1>1, <1>a DEF RegisterSsi
<1>2. CASE ck.next = "register_ssi_node_di"
  BY <1>2, <1>a, <1>b DEF RegisterSsi
<1>3. CASE ck.next = "update_ssi_node_di"
  BY <1>3, <1>a, <1>b DEF RegisterSsi
<1>4. CASE ck.next \in {"reactivate_counterparty_node", "reactivate_counterparty_node_di"}
  BY <1>4, <1>a
<1>5. CASE ck.next \in {"send_back_to_fo_node", "send_back_to_fo_node_di"}
  <2>1. /\ trade' = [trade EXCEPT !.sendback =
                       IF trade.sendback < MaxSendback THEN trade.sendback + 1 ELSE trade.sendback]
        /\ UNCHANGED <<cp, ssi, external>>
    BY <1>5
  <2>2. (IF trade.sendback < MaxSendback THEN trade.sendback + 1 ELSE trade.sendback)
           \in 0 .. MaxSendback
    BY <1>a, TriageAssumption DEF Datum
  <2>3. QED
    BY <1>a, <2>1, <2>2 DEF Datum
<1>6. CASE ck.next \in {"create_amend_event_node", "create_cancel_event_node"}
  BY <1>6, <1>a DEF dataVars
<1>7. QED
  BY <1>1, <1>2, <1>3, <1>4, <1>5, <1>6, Tools

(* The checkpoint after a node that needed approval, and the one that      *)
(* takes a rejection.                                                      *)
LEMMA DecidedIsSound ==
  ASSUME NEW ck \in Checkpoint, NEW n \in Investigation, NEW a \in BOOLEAN
  PROVE  LET new == [ck EXCEPT !.last = "tool", !.action = a, !.next = n]
         IN  new \in Checkpoint /\ Sound(new)
<1> DEFINE new == [ck EXCEPT !.last = "tool", !.action = a, !.next = n]
<1>1. /\ new \in Checkpoint
      /\ new.last = "tool" /\ new.next = n
  BY DEF Checkpoint, Last, Node, Investigation
<1>2. "tool" \notin HitlTool
  BY Tools DEF BoTool, FoTool
<1> HIDE DEF new
<1>3. Sound(new)
  BY <1>1, <1>2 DEF Sound, Investigation
<1>4. QED
  BY <1>1, <1>3 DEF new

LEMMA BaseInit == Init => BaseInv
<1> SUFFICES ASSUME Init PROVE BaseInv
  OBVIOUS
<1>1. RestTyped
  <2>1. trade \in Datum
    BY TriageAssumption DEF Init, Datum
  <2>2. QED
    BY <2>1 DEF Init, RestTyped, NotSaved, HistoryRow
<1>2. TypeOK
  BY <1>1, TypeOKIs DEF Init, StoreTyped, Saver, Savers
<1>3. QED
  BY <1>2 DEF Init, BaseInv, WorkSound, Present, Idle, IsRun, Saver

(* A step of the graph, and of a request on its way into and out of it.    *)
LEMMA GraphSteps ==
  ASSUME BaseInv, NEW h \in Handler,
         \/ GraphNode(h) \/ GraphStops(h) \/ ToolActs(h) \/ ToolFails(h) \/ ToolRecorded(h)
  PROVE  BaseInv'
<1> DEFINE w == work[h]
<1>a. TypeOK /\ WorkSound(w) /\ RestTyped
  BY TypeOKIs DEF BaseInv
<1>b. w.at \in {"graph", "tool"} =>
        /\ w.run \in Run /\ w.decision \in Decision /\ w.ck \in Checkpoint /\ Sound(w.ck)
        /\ IsRun(Latest(w.run))
  BY <1>a, Shape DEF WorkSound, BaseInv, Present, Idle
<1>c. UNCHANGED <<graphVars, dataVars>> => RestTyped' /\ UNCHANGED <<saver, store>>
  BY <1>a DEF RestTyped, graphVars, dataVars
<1>1. CASE GraphNode(h)
  <2>1. w.at = "graph" /\ w.ck.next \notin HitlNode \cup {"END"}
    BY <1>1 DEF GraphNode
  <2>2. PICK ck \in NodeResults(w.ck, trade, external) :
          Write(w.run, ck) /\ SetWork(h, Graph(w.run, w.decision, ck, FALSE))
    BY <1>1 DEF GraphNode
  <2>3. ck \in Checkpoint /\ Sound(ck)
    BY <1>a, <1>b, <2>1, NodeResultsSound DEF RestTyped
  <2> DEFINE new == Graph(w.run, w.decision, ck, FALSE)
  <2>4. new \in RequestWork /\ new.run = w.run /\ WorkSound(new)
    BY <1>b, <2>1, <2>3 DEF Graph, RequestWork, WorkSound
  <2>5. UNCHANGED <<saver, history, acted, dataVars>>
    BY <1>1 DEF GraphNode
  <2> HIDE DEF new, w
  <2>6. SetWork(h, new) /\ Write(new.run, ck)
    BY <2>2, <2>4 DEF new
  <2>7. QED
    BY <1>b, <2>1, <2>3, <2>4, <2>5, <2>6, RequestWrites
<1>2. CASE GraphStops(h)
  <2> DEFINE new == Then("result", w)
  <2>1. w.at = "graph" /\ SetWork(h, new) /\ UNCHANGED <<graphVars, dataVars>>
    BY <1>2 DEF GraphStops
  <2>2. new \in RequestWork /\ new.run = w.run /\ WorkSound(new)
    BY <1>b, <2>1 DEF Then, RequestWork, WorkSound
  <2> HIDE DEF new, w
  <2>3. QED
    BY <1>b, <1>c, <2>1, <2>2, RequestMoves
<1>3. CASE ToolActs(h) \/ ToolFails(h)
  <2> DEFINE new == [at |-> "tool", run |-> w.run, decision |-> w.decision, ck |-> w.ck]
  <2>1. w.at = "graph" /\ w.ck.next \in HitlNode /\ SetWork(h, new)
    BY <1>3 DEF ToolActs, ToolFails
  <2>2. new \in RequestWork /\ new.run = w.run /\ WorkSound(new)
    BY <1>b, <2>1 DEF RequestWork, WorkSound
  <2>3. RestTyped' /\ UNCHANGED <<saver, store>>
    <3>1. CASE ToolActs(h)
      <4>1. /\ ToolEffect(w.ck) /\ UNCHANGED <<saver, store, history>>
            /\ acted' = [acted EXCEPT ![w.run] = Append(acted[w.run], w.ck.next)]
        BY <3>1 DEF ToolActs
      <4>2. acted' \in [Run -> Seq(HitlNode)]
        BY <1>a, <1>b, <2>1, <4>1 DEF RestTyped
      <4>3. QED
        BY <1>a, <1>b, <2>1, <4>1, <4>2, ToolTypes DEF RestTyped
    <3>2. CASE ToolFails(h)
      BY <1>c, <3>2 DEF ToolFails
    <3>3. QED
      BY <1>3, <3>1, <3>2
  <2> HIDE DEF new, w
  <2>4. QED
    BY <1>b, <2>1, <2>2, <2>3, RequestMoves
<1>4. CASE ToolRecorded(h)
  <2> DEFINE ck == [w.ck EXCEPT !.last = "tool", !.action = TRUE, !.next = AfterHitl(w.ck.next)]
             new == Graph(w.run, w.decision, ck, FALSE)
  <2>1. /\ w.at = "tool" /\ Write(w.run, ck) /\ SetWork(h, new)
        /\ UNCHANGED <<saver, history, acted, dataVars>>
    BY <1>4 DEF ToolRecorded
  <2>2. AfterHitl(w.ck.next) \in Investigation
    BY DEF AfterHitl, Investigation
  <2>3. ck \in Checkpoint /\ Sound(ck)
    BY <1>b, <2>1, <2>2, DecidedIsSound
  <2> HIDE DEF ck
  <2>4. new \in RequestWork /\ new.run = w.run /\ WorkSound(new)
    BY <1>b, <2>1, <2>3 DEF Graph, RequestWork, WorkSound
  <2> HIDE DEF new, w
  <2>5. QED
    BY <1>b, <2>1, <2>3, <2>4, RequestWrites
<1>5. QED
  BY <1>1, <1>2, <1>3, <1>4

(* A request arrives.                                                      *)
Arrives(h, r) ==
  \/ \E agent \in Agent, codes \in Message, decision \in {"start", "auto"} :
       Start(h, r, agent, codes, decision)
  \/ ResumeApproved(h, r)
  \/ ResumeRejected(h, r)

LEMMA ArrivalSteps ==
  ASSUME BaseInv, NEW h \in Handler, NEW r \in Run, Arrives(h, r)
  PROVE  BaseInv'
<1>a. TypeOK /\ RestTyped
  BY TypeOKIs DEF BaseInv
<1>c. UNCHANGED <<graphVars, dataVars>> => RestTyped' /\ UNCHANGED <<saver, store>>
  BY <1>a DEF RestTyped, graphVars, dataVars
<1>1. ASSUME NEW agent \in Agent, NEW codes \in Message, NEW decision \in {"start", "auto"},
             Start(h, r, agent, codes, decision)
      PROVE  BaseInv'
  <2> DEFINE ck == InitialState(agent, codes)
             new == Graph(r, decision, ck, FALSE)
  <2>1. /\ Write(r, ck) /\ SetWork(h, new)
        /\ UNCHANGED <<saver, history, acted, dataVars>>
    BY <1>1 DEF Start
  <2>2. ck \in Checkpoint /\ Sound(ck)
    BY StartIsSound
  <2> HIDE DEF ck
  <2>3. new \in RequestWork /\ new.run = r /\ WorkSound(new)
    BY <2>2 DEF Graph, RequestWork, WorkSound, Decision
  <2> HIDE DEF new
  <2>4. QED
    BY <2>1, <2>2, <2>3, RequestWrites
<1>2. CASE ResumeApproved(h, r)
  <2> DEFINE new == [at |-> "invoke", run |-> r, decision |-> "approve"]
  <2>1. IsRun(Latest(r)) /\ SetWork(h, new) /\ UNCHANGED <<graphVars, dataVars>>
    BY <1>2 DEF ResumeApproved
  <2>2. new \in RequestWork /\ new.run = r /\ WorkSound(new)
    BY DEF RequestWork, WorkSound, Decision
  <2> HIDE DEF new
  <2>3. QED
    BY <1>c, <2>1, <2>2, RequestMoves
<1>3. CASE ResumeRejected(h, r)
  <2> DEFINE new == [at |-> "reject", run |-> r, seen |-> Latest(r)]
  <2>1. CanReject(Latest(r)) /\ SetWork(h, new) /\ UNCHANGED <<graphVars, dataVars>>
    BY <1>3 DEF ResumeRejected
  <2>2. IsRun(Latest(r)) /\ Latest(r) \in Checkpoint
    BY <2>1, LatestIs DEF CanReject
  <2>3. new \in RequestWork /\ new.run = r /\ WorkSound(new)
    BY <2>1, <2>2 DEF RequestWork, WorkSound
  <2> HIDE DEF new
  <2>4. QED
    BY <1>c, <2>1, <2>2, <2>3, RequestMoves
<1>4. QED
  BY <1>1, <1>2, <1>3 DEF Arrives

LEMMA RequestSteps ==
  ASSUME BaseInv, NEW h \in Handler,
         \/ RejectWrite(h) \/ Invoke(h) \/ BuildResult(h) \/ Save(h) \/ SaveFails(h)
         \/ RequestFails(h)
  PROVE  BaseInv'
<1> DEFINE w == work[h]
<1>a. TypeOK /\ RestTyped
  BY TypeOKIs DEF BaseInv
<1>b. w # Idle =>
        /\ w.run \in Run /\ IsRun(Latest(w.run))
        /\ Latest(w.run) \in Checkpoint /\ Sound(Latest(w.run))
  BY <1>a, Shape, LatestIs DEF BaseInv, Present
<1>c. UNCHANGED <<graphVars, dataVars>> => RestTyped' /\ UNCHANGED <<saver, store>>
  BY <1>a DEF RestTyped, graphVars, dataVars
<1>d. Idle \in {Idle} \cup RequestWork /\ WorkSound(Idle)
  BY DEF WorkSound, Idle
<1>1. CASE RejectWrite(h)
  <2> DEFINE ck == [Latest(w.run) EXCEPT !.last = "tool", !.next = RejectedAs(w.seen)]
             new == [at |-> "invoke", run |-> w.run, decision |-> "reject"]
  <2>1. /\ w.at = "reject" /\ Write(w.run, ck) /\ SetWork(h, new)
        /\ UNCHANGED <<saver, history, acted, dataVars>>
    BY <1>1 DEF RejectWrite
  <2>2. w # Idle
    BY <2>1 DEF Idle
  <2>3. RejectedAs(w.seen) \in Investigation
    BY DEF RejectedAs, AfterHitl, Investigation
  <2>4. ck = [Latest(w.run) EXCEPT !.last = "tool", !.action = Latest(w.run).action,
                                   !.next = RejectedAs(w.seen)]
    BY <1>b, <2>2 DEF Checkpoint
  <2>5. Latest(w.run).action \in BOOLEAN
    BY <1>b, <2>2 DEF Checkpoint
  <2>6. ck \in Checkpoint /\ Sound(ck)
    BY <1>b, <2>2, <2>3, <2>4, <2>5, DecidedIsSound
  <2>7. new \in RequestWork /\ new.run = w.run /\ WorkSound(new)
    BY <1>b, <2>2 DEF RequestWork, WorkSound, Decision
  <2> HIDE DEF ck, new, w
  <2>8. QED
    BY <1>b, <2>1, <2>2, <2>6, <2>7, RequestWrites
<1>2. CASE Invoke(h)
  <2> DEFINE new == Graph(w.run, w.decision, Latest(w.run), TRUE)
  <2>1. w.at = "invoke" /\ SetWork(h, new) /\ UNCHANGED <<graphVars, dataVars>>
    BY <1>2 DEF Invoke
  <2>2. w # Idle /\ w.decision \in Decision
    BY <1>a, <2>1, Shape DEF Idle
  <2>3. new \in RequestWork /\ new.run = w.run /\ WorkSound(new)
    BY <1>b, <2>2 DEF Graph, RequestWork, WorkSound
  <2> HIDE DEF new, w
  <2>4. QED
    BY <1>b, <1>c, <2>1, <2>2, <2>3, RequestMoves
<1>3. CASE BuildResult(h)
  <2> DEFINE head == Latest(w.run)
             saved == [at |-> "save", run |-> w.run,
                       status |-> IF Paused(head) THEN "PENDING_APPROVAL" ELSE "COMPLETED",
                       action |-> ~Paused(head) /\ (IF w.decision = "start" THEN head.action
                                                    ELSE w.decision = "approve")]
             new == IF w.decision = "auto" THEN Idle ELSE saved
  <2>1. w.at = "result" /\ SetWork(h, new) /\ UNCHANGED <<graphVars, dataVars>>
    BY <1>3 DEF BuildResult
  <2>2. w # Idle
    BY <2>1 DEF Idle
  <2>3. saved.action \in BOOLEAN
    BY <1>b, <2>2 DEF Checkpoint
  <2>4. saved \in RequestWork /\ saved.run = w.run /\ WorkSound(saved)
    BY <1>b, <2>2, <2>3 DEF RequestWork, WorkSound
  <2> HIDE DEF saved, w
  <2>5. new \in {Idle} \cup RequestWork /\ WorkSound(new) /\ (new # Idle => IsRun(Latest(new.run)))
    BY <1>b, <1>d, <2>2, <2>4
  <2> HIDE DEF new
  <2>6. QED
    BY <1>c, <2>1, <2>5, RequestMoves
<1>4. CASE Save(h) \/ SaveFails(h)
  <2>1. w.at = "save" /\ SetWork(h, Idle) /\ UNCHANGED <<saver, store, acted, dataVars>>
    BY <1>4 DEF Save, SaveFails
  <2>2. /\ w.run \in Run
        /\ w.status \in {"PENDING_APPROVAL", "COMPLETED"} /\ w.action \in BOOLEAN
    BY <1>a, <2>1, Shape DEF Idle
  <2>3. history' \in [Run -> HistoryRow]
    <3>1. history \in [Run -> HistoryRow]
      BY <1>a DEF RestTyped
    <3>2. CASE Save(h)
      BY <2>2, <3>1, <3>2 DEF Save, HistoryRow
    <3>3. CASE SaveFails(h)
      <4>1. PICK s \in {"unsaved", history[w.run].status} :
              history' = [history EXCEPT ![w.run].status = s]
        BY <3>3 DEF SaveFails
      <4>2. s \in {"none", "unsaved", "PENDING_APPROVAL", "COMPLETED"}
        BY <2>2, <3>1 DEF HistoryRow
      <4>3. QED
        BY <2>2, <3>1, <4>1, <4>2 DEF HistoryRow
    <3>4. QED
      BY <1>4, <3>2, <3>3
  <2>4. RestTyped'
    BY <1>a, <2>1, <2>3 DEF RestTyped, dataVars
  <2>5. QED
    BY <1>d, <2>1, <2>4, RequestMoves
<1>5. CASE RequestFails(h)
  BY <1>c, <1>d, <1>5, RequestMoves DEF RequestFails
<1>6. QED
  BY <1>1, <1>2, <1>3, <1>4, <1>5

(* Checks, patched master data, restarts.                                  *)
LEMMA OtherSteps ==
  ASSUME BaseInv,
         \/ \E h \in Handler : BoCheck(h) \/ UpdateCounterparty(h)
                               \/ \E ccy \in Currency : UpdateSsi(h, ccy)
         \/ Restart
  PROVE  BaseInv'
<1>a. TypeOK /\ StoreTyped /\ RestTyped /\ work \in [Handler -> {Idle} \cup RequestWork]
  BY TypeOKIs DEF BaseInv
<1>1. ASSUME UNCHANGED <<graphVars, work>>, RestTyped'
      PROVE  BaseInv'
  BY <1>1, <1>a, TypeOKIs DEF BaseInv, StoreTyped, Present, Latest, graphVars
<1>2. ASSUME NEW h \in Handler, BoCheck(h)
      PROVE  RestTyped'
  <2>1. BoResults \in SUBSET BoRule
    BY DEF BoResults, FailedBoRules
  <2>2. trade' \in Datum
    BY <1>2, <1>a, <2>1 DEF BoCheck, RestTyped, Datum
  <2>3. QED
    BY <1>2, <1>a, <2>2 DEF BoCheck, RestTyped, graphVars
<1>3. ASSUME NEW h \in Handler, UpdateCounterparty(h)
      PROVE  RestTyped'
  BY <1>3, <1>a DEF UpdateCounterparty, RestTyped, graphVars
<1>4. ASSUME NEW h \in Handler, NEW ccy \in Currency, UpdateSsi(h, ccy)
      PROVE  RestTyped'
  <2>1. \A bad \in SUBSET Field : SsiRow(bad) \in Ssi
    BY DEF Ssi
  <2>2. ssi' \in [Currency -> Ssi]
    BY <1>4, <1>a, <2>1 DEF UpdateSsi, RestTyped
  <2>3. QED
    BY <1>4, <1>a, <2>2 DEF UpdateSsi, RestTyped, graphVars
<1>5. CASE Restart
  <2> DEFINE forgotten == [r \in Run |-> IF store["memory"][r] = NoRun THEN NoRun ELSE LostRun]
  <2>1. store' = [store EXCEPT !["memory"] = forgotten] /\ saver' \in Saver
    BY <1>5, <1>a DEF Restart, Savers, Saver
  <2>2. forgotten \in [Run -> Checkpoint \cup {NoRun, LostRun}]
        /\ \A r \in Run : ~IsRun(forgotten[r])
    BY DEF IsRun
  <2> HIDE DEF forgotten
  <2>3. StoreTyped'
    BY <1>a, <2>1, <2>2 DEF StoreTyped, Saver
  <2>4. \A s \in Saver, r \in Run : IsRun(store'[s][r]) => Sound(store'[s][r])
    BY <1>a, <2>1, <2>2 DEF BaseInv, StoreTyped, Saver
  <2>5. RestTyped' /\ work' = [h \in Handler |-> Idle]
    BY <1>5, <1>a DEF Restart, RestTyped, dataVars
  <2>6. TypeOK'
    BY <2>3, <2>5, TypeOKIs
  <2>7. QED
    BY <2>4, <2>5, <2>6 DEF BaseInv, WorkSound, Present, Idle
<1>6. QED
  BY <1>1, <1>2, <1>3, <1>4, <1>5 DEF BoCheck, UpdateCounterparty, UpdateSsi

LEMMA BaseStep == BaseInv /\ [Next]_vars => BaseInv'
<1> SUFFICES ASSUME BaseInv, [Next]_vars PROVE BaseInv'
  OBVIOUS
<1>1. CASE UNCHANGED vars
  BY <1>1, TypeOKIs
  DEF vars, graphVars, dataVars, BaseInv, StoreTyped, RestTyped, Present, Latest
<1>2. ASSUME NEW h \in Handler, NEW r \in Run, Arrives(h, r)
      PROVE  BaseInv'
  BY <1>2, ArrivalSteps
<1>3. ASSUME NEW h \in Handler, Continue(h) \/ RequestFails(h)
      PROVE  BaseInv'
  BY <1>3, GraphSteps, RequestSteps DEF Continue
<1>4. QED
  BY <1>1, <1>2, <1>3, OtherSteps DEF Next, Arrives

(* The inductive invariant, and in it that checkpoints are sound.          *)
THEOREM SoundCheckpoints == Spec => []BaseInv
BY BaseInit, BaseStep, PTL DEF Spec

(* Runs, requests, the history and master data are well typed, whatever    *)
(* overlaps or fails; in particular a request that has begun finds the     *)
(* checkpoint of its run.                                                  *)
THEOREM TriageTypeCorrect == Spec => []TypeOK
<1>1. BaseInv => TypeOK
  BY DEF BaseInv
<1>2. QED
  BY <1>1, SoundCheckpoints, PTL

-----------------------------------------------------------------------------
(* Registrations, however requests overlap.                                *)

NoAmendment == "amended" \notin Environment

(* A trade settles in its currency, and an SSI that was registered for it  *)
(* stays in the table.                                                     *)
Registered ==
  /\ trade.currency = trade.settlement
  /\ \A r \in Run : \A i \in DOMAIN acted[r] :
       acted[r][i] = "register_ssi_node" => ssi[trade.settlement].exists

(* Only these steps change the actions taken, the SSIs or the trade.       *)
LEMMA StepKinds ==
  ASSUME [Next]_vars
  PROVE  \/ \E h \in Handler :
              ToolActs(h) \/ BoCheck(h) \/ \E ccy \in Currency : UpdateSsi(h, ccy)
         \/ UNCHANGED <<acted, ssi, trade>>
<1>1. CASE UNCHANGED vars
  BY <1>1 DEF vars, graphVars, dataVars
<1>2. ASSUME NEW h \in Handler, NEW r \in Run, Arrives(h, r)
      PROVE  UNCHANGED <<acted, ssi, trade>>
  BY <1>2 DEF Arrives, Start, ResumeApproved, ResumeRejected, graphVars, dataVars
<1>3. ASSUME NEW h \in Handler,
             GraphNode(h) \/ GraphStops(h) \/ ToolFails(h) \/ ToolRecorded(h)
      PROVE  UNCHANGED <<acted, ssi, trade>>
  BY <1>3 DEF GraphNode, GraphStops, ToolFails, ToolRecorded, graphVars, dataVars
<1>4. ASSUME NEW h \in Handler,
             RejectWrite(h) \/ Invoke(h) \/ BuildResult(h) \/ Save(h) \/ SaveFails(h)
      PROVE  UNCHANGED <<acted, ssi, trade>>
  BY <1>4 DEF RejectWrite, Invoke, BuildResult, Save, SaveFails, graphVars, dataVars
<1>5. ASSUME NEW h \in Handler, UpdateCounterparty(h) \/ RequestFails(h) \/ Restart
      PROVE  UNCHANGED <<acted, ssi, trade>>
  BY <1>5 DEF UpdateCounterparty, RequestFails, Restart, graphVars, dataVars
<1>6. CASE Restart
  BY <1>6 DEF Restart, dataVars
<1>7. QED
  BY <1>1, <1>2, <1>3, <1>4, <1>5, <1>6 DEF Next, Arrives, Continue

(* Nothing deletes an SSI.                                                 *)
LEMMA SsiStays ==
  ASSUME BaseInv, [Next]_vars, NEW ccy \in Currency, ssi[ccy].exists
  PROVE  ssi'[ccy].exists
<1>a. ssi \in [Currency -> Ssi]
  BY TypeOKIs DEF BaseInv, RestTyped
<1>b. \A bad : SsiRow(bad).exists
  BY DEF SsiRow
<1>1. ASSUME NEW c \in Currency, NEW row, row.exists, RegisterSsi(c, row)
      PROVE  ssi'[ccy].exists
  BY <1>1, <1>a DEF RegisterSsi
<1>2. ASSUME NEW h \in Handler, ToolActs(h)
      PROVE  ssi'[ccy].exists
  <2> DEFINE ck == work[h].ck
  <2>1. work[h].at = "graph" /\ ck.next \in HitlNode /\ ToolEffect(ck)
    BY <1>2 DEF ToolActs
  <2>2. Sound(ck) /\ trade \in Datum
    BY <2>1, TypeOKIs DEF BaseInv, WorkSound, RestTyped
  <2> HIDE DEF ck
  <2>3. CASE ck.next = "register_ssi_node"
    <3>1. RegisterSsi(trade.settlement, ck.offer)
      BY <2>1, <2>3 DEF ToolEffect
    <3>2. ck.offer.exists /\ trade.settlement \in Currency
      BY <2>2, <2>3 DEF Sound, Datum
    <3>3. QED
      BY <1>1, <3>1, <3>2
  <2>4. CASE ck.next \in {"register_ssi_node_di", "update_ssi_node_di"}
    <3>1. \E c \in Currency, bad \in SUBSET Field : RegisterSsi(c, SsiRow(bad))
      BY <2>1, <2>4 DEF ToolEffect
    <3>2. QED
      BY <1>1, <1>b, <3>1
  <2>5. CASE ck.next \notin {"register_ssi_node", "register_ssi_node_di", "update_ssi_node_di"}
    <3>1. ssi' = ssi
      BY <2>1, <2>5, Tools DEF ToolEffect, dataVars
    <3>2. QED
      BY <3>1
  <2>6. QED
    BY <2>3, <2>4, <2>5
<1>3. ASSUME NEW h \in Handler, NEW c \in Currency, UpdateSsi(h, c)
      PROVE  ssi'[ccy].exists
  BY <1>3, <1>a, <1>b DEF UpdateSsi
<1>4. CASE UNCHANGED ssi
  BY <1>4
<1>5. QED
  BY <1>2, <1>3, <1>4, StepKinds DEF BoCheck

(* The currencies of the trade do not change here.                         *)
LEMMA CurrenciesStay ==
  ASSUME BaseInv, [Next]_vars
  PROVE  trade'.currency = trade.currency /\ trade'.settlement = trade.settlement
<1>1. ASSUME NEW h \in Handler, ToolActs(h)
      PROVE  trade'.currency = trade.currency /\ trade'.settlement = trade.settlement
  <2>1. work[h].at = "graph" /\ work[h].ck.next \in HitlNode /\ ToolEffect(work[h].ck)
    BY <1>1 DEF ToolActs
  <2>2. TypeOK /\ work[h].ck \in Checkpoint
    BY <2>1, Shape DEF BaseInv
  <2>3. QED
    BY <2>1, <2>2, ToolTypes
<1>2. ASSUME NEW h \in Handler, BoCheck(h)
      PROVE  trade'.currency = trade.currency /\ trade'.settlement = trade.settlement
  BY <1>2, TypeOKIs DEF BoCheck, BaseInv, RestTyped, Datum
<1>3. CASE UNCHANGED trade
  BY <1>3
<1>4. QED
  BY <1>1, <1>2, <1>3, StepKinds DEF UpdateSsi

LEMMA RegisteredStep ==
  ASSUME BaseInv, Registered, [Next]_vars
  PROVE  Registered'
<1>a. trade \in Datum /\ acted \in [Run -> Seq(HitlNode)]
      /\ trade'.currency = trade.currency /\ trade'.settlement = trade.settlement
  BY TypeOKIs, CurrenciesStay DEF BaseInv, RestTyped
<1>b. ssi[trade.settlement].exists => ssi'[trade.settlement].exists
  BY <1>a, SsiStays DEF Datum
<1>1. CASE UNCHANGED acted
  BY <1>1, <1>a, <1>b DEF Registered
<1>2. ASSUME NEW h \in Handler, ToolActs(h)
      PROVE  Registered'
  <2> DEFINE r == work[h].run
             n == work[h].ck.next
  <2>1. work[h].at = "graph" /\ n \in HitlNode /\ ToolEffect(work[h].ck)
    BY <1>2 DEF ToolActs
  <2>2. r \in Run /\ work[h].ck \in Checkpoint /\ Sound(work[h].ck)
    BY <2>1, Shape DEF BaseInv, WorkSound, Idle
  <2>3. n = "register_ssi_node" => ssi'[trade.settlement].exists
    <3> SUFFICES ASSUME n = "register_ssi_node" PROVE ssi'[trade.settlement].exists
      OBVIOUS
    <3>1. RegisterSsi(trade.settlement, work[h].ck.offer) /\ work[h].ck.offer.exists
      BY <2>1, <2>2 DEF ToolEffect, Sound
    <3>2. ssi \in [Currency -> Ssi] /\ trade.settlement \in Currency
      BY <1>a, TypeOKIs DEF BaseInv, RestTyped, Datum
    <3>3. QED
      BY <3>1, <3>2 DEF RegisterSsi
  <2>4. acted[r] \in Seq(HitlNode) /\ acted'[r] = Append(acted[r], n)
        /\ \A q \in Run \ {r} : acted'[q] = acted[q]
    BY <1>2, <1>a, <2>2 DEF ToolActs
  <2> HIDE DEF r, n
  <2>5. ASSUME NEW i \in DOMAIN acted'[r], acted'[r][i] = "register_ssi_node"
        PROVE  ssi'[trade.settlement].exists
    <3>1. i \in 1 .. Len(acted[r]) + 1
      BY <2>1, <2>4
    <3>2. CASE i = Len(acted[r]) + 1
      BY <2>1, <2>3, <2>4, <2>5, <3>2
    <3>3. CASE i \in 1 .. Len(acted[r])
      BY <1>b, <2>1, <2>2, <2>4, <2>5, <3>3 DEF Registered
    <3>4. QED
      BY <2>4, <3>1, <3>2, <3>3
  <2>6. ASSUME NEW q \in Run, NEW i \in DOMAIN acted'[q], acted'[q][i] = "register_ssi_node"
        PROVE  ssi'[trade'.settlement].exists
    BY <1>a, <1>b, <2>4, <2>5, <2>6 DEF Registered
  <2>7. QED
    BY <1>a, <2>6 DEF Registered
<1>3. QED
  BY <1>1, <1>2, StepKinds DEF BoCheck, UpdateSsi, graphVars

(* An approved registration repairs what it was asked for, also when       *)
(* several operators decide at a time, a rejection loses a race, requests  *)
(* fail and the process restarts: nothing undoes it, and a registration is *)
(* asked for only with an SSI in hand.  (prepare_register_ssi)             *)
THEOREM RegistrationsRepair ==
  ASSUME NoAmendment
  PROVE  Spec => []RegistrationRepairs
<1>1. Init => Registered
  BY DEF Init, Registered, NoAmendment
<1>2. Registered => RegistrationRepairs
  BY DEF Registered, RegistrationRepairs, BoResults, FailedBoRules
<1>3. QED
  BY <1>1, <1>2, RegisteredStep, SoundCheckpoints, PTL DEF Spec

-----------------------------------------------------------------------------
(* Runs whose requests do not overlap.                                     *)

(* No two requests for the same run are under way: each is answered before *)
(* an operator sends the next.                                             *)
OnePerRun ==
  \A g, h \in Handler :
    work[g] # Idle /\ work[h] # Idle /\ work[g].run = work[h].run => g = h

(* A checkpoint the run cannot ask for approval from any more.             *)
Closed(ck) == ~IsRun(ck) \/ ck.next = "END" \/ ck.action

(* What a request knows of its run, whose latest checkpoint is ck and      *)
(* which the history shows with this status.                               *)
InStep(w, ck, status) ==
  /\ w.at \in {"graph", "tool"} => w.ck = ck
  /\ w.at = "reject" => w.seen = ck
  /\ w.at = "result" => ck.next \in HitlNode \cup {"END"}
  /\ w.at = "invoke" => w.decision \in {"approve", "reject"}
  /\ w.at = "invoke" /\ w.decision = "reject" => ck.next \in Investigation
  /\ w.at = "graph" /\ w.resumed /\ ck.next \in HitlNode => w.decision = "approve"
  /\ w.at = "tool" => w.decision = "approve" /\ status # "COMPLETED"
  /\ w.at = "save" /\ w.status = "COMPLETED" => Closed(ck)

AllInStep ==
  \A h \in Handler : work[h] # Idle =>
    InStep(work[h], Latest(work[h].run), history[work[h].run].status)

(* A run is kept by the checkpointer it was started with.                  *)
OneStore == \A r \in Run : store["postgres"][r] = NoRun \/ store["memory"][r] = NoRun

CompletedClosed ==
  \A r \in Run, s \in Saver : history[r].status = "COMPLETED" => Closed(store[s][r])

RunInv == BaseInv /\ AllInStep /\ OneStore /\ CompletedClosed

(* A step of the request of h, for run r, which makes of it w.             *)
StepOf(h, r, w) ==
  /\ SetWork(h, w) /\ UNCHANGED saver
  /\ \A s \in Saver, q \in Run : s # saver \/ q # r => store'[s][q] = store[s][q]
  /\ \A q \in Run \ {r} : history'[q] = history[q]
  /\ work[h] = Idle \/ work[h].run = r
  /\ w = Idle \/ w.run = r
  /\ work[h] # Idle \/ w # Idle

(* What the step must see to, for the run it is about.                     *)
Keeps(r, w) ==
  /\ w # Idle => InStep(w, store'[saver][r], history'[r].status)
  /\ store'["postgres"][r] = NoRun \/ store'["memory"][r] = NoRun
  /\ history'[r].status = "COMPLETED" => \A s \in Saver : Closed(store'[s][r])

LEMMA OthersUntouched ==
  ASSUME TypeOK, OnePerRun, OnePerRun', NEW h \in Handler, NEW r \in Run,
         NEW w, StepOf(h, r, w)
  PROVE  /\ work'[h] = w
         /\ \A g \in Handler \ {h} :
              work'[g] = work[g] /\ (work[g] # Idle => work[g].run # r)
<1>1. work'[h] = w /\ \A g \in Handler \ {h} : work'[g] = work[g]
  BY DEF TypeOK, StepOf, SetWork
<1>2. QED
  BY <1>1 DEF StepOf, OnePerRun

LEMMA OneRunStep ==
  ASSUME RunInv, BaseInv', OnePerRun, OnePerRun', NEW h \in Handler, NEW r \in Run,
         NEW w, StepOf(h, r, w), Keeps(r, w)
  PROVE  RunInv'
<1>a. TypeOK /\ saver \in Saver /\ Saver = {"postgres", "memory"}
  BY TypeOKIs DEF RunInv, BaseInv, StoreTyped, Saver
<1>1. AllInStep'
  <2> SUFFICES ASSUME NEW g \in Handler, work'[g] # Idle
               PROVE  InStep(work'[g], store'[saver][work'[g].run], history'[work'[g].run].status)
    BY DEF AllInStep, Latest, StepOf
  <2>1. CASE g = h
    BY <1>a, <2>1, OthersUntouched DEF StepOf, Keeps
  <2>2. CASE g # h
    <3>1. work'[g] = work[g] /\ work[g].run \in Run \ {r}
      BY <1>a, <2>2, OthersUntouched, Shape
    <3>2. /\ store'[saver][work[g].run] = store[saver][work[g].run]
          /\ history'[work[g].run] = history[work[g].run]
      BY <1>a, <3>1 DEF StepOf
    <3>3. QED
      BY <3>1, <3>2 DEF RunInv, AllInStep, Latest
  <2>3. QED
    BY <2>1, <2>2
<1>2. OneStore'
  BY <1>a DEF RunInv, OneStore, StepOf, Keeps
<1>3. CompletedClosed'
  BY DEF RunInv, CompletedClosed, StepOf, Keeps
<1>4. QED
  BY <1>1, <1>2, <1>3 DEF RunInv

(* A request that brings an approval its run has not acted under.          *)
Approving(w) ==
  w.at \in {"invoke", "graph"} /\ w.decision = "approve" /\ (w.at = "graph" => w.resumed)

(* What a run asks for, told from its latest checkpoint.                   *)
AskOf(ck) ==
  IF ck.next \in HitlNode THEN ck.next
  ELSE IF ck.action \/ ck.next = "END" THEN "closed" ELSE "nothing"

LEMMA AskingIs ==
  ASSUME TypeOK, OneStore, NEW r \in Run, IsRun(Latest(r))
  PROVE  Asking(r) = AskOf(Latest(r))
<1>1. Latest(r) = CheckpointOf(r)
  BY TypeOKIs DEF StoreTyped, Saver, Latest, CheckpointOf, OneStore, IsRun
<1>2. QED
  BY <1>1 DEF Asking, AskOf, IsRun, Paused

LEMMA AskingIsNext ==
  ASSUME TypeOK', OneStore', NEW r \in Run, IsRun(Latest(r)')
  PROVE  Asking(r)' = AskOf(Latest(r)')
<1>1. Latest(r)' = CheckpointOf(r)'
  BY TypeOKIs DEF StoreTyped, Saver, Latest, CheckpointOf, OneStore, IsRun
<1>2. QED
  BY <1>1 DEF Asking, AskOf, IsRun, Paused

(* Who holds a licence, while requests for a run do not overlap.           *)
LEMMA LicencesOf ==
  ASSUME TypeOK, OnePerRun, OnePerRun', NEW h \in Handler, NEW r \in Run, NEW w, StepOf(h, r, w)
  PROVE  /\ Licensed(r) <=> Asking(r) \in HitlNode /\ Approving(work[h])
         /\ Licensed(r)' <=> Asking(r)' \in HitlNode /\ Approving(w)
         /\ \A q \in Run \ {r} : Asking(q)' = Asking(q) /\ (Licensed(q)' <=> Licensed(q))
<1>a. /\ work'[h] = w
      /\ \A g \in Handler \ {h} : work'[g] = work[g] /\ (work[g] # Idle => work[g].run # r)
  BY OthersUntouched
<1>b. /\ ~Approving(Idle)
      /\ work[h] = Idle \/ work[h].run = r
      /\ w = Idle \/ w.run = r
  BY DEF Approving, Idle, StepOf
<1>c. /\ \A q : Licensed(q) <=>
                  /\ Asking(q) \in HitlNode
                  /\ \E g \in Handler : work[g].run = q /\ Approving(work[g])
      /\ \A q : Licensed(q)' <=>
                  /\ Asking(q)' \in HitlNode
                  /\ \E g \in Handler : work'[g].run = q /\ Approving(work'[g])
  BY DEF Licensed, Approving
<1>1. Licensed(r) <=> Asking(r) \in HitlNode /\ Approving(work[h])
  BY <1>a, <1>b, <1>c
<1>2. Licensed(r)' <=> Asking(r)' \in HitlNode /\ Approving(w)
  BY <1>a, <1>b, <1>c
<1>3. ASSUME NEW q \in Run \ {r}
      PROVE  Asking(q)' = Asking(q) /\ (Licensed(q)' <=> Licensed(q))
  <2>1. \A s \in Saver : store'[s][q] = store[s][q]
    BY DEF StepOf
  <2>2. Asking(q)' = Asking(q)
    BY <2>1 DEF Asking, CheckpointOf, Saver
  <2>3. (\E g \in Handler : work[g].run = q /\ Approving(work[g]))
          <=> (\E g \in Handler : work'[g].run = q /\ Approving(work'[g]))
    <3>1. work[h].run = q => ~Approving(work[h])
      BY <1>b
    <3>2. work'[h].run = q => ~Approving(work'[h])
      BY <1>a, <1>b
    <3>3. QED
      BY <1>a, <3>1, <3>2
  <2>4. QED
    BY <1>c, <2>2, <2>3
<1>4. QED
  BY <1>1, <1>2, <1>3

-----------------------------------------------------------------------------
(* Every step for a run is a step of HitlTriage, or none.                  *)

promised == <<Asks, Licences, acted>>

(* What the step of a request makes of the run's question and approval.    *)
Same(h, r, w) ==
  /\ Asking(r)' = Asking(r) /\ UNCHANGED acted
  /\ Asking(r) \in HitlNode => (Approving(w) <=> Approving(work[h]))
Turns(h, r, w) ==
  /\ Asking(r) \in HitlNode => ~Approving(work[h])
  /\ Asking(r)' \in HitlNode => ~Approving(w)
  /\ \/ Asking(r) = "nothing" /\ Asking(r)' \in HitlNode
     \/ Asking(r)' = "closed"
     \/ Asking(r) \in HitlNode /\ Asking(r)' = "nothing"
  /\ UNCHANGED acted
Approved(h, r, w) ==
  /\ Asking(r) \in HitlNode /\ Asking(r)' = Asking(r)
  /\ ~Approving(work[h]) /\ Approving(w)
  /\ UNCHANGED acted
Spent(h, r, w) ==
  /\ Asking(r) \in HitlNode /\ Asking(r)' = Asking(r)
  /\ Approving(work[h]) /\ ~Approving(w)
  /\ UNCHANGED acted \/ acted' = [acted EXCEPT ![r] = Append(acted[r], Asking(r))]

LEMMA PromiseKept ==
  ASSUME TypeOK, OnePerRun, OnePerRun', NEW h \in Handler, NEW r \in Run, NEW w, StepOf(h, r, w),
         Same(h, r, w) \/ Turns(h, r, w) \/ Approved(h, r, w) \/ Spent(h, r, w)
  PROVE  [Promise!Next]_promised
<1>a. /\ Licensed(r) <=> Asking(r) \in HitlNode /\ Approving(work[h])
      /\ Licensed(r)' <=> Asking(r)' \in HitlNode /\ Approving(w)
      /\ \A q \in Run \ {r} : Asking(q)' = Asking(q) /\ (Licensed(q)' <=> Licensed(q))
  BY LicencesOf
<1>b. Asks' = [Asks EXCEPT ![r] = Asking(r)']
  <2>1. /\ Asks' = [q \in Run |-> Asking(q)'] /\ Asks = [q \in Run |-> Asking(q)]
    BY DEF Asks
  <2>2. QED
    BY <1>a, <2>1
<1>c. /\ r \in Licences <=> Licensed(r)
      /\ Licensed(r)' => Licences' = Licences \cup {r}
      /\ ~Licensed(r)' => Licences' = Licences \ {r}
  BY <1>a DEF Licences
<1>d. Asks[r] = Asking(r)
  BY DEF Asks
<1>e. "nothing" \notin HitlNode /\ "closed" \notin HitlNode
  BY Tools
<1>1. CASE Same(h, r, w)
  <2>1. Licensed(r)' <=> Licensed(r)
    BY <1>1, <1>a DEF Same
  <2>2. Licences' = Licences
    BY <1>c, <2>1
  <2>3. Asks' = Asks
    BY <1>1, <1>b, <1>d DEF Same, Asks
  <2>4. QED
    BY <1>1, <2>2, <2>3 DEF Same, promised
<1>2. CASE Turns(h, r, w)
  <2>1. r \notin Licences /\ Licences' = Licences
    BY <1>2, <1>a, <1>c DEF Turns
  <2>2. CASE Asking(r) = "nothing" /\ Asking(r)' \in HitlNode
    <3>1. Promise!Propose(r)
      BY <1>2, <1>b, <1>d, <2>1, <2>2 DEF Promise!Propose, Turns
    <3>2. QED
      BY <3>1 DEF Promise!Next
  <2>3. CASE Asking(r)' = "closed"
    <3>1. Promise!Close(r)
      BY <1>2, <1>b, <2>1, <2>3 DEF Promise!Close, Turns
    <3>2. QED
      BY <3>1 DEF Promise!Next
  <2>4. CASE Asking(r) \in HitlNode /\ Asking(r)' = "nothing"
    <3>1. Promise!Reject(r)
      BY <1>2, <1>b, <1>d, <1>e, <2>1, <2>4 DEF Promise!Reject, Promise!NotAsking, Turns
    <3>2. QED
      BY <3>1 DEF Promise!Next
  <2>5. QED
    BY <1>2, <2>2, <2>3, <2>4 DEF Turns
<1>3. CASE Approved(h, r, w)
  <2>1. r \notin Licences /\ Licences' = Licences \cup {r}
    BY <1>3, <1>a, <1>c DEF Approved
  <2>2. Asks' = Asks
    BY <1>3, <1>b, <1>d DEF Approved, Asks
  <2>3. Promise!Approve(r)
    BY <1>3, <1>d, <1>e, <2>1, <2>2 DEF Promise!Approve, Promise!NotAsking, Approved
  <2>4. QED
    BY <2>3 DEF Promise!Next
<1>4. CASE Spent(h, r, w)
  <2>1. r \in Licences /\ Licences' = Licences \ {r}
    BY <1>4, <1>a, <1>c DEF Spent
  <2>2. Asks' = Asks
    BY <1>4, <1>b, <1>d DEF Spent, Asks
  <2>3. Promise!Spend(r) \/ Promise!Act(r)
    BY <1>4, <1>d, <2>1, <2>2 DEF Promise!Spend, Promise!Act, Spent
  <2>4. QED
    BY <2>3 DEF Promise!Next
<1>5. QED
  BY <1>1, <1>2, <1>3, <1>4

(* A step of a request that leaves ck as the latest checkpoint of its run. *)
LEMMA StepKeeps ==
  ASSUME RunInv, BaseInv', OnePerRun, OnePerRun', NEW h \in Handler, NEW r \in Run, NEW w,
         StepOf(h, r, w), IsRun(Latest(r)), NEW ck, IsRun(ck), store'[saver][r] = ck,
         history'[r].status = "COMPLETED" => Closed(ck),
         w # Idle => InStep(w, ck, history'[r].status)
  PROVE  RunInv' /\ Asking(r) = AskOf(Latest(r)) /\ Asking(r)' = AskOf(ck)
<1>a. TypeOK /\ TypeOK' /\ OneStore /\ saver \in Saver /\ saver' = saver
      /\ Saver = {"postgres", "memory"}
  BY TypeOKIs DEF RunInv, BaseInv, StoreTyped, Saver, StepOf
<1>1. \A s \in Saver : s # saver => store'[s][r] = NoRun
  BY <1>a DEF StepOf, OneStore, Latest, IsRun
<1>2. ~IsRun(NoRun)
  BY DEF IsRun
<1>3. Keeps(r, w)
  <2>1. store'["postgres"][r] = NoRun \/ store'["memory"][r] = NoRun
    BY <1>a, <1>1
  <2>2. \A s \in Saver : Closed(store'[s][r]) \/ s = saver
    BY <1>1, <1>2 DEF Closed
  <2>3. QED
    BY <2>1, <2>2 DEF Keeps
<1>4. RunInv'
  BY <1>3, OneRunStep
<1>5. Latest(r)' = ck
  BY <1>a DEF Latest
<1>6. QED
  BY <1>a, <1>4, <1>5, AskingIs, AskingIsNext DEF RunInv

(* What the invariant says of a request under way.                         *)
LEMMA UnderWay ==
  ASSUME RunInv, NEW h \in Handler, work[h].at # "idle", NEW r \in Run, r = work[h].run
  PROVE  /\ InStep(work[h], Latest(r), history[r].status)
         /\ Latest(r) \in Checkpoint /\ Sound(Latest(r)) /\ IsRun(Latest(r))
         /\ history[r].status = "COMPLETED" => Closed(Latest(r))
         /\ work[h] # Idle
<1>1. work[h] # Idle /\ saver \in Saver
  BY TypeOKIs DEF Idle, RunInv, BaseInv, StoreTyped
<1>2. QED
  BY <1>1, LatestIs DEF RunInv, BaseInv, Present, AllInStep, CompletedClosed, Latest

(* A step that leaves the checkpoints alone is one for any run.            *)
LEMMA StepOfIs ==
  ASSUME TypeOK, NEW h \in Handler, NEW r \in Run, NEW w, SetWork(h, w), UNCHANGED <<saver, history>>,
         work[h] = Idle \/ work[h].run = r, w = Idle \/ w.run = r, work[h] # Idle \/ w # Idle,
         UNCHANGED store \/ \E ck : Write(r, ck)
  PROVE  StepOf(h, r, w)
BY TypeOKIs DEF StepOf, StoreTyped, Write

(* The steps of a request in the graph.                                    *)
LEMMA GraphNodeKeeps ==
  ASSUME RunInv, BaseInv', OnePerRun, OnePerRun', NEW h \in Handler, GraphNode(h)
  PROVE  RunInv' /\ [Promise!Next]_promised
<1>a. TypeOK /\ StoreTyped /\ RestTyped /\ BaseInv
  BY TypeOKIs DEF RunInv, BaseInv
<1>b. PICK r \in Run : r = work[h].run
  BY <1>a, Shape DEF GraphNode, Idle
<1>c. /\ InStep(work[h], Latest(r), history[r].status)
      /\ Latest(r) \in Checkpoint /\ Sound(Latest(r)) /\ IsRun(Latest(r))
      /\ history[r].status = "COMPLETED" => Closed(Latest(r))
      /\ work[h] # Idle /\ work[h].at = "graph"
  BY <1>b, UnderWay DEF GraphNode
<1>d. work[h].ck = Latest(r) /\ Latest(r).next \notin HitlNode \cup {"END"}
  BY <1>c DEF InStep, GraphNode
<1>1. PICK ck \in NodeResults(Latest(r), trade, external) :
        Write(r, ck) /\ SetWork(h, Graph(r, work[h].decision, ck, FALSE))
  BY <1>b, <1>d DEF GraphNode
<1>2. ck \in Checkpoint /\ Sound(ck) /\ (Latest(r).action => ck.action) /\ IsRun(ck)
  BY <1>a, <1>c, <1>d, NodeResultsSound, CheckpointIsRun DEF RestTyped
<1>3. UNCHANGED <<saver, history, acted>> /\ store'[saver][r] = ck
  BY <1>a, <1>1 DEF GraphNode, Write, StoreTyped
<1> DEFINE new == Graph(r, work[h].decision, ck, FALSE)
<1>4. /\ new # Idle /\ new.run = r /\ ~Approving(new)
      /\ InStep(new, ck, history'[r].status)
  BY DEF Graph, Idle, InStep, Approving
<1>5. history'[r].status = "COMPLETED" => Closed(ck)
  BY <1>c, <1>d, <1>2, <1>3 DEF Closed
<1> HIDE DEF new
<1>6. StepOf(h, r, new)
  BY <1>a, <1>b, <1>1, <1>3, <1>4, StepOfIs DEF new
<1>7. RunInv' /\ Asking(r) = AskOf(Latest(r)) /\ Asking(r)' = AskOf(ck)
  BY <1>c, <1>2, <1>3, <1>4, <1>5, <1>6, StepKeeps
<1>8. Same(h, r, new) \/ Turns(h, r, new)
  <2>1. CASE Latest(r).action
    <3>1. ck.next \notin HitlNode
      BY <1>2, <2>1, Tools DEF Sound, Investigation
    <3>2. Asking(r) = "closed" /\ Asking(r)' = "closed"
      BY <1>2, <1>7, <1>d, <2>1, <3>1 DEF AskOf
    <3>3. QED
      BY <1>3, <3>2, Tools DEF Same
  <2>2. CASE ~Latest(r).action
    <3>1. Asking(r) = "nothing"
      BY <1>7, <1>d, <2>2 DEF AskOf
    <3>2. Asking(r)' \in HitlNode \cup {"closed", "nothing"}
      BY <1>7 DEF AskOf
    <3>3. "nothing" \notin HitlNode
      BY Tools
    <3>4. QED
      BY <1>3, <1>4, <3>1, <3>2, <3>3 DEF Same, Turns
  <2>3. QED
    BY <2>1, <2>2
<1>9. QED
  BY <1>a, <1>6, <1>7, <1>8, PromiseKept

LEMMA GraphStopsKeeps ==
  ASSUME RunInv, BaseInv', OnePerRun, OnePerRun', NEW h \in Handler, GraphStops(h)
  PROVE  RunInv' /\ [Promise!Next]_promised
<1>a. TypeOK /\ BaseInv
  BY DEF RunInv, BaseInv
<1>b. PICK r \in Run : r = work[h].run
  BY <1>a, Shape DEF GraphStops, Idle
<1>c. /\ InStep(work[h], Latest(r), history[r].status) /\ IsRun(Latest(r))
      /\ history[r].status = "COMPLETED" => Closed(Latest(r))
      /\ work[h] # Idle /\ work[h].at = "graph"
  BY <1>b, UnderWay DEF GraphStops
<1>d. work[h].ck = Latest(r)
      /\ (Latest(r).next = "END" \/ (Latest(r).next \in HitlNode /\ ~work[h].resumed))
  BY <1>c DEF InStep, GraphStops
<1> DEFINE new == Then("result", work[h])
<1>1. SetWork(h, new) /\ UNCHANGED <<saver, store, history, acted>> /\ store'[saver][r] = Latest(r)
  BY DEF GraphStops, graphVars, Latest
<1>2. /\ new # Idle /\ new.run = r /\ ~Approving(new)
      /\ InStep(new, Latest(r), history'[r].status)
  BY <1>b, <1>d DEF Then, Idle, InStep, Approving
<1> HIDE DEF new
<1>3. StepOf(h, r, new)
  BY <1>a, <1>b, <1>1, <1>2, StepOfIs
<1>4. RunInv' /\ Asking(r) = AskOf(Latest(r)) /\ Asking(r)' = AskOf(Latest(r))
  BY <1>c, <1>1, <1>2, <1>3, StepKeeps
<1>5. Same(h, r, new)
  <2>1. Asking(r) \in HitlNode => ~Approving(work[h])
    BY <1>c, <1>d, <1>4, Tools DEF AskOf, Approving
  <2>2. QED
    BY <1>1, <1>2, <1>4, <2>1 DEF Same
<1>6. QED
  BY <1>a, <1>3, <1>4, <1>5, PromiseKept

LEMMA ToolKeeps ==
  ASSUME RunInv, BaseInv', OnePerRun, OnePerRun', NEW h \in Handler, ToolActs(h) \/ ToolFails(h)
  PROVE  RunInv' /\ [Promise!Next]_promised
<1>a. TypeOK /\ BaseInv
  BY DEF RunInv, BaseInv
<1>b. PICK r \in Run : r = work[h].run
  BY <1>a, Shape DEF ToolActs, ToolFails, Idle
<1>c. /\ InStep(work[h], Latest(r), history[r].status) /\ IsRun(Latest(r)) /\ Sound(Latest(r))
      /\ history[r].status = "COMPLETED" => Closed(Latest(r))
      /\ work[h] # Idle /\ work[h].at = "graph"
  BY <1>b, UnderWay DEF ToolActs, ToolFails
<1>d. /\ work[h].ck = Latest(r) /\ Latest(r).next \in HitlNode /\ Approving(work[h])
  BY <1>c DEF InStep, ToolActs, ToolFails, Approving
<1>e. ~Closed(Latest(r))
  BY <1>c, <1>d, Tools DEF Closed, Sound, Investigation
<1> DEFINE new == [at |-> "tool", run |-> r, decision |-> work[h].decision, ck |-> Latest(r)]
<1>1. /\ SetWork(h, new) /\ UNCHANGED <<saver, store, history>> /\ store'[saver][r] = Latest(r)
      /\ UNCHANGED acted \/ acted' = [acted EXCEPT ![r] = Append(acted[r], Latest(r).next)]
  BY <1>b, <1>d DEF ToolActs, ToolFails, graphVars, Latest
<1>2. /\ new # Idle /\ new.run = r /\ ~Approving(new)
      /\ InStep(new, Latest(r), history'[r].status)
  BY <1>1, <1>c, <1>d, <1>e DEF Idle, InStep, Approving
<1> HIDE DEF new
<1>3. StepOf(h, r, new)
  BY <1>a, <1>b, <1>1, <1>2, StepOfIs
<1>4. RunInv' /\ Asking(r) = AskOf(Latest(r)) /\ Asking(r)' = AskOf(Latest(r))
  BY <1>c, <1>1, <1>2, <1>3, StepKeeps
<1>5. Spent(h, r, new)
  BY <1>1, <1>2, <1>4, <1>d DEF Spent, AskOf
<1>6. QED
  BY <1>a, <1>3, <1>4, <1>5, PromiseKept

LEMMA ToolRecordedKeeps ==
  ASSUME RunInv, BaseInv', OnePerRun, OnePerRun', NEW h \in Handler, ToolRecorded(h)
  PROVE  RunInv' /\ [Promise!Next]_promised
<1>a. TypeOK /\ BaseInv /\ StoreTyped
  BY TypeOKIs DEF RunInv, BaseInv
<1>b. PICK r \in Run : r = work[h].run
  BY <1>a, Shape DEF ToolRecorded, Idle
<1>c. /\ InStep(work[h], Latest(r), history[r].status)
      /\ IsRun(Latest(r)) /\ Latest(r) \in Checkpoint
      /\ work[h] # Idle /\ work[h].at = "tool"
  BY <1>b, UnderWay DEF ToolRecorded
<1>d. work[h].ck = Latest(r)
  BY <1>c DEF InStep
<1> DEFINE n == AfterHitl(Latest(r).next)
           ck == [Latest(r) EXCEPT !.last = "tool", !.action = TRUE, !.next = n]
           new == Graph(r, work[h].decision, ck, FALSE)
<1>1. /\ SetWork(h, new) /\ Write(r, ck) /\ UNCHANGED <<saver, history, acted>>
      /\ store'[saver][r] = ck
  BY <1>a, <1>b, <1>d DEF ToolRecorded, Write, StoreTyped
<1>2. n \in Investigation
  BY DEF AfterHitl, Investigation
<1>3. ck \in Checkpoint /\ ck.next = n /\ ck.action
  BY <1>c, <1>2, DecidedIsSound DEF Checkpoint
<1> HIDE DEF n, ck
<1>4. IsRun(ck) /\ Closed(ck) /\ n \notin HitlNode /\ AskOf(ck) = "closed"
  BY <1>2, <1>3, CheckpointIsRun, Tools DEF Closed, AskOf, Investigation
<1>5. /\ new # Idle /\ new.run = r /\ ~Approving(new)
      /\ InStep(new, ck, history'[r].status)
  BY DEF Graph, Idle, InStep, Approving
<1> HIDE DEF new
<1>6. StepOf(h, r, new)
  BY <1>a, <1>b, <1>1, <1>5, StepOfIs
<1>7. RunInv' /\ Asking(r)' = AskOf(ck)
  BY <1>c, <1>1, <1>4, <1>5, <1>6, StepKeeps
<1>8. Turns(h, r, new)
  BY <1>1, <1>4, <1>5, <1>7, <1>c DEF Turns, Approving
<1>9. QED
  BY <1>a, <1>6, <1>7, <1>8, PromiseKept

LEMMA RejectKeeps ==
  ASSUME RunInv, BaseInv', OnePerRun, OnePerRun', NEW h \in Handler, RejectWrite(h)
  PROVE  RunInv' /\ [Promise!Next]_promised
<1>a. TypeOK /\ BaseInv /\ StoreTyped
  BY TypeOKIs DEF RunInv, BaseInv
<1>b. PICK r \in Run : r = work[h].run
  BY <1>a, Shape DEF RejectWrite, Idle
<1>c. /\ InStep(work[h], Latest(r), history[r].status)
      /\ IsRun(Latest(r)) /\ Latest(r) \in Checkpoint /\ Sound(Latest(r))
      /\ history[r].status = "COMPLETED" => Closed(Latest(r))
      /\ work[h] # Idle /\ work[h].at = "reject"
  BY <1>b, UnderWay DEF RejectWrite
<1>d. work[h].seen = Latest(r) /\ CanReject(Latest(r))
  BY <1>a, <1>c DEF InStep, BaseInv, WorkSound
<1> DEFINE n == RejectedAs(Latest(r))
           ck == [Latest(r) EXCEPT !.last = "tool", !.next = n]
           new == [at |-> "invoke", run |-> r, decision |-> "reject"]
<1>1. /\ SetWork(h, new) /\ Write(r, ck) /\ UNCHANGED <<saver, history, acted>>
      /\ store'[saver][r] = ck
  BY <1>a, <1>b, <1>d DEF RejectWrite, Write, StoreTyped
<1>2. n \in Investigation
  BY DEF RejectedAs, AfterHitl, Investigation
<1>3. ck \in Checkpoint /\ ck.next = n /\ ck.action = Latest(r).action
  BY <1>c, <1>2 DEF Checkpoint, Last, Node, Investigation
<1> HIDE DEF n, ck
<1>4. IsRun(ck) /\ n \notin HitlNode /\ n # "END"
  BY <1>2, <1>3, CheckpointIsRun, Tools DEF Investigation
<1>5. /\ new # Idle /\ new.run = r /\ ~Approving(new)
      /\ InStep(new, ck, history'[r].status)
  BY <1>2, <1>3 DEF Idle, InStep, Approving
<1> HIDE DEF new
<1>6. \/ Latest(r).next \in HitlNode /\ ~Latest(r).action /\ Latest(r).next # "END"
      \/ Latest(r).next = "END" /\ Latest(r).action
  BY <1>c, <1>d, Tools DEF CanReject, Sound, Investigation
<1>7. history'[r].status = "COMPLETED" => Closed(ck)
  BY <1>1, <1>3, <1>c, <1>6 DEF Closed
<1>8. StepOf(h, r, new)
  BY <1>a, <1>b, <1>1, <1>5, StepOfIs
<1>9. RunInv' /\ Asking(r) = AskOf(Latest(r)) /\ Asking(r)' = AskOf(ck)
  BY <1>c, <1>1, <1>4, <1>5, <1>7, <1>8, StepKeeps
<1>10. Same(h, r, new) \/ Turns(h, r, new)
  <2>1. ~Approving(work[h])
    BY <1>c DEF Approving
  <2>2. CASE Latest(r).next \in HitlNode /\ ~Latest(r).action
    <3>1. Asking(r) \in HitlNode /\ Asking(r)' = "nothing"
      BY <1>3, <1>4, <1>9, <2>2 DEF AskOf
    <3>2. QED
      BY <1>1, <1>5, <2>1, <3>1 DEF Turns
  <2>3. CASE Latest(r).next = "END" /\ Latest(r).action
    <3>1. Asking(r)' = "closed"
      BY <1>3, <1>4, <1>9, <2>3 DEF AskOf
    <3>2. QED
      BY <1>1, <1>5, <2>1, <3>1 DEF Turns
  <2>4. QED
    BY <1>6, <2>2, <2>3
<1>11. QED
  BY <1>a, <1>8, <1>9, <1>10, PromiseKept

LEMMA InvokeKeeps ==
  ASSUME RunInv, BaseInv', OnePerRun, OnePerRun', NEW h \in Handler, Invoke(h)
  PROVE  RunInv' /\ [Promise!Next]_promised
<1>a. TypeOK /\ BaseInv
  BY DEF RunInv, BaseInv
<1>b. PICK r \in Run : r = work[h].run
  BY <1>a, Shape DEF Invoke, Idle
<1>c. /\ InStep(work[h], Latest(r), history[r].status) /\ IsRun(Latest(r))
      /\ history[r].status = "COMPLETED" => Closed(Latest(r))
      /\ work[h] # Idle /\ work[h].at = "invoke"
  BY <1>b, UnderWay DEF Invoke
<1> DEFINE new == Graph(r, work[h].decision, Latest(r), TRUE)
<1>1. SetWork(h, new) /\ UNCHANGED <<saver, store, history, acted>> /\ store'[saver][r] = Latest(r)
  BY <1>b DEF Invoke, graphVars, Latest
<1>2. new # Idle /\ new.run = r /\ (Approving(new) <=> Approving(work[h]))
  BY <1>c DEF Graph, Idle, Approving
<1>3. InStep(new, Latest(r), history'[r].status)
  <2>1. Latest(r).next \in HitlNode => work[h].decision = "approve"
    BY <1>c, Tools DEF InStep, Investigation
  <2>2. QED
    BY <2>1 DEF Graph, InStep
<1> HIDE DEF new
<1>4. StepOf(h, r, new)
  BY <1>a, <1>b, <1>1, <1>2, StepOfIs
<1>5. RunInv' /\ Asking(r) = AskOf(Latest(r)) /\ Asking(r)' = AskOf(Latest(r))
  BY <1>c, <1>1, <1>2, <1>3, <1>4, StepKeeps
<1>6. Same(h, r, new)
  BY <1>1, <1>2, <1>5 DEF Same
<1>7. QED
  BY <1>a, <1>4, <1>5, <1>6, PromiseKept

LEMMA BuildResultKeeps ==
  ASSUME RunInv, BaseInv', OnePerRun, OnePerRun', NEW h \in Handler, BuildResult(h)
  PROVE  RunInv' /\ [Promise!Next]_promised
<1>a. TypeOK /\ BaseInv
  BY DEF RunInv, BaseInv
<1>b. PICK r \in Run : r = work[h].run
  BY <1>a, Shape DEF BuildResult, Idle
<1>c. /\ InStep(work[h], Latest(r), history[r].status) /\ IsRun(Latest(r))
      /\ history[r].status = "COMPLETED" => Closed(Latest(r))
      /\ work[h] # Idle /\ work[h].at = "result"
  BY <1>b, UnderWay DEF BuildResult
<1> DEFINE head == Latest(r)
           saved == [at |-> "save", run |-> r,
                     status |-> IF Paused(head) THEN "PENDING_APPROVAL" ELSE "COMPLETED",
                     action |-> ~Paused(head) /\ (IF work[h].decision = "start" THEN head.action
                                                  ELSE work[h].decision = "approve")]
           new == IF work[h].decision = "auto" THEN Idle ELSE saved
<1>1. SetWork(h, new) /\ UNCHANGED <<saver, store, history, acted>> /\ store'[saver][r] = Latest(r)
  BY <1>b DEF BuildResult, graphVars, Latest
<1>2. /\ saved # Idle /\ saved.run = r /\ ~Approving(saved) /\ ~Approving(Idle)
  BY DEF Idle, Approving
<1>3. InStep(saved, Latest(r), history'[r].status)
  <2>1. ~Paused(head) => Closed(Latest(r))
    BY <1>c DEF Paused, Closed, InStep
  <2>2. QED
    BY <2>1 DEF InStep
<1> HIDE DEF saved
<1>4. /\ new = Idle \/ new.run = r
      /\ ~Approving(new)
      /\ new # Idle => InStep(new, Latest(r), history'[r].status)
  BY <1>2, <1>3
<1> HIDE DEF new
<1>5. StepOf(h, r, new)
  BY <1>a, <1>b, <1>c, <1>1, <1>4, StepOfIs
<1>6. RunInv' /\ Asking(r) = AskOf(Latest(r)) /\ Asking(r)' = AskOf(Latest(r))
  BY <1>c, <1>1, <1>4, <1>5, StepKeeps
<1>7. Same(h, r, new)
  <2>1. ~Approving(work[h])
    BY <1>c DEF Approving
  <2>2. QED
    BY <1>1, <1>4, <1>6, <2>1 DEF Same
<1>8. QED
  BY <1>a, <1>5, <1>6, <1>7, PromiseKept

LEMMA EndKeeps ==
  ASSUME RunInv, BaseInv', OnePerRun, OnePerRun', NEW h \in Handler,
         Save(h) \/ SaveFails(h) \/ RequestFails(h)
  PROVE  RunInv' /\ [Promise!Next]_promised
<1>a. TypeOK /\ BaseInv /\ RestTyped
  BY TypeOKIs DEF RunInv, BaseInv
<1>0. work[h] # Idle
  BY DEF Save, SaveFails, RequestFails, Idle
<1>b. PICK r \in Run : r = work[h].run
  BY <1>a, <1>0, Shape
<1>c. /\ InStep(work[h], Latest(r), history[r].status) /\ IsRun(Latest(r))
      /\ history[r].status = "COMPLETED" => Closed(Latest(r))
  BY <1>a, <1>0, <1>b, Shape, UnderWay
<1>1. /\ SetWork(h, Idle) /\ UNCHANGED <<saver, store, acted>> /\ store'[saver][r] = Latest(r)
      /\ \A q \in Run \ {r} : history'[q] = history[q]
      /\ history'[r].status = "COMPLETED" => Closed(Latest(r))
  <2>1. CASE RequestFails(h)
    BY <1>c, <2>1 DEF RequestFails, graphVars, Latest
  <2>2. CASE Save(h)
    <3>1. history' = [history EXCEPT ![r] = [status |-> work[h].status, action |-> work[h].action]]
      BY <1>b, <2>2 DEF Save
    <3>2. history'[r].status = work[h].status /\ \A q \in Run \ {r} : history'[q] = history[q]
      BY <1>a, <3>1 DEF RestTyped
    <3>3. QED
      BY <1>c, <2>2, <3>2 DEF Save, InStep, Latest
  <2>3. CASE SaveFails(h)
    <3>1. history' = [history EXCEPT ![r].status =
                        IF history[r].status = "none" THEN "unsaved" ELSE history[r].status]
      BY <1>b, <2>3 DEF SaveFails
    <3>2. history'[r].status \in {"unsaved", history[r].status}
          /\ \A q \in Run \ {r} : history'[q] = history[q]
      BY <1>a, <3>1 DEF RestTyped, HistoryRow
    <3>3. QED
      BY <1>c, <2>3, <3>2 DEF SaveFails, Latest
  <2>4. QED
    BY <2>1, <2>2, <2>3
<1>2. StepOf(h, r, Idle)
  BY <1>0, <1>b, <1>1 DEF StepOf
<1>3. RunInv' /\ Asking(r) = AskOf(Latest(r)) /\ Asking(r)' = AskOf(Latest(r))
  BY <1>c, <1>1, <1>2, StepKeeps
<1>4. Same(h, r, Idle) \/ Spent(h, r, Idle)
  <2>1. ~Approving(Idle)
    BY DEF Approving, Idle
  <2>2. CASE Asking(r) \in HitlNode /\ Approving(work[h])
    BY <1>1, <1>3, <2>1, <2>2 DEF Spent
  <2>3. CASE ~(Asking(r) \in HitlNode /\ Approving(work[h]))
    BY <1>1, <1>3, <2>1, <2>3 DEF Same
  <2>4. QED
    BY <2>2, <2>3
<1>5. QED
  BY <1>a, <1>2, <1>3, <1>4, PromiseKept

LEMMA ResumeKeeps ==
  ASSUME RunInv, BaseInv', OnePerRun, OnePerRun', NEW h \in Handler, NEW r \in Run,
         ResumeApproved(h, r) \/ ResumeRejected(h, r)
  PROVE  RunInv' /\ [Promise!Next]_promised
<1>a. TypeOK /\ BaseInv /\ StoreTyped
  BY TypeOKIs DEF RunInv, BaseInv
<1>b. work[h] = Idle /\ IsRun(Latest(r))
  BY DEF ResumeApproved, ResumeRejected, CanReject
<1>1. PICK new : /\ SetWork(h, new)
                 /\ \/ new = [at |-> "invoke", run |-> r, decision |-> "approve"]
                    \/ new = [at |-> "reject", run |-> r, seen |-> Latest(r)]
  BY DEF ResumeApproved, ResumeRejected
<1>2. UNCHANGED <<saver, store, history, acted>> /\ store'[saver][r] = Latest(r)
  BY DEF ResumeApproved, ResumeRejected, graphVars, Latest
<1>3. new # Idle /\ new.run = r /\ InStep(new, Latest(r), history'[r].status)
  BY <1>1 DEF Idle, InStep
<1>4. StepOf(h, r, new)
  BY <1>a, <1>b, <1>1, <1>2, <1>3, StepOfIs
<1>5. history'[r].status = "COMPLETED" => Closed(Latest(r))
  BY <1>a, <1>2 DEF RunInv, CompletedClosed, StoreTyped, Latest
<1>6. RunInv' /\ Asking(r) = AskOf(Latest(r)) /\ Asking(r)' = AskOf(Latest(r))
  BY <1>b, <1>2, <1>3, <1>4, <1>5, StepKeeps
<1>7. Same(h, r, new) \/ Approved(h, r, new)
  <2>1. ~Approving(work[h])
    BY <1>b DEF Approving, Idle
  <2>2. CASE Asking(r) \in HitlNode /\ Approving(new)
    BY <1>2, <1>6, <2>1, <2>2 DEF Approved
  <2>3. CASE ~(Asking(r) \in HitlNode /\ Approving(new))
    BY <1>2, <1>6, <2>1, <2>3 DEF Same
  <2>4. QED
    BY <2>2, <2>3
<1>8. QED
  BY <1>a, <1>4, <1>6, <1>7, PromiseKept

LEMMA StartKeeps ==
  ASSUME RunInv, BaseInv', OnePerRun, OnePerRun', NEW h \in Handler, NEW r \in Run,
         NEW agent \in Agent, NEW codes \in Message, NEW decision \in {"start", "auto"},
         Start(h, r, agent, codes, decision)
  PROVE  RunInv' /\ [Promise!Next]_promised
<1>a. TypeOK /\ TypeOK' /\ BaseInv /\ StoreTyped
  BY TypeOKIs DEF RunInv, BaseInv
<1> DEFINE ck == InitialState(agent, codes)
           new == Graph(r, decision, ck, FALSE)
<1>1. /\ SetWork(h, new) /\ Write(r, ck) /\ UNCHANGED <<saver, history, acted>>
      /\ work[h] = Idle /\ history[r] = NotSaved
      /\ \A s \in Saver : store[s][r] = NoRun
  BY DEF Start, Saver
<1>2. ck \in Checkpoint /\ IsRun(ck) /\ AskOf(ck) = "nothing"
  BY StartIsSound, CheckpointIsRun, Tools DEF InitialState, AskOf
<1> HIDE DEF ck
<1>3. new # Idle /\ new.run = r /\ ~Approving(new) /\ InStep(new, ck, history'[r].status)
  BY DEF Graph, Idle, InStep, Approving
<1> HIDE DEF new
<1>4. StepOf(h, r, new)
  BY <1>a, <1>1, <1>3, StepOfIs
<1>5. /\ store'[saver][r] = ck
      /\ \A s \in Saver : s # saver => store'[s][r] = NoRun
      /\ saver \in Saver /\ Saver = {"postgres", "memory"}
  BY <1>a, <1>1 DEF Write, StoreTyped, Saver
<1>6. Keeps(r, new)
  BY <1>1, <1>3, <1>5 DEF Keeps, NotSaved
<1>7. RunInv'
  BY <1>4, <1>6, OneRunStep
<1>8. Asking(r) = "nothing" /\ Asking(r)' = "nothing"
  <2>1. CheckpointOf(r) = NoRun
    BY <1>1 DEF CheckpointOf, Saver
  <2>2. Asking(r) = "nothing"
    BY <2>1 DEF Asking, NoRun, LostRun
  <2>3. Latest(r)' = ck
    BY <1>1, <1>5 DEF Latest
  <2>4. Asking(r)' = AskOf(ck)
    BY <1>a, <1>2, <1>7, <2>3, AskingIsNext DEF RunInv
  <2>5. QED
    BY <1>2, <2>2, <2>4
<1>9. Same(h, r, new)
  BY <1>1, <1>8, Tools DEF Same
<1>10. QED
  BY <1>a, <1>4, <1>7, <1>9, PromiseKept

(* Steps of the environment that leave every run as it is.                 *)
LEMMA StillKeeps ==
  ASSUME RunInv, BaseInv', UNCHANGED <<graphVars, work>>
  PROVE  RunInv' /\ [Promise!Next]_promised
<1>1. RunInv'
  BY DEF RunInv, AllInStep, OneStore, CompletedClosed, Latest, graphVars
<1>2. \A r \in Run : Asking(r)' = Asking(r) /\ (Licensed(r)' <=> Licensed(r))
  BY DEF Asking, CheckpointOf, Licensed, graphVars
<1>3. Asks' = Asks /\ Licences' = Licences
  BY <1>2 DEF Asks, Licences
<1>4. QED
  BY <1>1, <1>3 DEF promised, graphVars

LEMMA RestartKeeps ==
  ASSUME RunInv, BaseInv', Restart
  PROVE  RunInv' /\ [Promise!Next]_promised
<1>a. TypeOK /\ StoreTyped /\ Saver = {"postgres", "memory"}
  BY TypeOKIs DEF RunInv, BaseInv, Saver
<1>b. /\ work' = [h \in Handler |-> Idle] /\ UNCHANGED <<history, acted>>
      /\ store' = [store EXCEPT !["memory"] =
                     [r \in Run |-> IF store["memory"][r] = NoRun THEN NoRun ELSE LostRun]]
  BY DEF Restart
<1>c. /\ store'["postgres"] = store["postgres"]
      /\ \A r \in Run : store'["memory"][r] = IF store["memory"][r] = NoRun THEN NoRun ELSE LostRun
  BY <1>a, <1>b DEF StoreTyped
<1>d. NoRun # LostRun
  BY DEF NoRun, LostRun
<1>1. RunInv'
  <2>1. AllInStep'
    BY <1>b DEF AllInStep
  <2>2. OneStore'
    BY <1>c DEF RunInv, OneStore
  <2>3. CompletedClosed'
    BY <1>a, <1>b, <1>c DEF RunInv, CompletedClosed, Closed, IsRun
  <2>4. QED
    BY <2>1, <2>2, <2>3 DEF RunInv
<1> DEFINE lost == {r \in Run : store["memory"][r] # NoRun}
<1>2. ASSUME NEW r \in Run
      PROVE  Asking(r)' = IF r \in lost THEN "closed" ELSE Asking(r)
  <2>1. CASE r \in lost
    <3>1. CheckpointOf(r)' = LostRun
      BY <1>c, <1>d, <2>1 DEF CheckpointOf, RunInv, OneStore
    <3>2. QED
      BY <1>d, <2>1, <3>1 DEF Asking
  <2>2. CASE r \notin lost
    <3>1. CheckpointOf(r)' = CheckpointOf(r)
      BY <1>c, <2>2 DEF CheckpointOf
    <3>2. QED
      BY <2>2, <3>1 DEF Asking
  <2>3. QED
    BY <2>1, <2>2
<1>3. Asks' = [r \in Run |-> IF r \in lost THEN "closed" ELSE Asks[r]]
  BY <1>2 DEF Asks
<1>4. Licences' = {}
  BY <1>b DEF Licences, Licensed, Idle
<1>5. lost \in SUBSET Run
  OBVIOUS
<1> HIDE DEF lost
<1>6. Promise!Crash
  BY <1>b, <1>3, <1>4, <1>5 DEF Promise!Crash
<1>7. QED
  BY <1>1, <1>6 DEF Promise!Next

LEMMA RunStep ==
  ASSUME RunInv, OnePerRun, OnePerRun', [Next]_vars
  PROVE  RunInv' /\ [Promise!Next]_promised
<1>a. BaseInv'
  BY BaseStep DEF RunInv
<1>1. CASE UNCHANGED vars
  BY <1>a, <1>1, StillKeeps DEF vars
<1>2. ASSUME NEW h \in Handler, NEW r \in Run, Arrives(h, r)
      PROVE  RunInv' /\ [Promise!Next]_promised
  BY <1>a, <1>2, StartKeeps, ResumeKeeps DEF Arrives
<1>3. ASSUME NEW h \in Handler, Continue(h) \/ RequestFails(h)
      PROVE  RunInv' /\ [Promise!Next]_promised
  BY <1>a, <1>3, GraphNodeKeeps, GraphStopsKeeps, ToolKeeps, ToolRecordedKeeps, RejectKeeps,
     InvokeKeeps, BuildResultKeeps, EndKeeps DEF Continue
<1>4. ASSUME NEW h \in Handler,
             \/ BoCheck(h) \/ UpdateCounterparty(h)
             \/ \E ccy \in Currency : UpdateSsi(h, ccy)
      PROVE  RunInv' /\ [Promise!Next]_promised
  <2>1. UNCHANGED <<graphVars, work>>
    BY <1>4 DEF BoCheck, UpdateCounterparty, UpdateSsi
  <2>2. QED
    BY <1>a, <2>1, StillKeeps
<1>5. CASE Restart
  BY <1>a, <1>5, RestartKeeps
<1>6. QED
  BY <1>1, <1>2, <1>3, <1>4, <1>5 DEF Next, Arrives

LEMMA RunInit ==
  ASSUME Init
  PROVE  RunInv /\ Promise!Init
<1>1. /\ \A r \in Run : store["postgres"][r] = NoRun /\ store["memory"][r] = NoRun
      /\ \A h \in Handler : work[h] = Idle
      /\ \A r \in Run : history[r].status = "none"
      /\ acted = [r \in Run |-> <<>>]
  BY DEF Init, NotSaved
<1>2. RunInv
  BY <1>1, BaseInit DEF RunInv, AllInStep, OneStore, CompletedClosed
<1>3. \A r \in Run : Asking(r) = "nothing"
  BY <1>1 DEF Asking, CheckpointOf, NoRun, LostRun
<1>4. "nothing" \notin HitlNode
  BY Tools
<1>5. Asks = [r \in Run |-> "nothing"] /\ Licences = {}
  BY <1>3, <1>4 DEF Asks, Licences, Licensed
<1>6. QED
  BY <1>1, <1>2, <1>5 DEF Promise!Init

(* The inductive invariant of runs whose requests do not overlap.          *)
THEOREM RunInvariance == Spec /\ []OnePerRun => []RunInv
BY RunInit, RunStep, PTL DEF Spec

(* A run whose requests do not overlap keeps the promise of HitlTriage:    *)
(* it acts only under an approval for exactly what it asks, once per       *)
(* approval, and asks no more after an action was recorded.  This holds    *)
(* for any number of runs and operators at work on different runs, through *)
(* failed requests, restarts, the fallback to memory and data that changes *)
(* under a paused run.                                                     *)
THEOREM RunsActAsApproved == Spec /\ []OnePerRun => ActsAsApproved
<1>1. RunInv /\ OnePerRun /\ OnePerRun' /\ [Next]_vars => [Promise!Next]_promised
  BY RunStep
<1>2. Init => Promise!Init
  BY RunInit
<1>3. QED
  BY <1>1, <1>2, RunInvariance, PTL DEF Spec, ActsAsApproved, Promise!Spec, Promise!vars, promised

(* A tool that needs approval is executed only by a request that brings an *)
(* approval.                                                               *)
THEOREM ToolsNeedApproval == Spec /\ []OnePerRun => []OnlyApprovedActs
<1>1. RunInv => OnlyApprovedActs
  BY DEF RunInv, AllInStep, InStep, OnlyApprovedActs, Idle
<1>2. QED
  BY <1>1, RunInvariance, PTL

(* A run the history shows as completed never acts again.                  *)
THEOREM CompletedRunsAreOver == Spec /\ []OnePerRun => CompletedActsNoMore
<1>1. RunInv /\ [Next]_vars
        => [\A r \in Run : history[r].status = "COMPLETED" => acted'[r] = acted[r]]_<<history, acted>>
  <2> SUFFICES ASSUME RunInv, [Next]_vars, NEW r \in Run, history[r].status = "COMPLETED"
               PROVE  acted'[r] = acted[r]
    OBVIOUS
  <2>1. ASSUME NEW h \in Handler, ToolActs(h)
        PROVE  acted'[r] = acted[r]
    <3>1. PICK q \in Run : q = work[h].run
      BY <2>1, Shape DEF ToolActs, RunInv, BaseInv, Idle
    <3>2. /\ work[h].at = "graph" /\ work[h].ck.next \in HitlNode
          /\ acted' = [acted EXCEPT ![q] = Append(acted[q], work[h].ck.next)]
      BY <2>1, <3>1 DEF ToolActs
    <3>3. /\ InStep(work[h], Latest(q), history[q].status) /\ Sound(Latest(q)) /\ IsRun(Latest(q))
          /\ history[q].status = "COMPLETED" => Closed(Latest(q))
      BY <3>1, <3>2, UnderWay
    <3>4. q # r
      BY <3>2, <3>3, Tools DEF InStep, Sound, Closed, Investigation
    <3>5. QED
      BY <3>2, <3>4, TypeOKIs DEF RunInv, BaseInv, RestTyped
  <2>2. QED
    BY <2>1, StepKinds DEF BoCheck, UpdateSsi, graphVars
<1>2. QED
  BY <1>1, RunInvariance, PTL DEF Spec, CompletedActsNoMore

-----------------------------------------------------------------------------
(* What follows from the promise follows for the runs.                     *)
Kept == INSTANCE HitlTriage_proofs WITH Ask <- HitlNode, asking <- Asks, licence <- Licences

LEMMA SamePromise == Promise!Spec => Kept!Spec
<1>1. Promise!vars = Kept!vars /\ Promise!NotAsking = Kept!NotAsking
  BY DEF Promise!vars, Kept!vars, Promise!NotAsking, Kept!NotAsking
<1>2. Promise!Init => Kept!Init
  BY DEF Promise!Init, Kept!Init
<1>3. ASSUME NEW r \in Run,
             \/ Promise!Propose(r) \/ Promise!Approve(r) \/ Promise!Act(r)
             \/ Promise!Spend(r) \/ Promise!Close(r) \/ Promise!Reject(r)
      PROVE  \/ Kept!Propose(r) \/ Kept!Approve(r) \/ Kept!Act(r)
             \/ Kept!Spend(r) \/ Kept!Close(r) \/ Kept!Reject(r)
  BY <1>1, <1>3 DEF Promise!Propose, Kept!Propose, Promise!Approve, Kept!Approve,
     Promise!Act, Kept!Act, Promise!Spend, Kept!Spend, Promise!Close, Kept!Close,
     Promise!Reject, Kept!Reject
<1>4. Promise!Crash => Kept!Crash
  BY DEF Promise!Crash, Kept!Crash
<1>5. [Promise!Next]_promised => [Kept!Next]_promised
  BY <1>3, <1>4 DEF Promise!Next, Kept!Next
<1>6. QED
  BY <1>2, <1>5, PTL DEF Promise!Spec, Kept!Spec, Promise!vars, Kept!vars, promised

(* An approval is good for one action, the one the run asked for when it   *)
(* was given: to act again, even to repeat an action whose checkpoint was  *)
(* lost, a run needs another approval.  (resume, interrupt_before)         *)
THEOREM ApprovalsGoodForOneAct == Spec /\ []OnePerRun => Kept!OneActPerApproval
BY RunsActAsApproved, SamePromise, Kept!ApprovalsAreSpent, PTL DEF ActsAsApproved

(* A run that has recorded an action, has reached its end or has lost its  *)
(* checkpoint is over, also when its history row was never saved: it asks  *)
(* for nothing and does nothing, whatever is sent to it.                   *)
THEOREM ClosedRunsAreOver == Spec /\ []OnePerRun => Kept!ClosedForGood
BY RunsActAsApproved, SamePromise, Kept!ClosedRunsStayClosed, PTL DEF ActsAsApproved

-----------------------------------------------------------------------------
(* With one worker thread no requests overlap, so that the theorems about  *)
(* runs whose requests do not overlap need no more than that.              *)
THEOREM OneWorkerPerRun ==
  ASSUME \A g, h \in Handler : g = h
  PROVE  Spec => []OnePerRun
<1>1. OnePerRun
  BY DEF OnePerRun
<1>2. QED
  BY <1>1, PTL
=============================================================================
