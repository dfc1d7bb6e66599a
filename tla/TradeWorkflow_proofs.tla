------------------------ MODULE TradeWorkflow_proofs ------------------------
(***************************************************************************)
(* What holds of TradeWorkflow however requests overlap: for every set of  *)
(* trades, events and handlers, every bound and every environment.         *)
(***************************************************************************)
EXTENDS TradeWorkflow, TLAPS

-----------------------------------------------------------------------------
(* Lemmas about the table: what the repository methods return.             *)

(* A current version is a row of the table.                                *)
LEMMA CurrentIsRow ==
  ASSUME NEW tb \in TradeTable, NEW t \in Trade, NEW v \in CurrentVersions(tb, t)
  PROVE  v \in Version /\ tb[t][v] \in TradeRow /\ tb[t][v].current
<1>1. v \in Version /\ tb[t][v].current
  BY DEF CurrentVersions
<1>2. tb[t][v] \in TradeRow \cup {NoRow}
  BY <1>1 DEF TradeTable
<1> QED BY <1>1, <1>2 DEF NoRow

(* A key of the table holds a row just when its version exists.            *)
LEMMA ExistsIsRow ==
  ASSUME NEW tb \in TradeTable, NEW t \in Trade, NEW v \in Version
  PROVE  /\ Exists(tb, t, v) <=> tb[t][v] \in TradeRow
         /\ ~Exists(tb, t, v) <=> tb[t][v] = NoRow
         /\ tb[t][v].current \in BOOLEAN
         /\ tb[t][v].current => Exists(tb, t, v)
<1>1. tb[t][v] \in TradeRow \cup {NoRow}
  BY DEF TradeTable
<1>2. "None" \notin WorkflowStatus
  BY DEF WorkflowStatus
<1>3. CASE tb[t][v] = NoRow
  <2>1. NoRow.status = "None" /\ NoRow.current = FALSE /\ NoRow \notin TradeRow
    BY <1>2 DEF NoRow, TradeRow
  <2> QED BY <1>3, <2>1 DEF Exists
<1>4. CASE tb[t][v] \in TradeRow
  <2>1. tb[t][v].status # "None" /\ tb[t][v].current \in BOOLEAN /\ tb[t][v] # NoRow
    BY <1>2, <1>4 DEF NoRow, TradeRow
  <2> QED BY <1>4, <2>1 DEF Exists
<1> QED BY <1>1, <1>3, <1>4

(* What a session has loaded is well typed.                                *)
LEMMA LoadType ==
  ASSUME NEW tb \in TradeTable, NEW t \in Trade, NEW v \in CurrentVersions(tb, t),
         NEW loaded \in SUBSET LoadedRow
  PROVE  Load(tb, t, v, loaded) \in SUBSET LoadedRow
<1>1. v \in Version /\ tb[t][v].status \in WorkflowStatus
  BY CurrentIsRow DEF TradeRow
<1> DEFINE row == [version |-> v, status |-> tb[t][v].status]
<1>2. row \in LoadedRow
  BY <1>1 DEF LoadedRow
<1>3. Load(tb, t, v, loaded) \in {loaded, loaded \cup {row}}
  BY DEF Load
<1> HIDE DEF row
<1> QED BY <1>2, <1>3

LEMMA NoUpdateType == NoUpdate \in Update /\ NoUpdate.on = {} /\ NoUpdate.off = {}
                      /\ NoUpdate.updated = {} /\ NoUpdate.restatus = {}
BY DEF NoUpdate, Update, WorkflowStatus

(* update_workflow_status writes at most one row, a current one, and       *)
(* leaves the flags alone.                                                 *)
LEMMA StatusUpdatesType ==
  ASSUME NEW tb, NEW t, NEW s \in WorkflowStatus, NEW loaded,
         NEW u \in StatusUpdates(tb, t, s, loaded)
  PROVE  /\ u \in Update /\ u.on = {} /\ u.off = {}
         /\ u.updated \subseteq CurrentVersions(tb, t)
<1>1. CASE u = NoUpdate
  BY <1>1, NoUpdateType
<1>2. CASE u # NoUpdate
  <2>1. PICK v \in CurrentVersions(tb, t) :
          u = [NoUpdate EXCEPT
                 !.updated = {v}, !.status = s,
                 !.restatus = IF [version |-> v, status |-> s] \in Load(tb, t, v, loaded)
                              THEN {} ELSE {v}]
    BY <1>2 DEF StatusUpdates
  <2> DEFINE r == IF [version |-> v, status |-> s] \in Load(tb, t, v, loaded) THEN {} ELSE {v}
  <2>2. r \subseteq {v} /\ v \in Version
    BY DEF CurrentVersions
  <2>3. u = [NoUpdate EXCEPT !.updated = {v}, !.status = s, !.restatus = r]
    BY <2>1
  <2> HIDE DEF r
  <2>4. u = [updated |-> {v}, on |-> {}, off |-> {}, restatus |-> r, status |-> s]
    BY <2>3 DEF NoUpdate
  <2>5. u \in Update
    BY <2>2, <2>4 DEF Update
  <2> QED BY <2>4, <2>5
<1> QED BY <1>1, <1>2

(* activate_version, and the status of the version it found: at most the   *)
(* version named is set.                                                   *)
LEMMA ActivateAmendedType ==
  ASSUME NEW t, NEW to \in Version
  PROVE  LET u == ActivateAmended(t, to)
             found == {v \in Version : Exists(rows, t, v)}
         IN /\ u \in Update /\ u.updated = found
            /\ u.on = {v \in found : v = to /\ ~rows[t][v].current}
            /\ u.off = {v \in found : v # to /\ rows[t][v].current}
            /\ u.restatus = {v \in {to} : Exists(rows, t, v) /\ rows[t][v].status # "Initial"}
            /\ u.status = "Initial"
<1> DEFINE found == {v \in Version : Exists(rows, t, v)}
           on == {v \in found : v = to /\ ~rows[t][v].current}
           off == {v \in found : v # to /\ rows[t][v].current}
           re == {v \in {to} : Exists(rows, t, v) /\ rows[t][v].status # "Initial"}
<1>1. ActivateAmended(t, to) =
        [[NoUpdate EXCEPT !.updated = found, !.on = on, !.off = off] EXCEPT !.restatus = re]
  BY DEF ActivateAmended, ActivateVersion
<1>2. found \in SUBSET Version /\ on \in SUBSET Version /\ off \in SUBSET Version
      /\ re \in SUBSET Version
  OBVIOUS
<1> HIDE DEF found, on, off, re
<1>3. ActivateAmended(t, to) =
        [updated |-> found, on |-> on, off |-> off, restatus |-> re, status |-> "Initial"]
  BY <1>1 DEF NoUpdate
<1>4. ActivateAmended(t, to) \in Update
  BY <1>2, <1>3 DEF Update, WorkflowStatus
<1> QED BY <1>3, <1>4 DEF found, on, off, re

(* The reset of a rejection writes at most the current row, as the session *)
(* sees the table after its own delete.                                    *)
LEMMA ResetsType ==
  ASSUME NEW t, NEW tb, NEW u \in Resets(tb, t)
  PROVE  /\ u \in Update /\ u.on = {} /\ u.off = {}
         /\ u.updated \subseteq CurrentVersions(tb, t)
<1>1. CASE u = NoUpdate
  BY <1>1, NoUpdateType
<1>2. CASE u # NoUpdate
  <2>1. PICK v \in CurrentVersions(tb, t) :
          u = [NoUpdate EXCEPT !.updated = {v}, !.restatus = {v}, !.status = "FoAgentToCheck"]
    BY <1>2 DEF Resets
  <2>2. v \in Version
    BY DEF CurrentVersions
  <2>3. u = [updated |-> {v}, on |-> {}, off |-> {}, restatus |-> {v}, status |-> "FoAgentToCheck"]
    BY <2>1 DEF NoUpdate
  <2>4. u \in Update
    BY <2>2, <2>3 DEF Update, WorkflowStatus
  <2> QED BY <2>3, <2>4
<1> QED BY <1>1, <1>2

(* A version that was deleted is not current in what its session sees.     *)
LEMMA DeletedNotCurrent ==
  ASSUME NEW tb \in TradeTable, NEW t \in Trade, NEW dropped \in SUBSET Version
  PROVE  /\ DeleteVersions(tb, t, dropped) \in TradeTable
         /\ CurrentVersions(DeleteVersions(tb, t, dropped), t)
              = CurrentVersions(tb, t) \ dropped
<1> DEFINE new == DeleteVersions(tb, t, dropped)
<1>1. new \in TradeTable
  BY DEF DeleteVersions, TradeTable
<1>2. \A v \in Version : new[t][v] = IF v \in dropped THEN NoRow ELSE tb[t][v]
  BY DEF DeleteVersions, TradeTable
<1> HIDE DEF new
<1>3. \A v \in Version : new[t][v].current <=> tb[t][v].current /\ v \notin dropped
  BY <1>2 DEF NoRow
<1> QED BY <1>1, <1>3 DEF CurrentVersions, new

(* A flush that finds its rows keeps the table well typed.                 *)
LEMMA ApplyType ==
  ASSUME NEW tb \in TradeTable, NEW t \in Trade, NEW u \in Update, CanApply(tb, t, u)
  PROVE  Apply(tb, t, u) \in TradeTable
<1> DEFINE row(v) == IF v \in u.updated THEN Written(tb[t][v], v, u) ELSE tb[t][v]
<1>1. ASSUME NEW v \in Version
      PROVE  row(v) \in TradeRow \cup {NoRow}
  <2>1. CASE v \in u.updated
    <3>1. tb[t][v] \in TradeRow
      BY <2>1, ExistsIsRow DEF CanApply
    <3>2. Written(tb[t][v], v, u) \in TradeRow
      BY <3>1 DEF Written, TradeRow, Update
    <3> QED BY <2>1, <3>2
  <2>2. CASE v \notin u.updated
    BY <2>2 DEF TradeTable
  <2> QED BY <2>1, <2>2
<1>2. [v \in Version |-> row(v)] \in [Version -> TradeRow \cup {NoRow}]
  BY <1>1
<1> QED BY <1>2 DEF Apply, TradeTable

(* create_next_version keeps the table well typed, and every row but one.  *)
LEMMA InsertVersionType ==
  ASSUME NEW tb \in TradeTable, NEW t \in Trade, NEW to \in Version
  PROVE  /\ InsertVersion(tb, t, to) \in TradeTable
         /\ InsertVersion(tb, t, to)[t][to] = [status |-> "EventPending", current |-> FALSE]
         /\ \A x \in Trade, v \in Version :
              x # t \/ v # to => InsertVersion(tb, t, to)[x][v] = tb[x][v]
<1>1. [status |-> "EventPending", current |-> FALSE] \in TradeRow
  BY DEF TradeRow, WorkflowStatus
<1> QED BY <1>1 DEF InsertVersion, TradeTable

(* A trade as it is booked or seeded, and a trade that is not there.       *)
LEMMA FirstVersionType ==
  ASSUME NEW s \in WorkflowStatus
  PROVE  /\ FirstVersion(s) \in [Version -> TradeRow \cup {NoRow}]
         /\ Absent \in [Version -> TradeRow \cup {NoRow}]
<1>1. [status |-> s, current |-> TRUE] \in TradeRow
  BY DEF TradeRow
<1> QED BY <1>1 DEF FirstVersion, Absent

-----------------------------------------------------------------------------
(* Lemmas about the requests: what a request still has to do.              *)

AnyWork == RuleWork \cup ProposalWork \cup DecisionWork \cup SeedWork

(* A request's stage tells the shape of its record.                        *)
LEMMA WorkByStage ==
  ASSUME NEW w \in AnyWork
  PROVE  /\ w.at \in {"maybeFo", "maybeBo", "foTriage", "boTriage"} => w \in CallWork
         /\ w.at \in {"foRules", "boRules"} => w \in CheckWork
         /\ w.at = "select" => w \in SelectWork
         /\ w.at = "update" => w \in UpdateWork
         /\ w.at \in {"guard", "number", "insert", "mark", "create"} => w \in ProposalWork
         /\ w.at \in {"decide", "reset", "decided"} => w \in DecisionWork
         /\ w.at \in {"reseed", "seedChecks"} => w \in SeedWork
         /\ w.at = "idle" => w = Idle
BY DEF AnyWork, RuleWork, CallWork, CheckWork, SelectWork, UpdateWork, ProposalWork,
       DecisionWork, SeedWork, Idle

LEMMA CallType ==
  ASSUME NEW t \in Trade
  PROVE  /\ Idle \in AnyWork /\ Idle.at = "idle"
         /\ \A at \in {"maybeFo", "maybeBo", "foTriage", "boTriage"} :
              Call(at, t) \in AnyWork /\ Call(at, t).at = at
BY DEF AnyWork, RuleWork, CallWork, Call, Idle

Quiet(w) == w.at \in {"update", "create"} => w.update.on = {} /\ w.update.off = {}

(* What a request at work on a decision relies on: it has found its event, *)
(* for BO one that FO has decided on; it sets no flag but that of the      *)
(* version the amendment named; it writes no row that it has deleted.      *)
DecisionStage == {"decide", "reset", "decided"}
Relies(ev, w) ==
  w.at \in DecisionStage =>
    /\ ev[w.event] \in EventRow
    /\ w.desk = "BO" => ev[w.event].status \in {"FoValidated", "Done", "Cancelled"}
    /\ \A v \in w.update.on :
         w.outcome = "Done" /\ ev[w.event].type = "AMEND" /\ ev[w.event].to = v
    /\ w.update.updated \cap w.dropped = {}
    /\ w.at = "decide" => w.dropped = {} /\ w.update = NoUpdate
    /\ w.at = "reset" => w.update = NoUpdate

Sound(ev, w) == w \in AnyWork /\ Quiet(w) /\ Relies(ev, w)

(* Events are decided on and never taken back or changed otherwise.        *)
Grows(ev, new) ==
  \A e \in Event : ev[e] \in EventRow =>
    /\ new[e] \in EventRow
    /\ new[e].trade = ev[e].trade /\ new[e].type = ev[e].type /\ new[e].to = ev[e].to
    /\ new[e].status = ev[e].status \/ new[e].status \in {"FoValidated", "Done", "Cancelled"}

(* The inductive invariant.                                                *)
IInv == TypeOK /\ \A h \in Handler : Sound(event, work[h])

LEMMA SoundGrows ==
  ASSUME NEW ev, NEW new, Grows(ev, new), NEW w, Sound(ev, w)
  PROVE  Sound(new, w)
<1>1. CASE w.at \in DecisionStage
  <2>1. w.event \in Event /\ ev[w.event] \in EventRow
    BY <1>1, WorkByStage DEF Sound, Relies, DecisionStage, DecisionWork
  <2>2. /\ new[w.event] \in EventRow
        /\ new[w.event].type = ev[w.event].type /\ new[w.event].to = ev[w.event].to
        /\ \/ new[w.event].status = ev[w.event].status
           \/ new[w.event].status \in {"FoValidated", "Done", "Cancelled"}
    BY <2>1 DEF Grows
  <2> QED BY <2>2 DEF Sound, Relies
<1>2. CASE w.at \notin DecisionStage
  BY <1>2 DEF Sound, Relies
<1> QED BY <1>1, <1>2

(* A step that gives one handler sound work preserves the invariant.       *)
LEMMA OneHandlerStep ==
  ASSUME IInv, NEW h \in Handler, Grows(event, event'), Sound(event', work'[h]),
         work' = [work EXCEPT ![h] = work'[h]],
         rows' \in TradeTable, event' \in EventTable,
         batch' \in [Handler -> SUBSET Trade],
         setting' \in [SettingKey -> {"auto", "manual"}]
  PROVE  IInv'
<1>1. \A g \in Handler : Sound(event', work'[g])
  BY SoundGrows DEF IInv, TypeOK
<1>2. work' \in [Handler -> AnyWork]
  BY <1>1 DEF IInv, TypeOK, Sound
<1> QED BY <1>1, <1>2 DEF IInv, TypeOK, AnyWork

-----------------------------------------------------------------------------
(* Every step preserves the invariant.                                     *)

LEMMA SetWorkIs ==
  ASSUME TypeOK, NEW h \in Handler, NEW w, SetWork(h, w)
  PROVE  /\ work'[h] = w
         /\ work' = [work EXCEPT ![h] = work'[h]]
         /\ \A g \in Handler \ {h} : work'[g] = work[g]
BY DEF TypeOK, SetWork

(* Most stages promise nothing.                                            *)
LEMMA PlainSound ==
  ASSUME NEW ev, NEW w \in AnyWork, w.at \notin {"update", "create"} \cup DecisionStage
  PROVE  Sound(ev, w)
BY DEF Sound, Quiet, Relies

LEMMA IdleSound ==
  ASSUME NEW ev
  PROVE  Sound(ev, Idle)
<1>1. Idle \in AnyWork /\ Idle.at = "idle"
  BY DEF AnyWork, RuleWork, Idle
<1> QED BY <1>1, PlainSound DEF DecisionStage

LEMMA GrowsRefl == Grows(event, event)
BY DEF Grows

LEMMA WorkOnly ==
  ASSUME IInv, NEW h \in Handler, NEW w, SetWork(h, w), Sound(event, w),
         UNCHANGED <<rows, event, batch, setting>>
  PROVE  IInv'
<1>1. work'[h] = w /\ work' = [work EXCEPT ![h] = work'[h]]
  BY SetWorkIs DEF IInv
<1>2. Sound(event', work'[h]) /\ Grows(event, event')
  BY <1>1, GrowsRefl
<1> QED BY <1>1, <1>2, OneHandlerStep DEF IInv, TypeOK

(* The work of every handler is well typed.                                *)
LEMMA WorkTyped ==
  ASSUME IInv, NEW h \in Handler
  PROVE  work[h] \in AnyWork /\ Sound(event, work[h])
BY DEF IInv, Sound

(* The SELECT of update_workflow_status.                                   *)
LEMMA SelectCurrentStep ==
  ASSUME IInv, NEW h \in Handler, NEW t \in Trade, NEW s \in WorkflowStatus, NEW loaded,
         NEW after \in After, SelectCurrent(h, t, s, loaded, after),
         UNCHANGED <<rows, event, batch, setting>>
  PROVE  IInv'
<1>1. PICK u \in StatusUpdates(rows, t, s, loaded) :
        SetWork(h, [at |-> "update", trade |-> t, update |-> u, after |-> after])
  BY DEF SelectCurrent
<1> DEFINE w == [at |-> "update", trade |-> t, update |-> u, after |-> after]
<1>2. u \in Update /\ u.on = {} /\ u.off = {}
  BY StatusUpdatesType
<1>3. w \in UpdateWork /\ w.at = "update" /\ w.update = u
  BY <1>2 DEF UpdateWork
<1>4. Sound(event, w)
  BY <1>2, <1>3 DEF Sound, Quiet, Relies, DecisionStage, AnyWork, RuleWork
<1>5. SetWork(h, w)
  BY <1>1
<1> HIDE DEF w
<1> QED BY <1>4, <1>5, WorkOnly

(* The SELECT of a check.                                                  *)
LEMMA CheckReadStep ==
  ASSUME IInv, NEW h \in Handler, NEW t \in Trade, NEW at \in {"foRules", "boRules"},
         NEW chain \in BOOLEAN, CheckRead(h, t, at, chain)
  PROVE  \E w : SetWork(h, w) /\ Sound(event, w) /\ w.at \in {"idle", at}
<1>1. CASE HasCurrent(rows, t)
  <2>1. PICK v \in CurrentVersions(rows, t) :
          SetWork(h, [at |-> at, trade |-> t, loaded |-> Load(rows, t, v, {}), chain |-> chain])
    BY <1>1 DEF CheckRead
  <2> DEFINE loaded == Load(rows, t, v, {})
             w == [at |-> at, trade |-> t, loaded |-> loaded, chain |-> chain]
  <2>2. loaded \in SUBSET LoadedRow
    BY LoadType DEF IInv, TypeOK
  <2>3. SetWork(h, w)
    BY <2>1
  <2> HIDE DEF loaded
  <2>4. w \in CheckWork /\ w.at = at
    BY <2>2 DEF CheckWork
  <2> HIDE DEF w
  <2>5. Sound(event, w)
    BY <2>4, PlainSound DEF AnyWork, RuleWork, DecisionStage
  <2> QED BY <2>3, <2>4, <2>5
<1>2. CASE ~HasCurrent(rows, t)
  <2>1. SetWork(h, Idle)
    BY <1>2 DEF CheckRead
  <2>2. Sound(event, Idle) /\ Idle.at = "idle"
    BY CallType, PlainSound DEF DecisionStage
  <2> QED BY <2>1, <2>2
<1> QED BY <1>1, <1>2

(* What a request does after a commit, or when its transaction failed.     *)
LEMMA FollowStep ==
  ASSUME NEW h \in Handler, NEW t \in Trade, NEW after, Follow(h, t, after) \/ Fail(h, t, after)
  PROVE  \E w : /\ SetWork(h, w) /\ w \in AnyWork
                /\ w.at \in {"idle", "maybeBo", "foTriage", "boTriage"}
<1> DEFINE W == {Idle, Call("maybeBo", t), Call("foTriage", t), Call("boTriage", t)}
<1>1. \A w \in W : w \in AnyWork /\ w.at \in {"idle", "maybeBo", "foTriage", "boTriage"}
  BY CallType
<1>2. CASE Follow(h, t, after)
  <2> DEFINE w == CASE after = "chain" -> Call("maybeBo", t)
                    [] after = "foFailed" /\ IsAuto("fo_triage_trigger") -> Call("foTriage", t)
                    [] after = "boFailed" /\ IsAuto("bo_triage_trigger") -> Call("boTriage", t)
                    [] after \in {"foTriage", "boTriage"} -> Call(after, t)
                    [] OTHER -> Idle
  <2>1. w \in W
    OBVIOUS
  <2>2. SetWork(h, w)
    BY <1>2 DEF Follow
  <2> HIDE DEF w, W
  <2> QED BY <1>1, <2>1, <2>2
<1>3. CASE Fail(h, t, after)
  <2> DEFINE w == IF after \in {"foTriage", "boTriage"} THEN Call(after, t) ELSE Idle
  <2>1. w \in W
    OBVIOUS
  <2>2. SetWork(h, w)
    BY <1>3 DEF Fail
  <2> HIDE DEF w, W
  <2> QED BY <1>1, <2>1, <2>2
<1> QED BY <1>2, <1>3

LEMMA RuleStep == IInv /\ RuleNext => IInv'
<1> SUFFICES ASSUME IInv, NEW h \in Handler,
                    \/ \E t \in Trade : FoCheckRequest(h, t) \/ BoCheckRequest(h, t)
                    \/ MaybeRunFoCheck(h) \/ MaybeRunBoCheck(h)
                    \/ FoRules(h) \/ BoRules(h) \/ Select(h) \/ UpdateCommit(h)
                    \/ \E key \in TunableKeys : UpdateSetting(h, key)
             PROVE  IInv'
  BY DEF RuleNext
<1> DEFINE w == work[h]
<1>0. /\ w.at \in {"maybeFo", "maybeBo"} => w \in CallWork
      /\ w.at \in {"foRules", "boRules"} => w \in CheckWork
      /\ w.at = "select" => w \in SelectWork
      /\ w.at = "update" => w \in UpdateWork
  BY WorkTyped, WorkByStage
<1>a. /\ {"FoValidated", "FoAgentToCheck", "Done", "BoAgentToCheck", "FoCheck", "BoCheck"}
           \subseteq WorkflowStatus
      /\ {"chain", "end", "foFailed", "boFailed"} \subseteq After
  BY DEF WorkflowStatus, After
<1>1. ASSUME NEW t \in Trade, NEW at \in {"foRules", "boRules"}, NEW chain \in BOOLEAN,
             CheckRead(h, t, at, chain), UNCHANGED <<rows, event, batch, setting>>
      PROVE  IInv'
  BY <1>1, CheckReadStep, WorkOnly
<1>2. ASSUME NEW t \in Trade, FoCheckRequest(h, t) \/ BoCheckRequest(h, t)
      PROVE  IInv'
  <2>1. UNCHANGED <<rows, event, batch, setting>>
    BY <1>2 DEF FoCheckRequest, BoCheckRequest
  <2>2. CheckRead(h, t, "foRules", TRUE) \/ CheckRead(h, t, "boRules", FALSE)
    BY <1>2 DEF FoCheckRequest, BoCheckRequest
  <2> QED BY <1>1, <2>1, <2>2
<1>3. CASE MaybeRunFoCheck(h)
  <2>1. UNCHANGED <<rows, event, batch, setting>> /\ w.trade \in Trade
    BY <1>0, <1>3 DEF MaybeRunFoCheck, CallWork
  <2>2. CheckRead(h, w.trade, "foRules", TRUE) \/ SelectCurrent(h, w.trade, "FoCheck", {}, "end")
    BY <1>3 DEF MaybeRunFoCheck
  <2> HIDE DEF w
  <2> QED BY <1>1, <1>a, <2>1, <2>2, SelectCurrentStep
<1>4. CASE MaybeRunBoCheck(h)
  <2>1. UNCHANGED <<rows, event, batch, setting>> /\ w.trade \in Trade
    BY <1>0, <1>4 DEF MaybeRunBoCheck, CallWork
  <2>2. CheckRead(h, w.trade, "boRules", FALSE) \/ SelectCurrent(h, w.trade, "BoCheck", {}, "end")
    BY <1>4 DEF MaybeRunBoCheck
  <2> HIDE DEF w
  <2> QED BY <1>1, <1>a, <2>1, <2>2, SelectCurrentStep
<1>5. CASE FoRules(h)
  <2> DEFINE after == IF w.chain THEN "chain" ELSE "end"
  <2>1. UNCHANGED <<rows, event, batch, setting>> /\ w.trade \in Trade
    BY <1>0, <1>5 DEF FoRules, CheckWork
  <2>2. \/ SelectCurrent(h, w.trade, "FoValidated", w.loaded, after)
        \/ SelectCurrent(h, w.trade, "FoAgentToCheck", w.loaded, "foFailed")
    BY <1>5 DEF FoRules
  <2>3. after \in After
    BY <1>a
  <2> HIDE DEF w, after
  <2> QED BY <1>a, <2>1, <2>2, <2>3, SelectCurrentStep
<1>6. CASE BoRules(h)
  <2>1. UNCHANGED <<rows, event, batch, setting>> /\ w.trade \in Trade
    BY <1>0, <1>6 DEF BoRules, CheckWork
  <2>2. \/ SelectCurrent(h, w.trade, "Done", w.loaded, "end")
        \/ SelectCurrent(h, w.trade, "BoAgentToCheck", w.loaded, "boFailed")
    BY <1>6 DEF BoRules
  <2> HIDE DEF w
  <2> QED BY <1>a, <2>1, <2>2, SelectCurrentStep
<1>7. CASE Select(h)
  <2>1. /\ UNCHANGED <<rows, event, batch, setting>>
        /\ w.trade \in Trade /\ w.status \in WorkflowStatus /\ w.after \in After
    BY <1>0, <1>7 DEF Select, SelectWork
  <2>2. SelectCurrent(h, w.trade, w.status, w.loaded, w.after)
    BY <1>7 DEF Select
  <2> HIDE DEF w
  <2> QED BY <2>1, <2>2, SelectCurrentStep
<1>8. CASE UpdateCommit(h)
  <2>1. w.at = "update" /\ w.trade \in Trade /\ w.update \in Update
    BY <1>0, <1>8 DEF UpdateCommit, UpdateWork
  <2>2. /\ Follow(h, w.trade, w.after) \/ Fail(h, w.trade, w.after)
        /\ UNCHANGED <<event, batch, setting>>
    BY <1>8 DEF UpdateCommit
  <2>3. rows' \in TradeTable
    BY <1>8, <2>1, ApplyType DEF UpdateCommit, IInv, TypeOK
  <2> HIDE DEF w
  <2>4. PICK new : /\ SetWork(h, new) /\ new \in AnyWork
                   /\ new.at \in {"idle", "maybeBo", "foTriage", "boTriage"}
    BY <2>1, <2>2, FollowStep
  <2>5. Sound(event, new)
    BY <2>4, PlainSound DEF DecisionStage
  <2>6. Sound(event', work'[h]) /\ work' = [work EXCEPT ![h] = work'[h]] /\ Grows(event, event')
    BY <2>2, <2>4, <2>5, SetWorkIs, GrowsRefl DEF IInv
  <2> QED BY <2>2, <2>3, <2>6, OneHandlerStep DEF IInv, TypeOK
<1>9. ASSUME NEW key \in TunableKeys, UpdateSetting(h, key)
      PROVE  IInv'
  <2>1. setting' \in [SettingKey -> {"auto", "manual"}]
    BY <1>9, TunableAssumption DEF UpdateSetting, IInv, TypeOK
  <2> QED BY <1>9, <2>1 DEF UpdateSetting, IInv, TypeOK
<1> QED BY <1>2, <1>3, <1>4, <1>5, <1>6, <1>7, <1>8, <1>9

(* A new event is well typed, and the others stay.                         *)
LEMMA CreateEventGrows ==
  ASSUME event \in EventTable, NEW e \in Event, NEW t \in Trade, NEW type \in EventType,
         NEW from \in Version, NEW to \in Version, CreateEvent(e, t, type, from, to)
  PROVE  event' \in EventTable /\ Grows(event, event')
<1> DEFINE r == [trade |-> t, type |-> type, from |-> from, to |-> to, status |-> "FoUserToValidate"]
<1>1. r \in EventRow
  BY DEF EventRow, EventStatus
<1>2. event' = [event EXCEPT ![e] = r] /\ event[e].status = "None"
  BY DEF CreateEvent
<1>3. event[e] \notin EventRow
  BY <1>2 DEF EventRow, EventStatus
<1> HIDE DEF r
<1> QED BY <1>1, <1>2, <1>3 DEF EventTable, Grows

(* A decision writes the status of its event.                              *)
LEMMA SetEventStatusGrows ==
  ASSUME event \in EventTable, NEW e \in Event, event[e] \in EventRow,
         NEW s \in {"FoValidated", "Done", "Cancelled"}, SetEventStatus(e, s)
  PROVE  event' \in EventTable /\ Grows(event, event')
<1>1. event' = [event EXCEPT ![e] = [event[e] EXCEPT !.status = s]]
  BY DEF SetEventStatus
<1> DEFINE r == [event[e] EXCEPT !.status = s]
<1>2. /\ r \in EventRow /\ r.status = s
      /\ r.trade = event[e].trade /\ r.type = event[e].type /\ r.to = event[e].to
  BY DEF EventRow, EventStatus
<1>3. event' = [event EXCEPT ![e] = r]
  BY <1>1
<1> HIDE DEF r
<1> QED BY <1>2, <1>3 DEF EventTable, Grows

(* The SELECT that begins a proposal.                                      *)
LEMMA StartProposalStep ==
  ASSUME IInv, NEW h \in Handler, NEW t \in Trade, NEW type \in EventType,
         NEW at \in {"guard", "number", "mark"}, NEW after \in {"end", "foTriage"},
         StartProposal(h, t, type, at, after)
  PROVE  \E w : /\ SetWork(h, w) /\ Sound(event, w) /\ w \in ProposalWork
                /\ w.at = at /\ w.trade = t /\ w.type = type
                /\ w.from \in CurrentVersions(rows, t)
<1>1. PICK v \in CurrentVersions(rows, t) :
        SetWork(h, [at |-> at, trade |-> t, type |-> type, from |-> v, to |-> v,
                    loaded |-> Load(rows, t, v, {}), update |-> NoUpdate, after |-> after])
  BY DEF StartProposal
<1> DEFINE loaded == Load(rows, t, v, {})
           w == [at |-> at, trade |-> t, type |-> type, from |-> v, to |-> v,
                 loaded |-> loaded, update |-> NoUpdate, after |-> after]
<1>2. loaded \in SUBSET LoadedRow /\ v \in Version /\ NoUpdate \in Update
  BY LoadType, NoUpdateType DEF IInv, TypeOK, CurrentVersions
<1>3. SetWork(h, w)
  BY <1>1
<1> HIDE DEF loaded
<1>4. /\ w \in ProposalWork /\ w.at = at /\ w.trade = t /\ w.type = type /\ w.from = v
  BY <1>2 DEF ProposalWork
<1> HIDE DEF w
<1>5. Sound(event, w)
  BY <1>4, PlainSound DEF AnyWork, DecisionStage
<1> QED BY <1>3, <1>4, <1>5

(* The guard of a user's request.                                          *)
LEMMA CheckPendingStep ==
  ASSUME IInv, NEW h \in Handler, CheckPending(h)
  PROVE  \E w : /\ SetWork(h, w) /\ Sound(event, w)
                /\ \/ w = Idle
                   \/ /\ w \in ProposalWork /\ w.trade = work[h].trade
                      /\ w.type = work[h].type
                      /\ w.at = IF w.type = "AMEND" THEN "number" ELSE "mark"
<1> DEFINE w == work[h]
           on == [w EXCEPT !.at = IF w.type = "AMEND" THEN "number" ELSE "mark"]
<1>1. w.at = "guard" /\ w \in ProposalWork
  BY WorkTyped, WorkByStage DEF CheckPending
<1>2. /\ on \in ProposalWork /\ on.trade = w.trade /\ on.type = w.type
      /\ on.at = IF on.type = "AMEND" THEN "number" ELSE "mark"
  BY <1>1 DEF ProposalWork
<1>3. SetWork(h, Idle) \/ SetWork(h, on)
  BY DEF CheckPending
<1> HIDE DEF w, on
<1>4. Sound(event, on)
  BY <1>2, PlainSound DEF AnyWork, DecisionStage
<1>5. Sound(event, Idle)
  BY IdleSound
<1> QED BY <1>2, <1>3, <1>4, <1>5 DEF w

(* The steps of a proposal that only its own session sees.                 *)
LEMMA NumberVersionStep ==
  ASSUME IInv, NEW h \in Handler, NumberVersion(h)
  PROVE  /\ \E v \in CurrentVersions(rows, work[h].trade) :
              work'[h].to = v + 1 /\ work'[h].at = "insert"
         /\ work'[h].trade = work[h].trade /\ work'[h].type = work[h].type
         /\ Sound(event, work'[h]) /\ SetWork(h, work'[h])
<1> DEFINE w == work[h]
<1>1. w.at = "number" /\ w \in ProposalWork
  BY WorkTyped, WorkByStage DEF NumberVersion
<1>2. PICK to \in Numbers(w.trade) :
        SetWork(h, [w EXCEPT !.at = "insert", !.to = to,
                             !.loaded = Load(rows, w.trade, to - 1, w.loaded)])
  BY DEF NumberVersion
<1>3. PICK v \in CurrentVersions(rows, w.trade) : to = v + 1
  BY DEF Numbers
<1> DEFINE loaded == Load(rows, w.trade, to - 1, w.loaded)
<1>4. w.trade \in Trade /\ w.loaded \in SUBSET LoadedRow /\ to \in Version
  BY <1>1 DEF ProposalWork, Numbers
<1>5. to - 1 = v
  BY <1>3 DEF CurrentVersions, Version
<1>6. loaded \in SUBSET LoadedRow
  BY <1>4, <1>5, LoadType DEF IInv, TypeOK
<1> DEFINE new == [w EXCEPT !.at = "insert", !.to = to, !.loaded = loaded]
<1>7. SetWork(h, new)
  BY <1>2
<1> HIDE DEF loaded
<1>8. /\ new \in ProposalWork /\ new.at = "insert" /\ new.to = to
      /\ new.trade = w.trade /\ new.type = w.type
  BY <1>1, <1>4, <1>6 DEF ProposalWork
<1> HIDE DEF new
<1>9. work'[h] = new
  BY <1>7, SetWorkIs DEF IInv
<1>10. Sound(event, new)
  BY <1>8, PlainSound DEF AnyWork, DecisionStage
<1> QED BY <1>3, <1>7, <1>8, <1>9, <1>10

LEMMA InsertPendingStep ==
  ASSUME IInv, NEW h \in Handler, InsertPending(h)
  PROVE  /\ work'[h].at = "mark" /\ work'[h].to = work[h].to
         /\ work'[h].trade = work[h].trade /\ work'[h].type = work[h].type
         /\ Sound(event, work'[h]) /\ SetWork(h, work'[h])
<1> DEFINE w == work[h]
           new == [w EXCEPT !.at = "mark"]
<1>1. w.at = "insert" /\ w \in ProposalWork
  BY WorkTyped, WorkByStage DEF InsertPending
<1>2. SetWork(h, new)
  BY DEF InsertPending
<1>3. /\ new \in ProposalWork /\ new.at = "mark" /\ new.to = w.to
      /\ new.trade = w.trade /\ new.type = w.type
  BY <1>1 DEF ProposalWork
<1> HIDE DEF new
<1>4. work'[h] = new
  BY <1>2, SetWorkIs DEF IInv
<1>5. Sound(event, new)
  BY <1>3, PlainSound DEF AnyWork, DecisionStage
<1> QED BY <1>2, <1>3, <1>4, <1>5

LEMMA MarkPendingStep ==
  ASSUME IInv, NEW h \in Handler, MarkPending(h)
  PROVE  /\ work'[h].at = "create" /\ work'[h].to = work[h].to
         /\ work'[h].trade = work[h].trade /\ work'[h].type = work[h].type
         /\ work'[h].update.updated \subseteq CurrentVersions(rows, work[h].trade)
         /\ Sound(event, work'[h]) /\ SetWork(h, work'[h])
<1> DEFINE w == work[h]
<1>1. w.at = "mark" /\ w \in ProposalWork
  BY WorkTyped, WorkByStage DEF MarkPending
<1>2. PICK u \in StatusUpdates(rows, w.trade, "EventPending", w.loaded) :
        SetWork(h, [w EXCEPT !.at = "create", !.update = u])
  BY DEF MarkPending
<1>3. /\ u \in Update /\ u.on = {} /\ u.off = {}
      /\ u.updated \subseteq CurrentVersions(rows, w.trade)
  BY StatusUpdatesType DEF WorkflowStatus
<1> DEFINE new == [w EXCEPT !.at = "create", !.update = u]
<1>4. /\ new \in ProposalWork /\ new.at = "create" /\ new.to = w.to
      /\ new.trade = w.trade /\ new.type = w.type /\ new.update = u
  BY <1>1, <1>3 DEF ProposalWork
<1> HIDE DEF new
<1>5. SetWork(h, new)
  BY <1>2 DEF new
<1>6. work'[h] = new
  BY <1>5, SetWorkIs DEF IInv
<1>7. Sound(event, new)
  BY <1>3, <1>4 DEF Sound, Quiet, Relies, DecisionStage, AnyWork
<1> QED BY <1>3, <1>4, <1>5, <1>6, <1>7

(* A proposal that ends, and what its agent goes on with.                  *)
LEMMA EndProposalStep ==
  ASSUME IInv, NEW h \in Handler, work[h] \in ProposalWork, EndProposal(h)
  PROVE  /\ Sound(event, work'[h]) /\ SetWork(h, work'[h])
         /\ work'[h].at \in {"idle", "maybeBo", "foTriage", "boTriage"}
<1>1. work[h].trade \in Trade
  BY DEF ProposalWork
<1>2. PICK w : /\ SetWork(h, w) /\ w \in AnyWork
               /\ w.at \in {"idle", "maybeBo", "foTriage", "boTriage"}
  BY <1>1, FollowStep DEF EndProposal
<1>3. Sound(event, w)
  BY <1>2, PlainSound DEF DecisionStage
<1> QED BY <1>2, <1>3, SetWorkIs DEF IInv

LEMMA ProposalCommitStep ==
  ASSUME IInv, NEW h \in Handler, NEW e \in Event, ProposalCommit(h, e)
  PROVE  IInv'
<1> DEFINE w == work[h]
           inserted == IF w.type = "AMEND" THEN InsertVersion(rows, w.trade, w.to) ELSE rows
<1>1. w.at = "create" /\ w \in ProposalWork
  BY WorkTyped, WorkByStage DEF ProposalCommit
<1>2. /\ w.trade \in Trade /\ w.type \in EventType /\ w.from \in Version /\ w.to \in Version
      /\ w.update \in Update
  BY <1>1 DEF ProposalWork
<1>3. /\ CanApply(rows, w.trade, w.update)
      /\ rows' = Apply(inserted, w.trade, w.update)
      /\ CreateEvent(e, w.trade, w.type, w.from, w.to)
      /\ EndProposal(h) /\ UNCHANGED <<batch, setting>>
  BY DEF ProposalCommit
<1>4. inserted \in TradeTable /\ CanApply(inserted, w.trade, w.update)
  <2>1. CASE w.type = "AMEND"
    <3>1. /\ InsertVersion(rows, w.trade, w.to) \in TradeTable
          /\ InsertVersion(rows, w.trade, w.to)[w.trade][w.to].status = "EventPending"
          /\ \A v \in Version : v # w.to =>
               InsertVersion(rows, w.trade, w.to)[w.trade][v] = rows[w.trade][v]
      BY <1>2, InsertVersionType DEF IInv, TypeOK
    <3>2. w.update.updated \subseteq Version
      BY <1>2 DEF Update
    <3> QED BY <1>3, <2>1, <3>1, <3>2 DEF CanApply, Exists
  <2>2. CASE w.type # "AMEND"
    BY <1>3, <2>2 DEF IInv, TypeOK
  <2> QED BY <2>1, <2>2
<1> HIDE DEF w, inserted
<1>5. rows' \in TradeTable
  BY <1>2, <1>3, <1>4, ApplyType
<1>6. event' \in EventTable /\ Grows(event, event')
  BY <1>2, <1>3, CreateEventGrows DEF IInv, TypeOK
<1>7. Sound(event, work'[h]) /\ SetWork(h, work'[h])
  BY <1>1, <1>3, EndProposalStep DEF w
<1>8. Sound(event', work'[h]) /\ work' = [work EXCEPT ![h] = work'[h]]
  BY <1>6, <1>7, SoundGrows, SetWorkIs DEF IInv
<1> QED BY <1>3, <1>5, <1>6, <1>8, OneHandlerStep DEF IInv, TypeOK

LEMMA ProposalStep == IInv /\ ProposalNext => IInv'
<1> SUFFICES ASSUME IInv, NEW h \in Handler,
                    \/ NumberVersion(h) \/ InsertPending(h) \/ MarkPending(h)
                    \/ \E e \in Event : ProposalCommit(h, e)
                    \/ ProposalFails(h)
             PROVE  IInv'
  BY DEF ProposalNext
<1>1. CASE NumberVersion(h)
  BY <1>1, NumberVersionStep, WorkOnly DEF NumberVersion
<1>2. CASE InsertPending(h)
  BY <1>2, InsertPendingStep, WorkOnly DEF InsertPending
<1>3. CASE MarkPending(h)
  BY <1>3, MarkPendingStep, WorkOnly DEF MarkPending
<1>4. CASE ProposalFails(h)
  <2>1. work[h] \in ProposalWork
    BY <1>4, WorkTyped, WorkByStage DEF ProposalFails
  <2> QED BY <1>4, <2>1, EndProposalStep, WorkOnly DEF ProposalFails
<1> QED BY <1>1, <1>2, <1>3, <1>4, ProposalCommitStep

LEMMA AgentStep == IInv /\ AgentNext => IInv'
<1> SUFFICES ASSUME IInv, NEW h \in Handler,
                    \/ ImmediateTool(h) \/ AgentStops(h)
                    \/ \E t \in Trade : \/ TriageRequest(h, t) \/ SendBackToFo(h, t)
                                        \/ CreateAmendEvent(h, t) \/ CreateCancelEvent(h, t)
             PROVE  IInv'
  BY DEF AgentNext
<1>1. CASE ImmediateTool(h)
  <2>1. /\ work[h].at \in {"foTriage", "boTriage"} /\ work[h].trade \in Trade
        /\ UNCHANGED <<rows, event, batch, setting>>
    BY <1>1, WorkTyped, WorkByStage DEF ImmediateTool, CallWork
  <2>2. PICK s \in ImmediateStatus(work[h].at) :
          SelectCurrent(h, work[h].trade, s, {}, work[h].at)
    BY <1>1 DEF ImmediateTool
  <2>3. s \in WorkflowStatus /\ work[h].at \in After
    BY <2>1 DEF ImmediateStatus, WorkflowStatus, After
  <2> QED BY <2>1, <2>2, <2>3, SelectCurrentStep
<1>2. CASE AgentStops(h)
  BY <1>2, IdleSound, WorkOnly DEF AgentStops
<1>3. ASSUME NEW t \in Trade, TriageRequest(h, t)
      PROVE  IInv'
  <2>1. PICK at \in {"foTriage", "boTriage"} : SetWork(h, Call(at, t))
    BY <1>3 DEF TriageRequest
  <2>2. Sound(event, Call(at, t))
    BY CallType, PlainSound DEF DecisionStage
  <2> QED BY <1>3, <2>1, <2>2, WorkOnly DEF TriageRequest
<1>4. ASSUME NEW t \in Trade, SendBackToFo(h, t)
      PROVE  IInv'
  <2>1. PICK v \in CurrentVersions(rows, t) :
          SetWork(h, [at |-> "select", trade |-> t, status |-> "FoAgentToCheck",
                      loaded |-> Load(rows, t, v, {}), after |-> "boTriage"])
    BY <1>4 DEF SendBackToFo
  <2> DEFINE loaded == Load(rows, t, v, {})
             w == [at |-> "select", trade |-> t, status |-> "FoAgentToCheck",
                   loaded |-> loaded, after |-> "boTriage"]
  <2>2. loaded \in SUBSET LoadedRow
    BY LoadType DEF IInv, TypeOK
  <2>3. SetWork(h, w)
    BY <2>1
  <2> HIDE DEF loaded
  <2>4. w \in SelectWork /\ w.at = "select"
    BY <2>2 DEF SelectWork, WorkflowStatus, After
  <2> HIDE DEF w
  <2>5. Sound(event, w)
    BY <2>4, PlainSound DEF AnyWork, RuleWork, DecisionStage
  <2> QED BY <1>4, <2>3, <2>5, WorkOnly DEF SendBackToFo
<1>5. ASSUME NEW t \in Trade, CreateAmendEvent(h, t) \/ CreateCancelEvent(h, t)
      PROVE  IInv'
  <2>1. /\ UNCHANGED <<rows, event, batch, setting>>
        /\ \E type \in EventType, at \in {"number", "mark"} :
             StartProposal(h, t, type, at, "foTriage")
    BY <1>5 DEF CreateAmendEvent, CreateCancelEvent, EventType
  <2> QED BY <2>1, StartProposalStep, WorkOnly
<1> QED BY <1>1, <1>2, <1>3, <1>4, <1>5

(* What a request at work on a decision is.                                *)
LEMMA DecisionTyped ==
  ASSUME IInv, NEW h \in Handler, work[h].at \in DecisionStage
  PROVE  /\ work[h] \in DecisionWork /\ work[h].event \in Event
         /\ event[work[h].event] \in EventRow /\ event[work[h].event].trade \in Trade
         /\ event[work[h].event].to \in Version
         /\ Relies(event, work[h])
BY WorkTyped, WorkByStage DEF DecisionStage, DecisionWork, EventRow, Sound, Relies

(* A request for a decision that passes its check.                         *)
LEMMA DecisionStart ==
  ASSUME IInv, NEW h \in Handler, NEW e \in Event, NEW approved \in BOOLEAN,
         FoApproveRequest(h, e, approved) \/ BoApproveRequest(h, e, approved)
  PROVE  /\ SetWork(h, work'[h]) /\ Sound(event, work'[h])
         /\ UNCHANGED <<rows, event, batch, setting>>
         /\ work'[h].at = "decide" /\ work'[h].event = e /\ event[e] \in EventRow
         /\ work'[h].dropped = {} /\ work'[h].update = NoUpdate
         /\ \/ /\ work'[h].desk = "FO" /\ event[e].status = "FoUserToValidate"
               /\ work'[h].outcome \in {"FoValidated", "Cancelled"}
            \/ /\ work'[h].desk = "BO" /\ event[e].status = "FoValidated"
               /\ work'[h].outcome \in {"Done", "Cancelled"}
<1> DEFINE desk == IF FoApproveRequest(h, e, approved) THEN "FO" ELSE "BO"
           outcome == IF approved THEN (IF FoApproveRequest(h, e, approved)
                                        THEN "FoValidated" ELSE "Done")
                                  ELSE "Cancelled"
           w == Decision(desk, e, outcome)
<1>1. /\ SetWork(h, w) /\ UNCHANGED <<rows, event, batch, setting>>
      /\ event[e].status \in {"FoUserToValidate", "FoValidated"}
      /\ \/ /\ desk = "FO" /\ event[e].status = "FoUserToValidate"
            /\ outcome \in {"FoValidated", "Cancelled"}
         \/ /\ desk = "BO" /\ event[e].status = "FoValidated"
            /\ outcome \in {"Done", "Cancelled"}
  BY DEF FoApproveRequest, BoApproveRequest
<1>2. event[e] \in EventRow
  BY <1>1 DEF IInv, TypeOK, EventTable, NoEvent
<1> HIDE DEF desk, outcome
<1>3. /\ w \in DecisionWork /\ w.at = "decide" /\ w.desk = desk /\ w.event = e
      /\ w.outcome = outcome /\ w.dropped = {} /\ w.update = NoUpdate
  BY <1>1, NoUpdateType DEF Decision, DecisionWork
<1> HIDE DEF w
<1>4. Sound(event, w)
  BY <1>1, <1>2, <1>3, NoUpdateType DEF Sound, Quiet, Relies, AnyWork
<1> QED BY <1>1, <1>2, <1>3, <1>4, SetWorkIs DEF IInv

(* The steps of a decision that only its own session sees.                 *)
LEMMA DecideEventOnlyStep ==
  ASSUME IInv, NEW h \in Handler, DecideEventOnly(h)
  PROVE  /\ SetWork(h, work'[h]) /\ Sound(event, work'[h])
         /\ work'[h].at = "decided" /\ work'[h].event = work[h].event
         /\ work'[h].desk = work[h].desk /\ work'[h].outcome = work[h].outcome
         /\ work'[h].dropped = {} /\ work'[h].update = NoUpdate
<1> DEFINE w == work[h]
           new == [w EXCEPT !.at = "decided"]
<1>1. w.at = "decide" /\ SetWork(h, new)
  BY DEF DecideEventOnly, Decides
<1>2. w \in DecisionWork /\ Relies(event, w)
  BY <1>1, DecisionTyped DEF DecisionStage
<1>3. /\ new \in DecisionWork /\ new.at = "decided" /\ new.event = w.event /\ new.desk = w.desk
      /\ new.outcome = w.outcome /\ new.dropped = w.dropped /\ new.update = w.update
  BY <1>2 DEF DecisionWork
<1>4. w.dropped = {} /\ w.update = NoUpdate
  BY <1>1, <1>2 DEF Relies, DecisionStage
<1> HIDE DEF new
<1>5. Sound(event, new)
  BY <1>1, <1>2, <1>3, <1>4 DEF Sound, Quiet, Relies, DecisionStage, AnyWork
<1> QED BY <1>1, <1>3, <1>4, <1>5, SetWorkIs DEF IInv

LEMMA RejectAmendmentStep ==
  ASSUME IInv, NEW h \in Handler, RejectAmendment(h)
  PROVE  LET ev == event[work[h].event] IN
         /\ SetWork(h, work'[h]) /\ Sound(event, work'[h])
         /\ work'[h].at = "reset" /\ work'[h].event = work[h].event
         /\ work'[h].desk = work[h].desk /\ work'[h].outcome = work[h].outcome
         /\ work'[h].dropped = Deletable(ev.trade, ev.to)
<1> DEFINE w == work[h]
           dropped == Deletable(event[w.event].trade, event[w.event].to)
           new == [w EXCEPT !.at = "reset", !.dropped = dropped]
<1>1. w.at = "decide" /\ SetWork(h, new)
  BY DEF RejectAmendment, Decides
<1>2. w \in DecisionWork /\ Relies(event, w) /\ event[w.event].to \in Version
  BY <1>1, DecisionTyped DEF DecisionStage
<1>3. dropped \in SUBSET Version
  BY <1>2 DEF Deletable
<1> HIDE DEF dropped
<1>4. /\ new \in DecisionWork /\ new.at = "reset" /\ new.event = w.event /\ new.desk = w.desk
      /\ new.outcome = w.outcome /\ new.dropped = dropped /\ new.update = w.update
  BY <1>2, <1>3 DEF DecisionWork
<1>5. w.update = NoUpdate
  BY <1>1, <1>2 DEF Relies, DecisionStage
<1> HIDE DEF new
<1>6. Sound(event, new)
  BY <1>1, <1>2, <1>4, <1>5, NoUpdateType DEF Sound, Quiet, Relies, DecisionStage, AnyWork
<1> QED BY <1>1, <1>4, <1>6, SetWorkIs DEF IInv, dropped

LEMMA ResetCurrentStep ==
  ASSUME IInv, NEW h \in Handler, ResetCurrent(h)
  PROVE  /\ SetWork(h, work'[h]) /\ Sound(event, work'[h])
         /\ work'[h].at = "decided" /\ work'[h].event = work[h].event
         /\ work'[h].desk = work[h].desk /\ work'[h].outcome = work[h].outcome
         /\ work'[h].dropped = work[h].dropped
         /\ work'[h].update.on = {} /\ work'[h].update.off = {}
         /\ work'[h].update.updated
              \subseteq CurrentVersions(rows, event[work[h].event].trade) \ work[h].dropped
<1> DEFINE w == work[h]
           t == event[w.event].trade
<1>1. PICK u \in Resets(DeleteVersions(rows, t, w.dropped), t) :
        SetWork(h, [w EXCEPT !.at = "decided", !.update = u])
  BY DEF ResetCurrent
<1>2. w.at = "reset"
  BY DEF ResetCurrent
<1>3. w \in DecisionWork /\ Relies(event, w) /\ t \in Trade
  BY <1>2, DecisionTyped DEF DecisionStage
<1>4. w.dropped \in SUBSET Version
  BY <1>3 DEF DecisionWork
<1>5. /\ u \in Update /\ u.on = {} /\ u.off = {}
      /\ u.updated \subseteq CurrentVersions(rows, t) \ w.dropped
  BY <1>3, <1>4, ResetsType, DeletedNotCurrent DEF IInv, TypeOK
<1> DEFINE new == [w EXCEPT !.at = "decided", !.update = u]
<1>6. /\ new \in DecisionWork /\ new.at = "decided" /\ new.event = w.event /\ new.desk = w.desk
      /\ new.outcome = w.outcome /\ new.dropped = w.dropped /\ new.update = u
  BY <1>3, <1>5 DEF DecisionWork
<1> HIDE DEF new
<1>7. SetWork(h, new)
  BY <1>1 DEF new
<1>8. Sound(event, new)
  BY <1>2, <1>3, <1>5, <1>6 DEF Sound, Quiet, Relies, DecisionStage, AnyWork
<1> QED BY <1>5, <1>6, <1>7, <1>8, SetWorkIs DEF IInv

LEMMA ApproveAmendmentStep ==
  ASSUME IInv, NEW h \in Handler, ApproveAmendment(h)
  PROVE  LET ev == event[work[h].event] IN
         /\ SetWork(h, work'[h]) /\ Sound(event, work'[h])
         /\ work'[h].at = "decided" /\ work'[h].event = work[h].event
         /\ work'[h].desk = work[h].desk /\ work'[h].outcome = work[h].outcome
         /\ work'[h].dropped = {}
         /\ work'[h].update = ActivateAmended(ev.trade, ev.to)
<1> DEFINE w == work[h]
           ev == event[w.event]
           u == ActivateAmended(ev.trade, ev.to)
           new == [w EXCEPT !.at = "decided", !.update = u]
<1>1. w.at = "decide" /\ SetWork(h, new) /\ w.outcome = "Done" /\ ev.type = "AMEND"
  BY DEF ApproveAmendment, Decides
<1>2. w \in DecisionWork /\ Relies(event, w) /\ ev.to \in Version
  BY <1>1, DecisionTyped DEF DecisionStage
<1>3. u \in Update /\ \A v \in u.on : v = ev.to
  <2> HIDE DEF ev
  <2> QED BY <1>2, ActivateAmendedType
<1> HIDE DEF u
<1>4. /\ new \in DecisionWork /\ new.at = "decided" /\ new.event = w.event /\ new.desk = w.desk
      /\ new.outcome = w.outcome /\ new.dropped = w.dropped /\ new.update = u
  BY <1>2, <1>3 DEF DecisionWork
<1>5. w.dropped = {}
  BY <1>1, <1>2 DEF Relies, DecisionStage
<1> HIDE DEF new
<1>6. Sound(event, new)
  BY <1>1, <1>2, <1>3, <1>4, <1>5 DEF Sound, Quiet, Relies, DecisionStage, AnyWork
<1> QED BY <1>1, <1>4, <1>5, <1>6, SetWorkIs DEF IInv, u

LEMMA ApproveCancellationStep ==
  ASSUME IInv, NEW h \in Handler, ApproveCancellation(h)
  PROVE  /\ SetWork(h, work'[h]) /\ Sound(event, work'[h])
         /\ work'[h].at = "decided" /\ work'[h].event = work[h].event
         /\ work'[h].desk = work[h].desk /\ work'[h].outcome = work[h].outcome
         /\ work'[h].dropped = {}
         /\ work'[h].update.on = {} /\ work'[h].update.off = {}
         /\ work'[h].update.updated \subseteq CurrentVersions(rows, event[work[h].event].trade)
<1> DEFINE w == work[h]
           t == event[w.event].trade
<1>1. PICK u \in StatusUpdates(rows, t, "Cancelled", {}) :
        SetWork(h, [w EXCEPT !.at = "decided", !.update = u])
  BY DEF ApproveCancellation
<1>2. w.at = "decide"
  BY DEF ApproveCancellation, Decides
<1>3. w \in DecisionWork /\ Relies(event, w)
  BY <1>2, DecisionTyped DEF DecisionStage
<1>4. /\ u \in Update /\ u.on = {} /\ u.off = {} /\ u.updated \subseteq CurrentVersions(rows, t)
  BY StatusUpdatesType DEF WorkflowStatus
<1> DEFINE new == [w EXCEPT !.at = "decided", !.update = u]
<1>5. /\ new \in DecisionWork /\ new.at = "decided" /\ new.event = w.event /\ new.desk = w.desk
      /\ new.outcome = w.outcome /\ new.dropped = w.dropped /\ new.update = u
  BY <1>3, <1>4 DEF DecisionWork
<1>6. w.dropped = {}
  BY <1>2, <1>3 DEF Relies, DecisionStage
<1> HIDE DEF new
<1>7. SetWork(h, new)
  BY <1>1 DEF new
<1>8. Sound(event, new)
  BY <1>2, <1>3, <1>4, <1>5, <1>6 DEF Sound, Quiet, Relies, DecisionStage, AnyWork
<1> QED BY <1>4, <1>5, <1>6, <1>7, <1>8, SetWorkIs DEF IInv

(* The commit of a decision.                                               *)
LEMMA DecisionCommitStep ==
  ASSUME IInv, NEW h \in Handler, DecisionCommit(h)
  PROVE  IInv'
<1> DEFINE w == work[h]
           ev == event[w.event]
           t == ev.trade
           new == IF w.outcome = "Done" /\ ev.type = "AMEND" THEN Call("maybeFo", t) ELSE Idle
<1>1. w.at = "decided" /\ UNCHANGED <<batch, setting>>
  BY DEF DecisionCommit
<1>2. /\ w \in DecisionWork /\ Relies(event, w) /\ t \in Trade /\ ev \in EventRow
      /\ w.event \in Event
  BY <1>1, DecisionTyped DEF DecisionStage
<1>3. /\ w.dropped \in SUBSET Version /\ w.update \in Update
      /\ w.outcome \in {"FoValidated", "Done", "Cancelled"}
      /\ w.update.updated \cap w.dropped = {}
  BY <1>1, <1>2 DEF DecisionWork, Relies, DecisionStage
<1>4. \A x \in {Idle, new} : Sound(event, x)
  <2>1. new \in {Idle, Call("maybeFo", t)}
    OBVIOUS
  <2> HIDE DEF new
  <2> QED BY <1>2, <2>1, CallType, PlainSound DEF DecisionStage
<1>5. CASE CanApply(rows, t, w.update)
  <2>1. /\ rows' = Apply(DeleteVersions(rows, t, w.dropped), t, w.update)
        /\ SetEventStatus(w.event, w.outcome) /\ SetWork(h, new)
    BY <1>5 DEF DecisionCommit
  <2>2. DeleteVersions(rows, t, w.dropped) \in TradeTable
    BY <1>2, <1>3, DeletedNotCurrent DEF IInv, TypeOK
  <2>3. CanApply(DeleteVersions(rows, t, w.dropped), t, w.update)
    <3>1. w.update.updated \subseteq Version
      BY <1>3 DEF Update
    <3>2. \A v \in Version \ w.dropped : DeleteVersions(rows, t, w.dropped)[t][v] = rows[t][v]
      BY <1>2 DEF DeleteVersions, IInv, TypeOK, TradeTable
    <3> QED BY <1>3, <1>5, <3>1, <3>2 DEF CanApply, Exists
  <2> HIDE DEF new, w
  <2>4. rows' \in TradeTable
    BY <1>2, <1>3, <2>1, <2>2, <2>3, ApplyType
  <2>5. event' \in EventTable /\ Grows(event, event')
    BY <1>2, <1>3, <2>1, SetEventStatusGrows DEF IInv, TypeOK
  <2>6. work'[h] = new /\ work' = [work EXCEPT ![h] = work'[h]]
    BY <2>1, SetWorkIs DEF IInv
  <2>7. Sound(event', work'[h])
    BY <1>4, <2>5, <2>6, SoundGrows
  <2> QED BY <1>1, <2>4, <2>5, <2>6, <2>7, OneHandlerStep DEF IInv, TypeOK
<1>6. CASE ~CanApply(rows, t, w.update)
  <2>1. SetWork(h, Idle) /\ UNCHANGED <<rows, event, batch, setting>>
    BY <1>6 DEF DecisionCommit
  <2> QED BY <1>4, <2>1, WorkOnly
<1> QED BY <1>5, <1>6

LEMMA EventStep == IInv /\ EventNext => IInv'
<1> SUFFICES ASSUME IInv, EventNext PROVE IInv'
  OBVIOUS
<1>1. ASSUME NEW h \in Handler, NEW t \in Trade, NEW type \in EventType,
             CreateEventRequest(h, t, type)
      PROVE  IInv'
  BY <1>1, StartProposalStep, WorkOnly DEF CreateEventRequest
<1>6. ASSUME NEW h \in Handler, CheckPending(h)
      PROVE  IInv'
  BY <1>6, CheckPendingStep, WorkOnly DEF CheckPending
<1>2. ASSUME NEW h \in Handler, NEW e \in Event, NEW approved \in BOOLEAN,
             FoApproveRequest(h, e, approved) \/ BoApproveRequest(h, e, approved)
      PROVE  IInv'
  BY <1>2, DecisionStart, WorkOnly
<1>3. ASSUME NEW h \in Handler,
             \/ DecideEventOnly(h) \/ RejectAmendment(h) \/ ResetCurrent(h)
             \/ ApproveAmendment(h) \/ ApproveCancellation(h)
      PROVE  IInv'
  <2>1. UNCHANGED <<rows, event, batch, setting>>
    BY <1>3 DEF DecideEventOnly, RejectAmendment, ResetCurrent, ApproveAmendment,
                ApproveCancellation, Decides
  <2>2. SetWork(h, work'[h]) /\ Sound(event, work'[h])
    BY <1>3, DecideEventOnlyStep, RejectAmendmentStep, ResetCurrentStep,
       ApproveAmendmentStep, ApproveCancellationStep
  <2> QED BY <2>1, <2>2, WorkOnly
<1>4. Approver \subseteq Handler
  BY ApproverAssumption
<1> QED BY <1>1, <1>2, <1>3, <1>4, <1>6, DecisionCommitStep DEF EventNext

-----------------------------------------------------------------------------
(* Creation, operators, seeding and failures.                              *)

(* A step that inserts first versions of absent trades.                    *)
LEMMA BookedType ==
  ASSUME rows \in TradeTable, NEW T \in SUBSET Trade, NEW s \in [Trade -> WorkflowStatus],
         rows' = [t \in Trade |-> IF t \in T THEN FirstVersion(s[t]) ELSE rows[t]]
  PROVE  rows' \in TradeTable
<1>1. \A t \in Trade : FirstVersion(s[t]) \in [Version -> TradeRow \cup {NoRow}]
  BY FirstVersionType
<1> QED BY <1>1 DEF TradeTable

LEMMA OperatorApproveStep ==
  ASSUME IInv, NEW h \in Handler, NEW t \in Trade, OperatorApprove(h, t)
  PROVE  \E w : SetWork(h, w) /\ Sound(event, w) /\ w.at = "select"
<1>1. PICK v \in CurrentVersions(rows, t) :
        /\ rows[t][v].status \in DOMAIN ApprovedStatus
        /\ SetWork(h, [at |-> "select", trade |-> t, status |-> ApprovedStatus[rows[t][v].status],
                       loaded |-> Load(rows, t, v, {}), after |-> "end"])
  BY DEF OperatorApprove
<1> DEFINE loaded == Load(rows, t, v, {})
           s == ApprovedStatus[rows[t][v].status]
           w == [at |-> "select", trade |-> t, status |-> s, loaded |-> loaded, after |-> "end"]
<1>2. loaded \in SUBSET LoadedRow
  BY LoadType DEF IInv, TypeOK
<1>3. s \in WorkflowStatus
  BY <1>1 DEF ApprovedStatus, WorkflowStatus
<1>4. SetWork(h, w)
  BY <1>1
<1> HIDE DEF loaded, s
<1>5. w \in SelectWork /\ w.at = "select"
  BY <1>2, <1>3 DEF SelectWork, After
<1> HIDE DEF w
<1>6. Sound(event, w)
  BY <1>5, PlainSound DEF AnyWork, RuleWork, DecisionStage
<1> QED BY <1>4, <1>5, <1>6

LEMMA WorkflowStep == IInv /\ WorkflowNext => IInv'
<1> SUFFICES ASSUME IInv, NEW h \in Handler,
                    \/ \E t \in Trade : CreateTrade(h, t) \/ OperatorApprove(h, t) \/ SeedCheck(h, t)
                    \/ Truncate(h) \/ SeedRequest(h) \/ Reseed(h) \/ SeedList(h) \/ Failure(h)
             PROVE  IInv'
  BY DEF WorkflowNext
<1>a. \A at \in {"reseed", "seedChecks"} : Sound(event, [at |-> at])
  <2> SUFFICES ASSUME NEW at \in {"reseed", "seedChecks"} PROVE Sound(event, [at |-> at])
    OBVIOUS
  <2>1. [at |-> at] \in SeedWork /\ [at |-> at].at = at
    BY DEF SeedWork
  <2> QED BY <2>1, PlainSound DEF AnyWork, DecisionStage
<1>b. TypeOK /\ Grows(event, event)
  BY GrowsRefl DEF IInv
<1>1. ASSUME NEW t \in Trade, CreateTrade(h, t)
      PROVE  IInv'
  <2>1. /\ rows' = [rows EXCEPT ![t] = FirstVersion("Initial")]
        /\ SetWork(h, Call("maybeFo", t)) /\ UNCHANGED <<event, batch, setting>>
    BY <1>1 DEF CreateTrade
  <2>2. rows' \in TradeTable
    BY <1>b, <2>1, FirstVersionType DEF TypeOK, TradeTable, WorkflowStatus
  <2>3. Sound(event, Call("maybeFo", t))
    BY CallType, PlainSound DEF DecisionStage
  <2>4. Sound(event', work'[h]) /\ work' = [work EXCEPT ![h] = work'[h]] /\ Grows(event, event')
    BY <1>b, <2>1, <2>3, SetWorkIs
  <2> QED BY <1>b, <2>1, <2>2, <2>4, OneHandlerStep DEF TypeOK
<1>2. ASSUME NEW t \in Trade, OperatorApprove(h, t)
      PROVE  IInv'
  BY <1>2, OperatorApproveStep, WorkOnly DEF OperatorApprove
<1>3. ASSUME NEW t \in Trade, SeedCheck(h, t)
      PROVE  IInv'
  <2>1. PICK w : SetWork(h, w) /\ Sound(event, w)
    BY <1>3, CheckReadStep DEF SeedCheck
  <2>2. UNCHANGED <<rows, event, setting>> /\ batch' \in [Handler -> SUBSET Trade]
    BY <1>b, <1>3 DEF SeedCheck, TypeOK
  <2>3. Sound(event', work'[h]) /\ work' = [work EXCEPT ![h] = work'[h]] /\ Grows(event, event')
    BY <1>b, <2>1, <2>2, SetWorkIs
  <2> QED BY <1>b, <2>2, <2>3, OneHandlerStep DEF TypeOK
<1>4. CASE Truncate(h)
  <2>1. /\ rows' = [t \in Trade |-> Absent] /\ setting' = [key \in SettingKey |-> "manual"]
        /\ SetWork(h, [at |-> "reseed"]) /\ UNCHANGED <<event, batch>>
    BY <1>4 DEF Truncate
  <2>2. Absent \in [Version -> TradeRow \cup {NoRow}]
    BY DEF Absent
  <2>3. rows' \in TradeTable /\ setting' \in [SettingKey -> {"auto", "manual"}]
    BY <2>1, <2>2 DEF TradeTable
  <2>4. Sound(event', work'[h]) /\ work' = [work EXCEPT ![h] = work'[h]] /\ Grows(event, event')
    BY <1>a, <1>b, <2>1, SetWorkIs
  <2> QED BY <1>b, <2>1, <2>3, <2>4, OneHandlerStep DEF TypeOK
<1>5. CASE SeedRequest(h)
  BY <1>5, <1>a, WorkOnly DEF SeedRequest
<1>6. CASE Reseed(h)
  <2>1. PICK demo \in SUBSET Trade, s \in [Trade -> SeedStatus] :
          rows' = [t \in Trade |-> IF t \in demo /\ rows[t] = Absent
                                   THEN FirstVersion(s[t]) ELSE rows[t]]
    BY <1>6 DEF Reseed
  <2>2. s \in [Trade -> WorkflowStatus]
    BY DEF SeedStatus, WorkflowStatus
  <2> DEFINE T == {t \in demo : rows[t] = Absent}
  <2>3. rows' = [t \in Trade |-> IF t \in T THEN FirstVersion(s[t]) ELSE rows[t]]
    BY <2>1
  <2>4. T \in SUBSET Trade
    OBVIOUS
  <2> HIDE DEF T
  <2>5. rows' \in TradeTable
    BY <1>b, <2>2, <2>3, <2>4, BookedType DEF TypeOK
  <2>6. SetWork(h, [at |-> "seedChecks"]) /\ UNCHANGED <<event, batch, setting>>
    BY <1>6 DEF Reseed
  <2>7. Sound(event', work'[h]) /\ work' = [work EXCEPT ![h] = work'[h]] /\ Grows(event, event')
    BY <1>a, <1>b, <2>6, SetWorkIs
  <2> QED BY <1>b, <2>5, <2>6, <2>7, OneHandlerStep DEF TypeOK
<1>7. ASSUME SetWork(h, Idle), NEW B \in SUBSET Trade, batch' = [batch EXCEPT ![h] = B],
             UNCHANGED <<rows, event, setting>>
      PROVE  IInv'
  <2>1. batch' \in [Handler -> SUBSET Trade]
    BY <1>b, <1>7 DEF TypeOK
  <2>2. Sound(event', work'[h]) /\ work' = [work EXCEPT ![h] = work'[h]] /\ Grows(event, event')
    BY <1>b, <1>7, IdleSound, SetWorkIs
  <2> QED BY <1>b, <1>7, <2>1, <2>2, OneHandlerStep DEF TypeOK
<1>8. CASE SeedList(h)
  <2> DEFINE B == IF IsAuto("fo_check_trigger") THEN InitialTrades ELSE {}
  <2>1. B \in SUBSET Trade
    BY DEF InitialTrades
  <2>2. SetWork(h, Idle) /\ batch' = [batch EXCEPT ![h] = B] /\ UNCHANGED <<rows, event, setting>>
    BY <1>8 DEF SeedList
  <2> HIDE DEF B
  <2> QED BY <1>7, <2>1, <2>2
<1>9. CASE Failure(h)
  <2>1. {} \in SUBSET Trade
    OBVIOUS
  <2>2. SetWork(h, Idle) /\ batch' = [batch EXCEPT ![h] = {}] /\ UNCHANGED <<rows, event, setting>>
    BY <1>9 DEF Failure
  <2> QED BY <1>7, <2>1, <2>2
<1> QED BY <1>1, <1>2, <1>3, <1>4, <1>5, <1>6, <1>8, <1>9

-----------------------------------------------------------------------------
LEMMA InitIInv == Init => IInv
<1> SUFFICES ASSUME Init PROVE IInv
  OBVIOUS
<1>1. rows \in TradeTable
  <2>1. \A s \in SeedStatus : FirstVersion(s) \in [Version -> TradeRow \cup {NoRow}]
    BY FirstVersionType DEF SeedStatus, WorkflowStatus
  <2>2. Absent \in [Version -> TradeRow \cup {NoRow}]
    BY DEF Absent
  <2>3. rows \in [Trade -> {FirstVersion(s) : s \in SeedStatus} \cup {Absent}]
    BY DEF Init
  <2>4. \A t \in Trade : rows[t] \in [Version -> TradeRow \cup {NoRow}]
    BY <2>1, <2>2, <2>3
  <2> QED BY <2>3, <2>4 DEF TradeTable
<1>2. Idle \in AnyWork
  BY DEF AnyWork, RuleWork
<1>3. \A h \in Handler : work[h] = Idle /\ Sound(event, work[h])
  BY IdleSound DEF Init
<1> QED BY <1>1, <1>2, <1>3 DEF Init, IInv, TypeOK, EventTable, AnyWork

LEMMA NextIInv == IInv /\ [Next]_vars => IInv'
<1> SUFFICES ASSUME IInv, [Next]_vars PROVE IInv'
  OBVIOUS
<1>1. CASE UNCHANGED vars
  <2>1. UNCHANGED <<rows, event, work, batch, setting>>
    BY <1>1 DEF vars
  <2>2. TypeOK'
    BY <2>1 DEF IInv, TypeOK
  <2>3. \A h \in Handler : Sound(event', work'[h])
    BY <2>1 DEF IInv
  <2> QED BY <2>2, <2>3 DEF IInv
<1> QED BY <1>1, RuleStep, ProposalStep, AgentStep, EventStep, WorkflowStep DEF Next

(* However requests overlap, die and are retried: the tables stay well     *)
(* typed, only a BO approval of an amendment carries a flag to set, that   *)
(* of the version the amendment names, and whoever decides for BO does so  *)
(* on an event that FO has decided on.                                     *)
THEOREM Invariance == Spec => []IInv
BY InitIInv, NextIInv, PTL DEF Spec

(* The two tables and the work of every handler are well typed.            *)
THEOREM TypeCorrect == Spec => []TypeOK
<1>1. IInv => TypeOK
  BY DEF IInv
<1> QED BY <1>1, Invariance, PTL

(* Four eyes: the event a BO user decides on has been decided on by FO,    *)
(* also while several users decide on it at once.                          *)
THEOREM FourEyes == Spec => []FoBeforeBo
<1>1. IInv => FoBeforeBo
  <2> SUFFICES ASSUME IInv, NEW h \in Approver, NEW e \in Event,
                      Deciding(h, e), work[h].desk = "BO"
               PROVE  event[e].status \in {"FoValidated", "Done", "Cancelled"}
    BY DEF FoBeforeBo
  <2>1. h \in Handler /\ Sound(event, work[h])
    BY ApproverAssumption DEF IInv
  <2> QED BY <2>1 DEF Deciding, Sound, Relies, DecisionStage
<1> QED BY <1>1, Invariance, PTL

-----------------------------------------------------------------------------
(* Versions come into force by approval only.                              *)

(* A flush sets the flags it is told to set and no others.                 *)
LEMMA FlagsByUpdate ==
  ASSUME NEW tb \in TradeTable, NEW t \in Trade, NEW u \in Update,
         NEW x \in Trade, NEW v \in Version, Apply(tb, t, u)[x][v].current
  PROVE  tb[x][v].current \/ (x = t /\ v \in u.on)
<1>1. Apply(tb, t, u)[x][v] = IF x = t /\ v \in u.updated THEN Written(tb[t][v], v, u)
                                                          ELSE tb[x][v]
  BY DEF Apply, TradeTable
<1>2. Written(tb[t][v], v, u).current = ((tb[t][v].current \/ v \in u.on) /\ v \notin u.off)
  BY DEF Written
<1>3. CASE x = t /\ v \in u.updated
  BY <1>1, <1>2, <1>3
<1>4. CASE ~(x = t /\ v \in u.updated)
  BY <1>1, <1>4
<1> QED BY <1>3, <1>4

(* The only step of a running request that sets a flag.                    *)
LEMMA RaisedByDecision ==
  ASSUME IInv, NEW h \in Handler, DecisionCommit(h),
         NEW t \in Trade, NEW v \in Version, ~rows[t][v].current, rows'[t][v].current
  PROVE  LET e == work[h].event IN
         /\ e \in Event /\ Completes(h, e)
         /\ event[e].trade = t /\ event[e].to = v /\ event[e].type = "AMEND"
<1> DEFINE w == work[h]
           ev == event[w.event]
           old == DeleteVersions(rows, ev.trade, w.dropped)
<1>1. w.at = "decided"
  BY DEF DecisionCommit
<1>2. /\ w \in DecisionWork /\ Relies(event, w) /\ ev.trade \in Trade /\ w.event \in Event
      /\ ev \in EventRow
  BY <1>1, DecisionTyped DEF DecisionStage
<1>3. w.dropped \in SUBSET Version /\ w.update \in Update
  BY <1>2 DEF DecisionWork
<1>4. /\ rows' = Apply(old, ev.trade, w.update)
      /\ SetEventStatus(w.event, w.outcome)
      /\ SetWork(h, IF w.outcome = "Done" /\ ev.type = "AMEND" THEN Call("maybeFo", ev.trade)
                                                               ELSE Idle)
  BY DEF DecisionCommit
<1>5. old \in TradeTable
  BY <1>2, <1>3, DeletedNotCurrent DEF IInv, TypeOK
<1>6. old[t][v].current \/ (t = ev.trade /\ v \in w.update.on)
  <2> HIDE DEF old, w
  <2> QED BY <1>2, <1>3, <1>4, <1>5, FlagsByUpdate
<1>7. ~old[t][v].current
  BY DEF DeleteVersions, NoRow, IInv, TypeOK, TradeTable
<1>8. w.outcome = "Done" /\ ev.type = "AMEND" /\ ev.to = v /\ ev.trade = t
  BY <1>1, <1>2, <1>6, <1>7 DEF Relies, DecisionStage
<1>9. work'[h].at = "maybeFo"
  <2>1. SetWork(h, Call("maybeFo", ev.trade))
    BY <1>4, <1>8
  <2>2. work'[h] = Call("maybeFo", ev.trade)
    BY <2>1, SetWorkIs DEF IInv
  <2> QED BY <2>2 DEF Call
<1>10. event'[w.event].status = "Done"
  <2> DEFINE r == [ev EXCEPT !.status = w.outcome]
  <2>1. event' = [event EXCEPT ![w.event] = r]
    BY <1>4 DEF SetEventStatus
  <2>2. r.status = w.outcome
    BY <1>2 DEF EventRow
  <2> HIDE DEF r
  <2>3. event'[w.event] = r
    BY <1>2, <2>1 DEF IInv, TypeOK, EventTable
  <2> QED BY <1>8, <2>2, <2>3
<1> QED BY <1>1, <1>2, <1>8, <1>9, <1>10 DEF Completes

LEMMA RaisedOnlyByApproval ==
  ASSUME IInv, Next, NEW t \in Trade, NEW v \in Version,
         ~rows[t][v].current, rows'[t][v].current
  PROVE  \/ v = 1 /\ rows[t] = Absent
         \/ \E h \in Approver, e \in Event :
              /\ Completes(h, e)
              /\ event[e].trade = t /\ event[e].to = v /\ event[e].type = "AMEND"
<1>1. TypeOK /\ rows' # rows
  BY DEF IInv
<1>a. \A s \in WorkflowStatus \cup SeedStatus : FirstVersion(s)[v].current => v = 1
  BY DEF FirstVersion, NoRow
<1>2. CASE RuleNext
  <2>1. PICK h \in Handler : UpdateCommit(h)
    BY <1>1, <1>2 DEF RuleNext, FoCheckRequest, BoCheckRequest, MaybeRunFoCheck, MaybeRunBoCheck,
       FoRules, BoRules, Select, UpdateSetting
  <2> DEFINE w == work[h]
  <2>2. w.at = "update" /\ w.trade \in Trade /\ w.update \in Update /\ Sound(event, w)
    BY <2>1, WorkTyped, WorkByStage DEF UpdateCommit, UpdateWork
  <2>3. w.update.on = {}
    BY <2>2 DEF Sound, Quiet
  <2>4. rows' = Apply(rows, w.trade, w.update)
    BY <1>1, <2>1 DEF UpdateCommit
  <2> HIDE DEF w
  <2> QED BY <1>1, <2>2, <2>3, <2>4, FlagsByUpdate DEF TypeOK
<1>3. CASE ProposalNext
  <2>1. PICK h \in Handler, e \in Event : ProposalCommit(h, e)
    BY <1>1, <1>3 DEF ProposalNext, NumberVersion, InsertPending, MarkPending, ProposalFails
  <2> DEFINE w == work[h]
             inserted == IF w.type = "AMEND" THEN InsertVersion(rows, w.trade, w.to) ELSE rows
  <2>2. w.at = "create" /\ w \in ProposalWork /\ Sound(event, w)
    BY <2>1, WorkTyped, WorkByStage DEF ProposalCommit
  <2>3. w.update.on = {} /\ w.trade \in Trade /\ w.to \in Version /\ w.update \in Update
    BY <2>2 DEF Sound, Quiet, ProposalWork
  <2>4. inserted \in TradeTable /\ (inserted[t][v].current => rows[t][v].current)
    <3>1. CASE w.type = "AMEND"
      BY <1>1, <2>3, <3>1, InsertVersionType DEF TypeOK
    <3>2. CASE w.type # "AMEND"
      BY <1>1, <3>2 DEF TypeOK
    <3> QED BY <3>1, <3>2
  <2>5. rows' = Apply(inserted, w.trade, w.update)
    BY <2>1 DEF ProposalCommit
  <2> HIDE DEF w, inserted
  <2> QED BY <2>3, <2>4, <2>5, FlagsByUpdate
<1>4. CASE AgentNext
  BY <1>1, <1>4 DEF AgentNext, ImmediateTool, AgentStops, TriageRequest, SendBackToFo,
     CreateAmendEvent, CreateCancelEvent
<1>5. CASE EventNext
  <2>1. PICK h \in Approver : DecisionCommit(h)
    BY <1>1, <1>5 DEF EventNext, CreateEventRequest, CheckPending, FoApproveRequest, BoApproveRequest, Decides,
       DecideEventOnly, RejectAmendment, ResetCurrent, ApproveAmendment, ApproveCancellation
  <2>2. h \in Handler
    BY ApproverAssumption
  <2> QED BY <2>1, <2>2, RaisedByDecision
<1>6. CASE WorkflowNext
  <2>1. PICK h \in Handler : \/ \E x \in Trade : CreateTrade(h, x)
                             \/ Truncate(h) \/ Reseed(h)
    BY <1>1, <1>6 DEF WorkflowNext, OperatorApprove, SeedCheck, SeedRequest, SeedList, Failure
  <2>2. ASSUME NEW x \in Trade, CreateTrade(h, x)
        PROVE  v = 1 /\ rows[t] = Absent
    <3>1. t = x /\ rows[t] = Absent
      BY <1>1, <2>2 DEF CreateTrade, TypeOK, TradeTable
    <3>2. rows'[t] = FirstVersion("Initial")
      BY <1>1, <2>2, <3>1 DEF CreateTrade, TypeOK, TradeTable
    <3> QED BY <1>a, <3>1, <3>2 DEF SeedStatus
  <2>3. ASSUME Truncate(h)
        PROVE  FALSE
    BY <2>3 DEF Truncate, Absent, NoRow
  <2>4. ASSUME Reseed(h)
        PROVE  v = 1 /\ rows[t] = Absent
    <3>1. PICK s \in SeedStatus : rows[t] = Absent /\ rows'[t] = FirstVersion(s)
      BY <2>4 DEF Reseed
    <3> QED BY <1>a, <3>1
  <2> QED BY <2>1, <2>2, <2>3, <2>4
<1> QED BY <1>2, <1>3, <1>4, <1>5, <1>6 DEF Next

(* A version comes into force only when its trade is booked or in the very *)
(* step that commits a BO approval of the amendment that proposed it, also *)
(* when approvals of several events and checks of the trade overlap.       *)
THEOREM InForceOnlyByApproval == Spec => InForceByApproval
<1>1. IInv /\ [Next]_vars =>
        [\A t \in Trade, v \in Version :
           ~rows[t][v].current /\ rows'[t][v].current =>
             \/ v = 1 /\ rows[t] = Absent
             \/ \E h \in Approver, e \in Event :
                  /\ Completes(h, e)
                  /\ event[e].trade = t /\ event[e].to = v /\ event[e].type = "AMEND"]_rows
  BY RaisedOnlyByApproval DEF vars
<1> QED BY <1>1, Invariance, PTL DEF Spec, InForceByApproval
=============================================================================
