----------------------------- MODULE RuleEngine -----------------------------
(***************************************************************************)
(* The FO and BO checks (rule_engine.py) and the endpoints that start them.*)
(* A request is served by a worker thread with a database session of its   *)
(* own, concurrently with the other requests: every Handler is one such    *)
(* thread and `work` is what its request still has to do.  A transaction   *)
(* runs at READ COMMITTED and locks nothing it reads: every SELECT that    *)
(* decides what is written is a step of its own, and so is the commit, with*)
(* the UPDATEs before it, which nobody else can see or undo in between.    *)
(***************************************************************************)
EXTENDS TradeStore

CONSTANTS
  Handler,      \* worker threads
  TunableKeys,  \* the settings operators change while the system is explored
  Environment   \* what else happens while the system is explored

SettingKey == {"fo_check_trigger", "bo_check_trigger",
               "fo_triage_trigger", "bo_triage_trigger"}

ASSUME TunableAssumption == TunableKeys \subseteq SettingKey

(* "booking", "check", "triage", "user_events", "agent_events", "operator" *)
(* and "seed": the requests of that kind; "tools": agents call tools that  *)
(* need no approval; "refresh": POST /admin/refresh; "failure": requests   *)
(* die.                                                                    *)
ASSUME EnvironmentAssumption ==
  Environment \subseteq {"booking", "check", "triage", "user_events", "agent_events",
                         "tools", "operator", "seed", "refresh", "failure"}

VARIABLES
  work,     \* what each handler's request still has to do
  batch,    \* the trades a handler that seeds has still to check
  setting   \* app_settings: "auto" or "manual" for every trigger

Idle == [at |-> "idle"]
Free(h) == work[h] = Idle /\ batch[h] = {}

(* maybe_run_fo_check or maybe_run_bo_check is about to be called, or an   *)
(* agent is running inside the request.                                    *)
CallWork == [at : {"maybeFo", "maybeBo", "foTriage", "boTriage"}, trade : Trade]
(* run_fo_check or run_bo_check has loaded the trade and evaluates rules.  *)
(* `chain`: on FoValidated the caller goes on with maybe_run_bo_check.     *)
CheckWork == [at : {"foRules", "boRules"}, trade : Trade, loaded : SUBSET LoadedRow,
              chain : BOOLEAN]
(* What follows a status update that is committed.                         *)
After == {"end", "chain", "foFailed", "boFailed", "foTriage", "boTriage"}
(* A session that has loaded the trade is about to call                    *)
(* update_workflow_status; it has called it and is about to commit.        *)
SelectWork == [at : {"select"}, trade : Trade, status : WorkflowStatus,
               loaded : SUBSET LoadedRow, after : After]
UpdateWork == [at : {"update"}, trade : Trade, update : Update, after : After]
RuleWork == {Idle} \cup CallWork \cup CheckWork \cup SelectWork \cup UpdateWork

Call(at, t) == [at |-> at, trade |-> t]
SetWork(h, w) == work' = [work EXCEPT ![h] = w]

IsAuto(key) == setting[key] = "auto"

-----------------------------------------------------------------------------
(* The SELECT of update_workflow_status and the assignment.                *)
SelectCurrent(h, t, s, loaded, after) ==
  \E u \in StatusUpdates(rows, t, s, loaded) :
    SetWork(h, [at |-> "update", trade |-> t, update |-> u, after |-> after])

Select(h) ==
  LET w == work[h] IN
  /\ w.at = "select"
  /\ SelectCurrent(h, w.trade, w.status, w.loaded, w.after)
  /\ UNCHANGED <<rows, event, batch, setting>>

(* The agent's tools are called by an agent, which goes on either way.     *)
Fail(h, t, after) ==
  SetWork(h, IF after \in {"foTriage", "boTriage"} THEN Call(after, t) ELSE Idle)

(* After the commit a failed check starts the desk's agent when its        *)
(* trigger is auto, and a passed one goes on to BO when the caller chains. *)
Follow(h, t, after) ==
  SetWork(h, CASE after = "chain" -> Call("maybeBo", t)
               [] after = "foFailed" /\ IsAuto("fo_triage_trigger") -> Call("foTriage", t)
               [] after = "boFailed" /\ IsAuto("bo_triage_trigger") -> Call("boTriage", t)
               [] after \in {"foTriage", "boTriage"} -> Call(after, t)
               [] OTHER -> Idle)

(* The UPDATE and the commit.                                              *)
UpdateCommit(h) ==
  LET w == work[h] IN
  /\ w.at = "update"
  /\ IF CanApply(rows, w.trade, w.update)
     THEN rows' = Apply(rows, w.trade, w.update) /\ Follow(h, w.trade, w.after)
     ELSE UNCHANGED rows /\ Fail(h, w.trade, w.after)
  /\ UNCHANGED <<event, batch, setting>>

-----------------------------------------------------------------------------
(* The first SELECT of a check.  A trade with no current version raises    *)
(* ValueError, which the endpoints turn into a 404 and the triggers        *)
(* swallow.                                                                *)
CheckRead(h, t, at, chain) ==
  IF HasCurrent(rows, t)
  THEN \E v \in CurrentVersions(rows, t) :
         SetWork(h, [at |-> at, trade |-> t, loaded |-> Load(rows, t, v, {}),
                     chain |-> chain])
  ELSE SetWork(h, Idle)

(* POST /trades/{id}/fo-check and /bo-check: no condition on the status.   *)
FoCheckRequest(h, t) ==
  /\ "check" \in Environment
  /\ Free(h)
  /\ HasCurrent(rows, t)
  /\ CheckRead(h, t, "foRules", TRUE)
  /\ UNCHANGED <<rows, event, batch, setting>>

BoCheckRequest(h, t) ==
  /\ "check" \in Environment
  /\ Free(h)
  /\ HasCurrent(rows, t)
  /\ CheckRead(h, t, "boRules", FALSE)
  /\ UNCHANGED <<rows, event, batch, setting>>

(* The rules look at the row loaded and at master data and a calendar      *)
(* outside this model: both outcomes are possible.  Then the trade's       *)
(* current row is selected again.                                          *)
FoRules(h) ==
  LET w == work[h] IN
  /\ w.at = "foRules"
  /\ \/ SelectCurrent(h, w.trade, "FoValidated", w.loaded, IF w.chain THEN "chain" ELSE "end")
     \/ SelectCurrent(h, w.trade, "FoAgentToCheck", w.loaded, "foFailed")
  /\ UNCHANGED <<rows, event, batch, setting>>

BoRules(h) ==
  LET w == work[h] IN
  /\ w.at = "boRules"
  /\ \/ SelectCurrent(h, w.trade, "Done", w.loaded, "end")
     \/ SelectCurrent(h, w.trade, "BoAgentToCheck", w.loaded, "boFailed")
  /\ UNCHANGED <<rows, event, batch, setting>>


(* maybe_run_fo_check and maybe_run_bo_check: run the check in auto mode,  *)
(* in manual mode leave the trade where a user will start it.              *)
MaybeRunFoCheck(h) ==
  LET t == work[h].trade IN
  /\ work[h].at = "maybeFo"
  /\ IF IsAuto("fo_check_trigger")
     THEN CheckRead(h, t, "foRules", TRUE)
     ELSE SelectCurrent(h, t, "FoCheck", {}, "end")
  /\ UNCHANGED <<rows, event, batch, setting>>

MaybeRunBoCheck(h) ==
  LET t == work[h].trade IN
  /\ work[h].at = "maybeBo"
  /\ IF IsAuto("bo_check_trigger")
     THEN CheckRead(h, t, "boRules", FALSE)
     ELSE SelectCurrent(h, t, "BoCheck", {}, "end")
  /\ UNCHANGED <<rows, event, batch, setting>>

(* PATCH /settings/{key}                                                   *)
UpdateSetting(h, key) ==
  /\ Free(h)
  /\ \E value \in {"auto", "manual"} : setting' = [setting EXCEPT ![key] = value]
  /\ UNCHANGED <<rows, event, work, batch>>

RuleNext ==
  \E h \in Handler :
    \/ \E t \in Trade : FoCheckRequest(h, t) \/ BoCheckRequest(h, t)
    \/ MaybeRunFoCheck(h)
    \/ MaybeRunBoCheck(h)
    \/ FoRules(h)
    \/ BoRules(h)
    \/ Select(h)
    \/ UpdateCommit(h)
    \/ \E key \in TunableKeys : UpdateSetting(h, key)
=============================================================================
