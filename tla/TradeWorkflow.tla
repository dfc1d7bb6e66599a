--------------------------- MODULE TradeWorkflow ---------------------------
(***************************************************************************)
(* The whole trade workflow: creation, checks, agents, events, operators   *)
(* and the demo-data refresh, all on the same two tables and served by     *)
(* concurrent handlers.                                                    *)
(***************************************************************************)
EXTENDS TradeEvents

vars == <<rows, event, work, batch, setting>>

SeedWork == [at : {"reseed", "seedChecks"}]

TypeOK ==
  /\ rows \in TradeTable
  /\ event \in EventTable
  /\ work \in [Handler -> RuleWork \cup ProposalWork \cup DecisionWork \cup SeedWork]
  /\ batch \in [Handler -> SUBSET Trade]
  /\ setting \in [SettingKey -> {"auto", "manual"}]

(* The statuses the demo data starts trades in.                            *)
SeedStatus == {"Initial", "FoAgentToCheck", "BoAgentToCheck"}
Absent == [v \in Version |-> NoRow]

(* A database that has been seeded with some of the trades.                *)
Init ==
  /\ rows \in [Trade -> {FirstVersion(s) : s \in SeedStatus} \cup {Absent}]
  /\ event = [e \in Event |-> NoEvent]
  /\ work = [h \in Handler |-> Idle]
  /\ batch = [h \in Handler |-> {}]
  /\ setting = [key \in SettingKey |-> "manual"]

-----------------------------------------------------------------------------
(* POST /trades: the row is committed before the check is triggered.  The  *)
(* id is one the table does not hold.                                      *)
CreateTrade(h, t) ==
  /\ "booking" \in Environment
  /\ Free(h)
  /\ rows[t] = Absent
  /\ rows' = [rows EXCEPT ![t] = FirstVersion("Initial")]
  /\ SetWork(h, Call("maybeFo", t))
  /\ UNCHANGED <<event, batch, setting>>

(* Mutant: a status that is not one of TradeWorkflowStatus.                *)
ApprovedStatus_Misnamed == [FoUserToValidate |-> "FoApproved",
                            BoUserToValidate |-> "BoValidated"]

(* POST /trades/{id}/operator-approve                                      *)
ApprovedStatus == [FoUserToValidate |-> "FoValidated",
                   BoUserToValidate |-> "BoValidated"]

OperatorApprove(h, t) ==
  /\ "operator" \in Environment
  /\ Free(h)
  /\ \E v \in CurrentVersions(rows, t) :
       /\ rows[t][v].status \in DOMAIN ApprovedStatus
       /\ SetWork(h, [at |-> "select", trade |-> t, status |-> ApprovedStatus[rows[t][v].status],
                      loaded |-> Load(rows, t, v, {}), after |-> "end"])
  /\ UNCHANGED <<rows, event, batch, setting>>

-----------------------------------------------------------------------------
(* POST /admin/refresh: the trades and the settings are truncated and that *)
(* is committed; then the missing demo trades are inserted, and in auto    *)
(* mode each Initial trade is checked.  trade_events is not truncated.     *)
(* POST /admin/seed is the same without the truncation.                    *)

(* TRUNCATE waits for every transaction that has read the table.           *)
OutsideTransaction(w) ==
  w.at \in {"idle", "maybeFo", "maybeBo", "foTriage", "boTriage", "decide",
           "reseed", "seedChecks"}

Truncate(h) ==
  /\ "refresh" \in Environment
  /\ Free(h)
  /\ \A g \in Handler : OutsideTransaction(work[g])
  /\ rows' = [t \in Trade |-> Absent]
  /\ setting' = [key \in SettingKey |-> "manual"]
  /\ SetWork(h, [at |-> "reseed"])
  /\ UNCHANGED <<event, batch>>

SeedRequest(h) ==
  /\ "seed" \in Environment
  /\ Free(h)
  /\ SetWork(h, [at |-> "reseed"])
  /\ UNCHANGED <<rows, event, batch, setting>>

Reseed(h) ==
  /\ work[h].at = "reseed"
  /\ \E demo \in SUBSET Trade, s \in [Trade -> SeedStatus] :
       rows' = [t \in Trade |-> IF t \in demo /\ rows[t] = Absent
                               THEN FirstVersion(s[t]) ELSE rows[t]]
  /\ SetWork(h, [at |-> "seedChecks"])
  /\ UNCHANGED <<event, batch, setting>>

(* The SELECT of the Initial trades ...                                    *)
InitialTrades == {t \in Trade : \E v \in CurrentVersions(rows, t) : rows[t][v].status = "Initial"}

SeedList(h) ==
  /\ work[h].at = "seedChecks"
  /\ SetWork(h, Idle)
  /\ batch' = [batch EXCEPT ![h] = IF IsAuto("fo_check_trigger") THEN InitialTrades ELSE {}]
  /\ UNCHANGED <<rows, event, setting>>

(* ... and a run_fo_check of each, which does not go on to BO.             *)
SeedCheck(h, t) ==
  /\ work[h] = Idle
  /\ t \in batch[h]
  /\ CheckRead(h, t, "foRules", FALSE)
  /\ batch' = [batch EXCEPT ![h] = @ \ {t}]
  /\ UNCHANGED <<rows, event, setting>>

(* The process or its database connection dies, or a call raises: what the *)
(* request has not committed is lost.                                      *)
Failure(h) ==
  /\ "failure" \in Environment
  /\ ~Free(h)
  /\ SetWork(h, Idle)
  /\ batch' = [batch EXCEPT ![h] = {}]
  /\ UNCHANGED <<rows, event, setting>>

-----------------------------------------------------------------------------
WorkflowNext ==
  \E h \in Handler :
    \/ \E t \in Trade : CreateTrade(h, t) \/ OperatorApprove(h, t) \/ SeedCheck(h, t)
    \/ Truncate(h)
    \/ SeedRequest(h)
    \/ Reseed(h)
    \/ SeedList(h)
    \/ Failure(h)

Next == RuleNext \/ ProposalNext \/ AgentNext \/ EventNext \/ WorkflowNext

Spec == Init /\ [][Next]_vars

(* A handler runs its request to the end: threads are scheduled, locks are *)
(* released when their holder ends, and an agent's graph stops at the      *)
(* latest at its recursion limit.  Requests themselves need not arrive.    *)
Continue(h) ==
  \/ MaybeRunFoCheck(h) \/ MaybeRunBoCheck(h)
  \/ FoRules(h) \/ BoRules(h) \/ Select(h) \/ UpdateCommit(h)
  \/ AgentStops(h)
  \/ CheckPending(h) \/ NumberVersion(h) \/ InsertPending(h) \/ MarkPending(h)
  \/ (\E e \in Event : ProposalCommit(h, e)) \/ ProposalFails(h)
  \/ DecideEventOnly(h) \/ RejectAmendment(h) \/ ResetCurrent(h)
  \/ ApproveAmendment(h) \/ ApproveCancellation(h) \/ DecisionCommit(h)
  \/ Reseed(h) \/ SeedList(h) \/ (\E t \in Trade : SeedCheck(h, t))

FairSpec == Spec /\ \A h \in Handler : WF_vars(Continue(h))

-----------------------------------------------------------------------------
(* What holds however requests overlap.                                    *)

(* A version comes into force only when the trade is booked, or in the very*)
(* step in which BO completes an amendment that named this version.        *)
Completes(h, e) ==
  /\ work[h].at = "decided" /\ work[h].event = e /\ work[h].outcome = "Done"
  /\ event'[e].status = "Done"
  /\ work'[h].at = "maybeFo"
InForceByApproval ==
  [][\A t \in Trade, v \in Version :
       ~rows[t][v].current /\ rows'[t][v].current =>
         \/ v = 1 /\ rows[t] = Absent
         \/ \E h \in Approver, e \in Event :
              /\ Completes(h, e)
              /\ event[e].trade = t /\ event[e].to = v /\ event[e].type = "AMEND"]_rows

(* Four eyes: whoever decides for BO decides on an event that FO has       *)
(* decided on, also when the decisions of several users overlap.           *)
Deciding(h, e) == work[h].at \in {"decide", "reset", "decided"} /\ work[h].event = e
FoBeforeBo ==
  \A h \in Approver, e \in Event :
    Deciding(h, e) /\ work[h].desk = "BO" =>
      event[e].status \in {"FoValidated", "Done", "Cancelled"}

-----------------------------------------------------------------------------
(* What holds while the decisions on one trade's events do not overlap,    *)
(* however they and everything else overlap otherwise.                     *)
OneDecision ==
  \A g, h \in Approver, e, f \in Event :
    Deciding(g, e) /\ Deciding(h, f) /\ event[e].trade = event[f].trade => g = h

(* A trade never has two versions in force: get_current takes the first of *)
(* the rows flagged is_current, so with two of them every reader and every *)
(* status update would act on an arbitrary one.                            *)
OneCurrent ==
  \A t \in Trade : \A v, w \in Version :
    rows[t][v].current /\ rows[t][w].current => v = w

(* A booked trade always has a version in force.  Losing it would make the *)
(* trade vanish from every list and answer 404 everywhere, with its rows   *)
(* still in the table.                                                     *)
NeverLost ==
  \A t \in Trade : rows[t] # Absent => HasCurrent(rows, t)

(* The version that an undecided amendment will put in force is there,     *)
(* untouched, and directly follows the one in force: approving it can      *)
(* neither fail nor skip a version.                                        *)
AmendmentReady ==
  \A e \in Event : InFlight(e) /\ event[e].type = "AMEND" =>
    LET t == event[e].trade IN
    /\ HasCurrent(rows, t) /\ event[e].to = Current(rows, t) + 1
    /\ PendingVersion(t, event[e].to)

(* The audit trail has no gaps: rejecting amendments, in whatever order    *)
(* they are made, never removes a version below one that exists.           *)
HistoryComplete ==
  \A t \in Trade, v, w \in Version :
    v < w /\ Exists(rows, t, w) => Exists(rows, t, v)

(* The implementation of the promise in TradeVersioning.                   *)
InForce == [t \in Trade |-> IF HasCurrent(rows, t) THEN Current(rows, t) ELSE 0]
Proposal ==
  [e \in Event |->
    IF event[e].status = "None" THEN [stage |-> "None"]
    ELSE [stage |-> event[e].status, trade |-> event[e].trade, type |-> event[e].type,
          to |-> IF event[e].type = "AMEND" THEN event[e].to ELSE 0]]
Versioning == INSTANCE TradeVersioning WITH inForce <- InForce, proposal <- Proposal
VersionsFollowApprovals == Versioning!Spec

-----------------------------------------------------------------------------
(* What holds while requests do not overlap at all.                        *)

(* The version an undecided event says it was made against is the one in   *)
(* force: what the approver is shown as "before" is what is replaced.      *)
ProposedOnCurrent ==
  \A e \in Event : InFlight(e) /\ event[e].type = "AMEND" =>
    rows[event[e].trade][event[e].from].current

-----------------------------------------------------------------------------
(* What the documentation says and the code does not do.                   *)

(* A version is found pending - and blocks further amendments - only while *)
(* the amendment that created it is undecided.                             *)
PendingVersionHasEvent ==
  \A t \in Trade, v \in Version : PendingVersion(t, v) =>
    \E e \in Event : InFlight(e) /\ event[e].trade = t /\ event[e].to = v

(* A status is written to the version in force, never to one that waits    *)
(* for approval or has been superseded.                                    *)
StatusOnCurrent ==
  [][\A t \in Trade, v \in Version :
       Exists(rows, t, v) /\ Exists(rows', t, v) /\ rows'[t][v].status # rows[t][v].status
         => rows[t][v].current \/ rows'[t][v].current]_rows

-----------------------------------------------------------------------------
(* An amendment that has come into force is eventually taken out of Initial*)
(* - checked, or handed to the user who starts the check - however many    *)
(* other requests touch the trade meanwhile.                               *)
AmendedInitial(t) ==
  \E v \in Version \ {1} : rows[t][v].current /\ rows[t][v].status = "Initial"
=============================================================================
