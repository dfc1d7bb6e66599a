---------------------------- MODULE TradeEvents ----------------------------
(***************************************************************************)
(* The life of an amendment or a cancellation (routers/trade_events.py):   *)
(* a user proposes it, FO approves or rejects it, then BO does.  Every     *)
(* endpoint reads and checks first and writes later.  The first write of a *)
(* decision is the event's own row: its lock makes any other decision on   *)
(* the SAME event wait, but not one on another event of the trade, and not *)
(* the requests that have passed their check already.                      *)
(***************************************************************************)
EXTENDS AgentTools

CONSTANT Approver \* the handlers that serve decisions on events

ASSUME ApproverAssumption == Approver \subseteq Handler

(* "decide": the request has passed its check.  "reset": a rejection has   *)
(* deleted the proposed version and looks the current one up.  "decided":  *)
(* only the commit is left.                                                *)
DecisionWork ==
  [at : {"decide", "reset", "decided"}, desk : {"FO", "BO"}, event : Event,
   outcome : {"FoValidated", "Done", "Cancelled"}, dropped : SUBSET Version,
   update : Update]

-----------------------------------------------------------------------------
(* POST /trades/{id}/events                                                *)

(* A version of the trade that waits for approval: not current and still   *)
(* EventPending.                                                           *)
PendingVersion(t, v) == Exists(rows, t, v) /\ ~rows[t][v].current
                                           /\ rows[t][v].status = "EventPending"

CreateEventRequest(h, t, type) ==
  /\ "user_events" \in Environment
  /\ Free(h)
  /\ StartProposal(h, t, type, "guard", "end")
  /\ UNCHANGED <<rows, event, batch, setting>>

(* The guard: no undecided event and, for an amendment, no pending version.*)
(* What the session loaded before stays what it goes by.                   *)
Refused(t, type) ==
  \/ HasPending(t)
  \/ type = "AMEND" /\ \E v \in Version : PendingVersion(t, v)

CheckPending(h) ==
  LET w == work[h] IN
  /\ w.at = "guard"
  /\ SetWork(h, IF Refused(w.trade, w.type) THEN Idle
                ELSE [w EXCEPT !.at = IF w.type = "AMEND" THEN "number" ELSE "mark"])
  /\ UNCHANGED <<rows, event, batch, setting>>

-----------------------------------------------------------------------------
(* PATCH /trade-events/{id}/fo-approve and /bo-approve: the check.         *)
Decision(desk, e, outcome) ==
  [at |-> "decide", desk |-> desk, event |-> e, outcome |-> outcome,
   dropped |-> {}, update |-> NoUpdate]

FoApproveRequest(h, e, approved) ==
  /\ Free(h)
  /\ event[e].status = "FoUserToValidate"
  /\ SetWork(h, Decision("FO", e, IF approved THEN "FoValidated" ELSE "Cancelled"))
  /\ UNCHANGED <<rows, event, batch, setting>>

(* Mutant: BO may decide on any event that is still undecided.             *)
BoApproveRequest_AnyUndecided(h, e, approved) ==
  /\ Free(h)
  /\ InFlight(e)
  /\ SetWork(h, Decision("BO", e, IF approved THEN "Done" ELSE "Cancelled"))
  /\ UNCHANGED <<rows, event, batch, setting>>

BoApproveRequest(h, e, approved) ==
  /\ Free(h)
  /\ event[e].status = "FoValidated"
  /\ SetWork(h, Decision("BO", e, IF approved THEN "Done" ELSE "Cancelled"))
  /\ UNCHANGED <<rows, event, batch, setting>>

-----------------------------------------------------------------------------
(* The UPDATE of the event takes its lock, the DELETE of a rejection that  *)
(* of the proposed version; both are held until the commit.                *)
HoldsLocks(w) == w.at \in {"reset", "decided"}
LocksEvent(w, e) == HoldsLocks(w) /\ w.event = e
LocksRow(w, t, v) == HoldsLocks(w) /\ v \in w.dropped /\ event[w.event].trade = t

(* The decision has got the lock of its event.                             *)
Decides(h) ==
  /\ work[h].at = "decide"
  /\ \A g \in Handler : ~LocksEvent(work[g], work[h].event)
  /\ UNCHANGED <<rows, event, batch, setting>>

(* FO approves, or a CANCEL is rejected: nothing but the event is written. *)
DecideEventOnly(h) ==
  LET w == work[h] IN
  /\ Decides(h)
  /\ \/ w.outcome = "FoValidated"
     \/ w.outcome = "Cancelled" /\ event[w.event].type = "CANCEL"
  /\ SetWork(h, [w EXCEPT !.at = "decided"])

(* Mutant: the delete does not name the version.                           *)
Deletable_All(t, v) == {x \in Version : Exists(rows, t, x) /\ ~rows[t][x].current}

(* _cancel_pending_version: drop the proposed version, unless it is the    *)
(* current one by now ...                                                  *)
Deletable(t, v) == {x \in {v} : Exists(rows, t, x) /\ ~rows[t][x].current}

RejectAmendment(h) ==
  LET w == work[h]
      ev == event[w.event]
  IN /\ Decides(h)
     /\ w.outcome = "Cancelled" /\ ev.type = "AMEND"
     /\ \A g \in Handler : ~LocksRow(work[g], ev.trade, ev.to)
     /\ SetWork(h, [w EXCEPT !.at = "reset", !.dropped = Deletable(ev.trade, ev.to)])

(* ... and take the current one out of EventPending.  Nothing is assigned  *)
(* to a row in another status.                                             *)
Resets(tb, t) ==
  IF HasCurrent(tb, t)
  THEN {IF tb[t][v].status = "EventPending"
        THEN [NoUpdate EXCEPT !.updated = {v}, !.restatus = {v}, !.status = "FoAgentToCheck"]
        ELSE NoUpdate : v \in CurrentVersions(tb, t)}
  ELSE {NoUpdate}

ResetCurrent(h) ==
  LET w == work[h]
      t == event[w.event].trade
  IN /\ w.at = "reset"
     /\ \E u \in Resets(DeleteVersions(rows, t, w.dropped), t) :
          SetWork(h, [w EXCEPT !.at = "decided", !.update = u])
     /\ UNCHANGED <<rows, event, batch, setting>>

(* BO approves an amendment: activate_version and, if the version was      *)
(* found, its status.                                                      *)
ActivateAmended(t, to) ==
  [ActivateVersion(rows, t, to) EXCEPT
     !.restatus = {v \in {to} : Exists(rows, t, v) /\ rows[t][v].status # "Initial"}]

ApproveAmendment(h) ==
  LET w == work[h]
      ev == event[w.event]
  IN /\ Decides(h)
     /\ w.outcome = "Done" /\ ev.type = "AMEND"
     /\ SetWork(h, [w EXCEPT !.at = "decided", !.update = ActivateAmended(ev.trade, ev.to)])

(* BO approves a cancellation: update_workflow_status.                     *)
ApproveCancellation(h) ==
  LET w == work[h]
      ev == event[w.event]
  IN /\ Decides(h)
     /\ w.outcome = "Done" /\ ev.type = "CANCEL"
     /\ \E u \in StatusUpdates(rows, ev.trade, "Cancelled", {}) :
          SetWork(h, [w EXCEPT !.at = "decided", !.update = u])

(* The UPDATEs of the trade's rows, which wait for a row that another      *)
(* transaction has deleted, and the commit.  When a row is gone the whole  *)
(* transaction fails.  An approved amendment goes on to the FO check.      *)
DecisionCommit(h) ==
  LET w == work[h]
      ev == event[w.event]
      t == ev.trade
  IN /\ w.at = "decided"
     /\ \A g \in Handler \ {h}, v \in w.update.updated : ~LocksRow(work[g], t, v)
     /\ IF CanApply(rows, t, w.update)
        THEN /\ rows' = Apply(DeleteVersions(rows, t, w.dropped), t, w.update)
             /\ SetEventStatus(w.event, w.outcome)
             /\ SetWork(h, IF w.outcome = "Done" /\ ev.type = "AMEND"
                           THEN Call("maybeFo", t) ELSE Idle)
        ELSE SetWork(h, Idle) /\ UNCHANGED <<rows, event>>
     /\ UNCHANGED <<batch, setting>>

EventNext ==
  \/ \E h \in Handler, t \in Trade, type \in EventType : CreateEventRequest(h, t, type)
  \/ \E h \in Handler : CheckPending(h)
  \/ \E h \in Approver :
       \/ \E e \in Event, approved \in BOOLEAN :
            FoApproveRequest(h, e, approved) \/ BoApproveRequest(h, e, approved)
       \/ DecideEventOnly(h)
       \/ RejectAmendment(h)
       \/ ResetCurrent(h)
       \/ ApproveAmendment(h)
       \/ ApproveCancellation(h)
       \/ DecisionCommit(h)
=============================================================================
