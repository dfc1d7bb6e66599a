----------------------------- MODULE Proposals ------------------------------
(***************************************************************************)
(* Proposing an amendment or a cancellation of a trade: what               *)
(* create_trade_event does once its guards have passed, and what the       *)
(* agents' tools create_amend_event and create_cancel_event do without     *)
(* any.  The trade is looked up up to three times - for from_version, for  *)
(* the number of the new version, and to mark the version in force as      *)
(* EventPending - and each time another version may be in force by then.   *)
(***************************************************************************)
EXTENDS RuleEngine

(* "guard": a user's request that has loaded the trade and has yet to look *)
(* for a pending amendment or cancellation.                                *)
(* "number": about to call create_next_version.  "insert": it has selected *)
(* the current row and is about to INSERT.  "mark": about to call          *)
(* update_workflow_status.  "create": about to insert the event and to     *)
(* commit.  `to` is from_version until the number is known.                *)
ProposalWork ==
  [at : {"guard", "number", "insert", "mark", "create"}, trade : Trade, type : EventType,
   from : Version, to : Version, loaded : SUBSET LoadedRow, update : Update,
   after : {"end", "foTriage"}]

StartProposal(h, t, type, at, after) ==
  \E v \in CurrentVersions(rows, t) :
    SetWork(h, [at |-> at, trade |-> t, type |-> type, from |-> v, to |-> v,
                loaded |-> Load(rows, t, v, {}), update |-> NoUpdate, after |-> after])

(* Mutant: the newest version is counted on, not the one in force.         *)
Numbers_Newest(t) ==
  {v + 1 : v \in {x \in Version : Exists(rows, t, x)
                    /\ \A y \in Version : Exists(rows, t, y) => y <= x}} \cap Version

(* The number the new version gets must lie within the bound.              *)
Numbers(t) == {v + 1 : v \in CurrentVersions(rows, t)} \cap Version

NumberVersion(h) ==
  LET w == work[h] IN
  /\ w.at = "number"
  /\ \E to \in Numbers(w.trade) :
       SetWork(h, [w EXCEPT !.at = "insert", !.to = to,
                            !.loaded = Load(rows, w.trade, to - 1, w.loaded)])
  /\ UNCHANGED <<rows, event, batch, setting>>

(* The INSERT of a key that an open transaction has inserted waits until   *)
(* that transaction ends; the unique constraint refuses one that exists.   *)
Reserves(w, t, v) ==
  w.at \in {"mark", "create"} /\ w.type = "AMEND" /\ w.trade = t /\ w.to = v

(* Mutant: the table has no unique constraint on (trade_id, version).      *)
InsertPending_NotUnique(h) ==
  /\ work[h].at = "insert"
  /\ SetWork(h, [work[h] EXCEPT !.at = "mark"])
  /\ UNCHANGED <<rows, event, batch, setting>>

InsertPending(h) ==
  LET w == work[h] IN
  /\ w.at = "insert"
  /\ ~Exists(rows, w.trade, w.to)
  /\ \A g \in Handler : ~Reserves(work[g], w.trade, w.to)
  /\ SetWork(h, [w EXCEPT !.at = "mark"])
  /\ UNCHANGED <<rows, event, batch, setting>>

(* update_workflow_status(trade_id, "EventPending")                        *)
MarkPending(h) ==
  LET w == work[h] IN
  /\ w.at = "mark"
  /\ \E u \in StatusUpdates(rows, w.trade, "EventPending", w.loaded) :
       SetWork(h, [w EXCEPT !.at = "create", !.update = u])
  /\ UNCHANGED <<rows, event, batch, setting>>

(* What is left of a proposal when it is over: an agent goes on.           *)
EndProposal(h) == Fail(h, work[h].trade, work[h].after)

ProposalCommit(h, e) ==
  LET w == work[h]
      inserted == IF w.type = "AMEND" THEN InsertVersion(rows, w.trade, w.to) ELSE rows
  IN /\ w.at = "create"
     /\ CanApply(rows, w.trade, w.update)
     /\ rows' = Apply(inserted, w.trade, w.update)
     /\ CreateEvent(e, w.trade, w.type, w.from, w.to)
     /\ EndProposal(h)
     /\ UNCHANGED <<batch, setting>>

(* No current row, a number out of the bound or already taken, a marked    *)
(* row that is gone, or no key left for the event (the bound on events):   *)
(* the transaction is rolled back.                                         *)
ProposalFails(h) ==
  LET w == work[h] IN
  /\ \/ w.at = "number" /\ Numbers(w.trade) = {}
     \/ w.at = "insert" /\ Exists(rows, w.trade, w.to)
     \/ w.at = "create" /\ ~CanApply(rows, w.trade, w.update)
     \/ w.at = "create" /\ \A e \in Event : event[e].status # "None"
  /\ EndProposal(h)
  /\ UNCHANGED <<rows, event, batch, setting>>

ProposalNext ==
  \E h \in Handler :
    \/ NumberVersion(h)
    \/ InsertPending(h)
    \/ MarkPending(h)
    \/ \E e \in Event : ProposalCommit(h, e)
    \/ ProposalFails(h)
=============================================================================
