----------------------------- MODULE TradeStore -----------------------------
(***************************************************************************)
(* The two tables the trade workflow lives in - trades (one row per trade  *)
(* version) and trade_events (amendments and cancellations) - and the      *)
(* repository methods that read and write them.  A method reads first and  *)
(* writes later: it loads rows as objects of its session, assigns to them, *)
(* and the flush sends one UPDATE per assigned row, by primary key, with   *)
(* the attributes that differ from what was loaded.  Other requests may    *)
(* commit in between, so what a method is going to write is computed from  *)
(* the table it read and applied to the table as it is at the commit.      *)
(***************************************************************************)
EXTENDS Naturals, FiniteSets

CONSTANTS
  Trade,      \* trade ids
  Event,      \* primary keys of trade_events: as many events as are explored
  MaxVersion  \* bound on the version numbers explored

ASSUME BoundsAssumption == MaxVersion \in Nat \ {0}

Version == 1 .. MaxVersion

WorkflowStatus ==
  {"Initial", "FoCheck", "FoAgentToCheck", "FoUserToValidate", "FoValidated",
   "BoCheck", "BoAgentToCheck", "BoUserToValidate", "BoValidated", "Done",
   "Cancelled", "EventPending"}

(* A row of trades.  NoRow stands for the absence of the row with that     *)
(* (trade_id, version) key, which the table's unique constraint allows at  *)
(* most once.                                                              *)
NoRow == [status |-> "None", current |-> FALSE]
TradeRow == [status : WorkflowStatus, current : BOOLEAN]
TradeTable == [Trade -> [Version -> TradeRow \cup {NoRow}]]

EventType == {"AMEND", "CANCEL"}
EventStatus == {"FoUserToValidate", "FoValidated", "Done", "Cancelled"}

(* A row of trade_events; NoEvent is a primary key not handed out yet.     *)
NoEvent == [status |-> "None"]
EventRow == [trade : Trade, type : EventType, status : EventStatus,
             from : Version, to : Version]
EventTable == [Event -> EventRow \cup {NoEvent}]

VARIABLES
  rows,   \* the trades table
  event   \* the trade_events table

-----------------------------------------------------------------------------
(* TradeRepository: reads *)

Exists(tb, t, v) == tb[t][v].status # "None"

(* get_current / get_by_trade_id return the first of the rows flagged      *)
(* is_current, in no particular order: one of these.                       *)
CurrentVersions(tb, t) == {v \in Version : tb[t][v].current}
HasCurrent(tb, t) == CurrentVersions(tb, t) # {}
Current(tb, t) == CHOOSE v \in Version : tb[t][v].current

(* The row of a first version, as create_trade and the seed data insert it. *)
FirstVersion(s) ==
  [v \in Version |-> IF v = 1 THEN [status |-> s, current |-> TRUE] ELSE NoRow]

(* The identity map of a session, as far as it matters: the versions of    *)
(* the trade it has loaded, with their statuses.  Until the session        *)
(* commits, an object keeps the attributes it was loaded with, also when a *)
(* later SELECT of the same session returns its row again.                 *)
LoadedRow == [version : Version, status : WorkflowStatus]
Load(tb, t, v, loaded) ==
  IF \E r \in loaded : r.version = v THEN loaded
  ELSE loaded \cup {[version |-> v, status |-> tb[t][v].status]}

-----------------------------------------------------------------------------
(* TradeRepository: writes.  What a flush sends: the rows it UPDATEs - all *)
(* the assigned ones, because updated_at always differs - and among them   *)
(* those whose flag it sets or clears and those whose status it writes.    *)
Update == [updated : SUBSET Version, on : SUBSET Version, off : SUBSET Version,
           restatus : SUBSET Version, status : WorkflowStatus]
NoUpdate == [updated |-> {}, on |-> {}, off |-> {}, restatus |-> {}, status |-> "Initial"]

Written(row, v, u) ==
  [status |-> IF v \in u.restatus THEN u.status ELSE row.status,
   current |-> (row.current \/ v \in u.on) /\ v \notin u.off]

(* The flush raises StaleDataError when a row it UPDATEs is gone.          *)
CanApply(tb, t, u) == \A v \in u.updated : Exists(tb, t, v)
Apply(tb, t, u) ==
  [tb EXCEPT ![t] = [v \in Version |-> IF v \in u.updated THEN Written(tb[t][v], v, u)
                                                          ELSE tb[t][v]]]

(* update_workflow_status: SELECT the current row, assign its status.      *)
(* Without a current row it returns None and nothing is written.           *)
StatusUpdates(tb, t, s, loaded) ==
  IF HasCurrent(tb, t)
  THEN {[NoUpdate EXCEPT
           !.updated = {v}, !.status = s,
           !.restatus = IF [version |-> v, status |-> s] \in Load(tb, t, v, loaded)
                        THEN {} ELSE {v}] : v \in CurrentVersions(tb, t)}
  ELSE {NoUpdate}

(* Mutants: the target's flag is not set; the others' flags are not reset. *)
ActivateVersion_NotSet(tb, t, to) ==
  LET found == {v \in Version : Exists(tb, t, v)} IN
  [NoUpdate EXCEPT !.updated = found, !.off = {v \in found : v # to /\ tb[t][v].current}]
ActivateVersion_NotReset(tb, t, to) ==
  LET found == {v \in Version : Exists(tb, t, v)} IN
  [NoUpdate EXCEPT !.updated = found, !.on = {v \in found : v = to /\ ~tb[t][v].current}]

(* activate_version: SELECT all rows of the trade and assign every flag.   *)
(* The others lose theirs also when there is no row with the version.      *)
ActivateVersion(tb, t, to) ==
  LET found == {v \in Version : Exists(tb, t, v)} IN
  [NoUpdate EXCEPT !.updated = found,
                   !.on = {v \in found : v = to /\ ~tb[t][v].current},
                   !.off = {v \in found : v # to /\ tb[t][v].current}]

(* create_next_version: the new row.                                       *)
InsertVersion_DefaultFlag(tb, t, v) ==
  [tb EXCEPT ![t][v] = [status |-> "EventPending", current |-> TRUE]]

InsertVersion(tb, t, v) ==
  [tb EXCEPT ![t][v] = [status |-> "EventPending", current |-> FALSE]]

DeleteVersions(tb, t, dropped) ==
  [tb EXCEPT ![t] = [v \in Version |-> IF v \in dropped THEN NoRow ELSE tb[t][v]]]

-----------------------------------------------------------------------------
(* TradeEventRepository *)

InFlightStatus == {"FoUserToValidate", "FoValidated"}
InFlight(e) == event[e].status \in InFlightStatus

(* get_pending: the trade has an event that is not Done or Cancelled       *)
HasPending(t) == \E e \in Event : InFlight(e) /\ event[e].trade = t

CreateEvent(e, t, type, from, to) ==
  /\ event[e].status = "None"
  /\ event' = [event EXCEPT ![e] = [trade |-> t, type |-> type, from |-> from,
                                    to |-> to, status |-> "FoUserToValidate"]]

SetEventStatus(e, s) == event' = [event EXCEPT ![e].status = s]
=============================================================================
