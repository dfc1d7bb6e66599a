------------------------------ MODULE Booking -------------------------------
(***************************************************************************)
(* Booking trades, from the request to the verdict of the FO check: the    *)
(* number (TradeIds), the Spot or Forward classification, and the FO rules *)
(* with the calendar rule (CheckRules), while days go by.  A row here is   *)
(* version 1 of its trade, the version booked.  The status the             *)
(* verdict leads to, and what follows, is in TradeWorkflow.  All requests  *)
(* of a behaviour book the same deal: what overlaps is the numbering, and  *)
(* deals are told apart by the initial state.                              *)
(***************************************************************************)
EXTENDS TradeIds, CheckRules

CONSTANTS
  Deal,        \* the deals explored: [tradeDate, valueDate, currency, instrument]
  HasCountry,  \* the currencies the calendar service knows a country for
  Holidays,    \* the holidays of every currency's country
  MaxId,       \* bound on the trades explored
  MaxDay       \* bound on the days explored

ASSUME BookingAssumption ==
  /\ \A d \in Deal : d.tradeDate \in Int /\ d.valueDate \in Int
  /\ MaxId \in Nat /\ MaxDay \in Nat

VARIABLES
  deal,   \* the deal booked in this behaviour
  today,  \* date.today()
  rows    \* for every number, the trade's row in the table

vars == <<ids, inForce, booking, deal, today, rows>>

(* fo_check_results: whether the check passed, and its calendar rule.  The *)
(* day of the check is not stored; it is kept to state properties.         *)
NotChecked == [verdict |-> "none"]
FoResults == {NotChecked} \cup [verdict : {"passed", "failed"},
                                calendar : {"open", "closed", "unknown"}, day : 0 .. MaxDay]
NoTrade == [type |-> "none"]
TradeRow == [type : {"Spot", "Forward"}, inputDate : 0 .. MaxDay, results : FoResults,
             superseded : BOOLEAN]

BookingTypeOK ==
  /\ IdsTypeOK
  /\ deal \in Deal
  /\ today \in 0 .. MaxDay
  /\ rows \in [1 .. MaxId -> TradeRow \cup {NoTrade}]

-----------------------------------------------------------------------------
(* The row of create_trade.  Its input date is the day of the insert.      *)
InsertRow(h) ==
  /\ Insert(h)
  /\ rows' = [rows EXCEPT ![booking[h].id] =
       [type |-> TradeType(deal.tradeDate, deal.valueDate),
        inputDate |-> today, results |-> NotChecked, superseded |-> FALSE]]
  /\ UNCHANGED <<deal, today>>

(* A booked trade settles in the currency it was booked in; the request is *)
(* refused unless its amount is positive.                                  *)
Trade(id) ==
  [tradeDate |-> deal.tradeDate, valueDate |-> deal.valueDate,
   inputDate |-> rows[id].inputDate, amount |-> 1,
   settlement |-> deal.currency, instrument |-> deal.instrument]

(* run_fo_check, of the version booked.  A check that is under way when an *)
(* amendment takes its place stores what it would have stored before.      *)
FoCheck(id) ==
  /\ ~rows[id].superseded
  /\ \E calendar \in CalendarAnswers(Trade(id), HasCountry, Holidays) :
       LET passes == FoCheckPasses(FailedFoRules(Trade(id), today), calendar)
       IN rows' = [rows EXCEPT ![id].results =
            [verdict |-> IF passes THEN "passed" ELSE "failed",
             calendar |-> calendar, day |-> today]]

(* maybe_run_fo_check and the answer.  No check is run in manual mode, and *)
(* a failure to run it does not fail the booking.                          *)
CheckAndAnswer(h) ==
  /\ Answer(h)
  /\ FoCheck(booking[h].id) \/ UNCHANGED rows
  /\ UNCHANGED <<deal, today>>

(* POST /trades/{id}/fo-check, any time later.                             *)
FoCheckRequest(id) ==
  /\ id \in ids
  /\ FoCheck(id)
  /\ UNCHANGED <<ids, inForce, booking, deal, today>>

(* An amendment takes the place of the version booked, for good.           *)
Supersede(id) ==
  /\ ActivateVersion(id)
  /\ rows' = [rows EXCEPT ![id].superseded = TRUE]
  /\ UNCHANGED <<deal, today>>

Tomorrow ==
  /\ today < MaxDay
  /\ today' = today + 1
  /\ UNCHANGED <<ids, inForce, booking, deal, rows>>

Init ==
  /\ IdsInit
  /\ deal \in Deal
  /\ today = 0
  /\ rows = [id \in 1 .. MaxId |-> NoTrade]

Next ==
  \/ \E h \in Handler :
       \/ /\ \/ CreateRequest(h)
             \/ Allocate(h) /\ NextId <= MaxId
             \/ InsertFails(h)
             \/ GiveUp(h)
          /\ UNCHANGED <<deal, today, rows>>
       \/ InsertRow(h)
       \/ CheckAndAnswer(h)
  \/ \E id \in 1 .. MaxId : FoCheckRequest(id) \/ Supersede(id)
  \/ Tomorrow

Spec == Init /\ [][Next]_vars

-----------------------------------------------------------------------------
(* A Forward is a trade that settles on or after the third business day    *)
(* following its trade date - also around weekends, where calendar days    *)
(* and business days part.  (calculate_trade_type)                         *)
BusinessDaysAfter(d) == {e \in d + 1 .. d + 7 : ~Weekend(e)}
ThirdBusinessDay(d) ==
  CHOOSE e \in BusinessDaysAfter(d) :
    Cardinality({f \in BusinessDaysAfter(d) : f <= e}) = 3
TypeFollowsCalendar ==
  \A id \in ids : rows[id].type = "Forward" <=> deal.valueDate >= ThirdBusinessDay(deal.tradeDate)

(* A trade that has passed the FO check could still settle on the day it   *)
(* was checked, and settles on a business day of both markets unless the   *)
(* stored results say that the calendar could not be asked; no warning     *)
(* holds back a trade that could.  (run_fo_check)                          *)
Settles(id) ==
  /\ deal.currency \in deal.instrument
  /\ ~Weekend(deal.tradeDate) /\ ~Weekend(deal.valueDate)
  /\ deal.tradeDate <= rows[id].inputDate
  /\ deal.tradeDate < deal.valueDate /\ rows[id].results.day <= deal.valueDate
  /\ \/ rows[id].results.calendar = "unknown"
     \/ \A c \in deal.instrument : deal.valueDate \notin Holidays[c]
PassedSettles ==
  \A id \in ids : rows[id].results # NotChecked =>
                    (rows[id].results.verdict = "passed" <=> Settles(id))
=============================================================================
