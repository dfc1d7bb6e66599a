----------------------------- MODULE CheckRules -----------------------------
(***************************************************************************)
(* The rules of the FO check and the BO check (check_rules.py), the        *)
(* calendar rule the rule engine adds to the FO check, and the Spot or     *)
(* Forward classification.  All are pure: a trade, master data and the     *)
(* day go in, the names of the rules that fail come out.                   *)
(*                                                                         *)
(* Days are numbered; day 0 is a Monday.  An instrument is the set of its  *)
(* two currencies; any other value stands for one the calendar service     *)
(* cannot parse.                                                           *)
(***************************************************************************)
EXTENDS Integers, FiniteSets

(* date.weekday() >= 5 *)
Weekend(d) == d % 7 \in {5, 6}

-----------------------------------------------------------------------------
(* trade_classification.py *)

(* Mutant: the start day is counted as well.                               *)
CountBusinessDays_Inclusive(start, end) ==
  Cardinality({d \in start .. end : ~Weekend(d)})

(* count_business_days_exclusive_start: how often its loop counts.         *)
CountBusinessDays(start, end) ==
  Cardinality({d \in start + 1 .. end : ~Weekend(d)})

(* calculate_trade_type *)
TradeType(tradeDate, valueDate) ==
  IF CountBusinessDays(tradeDate, valueDate) > 2 THEN "Forward" ELSE "Spot"

-----------------------------------------------------------------------------
(* The FO rules *)

MaxSettlementTenorDays == 730

(* The rules of FO_RULES that fail for trade tr on day today.  Two more,   *)
(* counterparty_exists and instrument_exists, are stubs that always pass.  *)
FailedFoRules(tr, today) ==
  LET fails ==
        [trade_date_not_future           |-> tr.tradeDate > tr.inputDate,
         trade_date_not_weekend          |-> Weekend(tr.tradeDate),
         value_date_after_trade_date     |-> tr.valueDate <= tr.tradeDate,
         value_date_not_weekend          |-> Weekend(tr.valueDate),
         value_date_not_past             |-> tr.valueDate < today,
         value_date_settlement_cycle     |-> tr.valueDate < tr.tradeDate + 2,
         value_date_within_max_tenor     |-> tr.valueDate > tr.tradeDate + MaxSettlementTenorDays,
         amount_positive                 |-> tr.amount <= 0,
         settlement_currency_consistency |-> tr.settlement \notin tr.instrument]
  IN {rule \in DOMAIN fails : fails[rule]}

FoWarning == {"value_date_settlement_cycle", "value_date_within_max_tenor"}

(* check_fx_value_date: the status is unknown when the pair cannot be      *)
(* parsed, a currency has no country, or the holiday service fails; closed *)
(* says whether the date is a weekend or a holiday in either market.       *)
CalendarStatus(tr, hasCountry, holidays, reachable) ==
  IF Cardinality(tr.instrument) # 2 \/ ~(tr.instrument \subseteq hasCountry) \/ ~reachable
  THEN "unknown"
  ELSE IF Weekend(tr.valueDate) \/ \E c \in tr.instrument : tr.valueDate \in holidays[c]
       THEN "closed" ELSE "open"

(* check_fx_value_date_via_mcp: the lookup runs in the calendar server or, *)
(* when that cannot be started, in this process.  Nothing is known when    *)
(* lookups are switched off, when there is no fallback, and when the       *)
(* answer of the server makes no sense.                                    *)
CalendarAnswers(tr, hasCountry, holidays) ==
  {"unknown"} \cup {CalendarStatus(tr, hasCountry, holidays, reachable) : reachable \in BOOLEAN}

(* Mutant: every failed rule counts, also the warnings.                    *)
FoCheckPasses_WarningsCount(failed, calendar) ==
  failed = {} /\ calendar = "open"

(* Mutant: a closed market is a warning, like an unknown one.              *)
FoCheckPasses_ClosedWarns(failed, calendar) ==
  failed \subseteq FoWarning

(* has_errors of run_fo_check: only failures of severity error count, and  *)
(* an unknown calendar is a warning.                                       *)
FoCheckPasses(failed, calendar) ==
  failed \subseteq FoWarning /\ calendar # "closed"

-----------------------------------------------------------------------------
(* The BO rules *)

(* A row of settlement_instructions and the fields of it that are          *)
(* malformed; NoSsi is the absence of a row.                               *)
NoSsi == [exists |-> FALSE, malformed |-> {}]
SsiRow(malformed) == [exists |-> TRUE, malformed |-> malformed]

BoRule ==
  {"counterparty_exists", "counterparty_active", "ssi_exists", "bic_format_valid",
   "iban_format_valid", "risk_limit_check", "compliance_check", "settlement_confirmed"}

(* The rules of BO_RULES that fail for a counterparty ("missing",          *)
(* "inactive" or "active") and an internal SSI.  Malformed fields count    *)
(* only in a row that exists, and the last three rules are stubs that      *)
(* always pass.                                                            *)
FailedBoRules(cp, ssi) ==
  {rule \in BoRule :
     \/ rule = "counterparty_exists" /\ cp = "missing"
     \/ rule = "counterparty_active" /\ cp # "active"
     \/ rule = "ssi_exists" /\ ~ssi.exists
     \/ rule = "bic_format_valid" /\ "bic" \in ssi.malformed
     \/ rule = "iban_format_valid" /\ "iban" \in ssi.malformed}
=============================================================================
