\* Two handlers, both of which serve decisions, an amendment, an FO check
\* trigger that changes, and a refresh.
CONSTANTS
  Trade = {t1}
  Event = {e1}
  Handler = {h1, h2}
  Approver = {h1, h2}
  MaxVersion = 2
  TunableKeys = {"fo_check_trigger"}
  Environment = {"user_events", "check", "refresh"}
SPECIFICATION FairSpec
INVARIANTS FoBeforeBo
PROPERTIES InForceByApproval 
