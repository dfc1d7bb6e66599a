\* A check overlaps the approval of an amendment.
CONSTANTS
  Trade = {t1}
  Event = {e1}
  Handler = {h1, h2}
  Approver = {h1}
  MaxVersion = 2
  TunableKeys = {}
  Environment = {"booking", "user_events", "check"}
SPECIFICATION FairSpec
PROPERTIES StatusOnCurrent
