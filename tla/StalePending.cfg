\* One handler; only users propose.
CONSTANTS
  Trade = {t1}
  Event = {e1}
  Handler = {h1}
  Approver = {h1}
  MaxVersion = 2
  TunableKeys = {}
  Environment = {"booking", "user_events"}
SPECIFICATION Spec
INVARIANTS PendingVersionHasEvent
