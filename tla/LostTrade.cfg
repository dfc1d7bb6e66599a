\* An approval and a rejection of the same amendment overlap.
CONSTANTS
  Trade = {t1}
  Event = {e1}
  Handler = {h1, h2}
  Approver = {h1, h2}
  MaxVersion = 2
  TunableKeys = {}
  Environment = {"booking", "user_events"}
SPECIFICATION Spec
INVARIANTS NeverLost
