\* Decisions on two events of a trade overlap.  Three events, and no more:
\* without another one to propose the exploration may stop.
CONSTANTS
  Trade = {t1}
  Event = {e1, e2, e3}
  Handler = {h1, h2}
  Approver = {h1, h2}
  MaxVersion = 4
  TunableKeys = {}
  Environment = {"booking", "agent_events"}
SPECIFICATION Spec
SYMMETRY Symmetry
INVARIANTS OneCurrent
CHECK_DEADLOCK FALSE
