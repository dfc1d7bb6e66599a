\* Two handlers, one of which serves the decisions on events: proposals,
\* updates by agents and failures overlap each other and the decisions.
CONSTANTS
  Trade = {t1}
  Event = {e1, e2}
  Handler = {h1, h2}
  Approver = {h1}
  MaxVersion = 3
  TunableKeys = {}
  Environment = {"booking", "user_events", "agent_events", "tools", "failure"}
SPECIFICATION Spec
SYMMETRY Symmetry
INVARIANTS OneCurrent NeverLost AmendmentReady HistoryComplete
PROPERTIES VersionsFollowApprovals
