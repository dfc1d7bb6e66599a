\* One handler: requests are served one at a time, and each can die at any
\* step.  Everything happens except the refresh.
CONSTANTS
  Trade = {t1}
  Event = {e1, e2}
  Handler = {h1}
  Approver = {h1}
  MaxVersion = 3
  TunableKeys = {"fo_check_trigger", "bo_check_trigger", "fo_triage_trigger", "bo_triage_trigger"}
  Environment = {"booking", "check", "triage", "user_events", "agent_events", "tools", "operator", "seed", "failure"}
SPECIFICATION Spec
SYMMETRY Symmetry
INVARIANTS TypeOK ProposedOnCurrent
