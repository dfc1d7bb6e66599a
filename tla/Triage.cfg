\* One handler: operators take turns.  A run of the BO or the FO agent, failures,
\* restarts, the fallback to memory, master data changed under a paused run.
CONSTANTS
  Run = {r1}
  Handler = {h1}
  Agent = {"bo", "fo"}
  Currency = {"USD"}
  Field = {}
  Message <- Messages
  MaxSendback = 1
  MaxActs = 2
  Environment = {"failure", "restart", "auto", "patch", "memory"}
SPECIFICATION FairSpec
INVARIANTS TypeOK OnlyApprovedActs RegistrationRepairs
PROPERTIES ActsAsApproved CompletedActsNoMore ActedRequestEnds
