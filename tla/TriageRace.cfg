\* Two operators decide on the same run at the same time.
CONSTANTS
  Run = {r1}
  Handler = {h1, h2}
  Agent = {"bo"}
  Currency = {"USD"}
  Field = {}
  Message <- NoCode
  MaxSendback = 1
  MaxActs = 2
  Environment = {}
SPECIFICATION Spec
INVARIANTS OnlyApprovedActs
