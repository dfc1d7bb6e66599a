\* A trade whose currency has been amended: its settlement currency has not.
CONSTANTS
  Run = {r1}
  Handler = {h1}
  Agent = {"bo"}
  Currency = {"USD", "EUR"}
  Field = {}
  Message <- NoCode
  MaxSendback = 1
  MaxActs = 1
  Environment = {"amended"}
SPECIFICATION Spec
INVARIANTS RegistrationRepairs
