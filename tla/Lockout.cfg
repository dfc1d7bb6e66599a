\* One sign-in at a time is enough: a failure, then another attempt.
CONSTANTS
  Session = {s1}
  MaxFailures = 5
  LockoutSeconds = 2
  MaxNow = 4
SPECIFICATION Spec
INVARIANTS LockedAfterMaxFailures
