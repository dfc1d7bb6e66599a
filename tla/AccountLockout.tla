--------------------------- MODULE AccountLockout ---------------------------
(***************************************************************************)
(* The failure counter of one user name (account-lockout.ts) as sign-in    *)
(* uses it (auth.ts): read the counter, refuse or compare the password,    *)
(* count the failure or clear the counter.  Every call to Redis is a step  *)
(* of its own and may fail, which never refuses a sign-in.                 *)
(***************************************************************************)
EXTENDS Integers

CONSTANTS
  Session,         \* sign-in attempts that can be under way at the same time
  MaxFailures,     \* MAX_FAILURES: 5 in the code
  LockoutSeconds,  \* LOCKOUT_SECONDS, in ticks of the clock
  MaxNow           \* bound on the time explored

VARIABLES
  now,     \* the clock
  key,     \* the Redis key of the user name: its count and when it expires
  attempt  \* what each sign-in attempt still has to do

vars == <<now, key, attempt>>

(* A key without a time to live, and the absence of the key.               *)
Never == 0
NoKey == [count |-> 0, expires |-> Never]
Idle == [at |-> "idle"]

To(s, at) == attempt' = [attempt EXCEPT ![s] = [@ EXCEPT !.at = at]]

TypeOK ==
  /\ now \in 0 .. MaxNow
  /\ key \in [count : Nat, expires : Nat]
  /\ attempt \in [Session -> {Idle}
       \cup [at : {"status", "verify", "failure", "success"}, correct : BOOLEAN, count : Nat]
       \cup [at : {"ttl", "expire", "locked"}, correct : BOOLEAN, count : Nat \ {0}]]

-----------------------------------------------------------------------------
(* authorize, with the right user name and password or not.                *)
SignIn(s) ==
  /\ attempt[s] = Idle
  /\ \E correct \in BOOLEAN :
       attempt' = [attempt EXCEPT ![s] = [at |-> "status", correct |-> correct, count |-> 0]]
  /\ UNCHANGED <<now, key>>

(* getLockoutStatus, the call of get.  The value is the number incr made,  *)
(* and a number has no field `count`: whatever it is, the comparison of    *)
(* that field with MAX_FAILURES is false, and the next call asks for the   *)
(* time to live.                                                           *)
GetCount(s) ==
  /\ attempt[s].at = "status"
  /\ attempt' = [attempt EXCEPT ![s] = [@ EXCEPT !.count = key.count,
                   !.at = IF key = NoKey THEN "verify" ELSE "ttl"]]
  /\ UNCHANGED <<now, key>>

(* The call of ttl: negative for a missing key and one that never expires. *)
GetTtl(s) ==
  /\ attempt[s].at = "ttl"
  /\ To(s, IF key.expires # Never THEN "locked" ELSE "verify")
  /\ UNCHANGED <<now, key>>

(* authorize refuses the attempt without looking at the password ...       *)
Refuse(s) ==
  /\ attempt[s].at = "locked"
  /\ attempt' = [attempt EXCEPT ![s] = Idle]
  /\ UNCHANGED <<now, key>>

(* ... or compares it.                                                     *)
Verify(s) ==
  /\ attempt[s].at = "verify"
  /\ To(s, IF attempt[s].correct THEN "success" ELSE "failure")
  /\ UNCHANGED <<now, key>>

(* recordFailure: the call of incr, which keeps the time to live, and of   *)
(* expire, which does nothing without the key.                             *)
Incr(s) ==
  LET count == key.count + 1 IN
  /\ attempt[s].at = "failure"
  /\ key' = [key EXCEPT !.count = count]
  /\ attempt' = [attempt EXCEPT ![s] =
       IF count = 1 \/ count >= MaxFailures THEN [@ EXCEPT !.at = "expire", !.count = count]
       ELSE Idle]
  /\ UNCHANGED now

Expire(s) ==
  /\ attempt[s].at = "expire"
  /\ key' = IF key = NoKey THEN key ELSE [key EXCEPT !.expires = now + LockoutSeconds]
  /\ attempt' = [attempt EXCEPT ![s] = Idle]
  /\ UNCHANGED now

(* recordSuccess *)
Del(s) ==
  /\ attempt[s].at = "success"
  /\ key' = NoKey
  /\ attempt' = [attempt EXCEPT ![s] = Idle]
  /\ UNCHANGED now

(* Redis cannot be reached: the attempt is not locked, nothing is recorded.*)
RedisFails(s) ==
  /\ \/ attempt[s].at \in {"status", "ttl"} /\ To(s, "verify")
     \/ /\ attempt[s].at \in {"failure", "expire", "success"}
        /\ attempt' = [attempt EXCEPT ![s] = Idle]
  /\ UNCHANGED <<now, key>>

(* Time passes, and Redis deletes the key that expires.                    *)
Tick ==
  /\ now < MaxNow
  /\ now' = now + 1
  /\ key' = IF key.expires = now + 1 THEN NoKey ELSE key
  /\ UNCHANGED attempt

Init ==
  /\ now = 0
  /\ key = NoKey
  /\ attempt = [s \in Session |-> Idle]

Next ==
  \/ \E s \in Session :
       \/ SignIn(s) \/ GetCount(s) \/ GetTtl(s) \/ Refuse(s) \/ Verify(s)
       \/ Incr(s) \/ Expire(s) \/ Del(s) \/ RedisFails(s)
  \/ Tick

Spec == Init /\ [][Next]_vars

-----------------------------------------------------------------------------
(* An attempt is refused as locked only when the counter it has read says  *)
(* MaxFailures.  (recordFailure: "Locks the account after MAX_FAILURES.")  *)
LockedAfterMaxFailures ==
  \A s \in Session : attempt[s].at = "locked" => attempt[s].count >= MaxFailures
=============================================================================
