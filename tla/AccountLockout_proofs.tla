------------------------ MODULE AccountLockout_proofs -----------------------
(***************************************************************************)
(* What the failure counter guarantees however sign-ins overlap: a lockout *)
(* is temporary, and nobody is locked out who has not failed.              *)
(***************************************************************************)
EXTENDS AccountLockout, TLAPS

Bounded == MaxNow \in Nat /\ LockoutSeconds \in Nat \ {0}

(* A key that expires does so at most LockoutSeconds from now: whatever    *)
(* failures and lost calls came before, an account left alone for that     *)
(* long is open again.  (recordFailure, LOCKOUT_SECONDS)                   *)
LockoutEnds ==
  key.expires # Never => now < key.expires /\ key.expires <= now + LockoutSeconds

(* An attempt is refused as locked only after a failure was counted.       *)
(* (getLockoutStatus)                                                      *)
OnlyFailuresLock == \A s \in Session : attempt[s].at = "locked" => attempt[s].count >= 1

(* A key that exists counts at least one failure.                          *)
KeyCounts == key = NoKey \/ key.count >= 1

LockoutInv == TypeOK /\ LockoutEnds /\ KeyCounts

-----------------------------------------------------------------------------
LEMMA LockoutInit ==
  ASSUME Bounded
  PROVE  Init => LockoutInv
BY DEF Bounded, Init, LockoutInv, TypeOK, LockoutEnds, KeyCounts, NoKey, Never

(* What an attempt that is under way looks like.                           *)
Busy == [at : {"status", "verify", "failure", "success"}, correct : BOOLEAN, count : Nat]
        \cup [at : {"ttl", "expire", "locked"}, correct : BOOLEAN, count : Nat \ {0}]

LEMMA AttemptIs ==
  ASSUME TypeOK, NEW s \in Session
  PROVE  IF attempt[s].at = "idle" THEN attempt[s] = Idle ELSE attempt[s] \in Busy
BY DEF TypeOK, Busy, Idle

(* Writes to the fields of an attempt.                                     *)
Record == [at : {"status", "verify", "failure", "success", "ttl", "expire", "locked"},
           correct : BOOLEAN, count : Nat]

LEMMA BusyIsRecord == Busy \subseteq Record
BY DEF Busy, Record

LEMMA Fields ==
  ASSUME NEW w \in Busy, NEW at, NEW count \in Nat,
         \/ at \in {"verify", "failure", "success"}
         \/ at \in {"ttl", "expire", "locked"} /\ count # 0
  PROVE  /\ count = w.count => [w EXCEPT !.at = at] \in Busy
         /\ [w EXCEPT !.at = at, !.count = count] \in Busy
         /\ [w EXCEPT !.count = count, !.at = at] \in Busy
<1> DEFINE new == [at |-> at, correct |-> w.correct, count |-> count]
<1>1. w \in Record /\ w.correct \in BOOLEAN
  BY BusyIsRecord DEF Record
<1>2. new \in Busy
  BY <1>1 DEF Busy
<1>3. [w EXCEPT !.at = at] = [at |-> at, correct |-> w.correct, count |-> w.count]
  BY <1>1 DEF Record
<1>4. [w EXCEPT !.count = count] = [at |-> w.at, correct |-> w.correct, count |-> count]
  BY <1>1 DEF Record
<1>5. [[at |-> at, correct |-> w.correct, count |-> w.count] EXCEPT !.count = count] = new
  OBVIOUS
<1>6. [[at |-> w.at, correct |-> w.correct, count |-> count] EXCEPT !.at = at] = new
  OBVIOUS
<1>7. [w EXCEPT !.at = at, !.count = count] = new
  BY <1>3, <1>5, Zenon
<1>8. [w EXCEPT !.count = count, !.at = at] = new
  BY <1>4, <1>6, Zenon
<1>9. count = w.count => [w EXCEPT !.at = at] = new
  BY <1>3
<1>10. QED
  BY <1>2, <1>7, <1>8, <1>9, Zenon

(* An attempt goes on, or ends.                                            *)
LEMMA GoesOn ==
  ASSUME TypeOK, NEW s \in Session, NEW w \in Busy \cup {Idle},
         attempt' = [attempt EXCEPT ![s] = w],
         now' \in 0 .. MaxNow, key' \in [count : Nat, expires : Nat]
  PROVE  TypeOK'
<1>1. attempt' \in [Session -> {Idle} \cup Busy]
  BY DEF TypeOK, Busy
<1>2. QED
  BY <1>1 DEF TypeOK, Busy

LEMMA LockoutStep ==
  ASSUME Bounded, LockoutInv, [Next]_vars
  PROVE  LockoutInv'
<1>a. /\ TypeOK /\ now \in 0 .. MaxNow /\ key \in [count : Nat, expires : Nat]
      /\ MaxNow \in Nat /\ LockoutSeconds \in Nat \ {0}
  BY DEF LockoutInv, TypeOK, Bounded
<1>b. UNCHANGED <<now, key>> => LockoutEnds' /\ KeyCounts'
  BY DEF LockoutInv, LockoutEnds, KeyCounts
<1>c. NoKey \in [count : Nat, expires : Nat] /\ NoKey.expires = Never
  BY DEF NoKey, Never
<1>1. ASSUME NEW s \in Session,
             SignIn(s) \/ GetCount(s) \/ GetTtl(s) \/ Refuse(s) \/ Verify(s) \/ RedisFails(s)
      PROVE  LockoutInv'
  <2>1. UNCHANGED <<now, key>>
    BY <1>1 DEF SignIn, GetCount, GetTtl, Refuse, Verify, RedisFails
  <2>2. ASSUME SignIn(s) PROVE TypeOK'
    BY <1>a, <2>1, <2>2 DEF SignIn, TypeOK
  <2>3. ASSUME GetCount(s) PROVE TypeOK'
    <3>1. attempt[s] \in Busy /\ key.count \in Nat /\ (key # NoKey => key.count # 0)
      BY <1>a, <2>3, AttemptIs DEF GetCount, LockoutInv, KeyCounts
    <3>2. PICK at \in {"verify", "ttl"} :
            /\ at = "ttl" => key # NoKey
            /\ attempt' = [attempt EXCEPT ![s] = [attempt[s] EXCEPT !.count = key.count, !.at = at]]
      BY <2>3 DEF GetCount
    <3> DEFINE w == [attempt[s] EXCEPT !.count = key.count, !.at = at]
    <3>3. w \in Busy
      BY <3>1, <3>2, Fields
    <3>4. attempt' = [attempt EXCEPT ![s] = w]
      BY <3>2
    <3> HIDE DEF w
    <3>5. QED
      BY <1>a, <2>1, <3>3, <3>4, GoesOn
  <2>4. ASSUME GetTtl(s) \/ Verify(s) \/ (RedisFails(s) /\ attempt[s].at \in {"status", "ttl"})
        PROVE  TypeOK'
    <3>1. attempt[s] \in Busy /\ attempt[s].count \in Nat
          /\ (attempt[s].at = "ttl" => attempt[s].count # 0)
      BY <1>a, <2>4, AttemptIs DEF GetTtl, Verify, RedisFails, Busy
    <3>2. PICK at \in {"verify", "success", "failure", "locked"} :
            /\ at = "locked" => attempt[s].at = "ttl"
            /\ attempt' = [attempt EXCEPT ![s] = [attempt[s] EXCEPT !.at = at]]
      BY <2>4 DEF GetTtl, Verify, RedisFails, To
    <3> DEFINE w == [attempt[s] EXCEPT !.at = at]
    <3>3. w \in Busy
      BY <3>1, <3>2, Fields
    <3>4. attempt' = [attempt EXCEPT ![s] = w]
      BY <3>2
    <3> HIDE DEF w
    <3>5. QED
      BY <1>a, <2>1, <3>3, <3>4, GoesOn
  <2>5. ASSUME Refuse(s) \/ (RedisFails(s) /\ attempt[s].at \notin {"status", "ttl"})
        PROVE  TypeOK'
    BY <1>a, <2>1, <2>5, GoesOn DEF Refuse, RedisFails
  <2>6. QED
    BY <1>1, <1>b, <2>1, <2>2, <2>3, <2>4, <2>5 DEF LockoutInv
<1>2. ASSUME NEW s \in Session, Incr(s)
      PROVE  LockoutInv'
  <2>1. /\ attempt[s] \in Busy /\ attempt[s].at # "idle"
        /\ key' = [key EXCEPT !.count = key.count + 1] /\ now' = now
    BY <1>2, <1>a, AttemptIs DEF Incr
  <2>2. key' \in [count : Nat, expires : Nat] /\ key'.count = key.count + 1 /\ key'.expires = key.expires
    BY <1>a, <2>1
  <2>3. TypeOK'
    <3>1. CASE attempt' = [attempt EXCEPT ![s] = Idle]
      BY <1>a, <2>1, <2>2, <3>1, GoesOn
    <3>2. CASE attempt' = [attempt EXCEPT ![s] =
                             [attempt[s] EXCEPT !.at = "expire", !.count = key.count + 1]]
      <4> DEFINE w == [attempt[s] EXCEPT !.at = "expire", !.count = key.count + 1]
      <4>1. key.count + 1 \in Nat /\ key.count + 1 # 0
        BY <1>a
      <4>2. w \in Busy
        BY <2>1, <4>1, Fields
      <4>3. attempt' = [attempt EXCEPT ![s] = w]
        BY <3>2
      <4> HIDE DEF w
      <4>4. QED
        BY <1>a, <2>1, <2>2, <4>2, <4>3, GoesOn
    <3>3. QED
      BY <1>2, <3>1, <3>2 DEF Incr
  <2>4. LockoutEnds' /\ KeyCounts'
    BY <1>a, <2>1, <2>2 DEF LockoutInv, LockoutEnds, KeyCounts
  <2>5. QED
    BY <2>3, <2>4 DEF LockoutInv
<1>3. ASSUME NEW s \in Session, Expire(s) \/ Del(s)
      PROVE  LockoutInv'
  <2>1. attempt' = [attempt EXCEPT ![s] = Idle] /\ now' = now
    BY <1>3 DEF Expire, Del
  <2>2. \/ key' = key
        \/ key' = NoKey
        \/ key # NoKey /\ key' = [key EXCEPT !.expires = now + LockoutSeconds]
    BY <1>3 DEF Expire, Del
  <2>3. key' \in [count : Nat, expires : Nat] /\ LockoutEnds' /\ KeyCounts'
    BY <1>a, <1>c, <2>1, <2>2 DEF LockoutInv, LockoutEnds, KeyCounts, Never
  <2>4. QED
    BY <1>a, <2>1, <2>3, GoesOn DEF LockoutInv
<1>4. CASE Tick
  <2>1. /\ now' = now + 1 /\ now < MaxNow /\ attempt' = attempt
        /\ key' = IF key.expires = now + 1 THEN NoKey ELSE key
    BY <1>4 DEF Tick
  <2>2. key' \in [count : Nat, expires : Nat] /\ LockoutEnds' /\ KeyCounts'
    BY <1>a, <1>c, <2>1 DEF LockoutInv, LockoutEnds, KeyCounts, Never
  <2>3. TypeOK'
    BY <1>a, <2>1, <2>2 DEF TypeOK
  <2>4. QED
    BY <2>2, <2>3 DEF LockoutInv
<1>5. CASE UNCHANGED vars
  BY <1>5 DEF vars, LockoutInv, TypeOK, LockoutEnds, KeyCounts
<1>6. QED
  BY <1>1, <1>2, <1>3, <1>4, <1>5 DEF Next

-----------------------------------------------------------------------------
(* Counter, clock and attempts are well typed; in particular an attempt    *)
(* that asks for the time to live has read a count.                        *)
THEOREM LockoutTypeCorrect ==
  ASSUME Bounded
  PROVE  Spec => []TypeOK
<1>1. LockoutInv => TypeOK
  BY DEF LockoutInv
<1>2. LockoutInv /\ [Next]_vars => LockoutInv'
  BY LockoutStep
<1>3. QED
  BY LockoutInit, <1>1, <1>2, PTL DEF Spec

(* However sign-ins overlap and whatever calls to Redis are lost, a lockout*)
(* ends by itself, at the latest LockoutSeconds after its latest renewal.  *)
THEOREM LockoutsAreTemporary ==
  ASSUME Bounded
  PROVE  Spec => []LockoutEnds
<1>1. LockoutInv => LockoutEnds
  BY DEF LockoutInv
<1>2. LockoutInv /\ [Next]_vars => LockoutInv'
  BY LockoutStep
<1>3. QED
  BY LockoutInit, <1>1, <1>2, PTL DEF Spec

(* Nobody is refused as locked who has not failed.                         *)
THEOREM OnlyFailuresLockOut ==
  ASSUME Bounded
  PROVE  Spec => []OnlyFailuresLock
<1>1. LockoutInv => OnlyFailuresLock
  BY AttemptIs DEF LockoutInv, OnlyFailuresLock, Busy
<1>2. LockoutInv /\ [Next]_vars => LockoutInv'
  BY LockoutStep
<1>3. QED
  BY LockoutInit, <1>1, <1>2, PTL DEF Spec
=============================================================================
