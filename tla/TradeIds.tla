------------------------------ MODULE TradeIds ------------------------------
(***************************************************************************)
(* How POST /trades numbers a trade (create_trade, allocate_next_trade_id):*)
(* read the largest number of a trade in force, insert the next one, and   *)
(* start over when the unique constraint says that the number is taken, at *)
(* most MaxAttempts times.  Version 1 of a trade is never deleted by what  *)
(* is modelled here (no refresh of the database), so its number stays      *)
(* taken even if the decisions on its events leave it with no version in   *)
(* force (LostTrade in TradeWorkflow): then allocate_next_trade_id is      *)
(* blind to it.                                                            *)
(***************************************************************************)
EXTENDS Integers, FiniteSets

CONSTANTS
  Handler,     \* worker threads
  MaxAttempts  \* how often create_trade tries: 32 in the code

ASSUME AttemptsAssumption == MaxAttempts \in Nat \ {0}

VARIABLES
  ids,     \* the numbers of the trades in the table
  inForce, \* those with a current version
  booking  \* what each handler's request still has to do

Idle == [at |-> "idle"]

(* `before` is the number of trades when the request arrived, `failed` the *)
(* number of attempts that failed, and `blind` the number of attempts that *)
(* found the newest trade with no version in force.                        *)
Trying == [at : {"allocate", "gaveUp"}, before : Nat, failed : Nat, blind : Nat]
Holding == [at : {"insert"}, before : Nat, failed : Nat, blind : Nat, id : Nat \ {0}]
Booked == [at : {"booked"}, id : Nat \ {0}]

SetBooking(h, w) == booking' = [booking EXCEPT ![h] = w]

(* Mutant: the numbers start at 0.                                         *)
NextId_FromZero ==
  IF inForce = {} THEN 0 ELSE 1 + CHOOSE n \in inForce : \A i \in inForce : i <= n

(* allocate_next_trade_id: one more than the largest number in force, 0    *)
(* for none.                                                               *)
LargestId == CHOOSE n \in inForce \cup {0} : \A i \in inForce : i <= n
NextId == LargestId + 1

NewestInForce == \A i \in ids : i <= LargestId

-----------------------------------------------------------------------------
CreateRequest(h) ==
  /\ booking[h] = Idle
  /\ SetBooking(h, [at |-> "allocate", before |-> Cardinality(ids),
                    failed |-> 0, blind |-> 0])
  /\ UNCHANGED <<ids, inForce>>

(* Mutant: a retry skips as many numbers as attempts have failed.          *)
Allocate_SkipsAhead(h) ==
  LET w == booking[h] IN
  /\ w.at = "allocate"
  /\ SetBooking(h, [at |-> "insert", before |-> w.before, failed |-> w.failed,
                    blind |-> IF NewestInForce THEN w.blind ELSE w.blind + 1,
                    id |-> NextId + w.failed])
  /\ UNCHANGED <<ids, inForce>>

Allocate(h) ==
  LET w == booking[h] IN
  /\ w.at = "allocate"
  /\ SetBooking(h, [at |-> "insert", before |-> w.before, failed |-> w.failed,
                    blind |-> IF NewestInForce THEN w.blind ELSE w.blind + 1,
                    id |-> NextId])
  /\ UNCHANGED <<ids, inForce>>

(* Mutant: the table has no unique constraint.                             *)
Insert_NotUnique(h) ==
  /\ booking[h].at = "insert"
  /\ ids' = ids \cup {booking[h].id}
  /\ inForce' = inForce \cup {booking[h].id}
  /\ SetBooking(h, [at |-> "booked", id |-> booking[h].id])

(* The insert is committed ...                                             *)
Insert(h) ==
  /\ booking[h].at = "insert"
  /\ booking[h].id \notin ids
  /\ ids' = ids \cup {booking[h].id}
  /\ inForce' = inForce \cup {booking[h].id}
  /\ SetBooking(h, [at |-> "booked", id |-> booking[h].id])

(* Mutant: the loop stops one attempt early.                               *)
InsertFails_Early(h) ==
  LET w == booking[h] IN
  /\ w.at = "insert"
  /\ w.id \in ids
  /\ SetBooking(h, [at |-> IF w.failed + 1 >= MaxAttempts - 1 THEN "gaveUp" ELSE "allocate",
                    before |-> w.before, failed |-> w.failed + 1, blind |-> w.blind])
  /\ UNCHANGED <<ids, inForce>>

(* ... or refused by the unique constraint: try again, or give up (503).   *)
InsertFails(h) ==
  LET w == booking[h] IN
  /\ w.at = "insert"
  /\ w.id \in ids
  /\ SetBooking(h, [at |-> IF w.failed + 1 = MaxAttempts THEN "gaveUp" ELSE "allocate",
                    before |-> w.before, failed |-> w.failed + 1, blind |-> w.blind])
  /\ UNCHANGED <<ids, inForce>>

GiveUp(h) ==
  /\ booking[h].at = "gaveUp"
  /\ SetBooking(h, Idle)
  /\ UNCHANGED <<ids, inForce>>

(* The rest of create_trade, after the commit.                             *)
Answer(h) ==
  /\ booking[h].at = "booked"
  /\ SetBooking(h, Idle)
  /\ UNCHANGED <<ids, inForce>>

(* An amendment of trade n is approved: activate_version puts a version in *)
(* force, or leaves the trade with none.                                   *)
ActivateVersion(n) ==
  /\ n \in ids
  /\ inForce' \in {inForce \cup {n}, inForce \ {n}}
  /\ UNCHANGED <<ids, booking>>

IdsInit ==
  /\ ids = {}
  /\ inForce = {}
  /\ booking = [h \in Handler |-> Idle]

IdsNext ==
  \/ \E h \in Handler : \/ CreateRequest(h) \/ Allocate(h) \/ Insert(h)
                        \/ InsertFails(h) \/ GiveUp(h) \/ Answer(h)
  \/ \E n \in ids : ActivateVersion(n)

IdsSpec == IdsInit /\ [][IdsNext]_<<ids, inForce, booking>>

-----------------------------------------------------------------------------
IdsTypeOK ==
  /\ ids \in SUBSET (Nat \ {0}) /\ inForce \subseteq ids
  /\ booking \in [Handler -> {Idle} \cup Trying \cup Holding \cup Booked]

(* The numbers form a sequence without gaps, however requests overlap: the *)
(* next one can be told from the largest alone.                            *)
NoGaps == \A i \in ids : \A j \in 1 .. i : j \in ids

(* Two requests never take their trades to be the same one.                *)
OwnTrade ==
  \A g, h \in Handler :
    booking[g].at = "booked" /\ booking[h].at = "booked" /\ booking[g].id = booking[h].id
      => g = h

(* A client is told that no number could be found only when MaxAttempts    *)
(* attempts were refused, each of them because another trade was booked    *)
(* while its request ran, or because the newest trade had no version in    *)
(* force: overlapping requests cannot starve it otherwise.                 *)
GiveUpJustified ==
  \A h \in Handler :
    booking[h].at = "gaveUp" =>
      booking[h].before + MaxAttempts <= Cardinality(ids) + booking[h].blind

(* The message of the 503, "please retry": once a request has given up,    *)
(* the next attempt would be handed a free number.  The code does not keep *)
(* this promise.                                                           *)
RetryHelps == \A h \in Handler : booking[h].at = "gaveUp" => NextId \notin ids
=============================================================================
