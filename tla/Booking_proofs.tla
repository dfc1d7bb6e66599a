--------------------------- MODULE Booking_proofs ---------------------------
(***************************************************************************)
(* What booking guarantees for any number of requests and attempts, any    *)
(* deals and any days.  Numbering first: its proofs are about IdsSpec, and *)
(* every behaviour of Booking is one of IdsSpec.  Then what a row says of  *)
(* its trade: the Spot or Forward classification, for every pair of dates, *)
(* and the verdict of the FO check.                                        *)
(***************************************************************************)
EXTENDS Booking, FiniteSetTheorems, WellFoundedInduction, TLAPS

idsVars == <<ids, inForce, booking>>

(* The numbers in the table are 1 .. n for some n: the largest one is also *)
(* how many there are, so a number that was taken measures the bookings.   *)
Dense == \E n \in Nat : ids = 1 .. n

(* A request that has failed k times has seen k other trades booked since  *)
(* it arrived, less the attempts that were blind to the newest one.  It    *)
(* holds a number beyond all of those, unless its attempt was blind.       *)
OnTrack(w) ==
  /\ w.at = "allocate" =>
       w.failed < MaxAttempts /\ w.before + w.failed <= Cardinality(ids) + w.blind
  /\ w.at = "insert" =>
       /\ w.failed < MaxAttempts /\ w.id <= Cardinality(ids) + 1
       /\ \/ w.before + w.failed < w.id + w.blind
          \/ w.before + w.failed < Cardinality(ids) + w.blind
  /\ w.at = "gaveUp" => w.before + MaxAttempts <= Cardinality(ids) + w.blind
  /\ w.at = "booked" => w.id \in ids

Overtaken == \A h \in Handler : OnTrack(booking[h])

IdsInv == IdsTypeOK /\ Dense /\ Overtaken /\ OwnTrade

-----------------------------------------------------------------------------
LEMMA CardinalityOfDense ==
  ASSUME NEW n \in Nat, ids = 1 .. n
  PROVE  Cardinality(ids) = n
BY FS_Interval

(* The larger a number, the smaller the interval from it to the bound: the *)
(* strict subset ordering of finite sets, which is well founded, finds the *)
(* largest.                                                                *)
LEMMA BoundedSetHasMax ==
  ASSUME NEW n \in Nat, NEW S, S \subseteq 0 .. n, S # {}
  PROVE  \E m \in S : \A i \in S : i <= m
<1> DEFINE above == {i .. n : i \in S}
<1>1. above \subseteq FiniteSubsetsOf(0 .. n) /\ above # {}
  <2>1. \A i \in S : i .. n \subseteq 0 .. n /\ IsFiniteSet(i .. n)
    BY FS_Interval
  <2> QED BY <2>1 DEF FiniteSubsetsOf
<1>2. IsWellFoundedOn(StrictSubsetOrdering(0 .. n), FiniteSubsetsOf(0 .. n))
  BY FS_StrictSubsetOrderingWellFounded
<1> HIDE DEF above
<1>3. PICK x \in above : \A y \in above : <<y, x>> \notin StrictSubsetOrdering(0 .. n)
  BY <1>1, <1>2, WFMin, Zenon
<1>4. PICK m \in S : x = m .. n
  BY <1>3 DEF above
<1>5. ASSUME NEW i \in S, i > m
      PROVE  FALSE
  <2>1. i .. n \subseteq m .. n /\ m .. n \subseteq 0 .. n /\ i .. n # m .. n
    BY <1>5
  <2>2. <<i .. n, m .. n>> \in StrictSubsetOrdering(0 .. n)
    BY <2>1 DEF StrictSubsetOrdering
  <2>3. i .. n \in above
    BY DEF above
  <2> QED BY <1>3, <1>4, <2>2, <2>3
<1> QED BY <1>5

(* The number handed out is at most the first free one, and is that one if *)
(* the newest trade is in force.                                           *)
LEMMA NextIdOfDense ==
  ASSUME NEW n \in Nat, ids = 1 .. n, inForce \subseteq ids
  PROVE  /\ NextId \in 1 .. n + 1
         /\ NewestInForce => NextId = n + 1
<1>1. inForce \cup {0} \subseteq 0 .. n
  OBVIOUS
<1>3. \E m \in inForce \cup {0} : \A i \in inForce \cup {0} : i <= m
  BY <1>1, BoundedSetHasMax
<1>4. LargestId \in inForce \cup {0}
  BY <1>3 DEF LargestId
<1>5. LargestId \in 0 .. n /\ NextId = LargestId + 1
  BY <1>1, <1>4 DEF NextId
<1>6. NewestInForce => LargestId = n
  <2>1. n \in ids \/ n = 0
    OBVIOUS
  <2> QED BY <1>5, <2>1 DEF NewestInForce
<1> QED BY <1>5, <1>6

LEMMA IdsInitInv == IdsInit => IdsInv
<1> SUFFICES ASSUME IdsInit PROVE IdsInv
  OBVIOUS
<1>1. IdsTypeOK
  BY DEF IdsInit, IdsTypeOK
<1>2. Dense
  <2>1. ids = 1 .. 0
    BY DEF IdsInit
  <2> QED BY <2>1 DEF Dense
<1>3. Overtaken /\ OwnTrade
  BY DEF IdsInit, Overtaken, OnTrack, OwnTrade, Idle
<1> QED BY <1>1, <1>2, <1>3 DEF IdsInv

(* What a request's stage says about its record.                           *)
LEMMA Shape ==
  ASSUME IdsTypeOK, NEW h \in Handler
  PROVE  /\ booking[h].at \in {"allocate", "gaveUp"} => booking[h] \in Trying
         /\ booking[h].at = "insert" => booking[h] \in Holding
         /\ booking[h].at = "booked" => booking[h] \in Booked
BY DEF IdsTypeOK, Idle, Trying, Holding, Booked

(* A step that leaves the table alone and moves one request to a stage     *)
(* before the booking preserves the invariant if the request's new record  *)
(* is as far along as the table allows.                                    *)
LEMMA TableUnchanged ==
  ASSUME IdsInv, UNCHANGED <<ids, inForce>>, NEW h \in Handler, NEW w, SetBooking(h, w),
         w \in {Idle} \cup Trying \cup Holding, w.at # "booked", OnTrack(w)
  PROVE  IdsInv'
<1>1. booking' = [booking EXCEPT ![h] = w] /\ ids' = ids /\ inForce' = inForce
  BY DEF SetBooking
<1>2. IdsTypeOK'
  BY <1>1 DEF IdsInv, IdsTypeOK
<1>3. Dense'
  BY <1>1 DEF IdsInv, Dense
<1>4. booking'[h] = w /\ \A g \in Handler \ {h} : booking'[g] = booking[g]
  BY <1>1 DEF IdsInv, IdsTypeOK
<1>5. \A g \in Handler : OnTrack(booking'[g])
  BY <1>4 DEF IdsInv, Overtaken
<1>6. Overtaken'
  BY <1>1, <1>5 DEF Overtaken, OnTrack
<1>7. OwnTrade'
  BY <1>4 DEF IdsInv, OwnTrade
<1> QED BY <1>2, <1>3, <1>6, <1>7 DEF IdsInv

LEMMA IdsStepInv == IdsInv /\ [IdsNext]_idsVars => IdsInv'
<1> SUFFICES ASSUME IdsInv, [IdsNext]_idsVars PROVE IdsInv'
  OBVIOUS
<1> USE AttemptsAssumption
<1>0. PICK n \in Nat : ids = 1 .. n /\ Cardinality(ids) = n
  BY CardinalityOfDense DEF IdsInv, Dense
<1>1. CASE UNCHANGED idsVars
  BY <1>1 DEF idsVars, IdsInv, IdsTypeOK, Dense, Overtaken, OnTrack, OwnTrade
<1>2. ASSUME NEW h \in Handler, CreateRequest(h) PROVE IdsInv'
  <2> DEFINE w == [at |-> "allocate", before |-> Cardinality(ids), failed |-> 0, blind |-> 0]
  <2>1. w \in Trying
    BY <1>0 DEF Trying
  <2>2. OnTrack(w) /\ w.at # "booked"
    BY <1>0 DEF OnTrack
  <2>3. SetBooking(h, w) /\ UNCHANGED <<ids, inForce>>
    BY <1>2 DEF CreateRequest
  <2> HIDE DEF w
  <2> QED BY <2>1, <2>2, <2>3, TableUnchanged
<1>3. ASSUME NEW h \in Handler, Allocate(h) PROVE IdsInv'
  <2> DEFINE v == booking[h]
             seen == IF NewestInForce THEN v.blind ELSE v.blind + 1
             w == [at |-> "insert", before |-> v.before, failed |-> v.failed,
                   blind |-> seen, id |-> NextId]
  <2>1. v.at = "allocate" /\ v \in Trying
    BY <1>3, Shape DEF Allocate, IdsInv
  <2>2. NextId \in 1 .. n + 1 /\ (NewestInForce => NextId = n + 1)
    BY <1>0, NextIdOfDense DEF IdsInv, IdsTypeOK
  <2>3. v.failed < MaxAttempts /\ v.before + v.failed <= n + v.blind
    BY <1>0, <2>1 DEF IdsInv, Overtaken, OnTrack
  <2>4. /\ v.before \in Nat /\ v.failed \in Nat /\ v.blind \in Nat /\ seen \in Nat
        /\ NewestInForce => seen = v.blind
        /\ ~NewestInForce => seen = v.blind + 1
    BY <2>1 DEF Trying
  <2> HIDE DEF seen
  <2>5. w \in Holding
    BY <2>2, <2>4, <1>0 DEF Holding
  <2>6. OnTrack(w) /\ w.at # "booked"
    <3>1. /\ w.at = "insert" /\ w.id = NextId
          /\ w.before = v.before /\ w.failed = v.failed /\ w.blind = seen
      OBVIOUS
    <3> HIDE DEF v, w
    <3>2. NextId \in Nat /\ NextId <= n + 1
      BY <2>2
    <3>3. CASE NewestInForce
      <4>1. v.before + v.failed < NextId + seen
        BY <2>2, <2>3, <2>4, <3>3
      <4> QED BY <1>0, <2>3, <3>1, <3>2, <4>1 DEF OnTrack
    <3>4. CASE ~NewestInForce
      <4>1. v.before + v.failed < n + seen
        BY <2>3, <2>4, <3>4
      <4> QED BY <1>0, <2>3, <3>1, <3>2, <4>1 DEF OnTrack
    <3> QED BY <3>3, <3>4
  <2>7. SetBooking(h, w) /\ UNCHANGED <<ids, inForce>>
    BY <1>3 DEF Allocate, seen
  <2> HIDE DEF w
  <2> QED BY <2>5, <2>6, <2>7, TableUnchanged
<1>4. ASSUME NEW h \in Handler, Insert(h) PROVE IdsInv'
  <2> DEFINE id == booking[h].id
  <2>1. booking[h].at = "insert" /\ id \notin ids /\ id \in Nat \ {0} /\ id <= n + 1
    BY <1>0, <1>4, Shape DEF Insert, IdsInv, Overtaken, OnTrack, Holding
  <2>2. id = n + 1
    BY <1>0, <2>1
  <2>3. ids' = 1 .. n + 1
    BY <1>0, <1>4, <2>2 DEF Insert
  <2>4. Cardinality(ids') = n + 1
    BY <2>3, FS_Interval
  <2>5. /\ booking'[h] = [at |-> "booked", id |-> id]
        /\ \A g \in Handler \ {h} : booking'[g] = booking[g]
    BY <1>4 DEF Insert, SetBooking, IdsInv, IdsTypeOK
  <2>6. IdsTypeOK'
    <3>1. [at |-> "booked", id |-> id] \in Booked
      BY <2>1 DEF Booked
    <3>2. /\ booking' = [booking EXCEPT ![h] = [at |-> "booked", id |-> id]]
          /\ ids' = ids \cup {id} /\ inForce' = inForce \cup {id}
      BY <1>4 DEF Insert, SetBooking
    <3> HIDE DEF id
    <3>3. booking' \in [Handler -> {Idle} \cup Trying \cup Holding \cup Booked]
      BY <3>1, <3>2 DEF IdsInv, IdsTypeOK
    <3>4. ids' \in SUBSET (Nat \ {0}) /\ inForce' \subseteq ids'
      BY <2>1, <3>2 DEF IdsInv, IdsTypeOK
    <3> QED BY <3>3, <3>4 DEF IdsTypeOK
  <2>7. Dense'
    BY <2>3 DEF Dense
  <2>8. Overtaken'
    <3>1. ASSUME NEW g \in Handler \ {h}
          PROVE  OnTrack(booking[g])'
      <4>1. /\ booking[g].at \in {"allocate", "gaveUp"} => booking[g] \in Trying
            /\ booking[g].at = "insert" => booking[g] \in Holding
        BY <3>1, Shape DEF IdsInv
      <4>2. OnTrack(booking[g]) /\ booking'[g] = booking[g]
        BY <2>5 DEF IdsInv, Overtaken
      <4> HIDE DEF id
      <4> QED BY <1>0, <2>3, <2>4, <4>1, <4>2 DEF OnTrack, Trying, Holding
    <3>2. OnTrack(booking[h])'
      BY <2>2, <2>3, <2>5 DEF OnTrack
    <3> QED BY <3>1, <3>2 DEF Overtaken
  <2>9. OwnTrade'
    BY <2>1, <2>5 DEF IdsInv, OwnTrade, Overtaken, OnTrack
  <2> QED BY <2>6, <2>7, <2>8, <2>9 DEF IdsInv
<1>5. ASSUME NEW h \in Handler, InsertFails(h) PROVE IdsInv'
  <2> DEFINE v == booking[h]
             next == IF v.failed + 1 = MaxAttempts THEN "gaveUp" ELSE "allocate"
             w == [at |-> next, before |-> v.before, failed |-> v.failed + 1, blind |-> v.blind]
  <2>1. v.at = "insert" /\ v \in Holding /\ v.id \in ids
    BY <1>5, Shape DEF InsertFails, IdsInv
  <2>2. /\ v.before \in Nat /\ v.failed \in Nat /\ v.blind \in Nat /\ v.id \in 1 .. n
    BY <1>0, <2>1 DEF Holding
  <2>3. v.failed < MaxAttempts
        /\ (v.before + v.failed < v.id + v.blind \/ v.before + v.failed < n + v.blind)
    BY <1>0, <2>1 DEF IdsInv, Overtaken, OnTrack
  <2>4. v.before + v.failed + 1 <= n + v.blind
    BY <2>2, <2>3
  <2>5. /\ next \in {"gaveUp", "allocate"}
        /\ next = "gaveUp" => v.failed + 1 = MaxAttempts
        /\ next = "allocate" => v.failed + 1 # MaxAttempts
    OBVIOUS
  <2> HIDE DEF next
  <2>6. w \in Trying
    BY <2>2, <2>5 DEF Trying
  <2>7. OnTrack(w) /\ w.at # "booked"
    <3>1. /\ w.at = next /\ w.before = v.before
          /\ w.failed = v.failed + 1 /\ w.blind = v.blind
      OBVIOUS
    <3> HIDE DEF v, w
    <3>2. CASE next = "gaveUp"
      <4>1. v.before + MaxAttempts <= n + v.blind
        BY <2>2, <2>4, <2>5, <3>2
      <4> QED BY <1>0, <3>1, <3>2, <4>1 DEF OnTrack
    <3>3. CASE next = "allocate"
      <4>1. v.failed + 1 < MaxAttempts /\ v.before + (v.failed + 1) <= n + v.blind
        BY <2>2, <2>3, <2>4, <2>5, <3>3
      <4> QED BY <1>0, <3>1, <3>3, <4>1 DEF OnTrack
    <3> QED BY <2>5, <3>2, <3>3
  <2>8. SetBooking(h, w) /\ UNCHANGED <<ids, inForce>>
    BY <1>5 DEF InsertFails, next
  <2> HIDE DEF w
  <2> QED BY <2>6, <2>7, <2>8, TableUnchanged
<1>6. ASSUME NEW h \in Handler, GiveUp(h) \/ Answer(h) PROVE IdsInv'
  <2>1. SetBooking(h, Idle) /\ UNCHANGED <<ids, inForce>>
    BY <1>6 DEF GiveUp, Answer
  <2>2. Idle.at = "idle" /\ OnTrack(Idle)
    BY DEF Idle, OnTrack
  <2> QED BY <2>1, <2>2, TableUnchanged
<1>7. ASSUME NEW i \in ids, ActivateVersion(i) PROVE IdsInv'
  BY <1>7 DEF ActivateVersion, IdsInv, IdsTypeOK, Dense, Overtaken, OnTrack, OwnTrade
<1> QED BY <1>1, <1>2, <1>3, <1>4, <1>5, <1>6, <1>7 DEF IdsNext

(* The inductive invariant.                                                *)
THEOREM IdsInvariance == IdsSpec => []IdsInv
BY IdsInitInv, IdsStepInv, PTL DEF IdsSpec, idsVars

-----------------------------------------------------------------------------
(* The numbers of the trades and the requests in create_trade are well     *)
(* typed.                                                                  *)
THEOREM IdsTypeCorrect == IdsSpec => []IdsTypeOK
<1>1. IdsInv => IdsTypeOK
  BY DEF IdsInv
<1> QED BY <1>1, IdsInvariance, PTL

(* Trades are numbered without gaps, also when the newest one has no       *)
(* version in force.  (allocate_next_trade_id)                             *)
THEOREM NoGapsEver == IdsSpec => []NoGaps
<1>1. IdsInv => NoGaps
  BY DEF IdsInv, Dense, NoGaps
<1> QED BY <1>1, IdsInvariance, PTL

(* No two requests answer with the same trade.  (create_trade)             *)
THEOREM TradesAreOwned == IdsSpec => []OwnTrade
<1>1. IdsInv => OwnTrade
  BY DEF IdsInv
<1> QED BY <1>1, IdsInvariance, PTL

(* The answer 503 is given only after MaxAttempts attempts each of which   *)
(* another booking or a newest trade without a version in force explains,  *)
(* whatever the number of requests.  (create_trade)                        *)
THEOREM GivingUpHasReasons == IdsSpec => []GiveUpJustified
<1>1. IdsInv => GiveUpJustified
  BY DEF IdsInv, Overtaken, OnTrack, GiveUpJustified
<1> QED BY <1>1, IdsInvariance, PTL

(* While every trade has a version in force, as it has unless requests     *)
(* race (NoTradeLost in OneDecision_proofs), a request that gives up could  *)
(* be retried: the next attempt would find a free number.  (create_trade)  *)
THEOREM RetryHelpsWithoutLostTrades == IdsSpec /\ [](inForce = ids) => []RetryHelps
<1>1. IdsInv /\ inForce = ids => RetryHelps
  <2> SUFFICES ASSUME IdsInv, inForce = ids PROVE NextId \notin ids
    BY DEF RetryHelps
  <2>1. PICK n \in Nat : ids = 1 .. n
    BY DEF IdsInv, Dense
  <2>2. NextId \in Nat /\ \A i \in ids : i <= LargestId
    <3>1. inForce \cup {0} = 0 .. n
      BY <2>1
    <3>2. n \in inForce \cup {0} /\ \A i \in inForce : i <= n
      BY <2>1, <3>1
    <3>3. LargestId \in inForce \cup {0} /\ \A i \in inForce : i <= LargestId
      BY <3>2 DEF LargestId
    <3> QED BY <3>1, <3>3 DEF NextId
  <2>3. \A i \in ids : i < NextId
    BY <2>1, <2>2, NextIdOfDense DEF NextId, NewestInForce
  <2> QED BY <2>1, <2>2, <2>3
<1> QED BY <1>1, IdsInvariance, PTL

(* Booking adds rows, days and checks and takes nothing away: what is      *)
(* proved of the numbering holds of it.                                    *)
THEOREM BookingNumbersAlike == Spec => IdsSpec
<1>1. Init => IdsInit
  BY DEF Init
<1>2. [Next]_vars => [IdsNext]_idsVars
  <2> SUFFICES ASSUME [Next]_vars PROVE [IdsNext]_idsVars
    OBVIOUS
  <2>1. CASE UNCHANGED vars
    BY <2>1 DEF vars, idsVars
  <2>2. CASE \E h \in Handler : CreateRequest(h) \/ Allocate(h) \/ InsertFails(h) \/ GiveUp(h)
    BY <2>2 DEF IdsNext
  <2>3. CASE \E h \in Handler : InsertRow(h) \/ CheckAndAnswer(h)
    BY <2>3 DEF InsertRow, CheckAndAnswer, IdsNext
  <2>4. CASE Tomorrow \/ \E id \in 1 .. MaxId : FoCheckRequest(id)
    BY <2>4 DEF Tomorrow, FoCheckRequest, idsVars
  <2>5. CASE \E id \in 1 .. MaxId : Supersede(id)
    BY <2>5 DEF Supersede, ActivateVersion, IdsNext
  <2> QED BY <2>1, <2>2, <2>3, <2>4, <2>5 DEF Next
<1> QED BY <1>1, <1>2, PTL DEF Spec, IdsSpec, idsVars

-----------------------------------------------------------------------------
(* Spot or Forward.                                                        *)

(* The first three business days after a day.                              *)
LEMMA ThreeBusinessDays ==
  ASSUME NEW t \in Int
  PROVE  \E a, b, c \in 1 .. 5 :
           /\ a < b /\ b < c
           /\ \A d \in Int : t < d /\ d <= t + c => (~Weekend(d) <=> d \in {t + a, t + b, t + c})
<1> DEFINE P(a, b, c) ==
      /\ a < b /\ b < c
      /\ \A d \in Int : t < d /\ d <= t + c => (~Weekend(d) <=> d \in {t + a, t + b, t + c})
<1>1. t % 7 \in {0, 1, 2, 3, 4, 5, 6}
  OBVIOUS
<1>2. CASE t % 7 = 0
  <2>1. P(1, 2, 3)
    BY <1>2 DEF Weekend
  <2>2. QED
    BY <2>1
<1>3. CASE t % 7 = 1
  <2>1. P(1, 2, 3)
    BY <1>3 DEF Weekend
  <2>2. QED
    BY <2>1
<1>4. CASE t % 7 = 2
  <2>1. P(1, 2, 5)
    BY <1>4 DEF Weekend
  <2>2. QED
    BY <2>1
<1>5. CASE t % 7 = 3
  <2>1. P(1, 4, 5)
    BY <1>5 DEF Weekend
  <2>2. QED
    BY <2>1
<1>6. CASE t % 7 = 4
  <2>1. P(3, 4, 5)
    BY <1>6 DEF Weekend
  <2>2. QED
    BY <2>1
<1>7. CASE t % 7 = 5
  <2>1. P(2, 3, 4)
    BY <1>7 DEF Weekend
  <2>2. QED
    BY <2>1
<1>8. CASE t % 7 = 6
  <2>1. P(1, 2, 3)
    BY <1>8 DEF Weekend
  <2>2. QED
    BY <2>1
<1>9. QED
  BY <1>1, <1>2, <1>3, <1>4, <1>5, <1>6, <1>7, <1>8

LEMMA CardinalityThree ==
  ASSUME NEW x, NEW y, NEW z, x # y, y # z, x # z
  PROVE  /\ IsFiniteSet({x, y}) /\ Cardinality({x, y}) = 2
         /\ IsFiniteSet({x, y, z}) /\ Cardinality({x, y, z}) = 3
<1>1. IsFiniteSet({x}) /\ Cardinality({x}) = 1
  BY FS_Singleton
<1>2. IsFiniteSet({x} \cup {y}) /\ Cardinality({x} \cup {y}) = 2
  BY <1>1, FS_AddElement
<1>3. {x} \cup {y} = {x, y}
  OBVIOUS
<1>4. IsFiniteSet({x, y} \cup {z}) /\ Cardinality({x, y} \cup {z}) = 3
  BY <1>2, <1>3, FS_AddElement
<1>5. {x, y} \cup {z} = {x, y, z}
  OBVIOUS
<1>6. QED
  BY <1>2, <1>3, <1>4, <1>5

LEMMA DaysAreFinite ==
  ASSUME NEW t \in Int, NEW v \in Int
  PROVE  IsFiniteSet({d \in t + 1 .. v : ~Weekend(d)})
<1>1. IsFiniteSet(t + 1 .. v)
  BY FS_Interval
<1>2. {d \in t + 1 .. v : ~Weekend(d)} \subseteq t + 1 .. v
  OBVIOUS
<1>3. QED
  BY <1>1, <1>2, FS_Subset

(* calculate_trade_type says Forward from the third business day on, which *)
(* is the one the calendar shows, for all dates.                           *)
LEMMA ForwardFromThird ==
  ASSUME NEW t \in Int, NEW v \in Int
  PROVE  TradeType(t, v) = "Forward" <=> v >= ThirdBusinessDay(t)
<1> DEFINE S(u) == {d \in t + 1 .. u : ~Weekend(d)}
<1>1. PICK a \in 1 .. 5, b \in 1 .. 5, c \in 1 .. 5 :
        /\ a < b /\ b < c
        /\ \A d \in Int : t < d /\ d <= t + c => (~Weekend(d) <=> d \in {t + a, t + b, t + c})
  BY ThreeBusinessDays
<1>2. /\ Cardinality({t + a, t + b}) = 2 /\ IsFiniteSet({t + a, t + b})
      /\ Cardinality({t + a, t + b, t + c}) = 3
  <2>1. t + a # t + b /\ t + b # t + c /\ t + a # t + c
    BY <1>1
  <2>2. QED
    BY <2>1, CardinalityThree, Zenon
<1>3. \A u \in Int : IsFiniteSet(S(u)) /\ Cardinality(S(u)) \in Nat
  BY DaysAreFinite, FS_CardinalityType
<1>4. ASSUME NEW u \in Int, u >= t + c
      PROVE  Cardinality(S(u)) >= 3
  <2>1. {t + a, t + b, t + c} \subseteq S(u)
    BY <1>1, <1>4
  <2> HIDE DEF S
  <2>2. QED
    BY <1>2, <1>3, <2>1, FS_Subset
<1>5. ASSUME NEW u \in Int, u < t + c
      PROVE  Cardinality(S(u)) <= 2
  <2>1. S(u) \subseteq {t + a, t + b}
    BY <1>1, <1>5
  <2> HIDE DEF S
  <2>2. QED
    BY <1>2, <1>3, <2>1, FS_Subset
<1>6. ASSUME NEW u \in Int, u > t + c, ~Weekend(u)
      PROVE  Cardinality(S(u)) >= 4
  <2>1. S(t + c) \cup {u} \subseteq S(u) /\ u \notin S(t + c) /\ t + c \in Int
    BY <1>1, <1>6
  <2> HIDE DEF S
  <2>2. Cardinality(S(t + c) \cup {u}) = Cardinality(S(t + c)) + 1
    BY <1>3, <2>1, FS_AddElement
  <2>3. Cardinality(S(t + c) \cup {u}) <= Cardinality(S(u))
    BY <1>3, <1>6, <2>1, FS_Subset
  <2>4. Cardinality(S(t + c)) >= 3 /\ Cardinality(S(t + c)) \in Nat /\ Cardinality(S(u)) \in Nat
    BY <1>1, <1>3, <1>4, <1>6, <2>1
  <2>5. QED
    BY <2>2, <2>3, <2>4
<1>7. Cardinality(S(t + c)) = 3
  <2>1. S(t + c) = {t + a, t + b, t + c}
    BY <1>1
  <2>2. QED
    BY <1>2, <2>1
<1>8. ThirdBusinessDay(t) = t + c
  <2>1. \A e \in BusinessDaysAfter(t) : {f \in BusinessDaysAfter(t) : f <= e} = S(e)
    BY DEF BusinessDaysAfter
  <2>2. t + c \in BusinessDaysAfter(t)
    BY <1>1 DEF BusinessDaysAfter
  <2>3. ASSUME NEW e \in BusinessDaysAfter(t), Cardinality({f \in BusinessDaysAfter(t) : f <= e}) = 3
        PROVE  e = t + c
    <3>1. e \in Int /\ ~Weekend(e)
      BY DEF BusinessDaysAfter
    <3> HIDE DEF S
    <3>2. Cardinality(S(e)) = 3
      BY <2>1, <2>3
    <3>3. e < t + c \/ e > t + c \/ e = t + c
      BY <1>1, <3>1
    <3>4. QED
      BY <1>5, <1>6, <3>1, <3>2, <3>3
  <2>4. Cardinality({f \in BusinessDaysAfter(t) : f <= t + c}) = 3
    BY <1>7, <2>1, <2>2
  <2>5. QED
    BY <2>2, <2>3, <2>4 DEF ThirdBusinessDay
<1>9. CountBusinessDays(t, v) = Cardinality(S(v))
  BY DEF CountBusinessDays
<1> HIDE DEF S
<1>10. CountBusinessDays(t, v) > 2 <=> v >= t + c
  BY <1>1, <1>3, <1>4, <1>5, <1>9
<1>11. QED
  BY <1>8, <1>10 DEF TradeType

-----------------------------------------------------------------------------
(* The verdict of the FO check.                                            *)

(* The seven rules whose failure is an error.                              *)
LEMMA ErrorRules ==
  ASSUME NEW tr, NEW day
  PROVE  FailedFoRules(tr, day) \subseteq FoWarning <=>
           /\ ~(tr.tradeDate > tr.inputDate) /\ ~Weekend(tr.tradeDate)
           /\ ~(tr.valueDate <= tr.tradeDate) /\ ~Weekend(tr.valueDate)
           /\ ~(tr.valueDate < day) /\ ~(tr.amount <= 0)
           /\ ~(tr.settlement \notin tr.instrument)
<1> DEFINE fails ==
      [trade_date_not_future           |-> tr.tradeDate > tr.inputDate,
       trade_date_not_weekend          |-> Weekend(tr.tradeDate),
       value_date_after_trade_date     |-> tr.valueDate <= tr.tradeDate,
       value_date_not_weekend          |-> Weekend(tr.valueDate),
       value_date_not_past             |-> tr.valueDate < day,
       value_date_settlement_cycle     |-> tr.valueDate < tr.tradeDate + 2,
       value_date_within_max_tenor     |-> tr.valueDate > tr.tradeDate + MaxSettlementTenorDays,
       amount_positive                 |-> tr.amount <= 0,
       settlement_currency_consistency |-> tr.settlement \notin tr.instrument]
<1>1. DOMAIN fails =
        {"trade_date_not_future", "trade_date_not_weekend", "value_date_after_trade_date",
         "value_date_not_weekend", "value_date_not_past", "value_date_settlement_cycle",
         "value_date_within_max_tenor", "amount_positive", "settlement_currency_consistency"}
  OBVIOUS
<1>2. FailedFoRules(tr, day) = {rule \in DOMAIN fails : fails[rule]}
  BY DEF FailedFoRules
<1>3. FailedFoRules(tr, day) \subseteq FoWarning <=>
        \A rule \in DOMAIN fails \ FoWarning : ~fails[rule]
  BY <1>2
<1>4. DOMAIN fails \ FoWarning =
        {"trade_date_not_future", "trade_date_not_weekend", "value_date_after_trade_date",
         "value_date_not_weekend", "value_date_not_past", "amount_positive",
         "settlement_currency_consistency"}
  BY <1>1 DEF FoWarning
<1>5. /\ fails["trade_date_not_future"] = (tr.tradeDate > tr.inputDate)
      /\ fails["trade_date_not_weekend"] = Weekend(tr.tradeDate)
      /\ fails["value_date_after_trade_date"] = (tr.valueDate <= tr.tradeDate)
      /\ fails["value_date_not_weekend"] = Weekend(tr.valueDate)
      /\ fails["value_date_not_past"] = (tr.valueDate < day)
      /\ fails["amount_positive"] = (tr.amount <= 0)
      /\ fails["settlement_currency_consistency"] = (tr.settlement \notin tr.instrument)
  OBVIOUS
<1> HIDE DEF fails
<1>6. QED
  BY <1>3, <1>4, <1>5

(* What the stored calendar rule says.                                     *)
LEMMA CalendarSays ==
  ASSUME NEW tr, NEW answer \in CalendarAnswers(tr, HasCountry, Holidays)
  PROVE  /\ answer \in {"open", "closed", "unknown"}
         /\ answer = "open" =>
              ~Weekend(tr.valueDate) /\ \A c \in tr.instrument : tr.valueDate \notin Holidays[c]
         /\ answer = "closed" =>
              Weekend(tr.valueDate) \/ \E c \in tr.instrument : tr.valueDate \in Holidays[c]
BY DEF CalendarAnswers, CalendarStatus

(* What is stored is the type of the deal, and the verdict says whether it *)
(* could settle when it was checked.                                       *)
RowSays(id) ==
  /\ rows[id] \in TradeRow
  /\ rows[id].type = TradeType(deal.tradeDate, deal.valueDate)
  /\ rows[id].results # NotChecked => (rows[id].results.verdict = "passed" <=> Settles(id))

(* A number within the bound is held by a request at its insert.           *)
WithinBound ==
  /\ ids \subseteq 1 .. MaxId
  /\ \A h \in Handler : booking[h].at = "insert" => booking[h].id <= MaxId

BookingInv ==
  /\ BookingTypeOK
  /\ WithinBound
  /\ \A id \in ids : RowSays(id)

(* run_fo_check stores what it has found.                                  *)
LEMMA FoCheckSays ==
  ASSUME BookingInv, NEW id \in ids, FoCheck(id), UNCHANGED <<deal, today>>
  PROVE  rows' \in [1 .. MaxId -> TradeRow \cup {NoTrade}] /\ \A i \in ids : RowSays(i)'
<1>a. /\ deal \in Deal /\ today \in 0 .. MaxDay /\ MaxDay \in Nat
      /\ deal.tradeDate \in Int /\ deal.valueDate \in Int
      /\ id \in 1 .. MaxId /\ rows \in [1 .. MaxId -> TradeRow \cup {NoTrade}]
      /\ RowSays(id) /\ rows[id] \in TradeRow
  BY BookingAssumption DEF BookingInv, BookingTypeOK, WithinBound, RowSays
<1> DEFINE tr == Trade(id)
           passes(answer) == FoCheckPasses(FailedFoRules(tr, today), answer)
           results(answer) == [verdict |-> IF passes(answer) THEN "passed" ELSE "failed",
                               calendar |-> answer, day |-> today]
<1>1. PICK answer \in CalendarAnswers(tr, HasCountry, Holidays) :
        rows' = [rows EXCEPT ![id].results = results(answer)]
  BY DEF FoCheck
<1>2. answer \in {"open", "closed", "unknown"}
  BY CalendarSays
<1> DEFINE new == results(answer)
<1>3. /\ new \in FoResults /\ new # NotChecked
      /\ new.day = today /\ new.calendar = answer
      /\ new.verdict = "passed" <=> passes(answer)
  BY <1>a, <1>2 DEF FoResults, NotChecked
<1> HIDE DEF new, passes
<1>4. rows' = [rows EXCEPT ![id].results = new]
  BY <1>1 DEF new
<1>5. /\ rows'[id] \in TradeRow
      /\ rows'[id].type = rows[id].type /\ rows'[id].inputDate = rows[id].inputDate
      /\ rows'[id].results = new
      /\ \A i \in 1 .. MaxId \ {id} : rows'[i] = rows[i]
  BY <1>a, <1>3, <1>4 DEF TradeRow
<1>6. rows' \in [1 .. MaxId -> TradeRow \cup {NoTrade}]
  <2>1. rows' = [rows EXCEPT ![id] = rows'[id]]
    BY <1>a, <1>4
  <2>2. QED
    BY <1>a, <1>5, <2>1
<1>7. passes(answer) <=> Settles(id)'
  <2>1. /\ tr.tradeDate = deal.tradeDate /\ tr.valueDate = deal.valueDate
        /\ tr.inputDate = rows[id].inputDate /\ tr.amount = 1
        /\ tr.settlement = deal.currency /\ tr.instrument = deal.instrument
    BY DEF Trade
  <2>2. rows[id].inputDate \in Int /\ today \in Int
    BY <1>a DEF TradeRow
  <2> HIDE DEF tr
  <2>3. FailedFoRules(tr, today) \subseteq FoWarning <=>
          /\ deal.tradeDate <= rows[id].inputDate /\ ~Weekend(deal.tradeDate)
          /\ deal.tradeDate < deal.valueDate /\ ~Weekend(deal.valueDate)
          /\ today <= deal.valueDate /\ deal.currency \in deal.instrument
    BY <1>a, <2>1, <2>2, ErrorRules
  <2>4. /\ answer = "open" =>
             ~Weekend(deal.valueDate) /\ \A c \in deal.instrument : deal.valueDate \notin Holidays[c]
        /\ answer = "closed" =>
             Weekend(deal.valueDate) \/ \E c \in deal.instrument : deal.valueDate \in Holidays[c]
    BY <2>1, CalendarSays
  <2>5. Settles(id)' <=>
          /\ deal.currency \in deal.instrument
          /\ ~Weekend(deal.tradeDate) /\ ~Weekend(deal.valueDate)
          /\ deal.tradeDate <= rows[id].inputDate
          /\ deal.tradeDate < deal.valueDate /\ today <= deal.valueDate
          /\ \/ answer = "unknown"
             \/ \A c \in deal.instrument : deal.valueDate \notin Holidays[c]
    BY <1>3, <1>5 DEF Settles
  <2>6. passes(answer) <=> FailedFoRules(tr, today) \subseteq FoWarning /\ answer # "closed"
    BY DEF passes, FoCheckPasses
  <2>7. QED
    BY <1>2, <2>3, <2>4, <2>5, <2>6
<1>8. RowSays(id)'
  BY <1>a, <1>3, <1>5, <1>7 DEF RowSays
<1>9. ASSUME NEW i \in ids, i # id
      PROVE  RowSays(i)'
  <2>1. rows'[i] = rows[i] /\ RowSays(i)
    BY <1>5, <1>9 DEF BookingInv, WithinBound
  <2>2. Settles(i)' <=> Settles(i)
    BY <2>1 DEF Settles
  <2>3. QED
    BY <2>1, <2>2 DEF RowSays
<1>10. QED
  BY <1>6, <1>8, <1>9

(* The invariant depends on the tables alone.                              *)
LEMMA RowsStay ==
  ASSUME BookingInv, UNCHANGED <<deal, rows>>
  PROVE  \A id \in ids : RowSays(id)'
<1>1. \A id : Settles(id)' <=> Settles(id)
  BY DEF Settles
<1>2. QED
  BY <1>1 DEF BookingInv, RowSays

LEMMA BookingStep ==
  ASSUME IdsInv, IdsInv', BookingInv, [Next]_vars
  PROVE  BookingInv'
<1>a. /\ IdsTypeOK /\ IdsTypeOK'
      /\ deal \in Deal /\ today \in 0 .. MaxDay
      /\ rows \in [1 .. MaxId -> TradeRow \cup {NoTrade}]
      /\ WithinBound /\ \A id \in ids : RowSays(id)
  BY DEF IdsInv, BookingInv, BookingTypeOK
<1>1. ASSUME NEW h \in Handler, CreateRequest(h) \/ InsertFails(h) \/ GiveUp(h) \/ Answer(h)
      PROVE  WithinBound' /\ ids' = ids
  <2>1. /\ ids' = ids /\ booking'[h].at # "insert"
        /\ \A g \in Handler \ {h} : booking'[g] = booking[g]
    BY <1>1, <1>a DEF CreateRequest, InsertFails, GiveUp, Answer, SetBooking, IdsTypeOK, Idle
  <2>2. QED
    BY <1>a, <2>1 DEF WithinBound
<1>2. ASSUME NEW h \in Handler, Allocate(h), NextId <= MaxId
      PROVE  WithinBound' /\ ids' = ids
  <2>1. /\ ids' = ids /\ booking'[h].id = NextId
        /\ \A g \in Handler \ {h} : booking'[g] = booking[g]
    BY <1>2, <1>a DEF Allocate, SetBooking, IdsTypeOK
  <2>2. QED
    BY <1>2, <1>a, <2>1 DEF WithinBound
<1>3. ASSUME ids' = ids, WithinBound', UNCHANGED <<deal, rows>>, today' \in 0 .. MaxDay
      PROVE  BookingInv'
  BY <1>3, <1>a, RowsStay DEF BookingInv, BookingTypeOK
<1>4. CASE UNCHANGED vars
  BY <1>3, <1>4, <1>a DEF vars, WithinBound
<1>5. ASSUME NEW h \in Handler,
             \/ CreateRequest(h) \/ InsertFails(h) \/ GiveUp(h)
             \/ Allocate(h) /\ NextId <= MaxId,
             UNCHANGED <<deal, today, rows>>
      PROVE  BookingInv'
  BY <1>1, <1>2, <1>3, <1>5, <1>a
<1>6. ASSUME NEW h \in Handler, InsertRow(h)
      PROVE  BookingInv'
  <2> DEFINE id == booking[h].id
             row == [type |-> TradeType(deal.tradeDate, deal.valueDate),
                     inputDate |-> today, results |-> NotChecked, superseded |-> FALSE]
  <2>1. /\ booking[h].at = "insert" /\ id \notin ids /\ ids' = ids \cup {id}
        /\ rows' = [rows EXCEPT ![id] = row] /\ UNCHANGED <<deal, today>>
        /\ SetBooking(h, [at |-> "booked", id |-> id])
    BY <1>6 DEF InsertRow, Insert
  <2>2. id \in 1 .. MaxId
    BY <1>a, <2>1, Shape, BookingAssumption DEF WithinBound, Holding
  <2>3. row \in TradeRow /\ row.type = TradeType(deal.tradeDate, deal.valueDate)
        /\ row.results = NotChecked
    BY <1>a DEF TradeRow, FoResults, TradeType
  <2>4. booking'[h].at = "booked" /\ \A g \in Handler \ {h} : booking'[g] = booking[g]
    BY <1>a, <2>1 DEF SetBooking, IdsTypeOK
  <2> HIDE DEF id, row
  <2>5. rows' \in [1 .. MaxId -> TradeRow \cup {NoTrade}]
    BY <1>a, <2>1, <2>3
  <2>6. WithinBound'
    BY <1>a, <2>1, <2>2, <2>4 DEF WithinBound
  <2>7. rows'[id] = row /\ \A i \in 1 .. MaxId \ {id} : rows'[i] = rows[i]
    BY <1>a, <2>1, <2>2
  <2>8. ASSUME NEW i \in ids'
        PROVE  RowSays(i)'
    <3>1. CASE i = id
      BY <2>1, <2>3, <2>7, <3>1 DEF RowSays
    <3>2. CASE i # id
      <4>1. i \in ids /\ rows'[i] = rows[i] /\ RowSays(i)
        BY <1>a, <2>1, <2>7, <3>2 DEF WithinBound
      <4>2. Settles(i)' <=> Settles(i)
        BY <2>1, <4>1 DEF Settles
      <4>3. QED
        BY <2>1, <4>1, <4>2 DEF RowSays
    <3>3. QED
      BY <3>1, <3>2
  <2>9. QED
    BY <1>a, <2>1, <2>5, <2>6, <2>8 DEF BookingInv, BookingTypeOK
<1>7. ASSUME NEW h \in Handler, CheckAndAnswer(h)
      PROVE  BookingInv'
  <2>1. WithinBound' /\ ids' = ids /\ UNCHANGED <<deal, today>>
    BY <1>1, <1>7 DEF CheckAndAnswer
  <2>2. booking[h].id \in ids
    BY <1>7 DEF CheckAndAnswer, Answer, IdsInv, Overtaken, OnTrack
  <2>3. CASE FoCheck(booking[h].id)
    BY <1>a, <2>1, <2>2, <2>3, FoCheckSays DEF BookingInv, BookingTypeOK
  <2>4. CASE UNCHANGED rows
    BY <1>3, <1>a, <2>1, <2>4
  <2>5. QED
    BY <1>7, <2>3, <2>4 DEF CheckAndAnswer
<1>8. ASSUME NEW id \in 1 .. MaxId, FoCheckRequest(id)
      PROVE  BookingInv'
  <2>1. id \in ids /\ FoCheck(id) /\ UNCHANGED <<ids, inForce, booking, deal, today>>
    BY <1>8 DEF FoCheckRequest
  <2>2. WithinBound'
    BY <1>a, <2>1 DEF WithinBound
  <2>3. QED
    BY <1>a, <2>1, <2>2, FoCheckSays DEF BookingInv, BookingTypeOK
<1>s. ASSUME NEW id \in 1 .. MaxId, Supersede(id)
      PROVE  BookingInv'
  <2>1. /\ id \in ids /\ UNCHANGED <<ids, booking, deal, today>>
        /\ rows' = [rows EXCEPT ![id].superseded = TRUE]
    BY <1>s DEF Supersede, ActivateVersion
  <2>2. rows[id] \in TradeRow
    BY <1>a, <2>1 DEF RowSays
  <2>3. /\ rows'[id] \in TradeRow /\ rows'[id].type = rows[id].type
        /\ rows'[id].inputDate = rows[id].inputDate /\ rows'[id].results = rows[id].results
        /\ \A i \in 1 .. MaxId \ {id} : rows'[i] = rows[i]
    BY <1>a, <2>1, <2>2 DEF TradeRow
  <2>4. rows' \in [1 .. MaxId -> TradeRow \cup {NoTrade}]
    <3>1. rows' = [rows EXCEPT ![id] = rows'[id]]
      BY <1>a, <2>1
    <3>2. QED
      BY <1>a, <2>3, <3>1
  <2>5. WithinBound'
    BY <1>a, <2>1 DEF WithinBound
  <2>6. ASSUME NEW i \in ids
        PROVE  RowSays(i)'
    <3>1. /\ rows'[i].type = rows[i].type /\ rows'[i].results = rows[i].results
          /\ rows'[i].inputDate = rows[i].inputDate /\ rows'[i] \in TradeRow /\ RowSays(i)
      BY <1>a, <2>3 DEF RowSays, WithinBound
    <3>2. Settles(i)' <=> Settles(i)
      BY <2>1, <3>1 DEF Settles
    <3>3. QED
      BY <2>1, <3>1, <3>2 DEF RowSays
  <2>7. QED
    BY <1>a, <2>1, <2>4, <2>5, <2>6 DEF BookingInv, BookingTypeOK
<1>9. CASE Tomorrow
  <2>1. today' \in 0 .. MaxDay
    BY <1>9, <1>a, BookingAssumption DEF Tomorrow
  <2>2. QED
    BY <1>3, <1>9, <1>a, <2>1 DEF Tomorrow, WithinBound
<1>10. QED
  BY <1>4, <1>5, <1>6, <1>7, <1>8, <1>s, <1>9 DEF Next

LEMMA BookingInit == Init => BookingInv
<1> SUFFICES ASSUME Init PROVE BookingInv
  OBVIOUS
<1>1. IdsTypeOK
  BY IdsInitInv DEF Init, IdsInv
<1>2. QED
  BY <1>1, BookingAssumption
  DEF Init, IdsInit, BookingInv, BookingTypeOK, WithinBound, Idle

(* The inductive invariant of booking, given that of the numbering.        *)
THEOREM BookingInvariance == Spec => []BookingInv
<1>1. Spec => []IdsInv
  BY IdsInvariance, BookingNumbersAlike, PTL
<1>2. IdsInv /\ IdsInv' /\ BookingInv /\ [Next]_vars => BookingInv'
  BY BookingStep
<1>3. QED
  BY <1>1, <1>2, BookingInit, PTL DEF Spec

(* Numbers, requests, rows and check results are well typed.               *)
THEOREM BookingTypeCorrect == Spec => []BookingTypeOK
<1>1. BookingInv => BookingTypeOK
  BY DEF BookingInv
<1>2. QED
  BY <1>1, BookingInvariance, PTL

(* A trade is a Forward just when it settles on or after the third         *)
(* business day after its trade date, for every pair of dates.             *)
(* (calculate_trade_type)                                                  *)
THEOREM TypesFollowCalendar == Spec => []TypeFollowsCalendar
<1>1. BookingInv => TypeFollowsCalendar
  <2> SUFFICES ASSUME BookingInv, NEW id \in ids
               PROVE  rows[id].type = "Forward" <=> deal.valueDate >= ThirdBusinessDay(deal.tradeDate)
    BY DEF TypeFollowsCalendar
  <2>1. rows[id].type = TradeType(deal.tradeDate, deal.valueDate)
        /\ deal.tradeDate \in Int /\ deal.valueDate \in Int
    BY BookingAssumption DEF BookingInv, BookingTypeOK, RowSays
  <2>2. QED
    BY <2>1, ForwardFromThird
<1>2. QED
  BY <1>1, BookingInvariance, PTL

(* The FO check passes just the trades that could settle on the day they   *)
(* were checked, for every deal, calendar and set of holidays.             *)
(* (run_fo_check)                                                          *)
THEOREM PassedTradesSettle == Spec => []PassedSettles
<1>1. BookingInv => PassedSettles
  BY DEF BookingInv, RowSays, PassedSettles
<1>2. QED
  BY <1>1, BookingInvariance, PTL
=============================================================================
