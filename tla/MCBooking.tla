----------------------------- MODULE MCBooking ------------------------------
(* An instance of Booking for TLC.  Day 0 is a Monday, so day -3 is a      *)
(* Friday and days 5 and 6 are the weekend.                                *)
EXTENDS Booking, TLC

DealOf(t, v, c, i) == [tradeDate |-> t, valueDate |-> v, currency |-> c, instrument |-> i]

Deals ==
  LET pair == {"USD", "JPY"} IN
  {DealOf(-3, v, "USD", pair) : v \in {-3, 0, 1, 2, 3, 5}}  \* over a weekend; 3 is a holiday
  \cup {DealOf(0, v, "USD", pair) : v \in {1, 2, 8, 731}}   \* under T+2; over the maximum tenor
  \cup {DealOf(-2, 2, "USD", pair), DealOf(1, 4, "USD", pair)}  \* on a Saturday; not yet
  \cup {DealOf(-3, 3, "EUR", pair), DealOf(-3, 3, "XAU", {"XAU", "USD"}),
        DealOf(-3, 3, "USD", {"USD"})}  \* no match; no country; not a pair
MarketHolidays == [c \in {"USD", "JPY", "EUR", "XAU"} |-> IF c = "JPY" THEN {3} ELSE {}]

Symmetry == Permutations(Handler)
=============================================================================
