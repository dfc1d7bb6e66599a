\* Every deal, booked, checked and amended over two days, by two requests that
\* overlap up to giving up, on trades that lose and regain a version in force.
CONSTANTS
  Handler = {h1, h2}
  MaxAttempts = 2
  Deal <- Deals
  HasCountry = {"USD", "JPY", "EUR"}
  Holidays <- MarketHolidays
  MaxId = 2
  MaxDay = 1
SYMMETRY Symmetry
SPECIFICATION Spec
INVARIANTS BookingTypeOK NoGaps OwnTrade GiveUpJustified TypeFollowsCalendar PassedSettles
