CONSTANTS
  HoursPerDay = 3
  MinutesPerHour = 3
  Digit = {0, 1, 2}
  CountryCode <- MCCountryCode
  NationalLength = 4
  MinDigits = 5
  MaxDigits = 8
  MaxLength = 6
SPECIFICATION InputSpec
INVARIANT NextWindowEndIsFirstFreeMinute
INVARIANT SwappedWindowIsComplement
INVARIANT AllWritingsAgree
CHECK_DEADLOCK FALSE
