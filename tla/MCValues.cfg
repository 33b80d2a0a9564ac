SPECIFICATION Spec
CONSTANTS
    Bits = 5
    Mant = 3
    NaN = NaN
    Nobody = Nobody
    MaxDigits = 3
    Chars <- MCChars
    Spaces <- MCSpaces
    Items <- MCItems
    Longer <- MCLonger
    MaxText = 3
    MaxItems = 3
    MaxPos = 6
INVARIANTS DivisionExact ShiftsExact OrderTotal RoundingExact ForLimitExact DecimalsExact
    MatchPreferred FindLeftmost GsubTiles RangeInside
CHECK_DEADLOCK FALSE
