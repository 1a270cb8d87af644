SPECIFICATION Spec
CONSTANTS
  Numeral <- MCNumeral
  UIntMax = 2097151
  LongMax = 1048575
  IntMax = 131071
  MaxLine = 12
  MaxSection = 3
  MaxName = 3
  LowerCase <- MCLowerCase
  Fractions <- MCFractions
  HexWords <- MCHexWords
  Kilo = 1024
  Starts <- MCStarts
INVARIANTS
  StartTypeOK
  OptionsAsMeant
  ErrorNamesFirstBadLine
  ParametersAsWritten
PROPERTIES
  InputConsumed
