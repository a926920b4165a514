\* Integers of eleven bits; what users type, right and wrong.
CONSTANTS
  IntSize = 2048
  Lines <- LinesOfAll
  Times <- SomeTimes
  Dates <- SomeDates
  Numbers <- AllNumbers
  Phrases <- AllPhrases
  Delimiters = {" ", ","}
SPECIFICATION Spec
INVARIANTS
  TypeOK
  PrintedReadsBack
  ShownSetsItself
  DigitSetsPriority
  TokensAreWords
PROPERTIES
  CommandByName
