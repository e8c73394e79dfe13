CONSTANTS
  MaxCaptures = 2
  Bytes = {"a", "b", "1", "2", "3", "4"}
  MatchFrom <- MCMatchFrom
  Numeral <- MCNumeral
  Subjects <- AllSubjects
  Patterns <- AllPatterns
  Templates <- AllTemplates
  Texts <- AllTexts
  Inits <- AllInits
  Limits <- AllLimits
SPECIFICATION MCSpec
CHECK_DEADLOCK FALSE
INVARIANTS MatcherAgrees ScansAgree PackAgrees
PROPERTY MovesOn
