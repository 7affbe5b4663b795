SPECIFICATION Spec
CONSTANTS
  Width = 8
  MaxFields = 5
  MaxHops = 3
  MaxScans = 2
  MaxJunk = 5
  MaxLine = 8
  MaxValue = 6
  UnaryTrue <- MCUnaryTrue
  BinaryTrue <- MCBinaryTrue
  Numbers <- MCNumbers
  GlobMatches <- MCGlobMatches
  RegexMatches <- MCRegexMatches
  BadRegexes <- MCBadRegexes
  Directory <- MCDirectory
  Assoc <- MCAssoc
  Specials <- MCSpecials
  Scripts <- MCScripts
  WordForms <- MCWordForms
  ArithTrees <- MCArithTrees
  TestTrees <- MCTestTrees
  ArgLists <- MCArgLists
INVARIANTS FieldsExact ParametersExact ArithmeticAgrees ConditionsAgree OptionsOnce
CHECK_DEADLOCK FALSE
