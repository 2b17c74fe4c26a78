\* All numbers of five bits in six formats, and values of seven types, two of them
\* written one over the other in an array and over what it held before.
SPECIFICATION Spec
CONSTANTS
  Word = 32
  Format <- FormatSix
  Size = 6
  Held <- HeldThree
  StrSize = 3
  Modulus <- ModulusSmall
  Given <- GivenSome
  Nothing = Nothing
  MaxTexts = 2
INVARIANTS
  ReadsBack
  ValuesComeBack
PROPERTY
  StaysInArray
CHECK_DEADLOCK FALSE
