\* Every item of a few thousand alone, and the pairs of a few of each kind.
SPECIFICATION Spec
CONSTANTS
  Sentences <- Short
INVARIANTS
  NoFigureIsLeft
  ItemsAreUnderstood
  ItemsDoNotMix
\* When all the rules are applied, the text is ready.
CHECK_DEADLOCK FALSE
