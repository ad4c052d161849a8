SPECIFICATION Spec
CONSTANTS
  MaxAsks <- MCMaxAsks
  QueueBound = 2
INVARIANTS
  ConsentUnlessRaced
  ViewFollows
  ControlledTakesInput
CHECK_DEADLOCK FALSE
