SPECIFICATION FairRoutingSpec
CONSTANTS
  Length = 3
  L0 = 10
  Delta = 3
  React = 1
  MaxHeight = 14
CHECK_DEADLOCK FALSE
INVARIANT OutgoingSettlesFirst
INVARIANT AllOrNothing
PROPERTY PathSettles
