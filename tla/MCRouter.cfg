SPECIFICATION FairSpec
CONSTANTS
  Requests = {r1}
  Names = {mock, big, small, absent}
  Usable = {mock, big, small}
  Mocks = {mock}
  Weights <- SomeWeights
  Prompts <- SomePrompts
  MaxRoute = 3
  Logical = big
INVARIANTS
  FallbackOrder
  ErrorMeansAllFailed
  SpansTellStory
PROPERTIES
  CallsReturn
CHECK_DEADLOCK FALSE
