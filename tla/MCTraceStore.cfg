SPECIFICATION Spec
CONSTANTS
  t1 = t1
  t2 = t2
  run = run
  tool = tool
  chat = chat
  other = other
  None = None
  Spans = {run, tool, chat, other}
  Remote = {chat}
  Traces = {t1, t2}
  TraceOf <- TwoTraces
  ParentOf <- Nested
INVARIANTS
  ListedIffStored
  RootShown
  LastIsNewest
  TreeShown
CHECK_DEADLOCK FALSE
