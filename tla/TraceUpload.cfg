CONSTANTS
  root = root
  step = step
  call = call
  on_time = on_time
  behind = behind
  Root = root
  Spans = {step}
  ParentOf <- MCParentOf
  Inner <- MCInner
  Hosts = {on_time, behind}
  ClockOf <- MCClockOf
  Starter = on_time
  MaxEnds = 2
SPECIFICATION TraceFairSpec
INVARIANTS ShowsTheWorkflow
PROPERTIES DeletedOnlyWhenShown NothingLeftInRedis
CHECK_DEADLOCK FALSE
