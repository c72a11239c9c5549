CONSTANTS
  Hooks = {h1, h2}
  OnError = onError
  MaxFailures = 3
SPECIFICATION FairSpec
INVARIANTS ShutsDownInOrder ZeroMeansDrained
PROPERTIES NoStartOnceAborted AbortEndsProcess
