\* Node lifecycle and event bus; start, publish and handler calls are bounded, so the system stops.
CONSTANTS
  h1 = h1
  h2 = h2
  Handlers = {h1, h2}
  Cap = 3
  MaxStarts = 2
  MaxPublish = 1
  MaxHandlers = 2
SPECIFICATION Spec
INVARIANTS TypeOK RunningImpliesEngineInitialized
