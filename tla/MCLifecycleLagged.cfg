\* With a full channel a loop gets Lagged and ends.
CONSTANTS
  h1 = h1
  h2 = h2
  Handlers = {h1, h2}
  Cap = 1
  MaxStarts = 2
  MaxPublish = 2
  MaxHandlers = 2
SPECIFICATION FairSpec
PROPERTIES EventuallyReceived
