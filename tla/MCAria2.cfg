CONSTANTS
  magnet = magnet
  url = url
  Jobs = {magnet, url}
  Bt = {magnet}
  Metalinks = {}
  Parts <- MCParts
  Swarmed = {url}
  Boots = {}
  MaxActive = 1
  MaxDaemons = 2
  MaxCrashes = 1
SPECIFICATION Spec
INVARIANT OkIsComplete
PROPERTIES CancelReturns ComesBack
CHECK_DEADLOCK FALSE
