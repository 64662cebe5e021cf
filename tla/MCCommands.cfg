CONSTANTS
  Users = {"ann", "bob"}
  AllHosts = {"gofile", "pixeldrain", "fileditch"}
  SmallHosts = {"pixeldrain"}
  KeyedHosts = {"fileditch"}
  MirrorHosts = {"gofile", "pixeldrain"}
  Retries = 1
  AllowShared <- MCEither
  UseServiceAccts <- MCEither
  SharedFiles = {"token", "cookies"}
  Scenes <- MCScenes
  MaxRequests = 3
SPECIFICATION CommandsSpec
INVARIANTS ServedAsAsked GoesWhereAsked OwnAccounts
PROPERTIES RequestEnds
