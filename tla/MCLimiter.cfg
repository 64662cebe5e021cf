\* The uploads of a job and the replies of the bot in one chat.
CONSTANTS
  Callers = {"stage", "reply"}
  Uploaders = {"stage"}
  Careless = {"reply"}
  Chats = {"chat"}
  Active = {}
  Slot = 0
  Gap = 1
  UploadGap = 2
  Window = 3
  MaxCalls = 2
  Stale = 3
  Penalties = {1, 3}
  MaxFloods = 2
  Objects = 2
SPECIFICATION Spec
PROPERTIES CallsPaced FloodKept UploadsSpaced
CHECK_DEADLOCK FALSE
