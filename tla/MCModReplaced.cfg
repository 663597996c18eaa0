SPECIFICATION SpecMod
CONSTANTS
  prompt = prompt
  name = name
  mail = mail
  masking = masking
  typed = typed
  one = one
  two = two
  NoPolicy = NoPolicy
  Slots = {prompt}
  PromptsWait = TRUE
  MaxStarts = 2
  MaxEvents = 1
  Categories = {name, mail}
  Requests = {masking}
  Commands = {typed}
  MaxOthers = 2
  Calls = {one, two}
  Names = {name, mail}
  MaxSessions = 2
INVARIANT ReplacementsWait
CHECK_DEADLOCK FALSE
