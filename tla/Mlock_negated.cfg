SPECIFICATION Spec
CONSTANTS
  FdLimit = 8
  MaxCommands = 2
  Sources = {s1, s2}
  Requests = {q1, q2, q3, q4}
  ChannelNames <- MCChannelNames
  MaxLength = 9
  Patterns = {p1, p2}
  Nicks = {n1, n2}
  FreezeExpire = 2
  Names <- MCNames
  Clean <- MCClean
  Base <- MCBase
  Number <- MCNumber
  Modulus = 3
  MaxEpochs = 3
  Conns = {c1}
  Web = web
  Emails = {good, dead}
  Undeliverable = {dead}
  Mechanisms = {m1, m2}
  HookOrder <- MCHookOrder
  MaxUnloaded = 1
  Tweaks <- MCTweaks
  Statuses <- MCStatuses
  FlagSets <- MCFlagSets
PROPERTY NegatedIsNotLocked
CHECK_DEADLOCK FALSE
