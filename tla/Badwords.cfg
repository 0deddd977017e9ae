SPECIFICATION Spec
CONSTANTS
  Channels = {c1, c2}
  Words = {w1, w2}
  Actions = {"KICK", "QUIET"}
  Founders = {c1}
  Givers <- MCGivers
  Reasons <- MCReasons
  MaxWords = 3
SYMMETRY Symmetry
INVARIANTS TypeOK OnlyExemptsKeepServicesDown
PROPERTY VerdictsSurviveRestart
