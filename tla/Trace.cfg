SPECIFICATION Spec
CONSTANTS
  ann = ann
  bob = bob
  serv = serv
  c1 = c1
  shared = shared
  local = local
  Users = {ann, bob, serv}
  Channels = {c1}
  Hosts = {shared, local}
  Host <- MCHost
  Ages <- MCAges
  Internal = {serv}
  Ircops = {}
  Sopers = {bob}
  Protected = {local}
  Permanent = {}
  KlineTime = 2
  UIntRange = 10
  Commands <- MCCommands
  Missing = Missing
  NoChannel = NoChannel
INVARIANTS TypeOK OnlyKillsDangle
PROPERTY AtOnce
