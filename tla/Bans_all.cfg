SPECIFICATION BansSpec
CONSTANTS
  Structs = {s1, s2}
  bad = bad
  good = good
  ipv6 = ipv6
  IPv4 <- Dotted
  Ips = {bad, good, ipv6}
  Blacklists = {drone, efnet}
  Listed <- OnlyBad
  Queries = {q1, q2}
  Exemptible = {bad}
  Channels = {trap}
  ConfAction = "kline"
SYMMETRY Symmetry
INVARIANTS TypeOK OneBanPerConnection
PROPERTIES OnlyStaleOrUnsetHurt
