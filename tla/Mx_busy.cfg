SPECIFICATION FairSpec
CONSTANTS
  Accounts = {ann, bob}
  Emails = {mail1, mail2}
  MaxChildprocs = 3
  Pids = {p1, p2, p3, p4}
INVARIANTS TypeOK SlotsAgree
PROPERTIES RefusalsEnd OnlyMisfilingHurts
