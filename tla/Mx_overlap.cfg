SPECIFICATION Spec
CONSTANTS
  Accounts = {ann, bob, cid}
  Emails = {mail1, mail2}
  MaxChildprocs = 2
  Pids = {p1, p2, p3}
PROPERTY VerdictsFallOnTheirOwn
