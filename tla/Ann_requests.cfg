SPECIFICATION Spec
CONSTANTS
  Accounts = {ann, bob}
  Names = {n1, n2}
  Texts = {t1, t2}
INVARIANTS TypeOK OneRequestPerName
PROPERTY OrphansHaveCauses
