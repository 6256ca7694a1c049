SPECIFICATION FairBootSpec
CONSTANTS
  Servers = {s1, s2}
  Jobs = {job}
  AutoMigrating = {s1}
  Kids = {k1, k2, k3}
  None = None
  MaxAttempts = 2
  MaxDeletes = 1
INVARIANTS BootTypeOK KeysAgree
PROPERTIES AllComeUp
