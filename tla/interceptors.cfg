SPECIFICATION Spec
CONSTANTS
  n1 = n1
  n2 = n2
  u1 = u1
  u2 = u2
  a1 = a1
  a2 = a2
  k1 = k1
  Tokens <- TwoTokens
  Users <- OneUser
  Agents <- TwoAgents
  Lockers <- OneLocker
  Ledger = Ledger
  Vault = Vault
  Pool = Pool
  Receiver = Receiver
  Nobody = Nobody
SYMMETRY Symmetry
INVARIANTS
  TypeOK
  Custody
  CheckedStateHolds
PROPERTIES
  AuctionedForLockersOnly
  EveryInterceptorIsAsked
CHECK_DEADLOCK FALSE
