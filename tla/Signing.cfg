SPECIFICATION ClientSpec
CONSTANTS
  ADDRESS_LEN = 1
  CHAIN_PAD = 1
  Zones <- MCZones
  Chains <- MCChains
  Accounts <- MCAccounts
  Contracts <- MCContracts
  CtHashes <- MCCtHashes
  Lists <- MCLists
  NotHex = NotHex
  MaxSigned = 2
  a = a
  b = b
  k1 = k1
  k2 = k2
  Keys <- MCKeys
  Nobody = Nobody
SYMMETRY MCSymmetry
INVARIANTS
  SignsWhatWasNamed
  DigestNamesBatch
  GreenRunIsAccepted
