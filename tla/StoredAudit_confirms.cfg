\* The same bucket and writers, against what the README says of the tool.
SPECIFICATION Spec
CONSTANTS
  Requests <- MCRequests
  Lists <- MCLists
  ListOf <- MCListOf
  CtsOf <- MCCtsOf
  OldLists = {old}
  Ciphertexts = {a, b, c}
  first = first
  again = again
  other = other
  p = p
  q = q
  old = old
  a = a
  b = b
  c = c
INVARIANT
  AuditConfirms
