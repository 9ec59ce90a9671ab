\* One list is sent twice, another shares a ciphertext with it and holds one twice,
\* and an earlier version left a third.
SPECIFICATION Spec
CONSTANTS
  Requests <- MCRequests
  Lists <- MCLists
  ListOf <- MCListOf
  CtsOf <- MCCtsOf
  OldLists = {old}
  Ciphertexts = {a, b, c}
  first = first
  again = again
  other = other
  p = p
  q = q
  old = old
  a = a
  b = b
  c = c
PROPERTY
  AnsweredIsComplete
