----------------------------- MODULE MCSigning ------------------------------
(* Small fields for Signing.  One-byte addresses; accounts of zero to two   *)
(* bytes, so that bytes can move between an account and its neighbours; and *)
(* chain ids whose significant bytes look like an account.                  *)
EXTENDS BatchClient, TLC

CONSTANTS a, b, k1, k2

MCCtHashes == {a, b}
MCZones == {0, 1}
MCChains == {1, 257}
MCAccounts == {<<>>, <<1>>, <<1, 1>>}
MCContracts == {<<>>, <<0>>, <<1>>}

MCKeys == {k1, k2}

MCLists ==
  LET ct(h) == [hash |-> h, type |-> 2]
      other(h) == [hash |-> h, type |-> 3]
  IN  {<<>>, <<ct(a)>>, <<ct(a), ct(b)>>, <<ct(b), other(a)>>}

MCSymmetry == Permutations(MCKeys)
=============================================================================
