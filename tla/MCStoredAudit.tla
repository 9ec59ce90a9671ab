--------------------------- MODULE MCStoredAudit ----------------------------
(* For StoredAudit: a list that is sent twice, one that shares a ciphertext    *)
(* with it and holds another twice, and a list of an earlier version that      *)
(* holds a ciphertext of the first.                                            *)
EXTENDS StoredAudit, TLC

CONSTANTS first, again, other,   \* requests
          p, q, old,             \* lists
          a, b, c                \* ciphertexts

MCRequests == {first, again, other}
MCLists == {p, q, old}
MCListOf == (first :> p) @@ (again :> p) @@ (other :> q)
MCCtsOf == (p :> <<a, b>>) @@ (q :> <<c, a, c>>) @@ (old :> <<b>>)
=============================================================================
