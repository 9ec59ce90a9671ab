--------------------------- MODULE SigningProofs ---------------------------
(***************************************************************************)
(* Theorems about Signing for every width, every set of fields and every   *)
(* set of lists: what a proof is bound to and what a digest stands for can *)
(* be read in one way only.  And about BatchClient for every set of keys:  *)
(* the verifier in it is the one of Signing, and the tool's verdict is the *)
(* contract's.                                                             *)
(***************************************************************************)
EXTENDS BatchClient, SequenceTheorems, TLAPS

-----------------------------------------------------------------------------
(* Reading the encodings back.                                             *)

\* Two concatenations that agree, and whose right parts are equally long, agree
\* part by part.
LEMMA SplitRight ==
  ASSUME NEW S
  PROVE  \A s, t, u, v \in Seq(S) :
           s \o t = u \o v /\ Len(t) = Len(v) => s = u /\ t = v
<1> SUFFICES ASSUME NEW s \in Seq(S), NEW t \in Seq(S),
                    NEW u \in Seq(S), NEW v \in Seq(S),
                    s \o t = u \o v, Len(t) = Len(v)
             PROVE  s = u /\ t = v
  OBVIOUS
<1>1. Len(s) \in Nat /\ Len(t) \in Nat /\ Len(u) \in Nat /\ Len(v) \in Nat
  BY LenProperties
<1>2. /\ Len(s \o t) = Len(s) + Len(t)
      /\ \A i \in 1..Len(s) + Len(t) :
           (s \o t)[i] = IF i <= Len(s) THEN s[i] ELSE t[i - Len(s)]
  BY ConcatProperties
<1>3. /\ Len(u \o v) = Len(u) + Len(v)
      /\ \A i \in 1..Len(u) + Len(v) :
           (u \o v)[i] = IF i <= Len(u) THEN u[i] ELSE v[i - Len(u)]
  BY ConcatProperties
<1>4. Len(s) = Len(u)
  BY <1>1, <1>2, <1>3
<1>5. \A i \in 1..Len(s) : s[i] = u[i]
  <2>1. SUFFICES ASSUME NEW i \in 1..Len(s) PROVE s[i] = u[i]
    OBVIOUS
  <2>2. i \in 1..Len(s) + Len(t) /\ i <= Len(s)
    BY <1>1
  <2> QED
    BY <2>2, <1>2, <1>3, <1>4
<1>6. \A i \in 1..Len(t) : t[i] = v[i]
  <2>1. SUFFICES ASSUME NEW i \in 1..Len(t) PROVE t[i] = v[i]
    OBVIOUS
  <2>2. /\ i + Len(s) \in 1..Len(s) + Len(t)
        /\ ~ (i + Len(s) <= Len(s))
        /\ (i + Len(s)) - Len(s) = i
    BY <1>1
  <2>3. (s \o t)[i + Len(s)] = t[i]
    BY <2>2, <1>2
  <2>4. (u \o v)[i + Len(s)] = v[i]
    BY <2>2, <1>3, <1>4
  <2> QED
    BY <2>3, <2>4
<1>7. s = u
  BY <1>4, <1>5, SeqEqual
<1>8. t = v
  BY <1>6, SeqEqual
<1> QED
  BY <1>7, <1>8

\* A chain id is a word of fixed length.
LEMMA ChainWordType ==
  ASSUME NEW n \in Nat
  PROVE  /\ Zeros \in Seq(Nat) /\ Len(Zeros) = CHAIN_PAD
         /\ ToBeBytes(n) \in Seq(Nat) /\ Len(ToBeBytes(n)) = 4
         /\ ChainWord(n) \in Seq(Nat) /\ Len(ChainWord(n)) = CHAIN_PAD + 4
<1>1. Zeros \in Seq(Nat) /\ Len(Zeros) = CHAIN_PAD
  BY WidthsAssumption DEF Zeros
<1>2. /\ n \div 16777216 \in Nat /\ (n \div 65536) % 256 \in Nat
      /\ (n \div 256) % 256 \in Nat /\ n % 256 \in Nat
  OBVIOUS
<1>3. ToBeBytes(n) \in Seq(Nat) /\ Len(ToBeBytes(n)) = 4
  BY <1>2 DEF ToBeBytes
<1>4. ChainWord(n) \in Seq(Nat) /\ Len(ChainWord(n)) = CHAIN_PAD + 4
  <2>1. /\ Zeros \o ToBeBytes(n) \in Seq(Nat)
        /\ Len(Zeros \o ToBeBytes(n)) = Len(Zeros) + Len(ToBeBytes(n))
    BY <1>1, <1>3, ConcatProperties
  <2> QED
    BY <2>1, <1>1, <1>3 DEF ChainWord
<1> QED
  BY <1>1, <1>3, <1>4

\* Two chain ids with one word are one chain id.
LEMMA ChainWordInjective ==
  ASSUME NEW m \in Nat, NEW n \in Nat, ChainWord(m) = ChainWord(n)
  PROVE  m = n
<1>1. ToBeBytes(m) = ToBeBytes(n)
  <2>1. Zeros \o ToBeBytes(m) = Zeros \o ToBeBytes(n)
    BY DEF ChainWord
  <2>2. /\ Zeros \in Seq(Nat)
        /\ ToBeBytes(m) \in Seq(Nat) /\ ToBeBytes(n) \in Seq(Nat)
        /\ Len(ToBeBytes(m)) = Len(ToBeBytes(n))
    BY ChainWordType
  <2> QED
    BY <2>1, <2>2, SplitRight
<1>2. /\ m \div 16777216 = n \div 16777216
      /\ (m \div 65536) % 256 = (n \div 65536) % 256
      /\ (m \div 256) % 256 = (n \div 256) % 256
      /\ m % 256 = n % 256
  BY <1>1 DEF ToBeBytes
<1> QED
  BY <1>2

\* The fields of a request, once both texts have decoded.
Decoded(f) ==
  f.zone \in Nat /\ f.account \in Seq(Nat) /\ f.chain \in Nat /\ f.contract \in Seq(Nat)

\* Account, chain and contract after something else: the shape of both encodings.
Encoded(h, f) == ((h \o f.account) \o ChainWord(f.chain)) \o f.contract

\* Account, chain and contract can be read back from behind, whatever stands in
\* front of them, once the contracts are equally long: the account takes what
\* the others leave.
LEMMA FieldsReadOneWay ==
  ASSUME NEW S, Nat \subseteq S,
         NEW h \in Seq(S), NEW k \in Seq(S), Len(h) = Len(k),
         NEW f, NEW g, Decoded(f), Decoded(g), Len(f.contract) = Len(g.contract),
         Encoded(h, f) = Encoded(k, g)
  PROVE  /\ h = k /\ f.account = g.account
         /\ f.chain = g.chain /\ f.contract = g.contract
<1> DEFINE c == f.account
           d == g.account
           m == f.chain
           n == g.chain
           x == f.contract
           y == g.contract
<1>0. /\ c \in Seq(Nat) /\ d \in Seq(Nat) /\ m \in Nat /\ n \in Nat
      /\ x \in Seq(Nat) /\ y \in Seq(Nat) /\ Len(x) = Len(y)
      /\ ((h \o c) \o ChainWord(m)) \o x = ((k \o d) \o ChainWord(n)) \o y
  BY DEF Encoded, Decoded
<1> HIDE DEF c, d, m, n, x, y
<1>1. /\ c \in Seq(S) /\ d \in Seq(S) /\ x \in Seq(S) /\ y \in Seq(S)
      /\ ChainWord(m) \in Seq(S) /\ ChainWord(n) \in Seq(S)
  BY <1>0, ChainWordType, SeqMonotonic
<1>2. /\ h \o c \in Seq(S) /\ k \o d \in Seq(S)
      /\ (h \o c) \o ChainWord(m) \in Seq(S) /\ (k \o d) \o ChainWord(n) \in Seq(S)
  BY <1>1, ConcatProperties
<1>split. \A s, t, u, v \in Seq(S) :
            s \o t = u \o v /\ Len(t) = Len(v) => s = u /\ t = v
  BY SplitRight
<1>3. (h \o c) \o ChainWord(m) = (k \o d) \o ChainWord(n) /\ x = y
  <2> DEFINE left1 == (h \o c) \o ChainWord(m)
             left2 == (k \o d) \o ChainWord(n)
  <2>1. left1 \in Seq(S) /\ left2 \in Seq(S) /\ left1 \o x = left2 \o y
    BY <1>0, <1>2
  <2>2. x \in Seq(S) /\ y \in Seq(S)
    BY <1>1
  <2> HIDE DEF left1, left2
  <2>3. \A u, v \in Seq(S) :
          left1 \o x = u \o v /\ Len(x) = Len(v) => left1 = u /\ x = v
    BY <2>1, <2>2, <1>split
  <2>4. left1 = left2 /\ x = y
    BY <2>1, <2>2, <2>3, <1>0
  <2> QED
    BY <2>4 DEF left1, left2
<1>4. Len(ChainWord(m)) = Len(ChainWord(n))
  BY <1>0, ChainWordType
<1>5. h \o c = k \o d /\ ChainWord(m) = ChainWord(n)
  <2> DEFINE left1 == h \o c
             left2 == k \o d
             word1 == ChainWord(m)
             word2 == ChainWord(n)
  <2>1. left1 \in Seq(S) /\ left2 \in Seq(S) /\ left1 \o word1 = left2 \o word2
    BY <1>2, <1>3
  <2>2. word1 \in Seq(S) /\ word2 \in Seq(S) /\ Len(word1) = Len(word2)
    BY <1>1, <1>4
  <2> HIDE DEF left1, word1, left2, word2
  <2>3. \A u, v \in Seq(S) :
          left1 \o word1 = u \o v /\ Len(word1) = Len(v) => left1 = u /\ word1 = v
    BY <2>1, <2>2, <1>split
  <2>4. left1 = left2 /\ word1 = word2
    BY <2>1, <2>2, <2>3
  <2> QED
    BY <2>4 DEF left1, word1, left2, word2
<1>6. m = n
  BY <1>0, <1>5, ChainWordInjective
<1>7. Len(c) = Len(d)
  <2>1. Len(h \o c) = Len(h) + Len(c) /\ Len(k \o d) = Len(k) + Len(d)
    BY <1>1, ConcatProperties
  <2>2. Len(h) \in Nat /\ Len(c) \in Nat /\ Len(d) \in Nat
    BY <1>0, LenProperties
  <2> QED
    BY <2>1, <2>2, <1>5
<1>8. h = k /\ c = d
  <2>1. c \in Seq(S) /\ d \in Seq(S) /\ h \o c = k \o d
    BY <1>1, <1>5
  <2>2. \A u, v \in Seq(S) : h \o c = u \o v /\ Len(c) = Len(v) => h = u /\ c = v
    BY <2>1, <1>split
  <2> QED
    BY <2>1, <2>2, <1>7
<1> QED
  BY <1>3, <1>6, <1>8 DEF c, d, m, n, x, y

\* The bytes of a proof name its zone, account, chain and contract, once the
\* contracts are equally long: the account takes what the others leave.
LEMMA MetadataNamesFields ==
  ASSUME NEW f, NEW g, Decoded(f), Decoded(g),
         Len(f.contract) = Len(g.contract), Metadata(f) = Metadata(g)
  PROVE  /\ f.zone = g.zone /\ f.account = g.account
         /\ f.chain = g.chain /\ f.contract = g.contract
<1>1. /\ <<f.zone>> \in Seq(Nat) /\ <<g.zone>> \in Seq(Nat)
      /\ Len(<<f.zone>>) = Len(<<g.zone>>)
  BY DEF Decoded
<1>2. Encoded(<<f.zone>>, f) = Encoded(<<g.zone>>, g)
  BY DEF Metadata, Encoded
<1>3. /\ <<f.zone>> = <<g.zone>> /\ f.account = g.account
      /\ f.chain = g.chain /\ f.contract = g.contract
  <2> DEFINE h == <<f.zone>>
             k == <<g.zone>>
  <2>1. h \in Seq(Nat) /\ k \in Seq(Nat) /\ Len(h) = Len(k) /\ Encoded(h, f) = Encoded(k, g)
    BY <1>1, <1>2
  <2> HIDE DEF h, k
  <2>2. /\ h = k /\ f.account = g.account
        /\ f.chain = g.chain /\ f.contract = g.contract
    BY <2>1, FieldsReadOneWay
  <2> QED
    BY <2>2 DEF h, k
<1> QED
  BY <1>3

\* Where the elements of a concatenation come from.
LEMMA ConcatElements ==
  ASSUME NEW S
  PROVE  \A s, t \in Seq(S) :
           /\ s \o t \in Seq(S) /\ Len(s \o t) = Len(s) + Len(t)
           /\ \A i \in 1..Len(s) : (s \o t)[i] = s[i]
           /\ \A i \in 1..Len(t) : (s \o t)[Len(s) + i] = t[i]
<1> SUFFICES ASSUME NEW s \in Seq(S), NEW t \in Seq(S)
             PROVE  /\ s \o t \in Seq(S) /\ Len(s \o t) = Len(s) + Len(t)
                    /\ \A i \in 1..Len(s) : (s \o t)[i] = s[i]
                    /\ \A i \in 1..Len(t) : (s \o t)[Len(s) + i] = t[i]
  OBVIOUS
<1>1. Len(s) \in Nat /\ Len(t) \in Nat
  BY LenProperties
<1>2. /\ s \o t \in Seq(S) /\ Len(s \o t) = Len(s) + Len(t)
      /\ \A i \in 1..Len(s) + Len(t) :
           (s \o t)[i] = IF i <= Len(s) THEN s[i] ELSE t[i - Len(s)]
  BY ConcatProperties
<1>3. ASSUME NEW i \in 1..Len(s) PROVE (s \o t)[i] = s[i]
  <2>1. i \in 1..Len(s) + Len(t) /\ i <= Len(s)
    BY <1>1
  <2> QED
    BY <2>1, <1>2
<1>4. ASSUME NEW i \in 1..Len(t) PROVE (s \o t)[Len(s) + i] = t[i]
  <2>1. /\ Len(s) + i \in 1..Len(s) + Len(t) /\ ~ (Len(s) + i <= Len(s))
        /\ (Len(s) + i) - Len(s) = i
    BY <1>1
  <2>2. (s \o t)[Len(s) + i] = t[(Len(s) + i) - Len(s)]
    BY <2>1, <1>2
  <2> QED
    BY <2>1, <2>2
<1> QED
  BY <1>2, <1>3, <1>4

\* Where the account and the padding stand in the bytes of a proof.
LEMMA MetadataLayout ==
  ASSUME NEW f, Decoded(f)
  PROVE  /\ Len(Metadata(f)) = 1 + Len(f.account) + (CHAIN_PAD + 4) + Len(f.contract)
         /\ \A j \in 1..Len(f.account) : Metadata(f)[1 + j] = f.account[j]
         /\ Len(f.account) = 0 => \A j \in 1..CHAIN_PAD : Metadata(f)[1 + j] = 0
<1> DEFINE head == <<f.zone>>
           acct == f.account
           word == ChainWord(f.chain)
           last == f.contract
<1>0. head \in Seq(Nat)
  BY DEF Decoded
<1>1. Len(head) = 1
  BY DEF Decoded
<1>2. acct \in Seq(Nat) /\ last \in Seq(Nat)
  BY DEF Decoded
<1>3. word \in Seq(Nat) /\ Len(word) = CHAIN_PAD + 4
  BY ChainWordType DEF Decoded
<1>4. Len(acct) \in Nat /\ Len(last) \in Nat /\ CHAIN_PAD \in Nat
  BY <1>2, WidthsAssumption, LenProperties
<1>5. ASSUME NEW j \in 1..CHAIN_PAD PROVE word[j] = 0
  <2>1. /\ Zeros \in Seq(Nat) /\ Len(Zeros) = CHAIN_PAD /\ ToBeBytes(f.chain) \in Seq(Nat)
    BY ChainWordType DEF Decoded
  <2>2. (Zeros \o ToBeBytes(f.chain))[j] = Zeros[j]
    BY <2>1, ConcatElements
  <2>3. Zeros[j] = 0
    BY DEF Zeros
  <2> QED
    BY <2>2, <2>3 DEF ChainWord
<1>6. Metadata(f) = ((head \o acct) \o word) \o last
  BY DEF Metadata
<1> HIDE DEF head, acct, word, last
<1>7. /\ head \o acct \in Seq(Nat) /\ Len(head \o acct) = Len(head) + Len(acct)
      /\ \A j \in 1..Len(acct) : (head \o acct)[Len(head) + j] = acct[j]
  BY <1>0, <1>2, ConcatElements
<1> DEFINE front == head \o acct
<1> HIDE DEF front
<1>8. /\ front \o word \in Seq(Nat) /\ Len(front \o word) = Len(front) + Len(word)
      /\ \A j \in 1..Len(front) : (front \o word)[j] = front[j]
      /\ \A j \in 1..Len(word) : (front \o word)[Len(front) + j] = word[j]
  BY <1>3, <1>7, ConcatElements DEF front
<1> DEFINE body == front \o word
<1> HIDE DEF body
<1>9. /\ Len(body \o last) = Len(body) + Len(last)
      /\ \A j \in 1..Len(body) : (body \o last)[j] = body[j]
  BY <1>2, <1>8, ConcatElements DEF body
<1>10. Metadata(f) = body \o last
  BY <1>6 DEF body, front
<1>11. Len(front) = 1 + Len(acct)
  BY <1>1, <1>7 DEF front
<1>12. Len(body) = 1 + Len(acct) + (CHAIN_PAD + 4)
  BY <1>3, <1>8, <1>11 DEF body
<1>13. Len(Metadata(f)) = 1 + Len(acct) + (CHAIN_PAD + 4) + Len(last)
  BY <1>9, <1>10, <1>12
<1>14. ASSUME NEW j \in 1..Len(acct) PROVE Metadata(f)[1 + j] = acct[j]
  <2>1. 1 + j \in 1..Len(front) /\ 1 + j \in 1..Len(body)
    BY <1>4, <1>11, <1>12
  <2>2. Metadata(f)[1 + j] = body[1 + j]
    BY <2>1, <1>9, <1>10
  <2>3. body[1 + j] = front[1 + j]
    BY <2>1, <1>8 DEF body
  <2>4. front[1 + j] = acct[j]
    BY <1>1, <1>7 DEF front
  <2> QED
    BY <2>2, <2>3, <2>4
<1>15. ASSUME Len(acct) = 0, NEW j \in 1..CHAIN_PAD PROVE Metadata(f)[1 + j] = 0
  <2>1. /\ Len(front) = 1 /\ j \in 1..Len(word) /\ 1 + j \in 1..Len(body)
    BY <1>15, <1>3, <1>4, <1>11, <1>12
  <2>2. Metadata(f)[1 + j] = body[1 + j]
    BY <2>1, <1>9, <1>10
  <2>3. body[1 + j] = word[j]
    BY <2>1, <1>8 DEF body
  <2> QED
    BY <2>2, <2>3, <1>5
<1> QED
  BY <1>13, <1>14, <1>15 DEF acct, last

\* The bytes of a proof that names a wallet and no contract are those of no
\* request that names one: such a proof verifies nowhere.
LEMMA OldLayoutRefused ==
  ASSUME NEW f, NEW g, Decoded(f), Decoded(g), Len(f.contract) = ADDRESS_LEN,
         g.contract = <<>>, Len(g.account) = ADDRESS_LEN,
         NEW i \in 1..ADDRESS_LEN, g.account[i] # 0
  PROVE  Metadata(f) # Metadata(g)
<1> SUFFICES ASSUME Metadata(f) = Metadata(g) PROVE FALSE
  OBVIOUS
<1>1. ADDRESS_LEN \in Nat /\ CHAIN_PAD \in Nat /\ ADDRESS_LEN <= CHAIN_PAD
  BY WidthsAssumption
<1>2. Len(f.account) \in Nat /\ Len(g.contract) = 0
  BY LenProperties DEF Decoded
<1>3. Len(f.account) = 0
  <2>1. Len(Metadata(f)) = 1 + Len(f.account) + (CHAIN_PAD + 4) + ADDRESS_LEN
    BY MetadataLayout
  <2>2. Len(Metadata(g)) = 1 + ADDRESS_LEN + (CHAIN_PAD + 4) + 0
    BY <1>2, MetadataLayout
  <2>3. Len(Metadata(f)) = Len(Metadata(g))
    OBVIOUS
  <2>4. \A n, w, p \in Nat : 1 + n + (p + 4) + w = 1 + w + (p + 4) + 0 => n = 0
    OBVIOUS
  <2> QED
    BY <2>1, <2>2, <2>3, <2>4, <1>1, <1>2
<1>4. Metadata(f)[1 + i] = 0
  <2>1. i \in 1..CHAIN_PAD
    BY <1>1
  <2> QED
    BY <2>1, <1>3, MetadataLayout
<1>5. Metadata(g)[1 + i] = g.account[i]
  BY MetadataLayout
<1> QED
  BY <1>4, <1>5

\* A message hash names its ciphertext, type, zone, account, chain and contract.
LEMMA MessageHashNamesFields ==
  ASSUME NEW c \in [hash : CtHashes, type : Nat], NEW d \in [hash : CtHashes, type : Nat],
         NEW f, NEW g, Decoded(f), Decoded(g), Len(f.contract) = Len(g.contract),
         CtMessageHash(c, f) = CtMessageHash(d, g)
  PROVE  /\ c = d /\ f.zone = g.zone /\ f.account = g.account
         /\ f.chain = g.chain /\ f.contract = g.contract
<1> DEFINE S == Nat \union CtHashes
           h == <<c.hash, c.type, f.zone>>
           k == <<d.hash, d.type, g.zone>>
<1>1. /\ Nat \subseteq S /\ h \in Seq(S) /\ k \in Seq(S) /\ Len(h) = Len(k)
  BY DEF Decoded
<1>2. Encoded(h, f) = Encoded(k, g)
  BY DEF CtMessageHash, Keccak, Encoded
<1> HIDE DEF S, h, k
<1>3. h = k /\ f.account = g.account /\ f.chain = g.chain /\ f.contract = g.contract
  BY <1>1, <1>2, FieldsReadOneWay
<1>4. c.hash = d.hash /\ c.type = d.type /\ f.zone = g.zone
  BY <1>3 DEF h, k
<1> QED
  BY <1>3, <1>4

-----------------------------------------------------------------------------
(* The invariant.                                                          *)

\* What VerifyProof established for a request.
Verified(f, p) ==
  /\ f \in RequestFields /\ p \in Proofs
  /\ IsAddress(f.contract) /\ f.account # NotHex
  /\ Metadata(f) = Metadata(p.named)

\* The message hashes a request can lead to.
Words(f, p) == {CtMessageHash(p.list[i], f) : i \in 1..Len(p.list)}

\* Message hashes stand for the ciphertexts they were computed from, in order.
HashesOf(hs, p, f) == \A i \in 1..Len(hs) : hs[i] = CtMessageHash(p.list[i], f)

Expanding ==
  stage = "expanding" =>
    /\ Verified(request.fields, request.proof)
    /\ hashes \in Seq(Words(request.fields, request.proof))
    /\ Len(hashes) <= Len(request.proof.list)
    /\ HashesOf(hashes, request.proof, request.fields)

SignedInOrder ==
  \A s \in signed :
    /\ Verified(s.fields, s.proof)
    /\ Len(s.digest.keccak) = Len(s.proof.list)
    /\ Len(s.digest.keccak) \in Nat \ {0}
    /\ HashesOf(s.digest.keccak, s.proof, s.fields)

SInv ==
  /\ stage \in {"idle", "received", "expanding"}
  /\ stage # "idle" => request \in Requests
  /\ stage # "expanding" => hashes = <<>>
  /\ Expanding
  /\ SignedInOrder

\* Both texts of a verified request decoded, and the ones its proof names too.
LEMMA VerifiedDecodes ==
  ASSUME NEW f, NEW p, Verified(f, p)
  PROVE  Decoded(f) /\ Decoded(p.named) /\ Len(f.contract) = ADDRESS_LEN
<1>1. f \in RequestFields /\ p \in Proofs /\ p.named \in Named
  BY DEF Verified, Proofs
<1>2. f.account \in Accounts /\ f.contract \in Contracts /\ Len(f.contract) = ADDRESS_LEN
  BY <1>1 DEF Verified, RequestFields, Texts, IsAddress
<1>3. Decoded(f)
  BY <1>1, <1>2, FieldsAssumption DEF Decoded, RequestFields
<1>4. /\ p.named.zone \in Zones /\ p.named.account \in Accounts
      /\ p.named.chain \in Chains /\ p.named.contract \in Contracts \union {<<>>}
  BY <1>1 DEF Named
<1>5. Decoded(p.named)
  BY <1>4, FieldsAssumption, EmptySeq DEF Decoded
<1> QED
  BY <1>2, <1>3, <1>5

\* A proof that verifies names exactly the fields of the request.
LEMMA VerifiedNamesRequest ==
  ASSUME NEW f, NEW p, Verified(f, p)
  PROVE  f = p.named
<1> DEFINE g == p.named
<1>1. Decoded(f) /\ Decoded(g) /\ Len(f.contract) = ADDRESS_LEN /\ Metadata(f) = Metadata(g)
  BY VerifiedDecodes DEF Verified
<1>2. g \in Named
  BY DEF Verified, Proofs
<1>3. f \in RequestFields
  BY DEF Verified
<1>4. Len(g.contract) = ADDRESS_LEN
  <2>1. SUFFICES ASSUME Len(g.contract) # ADDRESS_LEN PROVE FALSE
    OBVIOUS
  <2>2. /\ g.contract = <<>> /\ Len(g.account) = ADDRESS_LEN
        /\ \E i \in 1..ADDRESS_LEN : g.account[i] # 0
    BY <1>2, <2>1 DEF Named
  <2>3. PICK i \in 1..ADDRESS_LEN : g.account[i] # 0
    BY <2>2
  <2> HIDE DEF g
  <2> QED
    BY <1>1, <2>2, <2>3, OldLayoutRefused
<1>5. /\ f.zone = g.zone /\ f.account = g.account
      /\ f.chain = g.chain /\ f.contract = g.contract
  <2> HIDE DEF g
  <2> QED
    BY <1>1, <1>4, MetadataNamesFields
<1>6. /\ f = [zone |-> f.zone, account |-> f.account, chain |-> f.chain,
              contract |-> f.contract]
      /\ g = [zone |-> g.zone, account |-> g.account, chain |-> g.chain,
              contract |-> g.contract]
  BY <1>2, <1>3 DEF RequestFields, Named
<1> QED
  BY <1>5, <1>6

-----------------------------------------------------------------------------
(* The invariant is inductive.                                             *)

\* Before the first request there is nothing to check and nothing signed.
LEMMA SInvInit == Init => SInv
BY DEF Init, SInv, Expanding, SignedInOrder

\* Every step of a verification keeps what its stage and the signatures rest on.
LEMMA SInvNext == SInv /\ [Next]_vars => SInv'
<1> SUFFICES ASSUME SInv, [Next]_vars PROVE SInv'
  OBVIOUS
<1>1. ASSUME Receive PROVE SInv'
  <2>1. request' \in Requests /\ stage' = "received" /\ stage = "idle"
    BY <1>1 DEF Receive
  <2> QED
    BY <1>1, <2>1 DEF Receive, SInv, Expanding, SignedInOrder
<1>2. ASSUME Return, signed' = signed PROVE SInv'
  BY <1>2 DEF Return, SInv, Expanding, SignedInOrder
<1>3. ASSUME VerifyProof PROVE SInv'
  <2>1. /\ hashes' = <<>> /\ request' = request /\ signed' = signed
        /\ stage' = "expanding" /\ request \in Requests
    BY <1>3 DEF VerifyProof, SInv
  <2>2. Verified(request.fields, request.proof)
    BY <1>3, <2>1 DEF VerifyProof, Verified, Requests
  <2>3. Len(request.proof.list) \in Nat
    BY <2>1, ListsAssumption DEF Requests, Proofs
  <2>4. Expanding'
    BY <2>1, <2>2, <2>3, EmptySeq DEF Expanding, HashesOf, Words
  <2>5. SignedInOrder'
    BY <2>1 DEF SInv, SignedInOrder
  <2> QED
    BY <2>1, <2>4, <2>5 DEF SInv
<1>4. ASSUME Expand PROVE SInv'
  <2> DEFINE f == request.fields
             p == request.proof
             word == CtMessageHash(p.list[Len(hashes) + 1], f)
  <2>1. /\ stage = "expanding" /\ stage' = stage /\ request' = request /\ signed' = signed
        /\ hashes' = Append(hashes, word) /\ Len(hashes) < Len(p.list)
        /\ request \in Requests
    BY <1>4 DEF Expand, SInv
  <2>2. /\ Verified(f, p) /\ hashes \in Seq(Words(f, p)) /\ HashesOf(hashes, p, f)
    BY <2>1 DEF SInv, Expanding
  <2>3. Len(p.list) \in Nat /\ Len(hashes) \in Nat
    BY <2>1, <2>2, ListsAssumption, LenProperties DEF Requests, Proofs
  <2>4. word \in Words(f, p)
    BY <2>1, <2>3 DEF Words
  <2> HIDE DEF word
  <2>5. /\ Append(hashes, word) \in Seq(Words(f, p))
        /\ Len(Append(hashes, word)) = Len(hashes) + 1
        /\ \A i \in 1..Len(hashes) : Append(hashes, word)[i] = hashes[i]
        /\ Append(hashes, word)[Len(hashes) + 1] = word
    BY <2>2, <2>3, <2>4, AppendProperties
  <2>6. HashesOf(hashes', p, f)
    <3>1. SUFFICES ASSUME NEW i \in 1..Len(hashes) + 1
                   PROVE  hashes'[i] = CtMessageHash(p.list[i], f)
      BY <2>1, <2>5 DEF HashesOf
    <3>2. CASE i = Len(hashes) + 1
      BY <3>2, <2>1, <2>5 DEF word
    <3>3. CASE i # Len(hashes) + 1
      <4>1. i \in 1..Len(hashes)
        BY <3>3, <2>3
      <4> QED
        BY <4>1, <2>1, <2>2, <2>5 DEF HashesOf
    <3> QED
      BY <3>2, <3>3
  <2>7. Expanding'
    BY <2>1, <2>2, <2>3, <2>5, <2>6 DEF Expanding
  <2>8. SignedInOrder'
    BY <2>1 DEF SInv, SignedInOrder
  <2> QED
    BY <2>1, <2>7, <2>8 DEF SInv
<1>5. ASSUME SignBatch PROVE SInv'
  <2> DEFINE f == request.fields
             p == request.proof
             new == [fields |-> f, proof |-> p, digest |-> Keccak(hashes)]
  <2>1. /\ stage = "expanding" /\ Len(hashes) = Len(p.list) /\ hashes # <<>>
        /\ signed' = signed \union {new} /\ stage' = "idle" /\ hashes' = <<>>
    BY <1>5 DEF SignBatch, Return
  <2>2. Verified(f, p) /\ hashes \in Seq(Words(f, p)) /\ HashesOf(hashes, p, f)
    BY <2>1 DEF SInv, Expanding
  <2>3. Len(hashes) \in Nat \ {0}
    BY <2>1, <2>2, EmptySeq
  <2>4. new.fields = f /\ new.proof = p /\ new.digest.keccak = hashes
    BY DEF Keccak
  <2>5. SignedInOrder'
    <3>1. SUFFICES ASSUME NEW s \in signed'
                   PROVE  /\ Verified(s.fields, s.proof)
                          /\ Len(s.digest.keccak) = Len(s.proof.list)
                          /\ Len(s.digest.keccak) \in Nat \ {0}
                          /\ HashesOf(s.digest.keccak, s.proof, s.fields)
      BY DEF SignedInOrder
    <3>2. CASE s \in signed
      BY <3>2 DEF SInv, SignedInOrder
    <3>3. CASE s = new
      <4> HIDE DEF new
      <4> QED
        BY <3>3, <2>1, <2>2, <2>3, <2>4
    <3> QED
      BY <2>1, <3>2, <3>3
  <2> QED
    BY <2>1, <2>5 DEF SInv, Expanding
<1>6. ASSUME UNCHANGED vars PROVE SInv'
  BY <1>6 DEF vars, SInv, Expanding, SignedInOrder
<1> QED
  BY <1>1, <1>2, <1>3, <1>4, <1>5, <1>6
     DEF Next, RejectContract, Refuse, ExpandFails, SigningFails, Done

\* Every request in progress was checked for what its stage says, and every
\* signature covers the whole of a verified list in its order.
THEOREM SInvInvariant == Spec => []SInv
BY SInvInit, SInvNext, PTL DEF Spec

\* For every width of the fields: a signature is given only for what the author
\* of the proof named (verify_and_expand).
THEOREM SignsOnlyWhatWasNamed == Spec => []SignsWhatWasNamed
<1>1. SInv => SignsWhatWasNamed
  <2>1. SUFFICES ASSUME SInv, NEW s \in signed
                 PROVE  s.fields = s.proof.named /\ IsAddress(s.fields.contract)
    BY DEF SignsWhatWasNamed
  <2>2. Verified(s.fields, s.proof)
    BY <2>1 DEF SInv, SignedInOrder
  <2> QED
    BY <2>2, VerifiedNamesRequest DEF Verified
<1> QED
  BY <1>1, SInvInvariant, PTL

\* For every width of the fields and every list: two batches with one digest are
\* one batch (sign_batch).
THEOREM DigestStandsForOneBatch == Spec => []DigestNamesBatch
<1>1. SInv => DigestNamesBatch
  <2>1. SUFFICES ASSUME SInv, NEW s \in signed, NEW t \in signed, s.digest = t.digest
                 PROVE  s.fields = t.fields /\ s.proof.list = t.proof.list
    BY DEF DigestNamesBatch
  <2> DEFINE f == s.fields
             g == t.fields
             l == s.proof.list
             r == t.proof.list
             hs == s.digest.keccak
  <2>2. /\ Verified(f, s.proof) /\ Verified(g, t.proof)
        /\ Len(hs) = Len(l) /\ Len(hs) = Len(r) /\ Len(hs) \in Nat \ {0}
        /\ \A i \in 1..Len(hs) : hs[i] = CtMessageHash(l[i], f)
        /\ \A i \in 1..Len(hs) : hs[i] = CtMessageHash(r[i], g)
    BY <2>1 DEF SInv, SignedInOrder, HashesOf
  <2>3. /\ Decoded(f) /\ Decoded(g) /\ Len(f.contract) = Len(g.contract)
    BY <2>2, VerifiedDecodes
  <2>4. /\ l \in Seq([hash : CtHashes, type : Nat]) /\ r \in Seq([hash : CtHashes, type : Nat])
        /\ f \in RequestFields /\ g \in RequestFields
    BY <2>2, ListsAssumption DEF Verified, Proofs
  <2> HIDE DEF f, g, l, r, hs
  <2>5. ASSUME NEW i \in 1..Len(hs)
        PROVE  /\ l[i] = r[i] /\ f.zone = g.zone /\ f.account = g.account
               /\ f.chain = g.chain /\ f.contract = g.contract
    <3>1. l[i] \in [hash : CtHashes, type : Nat] /\ r[i] \in [hash : CtHashes, type : Nat]
      BY <2>2, <2>4, ElementOfSeq
    <3>2. CtMessageHash(l[i], f) = CtMessageHash(r[i], g)
      BY <2>2
    <3> QED
      BY <3>1, <3>2, <2>3, MessageHashNamesFields
  <2>6. f = g
    <3>1. 1 \in 1..Len(hs)
      BY <2>2
    <3>2. /\ f.zone = g.zone /\ f.account = g.account
          /\ f.chain = g.chain /\ f.contract = g.contract
      BY <3>1, <2>5
    <3>3. /\ f = [zone |-> f.zone, account |-> f.account, chain |-> f.chain,
                  contract |-> f.contract]
          /\ g = [zone |-> g.zone, account |-> g.account, chain |-> g.chain,
                  contract |-> g.contract]
      BY <2>4 DEF RequestFields
    <3> QED
      BY <3>2, <3>3
  <2>7. l = r
    BY <2>2, <2>4, <2>5, SeqEqual
  <2> QED
    BY <2>6, <2>7 DEF f, g, l, r
<1> QED
  BY <1>1, SInvInvariant, PTL

-----------------------------------------------------------------------------
(* The verifier of the composition is the one of Signing.                  *)

\* Between two requests the verifier keeps nothing, and while one of the tool
\* is out it is the tool's.
Between ==
  /\ stage = "idle" => request = Nothing
  /\ tool = "posted" => stage # "idle"
  /\ tool \in {"built", "asked"} => stage = "idle"

VInv == SInv /\ Between

\* A restart that finds the verifier busy is a refusal of what it was busy with.
LEMMA RestartRefuses ==
  ASSUME VInv, VerifierRestarts
  PROVE  [Next]_vars
<1>1. Return /\ signed' = signed
  BY DEF VerifierRestarts
<1>2. CASE stage = "idle"
  BY <1>1, <1>2 DEF VInv, SInv, Between, Return, vars
<1>3. CASE stage = "received"
  BY <1>1, <1>3 DEF RejectContract, Refuse, Next
<1>4. CASE stage = "expanding"
  <2>1. /\ Verified(request.fields, request.proof)
        /\ hashes \in Seq(Words(request.fields, request.proof))
        /\ Len(hashes) <= Len(request.proof.list)
    BY <1>4 DEF VInv, SInv, Expanding
  <2>2. Len(hashes) \in Nat /\ Len(request.proof.list) \in Nat
    BY <2>1, ListsAssumption, LenProperties DEF Verified, Proofs
  <2>3. CASE Len(hashes) < Len(request.proof.list)
    BY <2>3, <1>1, <1>4 DEF ExpandFails, Next
  <2>4. CASE Len(hashes) = Len(request.proof.list)
    BY <2>4, <1>1, <1>4 DEF SigningFails, Next
  <2> QED
    BY <2>1, <2>2, <2>3, <2>4
<1> QED
  BY <1>2, <1>3, <1>4 DEF VInv, SInv

\* Every step of the composition is a step of the verifier or none of its.
LEMMA ClientStepSimulates == VInv /\ [ClientNext]_clientVars => [Next]_vars
<1> SUFFICES ASSUME VInv, [ClientNext]_clientVars PROVE [Next]_vars
  OBVIOUS
<1>1. ASSUME Receive \/ VerifyProof \/ Expand \/ SignBatch \/ UNCHANGED vars
      PROVE  [Next]_vars
  BY <1>1 DEF Next
<1>2. ASSUME RejectContract \/ Refuse \/ ExpandFails \/ SigningFails PROVE [Next]_vars
  BY <1>2 DEF Next
<1>3. ASSUME VerifierRestarts PROVE [Next]_vars
  BY <1>3, RestartRefuses
<1> QED
  BY <1>1, <1>2, <1>3
     DEF ClientNext, Launch, GetSigner, Post, ToolFails, Judge, OtherReceives,
         Verifies, Refuses, Answers, Over, clientVars

\* Nothing but its own request keeps the verifier busy once the tool has begun.
LEMMA BetweenNext == VInv /\ [ClientNext]_clientVars => Between'
<1> SUFFICES ASSUME VInv, [ClientNext]_clientVars PROVE Between'
  OBVIOUS
<1> USE DEF Between
<1>1. ASSUME Launch PROVE Between'
  BY <1>1 DEF Launch, vars, VInv
<1>2. ASSUME GetSigner \/ ToolFails \/ Judge PROVE Between'
  BY <1>2 DEF GetSigner, ToolFails, Judge, vars, VInv
<1>3. ASSUME Post \/ OtherReceives PROVE Between'
  BY <1>3 DEF Post, OtherReceives, Receive, toolVars
<1>4. ASSUME Verifies PROVE Between'
  BY <1>4 DEF Verifies, VerifyProof, Expand, toolVars, VInv
<1>5. ASSUME Refuses PROVE Between'
  BY <1>5 DEF Refuses, RejectContract, Refuse, ExpandFails, SigningFails, Return, VInv
<1>6. ASSUME Answers PROVE Between'
  BY <1>6 DEF Answers, SignBatch, Return, VInv, toolVars
<1>7. ASSUME VerifierRestarts PROVE Between'
  BY <1>7 DEF VerifierRestarts, Return, VInv
<1>8. ASSUME UNCHANGED clientVars PROVE Between'
  BY <1>8 DEF clientVars, vars, toolVars, VInv
<1> QED
  BY <1>1, <1>2, <1>3, <1>4, <1>5, <1>6, <1>7, <1>8 DEF ClientNext, Over

\* What the verifier keeps, beside its client.
LEMMA VInvInvariant == ClientSpec => []VInv
<1>1. ClientInit => VInv
  BY SInvInit DEF ClientInit, Init, VInv, Between
<1>2. VInv /\ [ClientNext]_clientVars => VInv'
  BY SInvNext, ClientStepSimulates, BetweenNext DEF VInv
<1> QED
  BY <1>1, <1>2, PTL DEF ClientSpec

\* With its client, its restarts and its new keys the verifier is the one of
\* Signing: a restart is a refusal, and the key is none of its state.
THEOREM ClientImplementsSigning == ClientSpec => Spec
<1>1. ClientInit => Init
  BY DEF ClientInit
<1> QED
  BY <1>1, ClientStepSimulates, VInvInvariant, PTL DEF ClientSpec, Spec

\* Nor does the tool, a restart or a new key make the verifier sign what the
\* author of the proof did not name.
THEOREM ClientSignsWhatWasNamed == ClientSpec => []SignsWhatWasNamed
BY ClientImplementsSigning, SignsOnlyWhatWasNamed, PTL

\* One digest stands for one batch across restarts, too.
THEOREM ClientDigestNamesBatch == ClientSpec => []DigestNamesBatch
BY ClientImplementsSigning, DigestStandsForOneBatch, PTL

-----------------------------------------------------------------------------
(* The verdict.                                                            *)

\* What the tool has begun with: two addresses and something to verify.
Begun ==
  /\ args.fields \in RequestFields /\ args.list \in Lists /\ args.list # <<>>
  /\ IsAddress(args.fields.account) /\ IsAddress(args.fields.contract)

\* An answer holds the list the tool sent, a digest of it and a signature with
\* the lower of the two values of s.
Answered ==
  /\ Begun
  /\ expected \in Keys
  /\ answer.ciphertexts = args.list
  /\ answer.signature.key \in Keys
  /\ ~ answer.signature.high
  /\ answer.signature.digest =
       Keccak([i \in 1..Len(args.list) |-> CtMessageHash(args.list[i], args.fields)])
  /\ answer.recid = IF answer.signature.odd THEN 1 ELSE 0

Steps ==
  /\ key \in Keys
  /\ tool \in {"built", "asked", "posted"} => Begun
  /\ tool \in {"asked", "posted"} => expected \in Keys
  /\ tool = "posted" =>
       request.fields = args.fields /\ request.proof.list = args.list
  /\ tool = "answered" => Answered
  /\ printed # Nothing =>
       Answered /\ printed = Printout /\ tool \in {"done", "failed"}

\* The digest the tool is answered is that of its whole list.
LEMMA DigestOfList ==
  ASSUME VInv, SignBatch
  PROVE  hashes = [i \in 1..Len(request.proof.list) |->
                     CtMessageHash(request.proof.list[i], request.fields)]
<1>1. stage = "expanding" /\ Len(hashes) = Len(request.proof.list)
  BY DEF SignBatch
<1>2. /\ hashes \in Seq(Words(request.fields, request.proof))
      /\ HashesOf(hashes, request.proof, request.fields)
  BY <1>1 DEF VInv, SInv, Expanding
<1>3. hashes = [i \in 1..Len(hashes) |-> hashes[i]]
  BY <1>2
<1> QED
  BY <1>1, <1>2, <1>3 DEF HashesOf

\* What the tool knows it knows from this verifier, whoever holds its key.
LEMMA StepsNext == VInv /\ Steps /\ [ClientNext]_clientVars => Steps'
<1> SUFFICES ASSUME VInv, Steps, [ClientNext]_clientVars PROVE Steps'
  OBVIOUS
<1> USE DEF Steps, Begun
<1>1. ASSUME Launch PROVE Steps'
  BY <1>1 DEF Launch, Typed, vars
<1>2. ASSUME GetSigner PROVE Steps'
  BY <1>2 DEF GetSigner, vars
<1>3. ASSUME Post PROVE Steps'
  BY <1>3 DEF Post
<1>4. ASSUME ToolFails PROVE Steps'
  BY <1>4 DEF ToolFails, vars, Answered, Printout, BatchDigest
<1>5. ASSUME Judge PROVE Steps'
  BY <1>5 DEF Judge, vars, Answered, Printout, BatchDigest
<1>6. ASSUME OtherReceives PROVE Steps'
  BY <1>6 DEF OtherReceives, toolVars
<1>7. ASSUME Verifies PROVE Steps'
  BY <1>7 DEF Verifies, VerifyProof, Expand, toolVars, Answered, Printout, BatchDigest
<1>8. ASSUME Refuses PROVE Steps'
  BY <1>8 DEF Refuses, Answered, Printout, BatchDigest
<1>9. ASSUME Answers PROVE Steps'
  <2>1. SignBatch /\ UNCHANGED <<key, args, expected, printed>>
    BY <1>9 DEF Answers
  <2>2. CASE tool # "posted"
    BY <2>1, <2>2, <1>9 DEF Answers, Answered, Printout, BatchDigest
  <2>3. CASE tool = "posted" /\ tool' = "failed"
    BY <2>1, <2>3
  <2>4. CASE tool = "posted" /\ tool' = "answered"
    <3>1. PICK high \in BOOLEAN, odd \in BOOLEAN :
            LET raw == [key |-> key, digest |-> Keccak(hashes),
                        high |-> high, odd |-> odd]
            IN  answer' = [ciphertexts |-> request.proof.list,
                           signature |-> SignPrehash(raw).signature,
                           recid |-> SignPrehash(raw).recid]
      BY <2>4, <1>9 DEF Answers
    <3>2. /\ answer'.ciphertexts = args.list
          /\ answer'.signature.key = key
          /\ answer'.signature.high = FALSE
          /\ answer'.signature.digest = Keccak(hashes)
          /\ answer'.recid = IF answer'.signature.odd THEN 1 ELSE 0
      BY <3>1, <2>4 DEF SignPrehash
    <3>3. hashes = [i \in 1..Len(args.list) |-> CtMessageHash(args.list[i], args.fields)]
      BY <2>1, <2>4, DigestOfList
    <3>4. Answered'
      BY <3>2, <3>3, <2>1, <2>4 DEF Answered
    <3> QED
      BY <3>4, <2>1, <2>4
  <2> QED
    BY <2>2, <2>3, <2>4, <1>9 DEF Answers
<1>10. ASSUME VerifierRestarts PROVE Steps'
  BY <1>10 DEF VerifierRestarts, Answered, Printout, BatchDigest
<1>11. ASSUME UNCHANGED clientVars PROVE Steps'
  BY <1>11 DEF clientVars, vars, toolVars, Answered, Printout, BatchDigest
<1> QED
  BY <1>1, <1>2, <1>3, <1>4, <1>5, <1>6, <1>7, <1>8, <1>9, <1>10, <1>11
     DEF ClientNext, Over

\* The list of the run, as a sequence.
LEMMA BegunList ==
  ASSUME Begun
  PROVE  /\ args.list \in Seq([hash : CtHashes, type : Nat])
         /\ Len(args.list) \in Nat \ {0}
         /\ DOMAIN args.list = 1..Len(args.list)
         /\ args.list[1] \in [hash : CtHashes, type : Nat]
<1> DEFINE S == [hash : CtHashes, type : Nat]
           l == args.list
<1>1. l \in Seq(S) /\ l # <<>>
  BY ListsAssumption DEF Begun
<1> HIDE DEF S, l
<1>2. Len(l) \in Nat \ {0} /\ DOMAIN l = 1..Len(l)
  BY <1>1, EmptySeq, LenProperties
<1>3. 1 \in 1..Len(l)
  BY <1>2
<1>4. l[1] \in S
  BY <1>1, <1>3, ElementOfSeq
<1> QED
  BY <1>1, <1>2, <1>4 DEF S, l

\* The tool hashes as the verifier does.
LEMMA ToolHashesAlike == Answered => BatchDigest = answer.signature.digest
<1> SUFFICES ASSUME Answered PROVE BatchDigest = answer.signature.digest
  OBVIOUS
<1>1. DOMAIN args.list = 1..Len(args.list)
  BY BegunList DEF Answered
<1>2. \A ct : PerCtMessageHash(ct, args.fields) = CtMessageHash(ct, args.fields)
  BY DEF PerCtMessageHash, CtMessageHash
<1> QED
  BY <1>1, <1>2 DEF Answered, BatchDigest

\* The contract hashes what the tool printed to the signed digest exactly if it
\* is the contract, on the chain, that the run was for: the first message names
\* both.
LEMMA ContractHashesAlike ==
  ASSUME Answered, printed = Printout,
         NEW caller \in Contracts, IsAddress(caller), NEW chain \in Chains
  PROVE  Keccak([i \in DOMAIN printed.inputs |->
                   InputMessageHash(printed.inputs[i], printed.sender, chain, caller)])
           = answer.signature.digest
         <=> caller = args.fields.contract /\ chain = args.fields.chain
<1> DEFINE f == args.fields
           l == args.list
           g == [zone |-> f.zone, account |-> f.account, chain |-> chain,
                 contract |-> caller]
           theirs == [i \in 1..Len(l) |-> CtMessageHash(l[i], g)]
           ours == [i \in 1..Len(l) |-> CtMessageHash(l[i], f)]
<1>1. /\ f \in RequestFields /\ l \in Seq([hash : CtHashes, type : Nat])
      /\ Len(l) \in Nat \ {0} /\ DOMAIN l = 1..Len(l)
      /\ l[1] \in [hash : CtHashes, type : Nat]
  BY BegunList DEF Answered, Begun
<1>2. /\ Decoded(f) /\ Decoded(g) /\ Len(f.contract) = Len(g.contract)
  BY FieldsAssumption, <1>1
     DEF Answered, Begun, Decoded, RequestFields, Texts, IsAddress
<1>3. [i \in DOMAIN printed.inputs |->
         InputMessageHash(printed.inputs[i], printed.sender, chain, caller)] = theirs
  <2>1. DOMAIN printed.inputs = 1..Len(l) /\ printed.sender = f.account
    BY <1>1 DEF Printout, Answered
  <2>2. ASSUME NEW i \in 1..Len(l)
        PROVE  /\ printed.inputs[i].ctHash = l[i].hash
               /\ printed.inputs[i].utype = l[i].type
               /\ printed.inputs[i].securityZone = f.zone
    BY <1>1 DEF Printout, Answered
  <2>3. ASSUME NEW i \in 1..Len(l)
        PROVE  InputMessageHash(printed.inputs[i], printed.sender, chain, caller)
                 = CtMessageHash(l[i], g)
    <3>1. g.zone = f.zone /\ g.account = f.account /\ g.chain = chain /\ g.contract = caller
      OBVIOUS
    <3> HIDE DEF f, g, l
    <3> QED
      BY <2>1, <2>2, <3>1 DEF InputMessageHash, CtMessageHash
  <2> QED
    BY <2>1, <2>3
<1>4. answer.signature.digest = Keccak(ours)
  BY DEF Answered
<1>5. ASSUME caller = f.contract, chain = f.chain PROVE theirs = ours
  BY <1>5 DEF CtMessageHash
<1>6. ASSUME Keccak(theirs) = Keccak(ours) PROVE caller = f.contract /\ chain = f.chain
  <2>1. theirs[1] = ours[1]
    BY <1>6 DEF Keccak
  <2>2. CtMessageHash(l[1], f) = CtMessageHash(l[1], g)
    BY <2>1, <1>1
  <2>3. f.chain = g.chain /\ f.contract = g.contract
    <3> HIDE DEF f, g, l
    <3> QED
      BY <2>2, <1>1, <1>2, MessageHashNamesFields
  <2> QED
    BY <2>3
<1> HIDE DEF theirs, ours
<1> QED
  BY <1>3, <1>4, <1>5, <1>6

\* For every width of the fields, every list and every set of keys: a green run
\* is a promise the contract keeps, and a red one would be refused.
THEOREM GreenRunMeansAccepted == ClientSpec => []GreenRunIsAccepted
<1>1. ClientInit => Steps
  BY DEF ClientInit, Steps
<1>2. Steps => GreenRunIsAccepted
  <2>1. SUFFICES ASSUME Steps, printed # Nothing
                 PROVE  /\ printed.valid <=> answer.signature.key = expected
                        /\ \A caller \in {c \in Contracts : IsAddress(c)}, chain \in Chains :
                             Accepts(printed, caller, chain, expected)
                               <=> /\ printed.valid
                                   /\ caller = args.fields.contract
                                   /\ chain = args.fields.chain
    BY DEF GreenRunIsAccepted
  <2>2. Answered /\ printed = Printout
    BY <2>1 DEF Steps
  <2>3. /\ printed.signature = answer.signature /\ printed.v = answer.recid + 27
        /\ answer.recid = IF answer.signature.odd THEN 1 ELSE 0
        /\ printed.valid = (Recover(BatchDigest, answer.signature, answer.recid) = expected)
    BY <2>2 DEF Answered, Printout
  <2>4. printed.valid <=> answer.signature.key = expected
    BY <2>2, <2>3, ToolHashesAlike DEF Recover
  <2>5. ASSUME NEW caller \in Contracts, IsAddress(caller), NEW chain \in Chains
        PROVE  Accepts(printed, caller, chain, expected)
                 <=> /\ printed.valid
                     /\ caller = args.fields.contract
                     /\ chain = args.fields.chain
    <3> DEFINE digest == Keccak([i \in DOMAIN printed.inputs |->
                 InputMessageHash(printed.inputs[i], printed.sender, chain, caller)])
    <3>1. Accepts(printed, caller, chain, expected)
            <=> Recover(digest, answer.signature, answer.recid) = expected
      <4>1. /\ printed.v \in {27, 28} /\ printed.v - 27 = answer.recid
            /\ ~ printed.signature.high
        BY <2>2, <2>3 DEF Answered
      <4> QED
        BY <4>1, <2>3 DEF Accepts
    <3>2. digest = answer.signature.digest
            <=> caller = args.fields.contract /\ chain = args.fields.chain
      BY <2>2, <2>5, ContractHashesAlike
    <3> HIDE DEF digest
    <3>3. Nobody # expected
      BY <2>2, NobodyAssumption DEF Answered
    <3> QED
      BY <3>1, <3>2, <3>3, <2>3, <2>4 DEF Recover
  <2> QED
    BY <2>4, <2>5
<1> QED
  BY <1>1, <1>2, StepsNext, VInvInvariant, PTL DEF ClientSpec
=============================================================================
