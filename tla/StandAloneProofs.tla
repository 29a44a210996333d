-------------------------- MODULE StandAloneProofs --------------------------
(***************************************************************************)
(* Theorems about the parts that share no state with a node's consensus:   *)
(* the chain, for any data, of any length and with any number of blocks    *)
(* made beforehand; its Merkle tree, for any number of leaves; the old     *)
(* network, for any number of posters, readers and posts; the buffering    *)
(* and the padding of SHA256, for any block size and any sequence of       *)
(* pieces of any length; the packages and their bytes, for any base and    *)
(* sizes of the fields.                                                    *)
(***************************************************************************)
EXTENDS MerkleTree, NetworkManager, SHA256, PBFTDataPackage,
        SequenceTheorems, WellFoundedInduction, TLAPS

-----------------------------------------------------------------------------
(* Numbers and iteration *)

\* The factors of a product of integers change places.
LEMMA Commutes ==
    ASSUME NEW n \in Int, NEW m \in Int
    PROVE  m * n = n * m
  BY SMT

\* A quotient and a remainder make up the number divided.
LEMMA Division ==
    ASSUME NEW n \in Nat, NEW m \in Nat, m > 0
    PROVE  /\ n \div m \in Nat
           /\ n % m \in 0..(m - 1)
           /\ n = (n \div m) * m + (n % m)
<1>1. n \in Int /\ m \in Int
  OBVIOUS
<1>2. n = m * (n \div m) + (n % m)
  BY <1>1, Z3
<1>3. n \div m \in Nat
  BY <1>1, SMT
<1>4. n % m \in 0..(m - 1)
  BY <1>1, SMT
<1>5. m * (n \div m) = (n \div m) * m
  BY <1>1, <1>3, Commutes
<1>6. n = (n \div m) * m + (n % m)
  BY <1>2, <1>5
<1> QED
  BY <1>3, <1>4, <1>6, Zenon

\* Quotients by which the remainders stay apart are the same.
LEMMA SmallerQuotient ==
    ASSUME NEW m \in Nat, m > 0, NEW q \in Nat, NEW p \in Nat, q < p,
           NEW r \in 0..(m - 1), NEW s \in Nat
    PROVE  q * m + r < p * m + s
<1>1. PICK d \in Nat : p = q + 1 + d
  <2>1. p - (q + 1) \in Nat /\ p = q + 1 + (p - (q + 1))
    OBVIOUS
  <2> QED
    BY <2>1
<1>2. (q + 1 + d) * m = q * m + m + d * m
  BY SMT
<1>3. d * m \in Nat /\ q * m \in Nat
  BY SMT
<1>4. q * m + r < q * m + m + d * m + s
  BY <1>3
<1> QED
  BY <1>1, <1>2, <1>4

\* A number that is so many times m, and less than m more, has that quotient and
\* that remainder.
LEMMA Quotient ==
    ASSUME NEW m \in Nat, m > 0, NEW q \in Nat, NEW r \in 0..(m - 1)
    PROVE  (q * m + r) \div m = q /\ (q * m + r) % m = r
<1>1. PICK n \in Nat : n = q * m + r
  <2>1. q * m \in Nat
    BY SMT
  <2> QED
    BY <2>1
<1>2. PICK p \in Nat, s \in 0..(m - 1) : n \div m = p /\ n % m = s /\ n = p * m + s
  BY Division
<1>3. s \in Nat /\ r \in Nat
  OBVIOUS
<1>4. ~(q < p)
  <2>1. CASE q < p
    <3>1. q * m + r < p * m + s
      BY <1>3, <2>1, SmallerQuotient
    <3> QED
      BY <1>1, <1>2, <3>1
  <2> QED
    BY <2>1
<1>5. ~(p < q)
  <2>1. CASE p < q
    <3>1. p * m + s < q * m + r
      BY <1>3, <2>1, SmallerQuotient
    <3> QED
      BY <1>1, <1>2, <3>1
  <2> QED
    BY <2>1
<1>6. p = q
  BY <1>4, <1>5
<1>7. PICK product \in Nat : product = q * m
  BY SMT
<1>8. r = s
  BY <1>1, <1>2, <1>3, <1>6, <1>7
<1> QED
  BY <1>1, <1>2, <1>6, <1>8

\* A set of naturals that is not empty has a least element.
LEMMA LeastOfNaturals ==
    ASSUME NEW S \in SUBSET Nat, S # {}
    PROVE  \E t \in S : \A u \in S : t <= u
<1>1. PICK t \in S : \A u \in S : ~(<<u, t>> \in OpToRel(<, Nat))
  BY WFMin, NatLessThanWellFounded, Zenon
<1>2. \A u \in S : ~(u < t)
  BY <1>1 DEF OpToRel
<1> QED
  BY <1>2

\* The first n steps from x0, in a set S with a step for each of its elements.
IsStart(g, n, S, step, x0) ==
    /\ g \in [0..n -> S]
    /\ g[0] = x0
    /\ \A k \in 0..(n - 1) : g[k + 1] = step[g[k]]

\* Two of them agree on what both have.
LEMMA StartsAgree ==
    ASSUME NEW S, NEW step \in [S -> S], NEW x0 \in S,
           NEW n \in Nat, NEW m \in Nat, NEW g, NEW h,
           IsStart(g, n, S, step, x0), IsStart(h, m, S, step, x0),
           NEW k \in Nat, k <= n, k <= m
    PROVE  g[k] = h[k]
<1> DEFINE Bad == {j \in Nat : j <= n /\ j <= m /\ g[j] # h[j]}
<1>1. CASE Bad = {}
  BY <1>1
<1>2. CASE Bad # {}
  <2>1. Bad \in SUBSET Nat
    OBVIOUS
  <2> HIDE DEF Bad
  <2>2. PICK j \in Bad : \A i \in Bad : j <= i
    BY <1>2, <2>1, LeastOfNaturals
  <2> USE DEF Bad
  <2>3. j # 0
    BY <2>2 DEF IsStart
  <2>4. j - 1 \in Nat /\ j - 1 \in 0..(n - 1) /\ j - 1 \in 0..(m - 1) /\ (j - 1) + 1 = j /\ j - 1 \notin Bad
    BY <2>2, <2>3
  <2>5. g[j - 1] = h[j - 1]
    BY <2>4
  <2>6. g[j] = step[g[j - 1]] /\ h[j] = step[h[j - 1]]
    BY <2>4 DEF IsStart
  <2> QED
    BY <2>2, <2>5, <2>6
<1> QED
  BY <1>1, <1>2

\* There are as many steps as one likes.
LEMMA StartExists ==
    ASSUME NEW S, NEW step \in [S -> S], NEW x0 \in S, NEW n \in Nat
    PROVE  \E g : IsStart(g, n, S, step, x0)
<1> DEFINE Bad == {j \in Nat : ~ \E g : IsStart(g, j, S, step, x0)}
<1>1. CASE Bad = {}
  BY <1>1
<1>2. CASE Bad # {}
  <2>1. Bad \in SUBSET Nat
    OBVIOUS
  <2> HIDE DEF Bad
  <2>2. PICK j \in Bad : \A i \in Bad : j <= i
    BY <1>2, <2>1, LeastOfNaturals
  <2>3. j # 0
    <3>1. IsStart([i \in 0..0 |-> x0], 0, S, step, x0)
      BY DEF IsStart
    <3>2. 0 \notin Bad
      BY <3>1 DEF Bad
    <3> QED
      BY <2>2, <3>2
  <2>4. j \in Nat /\ j - 1 \in Nat /\ j - 1 \notin Bad
    BY <2>1, <2>2, <2>3
  <2>5. PICK g : IsStart(g, j - 1, S, step, x0)
    BY <2>4 DEF Bad
  <2> DEFINE h == [i \in 0..j |-> IF i = j THEN step[g[j - 1]] ELSE g[i]]
  <2>6. g \in [0..(j - 1) -> S] /\ g[j - 1] \in S
    BY <2>4, <2>5 DEF IsStart
  <2>7. \A i \in 0..j : i # j => i \in 0..(j - 1)
    BY <2>4
  <2>8. h \in [0..j -> S]
    BY <2>6, <2>7
  <2>9. \A i \in 0..(j - 1) : h[i] = g[i]
    BY <2>4
  <2>10. h[j] = step[g[j - 1]]
    BY <2>4
  <2> HIDE DEF h
  <2>11. h[0] = x0
    BY <2>3, <2>4, <2>5, <2>9 DEF IsStart
  <2>12. ASSUME NEW i \in 0..(j - 1) PROVE h[i + 1] = step[h[i]]
    <3>1. CASE i = j - 1
      BY <2>4, <2>9, <2>10, <3>1
    <3>2. CASE i # j - 1
      <4>1. i \in 0..((j - 1) - 1) /\ i + 1 \in 0..(j - 1)
        BY <2>4, <3>2
      <4> QED
        BY <2>5, <2>9, <4>1 DEF IsStart
    <3> QED
      BY <3>1, <3>2
  <2>13. IsStart(h, j, S, step, x0)
    BY <2>8, <2>11, <2>12 DEF IsStart
  <2> QED
    BY <2>2, <2>13 DEF Bad
<1> QED
  BY <1>1, <1>2

\* The steps from x0.
IsIterated(f, S, step, x0) ==
    /\ f \in [Nat -> S]
    /\ f[0] = x0
    /\ \A n \in Nat : f[n + 1] = step[f[n]]

\* A function on the naturals is defined by its first value and a step: what a
\* recursive definition asks for exists.
LEMMA Iteration ==
    ASSUME NEW S, NEW step \in [S -> S], NEW x0 \in S
    PROVE  \E f : IsIterated(f, S, step, x0)
<1> DEFINE start(n) == CHOOSE g : IsStart(g, n, S, step, x0)
           f == [n \in Nat |-> start(n)[n]]
<1>1. ASSUME NEW n \in Nat PROVE IsStart(start(n), n, S, step, x0)
  <2>1. \E g : IsStart(g, n, S, step, x0)
    BY StartExists
  <2> QED
    BY <2>1
<1> HIDE DEF start
<1>2. f \in [Nat -> S]
  <2>1. ASSUME NEW n \in Nat PROVE start(n)[n] \in S
    <3>1. start(n) \in [0..n -> S] /\ n \in 0..n
      BY <1>1 DEF IsStart
    <3> QED
      BY <3>1
  <2> QED
    BY <2>1
<1>3. f[0] = x0
  <2>1. start(0)[0] = x0
    BY <1>1 DEF IsStart
  <2> QED
    BY <2>1
<1>4. ASSUME NEW n \in Nat PROVE f[n + 1] = step[f[n]]
  <2>1. PICK g : g = start(n + 1)
    OBVIOUS
  <2>2. PICK h : h = start(n)
    OBVIOUS
  <2>3. IsStart(g, n + 1, S, step, x0) /\ IsStart(h, n, S, step, x0) /\ n + 1 \in Nat
    BY <1>1, <2>1, <2>2
  <2>4. n <= n + 1 /\ n <= n
    OBVIOUS
  <2>5. g[n] = h[n]
    BY <2>3, <2>4, StartsAgree
  <2>6. g[n + 1] = step[g[n]]
    <3>1. n \in 0..((n + 1) - 1)
      OBVIOUS
    <3> QED
      BY <2>3, <3>1 DEF IsStart
  <2>7. f[n + 1] = g[n + 1] /\ f[n] = h[n]
    BY <2>1, <2>2
  <2> QED
    BY <2>5, <2>6, <2>7
<1> QED
  BY <1>2, <1>3, <1>4, Zenon DEF IsIterated

-----------------------------------------------------------------------------
(* Blockchain *)

AnyData  == Data \cup {"Genesis"}
AnyHash  == {CalculateHash(d) : d \in AnyData} \cup {<<>>}
AnyBlock == [index : Nat, data : AnyData, sPrevHash : AnyHash, hash : AnyHash]

ChainType ==
    /\ m_vChain \in Seq(AnyBlock) /\ Len(m_vChain) >= 1
    /\ made \subseteq AnyBlock

\* A block made has the index of a place there is, or of the next one at most.
MadeNotAhead == \A b \in made : b.index <= Len(m_vChain)

BInv == ChainType /\ Chained /\ IndexNotAhead /\ MadeNotAhead

\* A new block is one.
LEMMA NewBlockType ==
    ASSUME NEW i \in Nat, NEW d \in AnyData
    PROVE  NewBlock(i, d) \in AnyBlock /\ NewBlock(i, d).index = i
  BY DEF NewBlock, AnyBlock, AnyHash

\* What is in the chain stays at its place when a block is appended.
LEMMA Appended ==
    ASSUME ChainType, NEW c \in AnyBlock, m_vChain' = Append(m_vChain, c)
    PROVE  /\ m_vChain' \in Seq(AnyBlock)
           /\ Len(m_vChain') = Len(m_vChain) + 1
           /\ \A k \in 1..Len(m_vChain) : m_vChain'[k] = m_vChain[k]
           /\ m_vChain'[Len(m_vChain) + 1] = c
  BY DEF ChainType

\* The chain of one genesis block.
LEMMA BlockchainInit == ChainInit => BInv
<1> SUFFICES ASSUME ChainInit PROVE BInv
  OBVIOUS
<1>1. NewBlock(0, "Genesis") \in AnyBlock /\ NewBlock(0, "Genesis").index = 0
  BY NewBlockType DEF AnyData
<1>2. m_vChain = <<NewBlock(0, "Genesis")>> /\ made = {}
  BY DEF ChainInit
<1>3. ChainType /\ Len(m_vChain) = 1
  BY <1>1, <1>2 DEF ChainType
<1> QED
  BY <1>1, <1>2, <1>3 DEF BInv, Chained, IndexNotAhead, MadeNotAhead

\* A block made has an index that is not ahead, and one added is chained.
LEMMA BlockchainStep ==
    ASSUME BInv, [ChainNext]_chainVars
    PROVE  BInv'
<1> USE DEF BInv
<1>1. ASSUME NEW d \in Data, MakeBlock(d) PROVE BInv'
  <2> DEFINE b == NewBlock(GetLastBlock.index + 1, d)
  <2>1. GetLastBlock.index \in Nat /\ GetLastBlock.index + 1 <= Len(m_vChain)
    <3>1. Len(m_vChain) \in 1..Len(m_vChain) /\ GetLastBlock \in AnyBlock
      BY DEF ChainType, GetLastBlock
    <3>2. GetLastBlock.index <= Len(m_vChain) - 1
      BY <3>1 DEF IndexNotAhead, GetLastBlock
    <3> QED
      BY <3>1, <3>2 DEF AnyBlock, ChainType
  <2>2. b \in AnyBlock /\ b.index = GetLastBlock.index + 1
    BY <2>1, NewBlockType DEF AnyData
  <2>3. made' = made \cup {b} /\ m_vChain' = m_vChain
    BY <1>1 DEF MakeBlock
  <2> HIDE DEF b
  <2> QED
    BY <2>1, <2>2, <2>3 DEF ChainType, Chained, IndexNotAhead, MadeNotAhead
<1>2. ASSUME NEW b \in made, AddBlock(b) PROVE BInv'
  <2> DEFINE c == [b EXCEPT !.sPrevHash = GetLastBlock.hash, !.hash = CalculateHash(b.data)]
  <2>1. b \in AnyBlock /\ GetLastBlock \in AnyBlock
    BY DEF ChainType, GetLastBlock
  <2>2. /\ c \in AnyBlock
        /\ c.index = b.index
        /\ c.sPrevHash = GetLastBlock.hash
        /\ c.hash = CalculateHash(c.data)
    BY <2>1 DEF AnyBlock, AnyHash
  <2>3. m_vChain' = Append(m_vChain, c) /\ made' \subseteq made
    BY <1>2 DEF AddBlock
  <2> HIDE DEF c
  <2>4. /\ m_vChain' \in Seq(AnyBlock)
        /\ Len(m_vChain') = Len(m_vChain) + 1
        /\ \A k \in 1..Len(m_vChain) : m_vChain'[k] = m_vChain[k]
        /\ m_vChain'[Len(m_vChain) + 1] = c
    BY <2>2, <2>3, Appended
  <2>5. ChainType'
    BY <2>3, <2>4 DEF ChainType
  <2>6. Chained'
    <3>1. \A k \in 2..Len(m_vChain) : k - 1 \in 1..Len(m_vChain) /\ k \in 1..Len(m_vChain)
      BY DEF ChainType
    <3>2. m_vChain'[Len(m_vChain) + 1].sPrevHash = m_vChain'[Len(m_vChain)].hash
      BY <2>2, <2>4 DEF ChainType, GetLastBlock
    <3>3. Len(m_vChain) \in Nat /\ Len(m_vChain) >= 1
      BY DEF ChainType
    <3> SUFFICES ASSUME NEW k \in 2..Len(m_vChain')
                 PROVE  /\ m_vChain'[k].sPrevHash = m_vChain'[k - 1].hash
                        /\ m_vChain'[k].hash = CalculateHash(m_vChain'[k].data)
      BY DEF Chained, CalculateHash, sha256
    <3>4. CASE k = Len(m_vChain) + 1
      <4>1. m_vChain'[k] = c /\ k - 1 = Len(m_vChain)
        BY <2>4, <3>3, <3>4
      <4> QED
        BY <2>2, <3>2, <3>4, <4>1
    <3>5. CASE k # Len(m_vChain) + 1
      <4>1. k \in 2..Len(m_vChain)
        BY <2>4, <3>3, <3>5
      <4>2. m_vChain'[k] = m_vChain[k] /\ m_vChain'[k - 1] = m_vChain[k - 1]
        BY <2>4, <3>1, <4>1
      <4> QED
        BY <4>1, <4>2 DEF Chained
    <3> QED
      BY <3>3, <3>4, <3>5
  <2>7. IndexNotAhead' /\ MadeNotAhead'
    <3>1. b.index \in Nat /\ b.index <= Len(m_vChain)
      BY <2>1 DEF AnyBlock, MadeNotAhead
    <3>2. \A a \in made : a.index \in Nat
      BY DEF ChainType, AnyBlock
    <3>3. IndexNotAhead'
      BY <2>2, <2>4, <3>1 DEF ChainType, IndexNotAhead
    <3>4. MadeNotAhead'
      BY <2>3, <2>4, <3>2 DEF ChainType, MadeNotAhead
    <3> QED
      BY <3>3, <3>4
  <2> QED
    BY <2>5, <2>6, <2>7
<1>3. CASE UNCHANGED chainVars
  BY <1>3 DEF chainVars, ChainType, Chained, IndexNotAhead, MadeNotAhead
<1> QED
  BY <1>1, <1>2, <1>3 DEF ChainNext

-----------------------------------------------------------------------------

\* The chain and the blocks made for it fit together.
THEOREM ChainInvariant == ChainSpec => []BInv
<1>1. BInv /\ [ChainNext]_chainVars => BInv'
  BY BlockchainStep
<1> QED
  BY <1>1, BlockchainInit, PTL DEF ChainSpec

\* However blocks are made and added, each is chained to the one before it
\* (Blockchain.cpp:28).
THEOREM ChainStaysChained == ChainSpec => []Chained
<1>1. BInv => Chained
  BY DEF BInv
<1> QED
  BY <1>1, ChainInvariant, PTL

\* The index a block was given when it was made never exceeds its place
\* (PBFTNode.cpp:481).
THEOREM IndicesNotAhead == ChainSpec => []IndexNotAhead
<1>1. BInv => IndexNotAhead
  BY DEF BInv
<1> QED
  BY <1>1, ChainInvariant, PTL

-----------------------------------------------------------------------------
(* MerkleTree *)

\* A level of the tree, or the hashes of a chain: a sequence, of whatever.
IsList(l) == l \in Seq(Range(l)) /\ Len(l) \in Nat /\ DOMAIN l = 1..Len(l)

\* A function of 1..n is a list.
LEMMA ListOf ==
    ASSUME NEW n \in Nat, NEW l, l = [k \in 1..n |-> l[k]]
    PROVE  IsList(l) /\ Len(l) = n
<1>1. \A k \in 1..n : l[k] \in Range(l)
  BY DEF Range
<1>2. l \in [1..n -> Range(l)]
  BY <1>1
<1>3. l \in Seq(Range(l)) /\ Len(l) = n /\ DOMAIN l = 1..n
  BY <1>2, SeqDef, LenProperties
<1> QED
  BY <1>3 DEF IsList

\* The hashes of a block and of a node tell what is hashed, and one from the other.
LEMMA NodeHash ==
    ASSUME NEW a, NEW b, NEW c, NEW d, sha256(<<a, b>>) = sha256(<<c, d>>)
    PROVE  a = c /\ b = d
  BY DEF sha256

\* No node of a tree has the hash of a block: what is hashed is another thing.
LEMMA BlockHashIsNone ==
    ASSUME NEW a, NEW b, NEW d
    PROVE  sha256(<<a, b>>) # CalculateHash(d)
  BY DEF sha256, CalculateHash

\* A level of even length (l.35-36).
LEMMA EvenLevel ==
    ASSUME NEW l, IsList(l), Len(l) >= 1
    PROVE  \E m \in Nat :
              /\ m >= 1 /\ IsList(Even(l)) /\ Len(Even(l)) = 2 * m
              /\ Len(l) = 2 * m \/ Len(l) = 2 * m - 1
              /\ \A k \in 1..Len(l) : Even(l)[k] = l[k]
              /\ Len(l) = 2 * m - 1 => Even(l)[2 * m] = l[Len(l)]
              /\ Len(l) = 2 * m => Even(l) = l
<1>1. PICK n \in Nat : n = Len(l) /\ n >= 1
  BY DEF IsList
<1>2. CASE n % 2 = 0
  <2>1. PICK m \in Nat : n = 2 * m
    <3>1. n = 2 * (n \div 2) /\ n \div 2 \in Nat
      BY <1>2
    <3> QED
      BY <3>1
  <2>2. Even(l) = l
    BY <1>1, <1>2 DEF Even
  <2>3. m >= 1
    BY <1>1, <2>1
  <2> QED
    BY <1>1, <2>1, <2>2, <2>3
<1>3. CASE n % 2 # 0
  <2>1. PICK m \in Nat : n = 2 * m - 1 /\ m >= 1
    <3>1. PICK h \in Nat : h = n \div 2
      OBVIOUS
    <3>2. n = 2 * (h + 1) - 1 /\ h + 1 \in Nat /\ h + 1 >= 1
      BY <1>3, <3>1
    <3> QED
      BY <3>2
  <2>2. PICK last : last = l[Len(l)]
    OBVIOUS
  <2>3. Even(l) = Append(l, last)
    BY <1>1, <1>3, <2>2 DEF Even
  <2>4. last \in Range(l) /\ l \in Seq(Range(l))
    BY <1>1, <2>2 DEF IsList, Range
  <2>5. PICK e : e = Append(l, last)
    OBVIOUS
  <2>6. /\ e \in Seq(Range(l)) /\ Len(e) = n + 1
        /\ \A k \in 1..n : e[k] = l[k]
        /\ e[n + 1] = last
    BY <1>1, <2>4, <2>5, AppendProperties
  <2>7. e = [k \in 1..(n + 1) |-> e[k]]
    BY <2>6
  <2>8. IsList(e)
    BY <2>7, ListOf
  <2> QED
    BY <1>1, <2>1, <2>2, <2>3, <2>5, <2>6, <2>8
<1> QED
  BY <1>2, <1>3

\* The parents of a level: half as many, each of two neighbours.
LEMMA AboveLevel ==
    ASSUME NEW l, IsList(l), Len(l) >= 1
    PROVE  \E m \in Nat :
              /\ m >= 1 /\ (Len(l) = 2 * m \/ Len(l) = 2 * m - 1)
              /\ IsList(Above(l)) /\ Len(Above(l)) = m
              /\ \A k \in 1..m :
                    Above(l)[k] = Parent(Even(l)[2 * k - 1].vbSelfHash, Even(l)[2 * k].vbSelfHash)
<1>1. PICK m \in Nat : /\ m >= 1 /\ IsList(Even(l)) /\ Len(Even(l)) = 2 * m
                       /\ Len(l) = 2 * m \/ Len(l) = 2 * m - 1
  BY EvenLevel
<1>2. (2 * m) \div 2 = m
  OBVIOUS
<1>3. PICK e : e = Even(l)
  OBVIOUS
<1>4. Above(l) = [k \in 1..m |-> Parent(e[2 * k - 1].vbSelfHash, e[2 * k].vbSelfHash)]
  BY <1>1, <1>2, <1>3 DEF Above
<1>5. PICK a : a = Above(l)
  OBVIOUS
<1>6. a = [k \in 1..m |-> a[k]] /\ \A k \in 1..m : a[k] = Parent(e[2 * k - 1].vbSelfHash, e[2 * k].vbSelfHash)
  BY <1>4, <1>5
<1>7. IsList(a) /\ Len(a) = m
  BY <1>6, ListOf
<1> QED
  BY <1>1, <1>3, <1>5, <1>6, <1>7

\* A level has one node less, at least, than the one below it, if that has two.
LEMMA AboveShrinks ==
    ASSUME NEW l, IsList(l), Len(l) >= 1
    PROVE  /\ IsList(Above(l)) /\ Len(Above(l)) >= 1
           /\ Len(l) # 1 => Len(Above(l)) < Len(l)
<1>1. PICK m \in Nat : /\ m >= 1 /\ (Len(l) = 2 * m \/ Len(l) = 2 * m - 1)
                       /\ IsList(Above(l)) /\ Len(Above(l)) = m
  BY AboveLevel
<1>2. PICK n, above : n = Len(l) /\ above = Len(Above(l))
  OBVIOUS
<1>3. above = m /\ (n = 2 * m \/ n = 2 * m - 1)
  BY <1>1, <1>2
<1>4. above >= 1 /\ (n # 1 => above < n)
  BY <1>1, <1>3
<1> QED
  BY <1>1, <1>2, <1>4, Zenon

-----------------------------------------------------------------------------

\* The first n levels above leaves.
AreLevels(g, n, leaves) ==
    /\ g = [k \in 0..n |-> g[k]]
    /\ g[0] = leaves
    /\ \A k \in 0..(n - 1) : g[k + 1] = Above(g[k])

\* Two accounts of the first levels agree on what both have.
LEMMA LevelsAgree ==
    ASSUME NEW leaves, NEW n \in Nat, NEW m \in Nat, NEW g, NEW h,
           AreLevels(g, n, leaves), AreLevels(h, m, leaves),
           NEW k \in Nat, k <= n, k <= m
    PROVE  g[k] = h[k]
<1> DEFINE Bad == {j \in Nat : j <= n /\ j <= m /\ g[j] # h[j]}
<1>1. CASE Bad = {}
  BY <1>1
<1>2. CASE Bad # {}
  <2>1. Bad \in SUBSET Nat
    OBVIOUS
  <2> HIDE DEF Bad
  <2>2. PICK j \in Bad : \A i \in Bad : j <= i
    BY <1>2, <2>1, LeastOfNaturals
  <2> USE DEF Bad
  <2>3. j # 0
    BY <2>2 DEF AreLevels
  <2>4. j - 1 \in Nat /\ j - 1 \in 0..(n - 1) /\ j - 1 \in 0..(m - 1) /\ (j - 1) + 1 = j /\ j - 1 \notin Bad
    BY <2>2, <2>3
  <2>5. g[j - 1] = h[j - 1]
    BY <2>4
  <2>6. g[j] = Above(g[j - 1]) /\ h[j] = Above(h[j - 1])
    BY <2>4 DEF AreLevels
  <2> QED
    BY <2>2, <2>5, <2>6
<1> QED
  BY <1>1, <1>2

\* There are as many levels as one likes.
LEMMA LevelsExist ==
    ASSUME NEW leaves, NEW n \in Nat
    PROVE  \E g : AreLevels(g, n, leaves)
<1> DEFINE Bad == {j \in Nat : ~ \E g : AreLevels(g, j, leaves)}
<1>1. CASE Bad = {}
  BY <1>1
<1>2. CASE Bad # {}
  <2>1. Bad \in SUBSET Nat
    OBVIOUS
  <2> HIDE DEF Bad
  <2>2. PICK j \in Bad : \A i \in Bad : j <= i
    BY <1>2, <2>1, LeastOfNaturals
  <2>3. j # 0
    <3>1. AreLevels([i \in 0..0 |-> leaves], 0, leaves)
      BY DEF AreLevels
    <3>2. 0 \notin Bad
      BY <3>1 DEF Bad
    <3> QED
      BY <2>2, <3>2
  <2>4. j \in Nat /\ j - 1 \in Nat /\ j - 1 \notin Bad
    BY <2>1, <2>2, <2>3
  <2>5. PICK g : AreLevels(g, j - 1, leaves)
    BY <2>4 DEF Bad
  <2> DEFINE h == [i \in 0..j |-> IF i = j THEN Above(g[j - 1]) ELSE g[i]]
  <2>6. h = [i \in 0..j |-> h[i]]
    OBVIOUS
  <2>7. \A i \in 0..(j - 1) : h[i] = g[i]
    BY <2>4
  <2>8. h[j] = Above(g[j - 1])
    BY <2>4
  <2> HIDE DEF h
  <2>9. h[0] = leaves
    BY <2>4, <2>5, <2>7 DEF AreLevels
  <2>10. ASSUME NEW i \in 0..(j - 1) PROVE h[i + 1] = Above(h[i])
    <3>1. CASE i = j - 1
      BY <2>4, <2>7, <2>8, <3>1
    <3>2. CASE i # j - 1
      <4>1. i \in 0..((j - 1) - 1) /\ i + 1 \in 0..(j - 1)
        BY <2>4, <3>2
      <4> QED
        BY <2>5, <2>7, <4>1 DEF AreLevels
    <3> QED
      BY <3>1, <3>2
  <2>11. AreLevels(h, j, leaves)
    BY <2>6, <2>9, <2>10, Zenon DEF AreLevels
  <2> QED
    BY <2>2, <2>11 DEF Bad
<1> QED
  BY <1>1, <1>2

\* The equation that defines Levels has a solution, so Levels is one.
LEMMA LevelsEquation ==
    ASSUME NEW leaves
    PROVE  Levels(leaves) = [d \in Nat |-> IF d = 0 THEN leaves ELSE Above(Levels(leaves)[d - 1])]
<1> DEFINE start(n) == CHOOSE g : AreLevels(g, n, leaves)
           f == [n \in Nat |-> start(n)[n]]
<1>1. ASSUME NEW n \in Nat PROVE AreLevels(start(n), n, leaves)
  <2>1. \E g : AreLevels(g, n, leaves)
    BY LevelsExist
  <2> QED
    BY <2>1
<1> HIDE DEF start
<1>2. f[0] = leaves
  <2>1. start(0)[0] = leaves
    BY <1>1 DEF AreLevels
  <2> QED
    BY <2>1
<1>3. ASSUME NEW n \in Nat PROVE f[n + 1] = Above(f[n])
  <2>1. PICK g : g = start(n + 1)
    OBVIOUS
  <2>2. PICK h : h = start(n)
    OBVIOUS
  <2>3. AreLevels(g, n + 1, leaves) /\ AreLevels(h, n, leaves) /\ n + 1 \in Nat
    BY <1>1, <2>1, <2>2
  <2>4. n <= n + 1 /\ n <= n
    OBVIOUS
  <2>5. g[n] = h[n]
    BY <2>3, <2>4, LevelsAgree
  <2>6. g[n + 1] = Above(g[n])
    <3>1. n \in 0..((n + 1) - 1)
      OBVIOUS
    <3> QED
      BY <2>3, <3>1 DEF AreLevels
  <2>7. f[n + 1] = g[n + 1] /\ f[n] = h[n]
    BY <2>1, <2>2
  <2> QED
    BY <2>5, <2>6, <2>7
<1>4. ASSUME NEW n \in Nat PROVE f[n] = IF n = 0 THEN leaves ELSE Above(f[n - 1])
  <2>1. CASE n = 0
    BY <1>2, <2>1
  <2>2. CASE n # 0
    <3>1. n - 1 \in Nat /\ (n - 1) + 1 = n
      BY <2>2
    <3> HIDE DEF f
    <3>2. f[(n - 1) + 1] = Above(f[n - 1])
      BY <1>3, <3>1
    <3> QED
      BY <2>2, <3>1, <3>2
  <2> QED
    BY <2>1, <2>2
<1>5. f = [n \in Nat |-> f[n]]
  OBVIOUS
<1> HIDE DEF f
<1>6. f = [d \in Nat |-> IF d = 0 THEN leaves ELSE Above(f[d - 1])]
  BY <1>4, <1>5
<1>7. \E g : g = [d \in Nat |-> IF d = 0 THEN leaves ELSE Above(g[d - 1])]
  BY <1>6
<1> QED
  BY <1>7, Zenon DEF Levels

\* The leaves are the lowest level.
LEMMA LevelZero ==
    ASSUME NEW leaves
    PROVE  Levels(leaves)[0] = leaves
<1>1. PICK level : level = Levels(leaves)
  OBVIOUS
<1>2. level = [d \in Nat |-> IF d = 0 THEN leaves ELSE Above(level[d - 1])]
  BY <1>1, LevelsEquation
<1>3. level[0] = IF 0 = 0 THEN leaves ELSE Above(level[0 - 1])
  BY <1>2
<1> QED
  BY <1>1, <1>3

\* Each level is made from the one below it.
LEMMA LevelNext ==
    ASSUME NEW leaves, NEW d \in Nat
    PROVE  Levels(leaves)[d + 1] = Above(Levels(leaves)[d])
<1>1. PICK level : level = Levels(leaves)
  OBVIOUS
<1>2. level = [c \in Nat |-> IF c = 0 THEN leaves ELSE Above(level[c - 1])]
  BY <1>1, LevelsEquation
<1>3. PICK e \in Nat : e = d + 1 /\ e # 0 /\ e - 1 = d
  OBVIOUS
<1>4. level[e] = IF e = 0 THEN leaves ELSE Above(level[e - 1])
  BY <1>2
<1> QED
  BY <1>1, <1>3, <1>4

\* Every level is one, and has a node.
LEMMA LevelType ==
    ASSUME NEW leaves, IsList(leaves), Len(leaves) >= 1, NEW d \in Nat
    PROVE  IsList(Levels(leaves)[d]) /\ Len(Levels(leaves)[d]) >= 1
<1> DEFINE level == Levels(leaves)
           Bad == {j \in Nat : ~(IsList(level[j]) /\ Len(level[j]) >= 1)}
<1>1. CASE Bad = {}
  BY <1>1
<1>2. CASE Bad # {}
  <2>1. Bad \in SUBSET Nat
    OBVIOUS
  <2> HIDE DEF Bad
  <2>2. PICK j \in Bad : \A i \in Bad : j <= i
    BY <1>2, <2>1, LeastOfNaturals
  <2>3. j # 0
    BY <2>2, LevelZero DEF Bad
  <2>4. j - 1 \in Nat /\ (j - 1) + 1 = j /\ j - 1 \notin Bad
    BY <2>1, <2>2, <2>3
  <2>5. level[j] = Above(level[j - 1])
    BY <2>4, LevelNext
  <2>6. IsList(level[j - 1]) /\ Len(level[j - 1]) >= 1
    BY <2>4 DEF Bad
  <2> HIDE DEF level
  <2>7. IsList(level[j]) /\ Len(level[j]) >= 1
    BY <2>5, <2>6, AboveShrinks
  <2> QED
    BY <2>2, <2>7 DEF Bad
<1> QED
  BY <1>1, <1>2

\* The loop ends: some level, not higher than there are leaves, has one node.
LEMMA LevelOfOne ==
    ASSUME NEW leaves, IsList(leaves), Len(leaves) >= 1
    PROVE  \E d \in 0..Len(leaves) : Len(Levels(leaves)[d]) = 1
<1> SUFFICES ASSUME \A d \in 0..Len(leaves) : Len(Levels(leaves)[d]) # 1 PROVE FALSE
  OBVIOUS
<1>0. PICK level : level = Levels(leaves)
  OBVIOUS
<1>1. PICK n \in Nat : level = Levels(leaves) /\ n = Len(leaves)
  BY <1>0 DEF IsList
<1>2. \A d \in Nat : Len(level[d]) \in Nat /\ Len(level[d]) >= 1
  BY <1>1, LevelType DEF IsList
<1>3. ASSUME NEW d \in 0..n PROVE Len(level[d + 1]) < Len(level[d])
  <2>1. d \in Nat /\ Len(level[d]) # 1
    BY <1>1
  <2>2. level[d + 1] = Above(level[d])
    BY <1>1, <2>1, LevelNext
  <2>3. IsList(level[d]) /\ Len(level[d]) >= 1
    BY <1>1, <2>1, LevelType
  <2> QED
    BY <2>1, <2>2, <2>3, AboveShrinks
<1> DEFINE Bad == {j \in Nat : j <= n /\ ~(Len(level[j]) + j <= n)}
<1>4. CASE Bad = {}
  <2>1. Len(level[n]) + n <= n
    BY <1>4
  <2> QED
    BY <1>2, <2>1
<1>5. CASE Bad # {}
  <2>1. Bad \in SUBSET Nat
    OBVIOUS
  <2> HIDE DEF Bad
  <2>2. PICK j \in Bad : \A i \in Bad : j <= i
    BY <1>5, <2>1, LeastOfNaturals
  <2>3. j \in Nat /\ j <= n /\ ~(Len(level[j]) + j <= n)
    BY <2>2 DEF Bad
  <2>4. j # 0
    <3>1. Len(level[0]) = n
      BY <1>1, LevelZero
    <3> QED
      BY <2>3, <3>1
  <2>5. j - 1 \in Nat /\ (j - 1) + 1 = j /\ j - 1 \notin Bad /\ j - 1 \in 0..n
    BY <2>2, <2>3, <2>4
  <2>6. Len(level[j - 1]) + (j - 1) <= n
    BY <2>3, <2>5 DEF Bad
  <2>7. Len(level[j]) < Len(level[j - 1])
    BY <1>3, <2>5
  <2> QED
    BY <1>2, <2>3, <2>5, <2>6, <2>7
<1> QED
  BY <1>4, <1>5

\* The root's level is the first of one node.
LEMMA DepthOfRoot ==
    ASSUME NEW leaves, IsList(leaves), Len(leaves) >= 1
    PROVE  /\ Depth(leaves) \in Nat
           /\ Len(Levels(leaves)[Depth(leaves)]) = 1
           /\ Len(leaves) # 1 => Depth(leaves) >= 1
<1>0. PICK level : level = Levels(leaves)
  OBVIOUS
<1>1. PICK n \in Nat : level = Levels(leaves) /\ n = Len(leaves)
  BY <1>0 DEF IsList
<1> DEFINE Ones == {d \in Nat : d \in 0..n /\ Len(level[d]) = 1}
<1>2. Ones \in SUBSET Nat /\ Ones # {}
  BY <1>1, LevelOfOne
<1> HIDE DEF Ones
<1>3. PICK d \in Ones : \A c \in Ones : d <= c
  BY <1>2, LeastOfNaturals
<1>4. d \in 0..n /\ Len(level[d]) = 1 /\ \A c \in 0..(d - 1) : Len(level[c]) # 1
  <2>1. d \in 0..n /\ Len(level[d]) = 1
    BY <1>3 DEF Ones
  <2>2. ASSUME NEW c \in 0..(d - 1), Len(level[c]) = 1 PROVE FALSE
    <3>1. c \in Ones /\ c < d
      BY <2>1, <2>2 DEF Ones
    <3> QED
      BY <1>3, <2>1, <3>1
  <2> QED
    BY <2>1, <2>2
<1>5. Depth(leaves) = CHOOSE e \in 0..n : Len(level[e]) = 1 /\ \A c \in 0..(e - 1) : Len(level[c]) # 1
  BY <1>1, Zenon DEF Depth
<1>6. Depth(leaves) \in 0..n /\ Len(level[Depth(leaves)]) = 1
  BY <1>4, <1>5, Zenon
<1>7. n # 1 => Depth(leaves) # 0
  BY <1>1, <1>6, LevelZero
<1> QED
  BY <1>1, <1>6, <1>7

-----------------------------------------------------------------------------

\* The equation that defines PlaceAbove has a solution.
LEMMA PlaceEquation ==
    ASSUME NEW n \in Nat
    PROVE  /\ PlaceAbove(n)[0] = n
           /\ \A d \in Nat : PlaceAbove(n)[d] \in Nat
           /\ \A d \in Nat : PlaceAbove(n)[d + 1] = PlaceAbove(n)[d] \div 2
<1>1. PICK step : step = [p \in Nat |-> p \div 2]
  OBVIOUS
<1>2. step \in [Nat -> Nat]
  BY <1>1
<1>3. PICK f : IsIterated(f, Nat, step, n)
  BY <1>2, Iteration
<1>4. f \in [Nat -> Nat] /\ f[0] = n /\ \A d \in Nat : f[d + 1] = step[f[d]]
  BY <1>3 DEF IsIterated
<1>5. ASSUME NEW d \in Nat PROVE f[d] = IF d = 0 THEN n ELSE f[d - 1] \div 2
  <2>1. CASE d = 0
    BY <1>4, <2>1
  <2>2. CASE d # 0
    <3>1. d - 1 \in Nat /\ (d - 1) + 1 = d
      BY <2>2
    <3>2. f[d] = step[f[d - 1]] /\ f[d - 1] \in Nat
      BY <1>4, <3>1
    <3> QED
      BY <1>1, <2>2, <3>2
  <2> QED
    BY <2>1, <2>2
<1>6. f = [d \in Nat |-> f[d]]
  BY <1>4
<1>7. f = [d \in Nat |-> IF d = 0 THEN n ELSE f[d - 1] \div 2]
  BY <1>5, <1>6
<1>8. \E g : g = [d \in Nat |-> IF d = 0 THEN n ELSE g[d - 1] \div 2]
  BY <1>7
<1>9. PICK place : place = PlaceAbove(n)
  OBVIOUS
<1>10. place = [d \in Nat |-> IF d = 0 THEN n ELSE place[d - 1] \div 2]
  BY <1>8, <1>9, Zenon DEF PlaceAbove
<1>11. place[0] = n
  <2>1. place[0] = IF 0 = 0 THEN n ELSE place[0 - 1] \div 2
    BY <1>10
  <2> QED
    BY <2>1
<1>12. ASSUME NEW d \in Nat PROVE place[d + 1] = place[d] \div 2
  <2>1. PICK e \in Nat : e = d + 1 /\ e # 0 /\ e - 1 = d
    OBVIOUS
  <2>2. place[e] = IF e = 0 THEN n ELSE place[e - 1] \div 2
    BY <1>10
  <2> QED
    BY <2>1, <2>2
<1>13. ASSUME NEW d \in Nat PROVE place[d] \in Nat
  <2> DEFINE Bad == {j \in Nat : place[j] \notin Nat}
  <2>1. CASE Bad = {}
    BY <2>1
  <2>2. CASE Bad # {}
    <3>1. Bad \in SUBSET Nat
      OBVIOUS
    <3> HIDE DEF Bad
    <3>2. PICK j \in Bad : \A i \in Bad : j <= i
      BY <2>2, <3>1, LeastOfNaturals
    <3>3. j # 0
      BY <1>11, <3>2 DEF Bad
    <3>4. j - 1 \in Nat /\ (j - 1) + 1 = j /\ j - 1 \notin Bad
      BY <3>1, <3>2, <3>3
    <3>5. place[j - 1] \in Nat /\ place[j] = place[j - 1] \div 2
      BY <1>12, <3>4 DEF Bad
    <3>6. place[j] \in Nat
      BY <3>5
    <3> QED
      BY <3>2, <3>6 DEF Bad
  <2> QED
    BY <2>1, <2>2
<1> QED
  BY <1>9, <1>11, <1>12, <1>13

\* The place is one of the level.
LEMMA PlaceInLevel ==
    ASSUME NEW leaves, IsList(leaves), Len(leaves) >= 1,
           NEW n \in Nat, n < Len(leaves), NEW d \in Nat
    PROVE  PlaceAbove(n)[d] < Len(Levels(leaves)[d])
<1>1. PICK level, place : level = Levels(leaves) /\ place = PlaceAbove(n)
  OBVIOUS
<1>4. /\ place[0] = n
      /\ \A e \in Nat : place[e] \in Nat
      /\ \A e \in Nat : place[e + 1] = place[e] \div 2
  BY <1>1, PlaceEquation, Zenon
<1> DEFINE Bad == {j \in Nat : ~(place[j] < Len(level[j]))}
<1>2. CASE Bad = {}
  BY <1>1, <1>2
<1>3. CASE Bad # {}
  <2>1. Bad \in SUBSET Nat
    OBVIOUS
  <2> HIDE DEF Bad
  <2>2. PICK j \in Bad : \A i \in Bad : j <= i
    BY <1>3, <2>1, LeastOfNaturals
  <2>3. j # 0
    <3>1. place[0] = n /\ level[0] = leaves
      BY <1>1, <1>4, LevelZero
    <3> QED
      BY <2>2, <3>1 DEF Bad
  <2>4. j - 1 \in Nat /\ (j - 1) + 1 = j /\ j - 1 \notin Bad
    BY <2>1, <2>2, <2>3
  <2>5. place[j] = place[j - 1] \div 2 /\ place[j - 1] \in Nat
    BY <1>4, <2>4
  <2>6. level[j] = Above(level[j - 1]) /\ IsList(level[j - 1]) /\ Len(level[j - 1]) >= 1
    BY <1>1, <2>4, LevelNext, LevelType
  <2>7. PICK m \in Nat : (Len(level[j - 1]) = 2 * m \/ Len(level[j - 1]) = 2 * m - 1) /\ Len(level[j]) = m
    BY <2>6, AboveLevel
  <2>8. place[j - 1] < Len(level[j - 1])
    BY <2>4 DEF Bad
  <2>9. PICK p \in Nat : p = place[j - 1] /\ p < 2 * m
    BY <2>5, <2>7, <2>8
  <2>10. p \div 2 < m
    BY <2>9
  <2>11. place[j] < Len(level[j])
    BY <2>5, <2>7, <2>9, <2>10
  <2> QED
    BY <2>2, <2>11 DEF Bad
<1> QED
  BY <1>2, <1>3

\* The parent of a node lies at half its place, and has its hash on the left or on
\* the right.
LEMMA HashInParent ==
    ASSUME NEW l, IsList(l), Len(l) >= 1, NEW p \in Nat, p < Len(l)
    PROVE  l[p + 1].vbSelfHash \in
              {Above(l)[(p \div 2) + 1].vbLeftHash, Above(l)[(p \div 2) + 1].vbRightHash}
<1>1. PICK m \in Nat :
         /\ m >= 1 /\ (Len(l) = 2 * m \/ Len(l) = 2 * m - 1)
         /\ \A k \in 1..m :
               Above(l)[k] = Parent(Even(l)[2 * k - 1].vbSelfHash, Even(l)[2 * k].vbSelfHash)
  BY AboveLevel
<1>2. PICK k \in Nat : k = (p \div 2) + 1
  OBVIOUS
<1>3. \A j \in 1..Len(l) : Even(l)[j] = l[j]
  BY EvenLevel
<1>4. p + 1 \in 1..Len(l) /\ Len(l) \in Nat
  BY DEF IsList
<1>5. Even(l)[p + 1] = l[p + 1]
  BY <1>3, <1>4
<1>6. k \in 1..m /\ (p + 1 = 2 * k - 1 \/ p + 1 = 2 * k)
  <2>1. p < 2 * m
    BY <1>1, <1>4
  <2> QED
    BY <1>2, <2>1
<1>7. PICK left, right : left = Even(l)[2 * k - 1].vbSelfHash /\ right = Even(l)[2 * k].vbSelfHash
  OBVIOUS
<1>8. Above(l)[k].vbLeftHash = left /\ Above(l)[k].vbRightHash = right
  <2>1. PICK node : node = Above(l)[k]
    OBVIOUS
  <2>2. node = Parent(left, right)
    BY <1>1, <1>6, <1>7, <2>1, Zenon
  <2> QED
    BY <2>1, <2>2 DEF Parent
<1>9. l[p + 1].vbSelfHash = left \/ l[p + 1].vbSelfHash = right
  BY <1>5, <1>6, <1>7
<1> QED
  BY <1>2, <1>8, <1>9

\* The hashes of the blocks of some chain.
AreHashes(hashes) ==
    IsList(hashes) /\ Len(hashes) >= 1 /\ \A k \in 1..Len(hashes) : hashes[k] \in BlockHashes

\* The leaves are those of the hashes, and one more if they are odd in number.
LEMMA LeavesType ==
    ASSUME NEW hashes, IsList(hashes), Len(hashes) >= 1
    PROVE  \E m \in Nat :
              /\ m >= 1 /\ IsList(LeavesOf(hashes)) /\ Len(LeavesOf(hashes)) = 2 * m
              /\ Len(hashes) = 2 * m \/ Len(hashes) = 2 * m - 1
              /\ \A k \in 1..Len(hashes) : LeavesOf(hashes)[k] = Leaf(hashes[k])
              /\ Len(hashes) = 2 * m - 1 => LeavesOf(hashes)[2 * m] = Leaf(hashes[Len(hashes)])
<1>1. PICK n \in Nat : n = Len(hashes) /\ n >= 1 /\ DOMAIN hashes = 1..n
  BY DEF IsList
<1>2. PICK l : l = [k \in 1..n |-> Leaf(hashes[k])]
  OBVIOUS
<1>3. l = [k \in 1..n |-> l[k]] /\ \A k \in 1..n : l[k] = Leaf(hashes[k])
  BY <1>2
<1>4. IsList(l) /\ Len(l) = n
  BY <1>3, ListOf
<1>5. LeavesOf(hashes) = Even(l)
  BY <1>1, <1>2 DEF LeavesOf
<1>6. Len(l) >= 1
  BY <1>1, <1>4
<1>7. PICK m \in Nat :
              /\ m >= 1 /\ IsList(Even(l)) /\ Len(Even(l)) = 2 * m
              /\ Len(l) = 2 * m \/ Len(l) = 2 * m - 1
              /\ \A k \in 1..Len(l) : Even(l)[k] = l[k]
              /\ Len(l) = 2 * m - 1 => Even(l)[2 * m] = l[Len(l)]
  BY <1>4, <1>6, EvenLevel
<1>8. n \in 1..n
  BY <1>1
<1>9. PICK e : e = Even(l)
  OBVIOUS
<1>10. /\ IsList(e) /\ Len(e) = 2 * m /\ (n = 2 * m \/ n = 2 * m - 1)
       /\ \A k \in 1..n : e[k] = Leaf(hashes[k])
       /\ n = 2 * m - 1 => e[2 * m] = Leaf(hashes[n])
  BY <1>3, <1>4, <1>7, <1>8, <1>9
<1> QED
  BY <1>1, <1>5, <1>7, <1>9, <1>10

\* The tree of a chain is the one of its hashes.
LEMMA LeavesAreOfHashes ==
    ASSUME NEW chain, IsList(chain)
    PROVE  /\ Leaves(chain) = LeavesOf(Hashes(chain))
           /\ IsList(Hashes(chain)) /\ Len(Hashes(chain)) = Len(chain)
           /\ \A k \in 1..Len(chain) : Hashes(chain)[k] = chain[k].hash
<1>1. PICK n \in Nat : n = Len(chain) /\ DOMAIN chain = 1..n
  BY DEF IsList
<1>2. PICK h : h = Hashes(chain)
  OBVIOUS
<1>3. h = [k \in 1..n |-> h[k]] /\ \A k \in 1..n : h[k] = chain[k].hash
  BY <1>1, <1>2 DEF Hashes
<1>4. IsList(h) /\ Len(h) = n /\ DOMAIN h = 1..n
  BY <1>3, ListOf
<1> QED
  BY <1>1, <1>2, <1>3, <1>4 DEF Leaves

-----------------------------------------------------------------------------

\* l, and x behind it.
IsAppended(path, l, x) ==
    /\ Len(path) = Len(l) + 1
    /\ \A k \in 1..Len(l) : path[k] = l[k]
    /\ path[Len(l) + 1] = x

\* What a node appended to a list gives.
LEMMA AppendedToList ==
    ASSUME NEW l, IsList(l), NEW x
    PROVE  IsAppended(Append(l, x), l, x)
<1>1. PICK S : S = Range(l) \cup {x}
  OBVIOUS
<1>2. l \in Seq(S) /\ x \in S
  BY <1>1 DEF IsList
<1> QED
  BY <1>2, AppendProperties DEF IsAppended

\* Each node has the next one, or the root, as its parent.
IsPath(nodes) ==
    \A k \in 1..(Len(nodes) - 1) :
        nodes[k].vbSelfHash \in {nodes[k + 1].vbLeftHash, nodes[k + 1].vbRightHash}

\* The nodes from a leaf up, one of each level, are a path to the root.
LEMMA PathToRoot ==
    ASSUME NEW leaves, IsList(leaves), Len(leaves) >= 2, NEW n \in Nat, n < Len(leaves),
           NEW nodes,
           nodes = [d \in 1..Depth(leaves) |-> Levels(leaves)[d - 1][PlaceAbove(n)[d - 1] + 1]],
           NEW root, root = Root(leaves)
    PROVE  IsPath(Append(nodes, root)) /\ Append(nodes, root)[1] = leaves[n + 1]
<1>1. PICK level : level = Levels(leaves)
  OBVIOUS
<1>2. PICK place : place = PlaceAbove(n)
  OBVIOUS
<1>3. PICK depth : depth = Depth(leaves)
  OBVIOUS
<1>4. /\ Len(leaves) >= 1 /\ Len(leaves) # 1
  BY DEF IsList
<1>5. depth \in Nat /\ Len(level[depth]) = 1 /\ depth >= 1
  BY <1>1, <1>3, <1>4, DepthOfRoot
<1>6. nodes = [d \in 1..depth |-> level[d - 1][place[d - 1] + 1]]
  BY <1>1, <1>2, <1>3
<1>7. IsList(nodes) /\ Len(nodes) = depth
  <2>1. nodes = [d \in 1..depth |-> nodes[d]]
    BY <1>6
  <2> QED
    BY <1>5, <2>1, ListOf
<1>8. \A d \in 1..depth : nodes[d] = level[d - 1][place[d - 1] + 1]
  BY <1>6
<1>9. root = level[depth][1]
  BY <1>1, <1>3, Zenon DEF Root
<1>10. PICK path : path = Append(nodes, root)
  OBVIOUS
<1>11. /\ Len(path) = depth + 1
       /\ \A d \in 1..depth : path[d] = nodes[d]
       /\ path[depth + 1] = root
  <2>1. IsAppended(path, nodes, root)
    BY <1>7, <1>10, AppendedToList, Zenon
  <2> QED
    BY <1>7, <2>1, Zenon DEF IsAppended
<1>12. /\ place[0] = n
       /\ \A e \in Nat : place[e] \in Nat
       /\ \A e \in Nat : place[e + 1] = place[e] \div 2
  BY <1>2, PlaceEquation, Zenon
<1>13. place[depth] = 0
  <2>1. place[depth] < Len(level[depth])
    BY <1>1, <1>2, <1>4, <1>5, PlaceInLevel
  <2>2. PICK p \in Nat : p = place[depth]
    BY <1>5, <1>12
  <2>3. p < 1
    BY <1>5, <2>1, <2>2, Zenon
  <2> QED
    BY <2>2, <2>3
<1>14. \A d \in 0..depth : path[d + 1] = level[d][place[d] + 1]
  <2> TAKE d \in 0..depth
  <2>1. CASE d = depth
    BY <1>5, <1>9, <1>11, <1>13, <2>1
  <2>2. CASE d # depth
    <3>1. PICK e \in 1..depth : e = d + 1 /\ e - 1 = d
      BY <1>5, <2>2
    <3>2. path[e] = nodes[e] /\ nodes[e] = level[e - 1][place[e - 1] + 1]
      BY <1>8, <1>11, Zenon
    <3> QED
      BY <3>1, <3>2, Zenon
  <2> QED
    BY <2>1, <2>2
<1>15. path[1] = leaves[n + 1]
  <2>1. level[0] = leaves
    BY <1>1, LevelZero
  <2>2. 0 \in 0..depth /\ 0 + 1 = 1
    BY <1>5
  <2>3. path[0 + 1] = level[0][place[0] + 1]
    BY <1>14, <2>2
  <2> QED
    BY <1>12, <2>1, <2>2, <2>3
<1>16. ASSUME NEW k \in 1..depth
       PROVE  path[k].vbSelfHash \in {path[k + 1].vbLeftHash, path[k + 1].vbRightHash}
  <2>1. PICK d \in Nat : d = k - 1 /\ d + 1 = k /\ d \in 0..depth /\ k \in 0..depth
    BY <1>5
  <2>2. PICK l : l = level[d]
    OBVIOUS
  <2>3. level[k] = Above(l)
    BY <1>1, <2>1, <2>2, LevelNext
  <2>4. PICK p \in Nat : p = place[d]
    BY <1>12
  <2>5. IsList(l) /\ Len(l) >= 1
    BY <1>1, <1>4, <2>2, LevelType
  <2>6. p < Len(l)
    BY <1>1, <1>2, <1>4, <2>2, <2>4, PlaceInLevel
  <2>7. place[k] = p \div 2
    BY <1>12, <2>1, <2>4
  <2>8. path[k] = l[p + 1] /\ path[k + 1] = Above(l)[(p \div 2) + 1]
    BY <1>14, <2>1, <2>2, <2>3, <2>4, <2>7
  <2>9. l[p + 1].vbSelfHash \in {Above(l)[(p \div 2) + 1].vbLeftHash, Above(l)[(p \div 2) + 1].vbRightHash}
    BY <2>5, <2>6, HashInParent
  <2> QED
    BY <2>8, <2>9
<1>17. IsPath(path)
  <2>1. 1..(Len(path) - 1) = 1..depth
    BY <1>5, <1>11
  <2> QED
    BY <1>16, <2>1 DEF IsPath
<1> QED
  BY <1>10, <1>15, <1>17

\* The blocks carry hashes of blocks.
ChainHashes == \A k \in 1..Len(m_vChain) : m_vChain[k].hash \in BlockHashes

\* The tree is the one of the first blocks of the chain.
TreeOfPrefix ==
    /\ AreHashes(blocks) /\ Len(blocks) <= Len(m_vChain)
    /\ \A k \in 1..Len(blocks) : m_vChain[k].hash = blocks[k]
    /\ m_leaves = LeavesOf(blocks)

\* A root kept is the one of the hashes kept with it.
RootsOfBlocks ==
    \A r \in roots : AreHashes(r.blocks) /\ r.root = Root(LeavesOf(r.blocks)).vbSelfHash

\* The tree, its roots and its last proof are of blocks of the chain.
MerkleInv == BInv /\ ChainHashes /\ TreeOfPrefix /\ RootsOfBlocks /\ ProofLeadsToRoot

\* The chain is a list, with the genesis block at least.
LEMMA ChainIsList ==
    ASSUME ChainType
    PROVE  IsList(m_vChain) /\ Len(m_vChain) >= 1
<1>1. PICK n \in Nat : n = Len(m_vChain)
  BY DEF ChainType
<1>2. m_vChain = [k \in 1..n |-> m_vChain[k]]
  BY <1>1 DEF ChainType
<1> QED
  BY <1>2, ListOf DEF ChainType

\* The tree built from the chain there is.
LEMMA TreeBuilt ==
    ASSUME ChainType, ChainHashes
    PROVE  /\ AreHashes(Hashes(m_vChain)) /\ Len(Hashes(m_vChain)) = Len(m_vChain)
           /\ \A k \in 1..Len(Hashes(m_vChain)) : m_vChain[k].hash = Hashes(m_vChain)[k]
           /\ Leaves(m_vChain) = LeavesOf(Hashes(m_vChain))
           /\ \A r : r = BuiltFrom(m_vChain) =>
                 AreHashes(r.blocks) /\ r.root = Root(LeavesOf(r.blocks)).vbSelfHash
<1>1. IsList(m_vChain) /\ Len(m_vChain) >= 1
  BY ChainIsList
<1>2. /\ Leaves(m_vChain) = LeavesOf(Hashes(m_vChain))
      /\ IsList(Hashes(m_vChain)) /\ Len(Hashes(m_vChain)) = Len(m_vChain)
      /\ \A k \in 1..Len(m_vChain) : Hashes(m_vChain)[k] = m_vChain[k].hash
  BY <1>1, LeavesAreOfHashes
<1>3. AreHashes(Hashes(m_vChain))
  BY <1>1, <1>2 DEF AreHashes, ChainHashes
<1>4. ASSUME NEW r, r = BuiltFrom(m_vChain)
      PROVE  AreHashes(r.blocks) /\ r.root = Root(LeavesOf(r.blocks)).vbSelfHash
  <2>1. r.blocks = Hashes(m_vChain) /\ r.root = Root(LeavesOf(Hashes(m_vChain))).vbSelfHash
    BY <1>4 DEF BuiltFrom, TreeOf
  <2> QED
    BY <1>2, <1>3, <2>1
<1> QED
  BY <1>2, <1>3, <1>4

\* The chain only grows, by blocks that carry hashes of blocks.
LEMMA ChainGrows ==
    ASSUME BInv, ChainHashes, [ChainNext]_chainVars
    PROVE  /\ ChainHashes' /\ Len(m_vChain') \in Nat /\ Len(m_vChain') >= Len(m_vChain)
           /\ \A k \in 1..Len(m_vChain) : m_vChain'[k] = m_vChain[k]
<1>0. ChainType
  BY DEF BInv
<1>1. CASE UNCHANGED m_vChain
  BY <1>0, <1>1 DEF ChainHashes, ChainType
<1>2. ASSUME NEW b \in made, AddBlock(b)
      PROVE  /\ ChainHashes' /\ Len(m_vChain') \in Nat /\ Len(m_vChain') >= Len(m_vChain)
             /\ \A k \in 1..Len(m_vChain) : m_vChain'[k] = m_vChain[k]
  <2> DEFINE c == [b EXCEPT !.sPrevHash = GetLastBlock.hash, !.hash = CalculateHash(b.data)]
  <2>1. b \in AnyBlock /\ GetLastBlock \in AnyBlock
    BY <1>0 DEF ChainType, GetLastBlock
  <2>2. c \in AnyBlock /\ c.hash \in BlockHashes
    BY <2>1 DEF AnyBlock, AnyHash, AnyData, BlockHashes
  <2>3. m_vChain' = Append(m_vChain, c)
    BY <1>2 DEF AddBlock
  <2> HIDE DEF c
  <2>4. /\ m_vChain' \in Seq(AnyBlock)
        /\ Len(m_vChain') = Len(m_vChain) + 1
        /\ \A k \in 1..Len(m_vChain) : m_vChain'[k] = m_vChain[k]
        /\ m_vChain'[Len(m_vChain) + 1] = c
    BY <1>0, <2>2, <2>3, Appended
  <2>5. Len(m_vChain) \in Nat
    BY <1>0 DEF ChainType
  <2>6. ASSUME NEW k \in 1..Len(m_vChain') PROVE m_vChain'[k].hash \in BlockHashes
    <3>1. CASE k \in 1..Len(m_vChain)
      BY <2>4, <3>1 DEF ChainHashes
    <3>2. CASE k = Len(m_vChain) + 1
      BY <2>2, <2>4, <3>2
    <3> QED
      BY <2>4, <2>5, <3>1, <3>2
  <2> QED
    BY <2>4, <2>5, <2>6 DEF ChainHashes, BlockHashes
<1> QED
  BY <1>1, <1>2 DEF ChainNext, MakeBlock, chainVars

\* The first tree is the one of the genesis block.
LEMMA TreeStart == TreeInit => MerkleInv
<1> SUFFICES ASSUME TreeInit PROVE MerkleInv
  OBVIOUS
<1>1. BInv /\ ChainType
  BY BlockchainInit DEF TreeInit, BInv
<1>2. ChainHashes
  BY DEF TreeInit, ChainInit, NewBlock, ChainHashes, BlockHashes, AnyData
<1>3. /\ blocks = Hashes(m_vChain) /\ m_leaves = Leaves(m_vChain)
      /\ roots = {BuiltFrom(m_vChain)}
      /\ proof.nodes = <<>>
  BY DEF TreeInit, NoProof
<1>4. TreeOfPrefix
  <2>1. Len(m_vChain) \in Nat
    BY <1>1 DEF ChainType
  <2> QED
    BY <1>1, <1>2, <1>3, <2>1, TreeBuilt DEF TreeOfPrefix
<1>5. RootsOfBlocks
  BY <1>1, <1>2, <1>3, TreeBuilt DEF RootsOfBlocks
<1> QED
  BY <1>1, <1>2, <1>3, <1>4, <1>5 DEF MerkleInv, ProofLeadsToRoot

\* A proof of a block that was in the chain when the tree was built.
LEMMA ProofGiven ==
    ASSUME MerkleInv, NEW n \in Nat, GetMerkleProof(n)
    PROVE  ProofLeadsToRoot'
<1>1. PICK nodes : nodes =
         [d \in 1..Depth(m_leaves) |-> Levels(m_leaves)[d - 1][PlaceAbove(n)[d - 1] + 1]]
  OBVIOUS
<1>2. PICK root : root = Root(m_leaves)
  OBVIOUS
<1>3. /\ proof'.number = n /\ proof'.nodes = nodes /\ proof'.root = root
      /\ proof'.hash = m_vChain[n + 1].hash /\ proof'.built = Len(blocks)
      /\ n < Len(m_leaves)
  <2>1. PICK hash, built : hash = m_vChain[n + 1].hash /\ built = Len(blocks)
    OBVIOUS
  <2>2. proof' = [number |-> n, hash |-> hash, nodes |-> nodes, root |-> root, built |-> built]
    BY <1>1, <1>2, <2>1, Zenon DEF GetMerkleProof
  <2>3. n < Len(m_leaves)
    BY DEF GetMerkleProof
  <2>4. PICK p : p = [number |-> n, hash |-> hash, nodes |-> nodes, root |-> root, built |-> built]
    OBVIOUS
  <2>5. /\ p.number = n /\ p.nodes = nodes /\ p.root = root
        /\ p.hash = hash /\ p.built = built
    BY <2>4
  <2>6. proof' = p
    BY <2>2, <2>4, Zenon
  <2> QED
    BY <2>1, <2>3, <2>5, <2>6, Zenon
<1>4. PICK m \in Nat : /\ m >= 1 /\ IsList(m_leaves) /\ Len(m_leaves) = 2 * m
                       /\ \A k \in 1..Len(blocks) : m_leaves[k] = Leaf(blocks[k])
  <2>1. IsList(blocks) /\ Len(blocks) >= 1
    BY DEF MerkleInv, TreeOfPrefix, AreHashes
  <2> QED
    BY <2>1, LeavesType DEF MerkleInv, TreeOfPrefix
<1>5. Len(m_leaves) >= 2
  BY <1>4
<1>6. IsPath(Append(nodes, root)) /\ Append(nodes, root)[1] = m_leaves[n + 1]
  <2>1. IsList(m_leaves) /\ Len(m_leaves) >= 2 /\ n < Len(m_leaves)
    BY <1>3, <1>4, <1>5
  <2> QED
    BY <1>1, <1>2, <2>1, PathToRoot, ZenonT(30)
<1>7. ASSUME n < Len(blocks) PROVE m_leaves[n + 1].vbSelfHash = m_vChain[n + 1].hash
  <2>1. n + 1 \in 1..Len(blocks)
    BY <1>7 DEF MerkleInv, TreeOfPrefix, AreHashes, IsList
  <2>2. m_leaves[n + 1] = Leaf(blocks[n + 1]) /\ m_vChain[n + 1].hash = blocks[n + 1]
    BY <1>4, <2>1 DEF MerkleInv, TreeOfPrefix
  <2> QED
    BY <2>2 DEF Leaf
<1>8. PICK path : path = Append(nodes, root)
  OBVIOUS
<1>9. n < Len(blocks) => path[1].vbSelfHash = proof'.hash
  BY <1>3, <1>6, <1>7, <1>8
<1>10. \A k \in 1..(Len(path) - 1) :
          path[k].vbSelfHash \in {path[k + 1].vbLeftHash, path[k + 1].vbRightHash}
  BY <1>6, <1>8 DEF IsPath
<1>11. Append(proof'.nodes, proof'.root) = path
  BY <1>3, <1>8
<1> QED
  BY <1>3, <1>9, <1>10, <1>11, Zenon DEF ProofLeadsToRoot

\* Blocks made and added leave the tree behind the chain, RebuildTree catches up, and
\* GetMerkleProof reads the tree there is.
LEMMA TreeStep ==
    ASSUME MerkleInv, [TreeNext]_treeVars
    PROVE  MerkleInv'
<1>1. BInv /\ ChainType /\ ChainHashes /\ [ChainNext]_chainVars
  BY DEF MerkleInv, BInv, TreeNext, RebuildTree, GetMerkleProof, treeVars, chainVars
<1>2. BInv' /\ ChainHashes' /\ ChainType'
  BY <1>1, BlockchainStep, ChainGrows DEF BInv
<1>3. TreeOfPrefix'
  <2>1. CASE RebuildTree
    <3>1. m_leaves' = Leaves(m_vChain) /\ blocks' = Hashes(m_vChain) /\ m_vChain' = m_vChain
      BY <2>1 DEF RebuildTree, chainVars
    <3>2. Len(m_vChain) \in Nat
      BY <1>1 DEF ChainType
    <3> QED
      BY <1>1, <3>1, <3>2, TreeBuilt DEF TreeOfPrefix, AreHashes, BlockHashes
  <2>2. CASE UNCHANGED <<m_leaves, blocks>>
    <3>1. Len(blocks) \in Nat /\ Len(m_vChain) \in Nat /\ Len(blocks) <= Len(m_vChain)
      BY <1>1 DEF MerkleInv, TreeOfPrefix, AreHashes, IsList, ChainType
    <3>2. /\ Len(m_vChain') \in Nat /\ Len(m_vChain') >= Len(m_vChain)
          /\ \A k \in 1..Len(m_vChain) : m_vChain'[k] = m_vChain[k]
      BY <1>1, ChainGrows
    <3>3. 1..Len(blocks) \subseteq 1..Len(m_vChain) /\ Len(blocks) <= Len(m_vChain')
      BY <3>1, <3>2
    <3>4. blocks' = blocks /\ m_leaves' = m_leaves
      BY <2>2
    <3>5. \A k \in 1..Len(blocks) : m_vChain'[k].hash = blocks[k]
      BY <3>2, <3>3 DEF MerkleInv, TreeOfPrefix
    <3>6. AreHashes(blocks)' 
      BY <3>4 DEF MerkleInv, TreeOfPrefix, AreHashes, BlockHashes
    <3> QED
      BY <3>3, <3>4, <3>5, <3>6 DEF MerkleInv, TreeOfPrefix
  <2> QED
    BY <2>1, <2>2 DEF TreeNext, GetMerkleProof, treeVars
<1>4. RootsOfBlocks'
  <2>1. CASE RebuildTree
    <3>1. roots' = roots \cup {BuiltFrom(m_vChain)}
      BY <2>1 DEF RebuildTree
    <3>2. \A r \in roots' : AreHashes(r.blocks) /\ r.root = Root(LeavesOf(r.blocks)).vbSelfHash
      BY <1>1, <3>1, TreeBuilt DEF MerkleInv, RootsOfBlocks
    <3> QED
      BY <3>2 DEF RootsOfBlocks, AreHashes, BlockHashes
  <2>2. CASE UNCHANGED roots
    BY <2>2 DEF MerkleInv, RootsOfBlocks, AreHashes, BlockHashes
  <2> QED
    BY <2>1, <2>2 DEF TreeNext, GetMerkleProof, treeVars
<1>5. ProofLeadsToRoot'
  <2>1. ASSUME NEW n \in 0..(Len(m_vChain) - 1), GetMerkleProof(n) PROVE ProofLeadsToRoot'
    <3>1. n \in Nat
      BY <1>1 DEF ChainType
    <3> QED
      BY <2>1, <3>1, ProofGiven
  <2>2. CASE UNCHANGED proof
    BY <2>2 DEF MerkleInv, ProofLeadsToRoot
  <2> QED
    BY <2>1, <2>2 DEF TreeNext, RebuildTree, treeVars
<1> QED
  BY <1>2, <1>3, <1>4, <1>5 DEF MerkleInv

\* The tree is the one of the blocks the chain had at the last RebuildTree, the first
\* ones of the chain there is, every root kept is the one of the hashes kept with it,
\* and the last proof leads to the root it was taken from, for any data and any length
\* of the chain (MerkleTree.cpp:5-79).
THEOREM TreeInvariant == TreeInit /\ [][TreeNext]_treeVars => []MerkleInv
<1>1. TreeInit => MerkleInv
  BY TreeStart
<1>2. MerkleInv /\ [TreeNext]_treeVars => MerkleInv'
  BY TreeStep
<1> QED
  BY <1>1, <1>2, PTL

\* The proof GetMerkleProof gives of a block of the tree begins with its hash and goes
\* up to a child of the root, for every length of the chain (MerkleTree.cpp:65-79).
THEOREM ProofsLeadToRoot == TreeInit /\ [][TreeNext]_treeVars => []ProofLeadsToRoot
<1>1. MerkleInv => ProofLeadsToRoot
  BY DEF MerkleInv
<1> QED
  BY <1>1, TreeInvariant, PTL

\* Levels with the same hashes.
SameSelfs(l, r) ==
    Len(l) = Len(r) /\ \A k \in 1..Len(l) : l[k].vbSelfHash = r[k].vbSelfHash

\* A level whose nodes all have hashes of their own.
Distinct(l) ==
    \A i, j \in 1..Len(l) : l[i].vbSelfHash = l[j].vbSelfHash => i = j

\* The nodes on the left of their parents have hashes of their own.
LeftDistinct(l) ==
    \A i, j \in Nat \ {0} :
        2 * i - 1 <= Len(l) /\ 2 * j - 1 <= Len(l)
            /\ l[2 * i - 1].vbSelfHash = l[2 * j - 1].vbSelfHash => i = j

\* The hash of a parent.
LEMMA ParentHash ==
    ASSUME NEW l, IsList(l), Len(l) >= 1, NEW k \in 1..Len(Above(l))
    PROVE  Above(l)[k].vbSelfHash =
              sha256(<<Even(l)[2 * k - 1].vbSelfHash, Even(l)[2 * k].vbSelfHash>>)
<1>1. PICK m \in Nat :
         /\ Len(Above(l)) = m
         /\ \A i \in 1..m :
               Above(l)[i] = Parent(Even(l)[2 * i - 1].vbSelfHash, Even(l)[2 * i].vbSelfHash)
  BY AboveLevel
<1>2. PICK left : left = Even(l)[2 * k - 1].vbSelfHash
  OBVIOUS
<1>3. PICK right : right = Even(l)[2 * k].vbSelfHash
  OBVIOUS
<1>4. PICK node : node = Above(l)[k]
  OBVIOUS
<1>5. node = Parent(left, right)
  BY <1>1, <1>2, <1>3, <1>4, Zenon
<1>6. node.vbSelfHash = sha256(<<left, right>>)
  BY <1>5 DEF Parent
<1> QED
  BY <1>2, <1>3, <1>4, <1>6, Zenon

\* Parents with the same hashes have children with the same hashes.
LEMMA SameBelow ==
    ASSUME NEW l, IsList(l), Len(l) >= 1, NEW r, IsList(r), Len(r) >= 1,
           SameSelfs(Above(l), Above(r))
    PROVE  SameSelfs(Even(l), Even(r))
<1>1. PICK m \in Nat : /\ m >= 1 /\ (Len(l) = 2 * m \/ Len(l) = 2 * m - 1)
                       /\ Len(Above(l)) = m
  BY AboveLevel
<1>2. PICK n \in Nat : /\ n >= 1 /\ (Len(r) = 2 * n \/ Len(r) = 2 * n - 1)
                       /\ Len(Above(r)) = n
  BY AboveLevel
<1>3. m = n
  BY <1>1, <1>2 DEF SameSelfs
<1>4. PICK e : e = Even(l)
  OBVIOUS
<1>5. PICK f : f = Even(r)
  OBVIOUS
<1>6. Len(e) = 2 * m
  <2>1. PICK i \in Nat : Len(Even(l)) = 2 * i /\ (Len(l) = 2 * i \/ Len(l) = 2 * i - 1)
    BY EvenLevel
  <2> QED
    BY <1>1, <1>4, <2>1
<1>7. Len(f) = 2 * m
  <2>1. PICK i \in Nat : Len(Even(r)) = 2 * i /\ (Len(r) = 2 * i \/ Len(r) = 2 * i - 1)
    BY EvenLevel
  <2> QED
    BY <1>2, <1>3, <1>5, <2>1
<1>8. ASSUME NEW k \in 1..m
      PROVE  /\ e[2 * k - 1].vbSelfHash = f[2 * k - 1].vbSelfHash
             /\ e[2 * k].vbSelfHash = f[2 * k].vbSelfHash
  <2>1. PICK a, b : a = e[2 * k - 1].vbSelfHash /\ b = e[2 * k].vbSelfHash
    OBVIOUS
  <2>2. PICK c, d : c = f[2 * k - 1].vbSelfHash /\ d = f[2 * k].vbSelfHash
    OBVIOUS
  <2>3. Above(l)[k].vbSelfHash = sha256(<<a, b>>)
    <3>1. k \in 1..Len(Above(l))
      BY <1>1
    <3>2. Above(l)[k].vbSelfHash =
              sha256(<<Even(l)[2 * k - 1].vbSelfHash, Even(l)[2 * k].vbSelfHash>>)
      BY <3>1, ParentHash
    <3> QED
      BY <1>4, <2>1, <3>2, Zenon
  <2>4. Above(r)[k].vbSelfHash = sha256(<<c, d>>)
    <3>1. k \in 1..Len(Above(r))
      BY <1>2, <1>3
    <3>2. Above(r)[k].vbSelfHash =
              sha256(<<Even(r)[2 * k - 1].vbSelfHash, Even(r)[2 * k].vbSelfHash>>)
      BY <3>1, ParentHash
    <3> QED
      BY <1>5, <2>2, <3>2, Zenon
  <2>5. sha256(<<a, b>>) = sha256(<<c, d>>)
    BY <1>1, <2>3, <2>4 DEF SameSelfs
  <2>6. a = c /\ b = d
    BY <2>5, NodeHash
  <2> QED
    BY <2>1, <2>2, <2>6, Zenon
<1>9. ASSUME NEW i \in 1..(2 * m) PROVE e[i].vbSelfHash = f[i].vbSelfHash
  <2>1. CASE i % 2 = 0
    <3>1. PICK k \in 1..m : i = 2 * k
      <4>1. i \div 2 \in 1..m /\ i = 2 * (i \div 2)
        BY <2>1
      <4> QED
        BY <4>1
    <3> QED
      BY <1>8, <3>1
  <2>2. CASE i % 2 # 0
    <3>1. PICK k \in 1..m : i = 2 * k - 1
      <4>1. PICK h \in Nat : h = i \div 2
        OBVIOUS
      <4>2. h + 1 \in 1..m /\ i = 2 * (h + 1) - 1
        BY <2>2, <4>1
      <4> QED
        BY <4>2
    <3> QED
      BY <1>8, <3>1
  <2> QED
    BY <2>1, <2>2
<1>10. SameSelfs(e, f)
  BY <1>6, <1>7, <1>9 DEF SameSelfs
<1> QED
  BY <1>4, <1>5, <1>10, Zenon

\* If the left ones have hashes of their own, so have the parents.
LEMMA DistinctAbove ==
    ASSUME NEW l, IsList(l), Len(l) >= 1, LeftDistinct(l)
    PROVE  Distinct(Above(l))
<1>1. PICK m \in Nat : /\ m >= 1 /\ (Len(l) = 2 * m \/ Len(l) = 2 * m - 1)
                       /\ Len(Above(l)) = m
  BY AboveLevel
<1>2. \A k \in 1..Len(l) : Even(l)[k] = l[k]
  BY EvenLevel
<1>3. ASSUME NEW i \in 1..m, NEW j \in 1..m, Above(l)[i].vbSelfHash = Above(l)[j].vbSelfHash
      PROVE  i = j
  <2>1. i \in 1..Len(Above(l)) /\ j \in 1..Len(Above(l))
    BY <1>1
  <2>2. PICK a, b : a = Even(l)[2 * i - 1].vbSelfHash /\ b = Even(l)[2 * i].vbSelfHash
    OBVIOUS
  <2>3. PICK c, d : c = Even(l)[2 * j - 1].vbSelfHash /\ d = Even(l)[2 * j].vbSelfHash
    OBVIOUS
  <2>4. Above(l)[i].vbSelfHash = sha256(<<a, b>>)
    BY <2>1, <2>2, ParentHash, Zenon
  <2>5. Above(l)[j].vbSelfHash = sha256(<<c, d>>)
    BY <2>1, <2>3, ParentHash, Zenon
  <2>6. a = c
    BY <1>3, <2>4, <2>5, NodeHash
  <2>7. /\ 2 * i - 1 \in 1..Len(l) /\ 2 * j - 1 \in 1..Len(l) 
        /\ 2 * i - 1 <= Len(l) /\ 2 * j - 1 <= Len(l) /\ i \in Nat \ {0} /\ j \in Nat \ {0}
    BY <1>1
  <2>8. l[2 * i - 1].vbSelfHash = l[2 * j - 1].vbSelfHash
    BY <1>2, <2>2, <2>3, <2>6, <2>7
  <2> QED
    BY <2>7, <2>8, Zenon DEF LeftDistinct
<1> QED
  BY <1>1, <1>3 DEF Distinct

\* Where all have hashes of their own, the ones on the left have.
LEMMA DistinctLeft ==
    ASSUME NEW l, IsList(l), Distinct(l)
    PROVE  LeftDistinct(l)
<1> SUFFICES ASSUME NEW i \in Nat \ {0}, NEW j \in Nat \ {0},
                    2 * i - 1 <= Len(l), 2 * j - 1 <= Len(l),
                    l[2 * i - 1].vbSelfHash = l[2 * j - 1].vbSelfHash
             PROVE  i = j
  BY DEF LeftDistinct
<1>1. PICK a : a = 2 * i - 1
  OBVIOUS
<1>2. PICK b : b = 2 * j - 1
  OBVIOUS
<1>3. Len(l) \in Nat
  BY DEF IsList
<1>4. a \in 1..Len(l) /\ b \in 1..Len(l)
  BY <1>1, <1>2, <1>3
<1>5. l[a].vbSelfHash = l[b].vbSelfHash
  BY <1>1, <1>2, Zenon
<1>6. a = b
  BY <1>4, <1>5, Zenon DEF Distinct
<1> QED
  BY <1>1, <1>2, <1>6

\* Two levels with hashes of their own are the same, if they are once even.
LEMMA SameOfEven ==
    ASSUME NEW l, IsList(l), Len(l) >= 1, Distinct(l), NEW r, IsList(r), Len(r) >= 1, Distinct(r),
           SameSelfs(Even(l), Even(r))
    PROVE  SameSelfs(l, r)
<1>1. PICK m \in Nat :
              /\ m >= 1 /\ Len(Even(l)) = 2 * m
              /\ Len(l) = 2 * m \/ Len(l) = 2 * m - 1
              /\ \A k \in 1..Len(l) : Even(l)[k] = l[k]
              /\ Len(l) = 2 * m - 1 => Even(l)[2 * m] = l[Len(l)]
  BY EvenLevel
<1>2. PICK n \in Nat :
              /\ n >= 1 /\ Len(Even(r)) = 2 * n
              /\ Len(r) = 2 * n \/ Len(r) = 2 * n - 1
              /\ \A k \in 1..Len(r) : Even(r)[k] = r[k]
              /\ Len(r) = 2 * n - 1 => Even(r)[2 * n] = r[Len(r)]
  BY EvenLevel
<1>3. m = n
  <2>1. Len(Even(l)) = Len(Even(r))
    BY DEF SameSelfs
  <2>2. 2 * m = 2 * n
    BY <1>1, <1>2, <2>1, Zenon
  <2> QED
    BY <2>2
<1>4. PICK e : e = Even(l)
  OBVIOUS
<1>5. PICK f : f = Even(r)
  OBVIOUS
<1>6. PICK u, v \in Nat : u = 2 * m /\ v = 2 * m - 1 /\ v + 1 = u /\ v >= 1
  BY <1>1
<1>7. /\ (Len(l) = u \/ Len(l) = v) /\ (Len(r) = u \/ Len(r) = v)
      /\ \A k \in 1..Len(l) : e[k] = l[k]
      /\ \A k \in 1..Len(r) : f[k] = r[k]
      /\ Len(l) = v => e[u] = l[v]
      /\ Len(r) = v => f[u] = r[v]
      /\ \A k \in 1..u : e[k].vbSelfHash = f[k].vbSelfHash
  BY <1>1, <1>2, <1>3, <1>4, <1>5, <1>6 DEF SameSelfs
<1>8. CASE Len(l) = u /\ Len(r) = v
  <2>1. u \in 1..Len(l) /\ v \in 1..Len(l) /\ v \in 1..Len(r) /\ u \in 1..u /\ v \in 1..u /\ u # v
    BY <1>6, <1>8
  <2>2. l[u].vbSelfHash = l[v].vbSelfHash
    BY <1>7, <1>8, <2>1
  <2> QED
    BY <2>1, <2>2 DEF Distinct
<1>9. CASE Len(l) = v /\ Len(r) = u
  <2>1. u \in 1..Len(r) /\ v \in 1..Len(r) /\ v \in 1..Len(l) /\ u \in 1..u /\ v \in 1..u /\ u # v
    BY <1>6, <1>9
  <2>2. r[u].vbSelfHash = r[v].vbSelfHash
    BY <1>7, <1>9, <2>1
  <2> QED
    BY <2>1, <2>2 DEF Distinct
<1>10. CASE Len(l) = Len(r)
  <2>1. \A k \in 1..Len(l) : k \in 1..u
    BY <1>6, <1>7
  <2>2. \A k \in 1..Len(l) : l[k].vbSelfHash = r[k].vbSelfHash
    BY <1>7, <1>10, <2>1
  <2> QED
    BY <1>10, <2>2 DEF SameSelfs
<1> QED
  BY <1>7, <1>8, <1>9, <1>10

\* The levels of a tree of blocks none of which is there twice.
IsTree(level) ==
    /\ \A d \in Nat : IsList(level[d]) /\ Len(level[d]) >= 1 /\ level[d + 1] = Above(level[d])
    /\ \A d \in Nat : Distinct(level[d + 1])
    /\ Even(level[0]) = level[0]
    /\ \A k \in 1..Len(level[0]) : level[0][k].vbSelfHash \in BlockHashes

\* The leaves of blocks none of which is there twice: only the last one may be a copy
\* of the one before it (l.23-26), and it is on the right.
LEMMA LeavesLeftDistinct ==
    ASSUME NEW hashes, AreHashes(hashes), IsInjective(hashes)
    PROVE  /\ IsList(LeavesOf(hashes)) /\ Len(LeavesOf(hashes)) >= 2
           /\ LeftDistinct(LeavesOf(hashes))
           /\ Even(LeavesOf(hashes)) = LeavesOf(hashes)
           /\ \A k \in 1..Len(LeavesOf(hashes)) : LeavesOf(hashes)[k].vbSelfHash \in BlockHashes
<1>1. IsList(hashes) /\ Len(hashes) >= 1 /\ Len(hashes) \in Nat /\ DOMAIN hashes = 1..Len(hashes)
  BY DEF AreHashes, IsList
<1>2. PICK m \in Nat :
              /\ m >= 1 /\ IsList(LeavesOf(hashes)) /\ Len(LeavesOf(hashes)) = 2 * m
              /\ Len(hashes) = 2 * m \/ Len(hashes) = 2 * m - 1
              /\ \A k \in 1..Len(hashes) : LeavesOf(hashes)[k] = Leaf(hashes[k])
              /\ Len(hashes) = 2 * m - 1 => LeavesOf(hashes)[2 * m] = Leaf(hashes[Len(hashes)])
  BY <1>1, LeavesType
<1>3. PICK leaves : leaves = LeavesOf(hashes)
  OBVIOUS
<1>4. PICK n \in Nat : n = Len(hashes)
  BY <1>1
<1>5. PICK u \in Nat : u = 2 * m
  OBVIOUS
<1>6. /\ IsList(leaves) /\ Len(leaves) = u /\ (n = u \/ n = u - 1) /\ n >= 1
      /\ \A k \in 1..n : leaves[k] = Leaf(hashes[k])
      /\ n = u - 1 => leaves[u] = Leaf(hashes[n])
  BY <1>1, <1>2, <1>3, <1>4, <1>5
<1>7. \A h : Leaf(h).vbSelfHash = h
  BY DEF Leaf
<1>8. \A k \in 1..n : leaves[k].vbSelfHash = hashes[k]
  BY <1>6, <1>7, Zenon
<1>9. LeftDistinct(leaves)
  <2> SUFFICES ASSUME NEW i \in Nat \ {0}, NEW j \in Nat \ {0},
                      2 * i - 1 <= Len(leaves), 2 * j - 1 <= Len(leaves),
                      leaves[2 * i - 1].vbSelfHash = leaves[2 * j - 1].vbSelfHash
               PROVE  i = j
    BY DEF LeftDistinct
  <2>1. PICK a, b \in Nat : a = 2 * i - 1 /\ b = 2 * j - 1
    OBVIOUS
  <2>2. a <= u /\ b <= u
    BY <1>6, <2>1
  <2>3. a \in 1..n /\ b \in 1..n
    BY <1>5, <1>6, <2>1, <2>2
  <2>4. leaves[a].vbSelfHash = leaves[b].vbSelfHash
    BY <2>1, Zenon
  <2>5. hashes[a] = hashes[b]
    BY <1>8, <2>3, <2>4, Zenon
  <2>6. a \in DOMAIN hashes /\ b \in DOMAIN hashes
    BY <1>1, <1>4, <2>3
  <2>7. a = b
    BY <2>5, <2>6, Zenon DEF IsInjective
  <2> QED
    BY <2>1, <2>7
<1>10. ASSUME NEW k \in 1..u PROVE leaves[k].vbSelfHash \in BlockHashes
  <2>1. \A i \in 1..n : hashes[i] \in BlockHashes
    BY <1>4 DEF AreHashes
  <2>2. CASE k \in 1..n
    BY <1>8, <2>1, <2>2
  <2>3. CASE k \notin 1..n
    <3>1. k = u /\ n = u - 1 /\ n \in 1..n
      BY <1>6, <2>3
    <3>2. leaves[k].vbSelfHash = hashes[n]
      BY <1>6, <1>7, <3>1, Zenon
    <3> QED
      BY <2>1, <3>1, <3>2, Zenon
  <2> QED
    BY <2>2, <2>3
<1>11. Even(leaves) = leaves
  <2>1. u % 2 = 0
    BY <1>5
  <2> QED
    BY <1>6, <2>1 DEF Even
<1>12. Len(leaves) >= 2
  BY <1>2, <1>5, <1>6
<1>13. \A k \in 1..Len(leaves) : leaves[k].vbSelfHash \in BlockHashes
  BY <1>6, <1>10
<1> QED
  BY <1>3, <1>6, <1>9, <1>11, <1>12, <1>13, Zenon

\* The levels of such blocks are those of a tree, with hashes of their own above the leaves.
LEMMA TreeOfHashes ==
    ASSUME NEW hashes, AreHashes(hashes), IsInjective(hashes)
    PROVE  IsTree(Levels(LeavesOf(hashes)))
<1>1. PICK leaves : leaves = LeavesOf(hashes)
  OBVIOUS
<1>2. /\ IsList(leaves) /\ Len(leaves) >= 2 /\ LeftDistinct(leaves) /\ Even(leaves) = leaves
      /\ \A k \in 1..Len(leaves) : leaves[k].vbSelfHash \in BlockHashes
  BY <1>1, LeavesLeftDistinct
<1>3. Len(leaves) >= 1
  BY <1>2 DEF IsList
<1>4. PICK level : level = Levels(leaves)
  OBVIOUS
<1>5. level[0] = leaves
  BY <1>4, LevelZero
<1>6. \A d \in Nat : IsList(level[d]) /\ Len(level[d]) >= 1
  BY <1>2, <1>3, <1>4, LevelType
<1>7. \A d \in Nat : level[d + 1] = Above(level[d])
  BY <1>4, LevelNext
<1> DEFINE Bad == {d \in Nat : ~LeftDistinct(level[d])}
<1>8. Bad = {}
  <2> SUFFICES ASSUME Bad # {} PROVE FALSE
    OBVIOUS
  <2>1. Bad \in SUBSET Nat
    OBVIOUS
  <2> HIDE DEF Bad
  <2>2. PICK j \in Bad : \A i \in Bad : j <= i
    BY <2>1, LeastOfNaturals
  <2>3. j # 0
    BY <1>2, <1>5, <2>2 DEF Bad
  <2>4. j \in Nat /\ j - 1 \in Nat /\ (j - 1) + 1 = j /\ j - 1 \notin Bad
    BY <2>1, <2>2, <2>3
  <2>5. PICK l : l = level[j - 1]
    OBVIOUS
  <2>6. LeftDistinct(l) /\ IsList(l) /\ Len(l) >= 1
    BY <1>6, <2>4, <2>5 DEF Bad
  <2>7. Distinct(Above(l)) /\ IsList(Above(l))
    BY <2>6, DistinctAbove, AboveShrinks
  <2>8. level[j] = Above(l)
    BY <1>7, <2>4, <2>5
  <2>9. LeftDistinct(level[j])
    BY <2>7, <2>8, DistinctLeft
  <2> QED
    BY <2>2, <2>9 DEF Bad
<1>9. ASSUME NEW d \in Nat PROVE Distinct(level[d + 1])
  <2>1. LeftDistinct(level[d]) /\ IsList(level[d]) /\ Len(level[d]) >= 1
    BY <1>6, <1>8
  <2>2. Distinct(Above(level[d]))
    BY <2>1, DistinctAbove
  <2> QED
    BY <1>7, <2>2
<1> QED
  BY <1>1, <1>2, <1>4, <1>5, <1>6, <1>7, <1>9 DEF IsTree

-----------------------------------------------------------------------------

\* Two trees that agree on a level agree on the one below, and both or none of
\* them ends there: no node has the hash of a block.
LEMMA TreesAgreeBelow ==
    ASSUME NEW g, IsTree(g), NEW h, IsTree(h), NEW a \in Nat, NEW b \in Nat,
           SameSelfs(g[a + 1], h[b + 1])
    PROVE  SameSelfs(g[a], h[b]) /\ (a = 0 <=> b = 0)
<1>1. PICK l : l = g[a]
  OBVIOUS
<1>2. PICK r : r = h[b]
  OBVIOUS
<1>3. /\ IsList(l) /\ Len(l) >= 1 /\ g[a + 1] = Above(l)
      /\ IsList(r) /\ Len(r) >= 1 /\ h[b + 1] = Above(r)
  BY <1>1, <1>2 DEF IsTree
<1>4. SameSelfs(Even(l), Even(r))
  <2>1. SameSelfs(Above(l), Above(r))
    BY <1>3
  <2> QED
    BY <1>3, <2>1, SameBelow
<1>5. /\ Even(l)[1] = l[1] /\ Even(r)[1] = r[1]
      /\ l[1].vbSelfHash = r[1].vbSelfHash
  <2>1. Even(l)[1] = l[1] /\ Len(Even(l)) \in Nat /\ Len(Even(l)) >= 1
    <3>1. PICK m \in Nat : /\ m >= 1 /\ IsList(Even(l)) /\ Len(Even(l)) = 2 * m
                           /\ \A k \in 1..Len(l) : Even(l)[k] = l[k]
      BY <1>3, EvenLevel
    <3>2. 1 \in 1..Len(l)
      BY <1>3 DEF IsList
    <3> QED
      BY <3>1, <3>2
  <2>2. Even(r)[1] = r[1]
    <3>1. \A k \in 1..Len(r) : Even(r)[k] = r[k]
      BY <1>3, EvenLevel
    <3>2. 1 \in 1..Len(r)
      BY <1>3 DEF IsList
    <3> QED
      BY <3>1, <3>2
  <2>3. 1 \in 1..Len(Even(l))
    BY <2>1
  <2>4. Even(l)[1].vbSelfHash = Even(r)[1].vbSelfHash
    BY <1>4, <2>3 DEF SameSelfs
  <2> QED
    BY <2>1, <2>2, <2>4
<1>6. ASSUME NEW level, IsTree(level), NEW d \in Nat, d # 0
      PROVE  Distinct(level[d]) /\ \E x, y : level[d][1].vbSelfHash = sha256(<<x, y>>)
  <2>1. PICK e \in Nat : e + 1 = d
    <3>1. d - 1 \in Nat /\ (d - 1) + 1 = d
      BY <1>6
    <3> QED
      BY <3>1
  <2>2. PICK k : k = level[e]
    OBVIOUS
  <2>3. IsList(k) /\ Len(k) >= 1 /\ level[d] = Above(k) /\ Distinct(level[d])
    BY <1>6, <2>1, <2>2 DEF IsTree
  <2>4. 1 \in 1..Len(Above(k))
    <3>1. IsList(Above(k)) /\ Len(Above(k)) >= 1
      BY <2>3, AboveShrinks
    <3> QED
      BY <3>1 DEF IsList
  <2>5. Above(k)[1].vbSelfHash = sha256(<<Even(k)[2 * 1 - 1].vbSelfHash, Even(k)[2 * 1].vbSelfHash>>)
    BY <2>3, <2>4, ParentHash
  <2> QED
    BY <2>3, <2>5
<1>7. ASSUME NEW level, IsTree(level)
      PROVE  Even(level[0]) = level[0] /\ \E d : level[0][1].vbSelfHash = CalculateHash(d)
  <2>1. 1 \in 1..Len(level[0]) /\ Even(level[0]) = level[0]
    <3>1. IsList(level[0]) /\ Len(level[0]) >= 1 /\ Even(level[0]) = level[0]
      BY <1>7 DEF IsTree
    <3> QED
      BY <3>1 DEF IsList
  <2>2. level[0][1].vbSelfHash \in BlockHashes
    BY <1>7, <2>1 DEF IsTree
  <2> QED
    BY <2>1, <2>2 DEF BlockHashes
<1>8. CASE a = 0 /\ b = 0
  <2>1. Even(l) = l /\ Even(r) = r
    BY <1>1, <1>2, <1>7, <1>8
  <2> QED
    BY <1>1, <1>2, <1>4, <1>8, <2>1
<1>9. CASE a = 0 /\ b # 0
  <2>1. PICK d : l[1].vbSelfHash = CalculateHash(d)
    BY <1>1, <1>7, <1>9
  <2>2. PICK x, y : r[1].vbSelfHash = sha256(<<x, y>>)
    <3>1. \E x, y : h[b][1].vbSelfHash = sha256(<<x, y>>)
      BY <1>6, <1>9, Zenon
    <3> QED
      BY <1>2, <3>1, Zenon
  <2>3. sha256(<<x, y>>) = CalculateHash(d)
    BY <1>5, <2>1, <2>2, Zenon
  <2>4. sha256(<<x, y>>) # CalculateHash(d)
    BY BlockHashIsNone
  <2> QED
    BY <2>3, <2>4, Zenon
<1>10. CASE a # 0 /\ b = 0
  <2>1. PICK d : r[1].vbSelfHash = CalculateHash(d)
    BY <1>2, <1>7, <1>10
  <2>2. PICK x, y : l[1].vbSelfHash = sha256(<<x, y>>)
    <3>1. \E x, y : g[a][1].vbSelfHash = sha256(<<x, y>>)
      BY <1>6, <1>10, Zenon
    <3> QED
      BY <1>1, <3>1, Zenon
  <2>3. sha256(<<x, y>>) = CalculateHash(d)
    BY <1>5, <2>1, <2>2, Zenon
  <2>4. sha256(<<x, y>>) # CalculateHash(d)
    BY BlockHashIsNone
  <2> QED
    BY <2>3, <2>4, Zenon
<1>11. CASE a # 0 /\ b # 0
  <2>1. Distinct(l) /\ Distinct(r)
    BY <1>1, <1>2, <1>6, <1>11
  <2>2. SameSelfs(l, r)
    BY <1>3, <1>4, <2>1, SameOfEven
  <2> QED
    BY <1>1, <1>2, <1>11, <2>2
<1> QED
  BY <1>8, <1>9, <1>10, <1>11

\* Two trees that agree on a level agree on as many below it as both have.
LEMMA TreesAgreeDown ==
    ASSUME NEW g, IsTree(g), NEW h, IsTree(h), NEW m \in Nat, NEW n \in Nat,
           SameSelfs(g[m], h[n]), NEW c \in Nat, c <= m, c <= n
    PROVE  SameSelfs(g[m - c], h[n - c])
<1> DEFINE Bad == {j \in Nat : j <= m /\ j <= n /\ ~SameSelfs(g[m - j], h[n - j])}
<1>1. CASE Bad = {}
  BY <1>1
<1>2. CASE Bad # {}
  <2>1. Bad \in SUBSET Nat
    OBVIOUS
  <2> HIDE DEF Bad
  <2>2. PICK j \in Bad : \A i \in Bad : j <= i
    BY <1>2, <2>1, LeastOfNaturals
  <2>3. j \in Nat /\ j <= m /\ j <= n /\ ~SameSelfs(g[m - j], h[n - j])
    BY <2>2 DEF Bad
  <2>4. j # 0
    <3>1. m - 0 = m /\ n - 0 = n
      OBVIOUS
    <3> QED
      BY <2>3, <3>1
  <2>5. PICK a \in Nat : a = m - j
    BY <2>3
  <2>6. PICK b \in Nat : b = n - j
    BY <2>3
  <2>7. j - 1 \in Nat /\ j - 1 \notin Bad /\ j - 1 <= m /\ j - 1 <= n
    BY <2>2, <2>3, <2>4
  <2>8. m - (j - 1) = a + 1 /\ n - (j - 1) = b + 1
    BY <2>3, <2>5, <2>6
  <2>9. SameSelfs(g[a + 1], h[b + 1])
    BY <2>7, <2>8 DEF Bad
  <2>10. SameSelfs(g[a], h[b])
    BY <2>9, TreesAgreeBelow
  <2> QED
    BY <2>3, <2>5, <2>6, <2>10
<1> QED
  BY <1>1, <1>2

\* Trees with the same root are as high as one another and have the same leaves.
LEMMA SameRootSameLeaves ==
    ASSUME NEW g, IsTree(g), NEW h, IsTree(h), NEW m \in Nat, m >= 1, NEW n \in Nat, n >= 1,
           SameSelfs(g[m], h[n])
    PROVE  SameSelfs(g[0], h[0])
<1>1. PICK c \in Nat : c >= 1 /\ c <= m /\ c <= n /\ (c = m \/ c = n)
  <2>1. CASE m <= n
    BY <2>1
  <2>2. CASE n <= m
    BY <2>2
  <2> QED
    BY <2>1, <2>2
<1>2. PICK a \in Nat : a = m - c
  BY <1>1
<1>3. PICK b \in Nat : b = n - c
  BY <1>1
<1>4. c - 1 \in Nat /\ c - 1 <= m /\ c - 1 <= n /\ m - (c - 1) = a + 1 /\ n - (c - 1) = b + 1
  BY <1>1, <1>2, <1>3
<1>5. SameSelfs(g[m - (c - 1)], h[n - (c - 1)])
  BY <1>4, TreesAgreeDown
<1>6. SameSelfs(g[a + 1], h[b + 1])
  BY <1>4, <1>5
<1>7. SameSelfs(g[a], h[b]) /\ (a = 0 <=> b = 0)
  BY <1>6, TreesAgreeBelow
<1>8. a = 0 \/ b = 0
  BY <1>1, <1>2, <1>3
<1>9. a = 0 /\ b = 0
  BY <1>7, <1>8, Zenon
<1> QED
  BY <1>7, <1>9

\* Hashes none of which is there twice are known by their leaves.
LEMMA SameLeavesSameHashes ==
    ASSUME NEW x, AreHashes(x), IsInjective(x), NEW y, AreHashes(y), IsInjective(y),
           SameSelfs(LeavesOf(x), LeavesOf(y))
    PROVE  x = y
<1>1. PICK k \in Nat : k = Len(x) /\ k >= 1 /\ DOMAIN x = 1..k
  BY DEF AreHashes, IsList
<1>2. PICK n \in Nat : n = Len(y) /\ n >= 1 /\ DOMAIN y = 1..n
  BY DEF AreHashes, IsList
<1>3. PICK e : e = LeavesOf(x)
  OBVIOUS
<1>4. PICK f : f = LeavesOf(y)
  OBVIOUS
<1>5. PICK m \in Nat : /\ Len(e) = 2 * m /\ (k = 2 * m \/ k = 2 * m - 1)
                       /\ \A i \in 1..k : e[i] = Leaf(x[i])
                       /\ k = 2 * m - 1 => e[2 * m] = Leaf(x[k])
  <2>1. IsList(x) /\ Len(x) >= 1
    BY DEF AreHashes
  <2> QED
    BY <1>1, <1>3, <2>1, LeavesType
<1>6. PICK j \in Nat : /\ Len(f) = 2 * j /\ (n = 2 * j \/ n = 2 * j - 1)
                       /\ \A i \in 1..n : f[i] = Leaf(y[i])
                       /\ n = 2 * j - 1 => f[2 * j] = Leaf(y[n])
  <2>1. IsList(y) /\ Len(y) >= 1
    BY DEF AreHashes
  <2> QED
    BY <1>2, <1>4, <2>1, LeavesType
<1>7. Len(e) = Len(f) /\ \A i \in 1..Len(e) : e[i].vbSelfHash = f[i].vbSelfHash
  BY <1>3, <1>4, Zenon DEF SameSelfs
<1>8. PICK u, v \in Nat : u = 2 * m /\ v = u - 1 /\ v >= 1
  BY <1>1, <1>5
<1>9. Len(f) = u /\ Len(e) = u /\ 2 * j = u
  BY <1>5, <1>6, <1>7, <1>8
<1>10. \A z : Leaf(z).vbSelfHash = z
  BY DEF Leaf
<1>11. /\ (k = u \/ k = v) /\ (n = u \/ n = v)
       /\ \A i \in 1..k : e[i].vbSelfHash = x[i]
       /\ \A i \in 1..n : f[i].vbSelfHash = y[i]
       /\ k = v => e[u].vbSelfHash = x[k]
       /\ n = v => f[u].vbSelfHash = y[n]
       /\ \A i \in 1..u : e[i].vbSelfHash = f[i].vbSelfHash
  <2>1. (k = u \/ k = v) /\ (k = v => e[u].vbSelfHash = x[k])
    BY <1>5, <1>8, <1>10
  <2>2. (n = u \/ n = v) /\ (n = v => f[u].vbSelfHash = y[n])
    BY <1>6, <1>8, <1>9, <1>10
  <2>3. \A i \in 1..k : e[i].vbSelfHash = x[i]
    BY <1>5, <1>10, Zenon
  <2>4. \A i \in 1..n : f[i].vbSelfHash = y[i]
    BY <1>6, <1>10, Zenon
  <2> QED
    BY <1>7, <1>9, <2>1, <2>2, <2>3, <2>4, Zenon
<1>12. u \in 1..u /\ v \in 1..u /\ v \in 1..v /\ u # v
  BY <1>8
<1>13. CASE k = u /\ n = v
  <2>1. x[u] = x[v]
    BY <1>11, <1>12, <1>13, Zenon
  <2> QED
    BY <1>1, <1>12, <1>13, <2>1 DEF IsInjective
<1>14. CASE k = v /\ n = u
  <2>1. y[u] = y[v]
    BY <1>11, <1>12, <1>14, Zenon
  <2> QED
    BY <1>2, <1>12, <1>14, <2>1 DEF IsInjective
<1>15. CASE k = n
  <2>1. \A i \in 1..k : i \in 1..u
    BY <1>8, <1>11
  <2>2. \A i \in 1..k : x[i] = y[i]
    BY <1>11, <1>15, <2>1, Zenon
  <2>3. PICK S : S = Range(x) \cup Range(y)
    OBVIOUS
  <2>4. x \in Seq(S) /\ y \in Seq(S)
    BY <2>3 DEF AreHashes, IsList
  <2>5. Len(x) = Len(y) /\ \A i \in 1..Len(x) : x[i] = y[i]
    BY <1>1, <1>2, <1>15, <2>2
  <2> QED
    BY <2>4, <2>5, SeqEqual
<1> QED
  BY <1>11, <1>13, <1>14, <1>15

\* The root of a tree is a level of one node.
LEMMA RootLevel ==
    ASSUME NEW hashes, AreHashes(hashes), IsInjective(hashes)
    PROVE  \E d \in Nat : /\ d >= 1 /\ Len(Levels(LeavesOf(hashes))[d]) = 1
                          /\ Root(LeavesOf(hashes)) = Levels(LeavesOf(hashes))[d][1]
<1>1. IsList(LeavesOf(hashes)) /\ Len(LeavesOf(hashes)) >= 2
  BY LeavesLeftDistinct
<1>2. Len(LeavesOf(hashes)) >= 1 /\ Len(LeavesOf(hashes)) # 1
  BY <1>1 DEF IsList
<1>3. /\ Depth(LeavesOf(hashes)) \in Nat /\ Depth(LeavesOf(hashes)) >= 1
      /\ Len(Levels(LeavesOf(hashes))[Depth(LeavesOf(hashes))]) = 1
  BY <1>1, <1>2, DepthOfRoot
<1> QED
  BY <1>3 DEF Root

\* The hash of the root tells the blocks, none of which is there twice.
LEMMA RootTellsHashes ==
    ASSUME NEW x, AreHashes(x), IsInjective(x), NEW y, AreHashes(y), IsInjective(y),
           Root(LeavesOf(x)).vbSelfHash = Root(LeavesOf(y)).vbSelfHash
    PROVE  x = y
<1>1. PICK g : g = Levels(LeavesOf(x))
  OBVIOUS
<1>2. PICK h : h = Levels(LeavesOf(y))
  OBVIOUS
<1>3. PICK m \in Nat : m >= 1 /\ Len(g[m]) = 1 /\ Root(LeavesOf(x)) = g[m][1]
  BY <1>1, RootLevel
<1>4. PICK n \in Nat : n >= 1 /\ Len(h[n]) = 1 /\ Root(LeavesOf(y)) = h[n][1]
  BY <1>2, RootLevel
<1>5. SameSelfs(g[m], h[n])
  <2>1. g[m][1].vbSelfHash = h[n][1].vbSelfHash
    BY <1>3, <1>4
  <2>2. 1..1 = {1}
    OBVIOUS
  <2> QED
    BY <1>3, <1>4, <2>1, <2>2 DEF SameSelfs
<1>6. IsTree(g) /\ IsTree(h)
  BY <1>1, <1>2, TreeOfHashes
<1>7. SameSelfs(g[0], h[0])
  BY <1>3, <1>4, <1>5, <1>6, SameRootSameLeaves
<1>8. g[0] = LeavesOf(x) /\ h[0] = LeavesOf(y)
  BY <1>1, <1>2, LevelZero
<1>9. SameSelfs(LeavesOf(x), LeavesOf(y))
  BY <1>7, <1>8
<1> QED
  BY <1>9, SameLeavesSameHashes

\* A chain of another node is a list of hashes of blocks.
LEMMA OtherChainsAreHashes ==
    ASSUME NEW h \in OtherChains
    PROVE  AreHashes(h) /\ IsInjective(h)
<1>1. PICK n \in 1..MaxBlocks : h \in [1..n -> BlockHashes]
  BY DEF OtherChains
<1>2. n \in Nat /\ n >= 1
  BY <1>1, ChainAssumption
<1>3. h = [k \in 1..n |-> h[k]]
  BY <1>1
<1>4. IsList(h) /\ Len(h) = n
  BY <1>2, <1>3, ListOf
<1>5. \A k \in 1..Len(h) : h[k] \in BlockHashes
  BY <1>1, <1>4
<1> QED
  BY <1>2, <1>4, <1>5 DEF AreHashes, OtherChains

\* Whatever the tree of a node was built from, no other chain, of any blocks in any
\* order and of any length, has its root, if neither has a block twice: equal roots
\* mean equal chains, at two nodes or at one (MerkleTree.cpp:28-62).
THEOREM RootsNameChains == TreeInit /\ [][TreeNext]_treeVars => []RootNamesChain
<1>1. MerkleInv => RootNamesChain
  <2> SUFFICES ASSUME MerkleInv, NEW tree \in roots, NEW other \in OtherTrees,
                      tree.root = other.root, IsInjective(tree.blocks)
               PROVE  tree.blocks = other.blocks
    BY DEF RootNamesChain
  <2>1. PICK h \in OtherChains : other = TreeOf(h)
    BY DEF OtherTrees
  <2>2. other.blocks = h /\ other.root = Root(LeavesOf(h)).vbSelfHash
    BY <2>1 DEF TreeOf
  <2>3. PICK b : b = tree.blocks
    OBVIOUS
  <2>4. AreHashes(b) /\ tree.root = Root(LeavesOf(b)).vbSelfHash
    BY <2>3 DEF MerkleInv, RootsOfBlocks
  <2>5. AreHashes(h) /\ IsInjective(h)
    BY OtherChainsAreHashes
  <2>6. b = h
    BY <2>2, <2>3, <2>4, <2>5, RootTellsHashes
  <2> QED
    BY <2>2, <2>3, <2>6
<1> QED
  BY <1>1, TreeInvariant, PTL

-----------------------------------------------------------------------------
(* NetworkManager *)

USE OldNetworkAssumption

\* Only the owner of m_queueMutex is past l.21.
OneInside ==
    \A p \in Poster : posting[p] \in {"set", "renew", "assign", "sleep"} => m_queueMutex = p

At(pc) == \E p \in Poster : posting[p] = pc

\* What the promises before the current one have in common, and where the current
\* one stands: fulfilled between l.23 and l.25, its future not taken between l.25
\* and l.27.
PromisesInStep ==
    /\ fulfilled = {n \in Nat : n < m_dataPromice \/ (n = m_dataPromice /\ At("renew"))}
    /\ retrieved = {n \in Nat : n < m_dataPromice \/ (n = m_dataPromice /\ ~At("assign"))}
    /\ m_dataPromice = (IF At("assign") THEN m_dataFuture + 1 ELSE m_dataFuture)
    /\ \A w \in waiting : w[2] <= m_dataFuture

NInv == OldTypeOK /\ OneInside /\ PromisesInStep

\* Nothing posted, nobody inside.
LEMMA NetworkInit == OldInit => NInv
  BY DEF OldInit, NInv, OldTypeOK, OneInside, PromisesInStep, At

\* Every step of a poster or a reader keeps one of them inside and the promises in step.
LEMMA NetworkStep ==
    ASSUME NInv, [OldNext]_oldVars
    PROVE  NInv'
<1> USE DEF NInv, OldTypeOK, OneInside
<1>1. ASSUME NEW p \in Poster, Call(p) PROVE NInv'
  BY <1>1 DEF Call, PosterGoes, PromisesInStep, At
<1>2. ASSUME NEW p \in Poster, PostData(p) PROVE NInv'
  <2>1. CASE Lock(p)
    BY <2>1 DEF Lock, PosterGoes, PromisesInStep, At
  <2>2. CASE SetValue(p)
    BY <2>2 DEF SetValue, PosterGoes, PromisesInStep, At
  <2>3. CASE Renew(p)
    BY <2>3 DEF Renew, PosterGoes, PromisesInStep, At
  <2>4. CASE Assign(p)
    BY <2>4 DEF Assign, PosterGoes, PromisesInStep, At
  <2>5. CASE Return(p)
    BY <2>5 DEF Return, PosterGoes, PromisesInStep, At
  <2> QED
    BY <1>2, <2>1, <2>2, <2>3, <2>4, <2>5 DEF PostData
<1>3. ASSUME NEW r \in Reader, GetFuture(r) PROVE NInv'
  BY <1>3 DEF GetFuture, PromisesInStep, At
<1>4. ASSUME NEW r \in Reader, GetValue(r) PROVE NInv'
  BY <1>4 DEF GetValue, PromisesInStep, At
<1>5. CASE UNCHANGED oldVars
  BY <1>5 DEF oldVars, PromisesInStep, At
<1> QED
  BY <1>1, <1>2, <1>3, <1>4, <1>5 DEF OldNext

-----------------------------------------------------------------------------

\* The promises are in step with the poster inside.
THEOREM NetworkInvariant == OldInit /\ [][OldNext]_oldVars => []NInv
<1>1. NInv /\ [OldNext]_oldVars => NInv'
  BY NetworkStep
<1> QED
  BY <1>1, NetworkInit, PTL

\* No reader is ever left with a broken promise (NetworkManager.cpp:23-27).
THEOREM PromisesKept == OldInit /\ [][OldNext]_oldVars => []NoBrokenPromise
<1>1. NInv => NoBrokenPromise
  BY DEF NInv, OldTypeOK, PromisesInStep, NoBrokenPromise
<1> QED
  BY <1>1, NetworkInvariant, PTL

\* The queue mutex keeps PostData from both exceptions of std::promise.
THEOREM PostThrowsNothing == OldInit /\ [][OldNext]_oldVars => []ThrowsNothing
<1>1. NInv => ThrowsNothing
  BY DEF NInv, OldTypeOK, OneInside, PromisesInStep, ThrowsNothing, At
<1> QED
  BY <1>1, NetworkInvariant, PTL

\* Old data are given out during a post only.
THEOREM OldDataBounded == OldInit /\ [][OldNext]_oldVars => []OldDatumWhilePosting
<1>1. NInv => OldDatumWhilePosting
  BY DEF NInv, OldTypeOK, PromisesInStep, OldDatumWhilePosting, At
<1> QED
  BY <1>1, NetworkInvariant, PTL

-----------------------------------------------------------------------------
(* SHA256 *)

USE SizeAssumption

Stream == {MessageByte(k) : k \in Nat}

Whole(n) == \E count \in Nat : n = count * BlockSize

\* The first n bytes of a block are the message's after from.
Holds(block, from, n) == \A k \in 0..(n - 1) : block[k] = MessageByte(from + k + 1)

\* The lengths in step: whole blocks compressed, less than one block waiting.
InStep ==
    /\ m_len \in 0..(BlockSize - 1)
    /\ m_tot_len \in Nat /\ Whole(m_tot_len)
    /\ given = m_tot_len + m_len
    /\ given <= MaxLength

\* The bytes where they belong.
InPlace ==
    /\ DOMAIN m_block = 0..(2 * BlockSize - 1)
    /\ ~done => /\ m_h = Message(0, m_tot_len)
                /\ Holds(m_block, m_tot_len, m_len)

SInv == InStep /\ InPlace

\* A piece of the message, and the piece that follows it.
LEMMA MessagePiece ==
    ASSUME NEW a \in Nat, NEW b \in Nat, a <= b
    PROVE  /\ Message(a, b) \in Seq(Stream)
           /\ Len(Message(a, b)) = b - a
           /\ \A k \in 1..(b - a) : Message(a, b)[k] = MessageByte(a + k)
  BY DEF Message, Stream

\* A piece of the message followed by the next one is a piece.
LEMMA MessageConcat ==
    ASSUME NEW a \in Nat, NEW b \in Nat, NEW c \in Nat, a <= b, b <= c
    PROVE  Message(a, b) \o Message(b, c) = Message(a, c)
<1> DEFINE s == Message(a, b)
           t == Message(b, c)
           u == Message(a, c)
<1>1. s \in Seq(Stream) /\ Len(s) = b - a /\ \A k \in 1..(b - a) : s[k] = MessageByte(a + k)
  BY MessagePiece
<1>2. t \in Seq(Stream) /\ Len(t) = c - b /\ \A k \in 1..(c - b) : t[k] = MessageByte(b + k)
  BY MessagePiece
<1>3. u \in Seq(Stream) /\ Len(u) = c - a /\ \A k \in 1..(c - a) : u[k] = MessageByte(a + k)
  BY MessagePiece
<1> HIDE DEF s, t, u
<1>4. /\ s \o t \in Seq(Stream)
      /\ Len(s \o t) = c - a
      /\ \A k \in 1..(c - a) : (s \o t)[k] = IF k <= b - a THEN s[k] ELSE t[k - (b - a)]
  <2>1. /\ s \o t \in Seq(Stream)
        /\ Len(s \o t) = Len(s) + Len(t)
        /\ \A k \in 1..(Len(s) + Len(t)) : (s \o t)[k] = IF k <= Len(s) THEN s[k] ELSE t[k - Len(s)]
    BY <1>1, <1>2, ConcatProperties
  <2>2. Len(s) + Len(t) = c - a
    BY <1>1, <1>2
  <2> QED
    BY <1>1, <2>1, <2>2
<1>5. ASSUME NEW k \in 1..(c - a) PROVE (s \o t)[k] = u[k]
  <2>1. CASE k <= b - a
    BY <2>1, <1>1, <1>3, <1>4
  <2>2. CASE ~(k <= b - a)
    <3>1. k - (b - a) \in 1..(c - b) /\ b + (k - (b - a)) = a + k
      BY <2>2
    <3> QED
      BY <2>2, <3>1, <1>2, <1>3, <1>4
  <2> QED
    BY <2>1, <2>2
<1>6. s \o t = u
  BY <1>3, <1>4, <1>5, SeqEqual
<1> QED
  BY <1>6 DEF s, t, u

\* A copy changes what it covers.
LEMMA CopyDomain ==
    ASSUME NEW block, NEW at, NEW bytes
    PROVE  DOMAIN Copy(block, at, bytes) = DOMAIN block
  BY DEF Copy

\* What memcpy copies lies from at on, and the rest of the block is as it was.
LEMMA CopiedMessage ==
    ASSUME NEW block, DOMAIN block = 0..(2 * BlockSize - 1),
           NEW at \in Nat, NEW a \in Nat, NEW b \in Nat, a <= b
    PROVE  \A k \in 0..(2 * BlockSize - 1) :
              Copy(block, at, Message(a, b))[k] =
                 IF at <= k /\ k < at + (b - a) THEN MessageByte(a + (k - at) + 1) ELSE block[k]
<1> DEFINE bytes == Message(a, b)
<1>1. Len(bytes) = b - a /\ \A k \in 1..(b - a) : bytes[k] = MessageByte(a + k)
  BY MessagePiece
<1> HIDE DEF bytes
<1>2. ASSUME NEW k \in 0..(2 * BlockSize - 1)
      PROVE  Copy(block, at, bytes)[k] =
                 IF at <= k /\ k < at + (b - a) THEN MessageByte(a + (k - at) + 1) ELSE block[k]
  <2>1. Copy(block, at, bytes)[k] =
            IF at <= k /\ k < at + (b - a) THEN bytes[k - at + 1] ELSE block[k]
    BY <1>1 DEF Copy
  <2>2. CASE at <= k /\ k < at + (b - a)
    <3>1. k - at + 1 \in 1..(b - a) /\ a + (k - at + 1) = a + (k - at) + 1
      BY <2>2
    <3> QED
      BY <1>1, <2>1, <2>2, <3>1
  <2>3. CASE ~(at <= k /\ k < at + (b - a))
    BY <2>1, <2>3
  <2> QED
    BY <2>2, <2>3
<1> QED
  BY <1>2 DEF bytes

\* The bytes of the message from the one after from, which a block holds up to at,
\* are followed by those a copy of the next piece puts there.
LEMMA FilledBlock ==
    ASSUME NEW block, DOMAIN block = 0..(2 * BlockSize - 1),
           NEW at \in Nat, NEW from \in Nat, NEW to \in Nat,
           from + at <= to, to <= from + BlockSize,
           Holds(block, from, at)
    PROVE  Holds(Copy(block, at, Message(from + at, to)), from, to - from)
<1> DEFINE new == Copy(block, at, Message(from + at, to))
<1>1. \A k \in 0..(2 * BlockSize - 1) :
         new[k] = IF at <= k /\ k < at + (to - (from + at))
                    THEN MessageByte((from + at) + (k - at) + 1) ELSE block[k]
  <2> DEFINE a == from + at
  <2>1. a \in Nat /\ a <= to
    OBVIOUS
  <2> HIDE DEF a, new
  <2>2. \A k \in 0..(2 * BlockSize - 1) :
           Copy(block, at, Message(a, to))[k] =
              IF at <= k /\ k < at + (to - a) THEN MessageByte(a + (k - at) + 1) ELSE block[k]
    BY <2>1, CopiedMessage
  <2> QED
    BY <2>2 DEF a, new
<1> HIDE DEF new
<1>2. ASSUME NEW k \in 0..((to - from) - 1) PROVE new[k] = MessageByte(from + k + 1)
  <2>1. k \in 0..(2 * BlockSize - 1) /\ k < at + (to - (from + at))
    OBVIOUS
  <2>2. CASE at <= k
    <3>1. (from + at) + (k - at) + 1 = from + k + 1
      OBVIOUS
    <3> QED
      BY <1>1, <2>1, <2>2, <3>1
  <2>3. CASE ~(at <= k)
    <3>1. k \in 0..(at - 1)
      BY <2>3
    <3> QED
      BY <1>1, <2>1, <2>3, <3>1 DEF Holds
  <2> QED
    BY <2>2, <2>3
<1> QED
  BY <1>2 DEF new, Holds

\* l.91-99, the lengths: len bytes are added to the len0 that wait, of which whole
\* blocks are compressed.
LEMMA Lengths ==
    ASSUME NEW tot \in Nat, NEW len0 \in 0..(BlockSize - 1), NEW len \in Nat,
           NEW count \in Nat, NEW left \in 0..(BlockSize - 1),
           NEW product \in Nat, product = count * BlockSize,
           len - (BlockSize - len0) = product + left
    PROVE  /\ (count + 1) * BlockSize = product + BlockSize
           /\ ((tot + len0) + (BlockSize - len0)) + product = tot + (product + BlockSize)
           /\ (tot + len0) + len = (tot + (product + BlockSize)) + left
<1>1. (count + 1) * BlockSize = count * BlockSize + BlockSize
  BY SMT
<1> QED
  BY <1>1

\* The bytes left of a piece once whole blocks are taken from it.
LEMMA RestOfPiece ==
    ASSUME NEW rest \in Nat, NEW left \in Nat, left <= BlockSize - 1
    PROVE  /\ rest + left \in Nat /\ (rest + left) - rest = left /\ rest + 0 = rest
           /\ rest <= rest + left /\ rest + left <= rest + BlockSize
  OBVIOUS

-----------------------------------------------------------------------------

\* Nothing given yet.
LEMMA SHA256Init == HashInit => SInv
<1> SUFFICES ASSUME HashInit PROVE SInv
  OBVIOUS
<1>1. InStep
  <2>1. m_len = 0 /\ m_tot_len = 0 /\ given = 0 /\ done = FALSE
    BY DEF HashInit
  <2>2. Whole(m_tot_len)
    <3>1. m_tot_len = 0 * BlockSize
      BY <2>1
    <3> QED
      BY <3>1 DEF Whole
  <2> QED
    BY <2>1, <2>2 DEF InStep
<1>2. InPlace
  <2>1. Message(0, 0) = <<>>
    BY DEF Message
  <2>2. Holds(m_block, 0, 0)
    BY DEF Holds
  <2>3. DOMAIN m_block = 0..(2 * BlockSize - 1) /\ m_h = <<>> /\ m_tot_len = 0 /\ m_len = 0
    BY DEF HashInit
  <2> QED
    BY <2>1, <2>2, <2>3 DEF InPlace
<1> QED
  BY <1>1, <1>2 DEF SInv

\* A piece that stays in the block.
LEMMA KeepsStep ==
    ASSUME SInv, NEW len \in 0..MaxLength, update(len), UpdateKeeps(len)
    PROVE  SInv'
<1>1. /\ m_len + len < BlockSize
      /\ m_len' = m_len + len /\ m_tot_len' = m_tot_len /\ m_h' = m_h
      /\ given' = given + len /\ given + len <= MaxLength /\ done' = done /\ ~done
      /\ m_block' = Copy(m_block, m_len, Message(given, given + len))
  BY DEF update, UpdateKeeps, StaysInBlock
<1>2. /\ m_len \in Nat /\ m_tot_len \in Nat /\ given = m_tot_len + m_len /\ Whole(m_tot_len)
      /\ given + len \in Nat
  BY DEF SInv, InStep
<1>3. /\ DOMAIN m_block = 0..(2 * BlockSize - 1) /\ m_h = Message(0, m_tot_len)
      /\ Holds(m_block, m_tot_len, m_len)
  BY <1>1 DEF SInv, InPlace
<1>4. m_len' \in 0..(BlockSize - 1) /\ m_tot_len' \in Nat /\ given' = m_tot_len' + m_len' /\ given' <= MaxLength
  BY <1>1, <1>2
<1>5. Whole(m_tot_len')
  BY <1>1, <1>2
<1>6. DOMAIN m_block' = 0..(2 * BlockSize - 1)
  BY <1>1, <1>3, CopyDomain
<1>7. Holds(m_block', m_tot_len', m_len')
  <2> DEFINE to == given + len
  <2>1. to \in Nat /\ m_tot_len + m_len <= to /\ to <= m_tot_len + BlockSize /\ to - m_tot_len = m_len'
    BY <1>1, <1>2
  <2> HIDE DEF to
  <2>2. Holds(Copy(m_block, m_len, Message(m_tot_len + m_len, to)), m_tot_len, to - m_tot_len)
    BY <1>2, <1>3, <2>1, FilledBlock
  <2>3. m_block' = Copy(m_block, m_len, Message(m_tot_len + m_len, to))
    BY <1>1, <1>2 DEF to
  <2> QED
    BY <1>1, <2>1, <2>2, <2>3
<1> QED
  BY <1>1, <1>3, <1>4, <1>5, <1>6, <1>7 DEF SInv, InStep, InPlace

\* A piece that fills the block: it is compressed with the blocks that follow it
\* in the piece, and the rest waits.
LEMMA TransformsStep ==
    ASSUME SInv, NEW len \in 0..MaxLength, update(len), UpdateTransforms(len)
    PROVE  SInv'
<1> DEFINE rem_len  == BlockSize - m_len
           n        == len - rem_len
           block_nb == n \div BlockSize
           product  == block_nb * BlockSize
           filled   == Copy(m_block, m_len, Message(given, given + rem_len))
           rest     == given + rem_len + product
<1>1. /\ m_len + len >= BlockSize
      /\ m_h' = m_h \o First(filled, BlockSize) \o Message(given + rem_len, rest)
      /\ m_block' = Copy(filled, 0, Message(rest, given + len))
      /\ m_len' = n % BlockSize
      /\ m_tot_len' = m_tot_len + (block_nb + 1) * BlockSize
      /\ given' = given + len /\ given + len <= MaxLength /\ done' = done /\ ~done
  <2>1. ~(m_len + len < BlockSize)
    BY DEF UpdateTransforms, StaysInBlock
  <2>2. m_len + len >= BlockSize
    BY <2>1 DEF SInv, InStep
  <2> QED
    BY <2>2, Zenon DEF update, UpdateTransforms
<1>2. /\ m_len \in 0..(BlockSize - 1) /\ m_tot_len \in Nat
      /\ given = m_tot_len + m_len /\ Whole(m_tot_len)
  BY DEF SInv, InStep
<1>3. /\ DOMAIN m_block = 0..(2 * BlockSize - 1) /\ m_h = Message(0, m_tot_len)
      /\ Holds(m_block, m_tot_len, m_len)
  BY <1>1, Zenon DEF SInv, InPlace
<1>4. rem_len \in Nat /\ n \in Nat /\ given + rem_len = m_tot_len + BlockSize /\ n = len - (BlockSize - m_len)
  BY <1>1, <1>2
<1>5. block_nb \in Nat /\ n % BlockSize \in 0..(BlockSize - 1) /\ n = product + (n % BlockSize)
  <2>1. n \in Nat /\ BlockSize \in Nat /\ BlockSize > 0
    BY <1>4
  <2> HIDE DEF n
  <2> QED
    BY <2>1, Division, Zenon
<1> HIDE DEF n
<1>6. m_len' \in 0..(BlockSize - 1) /\ len - (BlockSize - m_len) = product + m_len'
  BY <1>1, <1>4, <1>5, Zenon
<1> HIDE DEF block_nb
<1>7. product \in Nat /\ product = block_nb * BlockSize
  BY <1>5
<1> HIDE DEF product, rest
<1>8. /\ (block_nb + 1) * BlockSize = product + BlockSize
      /\ rest = m_tot_len + (product + BlockSize)
      /\ given + len = (m_tot_len + (product + BlockSize)) + m_len'
  <2> DEFINE left == m_len'
  <2>1. /\ m_tot_len \in Nat /\ m_len \in 0..(BlockSize - 1) /\ len \in Nat /\ block_nb \in Nat
        /\ left \in 0..(BlockSize - 1) /\ product \in Nat /\ product = block_nb * BlockSize
        /\ len - (BlockSize - m_len) = product + left
    <3>1. len \in Nat
      OBVIOUS
    <3> QED
      BY <1>2, <1>5, <1>6, <1>7, <3>1, Zenon
  <2>2. rest = ((m_tot_len + m_len) + (BlockSize - m_len)) + product /\ given + len = (m_tot_len + m_len) + len
    BY <1>2 DEF rest
  <2> HIDE DEF left, rem_len, filled
  <2>3. /\ (block_nb + 1) * BlockSize = product + BlockSize
        /\ ((m_tot_len + m_len) + (BlockSize - m_len)) + product = m_tot_len + (product + BlockSize)
        /\ (m_tot_len + m_len) + len = (m_tot_len + (product + BlockSize)) + left
    BY <2>1, Lengths
  <2> QED
    BY <2>2, <2>3, Zenon DEF left
<1>9. m_tot_len' = m_tot_len + (product + BlockSize)
  BY <1>1, <1>8, Zenon
<1>10. /\ m_tot_len' \in Nat /\ rest = m_tot_len' /\ given' = m_tot_len' + m_len'
       /\ m_tot_len + BlockSize <= rest /\ given + len = rest + m_len' /\ given' <= MaxLength
  BY <1>1, <1>2, <1>7, <1>8, <1>9
<1>11. Whole(m_tot_len')
  <2>1. PICK q \in Nat : m_tot_len = q * BlockSize
    BY <1>2 DEF Whole
  <2>2. q * BlockSize + (block_nb + 1) * BlockSize = (q + (block_nb + 1)) * BlockSize
    BY <1>5
  <2>3. q + (block_nb + 1) \in Nat
    BY <1>5
  <2> QED
    BY <1>1, <2>1, <2>2, <2>3 DEF Whole
<1> HIDE DEF rest
<1>12. DOMAIN filled = 0..(2 * BlockSize - 1) /\ DOMAIN m_block' = 0..(2 * BlockSize - 1)
  BY <1>1, <1>3, CopyDomain
<1>13. filled = Copy(m_block, m_len, Message(m_tot_len + m_len, m_tot_len + BlockSize))
  BY <1>2, <1>4, Zenon
<1> HIDE DEF filled, rem_len
<1>14. First(filled, BlockSize) = Message(m_tot_len, m_tot_len + BlockSize)
  <2> DEFINE to == m_tot_len + BlockSize
  <2>1. to \in Nat /\ m_tot_len + m_len <= to /\ to <= m_tot_len + BlockSize /\ to - m_tot_len = BlockSize /\ m_len \in Nat
    BY <1>2
  <2> HIDE DEF to
  <2>2. Holds(Copy(m_block, m_len, Message(m_tot_len + m_len, to)), m_tot_len, to - m_tot_len)
    BY <1>2, <1>3, <2>1, FilledBlock
  <2>3. filled = Copy(m_block, m_len, Message(m_tot_len + m_len, to))
    BY <1>13 DEF to
  <2>4. ASSUME NEW k \in 1..BlockSize PROVE filled[k - 1] = MessageByte(m_tot_len + k)
    <3>1. k - 1 \in 0..((to - m_tot_len) - 1) /\ m_tot_len + (k - 1) + 1 = m_tot_len + k
      BY <1>2, <2>1
    <3> QED
      BY <2>2, <2>3, <3>1 DEF Holds
  <2>5. First(filled, BlockSize) = [k \in 1..(to - m_tot_len) |-> MessageByte(m_tot_len + k)]
    BY <2>1, <2>4 DEF First
  <2> QED
    BY <2>5 DEF Message, to
<1>15. m_h' = Message(0, m_tot_len')
  <2> DEFINE to == m_tot_len + BlockSize
  <2>1. 0 \in Nat /\ to \in Nat /\ 0 <= m_tot_len /\ m_tot_len <= to /\ 0 <= to /\ to <= rest /\ rest \in Nat
    BY <1>2, <1>10
  <2> HIDE DEF to
  <2>2. Message(0, m_tot_len) \o Message(m_tot_len, to) = Message(0, to)
    BY <1>2, <2>1, MessageConcat
  <2>3. Message(0, to) \o Message(to, rest) = Message(0, rest)
    BY <2>1, MessageConcat
  <2>4. m_h' = (Message(0, m_tot_len) \o Message(m_tot_len, to)) \o Message(to, rest)
    BY <1>1, <1>3, <1>4, <1>14, Zenon DEF to
  <2> QED
    BY <1>10, <2>2, <2>3, <2>4, Zenon
<1>16. m_len' \in Nat /\ m_len' <= BlockSize - 1 /\ m_tot_len' \in Nat /\ rest \in Nat
  BY <1>6, <1>10
<1>17. Holds(m_block', m_tot_len', m_len')
  <2> DEFINE to == given + len
             at == 0
  <2>1. /\ to \in Nat /\ at \in Nat /\ rest \in Nat /\ rest + at <= to /\ to <= rest + BlockSize
        /\ to - rest = m_len' /\ rest + at = rest
    <3>1. to = rest + m_len' /\ at = 0
      BY <1>10
    <3> HIDE DEF to, at
    <3>2. rest + m_len' \in Nat /\ (rest + m_len') - rest = m_len' /\ rest + 0 = rest
          /\ rest <= rest + m_len' /\ rest + m_len' <= rest + BlockSize
      BY <1>16, RestOfPiece
    <3>3. at \in Nat
      BY <3>1
    <3> QED
      BY <1>16, <3>1, <3>2, <3>3, Zenon
  <2>3. Holds(filled, rest, at)
    BY DEF Holds
  <2>2. m_block' = Copy(filled, at, Message(rest + at, to))
    BY <1>1, <2>1, Zenon
  <2> HIDE DEF to, at
  <2>4. Holds(Copy(filled, at, Message(rest + at, to)), rest, to - rest)
    BY <1>12, <2>1, <2>3, FilledBlock
  <2> QED
    BY <1>10, <2>1, <2>2, <2>4, Zenon
<1> QED
  BY <1>2, <1>6, <1>10, <1>11, <1>12, <1>15, <1>17, Zenon DEF SInv, InStep, InPlace

\* final() and init() leave the block's shape alone, and after final() nothing is
\* asked of the bytes.
LEMMA FinalStep == ASSUME SInv, final PROVE SInv'
<1>1. m_len' = m_len /\ m_tot_len' = m_tot_len /\ given' = given /\ done' = TRUE
  BY Zenon DEF final
<1>2. InStep'
  BY <1>1 DEF SInv, InStep, Whole
<1>3. DOMAIN m_block' = DOMAIN m_block
  <2>1. PICK len_b, pm_len : m_block' = PaddedBlock(len_b, pm_len)
    BY Zenon DEF final
  <2> DEFINE cleared == Copy(m_block, m_len, [k \in 1..(pm_len - m_len) |-> Zero])
             marked  == Copy(cleared, m_len, <<Ox80>>)
  <2>2. DOMAIN cleared = DOMAIN m_block
    BY CopyDomain, Zenon
  <2>3. DOMAIN marked = DOMAIN cleared
    BY CopyDomain, Zenon
  <2>4. m_block' = Copy(marked, pm_len - 1, <<LengthByte(len_b)>>)
    BY <2>1 DEF PaddedBlock
  <2> HIDE DEF marked, cleared
  <2>5. DOMAIN m_block' = DOMAIN marked
    BY <2>4, CopyDomain, Zenon
  <2> QED
    BY <2>2, <2>3, <2>5
<1> QED
  BY <1>1, <1>2, <1>3, Zenon DEF SInv, InPlace

\* init begins a new message.
LEMMA InitAgain == ASSUME SInv, init PROVE SInv'
<1>1. m_len' = 0 /\ m_tot_len' = 0 /\ given' = 0 /\ m_h' = <<>> /\ m_block' = m_block
  BY DEF init
<1>2. InStep'
  <2>1. Whole(m_tot_len')
    <3>1. m_tot_len' = 0 * BlockSize
      BY <1>1
    <3> QED
      BY <3>1 DEF Whole
  <2> QED
    BY <1>1, <2>1 DEF InStep
<1>3. InPlace'
  <2>1. Message(0, 0) = <<>>
    BY DEF Message
  <2>2. Holds(m_block', 0, 0)
    BY DEF Holds
  <2>3. DOMAIN m_block' = 0..(2 * BlockSize - 1)
    BY <1>1 DEF SInv, InPlace
  <2> QED
    BY <1>1, <2>1, <2>2, <2>3 DEF InPlace
<1> QED
  BY <1>2, <1>3 DEF SInv

\* The lengths and the bytes stay in step, whatever pieces come and however many
\* messages one object hashes.
THEOREM BuffersInStep == HashSpec => []SInv
<1>1. HashInit => SInv
  BY SHA256Init
<1>2. SInv /\ [HashNext]_hashVars => SInv'
  <2> SUFFICES ASSUME SInv, [HashNext]_hashVars PROVE SInv'
    OBVIOUS
  <2>1. CASE init
    BY <2>1, InitAgain
  <2>2. ASSUME NEW len \in 0..MaxLength, update(len) PROVE SInv'
    <3>1. CASE UpdateKeeps(len)
      BY <2>2, <3>1, KeepsStep
    <3>2. CASE UpdateTransforms(len)
      BY <2>2, <3>2, TransformsStep
    <3> QED
      BY <2>2, <3>1, <3>2 DEF update
  <2>3. CASE final
    BY <2>3, FinalStep
  <2>4. CASE UNCHANGED hashVars
    BY <2>4 DEF hashVars, SInv, InStep, InPlace, Whole, Holds, Message
  <2> QED
    BY <2>1, <2>2, <2>3, <2>4 DEF HashNext
<1> QED
  BY <1>1, <1>2, PTL DEF HashSpec

\* The waiting bytes are fewer than a block and the compressed ones whole blocks, so
\* the subtractions of l.84 and l.91 never wrap.
THEOREM LengthsStayInStep == HashSpec => []LengthsAgree
<1>1. SInv => LengthsAgree
  <2> SUFFICES ASSUME SInv PROVE LengthsAgree
    OBVIOUS
  <2>1. /\ m_len \in 0..(BlockSize - 1) /\ m_tot_len \in Nat
        /\ given = m_tot_len + m_len /\ given <= MaxLength
    BY DEF SInv, InStep
  <2>2. PICK count \in Nat : m_tot_len = count * BlockSize
    BY DEF SInv, InStep, Whole
  <2>3. count <= count * BlockSize
    <3>1. BlockSize \in Nat /\ BlockSize - 1 \in Nat
      OBVIOUS
    <3>2. count * BlockSize = count + count * (BlockSize - 1)
      BY <3>1, Z3
    <3>3. count * (BlockSize - 1) \in Nat
      BY <3>1
    <3> QED
      BY <3>2, <3>3
  <2>4. count \in 0..MaxLength
    BY <2>1, <2>2, <2>3
  <2> QED
    BY <2>1, <2>2, <2>4, Zenon DEF LengthsAgree
<1> QED
  BY <1>1, BuffersInStep, PTL

\* No byte of a message is lost, doubled or moved by the way it is cut into pieces.
THEOREM StreamIsKept == HashSpec => []StreamKept
<1>1. SInv => StreamKept
  <2> SUFFICES ASSUME SInv, ~done PROVE m_h \o First(m_block, m_len) = Message(0, given)
    BY DEF StreamKept
  <2>1. m_len \in Nat /\ m_tot_len \in Nat /\ given = m_tot_len + m_len
    BY DEF SInv, InStep
  <2>2. m_h = Message(0, m_tot_len) /\ Holds(m_block, m_tot_len, m_len)
    BY Zenon DEF SInv, InPlace
  <2>3. First(m_block, m_len) = Message(m_tot_len, given)
    <3>1. given - m_tot_len = m_len
      BY <2>1
    <3>2. ASSUME NEW k \in 1..m_len PROVE m_block[k - 1] = MessageByte(m_tot_len + k)
      <4>1. k - 1 \in 0..(m_len - 1) /\ m_tot_len + (k - 1) + 1 = m_tot_len + k
        BY <2>1
      <4> QED
        BY <2>2, <4>1 DEF Holds
    <3>3. First(m_block, m_len) = [k \in 1..m_len |-> MessageByte(m_tot_len + k)]
      BY <3>2 DEF First
    <3> QED
      BY <3>1, <3>3 DEF Message
  <2>4. 0 \in Nat /\ 0 <= m_tot_len /\ m_tot_len <= given /\ given \in Nat
    BY <2>1
  <2>5. Message(0, m_tot_len) \o Message(m_tot_len, given) = Message(0, given)
    BY <2>1, <2>4, MessageConcat
  <2> QED
    BY <2>2, <2>3, <2>5, Zenon
<1> QED
  BY <1>1, BuffersInStep, PTL

\* The byte 0x80 and the length field always have room in m_block, behind the
\* message.
THEOREM PaddingHasRoom == HashSpec => []PaddingFits
<1>1. SInv => PaddingFits
  <2> SUFFICES ASSUME SInv PROVE PaddingFits
    OBVIOUS
  <2>1. m_len \in 0..(BlockSize - 1)
    BY DEF SInv, InStep
  <2>2. m_len % BlockSize = m_len
    <3>1. BlockSize \in Nat /\ BlockSize > 0 /\ m_len \in Nat /\ m_len < BlockSize
      BY <2>1
    <3> QED
      BY <3>1
  <2>3. CASE BlockSize - (LengthSize + 1) < m_len
    <3>1. PaddingBlocks(m_len) = 2
      BY <2>2, <2>3 DEF PaddingBlocks
    <3>2. m_len + 1 + LengthSize <= 2 * BlockSize
      BY <2>1
    <3> QED
      BY <3>1, <3>2 DEF PaddingFits
  <2>4. CASE ~(BlockSize - (LengthSize + 1) < m_len)
    <3>1. PaddingBlocks(m_len) = 1
      BY <2>2, <2>4 DEF PaddingBlocks
    <3>2. m_len + 1 + LengthSize <= 1 * BlockSize /\ 1 * BlockSize <= 2 * BlockSize
      BY <2>1, <2>4
    <3> QED
      BY <3>1, <3>2 DEF PaddingFits
  <2> QED
    BY <2>3, <2>4
<1> QED
  BY <1>1, BuffersInStep, PTL

-----------------------------------------------------------------------------
\* The zeros of the standard fill the blocks that the code takes.
LEMMA PaddingLength ==
    ASSUME NEW tot \in Nat, Whole(tot), NEW len \in 0..(BlockSize - 1)
    PROVE  LET size == (tot + len) + 1 + LengthSize
               pad  == (BlockSize - (size % BlockSize)) % BlockSize
           IN  pad \in Nat /\ PaddingBlocks(len) * BlockSize = len + 1 + LengthSize + pad
<1>1. PICK q \in Nat : tot = q * BlockSize
  BY DEF Whole
<1>0. BlockSize > 0 /\ BlockSize \in Nat
  OBVIOUS
<1>2. len % BlockSize = len
  OBVIOUS
<1> DEFINE s == len + 1 + LengthSize
           size == (tot + len) + 1 + LengthSize
           pad  == (BlockSize - (size % BlockSize)) % BlockSize
<1>3. s \in Nat /\ s > 0 /\ s < 2 * BlockSize /\ size = tot + s
  OBVIOUS
<1> HIDE DEF size, s
<1>4. CASE BlockSize - (LengthSize + 1) < len
  <2>1. PaddingBlocks(len) = 2
    BY <1>2, <1>4 DEF PaddingBlocks
  <2>2. s - BlockSize \in 0..(BlockSize - 1) /\ BlockSize + (s - BlockSize) = s
    BY <1>3, <1>4 DEF s
  <2>3. size % BlockSize = s - BlockSize
    <3>1. (q + 1) * BlockSize = q * BlockSize + BlockSize /\ q * BlockSize \in Nat
      BY SMT
    <3>2. size = (q + 1) * BlockSize + (s - BlockSize)
      BY <1>1, <1>3, <2>2, <3>1
    <3>3. q + 1 \in Nat
      OBVIOUS
    <3>4. ((q + 1) * BlockSize + (s - BlockSize)) % BlockSize = s - BlockSize
      BY <1>0, <2>2, <3>3, Quotient
    <3> QED
      BY <3>2, <3>4
  <2>4. s - BlockSize > 0
    BY <1>4 DEF s
  <2>5. BlockSize - (s - BlockSize) \in 0..(BlockSize - 1)
    BY <2>2, <2>4
  <2>6. pad = BlockSize - (s - BlockSize)
    BY <2>3, <2>5
  <2> HIDE DEF pad
  <2> QED
    BY <1>3, <2>1, <2>2, <2>5, <2>6 DEF size, s, pad
<1>5. CASE ~(BlockSize - (LengthSize + 1) < len)
  <2>1. PaddingBlocks(len) = 1
    BY <1>2, <1>5 DEF PaddingBlocks
  <2>2. s <= BlockSize
    BY <1>5 DEF s
  <2>3. CASE s = BlockSize
    <3>1. size % BlockSize = 0
      <4>1. (q + 1) * BlockSize + 0 = q * BlockSize + BlockSize /\ q * BlockSize \in Nat
        BY SMT
      <4>2. size = (q + 1) * BlockSize + 0
        BY <1>1, <1>3, <2>3, <4>1
      <4>3. q + 1 \in Nat /\ 0 \in 0..(BlockSize - 1)
        OBVIOUS
      <4>4. ((q + 1) * BlockSize + 0) % BlockSize = 0
        BY <1>0, <4>3, Quotient
      <4> QED
        BY <4>2, <4>4
    <3>2. pad = BlockSize % BlockSize
      BY <3>1
    <3>3. BlockSize % BlockSize = 0
      <4>1. 1 * BlockSize + 0 = BlockSize /\ 1 \in Nat /\ 0 \in 0..(BlockSize - 1)
        OBVIOUS
      <4>2. (1 * BlockSize + 0) % BlockSize = 0
        BY <1>0, <4>1, Quotient
      <4> QED
        BY <4>1, <4>2
    <3>4. pad = 0
      BY <3>2, <3>3
    <3> HIDE DEF pad
    <3> QED
      BY <2>1, <2>3, <3>4 DEF size, s, pad
  <2>4. CASE s # BlockSize
    <3>1. s \in 0..(BlockSize - 1)
      BY <1>3, <2>2, <2>4
    <3>2. size % BlockSize = s
      <4>1. size = q * BlockSize + s
        BY <1>1, <1>3
      <4> QED
        BY <1>0, <3>1, <4>1, Quotient
    <3>3. BlockSize - s \in 0..(BlockSize - 1)
      BY <1>3, <3>1
    <3>4. pad = BlockSize - s
      BY <3>2, <3>3
    <3> HIDE DEF pad
    <3> QED
      BY <1>3, <2>1, <3>3, <3>4 DEF size, s, pad
  <2> QED
    BY <2>3, <2>4
<1> QED
  BY <1>4, <1>5

\* What final() may have in m_block where it has put a byte.
FinalByte == Stream \cup {Zero, Ox80} \cup {LengthByte(n) : n \in Nat}

\* m_block behind the waiting bytes, up to the end of the padding.
LEMMA PaddedBytes ==
    ASSUME DOMAIN m_block = 0..(2 * BlockSize - 1), NEW bits \in Nat,
           m_len \in Nat, NEW end \in Nat, m_len + 1 < end, end <= 2 * BlockSize
    PROVE  /\ \A k \in 0..(m_len - 1) : PaddedBlock(bits, end)[k] = m_block[k]
           /\ PaddedBlock(bits, end)[m_len] = Ox80
           /\ \A k \in (m_len + 1)..(end - 2) : PaddedBlock(bits, end)[k] = Zero
           /\ PaddedBlock(bits, end)[end - 1] = LengthByte(bits)
<1> DEFINE zeros   == [k \in 1..(end - m_len) |-> Zero]
           cleared == Copy(m_block, m_len, zeros)
           marked  == Copy(cleared, m_len, <<Ox80>>)
           padded  == Copy(marked, end - 1, <<LengthByte(bits)>>)
<1>1. Len(zeros) = end - m_len /\ \A k \in 1..(end - m_len) : zeros[k] = Zero
  BY DEF Zero
<1> HIDE DEF zeros
<1>2. DOMAIN cleared = 0..(2 * BlockSize - 1)
  BY CopyDomain
<1>3. DOMAIN marked = 0..(2 * BlockSize - 1)
  BY <1>2, CopyDomain
<1>4. \A k \in 0..(2 * BlockSize - 1) :
         cleared[k] = IF m_len <= k /\ k < m_len + Len(zeros) THEN zeros[k - m_len + 1] ELSE m_block[k]
  BY DEF Copy
<1> HIDE DEF cleared
<1>5. \A k \in 0..(2 * BlockSize - 1) :
         marked[k] = IF m_len <= k /\ k < m_len + Len(<<Ox80>>) THEN <<Ox80>>[k - m_len + 1] ELSE cleared[k]
  BY <1>2 DEF Copy
<1> HIDE DEF marked
<1>6. \A k \in 0..(2 * BlockSize - 1) :
         padded[k] = IF end - 1 <= k /\ k < end - 1 + Len(<<LengthByte(bits)>>)
                       THEN <<LengthByte(bits)>>[k - (end - 1) + 1] ELSE marked[k]
  BY <1>3 DEF Copy
<1>7. padded = PaddedBlock(bits, end)
  BY DEF PaddedBlock, padded, marked, cleared, zeros
<1> HIDE DEF padded
<1>8. /\ Len(<<Ox80>>) = 1 /\ <<Ox80>>[1] = Ox80
      /\ Len(<<LengthByte(bits)>>) = 1 /\ <<LengthByte(bits)>>[1] = LengthByte(bits)
  OBVIOUS
<1>9. \A k \in 0..(2 * BlockSize - 1) : k # m_len => marked[k] = cleared[k]
  BY <1>5, <1>8
<1>10. marked[m_len] = Ox80
  <2>1. m_len \in 0..(2 * BlockSize - 1) /\ m_len - m_len + 1 = 1
    OBVIOUS
  <2> QED
    BY <1>5, <1>8, <2>1
<1>11. \A k \in 0..(2 * BlockSize - 1) : k < end - 1 => padded[k] = marked[k]
  BY <1>6, <1>8
<1>12. padded[end - 1] = LengthByte(bits)
  <2>1. end - 1 \in 0..(2 * BlockSize - 1) /\ (end - 1) - (end - 1) + 1 = 1 /\ end - 1 < end - 1 + 1
    OBVIOUS
  <2> QED
    BY <1>6, <1>8, <2>1
<1>13. ASSUME NEW k \in 0..(m_len - 1) PROVE padded[k] = m_block[k]
  BY <1>4, <1>9, <1>11
<1>14. ASSUME NEW k \in (m_len + 1)..(end - 2) PROVE padded[k] = Zero
  <2>1. k \in 0..(2 * BlockSize - 1) /\ k # m_len /\ k < end - 1 /\ m_len <= k /\ k < m_len + (end - m_len)
        /\ k - m_len + 1 \in 1..(end - m_len)
    OBVIOUS
  <2>2. padded[k] = cleared[k]
    BY <1>9, <1>11, <2>1
  <2>3. cleared[k] = zeros[k - m_len + 1]
    BY <1>1, <1>4, <2>1
  <2> QED
    BY <1>1, <2>1, <2>2, <2>3
<1>15. padded[m_len] = Ox80
  BY <1>10, <1>11
<1> QED
  BY <1>7, <1>12, <1>13, <1>14, <1>15

\* A message of n bytes, the byte 0x80, zeros and a length, byte for byte.
IsPadded(s, n, zeros, bits) ==
    /\ s \in Seq(FinalByte)
    /\ Len(s) = n + zeros + 2
    /\ \A k \in 1..n : s[k] = MessageByte(k)
    /\ s[n + 1] = Ox80
    /\ \A k \in (n + 2)..(n + zeros + 1) : s[k] = Zero
    /\ s[n + zeros + 2] = LengthByte(bits)

\* The same bytes as a sequence: the piece of the message, one 0x80, the zeros and the
\* bits of its length are its elements one after the other.
LEMMA PaddedSequence ==
    ASSUME NEW n \in Nat, NEW zeros \in Nat, NEW bits \in Nat, NEW padded,
           padded = Message(0, n) \o <<Ox80>> \o [k \in 1..zeros |-> Zero] \o <<LengthByte(bits)>>
    PROVE  IsPadded(padded, n, zeros, bits)
<1>1. PICK s : s = Message(0, n)
  OBVIOUS
<1>2. s \in Seq(FinalByte) /\ Len(s) = n /\ \A k \in 1..n : s[k] = MessageByte(k)
  <2>1. 0 \in Nat /\ 0 <= n /\ n - 0 = n /\ \A k \in 1..n : 0 + k = k
    OBVIOUS
  <2>2. s \in Seq(Stream) /\ Len(s) = n - 0 /\ \A k \in 1..(n - 0) : s[k] = MessageByte(0 + k)
    BY <1>1, <2>1, MessagePiece
  <2>3. Stream \subseteq FinalByte
    BY DEF FinalByte
  <2> QED
    BY <2>1, <2>2, <2>3
<1>3. PICK a : a = Ox80
  OBVIOUS
<1>4. PICK b : b = LengthByte(bits)
  OBVIOUS
<1>5. a \in FinalByte /\ b \in FinalByte /\ Zero \in FinalByte
  BY <1>3, <1>4 DEF FinalByte
<1>6. PICK z : z = [k \in 1..zeros |-> Zero]
  OBVIOUS
<1>7. z \in Seq(FinalByte) /\ Len(z) = zeros /\ \A k \in 1..zeros : z[k] = Zero
  BY <1>5, <1>6
<1>8. <<a>> \in Seq(FinalByte) /\ Len(<<a>>) = 1 /\ <<a>>[1] = a
  BY <1>5
<1>9. <<b>> \in Seq(FinalByte) /\ Len(<<b>>) = 1 /\ <<b>>[1] = b
  BY <1>5
<1>10. PICK t : t = s \o <<a>>
  OBVIOUS
<1>11. t \in Seq(FinalByte) /\ Len(t) = n + 1 /\ (\A k \in 1..n : t[k] = s[k]) /\ t[n + 1] = a
  <2>1. /\ t \in Seq(FinalByte) /\ Len(t) = Len(s) + Len(<<a>>)
        /\ \A k \in 1..(Len(s) + Len(<<a>>)) : t[k] = IF k <= Len(s) THEN s[k] ELSE <<a>>[k - Len(s)]
    BY <1>2, <1>8, <1>10, ConcatProperties
  <2>2. Len(s) + Len(<<a>>) = n + 1 /\ (n + 1) - Len(s) = 1
    BY <1>2, <1>8
  <2> QED
    BY <1>2, <1>8, <2>1, <2>2
<1>12. PICK u : u = t \o z
  OBVIOUS
<1>13. /\ u \in Seq(FinalByte) /\ Len(u) = n + 1 + zeros
       /\ \A k \in 1..(n + 1) : u[k] = t[k]
       /\ \A k \in (n + 2)..(n + 1 + zeros) : u[k] = Zero
  <2>1. /\ u \in Seq(FinalByte) /\ Len(u) = Len(t) + Len(z)
        /\ \A k \in 1..(Len(t) + Len(z)) : u[k] = IF k <= Len(t) THEN t[k] ELSE z[k - Len(t)]
    BY <1>7, <1>11, <1>12, ConcatProperties
  <2>2. Len(t) + Len(z) = n + 1 + zeros
    BY <1>7, <1>11
  <2>3. \A k \in (n + 2)..(n + 1 + zeros) : k - (n + 1) \in 1..zeros
    OBVIOUS
  <2> QED
    BY <1>7, <1>11, <2>1, <2>2, <2>3
<1>14. PICK v : v = u \o <<b>>
  OBVIOUS
<1>15. /\ v \in Seq(FinalByte) /\ Len(v) = n + zeros + 2
       /\ \A k \in 1..(n + 1 + zeros) : v[k] = u[k]
       /\ v[n + zeros + 2] = b
  <2>1. /\ v \in Seq(FinalByte) /\ Len(v) = Len(u) + Len(<<b>>)
        /\ \A k \in 1..(Len(u) + Len(<<b>>)) : v[k] = IF k <= Len(u) THEN u[k] ELSE <<b>>[k - Len(u)]
    BY <1>9, <1>13, <1>14, ConcatProperties
  <2>2. Len(u) + Len(<<b>>) = n + zeros + 2 /\ (n + zeros + 2) - Len(u) = 1
    BY <1>9, <1>13
  <2> QED
    BY <1>9, <1>13, <2>1, <2>2
<1>16. v = padded
  BY <1>1, <1>3, <1>4, <1>6, <1>10, <1>12, <1>14
<1>17. /\ \A k \in 1..n : v[k] = MessageByte(k)
       /\ v[n + 1] = Ox80
       /\ \A k \in (n + 2)..(n + zeros + 1) : v[k] = Zero
       /\ v[n + zeros + 2] = LengthByte(bits)
  <2>1. \A k \in 1..n : v[k] = MessageByte(k)
    BY <1>2, <1>11, <1>13, <1>15
  <2>2. v[n + 1] = Ox80
    BY <1>3, <1>11, <1>13, <1>15
  <2>3. \A k \in (n + 2)..(n + zeros + 1) : v[k] = Zero
    BY <1>13, <1>15
  <2> QED
    BY <1>4, <1>15, <2>1, <2>2, <2>3
<1>18. IsPadded(v, n, zeros, bits)
  BY <1>15, <1>17 DEF IsPadded
<1> QED
  BY <1>16, <1>18

\* final() pads the message it has been given as the standard does.
LEMMA FinalPads == ASSUME SInv, final PROVE PadsAsStandard'
<1> SUFFICES ASSUME 8 * given < Word PROVE m_h' = Padded(given)
  <2>1. given' = given
    BY Zenon DEF final
  <2>2. PadsAsStandard' <=> (done' /\ 8 * given' < Word => m_h' = Padded(given'))
    BY DEF PadsAsStandard, Padded, Message
  <2> QED
    BY <2>1, <2>2
<1>1. PICK bits : bits = ((m_tot_len + m_len) * 8) % Word
  OBVIOUS
<1>2. PICK end : end = PaddingBlocks(m_len) * BlockSize
  OBVIOUS
<1>3. m_h' = m_h \o First(m_block', end) /\ m_block' = PaddedBlock(bits, end) /\ ~done
  BY <1>1, <1>2, Zenon DEF final
<1>4. /\ m_len \in 0..(BlockSize - 1) /\ m_len \in Nat /\ m_tot_len \in Nat /\ Whole(m_tot_len)
      /\ given = m_tot_len + m_len /\ given \in Nat
  BY DEF SInv, InStep
<1>5. /\ DOMAIN m_block = 0..(2 * BlockSize - 1)
      /\ m_h = Message(0, m_tot_len) /\ Holds(m_block, m_tot_len, m_len)
  BY <1>3, Zenon DEF SInv, InPlace
<1>6. bits = 8 * given /\ bits \in Nat
  <2>1. (m_tot_len + m_len) * 8 = 8 * given /\ 8 * given \in Nat
    BY <1>4
  <2>2. (8 * given) % Word = 8 * given
    BY <2>1
  <2> QED
    BY <1>1, <2>1, <2>2
<1>7. PICK pad : pad = (BlockSize - ((given + 1 + LengthSize) % BlockSize)) % BlockSize
  OBVIOUS
<1>8. pad \in Nat /\ end = m_len + 1 + LengthSize + pad
  BY <1>2, <1>4, <1>7, PaddingLength
<1>9. end <= 2 * BlockSize
  <2>1. PaddingBlocks(m_len) = 1 \/ PaddingBlocks(m_len) = 2
    BY DEF PaddingBlocks
  <2> QED
    BY <1>2, <2>1
<1>10. PICK zeros \in Nat : zeros = pad + LengthSize - 1
  BY <1>8
<1>11. Padded(given) = Message(0, given) \o <<Ox80>> \o [k \in 1..zeros |-> Zero] \o <<LengthByte(bits)>>
  BY <1>6, <1>7, <1>10 DEF Padded
<1>12. PICK u : u = Padded(given)
  OBVIOUS
<1>13. /\ u \in Seq(FinalByte)
       /\ Len(u) = given + zeros + 2
       /\ \A k \in 1..given : u[k] = MessageByte(k)
       /\ u[given + 1] = Ox80
       /\ \A k \in (given + 2)..(given + zeros + 1) : u[k] = Zero
       /\ u[given + zeros + 2] = LengthByte(bits)
  <2>1. PICK n \in Nat : n = given
    BY <1>4
  <2>2. u = Message(0, n) \o <<Ox80>> \o [k \in 1..zeros |-> Zero] \o <<LengthByte(bits)>>
    BY <1>11, <1>12, <2>1
  <2>3. IsPadded(u, n, zeros, bits)
    BY <1>6, <2>2, PaddedSequence
  <2> QED
    BY <2>1, <2>3 DEF IsPadded
<1>14. m_len + 1 < end /\ end \in Nat /\ end = m_len + zeros + 2
  BY <1>4, <1>8, <1>10
<1>15. PICK block : block = PaddedBlock(bits, end)
  OBVIOUS
<1>16. /\ \A k \in 0..(m_len - 1) : block[k] = m_block[k]
       /\ block[m_len] = Ox80
       /\ \A k \in (m_len + 1)..(end - 2) : block[k] = Zero
       /\ block[end - 1] = LengthByte(bits)
  <2>1. /\ \A k \in 0..(m_len - 1) : PaddedBlock(bits, end)[k] = m_block[k]
        /\ PaddedBlock(bits, end)[m_len] = Ox80
        /\ \A k \in (m_len + 1)..(end - 2) : PaddedBlock(bits, end)[k] = Zero
        /\ PaddedBlock(bits, end)[end - 1] = LengthByte(bits)
    BY <1>4, <1>5, <1>6, <1>9, <1>14, PaddedBytes, ZenonT(30)
  <2> QED
    BY <1>15, <2>1, Zenon
<1>17. PICK f : f = First(block, end)
  OBVIOUS
<1>18. f = [k \in 1..end |-> block[k - 1]]
  BY <1>17 DEF First
<1>19. \A k \in 1..end : f[k] = block[k - 1]
  BY <1>18
<1>20. /\ \A k \in 1..m_len : f[k] = MessageByte(m_tot_len + k)
       /\ f[m_len + 1] = Ox80
       /\ \A k \in (m_len + 2)..(end - 1) : f[k] = Zero
       /\ f[end] = LengthByte(bits)
  <2>1. ASSUME NEW k \in 1..m_len PROVE f[k] = MessageByte(m_tot_len + k)
    <3>1. k - 1 \in 0..(m_len - 1) /\ k \in 1..end /\ m_tot_len + (k - 1) + 1 = m_tot_len + k
      BY <1>4, <1>14
    <3>2. m_block[k - 1] = MessageByte(m_tot_len + (k - 1) + 1)
      BY <1>5, <3>1 DEF Holds
    <3> QED
      BY <1>16, <1>19, <3>1, <3>2
  <2>2. m_len + 1 \in 1..end /\ (m_len + 1) - 1 = m_len /\ end \in 1..end
    BY <1>4, <1>14
  <2>3. \A k \in (m_len + 2)..(end - 1) : k \in 1..end /\ k - 1 \in (m_len + 1)..(end - 2)
    BY <1>4, <1>14
  <2> QED
    BY <1>16, <1>19, <2>1, <2>2, <2>3
<1>21. f \in Seq(FinalByte) /\ Len(f) = end
  <2>1. \A k \in 1..end : f[k] \in FinalByte
    <3>1. \A k \in 1..m_len : MessageByte(m_tot_len + k) \in FinalByte
      <4>1. \A k \in 1..m_len : m_tot_len + k \in Nat
        BY <1>4
      <4> QED
        BY <4>1 DEF FinalByte, Stream
    <3>2. Ox80 \in FinalByte /\ Zero \in FinalByte /\ LengthByte(bits) \in FinalByte
      BY <1>6 DEF FinalByte
    <3>3. \A k \in 1..end : k \in 1..m_len \/ k = m_len + 1 \/ k \in (m_len + 2)..(end - 1) \/ k = end
      BY <1>4, <1>14
    <3> QED
      BY <1>20, <3>1, <3>2, <3>3
  <2> QED
    BY <1>14, <1>18, <1>19, <2>1
<1>22. PICK s : s = Message(0, m_tot_len)
  OBVIOUS
<1>23. s \in Seq(FinalByte) /\ Len(s) = m_tot_len /\ \A k \in 1..m_tot_len : s[k] = MessageByte(k)
  <2>1. 0 \in Nat /\ 0 <= m_tot_len /\ m_tot_len - 0 = m_tot_len /\ \A k \in 1..m_tot_len : 0 + k = k
    BY <1>4
  <2>2. s \in Seq(Stream) /\ Len(s) = m_tot_len - 0 /\ \A k \in 1..(m_tot_len - 0) : s[k] = MessageByte(0 + k)
    BY <1>4, <1>22, <2>1, MessagePiece
  <2>3. Stream \subseteq FinalByte
    BY DEF FinalByte
  <2> QED
    BY <2>1, <2>2, <2>3
<1>24. PICK t : t = s \o f
  OBVIOUS
<1>25. /\ t \in Seq(FinalByte) /\ Len(t) = m_tot_len + end
       /\ \A k \in 1..(m_tot_len + end) : t[k] = IF k <= m_tot_len THEN s[k] ELSE f[k - m_tot_len]
  <2>1. /\ t \in Seq(FinalByte) /\ Len(t) = Len(s) + Len(f)
        /\ \A k \in 1..(Len(s) + Len(f)) : t[k] = IF k <= Len(s) THEN s[k] ELSE f[k - Len(s)]
    BY <1>21, <1>23, <1>24, ConcatProperties
  <2> QED
    BY <1>21, <1>23, <2>1
<1>26. Len(t) = Len(u)
  BY <1>4, <1>13, <1>14, <1>25
<1>27. ASSUME NEW k \in 1..Len(t) PROVE t[k] = u[k]
  <2>1. k \in 1..(m_tot_len + end) /\ m_tot_len + end = given + zeros + 2
    BY <1>4, <1>14, <1>25
  <2>2. CASE k <= m_tot_len
    <3>1. k \in 1..m_tot_len /\ k \in 1..given
      BY <1>4, <2>2
    <3>2. t[k] = s[k]
      BY <1>25, <2>1, <2>2
    <3>3. s[k] = MessageByte(k) /\ u[k] = MessageByte(k)
      BY <1>13, <1>23, <3>1
    <3> QED
      BY <3>2, <3>3
  <2>3. CASE k > m_tot_len
    <3>1. PICK j : j = k - m_tot_len
      OBVIOUS
    <3>2. j \in 1..end /\ t[k] = f[j] /\ k = m_tot_len + j /\ j \in Nat /\ k \in Nat
      <4>1. k \in Nat /\ m_tot_len \in Nat /\ end \in Nat /\ k <= m_tot_len + end
        BY <1>4, <1>14, <2>1
      <4>2. t[k] = f[k - m_tot_len]
        BY <1>25, <2>1, <2>3, <4>1
      <4> QED
        BY <2>3, <3>1, <4>1, <4>2
    <3>3. CASE j \in 1..m_len
      <4>1. k \in 1..given
        BY <1>4, <3>2, <3>3
      <4>2. f[j] = MessageByte(m_tot_len + j) /\ u[k] = MessageByte(k)
        BY <1>13, <1>20, <3>3, <4>1
      <4> QED
        BY <3>2, <4>2
    <3>4. CASE j = m_len + 1
      <4>1. k = given + 1
        BY <1>4, <3>2, <3>4
      <4>2. f[j] = Ox80 /\ u[k] = Ox80
        BY <1>13, <1>20, <3>4, <4>1, Zenon
      <4> QED
        BY <3>2, <4>2
    <3>5. CASE j \in (m_len + 2)..(end - 1)
      <4>1. k \in (given + 2)..(given + zeros + 1)
        BY <1>4, <1>14, <3>2, <3>5
      <4>2. f[j] = Zero /\ u[k] = Zero
        BY <1>13, <1>20, <3>5, <4>1, Zenon
      <4> QED
        BY <3>2, <4>2
    <3>6. CASE j = end
      <4>1. k = given + zeros + 2
        BY <1>4, <1>14, <3>2, <3>6
      <4>2. f[j] = LengthByte(bits) /\ u[k] = LengthByte(bits)
        BY <1>13, <1>20, <3>6, <4>1, Zenon
      <4> QED
        BY <3>2, <4>2
    <3> QED
      BY <1>4, <1>14, <3>2, <3>3, <3>4, <3>5, <3>6
  <2> QED
    BY <1>4, <2>1, <2>2, <2>3
<1>28. t = u
  BY <1>13, <1>25, <1>26, <1>27, SeqEqual
<1> QED
  BY <1>3, <1>5, <1>12, <1>15, <1>17, <1>22, <1>24, <1>28

\* Whatever pieces a message comes in, and whatever an earlier one has left in the
\* block, final() pads it as the standard does, for as long as the 32 bits of the
\* length hold the number of its bits (sha256.cpp:108-116).
THEOREM PadsLikeStandard == HashSpec => []PadsAsStandard
<1>1. HashInit => PadsAsStandard
  BY DEF HashInit, PadsAsStandard
<1>2. SInv /\ PadsAsStandard /\ [HashNext]_hashVars => PadsAsStandard'
  <2> SUFFICES ASSUME SInv, PadsAsStandard, [HashNext]_hashVars PROVE PadsAsStandard'
    OBVIOUS
  <2>1. CASE init
    <3>1. ~done'
      BY <2>1 DEF init
    <3> QED
      BY <3>1 DEF PadsAsStandard
  <2>2. ASSUME NEW len \in 0..MaxLength, update(len) PROVE PadsAsStandard'
    <3>1. ~done'
      BY <2>2, Zenon DEF update
    <3> QED
      BY <3>1 DEF PadsAsStandard
  <2>3. CASE final
    BY <2>3, FinalPads
  <2>4. CASE UNCHANGED hashVars
    BY <2>4 DEF hashVars, PadsAsStandard, Padded, Message
  <2> QED
    BY <2>1, <2>2, <2>3, <2>4 DEF HashNext
<1> QED
  BY <1>1, <1>2, BuffersInStep, PTL DEF HashSpec

-----------------------------------------------------------------------------
(* PBFTDataPackage *)

\* The equation that defines Power has a solution, so Power is one.
LEMMA PowerEquation ==
    Power = [size \in Nat |-> IF size = 0 THEN 1 ELSE Base * Power[size - 1]]
<1>1. Base \in Nat
  BY PackageAssumption
<1>2. PICK step : step = [x \in Nat |-> Base * x]
  OBVIOUS
<1>7. step \in [Nat -> Nat] /\ 1 \in Nat
  BY <1>1, <1>2
<1>8. PICK f : IsIterated(f, Nat, step, 1)
  BY <1>7, Iteration
<1>3. f \in [Nat -> Nat] /\ f[0] = 1 /\ \A n \in Nat : f[n + 1] = step[f[n]]
  BY <1>8 DEF IsIterated
<1>4. ASSUME NEW n \in Nat PROVE f[n] = IF n = 0 THEN 1 ELSE Base * f[n - 1]
  <2>1. CASE n = 0
    BY <1>3, <2>1
  <2>2. CASE n # 0
    <3>1. n - 1 \in Nat /\ (n - 1) + 1 = n
      BY <2>2
    <3>2. f[n] = step[f[n - 1]]
      BY <1>3, <3>1
    <3>3. f[n - 1] \in Nat
      BY <1>3, <3>1
    <3> QED
      BY <1>2, <2>2, <3>2, <3>3
  <2> QED
    BY <2>1, <2>2
<1>5. f = [size \in Nat |-> IF size = 0 THEN 1 ELSE Base * f[size - 1]]
  <2>1. f = [size \in Nat |-> f[size]]
    BY <1>3
  <2> QED
    BY <1>4, <2>1
<1>6. \E g : g = [size \in Nat |-> IF size = 0 THEN 1 ELSE Base * g[size - 1]]
  BY <1>5
<1> QED
  BY <1>6, Zenon DEF Power

\* The two cases of a power.
LEMMA PowerZero == Power[0] = 1
<1>1. Power[0] = IF 0 = 0 THEN 1 ELSE Base * Power[0 - 1]
  BY PowerEquation
<1> QED
  BY <1>1

\* A power is Base times the one before it.
LEMMA PowerNext ==
    ASSUME NEW n \in Nat
    PROVE  Power[n + 1] = Base * Power[n]
<1>1. n + 1 \in Nat /\ n + 1 # 0 /\ (n + 1) - 1 = n
  OBVIOUS
<1>2. Power[n + 1] = IF n + 1 = 0 THEN 1 ELSE Base * Power[(n + 1) - 1]
  BY <1>1, PowerEquation
<1> QED
  BY <1>1, <1>2

\* Powers are positive.
LEMMA PowerType ==
    ASSUME NEW n \in Nat
    PROVE  Power[n] \in Nat /\ Power[n] > 0
<1> DEFINE Bad == {j \in Nat : ~(Power[j] \in Nat /\ Power[j] > 0)}
<1>1. CASE Bad = {}
  BY <1>1
<1>2. CASE Bad # {}
  <2>1. Bad \in SUBSET Nat
    OBVIOUS
  <2> HIDE DEF Bad
  <2>2. PICK j \in Bad : \A i \in Bad : j <= i
    BY <1>2, <2>1, LeastOfNaturals
  <2>3. j # 0
    BY <2>2, PowerZero DEF Bad
  <2>4. j \in Nat /\ j - 1 \in Nat /\ (j - 1) + 1 = j /\ j - 1 \notin Bad
    BY <2>1, <2>2, <2>3
  <2>5. PICK b \in Nat, p \in Nat : b = Base /\ b > 0 /\ p = Power[j - 1] /\ p > 0
    BY <2>4, PackageAssumption DEF Bad
  <2>6. Power[j] = b * p
    BY <2>4, <2>5, PowerNext
  <2>7. b * p \in Nat /\ b * p > 0
    BY <2>5
  <2> QED
    BY <2>2, <2>6, <2>7 DEF Bad
<1> QED
  BY <1>1, <1>2

\* Dividing twice is dividing by the product.
LEMMA DividedTwice ==
    ASSUME NEW a \in Nat, NEW b \in Nat, b > 0, NEW c \in Nat, c > 0
    PROVE  a \div (c * b) = (a \div b) \div c
<1>1. PICK q \in Nat, r \in 0..(b - 1) : a \div b = q /\ a = q * b + r
  BY Division
<1>2. PICK t \in Nat, s \in 0..(c - 1) : q \div c = t /\ q = t * c + s
  BY Division
<1>3. PICK cb \in Nat : cb = c * b /\ cb > 0
  BY SMT
<1>4. PICK sb \in Nat : sb = s * b
  BY SMT
<1>5. q * b = t * cb + sb
  <2>1. (t * c + s) * b = (t * c) * b + s * b
    BY SMT
  <2>2. (t * c) * b = t * (c * b)
    BY SMT
  <2> QED
    BY <1>2, <1>3, <1>4, <2>1, <2>2
<1>6. sb + b <= cb
  <2>1. PICK d \in Nat : c = s + 1 + d
    <3>1. c - (s + 1) \in Nat /\ c = s + 1 + (c - (s + 1))
      OBVIOUS
    <3> QED
      BY <3>1
  <2>2. (s + 1 + d) * b = s * b + b + d * b
    BY SMT
  <2>3. d * b \in Nat
    BY SMT
  <2> QED
    BY <1>3, <1>4, <2>1, <2>2, <2>3
<1>7. sb + r \in 0..(cb - 1)
  BY <1>6
<1>8. PICK tcb \in Nat : tcb = t * cb
  BY SMT
<1>9. a = t * cb + (sb + r)
  BY <1>1, <1>5, <1>8
<1>10. (t * cb + (sb + r)) \div cb = t
  BY <1>3, <1>7, Quotient
<1> QED
  BY <1>1, <1>2, <1>3, <1>9, <1>10

\* What is less than m has the quotient 0 by m.
LEMMA SmallQuotient ==
    ASSUME NEW m \in Nat, m > 0, NEW n \in 0..(m - 1)
    PROVE  n \div m = 0
<1>1. (0 * m + n) \div m = 0
  BY Quotient
<1>2. 0 * m + n = n
  BY SMT
<1> QED
  BY <1>1, <1>2

\* The bytes are a sequence of naturals, as many as there should be.
LEMMA BytesType ==
    ASSUME NEW x \in Nat, NEW size \in Nat
    PROVE  Bytes(x, size) \in Seq(Nat) /\ Len(Bytes(x, size)) = size
<1>1. ASSUME NEW i \in 1..size PROVE (x \div Power[size - i]) % Base \in Nat
  <2>1. size - i \in Nat
    OBVIOUS
  <2>2. PICK p \in Nat, b \in Nat : p = Power[size - i] /\ p > 0 /\ b = Base /\ b > 0
    BY <2>1, PowerType, PackageAssumption
  <2>3. x \div p \in Nat
    BY <2>2, Division
  <2>4. (x \div p) % b \in Nat
    BY <2>2, <2>3, Division
  <2> QED
    BY <2>2, <2>4
<1> QED
  BY <1>1 DEF Bytes

\* A number that fits has bytes of its own (l.28-34).
LEMMA BytesNameNumber ==
    ASSUME NEW size \in Nat,
           NEW x \in 0..(Power[size] - 1), NEW y \in 0..(Power[size] - 1),
           Bytes(x, size) = Bytes(y, size)
    PROVE  x = y
<1> DEFINE Bad == {j \in Nat : j <= size /\ x \div Power[size - j] # y \div Power[size - j]}
<1>0. x \in Nat /\ y \in Nat /\ Power[size] \in Nat /\ Power[size] > 0
  BY PowerType
<1>1. CASE Bad = {}
  <2>1. x \div Power[size - size] = y \div Power[size - size]
    BY <1>1
  <2>2. size - size = 0
    OBVIOUS
  <2>3. x \div 1 = x /\ y \div 1 = y
    <3>1. 0 \in 0..(1 - 1) /\ x * 1 + 0 = x /\ y * 1 + 0 = y /\ 1 \in Nat /\ 1 > 0
      BY <1>0
    <3>2. (x * 1 + 0) \div 1 = x /\ (y * 1 + 0) \div 1 = y
      BY <1>0, <3>1, Quotient
    <3> QED
      BY <3>1, <3>2
  <2> QED
    BY <2>1, <2>2, <2>3, PowerZero
<1>2. CASE Bad # {}
  <2>1. Bad \in SUBSET Nat
    OBVIOUS
  <2> HIDE DEF Bad
  <2>2. PICK j \in Bad : \A i \in Bad : j <= i
    BY <1>2, <2>1, LeastOfNaturals
  <2> USE DEF Bad
  <2>3. j # 0
    <3>1. x \div Power[size] = 0 /\ y \div Power[size] = 0
      BY <1>0, SmallQuotient
    <3>2. size - 0 = size
      OBVIOUS
    <3> QED
      BY <2>2, <3>1, <3>2
  <2>4. /\ j \in 1..size /\ j - 1 \in Nat /\ j - 1 \notin Bad
        /\ size - j \in Nat /\ size - (j - 1) = (size - j) + 1
    BY <2>2, <2>3
  <2>5. PICK p \in Nat, b \in Nat : p = Power[size - j] /\ p > 0 /\ b = Base /\ b > 0
    BY <2>4, PowerType, PackageAssumption
  <2>6. Power[size - (j - 1)] = b * p
    BY <2>4, <2>5, PowerNext
  <2>7. x \div (b * p) = y \div (b * p)
    BY <2>4, <2>6
  <2>8. PICK u \in Nat, v \in Nat : u = x \div p /\ v = y \div p
    BY <1>0, <2>5, Division
  <2>9. u \div b = v \div b
    BY <1>0, <2>5, <2>7, <2>8, DividedTwice
  <2>10. u % b = v % b
    <3>1. Bytes(x, size)[j] = (x \div Power[size - j]) % Base /\ Bytes(y, size)[j] = (y \div Power[size - j]) % Base
      BY <2>4 DEF Bytes
    <3> QED
      BY <2>5, <2>8, <3>1
  <2>11. u = (u \div b) * b + (u % b) /\ v = (v \div b) * b + (v % b)
    BY <2>5, Division
  <2>12. u = v
    BY <2>9, <2>10, <2>11
  <2> QED
    BY <2>2, <2>5, <2>8, <2>12
<1> QED
  BY <1>1, <1>2

\* Where the parts of two equal concatenations are of one length, they are equal.
LEMMA SplitsAlike ==
    ASSUME NEW S, NEW s \in Seq(S), NEW t \in Seq(S), NEW u \in Seq(S), NEW v \in Seq(S),
           Len(s) = Len(u), s \o t = u \o v
    PROVE  s = u /\ t = v
<1>1. PICK c : c = s \o t
  OBVIOUS
<1>0. c = u \o v
  BY <1>1
<1>2. /\ Len(c) = Len(s) + Len(t)
      /\ \A k \in 1..(Len(s) + Len(t)) : c[k] = IF k <= Len(s) THEN s[k] ELSE t[k - Len(s)]
  BY <1>1, ConcatProperties
<1>3. /\ Len(c) = Len(u) + Len(v)
      /\ \A k \in 1..(Len(u) + Len(v)) : c[k] = IF k <= Len(u) THEN u[k] ELSE v[k - Len(u)]
  BY <1>0, ConcatProperties
<1>4. Len(s) \in Nat /\ Len(t) \in Nat /\ Len(u) \in Nat /\ Len(v) \in Nat
  BY LenProperties
<1>5. Len(t) = Len(v)
  BY <1>2, <1>3, <1>4
<1>6. ASSUME NEW k \in 1..Len(s) PROVE s[k] = u[k]
  BY <1>2, <1>3, <1>4
<1>7. ASSUME NEW k \in 1..Len(t) PROVE t[k] = v[k]
  <2>1. PICK j : j = k + Len(s)
    OBVIOUS
  <2>2. j \in 1..(Len(s) + Len(t)) /\ ~(j <= Len(s)) /\ j - Len(s) = k
    BY <1>4, <2>1
  <2>3. c[j] = t[k]
    BY <1>2, <2>2
  <2>4. c[j] = v[k]
    BY <1>3, <1>5, <2>2
  <2> QED
    BY <2>3, <2>4
<1>8. s = u
  BY <1>6, SeqEqual
<1>9. t = v
  BY <1>5, <1>7, SeqEqual
<1> QED
  BY <1>8, <1>9

\* r begins with s.
BeginsWith(r, s) == Len(s) <= Len(r) /\ \A k \in 1..Len(s) : r[k] = s[k]

\* What a sequence begins with, what is made by adding to it begins with too.
LEMMA ConcatBegins ==
    ASSUME NEW S, NEW s \in Seq(S), NEW t \in Seq(S), NEW u \in Seq(S), BeginsWith(t, s)
    PROVE  t \o u \in Seq(S) /\ BeginsWith(t \o u, s)
<1>1. PICK c : c = t \o u
  OBVIOUS
<1>2. /\ c \in Seq(S) /\ Len(c) = Len(t) + Len(u)
      /\ \A k \in 1..(Len(t) + Len(u)) : c[k] = IF k <= Len(t) THEN t[k] ELSE u[k - Len(t)]
  BY <1>1, ConcatProperties
<1>3. Len(s) \in Nat /\ Len(t) \in Nat /\ Len(u) \in Nat
  BY LenProperties
<1>4. BeginsWith(c, s)
  BY <1>2, <1>3 DEF BeginsWith
<1> QED
  BY <1>1, <1>2, <1>4

\* Beginnings of equal length of one sequence are the same.
LEMMA BeginningsAgree ==
    ASSUME NEW S, NEW s \in Seq(S), NEW t \in Seq(S), NEW r,
           BeginsWith(r, s), BeginsWith(r, t), Len(s) = Len(t)
    PROVE  s = t
<1>1. \A k \in 1..Len(s) : s[k] = t[k]
  BY DEF BeginsWith
<1> QED
  BY <1>1, SeqEqual

-----------------------------------------------------------------------------

PackageFields ==
    {"uiSender", "uiDestination", "type", "message", "pBlock", "pTimestamp", "puiNodeId",
     "puiViewNumber", "puiSequenceNumber", "vbMessageDigest", "pClientRequest"}

\* A field is in the packages of some types and Null in those of the others.
IsField(x, values, present) == x \in (IF present THEN values ELSE {Null})

\* What PBFTNode puts into a package of each type.
IsPackage(p) ==
    /\ DOMAIN p = PackageFields /\ p = [f \in PackageFields |-> p[f]]
    /\ p.uiSender \in NodeId /\ p.uiDestination \in NodeId \cup {UINT_MAX}
    /\ \E n \in 1..Len(MessageType) : p.type = MessageType[n]
    /\ IsField(p.pBlock, Block, p.type \in {"REQUEST", "REPLY"})
    /\ IsField(p.pTimestamp, Time, p.type \in {"REQUEST", "REPLY"})
    /\ IsField(p.puiNodeId, NodeId, p.type \in {"REQUEST", "PREPARE", "COMMIT", "REPLY"})
    /\ IsField(p.puiViewNumber, {0}, p.type \in {"PREPREPARE", "PREPARE", "COMMIT", "REPLY"})
    /\ IsField(p.puiSequenceNumber, Number, p.type \in {"PREPREPARE", "PREPARE", "COMMIT"})
    /\ p.message \in Seq(Nat)

\* Every package is one, and a PREPREPARE carries a request that was made.
PkInv ==
    /\ \A p \in packages : IsPackage(p)
    /\ \A p \in packages : p.type = "PREPREPARE" => p.pClientRequest \in Built("REQUEST")

\* A package is what With makes of a new one.
LEMMA WithFields ==
    ASSUME NEW sender, NEW destination, NEW type, NEW fields, NEW p,
           p = With(NewPackage(sender, destination, type), fields)
    PROVE  /\ DOMAIN p = PackageFields /\ p = [f \in PackageFields |-> p[f]]
           /\ \A f \in PackageFields :
                 p[f] = IF f \in DOMAIN fields THEN fields[f] ELSE NewPackage(sender, destination, type)[f]
<1>1. DOMAIN NewPackage(sender, destination, type) = PackageFields
  BY DEF NewPackage, PackageFields
<1> QED
  BY <1>1 DEF With

\* A package that is posted is the only new one.
LEMMA PostPackage ==
    ASSUME PkInv, NEW p, Post(p), IsPackage(p),
           p.type = "PREPREPARE" => p.pClientRequest \in Built("REQUEST")
    PROVE  PkInv'
<1>1. packages' = packages \cup {p}
  BY DEF Post
<1>2. \A q \in packages' : IsPackage(q)
  BY <1>1 DEF PkInv
<1>3. Built("REQUEST") \subseteq Built("REQUEST")'
  BY <1>1 DEF Built
<1>4. \A q \in packages' : q.type = "PREPREPARE" => q.pClientRequest \in Built("REQUEST")'
  BY <1>1, <1>3 DEF PkInv
<1>5. IsPackage(p)' = IsPackage(p)
  BY DEF IsPackage, IsField
<1> QED
  BY <1>2, <1>4 DEF PkInv, IsPackage, IsField

\* A request carries a block and the time, and neither a view nor a number.
LEMMA RequestPackage ==
    ASSUME NEW i \in NodeId, NEW primary \in NodeId, NEW b \in Block, NEW t \in Time, NEW p,
           p = With(NewPackage(i, primary, "REQUEST"),
                    [pBlock |-> b, pTimestamp |-> t, puiNodeId |-> i])
    PROVE  IsPackage(p) /\ p.type = "REQUEST"
<1>1. PICK fields : fields = [pBlock |-> b, pTimestamp |-> t, puiNodeId |-> i]
  OBVIOUS
<1>2. DOMAIN fields = {"pBlock", "pTimestamp", "puiNodeId"} /\ fields.pBlock = b
      /\ fields.pTimestamp = t /\ fields.puiNodeId = i
  BY <1>1
<1>3. PICK new : new = NewPackage(i, primary, "REQUEST")
  OBVIOUS
<1>4. /\ DOMAIN p = PackageFields /\ p = [f \in PackageFields |-> p[f]]
      /\ \A f \in PackageFields : p[f] = IF f \in DOMAIN fields THEN fields[f] ELSE new[f]
  BY <1>1, <1>3, WithFields
<1>5. /\ p.uiSender = i /\ p.uiDestination = primary /\ p.type = "REQUEST" /\ p.message = <<>>
      /\ p.pBlock = b /\ p.pTimestamp = t /\ p.puiNodeId = i
      /\ p.puiViewNumber = Null /\ p.puiSequenceNumber = Null
  BY <1>2, <1>3, <1>4 DEF PackageFields, NewPackage
<1>6. 2 \in 1..Len(MessageType) /\ MessageType[2] = "REQUEST"
  BY DEF MessageType
<1>7. p.message \in Seq(Nat)
  BY <1>5, EmptySeq
<1> QED
  BY <1>4, <1>5, <1>6, <1>7 DEF IsPackage, IsField

\* A COMMON_MESSAGE carries a text alone.
LEMMA CommonPackage ==
    ASSUME NEW i \in NodeId, NEW text \in Seq(Nat), NEW p,
           p = With(NewPackage(i, UINT_MAX, "COMMON_MESSAGE"), [message |-> text])
    PROVE  IsPackage(p) /\ p.type = "COMMON_MESSAGE"
<1>1. PICK fields : fields = [message |-> text]
  OBVIOUS
<1>2. DOMAIN fields = {"message"} /\ fields.message = text
  BY <1>1
<1>3. PICK new : new = NewPackage(i, UINT_MAX, "COMMON_MESSAGE")
  OBVIOUS
<1>4. /\ DOMAIN p = PackageFields /\ p = [f \in PackageFields |-> p[f]]
      /\ \A f \in PackageFields : p[f] = IF f \in DOMAIN fields THEN fields[f] ELSE new[f]
  BY <1>1, <1>3, WithFields
<1>5. /\ p.uiSender = i /\ p.uiDestination = UINT_MAX /\ p.type = "COMMON_MESSAGE" /\ p.message = text
      /\ p.pBlock = Null /\ p.pTimestamp = Null /\ p.puiNodeId = Null
      /\ p.puiViewNumber = Null /\ p.puiSequenceNumber = Null
  BY <1>2, <1>3, <1>4 DEF PackageFields, NewPackage
<1>6. 1 \in 1..Len(MessageType) /\ MessageType[1] = "COMMON_MESSAGE"
  BY DEF MessageType
<1> QED
  BY <1>4, <1>5, <1>6 DEF IsPackage, IsField

\* A PRE-PREPARE made for a request has the fields of its type.
LEMMA PrePreparePackage ==
    ASSUME NEW request, NEW n \in Number, NEW digest, NEW p,
           p = With(NewPackage(Primary, UINT_MAX, "PREPREPARE"),
                    [pClientRequest |-> request, puiSequenceNumber |-> n, puiViewNumber |-> 0,
                     vbMessageDigest |-> digest])
    PROVE  IsPackage(p) /\ p.type = "PREPREPARE" /\ p.pClientRequest = request
<1>1. PICK fields : fields = [pClientRequest |-> request, puiSequenceNumber |-> n, puiViewNumber |-> 0,
                              vbMessageDigest |-> digest]
  OBVIOUS
<1>2. /\ DOMAIN fields = {"pClientRequest", "puiSequenceNumber", "puiViewNumber", "vbMessageDigest"}
      /\ fields.pClientRequest = request /\ fields.puiSequenceNumber = n /\ fields.puiViewNumber = 0
  BY <1>1
<1>3. PICK new : new = NewPackage(Primary, UINT_MAX, "PREPREPARE")
  OBVIOUS
<1>4. /\ DOMAIN p = PackageFields /\ p = [f \in PackageFields |-> p[f]]
      /\ \A f \in PackageFields : p[f] = IF f \in DOMAIN fields THEN fields[f] ELSE new[f]
  BY <1>1, <1>3, WithFields
<1>5. /\ p.uiSender = Primary /\ p.uiDestination = UINT_MAX /\ p.type = "PREPREPARE" /\ p.message = <<>>
      /\ p.pBlock = Null /\ p.pTimestamp = Null /\ p.puiNodeId = Null
      /\ p.puiViewNumber = 0 /\ p.puiSequenceNumber = n /\ p.pClientRequest = request
  BY <1>2, <1>3, <1>4 DEF PackageFields, NewPackage
<1>6. 3 \in 1..Len(MessageType) /\ MessageType[3] = "PREPREPARE"
  BY DEF MessageType
<1>7. p.message \in Seq(Nat) /\ Primary \in NodeId
  BY <1>5, EmptySeq, PackageAssumption
<1> QED
  BY <1>4, <1>5, <1>6, <1>7 DEF IsPackage, IsField

\* A PREPARE or a COMMIT made for a package has the fields of its type.
LEMMA VotePackage ==
    ASSUME NEW i \in NodeId, NEW n \in Number, NEW digest, NEW p,
           NEW type \in {"PREPARE", "COMMIT"},
           p = With(NewPackage(i, UINT_MAX, type),
                    [puiSequenceNumber |-> n, puiViewNumber |-> 0,
                     vbMessageDigest |-> digest, puiNodeId |-> i])
    PROVE  IsPackage(p) /\ p.type = type
<1>1. PICK fields : fields = [puiSequenceNumber |-> n, puiViewNumber |-> 0,
                              vbMessageDigest |-> digest, puiNodeId |-> i]
  OBVIOUS
<1>2. /\ DOMAIN fields = {"puiSequenceNumber", "puiViewNumber", "vbMessageDigest", "puiNodeId"}
      /\ fields.puiSequenceNumber = n /\ fields.puiViewNumber = 0 /\ fields.puiNodeId = i
  BY <1>1
<1>3. PICK new : new = NewPackage(i, UINT_MAX, type)
  OBVIOUS
<1>4. /\ DOMAIN p = PackageFields /\ p = [f \in PackageFields |-> p[f]]
      /\ \A f \in PackageFields : p[f] = IF f \in DOMAIN fields THEN fields[f] ELSE new[f]
  BY <1>1, <1>3, WithFields
<1>5. /\ p.uiSender = i /\ p.uiDestination = UINT_MAX /\ p.type = type /\ p.message = <<>>
      /\ p.pBlock = Null /\ p.pTimestamp = Null /\ p.puiNodeId = i
      /\ p.puiViewNumber = 0 /\ p.puiSequenceNumber = n
  BY <1>2, <1>3, <1>4 DEF PackageFields, NewPackage
<1>6. \E k \in 1..Len(MessageType) : type = MessageType[k]
  <2>1. 4 \in 1..Len(MessageType) /\ MessageType[4] = "PREPARE"
    BY DEF MessageType
  <2>2. 5 \in 1..Len(MessageType) /\ MessageType[5] = "COMMIT"
    BY DEF MessageType
  <2> QED
    BY <2>1, <2>2
<1>7. p.message \in Seq(Nat)
  BY <1>5, EmptySeq
<1> QED
  BY <1>4, <1>5, <1>6, <1>7 DEF IsPackage, IsField

\* A REPLY has the fields of its type.
LEMMA ReplyPackage ==
    ASSUME NEW i \in NodeId, NEW client \in NodeId, NEW t \in Time, NEW b \in Block, NEW p,
           p = With(NewPackage(i, client, "REPLY"),
                    [puiViewNumber |-> 0, pTimestamp |-> t, pBlock |-> b, puiNodeId |-> i])
    PROVE  IsPackage(p) /\ p.type = "REPLY"
<1>1. PICK fields : fields = [puiViewNumber |-> 0, pTimestamp |-> t, pBlock |-> b, puiNodeId |-> i]
  OBVIOUS
<1>2. /\ DOMAIN fields = {"puiViewNumber", "pTimestamp", "pBlock", "puiNodeId"}
      /\ fields.puiViewNumber = 0 /\ fields.pTimestamp = t /\ fields.pBlock = b /\ fields.puiNodeId = i
  BY <1>1
<1>3. PICK new : new = NewPackage(i, client, "REPLY")
  OBVIOUS
<1>4. /\ DOMAIN p = PackageFields /\ p = [f \in PackageFields |-> p[f]]
      /\ \A f \in PackageFields : p[f] = IF f \in DOMAIN fields THEN fields[f] ELSE new[f]
  BY <1>1, <1>3, WithFields
<1>5. /\ p.uiSender = i /\ p.uiDestination = client /\ p.type = "REPLY" /\ p.message = <<>>
      /\ p.pBlock = b /\ p.pTimestamp = t /\ p.puiNodeId = i
      /\ p.puiViewNumber = 0 /\ p.puiSequenceNumber = Null
  BY <1>2, <1>3, <1>4 DEF PackageFields, NewPackage
<1>6. 6 \in 1..Len(MessageType) /\ MessageType[6] = "REPLY"
  BY DEF MessageType
<1>7. p.message \in Seq(Nat)
  BY <1>5, EmptySeq
<1> QED
  BY <1>4, <1>5, <1>6, <1>7 DEF IsPackage, IsField

\* What a PREPREPARE tells those who answer it.
LEMMA PrePrepareContents ==
    ASSUME PkInv, NEW p \in Built("PREPREPARE")
    PROVE  /\ p.puiSequenceNumber \in Number /\ p.puiViewNumber = 0
           /\ p.pClientRequest.uiSender \in NodeId
           /\ p.pClientRequest.pTimestamp \in Time /\ p.pClientRequest.pBlock \in Block
<1>1. IsPackage(p) /\ p.type = "PREPREPARE" /\ p.pClientRequest \in Built("REQUEST")
  BY DEF PkInv, Built
<1>2. IsPackage(p.pClientRequest) /\ p.pClientRequest.type = "REQUEST"
  BY <1>1 DEF PkInv, Built
<1> QED
  BY <1>1, <1>2 DEF IsPackage, IsField

\* No package is made yet.
LEMMA PackagesInit == PackageInit => PkInv
  BY DEF PackageInit, PkInv, Built

\* Every way a package is made gives one with the fields of its type.
LEMMA PackagesStep ==
    ASSUME PkInv, [PackageNext]_packageVars
    PROVE  PkInv'
<1>1. CASE PrePrepare
  <2>1. PICK request \in Built("REQUEST"), n \in Number :
           Post(With(NewPackage(Primary, UINT_MAX, "PREPREPARE"),
                     [pClientRequest |-> request, puiSequenceNumber |-> n, puiViewNumber |-> 0,
                      vbMessageDigest |-> GetDataHash(request)]))
    BY <1>1, Zenon DEF PrePrepare
  <2>2. PICK p : p = With(NewPackage(Primary, UINT_MAX, "PREPREPARE"),
                          [pClientRequest |-> request, puiSequenceNumber |-> n, puiViewNumber |-> 0,
                           vbMessageDigest |-> GetDataHash(request)])
    OBVIOUS
  <2>3. Post(p)
    BY <2>1, <2>2, Zenon
  <2>4. IsPackage(p) /\ p.pClientRequest = request
    BY <2>2, PrePreparePackage
  <2> QED
    BY <2>3, <2>4, PostPackage
<1>2. ASSUME NEW i \in NodeId, CommonMessage(i) PROVE PkInv'
  <2>1. PICK t \in Time : Post(With(NewPackage(i, UINT_MAX, "COMMON_MESSAGE"),
                                    [message |-> Bytes(i, UIntSize) \o Bytes(t, LongSize)]))
    BY <1>2, Zenon DEF CommonMessage
  <2>5. PICK text : text = Bytes(i, UIntSize) \o Bytes(t, LongSize)
    OBVIOUS
  <2>6. text \in Seq(Nat)
    <3>1. i \in Nat /\ t \in Nat /\ UIntSize \in Nat /\ LongSize \in Nat
      BY PackageAssumption
    <3>2. Bytes(i, UIntSize) \in Seq(Nat) /\ Bytes(t, LongSize) \in Seq(Nat)
      BY <3>1, BytesType
    <3> QED
      BY <2>5, <3>2
  <2>2. PICK p : p = With(NewPackage(i, UINT_MAX, "COMMON_MESSAGE"), [message |-> text])
    OBVIOUS
  <2>3. Post(p)
    BY <2>1, <2>2, <2>5, Zenon
  <2>4. IsPackage(p) /\ p.type = "COMMON_MESSAGE"
    BY <2>2, <2>6, CommonPackage
  <2> QED
    BY <2>3, <2>4, PostPackage
<1>3. ASSUME NEW i \in NodeId, Request(i) PROVE PkInv'
  <2>1. PICK primary \in NodeId, b \in Block, t \in Time :
           Post(With(NewPackage(i, primary, "REQUEST"),
                     [pBlock |-> b, pTimestamp |-> t, puiNodeId |-> i]))
    BY <1>3, Zenon DEF Request
  <2>2. PICK p : p = With(NewPackage(i, primary, "REQUEST"),
                          [pBlock |-> b, pTimestamp |-> t, puiNodeId |-> i])
    OBVIOUS
  <2>3. Post(p)
    BY <2>1, <2>2, Zenon
  <2>4. IsPackage(p) /\ p.type = "REQUEST"
    BY <2>2, RequestPackage
  <2> QED
    BY <2>3, <2>4, PostPackage
<1>4. ASSUME NEW i \in NodeId, Prepare(i) PROVE PkInv'
  <2>1. PICK r \in Built("PREPREPARE") :
           Post(With(NewPackage(i, UINT_MAX, "PREPARE"),
                     [puiSequenceNumber |-> r.puiSequenceNumber, puiViewNumber |-> r.puiViewNumber,
                      vbMessageDigest |-> r.vbMessageDigest, puiNodeId |-> i]))
    BY <1>4, Zenon DEF Prepare
  <2>2. PICK n, digest : n = r.puiSequenceNumber /\ digest = r.vbMessageDigest
    OBVIOUS
  <2>3. n \in Number /\ r.puiViewNumber = 0
    BY <2>2, PrePrepareContents
  <2>4. PICK p : p = With(NewPackage(i, UINT_MAX, "PREPARE"),
                          [puiSequenceNumber |-> n, puiViewNumber |-> 0,
                           vbMessageDigest |-> digest, puiNodeId |-> i])
    OBVIOUS
  <2>5. Post(p)
    BY <2>1, <2>2, <2>3, <2>4, Zenon
  <2>6. IsPackage(p) /\ p.type = "PREPARE"
    BY <2>3, <2>4, VotePackage
  <2> QED
    BY <2>5, <2>6, PostPackage
<1>5. ASSUME NEW i \in NodeId, Commit(i) PROVE PkInv'
  <2>1. PICK r \in Built("PREPREPARE") :
           Post(With(NewPackage(i, UINT_MAX, "COMMIT"),
                     [puiSequenceNumber |-> r.puiSequenceNumber, puiViewNumber |-> r.puiViewNumber,
                      vbMessageDigest |-> GetDataHash(r.pClientRequest), puiNodeId |-> i]))
    BY <1>5, Zenon DEF Commit
  <2>2. PICK n, digest : n = r.puiSequenceNumber /\ digest = GetDataHash(r.pClientRequest)
    OBVIOUS
  <2>3. n \in Number /\ r.puiViewNumber = 0
    BY <2>2, PrePrepareContents
  <2>4. PICK p : p = With(NewPackage(i, UINT_MAX, "COMMIT"),
                          [puiSequenceNumber |-> n, puiViewNumber |-> 0,
                           vbMessageDigest |-> digest, puiNodeId |-> i])
    OBVIOUS
  <2>5. Post(p)
    BY <2>1, <2>2, <2>3, <2>4, Zenon
  <2>6. IsPackage(p) /\ p.type = "COMMIT"
    BY <2>3, <2>4, VotePackage
  <2> QED
    BY <2>5, <2>6, PostPackage
<1>6. ASSUME NEW i \in NodeId, Reply(i) PROVE PkInv'
  <2>1. PICK r \in Built("PREPREPARE") :
           Post(With(NewPackage(i, r.pClientRequest.uiSender, "REPLY"),
                     [puiViewNumber |-> r.puiViewNumber, pTimestamp |-> r.pClientRequest.pTimestamp,
                      pBlock |-> r.pClientRequest.pBlock, puiNodeId |-> i]))
    BY <1>6, Zenon DEF Reply
  <2>2. PICK client, t, b : /\ client = r.pClientRequest.uiSender
                            /\ t = r.pClientRequest.pTimestamp
                            /\ b = r.pClientRequest.pBlock
    OBVIOUS
  <2>3. client \in NodeId /\ t \in Time /\ b \in Block /\ r.puiViewNumber = 0
    BY <2>2, PrePrepareContents
  <2>4. PICK p : p = With(NewPackage(i, client, "REPLY"),
                          [puiViewNumber |-> 0, pTimestamp |-> t, pBlock |-> b, puiNodeId |-> i])
    OBVIOUS
  <2>5. Post(p)
    BY <2>1, <2>2, <2>3, <2>4, Zenon
  <2>6. IsPackage(p) /\ p.type = "REPLY"
    BY <2>3, <2>4, ReplyPackage
  <2> QED
    BY <2>5, <2>6, PostPackage
<1>7. CASE UNCHANGED packageVars
  BY <1>7 DEF packageVars, PkInv, Built, IsPackage, IsField
<1> QED
  BY <1>1, <1>2, <1>3, <1>4, <1>5, <1>6, <1>7 DEF PackageNext

\* A number that so many bytes hold, or Null.
Fits(x, size) == x = Null \/ x \in 0..(Power[size] - 1)

\* The bytes of a field, which are none if it is not set.
LEMMA OptionalType ==
    ASSUME NEW size \in Nat, NEW x, Fits(x, size)
    PROVE  /\ Optional(x, size) \in Seq(Nat)
           /\ Len(Optional(x, size)) = IF x = Null THEN 0 ELSE size
<1>1. CASE x = Null
  BY <1>1, EmptySeq DEF Optional
<1>2. CASE x # Null
  <2>1. x \in Nat
    BY <1>2, PowerType DEF Fits
  <2>2. Bytes(x, size) \in Seq(Nat) /\ Len(Bytes(x, size)) = size
    BY <2>1, BytesType
  <2> QED
    BY <1>2, <2>2 DEF Optional
<1> QED
  BY <1>1, <1>2

\* A field that is there, or not there, in two packages alike.
LEMMA OptionalNamesField ==
    ASSUME NEW size \in Nat, NEW x, NEW y, Fits(x, size), Fits(y, size),
           x = Null <=> y = Null, Optional(x, size) = Optional(y, size)
    PROVE  x = y
<1>1. CASE x = Null
  BY <1>1
<1>2. CASE x # Null
  <2>1. x \in 0..(Power[size] - 1) /\ y \in 0..(Power[size] - 1) /\ Bytes(x, size) = Bytes(y, size)
    BY <1>2 DEF Fits, Optional
  <2> QED
    BY <2>1, BytesNameNumber
<1> QED
  BY <1>1, <1>2

\* The bytes of such a field: as many in both.
LEMMA OptionalAlike ==
    ASSUME NEW size \in Nat, NEW x, NEW y, Fits(x, size), Fits(y, size),
           x = Null <=> y = Null,
           NEW c, c = Optional(x, size), NEW d, d = Optional(y, size)
    PROVE  c \in Seq(Nat) /\ d \in Seq(Nat) /\ Len(c) = Len(d)
<1>1. Optional(x, size) \in Seq(Nat) /\ Len(Optional(x, size)) = IF x = Null THEN 0 ELSE size
  BY OptionalType
<1>2. Optional(y, size) \in Seq(Nat) /\ Len(Optional(y, size)) = IF y = Null THEN 0 ELSE size
  BY OptionalType
<1> QED
  BY <1>1, <1>2

\* The number of a type names it.
LEMMA TypeNumberNames ==
    ASSUME NEW type, \E n \in 1..Len(MessageType) : type = MessageType[n]
    PROVE  /\ TypeNumber(type) \in 0..(Len(MessageType) - 1)
           /\ MessageType[TypeNumber(type) + 1] = type
<1>1. PICK n : n = CHOOSE k \in DOMAIN MessageType : MessageType[k] = type
  OBVIOUS
<1>2. DOMAIN MessageType = 1..Len(MessageType) /\ Len(MessageType) \in Nat
  BY DEF MessageType
<1>3. n \in DOMAIN MessageType /\ MessageType[n] = type
  BY <1>1, <1>2, Zenon
<1>4. TypeNumber(type) = n - 1
  BY <1>1 DEF TypeNumber
<1> QED
  BY <1>2, <1>3, <1>4

-----------------------------------------------------------------------------

\* The fields of a package fit their bytes, and its type settles which it has.
LEMMA PackageFits ==
    ASSUME NEW p, IsPackage(p)
    PROVE  /\ p.uiSender \in 0..UINT_MAX /\ p.uiDestination \in 0..UINT_MAX
           /\ Fits(p.pBlock, HashSize) /\ Fits(p.pTimestamp, LongSize)
           /\ Fits(p.puiNodeId, UIntSize) /\ Fits(p.puiViewNumber, UIntSize)
           /\ Fits(p.puiSequenceNumber, UIntSize)
           /\ p.pBlock = Null <=> p.type \notin {"REQUEST", "REPLY"}
           /\ p.pTimestamp = Null <=> p.type \notin {"REQUEST", "REPLY"}
           /\ p.puiNodeId = Null <=> p.type \notin {"REQUEST", "PREPARE", "COMMIT", "REPLY"}
           /\ p.puiViewNumber = Null <=> p.type \notin {"PREPREPARE", "PREPARE", "COMMIT", "REPLY"}
           /\ p.puiSequenceNumber = Null <=> p.type \notin {"PREPREPARE", "PREPARE", "COMMIT"}
<1>1. UIntSize \in Nat /\ Power[UIntSize] \in Nat /\ Power[UIntSize] > 0
  BY PackageAssumption, PowerType
<1>2. UINT_MAX = Power[UIntSize] - 1 /\ UINT_MAX \in 0..UINT_MAX /\ 0 \in 0..UINT_MAX
  BY <1>1 DEF UINT_MAX
<1>3. /\ NodeId \subseteq 0..UINT_MAX /\ Number \subseteq 0..UINT_MAX
      /\ Time \subseteq 0..(Power[LongSize] - 1) /\ Block \subseteq 0..(Power[HashSize] - 1)
  BY PackageAssumption
<1>4. Null \notin NodeId /\ Null \notin Number /\ Null \notin Time /\ Null \notin Block /\ Null # 0
  <2>1. Null \notin Nat
    BY PackageAssumption
  <2>2. \A n, x : x \in 0..n => x \in Nat
    OBVIOUS
  <2>3. NodeId \subseteq Nat /\ Number \subseteq Nat /\ Time \subseteq Nat /\ Block \subseteq Nat
    BY <1>3, <2>2, Zenon
  <2>4. 0 \in Nat
    OBVIOUS
  <2> QED
    BY <2>1, <2>3, <2>4, Zenon
<1>5. p.uiSender \in 0..UINT_MAX /\ p.uiDestination \in 0..UINT_MAX
  BY <1>2, <1>3 DEF IsPackage
<1>6. /\ Fits(p.pBlock, HashSize) /\ (p.pBlock = Null <=> p.type \notin {"REQUEST", "REPLY"})
      /\ Fits(p.pTimestamp, LongSize) /\ (p.pTimestamp = Null <=> p.type \notin {"REQUEST", "REPLY"})
  BY <1>3, <1>4 DEF IsPackage, IsField, Fits
<1>7. /\ Fits(p.puiNodeId, UIntSize)
      /\ p.puiNodeId = Null <=> p.type \notin {"REQUEST", "PREPARE", "COMMIT", "REPLY"}
  BY <1>2, <1>3, <1>4 DEF IsPackage, IsField, Fits
<1>8. /\ Fits(p.puiViewNumber, UIntSize)
      /\ p.puiViewNumber = Null <=> p.type \notin {"PREPREPARE", "PREPARE", "COMMIT", "REPLY"}
  BY <1>2, <1>3, <1>4 DEF IsPackage, IsField, Fits
<1>9. /\ Fits(p.puiSequenceNumber, UIntSize)
      /\ p.puiSequenceNumber = Null <=> p.type \notin {"PREPREPARE", "PREPARE", "COMMIT"}
  BY <1>2, <1>3, <1>4 DEF IsPackage, IsField, Fits
<1> QED
  BY <1>5, <1>6, <1>7, <1>8, <1>9

\* GetRawData as it grows: the bytes in every package, then one field after the
\* other.
ToDestination(p) == Bytes(p.uiSender, UIntSize) \o Bytes(p.uiDestination, UIntSize)
                    \o Bytes(TypeNumber(p.type), UIntSize)
ToBlock(p)    == ToDestination(p) \o Optional(p.pBlock, HashSize)
ToTime(p)     == ToBlock(p) \o Optional(p.pTimestamp, LongSize)
ToNodeId(p)   == ToTime(p) \o Optional(p.puiNodeId, UIntSize)
ToView(p)     == ToNodeId(p) \o Optional(p.puiViewNumber, UIntSize)
ToSequence(p) == ToView(p) \o Optional(p.puiSequenceNumber, UIntSize)

\* The sizes and ranges of the fields, collected.
LEMMA Sizes ==
    /\ UIntSize \in Nat /\ LongSize \in Nat /\ HashSize \in Nat
    /\ Power[UIntSize] \in Nat /\ Power[UIntSize] > 0 /\ UINT_MAX = Power[UIntSize] - 1
    /\ Len(MessageType) \in Nat /\ Len(MessageType) <= Power[UIntSize]
<1>1. UIntSize \in Nat /\ LongSize \in Nat /\ HashSize \in Nat /\ Len(MessageType) <= Power[UIntSize]
  BY PackageAssumption
<1>2. Len(MessageType) \in Nat
  BY DEF MessageType
<1> QED
  BY <1>1, <1>2, PowerType DEF UINT_MAX

\* The bytes of the fields that every package has.
LEMMA HeadType ==
    ASSUME NEW p, IsPackage(p)
    PROVE  /\ Bytes(p.uiSender, UIntSize) \in Seq(Nat)
           /\ Len(Bytes(p.uiSender, UIntSize)) = UIntSize
           /\ Bytes(p.uiDestination, UIntSize) \in Seq(Nat)
           /\ Len(Bytes(p.uiDestination, UIntSize)) = UIntSize
           /\ Bytes(TypeNumber(p.type), UIntSize) \in Seq(Nat)
           /\ Len(Bytes(TypeNumber(p.type), UIntSize)) = UIntSize
           /\ TypeNumber(p.type) \in 0..(Power[UIntSize] - 1)
           /\ ToDestination(p) \in Seq(Nat)
           /\ Len(ToDestination(p)) = UIntSize + UIntSize + UIntSize
<1>1. PICK sender, destination, number :
         sender = p.uiSender /\ destination = p.uiDestination /\ number = TypeNumber(p.type)
  OBVIOUS
<1>2. sender \in Nat /\ destination \in Nat
  BY <1>1, PackageFits, Sizes
<1>3. number \in 0..(Len(MessageType) - 1)
  BY <1>1, TypeNumberNames DEF IsPackage
<1>4. number \in Nat /\ number \in 0..(Power[UIntSize] - 1)
  BY <1>3, Sizes
<1>5. PICK s, t, u : /\ s = Bytes(sender, UIntSize) /\ t = Bytes(destination, UIntSize)
                     /\ u = Bytes(number, UIntSize)
  OBVIOUS
<1>6. /\ s \in Seq(Nat) /\ Len(s) = UIntSize /\ t \in Seq(Nat) /\ Len(t) = UIntSize
      /\ u \in Seq(Nat) /\ Len(u) = UIntSize
  BY <1>2, <1>4, <1>5, BytesType, Sizes
<1>7. PICK st : st = s \o t
  OBVIOUS
<1>8. st \in Seq(Nat) /\ Len(st) = Len(s) + Len(t)
  BY <1>6, <1>7, ConcatProperties
<1>11. st \o u \in Seq(Nat) /\ Len(st \o u) = Len(st) + Len(u)
  BY <1>6, <1>8, ConcatProperties
<1>9. st \o u \in Seq(Nat) /\ Len(st \o u) = UIntSize + UIntSize + UIntSize
  BY <1>6, <1>8, <1>11
<1>10. ToDestination(p) = st \o u
  BY <1>1, <1>5, <1>7, Zenon DEF ToDestination
<1> QED
  BY <1>1, <1>4, <1>5, <1>6, <1>9, <1>10, Zenon

\* The parts, their sequences and the lengths that their types settle.
LEMMA PartsType ==
    ASSUME NEW p, IsPackage(p)
    PROVE  /\ ToBlock(p) \in Seq(Nat) /\ ToTime(p) \in Seq(Nat) /\ ToNodeId(p) \in Seq(Nat)
           /\ ToView(p) \in Seq(Nat) /\ ToSequence(p) \in Seq(Nat)
           /\ Len(ToBlock(p)) = Len(ToDestination(p)) + Len(Optional(p.pBlock, HashSize))
           /\ Len(ToTime(p)) = Len(ToBlock(p)) + Len(Optional(p.pTimestamp, LongSize))
           /\ Len(ToNodeId(p)) = Len(ToTime(p)) + Len(Optional(p.puiNodeId, UIntSize))
           /\ Len(ToView(p)) = Len(ToNodeId(p)) + Len(Optional(p.puiViewNumber, UIntSize))
           /\ Len(ToSequence(p)) = Len(ToView(p)) + Len(Optional(p.puiSequenceNumber, UIntSize))
           /\ BeginsWith(GetRawData(p), ToDestination(p))
           /\ GetRawData(p) = ToSequence(p) \o p.message
<1>1. PICK h, b, t, n, v, s, m :
         /\ h = ToDestination(p) /\ b = Optional(p.pBlock, HashSize) /\ t = Optional(p.pTimestamp, LongSize)
         /\ n = Optional(p.puiNodeId, UIntSize) /\ v = Optional(p.puiViewNumber, UIntSize)
         /\ s = Optional(p.puiSequenceNumber, UIntSize) /\ m = p.message
  OBVIOUS
<1>2. /\ h \in Seq(Nat) /\ b \in Seq(Nat) /\ t \in Seq(Nat) /\ n \in Seq(Nat) /\ v \in Seq(Nat)
      /\ s \in Seq(Nat) /\ m \in Seq(Nat)
  <2>1. m \in Seq(Nat)
    BY <1>1 DEF IsPackage
  <2>2. h \in Seq(Nat)
    BY <1>1, HeadType
  <2>3. b \in Seq(Nat) /\ t \in Seq(Nat) /\ n \in Seq(Nat) /\ v \in Seq(Nat) /\ s \in Seq(Nat)
    BY <1>1, PackageFits, OptionalType, Sizes
  <2> QED
    BY <2>1, <2>2, <2>3
<1>3. PICK c1, c2, c3, c4, c5 :
         c1 = h \o b /\ c2 = c1 \o t /\ c3 = c2 \o n /\ c4 = c3 \o v /\ c5 = c4 \o s
  OBVIOUS
<1>4. /\ ToBlock(p) = c1 /\ ToTime(p) = c2 /\ ToNodeId(p) = c3 /\ ToView(p) = c4 /\ ToSequence(p) = c5
  BY <1>1, <1>3, Zenon DEF ToBlock, ToTime, ToNodeId, ToView, ToSequence
<1>5. GetRawData(p) = c5 \o m
  BY <1>1, <1>4, Zenon DEF GetRawData, ToSequence, ToView, ToNodeId, ToTime, ToBlock, ToDestination
<1>6. BeginsWith(h, h)
  BY <1>2, LenProperties DEF BeginsWith
<1>7. c1 \in Seq(Nat) /\ Len(c1) = Len(h) + Len(b) /\ BeginsWith(c1, h)
  BY <1>2, <1>3, <1>6, ConcatBegins, ConcatProperties
<1>8. c2 \in Seq(Nat) /\ Len(c2) = Len(c1) + Len(t) /\ BeginsWith(c2, h)
  BY <1>2, <1>3, <1>7, ConcatBegins, ConcatProperties
<1>9. c3 \in Seq(Nat) /\ Len(c3) = Len(c2) + Len(n) /\ BeginsWith(c3, h)
  BY <1>2, <1>3, <1>8, ConcatBegins, ConcatProperties
<1>10. c4 \in Seq(Nat) /\ Len(c4) = Len(c3) + Len(v) /\ BeginsWith(c4, h)
  BY <1>2, <1>3, <1>9, ConcatBegins, ConcatProperties
<1>11. c5 \in Seq(Nat) /\ Len(c5) = Len(c4) + Len(s) /\ BeginsWith(c5, h)
  BY <1>2, <1>3, <1>10, ConcatBegins, ConcatProperties
<1>12. BeginsWith(c5 \o m, h)
  BY <1>2, <1>11, ConcatBegins
<1> QED
  BY <1>1, <1>4, <1>5, <1>7, <1>8, <1>9, <1>10, <1>11, <1>12, Zenon

\* Equal bytes come from packages that differ in nothing GetRawData reads.
LEMMA BytesNamePackage ==
    ASSUME NEW p, NEW q, IsPackage(p), IsPackage(q), GetRawData(p) = GetRawData(q)
    PROVE  Read(p) = Read(q)
<1>1. ToDestination(p) = ToDestination(q)
  <2>1. /\ ToDestination(p) \in Seq(Nat) /\ ToDestination(q) \in Seq(Nat) /\ Len(ToDestination(p)) = Len(ToDestination(q))
        /\ BeginsWith(GetRawData(p), ToDestination(p)) /\ BeginsWith(GetRawData(p), ToDestination(q))
    BY HeadType, PartsType
  <2> QED
    BY <2>1, BeginningsAgree
<1>2. /\ Bytes(p.uiSender, UIntSize) = Bytes(q.uiSender, UIntSize)
      /\ Bytes(p.uiDestination, UIntSize) = Bytes(q.uiDestination, UIntSize)
      /\ Bytes(TypeNumber(p.type), UIntSize) = Bytes(TypeNumber(q.type), UIntSize)
  <2>1. PICK a1, a2, a3 : /\ a1 = Bytes(p.uiSender, UIntSize) /\ a2 = Bytes(p.uiDestination, UIntSize)
                          /\ a3 = Bytes(TypeNumber(p.type), UIntSize)
    OBVIOUS
  <2>2. PICK b1, b2, b3 : /\ b1 = Bytes(q.uiSender, UIntSize) /\ b2 = Bytes(q.uiDestination, UIntSize)
                          /\ b3 = Bytes(TypeNumber(q.type), UIntSize)
    OBVIOUS
  <2>3. /\ a1 \in Seq(Nat) /\ a2 \in Seq(Nat) /\ a3 \in Seq(Nat)
        /\ b1 \in Seq(Nat) /\ b2 \in Seq(Nat) /\ b3 \in Seq(Nat)
        /\ Len(a1) = UIntSize /\ Len(a2) = UIntSize /\ Len(b1) = UIntSize /\ Len(b2) = UIntSize
    BY <2>1, <2>2, HeadType
  <2>4. (a1 \o a2) \o a3 = (b1 \o b2) \o b3
    BY <1>1, <2>1, <2>2, Zenon DEF ToDestination
  <2>5. PICK a, b : a = a1 \o a2 /\ b = b1 \o b2
    OBVIOUS
  <2>6. a \in Seq(Nat) /\ Len(a) = Len(a1) + Len(a2)
    BY <2>3, <2>5, ConcatProperties
  <2>7. b \in Seq(Nat) /\ Len(b) = Len(b1) + Len(b2)
    BY <2>3, <2>5, ConcatProperties
  <2>8. a \o a3 = b \o b3 /\ Len(a) = Len(b)
    BY <2>3, <2>4, <2>5, <2>6, <2>7
  <2>9. a = b /\ a3 = b3
    BY <2>3, <2>6, <2>7, <2>8, SplitsAlike
  <2>10. a1 \o a2 = b1 \o b2 /\ Len(a1) = Len(b1)
    BY <2>3, <2>5, <2>9
  <2>11. a1 = b1 /\ a2 = b2
    BY <2>3, <2>10, SplitsAlike
  <2> QED
    BY <2>1, <2>2, <2>9, <2>11
<1>3. p.uiSender = q.uiSender /\ p.uiDestination = q.uiDestination
  BY <1>2, PackageFits, BytesNameNumber, Sizes
<1>4. p.type = q.type
  <2>1. TypeNumber(p.type) = TypeNumber(q.type)
    <3>1. PICK m, n : m = TypeNumber(p.type) /\ n = TypeNumber(q.type)
      OBVIOUS
    <3>2. m \in 0..(Power[UIntSize] - 1) /\ n \in 0..(Power[UIntSize] - 1)
      BY <3>1, HeadType
    <3>3. Bytes(m, UIntSize) = Bytes(n, UIntSize)
      BY <1>2, <3>1
    <3> QED
      BY <3>1, <3>2, <3>3, BytesNameNumber, Sizes
  <2>2. MessageType[TypeNumber(p.type) + 1] = p.type /\ MessageType[TypeNumber(q.type) + 1] = q.type
    BY TypeNumberNames DEF IsPackage
  <2> QED
    BY <2>1, <2>2, Zenon
<1>5. /\ p.pBlock = Null <=> q.pBlock = Null
      /\ p.pTimestamp = Null <=> q.pTimestamp = Null
      /\ p.puiNodeId = Null <=> q.puiNodeId = Null
      /\ p.puiViewNumber = Null <=> q.puiViewNumber = Null
      /\ p.puiSequenceNumber = Null <=> q.puiSequenceNumber = Null
  BY <1>4, PackageFits
<1>6. PICK b, t, n, v, s :
         /\ b = Optional(p.pBlock, HashSize) /\ t = Optional(p.pTimestamp, LongSize)
         /\ n = Optional(p.puiNodeId, UIntSize) /\ v = Optional(p.puiViewNumber, UIntSize)
         /\ s = Optional(p.puiSequenceNumber, UIntSize)
  OBVIOUS
<1>7. PICK b2, t2, n2, v2, s2 :
         /\ b2 = Optional(q.pBlock, HashSize) /\ t2 = Optional(q.pTimestamp, LongSize)
         /\ n2 = Optional(q.puiNodeId, UIntSize) /\ v2 = Optional(q.puiViewNumber, UIntSize)
         /\ s2 = Optional(q.puiSequenceNumber, UIntSize)
  OBVIOUS
<1>8. b \in Seq(Nat) /\ b2 \in Seq(Nat) /\ Len(b) = Len(b2)
  <2>1. HashSize \in Nat /\ Fits(p.pBlock, HashSize) /\ Fits(q.pBlock, HashSize)
    BY PackageFits, Sizes
  <2> QED
    BY <1>5, <1>6, <1>7, <2>1, OptionalAlike
<1>9. t \in Seq(Nat) /\ t2 \in Seq(Nat) /\ Len(t) = Len(t2)
  <2>1. LongSize \in Nat /\ Fits(p.pTimestamp, LongSize) /\ Fits(q.pTimestamp, LongSize)
    BY PackageFits, Sizes
  <2> QED
    BY <1>5, <1>6, <1>7, <2>1, OptionalAlike
<1>10. n \in Seq(Nat) /\ n2 \in Seq(Nat) /\ Len(n) = Len(n2)
  <2>1. UIntSize \in Nat /\ Fits(p.puiNodeId, UIntSize) /\ Fits(q.puiNodeId, UIntSize)
    BY PackageFits, Sizes
  <2> QED
    BY <1>5, <1>6, <1>7, <2>1, OptionalAlike
<1>11. v \in Seq(Nat) /\ v2 \in Seq(Nat) /\ Len(v) = Len(v2)
  <2>1. UIntSize \in Nat /\ Fits(p.puiViewNumber, UIntSize) /\ Fits(q.puiViewNumber, UIntSize)
    BY PackageFits, Sizes
  <2> QED
    BY <1>5, <1>6, <1>7, <2>1, OptionalAlike
<1>12. s \in Seq(Nat) /\ s2 \in Seq(Nat) /\ Len(s) = Len(s2)
  <2>1. UIntSize \in Nat /\ Fits(p.puiSequenceNumber, UIntSize) /\ Fits(q.puiSequenceNumber, UIntSize)
    BY PackageFits, Sizes
  <2> QED
    BY <1>5, <1>6, <1>7, <2>1, OptionalAlike
<1>13. /\ Len(ToBlock(p)) = Len(ToBlock(q)) /\ Len(ToTime(p)) = Len(ToTime(q))
       /\ Len(ToNodeId(p)) = Len(ToNodeId(q)) /\ Len(ToView(p)) = Len(ToView(q))
       /\ Len(ToSequence(p)) = Len(ToSequence(q))
  <2>1. Len(ToBlock(p)) = Len(ToBlock(q))
    BY <1>1, <1>6, <1>7, <1>8, PartsType
  <2>2. Len(ToTime(p)) = Len(ToTime(q))
    BY <2>1, <1>6, <1>7, <1>9, PartsType
  <2>3. Len(ToNodeId(p)) = Len(ToNodeId(q))
    BY <2>2, <1>6, <1>7, <1>10, PartsType
  <2>4. Len(ToView(p)) = Len(ToView(q))
    BY <2>3, <1>6, <1>7, <1>11, PartsType
  <2>5. Len(ToSequence(p)) = Len(ToSequence(q))
    BY <2>4, <1>6, <1>7, <1>12, PartsType
  <2> QED
    BY <2>1, <2>2, <2>3, <2>4, <2>5
<1>14. /\ ToBlock(p) \in Seq(Nat) /\ ToBlock(q) \in Seq(Nat) /\ ToTime(p) \in Seq(Nat) /\ ToTime(q) \in Seq(Nat)
       /\ ToNodeId(p) \in Seq(Nat) /\ ToNodeId(q) \in Seq(Nat) /\ ToView(p) \in Seq(Nat) /\ ToView(q) \in Seq(Nat)
       /\ ToSequence(p) \in Seq(Nat) /\ ToSequence(q) \in Seq(Nat)
  BY PartsType
<1>15. ToSequence(p) = ToSequence(q) /\ p.message = q.message
  <2>1. p.message \in Seq(Nat) /\ q.message \in Seq(Nat)
    BY DEF IsPackage
  <2>2. ToSequence(p) \o p.message = ToSequence(q) \o q.message
    BY PartsType
  <2> QED
    BY <1>13, <1>14, <2>1, <2>2, SplitsAlike
<1>16. ToView(p) = ToView(q) /\ s = s2
  <2>1. ToView(p) \o s = ToView(q) \o s2
    BY <1>6, <1>7, <1>15, Zenon DEF ToSequence
  <2> QED
    BY <1>12, <1>13, <1>14, <2>1, SplitsAlike
<1>17. ToNodeId(p) = ToNodeId(q) /\ v = v2
  <2>1. ToNodeId(p) \o v = ToNodeId(q) \o v2
    BY <1>6, <1>7, <1>16, Zenon DEF ToView
  <2> QED
    BY <1>11, <1>13, <1>14, <2>1, SplitsAlike
<1>18. ToTime(p) = ToTime(q) /\ n = n2
  <2>1. ToTime(p) \o n = ToTime(q) \o n2
    BY <1>6, <1>7, <1>17, Zenon DEF ToNodeId
  <2> QED
    BY <1>10, <1>13, <1>14, <2>1, SplitsAlike
<1>19. ToBlock(p) = ToBlock(q) /\ t = t2
  <2>1. ToBlock(p) \o t = ToBlock(q) \o t2
    BY <1>6, <1>7, <1>18, Zenon DEF ToTime
  <2> QED
    BY <1>9, <1>13, <1>14, <2>1, SplitsAlike
<1>20. b = b2
  <2>1. ToDestination(p) \o b = ToDestination(q) \o b2
    BY <1>6, <1>7, <1>19, Zenon DEF ToBlock
  <2>2. ToDestination(p) \in Seq(Nat) /\ ToDestination(q) \in Seq(Nat) /\ Len(ToDestination(p)) = Len(ToDestination(q))
    BY <1>1, HeadType
  <2> QED
    BY <1>8, <2>1, <2>2, SplitsAlike
<1>21. p.puiSequenceNumber = q.puiSequenceNumber
  <2>1. UIntSize \in Nat /\ Fits(p.puiSequenceNumber, UIntSize) /\ Fits(q.puiSequenceNumber, UIntSize)
    BY PackageFits, Sizes
  <2>2. Optional(p.puiSequenceNumber, UIntSize) = Optional(q.puiSequenceNumber, UIntSize)
    BY <1>6, <1>7, <1>16
  <2> QED
    BY <1>5, <2>1, <2>2, OptionalNamesField
<1>22. p.puiViewNumber = q.puiViewNumber
  <2>1. UIntSize \in Nat /\ Fits(p.puiViewNumber, UIntSize) /\ Fits(q.puiViewNumber, UIntSize)
    BY PackageFits, Sizes
  <2>2. Optional(p.puiViewNumber, UIntSize) = Optional(q.puiViewNumber, UIntSize)
    BY <1>6, <1>7, <1>17
  <2> QED
    BY <1>5, <2>1, <2>2, OptionalNamesField
<1>23. p.puiNodeId = q.puiNodeId
  <2>1. UIntSize \in Nat /\ Fits(p.puiNodeId, UIntSize) /\ Fits(q.puiNodeId, UIntSize)
    BY PackageFits, Sizes
  <2>2. Optional(p.puiNodeId, UIntSize) = Optional(q.puiNodeId, UIntSize)
    BY <1>6, <1>7, <1>18
  <2> QED
    BY <1>5, <2>1, <2>2, OptionalNamesField
<1>24. p.pTimestamp = q.pTimestamp
  <2>1. LongSize \in Nat /\ Fits(p.pTimestamp, LongSize) /\ Fits(q.pTimestamp, LongSize)
    BY PackageFits, Sizes
  <2>2. Optional(p.pTimestamp, LongSize) = Optional(q.pTimestamp, LongSize)
    BY <1>6, <1>7, <1>19
  <2> QED
    BY <1>5, <2>1, <2>2, OptionalNamesField
<1>25. p.pBlock = q.pBlock
  <2>1. HashSize \in Nat /\ Fits(p.pBlock, HashSize) /\ Fits(q.pBlock, HashSize)
    BY PackageFits, Sizes
  <2>2. Optional(p.pBlock, HashSize) = Optional(q.pBlock, HashSize)
    BY <1>6, <1>7, <1>20
  <2> QED
    BY <1>5, <2>1, <2>2, OptionalNamesField
<1>26. DOMAIN p = PackageFields /\ DOMAIN q = PackageFields
  BY DEF IsPackage
<1>27. PICK unread : unread = [vbMessageDigest |-> Null, pClientRequest |-> Null]
  OBVIOUS
<1>28. DOMAIN unread = {"vbMessageDigest", "pClientRequest"}
  BY <1>27
<1>29. \A f \in PackageFields \ DOMAIN unread : p[f] = q[f]
  BY <1>3, <1>4, <1>15, <1>21, <1>22, <1>23, <1>24, <1>25, <1>28 DEF PackageFields
<1>30. /\ Read(p) = [f \in PackageFields |-> IF f \in DOMAIN unread THEN unread[f] ELSE p[f]]
       /\ Read(q) = [f \in PackageFields |-> IF f \in DOMAIN unread THEN unread[f] ELSE q[f]]
  BY <1>26, <1>27, Zenon DEF Read, With
<1> QED
  BY <1>29, <1>30

-----------------------------------------------------------------------------

\* Every package has the fields of its type, and a PREPREPARE a request that was
\* made (PBFTNode.cpp:62-74, 228-234, 296-301, 349-354, 428-433, 486-494).
THEOREM PackagesWellFormed == PackageInit /\ [][PackageNext]_packageVars => []PkInv
<1>1. PkInv /\ [PackageNext]_packageVars => PkInv'
  BY PackagesStep
<1> QED
  BY <1>1, PackagesInit, PTL

\* The bytes that are hashed and signed tell any two packages apart that PBFTNode
\* builds, for every size of a byte and of the fields, any nodes, numbers, times and
\* blocks, and any number of packages (PBFTDataPackage.cpp:24-107).
THEOREM RawDataTellApart == PackageInit /\ [][PackageNext]_packageVars => []BytesTellApart
<1>1. PkInv => BytesTellApart
  BY BytesNamePackage DEF PkInv, BytesTellApart
<1> QED
  BY <1>1, PackagesWellFormed, PTL

=============================================================================
