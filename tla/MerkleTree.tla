----------------------------- MODULE MerkleTree -----------------------------
(***************************************************************************)
(* The Merkle tree of a chain that goes on growing (MerkleTree.cpp): the   *)
(* tree is what the chain was at the last RebuildTree.                     *)
(***************************************************************************)
EXTENDS Blockchain

VARIABLES
    m_leaves,   \* the nodes of the lowest level
    blocks,     \* the hashes of the chain the tree was built from
    roots,      \* history: [blocks, root] of the trees so far
    proof       \* the last one GetMerkleProof has given, its number and the root then

treeVars == <<chainVars, m_leaves, blocks, roots, proof>>

Leaf(hash) == [vbSelfHash |-> hash, vbLeftHash |-> <<>>, vbRightHash |-> <<>>]

\* Faulty: the left hash is hashed twice.
ParentOfLeft(left, right) ==
    [vbLeftHash |-> left, vbRightHash |-> right, vbSelfHash |-> sha256(<<left, left>>)]

\* l.40-45.
Parent(left, right) ==
    [vbLeftHash |-> left, vbRightHash |-> right, vbSelfHash |-> sha256(<<left, right>>)]

\* l.23-26, l.35-36: the last one stands twice in a level of odd length.
Even(level) == IF Len(level) % 2 = 0 THEN level ELSE Append(level, level[Len(level)])

\* Faulty: the first half of a level is paired with the second.
HalvesAbove(level) ==
    LET even == Even(level) half == Len(even) \div 2
    IN  [k \in 1..half |-> Parent(even[k].vbSelfHash, even[half + k].vbSelfHash)]

\* l.33-51: the parents of a level.
Above(level) ==
    LET even == Even(level)
    IN  [k \in 1..(Len(even) \div 2) |->
            Parent(even[2 * k - 1].vbSelfHash, even[2 * k].vbSelfHash)]

\* l.28-33, l.50: the levels, each made from the one before it.
Levels(leaves) ==
    LET level[d \in Nat] == IF d = 0 THEN leaves ELSE Above(level[d - 1])
    IN  level

\* l.31, l.52: the loop ends at the first level of one node.
Depth(leaves) ==
    LET level == Levels(leaves)
    IN  CHOOSE d \in 0..Len(leaves) :
            Len(level[d]) = 1 /\ \A c \in 0..(d - 1) : Len(level[c]) # 1

\* l.54-62.
Root(leaves) == Levels(leaves)[Depth(leaves)][1]

Hashes(chain) == [k \in DOMAIN chain |-> chain[k].hash]

\* l.11-26, of the hashes of a chain.
LeavesOf(hashes) == Even([k \in DOMAIN hashes |-> Leaf(hashes[k])])
Leaves(chain)    == LeavesOf(Hashes(chain))

\* The tree of a chain, whoever's it is.
TreeOf(hashes) == [blocks |-> hashes, root |-> Root(LeavesOf(hashes)).vbSelfHash]

BuiltFrom(chain) == TreeOf(Hashes(chain))

NoProof == [number |-> Len(m_vChain), nodes |-> <<>>]

\* The tree is made with the chain (l.5-8).
TreeInit ==
    /\ ChainInit
    /\ m_leaves = Leaves(m_vChain)
    /\ blocks = Hashes(m_vChain)
    /\ roots = {BuiltFrom(m_vChain)}
    /\ proof = NoProof

RebuildTree ==
    /\ m_leaves' = Leaves(m_vChain)
    /\ blocks' = Hashes(m_vChain)
    /\ roots' = roots \cup {BuiltFrom(m_vChain)}
    /\ UNCHANGED <<chainVars, proof>>

\* l.47-48: two nodes that follow one another in a level have one parent.
PlaceAbove(n) ==
    LET place[d \in Nat] == IF d = 0 THEN n ELSE place[d - 1] \div 2
    IN  place

\* l.65-79: the block of the chain there is now, and the tree's nodes from its
\* leaf up to the root, which is left out.  Past the leaves the code reads
\* outside of the vector.
GetMerkleProof(uiElementNumber) ==
    /\ uiElementNumber < Len(m_leaves)
    /\ proof' = [number |-> uiElementNumber,
                 hash   |-> m_vChain[uiElementNumber + 1].hash,
                 nodes  |-> [d \in 1..Depth(m_leaves) |->
                               Levels(m_leaves)[d - 1][PlaceAbove(uiElementNumber)[d - 1] + 1]],
                 root   |-> Root(m_leaves),
                 built  |-> Len(blocks)]
    /\ UNCHANGED <<chainVars, m_leaves, blocks, roots>>

TreeNext ==
    \/ ChainNext /\ UNCHANGED <<m_leaves, blocks, roots, proof>>
    \/ RebuildTree
    \/ \E n \in 0..(Len(m_vChain) - 1) : GetMerkleProof(n)

-----------------------------------------------------------------------------
(* Properties *)

\* The proof of a block that was in the chain when the tree was built begins with
\* the block's hash and goes up, each hash a child of the next node, to a child of
\* the root, for every length of the chain and however much it has grown since.
ProofLeadsToRoot ==
    proof.nodes # <<>> /\ proof.number < proof.built =>
        LET nodes == Append(proof.nodes, proof.root)
        IN  /\ nodes[1].vbSelfHash = proof.hash
            /\ \A k \in 1..(Len(nodes) - 1) :
                  nodes[k].vbSelfHash \in {nodes[k + 1].vbLeftHash, nodes[k + 1].vbRightHash}

\* The trees other nodes may have: of chains of other blocks, of the same ones in
\* another order, of longer and of shorter chains, none with a block twice.  All
\* begin with the same block (Blockchain.cpp:8).
BlockHashes == {CalculateHash(d) : d \in Data \cup {"Genesis"}}

OtherChains ==
    {h \in UNION {[1..n -> BlockHashes] : n \in 1..MaxBlocks} :
        IsInjective(h) /\ h[1] = CalculateHash("Genesis")}

OtherTrees == {TreeOf(hashes) : hashes \in OtherChains}

\* A root this node has had is the root of no other node's tree, unless that tree is
\* of the same chain; so nodes that compare roots compare chains (l.54-62).  It takes
\* chains without a block twice: the last node of an odd level is repeated (l.23,
\* l.35), and a chain whose last block is there twice may have the root of the chain
\* without it.
RootNamesChain ==
    \A tree \in roots, other \in OtherTrees :
        IsInjective(tree.blocks) /\ tree.root = other.root => tree.blocks = other.blocks

=============================================================================
