----------------------------- MODULE Blockchain -----------------------------
(***************************************************************************)
(* The chain of a node and the blocks made for it (Block.cpp,              *)
(* Blockchain.cpp).  A block takes its index from the last block there is  *)
(* when it is made (PBFTNode.cpp:481) and its place in the chain, and the  *)
(* hash of its predecessor, when it is added, which other blocks may be    *)
(* before it.  A hash is the tuple of what is hashed.                      *)
(***************************************************************************)
EXTENDS Naturals, Sequences, FiniteSets, Functions

CONSTANTS
    Data,       \* lists of transactions a block may have
    MaxBlocks,  \* bound: length of the chain
    MaxMade     \* bound: blocks made that may still be added

ASSUME ChainAssumption == MaxBlocks \in Nat /\ MaxMade \in Nat

VARIABLES
    m_vChain,   \* [index, data, sPrevHash, hash]
    made        \* blocks that may be added, for the first time or again

chainVars == <<m_vChain, made>>

sha256(x) == <<"sha256", x>>

\* Block.cpp:15: neither the index nor the hash before goes into it.
CalculateHash(m_data) == sha256(<<m_data>>)

\* Block.cpp:7-12.
NewBlock(index, data) ==
    [index |-> index, data |-> data, sPrevHash |-> <<>>, hash |-> CalculateHash(data)]

\* Blockchain.cpp:6-11.
ChainInit ==
    /\ m_vChain = <<NewBlock(0, "Genesis")>>
    /\ made = {}

GetLastBlock == m_vChain[Len(m_vChain)]

\* Faulty: the index is the number of blocks, and one more.
MakeCountedBlock(data) ==
    /\ Cardinality(made) < MaxMade
    /\ made' = made \cup {NewBlock(Len(m_vChain) + 1, data)}
    /\ UNCHANGED m_vChain

\* PBFTNode.cpp:481.
MakeBlock(data) ==
    /\ Cardinality(made) < MaxMade
    /\ made' = made \cup {NewBlock(GetLastBlock.index + 1, data)}
    /\ UNCHANGED m_vChain

\* Blockchain.cpp:26-31: a copy, chained and hashed again.
AddBlock(b) ==
    /\ Len(m_vChain) < MaxBlocks
    /\ m_vChain' = Append(m_vChain,
          [b EXCEPT !.sPrevHash = GetLastBlock.hash, !.hash = CalculateHash(b.data)])
    /\ made' \in {made, made \ {b}}

ChainNext ==
    \/ \E d \in Data : MakeBlock(d)
    \/ \E b \in made : AddBlock(b)

ChainSpec == ChainInit /\ [][ChainNext]_chainVars

-----------------------------------------------------------------------------
(* Properties *)

\* Every block is chained to the one before it and carries the hash of its own
\* data, in whatever order blocks are made and added.
Chained ==
    \A k \in 2..Len(m_vChain) :
        /\ m_vChain[k].sPrevHash = m_vChain[k - 1].hash
        /\ m_vChain[k].hash = CalculateHash(m_vChain[k].data)

\* A block's index is never more than its place: it is what the place would have
\* been, had nothing been added since the block was made.  It may be less, and two
\* blocks may have the same.
IndexNotAhead ==
    \A k \in 1..Len(m_vChain) : m_vChain[k].index <= k - 1

=============================================================================
