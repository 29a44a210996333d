------------------------------- MODULE SHA256 -------------------------------
(***************************************************************************)
(* How SHA256 cuts a message that comes in pieces into blocks, and pads it *)
(* (sha256.cpp): every hash of the program, of blocks, packages and the    *)
(* Merkle tree, rests on it.  The compression of one block is left out:    *)
(* m_h is the sequence of the bytes compressed so far.                     *)
(*                                                                         *)
(* A byte is a pair: its kind and a number that tells the message's bytes  *)
(* apart.  BlockSize is 64 and LengthSize 8 in the code, whose unsigned    *)
(* int has Word = 2^32 values.                                             *)
(***************************************************************************)
EXTENDS Integers, Sequences

CONSTANTS
    BlockSize,    \* SHA224_256_BLOCK_SIZE
    LengthSize,   \* bytes of the length field; the code writes the lower half
    Word,
    MaxLength     \* bound: bytes of a message

ASSUME SizeAssumption ==
    /\ LengthSize \in Nat \ {0}
    /\ BlockSize \in Nat /\ BlockSize >= LengthSize + 1
    /\ Word \in Nat \ {0}
    /\ MaxLength \in Nat

VARIABLES
    m_h,         \* what transform has compressed
    m_block,     \* [0..2 * BlockSize - 1 -> byte]
    m_len,       \* bytes that wait in m_block
    m_tot_len,   \* bytes compressed
    given,       \* bytes the caller has passed since init()
    done         \* final() has been called

hashVars == <<m_h, m_block, m_len, m_tot_len, given, done>>

MessageByte(k) == <<"message", k>>
Zero           == <<"zero", 0>>
Ox80           == <<"0x80", 0>>
LengthByte(n)  == <<"length", n>>

Message(from, to) == [k \in 1..(to - from) |-> MessageByte(from + k)]

\* memcpy(&block[at], bytes, Len(bytes)).
Copy(block, at, bytes) ==
    [k \in DOMAIN block |-> IF at <= k /\ k < at + Len(bytes) THEN bytes[k - at + 1] ELSE block[k]]

\* The first n bytes.
First(block, n) == [k \in 1..n |-> block[k - 1]]

HashInit ==
    /\ m_h = <<>>
    /\ m_block = [k \in 0..(2 * BlockSize - 1) |-> <<"old", 0>>]
    /\ m_len = 0
    /\ m_tot_len = 0
    /\ given = 0
    /\ done = FALSE

\* l.65-77: m_block keeps what it holds.
init ==
    /\ done
    /\ m_h' = <<>>
    /\ m_len' = 0
    /\ m_tot_len' = 0
    /\ given' = 0
    /\ done' = FALSE
    /\ UNCHANGED m_block

\* l.87.
StaysInBlock(len) == m_len + len < BlockSize

\* l.86-89.
UpdateKeeps(len) ==
    /\ StaysInBlock(len)
    /\ m_block' = Copy(m_block, m_len, Message(given, given + len))
    /\ m_len' = m_len + len
    /\ UNCHANGED <<m_h, m_tot_len>>

\* Faulty: what is left of the message is not counted from the block's rest.
UpdateFromStart(len) ==
    LET rem_len  == BlockSize - m_len
        block_nb == (len - rem_len) \div BlockSize
        filled   == Copy(m_block, m_len, Message(given, given + rem_len))
        rest     == given + block_nb * BlockSize
    IN  /\ ~StaysInBlock(len)
        /\ m_h' = m_h \o First(filled, BlockSize) \o Message(given, rest)
        /\ m_block' = Copy(filled, 0, Message(rest, given + len - rem_len))
        /\ m_len' = (len - rem_len) % BlockSize
        /\ m_tot_len' = m_tot_len + (block_nb + 1) * BlockSize

\* l.84-86, l.91-99.
UpdateTransforms(len) ==
    LET rem_len  == BlockSize - m_len
        block_nb == (len - rem_len) \div BlockSize
        filled   == Copy(m_block, m_len, Message(given, given + rem_len))
        rest     == given + rem_len + block_nb * BlockSize
    IN  /\ ~StaysInBlock(len)
        /\ m_h' = m_h \o First(filled, BlockSize) \o Message(given + rem_len, rest)
        /\ m_block' = Copy(filled, 0, Message(rest, given + len))
        /\ m_len' = (len - rem_len) % BlockSize
        /\ m_tot_len' = m_tot_len + (block_nb + 1) * BlockSize

update(len) ==
    /\ ~done
    /\ given + len <= MaxLength
    /\ UpdateKeeps(len) \/ UpdateTransforms(len)
    /\ given' = given + len
    /\ UNCHANGED done

\* l.108: 1 or 2 blocks of padding.
PaddingBlocks(len) == IF BlockSize - (LengthSize + 1) < len % BlockSize THEN 2 ELSE 1

\* Faulty: the rest of the block is not cleared.
PaddedUncleared(len_b, pm_len) ==
    Copy(Copy(m_block, m_len, <<Ox80>>), pm_len - 1, <<LengthByte(len_b)>>)

\* l.112-114; the lower half of the length is one byte here.
PaddedBlock(len_b, pm_len) ==
    LET cleared == Copy(m_block, m_len, [k \in 1..(pm_len - m_len) |-> Zero])
    IN  Copy(Copy(cleared, m_len, <<Ox80>>), pm_len - 1, <<LengthByte(len_b)>>)

\* l.104-118.
final ==
    LET pm_len == PaddingBlocks(m_len) * BlockSize
        len_b  == ((m_tot_len + m_len) * 8) % Word
    IN  /\ ~done
        /\ m_block' = PaddedBlock(len_b, pm_len)
        /\ m_h' = m_h \o First(m_block', pm_len)
        /\ done' = TRUE
        /\ UNCHANGED <<m_len, m_tot_len, given>>

HashNext ==
    \/ init
    \/ \E len \in 0..MaxLength : update(len)
    \/ final

HashSpec == HashInit /\ [][HashNext]_hashVars

-----------------------------------------------------------------------------
(* Properties *)

\* What waits and what has been compressed are the message so far: no byte is
\* lost, doubled or moved wherever the pieces end.
StreamKept == ~done => m_h \o First(m_block, m_len) = Message(0, given)

\* The lengths on which l.84, l.87 and l.110 compute without an overflow of their
\* own: the waiting bytes are less than a block, the others whole blocks.
LengthsAgree ==
    /\ m_len \in 0..(BlockSize - 1)
    /\ \E blocks \in 0..MaxLength : m_tot_len = blocks * BlockSize
    /\ m_tot_len + m_len = given

\* The padding of the standard: the byte 0x80, as many zeros as it takes, and the
\* number of bits, at the end of the last block.
Padded(n) ==
    LET size  == n + 1 + LengthSize
        zeros == ((BlockSize - (size % BlockSize)) % BlockSize) + LengthSize - 1
    IN  Message(0, n) \o <<Ox80>> \o [k \in 1..zeros |-> Zero] \o <<LengthByte(8 * n)>>

\* final() pads as the standard does, whatever an earlier message has left in
\* m_block, up to the lengths whose number of bits the 32 bits of len_b hold.
PadsAsStandard == done /\ 8 * given < Word => m_h = Padded(given)

\* The byte 0x80 and the length field lie between the message and the end of
\* m_block (l.112-114).
PaddingFits ==
    LET pm_len == PaddingBlocks(m_len) * BlockSize
    IN  m_len + 1 + LengthSize <= pm_len /\ pm_len <= 2 * BlockSize

=============================================================================
