---------------------------- MODULE PBFTQuorums ----------------------------
(***************************************************************************)
(* The arithmetic with which PBFTNode decides how many messages are        *)
(* enough.  The number of nodes is the size of the factory's vector of     *)
(* public keys; every handler recomputes                                   *)
(*                                                                         *)
(*     unsigned int f = (((m_vvbPublicKeys.size() - 1) - 1) / 3) + 1;      *)
(*                                                                         *)
(* which the comment at PBFTNode.cpp:332 reads as (N - 1) / 3 rounded up.  *)
(* size() is unsigned, so for a single node (N - 1) - 1 wraps around.      *)
(***************************************************************************)
EXTENDS Integers

\* The unsigned difference a - b in a type with `mod` values.
USub(a, b, mod) == IF a >= b THEN a - b ELSE mod + a - b

\* f for n nodes, as the code computes it in a type with `mod` values.
FaultBoundMod(n, mod) == (USub(USub(n, 1, mod), 1, mod) \div 3) + 1

\* f for two nodes or more, where nothing wraps.
FaultBound(n) == ((n - 2) \div 3) + 1

\* Faulty: one more than 2f.
PrepareQuorumPlusOne(n) == 2 * FaultBound(n) + 1

\* Received PREPAREs that make a request prepared.
PrepareQuorum(n) == 2 * FaultBound(n)

\* Received COMMITs that make a request committed-local.
CommitQuorum(n) == FaultBound(n) + 1

\* Received REPLYs after which a client takes its block as committed.
ReplyQuorum(n) == FaultBound(n) + 1

=============================================================================
