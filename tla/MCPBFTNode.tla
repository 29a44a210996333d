----------------------------- MODULE MCPBFTNode -----------------------------
(***************************************************************************)
(* Instances of PBFTNode for TLC.                                          *)
(***************************************************************************)
EXTENDS PBFTNode, TLC

CONSTANT MaxLag   \* bound: messages a listener may have before it, see Lag

\* Only the primary's identity matters: PostData is one step for all clients.
Backups == Permutations(Node \ {Primary})

\* Bounds on the REQUESTs a thread posts: the same for every node, or for one
\* node's only, the others' threads being too slow to post any.
Once         == [i \in Node |-> 1]
Twice        == [i \in Node |-> 2]
PrimaryOnce  == [i \in Node |-> IF i = Primary THEN 1 ELSE 0]
BackupThrice == [i \in Node |-> IF i = CHOOSE j \in Node \ {Primary} : TRUE THEN 3 ELSE 0]

(* Reductions, as action constraints.                                         *)

\* Node i has an AddNewBlock thread on its way to its resending loop.
PreparingAt(i) ==
    \/ starting[i] > 0
    \/ admitted[i] > 0
    \/ created[i] # {}
    \/ queued[i] # {} /\ resender[i] = NoResender

\* Threads of one node at a time dawdle on that way while messages move.  Those of
\* different nodes share nothing but the messages, so what a node does to its
\* own is not affected by it.
OneDawdles == (\A i \in Node : PreparingAt(i)) => UNCHANGED dataQueue

\* For three nodes: none dawdles, and nothing comes between the steps of a REPLY
\* handler.  What this leaves out is checked with two.
Preparing == \E i \in Node : PreparingAt(i)

AtReply == \E i \in Node : replying[i] # NotReplying

RepliesAtOnce == AtReply => replying' # replying

PreparedFirst == (Preparing => UNCHANGED dataQueue) /\ RepliesAtOnce

\* The listener of i has a message in hand that changes nothing but its own
\* counters: it will post nothing and read nothing another thread writes, so
\* it makes no difference when it is handled, as long as no queue can overflow.
Quiet(i) ==
    /\ listening[i] /\ ~stopped[i]
    /\ replying[i] = NotReplying
    /\ dataQueue[i] # <<>>
    /\ LET m == Head(dataQueue[i]) IN
          \/ m.type # "REPLY" /\ ~Accepts(i, m)
          \/ /\ m.type = "PREPARE" /\ Accepts(i, m)
             /\ requestLog[i][m.n].prepares + 1 < PrepareQuorum(N)
          \/ /\ m.type = "COMMIT" /\ Accepts(i, m)
             /\ requestLog[i][m.n].commits + 1 < CommitQuorum(N)

QuietFirst ==
    /\ PreparedFirst
    /\ (~Preparing /\ ~AtReply /\ \E i \in Node : Quiet(i))
          => \E i \in Node : Quiet(i) /\ dataQueue'[i] = Tail(dataQueue[i])

\* To find a behaviour soon, not to leave out others that do the same: the
\* primary's listener goes first.
PrimaryAhead ==
    /\ QuietFirst
    /\ (~Preparing /\ ~AtReply /\ dataQueue[Primary] # <<>> /\ \A i \in Node : ~Quiet(i))
          => ListenMessages(Primary)

\* Likewise: every node's threads ask for one block only, the primary's for the first
\* and the others' for the second, so that a second REQUEST for a block is one sent
\* again; and the primary's threads do not dawdle.
AsksForOwn(i) == resender'[i].block = (IF i = Primary THEN {1} ELSE {2})

ResendsOnly ==
    /\ \A i \in Node : resender'[i].pc = "post" => AsksForOwn(i)
    /\ PreparingAt(Primary) => UNCHANGED dataQueue
    /\ RepliesAtOnce

\* Whether a listener leaves at once or later makes no difference: with the flag
\* set it handles nothing, and nobody else reads the flag.
StopsAtOnce ==
    /\ QuietFirst
    /\ (\E i \in Node : stopped[i] /\ listening[i]) => listening' # listening

\* What can make a difference: not the queue of a node whose listener has left.
Heard ==
    <<[i \in Node |-> IF listening[i] THEN dataQueue[i] ELSE <<>>],
      sent, roundVars, clientVars, dataVars, threadVars, stopVars>>

\* Bound on how far behind a listener may be.  A slow node's PREPARE gets into
\* the next round if the node is ten messages behind.
Lag == \A i \in Node : listening[i] => Len(dataQueue[i]) <= MaxLag

=============================================================================
