-------------------------- MODULE WaitingForReply --------------------------
(***************************************************************************)
(* One node as a client of the consensus, access by access (PBFTNode.cpp). *)
(* PBFTNode reads and writes bIsWaitingForReply as one value, and l.264    *)
(* together with l.265.  Here the pair is its two members, and every read  *)
(* or write of it, of uiRepliesRecieved and of the chain is a step: no     *)
(* lock keeps the listener and the AddNewBlock threads apart when they use *)
(* them.                                                                   *)
(*                                                                         *)
(* The other nodes are what they may do to this one: commit blocks, any    *)
(* number of times, and send REPLYs for those whose REQUEST it has posted. *)
(* The node is not stopped.                                                *)
(***************************************************************************)
EXTENDS Naturals, Sequences, PBFTQuorums

CONSTANTS
    Thread,      \* the AddNewBlock threads; the block of thread t is t
    OtherBlock,  \* blocks other nodes ask for
    Null,        \* second before the first block: a null pointer
    N,           \* number of nodes
    MaxDecisions \* bound: how often the other nodes commit a block

ASSUME ThreadAssumption ==
    /\ N \in Nat /\ N >= 2
    /\ MaxDecisions \in Nat
    /\ Null \notin Thread \cup OtherBlock
    /\ Thread \cap OtherBlock = {}

Block   == Thread \cup OtherBlock
Genesis == "Genesis Block"

VARIABLES
    first, second,       \* bIsWaitingForReply
    uiRepliesRecieved,
    chain,
    pc,                  \* [Thread -> where it is in AddNewBlock, "none" if it is never started]
    listener,            \* where the listener is, the block of its message, the counter it read
    posted,              \* [Thread -> whether it has posted its REQUEST]
    decided,             \* how often the other nodes have committed a block
    toCommit,            \* blocks this node has not committed yet
    replies              \* [Thread -> REPLYs for its block that may come]

pairVars    == <<first, second>>
sharedVars  == <<pairVars, uiRepliesRecieved, chain>>
networkVars == <<posted, decided, toCommit, replies>>
vars        == <<sharedVars, pc, listener, networkVars>>

Idle == [pc |-> "idle", block |-> Null, read |-> 0]

Init ==
    /\ first = FALSE
    /\ second = Null
    /\ uiRepliesRecieved = 0
    /\ chain = <<Genesis>>
    /\ pc \in [Thread -> {"none", "test"}]
    /\ listener = Idle
    /\ posted = [t \in Thread |-> FALSE]
    /\ decided = 0
    /\ toCommit = <<>>
    /\ replies = [t \in Thread |-> 0]

LastBlock == chain[Len(chain)]

-----------------------------------------------------------------------------
(* AddNewBlock, thread t *)

Goes(t, from, to) ==
    /\ pc[t] = from
    /\ pc' = [pc EXCEPT ![t] = to]
    /\ UNCHANGED listener

\* t owns the resender mutex.
Holding(t) == pc[t] \in {"flag", "own", "last", "clear", "reset", "post"}

\* Faulty: a thread that finds the mutex taken returns.
TryLock(t) ==
    Goes(t, "lock", IF \A u \in Thread : ~Holding(u) THEN "flag" ELSE "done")

\* l.510.
Lock(t) ==
    /\ \A u \in Thread : ~Holding(u)
    /\ Goes(t, "lock", "flag")

\* l.456; l.513, the flag and then the block; l.516.  A thread that leaves the
\* loop gives the mutex back.
Reads(t) ==
    /\ \/ Goes(t, "test", IF first THEN "done" ELSE "first")
       \/ Lock(t)
       \/ Goes(t, "flag", IF first THEN "own" ELSE "done")
       \/ Goes(t, "own", IF second = t THEN "last" ELSE "done")
       \/ Goes(t, "last", IF LastBlock = second THEN "clear" ELSE "post")
    /\ UNCHANGED <<sharedVars, networkVars>>

\* Faulty: the REQUEST is posted where l.497 has it, commented out.
PostAndSetFirst(t) ==
    /\ Goes(t, "first", "second")
    /\ first' = TRUE
    /\ posted' = [posted EXCEPT ![t] = TRUE]
    /\ UNCHANGED <<second, uiRepliesRecieved, chain, decided, toCommit, replies>>

\* l.502 assigns the pair member by member.
SetFirst(t) ==
    /\ Goes(t, "first", "second")
    /\ first' = TRUE
    /\ UNCHANGED <<second, uiRepliesRecieved, chain, networkVars>>

SetSecond(t) ==
    /\ Goes(t, "second", "lock")
    /\ second' = t
    /\ UNCHANGED <<first, uiRepliesRecieved, chain, networkVars>>

\* l.524.
ClearFlag(t) ==
    /\ Goes(t, "clear", "reset")
    /\ first' = FALSE
    /\ UNCHANGED <<second, uiRepliesRecieved, chain, networkVars>>

\* l.525.
ResetReplies(t) ==
    /\ Goes(t, "reset", "done")
    /\ uiRepliesRecieved' = 0
    /\ UNCHANGED <<pairVars, chain, networkVars>>

\* l.529, for the first time or again.
PostRequest(t) ==
    /\ Goes(t, "post", "flag")
    /\ posted' = [posted EXCEPT ![t] = TRUE]
    /\ UNCHANGED <<sharedVars, decided, toCommit, replies>>

AddNewBlock(t) ==
    \/ Reads(t) \/ SetFirst(t) \/ SetSecond(t)
    \/ ClearFlag(t) \/ ResetReplies(t) \/ PostRequest(t)

-----------------------------------------------------------------------------
(* The other nodes *)

\* n more REPLYs for b are on their way to this node, which it has only if it asked
\* for b: they go to the client whose REQUEST it was (l.428).
Replied(b, n) ==
    replies' = [t \in Thread |-> IF t = b /\ posted[t] THEN replies[t] + n ELSE replies[t]]

\* The COMMIT handlers: a block is committed, as this node's block or as the same one
\* of a node that has asked for it; again for every REQUEST resent (l.529), and again
\* when a number is prepared and committed a second time by messages of an old
\* round (l.378-396).  This node commits it too, or does not, having lost messages.
\* Each other node sends a REPLY (l.435), or none, its last block being this one
\* already (l.400), or none to this node.
Decide(b) ==
    /\ decided < MaxDecisions
    /\ decided' = decided + 1
    /\ toCommit' \in {toCommit, Append(toCommit, b)}
    /\ \E n \in 0..(N - 1) : Replied(b, n)
    /\ UNCHANGED <<sharedVars, pc, listener, posted>>

-----------------------------------------------------------------------------
(* Listener: the end of the COMMIT handler *)

ListenerAt(at) == listener.pc = at

Listens(from, to) ==
    /\ ListenerAt(from)
    /\ listener' = IF to = "idle" THEN Idle ELSE [listener EXCEPT !.pc = to]
    /\ UNCHANGED pc

\* l.400.
TakeCommit ==
    /\ ListenerAt("idle")
    /\ toCommit # <<>>
    /\ toCommit' = Tail(toCommit)
    /\ listener' = IF LastBlock = Head(toCommit)
                     THEN Idle
                     ELSE [Idle EXCEPT !.pc = "committed", !.block = Head(toCommit)]
    /\ UNCHANGED <<sharedVars, pc, posted, decided, replies>>

\* l.403, the flag and then the block.
CommitReads ==
    /\ \/ Listens("committed", IF first THEN "compare" ELSE "add")
       \/ Listens("compare", IF second = listener.block THEN "reply" ELSE "add")
    /\ UNCHANGED <<sharedVars, networkVars>>

\* l.405.
CommitAdds ==
    /\ Listens("add", "reply")
    /\ chain' = Append(chain, listener.block)
    /\ UNCHANGED <<pairVars, uiRepliesRecieved, networkVars>>

\* l.425-435, to this node or to another.
CommitReplies ==
    /\ Listens("reply", "idle")
    /\ \E n \in 0..1 : Replied(listener.block, n)
    /\ UNCHANGED <<sharedVars, posted, decided, toCommit>>

-----------------------------------------------------------------------------
(* Listener: the REPLY handler *)

\* l.252.
TakeReply(t) ==
    /\ ListenerAt("idle")
    /\ replies[t] > 0
    /\ replies' = [replies EXCEPT ![t] = @ - 1]
    /\ listener' = IF first THEN [Idle EXCEPT !.pc = "right", !.block = t] ELSE Idle
    /\ UNCHANGED <<sharedVars, pc, posted, decided, toCommit>>

\* l.256, and l.259 before it writes.
ReplyReads ==
    /\ \/ Listens("right", IF second = listener.block THEN "count" ELSE "idle")
       \/ /\ ListenerAt("count")
          /\ listener' = [listener EXCEPT !.pc = "counted", !.read = uiRepliesRecieved]
          /\ UNCHANGED pc
    /\ UNCHANGED <<sharedVars, networkVars>>

\* Faulty: the flag is cleared before the block is added.
CounterClears ==
    /\ Listens("counted", IF listener.read + 1 < ReplyQuorum(N) THEN "idle" ELSE "append")
    /\ uiRepliesRecieved' = listener.read + 1
    /\ first' = (listener.read + 1 < ReplyQuorum(N))
    /\ UNCHANGED <<second, chain, networkVars>>

\* l.259.
WriteCounter ==
    /\ Listens("counted", IF listener.read + 1 < ReplyQuorum(N) THEN "idle" ELSE "append")
    /\ uiRepliesRecieved' = listener.read + 1
    /\ UNCHANGED <<pairVars, chain, networkVars>>

\* l.263: the block waited for now.
ReplyAdds ==
    /\ Listens("append", "clear")
    /\ chain' = Append(chain, second)
    /\ UNCHANGED <<pairVars, uiRepliesRecieved, networkVars>>

\* l.264.
ReplyClears ==
    /\ Listens("clear", "reset")
    /\ first' = FALSE
    /\ UNCHANGED <<second, uiRepliesRecieved, chain, networkVars>>

\* l.265.
ReplyResets ==
    /\ Listens("reset", "idle")
    /\ uiRepliesRecieved' = 0
    /\ UNCHANGED <<pairVars, chain, networkVars>>

ListenMessages ==
    \/ TakeCommit \/ CommitReads \/ CommitAdds \/ CommitReplies
    \/ \E t \in Thread : TakeReply(t)
    \/ ReplyReads \/ WriteCounter \/ ReplyAdds \/ ReplyClears \/ ReplyResets

-----------------------------------------------------------------------------

Next ==
    \/ \E t \in Thread : AddNewBlock(t)
    \/ \E b \in Block : Decide(b)
    \/ ListenMessages

Spec == Init /\ [][Next]_vars

-----------------------------------------------------------------------------
(* Properties *)

\* The REPLY handler never reads the block through a null pointer (l.256, l.263),
\* although the pair is set member by member: a REPLY takes a REQUEST, and a
\* thread posts its REQUEST after both members are set.
ReplySeesBlock == listener.pc \in {"right", "append"} => second # Null

\* However the threads of a node overtake one another between l.456 and l.502,
\* a node that waits has a thread that goes on about the block waited for, or is
\* about to set another one.  Without it, the node would never create a block
\* again (l.456).
WaitingHasThread ==
    first => \E t \in Thread : \/ pc[t] \in {"second", "lock"}
                               \/ Holding(t) /\ second = t

\* A node with one block to wait for gives it up only with the block in its
\* chain, whatever the listener does between the thread's steps.
GivesUpOnlyAdded ==
    \A t \in Thread :
        (pc[t] = "done" /\ second = t /\ \A u \in Thread \ {t} : pc[u] = "none")
            => \E k \in 1..Len(chain) : chain[k] = t

\* l.255, "If the right package is commited": the block added at l.263 is the one
\* whose REPLYs were counted.
RightBlockAdded == ListenerAt("append") => second = listener.block

=============================================================================
