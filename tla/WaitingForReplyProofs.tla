----------------------- MODULE WaitingForReplyProofs -----------------------
(***************************************************************************)
(* What is proved of one node as a client, access by access: its three     *)
(* invariants, for any threads, blocks, number of nodes and of REQUESTs.   *)
(***************************************************************************)
EXTENDS WaitingForReply, SequenceTheorems, TLAPS

\* Where a thread and the listener may be.
ThreadAt == {"none", "test", "first", "second", "lock", "flag", "own", "last",
             "clear", "reset", "post", "done"}

ListenerPcs == {"idle", "committed", "compare", "add", "reply",
                "right", "count", "counted", "append", "clear", "reset"}

WaitTypes ==
    /\ first \in BOOLEAN
    /\ second \in Thread \cup {Null}
    /\ chain \in Seq(Block \cup {Genesis}) /\ Len(chain) >= 1
    /\ pc \in [Thread -> ThreadAt]
    /\ listener \in [pc : ListenerPcs, block : Block \cup {Null}, read : Nat]
    /\ listener.pc # "idle" => listener.block \in Block
    /\ uiRepliesRecieved \in Nat
    /\ decided \in Nat
    /\ posted \in [Thread -> BOOLEAN] /\ replies \in [Thread -> Nat]
    /\ toCommit \in Seq(Block)

\* As long as no thread has set the block to wait for, no thread has got to the
\* mutex, and nobody has a REPLY for this node.
NullUntilSet ==
    second = Null =>
        /\ \A t \in Thread : /\ pc[t] \in {"none", "test", "first", "second", "done"}
                             /\ ~posted[t] /\ replies[t] = 0
        /\ listener.pc \in {"idle", "committed", "compare", "add", "reply"}

\* A node that waits has a thread that is about to set the block to wait for, or
\* the thread of the block that is set is in the loop and has not cleared the flag.
OwnerGoesOn ==
    first => \/ \E t \in Thread : pc[t] = "second"
             \/ second \in Thread /\ pc[second] \in {"lock", "flag", "own", "last", "clear", "post"}

InChain(t) == \E k \in 1..Len(chain) : chain[k] = t

\* A thread that no other overtakes.
AloneInLoop(t) ==
    (\A u \in Thread \ {t} : pc[u] = "none") =>
        /\ second \in {Null, t}
        /\ pc[t] \in {"none", "test", "first"} => ~first /\ second = Null
        /\ pc[t] = "second" => first /\ second = Null
        /\ pc[t] \in {"lock", "flag", "own", "last", "post"} => first \/ InChain(t)
        /\ pc[t] \in {"clear", "reset"} => InChain(t)
        /\ pc[t] = "done" /\ second = t => InChain(t)
        /\ listener.pc = "clear" => InChain(t)

WaitInv == WaitTypes /\ NullUntilSet /\ OwnerGoesOn /\ \A t \in Thread : AloneInLoop(t)

\* One thread goes on; the others stay where they are.
LEMMA GoesOn ==
    ASSUME WaitTypes, NEW t \in Thread, NEW from, NEW to \in ThreadAt, Goes(t, from, to)
    PROVE  /\ pc[t] = from /\ pc'[t] = to /\ listener' = listener
           /\ \A u \in Thread \ {t} : pc'[u] = pc[u]
           /\ pc' \in [Thread -> ThreadAt]
BY DEF Goes, WaitTypes

\* What a thread's reads lead from and to, and what they tell it.
LEMMA ReadsTo ==
    ASSUME NEW t, Reads(t)
    PROVE  /\ UNCHANGED <<first, second, uiRepliesRecieved, chain, posted, decided, toCommit, replies>>
           /\ \E from, to \in ThreadAt :
                 /\ Goes(t, from, to)
                 /\ \/ from = "test" /\ to = "done" /\ first
                    \/ from = "test" /\ to = "first" /\ ~first
                    \/ from = "lock" /\ to = "flag"
                    \/ from = "flag" /\ to = "own" /\ first
                    \/ from = "flag" /\ to = "done" /\ ~first
                    \/ from = "own" /\ to = "last" /\ second = t
                    \/ from = "own" /\ to = "done" /\ second # t
                    \/ from = "last" /\ to = "clear" /\ chain[Len(chain)] = second
                    \/ from = "last" /\ to = "post"
<1>1. UNCHANGED <<first, second, uiRepliesRecieved, chain, posted, decided, toCommit, replies>>
  BY DEF Reads, sharedVars, pairVars, networkVars
<1>2. CASE Goes(t, "test", IF first THEN "done" ELSE "first")
  <2>1. CASE first
    BY <1>1, <1>2, <2>1 DEF ThreadAt
  <2>2. CASE ~first
    BY <1>1, <1>2, <2>2 DEF ThreadAt
  <2> QED
    BY <2>1, <2>2
<1>3. CASE Lock(t)
  BY <1>1, <1>3 DEF ThreadAt, Lock
<1>4. CASE Goes(t, "flag", IF first THEN "own" ELSE "done")
  <2>1. CASE first
    BY <1>1, <1>4, <2>1 DEF ThreadAt
  <2>2. CASE ~first
    BY <1>1, <1>4, <2>2 DEF ThreadAt
  <2> QED
    BY <2>1, <2>2
<1>5. CASE Goes(t, "own", IF second = t THEN "last" ELSE "done")
  <2>1. CASE second = t
    BY <1>1, <1>5, <2>1 DEF ThreadAt
  <2>2. CASE second # t
    BY <1>1, <1>5, <2>2 DEF ThreadAt
  <2> QED
    BY <2>1, <2>2
<1>6. CASE Goes(t, "last", IF LastBlock = second THEN "clear" ELSE "post")
  <2>1. CASE LastBlock = second
    BY <1>1, <1>6, <2>1 DEF ThreadAt, LastBlock
  <2>2. CASE LastBlock # second
    BY <1>1, <1>6, <2>2 DEF ThreadAt
  <2> QED
    BY <2>1, <2>2
<1> QED
  BY <1>2, <1>3, <1>4, <1>5, <1>6 DEF Reads

\* The listener goes on, the threads stay.
LEMMA ListensOn ==
    ASSUME WaitTypes, NEW from, NEW to \in ListenerPcs, Listens(from, to)
    PROVE  /\ listener.pc = from /\ listener'.pc = to /\ pc' = pc
           /\ to # "idle" => listener'.block = listener.block
           /\ to = "idle" => listener'.block = Null
           /\ listener' \in [pc : ListenerPcs, block : Block \cup {Null}, read : Nat]
BY DEF Listens, ListenerAt, WaitTypes, Idle, ListenerPcs

\* The listener has taken a message about a block.
LEMMA TookMessage ==
    \A r : \A p \in ListenerPcs, b \in Block :
        r = [Idle EXCEPT !.pc = p, !.block = b] =>
            /\ r.pc = p /\ r.block = b
            /\ r \in [pc : ListenerPcs, block : Block \cup {Null}, read : Nat]
<1> SUFFICES ASSUME NEW r, NEW p \in ListenerPcs, NEW b \in Block,
                    r = [Idle EXCEPT !.pc = p, !.block = b]
             PROVE  /\ r.pc = p /\ r.block = b
                    /\ r \in [pc : ListenerPcs, block : Block \cup {Null}, read : Nat]
  OBVIOUS
<1>1. Idle \in [pc : ListenerPcs, block : Block \cup {Null}, read : Nat]
  BY DEF Idle, ListenerPcs
<1>2. r.pc = p /\ r.block = b
  BY DEF Idle
<1> QED
  BY <1>1, <1>2

\* REPLYs come for blocks this node has asked for.
LEMMA RepliesTyped ==
    ASSUME WaitTypes, NEW b, NEW n \in Nat, Replied(b, n)
    PROVE  /\ replies' \in [Thread -> Nat]
           /\ \A t \in Thread : ~posted[t] => replies'[t] = replies[t]
BY DEF WaitTypes, Replied

\* The types, step by step.
LEMMA TypesStep ==
    ASSUME WaitTypes, Next, ReplyAdds => second # Null
    PROVE  WaitTypes'
<1> USE ThreadAssumption
<1>0. /\ first \in BOOLEAN /\ second \in Thread \cup {Null}
      /\ chain \in Seq(Block \cup {Genesis}) /\ Len(chain) >= 1
      /\ pc \in [Thread -> ThreadAt]
      /\ listener \in [pc : ListenerPcs, block : Block \cup {Null}, read : Nat]
      /\ listener.pc # "idle" => listener.block \in Block
      /\ uiRepliesRecieved \in Nat /\ decided \in Nat
      /\ posted \in [Thread -> BOOLEAN] /\ replies \in [Thread -> Nat] /\ toCommit \in Seq(Block)
      /\ Thread \subseteq Block
  BY DEF WaitTypes, Block
<1>1. ASSUME NEW b \in Block \cup {Genesis}, chain' = Append(chain, b)
      PROVE  chain' \in Seq(Block \cup {Genesis}) /\ Len(chain') >= 1
  BY <1>0, <1>1
<1>2. ASSUME NEW t \in Thread, AddNewBlock(t) PROVE WaitTypes'
  <2>1. CASE Reads(t)
    BY <1>0, <2>1, ReadsTo, GoesOn DEF WaitTypes
  <2>2. CASE SetFirst(t)
    <3>1. pc' \in [Thread -> ThreadAt] /\ listener' = listener
      BY <2>2, GoesOn DEF SetFirst, ThreadAt
    <3> QED
      BY <1>0, <2>2, <3>1 DEF WaitTypes, SetFirst, networkVars
  <2>3. CASE SetSecond(t)
    <3>1. pc' \in [Thread -> ThreadAt] /\ listener' = listener
      BY <2>3, GoesOn DEF SetSecond, ThreadAt
    <3> QED
      BY <1>0, <2>3, <3>1 DEF WaitTypes, SetSecond, networkVars
  <2>4. CASE ClearFlag(t)
    <3>1. pc' \in [Thread -> ThreadAt] /\ listener' = listener
      BY <2>4, GoesOn DEF ClearFlag, ThreadAt
    <3> QED
      BY <1>0, <2>4, <3>1 DEF WaitTypes, ClearFlag, networkVars
  <2>5. CASE ResetReplies(t)
    <3>1. pc' \in [Thread -> ThreadAt] /\ listener' = listener
      BY <2>5, GoesOn DEF ResetReplies, ThreadAt
    <3> QED
      BY <1>0, <2>5, <3>1 DEF WaitTypes, ResetReplies, networkVars, pairVars
  <2>6. CASE PostRequest(t)
    <3>1. pc' \in [Thread -> ThreadAt] /\ listener' = listener
      BY <2>6, GoesOn DEF PostRequest, ThreadAt
    <3>2. posted' \in [Thread -> BOOLEAN]
      BY <1>0, <2>6 DEF PostRequest
    <3> QED
      BY <1>0, <2>6, <3>1, <3>2 DEF WaitTypes, PostRequest, sharedVars, pairVars
  <2> QED
    BY <1>2, <2>1, <2>2, <2>3, <2>4, <2>5, <2>6 DEF AddNewBlock
<1>3. ASSUME NEW b \in Block, Decide(b) PROVE WaitTypes'
  <2>1. toCommit' \in Seq(Block) /\ decided' \in Nat
    <3>1. /\ toCommit' = toCommit \/ toCommit' = Append(toCommit, b)
          /\ decided' = decided + 1
      BY <1>3 DEF Decide
    <3>2. toCommit \in Seq(Block) /\ Append(toCommit, b) \in Seq(Block)
      BY <1>0
    <3>3. decided' \in Nat
      BY <1>0, <3>1
    <3> QED
      BY <3>1, <3>2, <3>3
  <2>2. replies' \in [Thread -> Nat]
    <3>1. PICK n \in 0..(N - 1) : Replied(b, n)
      BY <1>3 DEF Decide
    <3>2. n \in Nat
      BY <3>1
    <3> QED
      BY <3>1, <3>2, RepliesTyped
  <2>3. UNCHANGED <<first, second, uiRepliesRecieved, chain, pc, listener, posted>>
    BY <1>3 DEF Decide, sharedVars, pairVars
  <2> QED
    BY <1>0, <2>1, <2>2, <2>3 DEF WaitTypes
<1>4. CASE TakeCommit
  <2>1. /\ UNCHANGED <<first, second, uiRepliesRecieved, chain, pc, posted, decided, replies>>
        /\ toCommit # <<>> /\ toCommit' = Tail(toCommit)
        /\ listener' = Idle \/ listener' = [Idle EXCEPT !.pc = "committed", !.block = Head(toCommit)]
    BY <1>4 DEF TakeCommit, sharedVars, pairVars
  <2>2. toCommit' \in Seq(Block) /\ Head(toCommit) \in Block
    BY <1>0, <2>1
  <2>3. "committed" \in ListenerPcs
    BY DEF ListenerPcs
  <2>4. /\ listener' \in [pc : ListenerPcs, block : Block \cup {Null}, read : Nat]
        /\ listener'.pc # "idle" => listener'.block \in Block
    <3>1. CASE listener' = Idle
      BY <3>1 DEF Idle, ListenerPcs
    <3>2. CASE listener' = [Idle EXCEPT !.pc = "committed", !.block = Head(toCommit)]
      BY <2>2, <2>3, <3>2, TookMessage
    <3> QED
      BY <2>1, <3>1, <3>2
  <2> QED
    BY <1>0, <2>1, <2>2, <2>4 DEF WaitTypes
<1>5. CASE CommitReads
  <2>1. UNCHANGED <<first, second, uiRepliesRecieved, chain, posted, decided, toCommit, replies>>
    BY <1>5 DEF CommitReads, sharedVars, pairVars, networkVars
  <2>2. PICK from, to \in {"committed", "compare", "add", "reply"} : Listens(from, to)
    BY <1>5 DEF CommitReads
  <2>3. /\ listener' \in [pc : ListenerPcs, block : Block \cup {Null}, read : Nat]
        /\ pc' = pc /\ listener'.block \in Block
    BY <1>0, <2>2, ListensOn DEF ListenerPcs
  <2> QED
    BY <1>0, <2>1, <2>3 DEF WaitTypes
<1>6. CASE CommitAdds
  <2>1. UNCHANGED <<first, second, uiRepliesRecieved, posted, decided, toCommit, replies>>
    BY <1>6 DEF CommitAdds, pairVars, networkVars
  <2>2. /\ listener' \in [pc : ListenerPcs, block : Block \cup {Null}, read : Nat]
        /\ pc' = pc /\ listener'.block \in Block /\ listener.block \in Block
    BY <1>0, <1>6, ListensOn DEF ListenerPcs, CommitAdds
  <2>3. chain' \in Seq(Block \cup {Genesis}) /\ Len(chain') >= 1
    BY <1>1, <1>6, <2>2 DEF CommitAdds
  <2> QED
    BY <1>0, <2>1, <2>2, <2>3 DEF WaitTypes
<1>7. CASE CommitReplies
  <2>1. UNCHANGED <<first, second, uiRepliesRecieved, chain, posted, decided, toCommit>>
    BY <1>7 DEF CommitReplies, sharedVars, pairVars
  <2>2. /\ listener' \in [pc : ListenerPcs, block : Block \cup {Null}, read : Nat]
        /\ pc' = pc /\ listener'.pc = "idle"
    BY <1>0, <1>7, ListensOn DEF ListenerPcs, CommitReplies
  <2>3. replies' \in [Thread -> Nat]
    <3>1. PICK n \in 0..1 : Replied(listener.block, n)
      BY <1>7 DEF CommitReplies
    <3> QED
      BY <3>1, RepliesTyped
  <2> QED
    BY <1>0, <2>1, <2>2, <2>3 DEF WaitTypes
<1>8. ASSUME NEW t \in Thread, TakeReply(t) PROVE WaitTypes'
  <2>1. /\ UNCHANGED <<first, second, uiRepliesRecieved, chain, pc, posted, decided, toCommit>>
        /\ listener' = [Idle EXCEPT !.pc = "right", !.block = t] \/ listener' = Idle
    BY <1>8 DEF TakeReply, sharedVars, pairVars
  <2>2. replies' \in [Thread -> Nat]
    BY <1>0, <1>8 DEF TakeReply
  <2>3. /\ listener' \in [pc : ListenerPcs, block : Block \cup {Null}, read : Nat]
        /\ listener'.pc # "idle" => listener'.block \in Block
    <3>1. t \in Block
      BY <1>0
    <3>2. "right" \in ListenerPcs
      BY DEF ListenerPcs
    <3>3. CASE listener' = Idle
      BY <3>3 DEF Idle, ListenerPcs
    <3>4. CASE listener' = [Idle EXCEPT !.pc = "right", !.block = t]
      BY <3>1, <3>2, <3>4, TookMessage
    <3> QED
      BY <2>1, <3>3, <3>4
  <2> QED
    BY <1>0, <2>1, <2>2, <2>3 DEF WaitTypes
<1>9. CASE ReplyReads
  <2>1. UNCHANGED <<first, second, uiRepliesRecieved, chain, posted, decided, toCommit, replies>>
    BY <1>9 DEF ReplyReads, sharedVars, pairVars, networkVars
  <2>2. CASE Listens("right", IF second = listener.block THEN "count" ELSE "idle")
    <3>1. PICK to \in {"count", "idle"} : Listens("right", to)
      BY <2>2
    <3>2. /\ listener' \in [pc : ListenerPcs, block : Block \cup {Null}, read : Nat]
          /\ pc' = pc /\ (listener'.pc # "idle" => listener'.block \in Block)
      BY <1>0, <3>1, ListensOn DEF ListenerPcs
    <3> QED
      BY <1>0, <2>1, <3>2 DEF WaitTypes
  <2>3. CASE ListenerAt("count") /\ listener' = [listener EXCEPT !.pc = "counted", !.read = uiRepliesRecieved]
               /\ UNCHANGED pc
    BY <1>0, <2>1, <2>3 DEF WaitTypes, ListenerPcs, ListenerAt
  <2> QED
    BY <1>9, <2>2, <2>3 DEF ReplyReads
<1>10. CASE WriteCounter
  <2>1. UNCHANGED <<first, second, chain, posted, decided, toCommit, replies>>
    BY <1>10 DEF WriteCounter, pairVars, networkVars
  <2>2. PICK to \in {"idle", "append"} : Listens("counted", to)
    BY <1>10 DEF WriteCounter
  <2>3. /\ listener' \in [pc : ListenerPcs, block : Block \cup {Null}, read : Nat]
        /\ pc' = pc /\ (listener'.pc # "idle" => listener'.block \in Block)
    BY <1>0, <2>2, ListensOn DEF ListenerPcs
  <2>4. uiRepliesRecieved' \in Nat
    BY <1>0, <1>10 DEF WriteCounter
  <2> QED
    BY <1>0, <2>1, <2>3, <2>4 DEF WaitTypes
<1>11. CASE ReplyAdds /\ second # Null
  <2>1. UNCHANGED <<first, second, uiRepliesRecieved, posted, decided, toCommit, replies>>
    BY <1>11 DEF ReplyAdds, pairVars, networkVars
  <2>2. /\ listener' \in [pc : ListenerPcs, block : Block \cup {Null}, read : Nat]
        /\ pc' = pc /\ listener'.block \in Block
    BY <1>0, <1>11, ListensOn DEF ListenerPcs, ReplyAdds
  <2>3. chain' \in Seq(Block \cup {Genesis}) /\ Len(chain') >= 1
    BY <1>0, <1>1, <1>11 DEF ReplyAdds
  <2> QED
    BY <1>0, <2>1, <2>2, <2>3 DEF WaitTypes
<1>12. CASE ReplyClears
  <2>1. UNCHANGED <<second, uiRepliesRecieved, chain, posted, decided, toCommit, replies>> /\ first' = FALSE
    BY <1>12 DEF ReplyClears, networkVars
  <2>2. /\ listener' \in [pc : ListenerPcs, block : Block \cup {Null}, read : Nat]
        /\ pc' = pc /\ listener'.block \in Block
    BY <1>0, <1>12, ListensOn DEF ListenerPcs, ReplyClears
  <2> QED
    BY <1>0, <2>1, <2>2 DEF WaitTypes
<1>13. CASE ReplyResets
  <2>1. UNCHANGED <<first, second, chain, posted, decided, toCommit, replies>> /\ uiRepliesRecieved' = 0
    BY <1>13 DEF ReplyResets, pairVars, networkVars
  <2>2. /\ listener' \in [pc : ListenerPcs, block : Block \cup {Null}, read : Nat]
        /\ pc' = pc /\ listener'.pc = "idle"
    BY <1>0, <1>13, ListensOn DEF ListenerPcs, ReplyResets
  <2> QED
    BY <1>0, <2>1, <2>2 DEF WaitTypes
<1> QED
  BY <1>2, <1>3, <1>4, <1>5, <1>6, <1>7, <1>8, <1>9, <1>10, <1>11, <1>12, <1>13
     DEF Next, ListenMessages

\* Nothing is known of the block to wait for before it is set, step by step.
LEMMA NullStep ==
    ASSUME WaitTypes, NullUntilSet, Next
    PROVE  NullUntilSet' /\ (ReplyAdds => second # Null)
<1> USE ThreadAssumption
<1>0. second \in Thread \cup {Null} /\ second' \in Thread \cup {Null} /\ Null \notin Thread
  <2>1. second' \in Thread \cup {Null}
    BY DEF WaitTypes, Next, ListenMessages, AddNewBlock, Reads, SetFirst, SetSecond, ClearFlag,
           ResetReplies, PostRequest, Decide, TakeCommit, CommitReads, CommitAdds, CommitReplies,
           TakeReply, ReplyReads, WriteCounter, ReplyAdds, ReplyClears, ReplyResets,
           sharedVars, pairVars
  <2> QED
    BY <2>1 DEF WaitTypes, Block
<1>1. ReplyAdds => second # Null
  BY DEF NullUntilSet, ReplyAdds, Listens, ListenerAt
<1>2. SUFFICES ASSUME second' = Null PROVE NullUntilSet'
  BY <1>1 DEF NullUntilSet
<1>3. second = Null
  BY <1>0, <1>2
     DEF Next, ListenMessages, AddNewBlock, Reads, SetFirst, SetSecond, ClearFlag,
         ResetReplies, PostRequest, Decide, TakeCommit, CommitReads, CommitAdds, CommitReplies,
         TakeReply, ReplyReads, WriteCounter, ReplyAdds, ReplyClears, ReplyResets,
         sharedVars, pairVars
<1>4. /\ \A t \in Thread : /\ pc[t] \in {"none", "test", "first", "second", "done"}
                           /\ ~posted[t] /\ replies[t] = 0
      /\ listener.pc \in {"idle", "committed", "compare", "add", "reply"}
  BY <1>3 DEF NullUntilSet
<1>5. ASSUME NEW t \in Thread, AddNewBlock(t) PROVE NullUntilSet'
  <2>1. CASE Reads(t)
    <3>1. PICK from, to \in ThreadAt :
             /\ Goes(t, from, to)
             /\ \/ from = "test" /\ to = "done" /\ first
                \/ from = "test" /\ to = "first" /\ ~first
                \/ from = "lock" /\ to = "flag"
                \/ from = "flag" /\ to = "own" /\ first
                \/ from = "flag" /\ to = "done" /\ ~first
                \/ from = "own" /\ to = "last" /\ second = t
                \/ from = "own" /\ to = "done" /\ second # t
                \/ from = "last" /\ to = "clear" /\ chain[Len(chain)] = second
                \/ from = "last" /\ to = "post"
      BY <2>1, ReadsTo
    <3>2. /\ pc[t] = from /\ pc'[t] = to /\ listener' = listener
          /\ \A u \in Thread \ {t} : pc'[u] = pc[u]
      BY <3>1, GoesOn
    <3>3. to \in {"done", "first"}
      BY <1>4, <3>1, <3>2
    <3> QED
      BY <1>4, <2>1, <3>2, <3>3, ReadsTo DEF NullUntilSet
  <2>2. CASE SetFirst(t)
    <3>1. pc'[t] = "second" /\ listener' = listener /\ \A u \in Thread \ {t} : pc'[u] = pc[u]
      BY <2>2, GoesOn DEF SetFirst, ThreadAt
    <3> QED
      BY <1>4, <2>2, <3>1 DEF NullUntilSet, SetFirst, networkVars
  <2>3. CASE SetSecond(t)
    BY <1>0, <1>2, <2>3 DEF SetSecond
  <2>4. CASE ClearFlag(t) \/ ResetReplies(t) \/ PostRequest(t)
    BY <1>4, <2>4 DEF ClearFlag, ResetReplies, PostRequest, Goes
  <2> QED
    BY <1>5, <2>1, <2>2, <2>3, <2>4 DEF AddNewBlock
<1>6. ASSUME NEW b \in Block, Decide(b) PROVE NullUntilSet'
  <2>1. UNCHANGED <<pc, listener, posted>>
    BY <1>6 DEF Decide
  <2>2. PICK n \in 0..(N - 1) : Replied(b, n)
    BY <1>6 DEF Decide
  <2>3. n \in Nat
    BY <2>2
  <2> QED
    BY <1>4, <2>1, <2>2, <2>3, RepliesTyped DEF NullUntilSet
<1>7. CASE TakeCommit
  <2>1. /\ UNCHANGED <<pc, posted, replies>> /\ toCommit # <<>>
        /\ listener' = Idle \/ listener' = [Idle EXCEPT !.pc = "committed", !.block = Head(toCommit)]
    BY <1>7 DEF TakeCommit
  <2>2. listener'.pc \in {"idle", "committed"}
    <3>1. Head(toCommit) \in Block /\ "committed" \in ListenerPcs
      BY <2>1 DEF WaitTypes, ListenerPcs
    <3>2. CASE listener' = Idle
      BY <3>2 DEF Idle
    <3>3. CASE listener' = [Idle EXCEPT !.pc = "committed", !.block = Head(toCommit)]
      BY <3>1, <3>3, TookMessage
    <3> QED
      BY <2>1, <3>2, <3>3
  <2> QED
    BY <1>4, <2>1, <2>2 DEF NullUntilSet
<1>8. CASE CommitReads
  <2>1. PICK from, to \in {"committed", "compare", "add", "reply"} : Listens(from, to)
    BY <1>8 DEF CommitReads
  <2>2. listener'.pc = to /\ pc' = pc
    BY <2>1, ListensOn DEF ListenerPcs
  <2> QED
    BY <1>4, <1>8, <2>2 DEF NullUntilSet, CommitReads, networkVars
<1>9. CASE CommitAdds
  <2>1. listener'.pc = "reply" /\ pc' = pc
    BY <1>9, ListensOn DEF ListenerPcs, CommitAdds
  <2> QED
    BY <1>4, <1>9, <2>1 DEF NullUntilSet, CommitAdds, networkVars
<1>10. CASE CommitReplies
  <2>1. listener'.pc = "idle" /\ pc' = pc /\ posted' = posted
    BY <1>10, ListensOn DEF ListenerPcs, CommitReplies
  <2>2. PICK n \in 0..1 : Replied(listener.block, n)
    BY <1>10 DEF CommitReplies
  <2> QED
    BY <1>4, <2>1, <2>2, RepliesTyped DEF NullUntilSet
<1>11. ASSUME NEW t \in Thread, TakeReply(t) PROVE NullUntilSet'
  BY <1>4, <1>11 DEF TakeReply
<1>12. CASE ReplyReads \/ WriteCounter \/ ReplyAdds \/ ReplyClears \/ ReplyResets
  BY <1>4, <1>12 DEF ReplyReads, WriteCounter, ReplyAdds, ReplyClears, ReplyResets, Listens, ListenerAt
<1> QED
  BY <1>5, <1>6, <1>7, <1>8, <1>9, <1>10, <1>11, <1>12 DEF Next, ListenMessages

\* The owner of the block that is waited for goes on, step by step.
LEMMA OwnerStep ==
    ASSUME WaitTypes, OwnerGoesOn, Next, ReplyAdds => second # Null
    PROVE  OwnerGoesOn'
<1>0. pc \in [Thread -> ThreadAt] /\ second \in Thread \cup {Null}
  BY DEF WaitTypes
<1>1. ASSUME NEW t \in Thread, AddNewBlock(t) PROVE OwnerGoesOn'
  <2>1. CASE Reads(t)
    <3>1. PICK from, to \in ThreadAt :
             /\ Goes(t, from, to)
             /\ \/ from = "test" /\ to = "done" /\ first
                \/ from = "test" /\ to = "first" /\ ~first
                \/ from = "lock" /\ to = "flag"
                \/ from = "flag" /\ to = "own" /\ first
                \/ from = "flag" /\ to = "done" /\ ~first
                \/ from = "own" /\ to = "last" /\ second = t
                \/ from = "own" /\ to = "done" /\ second # t
                \/ from = "last" /\ to = "clear" /\ chain[Len(chain)] = second
                \/ from = "last" /\ to = "post"
      BY <2>1, ReadsTo
    <3>2. /\ pc[t] = from /\ pc'[t] = to /\ \A u \in Thread \ {t} : pc'[u] = pc[u]
          /\ first' = first /\ second' = second
      BY <2>1, <3>1, GoesOn, ReadsTo
    <3>3. from # "second"
      BY <3>1
    <3>4. first /\ second = t /\ from \in {"lock", "flag", "own", "last", "clear", "post"}
             => to \in {"lock", "flag", "own", "last", "clear", "post"}
      BY <3>1
    <3>5. \A u \in Thread : pc[u] = "second" => pc'[u] = "second"
      BY <3>2, <3>3
    <3> QED
      BY <3>2, <3>4, <3>5 DEF OwnerGoesOn
  <2>2. CASE SetFirst(t)
    <3>1. pc'[t] = "second"
      BY <2>2, GoesOn DEF SetFirst, ThreadAt
    <3> QED
      BY <3>1 DEF OwnerGoesOn
  <2>3. CASE SetSecond(t)
    <3>1. pc'[t] = "lock" /\ second' = t
      BY <2>3, GoesOn DEF SetSecond, ThreadAt
    <3> QED
      BY <3>1 DEF OwnerGoesOn
  <2>4. CASE ClearFlag(t)
    BY <2>4 DEF OwnerGoesOn, ClearFlag
  <2>5. CASE ResetReplies(t)
    <3>1. pc[t] = "reset" /\ \A u \in Thread \ {t} : pc'[u] = pc[u]
      BY <2>5, GoesOn DEF ResetReplies, ThreadAt
    <3>2. first' = first /\ second' = second
      BY <2>5 DEF ResetReplies, pairVars
    <3>3. \A u \in Thread : pc[u] # "reset" => pc'[u] = pc[u]
      BY <3>1
    <3> QED
      BY <3>2, <3>3 DEF OwnerGoesOn
  <2>6. CASE PostRequest(t)
    <3>1. pc[t] = "post" /\ pc'[t] = "flag" /\ \A u \in Thread \ {t} : pc'[u] = pc[u]
      BY <2>6, GoesOn DEF PostRequest, ThreadAt
    <3>2. first' = first /\ second' = second
      BY <2>6 DEF PostRequest, sharedVars, pairVars
    <3> QED
      BY <3>1, <3>2 DEF OwnerGoesOn
  <2> QED
    BY <1>1, <2>1, <2>2, <2>3, <2>4, <2>5, <2>6 DEF AddNewBlock
<1>2. (\E b \in Block : Decide(b)) \/ ListenMessages =>
         pc' = pc /\ second' = second /\ (first' = first \/ first' = FALSE)
  BY DEF ListenMessages, Decide, TakeCommit, CommitReads, CommitAdds, CommitReplies, TakeReply,
         ReplyReads, WriteCounter, ReplyAdds, ReplyClears, ReplyResets, Listens,
         sharedVars, pairVars, networkVars
<1>3. (\E b \in Block : Decide(b)) \/ ListenMessages => OwnerGoesOn'
  BY <1>2 DEF OwnerGoesOn
<1> QED
  BY <1>1, <1>3 DEF Next

\* What is in the chain stays there.
LEMMA ChainStep ==
    ASSUME WaitTypes, Next
    PROVE  /\ \A t \in Thread : InChain(t) => InChain(t)'
           /\ chain' = chain \/ \E b : chain' = Append(chain, b)
<1>1. chain' = chain \/ \E b : chain' = Append(chain, b)
  BY DEF Next, ListenMessages, AddNewBlock, Reads, SetFirst, SetSecond, ClearFlag,
         ResetReplies, PostRequest, Decide, TakeCommit, CommitReads, CommitAdds, CommitReplies,
         TakeReply, ReplyReads, WriteCounter, ReplyAdds, ReplyClears, ReplyResets,
         sharedVars, pairVars
<1>2. ASSUME NEW b, chain' = Append(chain, b), NEW t \in Thread, InChain(t) PROVE InChain(t)'
  <2>1. PICK k \in 1..Len(chain) : chain[k] = t
    BY <1>2 DEF InChain
  <2>2. Len(chain) \in Nat /\ Len(chain') = Len(chain) + 1 /\ chain'[k] = chain[k]
    BY <1>2, <2>1 DEF WaitTypes
  <2>3. k \in 1..Len(chain')
    BY <2>1, <2>2
  <2> QED
    BY <2>1, <2>2, <2>3 DEF InChain
<1>3. ASSUME chain' = chain, NEW t \in Thread, InChain(t) PROVE InChain(t)'
  BY <1>3 DEF InChain
<1> QED
  BY <1>1, <1>2, <1>3

\* The only thread that was started, step by step.
LEMMA AloneStep ==
    ASSUME WaitTypes, NullUntilSet, Next, NEW t \in Thread, AloneInLoop(t)
    PROVE  AloneInLoop(t)'
<1> USE ThreadAssumption
<1>0. /\ pc \in [Thread -> ThreadAt] /\ second \in Thread \cup {Null} /\ Null \notin Thread
      /\ Len(chain) \in Nat /\ Len(chain) >= 1
  BY DEF WaitTypes
<1> SUFFICES ASSUME \A u \in Thread \ {t} : pc'[u] = "none"
             PROVE  AloneInLoop(t)'
  BY DEF AloneInLoop
<1>1. InChain(t) => InChain(t)'
  BY ChainStep
<1>2. ASSUME NEW u \in Thread, AddNewBlock(u) PROVE AloneInLoop(t)'
  <2>1. PICK from, to \in ThreadAt : Goes(u, from, to) /\ to # "none" /\ from # "none"
    <3>1. Reads(u) => \E from, to \in ThreadAt : Goes(u, from, to) /\ to # "none" /\ from # "none"
      BY ReadsTo
    <3> QED
      BY <1>2, <3>1 DEF AddNewBlock, SetFirst, SetSecond, ClearFlag, ResetReplies, PostRequest, ThreadAt
  <2>2. pc[u] = from /\ pc'[u] = to /\ listener' = listener /\ \A v \in Thread \ {u} : pc'[v] = pc[v]
    BY <2>1, GoesOn
  <2>3. u = t /\ \A v \in Thread \ {t} : pc[v] = "none"
    BY <2>1, <2>2
  <2>4. /\ second \in {Null, t}
        /\ pc[t] \in {"none", "test", "first"} => ~first /\ second = Null
        /\ pc[t] = "second" => first /\ second = Null
        /\ pc[t] \in {"lock", "flag", "own", "last", "post"} => first \/ InChain(t)
        /\ pc[t] \in {"clear", "reset"} => InChain(t)
        /\ pc[t] = "done" /\ second = t => InChain(t)
        /\ listener.pc = "clear" => InChain(t)
    BY <2>3 DEF AloneInLoop
  <2>5. second = Null => pc[t] \in {"none", "test", "first", "second", "done"}
    BY DEF NullUntilSet
  <2>6. CASE Reads(t)
    <3>1. PICK a, b \in ThreadAt :
             /\ Goes(t, a, b)
             /\ \/ a = "test" /\ b = "done" /\ first
                \/ a = "test" /\ b = "first" /\ ~first
                \/ a = "lock" /\ b = "flag"
                \/ a = "flag" /\ b = "own" /\ first
                \/ a = "flag" /\ b = "done" /\ ~first
                \/ a = "own" /\ b = "last" /\ second = t
                \/ a = "own" /\ b = "done" /\ second # t
                \/ a = "last" /\ b = "clear" /\ chain[Len(chain)] = second
                \/ a = "last" /\ b = "post"
      BY <2>6, ReadsTo
    <3>2. /\ pc[t] = a /\ pc'[t] = b /\ listener' = listener
          /\ first' = first /\ second' = second /\ chain' = chain
      BY <2>6, <3>1, GoesOn, ReadsTo
    <3>3. chain[Len(chain)] = t => InChain(t)
      BY <1>0 DEF InChain
    <3>4. /\ a = "last" /\ b = "clear" => InChain(t)
          /\ b \notin {"second", "reset", "none", "test"}
          /\ b = "first" => ~first /\ second = Null
          /\ b \in {"flag", "own", "last", "post"} => first \/ InChain(t)
          /\ b = "done" /\ second = t => InChain(t)
      BY <2>4, <2>5, <3>1, <3>2, <3>3
    <3> QED
      BY <1>1, <2>4, <3>1, <3>2, <3>4 DEF AloneInLoop
  <2>7. CASE SetFirst(t)
    <3>1. pc[t] = "first" /\ pc'[t] = "second" /\ listener' = listener
      BY <2>7, GoesOn DEF SetFirst, ThreadAt
    <3> QED
      BY <1>1, <2>4, <2>7, <3>1 DEF AloneInLoop, SetFirst
  <2>8. CASE SetSecond(t)
    <3>1. pc[t] = "second" /\ pc'[t] = "lock" /\ second' = t /\ first' = first /\ listener' = listener
      BY <2>8, GoesOn DEF SetSecond, ThreadAt
    <3>2. first
      BY <2>4, <3>1
    <3> QED
      BY <1>1, <2>4, <3>1, <3>2 DEF AloneInLoop
  <2>9. CASE ClearFlag(t)
    <3>1. pc[t] = "clear" /\ pc'[t] = "reset" /\ second' = second /\ listener' = listener
      BY <2>9, GoesOn DEF ClearFlag, ThreadAt
    <3> QED
      BY <1>1, <2>4, <3>1 DEF AloneInLoop
  <2>10. CASE ResetReplies(t)
    <3>1. pc[t] = "reset" /\ pc'[t] = "done" /\ listener' = listener
      BY <2>10, GoesOn DEF ResetReplies, ThreadAt
    <3> QED
      BY <1>1, <2>4, <2>10, <3>1 DEF AloneInLoop, ResetReplies, pairVars
  <2>11. CASE PostRequest(t)
    <3>1. pc[t] = "post" /\ pc'[t] = "flag" /\ listener' = listener
      BY <2>11, GoesOn DEF PostRequest, ThreadAt
    <3> QED
      BY <1>1, <2>4, <2>11, <3>1 DEF AloneInLoop, PostRequest, sharedVars, pairVars
  <2>12. AddNewBlock(t)
    BY <1>2, <2>3
  <2> QED
    BY <2>12, <2>6, <2>7, <2>8, <2>9, <2>10, <2>11 DEF AddNewBlock
<1>3. ASSUME pc' = pc
      PROVE  /\ \A u \in Thread \ {t} : pc[u] = "none"
             /\ second \in {Null, t}
             /\ pc[t] \in {"none", "test", "first"} => ~first /\ second = Null
             /\ pc[t] = "second" => first /\ second = Null
             /\ pc[t] \in {"lock", "flag", "own", "last", "post"} => first \/ InChain(t)
             /\ pc[t] \in {"clear", "reset"} => InChain(t)
             /\ pc[t] = "done" /\ second = t => InChain(t)
             /\ listener.pc = "clear" => InChain(t)
  BY <1>3 DEF AloneInLoop
<1>4. ASSUME pc' = pc, first' = first, second' = second, listener'.pc # "clear"
      PROVE  AloneInLoop(t)'
  BY <1>1, <1>3, <1>4 DEF AloneInLoop
<1>5. ASSUME NEW b \in Block, Decide(b) PROVE AloneInLoop(t)'
  BY <1>1, <1>3, <1>5 DEF AloneInLoop, Decide, sharedVars, pairVars
<1>6. CASE TakeCommit
  <2>1. /\ pc' = pc /\ first' = first /\ second' = second
        /\ listener' = Idle \/ listener' = [Idle EXCEPT !.pc = "committed", !.block = Head(toCommit)]
    BY <1>6 DEF TakeCommit, sharedVars, pairVars
  <2>2. listener'.pc # "clear"
    <3>1. Head(toCommit) \in Block /\ "committed" \in ListenerPcs
      BY <1>6 DEF TakeCommit, WaitTypes, ListenerPcs
    <3>2. CASE listener' = Idle
      BY <3>2 DEF Idle
    <3>3. CASE listener' = [Idle EXCEPT !.pc = "committed", !.block = Head(toCommit)]
      BY <3>1, <3>3, TookMessage
    <3> QED
      BY <2>1, <3>2, <3>3
  <2> QED
    BY <1>4, <2>1, <2>2
<1>7. CASE CommitReads
  <2>1. PICK from, to \in {"committed", "compare", "add", "reply"} : Listens(from, to)
    BY <1>7 DEF CommitReads
  <2>2. listener'.pc = to /\ pc' = pc
    BY <2>1, ListensOn DEF ListenerPcs
  <2> QED
    BY <1>4, <1>7, <2>2 DEF CommitReads, sharedVars, pairVars
<1>8. CASE CommitAdds
  <2>1. listener'.pc = "reply" /\ pc' = pc
    BY <1>8, ListensOn DEF ListenerPcs, CommitAdds
  <2> QED
    BY <1>4, <1>8, <2>1 DEF CommitAdds, pairVars
<1>9. CASE CommitReplies
  <2>1. listener'.pc = "idle" /\ pc' = pc
    BY <1>9, ListensOn DEF ListenerPcs, CommitReplies
  <2> QED
    BY <1>4, <1>9, <2>1 DEF CommitReplies, sharedVars, pairVars
<1>10. ASSUME NEW u \in Thread, TakeReply(u) PROVE AloneInLoop(t)'
  <2>1. /\ pc' = pc /\ first' = first /\ second' = second
        /\ listener' = Idle \/ listener' = [Idle EXCEPT !.pc = "right", !.block = u]
    BY <1>10 DEF TakeReply, sharedVars, pairVars
  <2>2. listener'.pc # "clear"
    <3>1. u \in Block /\ "right" \in ListenerPcs
      BY DEF Block, ListenerPcs
    <3>2. CASE listener' = Idle
      BY <3>2 DEF Idle
    <3>3. CASE listener' = [Idle EXCEPT !.pc = "right", !.block = u]
      BY <3>1, <3>3, TookMessage
    <3> QED
      BY <2>1, <3>2, <3>3
  <2> QED
    BY <1>4, <2>1, <2>2
<1>11. CASE ReplyReads
  <2>1. pc' = pc /\ first' = first /\ second' = second
    BY <1>11 DEF ReplyReads, Listens, sharedVars, pairVars
  <2>2. listener'.pc # "clear"
    <3>1. CASE Listens("right", IF second = listener.block THEN "count" ELSE "idle")
      <4>1. PICK to \in {"count", "idle"} : Listens("right", to)
        BY <3>1
      <4> QED
        BY <4>1, ListensOn DEF ListenerPcs
    <3>2. CASE listener' = [listener EXCEPT !.pc = "counted", !.read = uiRepliesRecieved]
      BY <3>2 DEF WaitTypes
    <3> QED
      BY <1>11, <3>1, <3>2 DEF ReplyReads
  <2> QED
    BY <1>4, <2>1, <2>2
<1>12. CASE WriteCounter
  <2>1. PICK to \in {"idle", "append"} : Listens("counted", to)
    BY <1>12 DEF WriteCounter
  <2>2. listener'.pc = to /\ pc' = pc
    BY <2>1, ListensOn DEF ListenerPcs
  <2> QED
    BY <1>4, <1>12, <2>2 DEF WriteCounter, pairVars
<1>13. CASE ReplyAdds
  <2>1. /\ listener.pc = "append" /\ listener'.pc = "clear" /\ pc' = pc
        /\ first' = first /\ second' = second /\ chain' = Append(chain, second)
    BY <1>13, ListensOn DEF ListenerPcs, ReplyAdds, pairVars
  <2>2. second = t
    BY <1>0, <1>3, <2>1 DEF NullUntilSet
  <2>3. InChain(t)'
    <3>1. chain' = Append(chain, t) /\ Len(chain') = Len(chain) + 1 /\ chain'[Len(chain) + 1] = t
      BY <2>1, <2>2 DEF WaitTypes
    <3>2. Len(chain) + 1 \in 1..Len(chain')
      BY <1>0, <3>1
    <3> QED
      BY <3>1, <3>2 DEF InChain
  <2> QED
    BY <1>3, <2>1, <2>3 DEF AloneInLoop
<1>14. CASE ReplyClears
  <2>1. listener.pc = "clear" /\ listener'.pc = "reset" /\ pc' = pc /\ first' = FALSE /\ second' = second
    BY <1>14, ListensOn DEF ListenerPcs, ReplyClears
  <2>2. InChain(t) /\ second # Null
    BY <1>3, <2>1 DEF NullUntilSet
  <2> QED
    BY <1>1, <1>3, <2>1, <2>2 DEF AloneInLoop
<1>15. CASE ReplyResets
  <2>1. listener'.pc = "idle" /\ pc' = pc
    BY <1>15, ListensOn DEF ListenerPcs, ReplyResets
  <2> QED
    BY <1>4, <1>15, <2>1 DEF ReplyResets, pairVars
<1> QED
  BY <1>2, <1>5, <1>6, <1>7, <1>8, <1>9, <1>10, <1>11, <1>12, <1>13, <1>14, <1>15
     DEF Next, ListenMessages

\* The invariant of a node as a client.
THEOREM WaitInvariant == Spec => []WaitInv
<1> USE ThreadAssumption
<1>1. Init => WaitInv
  <2> SUFFICES ASSUME Init PROVE WaitInv
    OBVIOUS
  <2>1. WaitTypes
    <3>1. chain \in Seq(Block \cup {Genesis}) /\ Len(chain) >= 1
      BY DEF Init
    <3>2. pc \in [Thread -> ThreadAt]
      BY DEF Init, ThreadAt
    <3>3. listener \in [pc : ListenerPcs, block : Block \cup {Null}, read : Nat] /\ listener.pc = "idle"
      BY DEF Init, Idle, ListenerPcs
    <3> QED
      BY <3>1, <3>2, <3>3, EmptySeq DEF Init, WaitTypes
  <2>2. NullUntilSet
    BY DEF Init, NullUntilSet, Idle
  <2>3. OwnerGoesOn
    BY DEF Init, OwnerGoesOn
  <2>4. \A t \in Thread : AloneInLoop(t)
    BY DEF Init, AloneInLoop, Idle
  <2> QED
    BY <2>1, <2>2, <2>3, <2>4 DEF WaitInv
<1>2. WaitInv /\ [Next]_vars => WaitInv'
  <2> SUFFICES ASSUME WaitInv, [Next]_vars PROVE WaitInv'
    OBVIOUS
  <2>1. WaitTypes /\ NullUntilSet /\ OwnerGoesOn /\ \A t \in Thread : AloneInLoop(t)
    BY DEF WaitInv
  <2>2. CASE Next
    BY <2>1, <2>2, NullStep, TypesStep, OwnerStep, AloneStep DEF WaitInv
  <2>3. CASE UNCHANGED vars
    <3>1. /\ UNCHANGED <<first, second, uiRepliesRecieved, chain, pc, listener>>
          /\ UNCHANGED <<posted, decided, toCommit, replies>>
      BY <2>3 DEF vars, sharedVars, pairVars, networkVars
    <3> QED
      BY <2>1, <3>1 DEF WaitInv, WaitTypes, NullUntilSet, OwnerGoesOn, AloneInLoop, InChain
  <2> QED
    BY <2>2, <2>3
<1> QED
  BY <1>1, <1>2, PTL DEF Spec

\* The REPLY handler finds a block where it looks for one (PBFTNode.cpp:256, 263).
THEOREM RepliesSeeBlocks == Spec => []ReplySeesBlock
<1>1. WaitInv => ReplySeesBlock
  BY DEF WaitInv, NullUntilSet, ReplySeesBlock
<1> QED
  BY <1>1, WaitInvariant, PTL

\* A node that waits has a thread that goes on about it, whatever threads overtake
\* one another (PBFTNode.cpp:456, 502, 513).
THEOREM WaitingNodesHaveThreads == Spec => []WaitingHasThread
<1>1. WaitInv => WaitingHasThread
  BY DEF WaitInv, OwnerGoesOn, WaitingHasThread, Holding
<1> QED
  BY <1>1, WaitInvariant, PTL

\* A block that is given up, with no other to wait for, is in the chain
\* (PBFTNode.cpp:516, 524).
THEOREM BlocksGivenUpAdded == Spec => []GivesUpOnlyAdded
<1>1. WaitInv => GivesUpOnlyAdded
  BY DEF WaitInv, AloneInLoop, GivesUpOnlyAdded, InChain
<1> QED
  BY <1>1, WaitInvariant, PTL

=============================================================================
