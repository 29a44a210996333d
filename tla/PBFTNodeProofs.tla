--------------------------- MODULE PBFTNodeProofs ---------------------------
(***************************************************************************)
(* Theorems about PBFTNode, for any number of nodes, any block and buffer  *)
(* size and whatever the bounds.                                           *)
(***************************************************************************)
EXTENDS PBFTNode, SequenceTheorems, FiniteSetTheorems, TLAPS

Queues == [Node -> Seq(Message)]

-----------------------------------------------------------------------------
(* Messages and queues *)

\* The messages the nodes make are messages.
LEMMA MessageTypes ==
    /\ \A t \in Tx : CommonMsg(t) \in Message
    /\ \A r \in Request : RequestMsg(r) \in Message
    /\ \A n \in Nat, r \in Request : PrePrepareMsg(n, r) \in Message
    /\ \A i \in Node, n \in Nat, r \in Request :
          /\ PrepareMsg(i, n, r) \in Message
          /\ CommitMsg(i, n, r) \in Message
          /\ ReplyMsg(i, r) \in Message
  BY DEF Message, Request, CommonMsg, RequestMsg, PrePrepareMsg, PrepareMsg, CommitMsg,
         ReplyMsg

\* The type of a message tells which fields it has.
LEMMA MessageFields ==
    ASSUME NEW m \in Message
    PROVE  /\ m.type = "COMMON_MESSAGE" => m.tx \in Tx
           /\ m.type = "REQUEST" => m.request \in Request
           /\ m.type = "PREPREPARE" => m.n \in Nat /\ m.request \in Request
           /\ m.type \in {"PREPARE", "COMMIT"} =>
                 m.nodeId \in Node /\ m.n \in Nat /\ m.digest \in Request
           /\ m.type = "REPLY" => m.nodeId \in Node /\ m.dest \in Node /\ m.block \in Block
  BY DEF Message

\* Posting keeps queues queues.
LEMMA PostDataType ==
    ASSUME NEW queues \in Queues, NEW m \in Message
    PROVE  PostData(queues, m) \in Queues
  BY DEF Queues, PostData

\* So does taking a message, which is one.
LEMMA GetDataType ==
    ASSUME dataQueue \in Queues, NEW i \in Node, dataQueue[i] # <<>>
    PROVE  GetData(i) \in Queues /\ Head(dataQueue[i]) \in Message
  BY DEF Queues, GetData

\* What LogWith makes of well-formed logs is well-formed logs.
LEMMA LogWithType ==
    ASSUME LogType, NEW i \in Node, NEW n \in Nat, NEW e \in LogEntry,
           requestLog' = LogWith(i, n, e)
    PROVE  LogType'
  BY DEF LogWith, LogType

\* What the handlers do to an entry leaves it one.
LEMMA LogEntryUpdates ==
    ASSUME NEW e \in LogEntry
    PROVE  /\ e.request \in Request /\ e.request.block \in Block
           /\ [e EXCEPT !.prepares = e.prepares + 1] \in LogEntry
           /\ [e EXCEPT !.prepares = e.prepares + 1, !.bPrepared = TRUE] \in LogEntry
           /\ [e EXCEPT !.commits = e.commits + 1] \in LogEntry
<1>1. e.request \in Request /\ e.request.block \in Block
  BY DEF LogEntry, Request
<1>2. [e EXCEPT !.prepares = e.prepares + 1] \in LogEntry
  BY DEF LogEntry
<1>3. [[e EXCEPT !.prepares = e.prepares + 1] EXCEPT !.bPrepared = TRUE] \in LogEntry
  BY <1>2 DEF LogEntry
<1>4. [e EXCEPT !.commits = e.commits + 1] \in LogEntry
  BY DEF LogEntry
<1> QED
  BY <1>1, <1>2, <1>3, <1>4

-----------------------------------------------------------------------------
(* Blocks *)

\* How many transactions of a pool are before t.
Before(p, t) == Cardinality({u \in p : u < t})

\* The transactions of a pool have different numbers of transactions before them,
\* all less than the pool's size.
LEMMA BeforeInjective ==
    ASSUME NEW p \in SUBSET Tx, IsFiniteSet(p)
    PROVE  /\ \A t \in p : Before(p, t) \in Nat /\ Before(p, t) < Cardinality(p)
           /\ \A t, u \in p : Before(p, t) = Before(p, u) => t = u
<1>1. p \subseteq Nat
  BY DEF Tx
<1>2. ASSUME NEW t \in p
      PROVE  Before(p, t) \in Nat /\ Before(p, t) < Cardinality(p)
  <2> DEFINE S == {u \in p : u < t}
  <2>1. S \subseteq p /\ S # p
    BY <1>1
  <2>2. Cardinality(S) \in Nat /\ Cardinality(p) \in Nat
    BY <2>1, FS_Subset, FS_CardinalityType
  <2>3. Cardinality(S) <= Cardinality(p) /\ Cardinality(S) # Cardinality(p)
    BY <2>1, FS_Subset
  <2> HIDE DEF S
  <2>4. Cardinality(S) < Cardinality(p)
    BY <2>2, <2>3
  <2> QED
    BY <2>2, <2>4 DEF Before, S
<1>3. ASSUME NEW t \in p, NEW u \in p, t < u
      PROVE  Before(p, t) # Before(p, u)
  <2> DEFINE S == {v \in p : v < t}
             T == {v \in p : v < u}
  <2>0. \A v \in p : v \in Nat
    BY <1>1
  <2>1. S \subseteq T /\ S # T
    <3>1. t \in T /\ t \notin S
      BY <1>3, <2>0
    <3>2. \A v \in p : v < t => v < u
      BY <1>3, <2>0
    <3>3. S \subseteq T
      BY <3>2
    <3> QED
      BY <3>1, <3>3
  <2>2. IsFiniteSet(T)
    BY FS_Subset
  <2>3. Cardinality(S) # Cardinality(T)
    BY <2>1, <2>2, FS_Subset
  <2> QED
    BY <2>3 DEF Before
<1>4. \A t, u \in p : Before(p, t) = Before(p, u) => t = u
  BY <1>1, <1>3
<1> QED
  BY <1>2, <1>4

\* A pool with BLOCK_SIZE transactions or more gives a whole block (l.459-471).
LEMMA ChunkWhole ==
    ASSUME NEW p \in SUBSET Tx, Cardinality(p) >= BLOCK_SIZE
    PROVE  Chunk(p) \in Block
<1>1. IsFiniteSet(p) /\ Cardinality(p) \in Nat
  <2>1. IsFiniteSet(Tx)
    BY SizeAssumption, FS_Interval DEF Tx
  <2> QED
    BY <2>1, FS_Subset, FS_CardinalityType
<1> DEFINE n == Cardinality(p)
           f == [t \in p |-> Before(p, t)]
           g == [t \in Chunk(p) |-> Before(p, t)]
<1>2. BLOCK_SIZE \in Nat /\ n \in Nat /\ BLOCK_SIZE <= n
  BY <1>1, SizeAssumption
<1>3. /\ \A t \in p : Before(p, t) \in Nat /\ Before(p, t) < n
      /\ \A t, u \in p : Before(p, t) = Before(p, u) => t = u
  BY <1>1, BeforeInjective
<1>4. /\ \A k \in Nat : IsFiniteSet(0..(k - 1)) /\ Cardinality(0..(k - 1)) = k
  BY FS_Interval
<1>5. Chunk(p) = {t \in p : Before(p, t) < BLOCK_SIZE}
  BY DEF Chunk, Before
<1> HIDE DEF n
<1>6. f \in Surjection(p, 0..(n - 1))
  <2>1. f \in Injection(p, 0..(n - 1))
    BY <1>2, <1>3 DEF Injection, IsInjective
  <2>2. Cardinality(p) = Cardinality(0..(n - 1))
    BY <1>2, <1>4 DEF n
  <2> HIDE DEF f
  <2> QED
    BY <1>2, <1>4, <2>1, <2>2, FS_Injection
<1>7. \A k \in 0..(BLOCK_SIZE - 1) : \E t \in p : Before(p, t) = k
  <2>1. \A k \in 0..(n - 1) : \E t \in p : f[t] = k
    BY <1>6 DEF Surjection
  <2>2. \A t \in p : f[t] = Before(p, t)
    OBVIOUS
  <2>3. \A k \in 0..(BLOCK_SIZE - 1) : k \in 0..(n - 1)
    BY <1>2
  <2> HIDE DEF f
  <2> QED
    BY <2>1, <2>2, <2>3
<1>8. g \in Injection(Chunk(p), 0..(BLOCK_SIZE - 1))
  BY <1>2, <1>3, <1>5 DEF Injection, IsInjective
<1>9. g \in Surjection(Chunk(p), 0..(BLOCK_SIZE - 1))
  <2>1. \A k \in 0..(BLOCK_SIZE - 1) : \E t \in Chunk(p) : g[t] = k
    BY <1>2, <1>5, <1>7
  <2> QED
    BY <1>8, <2>1 DEF Surjection, Injection
<1> HIDE DEF g
<1>10. Cardinality(Chunk(p)) = BLOCK_SIZE
  BY <1>2, <1>4, <1>8, <1>9, FS_Injection
<1>11. Chunk(p) \in SUBSET Tx
  BY <1>5
<1> QED
  BY <1>10, <1>11 DEF Block

-----------------------------------------------------------------------------
(* Values of the node's variables *)

\* A block is not NoBlock; the initial values have their types.
LEMMA InitialTypes ==
    /\ NoBlock \notin Block
    /\ NoResender \in Resender
    /\ Pair(FALSE, NoBlock) \in WaitingPair
    /\ NotReplying \in ReplyHandler
  BY FS_EmptySet, SizeAssumption
     DEF NoResender, Resender, Pair, NoBlock, Block, WaitingPair, NotReplying, ReplyHandler

\* The values the steps give have their types.
LEMMA NewValueTypes ==
    ASSUME NEW b \in Block
    PROVE  /\ \A pc \in {"loop", "committed", "post"}, n \in Nat : Resending(b, pc, n) \in Resender
           /\ \A flag \in BOOLEAN : Pair(flag, b) \in WaitingPair
           /\ \A pc \in {"compare", "count", "add", "clear"} : Replying(pc, b) \in ReplyHandler
<1>1. \A pc \in {"loop", "committed", "post"}, n \in Nat : Resending(b, pc, n) \in Resender
  BY DEF Resender, Resending
<1>2. \A flag \in BOOLEAN : Pair(flag, b) \in WaitingPair
  BY DEF Pair, WaitingPair
<1>3. \A pc \in {"compare", "count", "add", "clear"} : Replying(pc, b) \in ReplyHandler
  BY DEF Replying, ReplyHandler
<1> QED
  BY <1>1, <1>2, <1>3

\* A thread with the resender mutex, and a listener in a REPLY handler, have a block;
\* a node that waits waits for one.
LEMMA ValueTypes ==
    /\ \A r \in Resender : r.pc # "none" => r.block \in Block /\ r.posts \in Nat
    /\ \A w \in WaitingPair : /\ w.first \in BOOLEAN /\ w.second \in Block \cup {NoBlock}
                              /\ w.first => w.second \in Block /\ w = Pair(TRUE, w.second)
                              /\ [w EXCEPT !.first = FALSE] \in WaitingPair
                              /\ [w EXCEPT !.first = FALSE].second = w.second
    /\ \A r \in ReplyHandler : r # NotReplying => r.block \in Block /\ r.pc # "none"
    /\ NotReplying.pc = "none"
<1>1. \A r \in Resender : r.pc # "none" => r.block \in Block /\ r.posts \in Nat
  BY DEF Resender, NoResender, Resending
<1>2. ASSUME NEW w \in WaitingPair
      PROVE  /\ w.first \in BOOLEAN /\ w.second \in Block \cup {NoBlock}
             /\ w.first => w.second \in Block /\ w = Pair(TRUE, w.second)
             /\ [w EXCEPT !.first = FALSE] \in WaitingPair
             /\ [w EXCEPT !.first = FALSE].second = w.second
  <2>1. CASE w = Pair(FALSE, NoBlock)
    <3>1. w = [first |-> FALSE, second |-> NoBlock]
      BY <2>1 DEF Pair
    <3>2. w.first = FALSE /\ w.second = NoBlock
      BY <3>1
    <3>3. /\ [w EXCEPT !.first = FALSE] = Pair(FALSE, NoBlock)
          /\ [w EXCEPT !.first = FALSE].second = NoBlock
      <4>1. /\ [w EXCEPT !.first = FALSE].first = FALSE
            /\ [w EXCEPT !.first = FALSE].second = NoBlock
        BY <3>1
      <4>2. \A v \in [first : BOOLEAN, second : {NoBlock}] :
               v.first = FALSE => v = [first |-> FALSE, second |-> NoBlock]
        OBVIOUS
      <4>3. [w EXCEPT !.first = FALSE] \in [first : BOOLEAN, second : {NoBlock}]
        BY <3>1
      <4> QED
        BY <4>1, <4>2, <4>3 DEF Pair
    <3>4. [w EXCEPT !.first = FALSE] \in WaitingPair
      BY <3>3 DEF WaitingPair
    <3> QED
      BY <3>2, <3>3, <3>4
  <2>2. CASE w \in [first : BOOLEAN, second : Block]
    <3>1. /\ w.first \in BOOLEAN /\ w.second \in Block
          /\ w = [first |-> w.first, second |-> w.second]
          /\ [w EXCEPT !.first = FALSE].second = w.second
      BY <2>2
    <3>2. [w EXCEPT !.first = FALSE] \in [first : BOOLEAN, second : Block]
      BY <2>2
    <3>3. w.first => w = Pair(TRUE, w.second)
      <4>1. w.first => w.first = TRUE
        BY <3>1
      <4> QED
        BY <3>1, <4>1 DEF Pair
    <3> QED
      BY <3>1, <3>2, <3>3 DEF WaitingPair
  <2> QED
    BY <2>1, <2>2 DEF WaitingPair
<1>3. ASSUME NEW r \in ReplyHandler, r # NotReplying
      PROVE  r.block \in Block /\ r.pc # "none"
  <2>1. r \in [pc : {"compare", "count", "add", "clear"}, block : Block]
    BY <1>3 DEF ReplyHandler
  <2>2. r.block \in Block /\ r.pc \in {"compare", "count", "add", "clear"}
    BY <2>1
  <2> QED
    BY <2>2
<1>4. NotReplying.pc = "none"
  BY DEF NotReplying, Replying
<1> QED
  BY <1>1, <1>2, <1>3, <1>4

\* A group of variables keeps its type if nothing changes in it.
LEMMA UnchangedTypes ==
    /\ NetType /\ UNCHANGED netVars => NetType'
    /\ LogType /\ UNCHANGED requestLog => LogType'
    /\ LogType /\ RoundType /\ UNCHANGED roundVars => LogType' /\ RoundType'
    /\ ClientType /\ UNCHANGED clientVars => ClientType'
    /\ DataType /\ UNCHANGED dataVars => DataType'
    /\ ThreadType /\ UNCHANGED threadVars => ThreadType'
    /\ StopType /\ UNCHANGED stopVars => StopType'
<1>1. NetType /\ UNCHANGED netVars => NetType'
  BY DEF NetType, netVars
<1>2. LogType /\ UNCHANGED requestLog => LogType'
  BY DEF LogType
<1>3. LogType /\ RoundType /\ UNCHANGED roundVars => LogType' /\ RoundType'
  BY <1>2 DEF RoundType, roundVars
<1>4. ClientType /\ UNCHANGED clientVars => ClientType'
  BY DEF ClientType, clientVars
<1>5. DataType /\ UNCHANGED dataVars => DataType'
  BY DEF DataType, dataVars
<1>6. ThreadType /\ UNCHANGED threadVars => ThreadType'
  BY DEF ThreadType, threadVars
<1>7. StopType /\ UNCHANGED stopVars => StopType'
  BY DEF StopType, stopVars
<1> QED
  BY <1>1, <1>2, <1>3, <1>4, <1>5, <1>6, <1>7

-----------------------------------------------------------------------------
(* Types *)

\* The listener's steps.
LEMMA ListenMessagesType ==
    ASSUME TypeOK, NEW i \in Node, TakeMessage(i)
    PROVE  TypeOK'
<1> DEFINE m == Head(dataQueue[i])
<1>1. dataQueue \in Queues
  BY DEF Queues, TypeOK, NetType
<1>2. m \in Message /\ GetData(i) \in Queues
  BY <1>1, GetDataType DEF TakeMessage
<1> HIDE DEF m
<1>3. CASE HandleCommonMessage(i, m)
  <2>1. m.tx \in Tx
    BY <1>2, <1>3, MessageFields DEF HandleCommonMessage
  <2>2. NetType'
    BY <1>2, <1>3 DEF HandleCommonMessage, Queues, TypeOK, NetType
  <2>3. DataType'
    BY <1>3, <2>1 DEF HandleCommonMessage, TypeOK, DataType
  <2>4. ThreadType'
    BY <1>3 DEF HandleCommonMessage, TypeOK, ThreadType
  <2> QED
    BY <1>3, <2>2, <2>3, <2>4, UnchangedTypes DEF HandleCommonMessage, TypeOK
<1>4. CASE HandleRequest(i, m)
  <2>1. dataQueue' \in Queues
    <3>1. m.request \in Request /\ uiCurrentRequestNumber[i] \in Nat
      BY <1>2, <1>4, MessageFields DEF HandleRequest, TypeOK, RoundType
    <3> QED
      BY <1>2, <1>4, <3>1, MessageTypes, PostDataType DEF HandleRequest
  <2>2. NetType'
    BY <1>4, <2>1 DEF HandleRequest, Queues, TypeOK, NetType
  <2>3. LogType' /\ RoundType'
    BY <1>4, UnchangedTypes DEF HandleRequest, TakeNumber, TypeOK, RoundType
  <2> QED
    BY <1>4, <2>2, <2>3, UnchangedTypes DEF HandleRequest, TypeOK
<1>5. CASE HandleReply(i, m)
  <2>1. NetType'
    BY <1>2, <1>5 DEF HandleReply, Queues, TypeOK, NetType
  <2>2. m.block \in Block /\ bIsWaitingForReply[i].second \in Block
    BY <1>2, <1>5, MessageFields, ValueTypes DEF HandleReply, AcceptsReply, TypeOK, ClientType
  <2>3. Replying("compare", m.block) \in ReplyHandler
    BY <2>2, NewValueTypes
  <2>4. ClientType'
    BY <1>5, <2>2, <2>3 DEF HandleReply, TypeOK, ClientType
  <2> QED
    BY <1>5, <2>1, <2>4, UnchangedTypes DEF HandleReply, TypeOK
<1>6. CASE HandlePrePrepare(i, m)
  <2>1. m.n \in Nat /\ m.request \in Request
    BY <1>2, <1>6, MessageFields DEF HandlePrePrepare
  <2>2. NetType'
    BY <1>2, <1>6, <2>1, MessageTypes, PostDataType
       DEF HandlePrePrepare, Queues, TypeOK, NetType
  <2>3. LogType'
    <3>1. NewEntry(m.request) \in LogEntry
      BY <2>1 DEF NewEntry, LogEntry
    <3> QED
      BY <1>6, <2>1, <3>1, LogWithType, UnchangedTypes DEF HandlePrePrepare, TypeOK
  <2>4. RoundType'
    BY <1>6 DEF HandlePrePrepare, TypeOK, RoundType
  <2> QED
    BY <1>6, <2>2, <2>3, <2>4, UnchangedTypes DEF HandlePrePrepare, TypeOK
<1>7. CASE HandlePrepare(i, m)
  <2> DEFINE entry == requestLog[i][m.n]
             below == [entry EXCEPT !.prepares = entry.prepares + 1]
             full  == [entry EXCEPT !.prepares = entry.prepares + 1, !.bPrepared = TRUE]
  <2>1. m.n \in Nat /\ entry \in LogEntry
    BY <1>2, <1>7, MessageFields DEF HandlePrepare, AcceptsPrepare, Logged, TypeOK, LogType
  <2>2. entry.request \in Request /\ below \in LogEntry /\ full \in LogEntry
    BY <2>1, LogEntryUpdates
  <2>3. NetType'
    <3>1. PostData(GetData(i), CommitMsg(i, m.n, entry.request)) \in Queues
      BY <1>2, <2>1, <2>2, MessageTypes, PostDataType
    <3>2. dataQueue' \in Queues /\ sent' = sent
      BY <1>2, <1>7, <3>1 DEF HandlePrepare
    <3> QED
      BY <3>2 DEF Queues, TypeOK, NetType
  <2>4. LogType'
    <3>1. requestLog' = LogWith(i, m.n, below) \/ requestLog' = LogWith(i, m.n, full)
      BY <1>7 DEF HandlePrepare
    <3> QED
      BY <2>1, <2>2, <3>1, LogWithType DEF TypeOK
  <2>5. RoundType'
    BY <1>7 DEF HandlePrepare, TypeOK, RoundType
  <2> QED
    BY <1>7, <2>3, <2>4, <2>5, UnchangedTypes DEF HandlePrepare, TypeOK
<1>8. CASE HandleCommit(i, m)
  <2> DEFINE entry   == requestLog[i][m.n]
             counted == [entry EXCEPT !.commits = entry.commits + 1]
  <2>1. m.n \in Nat /\ entry \in LogEntry
    BY <1>2, <1>8, MessageFields DEF HandleCommit, AcceptsCommit, Logged, TypeOK, LogType
  <2>2. /\ entry.request \in Request /\ entry.request.block \in Block
        /\ counted \in LogEntry
    BY <2>1, LogEntryUpdates
  <2>3. LogType'
    <3>1. requestLog' = LogWith(i, m.n, counted)
      BY <1>8 DEF HandleCommit
    <3> QED
      BY <2>1, <2>2, <3>1, LogWithType DEF TypeOK
  <2>4. NetType' /\ RoundType' /\ DataType'
    <3>1. CASE /\ dataQueue' = GetData(i)
               /\ UNCHANGED <<state, bRequestRecieved, committed, dataVars>>
      <4>1. NetType' /\ RoundType'
        BY <1>2, <1>8, <3>1 DEF HandleCommit, Queues, TypeOK, NetType, RoundType
      <4> QED
        BY <3>1, <4>1, UnchangedTypes DEF TypeOK
    <3>2. CASE CommitRequest(i, m.n, entry.request)
      <4> HIDE DEF entry
      <4>1. NetType'
        <5>1. PostData(GetData(i), ReplyMsg(i, entry.request)) \in Queues
          BY <1>2, <2>2, MessageTypes, PostDataType
        <5>2. dataQueue' \in Queues /\ sent' = sent
          BY <1>2, <1>8, <3>2, <5>1 DEF CommitRequest, HandleCommit
        <5> QED
          BY <5>2 DEF Queues, TypeOK, NetType
      <4>2. RoundType'
        BY <1>8, <2>1, <3>2 DEF CommitRequest, EndRound, HandleCommit, TypeOK, RoundType
      <4>3. DataType'
        <5>1. CASE UNCHANGED dataVars
          BY <5>1, UnchangedTypes DEF TypeOK
        <5>2. CASE /\ chain' = [chain EXCEPT ![i] = Append(@, entry.request.block)]
                   /\ pool' = [pool EXCEPT ![i] = Without(@, entry.request.block)]
          <6>1. pool' \in [Node -> SUBSET Tx]
            BY <5>2 DEF Without, TypeOK, DataType
          <6>2. chain' \in [Node -> Seq(Block \cup {GenesisBlock})]
            BY <2>2, <5>2 DEF TypeOK, DataType
          <6> QED
            BY <6>1, <6>2 DEF DataType
        <5> QED
          BY <3>2, <5>1, <5>2 DEF CommitRequest
      <4> QED
        BY <4>1, <4>2, <4>3
    <3> QED
      BY <1>8, <3>1, <3>2 DEF HandleCommit
  <2> QED
    BY <1>8, <2>3, <2>4, UnchangedTypes DEF HandleCommit, TypeOK
<1>9. CASE DropMessage(i, m)
  <2>1. NetType'
    BY <1>2, <1>9 DEF DropMessage, Queues, TypeOK, NetType
  <2> QED
    BY <1>9, <2>1, UnchangedTypes DEF DropMessage, TypeOK
<1> QED
  BY <1>3, <1>4, <1>5, <1>6, <1>7, <1>8, <1>9 DEF TakeMessage, m

\* Clearing the flag and the counter, and leaving the REPLY handler or not.
LEMMA ClearedType ==
    ASSUME ClientType, NEW i \in Node,
           bIsWaitingForReply' = [bIsWaitingForReply EXCEPT ![i].first = FALSE],
           uiRepliesRecieved' = [uiRepliesRecieved EXCEPT ![i] = 0],
           replying' = replying \/ replying' = [replying EXCEPT ![i] = NotReplying]
    PROVE  ClientType'
<1>1. \A j \in Node : /\ bIsWaitingForReply'[j] \in WaitingPair
                      /\ bIsWaitingForReply'[j].second = bIsWaitingForReply[j].second
  BY ValueTypes DEF ClientType
<1>2. bIsWaitingForReply' \in [Node -> WaitingPair]
  BY <1>1 DEF ClientType
<1>3. uiRepliesRecieved' \in [Node -> Nat]
  BY DEF ClientType
<1>4. replying' \in [Node -> ReplyHandler]
  BY InitialTypes DEF ClientType
<1>5. \A j \in Node : replying'[j] = replying[j] \/ replying'[j] = NotReplying
  BY DEF ClientType
<1> QED
  BY <1>1, <1>2, <1>3, <1>4, <1>5 DEF ClientType

\* The steps of the REPLY handler.
LEMMA GoOnReplyingType ==
    ASSUME TypeOK, NEW i \in Node, GoOnReplying(i)
    PROVE  TypeOK'
<1> DEFINE b == replying[i].block
<1>1. /\ replying[i] # NotReplying
      /\ b \in Block /\ bIsWaitingForReply[i].second \in Block
  <2>1. replying[i].pc # "none" /\ NotReplying.pc = "none"
    BY ValueTypes DEF GoOnReplying, CompareReply, CountReply, AddReplied, ClearWaiting
  <2> QED
    BY <2>1, ValueTypes DEF TypeOK, ClientType
<1>2. \A pc \in {"compare", "count", "add", "clear"} : Replying(pc, b) \in ReplyHandler
  BY <1>1, NewValueTypes
<1>3. NotReplying \in ReplyHandler
  BY InitialTypes
<1>4. CASE CompareReply(i)
  <2>1. replying' \in [Node -> ReplyHandler]
    BY <1>2, <1>3, <1>4 DEF CompareReply, TypeOK, ClientType
  <2>2. ClientType'
    BY <1>1, <1>4, <2>1 DEF CompareReply, TypeOK, ClientType
  <2> QED
    BY <1>4, <2>2, UnchangedTypes DEF CompareReply, TypeOK
<1>5. CASE CountReply(i)
  <2>1. replying' \in [Node -> ReplyHandler]
    BY <1>2, <1>3, <1>5 DEF CountReply, TypeOK, ClientType
  <2>2. ClientType'
    BY <1>1, <1>5, <2>1 DEF CountReply, TypeOK, ClientType
  <2> QED
    BY <1>5, <2>2, UnchangedTypes DEF CountReply, TypeOK
<1>6. CASE AddReplied(i)
  <2>1. replying' = [replying EXCEPT ![i] = Replying("clear", b)]
    <3>1. [replying[i] EXCEPT !.pc = "clear"] = Replying("clear", b)
      BY <1>1 DEF TypeOK, ClientType, ReplyHandler, Replying
    <3> QED
      BY <1>6, <3>1 DEF AddReplied, TypeOK, ClientType
  <2>2. ClientType'
    BY <1>1, <1>2, <1>6, <2>1 DEF AddReplied, TypeOK, ClientType
  <2>3. DataType'
    BY <1>1, <1>6 DEF AddReplied, TypeOK, DataType
  <2> QED
    BY <1>6, <2>2, <2>3, UnchangedTypes DEF AddReplied, TypeOK
<1>7. CASE ClearWaiting(i)
  <2>1. ClientType'
    BY <1>7, ClearedType DEF ClearWaiting, TypeOK
  <2> QED
    BY <1>7, <2>1, UnchangedTypes DEF ClearWaiting, TypeOK
<1> QED
  BY <1>4, <1>5, <1>6, <1>7 DEF GoOnReplying

\* The steps of AddNewBlock threads.
LEMMA AddNewBlockType ==
    ASSUME TypeOK, NEW i \in Node, AddNewBlock(i)
    PROVE  TypeOK'
<1>1. CASE TestWaiting(i)
  <2>1. ThreadType'
    BY <1>1 DEF TestWaiting, TypeOK, ThreadType
  <2> QED
    BY <1>1, <2>1, UnchangedTypes DEF TestWaiting, TypeOK
<1>2. CASE TakeChunk(i)
  <2>1. Cardinality(pool[i]) >= BLOCK_SIZE => Chunk(pool[i]) \in Block
    BY ChunkWhole DEF TypeOK, DataType
  <2>2. admitted' \in [Node -> Nat]
    BY <1>2 DEF TakeChunk, TypeOK, ThreadType
  <2>3. pool' \in [Node -> SUBSET Tx] /\ created' \in [Node -> SUBSET Block]
    <3>1. CASE UNCHANGED <<pool, created>>
      BY <3>1 DEF TypeOK, ThreadType, DataType
    <3>2. CASE /\ Cardinality(pool[i]) >= BLOCK_SIZE
               /\ pool' = [pool EXCEPT ![i] = @ \ Chunk(@)]
               /\ created' = [created EXCEPT ![i] = @ \cup {Chunk(pool[i])}]
      <4>1. pool' \in [Node -> SUBSET Tx]
        BY <3>2 DEF TypeOK, DataType
      <4>2. created' \in [Node -> SUBSET Block]
        BY <3>2, <2>1 DEF TypeOK, ThreadType
      <4> QED
        BY <4>1, <4>2
    <3> QED
      BY <1>2, <3>1, <3>2 DEF TakeChunk
  <2>4. UNCHANGED <<chain, starting, queued, resender>>
    BY <1>2 DEF TakeChunk
  <2>5. ThreadType' /\ DataType'
    BY <2>2, <2>3, <2>4 DEF TypeOK, ThreadType, DataType
  <2> QED
    BY <1>2, <2>5, UnchangedTypes DEF TakeChunk, TypeOK
<1>3. CASE SetWaiting(i)
  <2>1. PICK b \in created[i] :
           /\ created' = [created EXCEPT ![i] = @ \ {b}]
           /\ queued' = [queued EXCEPT ![i] = @ \cup {b}]
           /\ bIsWaitingForReply' = [bIsWaitingForReply EXCEPT ![i] = Pair(TRUE, b)]
           /\ UNCHANGED <<netVars, roundVars, uiRepliesRecieved, replying, dataVars, starting,
                          admitted, resender, stopVars>>
    BY <1>3 DEF SetWaiting
  <2>2. b \in Block
    BY DEF TypeOK, ThreadType
  <2>3. Pair(TRUE, b) \in WaitingPair /\ Pair(TRUE, b).second = b
    BY <2>2, NewValueTypes DEF Pair
  <2>4. ThreadType'
    BY <2>1, <2>2 DEF TypeOK, ThreadType
  <2>5. ClientType'
    BY <2>1, <2>2, <2>3 DEF TypeOK, ClientType
  <2> QED
    BY <2>1, <2>4, <2>5, UnchangedTypes DEF TypeOK
<1>4. CASE LockResender(i)
  <2>1. PICK b \in queued[i] :
           /\ queued' = [queued EXCEPT ![i] = @ \ {b}]
           /\ resender' = [resender EXCEPT ![i] = Resending(b, "loop", 0)]
    BY <1>4 DEF LockResender
  <2>2. Resending(b, "loop", 0) \in Resender
    BY NewValueTypes DEF TypeOK, ThreadType
  <2>3. ThreadType'
    BY <1>4, <2>1, <2>2 DEF LockResender, TypeOK, ThreadType
  <2> QED
    BY <1>4, <2>3, UnchangedTypes DEF LockResender, TypeOK
<1>5. CASE TestResender(i)
  <2> DEFINE r == resender[i]
  <2>1. r.block \in Block /\ r.posts \in Nat
    BY <1>5, ValueTypes DEF TestResender, TypeOK, ThreadType
  <2>2. /\ Resending(r.block, "committed", r.posts) \in Resender
        /\ Resending(r.block, "post", r.posts) \in Resender
    BY <2>1, NewValueTypes
  <2>3. ThreadType'
    BY <1>5, <2>2, InitialTypes DEF TestResender, TypeOK, ThreadType
  <2> QED
    BY <1>5, <2>3, UnchangedTypes DEF TestResender, TypeOK
<1>6. CASE StopWaiting(i)
  <2>1. ThreadType'
    BY <1>6, InitialTypes DEF StopWaiting, TypeOK, ThreadType
  <2>2. ClientType'
    BY <1>6, ClearedType DEF StopWaiting, TypeOK
  <2> QED
    BY <1>6, <2>1, <2>2, UnchangedTypes DEF StopWaiting, TypeOK
<1>7. CASE PostRequest(i)
  <2> DEFINE r == resender[i]
  <2>1. r.block \in Block /\ r.posts \in Nat
    BY <1>7, ValueTypes DEF PostRequest, TypeOK, ThreadType
  <2>2. Resending(r.block, "loop", r.posts + 1) \in Resender
    BY <2>1, NewValueTypes
  <2>3. ThreadType'
    BY <1>7, <2>2 DEF PostRequest, TypeOK, ThreadType
  <2>4. NetType'
    <3>1. [client |-> i, block |-> r.block] \in Request
      BY <2>1 DEF Request
    <3>2. dataQueue \in Queues
      BY DEF Queues, TypeOK, NetType
    <3>3. dataQueue' \in Queues /\ sent' = sent
      BY <1>7, <3>1, <3>2, MessageTypes, PostDataType DEF PostRequest
    <3> QED
      BY <3>3 DEF Queues, TypeOK, NetType
  <2> QED
    BY <1>7, <2>3, <2>4, UnchangedTypes DEF PostRequest, TypeOK
<1> QED
  BY <1>1, <1>2, <1>3, <1>4, <1>5, <1>6, <1>7 DEF AddNewBlock

\* The steps of senders, of Stop() and of a listener that ends.
LEMMA OtherStepsType ==
    ASSUME TypeOK, NEW i \in Node,
           SendCommonMessage(i) \/ Stop(i) \/ EndListener(i)
    PROVE  TypeOK'
<1>1. dataQueue \in Queues
  BY DEF Queues, TypeOK, NetType
<1>2. CASE SendCommonMessage(i)
  <2>1. sent + 1 \in Tx /\ sent' = sent + 1
    BY <1>2, SizeAssumption DEF SendCommonMessage, Tx, TypeOK, NetType
  <2>2. dataQueue' \in Queues
    BY <1>1, <1>2, <2>1, MessageTypes, PostDataType DEF SendCommonMessage
  <2>3. NetType'
    BY <2>1, <2>2, SizeAssumption DEF Queues, Tx, TypeOK, NetType
  <2> QED
    BY <1>2, <2>3, UnchangedTypes DEF SendCommonMessage, TypeOK
<1>3. CASE Stop(i)
  <2>1. StopType'
    BY <1>3 DEF Stop, TypeOK, StopType
  <2> QED
    BY <1>3, <2>1, UnchangedTypes DEF Stop, TypeOK
<1>4. CASE EndListener(i)
  <2>1. StopType'
    BY <1>4 DEF EndListener, TypeOK, StopType
  <2>2. NetType' /\ DataType'
    <3>1. CASE UNCHANGED <<dataQueue, pool>>
      BY <1>4, <3>1 DEF EndListener, TypeOK, NetType, DataType
    <3>2. CASE dataQueue[i] # <<>> /\ dataQueue' = GetData(i) /\ pool' = pool
      BY <1>1, <1>4, <3>2, GetDataType DEF EndListener, Queues, TypeOK, NetType, DataType
    <3>3. CASE /\ dataQueue[i] # <<>> /\ dataQueue' = GetData(i)
               /\ Head(dataQueue[i]).type = "COMMON_MESSAGE"
               /\ pool' = [pool EXCEPT ![i] = @ \cup {Head(dataQueue[i]).tx}]
      <4>1. GetData(i) \in Queues /\ Head(dataQueue[i]).tx \in Tx
        BY <1>1, <3>3, GetDataType, MessageFields
      <4> QED
        BY <1>4, <3>3, <4>1 DEF EndListener, Queues, TypeOK, NetType, DataType
    <3> QED
      BY <1>4, <3>1, <3>2, <3>3 DEF EndListener
  <2> QED
    BY <1>4, <2>1, <2>2, UnchangedTypes DEF EndListener, TypeOK
<1> QED
  BY <1>2, <1>3, <1>4

\* Every variable holds values of its type in every reachable state, whatever the
\* network drops and whoever stops.
THEOREM TypeCorrect == Spec => []TypeOK
<1>1. Init => TypeOK
  <2> SUFFICES ASSUME Init PROVE TypeOK
    OBVIOUS
  <2>1. NetType /\ RoundType /\ StopType
    BY SizeAssumption DEF Init, NetType, RoundType, StopType
  <2>2. LogType
    BY DEF Init, LogType, NoEntries
  <2>3. ClientType /\ ThreadType
    BY InitialTypes DEF Init, ClientType, ThreadType
  <2>4. DataType
    BY DEF Init, DataType
  <2> QED
    BY <2>1, <2>2, <2>3, <2>4 DEF TypeOK
<1>2. TypeOK /\ [Next]_vars => TypeOK'
  BY ListenMessagesType, GoOnReplyingType, AddNewBlockType, OtherStepsType, UnchangedTypes
     DEF Next, ListenMessages, TypeOK, vars, roundVars
<1> QED
  BY <1>1, <1>2, PTL DEF Spec

-----------------------------------------------------------------------------
(* Sequence numbers *)

\* To bound what is queued, look at every place of every queue.
LEMMA QueuedWithin ==
    ASSUME NEW queues, NEW S,
           \A i \in Node : \A k \in 1..Len(queues[i]) : queues[i][k] \in S
    PROVE  Queued(queues) \subseteq S
  BY DEF Queued

\* What a queue holds after PostData it held before, or it is the posted message.
LEMMA QueuedAfterPost ==
    ASSUME NEW queues \in Queues, NEW m \in Message
    PROVE  Queued(PostData(queues, m)) \subseteq Queued(queues) \cup {m}
<1> SUFFICES ASSUME NEW i \in Node, NEW k \in 1..Len(PostData(queues, m)[i])
             PROVE  PostData(queues, m)[i][k] \in Queued(queues) \cup {m}
  BY DEF Queued
<1>1. queues[i] \in Seq(Message)
  BY DEF Queues
<1>2. \A l \in 1..Len(queues[i]) : queues[i][l] \in Queued(queues)
  BY DEF Queued
<1>3. CASE PostData(queues, m)[i] = queues[i]
  BY <1>2, <1>3
<1>4. CASE PostData(queues, m)[i] = Append(queues[i], m)
  <2>1. k \in 1..(Len(queues[i]) + 1)
    BY <1>1, <1>4
  <2>2. CASE k = Len(queues[i]) + 1
    BY <1>1, <1>4, <2>2
  <2>3. CASE k \in 1..Len(queues[i])
    BY <1>1, <1>2, <1>4, <2>3
  <2> QED
    BY <1>1, <2>1, <2>2, <2>3
<1> QED
  BY <1>3, <1>4 DEF PostData

\* Taking a message leaves nothing new in the queues, and what was taken was there.
LEMMA QueuedAfterGet ==
    ASSUME dataQueue \in Queues, NEW i \in Node, dataQueue[i] # <<>>
    PROVE  /\ Queued(GetData(i)) \subseteq Queued(dataQueue)
           /\ Head(dataQueue[i]) \in Queued(dataQueue)
<1>1. \A j \in Node : dataQueue[j] \in Seq(Message)
  BY DEF Queues
<1>2. Head(dataQueue[i]) = dataQueue[i][1] /\ 1 \in 1..Len(dataQueue[i])
  BY <1>1
<1>3. ASSUME NEW j \in Node, NEW k \in 1..Len(GetData(i)[j])
      PROVE  GetData(i)[j][k] \in Queued(dataQueue)
  <2>1. CASE j = i
    <3>1. GetData(i)[j] = Tail(dataQueue[i])
      BY <2>1 DEF GetData, Queues
    <3>2. k + 1 \in 1..Len(dataQueue[i]) /\ GetData(i)[j][k] = dataQueue[i][k + 1]
      BY <1>1, <3>1
    <3> QED
      BY <3>2 DEF Queued
  <2>2. CASE j # i
    <3>1. GetData(i)[j] = dataQueue[j]
      BY <2>2 DEF GetData, Queues
    <3> QED
      BY <3>1 DEF Queued
  <2> QED
    BY <2>1, <2>2
<1>4. Queued(GetData(i)) \subseteq Queued(dataQueue)
  BY <1>3, QueuedWithin
<1>5. Head(dataQueue[i]) \in Queued(dataQueue)
  BY <1>2 DEF Queued
<1> QED
  BY <1>4, <1>5

\* If the only new message is no PREPREPARE, no PREPREPARE is new.
LEMMA PrePreparedKept ==
    ASSUME NEW m, m.type # "PREPREPARE",
           Queued(dataQueue') \subseteq Queued(dataQueue) \cup {m}
    PROVE  PrePrepared' \subseteq PrePrepared
  BY DEF PrePrepared

\* Changing the counters and the flag of an entry changes no logged request.
LEMMA LoggedRequestsKept ==
    ASSUME LogType, NEW i \in Node, NEW n \in DOMAIN requestLog[i], NEW e,
           e.request = requestLog[i][n].request,
           requestLog' = LogWith(i, n, e)
    PROVE  LoggedRequests' = LoggedRequests
<1>1. DOMAIN requestLog' = Node
  BY DEF LogWith, LogType
<1>2. \A j \in Node : DOMAIN requestLog'[j] = DOMAIN requestLog[j]
  BY DEF LogWith, LogType
<1>3. \A j \in Node : \A l \in DOMAIN requestLog[j] :
         requestLog'[j][l].request = requestLog[j][l].request
  BY DEF LogWith, LogType
<1> QED
  BY <1>2, <1>3 DEF LoggedRequests

\* Fewer assignments and the same counter: nothing to fear.
LEMMA NoNewAssignment ==
    ASSUME NumbersGivenOnce, PrePrepared' \subseteq PrePrepared,
           LoggedRequests' \subseteq Assignments,
           UNCHANGED uiCurrentRequestNumber
    PROVE  NumbersGivenOnce'
<1>1. Assignments' \subseteq Assignments
  BY DEF Assignments
<1> QED
  BY <1>1 DEF NumbersGivenOnce

\* A message taken and another posted that is no PREPREPARE, or none at all.
LEMMA OtherPost ==
    ASSUME TypeOK, NEW i \in Node, dataQueue[i] # <<>>, NEW m \in Message,
           m.type # "PREPREPARE",
           \/ dataQueue' = GetData(i)
           \/ dataQueue' = PostData(GetData(i), m)
           \/ dataQueue' = PostData(dataQueue, m)
    PROVE  PrePrepared' \subseteq PrePrepared
<1>1. dataQueue \in Queues
  BY DEF TypeOK, NetType, Queues
<1>2. GetData(i) \in Queues /\ Queued(GetData(i)) \subseteq Queued(dataQueue)
  BY <1>1, GetDataType, QueuedAfterGet
<1>3. Queued(dataQueue') \subseteq Queued(dataQueue) \cup {m}
  <2>1. CASE dataQueue' = GetData(i)
    BY <1>2, <2>1
  <2>2. CASE dataQueue' = PostData(GetData(i), m)
    BY <1>2, <2>2, QueuedAfterPost
  <2>3. CASE dataQueue' = PostData(dataQueue, m)
    BY <1>1, <2>3, QueuedAfterPost
  <2> QED
    BY <2>1, <2>2, <2>3
<1> QED
  BY <1>3, PrePreparedKept

\* The listener's steps give a number once: only the primary gives any, the next
\* one, and a log gets only what a PREPREPARE says.
LEMMA ListenMessagesNumbers ==
    ASSUME TypeOK, NumbersGivenOnce, NEW i \in Node, TakeMessage(i)
    PROVE  NumbersGivenOnce'
<1> DEFINE m == Head(dataQueue[i])
<1>1. dataQueue \in Queues /\ dataQueue[i] # <<>> /\ LogType
  BY DEF TakeMessage, TypeOK, NetType, Queues
<1>2. /\ m \in Message /\ m \in Queued(dataQueue)
      /\ GetData(i) \in Queues /\ Queued(GetData(i)) \subseteq Queued(dataQueue)
  BY <1>1, GetDataType, QueuedAfterGet
<1>3. LoggedRequests \subseteq Assignments
  BY DEF Assignments
<1>4. dataQueue' = GetData(i) => PrePrepared' \subseteq PrePrepared
  BY <1>2 DEF PrePrepared
<1>5. \A x \in Message :
         x.type # "PREPREPARE" /\ dataQueue' = PostData(GetData(i), x)
            => PrePrepared' \subseteq PrePrepared
  BY <1>1, OtherPost
<1>6. UNCHANGED requestLog => LoggedRequests' = LoggedRequests
  BY DEF LoggedRequests
<1> HIDE DEF m
<1>7. CASE HandleCommonMessage(i, m)
  BY <1>3, <1>4, <1>6, <1>7, NoNewAssignment DEF HandleCommonMessage, roundVars
<1>8. CASE HandleReply(i, m)
  BY <1>3, <1>4, <1>6, <1>8, NoNewAssignment DEF HandleReply, roundVars
<1>9. CASE DropMessage(i, m)
  BY <1>3, <1>4, <1>6, <1>9, NoNewAssignment DEF DropMessage, roundVars
<1>10. CASE HandleRequest(i, m)
  <2> DEFINE n == uiCurrentRequestNumber[Primary]
             p == PrePrepareMsg(n, m.request)
  <2>1. i = Primary /\ dataQueue' = PostData(GetData(i), p) /\ UNCHANGED requestLog
    BY <1>10 DEF HandleRequest, AcceptsRequest
  <2>2. n \in Nat /\ uiCurrentRequestNumber'[Primary] = n + 1
    BY <1>10, <2>1 DEF HandleRequest, TakeNumber, TypeOK, RoundType
  <2>3. p \in Message /\ p.n = n /\ p.request = m.request
    BY <1>2, <1>10, <2>2, MessageFields, MessageTypes DEF HandleRequest, PrePrepareMsg
  <2>4. Queued(dataQueue') \subseteq Queued(dataQueue) \cup {p}
    BY <1>2, <2>1, <2>3, QueuedAfterPost
  <2>5. PrePrepared' \subseteq PrePrepared \cup {<<n, m.request>>}
    BY <2>3, <2>4 DEF PrePrepared
  <2>6. Assignments' \subseteq Assignments \cup {<<n, m.request>>}
    BY <1>6, <2>1, <2>5 DEF Assignments
  <2>7. \A a \in Assignments : a[1] \in Nat /\ a[1] < n
    <3>1. \A a \in PrePrepared : a[1] \in Nat
      <4>1. Queued(dataQueue) \subseteq Message
        BY <1>1 DEF Queued, Queues
      <4> QED
        BY <4>1, MessageFields DEF PrePrepared
    <3>2. \A a \in LoggedRequests : a[1] \in Nat
      BY <1>1 DEF LoggedRequests, LogType
    <3> QED
      BY <3>1, <3>2 DEF Assignments, NumbersGivenOnce
  <2> HIDE DEF n, p
  <2>8. \A a, b \in Assignments' : a[1] = b[1] => a[2] = b[2]
    <3> SUFFICES ASSUME NEW a \in Assignments', NEW b \in Assignments', a[1] = b[1]
                 PROVE  a[2] = b[2]
      OBVIOUS
    <3>1. CASE a \in Assignments /\ b \in Assignments
      BY <3>1 DEF NumbersGivenOnce
    <3>2. CASE a = <<n, m.request>> /\ b = <<n, m.request>>
      BY <3>2
    <3>3. CASE a \in Assignments /\ b = <<n, m.request>>
      BY <2>2, <2>7, <3>3
    <3>4. CASE a = <<n, m.request>> /\ b \in Assignments
      BY <2>2, <2>7, <3>4
    <3> QED
      BY <2>6, <3>1, <3>2, <3>3, <3>4
  <2>9. \A a \in Assignments' : a[1] < uiCurrentRequestNumber'[Primary]
    BY <2>2, <2>6, <2>7
  <2> QED
    BY <2>8, <2>9 DEF NumbersGivenOnce
<1>11. CASE HandlePrePrepare(i, m)
  <2>1. m.type = "PREPREPARE" /\ m.n \in Nat /\ m.request \in Request
    BY <1>2, <1>11, MessageFields DEF HandlePrePrepare
  <2>2. PrePrepared' \subseteq PrePrepared
    <3>1. PrepareMsg(i, m.n, m.request) \in Message
      BY <2>1, MessageTypes
    <3>2. PrepareMsg(i, m.n, m.request).type # "PREPREPARE"
      BY DEF PrepareMsg
    <3> QED
      BY <1>5, <1>11, <3>1, <3>2 DEF HandlePrePrepare
  <2>3. <<m.n, m.request>> \in Assignments
    BY <1>2, <2>1 DEF Assignments, PrePrepared
  <2>4. LoggedRequests' \subseteq LoggedRequests \cup {<<m.n, m.request>>}
    <3>1. CASE requestLog' = LogWith(i, m.n, NewEntry(m.request))
      <4>1. NewEntry(m.request).request = m.request
        BY DEF NewEntry
      <4>2. \A j \in Node : \A l \in DOMAIN requestLog'[j] :
               \/ j = i /\ l = m.n /\ requestLog'[j][l] = NewEntry(m.request)
               \/ l \in DOMAIN requestLog[j] /\ requestLog'[j][l] = requestLog[j][l]
        BY <1>1, <3>1 DEF LogWith, LogType
      <4> QED
        BY <4>1, <4>2 DEF LoggedRequests
    <3> QED
      BY <1>6, <1>11, <3>1 DEF HandlePrePrepare
  <2> QED
    BY <1>3, <1>11, <2>2, <2>3, <2>4, NoNewAssignment DEF HandlePrePrepare
<1>12. CASE HandlePrepare(i, m)
  <2> DEFINE entry == requestLog[i][m.n]
  <2>1. m.n \in DOMAIN requestLog[i] /\ m.n \in Nat /\ entry \in LogEntry
    BY <1>1, <1>2, <1>12, MessageFields DEF HandlePrepare, AcceptsPrepare, Logged, LogType
  <2>2. CommitMsg(i, m.n, entry.request) \in Message
    BY <2>1, LogEntryUpdates, MessageTypes
  <2>3. CommitMsg(i, m.n, entry.request).type # "PREPREPARE"
    BY DEF CommitMsg
  <2>4. PrePrepared' \subseteq PrePrepared
    BY <1>4, <1>5, <1>12, <2>2, <2>3 DEF HandlePrepare
  <2>5. PICK e : e.request = entry.request /\ requestLog' = LogWith(i, m.n, e)
    <3>1. CASE requestLog' = LogWith(i, m.n, [entry EXCEPT !.prepares = entry.prepares + 1])
      <4>1. [entry EXCEPT !.prepares = entry.prepares + 1].request = entry.request
        BY <2>1 DEF LogEntry
      <4> QED
        BY <3>1, <4>1
    <3>2. CASE requestLog' =
                 LogWith(i, m.n, [entry EXCEPT !.prepares = entry.prepares + 1,
                                               !.bPrepared = TRUE])
      <4>1. [entry EXCEPT !.prepares = entry.prepares + 1, !.bPrepared = TRUE].request
               = entry.request
        BY <2>1 DEF LogEntry
      <4> QED
        BY <3>2, <4>1
    <3> QED
      BY <1>12, <3>1, <3>2 DEF HandlePrepare
  <2>6. LoggedRequests' = LoggedRequests
    BY <1>1, <2>1, <2>5, LoggedRequestsKept
  <2> QED
    BY <1>3, <1>12, <2>4, <2>6, NoNewAssignment DEF HandlePrepare
<1>13. CASE HandleCommit(i, m)
  <2> DEFINE entry == requestLog[i][m.n]
             e     == [entry EXCEPT !.commits = entry.commits + 1]
  <2>1. m.n \in DOMAIN requestLog[i] /\ entry \in LogEntry
    BY <1>1, <1>13 DEF HandleCommit, AcceptsCommit, Logged, LogType
  <2>2. ReplyMsg(i, entry.request) \in Message
    BY <2>1, LogEntryUpdates, MessageTypes
  <2>3. ReplyMsg(i, entry.request).type # "PREPREPARE"
    BY DEF ReplyMsg
  <2>4. PrePrepared' \subseteq PrePrepared
    BY <1>4, <1>5, <1>13, <2>2, <2>3 DEF HandleCommit, CommitRequest
  <2>5. requestLog' = LogWith(i, m.n, e) /\ e.request = entry.request
    BY <1>13, <2>1 DEF HandleCommit, LogEntry
  <2>6. LoggedRequests' = LoggedRequests
    BY <1>1, <2>1, <2>5, LoggedRequestsKept
  <2> QED
    BY <1>3, <1>13, <2>4, <2>6, NoNewAssignment DEF HandleCommit
<1> QED
  BY <1>7, <1>8, <1>9, <1>10, <1>11, <1>12, <1>13 DEF TakeMessage, m

\* The other threads post nothing but transactions and REQUESTs.
LEMMA OtherStepsNumbers ==
    ASSUME TypeOK, NumbersGivenOnce, NEW i \in Node,
           SendCommonMessage(i) \/ AddNewBlock(i) \/ GoOnReplying(i) \/ Stop(i) \/ EndListener(i)
    PROVE  NumbersGivenOnce'
<1>1. dataQueue \in Queues
  BY DEF TypeOK, NetType, Queues
<1>2. UNCHANGED <<requestLog, uiCurrentRequestNumber>>
  BY DEF SendCommonMessage, AddNewBlock, TestWaiting, TakeChunk, SetWaiting, LockResender,
         TestResender, StopWaiting, PostRequest, GoOnReplying, CompareReply, CountReply, AddReplied,
         ClearWaiting, Stop, EndListener, roundVars
<1>3. Queued(dataQueue') \subseteq Queued(dataQueue)
         \/ \E m : m.type # "PREPREPARE" /\ Queued(dataQueue') \subseteq Queued(dataQueue) \cup {m}
  <2>1. CASE SendCommonMessage(i)
    <3> DEFINE m == CommonMsg(sent + 1)
    <3>1. sent + 1 \in Tx
      BY <2>1, SizeAssumption DEF SendCommonMessage, TypeOK, NetType, Tx
    <3>2. m \in Message /\ m.type # "PREPREPARE"
      <4>1. m.type # "PREPREPARE"
        BY DEF CommonMsg
      <4> QED
        BY <3>1, <4>1, MessageTypes
    <3>3. dataQueue' = PostData(dataQueue, m)
      BY <2>1 DEF SendCommonMessage
    <3> QED
      BY <1>1, <3>2, <3>3, QueuedAfterPost
  <2>2. CASE PostRequest(i)
    <3> DEFINE r == [client |-> i, block |-> resender[i].block]
    <3>1. r \in Request
      <4>1. resender[i].block \in Block
        BY <2>2, ValueTypes DEF PostRequest, TypeOK, ThreadType
      <4> QED
        BY <4>1 DEF Request
    <3>2. RequestMsg(r) \in Message
      BY <3>1, MessageTypes
    <3>3. RequestMsg(r).type # "PREPREPARE"
      BY DEF RequestMsg
    <3>4. dataQueue' = PostData(dataQueue, RequestMsg(r))
      BY <2>2 DEF PostRequest
    <3> QED
      BY <1>1, <3>2, <3>3, <3>4, QueuedAfterPost
  <2>3. CASE EndListener(i)
    BY <1>1, <2>3, QueuedAfterGet DEF EndListener
  <2>4. CASE UNCHANGED dataQueue
    BY <2>4
  <2> QED
    BY <2>1, <2>2, <2>3, <2>4
       DEF AddNewBlock, TestWaiting, TakeChunk, SetWaiting, LockResender, TestResender,
           StopWaiting, GoOnReplying, CompareReply, CountReply, AddReplied, ClearWaiting,
           Stop, netVars
<1>4. PrePrepared' \subseteq PrePrepared
  BY <1>3 DEF PrePrepared
<1>5. LoggedRequests' \subseteq Assignments
  BY <1>2 DEF LoggedRequests, Assignments
<1> QED
  BY <1>2, <1>4, <1>5, NoNewAssignment

\* No number is given to two requests, whatever is lost and whoever stops: of the
\* messages in the queues and of the logs.
THEOREM GivenOnce == Spec => []NumbersGivenOnce
<1>1. Init => NumbersGivenOnce
  <2> SUFFICES ASSUME Init PROVE NumbersGivenOnce
    OBVIOUS
  <2>1. PrePrepared = {}
    BY DEF Init, PrePrepared, Queued
  <2>2. LoggedRequests = {}
    BY DEF Init, LoggedRequests, NoEntries
  <2> QED
    BY <2>1, <2>2 DEF NumbersGivenOnce, Assignments
<1>2. TypeOK /\ NumbersGivenOnce /\ [Next]_vars => NumbersGivenOnce'
  <2>1. UNCHANGED vars /\ NumbersGivenOnce => NumbersGivenOnce'
    BY DEF vars, netVars, roundVars, NumbersGivenOnce, Assignments, PrePrepared, Queued,
           LoggedRequests
  <2> QED
    BY <2>1, ListenMessagesNumbers, OtherStepsNumbers DEF Next, ListenMessages
<1> QED
  BY <1>1, <1>2, TypeCorrect, PTL DEF Spec

\* Any two nodes that log a number log the same request under it.
THEOREM NodesAgree == Spec => []SequenceAgreement
<1>1. NumbersGivenOnce => SequenceAgreement
  <2> SUFFICES ASSUME NumbersGivenOnce, NEW i \in Node, NEW j \in Node,
                      NEW n \in DOMAIN requestLog[i] \cap DOMAIN requestLog[j]
               PROVE  requestLog[i][n].request = requestLog[j][n].request
    BY DEF SequenceAgreement
  <2>1. /\ <<n, requestLog[i][n].request>> \in Assignments
        /\ <<n, requestLog[j][n].request>> \in Assignments
    BY DEF Assignments, LoggedRequests
  <2> QED
    BY <2>1 DEF NumbersGivenOnce
<1> QED
  BY <1>1, GivenOnce, PTL

=============================================================================
