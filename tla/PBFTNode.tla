------------------------------ MODULE PBFTNode ------------------------------
(***************************************************************************)
(* The nodes of the simulator running PBFT's normal case over the shared   *)
(* broadcast network (PBFTNode.cpp on top of NetworkManager1.cpp).         *)
(*                                                                         *)
(* Every node has three kinds of threads:                                  *)
(*   - a sender (operator()), which posts client transactions;             *)
(*   - a listener (ListenMessages), which handles one message at a time    *)
(*     and drives the consensus;                                           *)
(*   - detached AddNewBlock threads, which cut a block out of the pool and *)
(*     resend a REQUEST for it until it is committed.                      *)
(* One action is one handler of the listener, or one stretch of it or of   *)
(* AddNewBlock between two points where it reads or writes state the       *)
(* listener and the AddNewBlock threads share: so the handler of a REPLY,  *)
(* which reads the block waited for three times without a lock, is five    *)
(* actions.                                                                *)
(*                                                                         *)
(* Data.  A transaction is its number in the order of posting; a pool,     *)
(* which receives transactions in that order only, is the set of its       *)
(* transactions; a block is the set of its transactions, which is all its  *)
(* hash depends on (Block.cpp:15-27).  The digest of a request is the      *)
(* request.  The view number is 0 throughout: no code changes it.          *)
(* Signatures are the senders' own and verify.                             *)
(***************************************************************************)
EXTENDS Naturals, Sequences, FiniteSets, PBFTQuorums

CONSTANTS
    Node,                 \* the registered nodes, all of them running
    Primary,              \* the node whose id is view % N, node 0
    BLOCK_SIZE,           \* transactions in a block
    NETWORK_BUFFER_SIZE,  \* a message is dropped for a queue longer than this
    Stoppable,            \* nodes the environment may Stop()
    MaxTx,                \* bound: transactions posted in a behaviour
    MaxPosts              \* bound: [Node -> Nat], REQUESTs posted by one AddNewBlock thread

N == Cardinality(Node)

ASSUME NodeAssumption ==
    /\ IsFiniteSet(Node)
    /\ Primary \in Node
    /\ N >= 2
    /\ Stoppable \subseteq Node

ASSUME SizeAssumption ==
    /\ BLOCK_SIZE \in Nat \ {0}
    /\ NETWORK_BUFFER_SIZE \in Nat
    /\ MaxTx \in Nat
    /\ MaxPosts \in [Node -> Nat]

VARIABLES
    \* the network
    dataQueue,               \* [Node -> Seq(Message)], one FIFO per client
    sent,                    \* transactions posted so far
    \* PBFTState and the listener's local flag
    state,
    uiCurrentRequestNumber,
    bRequestRecieved,
    requestLog,              \* [Node -> partial function from numbers to LogEntry]
    \* the node as a client of the consensus
    bIsWaitingForReply,      \* [Node -> [first, second]], the flag and the block waited for
    uiRepliesRecieved,
    replying,                \* where the listener is in the REPLY handler, with which block
    \* pool and chain
    pool,
    chain,
    \* AddNewBlock threads, by where they are
    starting,                \* number of threads before the test of l.456
    admitted,                \* number of threads between l.456 and l.459
    created,                 \* blocks of threads between l.471 and l.502
    queued,                  \* blocks of threads blocked on l.510
    resender,                \* the thread that owns the resender mutex, if any
    \* Stop()
    stopped,
    listening,
    \* history variable: numbers that passed l.395, in the order they did
    committed

netVars    == <<dataQueue, sent>>
roundVars  == <<state, uiCurrentRequestNumber, bRequestRecieved, requestLog, committed>>
clientVars == <<bIsWaitingForReply, uiRepliesRecieved, replying>>
dataVars   == <<pool, chain>>
threadVars == <<starting, admitted, created, queued, resender>>
stopVars   == <<stopped, listening>>
vars       == <<netVars, roundVars, clientVars, dataVars, threadVars, stopVars>>

-----------------------------------------------------------------------------
(* Data *)

Tx           == 1..MaxTx
GenesisBlock == {0}
NoBlock      == {}
Block        == {b \in SUBSET Tx : Cardinality(b) = BLOCK_SIZE}

Request == [client : Node, block : Block]

NoEntries == [n \in {} |-> n]

LogEntry == [prepares : Nat, commits : Nat, request : Request, bPrepared : BOOLEAN]

CommonMsg(t)         == [type |-> "COMMON_MESSAGE", tx |-> t]
RequestMsg(r)        == [type |-> "REQUEST", request |-> r]
PrePrepareMsg(n, r)  == [type |-> "PREPREPARE", n |-> n, request |-> r]
PrepareMsg(i, n, r)  == [type |-> "PREPARE", nodeId |-> i, n |-> n, digest |-> r]
CommitMsg(i, n, r)   == [type |-> "COMMIT", nodeId |-> i, n |-> n, digest |-> r]
ReplyMsg(i, r)       == [type |-> "REPLY", nodeId |-> i, dest |-> r.client, block |-> r.block]

Message ==
         [type : {"COMMON_MESSAGE"}, tx : Tx]
    \cup [type : {"REQUEST"}, request : Request]
    \cup [type : {"PREPREPARE"}, n : Nat, request : Request]
    \cup [type : {"PREPARE", "COMMIT"}, nodeId : Node, n : Nat, digest : Request]
    \cup [type : {"REPLY"}, nodeId : Node, dest : Node, block : Block]

\* A thread resending the request for a block: the block, where it is in the
\* loop of l.513-537 and how often it has posted.
Resending(b, pc, posts) == [block |-> b, pc |-> pc, posts |-> posts]
NoResender == Resending(NoBlock, "none", 0)

\* The pair bIsWaitingForReply, and a listener at a place of the REPLY handler.
Pair(flag, b)    == [first |-> flag, second |-> b]
Replying(pc, b)  == [pc |-> pc, block |-> b]
NotReplying      == Replying("none", NoBlock)

LastBlock(i) == chain[i][Len(chain[i])]

\* The first BLOCK_SIZE transactions of a pool.
Chunk(p) == {t \in p : Cardinality({u \in p : u < t}) < BLOCK_SIZE}

-----------------------------------------------------------------------------
(* The network: PostData runs under one mutex for all clients, so it is one  *)
(* step.  A queue takes the message if it is not longer than the buffer size,*)
(* and thus holds up to NETWORK_BUFFER_SIZE + 1 messages.                    *)

PostData(queues, m) ==
    [j \in Node |-> IF Len(queues[j]) <= NETWORK_BUFFER_SIZE
                      THEN Append(queues[j], m)
                      ELSE queues[j]]

\* What GetData leaves in the queues when the listener of i takes a message.
GetData(i) == [dataQueue EXCEPT ![i] = Tail(@)]

-----------------------------------------------------------------------------
(* Initial state *)

Init ==
    /\ dataQueue = [i \in Node |-> <<>>]
    /\ sent = 0
    /\ state = [i \in Node |-> "PRE_PREPARE"]
    /\ uiCurrentRequestNumber = [i \in Node |-> 0]
    /\ bRequestRecieved = [i \in Node |-> FALSE]
    /\ requestLog = [i \in Node |-> NoEntries]
    /\ bIsWaitingForReply = [i \in Node |-> Pair(FALSE, NoBlock)]
    /\ uiRepliesRecieved = [i \in Node |-> 0]
    /\ replying = [i \in Node |-> NotReplying]
    /\ pool = [i \in Node |-> {}]
    /\ chain = [i \in Node |-> <<GenesisBlock>>]
    /\ starting = [i \in Node |-> 0]
    /\ admitted = [i \in Node |-> 0]
    /\ created = [i \in Node |-> {}]
    /\ queued = [i \in Node |-> {}]
    /\ resender = [i \in Node |-> NoResender]
    /\ stopped = [i \in Node |-> FALSE]
    /\ listening = [i \in Node |-> TRUE]
    /\ committed = [i \in Node |-> <<>>]

-----------------------------------------------------------------------------
(* Sender (operator()) *)

\* The sender of i posts the next transaction.  A sender that tested
\* m_bStopped before Stop() posts one more afterwards; as the handlers do not
\* look at the sender of a COMMON_MESSAGE, a running node's post stands for it.
SendCommonMessage(i) ==
    /\ ~stopped[i]
    /\ sent < MaxTx
    /\ sent' = sent + 1
    /\ dataQueue' = PostData(dataQueue, CommonMsg(sent + 1))
    /\ UNCHANGED <<roundVars, clientVars, dataVars, threadVars, stopVars>>

-----------------------------------------------------------------------------
(* Listener (ListenMessages) *)

Logged(i, n) == n \in DOMAIN requestLog[i]

\* Faulty: the PREPREPARE counts as a PREPARE.
EntryCountingPrepare(r) == [prepares |-> 1, commits |-> 0, request |-> r, bPrepared |-> FALSE]

\* The entry a PREPREPARE makes (l.285).
NewEntry(r) == [prepares |-> 0, commits |-> 0, request |-> r, bPrepared |-> FALSE]

\* requestLog with entry e under n at node i.
LogWith(i, n, e) ==
    [requestLog EXCEPT ![i] =
        [m \in DOMAIN requestLog[i] \cup {n} |-> IF m = n THEN e ELSE requestLog[i][m]]]

\* A transaction enters the pool; once the pool fills a block a detached
\* AddNewBlock thread starts.
HandleCommonMessage(i, m) ==
    /\ m.type = "COMMON_MESSAGE"
    /\ dataQueue' = GetData(i)
    /\ pool' = [pool EXCEPT ![i] = @ \cup {m.tx}]
    /\ starting' = IF Cardinality(pool'[i]) >= BLOCK_SIZE
                     THEN [starting EXCEPT ![i] = @ + 1]
                     ELSE starting
    /\ UNCHANGED <<sent, roundVars, clientVars, chain, admitted, created, queued,
                   resender, stopVars>>

\* Only the primary takes a request, and only while no other is in progress.
AcceptsRequest(i) ==
    /\ i = Primary
    /\ state[i] = "PRE_PREPARE"
    /\ ~bRequestRecieved[i]

\* Faulty: the number is not advanced (uiCurrentRequestNumber for ...Number++).
KeepNumber(i) == UNCHANGED uiCurrentRequestNumber

TakeNumber(i) == uiCurrentRequestNumber' = [uiCurrentRequestNumber EXCEPT ![i] = @ + 1]

HandleRequest(i, m) ==
    /\ m.type = "REQUEST"
    /\ AcceptsRequest(i)
    /\ bRequestRecieved' = [bRequestRecieved EXCEPT ![i] = TRUE]
    /\ TakeNumber(i)
    /\ dataQueue' = PostData(GetData(i), PrePrepareMsg(uiCurrentRequestNumber[i], m.request))
    /\ UNCHANGED <<sent, state, requestLog, committed, clientVars, dataVars, threadVars,
                   stopVars>>

\* A REPLY is for this node if it asked for a block and waits, between rounds.
AcceptsReply(i, m) ==
    /\ m.dest = i
    /\ state[i] = "PRE_PREPARE"
    /\ bIsWaitingForReply[i].first

\* l.252.
HandleReply(i, m) ==
    /\ m.type = "REPLY"
    /\ AcceptsReply(i, m)
    /\ dataQueue' = GetData(i)
    /\ replying' = [replying EXCEPT ![i] = Replying("compare", m.block)]
    /\ UNCHANGED <<sent, roundVars, bIsWaitingForReply, uiRepliesRecieved, dataVars,
                   threadVars, stopVars>>

\* A PREPREPARE under a number already logged must carry the logged request.
AcceptsPrePrepare(i, m) ==
    /\ state[i] = "PRE_PREPARE"
    /\ Logged(i, m.n) => requestLog[i][m.n].request = m.request

HandlePrePrepare(i, m) ==
    /\ m.type = "PREPREPARE"
    /\ AcceptsPrePrepare(i, m)
    /\ requestLog' =
         IF Logged(i, m.n)
           THEN requestLog
           ELSE LogWith(i, m.n, NewEntry(m.request))
    /\ dataQueue' = PostData(GetData(i), PrepareMsg(i, m.n, m.request))
    /\ state' = [state EXCEPT ![i] = "PREPARE"]
    /\ UNCHANGED <<sent, uiCurrentRequestNumber, bRequestRecieved, committed, clientVars,
                   dataVars, threadVars, stopVars>>

\* Faulty: a node's own PREPARE does not count.
AcceptsOthersPrepare(i, m) ==
    state[i] = "PREPARE" /\ Logged(i, m.n) /\ m.nodeId # i

\* A PREPARE counts for whatever logged number it carries, not only for the
\* number of the round in progress.
AcceptsPrepare(i, m) == state[i] = "PREPARE" /\ Logged(i, m.n)

HandlePrepare(i, m) ==
    LET entry == requestLog[i][m.n]
        count == entry.prepares + 1
    IN
    /\ m.type = "PREPARE"
    /\ AcceptsPrepare(i, m)
    /\ \/ /\ count < PrepareQuorum(N)
          /\ requestLog' = LogWith(i, m.n, [entry EXCEPT !.prepares = count])
          /\ dataQueue' = GetData(i)
          /\ state' = state
       \/ /\ count >= PrepareQuorum(N)
          /\ requestLog' = LogWith(i, m.n, [entry EXCEPT !.prepares = count, !.bPrepared = TRUE])
          /\ dataQueue' = PostData(GetData(i), CommitMsg(i, m.n, entry.request))
          /\ state' = [state EXCEPT ![i] = "COMMIT"]
    /\ UNCHANGED <<sent, uiCurrentRequestNumber, bRequestRecieved, committed, clientVars,
                   dataVars, threadVars, stopVars>>

\* A COMMIT counts for whatever prepared number it carries.
AcceptsCommit(i, m) ==
    /\ state[i] = "COMMIT"
    /\ Logged(i, m.n)
    /\ requestLog[i][m.n].request = m.digest
    /\ requestLog[i][m.n].bPrepared

\* Faulty: the flag of the primary's round is not reset.
EndRoundKeepingFlag(i) ==
    /\ state' = [state EXCEPT ![i] = "PRE_PREPARE"]
    /\ UNCHANGED bRequestRecieved

EndRound(i) ==
    /\ state' = [state EXCEPT ![i] = "PRE_PREPARE"]
    /\ bRequestRecieved' = [bRequestRecieved EXCEPT ![i] = FALSE]

\* Faulty: the search ends with the first transaction found.
WithoutFirst(p, b) == p \ {t \in b : \A u \in b : t <= u}

\* l.410-421.
Without(p, b) == p \ b

\* l.395-437: the round ends, whatever number is committed.  A block that is
\* the last of the chain already is left alone and gets no reply; the block
\* this node waits for is replied to, but added only with the replies; any
\* other block is added and its transactions leave the pool.
CommitRequest(i, n, request) ==
    /\ EndRound(i)
    /\ committed' = [committed EXCEPT ![i] = Append(@, n)]
    /\ \/ /\ LastBlock(i) = request.block
          /\ dataQueue' = GetData(i)
          /\ UNCHANGED dataVars
       \/ /\ LastBlock(i) # request.block
          /\ dataQueue' = PostData(GetData(i), ReplyMsg(i, request))
          /\ IF bIsWaitingForReply[i] = Pair(TRUE, request.block)
               THEN UNCHANGED dataVars
               ELSE /\ chain' = [chain EXCEPT ![i] = Append(@, request.block)]
                    /\ pool' = [pool EXCEPT ![i] = Without(@, request.block)]

HandleCommit(i, m) ==
    LET entry == requestLog[i][m.n]
        count == entry.commits + 1
    IN
    /\ m.type = "COMMIT"
    /\ AcceptsCommit(i, m)
    /\ requestLog' = LogWith(i, m.n, [entry EXCEPT !.commits = count])
    /\ \/ /\ count < CommitQuorum(N)
          /\ dataQueue' = GetData(i)
          /\ UNCHANGED <<state, bRequestRecieved, committed, dataVars>>
       \/ /\ count >= CommitQuorum(N)
          /\ CommitRequest(i, m.n, entry.request)
    /\ UNCHANGED <<sent, uiCurrentRequestNumber, clientVars, threadVars, stopVars>>

Accepts(i, m) ==
    \/ m.type = "COMMON_MESSAGE"
    \/ m.type = "REQUEST"    /\ AcceptsRequest(i)
    \/ m.type = "REPLY"      /\ AcceptsReply(i, m)
    \/ m.type = "PREPREPARE" /\ AcceptsPrePrepare(i, m)
    \/ m.type = "PREPARE"    /\ AcceptsPrepare(i, m)
    \/ m.type = "COMMIT"     /\ AcceptsCommit(i, m)

\* Everything else is taken off the queue and forgotten.
DropMessage(i, m) ==
    /\ ~Accepts(i, m)
    /\ dataQueue' = GetData(i)
    /\ UNCHANGED <<sent, roundVars, clientVars, dataVars, threadVars, stopVars>>

\* A message from the queue, m_bStopped being found false before and after
\* GetData (l.154, l.162).
TakeMessage(i) ==
    /\ listening[i] /\ ~stopped[i]
    /\ replying[i] = NotReplying
    /\ dataQueue[i] # <<>>
    /\ LET m == Head(dataQueue[i]) IN
          \/ HandleCommonMessage(i, m)
          \/ HandleRequest(i, m)
          \/ HandleReply(i, m)
          \/ HandlePrePrepare(i, m)
          \/ HandlePrepare(i, m)
          \/ HandleCommit(i, m)
          \/ DropMessage(i, m)

(* The rest of the REPLY handler, in which AddNewBlock threads and Stop() may  *)
(* come between any two steps.                                                 *)

\* Faulty: any REPLY will do.
CompareNothing(i) ==
    /\ replying[i].pc = "compare"
    /\ replying' = [replying EXCEPT ![i] = Replying("count", bIsWaitingForReply[i].second)]
    /\ UNCHANGED <<netVars, roundVars, bIsWaitingForReply, uiRepliesRecieved, dataVars,
                   threadVars, stopVars>>

\* l.256: is the block this node's block now?
CompareReply(i) ==
    /\ replying[i].pc = "compare"
    /\ replying' = [replying EXCEPT ![i] =
                      IF @.block = bIsWaitingForReply[i].second
                        THEN Replying("count", @.block)
                        ELSE NotReplying]
    /\ UNCHANGED <<netVars, roundVars, bIsWaitingForReply, uiRepliesRecieved, dataVars,
                   threadVars, stopVars>>

\* l.259: only the (f + 1)st REPLY goes on.
CountReply(i) ==
    /\ replying[i].pc = "count"
    /\ uiRepliesRecieved' = [uiRepliesRecieved EXCEPT ![i] = @ + 1]
    /\ replying' = [replying EXCEPT ![i] =
                      IF uiRepliesRecieved[i] + 1 < ReplyQuorum(N)
                        THEN NotReplying
                        ELSE Replying("add", @.block)]
    /\ UNCHANGED <<netVars, roundVars, bIsWaitingForReply, dataVars, threadVars, stopVars>>

\* l.263: the client's own chain gets the block the node waits for now.
AddReplied(i) ==
    /\ replying[i].pc = "add"
    /\ chain' = [chain EXCEPT ![i] = Append(@, bIsWaitingForReply[i].second)]
    /\ replying' = [replying EXCEPT ![i].pc = "clear"]
    /\ UNCHANGED <<netVars, roundVars, bIsWaitingForReply, uiRepliesRecieved, pool,
                   threadVars, stopVars>>

\* l.264-265.
ClearWaiting(i) ==
    /\ replying[i].pc = "clear"
    /\ bIsWaitingForReply' = [bIsWaitingForReply EXCEPT ![i].first = FALSE]
    /\ uiRepliesRecieved' = [uiRepliesRecieved EXCEPT ![i] = 0]
    /\ replying' = [replying EXCEPT ![i] = NotReplying]
    /\ UNCHANGED <<netVars, roundVars, dataVars, threadVars, stopVars>>

GoOnReplying(i) ==
    \/ CompareReply(i) \/ CountReply(i) \/ AddReplied(i) \/ ClearWaiting(i)

\* A listener in the middle of a handler goes on whether or not it is stopped.
ListenMessages(i) == TakeMessage(i) \/ GoOnReplying(i)

-----------------------------------------------------------------------------
(* AddNewBlock threads of node i *)

\* l.456: no new block while the node waits for one.
TestWaiting(i) ==
    /\ starting[i] > 0
    /\ starting' = [starting EXCEPT ![i] = @ - 1]
    /\ admitted' = IF bIsWaitingForReply[i].first
                     THEN admitted
                     ELSE [admitted EXCEPT ![i] = @ + 1]
    /\ UNCHANGED <<netVars, roundVars, clientVars, dataVars, created, queued, resender,
                   stopVars>>

\* Faulty: the pool is not tested again under its mutex.
TakeWhatIsThere(i) ==
    /\ admitted[i] > 0
    /\ admitted' = [admitted EXCEPT ![i] = @ - 1]
    /\ pool' = [pool EXCEPT ![i] = @ \ Chunk(@)]
    /\ created' = [created EXCEPT ![i] = @ \cup {Chunk(pool[i])}]
    /\ UNCHANGED <<netVars, roundVars, clientVars, chain, starting, queued, resender,
                   stopVars>>

\* l.459-471, under the pool mutex: the thread cuts the first BLOCK_SIZE
\* transactions out of the pool, or returns if another thread already has.
TakeChunk(i) ==
    /\ admitted[i] > 0
    /\ admitted' = [admitted EXCEPT ![i] = @ - 1]
    /\ \/ /\ Cardinality(pool[i]) < BLOCK_SIZE
          /\ UNCHANGED <<pool, created>>
       \/ /\ Cardinality(pool[i]) >= BLOCK_SIZE
          /\ pool' = [pool EXCEPT ![i] = @ \ Chunk(@)]
          /\ created' = [created EXCEPT ![i] = @ \cup {Chunk(pool[i])}]
    /\ UNCHANGED <<netVars, roundVars, clientVars, chain, starting, queued, resender,
                   stopVars>>

\* l.502: the node now waits for this block, whatever it waited for before.
\* uiRepliesRecieved keeps its count.
SetWaiting(i) ==
    \E b \in created[i] :
        /\ created' = [created EXCEPT ![i] = @ \ {b}]
        /\ queued' = [queued EXCEPT ![i] = @ \cup {b}]
        /\ bIsWaitingForReply' = [bIsWaitingForReply EXCEPT ![i] = Pair(TRUE, b)]
        /\ UNCHANGED <<netVars, roundVars, uiRepliesRecieved, replying, dataVars, starting,
                       admitted, resender, stopVars>>

\* l.510: one thread of the node resends at a time.
LockResender(i) ==
    /\ resender[i] = NoResender
    /\ \E b \in queued[i] :
          /\ queued' = [queued EXCEPT ![i] = @ \ {b}]
          /\ resender' = [resender EXCEPT ![i] = Resending(b, "loop", 0)]
    /\ UNCHANGED <<netVars, roundVars, clientVars, dataVars, starting, admitted, created,
                   stopVars>>

\* l.513, l.516: the loop's condition, and whether the last block of the chain
\* is the one waited for.
TestResender(i) ==
    LET r == resender[i]
        goesOn == ~stopped[i] /\ bIsWaitingForReply[i] = Pair(TRUE, r.block)
    IN
    /\ r.pc = "loop"
    /\ \/ /\ ~goesOn
          /\ resender' = [resender EXCEPT ![i] = NoResender]
       \/ /\ goesOn
          /\ LastBlock(i) = r.block
          /\ resender' = [resender EXCEPT ![i] = Resending(r.block, "committed", r.posts)]
       \/ /\ goesOn
          /\ LastBlock(i) # r.block
          /\ r.posts < MaxPosts[i]
          /\ resender' = [resender EXCEPT ![i] = Resending(r.block, "post", r.posts)]
    /\ UNCHANGED <<netVars, roundVars, clientVars, dataVars, starting, admitted, created,
                   queued, stopVars>>

\* Faulty: the loop is left without clearing the flag.
LeaveLoop(i) ==
    /\ resender[i].pc = "committed"
    /\ resender' = [resender EXCEPT ![i] = NoResender]
    /\ UNCHANGED <<netVars, roundVars, clientVars, dataVars, starting, admitted, created,
                   queued, stopVars>>

\* l.524-526, l.540.
StopWaiting(i) ==
    /\ resender[i].pc = "committed"
    /\ bIsWaitingForReply' = [bIsWaitingForReply EXCEPT ![i].first = FALSE]
    /\ uiRepliesRecieved' = [uiRepliesRecieved EXCEPT ![i] = 0]
    /\ resender' = [resender EXCEPT ![i] = NoResender]
    /\ UNCHANGED <<netVars, roundVars, replying, dataVars, starting, admitted, created, queued,
                   stopVars>>

\* l.529-536: the request is posted, again and again, RESENDING_TIMEOUT apart.
PostRequest(i) ==
    LET r == resender[i] IN
    /\ r.pc = "post"
    /\ dataQueue' = PostData(dataQueue, RequestMsg([client |-> i, block |-> r.block]))
    /\ resender' = [resender EXCEPT ![i] = Resending(r.block, "loop", r.posts + 1)]
    /\ UNCHANGED <<sent, roundVars, clientVars, dataVars, starting, admitted, created,
                   queued, stopVars>>

AddNewBlock(i) ==
    \/ TestWaiting(i)
    \/ TakeChunk(i)
    \/ SetWaiting(i)
    \/ LockResender(i)
    \/ TestResender(i)
    \/ StopWaiting(i)
    \/ PostRequest(i)

-----------------------------------------------------------------------------
(* Stop *)

Stop(i) ==
    /\ i \in Stoppable
    /\ ~stopped[i]
    /\ stopped' = [stopped EXCEPT ![i] = TRUE]
    /\ UNCHANGED <<netVars, roundVars, clientVars, dataVars, threadVars, listening>>

\* The listener leaves its loop at l.154; or at l.162, a message in hand; or
\* at l.200, a transaction in the pool and no thread started for it.
EndListener(i) ==
    /\ stopped[i] /\ listening[i]
    /\ replying[i] = NotReplying
    /\ listening' = [listening EXCEPT ![i] = FALSE]
    /\ \/ UNCHANGED <<dataQueue, pool>>
       \/ /\ dataQueue[i] # <<>>
          /\ dataQueue' = GetData(i)
          /\ pool' = pool
       \/ /\ dataQueue[i] # <<>>
          /\ Head(dataQueue[i]).type = "COMMON_MESSAGE"
          /\ dataQueue' = GetData(i)
          /\ pool' = [pool EXCEPT ![i] = @ \cup {Head(dataQueue[i]).tx}]
          /\ Cardinality(pool'[i]) >= BLOCK_SIZE
    /\ UNCHANGED <<sent, roundVars, clientVars, chain, threadVars, stopped>>

-----------------------------------------------------------------------------

Next ==
    \E i \in Node :
        \/ SendCommonMessage(i)
        \/ ListenMessages(i)
        \/ AddNewBlock(i)
        \/ Stop(i)
        \/ EndListener(i)

Spec == Init /\ [][Next]_vars

\* The operating system keeps running every listener that has a message, and
\* every AddNewBlock thread that can step.
FairSpec ==
    /\ Spec
    /\ \A i \in Node : WF_vars(ListenMessages(i)) /\ WF_vars(AddNewBlock(i))

-----------------------------------------------------------------------------
(* Properties *)

NetType ==
    /\ dataQueue \in [Node -> Seq(Message)]
    /\ sent \in 0..MaxTx

LogType ==
    /\ DOMAIN requestLog = Node
    /\ \A i \in Node : /\ DOMAIN requestLog[i] \subseteq Nat
                       /\ \A n \in DOMAIN requestLog[i] : requestLog[i][n] \in LogEntry

RoundType ==
    /\ state \in [Node -> {"PRE_PREPARE", "PREPARE", "COMMIT"}]
    /\ uiCurrentRequestNumber \in [Node -> Nat]
    /\ bRequestRecieved \in [Node -> BOOLEAN]
    /\ committed \in [Node -> Seq(Nat)]

WaitingPair  == {Pair(FALSE, NoBlock)} \cup [first : BOOLEAN, second : Block]
ReplyHandler ==
    {NotReplying} \cup [pc : {"compare", "count", "add", "clear"}, block : Block]

ClientType ==
    /\ bIsWaitingForReply \in [Node -> WaitingPair]
    /\ uiRepliesRecieved \in [Node -> Nat]
    /\ replying \in [Node -> ReplyHandler]
    /\ \A i \in Node : replying[i] # NotReplying => bIsWaitingForReply[i].second \in Block

DataType ==
    /\ pool \in [Node -> SUBSET Tx]
    /\ chain \in [Node -> Seq(Block \cup {GenesisBlock})]

Resender ==
    {NoResender} \cup [block : Block, pc : {"loop", "committed", "post"}, posts : Nat]

ThreadType ==
    /\ starting \in [Node -> Nat]
    /\ admitted \in [Node -> Nat]
    /\ created \in [Node -> SUBSET Block]
    /\ queued \in [Node -> SUBSET Block]
    /\ resender \in [Node -> Resender]

StopType ==
    /\ stopped \in [Node -> BOOLEAN]
    /\ listening \in [Node -> BOOLEAN]

\* Every variable holds values of its type.  In particular every block, in a
\* message, a log, a chain or the hands of a thread, is whole: several threads of
\* a node, started one too many (l.196), find the pool shorter when they come to
\* cut it (l.462).  And the REPLY handler always has a block to add.
TypeOK ==
    NetType /\ LogType /\ RoundType /\ ClientType /\ DataType /\ ThreadType /\ StopType

\* Two nodes never log different requests under one number: the primary gives
\* a number once (l.230), and a node keeps the first PREPREPARE it logs
\* (l.284-289).  This is the agreement PBFT's normal case is for, and holds
\* whatever the network drops and whoever stops.
SequenceAgreement ==
    \A i, j \in Node : \A n \in DOMAIN requestLog[i] \cap DOMAIN requestLog[j] :
        requestLog[i][n].request = requestLog[j][n].request

\* The messages in some queues, the numbers PREPREPAREs in the network give to
\* requests, and those the logs do.
Queued(queues) == UNION {{queues[i][k] : k \in 1..Len(queues[i])} : i \in Node}

PrePrepared == {<<m.n, m.request>> : m \in {q \in Queued(dataQueue) : q.type = "PREPREPARE"}}

LoggedRequests ==
    UNION {{<<n, requestLog[i][n].request>> : n \in DOMAIN requestLog[i]} : i \in Node}

Assignments == PrePrepared \cup LoggedRequests

\* What SequenceAgreement rests on: of all PREPREPAREs, in a queue or logged at
\* some node, no two give one number to different requests, and the primary's
\* counter (l.230) is past every number given.
NumbersGivenOnce ==
    /\ \A a, b \in Assignments : a[1] = b[1] => a[2] = b[2]
    /\ \A a \in Assignments : a[1] < uiCurrentRequestNumber[Primary]

\* l.344, "prepared predicate is true on this line": when a node marks a number
\* prepared, 2f different nodes have logged the request.  The code counts
\* messages, not senders, so this rests on nobody sending PREPARE twice.
PreparedHasQuorum ==
    \A i \in Node : \A n \in DOMAIN requestLog[i] :
        requestLog[i][n].bPrepared =>
            Cardinality({j \in Node : Logged(j, n)}) >= PrepareQuorum(N)

\* l.390, "committed-local predicate is true on this line": when a node commits
\* a number, f + 1 different nodes have it prepared.  The code counts messages:
\* a node whose round a stale COMMIT has ended sends COMMIT for the same number
\* again with a stale PREPARE, and its own COMMITs make the quorum.
CommittedHasQuorum ==
    \A i \in Node : \A k \in 1..Len(committed[i]) :
        Cardinality({j \in Node : /\ Logged(j, committed[i][k])
                                  /\ requestLog[j][committed[i][k]].bPrepared})
            >= CommitQuorum(N)

\* Nodes that have taken the same number of messages off their queues have the
\* same protocol state and log: the network gives everyone the same sequence,
\* and nothing a handler decides by differs between nodes.  (Holds while no
\* queue overflows.)
Lockstep ==
    \A i, j \in Node :
        (listening[i] /\ listening[j] /\ Len(dataQueue[i]) = Len(dataQueue[j])) =>
            state[i] = state[j] /\ requestLog[i] = requestLog[j]

\* Of two nodes' sequences of committed numbers one is a prefix of the other.
\* (Holds while no queue overflows.)
CommitOrderAgreement ==
    \A i, j \in Node :
        \A k \in 1..Len(committed[i]) :
            k <= Len(committed[j]) => committed[i][k] = committed[j][k]

\* While 2f nodes are listening, the primary among them, no round can be left
\* half done: once everybody has handled everything, all are between rounds and
\* the primary takes requests again (l.219, l.396).  Otherwise the primary
\* would drop every request from then on.
NoStuckRound ==
    LET running == {i \in Node : ~stopped[i]} IN
    (/\ Primary \in running
     /\ Cardinality(running) >= PrepareQuorum(N)
     /\ \A i \in running : dataQueue[i] = <<>>)
    => /\ \A i \in running : state[i] = "PRE_PREPARE"
       /\ ~bRequestRecieved[Primary]

\* The blocks a node has taken for itself and not given up.
OwnBlocks(i) ==
    created[i] \cup queued[i] \cup ({resender[i].block} \ {NoBlock})

ChainBlocks(i) == {chain[i][k] : k \in 1..Len(chain[i])}

\* Any two blocks of the system are the same or share no transaction: all nodes
\* cut their pools (l.468) at the same places, although they do it at different
\* times and a commit takes transactions out of the pool in between (l.410-421).
\* So no transaction is committed in two blocks.  (Holds while no queue
\* overflows.)
BlocksDisjoint ==
    LET blocks == UNION {OwnBlocks(i) \cup ChainBlocks(i) : i \in Node} IN
    \A a, b \in blocks : a = b \/ a \cap b = {}

\* Some node's consensus has committed a request for b.
Committed(b) ==
    \E j \in Node : \E k \in 1..Len(committed[j]) :
        requestLog[j][committed[j][k]].request.block = b

\* A node adds only blocks some node's consensus has committed, also as a client,
\* on the strength of REPLYs alone (l.263), and also when an AddNewBlock thread or
\* Stop() comes between the steps of the handler; except when a thread sets
\* another block (l.502) after the REPLY was compared (l.256): then the block
\* that is added is the thread's.
AddsCommitted ==
    [][\A i \in Node : chain'[i] # chain[i] =>
          \/ Committed(LastBlock(i))'
          \/ /\ replying[i].pc = "add"
             /\ replying[i].block # bIsWaitingForReply[i].second]_vars

\* A block a running node waits for has a thread of the node that will go on
\* resending it; were it left without one the node would refuse to create
\* blocks for good (l.456).
WaitingIsResent ==
    \A i \in Node :
        (~stopped[i] /\ bIsWaitingForReply[i].first) =>
            \/ bIsWaitingForReply[i].second \in queued[i]
            \/ bIsWaitingForReply[i].second = resender[i].block

\* A round the primary has begun ends: it will accept requests again.
RoundEnds == bRequestRecieved[Primary] ~> ~bRequestRecieved[Primary]

\* A block is in a chain once: l.515 means to stop resending a block that "has
\* already been committed", l.400 to ignore its second commit.
NoDuplicateBlock ==
    \A i \in Node : \A k, l \in 1..Len(chain[i]) :
        chain[i][k] = chain[i][l] => k = l

\* Of two nodes' chains one is a prefix of the other (PBFTNode.h:9: the nodes
\* perform PBFT, under which they execute the same requests in the same order).
ChainsAgree ==
    \A i, j \in Node : \A k \in 1..Len(chain[i]) :
        k <= Len(chain[j]) => chain[i][k] = chain[j][k]

=============================================================================
