# Models and proofs of BlockchainSimulator

TLA+ models of the simulator in `src/BlockchainSimulator`, the TLC
configurations that check them, and theorems about them checked by TLAPS. Line
numbers in modules refer to the `.cpp` file the module's header names
(`PBFTNode.cpp` in `PBFTNode`, `sha256.cpp` in `SHA256`, ...).

## 1. The system

One process simulates a blockchain network. `main` starts nodes through a
factory, sleeps, and stops them. Every node is a copy of a `PBFTNode` object
running in threads of its own; all nodes share one network object and one vector
of public keys.

| component | state | operations | behaviours that are hard | correct when |
|---|---|---|---|---|
| `PBFTNode`, consensus (listener thread) | `m_state`: phase, request counter, request log; the local flag `bRequestRecieved` | one handler per message type in `ListenMessages` | messages of an old round in a new one; lost messages; one flag that decides whether requests are ever taken again | nodes agree on the request of a number, the quorums are real ones, all decide alike, rounds end |
| `PBFTNode`, client (`AddNewBlock` threads) | `bIsWaitingForReply`, `uiRepliesRecieved`, the resender mutex; pool and chain, shared with the listener | cut a block out of the pool, wait for it, resend its REQUEST | several threads per node, started by every transaction that finds the pool full, with two unlocked accesses to the shared flag | one block at a time; a block waited for is resent; no transaction in two blocks; no block twice |
| `PBFTNode`, sender and life cycle | `m_bStopped`, two mutexes | post a transaction every few seconds; `Stop`; destructor | `Stop` waits for a listener that may be asleep in `GetData`; detached threads outlive the node | `Stop` returns; nobody uses a destroyed node |
| quorum arithmetic | - | `f`, `2f`, `f + 1` | unsigned subtraction; numbers of nodes where `2f` does not fit | `f` is what the comment says; quorums meet; the network survives `f` stops |
| `NetworkManager1` | map from client to queue, mutex and semaphore; the map's mutex | `PostData`, `GetData`, `RegisterClient` | many posters; semaphore and queue change at different moments; a full queue drops data for one client only | same order for all; no read of an empty queue; no reader asleep over data; bounded queues |
| `PBFTDataPackage`, `DataPackage` | the fields of a message | serialisation, digest | digests depend on which optional fields are there | bytes, and so digests, tell packages apart by every field that goes into them |
| `Block`, `Blockchain` | vector of blocks | append, last block | a block is made at one time and added at another; the vector is read by one thread while another appends | previous hashes chain up; no index leads |
| `Node` | pool, `m_bStopped` | sender, listener, `Stop` | a listener is woken by messages only | a stopped node ends |
| factories | nodes, vector of keys, registrations | `RunNewNode` | keys, ids and registrations grow step by step under running nodes, and `f` with them | keys are there when looked up, queues when read; a round survives a join |
| `main` | - | start, sleep, stop | the next experiment begins while threads of the last may live | - |
| `NetworkManager` (old) | one promise, one shared future | `PostData`, `GetData` | readers take the future while a post replaces it | no exception, no broken promise, every waiter served |
| `MerkleTree` | leaves and inner nodes, a chain that grows | `RebuildTree`, `GetMerkleProof` | odd levels; a tree older than the chain | a proof leads to the root; a root stands for one chain |
| `sha256` | a buffer of two blocks, two lengths | `init`, `update`, `final` | pieces that end anywhere; one or two blocks of padding; what the buffer held before | what is compressed is the message and its padding |
| `ECDSASignatureManager`, `NodeLogger` | - | - | call a library; do nothing | - |
| `SBFTNode` and its packages | - | - | unfinished, not in the Visual Studio project | - |

Interaction: a sender posts COMMON_MESSAGE packages to everybody's queue. Each
listener puts them into its pool; when the pool has `BLOCK_SIZE` of them, it
starts an `AddNewBlock` thread, which takes a block out of the pool, sets
`bIsWaitingForReply` and posts a REQUEST every `RESENDING_TIMEOUT` seconds. The
primary, node 0, turns a REQUEST into a PREPREPARE with the next number; every
listener answers with PREPARE, after `2f` PREPAREs with COMMIT, and after `f + 1`
COMMITs adds the block and sends REPLY to the client, which adds the block
itself with `f + 1` REPLYs. The nodes see only what the network delivers; they
share no other state. Inside a node, the listener and the `AddNewBlock` threads
share pool, chain and `bIsWaitingForReply`.

`PROJECT.json` lists all components with what is left out of each, and under
`hazards` every place of the code that is hard to test.

## 2. The modules

| module | models | how state and actions correspond to the code |
|---|---|---|
| `PBFTQuorums` | the arithmetic of `f` | operators; `FaultBoundMod` with the unsigned wrap of the code, `FaultBound` without |
| `PBFTNode` | `PBFTNode.cpp` over an atomic network | a variable per member of `PBFTState`, named as there; one action per handler and, in `AddNewBlock`, one per stretch between accesses to shared state |
| `MCPBFTNode` | instances for TLC | bounds, symmetry, reductions |
| `NetworkManager1` | `NetworkManager1.cpp`, lock by lock | one action per lock, unlock, acquire, release, push and pop |
| `TotalOrderBroadcast` | what the network promises | abstract specification implemented by `NetworkManager1` |
| `WaitingForReply` | `AddNewBlock` threads and the listener of one node, access by access | a step per read or write of the pair's two members, the counter and the chain; the other nodes are what they may decide and reply |
| `NodeLifecycle` | sender, listener and resender threads, `Stop`, destructors, `main`'s loop | one action per lock, test, post or end; a mutex is the place of its owner |
| `NodeFactory` | `RunNewNode` of both factories | one action per statement, for composition |
| `PlainNodes` | `Node.cpp`, composed with `NodeFactory` | threads of the nodes already started run between the statements of `RunNewNode` |
| `JoiningRound` | a round of `PBFTNode.cpp`, composed with `NodeFactory` and `PBFTQuorums` | handlers with `f` computed from the keys of the moment |
| `SHA256` | `init`, `update`, `final` | a byte is its kind and number; the compression is the sequence of what it got |
| `PBFTDataPackage` | `GetRawData` and the packages handlers build | one action per place that builds a package |
| `Blockchain` | `Block.cpp`, `Blockchain.cpp` | making and adding are two actions; a hash is the tuple of what is hashed |
| `MerkleTree` | `MerkleTree.cpp` over `Blockchain` | levels as functions; rebuilding, proving and growing interleave |
| `NetworkManager` | `NetworkManager.cpp` | one action per statement of `PostData`; promises are numbered |
| `MCStandAlone` | instance for TLC of the parts that share no state with the consensus | one part at a time, see section 3 |
| `PBFTNodeProofs`, `PBFTRoundsProofs`, `PBFTOrderProofs` | theorems about `PBFTNode` | types and numbers; what counted messages prove; order |
| `NetworkManager1Proofs`, `NodeLifecycleProofs`, `WaitingForReplyProofs` | theorems about the module of that name | section 5 |
| `JoiningNodesProofs` | theorems about `PBFTQuorums`, `PlainNodes`, `JoiningRound` | section 5 |
| `StandAloneProofs` | theorems about `Blockchain`, `MerkleTree`, `NetworkManager`, `SHA256`, `PBFTDataPackage` | section 5 |

### PBFTNode

`dataQueue[i]` is the queue of node i in the network. `PostData` is one step for
all queues; that this is sound is what `RefinesBroadcast` of `NetworkManager1`
says (section 3). A message that finds a queue longer than `NETWORK_BUFFER_SIZE`
is dropped for that queue.

`ListenMessages(i)` takes the head of the queue and runs the handler its type and
`state[i]` select; what no handler accepts is taken and forgotten
(`DropMessage`). Every post of a handler is part of its action: the handlers are
the only code that changes the round's state, so nothing can tell a handler that
posts from one that posted a moment ago, except another node's message coming
between, which the total order of `dataQueue` allows anyway. The REPLY handler reads
the pair `bIsWaitingForReply` three times, at l.252, l.256 and l.263, and
`AddNewBlock` threads write it without a lock; so it is five actions
(`HandleReply`, `CompareReply`, `CountReply`, `AddReplied`, `ClearWaiting`), and
`replying[i]` is where the listener is among them and with which block. While it is
there it takes no other message, and neither a thread nor the flag `Stop` sets waits for it. The
COMMIT handler reads the pair once (l.403), and a thread that sets another block after
that might have done so after the handler; it is one action. The finer
interleavings, of the pair's two members and of the counter, are those of
`WaitingForReply`.

`AddNewBlock` threads are anonymous: `starting` and `admitted` count those before
the test of l.456 and between it and the pool mutex, `created` holds the blocks
of those that have cut one out, `queued` of those that wait for the resender
mutex, `resender` is the one that holds it, with its place in the loop. Statistics
(`waitingTimes`, `m_puiTotalResendingsNumber`) and logging are left out.

A transaction is its number in the order of posting. A pool is filled in this
order and only emptied otherwise, so it is the set of its transactions; a block
is the set of its transactions, because its hash depends on nothing else
(`Block.cpp:15`), neither on index nor on the previous hash. Hashes do not
collide. The digest of a request is the request: it covers the client, the block
and a timestamp, which is taken once per request. The view is always 0. Every
node signs with its own key, so `Verify` never fails; its exception exit (l.178)
is not taken. All nodes are registered before the first message.

`Stop(i)` sets the flag; `EndListener(i)` are the three exits of the listener. A
listener asleep in `GetData` may leave in the model without a message, which adds
behaviours and takes none away. `committed` is a history variable.

### NetworkManager1

Each thread has a program counter; a mutex is a variable with its holder. The
drop of a message for a full queue happens under the map's mutex, like the rest
of the loop; so a reader that makes room meanwhile makes the drop less likely,
never the order different. `NetworkManager1` implements `TotalOrderBroadcast`
with the datum of the poster in the loop added to the inboxes it has not come to
(`InFlight`): seen from the clients a post happens when its poster gets the
mutex, and a drop is a loss of the newest datum of a full inbox.

### WaitingForReply

`PBFTNode` with one node and finer grain. `first` and `second` are the members
of `bIsWaitingForReply`, which l.502 assigns one after the other; l.252 and l.256
read them one after the other. Of the other nodes it assumes only that they send no
REPLY to a node that has posted no REQUEST. They may commit any block any number of
times (`Decide`), at the request of another node that has cut the same one, or again
for a REQUEST sent again or a late COMMIT of an old number; this node commits it with
them or not, and each of the others sends it a REPLY each time or none. A thread whose
`pc` is `"none"` is never started, so that one instance has one and two threads.

### NodeLifecycle

`std::thread(*node)` copies the node, sharing the mutexes and the flag; so a node
has two copies, the thread's and the factory's, and both destructors lock the
resender mutex. `std::lock` gets its mutexes when all are free. `Handle` posts or
does not, as any handler may.

### Modules of the pure parts

In `SHA256` sizes are parameters, and `Message(from, to)` is the message's bytes
by number: losing, repeating or moving one shows. `PBFTDataPackage` puts numbers
of few values into fields of few bytes and does the shifts as they are. In
`Blockchain` a block stays available after it is added, as a block may be
committed again; data and transactions are atoms. `MerkleTree` keeps the trees it
has had as a history, and compares them with those of all other chains that begin
with the genesis block (`OtherTrees`), as other nodes may have. `Power`, `Levels` and `PlaceAbove` are recursive functions on
the naturals: how many numbers so many bytes hold, the passes of the loop at
MerkleTree.cpp:31, and where the chain of `parent` pointers (l.47-48) leads. A hash is
the tuple of what is hashed, so that no block has the hash of an inner node.

## 3. The runs

| run | instance | shows |
|---|---|---|
| `TwoNodes` | 2 nodes, 2 blocks of 2, REQUESTs by the primary, fair | `TypeOK`; a block waited for always has its thread (`WaitingIsResent`); nodes add committed blocks (`AddsCommitted`), stale replies included; nodes cut pools at the same places (`BlocksDisjoint`); every round ends (`RoundEnds`) |
| `Rounds` | 3 nodes, 2 transactions, listeners up to 10 messages apart, `n2` may stop at any time | `Lockstep`, `CommitOrderAgreement` with messages of round 0 handled in round 1; `NoStuckRound` of the two that remain |
| `Overflow` | 3 nodes, buffers of 1 | `SequenceAgreement`, `NumbersGivenOnce` and `PreparedHasQuorum` when nodes lose different messages |
| `Network` | 2 posters of 3 data, 2 clients, buffer of 1, fair | `SemaphoreCounts`, `NeverPopsEmpty`, `QueueExclusive`, `WithinCapacity`, `RefinesBroadcast`, `QueuesDrain` |
| `WaitingRaces` | 1 or 2 threads, any number of REQUESTs, one block of another node, 4 decisions, N = 3 | `ReplySeesBlock`, `WaitingHasThread`, `GivesUpOnlyAdded` |
| `Lifecycle` | 2 nodes, 2 `AddNewBlock` threads each (one in the loop), buffer of 1, fair | `StoppedIsQuiet`, `ResenderOutlived`, `StopReturns`, `NodesEnd` |
| `JoiningRound` | 1 to 5 nodes | `RoundSurvivesJoin`, `CommitsAsAsked` |
| `StandAlone` | see below, fair | `StreamKept`, `PadsAsStandard`; `BytesTellApart`; `IndexNotAhead`; `ProofLeadsToRoot`, `RootNamesChain`; `NoBrokenPromise`, `ThrowsNothing`, `OldDatumWhilePosting`, `WaiterServed`; `KeyOfSender`, `ReaderRegistered`, `StoppedNodeEnds` |
| `CommittedHasQuorum` | 3 nodes, one block, 3 REQUESTs by one backup | violated: a node commits what no other has prepared |
| `NoDuplicateBlock` | 2 nodes, 2 blocks of 1, one asked for by each, 2 REQUESTs per thread | violated: a REQUEST sent again gets its block into a chain twice |
| `ChainsAgree` | 2 nodes, 2 blocks of 1 | violated: a client adds its own block late, after a later one |
| `RightBlockAdded` | 2 threads, N = 3 | violated: the block added is not the one compared |

What holds by theorem alone is not run again: the types of `NodeLifecycle`,
`NetworkManager` and `NetworkManager1`, `Chained`, `LengthsAgree` and `PaddingFits`.

`CHECK_DEADLOCK FALSE` everywhere: with `MaxTx` transactions posted and
`MaxPosts` REQUESTs per thread sent, the bounded model comes to rest, as the
program does when all nodes have stopped.

Bounds. `MaxTx` bounds transactions, and so blocks: two blocks are what it takes
for a round to meet messages of another, for two threads of a node to meet, and
for two nodes to compete. `MaxPosts` bounds resending: a REQUEST sent again is in `NoDuplicateBlock`, the race
of two clients for one block, which every node makes, in `ChainsAgree`, and three
REQUESTs for one block are in `CommittedHasQuorum`. Two nodes have
`f = 1`: two PREPAREs and two COMMITs, from everybody. Three nodes have `f = 1`
too and can do without one, which is what staleness and stops need. With a buffer of
1 a queue holds two messages, and every node can lose messages of a round. `TwoNodes`
has blocks of two transactions, so that a pool can hold a part of a block, a thread can
find fewer transactions than it was started for, and two blocks can share one
transaction of their two. In the other runs blocks are of one. `WaitingRaces`
has two threads, the fewest that race, and four decisions, so that a block is
decided and replied to again after it was added or given up, and the other one
twice as well. Five nodes in `JoiningRound`
are the fewest with which `f` changes in the middle of a round (N = 4 has
`f = 1`, N = 5 has 2).

`StandAlone` has blocks of 5 bytes with a length field of 2 and messages of up to
18 bytes: every remainder, three whole blocks, and both numbers of padding blocks
occur; `Word` of 128 lets the number of bits overflow. Packages have fields of 2
and 3 bytes over bits, at most four at a time. Chains of up to 5 blocks give
trees of depth 1 to 3, with odd levels at the leaves and above, compared with those of
the chains of up to 4 different blocks there are. Two posters, two
readers and four posts are enough for a reader to come back twice during a post.
Two plain nodes are enough for one to run while the other is being made. Its
parts have no variable in common and each property is about one of them; so each
initial state picks a part that runs, and the others stand still.

Reductions are action constraints that order steps. `OneDawdles`, of `TwoNodes`: while
threads of both nodes are on their way to their loops, no message moves; so either
node's threads may be as slow as they like, but not both nodes' at once. They share nothing
except through messages. With three nodes, under
`PreparedFirst`, threads get to their loop before any message moves, and
the steps of a REPLY handler follow one another. This leaves out the behaviours of a
slow thread and of a handler interrupted; they are what `TwoNodes` explores. `QuietFirst` adds that a message that
changes only counters of its node is handled before anything else. Such a step
neither posts nor touches what another thread reads, and it commutes with every other step as
long as no queue can overflow; so `Overflow`, where taking a message early makes room, has
`PreparedFirst` only. `PrimaryAhead` and `ResendsOnly`, of runs that
look for a behaviour and find it, only make the search short. `StopsAtOnce` lets the listener of a stopped node leave before anything else
happens: with the flag set it handles nothing, and nobody reads the flag. `Heard`,
a `VIEW`, forgets the queue of a node whose listener has left. `Lag` bounds how far behind
a listener may be; at 10 the stale PREPARE that makes a node send COMMIT for an
old number is reached (at 9 it is not). `SYMMETRY` permutes the nodes that are
not the primary, in runs without temporal properties.

Fairness. `PBFTNode!FairSpec` has weak fairness of each node's listener and of
its `AddNewBlock` threads: they are operating system threads, none of them
waits for anything but the resender mutex, which its holder always gives up. The
senders need none. `NetworkManager1!FairSpec` has weak fairness of each poster and each
reader; nothing is assumed of the order in which a mutex is granted.
`NodeLifecycle!Fairness` has weak fairness of each thread and of `main` once it has
called `Stop`; nothing makes `main` call it. Weak fairness of `ReturnFromStop` is
enough, because a node with its flag set gives its mutexes up for good.
`OldFairness` and `PlainFairness` have weak fairness of each thread inside a call;
nothing makes a thread post, and a poster of the old network may wait for ever
for others who post.

Where code and comments part is listed under `findings` in `PROJECT.json`.

## 4. What a property rests on

- `Lockstep`, `CommitOrderAgreement` and `BlocksDisjoint` hold as long as no
  queue overflows: the network's total order is then the same for all. The code
  has no second line of defence: stale PREPAREs and COMMITs, which its handlers
  accept, do no harm to agreement only because they are stale for everybody.
- `PreparedHasQuorum` needs nothing: a node posts one PREPARE for a number,
  because only one PREPREPARE of it exists and a handler takes it once, so that
  the messages counted are nodes.
- `CommittedHasQuorum` is false. A node that is put back into PREPARE by a later
  round sends COMMIT for an old number again when a late PREPARE comes, and `f + 1`
  COMMITs may be those of one node. What holds of a commit, whatever is lost, is
  the theorem `CommitsArePrepared`: the number is prepared at the node that
  commits it, and `2f` nodes have logged it.
- `SequenceAgreement` needs nothing: only the primary gives numbers, each once,
  and a log keeps its first PREPREPARE.
- `NoStuckRound` needs `2f` listeners, the primary among them, and no overflow.
  By theorem `PreparesWithoutF`, `f` stopped nodes leave enough unless the number
  of nodes is 2 modulo 3. (For 25 nodes, as in `main`, `f = 8` and 17 remain, of
  which 16 are needed.)
- `ReplySeesBlock` rests on the order of three statements: the pair is complete
  before the thread's first REQUEST, and no REPLY comes without one. The COMMIT
  handler has nothing of the kind. When another node's block is committed while a
  node is between the two assignments of l.502 for its first block, l.403 reads
  the block through a null pointer.
- `GivesUpOnlyAdded` is about a node with one thread. With two, a thread gives its
  block up as soon as the other has set its own; and the block added may be the
  wrong one (`RightBlockAdded`).
- `StopReturns` needs a message for a listener that sleeps in `GetData`: the
  sender's last post, or a node not stopped yet. The last node to be stopped has
  neither when its sender is at its test at that moment: `Stop` may then wait for
  ever. In the program the sender sleeps nearly all of its time.
- Once `main` has printed "Nodes stopped" (main.cpp:107), `AddNewBlock` threads may
  still be there, asleep at l.536 or before l.510 (`ResenderOutlived` says how long
  the former can last), and the factory's keys, which they read, go with the
  scope.
- `RoundSurvivesJoin` needs `f` to stay what it was. A fifth key pushed in the
  middle of a round of four changes `f` from 1 to 2, and nodes may be left waiting
  for a third COMMIT.
- `BytesTellApart` holds because the type, at a fixed place, determines which
  fields are set. `vbMessageDigest` and the client's request are not among the
  bytes, so that the signature of a PREPREPARE does not cover them.
- `IndexNotAhead` is all that can be said of indices: two blocks of a chain may
  have the same one, because l.481 takes it when the block is made.
- `PadsAsStandard` is limited to messages of less than 2^29 bytes, whose number of
  bits the 32 bits of `len_b` hold.
- `RootNamesChain` takes the hash of a block and the hash of a node apart by what is
  hashed: a list of transactions, or two hashes. In the code a block hashes the
  hashes of its transactions one after the other (Block.cpp:18-26), and a node those of
  its children (MerkleTree.cpp:43-45), without a mark. The two are the same only for a
  block of two transactions whose texts are themselves what other blocks have
  hashed; transactions being atoms, the model has no such block.

## 5. What is proved

All for any number of nodes, clients, posters and threads, any block and buffer
size, and independently of the bounds, from the assumptions on the constants that each
module names: `NodeAssumption` and `SizeAssumption` (`PBFTNode`: a finite set of
two nodes or more, the primary among them), `ClientAssumption` and
`BoundAssumption` (`NetworkManager1`: clients are numbers, none of them a poster),
`ThreadAssumption` (`WaitingForReply`: blocks are told apart, two nodes or more, a
number of decisions), `FactoryAssumption` and `WordAssumption` (a word holds twice
the number of nodes), `LifecycleAssumption`, `ChainAssumption` and
`OldNetworkAssumption` (sizes are numbers), `SizeAssumption` of `SHA256` (a block
has room for the length and one byte more), `PackageAssumption` (a byte has two values
or more, and the fields' values fit their bytes).

### The consensus

- `PBFTNodeProofs!TypeCorrect`: `TypeOK` is inductive as it stands; it is split
  into groups of variables (`NetType`, `LogType`, ...), so that an action is
  looked at only where it writes.
- `PBFTNodeProofs!GivenOnce`, and from it `NodesAgree`. Agreement of the logs is
  not inductive, because the PREPREPARE a node is about to log may disagree with
  what another has logged; `NumbersGivenOnce` therefore speaks of the PREPREPAREs
  in the queues too, and of the primary's counter, which must be past them all. A
  step either assigns nothing new (`NoNewAssignment`), or is the primary's
  REQUEST handler and gives the number the counter stands at.
- `PBFTRoundsProofs!PreparedWithQuorum`, with losses and stops. That `2f` PREPAREs
  are of `2f` nodes needs the queues in the invariant (`VotesOnce`): a queue has no
  vote twice; while the PREPREPARE of a number is in it, the node has not logged
  the number, and so has posted no PREPARE of it; the sender of a PREPARE has
  logged the number; and the count of an entry is at most the number of nodes
  whose PREPARE is no longer to come (`Heard`).
- `PBFTRoundsProofs!CommitsArePrepared`: every number committed is prepared there
  (l.378 asks for it, and nothing un-prepares), and so logged by `2f` nodes.
- `PBFTRoundsProofs!RepliesCommitted`: a REPLY in a queue, or in the hands of a
  listener between two steps of its handler, is of a committed block
  (`RepliesAfterCommit`). `ChainsCommitted` goes by it: a block that enters a chain with
  a COMMIT is committed there and then (`CommitAdds`); one that enters it with REPLYs is
  the one compared, and so committed, or has been put in its place by another thread
  (`ReplyAdds`), which is what the property leaves open and the run
  `RightBlockAdded` shows to happen. `WaitingResent` is inductive with the types.
- `PBFTOrderProofs` has those that need a network that loses nothing:
  `Spec /\ []NoOverflow => ...`. `NoOverflow` says that no queue of a node that
  listens gets longer than `NETWORK_BUFFER_SIZE`, so that `PostData` drops nothing.
  It holds throughout the runs `Rounds` and `TwoNodes`, whose posts are too few to
  fill buffers of 100; in `Overflow` it does not. It is a hypothesis about the run,
  not about the constants: the code has no flow control to derive it from.
  - A turn of the listener is a function (`After`) of its round's state and of the
    message, the same for all nodes (`TurnIsAfter`). `OneRun`: there are a sequence
    `h` of all messages posted and a run `r` of a listener that handles them all, and
    every listening node is at that place of `r` where what it has not handled of
    `h` is its queue (`OnRun`); a node that has left is at some place of `r`. What
    brought a node to its next phase has the node's own answer later in `h`
    (`Answered`). The history is quantified, not a variable, and a run is a function
    with a condition on each step (`Run`), not a recursion. `NodesInLockstep` is the
    case of one place; `CommitsInOneOrder` holds because `After` only extends what is
    committed.
  - `RoundsAreFinished` (`NoStuckRound`): once all running nodes have handled
    everything, they are at the end of the run. Had the run ended in PREPARE, or in
    COMMIT, then since it last came there it would have counted every PREPARE (COMMIT)
    for the number that brought it there (`PreparesCounted`, `CommitsCounted`), and
    each of the `2f` or more running nodes has posted one after that (`Answered`):
    too many for it to be waiting still (`RunEndsBetweenRounds`). Stale votes only add
    to the count, so they need no accounting. The primary takes requests again
    because between rounds its flag is set only while a PREPREPARE is before its own
    listener (`PrePrepareToCome`); by `GivenOnce` it accepts that one.
  - `BlocksCut`: the transactions reach every node in one order, a node has
    received the first c of them (`Arrives`), and of each group of `BLOCK_SIZE` the
    pool has either all it has received, or nothing of the whole group (`PoolCut`);
    so that any chunk taken, by whichever of several threads, is a whole group
    (`ChunkIsCut`). `BlocksShareNothing` follows, as groups are apart.

### The network, the client, the life cycle

- `NetworkManager1Proofs`: the inductive invariant is `TypeOK`, `OnePoster` (only
  the holder of the map's mutex is inside `PostData`) and `SemaphoreCounts`. The
  three need one another: `Tail` of a queue is a queue only if it is not empty.
  From it follow `TypeCorrect`, `SemaphoreCorrect`, `ReadersFindData` and
  `QueuesBounded`. `QueuesExclusive` rests on a second invariant, `QueueLocks`.
- `NetworkManager1Proofs!Refinement`: `Spec => RefinesBroadcast`, step by step. The
  datum of the poster inside is on its way to the clients it has not come to
  (`Coming`), and to nobody when there is none (`OnTheWay`). Getting the mutex is
  then `Post`; a push and the last signal are stutters; skipping a full queue
  is `Lose`; taking the datum off the queue is `Deliver`.
- `WaitingForReplyProofs`: `WaitInv` is, next to types, `NullUntilSet` (before the
  second member of the pair is set, no REQUEST is posted and no REPLY under way),
  `OwnerGoesOn` (a node that waits has a thread about to set the second member, or the
  one whose block is set has not cleared the flag), and for a thread
  that is alone where it may be when its block is in the chain or not
  (`AloneInLoop`). `RepliesSeeBlocks`, `WaitingNodesHaveThreads` and
  `BlocksGivenUpAdded` are read off it.
- `NodeLifecycleProofs`: `TypeOK` is inductive. `StopIsFinal` and
  `DestructorWaits` rest on `LInv`, which says that a stopped node has its flag
  set and that neither thread is inside its loop, except with the flag still to be
  tested; and that a destroyed copy leaves no resender but one at its test, with
  the flag set.

### Joining nodes, quorums

- `JoiningNodesProofs`, first part: `f` is the ceiling the comment at l.332 means;
  it does not wrap for two nodes or more, and makes a single node wait for ever;
  when the network survives `f` stops; when quorums meet.
- `SendersHaveKeys`, `ReadersRegistered`: `RunNewNode` pushes the key and
  registers the node before its threads start, and only those who run are in
  queues (`PlainInv`).
- `JoinsLeaveRound`, `CommitsAreAsAsked`: `JoinInv` counts. Every node of the round
  posts one PREPARE when it takes the PREPREPARE and one COMMIT when it has its
  PREPAREs (`RoundPosts`); a node's counters are at most what it has read
  (`RoundPlaces`); and while `f` is what it was, every COMMIT stands behind `2f`
  PREPAREs in the one order of messages, so that whoever reads it is in COMMIT
  and counts it (`RoundSteady`). When all is read, all have counted all.

### The parts that stand alone (`StandAloneProofs`)

- `ChainStaysChained` and `IndicesNotAhead`, for any data. The index of a block is
  at most the length of the chain it was made for, and chains grow; the invariant
  therefore bounds the indices of the blocks made as well.
- `NInv` says which promises are fulfilled and retrieved as functions of where the
  one poster inside is (`PromisesInStep`); `PromisesKept`, `PostThrowsNothing` and
  `OldDataBounded` follow.
- SHA-256, for any block size, length field and pieces. `SInv` says where every
  byte of the message is: compressed in order, or waiting in the first `m_len`
  places. `StreamIsKept`, `LengthsStayInStep`, `PaddingHasRoom` follow. The lemmas
  are about `Copy`, `First` and `Message`, and about quotients and remainders.
- `PadsLikeStandard`, from `SInv` too. `final` takes one block more or two, by
  whether the waiting bytes leave room; the standard takes the least number of zeros
  that fills a block. `PaddingLength` shows that these are one length; then the block
  (`PaddedBytes`: its three writes, in the order of l.112-114) and the standard's
  concatenation (`PaddedSequence`) are compared byte by byte.
- `RawDataTellApart`, for any sizes of the fields. `PkInv` says which fields a
  package of each type has, and in which range. Since the powers are those of the
  bytes, the bytes of a number name it (`BytesNameNumber`); the first fields are at fixed
  places, so the type is known; then both packages have the same fields, each
  part of the bytes has the same length in both, and the concatenation is taken apart
  from its end (`SplitsAlike`), one field after the other.
- The Merkle tree, for a chain of any length. `MerkleInv` says that the tree is the one
  of the first blocks of the chain there is now: only so is the block at l.68,
  taken from the chain, the one of the leaf at l.70.
  - `ProofsLeadToRoot`: the place of a node is halved from level to level and is always
    one of the level (`PlaceInLevel`), the parent there has the node's hash on the
    left or on the right (`HashInParent`), and in the root's level there is one place.
  - `RootsNameChains`, for a tree the node has had and the tree of any other chain (an
    element of `OtherTrees` is a list of block hashes as the node's own is,
    `OtherChainsAreHashes`): from the root down (`TreesAgreeBelow`), parents with the same
    hashes have children with the same hashes, and either both trees end there or
    neither does, as no node has the hash of a block. A level of odd length might be
    mistaken for the same one with its last node twice. Above the leaves it is not,
    because there all hashes differ (`DistinctAbove`), the last one included: the
    node left of each pair already has a hash of its own. In the leaves it is not,
    because no block is there twice.
- A recursive function is used in a proof only by its equation, and that it has
  a solution is proved (`Iteration`, `LevelsEquation`): the first n steps exist for
  every n, and any two accounts of them agree. Both are shown with the least number for
  which they fail (`LeastOfNaturals`), as are the other statements about all
  levels, powers and places.

TLC has checked `PkInv` and `MerkleInv` on the instance of `StandAlone` as well.

Only model-checked: liveness under fairness (`RoundEnds`, `QueuesDrain`, `StopReturns`,
`NodesEnd`, `WaiterServed`, `StoppedNodeEnds`), which the prover cannot do. Every
invariant and every action property of the runs that pass is a theorem. Nothing here
uses ENABLED, an induction theorem with an operator as its parameter, or a RECURSIVE
operator in a theorem.

## 6. Plan

Done: the consensus with its network (`PBFTQuorums`, `PBFTNode`,
`NetworkManager1`, `TotalOrderBroadcast`), the client access by access, the life
cycle, joining nodes, the pure parts, the old network and the plain node, and the
proofs of section 5.

Left: the waiting time of a resent request (`requestTimestamp`, PBFTNode.cpp:499) and
the generator that all nodes sign with (ECDSASignatureManager.cpp:13), which no
property is about.

## 7. Not modelled

- `SBFTNode`, its packages and factory: not in the Visual Studio project, and not
  compilable. `SBFTNode.cpp` uses states, members and message types
  (`State::PREPARE`, `bRequestRecieved`, `bIsWaitingForReply`,
  `MessageType::PREPARE`) that its headers do not declare, so that there is no
  behaviour to be faithful to.
- The compression of one block of SHA-256: constants and shifts without a
  behaviour; hashes are taken as free of collisions.
- `ECDSASignatureManager`: calls CryptoPP, which is not part of the repository. A
  node signs with its own key, and `KeyOfSender` says that its key is found.
- `NodeLogger`, whose body is commented out; statistics, which nothing reads.
- Data races on `std::vector` and `std::map` objects, which have no outcomes to
  enumerate; `hazards` lists them with a note.
