-------------------------- MODULE NetworkManager1 --------------------------
(***************************************************************************)
(* The network of the simulator, lock by lock (NetworkManager1.cpp): a map *)
(* from client ids to queues, one mutex for the map, and for every queue a *)
(* mutex and a semaphore that counts its elements.  Threads of all nodes   *)
(* post; one thread per client, the node's listener, reads.                *)
(***************************************************************************)
EXTENDS Integers, Sequences, FiniteSets

CONSTANTS
    Client,               \* ids that may register, numbers as in the code
    Poster,               \* threads calling PostData
    NoOne,                \* the holder of a free mutex
    NETWORK_BUFFER_SIZE,  \* data is not put into a queue longer than this
    MaxPosts              \* bound: calls of PostData by one thread

ASSUME ClientAssumption ==
    /\ Client \subseteq Nat
    /\ Client \cap Poster = {}
    /\ NoOne \notin Client \cup Poster

ASSUME BoundAssumption == NETWORK_BUFFER_SIZE \in Nat /\ MaxPosts \in Nat

\* What a thread posts: its kth datum.
Data == Poster \X (1..MaxPosts)

VARIABLES
    m_mainTreeQueue,     \* the registered clients: the keys of the map
    m_mainQueueMutex,    \* the poster that holds it, or NoOne
    dataQueue,           \* [Client -> Seq(Data)]
    dataRWMutex,         \* [Client -> its holder, a poster or the client's reader]
    dataReadySemaphore,  \* [Client -> Nat]
    pcPost,              \* [Poster -> where it is in PostData]
    posts,               \* [Poster -> number of calls begun]
    todo,                \* [Poster -> clients its loop has yet to serve]
    pcGet                \* [Client -> where its reader is in GetData]

queueVars == <<dataQueue, dataRWMutex, dataReadySemaphore>>
postVars  == <<m_mainQueueMutex, pcPost, posts, todo>>
vars      == <<m_mainTreeQueue, queueVars, postVars, pcGet>>

Init ==
    /\ m_mainTreeQueue = {}
    /\ m_mainQueueMutex = NoOne
    /\ dataQueue = [c \in Client |-> <<>>]
    /\ dataRWMutex = [c \in Client |-> NoOne]
    /\ dataReadySemaphore = [c \in Client |-> 0]
    /\ pcPost = [p \in Poster |-> "idle"]
    /\ posts = [p \in Poster |-> 0]
    /\ todo = [p \in Poster |-> {}]
    /\ pcGet = [c \in Client |-> "acquire"]

-----------------------------------------------------------------------------
(* RegisterClient: l.69-71, under the map's mutex. *)

RegisterClient(c) ==
    /\ m_mainQueueMutex = NoOne
    /\ m_mainTreeQueue' = m_mainTreeQueue \cup {c}
    /\ UNCHANGED <<queueVars, postVars, pcGet>>

-----------------------------------------------------------------------------
(* PostData *)

\* The client the loop of p has come to; the map is ordered by id.
IsCurrent(p, c) == c \in todo[p] /\ \A d \in todo[p] : c <= d

Datum(p) == <<p, posts[p]>>

\* Faulty: posters do not exclude each other.
LockMainShared(p) ==
    /\ pcPost[p] = "idle"
    /\ posts[p] < MaxPosts
    /\ m_mainQueueMutex' = p
    /\ posts' = [posts EXCEPT ![p] = @ + 1]
    /\ todo' = [todo EXCEPT ![p] = m_mainTreeQueue]
    /\ pcPost' = [pcPost EXCEPT ![p] = "loop"]
    /\ UNCHANGED <<m_mainTreeQueue, queueVars, pcGet>>

\* l.24: one poster at a time, until the end of the loop.
LockMain(p) ==
    /\ pcPost[p] = "idle"
    /\ posts[p] < MaxPosts
    /\ m_mainQueueMutex = NoOne
    /\ m_mainQueueMutex' = p
    /\ posts' = [posts EXCEPT ![p] = @ + 1]
    /\ todo' = [todo EXCEPT ![p] = m_mainTreeQueue]
    /\ pcPost' = [pcPost EXCEPT ![p] = "loop"]
    /\ UNCHANGED <<m_mainTreeQueue, queueVars, pcGet>>

\* l.30.
LockQueue(p) ==
    /\ pcPost[p] = "loop"
    /\ \E c \in Client :
          /\ IsCurrent(p, c)
          /\ dataRWMutex[c] = NoOne
          /\ dataRWMutex' = [dataRWMutex EXCEPT ![c] = p]
    /\ pcPost' = [pcPost EXCEPT ![p] = "put"]
    /\ UNCHANGED <<m_mainTreeQueue, m_mainQueueMutex, posts, todo, dataQueue,
                   dataReadySemaphore, pcGet>>

\* Faulty: a queue that is full takes one more.
HasRoomPlusOne(c) == Len(dataQueue[c]) <= NETWORK_BUFFER_SIZE + 1

\* l.33: a queue of NETWORK_BUFFER_SIZE still takes one.
HasRoom(c) == Len(dataQueue[c]) <= NETWORK_BUFFER_SIZE

\* l.33-36.
Put(p) ==
    /\ pcPost[p] = "put"
    /\ \E c \in Client :
          /\ IsCurrent(p, c)
          /\ \/ /\ HasRoom(c)
                /\ dataQueue' = [dataQueue EXCEPT ![c] = Append(@, Datum(p))]
                /\ pcPost' = [pcPost EXCEPT ![p] = "signal"]
             \/ /\ ~HasRoom(c)
                /\ pcPost' = [pcPost EXCEPT ![p] = "unlock"]
                /\ UNCHANGED dataQueue
    /\ UNCHANGED <<m_mainTreeQueue, m_mainQueueMutex, posts, todo, dataRWMutex,
                   dataReadySemaphore, pcGet>>

\* Faulty: the reader is not told.
SkipSignal(p) ==
    /\ pcPost[p] = "signal"
    /\ pcPost' = [pcPost EXCEPT ![p] = "unlock"]
    /\ UNCHANGED <<m_mainTreeQueue, m_mainQueueMutex, posts, todo, queueVars, pcGet>>

\* l.39.
Signal(p) ==
    /\ pcPost[p] = "signal"
    /\ \E c \in Client :
          /\ IsCurrent(p, c)
          /\ dataReadySemaphore' = [dataReadySemaphore EXCEPT ![c] = @ + 1]
    /\ pcPost' = [pcPost EXCEPT ![p] = "unlock"]
    /\ UNCHANGED <<m_mainTreeQueue, m_mainQueueMutex, posts, todo, dataQueue, dataRWMutex,
                   pcGet>>

\* l.42: on to the next client.
UnlockQueue(p) ==
    /\ pcPost[p] = "unlock"
    /\ \E c \in Client :
          /\ IsCurrent(p, c)
          /\ dataRWMutex' = [dataRWMutex EXCEPT ![c] = NoOne]
          /\ todo' = [todo EXCEPT ![p] = @ \ {c}]
    /\ pcPost' = [pcPost EXCEPT ![p] = "loop"]
    /\ UNCHANGED <<m_mainTreeQueue, m_mainQueueMutex, posts, dataQueue, dataReadySemaphore,
                   pcGet>>

\* l.44: the guard's destructor.
UnlockMain(p) ==
    /\ pcPost[p] = "loop"
    /\ todo[p] = {}
    /\ m_mainQueueMutex' = NoOne
    /\ pcPost' = [pcPost EXCEPT ![p] = "idle"]
    /\ UNCHANGED <<m_mainTreeQueue, posts, todo, queueVars, pcGet>>

PostData(p) ==
    LockMain(p) \/ LockQueue(p) \/ Put(p) \/ Signal(p) \/ UnlockQueue(p) \/ UnlockMain(p)

-----------------------------------------------------------------------------
(* GetData, called by the one reader of client c *)

\* Faulty: the reader does not wait for the semaphore.
TryAcquire(c) ==
    /\ c \in m_mainTreeQueue
    /\ pcGet[c] = "acquire"
    /\ dataReadySemaphore' = [dataReadySemaphore EXCEPT ![c] = @ - 1]
    /\ pcGet' = [pcGet EXCEPT ![c] = "lock"]
    /\ UNCHANGED <<m_mainTreeQueue, dataQueue, dataRWMutex, postVars>>

\* l.51: blocks while the queue is empty.
Acquire(c) ==
    /\ c \in m_mainTreeQueue
    /\ pcGet[c] = "acquire"
    /\ dataReadySemaphore[c] > 0
    /\ dataReadySemaphore' = [dataReadySemaphore EXCEPT ![c] = @ - 1]
    /\ pcGet' = [pcGet EXCEPT ![c] = "lock"]
    /\ UNCHANGED <<m_mainTreeQueue, dataQueue, dataRWMutex, postVars>>

\* Faulty: the reader does not wait for the poster to unlock.
LockReadShared(c) ==
    /\ pcGet[c] = "lock"
    /\ dataRWMutex' = [dataRWMutex EXCEPT ![c] = c]
    /\ pcGet' = [pcGet EXCEPT ![c] = "pop"]
    /\ UNCHANGED <<m_mainTreeQueue, dataQueue, dataReadySemaphore, postVars>>

\* l.53.
LockRead(c) ==
    /\ pcGet[c] = "lock"
    /\ dataRWMutex[c] = NoOne
    /\ dataRWMutex' = [dataRWMutex EXCEPT ![c] = c]
    /\ pcGet' = [pcGet EXCEPT ![c] = "pop"]
    /\ UNCHANGED <<m_mainTreeQueue, dataQueue, dataReadySemaphore, postVars>>

\* l.56-57.
Pop(c) ==
    /\ pcGet[c] = "pop"
    /\ dataQueue' = [dataQueue EXCEPT ![c] = Tail(@)]
    /\ pcGet' = [pcGet EXCEPT ![c] = "unlock"]
    /\ UNCHANGED <<m_mainTreeQueue, dataRWMutex, dataReadySemaphore, postVars>>

\* l.60-62.
UnlockRead(c) ==
    /\ pcGet[c] = "unlock"
    /\ dataRWMutex' = [dataRWMutex EXCEPT ![c] = NoOne]
    /\ pcGet' = [pcGet EXCEPT ![c] = "acquire"]
    /\ UNCHANGED <<m_mainTreeQueue, dataQueue, dataReadySemaphore, postVars>>

GetData(c) == Acquire(c) \/ LockRead(c) \/ Pop(c) \/ UnlockRead(c)

-----------------------------------------------------------------------------

Next ==
    \/ \E c \in Client : RegisterClient(c) \/ GetData(c)
    \/ \E p \in Poster : PostData(p)

Spec == Init /\ [][Next]_vars

\* The operating system runs every thread that can go on.  Nothing is assumed of
\* the order in which a mutex lets waiting threads in.
FairSpec ==
    /\ Spec
    /\ \A c \in Client : WF_vars(GetData(c))
    /\ \A p \in Poster : WF_vars(PostData(p))

-----------------------------------------------------------------------------
(* Properties *)

\* Every variable holds values of its type.
TypeOK ==
    /\ m_mainTreeQueue \subseteq Client
    /\ m_mainQueueMutex \in Poster \cup {NoOne}
    /\ dataQueue \in [Client -> Seq(Data)]
    /\ dataRWMutex \in [Client -> Client \cup Poster \cup {NoOne}]
    /\ dataReadySemaphore \in [Client -> Nat]
    /\ pcPost \in [Poster -> {"idle", "loop", "put", "signal", "unlock"}]
    /\ posts \in [Poster -> 0..MaxPosts]
    /\ todo \in [Poster -> SUBSET Client]
    /\ pcGet \in [Client -> {"acquire", "lock", "pop", "unlock"}]

\* p is between push and signal for client c, c's reader between acquire and pop.
Signalling(p, c) == pcPost[p] = "signal" /\ IsCurrent(p, c)
Reading(c)       == pcGet[c] \in {"lock", "pop"}

One(holds) == IF holds THEN 1 ELSE 0

\* The semaphore of a queue counts its elements, but for the one a poster has put
\* in and not signalled (l.36, l.39) and the one a reader has acquired and not
\* taken out (l.51, l.57), although posters drop data without signalling (l.33).
SemaphoreCounts ==
    \A c \in Client :
        Len(dataQueue[c]) = dataReadySemaphore[c] + One(Reading(c))
                              + One(\E p \in Poster : Signalling(p, c))

\* A reader past the semaphore finds data in its queue (l.56; front() of an empty
\* std::queue is undefined).
NeverPopsEmpty == \A c \in Client : Reading(c) => dataQueue[c] # <<>>

\* A poster and a reader are never both inside one std::queue, which is not
\* thread-safe (l.33-39 against l.56-57).
QueueExclusive ==
    \A c \in Client : \A p \in Poster :
        pcGet[c] = "pop" => ~(pcPost[p] \in {"put", "signal"} /\ IsCurrent(p, c))

\* A queue holds one datum more than NETWORK_BUFFER_SIZE at most (l.33 tests <=),
\* which bounds the memory a listener that has stopped can take.
WithinCapacity == \A c \in Client : Len(dataQueue[c]) <= NETWORK_BUFFER_SIZE + 1

\* Data that waits is read: a reader is never left blocked on the semaphore with
\* something in its queue.
QueuesDrain == \A c \in Client : dataQueue[c] # <<>> ~> dataQueue[c] = <<>>

\* The datum on its way to client c: its poster holds the map's mutex and has
\* not come to c's push yet.
InFlight(c) ==
    LET coming == {p \in Poster : /\ c \in todo[p]
                                  /\ ~(IsCurrent(p, c) /\ pcPost[p] \in {"signal", "unlock"})}
    IN IF coming = {} THEN <<>> ELSE <<Datum(CHOOSE p \in coming : TRUE)>>

\* Seen from the nodes a post happens at once for everybody, when its poster gets
\* the map's mutex: this is what module PBFTNode builds on.
Broadcast == INSTANCE TotalOrderBroadcast WITH
                registered <- m_mainTreeQueue,
                inbox      <- [c \in Client |-> dataQueue[c] \o InFlight(c)],
                Capacity   <- NETWORK_BUFFER_SIZE + 1

\* Clients never see two posts in different orders, nor lose one unless full.
RefinesBroadcast == Broadcast!Spec

=============================================================================
