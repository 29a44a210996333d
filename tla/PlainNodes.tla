----------------------------- MODULE PlainNodes -----------------------------
(***************************************************************************)
(* The nodes of the base class Node (Node.cpp) and the factory that runs   *)
(* them one after another: a sender and a listener for each node, no       *)
(* mutexes, and a Stop that only sets the flag.  A message is its sender;  *)
(* the pool is the set of the senders it has messages of.                  *)
(***************************************************************************)
EXTENDS NodeFactory

CONSTANTS
    NETWORK_BUFFER_SIZE,
    NoOne    \* the listener has no message in hand

VARIABLES
    m_bStopped,         \* ids of the nodes stopped
    sender,             \* [Id -> where operator() is]
    listener,           \* [Id -> where ListenMessages is]
    data,               \* [Id -> the message in the listener's hand]
    queue,              \* [Id -> messages the node can get]
    m_transactionPool   \* [Id -> senders of the messages pooled]

nodeVars == <<m_bStopped, sender, listener, data, queue, m_transactionPool>>
plainVars     == <<factoryVars, nodeVars>>

PlainInit ==
    /\ FactoryInit
    /\ m_bStopped = {}
    /\ sender = [i \in Id |-> "new"]
    /\ listener = [i \in Id |-> "none"]
    /\ data = [i \in Id |-> NoOne]
    /\ queue = [i \in Id |-> <<>>]
    /\ m_transactionPool = [i \in Id |-> {}]

-----------------------------------------------------------------------------
(* Sender *)

SenderGoes(i, from, to) ==
    /\ i \in running
    /\ sender[i] = from
    /\ sender' = [sender EXCEPT ![i] = to]
    /\ UNCHANGED <<factoryVars, m_bStopped, data, m_transactionPool>>

\* l.36; l.43; l.59 and the thread's end.
SenderSteps(i) ==
    /\ \/ /\ SenderGoes(i, "new", "test")
          /\ listener' = [listener EXCEPT ![i] = "test"]
       \/ /\ SenderGoes(i, "test", IF i \in m_bStopped THEN "join" ELSE "sleep")
          /\ UNCHANGED listener
       \/ /\ listener[i] = "done"
          /\ SenderGoes(i, "join", "gone")
          /\ UNCHANGED listener
    /\ UNCHANGED queue

\* Faulty: a sender that finds the flag set after its sleep posts nothing.
PostsUnlessStopped(i) ==
    /\ SenderGoes(i, "sleep", "test")
    /\ queue' = [j \in Id |-> IF j \in clients /\ i \notin m_bStopped /\ Len(queue[j]) <= NETWORK_BUFFER_SIZE
                                THEN Append(queue[j], i) ELSE queue[j]]
    /\ UNCHANGED listener

\* l.46-55: a copy for every registered node whose queue has room.
SenderPosts(i) ==
    /\ SenderGoes(i, "sleep", "test")
    /\ queue' = [j \in Id |-> IF j \in clients /\ Len(queue[j]) <= NETWORK_BUFFER_SIZE
                                THEN Append(queue[j], i) ELSE queue[j]]
    /\ UNCHANGED listener

-----------------------------------------------------------------------------
(* Listener *)

ListenerGoes(i, from, to) ==
    /\ listener[i] = from
    /\ listener' = [listener EXCEPT ![i] = to]
    /\ UNCHANGED <<factoryVars, m_bStopped, sender>>

\* l.66: the flag is tested here only, so that one more message may be pooled.
ListenerTests(i) ==
    /\ ListenerGoes(i, "test", IF i \in m_bStopped THEN "done" ELSE "get")
    /\ UNCHANGED <<data, queue, m_transactionPool>>

\* l.69.
GetData(i) ==
    /\ queue[i] # <<>>
    /\ ListenerGoes(i, "get", "got")
    /\ data' = [data EXCEPT ![i] = Head(queue[i])]
    /\ queue' = [queue EXCEPT ![i] = Tail(@)]
    /\ UNCHANGED m_transactionPool

\* l.72-80.
Handle(i) ==
    /\ ListenerGoes(i, "got", "test")
    /\ m_transactionPool' = [m_transactionPool EXCEPT ![i] =
          IF HasKeyOf(data[i]) THEN @ \cup {data[i]} ELSE @]
    /\ data' = [data EXCEPT ![i] = NoOne]
    /\ UNCHANGED queue

-----------------------------------------------------------------------------

\* l.110.
Stop(i) ==
    /\ \E k \in DOMAIN m_vpNodes : m_vpNodes[k].id = i
    /\ m_bStopped' = m_bStopped \cup {i}
    /\ UNCHANGED <<factoryVars, sender, listener, data, queue, m_transactionPool>>

Sender(i)   == SenderSteps(i) \/ SenderPosts(i)
Listener(i) == ListenerTests(i) \/ GetData(i) \/ Handle(i)

PlainNext ==
    \/ RunNewNode /\ UNCHANGED nodeVars
    \/ \E i \in Id : Sender(i) \/ Listener(i) \/ Stop(i)

\* Every thread gets its turn.
PlainFairness == \A i \in Id : WF_plainVars(Sender(i)) /\ WF_plainVars(Listener(i))

-----------------------------------------------------------------------------
(* Properties *)

\* Whenever a listener looks up the key of a message's sender (l.72), however far
\* RunNewNode has come, the key is there and is the sender's: no message is lost
\* to a node that begins before its key or number is settled.
KeyOfSender == \A i \in Id : listener[i] = "got" => HasKeyOf(data[i])

\* GetData never looks for a queue the network does not have (NetworkManager1.cpp:51).
ReaderRegistered == \A i \in Id : listener[i] = "get" => i \in clients

\* A stopped node whose sender is asleep ends: the post the sender still makes
\* wakes its own listener (l.69).  Stop alone would not.
StoppedNodeEnds == \A i \in Id : i \in m_bStopped /\ sender[i] = "sleep" ~> sender[i] = "gone"

=============================================================================
