--------------------------- MODULE NodeLifecycle ---------------------------
(***************************************************************************)
(* From RunNewNode to the end of a node's threads: the sender (operator()),*)
(* the listener, the detached AddNewBlock threads, main's calls of Stop one*)
(* after another, and the destructors of the two copies of a node: its     *)
(* thread's, and main's at the end of the experiment (PBFTNode.cpp,        *)
(* main.cpp).                                                              *)
(*                                                                         *)
(* A mutex whose owner is a thread's place in the code is not a variable:  *)
(* the sender owns m_pSenderStoppedMutex from its first lock to the end of *)
(* its loop, the listener likewise.  Messages only count: what matters here*)
(* is whether GetData returns.                                             *)
(***************************************************************************)
EXTENDS Integers

CONSTANTS
    N,                    \* number of nodes; main stops them in the order of their ids
    NETWORK_BUFFER_SIZE,
    MaxThreads            \* bound: AddNewBlock threads before l.510 at a time

ASSUME LifecycleAssumption ==
    /\ N \in Nat \ {0}
    /\ NETWORK_BUFFER_SIZE \in Nat
    /\ MaxThreads \in Nat

Node == 0..(N - 1)

VARIABLES
    m_bStopped,   \* the nodes whose flag is set
    stop,         \* [Node -> where main is in its call of Stop]
    sender,       \* [Node -> where operator() is]
    listener,     \* [Node -> where ListenMessages is]
    queue,        \* [Node -> number of messages it can get]
    early,        \* [Node -> AddNewBlock threads before l.510]
    resender,     \* [Node -> where the owner of the resender mutex is]
    ended         \* the nodes whose copy main has destroyed

vars == <<m_bStopped, stop, sender, listener, queue, early, resender, ended>>

TypeOK ==
    /\ m_bStopped \subseteq Node
    /\ stop \in [Node -> {"uncalled", "waiting", "returned"}]
    /\ sender \in [Node -> {"new", "lock", "test", "sleep", "join", "destroy", "gone"}]
    /\ listener \in [Node -> {"none", "lock", "test", "get", "got", "handle", "done"}]
    /\ queue \in [Node -> 0..(NETWORK_BUFFER_SIZE + 1)]
    /\ early \in [Node -> 0..MaxThreads]
    /\ resender \in [Node -> {"none", "test", "post", "sleep"}]
    /\ ended \subseteq Node

\* RunNewNode has created and registered the nodes; none of their threads runs.
Init ==
    /\ m_bStopped = {}
    /\ stop = [i \in Node |-> "uncalled"]
    /\ sender = [i \in Node |-> "new"]
    /\ listener = [i \in Node |-> "none"]
    /\ queue = [i \in Node |-> 0]
    /\ early = [i \in Node |-> 0]
    /\ resender = [i \in Node |-> "none"]
    /\ ended = {}

\* PostData: a copy for every node whose queue has room.
PostData ==
    queue' = [i \in Node |-> IF queue[i] <= NETWORK_BUFFER_SIZE THEN queue[i] + 1 ELSE queue[i]]

-----------------------------------------------------------------------------
(* Sender *)

SenderGoes(i, from, to) ==
    /\ sender[i] = from
    /\ sender' = [sender EXCEPT ![i] = to]

\* l.49.
StartListener(i) ==
    /\ SenderGoes(i, "new", "lock")
    /\ listener' = [listener EXCEPT ![i] = "lock"]
    /\ UNCHANGED <<m_bStopped, stop, queue, early, resender, ended>>

\* l.56; l.58 and l.80.
SenderSteps(i) ==
    /\ \/ SenderGoes(i, "lock", "test")
       \/ SenderGoes(i, "test", IF i \in m_bStopped THEN "join" ELSE "sleep")
    /\ UNCHANGED <<m_bStopped, stop, listener, queue, early, resender, ended>>

\* Faulty: a sender that finds the flag set after its sleep posts nothing.
PostsUnlessStopped(i) ==
    /\ SenderGoes(i, "sleep", "test")
    /\ IF i \in m_bStopped THEN UNCHANGED queue ELSE PostData
    /\ UNCHANGED <<m_bStopped, stop, listener, early, resender, ended>>

\* l.60-76: a flag set during the sleep is seen after the post only.
SenderPosts(i) ==
    /\ SenderGoes(i, "sleep", "test")
    /\ PostData
    /\ UNCHANGED <<m_bStopped, stop, listener, early, resender, ended>>

\* l.82.
Join(i) ==
    /\ listener[i] = "done"
    /\ SenderGoes(i, "join", "destroy")
    /\ UNCHANGED <<m_bStopped, stop, listener, queue, early, resender, ended>>

\* Faulty: the destructor waits for no one.
DestroyAtOnce(i) ==
    /\ SenderGoes(i, "destroy", "gone")
    /\ UNCHANGED <<m_bStopped, stop, listener, queue, early, resender, ended>>

\* The thread ends, and with it its copy of the node (PBFTNodeFactory.cpp:24):
\* the destructor takes the resender mutex and gives it back.
Destroy(i) ==
    /\ resender[i] = "none"
    /\ SenderGoes(i, "destroy", "gone")
    /\ UNCHANGED <<m_bStopped, stop, listener, queue, early, resender, ended>>

Sender(i) == StartListener(i) \/ SenderSteps(i) \/ SenderPosts(i) \/ Join(i) \/ Destroy(i)

-----------------------------------------------------------------------------
(* Listener *)

ListenerGoes(i, from, to) ==
    /\ listener[i] = from
    /\ listener' = [listener EXCEPT ![i] = to]

\* l.152; l.154; l.162.
ListenerTests(i) ==
    /\ \/ ListenerGoes(i, "lock", "test")
       \/ ListenerGoes(i, "test", IF i \in m_bStopped THEN "done" ELSE "get")
       \/ ListenerGoes(i, "got", IF i \in m_bStopped THEN "done" ELSE "handle")
    /\ UNCHANGED <<m_bStopped, stop, sender, queue, early, resender, ended>>

\* l.157: the listener sleeps in GetData until its queue has a message.
GetData(i) ==
    /\ queue[i] > 0
    /\ queue' = [queue EXCEPT ![i] = @ - 1]
    /\ ListenerGoes(i, "get", "got")
    /\ UNCHANGED <<m_bStopped, stop, sender, early, resender, ended>>

\* The message is dropped or pooled, or is answered by one message.
Handle(i) ==
    /\ ListenerGoes(i, "handle", "test")
    /\ UNCHANGED queue \/ PostData
    /\ UNCHANGED <<m_bStopped, stop, sender, early, resender, ended>>

\* l.191-200, the pool being full.
StartThread(i) ==
    /\ early[i] < MaxThreads
    /\ ListenerGoes(i, "handle", IF i \in m_bStopped THEN "done" ELSE "test")
    /\ early' = [early EXCEPT ![i] = IF i \in m_bStopped THEN @ ELSE @ + 1]
    /\ UNCHANGED <<m_bStopped, stop, sender, queue, resender, ended>>

Listener(i) == ListenerTests(i) \/ GetData(i) \/ Handle(i) \/ StartThread(i)

-----------------------------------------------------------------------------
(* AddNewBlock threads: one owns the resender mutex, the others are before l.510 *)

\* l.457, l.465: no block to make; l.510.
LeaveEarly(i) ==
    /\ early[i] > 0
    /\ early' = [early EXCEPT ![i] = @ - 1]
    /\ \/ UNCHANGED resender
       \/ resender[i] = "none" /\ resender' = [resender EXCEPT ![i] = "test"]
    /\ UNCHANGED <<m_bStopped, stop, sender, listener, queue, ended>>

ResenderGoes(i, from, to) ==
    /\ resender[i] = from
    /\ resender' = [resender EXCEPT ![i] = to]
    /\ UNCHANGED <<m_bStopped, stop, sender, listener, early, ended>>

\* Faulty: the thread resends until its block is committed, stopped or not.
ResendsForEver(i) ==
    /\ ResenderGoes(i, "test", "post") \/ ResenderGoes(i, "sleep", "test")
    /\ UNCHANGED queue

\* l.513 and l.516, true or false but for the flag; l.536.
ResenderSteps(i) ==
    /\ \/ ResenderGoes(i, "test", "none")
       \/ i \notin m_bStopped /\ ResenderGoes(i, "test", "post")
       \/ ResenderGoes(i, "sleep", "test")
    /\ UNCHANGED queue

\* l.529.
ResenderPosts(i) ==
    /\ ResenderGoes(i, "post", "sleep")
    /\ PostData

Resender(i) == ResenderSteps(i) \/ ResenderPosts(i)

-----------------------------------------------------------------------------
(* main *)

\* main.cpp:102-105; l.126.
CallStop(i) ==
    /\ stop[i] = "uncalled"
    /\ \A j \in Node : j < i => stop[j] = "returned"
    /\ stop' = [stop EXCEPT ![i] = "waiting"]
    /\ m_bStopped' = m_bStopped \cup {i}
    /\ UNCHANGED <<sender, listener, queue, early, resender, ended>>

OwnsSenderMutex(i)   == sender[i] \in {"test", "sleep"}
OwnsListenerMutex(i) == listener[i] \in {"test", "get", "got", "handle"}

\* Faulty: Stop takes the sender's mutex only.
ReturnWithoutListener(i) ==
    /\ stop[i] = "waiting"
    /\ ~OwnsSenderMutex(i)
    /\ stop' = [stop EXCEPT ![i] = "returned"]
    /\ UNCHANGED <<m_bStopped, sender, listener, queue, early, resender, ended>>

\* l.129-136: std::lock holds neither mutex while it waits for the other.
ReturnFromStop(i) ==
    /\ stop[i] = "waiting"
    /\ ~OwnsSenderMutex(i) /\ ~OwnsListenerMutex(i)
    /\ stop' = [stop EXCEPT ![i] = "returned"]
    /\ UNCHANGED <<m_bStopped, sender, listener, queue, early, resender, ended>>

\* main.cpp:110: the factory's copies are destroyed one after another, like the
\* thread's.
EndNode(i) ==
    /\ \A j \in Node : stop[j] = "returned"
    /\ i \notin ended /\ \A j \in Node : j < i => j \in ended
    /\ resender[i] = "none"
    /\ ended' = ended \cup {i}
    /\ UNCHANGED <<m_bStopped, stop, sender, listener, queue, early, resender>>

Main == \E i \in Node : CallStop(i) \/ ReturnFromStop(i) \/ EndNode(i)

-----------------------------------------------------------------------------

Next ==
    \/ Main
    \/ \E i \in Node : Sender(i) \/ Listener(i) \/ LeaveEarly(i) \/ Resender(i)

\* Every thread gets its turn; main calls Stop when the experiment is over.
Fairness ==
    /\ \A i \in Node :
          /\ WF_vars(Sender(i))
          /\ WF_vars(Listener(i))
          /\ WF_vars(LeaveEarly(i))
          /\ WF_vars(Resender(i))
    /\ WF_vars(\E i \in Node : ReturnFromStop(i) \/ EndNode(i))

Spec     == Init /\ [][Next]_vars
FairSpec == Spec /\ Fairness

-----------------------------------------------------------------------------
(* Properties *)

Stopped(i) == stop[i] = "returned"

\* Once Stop has returned, the node's sender posts nothing more and its listener
\* handles nothing more: each either had left its loop, or had not locked its
\* mutex yet and finds the flag set at its first test (l.58, l.154).
StoppedIsQuiet ==
    \A i \in Node : Stopped(i) =>
        /\ sender[i] # "sleep"
        /\ listener[i] \notin {"get", "got", "handle"}

\* The AddNewBlock thread that resends a REQUEST never goes on doing so for a node
\* one of whose copies is destroyed, its thread's or main's, which may be at the
\* next experiment then: the destructor waits for the mutex (l.38), and a thread
\* that takes it later finds the flag set (l.513).
ResenderOutlived ==
    \A i \in Node : resender[i] \in {"post", "sleep"} => sender[i] # "gone" /\ i \notin ended

\* Stop returns (l.129) when the sender still has a post to make or some node is
\* not stopped yet: either wakes a listener that sleeps in GetData (l.157).  The
\* last node stopped has no such guarantee when its sender is at its test.
StopReturns ==
    \A i \in Node :
        stop[i] = "waiting" /\ (sender[i] = "sleep" \/ \E j \in Node : j \notin m_bStopped)
            ~> stop[i] = "returned"

\* After every Stop has returned both copies of every node are destroyed: neither
\* main nor a node's thread waits for l.38 or l.82 for ever.
NodesEnd == (\A i \in Node : Stopped(i)) ~> (\A i \in Node : sender[i] = "gone" /\ i \in ended)

=============================================================================
