------------------------ MODULE NodeLifecycleProofs ------------------------
(***************************************************************************)
(* Theorems about NodeLifecycle, for any number of nodes, any buffer size  *)
(* and any number of AddNewBlock threads.                                  *)
(***************************************************************************)
EXTENDS NodeLifecycle, TLAPS

USE LifecycleAssumption

\* A node whose Stop has been called has its flag set, and only a set flag lets
\* the sender out of its loop, or main destroy the node.
FlagSet ==
    \A i \in Node :
        /\ stop[i] # "uncalled" => i \in m_bStopped
        /\ sender[i] \in {"join", "destroy", "gone"} => i \in m_bStopped
        /\ i \in ended => i \in m_bStopped

LInv == TypeOK /\ FlagSet /\ StoppedIsQuiet /\ ResenderOutlived

LEMMA LifecycleInit == Init => LInv
<1> SUFFICES ASSUME Init PROVE LInv
  OBVIOUS
<1>1. TypeOK
  BY DEF Init, TypeOK
<1>2. FlagSet /\ ResenderOutlived
  BY DEF Init, FlagSet, ResenderOutlived
<1>3. StoppedIsQuiet
  BY DEF Init, StoppedIsQuiet, Stopped
<1> QED
  BY <1>1, <1>2, <1>3 DEF LInv

\* The types: the counts stay within their bounds.
LEMMA LifecycleType ==
    ASSUME TypeOK, [Next]_vars
    PROVE  TypeOK'
<1> USE DEF TypeOK
<1> DEFINE Full == [i \in Node |-> IF queue[i] <= NETWORK_BUFFER_SIZE THEN queue[i] + 1 ELSE queue[i]]
<1>1. Full \in [Node -> 0..(NETWORK_BUFFER_SIZE + 1)]
  OBVIOUS
<1>2. CASE Main
  BY <1>2 DEF Main, CallStop, ReturnFromStop, EndNode
<1>3. ASSUME NEW i \in Node, Sender(i) PROVE TypeOK'
  <2>1. CASE SenderPosts(i)
    BY <1>1, <2>1 DEF SenderPosts, SenderGoes, PostData
  <2> QED
    BY <1>3, <2>1 DEF Sender, StartListener, SenderSteps, Join, Destroy, SenderGoes
<1>4. ASSUME NEW i \in Node, Listener(i) PROVE TypeOK'
  <2>1. CASE ListenerTests(i)
    BY <2>1 DEF ListenerTests, ListenerGoes
  <2>2. CASE GetData(i)
    BY <2>2 DEF GetData, ListenerGoes
  <2>3. CASE Handle(i)
    BY <1>1, <2>3 DEF Handle, ListenerGoes, PostData
  <2>4. CASE StartThread(i)
    BY <2>4 DEF StartThread, ListenerGoes
  <2> QED
    BY <1>4, <2>1, <2>2, <2>3, <2>4 DEF Listener
<1>5. ASSUME NEW i \in Node, LeaveEarly(i) PROVE TypeOK'
  BY <1>5 DEF LeaveEarly
<1>6. ASSUME NEW i \in Node, Resender(i) PROVE TypeOK'
  BY <1>1, <1>6 DEF Resender, ResenderSteps, ResenderPosts, ResenderGoes, PostData
<1>7. CASE UNCHANGED vars
  BY <1>7 DEF vars
<1> QED
  BY <1>2, <1>3, <1>4, <1>5, <1>6, <1>7 DEF Next

\* What the flag, the mutexes and the destructor keep apart.
LEMMA LifecycleStep ==
    ASSUME LInv, [Next]_vars
    PROVE  LInv'
<1> USE DEF LInv, TypeOK, FlagSet, StoppedIsQuiet, ResenderOutlived, Stopped
<1>t. TypeOK'
  BY LifecycleType
<1>1. ASSUME NEW i \in Node, CallStop(i) PROVE LInv'
  BY <1>t, <1>1 DEF CallStop
<1>2. ASSUME NEW i \in Node, ReturnFromStop(i) PROVE LInv'
  BY <1>t, <1>2 DEF ReturnFromStop, OwnsSenderMutex, OwnsListenerMutex
<1>e. ASSUME NEW i \in Node, EndNode(i) PROVE LInv'
  BY <1>t, <1>e DEF EndNode
<1>3. ASSUME NEW i \in Node, Sender(i) PROVE LInv'
  <2>1. CASE StartListener(i)
    BY <1>t, <2>1 DEF StartListener, SenderGoes
  <2>2. CASE SenderSteps(i)
    BY <1>t, <2>2 DEF SenderSteps, SenderGoes
  <2>3. CASE SenderPosts(i)
    BY <1>t, <2>3 DEF SenderPosts, SenderGoes
  <2>4. CASE Join(i)
    BY <1>t, <2>4 DEF Join, SenderGoes
  <2>5. CASE Destroy(i)
    BY <1>t, <2>5 DEF Destroy, SenderGoes
  <2> QED
    BY <1>3, <2>1, <2>2, <2>3, <2>4, <2>5 DEF Sender
<1>4. ASSUME NEW i \in Node, Listener(i) PROVE LInv'
  BY <1>t, <1>4 DEF Listener, ListenerTests, GetData, Handle, StartThread, ListenerGoes
<1>5. ASSUME NEW i \in Node, LeaveEarly(i) PROVE LInv'
  BY <1>t, <1>5 DEF LeaveEarly
<1>6. ASSUME NEW i \in Node, Resender(i) PROVE LInv'
  BY <1>t, <1>6 DEF Resender, ResenderSteps, ResenderPosts, ResenderGoes
<1>7. CASE UNCHANGED vars
  BY <1>7 DEF vars
<1> QED
  BY <1>1, <1>2, <1>e, <1>3, <1>4, <1>5, <1>6, <1>7 DEF Next, Main

-----------------------------------------------------------------------------

\* The invariant from which the theorems below follow.
THEOREM LifecycleInvariant == Spec => []LInv
<1>1. LInv /\ [Next]_vars => LInv'
  BY LifecycleStep
<1> QED
  BY <1>1, LifecycleInit, PTL DEF Spec

\* The types, the bounds of the queues among them.
THEOREM LifecycleTypes == Spec => []TypeOK
<1>1. LInv => TypeOK
  BY DEF LInv
<1> QED
  BY <1>1, LifecycleInvariant, PTL

\* Stop keeps its promise for any number of nodes: once it has returned, sender
\* and listener do nothing more (PBFTNode.cpp:129).
THEOREM StopIsFinal == Spec => []StoppedIsQuiet
<1>1. LInv => StoppedIsQuiet
  BY DEF LInv
<1> QED
  BY <1>1, LifecycleInvariant, PTL

\* The destructor's wait is enough for the thread that resends (PBFTNode.cpp:38),
\* however many threads come after it.
THEOREM DestructorWaits == Spec => []ResenderOutlived
<1>1. LInv => ResenderOutlived
  BY DEF LInv
<1> QED
  BY <1>1, LifecycleInvariant, PTL

=============================================================================
