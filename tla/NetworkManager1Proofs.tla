------------------------ MODULE NetworkManager1Proofs ------------------------
(***************************************************************************)
(* Theorems about NetworkManager1, for any number of clients and posters   *)
(* and any buffer size.                                                    *)
(***************************************************************************)
EXTENDS NetworkManager1, SequenceTheorems, TLAPS

USE ClientAssumption, BoundAssumption

-----------------------------------------------------------------------------
(* Types, and who may be where *)

\* Only the poster that holds the map's mutex is past l.24, and it has begun a
\* call, so that its datum is one.
OnePoster ==
    \A p \in Poster : pcPost[p] # "idle" => m_mainQueueMutex = p /\ posts[p] \in 1..MaxPosts

\* A poster is between push and signal for client c.
SomeoneSignals(c) == \E p \in Poster : Signalling(p, c)

\* What a reader has acquired is counted, so it is in the queue.
LEMMA ReaderFindsData == TypeOK /\ SemaphoreCounts => NeverPopsEmpty
<1> SUFFICES ASSUME TypeOK, SemaphoreCounts, NEW c \in Client, Reading(c)
             PROVE  dataQueue[c] # <<>>
  BY DEF NeverPopsEmpty
<1>1. Len(dataQueue[c]) = dataReadySemaphore[c] + 1 + One(SomeoneSignals(c))
  BY DEF SemaphoreCounts, SomeoneSignals, One
<1>2. dataReadySemaphore[c] \in Nat /\ One(SomeoneSignals(c)) \in Nat
  BY DEF TypeOK, One
<1> QED
  BY <1>1, <1>2

\* Types and OnePoster are preserved together; that Tail has something to take the
\* tail of is the semaphore's doing.
LEMMA TypeStep ==
    ASSUME TypeOK, OnePoster, SemaphoreCounts, [Next]_vars
    PROVE  TypeOK' /\ OnePoster'
<1> USE DEF TypeOK, OnePoster
<1>1. CASE \E c \in Client : RegisterClient(c)
  BY <1>1 DEF RegisterClient, queueVars, postVars
<1>2. ASSUME NEW c \in Client, GetData(c) PROVE TypeOK' /\ OnePoster'
  <2>1. CASE Acquire(c)
    BY <2>1 DEF Acquire, postVars
  <2>2. CASE LockRead(c)
    BY <2>2 DEF LockRead, postVars
  <2>3. CASE Pop(c)
    <3>1. dataQueue[c] \in Seq(Data) /\ dataQueue[c] # <<>>
      BY <2>3, ReaderFindsData DEF NeverPopsEmpty, Reading, Pop
    <3>2. Tail(dataQueue[c]) \in Seq(Data)
      BY <3>1
    <3> QED
      BY <2>3, <3>2 DEF Pop, postVars
  <2>4. CASE UnlockRead(c)
    BY <2>4 DEF UnlockRead, postVars
  <2> QED
    BY <1>2, <2>1, <2>2, <2>3, <2>4 DEF GetData
<1>3. ASSUME NEW p \in Poster, PostData(p) PROVE TypeOK' /\ OnePoster'
  <2>1. CASE LockMain(p)
    BY <2>1 DEF LockMain, queueVars
  <2>2. CASE LockQueue(p)
    BY <2>2 DEF LockQueue
  <2>3. CASE Put(p)
    <3>1. Datum(p) \in Data
      BY <2>3 DEF Put, Datum, Data
    <3>2. PICK c \in Client :
             \/ /\ dataQueue' = [dataQueue EXCEPT ![c] = Append(@, Datum(p))]
                /\ pcPost' = [pcPost EXCEPT ![p] = "signal"]
             \/ /\ pcPost' = [pcPost EXCEPT ![p] = "unlock"]
                /\ UNCHANGED dataQueue
      BY <2>3 DEF Put
    <3>3. dataQueue' \in [Client -> Seq(Data)]
      <4>1. Append(dataQueue[c], Datum(p)) \in Seq(Data)
        BY <3>1
      <4>2. CASE UNCHANGED dataQueue
        BY <4>2
      <4>3. CASE dataQueue' = [dataQueue EXCEPT ![c] = Append(dataQueue[c], Datum(p))]
        BY <4>1, <4>3
      <4> QED
        BY <3>2, <4>2, <4>3
    <3> QED
      BY <2>3, <3>2, <3>3 DEF Put
  <2>4. CASE Signal(p)
    BY <2>4 DEF Signal
  <2>5. CASE UnlockQueue(p)
    BY <2>5 DEF UnlockQueue
  <2>6. CASE UnlockMain(p)
    BY <2>6 DEF UnlockMain, queueVars
  <2> QED
    BY <1>3, <2>1, <2>2, <2>3, <2>4, <2>5, <2>6 DEF PostData
<1>4. CASE UNCHANGED vars
  BY <1>4 DEF vars, queueVars, postVars
<1> QED
  BY <1>1, <1>2, <1>3, <1>4 DEF Next

-----------------------------------------------------------------------------
(* The semaphore *)

\* A poster's loop is at one client at a time.
LEMMA CurrentIsOne ==
    ASSUME TypeOK, NEW p \in Poster, NEW c \in Client, NEW d \in Client,
           IsCurrent(p, c), IsCurrent(p, d)
    PROVE  c = d
  BY DEF IsCurrent, TypeOK

\* A step of client c's reader: nobody's signalling changes.
LEMMA ReaderStep ==
    ASSUME TypeOK, SemaphoreCounts, NEW r \in Client, GetData(r)
    PROVE  SemaphoreCounts'
<1> SUFFICES ASSUME NEW c \in Client
             PROVE  Len(dataQueue'[c]) = dataReadySemaphore'[c] + One(Reading(c)')
                                           + One(SomeoneSignals(c)')
  BY DEF SemaphoreCounts, SomeoneSignals, One
<1>1. SomeoneSignals(c)' <=> SomeoneSignals(c)
  BY DEF GetData, Acquire, LockRead, Pop, UnlockRead, postVars, SomeoneSignals, Signalling,
         IsCurrent
<1>2. Len(dataQueue[c]) = dataReadySemaphore[c] + One(Reading(c)) + One(SomeoneSignals(c))
  BY DEF SemaphoreCounts, SomeoneSignals
<1>3. dataQueue[c] \in Seq(Data) /\ dataReadySemaphore[c] \in Nat
  BY DEF TypeOK
<1>4. One(SomeoneSignals(c)) \in Nat
  BY DEF One
<1>5. CASE Acquire(r)
  BY <1>1, <1>2, <1>3, <1>4, <1>5 DEF Acquire, Reading, One, TypeOK
<1>6. CASE LockRead(r)
  BY <1>1, <1>2, <1>6 DEF LockRead, Reading, One, TypeOK
<1>7. CASE Pop(r)
  <2>1. CASE c = r
    <3>1. Reading(c) /\ ~Reading(c)' /\ UNCHANGED dataReadySemaphore
      BY <1>7, <2>1 DEF Pop, Reading, TypeOK
    <3>2. dataQueue'[c] = Tail(dataQueue[c])
      BY <1>7, <2>1 DEF Pop, TypeOK
    <3>3. dataQueue[c] # <<>>
      BY <1>2, <1>3, <1>4, <3>1 DEF One
    <3>4. Len(dataQueue'[c]) = Len(dataQueue[c]) - 1
      BY <1>3, <3>2, <3>3
    <3> QED
      BY <1>1, <1>2, <1>3, <1>4, <3>1, <3>4 DEF One
  <2>2. CASE c # r
    BY <1>1, <1>2, <1>7, <2>2 DEF Pop, Reading, One, TypeOK
  <2> QED
    BY <2>1, <2>2
<1>8. CASE UnlockRead(r)
  BY <1>1, <1>2, <1>8 DEF UnlockRead, Reading, One, TypeOK
<1> QED
  BY <1>5, <1>6, <1>7, <1>8 DEF GetData

\* A step of a poster: push and signal are the only ones that count.
LEMMA PosterStep ==
    ASSUME TypeOK, OnePoster, SemaphoreCounts, NEW p \in Poster, PostData(p)
    PROVE  SemaphoreCounts'
<1> SUFFICES ASSUME NEW c \in Client
             PROVE  Len(dataQueue'[c]) = dataReadySemaphore'[c] + One(Reading(c)')
                                           + One(SomeoneSignals(c)')
  BY DEF SemaphoreCounts, SomeoneSignals
<1>1. Len(dataQueue[c]) = dataReadySemaphore[c] + One(Reading(c)) + One(SomeoneSignals(c))
  BY DEF SemaphoreCounts, SomeoneSignals
<1>2. Reading(c)' <=> Reading(c)
  BY DEF PostData, LockMain, LockQueue, Put, Signal, UnlockQueue, UnlockMain, Reading
<1>3. /\ dataQueue[c] \in Seq(Data) /\ dataReadySemaphore[c] \in Nat
      /\ One(Reading(c)) \in Nat
  BY DEF TypeOK, One
<1>4. pcPost[p] # "idle" => \A q \in Poster \ {p} : pcPost[q] = "idle"
  BY DEF OnePoster
<1>5. \A q \in Poster \ {p} : pcPost'[q] = pcPost[q] /\ todo'[q] = todo[q]
  BY DEF PostData, LockMain, LockQueue, Put, Signal, UnlockQueue, UnlockMain, TypeOK
<1>6. pcPost[p] # "idle" =>
         /\ SomeoneSignals(c) <=> Signalling(p, c)
         /\ SomeoneSignals(c)' <=> Signalling(p, c)'
  BY <1>4, <1>5 DEF SomeoneSignals, Signalling
<1>7. CASE LockMain(p)
  <2>1. m_mainQueueMutex = NoOne /\ pcPost'[p] = "loop"
    BY <1>7 DEF LockMain, TypeOK
  <2>2. \A q \in Poster : pcPost[q] = "idle"
    BY <2>1 DEF OnePoster
  <2>3. ~SomeoneSignals(c) /\ ~SomeoneSignals(c)'
    BY <1>5, <2>1, <2>2 DEF SomeoneSignals, Signalling
  <2> QED
    BY <1>1, <1>2, <1>7, <2>3 DEF LockMain, queueVars, One
<1>8. CASE LockQueue(p) \/ UnlockQueue(p) \/ UnlockMain(p)
  <2>1. ~Signalling(p, c) /\ ~Signalling(p, c)' /\ pcPost[p] # "idle"
    BY <1>8 DEF LockQueue, UnlockQueue, UnlockMain, Signalling, TypeOK
  <2>2. UNCHANGED <<dataQueue, dataReadySemaphore>>
    BY <1>8 DEF LockQueue, UnlockQueue, UnlockMain, queueVars
  <2> QED
    BY <1>1, <1>2, <1>6, <2>1, <2>2 DEF One
<1>9. CASE Put(p)
  <2>1. PICK d \in Client :
           /\ IsCurrent(p, d)
           /\ \/ /\ dataQueue' = [dataQueue EXCEPT ![d] = Append(@, Datum(p))]
                 /\ pcPost' = [pcPost EXCEPT ![p] = "signal"]
              \/ /\ pcPost' = [pcPost EXCEPT ![p] = "unlock"]
                 /\ UNCHANGED dataQueue
    BY <1>9 DEF Put
  <2>2. ~Signalling(p, c) /\ pcPost[p] # "idle"
        /\ UNCHANGED <<dataReadySemaphore, todo>>
    BY <1>9 DEF Put, Signalling
  <2>3. CASE UNCHANGED dataQueue /\ pcPost' = [pcPost EXCEPT ![p] = "unlock"]
    <3>1. ~Signalling(p, c)'
      BY <2>3 DEF Signalling, TypeOK
    <3> QED
      BY <1>1, <1>2, <1>6, <2>2, <2>3, <3>1 DEF One
  <2>4. CASE /\ dataQueue' = [dataQueue EXCEPT ![d] = Append(@, Datum(p))]
             /\ pcPost' = [pcPost EXCEPT ![p] = "signal"]
    <3>1. Signalling(p, c)' <=> c = d
      <4>1. pcPost'[p] = "signal"
        BY <2>4 DEF TypeOK
      <4>2. IsCurrent(p, c)' <=> IsCurrent(p, c)
        BY <2>2 DEF IsCurrent
      <4> QED
        BY <2>1, <4>1, <4>2, CurrentIsOne DEF Signalling
    <3>2. Len(dataQueue'[c]) = Len(dataQueue[c]) + One(c = d)
      <4>1. CASE c = d
        <5>1. dataQueue'[c] = Append(dataQueue[c], Datum(p))
          BY <2>4, <4>1 DEF TypeOK
        <5> QED
          BY <1>3, <4>1, <5>1 DEF One
      <4>2. CASE c # d
        BY <1>3, <2>4, <4>2 DEF One, TypeOK
      <4> QED
        BY <4>1, <4>2
    <3> QED
      BY <1>1, <1>2, <1>3, <1>6, <2>2, <3>1, <3>2 DEF One
  <2> QED
    BY <2>1, <2>3, <2>4
<1>10. CASE Signal(p)
  <2>1. PICK d \in Client :
           /\ IsCurrent(p, d)
           /\ dataReadySemaphore' = [dataReadySemaphore EXCEPT ![d] = @ + 1]
    BY <1>10 DEF Signal
  <2>2. /\ pcPost[p] = "signal" /\ pcPost'[p] = "unlock"
        /\ UNCHANGED dataQueue
    BY <1>10 DEF Signal, TypeOK
  <2>3. ~Signalling(p, c)'
    BY <2>2 DEF Signalling
  <2>4. Signalling(p, c) <=> c = d
    BY <2>1, <2>2, CurrentIsOne DEF Signalling
  <2>5. dataReadySemaphore'[c] = dataReadySemaphore[c] + One(c = d)
    BY <1>3, <2>1 DEF One, TypeOK
  <2> QED
    BY <1>1, <1>2, <1>3, <1>6, <2>2, <2>3, <2>4, <2>5 DEF One
<1> QED
  BY <1>7, <1>8, <1>9, <1>10 DEF PostData

\* The inductive invariant.
IInv == TypeOK /\ OnePoster /\ SemaphoreCounts

\* It holds in every reachable state, for any number of clients and posters.
LEMMA Inductive == Spec => []IInv
<1>1. Init => IInv
  BY DEF Init, IInv, TypeOK, OnePoster, SemaphoreCounts, Reading, Signalling, One
<1>2. IInv /\ [Next]_vars => IInv'
  <2> SUFFICES ASSUME TypeOK, OnePoster, SemaphoreCounts, [Next]_vars
               PROVE  IInv'
    BY DEF IInv
  <2>1. CASE \/ \E c \in Client : RegisterClient(c)
             \/ UNCHANGED vars
    <3>1. SemaphoreCounts'
      BY <2>1 DEF RegisterClient, vars, queueVars, postVars, SemaphoreCounts, Reading,
                  Signalling, IsCurrent, One
    <3> QED
      BY <3>1, TypeStep DEF IInv
  <2> QED
    BY <2>1, TypeStep, ReaderStep, PosterStep DEF Next, IInv
<1> QED
  BY <1>1, <1>2, PTL DEF Spec

\* Every variable of the network holds values of its type.
THEOREM TypeCorrect == Spec => []TypeOK
<1>1. IInv => TypeOK
  BY DEF IInv
<1> QED
  BY <1>1, Inductive, PTL

\* The semaphore counts what is in the queue, but for what is being put in or
\* taken out.
THEOREM SemaphoreCorrect == Spec => []SemaphoreCounts
<1>1. IInv => SemaphoreCounts
  BY DEF IInv
<1> QED
  BY <1>1, Inductive, PTL

\* No reader calls front() on an empty queue.
THEOREM ReadersFindData == Spec => []NeverPopsEmpty
<1>1. IInv => NeverPopsEmpty
  BY ReaderFindsData DEF IInv
<1> QED
  BY <1>1, Inductive, PTL

\* No queue outgrows the buffer by more than one.
THEOREM QueuesBounded == Spec => []WithinCapacity
<1>1. Init => WithinCapacity
  BY DEF Init, WithinCapacity
<1>2. TypeOK /\ NeverPopsEmpty /\ WithinCapacity /\ [Next]_vars => WithinCapacity'
  <2> SUFFICES ASSUME TypeOK, NeverPopsEmpty, WithinCapacity, [Next]_vars, NEW c \in Client
               PROVE  Len(dataQueue'[c]) <= NETWORK_BUFFER_SIZE + 1
    BY DEF WithinCapacity
  <2>1. dataQueue[c] \in Seq(Data) /\ Len(dataQueue[c]) <= NETWORK_BUFFER_SIZE + 1
    BY DEF TypeOK, WithinCapacity
  <2>2. ASSUME NEW r \in Client, Pop(r)
        PROVE  \/ dataQueue'[c] = dataQueue[c]
               \/ dataQueue[c] # <<>> /\ dataQueue'[c] = Tail(dataQueue[c])
    BY <2>2 DEF Pop, TypeOK, NeverPopsEmpty, Reading
  <2>3. ASSUME NEW p \in Poster, Put(p)
        PROVE  \/ dataQueue'[c] = dataQueue[c]
               \/ HasRoom(c) /\ dataQueue'[c] = Append(dataQueue[c], Datum(p))
    BY <2>3 DEF Put, TypeOK
  <2>4. \/ dataQueue' = dataQueue
        \/ \E r \in Client : Pop(r)
        \/ \E p \in Poster : Put(p)
    BY DEF Next, vars, queueVars, postVars, RegisterClient, GetData, Acquire, LockRead,
           UnlockRead, PostData, LockMain, LockQueue, Signal, UnlockQueue, UnlockMain
  <2>5. Len(Tail(dataQueue[c])) <= NETWORK_BUFFER_SIZE + 1 \/ dataQueue[c] = <<>>
    BY <2>1
  <2>6. \A d : HasRoom(c) => Len(Append(dataQueue[c], d)) <= NETWORK_BUFFER_SIZE + 1
    BY <2>1 DEF HasRoom
  <2> QED
    BY <2>1, <2>2, <2>3, <2>4, <2>5, <2>6
<1> QED
  BY <1>1, <1>2, TypeCorrect, ReadersFindData, PTL DEF Spec

-----------------------------------------------------------------------------
(* The mutex of a queue *)

\* Whoever is between lock and unlock of a queue's mutex holds it.
QueueLocks ==
    /\ \A c \in Client : pcGet[c] \in {"pop", "unlock"} => dataRWMutex[c] = c
    /\ \A p \in Poster, c \in Client :
          pcPost[p] \in {"put", "signal", "unlock"} /\ IsCurrent(p, c) => dataRWMutex[c] = p

\* The readers' steps respect the mutex.
LEMMA ReaderLocks ==
    ASSUME TypeOK, QueueLocks, NEW r \in Client, GetData(r)
    PROVE  QueueLocks'
<1>1. \A p \in Poster, c \in Client :
         /\ IsCurrent(p, c)' <=> IsCurrent(p, c)
         /\ pcPost'[p] = pcPost[p]
  BY DEF GetData, Acquire, LockRead, Pop, UnlockRead, postVars, IsCurrent
<1>2. CASE Acquire(r) \/ Pop(r)
  BY <1>1, <1>2 DEF Acquire, Pop, QueueLocks, TypeOK
<1>3. CASE LockRead(r)
  BY <1>1, <1>3 DEF LockRead, QueueLocks, TypeOK
<1>4. CASE UnlockRead(r)
  BY <1>1, <1>4 DEF UnlockRead, QueueLocks, TypeOK
<1> QED
  BY <1>2, <1>3, <1>4 DEF GetData

\* So do the posters'.
LEMMA PosterLocks ==
    ASSUME TypeOK, QueueLocks, NEW p \in Poster, PostData(p)
    PROVE  QueueLocks'
<1>1. \A q \in Poster \ {p}, c \in Client :
         /\ IsCurrent(q, c)' <=> IsCurrent(q, c)
         /\ pcPost'[q] = pcPost[q]
  BY DEF PostData, LockMain, LockQueue, Put, Signal, UnlockQueue, UnlockMain, IsCurrent, TypeOK
<1>2. UNCHANGED pcGet
  BY DEF PostData, LockMain, LockQueue, Put, Signal, UnlockQueue, UnlockMain
<1>3. CASE LockMain(p) \/ UnlockMain(p)
  BY <1>1, <1>2, <1>3 DEF LockMain, UnlockMain, queueVars, QueueLocks, TypeOK
<1>4. CASE Put(p) \/ Signal(p)
  <2>1. UNCHANGED <<dataRWMutex, todo>> /\ pcPost[p] \in {"put", "signal"}
    BY <1>4 DEF Put, Signal
  <2> QED
    BY <1>1, <1>2, <2>1 DEF QueueLocks, IsCurrent
<1>5. CASE LockQueue(p)
  <2>1. PICK d \in Client : /\ IsCurrent(p, d) /\ dataRWMutex[d] = NoOne
                            /\ dataRWMutex' = [dataRWMutex EXCEPT ![d] = p]
    BY <1>5 DEF LockQueue
  <2>2. \A c \in Client : IsCurrent(p, c)' => c = d
    BY <1>5, <2>1, CurrentIsOne DEF LockQueue, IsCurrent
  <2>3. \A c \in Client : pcGet'[c] \in {"pop", "unlock"} => dataRWMutex'[c] = c
    BY <1>2, <2>1 DEF QueueLocks, TypeOK
  <2>4. ASSUME NEW q \in Poster, NEW c \in Client,
               pcPost'[q] \in {"put", "signal", "unlock"}, IsCurrent(q, c)'
        PROVE  dataRWMutex'[c] = q
    <3>1. CASE q = p
      BY <2>1, <2>2, <2>4, <3>1 DEF TypeOK
    <3>2. CASE q # p
      <4>1. dataRWMutex[c] = q
        BY <1>1, <2>4, <3>2 DEF QueueLocks
      <4> QED
        BY <2>1, <4>1 DEF TypeOK
    <3> QED
      BY <3>1, <3>2
  <2> QED
    BY <2>3, <2>4 DEF QueueLocks
<1>6. CASE UnlockQueue(p)
  <2>1. PICK d \in Client : /\ IsCurrent(p, d)
                            /\ dataRWMutex' = [dataRWMutex EXCEPT ![d] = NoOne]
    BY <1>6 DEF UnlockQueue
  <2>2. dataRWMutex[d] = p /\ pcPost'[p] = "loop"
    BY <1>6, <2>1 DEF UnlockQueue, QueueLocks, TypeOK
  <2>3. \A c \in Client : pcGet'[c] \in {"pop", "unlock"} => dataRWMutex'[c] = c
    BY <1>2, <2>1, <2>2 DEF QueueLocks, TypeOK
  <2>4. ASSUME NEW q \in Poster, NEW c \in Client,
               pcPost'[q] \in {"put", "signal", "unlock"}, IsCurrent(q, c)'
        PROVE  dataRWMutex'[c] = q
    <3>1. q # p
      BY <2>2, <2>4
    <3>2. dataRWMutex[c] = q
      BY <1>1, <2>4, <3>1 DEF QueueLocks
    <3> QED
      BY <2>1, <2>2, <3>1, <3>2 DEF TypeOK
  <2> QED
    BY <2>3, <2>4 DEF QueueLocks
<1> QED
  BY <1>3, <1>4, <1>5, <1>6 DEF PostData

\* No std::queue is used by two threads at once.
THEOREM QueuesExclusive == Spec => []QueueExclusive
<1>1. Init => QueueLocks
  BY DEF Init, QueueLocks
<1>2. TypeOK /\ QueueLocks /\ [Next]_vars => QueueLocks'
  <2>1. ASSUME QueueLocks, \/ \E c \in Client : RegisterClient(c)
                           \/ UNCHANGED vars
        PROVE  QueueLocks'
    BY <2>1 DEF RegisterClient, vars, queueVars, postVars, QueueLocks, IsCurrent
  <2> QED
    BY <2>1, ReaderLocks, PosterLocks DEF Next
<1>3. QueueLocks => QueueExclusive
  BY DEF QueueLocks, QueueExclusive
<1> QED
  BY <1>1, <1>2, <1>3, TypeCorrect, PTL DEF Spec

-----------------------------------------------------------------------------
(* The refinement: every step is a step of TotalOrderBroadcast or a stutter *)

\* Only a poster inside the loop has clients to serve, all of them registered.
LoopInv ==
    \A p \in Poster : /\ todo[p] \subseteq m_mainTreeQueue
                      /\ pcPost[p] = "idle" => todo[p] = {}

\* Client c has yet to get the datum of p.
Coming(p, c) == c \in todo[p] /\ ~(IsCurrent(p, c) /\ pcPost[p] \in {"signal", "unlock"})

\* Clients registered during a post wait for the mutex, so LoopInv is kept.
LEMMA LoopStep ==
    ASSUME TypeOK, OnePoster, LoopInv, [Next]_vars
    PROVE  LoopInv'
<1> SUFFICES ASSUME NEW p \in Poster
             PROVE  todo'[p] \subseteq m_mainTreeQueue' /\ (pcPost'[p] = "idle" => todo'[p] = {})
  BY DEF LoopInv
<1> USE DEF LoopInv, TypeOK
<1>1. CASE \E c \in Client : RegisterClient(c) \/ GetData(c)
  BY <1>1 DEF RegisterClient, GetData, Acquire, LockRead, Pop, UnlockRead, queueVars, postVars
<1>2. ASSUME NEW q \in Poster, PostData(q)
      PROVE  todo'[p] \subseteq m_mainTreeQueue' /\ (pcPost'[p] = "idle" => todo'[p] = {})
  <2>1. CASE q # p
    BY <1>2, <2>1 DEF PostData, LockMain, LockQueue, Put, Signal, UnlockQueue, UnlockMain
  <2>2. CASE q = p
    <3>1. CASE LockMain(p) \/ UnlockMain(p)
      BY <3>1 DEF LockMain, UnlockMain
    <3>2. CASE LockQueue(p) \/ Put(p) \/ Signal(p)
      BY <3>2 DEF LockQueue, Put, Signal
    <3>3. CASE UnlockQueue(p)
      BY <3>3 DEF UnlockQueue
    <3> QED
      BY <1>2, <2>2, <3>1, <3>2, <3>3 DEF PostData
  <2> QED
    BY <2>1, <2>2
<1>3. CASE UNCHANGED vars
  BY <1>3 DEF vars, postVars
<1> QED
  BY <1>1, <1>2, <1>3 DEF Next

\* While p posts, its datum is the only one on its way; while nobody does, none is.
OneOnTheWay ==
    /\ \A p \in Poster, c \in Client :
          pcPost[p] # "idle" => InFlight(c) = IF Coming(p, c) THEN <<Datum(p)>> ELSE <<>>
    /\ (\A p \in Poster : pcPost[p] = "idle") => \A c \in Client : InFlight(c) = <<>>

\* It follows from the mutex.
LEMMA OnTheWay == OnePoster /\ LoopInv => OneOnTheWay
<1> SUFFICES ASSUME OnePoster, LoopInv, NEW c \in Client
             PROVE  /\ \A p \in Poster :
                          pcPost[p] # "idle" =>
                             InFlight(c) = IF Coming(p, c) THEN <<Datum(p)>> ELSE <<>>
                    /\ (\A p \in Poster : pcPost[p] = "idle") => InFlight(c) = <<>>
  BY DEF OneOnTheWay
<1> DEFINE coming == {q \in Poster : Coming(q, c)}
<1>1. InFlight(c) = IF coming = {} THEN <<>> ELSE <<Datum(CHOOSE q \in coming : TRUE)>>
  BY DEF InFlight, Coming
<1>2. \A q \in coming : pcPost[q] # "idle"
  BY DEF LoopInv, Coming
<1> HIDE DEF coming
<1>3. ASSUME NEW p \in Poster, pcPost[p] # "idle"
      PROVE  InFlight(c) = IF Coming(p, c) THEN <<Datum(p)>> ELSE <<>>
  <2>1. \A q \in Poster : pcPost[q] # "idle" => q = p
    BY <1>3 DEF OnePoster
  <2>2. CASE Coming(p, c)
    <3>1. coming = {p}
      BY <1>2, <2>1, <2>2 DEF coming
    <3>2. (CHOOSE q \in coming : TRUE) = p
      BY <3>1
    <3> QED
      BY <1>1, <2>2, <3>1, <3>2
  <2>3. CASE ~Coming(p, c)
    BY <1>1, <1>2, <2>1, <2>3 DEF coming
  <2> QED
    BY <2>2, <2>3
<1>4. (\A p \in Poster : pcPost[p] = "idle") => InFlight(c) = <<>>
  BY <1>1, <1>2 DEF coming
<1> QED
  BY <1>3, <1>4

\* What the refinement mapping substitutes for the inbox of a client.
Inbox(c) == dataQueue[c] \o InFlight(c)

\* A poster's steps: getting the mutex is the post, finding no room is the loss.
LEMMA PosterRefines ==
    ASSUME TypeOK, OnePoster, LoopInv, OnePoster', LoopInv', NEW p \in Poster, PostData(p)
    PROVE  [Broadcast!Next]_(Broadcast!vars)
<1>1. TypeOK /\ UNCHANGED m_mainTreeQueue
  BY DEF PostData, LockMain, LockQueue, Put, Signal, UnlockQueue, UnlockMain
<1>2. OneOnTheWay /\ OneOnTheWay'
  BY OnTheWay, PTL
<1>3. ASSUME \A c \in Client : Inbox(c)' = Inbox(c)
      PROVE  UNCHANGED Broadcast!vars
  BY <1>1, <1>3 DEF Broadcast!vars, Inbox
<1>4. CASE LockMain(p)
  <2>1. /\ \A q \in Poster : pcPost[q] = "idle"
        /\ pcPost'[p] = "loop" /\ Datum(p)' \in Data
        /\ todo'[p] = m_mainTreeQueue
    BY <1>4 DEF LockMain, OnePoster, TypeOK, Datum, Data
  <2>2. ASSUME NEW c \in Client
        PROVE  Inbox(c)' = IF c \in m_mainTreeQueue THEN Append(Inbox(c), Datum(p)') ELSE Inbox(c)
    <3>1. dataQueue'[c] = dataQueue[c] /\ dataQueue[c] \in Seq(Data)
      BY <1>4 DEF LockMain, queueVars, TypeOK
    <3>2. Inbox(c) = dataQueue[c]
      BY <1>2, <2>1, <3>1, ConcatEmptySeq DEF OneOnTheWay, Inbox
    <3>3. InFlight(c)' = IF c \in m_mainTreeQueue THEN <<Datum(p)'>> ELSE <<>>
      BY <1>2, <2>1 DEF OneOnTheWay, Coming
    <3>4. CASE c \in m_mainTreeQueue
      BY <2>1, <3>1, <3>2, <3>3, <3>4, AppendIsConcat DEF Inbox
    <3>5. CASE c \notin m_mainTreeQueue
      BY <3>1, <3>2, <3>3, <3>5, ConcatEmptySeq DEF Inbox
    <3> QED
      BY <3>4, <3>5
  <2>3. PICK d \in Data : d = Datum(p)'
    BY <2>1
  <2>4. Broadcast!Post(d)
    BY <1>1, <2>2, <2>3 DEF Broadcast!Post, Inbox
  <2> QED
    BY <2>4 DEF Broadcast!Next
<1>5. CASE LockQueue(p) \/ Signal(p)
  <2>1. /\ pcPost[p] # "idle" /\ pcPost'[p] # "idle" /\ UNCHANGED dataQueue
        /\ Datum(p)' = Datum(p)
    BY <1>5 DEF LockQueue, Signal, Datum, TypeOK
  <2>2. \A c \in Client : Coming(p, c)' <=> Coming(p, c)
    BY <1>5 DEF LockQueue, Signal, Coming, IsCurrent, TypeOK
  <2> QED
    BY <1>2, <1>3, <2>1, <2>2 DEF OneOnTheWay, Inbox
<1>6. CASE Put(p)
  <2>1. PICK d \in Client :
           /\ IsCurrent(p, d)
           /\ \/ /\ HasRoom(d)
                 /\ dataQueue' = [dataQueue EXCEPT ![d] = Append(@, Datum(p))]
                 /\ pcPost' = [pcPost EXCEPT ![p] = "signal"]
              \/ /\ ~HasRoom(d)
                 /\ pcPost' = [pcPost EXCEPT ![p] = "unlock"]
                 /\ UNCHANGED dataQueue
    BY <1>6 DEF Put
  <2>2. /\ pcPost[p] = "put" /\ pcPost'[p] \in {"signal", "unlock"}
        /\ UNCHANGED todo /\ Datum(p)' = Datum(p) /\ Datum(p) \in Data
    BY <1>6, <2>1 DEF Put, TypeOK, OnePoster, Datum, Data
  <2>3. \A c \in Client : Coming(p, c)' <=> Coming(p, c) /\ c # d
    BY <2>1, <2>2, CurrentIsOne DEF Coming, IsCurrent
  <2>4. Coming(p, d)
    BY <2>1, <2>2 DEF Coming, IsCurrent
  <2>5. \A c \in Client \ {d} : Inbox(c)' = Inbox(c)
    BY <1>2, <2>1, <2>2, <2>3 DEF OneOnTheWay, Inbox, TypeOK
  <2>6. /\ dataQueue[d] \in Seq(Data)
        /\ Inbox(d) = Append(dataQueue[d], Datum(p))
        /\ Inbox(d)' = dataQueue'[d] \o <<>>
    <3>1. dataQueue[d] \in Seq(Data)
      BY DEF TypeOK
    <3>2. InFlight(d) = <<Datum(p)>> /\ InFlight(d)' = <<>>
      BY <1>2, <2>2, <2>3, <2>4 DEF OneOnTheWay
    <3> QED
      BY <2>2, <3>1, <3>2, AppendIsConcat DEF Inbox
  <2>7. CASE HasRoom(d) /\ dataQueue' = [dataQueue EXCEPT ![d] = Append(@, Datum(p))]
    <3>1. dataQueue'[d] = Append(dataQueue[d], Datum(p)) /\ dataQueue'[d] \in Seq(Data)
      BY <2>2, <2>6, <2>7, AppendProperties DEF TypeOK
    <3>2. Inbox(d)' = Inbox(d)
      BY <2>6, <3>1, ConcatEmptySeq
    <3> QED
      BY <1>3, <2>5, <3>2
  <2>8. CASE ~HasRoom(d) /\ UNCHANGED dataQueue
    <3>1. Inbox(d)' = dataQueue[d]
      BY <2>6, <2>8, ConcatEmptySeq
    <3>2. Len(Inbox(d)) > NETWORK_BUFFER_SIZE + 1
      BY <2>2, <2>6, <2>8 DEF HasRoom
    <3>3. dataQueue[d] = SubSeq(Inbox(d), 1, Len(Inbox(d)) - 1)
      BY <2>2, <2>6
    <3>4. Broadcast!Lose(d)
      BY <1>1, <2>5, <3>1, <3>2, <3>3 DEF Broadcast!Lose, Inbox
    <3> QED
      BY <3>4 DEF Broadcast!Next
  <2> QED
    BY <2>1, <2>7, <2>8
<1>7. CASE UnlockQueue(p)
  <2>1. PICK d \in Client : IsCurrent(p, d) /\ todo' = [todo EXCEPT ![p] = @ \ {d}]
    BY <1>7 DEF UnlockQueue
  <2>2. /\ pcPost[p] = "unlock" /\ pcPost'[p] = "loop" /\ UNCHANGED dataQueue
        /\ Datum(p)' = Datum(p)
    BY <1>7 DEF UnlockQueue, Datum, TypeOK
  <2>3. \A c \in Client : Coming(p, c)' <=> Coming(p, c)
    BY <2>1, <2>2, CurrentIsOne DEF Coming, TypeOK
  <2> QED
    BY <1>2, <1>3, <2>2, <2>3 DEF OneOnTheWay, Inbox
<1>8. CASE UnlockMain(p)
  <2>1. /\ pcPost[p] # "idle" /\ todo[p] = {} /\ UNCHANGED dataQueue
        /\ \A q \in Poster : pcPost'[q] = "idle"
    BY <1>8 DEF UnlockMain, OnePoster, queueVars, TypeOK
  <2> QED
    BY <1>2, <1>3, <2>1 DEF OneOnTheWay, Inbox, Coming
<1> QED
  BY <1>4, <1>5, <1>6, <1>7, <1>8 DEF PostData

\* The front of a queue is the front of what is queued and on its way.
LEMMA TailOfConcat ==
    ASSUME NEW S, NEW s \in Seq(S), NEW t \in Seq(S), s # <<>>
    PROVE  s \o t # <<>> /\ Tail(s \o t) = Tail(s) \o t
<1>1. /\ s \o t \in Seq(S) /\ Len(s \o t) = Len(s) + Len(t)
      /\ \A i \in 1 .. Len(s) + Len(t) :
            (s \o t)[i] = IF i <= Len(s) THEN s[i] ELSE t[i - Len(s)]
  BY ConcatProperties
<1>2. /\ Tail(s) \in Seq(S) /\ Len(Tail(s)) = Len(s) - 1
      /\ \A i \in 1 .. Len(Tail(s)) : Tail(s)[i] = s[i + 1]
  BY HeadTailProperties
<1>3. Len(s) \in Nat /\ Len(s) > 0 /\ Len(t) \in Nat
  BY EmptySeq, LenProperties
<1>4. s \o t # <<>>
  BY <1>1, <1>3
<1>5. /\ Tail(s \o t) \in Seq(S) /\ Len(Tail(s \o t)) = Len(s) + Len(t) - 1
      /\ \A i \in 1 .. Len(s) + Len(t) - 1 : Tail(s \o t)[i] = (s \o t)[i + 1]
  BY <1>1, <1>4, HeadTailProperties
<1>6. /\ Tail(s) \o t \in Seq(S) /\ Len(Tail(s) \o t) = Len(s) + Len(t) - 1
      /\ \A i \in 1 .. Len(s) + Len(t) - 1 :
            (Tail(s) \o t)[i] = IF i <= Len(s) - 1 THEN Tail(s)[i] ELSE t[i - (Len(s) - 1)]
  BY <1>2, <1>3, ConcatProperties
<1>7. ASSUME NEW i \in 1 .. Len(s) + Len(t) - 1
      PROVE  Tail(s \o t)[i] = (Tail(s) \o t)[i]
  <2>1. (s \o t)[i + 1] = IF i + 1 <= Len(s) THEN s[i + 1] ELSE t[i + 1 - Len(s)]
    BY <1>1, <1>3
  <2>2. i + 1 <= Len(s) => Tail(s)[i] = s[i + 1]
    BY <1>2, <1>3
  <2>3. i - (Len(s) - 1) = i + 1 - Len(s)
    BY <1>3
  <2> QED
    BY <1>3, <1>5, <1>6, <2>1, <2>2, <2>3
<1> QED
  BY <1>4, <1>5, <1>6, <1>7, SeqEqual

\* A reader's steps: taking the front of its queue is the delivery.
LEMMA ReaderRefines ==
    ASSUME TypeOK, OnePoster, LoopInv, NeverPopsEmpty, NEW r \in Client, GetData(r)
    PROVE  [Broadcast!Next]_(Broadcast!vars)
<1>1. \A c \in Client : InFlight(c)' = InFlight(c)
  <2>1. UNCHANGED <<pcPost, posts, todo>>
    BY DEF GetData, Acquire, LockRead, Pop, UnlockRead, postVars
  <2> QED
    BY <2>1 DEF InFlight, IsCurrent, Datum
<1>2. UNCHANGED m_mainTreeQueue
  BY DEF GetData, Acquire, LockRead, Pop, UnlockRead
<1>3. CASE Acquire(r) \/ LockRead(r) \/ UnlockRead(r)
  <2>1. UNCHANGED dataQueue
    BY <1>3 DEF Acquire, LockRead, UnlockRead
  <2> QED
    BY <1>1, <1>2, <2>1 DEF Broadcast!vars
<1>4. CASE Pop(r)
  <2>1. dataQueue' = [dataQueue EXCEPT ![r] = Tail(@)]
    BY <1>4 DEF Pop
  <2>2. dataQueue[r] \in Seq(Data) /\ dataQueue[r] # <<>>
    BY <1>4 DEF Pop, NeverPopsEmpty, Reading, TypeOK
  <2>3. InFlight(r) \in Seq(Data)
    <3>1. OneOnTheWay
      BY OnTheWay
    <3>2. ASSUME NEW p \in Poster, pcPost[p] # "idle" PROVE InFlight(r) \in Seq(Data)
      <4>1. Datum(p) \in Data
        BY <3>2 DEF OnePoster, Datum, Data
      <4>2. InFlight(r) = <<Datum(p)>> \/ InFlight(r) = <<>>
        BY <3>1, <3>2 DEF OneOnTheWay
      <4>3. <<Datum(p)>> \in Seq(Data)
        BY <4>1
      <4> QED
        BY <4>2, <4>3, EmptySeq
    <3>3. CASE \A p \in Poster : pcPost[p] = "idle"
      BY <3>1, <3>3, EmptySeq DEF OneOnTheWay
    <3> QED
      BY <3>2, <3>3
  <2>4. Inbox(r) # <<>> /\ Inbox(r)' = Tail(Inbox(r))
    <3>1. Inbox(r)' = Tail(dataQueue[r]) \o InFlight(r)
      BY <1>1, <2>1 DEF Inbox, TypeOK
    <3> QED
      BY <2>2, <2>3, <3>1, TailOfConcat DEF Inbox
  <2>5. \A c \in Client \ {r} : Inbox(c)' = Inbox(c)
    BY <1>1, <2>1 DEF Inbox, TypeOK
  <2>6. Broadcast!Deliver(r)
    BY <1>2, <2>4, <2>5 DEF Broadcast!Deliver, Inbox
  <2> QED
    BY <2>6 DEF Broadcast!Next
<1> QED
  BY <1>3, <1>4 DEF GetData

\* The network implements the atomic broadcast the nodes are modelled upon, for any
\* number of clients and posters: a post reaches all registered clients in one step
\* (l.24), in the same order, and only a client whose queue is full loses it (l.33).
THEOREM Refinement == Spec => RefinesBroadcast
<1>1. Init => Broadcast!Init /\ LoopInv
  <2> SUFFICES ASSUME Init PROVE Broadcast!Init /\ LoopInv
    OBVIOUS
  <2>1. \A c \in Client : InFlight(c) = <<>>
    BY DEF Init, InFlight
  <2> QED
    BY <2>1 DEF Init, LoopInv, Broadcast!Init
<1>2. IInv /\ LoopInv /\ [Next]_vars => LoopInv'
  BY LoopStep DEF IInv
<1>3. /\ IInv /\ LoopInv /\ NeverPopsEmpty /\ IInv' /\ LoopInv'
      /\ [Next]_vars
      => [Broadcast!Next]_(Broadcast!vars)
  <2> SUFFICES ASSUME TypeOK, OnePoster, LoopInv, NeverPopsEmpty, OnePoster', LoopInv',
                      [Next]_vars
               PROVE  [Broadcast!Next]_(Broadcast!vars)
    BY DEF IInv
  <2>1. ASSUME NEW c \in Client, RegisterClient(c)
        PROVE  [Broadcast!Next]_(Broadcast!vars)
    <3>1. /\ m_mainTreeQueue' = m_mainTreeQueue \cup {c}
          /\ dataQueue' = dataQueue /\ pcPost' = pcPost /\ todo' = todo /\ posts' = posts
      BY <2>1 DEF RegisterClient, queueVars, postVars
    <3>2. \A d \in Client : Inbox(d)' = Inbox(d)
      BY <3>1 DEF Inbox, InFlight, IsCurrent, Datum
    <3>3. Broadcast!Register(c)
      BY <3>1, <3>2 DEF Broadcast!Register, Inbox
    <3> QED
      BY <3>3 DEF Broadcast!Next
  <2>2. CASE UNCHANGED vars
    BY <2>2 DEF vars, queueVars, postVars, Broadcast!vars, InFlight, IsCurrent, Datum
  <2> QED
    BY <2>1, <2>2, ReaderRefines, PosterRefines DEF Next
<1> QED
  BY <1>1, <1>2, <1>3, Inductive, ReadersFindData, PTL DEF Spec, RefinesBroadcast,
     Broadcast!Spec

=============================================================================
