------------------------- MODULE JoiningNodesProofs -------------------------
(***************************************************************************)
(* Theorems about nodes that RunNewNode adds while others run, and about   *)
(* the quorums that depend on their number: for any number of nodes.       *)
(***************************************************************************)
EXTENDS PlainNodes, JoiningRound, SequenceTheorems, FiniteSetTheorems, TLAPS

-----------------------------------------------------------------------------
(* Quorums *)

\* The comment at PBFTNode.cpp:332: f is (n - 1) / 3 rounded up, that is, the
\* least f with 3 * f >= n - 1.
THEOREM FaultBoundIsCeiling ==
    ASSUME NEW n \in Nat, n >= 2
    PROVE  /\ FaultBound(n) \in Nat \ {0}
           /\ 3 * FaultBound(n) >= n - 1
           /\ 3 * (FaultBound(n) - 1) < n - 1
  BY DEF FaultBound

\* With two nodes or more the unsigned arithmetic of the code is that of the
\* integers, provided only that the type can count the nodes.
THEOREM FaultBoundDoesNotWrap ==
    ASSUME NEW n \in Nat, n >= 2, NEW mod \in Nat
    PROVE  FaultBoundMod(n, mod) = FaultBound(n)
  BY DEF FaultBoundMod, FaultBound, USub

\* A single node computes f from mod - 1, so for any type wider than two bits the
\* PREPAREs it asks for are more than the one node there is will ever send.
THEOREM SingleNodeNeverPrepares ==
    ASSUME NEW mod \in Nat, mod >= 4
    PROVE  2 * FaultBoundMod(1, mod) > 1
  BY DEF FaultBoundMod, USub

\* The nodes left when f have stopped can still prepare a request, unless n is
\* 2 modulo 3: then they are one short of 2f, and the network stops with them.
THEOREM PreparesWithoutF ==
    ASSUME NEW n \in Nat, n >= 2
    PROVE  (n - FaultBound(n) >= PrepareQuorum(n)) <=> (n % 3 # 2)
  BY DEF FaultBound, PrepareQuorum

\* They can always commit and reply: f + 1 of them remain, except in a network of
\* two.
THEOREM CommitsWithoutF ==
    ASSUME NEW n \in Nat, n >= 2, n # 2
    PROVE  n - FaultBound(n) >= CommitQuorum(n)
  BY DEF FaultBound, CommitQuorum

\* Any two sets of 2f nodes out of n share one, except out of four.
THEOREM PrepareQuorumsMeet ==
    ASSUME NEW n \in Nat, n >= 2, n # 4
    PROVE  2 * PrepareQuorum(n) > n
  BY DEF FaultBound, PrepareQuorum

-----------------------------------------------------------------------------
(* NodeFactory *)

USE FactoryAssumption

\* Where RunNewNode is, which keys, nodes, registrations and threads there are.
FactoryInv ==
    LET n == Len(m_vpNodes) IN
    /\ call.pc \in {"idle", "keyed", "created", "registered"}
    /\ \E S : m_vPublicKeys \in Seq(S)
    /\ \E S : m_vpNodes \in Seq(S)
    /\ n \in 0..MaxNodes
    /\ call.pc = "keyed" => n < MaxNodes /\ call.key = m_vPublicKeys[n + 1]
    /\ call.pc \in {"created", "registered"} => n >= 1
    /\ Len(m_vPublicKeys) = (IF call.pc = "keyed" THEN n + 1 ELSE n)
    /\ \A k \in 1..n : m_vpNodes[k].id = k - 1 /\ m_vpNodes[k].key = m_vPublicKeys[k]
    /\ clients = (IF call.pc = "created" THEN 0..(n - 2) ELSE 0..(n - 1))
    /\ running = (IF call.pc \in {"created", "registered"} THEN 0..(n - 2) ELSE 0..(n - 1))

\* Appending keeps what is there.
LEMMA AppendedTo ==
    ASSUME NEW s, \E S : s \in Seq(S), NEW e
    PROVE  /\ \E S : Append(s, e) \in Seq(S)
           /\ Len(s) \in Nat /\ Len(Append(s, e)) = Len(s) + 1
           /\ \A k \in 1..Len(s) : Append(s, e)[k] = s[k]
           /\ Append(s, e)[Len(s) + 1] = e
<1>1. PICK S : s \in Seq(S)
  OBVIOUS
<1>2. PICK T : T = S \cup {e}
  OBVIOUS
<1>3. s \in Seq(T) /\ e \in T
  BY <1>1, <1>2, SeqMonotonic
<1>4. Append(s, e) \in Seq(T)
  BY <1>3
<1>5. /\ Len(s) \in Nat /\ Len(Append(s, e)) = Len(s) + 1
      /\ \A k \in 1..Len(s) : Append(s, e)[k] = s[k]
      /\ Append(s, e)[Len(s) + 1] = e
  BY <1>3
<1> QED
  BY <1>4, <1>5

\* A step of RunNewNode keeps this.
LEMMA FactoryStep ==
    ASSUME FactoryInv, RunNewNode \/ UNCHANGED factoryVars
    PROVE  /\ FactoryInv'
           /\ clients \subseteq clients' /\ running \subseteq running'
           /\ Len(m_vPublicKeys) <= Len(m_vPublicKeys')
<1> DEFINE n == Len(m_vpNodes)
<1>0. n \in Nat /\ MaxNodes \in Nat
  BY DEF FactoryInv
<1>1. CASE UNCHANGED factoryVars
  <2>1. UNCHANGED <<call, m_vPublicKeys, m_vpNodes, clients, running>>
    BY <1>1 DEF factoryVars
  <2> QED
    BY <2>1 DEF FactoryInv
<1>2. CASE PushKey
  <2>1. PICK key : /\ m_vPublicKeys' = Append(m_vPublicKeys, key)
                   /\ call' = [pc |-> "keyed", key |-> key]
    BY <1>2 DEF PushKey
  <2>2. /\ Len(m_vPublicKeys') = n + 1 /\ m_vPublicKeys'[n + 1] = key
        /\ \A k \in 1..n : m_vPublicKeys'[k] = m_vPublicKeys[k]
        /\ \E S : m_vPublicKeys' \in Seq(S)
    <3>1. (\E S : m_vPublicKeys \in Seq(S)) /\ Len(m_vPublicKeys) = n
      BY <1>2 DEF PushKey, FactoryInv
    <3>2. /\ \E S : Append(m_vPublicKeys, key) \in Seq(S)
          /\ Len(Append(m_vPublicKeys, key)) = n + 1
          /\ \A k \in 1..n : Append(m_vPublicKeys, key)[k] = m_vPublicKeys[k]
          /\ Append(m_vPublicKeys, key)[n + 1] = key
      <4> HIDE DEF n
      <4> QED
        BY <3>1, AppendedTo
    <3> QED
      BY <2>1, <3>2
  <2>3. call'.pc = "keyed" /\ call'.key = key
    BY <2>1
  <2>4. UNCHANGED <<m_vpNodes, clients, running>> /\ n < MaxNodes /\ call.pc = "idle"
    BY <1>2 DEF PushKey
  <2> QED
    BY <1>0, <2>2, <2>3, <2>4 DEF FactoryInv
<1>3. CASE CreateNode
  <2> DEFINE node == [id |-> n, key |-> call.key]
  <2>1. m_vpNodes' = Append(m_vpNodes, node) /\ call' = [pc |-> "created"] /\ call.pc = "keyed"
        /\ UNCHANGED <<m_vPublicKeys, clients, running>>
    BY <1>3 DEF CreateNode
  <2>2. node.id = n /\ node.key = m_vPublicKeys[n + 1] /\ call'.pc = "created"
    BY <2>1 DEF FactoryInv
  <2> HIDE DEF node
  <2>3. /\ Len(m_vpNodes') = n + 1 /\ m_vpNodes'[n + 1] = node
        /\ \A k \in 1..n : m_vpNodes'[k] = m_vpNodes[k]
        /\ \E S : m_vpNodes' \in Seq(S)
    <3>1. \E S : m_vpNodes \in Seq(S)
      BY DEF FactoryInv
    <3>2. /\ \E S : Append(m_vpNodes, node) \in Seq(S)
          /\ Len(Append(m_vpNodes, node)) = n + 1
          /\ \A k \in 1..n : Append(m_vpNodes, node)[k] = m_vpNodes[k]
          /\ Append(m_vpNodes, node)[n + 1] = node
      BY <3>1, AppendedTo
    <3> QED
      BY <2>1, <3>2
  <2> QED
    BY <1>0, <2>1, <2>2, <2>3 DEF FactoryInv
<1>4. CASE Register
  <2>1. /\ call.pc = "created" /\ call'.pc = "registered"
        /\ clients' = clients \cup {n - 1} /\ UNCHANGED <<m_vPublicKeys, m_vpNodes, running>>
    BY <1>4 DEF Register
  <2> QED
    BY <1>0, <2>1 DEF FactoryInv
<1>5. CASE RunThread
  <2>1. /\ call.pc = "registered" /\ call'.pc = "idle"
        /\ running' = running \cup {m_vpNodes[n].id} /\ UNCHANGED <<m_vPublicKeys, m_vpNodes, clients>>
    BY <1>5 DEF RunThread
  <2>2. m_vpNodes[n].id = n - 1 /\ n >= 1
    BY <1>0, <2>1 DEF FactoryInv
  <2> QED
    BY <1>0, <2>1, <2>2 DEF FactoryInv
<1> QED
  BY <1>1, <1>2, <1>3, <1>4, <1>5 DEF RunNewNode

\* A running node is registered and has its key.
LEMMA RunningNodes ==
    ASSUME FactoryInv, NEW i \in running
    PROVE  i \in clients /\ i \in Id /\ HasKeyOf(i)
<1> DEFINE n == Len(m_vpNodes)
<1>1. n \in 0..MaxNodes /\ i \in 0..(n - 1) /\ Len(m_vPublicKeys) >= n /\ MaxNodes \in Nat
      /\ i \in clients
  BY DEF FactoryInv
<1>2. /\ i \in Nat /\ i + 1 \in 1..n /\ i < Len(m_vPublicKeys)
      /\ m_vpNodes[i + 1].id = i /\ m_vpNodes[i + 1].key = m_vPublicKeys[i + 1]
  BY <1>1 DEF FactoryInv
<1>3. i + 1 \in DOMAIN m_vpNodes
  BY <1>1, <1>2, LenProperties DEF FactoryInv
<1> QED
  BY <1>1, <1>2, <1>3 DEF HasKeyOf, Id

-----------------------------------------------------------------------------
(* PlainNodes *)

\* Only nodes that run have threads, and only their messages are about.
PlainInv ==
    /\ FactoryInv
    /\ sender \in [Id -> {"new", "test", "sleep", "join", "gone"}]
    /\ listener \in [Id -> {"none", "test", "get", "got", "done"}]
    /\ DOMAIN data = Id
    /\ queue \in [Id -> Seq(Id)]
    /\ \A i \in Id :
          /\ listener[i] # "none" => i \in running
          /\ listener[i] = "got" => data[i] \in running
          /\ \A k \in 1..Len(queue[i]) : queue[i][k] \in running

\* However far RunNewNode has come, messages are those of nodes that run.
THEOREM PlainNodesKnown == PlainInit /\ [][PlainNext]_plainVars => []PlainInv
<1>1. PlainInit => PlainInv
  <2> SUFFICES ASSUME PlainInit PROVE PlainInv
    OBVIOUS
  <2>1. <<>> \in Seq({}) /\ <<>> \in Seq(Id) /\ Len(<<>>) = 0
    BY EmptySeq
  <2>2. call.pc = "idle"
    BY DEF PlainInit, FactoryInit
  <2>3. FactoryInv
    BY <2>1, <2>2 DEF PlainInit, FactoryInit, FactoryInv
  <2> QED
    BY <2>1, <2>3 DEF PlainInit, PlainInv
<1>2. PlainInv /\ [PlainNext]_plainVars => PlainInv'
  <2> SUFFICES ASSUME PlainInv, [PlainNext]_plainVars PROVE PlainInv'
    OBVIOUS
  <2>0. FactoryInv' /\ running \subseteq running'
    BY FactoryStep
       DEF PlainInv, PlainNext, plainVars, Sender, SenderSteps, SenderPosts, SenderGoes, Listener,
           ListenerTests, GetData, Handle, ListenerGoes, Stop
  <2>1. CASE UNCHANGED nodeVars
    BY <2>0, <2>1 DEF PlainInv, nodeVars
  <2>2. ASSUME NEW i \in Id, SenderSteps(i) PROVE PlainInv'
    BY <2>0, <2>2 DEF PlainInv, SenderSteps, SenderGoes
  <2>3. ASSUME NEW i \in Id, SenderPosts(i) PROVE PlainInv'
    <3>1. /\ i \in running /\ sender' = [sender EXCEPT ![i] = "test"]
          /\ UNCHANGED <<listener, data>> /\ running' = running
          /\ queue' = [j \in Id |-> IF j \in clients /\ Len(queue[j]) <= NETWORK_BUFFER_SIZE
                                      THEN Append(queue[j], i) ELSE queue[j]]
      BY <2>3 DEF SenderPosts, SenderGoes, factoryVars
    <3>2. queue' \in [Id -> Seq(Id)]
      BY <3>1 DEF PlainInv
    <3>3. ASSUME NEW j \in Id, NEW k \in 1..Len(queue'[j]) PROVE queue'[j][k] \in running
      <4>1. CASE queue'[j] = queue[j]
        BY <3>3, <4>1 DEF PlainInv
      <4>2. CASE queue'[j] = Append(queue[j], i)
        BY <3>1, <3>3, <4>2 DEF PlainInv
      <4> QED
        BY <3>1, <4>1, <4>2
    <3> QED
      BY <2>0, <3>1, <3>2, <3>3 DEF PlainInv
  <2>4. ASSUME NEW i \in Id, ListenerTests(i) PROVE PlainInv'
    BY <2>0, <2>4 DEF PlainInv, ListenerTests, ListenerGoes
  <2>5. ASSUME NEW i \in Id, GetData(i) PROVE PlainInv'
    <3>1. /\ queue[i] # <<>> /\ listener[i] = "get" /\ listener' = [listener EXCEPT ![i] = "got"]
          /\ data' = [data EXCEPT ![i] = Head(queue[i])]
          /\ queue' = [queue EXCEPT ![i] = Tail(@)]
          /\ UNCHANGED sender
      BY <2>5 DEF GetData, ListenerGoes
    <3>2. /\ queue[i] \in Seq(Id) /\ Head(queue[i]) = queue[i][1] /\ Tail(queue[i]) \in Seq(Id)
          /\ 1 \in 1..Len(queue[i]) /\ Len(Tail(queue[i])) = Len(queue[i]) - 1
          /\ \A k \in 1..Len(Tail(queue[i])) : Tail(queue[i])[k] = queue[i][k + 1]
      BY <3>1, HeadTailProperties DEF PlainInv
    <3>3. Head(queue[i]) \in running
      BY <3>2 DEF PlainInv
    <3>4. \A k \in 1..Len(Tail(queue[i])) : k + 1 \in 1..Len(queue[i])
      BY <3>2
    <3>5. \A k \in 1..Len(Tail(queue[i])) : Tail(queue[i])[k] \in running
      BY <3>2, <3>4 DEF PlainInv
    <3> QED
      BY <2>0, <3>1, <3>2, <3>3, <3>5 DEF PlainInv
  <2>6. ASSUME NEW i \in Id, Handle(i) PROVE PlainInv'
    BY <2>0, <2>6 DEF PlainInv, Handle, ListenerGoes
  <2>7. ASSUME NEW i \in Id, Stop(i) PROVE PlainInv'
    BY <2>0, <2>7 DEF PlainInv, Stop
  <2> QED
    BY <2>1, <2>2, <2>3, <2>4, <2>5, <2>6, <2>7 DEF PlainNext, Sender, Listener, plainVars
<1> QED
  BY <1>1, <1>2, PTL

\* Whenever a listener looks up the key of a message's sender, the key is there
\* and is the sender's (Node.cpp:72).
THEOREM SendersHaveKeys == PlainInit /\ [][PlainNext]_plainVars => []KeyOfSender
<1>1. PlainInv => KeyOfSender
  BY RunningNodes DEF PlainInv, KeyOfSender
<1> QED
  BY <1>1, PlainNodesKnown, PTL

\* Whoever asks the network for data is registered (NetworkManager1.cpp:51).
THEOREM ReadersRegistered == PlainInit /\ [][PlainNext]_plainVars => []ReaderRegistered
<1>1. PlainInv => ReaderRegistered
  BY RunningNodes DEF PlainInv, ReaderRegistered
<1> QED
  BY <1>1, PlainNodesKnown, PTL

-----------------------------------------------------------------------------
(* JoiningRound *)

MsgType == {"PREPREPARE", "PREPARE", "COMMIT"}

\* How many of the first r messages of s are of this type.
CountIn(s, type, r) == Cardinality({k \in 1..r : s[k] = type})

\* One more message, one more or none of a type.
LEMMA CountNext ==
    \A s, type : \A r \in Nat :
        /\ CountIn(s, type, r) \in Nat
        /\ CountIn(s, type, r + 1) = CountIn(s, type, r) + (IF s[r + 1] = type THEN 1 ELSE 0)
<1> SUFFICES ASSUME NEW s, NEW type, NEW r \in Nat
             PROVE  /\ CountIn(s, type, r) \in Nat
                    /\ CountIn(s, type, r + 1) =
                          CountIn(s, type, r) + (IF s[r + 1] = type THEN 1 ELSE 0)
  OBVIOUS
<1> DEFINE S == {k \in 1..r : s[k] = type}
           T == {k \in 1..(r + 1) : s[k] = type}
<1>1. IsFiniteSet(S)
  <2>1. IsFiniteSet(1..r)
    BY FS_Interval
  <2> QED
    BY <2>1, FS_Subset
<1>2. r + 1 \notin S /\ T = (IF s[r + 1] = type THEN S \cup {r + 1} ELSE S)
  OBVIOUS
<1> HIDE DEF S, T
<1>3. /\ Cardinality(S) \in Nat
      /\ Cardinality(T) = Cardinality(S) + (IF s[r + 1] = type THEN 1 ELSE 0)
  BY <1>1, <1>2, FS_CardinalityType, FS_AddElement
<1> QED
  BY <1>3 DEF CountIn, S, T

\* There is nothing in nothing.
LEMMA CountNone == \A s, type : CountIn(s, type, 0) = 0
<1>1. \A s, type : {k \in 1..0 : s[k] = type} = {}
  OBVIOUS
<1> QED
  BY <1>1, FS_EmptySet DEF CountIn

\* More messages, no less of a type.
LEMMA CountGrows ==
    \A s, type : \A r, q \in Nat : q <= r => CountIn(s, type, q) <= CountIn(s, type, r)
<1> SUFFICES ASSUME NEW s, NEW type, NEW r \in Nat, NEW q \in Nat, q <= r
             PROVE  CountIn(s, type, q) <= CountIn(s, type, r)
  OBVIOUS
<1>1. IsFiniteSet({k \in 1..r : s[k] = type})
  <2>1. IsFiniteSet(1..r)
    BY FS_Interval
  <2> QED
    BY <2>1, FS_Subset
<1>2. {k \in 1..q : s[k] = type} \subseteq {k \in 1..r : s[k] = type}
  OBVIOUS
<1> QED
  BY <1>1, <1>2, FS_Subset DEF CountIn

\* What is appended does not count before its place.
LEMMA CountKept ==
    \A s, s2, type : \A r \in Nat :
        (\A k \in 1..r : s2[k] = s[k]) => CountIn(s2, type, r) = CountIn(s, type, r)
<1> SUFFICES ASSUME NEW s, NEW s2, NEW type, NEW r \in Nat, \A k \in 1..r : s2[k] = s[k]
             PROVE  CountIn(s2, type, r) = CountIn(s, type, r)
  OBVIOUS
<1>1. {k \in 1..r : s2[k] = type} = {k \in 1..r : s[k] = type}
  OBVIOUS
<1> QED
  BY <1>1 DEF CountIn

\* The nodes of a round that have taken its PREPREPARE, and so posted a PREPARE;
\* those that have posted a COMMIT.
Begun   == {i \in asked.nodes : read[i] >= 1}
Engaged == {i \in asked.nodes : state[i] = "COMMIT" \/ i \in committed}

\* One round at most has begun; those that joined since are not in it.
RoundTypes ==
    /\ FactoryInv
    /\ log \in Seq(MsgType)
    /\ read \in [Id -> Nat] /\ \A i \in Id : read[i] <= Len(log)
    /\ state \in [Id -> {"PRE_PREPARE", "PREPARE", "COMMIT"}]
    /\ preparesRecieved \in [Id -> Nat] /\ commitsRecieved \in [Id -> Nat]
    /\ committed \subseteq asked.nodes /\ asked.nodes \subseteq clients /\ asked.f \in Nat
    /\ log = <<>> => asked.nodes = {}
    /\ log # <<>> => /\ 0 \in asked.nodes /\ log[1] = "PREPREPARE"
                     /\ \A k \in 2..Len(log) : log[k] # "PREPREPARE"
    /\ \A i \in Id \ asked.nodes :
          state[i] = "PRE_PREPARE" /\ preparesRecieved[i] = 0 /\ commitsRecieved[i] = 0
    /\ \A i \in clients \ asked.nodes : log # <<>> => read[i] >= 1

\* Where a node of the round is; no message is counted twice.
RoundPlaces ==
    \A i \in asked.nodes :
        /\ read[i] = 0 => /\ state[i] = "PRE_PREPARE" /\ i \notin committed
                          /\ preparesRecieved[i] = 0 /\ commitsRecieved[i] = 0
        /\ read[i] >= 1 /\ state[i] = "PRE_PREPARE" => i \in committed
        /\ state[i] # "PRE_PREPARE" => i \notin committed
        /\ preparesRecieved[i] <= CountIn(log, "PREPARE", read[i])
        /\ commitsRecieved[i] <= CountIn(log, "COMMIT", read[i])
        /\ state[i] = "PREPARE" => /\ preparesRecieved[i] = CountIn(log, "PREPARE", read[i])
                                   /\ commitsRecieved[i] = 0

\* Every node posts one PREPARE and one COMMIT.
RoundPosts ==
    /\ CountIn(log, "PREPARE", Len(log)) = Cardinality(Begun)
    /\ CountIn(log, "COMMIT", Len(log)) = Cardinality(Engaged)

\* f does not get less, except that the first node alone computes too much; a
\* round it begins alone gets no further.
RoundAsked ==
    log # <<>> =>
        IF asked.nodes = {0}
          THEN state[0] # "COMMIT" /\ committed = {}
          ELSE Len(m_vPublicKeys) >= 2 /\ asked.f <= f

\* While f is what it was, nobody has missed a COMMIT.
RoundSteady ==
    (log # <<>> /\ asked.nodes # {0} /\ f = asked.f) =>
        /\ \A k \in 1..Len(log) : log[k] = "COMMIT" => CountIn(log, "PREPARE", k) >= Prepares
        /\ \A i \in asked.nodes :
              /\ state[i] = "PREPARE" => preparesRecieved[i] < Prepares
              /\ state[i] = "COMMIT" =>
                    /\ CountIn(log, "PREPARE", read[i]) >= Prepares
                    /\ commitsRecieved[i] = CountIn(log, "COMMIT", read[i])
                    /\ commitsRecieved[i] < Commits

JoinInv == RoundTypes /\ RoundPlaces /\ RoundPosts /\ RoundAsked /\ RoundSteady /\ CommitsAsAsked

\* f and the numbers asked for.
FaultBoundsHold ==
    /\ f \in Nat \ {0} /\ Prepares \in Nat /\ Commits \in Nat
    /\ Prepares = 2 * f /\ Commits = f + 1
    /\ Len(m_vPublicKeys) \in Nat
    /\ Len(m_vPublicKeys) >= 2 => f = FaultBound(Len(m_vPublicKeys))

\* What they are, whatever keys there are.
LEMMA FaultBounds == FactoryInv => FaultBoundsHold
<1> SUFFICES ASSUME FactoryInv PROVE FaultBoundsHold
  OBVIOUS
<1>1. Len(m_vPublicKeys) \in 0..MaxNodes /\ MaxNodes \in Nat
  BY DEF FactoryInv
<1>0. PICK n \in Nat : n = Len(m_vPublicKeys) /\ (n = 0 \/ n = 1 \/ n >= 2)
  BY <1>1
<1>2. n >= 2 => f = FaultBound(n)
  BY <1>0, WordAssumption, FaultBoundDoesNotWrap DEF f
<1>3. n = 1 => USub(USub(n, 1, Word), 1, Word) = Word - 1
  BY <1>1, WordAssumption DEF USub
<1>4. n = 0 => USub(USub(n, 1, Word), 1, Word) = Word - 2
  BY <1>1, WordAssumption DEF USub
<1>5. Word \in Nat /\ Word - 2 \in Nat /\ Word - 1 \in Nat
  BY <1>1, WordAssumption
<1>6. \A m \in Nat : (m \div 3) + 1 \in Nat \ {0}
  OBVIOUS
<1>7. f \in Nat \ {0}
  <2>1. CASE n >= 2
    BY <1>0, <1>2, <2>1, FaultBoundIsCeiling
  <2>2. CASE n = 1
    BY <1>0, <1>3, <1>5, <1>6, <2>2 DEF f, FaultBoundMod
  <2>3. CASE n = 0
    BY <1>0, <1>4, <1>5, <1>6, <2>3 DEF f, FaultBoundMod
  <2> QED
    BY <1>0, <2>1, <2>2, <2>3
<1> QED
  BY <1>0, <1>2, <1>7 DEF FaultBoundsHold, Prepares, Commits

\* The same a step later.
LEMMA FaultBoundsNext == FactoryInv' => FaultBoundsHold'
  BY FaultBounds, PTL

\* More nodes have no smaller f.
LEMMA FaultBoundGrows ==
    ASSUME NEW n \in Nat, n >= 2, NEW m \in Nat, n <= m
    PROVE  FaultBound(n) <= FaultBound(m)
  BY DEF FaultBound

\* The sets of nodes are finite.
LEMMA RoundSets ==
    ASSUME RoundTypes
    PROVE  /\ clients \subseteq Id /\ running \subseteq clients /\ IsFiniteSet(asked.nodes)
           /\ IsFiniteSet(Begun) /\ IsFiniteSet(Engaged)
           /\ Cardinality(Begun) <= Cardinality(asked.nodes)
           /\ asked.nodes = {0} => Cardinality(Begun) <= 1
           /\ DOMAIN log = 1..Len(log) /\ Len(log) \in Nat
<1>1. clients \subseteq Id /\ running \subseteq clients /\ MaxNodes \in Nat
  <2>1. Len(m_vpNodes) \in 0..MaxNodes /\ MaxNodes \in Nat
    BY DEF RoundTypes, FactoryInv
  <2>2. clients = 0..(Len(m_vpNodes) - 1) \/ clients = 0..(Len(m_vpNodes) - 2)
    BY DEF RoundTypes, FactoryInv
  <2>3. running \subseteq clients
    BY <2>1 DEF RoundTypes, FactoryInv
  <2> QED
    BY <2>1, <2>2, <2>3 DEF Id
<1>2. IsFiniteSet(Id)
  BY <1>1, FS_Interval DEF Id
<1>3. IsFiniteSet(asked.nodes)
  BY <1>1, <1>2, FS_Subset DEF RoundTypes
<1>4. Begun \subseteq asked.nodes /\ Engaged \subseteq asked.nodes
  BY DEF Begun, Engaged
<1>5. Cardinality(Begun) <= Cardinality(asked.nodes) /\ IsFiniteSet(Begun) /\ IsFiniteSet(Engaged)
  BY <1>3, <1>4, FS_Subset
<1>6. asked.nodes = {0} => Cardinality(asked.nodes) = 1
  BY FS_Singleton
<1> QED
  BY <1>1, <1>3, <1>5, <1>6 DEF RoundTypes

\* CommitsAsAsked in the words of the invariant.
LEMMA CommitsCounted ==
    ASSUME RoundTypes
    PROVE  CommitsAsAsked <=> (committed # {} => CountIn(log, "COMMIT", Len(log)) >= asked.f + 1)
  BY RoundSets DEF CommitsAsAsked, CountIn

\* What a node has before it when it takes a message.
LEMMA TakesFacts ==
    ASSUME JoinInv, NEW i \in Id, NEW s, NEW type, Takes(i, s, type)
    PROVE  /\ i \in clients /\ log # <<>> /\ read[i] \in Nat /\ read[i] + 1 \in 1..Len(log)
           /\ log[read[i] + 1] = type /\ state[i] = s
           /\ read' = [read EXCEPT ![i] = read[i] + 1]
           /\ UNCHANGED <<m_vPublicKeys, clients, running, asked>> /\ FactoryInv'
           /\ read[i] = 0 => type = "PREPREPARE" /\ i \in asked.nodes
           /\ type = "PREPREPARE" => read[i] = 0
           /\ state[i] # "PRE_PREPARE" => i \in asked.nodes /\ read[i] >= 1
<1>1. /\ i \in clients /\ read[i] \in Nat /\ read[i] < Len(log) /\ Len(log) \in Nat
      /\ log[read[i] + 1] = type /\ state[i] = s /\ read' = [read EXCEPT ![i] = read[i] + 1]
      /\ UNCHANGED <<m_vPublicKeys, clients, running, asked>> /\ UNCHANGED factoryVars
  BY RoundSets DEF JoinInv, Takes, RoundTypes, factoryVars
<1>2. FactoryInv'
  BY <1>1, FactoryStep DEF JoinInv, RoundTypes
<1>3. read[i] + 1 \in 1..Len(log) /\ log # <<>> /\ (read[i] # 0 => read[i] + 1 \in 2..Len(log))
  BY <1>1
<1>4. read[i] = 0 => type = "PREPREPARE" /\ i \in asked.nodes
  BY <1>1, <1>3 DEF JoinInv, RoundTypes
<1>5. type = "PREPREPARE" => read[i] = 0
  BY <1>1, <1>3 DEF JoinInv, RoundTypes
<1>6. state[i] # "PRE_PREPARE" => i \in asked.nodes /\ read[i] >= 1
  BY <1>1 DEF JoinInv, RoundTypes, RoundPlaces
<1> QED
  BY <1>1, <1>2, <1>3, <1>4, <1>5, <1>6

\* Nodes join.
LEMMA JoinStep == ASSUME JoinInv, Join PROVE JoinInv'
<1>1. /\ FactoryInv' /\ clients \subseteq clients'
      /\ Len(m_vPublicKeys) <= Len(m_vPublicKeys')
      /\ UNCHANGED <<log, state, preparesRecieved, commitsRecieved, committed, asked>>
  BY FactoryStep DEF JoinInv, RoundTypes, Join
<1>2. PICK c : /\ c \notin clients /\ clients' \subseteq clients \cup {c}
               /\ \/ read' = read /\ clients' = clients
                  \/ read' = [read EXCEPT ![c] = Len(log)]
  <2>1. CASE clients' = clients
    <3>1. MaxNodes \notin clients
      BY RoundSets DEF JoinInv, Id
    <3> QED
      BY <2>1, <3>1 DEF Join
  <2>2. CASE clients' # clients
    <3>1. Register /\ read' = [read EXCEPT ![Len(m_vpNodes) - 1] = Len(log)]
      BY <2>2 DEF Join, RunNewNode, PushKey, CreateNode, RunThread
    <3>2. PICK c : c = Len(m_vpNodes) - 1
      OBVIOUS
    <3>3. c \notin clients /\ clients' = clients \cup {c}
      BY <3>1, <3>2 DEF Register, JoinInv, RoundTypes, FactoryInv
    <3> QED
      BY <3>1, <3>2, <3>3
  <2> QED
    BY <2>1, <2>2
<1>3. /\ \A i \in clients : read'[i] = read[i]
      /\ read' \in [Id -> Nat] /\ \A i \in Id : read'[i] <= Len(log)
      /\ c \in clients' => read'[c] = Len(log)
  <2>1. /\ read \in [Id -> Nat] /\ \A i \in Id : read[i] <= Len(log)
        /\ Len(log) \in Nat
    BY RoundSets DEF JoinInv, RoundTypes
  <2>2. clients \subseteq Id /\ clients' \subseteq Id
    <3>1. MaxNodes \in Nat /\ Len(m_vpNodes') \in 0..MaxNodes
      BY <1>1 DEF FactoryInv
    <3>2. clients' \subseteq 0..(Len(m_vpNodes') - 1)
      BY <1>1, <3>1 DEF FactoryInv
    <3> QED
      BY <1>1, <3>1, <3>2 DEF Id
  <2> QED
    BY <1>2, <2>1, <2>2
<1>4. RoundTypes'
  <2>1. ASSUME NEW i \in clients' \ asked.nodes, log # <<>>
        PROVE  read'[i] >= 1
    <3>1. CASE i = c
      BY <1>3, <2>1, <3>1, EmptySeq DEF JoinInv, RoundTypes
    <3>2. CASE i # c
      BY <1>2, <1>3, <2>1, <3>2 DEF JoinInv, RoundTypes
    <3> QED
      BY <3>1, <3>2
  <2>2. asked.nodes \subseteq clients'
    BY <1>1 DEF JoinInv, RoundTypes
  <2> QED
    BY <1>1, <1>3, <2>1, <2>2 DEF JoinInv, RoundTypes
<1>5. \A i \in asked.nodes : read'[i] = read[i]
  BY <1>3 DEF JoinInv, RoundTypes
<1>6. RoundPlaces'
  BY <1>1, <1>5 DEF JoinInv, RoundPlaces, CountIn
<1>7. RoundPosts'
  <2>1. Begun' = Begun /\ Engaged' = Engaged
    BY <1>1, <1>5 DEF Begun, Engaged
  <2> QED
    BY <1>1, <2>1 DEF JoinInv, RoundPosts, CountIn
<1>8. /\ f \in Nat /\ f' \in Nat
      /\ Len(m_vPublicKeys) >= 2 => f <= f'
  <2>1. FactoryInv
    BY DEF JoinInv, RoundTypes
  <2>2. /\ f \in Nat /\ Len(m_vPublicKeys) \in Nat
        /\ Len(m_vPublicKeys) >= 2 => f = FaultBound(Len(m_vPublicKeys))
    BY <2>1, FaultBounds DEF FaultBoundsHold
  <2>3. /\ f' \in Nat /\ Len(m_vPublicKeys') \in Nat
        /\ Len(m_vPublicKeys') >= 2 => f' = FaultBound(Len(m_vPublicKeys'))
    BY <1>1, FaultBoundsNext DEF FaultBoundsHold
  <2> QED
    BY <1>1, <2>2, <2>3, FaultBoundGrows
<1>9. RoundAsked'
  <2>1. asked.f \in Nat /\ Len(m_vPublicKeys) \in Nat /\ Len(m_vPublicKeys') \in Nat
    BY <1>1, FaultBounds, FaultBoundsNext DEF FaultBoundsHold, JoinInv, RoundTypes
  <2> QED
    BY <1>1, <1>8, <2>1 DEF JoinInv, RoundAsked
<1>10. RoundSteady'
  <2> SUFFICES ASSUME log' # <<>>, asked'.nodes # {0}, f' = asked'.f
               PROVE  RoundSteady'
    BY DEF RoundSteady
  <2>1. f' = f /\ f = asked.f /\ log # <<>> /\ asked.nodes # {0}
    BY <1>1, <1>8 DEF JoinInv, RoundAsked, RoundTypes
  <2>2. Prepares' = Prepares /\ Commits' = Commits
    BY <2>1 DEF Prepares, Commits
  <2> QED
    BY <1>1, <1>5, <2>1, <2>2 DEF JoinInv, RoundSteady, CountIn
<1>11. CommitsAsAsked'
  BY <1>1 DEF JoinInv, CommitsAsAsked
<1> QED
  BY <1>4, <1>6, <1>7, <1>9, <1>10, <1>11 DEF JoinInv

\* CommitsAsAsked by the count, the same a step later.
CommitsCountedHold == CommitsAsAsked <=> (committed # {} => CountIn(log, "COMMIT", Len(log)) >= asked.f + 1)

\* CommitsAsAsked speaks of the count of COMMITs, before a step and after it.
LEMMA CommitsCountedBoth ==
    /\ RoundTypes => CommitsCountedHold
    /\ RoundTypes' => CommitsCountedHold'
<1>1. RoundTypes => CommitsCountedHold
  BY CommitsCounted DEF CommitsCountedHold
<1> QED
  BY <1>1, PTL

\* s2 is n messages of s and one more: the counts up to any place before it are
\* the same, and it counts itself.
OneMore(s, s2, t, n) ==
    /\ \A type : \A r \in 0..n : CountIn(s2, type, r) = CountIn(s, type, r)
    /\ \A type : CountIn(s2, type, n + 1) = CountIn(s, type, n) + (IF t = type THEN 1 ELSE 0)

\* This is what appending does to the counts.
LEMMA CountOneMore ==
    \A s, s2, t : \A n \in Nat :
        s2[n + 1] = t /\ (\A k \in 1..n : s2[k] = s[k]) => OneMore(s, s2, t, n)
<1> SUFFICES ASSUME NEW s, NEW s2, NEW t, NEW n \in Nat, s2[n + 1] = t, \A k \in 1..n : s2[k] = s[k]
             PROVE  OneMore(s, s2, t, n)
  OBVIOUS
<1>1. ASSUME NEW type, NEW r \in 0..n
      PROVE  CountIn(s2, type, r) = CountIn(s, type, r)
  <2>1. r \in Nat /\ \A k \in 1..r : s2[k] = s[k]
    OBVIOUS
  <2> QED
    BY <2>1, CountKept
<1>2. ASSUME NEW type
      PROVE  CountIn(s2, type, n + 1) = CountIn(s, type, n) + (IF t = type THEN 1 ELSE 0)
  <2>1. CountIn(s2, type, n + 1) = CountIn(s2, type, n) + (IF s2[n + 1] = type THEN 1 ELSE 0)
    BY CountNext
  <2>2. CountIn(s2, type, n) = CountIn(s, type, n)
    BY <1>1
  <2> QED
    BY <2>1, <2>2
<1> QED
  BY <1>1, <1>2 DEF OneMore

\* s2 is s with a message appended, and what it makes of the counts.
Appended(s, s2, t) ==
    /\ s2 \in Seq(MsgType) /\ Len(s) \in Nat /\ Len(s2) = Len(s) + 1
    /\ s2[Len(s) + 1] = t /\ \A k \in 1..Len(s) : s2[k] = s[k]
    /\ OneMore(s, s2, t, Len(s))

\* This is what Append does.
LEMMA CountAppend ==
    \A s, s2, t : s \in Seq(MsgType) /\ t \in MsgType /\ s2 = Append(s, t) => Appended(s, s2, t)
<1> SUFFICES ASSUME NEW s, NEW t, NEW s2, s \in Seq(MsgType), t \in MsgType, s2 = Append(s, t)
             PROVE  Appended(s, s2, t)
  OBVIOUS
<1>1. /\ s2 \in Seq(MsgType) /\ Len(s) \in Nat /\ Len(s2) = Len(s) + 1
      /\ s2[Len(s) + 1] = t /\ \A k \in 1..Len(s) : s2[k] = s[k]
  OBVIOUS
<1>2. OneMore(s, s2, t, Len(s))
  BY <1>1, CountOneMore
<1> QED
  BY <1>1, <1>2 DEF Appended

\* The first node proposes.
LEMMA ProposeStep == ASSUME JoinInv, Propose PROVE JoinInv'
<1>1. /\ 0 \in running /\ log = <<>> /\ log' = <<"PREPREPARE">>
      /\ asked'.nodes = clients /\ asked'.f = f
      /\ UNCHANGED <<m_vPublicKeys, m_vpNodes, clients, running>> /\ UNCHANGED factoryVars
      /\ UNCHANGED <<read, state, preparesRecieved, commitsRecieved, committed>>
  BY DEF Propose, factoryVars
<1>2. /\ RoundTypes /\ FactoryInv /\ FactoryInv' /\ 0 \in clients /\ clients \subseteq Id
      /\ clients' \subseteq Id
  <2>1. RoundTypes /\ FactoryInv
    BY DEF JoinInv, RoundTypes
  <2> QED
    BY <1>1, <2>1, RoundSets, FactoryStep
<1>3. asked.nodes = {} /\ committed = {}
  BY <1>1, <1>2 DEF RoundTypes
<1>4. \A i \in Id : /\ state[i] = "PRE_PREPARE" /\ preparesRecieved[i] = 0
                    /\ commitsRecieved[i] = 0 /\ read[i] = 0
  BY <1>1, <1>2, <1>3 DEF RoundTypes
<1>5. log' = Append(log, "PREPREPARE") /\ Len(log') = 1 /\ log'[1] = "PREPREPARE"
  BY <1>1
<1>6. /\ CountIn(log', "PREPARE", 0) = 0 /\ CountIn(log', "COMMIT", 0) = 0
      /\ CountIn(log', "PREPARE", 1) = 0 /\ CountIn(log', "COMMIT", 1) = 0
  <2>1. /\ \A type : CountIn(log', type, 0) = CountIn(log, type, 0)
        /\ \A type : CountIn(log', type, 1) = CountIn(log, type, 0) + (IF "PREPREPARE" = type THEN 1 ELSE 0)
    <3>1. PICK s, s2 : s = log /\ s2 = log' /\ s2[0 + 1] = "PREPREPARE"
      BY <1>5
    <3>2. OneMore(s, s2, "PREPREPARE", 0)
      BY <3>1, CountOneMore
    <3> QED
      BY <3>1, <3>2 DEF OneMore
  <2> QED
    BY <2>1, CountNone
<1>7. f \in Nat
  BY <1>2, FaultBounds DEF FaultBoundsHold
<1>8. RoundTypes'
  <2>1. log' \in Seq(MsgType)
    BY <1>1 DEF MsgType
  <2> QED
    BY <1>1, <1>2, <1>3, <1>4, <1>5, <1>7, <2>1 DEF RoundTypes
<1>9. RoundPlaces'
  BY <1>1, <1>2, <1>3, <1>4, <1>6 DEF RoundPlaces
<1>10. RoundPosts'
  <2>1. Begun' = {} /\ Engaged' = {}
    BY <1>1, <1>2, <1>3, <1>4 DEF Begun, Engaged
  <2> QED
    BY <1>5, <1>6, <2>1, FS_EmptySet DEF RoundPosts
<1>11. RoundAsked'
  <2>1. CASE clients = {0}
    BY <1>1, <1>2, <1>3, <1>4, <2>1 DEF RoundAsked
  <2>2. CASE clients # {0}
    <3>1. Len(m_vPublicKeys) >= 2
      <4>1. PICK j \in clients : j # 0
        BY <1>2, <2>2
      <4>2. Len(m_vpNodes) \in Nat /\ j \in 0..(Len(m_vpNodes) - 1) /\ MaxNodes \in Nat
        BY <1>2, <4>1 DEF FactoryInv
      <4>3. Len(m_vPublicKeys) = Len(m_vpNodes) \/ Len(m_vPublicKeys) = Len(m_vpNodes) + 1
        BY <1>2 DEF FactoryInv
      <4> QED
        BY <4>1, <4>2, <4>3
    <3>2. f' = f
      BY <1>1 DEF f
    <3> QED
      BY <1>1, <1>7, <2>2, <3>1, <3>2 DEF RoundAsked
  <2> QED
    BY <2>1, <2>2
<1>12. RoundSteady'
  <2>3. \A k \in 1..Len(log') : log'[k] # "COMMIT"
    BY <1>5
  <2> QED
    BY <1>1, <1>2, <1>4, <2>3 DEF RoundSteady
<1>13. CommitsAsAsked'
  BY <1>1, <1>3 DEF CommitsAsAsked
<1> QED
  BY <1>8, <1>9, <1>10, <1>11, <1>12, <1>13 DEF JoinInv

\* A node takes the PREPREPARE and posts its PREPARE.
LEMMA PrePrepareStep == ASSUME JoinInv, NEW i \in Id, PrePrepare(i) PROVE JoinInv'
<1>1. /\ i \in clients /\ log # <<>> /\ read[i] = 0 /\ i \in asked.nodes
      /\ read' = [read EXCEPT ![i] = 1] /\ state[i] = "PRE_PREPARE"
      /\ UNCHANGED <<m_vPublicKeys, clients, running, asked>> /\ FactoryInv'
      /\ log' = Append(log, "PREPARE") /\ state' = [state EXCEPT ![i] = "PREPARE"]
      /\ UNCHANGED <<preparesRecieved, commitsRecieved, committed>>
  <2>1. Takes(i, "PRE_PREPARE", "PREPREPARE")
    BY DEF PrePrepare
  <2>2. 0 + 1 = 1
    OBVIOUS
  <2> QED
    BY <2>1, <2>2, TakesFacts DEF PrePrepare, Posts
<1>2. /\ RoundTypes /\ RoundPlaces /\ RoundPosts /\ RoundAsked /\ RoundSteady /\ CommitsAsAsked
      /\ log \in Seq(MsgType) /\ read \in [Id -> Nat]
      /\ state \in [Id -> {"PRE_PREPARE", "PREPARE", "COMMIT"}]
      /\ clients \subseteq Id /\ asked.nodes \subseteq clients /\ committed \subseteq asked.nodes
      /\ \A j \in Id : read[j] <= Len(log)
  BY RoundSets DEF JoinInv, RoundTypes
<1>3. Appended(log, log', "PREPARE")
  BY <1>1, <1>2, CountAppend DEF MsgType
<1>4. /\ Len(log) \in Nat /\ Len(log) >= 1 /\ Len(log') = Len(log) + 1
      /\ \A type : \A r \in 0..Len(log) : CountIn(log', type, r) = CountIn(log, type, r)
      /\ CountIn(log', "PREPARE", Len(log) + 1) = CountIn(log, "PREPARE", Len(log)) + 1
      /\ CountIn(log', "COMMIT", Len(log) + 1) = CountIn(log, "COMMIT", Len(log))
  <2>1. Len(log) \in Nat /\ Len(log) >= 1
    BY <1>1, <1>2, EmptySeq
  <2>2. CountIn(log, "COMMIT", Len(log)) \in Nat
    BY <2>1, CountNext
  <2> QED
    BY <1>3, <2>1, <2>2 DEF Appended, OneMore
<1>5. \A j \in Id : read'[j] \in Nat /\ read'[j] <= Len(log) /\ (j # i => read'[j] = read[j])
  BY <1>1, <1>2, <1>4
<1>6. RoundTypes'
  <2>1. log' # <<>> /\ log'[1] = "PREPREPARE" /\ \A k \in 2..Len(log') : log'[k] # "PREPREPARE"
    BY <1>1, <1>2, <1>3, <1>4 DEF RoundTypes, Appended
  <2>2. log' \in Seq(MsgType) /\ read' \in [Id -> Nat] /\ \A j \in Id : read'[j] <= Len(log')
    BY <1>1, <1>2, <1>3, <1>4, <1>5 DEF Appended
  <2>3. state' \in [Id -> {"PRE_PREPARE", "PREPARE", "COMMIT"}]
    BY <1>1, <1>2
  <2>4. \A j \in Id \ asked.nodes : state'[j] = state[j]
    BY <1>1, <1>2
  <2>5. \A j \in clients \ asked.nodes : read'[j] >= 1
    BY <1>1, <1>2, <1>5 DEF RoundTypes
  <2> QED
    BY <1>1, <1>2, <2>1, <2>2, <2>3, <2>4, <2>5 DEF RoundTypes
<1>7. RoundPlaces'
  <2>1. ASSUME NEW j \in asked.nodes, j # i
        PROVE  /\ read'[j] = read[j] /\ state'[j] = state[j]
               /\ CountIn(log', "PREPARE", read[j]) = CountIn(log, "PREPARE", read[j])
               /\ CountIn(log', "COMMIT", read[j]) = CountIn(log, "COMMIT", read[j])
    <3>1. read[j] \in 0..Len(log)
      BY <1>2, <1>4
    <3> QED
      BY <1>1, <1>2, <1>4, <2>1, <3>1
  <2>2. /\ read'[i] = 1 /\ state'[i] = "PREPARE" /\ i \notin committed
        /\ preparesRecieved[i] = 0 /\ commitsRecieved[i] = 0
    BY <1>1, <1>2 DEF RoundPlaces
  <2>3. CountIn(log', "PREPARE", 1) = 0 /\ CountIn(log', "COMMIT", 1) = 0
    <3>0. log'[1] = "PREPREPARE" /\ 0 + 1 = 1
      BY <1>1, <1>2, <1>3, <1>4 DEF RoundTypes, Appended
    <3>1. PICK s : s = log' /\ s[0 + 1] = "PREPREPARE"
      BY <3>0
    <3>2. OneMore(s, s, "PREPREPARE", 0)
      BY <3>1, CountOneMore
    <3> QED
      BY <3>1, <3>2, CountNone DEF OneMore
  <2> QED
    BY <1>1, <1>2, <2>1, <2>2, <2>3 DEF RoundPlaces
<1>8. RoundPosts'
  <2>1. Begun' = Begun \cup {i} /\ i \notin Begun
    BY <1>1, <1>2, <1>5 DEF Begun
  <2>2. Engaged' = Engaged
    BY <1>1, <1>2 DEF Engaged, RoundPlaces
  <2>3. Cardinality(Begun \cup {i}) = Cardinality(Begun) + 1
    BY <1>2, <2>1, RoundSets, FS_AddElement
  <2> QED
    BY <1>2, <1>4, <2>1, <2>2, <2>3 DEF RoundPosts
<1>9. RoundAsked'
  <2>1. f' = f
    BY <1>1 DEF f
  <2> QED
    BY <1>1, <1>2, <2>1 DEF RoundAsked
<1>10. RoundSteady'
  <2> SUFFICES ASSUME log' # <<>>, asked'.nodes # {0}, f' = asked'.f
               PROVE  RoundSteady'
    BY DEF RoundSteady
  <2>1. f' = f /\ f = asked.f /\ asked.nodes # {0} /\ Prepares' = Prepares /\ Commits' = Commits
    BY <1>1 DEF f, Prepares, Commits
  <2>2. \A k \in 1..Len(log') : log'[k] = "COMMIT" => CountIn(log', "PREPARE", k) >= Prepares
    <3> SUFFICES ASSUME NEW k \in 1..Len(log'), log'[k] = "COMMIT"
                 PROVE  CountIn(log', "PREPARE", k) >= Prepares
      OBVIOUS
    <3>1. k \in 1..Len(log) /\ log[k] = "COMMIT"
      BY <1>3, <1>4 DEF Appended
    <3>2. CountIn(log, "PREPARE", k) >= Prepares
      BY <1>1, <1>2, <2>1, <3>1 DEF RoundSteady
    <3>3. k \in 0..Len(log)
      BY <1>4, <3>1
    <3> QED
      BY <1>4, <3>2, <3>3
  <2>3. ASSUME NEW j \in asked.nodes
        PROVE  /\ state'[j] = "PREPARE" => preparesRecieved[j] < Prepares
               /\ state'[j] = "COMMIT" =>
                    /\ CountIn(log', "PREPARE", read'[j]) >= Prepares
                    /\ commitsRecieved[j] = CountIn(log', "COMMIT", read'[j])
                    /\ commitsRecieved[j] < Commits
    <3>1. CASE j = i
      <4>1. state'[j] = "PREPARE" /\ preparesRecieved[j] = 0
        BY <1>1, <1>2, <3>1 DEF RoundPlaces
      <4>2. Prepares > 0
        <5>1. FaultBoundsHold
          BY <1>2, FaultBounds DEF RoundTypes
        <5> QED
          BY <5>1 DEF FaultBoundsHold
      <4> QED
        BY <4>1, <4>2
    <3>2. CASE j # i
      <4>1. read'[j] = read[j] /\ state'[j] = state[j] /\ read[j] \in 0..Len(log)
        BY <1>1, <1>2, <1>4, <1>5, <3>2
      <4> QED
        BY <1>1, <1>2, <1>4, <2>1, <4>1 DEF RoundSteady
    <3> QED
      BY <3>1, <3>2
  <2> QED
    BY <1>1, <2>1, <2>2, <2>3 DEF RoundSteady
<1>11. CommitsAsAsked'
  <2>1. CommitsCountedHold /\ CommitsCountedHold'
    BY <1>2, <1>6, CommitsCountedBoth
  <2> QED
    BY <1>1, <1>2, <1>4, <2>1 DEF CommitsCountedHold
<1> QED
  BY <1>6, <1>7, <1>8, <1>9, <1>10, <1>11 DEF JoinInv

\* No message of a type, none counted.
LEMMA CountZero ==
    \A s, type : \A r \in Nat : (\A k \in 1..r : s[k] # type) => CountIn(s, type, r) = 0
<1> SUFFICES ASSUME NEW s, NEW type, NEW r \in Nat, \A k \in 1..r : s[k] # type
             PROVE  CountIn(s, type, r) = 0
  OBVIOUS
<1>1. {k \in 1..r : s[k] = type} = {}
  OBVIOUS
<1> QED
  BY <1>1, FS_EmptySet DEF CountIn

\* What reading on, without posting or going to another state, must keep at node i.
ReadsOn(i) ==
    /\ read[i] >= 1
    /\ UNCHANGED <<log, state, committed>>
    /\ preparesRecieved' \in [Id -> Nat] /\ commitsRecieved' \in [Id -> Nat]
    /\ \A j \in Id : j # i => /\ preparesRecieved'[j] = preparesRecieved[j]
                              /\ commitsRecieved'[j] = commitsRecieved[j]
    /\ i \notin asked.nodes => preparesRecieved'[i] = 0 /\ commitsRecieved'[i] = 0
    /\ i \in asked.nodes =>
          /\ preparesRecieved'[i] <= CountIn(log, "PREPARE", read[i] + 1)
          /\ commitsRecieved'[i] <= CountIn(log, "COMMIT", read[i] + 1)
          /\ state[i] = "PREPARE" => /\ preparesRecieved'[i] = CountIn(log, "PREPARE", read[i] + 1)
                                     /\ commitsRecieved'[i] = 0
          /\ asked.nodes # {0} /\ f = asked.f =>
                /\ state[i] = "PREPARE" => preparesRecieved'[i] < Prepares
                /\ state[i] = "COMMIT" => /\ commitsRecieved'[i] = CountIn(log, "COMMIT", read[i] + 1)
                                          /\ commitsRecieved'[i] < Commits

\* The numbers do not depend on what a node takes.
LEMMA SameBounds ==
    ASSUME UNCHANGED m_vPublicKeys
    PROVE  f' = f /\ Prepares' = Prepares /\ Commits' = Commits
BY DEF f, Prepares, Commits

\* Reading on keeps the invariant.
LEMMA ReadStep ==
    ASSUME JoinInv, NEW i \in Id, NEW s, NEW type, Takes(i, s, type), ReadsOn(i)
    PROVE  JoinInv'
<1>1. /\ i \in clients /\ log # <<>> /\ read[i] \in Nat /\ read[i] + 1 \in 1..Len(log)
      /\ read' = [read EXCEPT ![i] = read[i] + 1] /\ read[i] >= 1
      /\ UNCHANGED <<m_vPublicKeys, clients, running, asked>> /\ FactoryInv'
      /\ UNCHANGED <<log, state, committed>>
  BY TakesFacts DEF ReadsOn
<1>2. /\ RoundTypes /\ RoundPlaces /\ RoundPosts /\ RoundAsked /\ RoundSteady /\ CommitsAsAsked
      /\ log \in Seq(MsgType) /\ read \in [Id -> Nat] /\ Len(log) \in Nat
      /\ clients \subseteq Id /\ asked.nodes \subseteq clients /\ committed \subseteq asked.nodes
      /\ \A j \in Id : read[j] <= Len(log)
  BY RoundSets DEF JoinInv, RoundTypes
<1>3. PICK r \in Nat : r = read[i] /\ r >= 1 /\ r + 1 <= Len(log)
  BY <1>1, <1>2
<1>4. /\ read' \in [Id -> Nat] /\ read'[i] = r + 1 /\ \A j \in Id : j # i => read'[j] = read[j]
      /\ \A j \in Id : read'[j] <= Len(log)
  BY <1>1, <1>2, <1>3
<1>5. RoundTypes'
  <2>1. \A j \in clients \ asked.nodes : read'[j] >= 1
    BY <1>1, <1>2, <1>3, <1>4 DEF RoundTypes
  <2>2. \A j \in Id \ asked.nodes : preparesRecieved'[j] = 0 /\ commitsRecieved'[j] = 0
    BY <1>2 DEF RoundTypes, ReadsOn
  <2> QED
    BY <1>1, <1>2, <1>4, <2>1, <2>2 DEF RoundTypes, ReadsOn
<1>6. RoundPlaces'
  <2>1. ASSUME NEW j \in asked.nodes, j # i
        PROVE  /\ read'[j] = read[j] /\ preparesRecieved'[j] = preparesRecieved[j]
               /\ commitsRecieved'[j] = commitsRecieved[j]
    BY <1>2, <1>4, <2>1 DEF ReadsOn
  <2>2. ASSUME i \in asked.nodes
        PROVE  /\ read'[i] = r + 1 /\ r + 1 # 0 /\ r + 1 >= 1
               /\ state[i] = "PRE_PREPARE" => i \in committed
               /\ state[i] # "PRE_PREPARE" => i \notin committed
               /\ preparesRecieved'[i] <= CountIn(log, "PREPARE", r + 1)
               /\ commitsRecieved'[i] <= CountIn(log, "COMMIT", r + 1)
               /\ state[i] = "PREPARE" => /\ preparesRecieved'[i] = CountIn(log, "PREPARE", r + 1)
                                          /\ commitsRecieved'[i] = 0
    BY <1>2, <1>3, <1>4, <2>2 DEF RoundPlaces, ReadsOn
  <2> QED
    BY <1>1, <1>2, <2>1, <2>2 DEF RoundPlaces
<1>7. RoundPosts'
  <2>1. Begun' = Begun /\ Engaged' = Engaged
    BY <1>1, <1>2, <1>3, <1>4 DEF Begun, Engaged
  <2> QED
    BY <1>1, <1>2, <2>1 DEF RoundPosts
<1>8. f' = f /\ Prepares' = Prepares /\ Commits' = Commits
  BY <1>1, SameBounds
<1>9. RoundAsked'
  BY <1>1, <1>2, <1>8 DEF RoundAsked
<1>10. RoundSteady'
  <2> SUFFICES ASSUME log' # <<>>, asked'.nodes # {0}, f' = asked'.f
               PROVE  RoundSteady'
    BY DEF RoundSteady
  <2>1. /\ \A k \in 1..Len(log) : log[k] = "COMMIT" => CountIn(log, "PREPARE", k) >= Prepares
        /\ asked.nodes # {0} /\ f = asked.f
    BY <1>1, <1>2, <1>8 DEF RoundSteady
  <2>2. ASSUME NEW j \in asked.nodes
        PROVE  /\ state[j] = "PREPARE" => preparesRecieved'[j] < Prepares
               /\ state[j] = "COMMIT" =>
                    /\ CountIn(log, "PREPARE", read'[j]) >= Prepares
                    /\ commitsRecieved'[j] = CountIn(log, "COMMIT", read'[j])
                    /\ commitsRecieved'[j] < Commits
    <3>1. CASE j = i
      <4>1. /\ state[i] = "PREPARE" => preparesRecieved'[i] < Prepares
            /\ state[i] = "COMMIT" => /\ commitsRecieved'[i] = CountIn(log, "COMMIT", r + 1)
                                      /\ commitsRecieved'[i] < Commits
        BY <1>3, <2>1, <3>1 DEF ReadsOn
      <4>2. state[i] = "COMMIT" => CountIn(log, "PREPARE", r + 1) >= Prepares
        <5>1. CountIn(log, "PREPARE", r) \in Nat /\ CountIn(log, "PREPARE", r + 1) \in Nat
          BY CountNext
        <5>2. CountIn(log, "PREPARE", r) <= CountIn(log, "PREPARE", r + 1)
          BY CountGrows
        <5>3. state[i] = "COMMIT" => CountIn(log, "PREPARE", r) >= Prepares
          BY <1>1, <1>2, <1>3, <2>1, <3>1 DEF RoundSteady
        <5>4. Prepares \in Nat
          <6>1. FaultBoundsHold
            BY <1>2, FaultBounds DEF RoundTypes
          <6> QED
            BY <6>1 DEF FaultBoundsHold
        <5> QED
          BY <5>1, <5>2, <5>3, <5>4
      <4> QED
        BY <1>4, <3>1, <4>1, <4>2
    <3>2. CASE j # i
      <4>1. /\ read'[j] = read[j] /\ preparesRecieved'[j] = preparesRecieved[j]
            /\ commitsRecieved'[j] = commitsRecieved[j]
        BY <1>2, <1>4, <3>2 DEF ReadsOn
      <4> QED
        BY <1>1, <1>2, <2>1, <4>1 DEF RoundSteady
    <3> QED
      BY <3>1, <3>2
  <2> QED
    BY <1>1, <1>8, <2>1, <2>2 DEF RoundSteady
<1>11. CommitsAsAsked'
  BY <1>1, <1>2 DEF CommitsAsAsked
<1> QED
  BY <1>5, <1>6, <1>7, <1>9, <1>10, <1>11 DEF JoinInv

\* A node drops a message.
LEMMA DropStep == ASSUME JoinInv, NEW i \in Id, Drop(i) PROVE JoinInv'
<1>1. PICK s \in {"PRE_PREPARE", "PREPARE", "COMMIT"}, type \in {"PREPREPARE", "PREPARE", "COMMIT"} :
          /\ <<s, type>> \notin {<<"PRE_PREPARE", "PREPREPARE">>, <<"PREPARE", "PREPARE">>, <<"COMMIT", "COMMIT">>}
          /\ Takes(i, s, type)
  BY DEF Drop
<1>2. /\ read[i] \in Nat /\ log[read[i] + 1] = type /\ state[i] = s /\ asked' = asked
      /\ read[i] = 0 => type = "PREPREPARE" /\ i \in asked.nodes
  BY <1>1, TakesFacts
<1>3. read[i] >= 1
  <2>1. read[i] = 0 => s = "PRE_PREPARE" /\ type = "PREPREPARE"
    BY <1>2 DEF JoinInv, RoundPlaces
  <2> QED
    BY <1>1, <1>2, <2>1
<1>4. /\ UNCHANGED <<log, state, preparesRecieved, commitsRecieved, committed>>
      /\ RoundTypes /\ RoundPlaces /\ RoundSteady
  BY DEF Drop, JoinInv
<1>5. PICK r \in Nat : r = read[i]
  BY <1>2
<1>6. /\ CountIn(log, "PREPARE", r) \in Nat /\ CountIn(log, "COMMIT", r) \in Nat
      /\ CountIn(log, "PREPARE", r + 1) = CountIn(log, "PREPARE", r) + (IF log[r + 1] = "PREPARE" THEN 1 ELSE 0)
      /\ CountIn(log, "COMMIT", r + 1) = CountIn(log, "COMMIT", r) + (IF log[r + 1] = "COMMIT" THEN 1 ELSE 0)
  <2>1. PICK q : q = log
    OBVIOUS
  <2> QED
    BY <2>1, CountNext
<1>7. /\ s = "PREPARE" => type # "PREPARE"
      /\ s = "COMMIT" => type # "COMMIT"
  BY <1>1
<1>8. ReadsOn(i)
  <2>1. /\ preparesRecieved \in [Id -> Nat] /\ commitsRecieved \in [Id -> Nat]
        /\ i \notin asked.nodes => preparesRecieved[i] = 0 /\ commitsRecieved[i] = 0
        /\ log # <<>>
    BY <1>1, <1>4, TakesFacts DEF RoundTypes
  <2>2. ASSUME i \in asked.nodes
        PROVE  /\ preparesRecieved[i] <= CountIn(log, "PREPARE", r + 1)
               /\ commitsRecieved[i] <= CountIn(log, "COMMIT", r + 1)
               /\ state[i] = "PREPARE" => /\ preparesRecieved[i] = CountIn(log, "PREPARE", r + 1)
                                          /\ commitsRecieved[i] = 0
               /\ asked.nodes # {0} /\ f = asked.f =>
                    /\ state[i] = "PREPARE" => preparesRecieved[i] < Prepares
                    /\ state[i] = "COMMIT" => /\ commitsRecieved[i] = CountIn(log, "COMMIT", r + 1)
                                              /\ commitsRecieved[i] < Commits
    <3>1. /\ preparesRecieved[i] \in Nat /\ commitsRecieved[i] \in Nat
          /\ preparesRecieved[i] <= CountIn(log, "PREPARE", r)
          /\ commitsRecieved[i] <= CountIn(log, "COMMIT", r)
          /\ state[i] = "PREPARE" => /\ preparesRecieved[i] = CountIn(log, "PREPARE", r)
                                     /\ commitsRecieved[i] = 0
      BY <1>4, <1>5, <2>1, <2>2 DEF RoundPlaces
    <3>2. asked.nodes # {0} /\ f = asked.f =>
                    /\ state[i] = "PREPARE" => preparesRecieved[i] < Prepares
                    /\ state[i] = "COMMIT" => /\ commitsRecieved[i] = CountIn(log, "COMMIT", r)
                                              /\ commitsRecieved[i] < Commits
      BY <1>4, <1>5, <2>1, <2>2 DEF RoundSteady
    <3>3. /\ state[i] = "PREPARE" => CountIn(log, "PREPARE", r + 1) = CountIn(log, "PREPARE", r)
          /\ state[i] = "COMMIT" => CountIn(log, "COMMIT", r + 1) = CountIn(log, "COMMIT", r)
          /\ CountIn(log, "PREPARE", r) <= CountIn(log, "PREPARE", r + 1)
          /\ CountIn(log, "COMMIT", r) <= CountIn(log, "COMMIT", r + 1)
          /\ CountIn(log, "PREPARE", r + 1) \in Nat /\ CountIn(log, "COMMIT", r + 1) \in Nat
      BY <1>2, <1>5, <1>6, <1>7
    <3> QED
      BY <1>6, <3>1, <3>2, <3>3
  <2> QED
    BY <1>3, <1>4, <1>5, <2>1, <2>2 DEF ReadsOn
<1> QED
  BY <1>1, <1>8, ReadStep

\* What a node that counts a message has before it.
CountsFacts(i, t) ==
    /\ i \in asked.nodes /\ i \in Id /\ state[i] = t /\ log # <<>>
    /\ read[i] \in Nat /\ read[i] >= 1 /\ read[i] + 1 <= Len(log) /\ Len(log) \in Nat
    /\ i \notin committed
    /\ preparesRecieved \in [Id -> Nat] /\ commitsRecieved \in [Id -> Nat]
    /\ preparesRecieved[i] <= CountIn(log, "PREPARE", read[i] + 1)
    /\ commitsRecieved[i] <= CountIn(log, "COMMIT", read[i] + 1)
    /\ CountIn(log, t, read[i] + 1) = CountIn(log, t, read[i]) + 1
    /\ CountIn(log, t, read[i]) \in Nat
    /\ CountIn(log, t, read[i] + 1) <= CountIn(log, t, Len(log))
    /\ CountIn(log, t, Len(log)) \in Nat
    /\ f \in Nat \ {0} /\ Prepares = 2 * f /\ Commits = f + 1 /\ asked.f \in Nat

\* A node that takes a PREPARE in state PREPARE, or a COMMIT in state COMMIT.
LEMMA CountsBefore ==
    ASSUME JoinInv, NEW i \in Id, NEW t \in {"PREPARE", "COMMIT"}, Takes(i, t, t)
    PROVE  CountsFacts(i, t)
<1>1. /\ i \in asked.nodes /\ state[i] = t /\ log # <<>> /\ read[i] \in Nat /\ read[i] >= 1
      /\ read[i] + 1 \in 1..Len(log) /\ log[read[i] + 1] = t
  BY TakesFacts
<1>2. /\ RoundTypes /\ RoundPlaces /\ Len(log) \in Nat
      /\ preparesRecieved \in [Id -> Nat] /\ commitsRecieved \in [Id -> Nat] /\ asked.f \in Nat
  BY RoundSets DEF JoinInv, RoundTypes
<1>3. PICK r \in Nat : r = read[i]
  BY <1>1
<1>4. PICK s : s = log
  OBVIOUS
<1>5. /\ CountIn(s, t, r) \in Nat /\ CountIn(s, t, r + 1) = CountIn(s, t, r) + 1
      /\ CountIn(s, "PREPARE", r) \in Nat /\ CountIn(s, "COMMIT", r) \in Nat
      /\ CountIn(s, "PREPARE", r + 1) \in Nat /\ CountIn(s, "COMMIT", r + 1) \in Nat
      /\ CountIn(s, "PREPARE", r) <= CountIn(s, "PREPARE", r + 1)
      /\ CountIn(s, "COMMIT", r) <= CountIn(s, "COMMIT", r + 1)
  <2>1. r + 1 \in Nat /\ r <= r + 1 /\ s[r + 1] = t
    BY <1>1, <1>3, <1>4
  <2>2. /\ CountIn(s, t, r) \in Nat
        /\ CountIn(s, t, r + 1) = CountIn(s, t, r) + (IF s[r + 1] = t THEN 1 ELSE 0)
    BY CountNext
  <2>3. /\ CountIn(s, "PREPARE", r) \in Nat /\ CountIn(s, "COMMIT", r) \in Nat
        /\ CountIn(s, "PREPARE", r + 1) \in Nat /\ CountIn(s, "COMMIT", r + 1) \in Nat
    BY <2>1, CountNext
  <2>4. /\ CountIn(s, "PREPARE", r) <= CountIn(s, "PREPARE", r + 1)
        /\ CountIn(s, "COMMIT", r) <= CountIn(s, "COMMIT", r + 1)
    BY <2>1, CountGrows
  <2> QED
    BY <2>1, <2>2, <2>3, <2>4
<1>6. CountIn(s, t, Len(s)) \in Nat /\ CountIn(s, t, r + 1) <= CountIn(s, t, Len(s))
  <2>1. r + 1 \in Nat /\ Len(s) \in Nat /\ r + 1 <= Len(s)
    BY <1>1, <1>2, <1>3, <1>4
  <2> QED
    BY <2>1, CountNext, CountGrows
<1>7. preparesRecieved[i] <= CountIn(s, "PREPARE", r) /\ commitsRecieved[i] <= CountIn(s, "COMMIT", r)
      /\ i \notin committed
  BY <1>1, <1>2, <1>3, <1>4 DEF RoundPlaces
<1>8. /\ preparesRecieved[i] <= CountIn(s, "PREPARE", r + 1)
      /\ commitsRecieved[i] <= CountIn(s, "COMMIT", r + 1)
  BY <1>2, <1>5, <1>7
<1>9. f \in Nat \ {0} /\ Prepares = 2 * f /\ Commits = f + 1
  <2>1. FaultBoundsHold
    BY <1>2, FaultBounds DEF RoundTypes
  <2> QED
    BY <2>1 DEF FaultBoundsHold
<1> QED
  BY <1>1, <1>2, <1>3, <1>4, <1>5, <1>6, <1>7, <1>8, <1>9 DEF CountsFacts

\* A node takes a PREPARE that does not make its request prepared.
LEMMA PrepareCounts ==
    ASSUME JoinInv, NEW i \in Id, Prepare(i), preparesRecieved[i] + 1 < Prepares
    PROVE  JoinInv'
<1>1. Takes(i, "PREPARE", "PREPARE") /\ CountsFacts(i, "PREPARE")
  BY CountsBefore DEF Prepare
<1>2. /\ preparesRecieved' = [preparesRecieved EXCEPT ![i] = preparesRecieved[i] + 1]
      /\ UNCHANGED <<log, state, commitsRecieved, committed>>
  BY DEF Prepare
<1>3. preparesRecieved[i] = CountIn(log, "PREPARE", read[i]) /\ commitsRecieved[i] = 0
  BY <1>1 DEF JoinInv, RoundPlaces, CountsFacts
<1>4. /\ preparesRecieved' \in [Id -> Nat]
      /\ preparesRecieved'[i] = CountIn(log, "PREPARE", read[i] + 1)
      /\ preparesRecieved'[i] < Prepares
      /\ \A j \in Id : j # i => preparesRecieved'[j] = preparesRecieved[j]
  BY <1>1, <1>2, <1>3 DEF CountsFacts
<1>5. ReadsOn(i)
  <2>1. preparesRecieved'[i] <= CountIn(log, "PREPARE", read[i] + 1)
    BY <1>1, <1>4 DEF CountsFacts
  <2>2. state[i] = "PREPARE"
    BY <1>1 DEF CountsFacts
  <2> QED
    BY <1>1, <1>2, <1>3, <1>4, <2>1, <2>2 DEF ReadsOn, CountsFacts
<1> QED
  BY <1>1, <1>5, ReadStep

\* A node takes a COMMIT that does not make its request committed.
LEMMA CommitCounts ==
    ASSUME JoinInv, NEW i \in Id, Commit(i), commitsRecieved[i] + 1 < Commits
    PROVE  JoinInv'
<1>1. Takes(i, "COMMIT", "COMMIT") /\ CountsFacts(i, "COMMIT")
  BY CountsBefore DEF Commit
<1>2. /\ commitsRecieved' = [commitsRecieved EXCEPT ![i] = commitsRecieved[i] + 1]
      /\ UNCHANGED <<log, state, preparesRecieved, committed>>
  BY DEF Commit
<1>3. /\ commitsRecieved[i] <= CountIn(log, "COMMIT", read[i])
      /\ asked.nodes # {0} /\ f = asked.f => commitsRecieved[i] = CountIn(log, "COMMIT", read[i])
  BY <1>1 DEF JoinInv, RoundPlaces, RoundSteady, CountsFacts
<1>4. /\ commitsRecieved' \in [Id -> Nat]
      /\ commitsRecieved'[i] <= CountIn(log, "COMMIT", read[i] + 1)
      /\ asked.nodes # {0} /\ f = asked.f => commitsRecieved'[i] = CountIn(log, "COMMIT", read[i] + 1)
      /\ commitsRecieved'[i] < Commits
      /\ \A j \in Id : j # i => commitsRecieved'[j] = commitsRecieved[j]
  BY <1>1, <1>2, <1>3 DEF CountsFacts
<1>5. ReadsOn(i)
  <2>1. state[i] = "COMMIT"
    BY <1>1 DEF CountsFacts
  <2> QED
    BY <1>1, <1>2, <1>4, <2>1 DEF ReadsOn, CountsFacts
<1> QED
  BY <1>1, <1>5, ReadStep

\* A node takes the PREPARE that makes its request prepared, and posts its COMMIT.
LEMMA PreparePosts ==
    ASSUME JoinInv, NEW i \in Id, Prepare(i), ~(preparesRecieved[i] + 1 < Prepares)
    PROVE  JoinInv'
<1>1. Takes(i, "PREPARE", "PREPARE") /\ CountsFacts(i, "PREPARE")
  BY CountsBefore DEF Prepare
<1>2. /\ preparesRecieved' = [preparesRecieved EXCEPT ![i] = preparesRecieved[i] + 1]
      /\ log' = Append(log, "COMMIT") /\ state' = [state EXCEPT ![i] = "COMMIT"]
      /\ UNCHANGED <<commitsRecieved, committed>>
  BY DEF Prepare, Posts
<1>3. /\ read' = [read EXCEPT ![i] = read[i] + 1]
      /\ UNCHANGED <<m_vPublicKeys, clients, running, asked>> /\ FactoryInv'
      /\ log[read[i] + 1] = "PREPARE"
  BY <1>1, TakesFacts
<1>4. /\ RoundTypes /\ RoundPlaces /\ RoundPosts /\ RoundAsked /\ RoundSteady /\ CommitsAsAsked
      /\ log \in Seq(MsgType) /\ read \in [Id -> Nat] /\ Len(log) \in Nat
      /\ state \in [Id -> {"PRE_PREPARE", "PREPARE", "COMMIT"}]
      /\ clients \subseteq Id /\ asked.nodes \subseteq clients /\ committed \subseteq asked.nodes
      /\ \A j \in Id : read[j] <= Len(log)
  BY RoundSets DEF JoinInv, RoundTypes
<1>5. PICK r \in Nat : r = read[i] /\ r >= 1 /\ r + 1 <= Len(log)
  BY <1>1 DEF CountsFacts
<1>6. /\ preparesRecieved[i] = CountIn(log, "PREPARE", r) /\ commitsRecieved[i] = 0
      /\ CountIn(log, "PREPARE", r) \in Nat
      /\ CountIn(log, "PREPARE", r + 1) = CountIn(log, "PREPARE", r) + 1
      /\ CountIn(log, "PREPARE", r + 1) <= CountIn(log, "PREPARE", Len(log))
      /\ CountIn(log, "PREPARE", Len(log)) \in Nat
      /\ CountIn(log, "PREPARE", r + 1) >= Prepares /\ Prepares \in Nat /\ Prepares >= 2
      /\ Commits > 0
  <2>1. preparesRecieved[i] = CountIn(log, "PREPARE", r) /\ commitsRecieved[i] = 0
    BY <1>1, <1>4, <1>5 DEF CountsFacts, RoundPlaces
  <2>2. \A a \in Nat \ {0} : 2 * a \in Nat /\ 2 * a >= 2 /\ a + 1 > 0
    OBVIOUS
  <2> QED
    BY <1>1, <1>5, <2>1, <2>2 DEF CountsFacts
<1>7. Appended(log, log', "COMMIT")
  BY <1>2, <1>4, CountAppend DEF MsgType
<1>8. /\ Len(log') = Len(log) + 1
      /\ \A type : \A k \in 0..Len(log) : CountIn(log', type, k) = CountIn(log, type, k)
      /\ CountIn(log', "PREPARE", Len(log) + 1) = CountIn(log, "PREPARE", Len(log))
      /\ CountIn(log', "COMMIT", Len(log) + 1) = CountIn(log, "COMMIT", Len(log)) + 1
  BY <1>6, <1>7 DEF Appended, OneMore
<1>9. /\ read' \in [Id -> Nat] /\ read'[i] = r + 1 /\ \A j \in Id : j # i => read'[j] = read[j]
      /\ \A j \in Id : read'[j] <= Len(log)
  BY <1>3, <1>4, <1>5
<1>10. RoundTypes'
  <2>1. log # <<>> /\ i \in asked.nodes /\ i \in Id
    BY <1>1 DEF CountsFacts
  <2>2. log' # <<>> /\ log'[1] = "PREPREPARE" /\ \A k \in 2..Len(log') : log'[k] # "PREPREPARE"
    <3>1. log[1] = "PREPREPARE" /\ \A k \in 2..Len(log) : log[k] # "PREPREPARE"
      BY <1>4, <2>1 DEF RoundTypes
    <3>2. Len(log) >= 1 /\ Len(log') # 0
      BY <1>4, <1>5, <1>8
    <3>3. /\ log' \in Seq(MsgType) /\ log'[Len(log) + 1] = "COMMIT"
          /\ \A k \in 1..Len(log) : log'[k] = log[k]
      BY <1>7 DEF Appended
    <3> QED
      BY <1>4, <1>8, <3>1, <3>2, <3>3
  <2>3. /\ log' \in Seq(MsgType) /\ \A j \in Id : read'[j] <= Len(log')
        /\ state' \in [Id -> {"PRE_PREPARE", "PREPARE", "COMMIT"}]
        /\ preparesRecieved' \in [Id -> Nat]
    BY <1>1, <1>2, <1>4, <1>7, <1>9 DEF Appended, CountsFacts
  <2>4. \A j \in Id \ asked.nodes : state'[j] = state[j] /\ preparesRecieved'[j] = preparesRecieved[j]
    BY <1>1, <1>2, <1>4, <2>1 DEF CountsFacts
  <2>5. \A j \in clients \ asked.nodes : read'[j] >= 1
    BY <1>4, <1>9, <2>1 DEF RoundTypes
  <2> QED
    BY <1>2, <1>3, <1>4, <1>9, <2>1, <2>2, <2>3, <2>4, <2>5 DEF RoundTypes
<1>11. RoundPlaces'
  <2>1. ASSUME NEW j \in asked.nodes, j # i
        PROVE  /\ read'[j] = read[j] /\ state'[j] = state[j]
               /\ preparesRecieved'[j] = preparesRecieved[j]
               /\ CountIn(log', "PREPARE", read[j]) = CountIn(log, "PREPARE", read[j])
               /\ CountIn(log', "COMMIT", read[j]) = CountIn(log, "COMMIT", read[j])
    <3>1. read[j] \in 0..Len(log)
      BY <1>4
    <3> QED
      BY <1>1, <1>2, <1>4, <1>8, <1>9, <2>1, <3>1 DEF CountsFacts
  <2>2. /\ read'[i] # 0 /\ state'[i] = "COMMIT" /\ i \notin committed
        /\ preparesRecieved'[i] = CountIn(log', "PREPARE", r + 1)
        /\ commitsRecieved[i] <= CountIn(log', "COMMIT", r + 1)
    <3>1. r + 1 \in 0..Len(log) /\ CountIn(log, "COMMIT", r + 1) \in Nat
      <4>1. r + 1 \in Nat /\ r + 1 \in 0..Len(log)
        BY <1>5
      <4> QED
        BY <4>1, CountNext
    <3> QED
      BY <1>1, <1>2, <1>4, <1>6, <1>8, <1>9, <3>1 DEF CountsFacts
  <2>3. CountIn(log', "PREPARE", r + 1) \in Nat
    BY <1>5, CountNext
  <2> QED
    BY <1>2, <1>3, <1>4, <1>9, <2>1, <2>2, <2>3 DEF RoundPlaces
<1>12. RoundPosts'
  <2>1. Begun' = Begun
    BY <1>1, <1>3, <1>4, <1>5, <1>9 DEF Begun, CountsFacts
  <2>2. Engaged' = Engaged \cup {i} /\ i \notin Engaged
    BY <1>1, <1>2, <1>3, <1>4 DEF Engaged, CountsFacts
  <2>3. Cardinality(Engaged \cup {i}) = Cardinality(Engaged) + 1
    BY <1>4, <2>2, RoundSets, FS_AddElement
  <2> QED
    BY <1>4, <1>8, <2>1, <2>2, <2>3 DEF RoundPosts
<1>13. f' = f /\ Prepares' = Prepares /\ Commits' = Commits
  BY <1>3, SameBounds
<1>14. asked.nodes # {0}
  <2>1. asked.nodes = {0} => Cardinality(Begun) <= 1
    BY <1>4, RoundSets
  <2> QED
    BY <1>4, <1>6, <2>1 DEF RoundPosts
<1>15. RoundAsked'
  BY <1>1, <1>3, <1>4, <1>13, <1>14 DEF RoundAsked, CountsFacts
<1>16. RoundSteady'
  <2> SUFFICES ASSUME f' = asked'.f PROVE RoundSteady'
    BY DEF RoundSteady
  <2>1. f = asked.f /\ log # <<>>
    BY <1>1, <1>3, <1>13 DEF CountsFacts
  <2>2. /\ \A k \in 1..Len(log) : log[k] = "COMMIT" => CountIn(log, "PREPARE", k) >= Prepares
        /\ preparesRecieved[i] < Prepares
    BY <1>1, <1>4, <1>14, <2>1 DEF RoundSteady, CountsFacts
  <2>3. \A k \in 1..Len(log') : log'[k] = "COMMIT" => CountIn(log', "PREPARE", k) >= Prepares
    <3> SUFFICES ASSUME NEW k \in 1..Len(log'), log'[k] = "COMMIT"
                 PROVE  CountIn(log', "PREPARE", k) >= Prepares
      OBVIOUS
    <3>1. CASE k \in 1..Len(log)
      <4>1. log[k] = "COMMIT" /\ k \in 0..Len(log)
        BY <1>7, <3>1 DEF Appended
      <4> QED
        BY <1>8, <2>2, <3>1, <4>1
    <3>2. CASE k = Len(log) + 1
      BY <1>6, <1>8, <3>2
    <3> QED
      BY <1>4, <1>8, <3>1, <3>2
  <2>4. CountIn(log, "COMMIT", r + 1) = 0
    <3>1. ASSUME NEW k \in 1..(r + 1) PROVE log[k] # "COMMIT"
      <4>1. CASE k = r + 1
        BY <1>3, <1>5, <4>1
      <4>2. CASE k \in 1..r
        <5>1. CountIn(log, "PREPARE", k) <= CountIn(log, "PREPARE", r) /\ CountIn(log, "PREPARE", k) \in Nat
          <6>1. k \in Nat /\ k <= r
            BY <4>2
          <6> QED
            BY <6>1, CountGrows, CountNext
        <5>2. k \in 1..Len(log)
          BY <1>4, <1>5, <4>2
        <5>3. CountIn(log, "PREPARE", k) < Prepares
          BY <1>6, <2>2, <5>1
        <5> QED
          BY <1>6, <2>2, <5>1, <5>2, <5>3
      <4> QED
        BY <4>1, <4>2
    <3>2. r + 1 \in Nat
      OBVIOUS
    <3> QED
      BY <3>1, <3>2, CountZero
  <2>5. ASSUME NEW j \in asked.nodes
        PROVE  /\ state'[j] = "PREPARE" => preparesRecieved'[j] < Prepares
               /\ state'[j] = "COMMIT" =>
                    /\ CountIn(log', "PREPARE", read'[j]) >= Prepares
                    /\ commitsRecieved[j] = CountIn(log', "COMMIT", read'[j])
                    /\ commitsRecieved[j] < Commits
    <3>1. CASE j = i
      <4>1. state'[j] = "COMMIT" /\ read'[j] = r + 1 /\ r + 1 \in 0..Len(log)
        BY <1>1, <1>2, <1>4, <1>5, <1>9, <3>1 DEF CountsFacts
      <4> QED
        BY <1>6, <1>8, <2>4, <3>1, <4>1
    <3>2. CASE j # i
      <4>1. /\ read'[j] = read[j] /\ state'[j] = state[j] /\ read[j] \in 0..Len(log)
            /\ preparesRecieved'[j] = preparesRecieved[j]
        BY <1>1, <1>2, <1>4, <1>9, <3>2 DEF CountsFacts
      <4> QED
        BY <1>4, <1>8, <1>14, <2>1, <4>1 DEF RoundSteady
    <3> QED
      BY <3>1, <3>2
  <2> QED
    BY <1>2, <1>3, <1>13, <2>3, <2>5 DEF RoundSteady
<1>17. CommitsAsAsked'
  <2>1. CommitsCountedHold /\ CommitsCountedHold'
    BY <1>4, <1>10, CommitsCountedBoth
  <2>2. CountIn(log, "COMMIT", Len(log)) \in Nat /\ asked.f \in Nat
    BY <1>4, CountNext DEF RoundTypes
  <2> QED
    BY <1>2, <1>3, <1>4, <1>8, <2>1, <2>2 DEF CommitsCountedHold
<1> QED
  BY <1>10, <1>11, <1>12, <1>15, <1>16, <1>17 DEF JoinInv

\* A node takes the COMMIT that makes its request committed.
LEMMA CommitCommits ==
    ASSUME JoinInv, NEW i \in Id, Commit(i), ~(commitsRecieved[i] + 1 < Commits)
    PROVE  JoinInv'
<1>1. Takes(i, "COMMIT", "COMMIT") /\ CountsFacts(i, "COMMIT")
  BY CountsBefore DEF Commit
<1>2. /\ commitsRecieved' = [commitsRecieved EXCEPT ![i] = commitsRecieved[i] + 1]
      /\ state' = [state EXCEPT ![i] = "PRE_PREPARE"] /\ committed' = committed \cup {i}
      /\ UNCHANGED <<log, preparesRecieved>>
  BY DEF Commit
<1>3. /\ read' = [read EXCEPT ![i] = read[i] + 1]
      /\ UNCHANGED <<m_vPublicKeys, clients, running, asked>> /\ FactoryInv'
  BY <1>1, TakesFacts
<1>4. /\ RoundTypes /\ RoundPlaces /\ RoundPosts /\ RoundAsked /\ RoundSteady /\ CommitsAsAsked
      /\ read \in [Id -> Nat] /\ Len(log) \in Nat
      /\ state \in [Id -> {"PRE_PREPARE", "PREPARE", "COMMIT"}]
      /\ clients \subseteq Id /\ asked.nodes \subseteq clients /\ committed \subseteq asked.nodes
      /\ \A j \in Id : read[j] <= Len(log)
      /\ i \in asked.nodes /\ i \in Id /\ log # <<>> /\ state[i] = "COMMIT"
  BY <1>1, RoundSets DEF JoinInv, RoundTypes, CountsFacts
<1>5. PICK r \in Nat : r = read[i] /\ r >= 1 /\ r + 1 <= Len(log)
  BY <1>1 DEF CountsFacts
<1>6. /\ read' \in [Id -> Nat] /\ read'[i] = r + 1 /\ \A j \in Id : j # i => read'[j] = read[j]
      /\ \A j \in Id : read'[j] <= Len(log)
  BY <1>3, <1>4, <1>5
<1>7. /\ commitsRecieved[i] \in Nat /\ commitsRecieved' \in [Id -> Nat]
      /\ commitsRecieved'[i] = commitsRecieved[i] + 1
      /\ commitsRecieved[i] + 1 <= CountIn(log, "COMMIT", r + 1)
      /\ CountIn(log, "COMMIT", r + 1) <= CountIn(log, "COMMIT", Len(log))
      /\ CountIn(log, "COMMIT", r + 1) \in Nat /\ CountIn(log, "COMMIT", Len(log)) \in Nat
      /\ \A j \in Id : j # i => commitsRecieved'[j] = commitsRecieved[j]
  <2>1. commitsRecieved[i] <= CountIn(log, "COMMIT", r)
    BY <1>4, <1>5 DEF RoundPlaces
  <2> QED
    BY <1>1, <1>2, <1>5, <2>1 DEF CountsFacts
<1>8. RoundTypes'
  <2>1. \A j \in Id \ asked.nodes : state'[j] = state[j] /\ commitsRecieved'[j] = commitsRecieved[j]
    BY <1>2, <1>4, <1>7
  <2>2. \A j \in clients \ asked.nodes : read'[j] >= 1
    BY <1>4, <1>6 DEF RoundTypes
  <2>3. state' \in [Id -> {"PRE_PREPARE", "PREPARE", "COMMIT"}] /\ committed' \subseteq asked.nodes
    BY <1>2, <1>4
  <2> QED
    BY <1>2, <1>3, <1>4, <1>6, <1>7, <2>1, <2>2, <2>3 DEF RoundTypes
<1>9. RoundPlaces'
  <2>1. ASSUME NEW j \in asked.nodes, j # i
        PROVE  /\ read'[j] = read[j] /\ state'[j] = state[j]
               /\ commitsRecieved'[j] = commitsRecieved[j]
               /\ j \in committed' <=> j \in committed
    BY <1>2, <1>4, <1>6, <1>7, <2>1
  <2>2. /\ read'[i] # 0 /\ state'[i] = "PRE_PREPARE" /\ i \in committed'
        /\ preparesRecieved[i] <= CountIn(log, "PREPARE", r + 1)
        /\ commitsRecieved'[i] <= CountIn(log, "COMMIT", r + 1)
    BY <1>1, <1>2, <1>4, <1>5, <1>6, <1>7 DEF CountsFacts
  <2> QED
    BY <1>2, <1>3, <1>4, <1>6, <2>1, <2>2 DEF RoundPlaces
<1>10. RoundPosts'
  <2>1. Begun' = Begun
    BY <1>3, <1>4, <1>5, <1>6 DEF Begun
  <2>2. Engaged' = Engaged
    BY <1>2, <1>3, <1>4 DEF Engaged
  <2> QED
    BY <1>2, <1>4, <2>1, <2>2 DEF RoundPosts
<1>11. f' = f /\ Prepares' = Prepares /\ Commits' = Commits
  BY <1>3, SameBounds
<1>12. asked.nodes # {0}
  BY <1>4 DEF RoundAsked
<1>13. RoundAsked'
  BY <1>2, <1>3, <1>4, <1>11, <1>12 DEF RoundAsked
<1>14. RoundSteady'
  <2> SUFFICES ASSUME f' = asked'.f PROVE RoundSteady'
    BY DEF RoundSteady
  <2>1. ASSUME NEW j \in asked.nodes
        PROVE  /\ state'[j] = "PREPARE" => preparesRecieved[j] < Prepares
               /\ state'[j] = "COMMIT" =>
                    /\ CountIn(log, "PREPARE", read'[j]) >= Prepares
                    /\ commitsRecieved'[j] = CountIn(log, "COMMIT", read'[j])
                    /\ commitsRecieved'[j] < Commits
    <3>1. CASE j = i
      BY <1>2, <1>4, <3>1
    <3>2. CASE j # i
      <4>1. read'[j] = read[j] /\ state'[j] = state[j] /\ commitsRecieved'[j] = commitsRecieved[j]
        BY <1>2, <1>4, <1>6, <1>7, <3>2
      <4> QED
        BY <1>3, <1>4, <1>11, <1>12, <4>1 DEF RoundSteady
    <3> QED
      BY <3>1, <3>2
  <2>2. \A k \in 1..Len(log) : log[k] = "COMMIT" => CountIn(log, "PREPARE", k) >= Prepares
    BY <1>3, <1>4, <1>11, <1>12 DEF RoundSteady
  <2> QED
    BY <1>2, <1>3, <1>11, <2>1, <2>2 DEF RoundSteady
<1>15. CommitsAsAsked'
  <2>1. CommitsCountedHold /\ CommitsCountedHold'
    BY <1>4, <1>8, CommitsCountedBoth
  <2>2. asked.f <= f /\ asked.f \in Nat
    BY <1>4, <1>12 DEF RoundAsked, RoundTypes
  <2>3. CountIn(log, "COMMIT", Len(log)) >= asked.f + 1
    BY <1>1, <1>7, <2>2 DEF CountsFacts
  <2> QED
    BY <1>2, <1>3, <2>1, <2>3 DEF CommitsCountedHold
<1> QED
  BY <1>8, <1>9, <1>10, <1>13, <1>14, <1>15 DEF JoinInv

\* The invariant of a round.
THEOREM RoundInvariant == Spec => []JoinInv
<1>1. Init => JoinInv
  <2> SUFFICES ASSUME Init PROVE JoinInv
    OBVIOUS
  <2>1. FactoryInv
    BY EmptySeq, FactoryAssumption DEF Init, FactoryInit, FactoryInv
  <2>2. RoundTypes
    BY <2>1, EmptySeq DEF Init, RoundTypes, FactoryInit
  <2>3. RoundPlaces /\ RoundAsked /\ RoundSteady /\ CommitsAsAsked
    BY DEF Init, RoundPlaces, RoundAsked, RoundSteady, CommitsAsAsked
  <2>4. Begun = {} /\ Engaged = {} /\ Len(log) = 0
    BY DEF Init, Begun, Engaged
  <2>5. RoundPosts
    BY <2>4, CountNone, FS_EmptySet DEF RoundPosts
  <2> QED
    BY <2>2, <2>3, <2>5 DEF JoinInv
<1>2. JoinInv /\ [Next]_vars => JoinInv'
  <2> SUFFICES ASSUME JoinInv, [Next]_vars PROVE JoinInv'
    OBVIOUS
  <2>1. CASE Join
    BY <2>1, JoinStep
  <2>2. CASE Propose
    BY <2>2, ProposeStep
  <2>3. ASSUME NEW i \in Id, PrePrepare(i) PROVE JoinInv'
    BY <2>3, PrePrepareStep
  <2>4. ASSUME NEW i \in Id, Prepare(i) PROVE JoinInv'
    BY <2>4, PrepareCounts, PreparePosts
  <2>5. ASSUME NEW i \in Id, Commit(i) PROVE JoinInv'
    BY <2>5, CommitCounts, CommitCommits
  <2>6. ASSUME NEW i \in Id, Drop(i) PROVE JoinInv'
    BY <2>6, DropStep
  <2>7. CASE UNCHANGED vars
    <3>1. UNCHANGED roundVars /\ UNCHANGED factoryVars
      BY <2>7 DEF vars
    <3>2. /\ UNCHANGED <<log, read, state, preparesRecieved, commitsRecieved, committed, asked>>
          /\ UNCHANGED <<m_vPublicKeys, clients, running>>
      BY <3>1 DEF roundVars, factoryVars
    <3>3. FactoryInv'
      BY <3>1, FactoryStep DEF JoinInv, RoundTypes
    <3>4. f' = f /\ Prepares' = Prepares /\ Commits' = Commits /\ Begun' = Begun /\ Engaged' = Engaged
      BY <3>2, SameBounds DEF Begun, Engaged
    <3>5. RoundTypes'
      BY <3>2, <3>3 DEF JoinInv, RoundTypes
    <3>6. RoundPlaces' /\ RoundPosts' /\ RoundAsked' /\ CommitsAsAsked'
      BY <3>2, <3>4 DEF JoinInv, RoundPlaces, RoundPosts, RoundAsked, CommitsAsAsked
    <3>7. RoundSteady'
      BY <3>2, <3>4 DEF JoinInv, RoundSteady
    <3> QED
      BY <3>5, <3>6, <3>7 DEF JoinInv
  <2> QED
    BY <2>1, <2>2, <2>3, <2>4, <2>5, <2>6, <2>7 DEF Next
<1> QED
  BY <1>1, <1>2, PTL DEF Spec

\* A node that commits has as many COMMITs as the nodes of the round's beginning
\* ask for, whoever joins meanwhile (PBFTNode.cpp:381-385).
THEOREM CommitsAreAsAsked == Spec => []CommitsAsAsked
<1>1. JoinInv => CommitsAsAsked
  BY DEF JoinInv
<1> QED
  BY <1>1, RoundInvariant, PTL

\* Whoever joins in the middle of a round, all that were asked commit when
\* everything has been read and f is what it was (PBFTNode.cpp:333, 381).
THEOREM JoinsLeaveRound == Spec => []RoundSurvivesJoin
<1>1. JoinInv => RoundSurvivesJoin
  <2> SUFFICES ASSUME JoinInv, Drained, asked.nodes \subseteq running, f = asked.f,
                      Prepares <= Cardinality(asked.nodes), NEW i \in asked.nodes
               PROVE  i \in committed
    BY DEF RoundSurvivesJoin
  <2>1. /\ RoundTypes /\ RoundPlaces /\ RoundPosts /\ RoundAsked /\ RoundSteady
        /\ log # <<>> /\ \A j \in asked.nodes : read[j] = Len(log)
        /\ Len(log) \in Nat /\ Len(log) >= 1 /\ asked.nodes \subseteq Id /\ log \in Seq(MsgType)
        /\ state \in [Id -> {"PRE_PREPARE", "PREPARE", "COMMIT"}]
    <3>1. log # <<>> /\ \A j \in asked.nodes : read[j] = Len(log)
      BY DEF Drained
    <3>2. RoundTypes /\ log \in Seq(MsgType) /\ Len(log) \in Nat
      BY RoundSets DEF JoinInv, RoundTypes
    <3>3. Len(log) >= 1
      BY <3>1, <3>2, EmptySeq
    <3>4. asked.nodes \subseteq Id
      BY <3>2, RoundSets DEF RoundTypes
    <3> QED
      BY <3>1, <3>2, <3>3, <3>4 DEF JoinInv, RoundTypes
  <2>2. f \in Nat \ {0} /\ Prepares = 2 * f /\ Commits = f + 1
    BY <2>1, FaultBounds DEF RoundTypes, FaultBoundsHold
  <2>3. Begun = asked.nodes
    BY <2>1 DEF Begun
  <2>4. asked.nodes # {0}
    <3>1. asked.nodes = {0} => Cardinality(asked.nodes) = 1
      BY FS_Singleton
    <3>2. \A a \in Nat \ {0} : ~(2 * a <= 1)
      OBVIOUS
    <3> QED
      BY <2>2, <3>1, <3>2
  <2>5. ASSUME NEW j \in asked.nodes PROVE state[j] # "PREPARE"
    <3>1. state[j] = "PREPARE" => preparesRecieved[j] = CountIn(log, "PREPARE", Len(log))
      BY <2>1 DEF RoundPlaces
    <3>2. state[j] = "PREPARE" => preparesRecieved[j] < Prepares
      BY <2>1, <2>4 DEF RoundSteady
    <3>3. CountIn(log, "PREPARE", Len(log)) = Cardinality(asked.nodes)
      BY <2>1, <2>3 DEF RoundPosts
    <3>4. Cardinality(asked.nodes) \in Nat
      BY <2>1, RoundSets, FS_CardinalityType
    <3> QED
      BY <2>2, <3>1, <3>2, <3>3, <3>4
  <2>6. Engaged = asked.nodes
    BY <2>1, <2>5 DEF Engaged, RoundPlaces
  <2>7. state[i] # "COMMIT"
    <3>1. state[i] = "COMMIT" => /\ commitsRecieved[i] = CountIn(log, "COMMIT", Len(log))
                                 /\ commitsRecieved[i] < Commits
      BY <2>1, <2>4 DEF RoundSteady
    <3>2. CountIn(log, "COMMIT", Len(log)) = Cardinality(asked.nodes)
      BY <2>1, <2>6 DEF RoundPosts
    <3>3. Cardinality(asked.nodes) \in Nat
      BY <2>1, RoundSets, FS_CardinalityType
    <3> QED
      BY <2>2, <3>1, <3>2, <3>3
  <2> QED
    BY <2>1, <2>5, <2>7 DEF RoundPlaces
<1> QED
  BY <1>1, RoundInvariant, PTL

=============================================================================
