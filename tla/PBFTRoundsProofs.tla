-------------------------- MODULE PBFTRoundsProofs --------------------------
(***************************************************************************)
(* More theorems about PBFTNode: what the messages that are counted prove. *)
(***************************************************************************)
EXTENDS PBFTNodeProofs, FiniteSetTheorems

-----------------------------------------------------------------------------
(* Nobody votes twice *)

\* Some messages in the queue of node i, queues being the nodes' queues.
HasPrePrepare(queues, i, n) ==
    \E k \in 1..Len(queues[i]) : queues[i][k].type = "PREPREPARE" /\ queues[i][k].n = n

HasPrepare(queues, i, j, n) ==
    \E k \in 1..Len(queues[i]) :
        queues[i][k].type = "PREPARE" /\ queues[i][k].nodeId = j /\ queues[i][k].n = n

\* Two messages that would be the same node's vote for the same number.
SameVote(a, b) ==
    /\ a.type \in {"PREPREPARE", "PREPARE"}
    /\ a.type = b.type /\ a.n = b.n
    /\ a.type = "PREPARE" => a.nodeId = b.nodeId

OneVoteEach(queues) ==
    \A i \in Node : \A k, l \in 1..Len(queues[i]) :
        SameVote(queues[i][k], queues[i][l]) => k = l

\* No vote of some queues is new in others.
NoNewVote(queues, others) ==
    /\ OneVoteEach(queues) => OneVoteEach(others)
    /\ \A i \in Node, n \in Nat : HasPrePrepare(others, i, n) => HasPrePrepare(queues, i, n)
    /\ \A i, j \in Node, n \in Nat : HasPrepare(others, i, j, n) => HasPrepare(queues, i, j, n)

\* Taking a message brings no vote.
LEMMA VotesAfterGet ==
    ASSUME dataQueue \in Queues, NEW i \in Node, dataQueue[i] # <<>>
    PROVE  /\ NoNewVote(dataQueue, GetData(i))
           /\ OneVoteEach(dataQueue) =>
                 LET m == Head(dataQueue[i]) IN
                 /\ m.type = "PREPREPARE" => ~HasPrePrepare(GetData(i), i, m.n)
                 /\ m.type = "PREPARE" => ~HasPrepare(GetData(i), i, m.nodeId, m.n)
<1>1. dataQueue[i] \in Seq(Message) /\ Len(dataQueue[i]) \in Nat
  BY DEF Queues
<1>2. \A j \in Node \ {i} : GetData(i)[j] = dataQueue[j]
  BY DEF GetData, Queues
<1>3. GetData(i)[i] = Tail(dataQueue[i]) /\ Head(dataQueue[i]) = dataQueue[i][1]
  BY <1>1 DEF GetData, Queues
<1>4. \A k \in 1..Len(GetData(i)[i]) :
         k + 1 \in 1..Len(dataQueue[i]) /\ GetData(i)[i][k] = dataQueue[i][k + 1]
  BY <1>1, <1>3
<1>5. 1 \in 1..Len(dataQueue[i]) /\ Len(GetData(i)[i]) \in Nat
  BY <1>1, <1>3
<1>6. OneVoteEach(dataQueue) => OneVoteEach(GetData(i))
  <2> SUFFICES ASSUME OneVoteEach(dataQueue), NEW j \in Node,
                      NEW k \in 1..Len(GetData(i)[j]), NEW l \in 1..Len(GetData(i)[j]),
                      SameVote(GetData(i)[j][k], GetData(i)[j][l])
               PROVE  k = l
    BY DEF OneVoteEach
  <2>1. CASE j = i
    <3>1. k + 1 = l + 1
      BY <1>4, <2>1 DEF OneVoteEach
    <3> QED
      BY <1>5, <2>1, <3>1
  <2>2. CASE j # i
    BY <1>2, <2>2 DEF OneVoteEach
  <2> QED
    BY <2>1, <2>2
<1>7. ASSUME NEW j \in Node, NEW n, HasPrePrepare(GetData(i), j, n)
      PROVE  HasPrePrepare(dataQueue, j, n)
  <2>1. CASE j = i
    BY <1>4, <1>7, <2>1 DEF HasPrePrepare
  <2>2. CASE j # i
    BY <1>2, <1>7, <2>2 DEF HasPrePrepare
  <2> QED
    BY <2>1, <2>2
<1>8. ASSUME NEW j \in Node, NEW s, NEW n, HasPrepare(GetData(i), j, s, n)
      PROVE  HasPrepare(dataQueue, j, s, n)
  <2>1. CASE j = i
    BY <1>4, <1>8, <2>1 DEF HasPrepare
  <2>2. CASE j # i
    BY <1>2, <1>8, <2>2 DEF HasPrepare
  <2> QED
    BY <2>1, <2>2
<1>9. ASSUME OneVoteEach(dataQueue), NEW k \in 1..Len(GetData(i)[i])
      PROVE  ~SameVote(dataQueue[i][1], GetData(i)[i][k])
  <2>1. k + 1 # 1
    BY <1>5
  <2> QED
    BY <1>4, <1>5, <1>9, <2>1 DEF OneVoteEach
<1>10. OneVoteEach(dataQueue) =>
         LET m == Head(dataQueue[i]) IN
         /\ m.type = "PREPREPARE" => ~HasPrePrepare(GetData(i), i, m.n)
         /\ m.type = "PREPARE" => ~HasPrepare(GetData(i), i, m.nodeId, m.n)
  BY <1>3, <1>9 DEF HasPrePrepare, HasPrepare, SameVote
<1> QED
  BY <1>6, <1>7, <1>8, <1>10 DEF NoNewVote

\* Posting brings the posted message, and a second vote only if there is one already.
LEMMA VotesAfterPost ==
    ASSUME NEW queues \in Queues, NEW m \in Message
    PROVE  /\ \A i \in Node, n \in Nat :
                 HasPrePrepare(PostData(queues, m), i, n) =>
                    HasPrePrepare(queues, i, n) \/ (m.type = "PREPREPARE" /\ m.n = n)
           /\ \A i, j \in Node, n \in Nat :
                 HasPrepare(PostData(queues, m), i, j, n) =>
                    \/ HasPrepare(queues, i, j, n)
                    \/ (m.type = "PREPARE" /\ m.nodeId = j /\ m.n = n)
           /\ (/\ OneVoteEach(queues)
               /\ m.type = "PREPREPARE" => \A i \in Node : ~HasPrePrepare(queues, i, m.n)
               /\ m.type = "PREPARE" => \A i \in Node : ~HasPrepare(queues, i, m.nodeId, m.n))
              => OneVoteEach(PostData(queues, m))
<1> DEFINE after == PostData(queues, m)
<1>1. \A i \in Node : queues[i] \in Seq(Message) /\ Len(queues[i]) \in Nat
  BY DEF Queues
<1>2. \A i \in Node : after[i] = queues[i] \/ after[i] = Append(queues[i], m)
  BY DEF PostData
<1> HIDE DEF after
<1>3. ASSUME NEW i \in Node, NEW k \in 1..Len(after[i])
      PROVE  \/ k \in 1..Len(queues[i]) /\ after[i][k] = queues[i][k]
             \/ k = Len(queues[i]) + 1 /\ after[i][k] = m
  <2>1. CASE after[i] = queues[i]
    BY <2>1
  <2>2. CASE after[i] = Append(queues[i], m)
    BY <1>1, <2>2
  <2> QED
    BY <1>2, <2>1, <2>2
<1>4. ASSUME NEW i \in Node, NEW n \in Nat, HasPrePrepare(after, i, n)
      PROVE  HasPrePrepare(queues, i, n) \/ (m.type = "PREPREPARE" /\ m.n = n)
  <2>1. PICK k \in 1..Len(after[i]) : after[i][k].type = "PREPREPARE" /\ after[i][k].n = n
    BY <1>4 DEF HasPrePrepare
  <2>2. CASE k \in 1..Len(queues[i]) /\ after[i][k] = queues[i][k]
    BY <2>1, <2>2 DEF HasPrePrepare
  <2>3. CASE after[i][k] = m
    BY <2>1, <2>3
  <2> QED
    BY <1>3, <2>2, <2>3
<1>5. ASSUME NEW i \in Node, NEW j \in Node, NEW n \in Nat, HasPrepare(after, i, j, n)
      PROVE  HasPrepare(queues, i, j, n) \/ (m.type = "PREPARE" /\ m.nodeId = j /\ m.n = n)
  <2>1. PICK k \in 1..Len(after[i]) :
           after[i][k].type = "PREPARE" /\ after[i][k].nodeId = j /\ after[i][k].n = n
    BY <1>5 DEF HasPrepare
  <2>2. CASE k \in 1..Len(queues[i]) /\ after[i][k] = queues[i][k]
    BY <2>1, <2>2 DEF HasPrepare
  <2>3. CASE after[i][k] = m
    BY <2>1, <2>3
  <2> QED
    BY <1>3, <2>2, <2>3
<1>6. ASSUME OneVoteEach(queues),
             m.type = "PREPREPARE" => \A i \in Node : ~HasPrePrepare(queues, i, m.n),
             m.type = "PREPARE" => \A i \in Node : ~HasPrepare(queues, i, m.nodeId, m.n)
      PROVE  OneVoteEach(after)
  <2> SUFFICES ASSUME NEW i \in Node, NEW k \in 1..Len(after[i]), NEW l \in 1..Len(after[i]),
                      SameVote(after[i][k], after[i][l])
               PROVE  k = l
    BY DEF OneVoteEach
  <2>1. \A x \in 1..Len(queues[i]) : ~SameVote(queues[i][x], m) /\ ~SameVote(m, queues[i][x])
    BY <1>6 DEF SameVote, HasPrePrepare, HasPrepare
  <2> QED
    BY <1>3, <1>6, <2>1 DEF OneVoteEach
<1> QED
  BY <1>4, <1>5, <1>6 DEF after

-----------------------------------------------------------------------------
(* Prepared numbers are logged by 2f nodes *)

\* The nodes whose PREPARE for n node i may have counted: they have logged n,
\* and their PREPARE is not on its way to i.
Heard(i, n) == {j \in Node : Logged(j, n) /\ ~HasPrepare(dataQueue, i, j, n)}

\* A PREPREPARE reaches a node before the node logs its number.
PrePrepareComesFirst ==
    \A i \in Node, n \in Nat : HasPrePrepare(dataQueue, i, n) => ~Logged(i, n)

\* Who sent a PREPARE has logged its number.
VotersLogged ==
    \A i, j \in Node, n \in Nat : HasPrepare(dataQueue, i, j, n) => Logged(j, n)

\* A node counts no more PREPAREs than nodes it can have heard of.
CountsVoters ==
    \A i \in Node : \A n \in DOMAIN requestLog[i] :
        requestLog[i][n].prepares <= Cardinality(Heard(i, n))

\* What PreparedHasQuorum rests on.
VotesOnce ==
    /\ OneVoteEach(dataQueue)
    /\ PrePrepareComesFirst
    /\ VotersLogged
    /\ CountsVoters
    /\ PreparedHasQuorum

\* The quorums are numbers, and the sets of nodes finite.
LEMMA QuorumTypes ==
    /\ N \in Nat /\ PrepareQuorum(N) \in Nat
    /\ \A S, T : S \subseteq T /\ T \subseteq Node =>
          /\ IsFiniteSet(S)
          /\ Cardinality(S) \in Nat /\ Cardinality(T) \in Nat
          /\ Cardinality(S) <= Cardinality(T)
<1>1. N \in Nat /\ N >= 2
  BY NodeAssumption, FS_CardinalityType DEF N
<1>2. PrepareQuorum(N) \in Nat
  BY <1>1 DEF PrepareQuorum, FaultBound
<1>3. ASSUME NEW S, NEW T, S \subseteq T, T \subseteq Node
      PROVE  /\ IsFiniteSet(S)
             /\ Cardinality(S) \in Nat /\ Cardinality(T) \in Nat
             /\ Cardinality(S) <= Cardinality(T)
  <2>1. IsFiniteSet(T)
    BY <1>3, NodeAssumption, FS_Subset
  <2>2. IsFiniteSet(S) /\ Cardinality(S) <= Cardinality(T)
    BY <1>3, <2>1, FS_Subset
  <2> QED
    BY <2>1, <2>2, FS_CardinalityType
<1> QED
  BY <1>1, <1>2, <1>3

\* Logs that keep their numbers, counts and flags while no vote is new keep the
\* invariant.
LEMMA VotesKept ==
    ASSUME TypeOK, VotesOnce, NoNewVote(dataQueue, dataQueue'),
           \A i \in Node : DOMAIN requestLog'[i] = DOMAIN requestLog[i],
           \A i \in Node : \A n \in DOMAIN requestLog[i] :
              /\ requestLog'[i][n].prepares = requestLog[i][n].prepares
              /\ requestLog'[i][n].bPrepared = requestLog[i][n].bPrepared
    PROVE  VotesOnce'
<1>1. \A i \in Node : \A n : Logged(i, n)' <=> Logged(i, n)
  BY DEF Logged
<1>2. OneVoteEach(dataQueue)' /\ PrePrepareComesFirst' /\ VotersLogged'
  BY <1>1 DEF VotesOnce, NoNewVote, PrePrepareComesFirst, VotersLogged
<1>3. CountsVoters'
  <2> SUFFICES ASSUME NEW i \in Node, NEW n \in DOMAIN requestLog[i]
               PROVE  requestLog[i][n].prepares <= Cardinality(Heard(i, n)')
    BY DEF CountsVoters
  <2>1. n \in Nat /\ requestLog[i][n].prepares \in Nat
    BY DEF TypeOK, LogType, LogEntry
  <2>2. Heard(i, n) \subseteq Heard(i, n)' /\ Heard(i, n)' \subseteq Node
    BY <1>1, <2>1 DEF Heard, NoNewVote
  <2>3. /\ Cardinality(Heard(i, n)) \in Nat /\ Cardinality(Heard(i, n)') \in Nat
        /\ Cardinality(Heard(i, n)) <= Cardinality(Heard(i, n)')
    BY <2>2, QuorumTypes
  <2>4. requestLog[i][n].prepares <= Cardinality(Heard(i, n))
    BY DEF VotesOnce, CountsVoters
  <2> QED
    BY <2>1, <2>3, <2>4
<1>4. PreparedHasQuorum'
  BY <1>1 DEF VotesOnce, PreparedHasQuorum
<1> QED
  BY <1>2, <1>3, <1>4 DEF VotesOnce

\* The listener's steps keep the invariant.
LEMMA ListenMessagesVotes ==
    ASSUME TypeOK, NumbersGivenOnce, VotesOnce, NEW i \in Node, TakeMessage(i)
    PROVE  VotesOnce'
<1> DEFINE m == Head(dataQueue[i])
<1>1. dataQueue \in Queues /\ dataQueue[i] # <<>> /\ LogType
  BY DEF TakeMessage, TypeOK, NetType, Queues
<1>2. /\ m \in Message /\ m = dataQueue[i][1] /\ 1 \in 1..Len(dataQueue[i])
      /\ GetData(i) \in Queues /\ NoNewVote(dataQueue, GetData(i))
  BY <1>1, GetDataType, VotesAfterGet DEF Queues
<1>3. OneVoteEach(dataQueue) /\ OneVoteEach(GetData(i))
  BY <1>2 DEF VotesOnce, NoNewVote
<1>4. /\ m.type = "PREPREPARE" => ~HasPrePrepare(GetData(i), i, m.n)
      /\ m.type = "PREPARE" => ~HasPrepare(GetData(i), i, m.nodeId, m.n)
  BY <1>1, <1>3, VotesAfterGet
<1>5. ASSUME NEW p \in Message, p.type \notin {"PREPREPARE", "PREPARE"},
             dataQueue' = PostData(GetData(i), p)
      PROVE  NoNewVote(dataQueue, dataQueue')
  BY <1>2, <1>5, VotesAfterPost DEF NoNewVote
<1> HIDE DEF m
<1>6. CASE HandleCommonMessage(i, m)
  BY <1>2, <1>6, VotesKept DEF HandleCommonMessage, roundVars
<1>7. CASE HandleReply(i, m)
  BY <1>2, <1>7, VotesKept DEF HandleReply, roundVars
<1>8. CASE DropMessage(i, m)
  BY <1>2, <1>8, VotesKept DEF DropMessage, roundVars
<1>9. CASE HandleRequest(i, m)
  <2> DEFINE n == uiCurrentRequestNumber[Primary]
             p == PrePrepareMsg(n, m.request)
  <2>1. dataQueue' = PostData(GetData(i), p) /\ UNCHANGED requestLog
    BY <1>9 DEF HandleRequest, AcceptsRequest
  <2>2. n \in Nat
    BY NodeAssumption DEF TypeOK, RoundType
  <2>3. p \in Message /\ p.type = "PREPREPARE" /\ p.n = n
    BY <1>2, <1>9, <2>2, MessageFields, MessageTypes DEF HandleRequest, PrePrepareMsg
  <2>4. \A a \in Assignments : a[1] # n
    <3>1. \A a \in PrePrepared : a[1] \in Nat
      <4>1. Queued(dataQueue) \subseteq Message
        BY <1>1 DEF Queued, Queues
      <4> QED
        BY <4>1, MessageFields DEF PrePrepared
    <3>2. \A a \in LoggedRequests : a[1] \in Nat
      BY <1>1 DEF LoggedRequests, LogType
    <3> QED
      BY <2>2, <3>1, <3>2 DEF Assignments, NumbersGivenOnce
  <2>5. \A j \in Node : ~HasPrePrepare(dataQueue, j, n) /\ ~Logged(j, n)
    <3> SUFFICES ASSUME NEW j \in Node
                 PROVE  ~HasPrePrepare(dataQueue, j, n) /\ ~Logged(j, n)
      OBVIOUS
    <3>1. ~Logged(j, n)
      <4> SUFFICES ASSUME Logged(j, n) PROVE FALSE
        OBVIOUS
      <4>1. <<n, requestLog[j][n].request>> \in Assignments
        BY DEF Logged, Assignments, LoggedRequests
      <4> QED
        BY <2>4, <4>1
    <3>2. ~HasPrePrepare(dataQueue, j, n)
      <4> SUFFICES ASSUME NEW k \in 1..Len(dataQueue[j]),
                          dataQueue[j][k].type = "PREPREPARE", dataQueue[j][k].n = n
                   PROVE  FALSE
        BY DEF HasPrePrepare
      <4>1. dataQueue[j][k] \in Queued(dataQueue)
        BY DEF Queued
      <4>2. <<n, dataQueue[j][k].request>> \in Assignments
        BY <4>1 DEF Assignments, PrePrepared
      <4> QED
        BY <2>4, <4>2
    <3> QED
      BY <3>1, <3>2
  <2> HIDE DEF n, p
  <2>6. \A j \in Node : ~HasPrePrepare(GetData(i), j, n)
    BY <1>2, <2>2, <2>5 DEF NoNewVote
  <2>7. OneVoteEach(dataQueue)'
    BY <1>2, <1>3, <2>1, <2>3, <2>6, VotesAfterPost
  <2>8. PrePrepareComesFirst'
    <3> SUFFICES ASSUME NEW j \in Node, NEW l \in Nat, HasPrePrepare(dataQueue', j, l)
                 PROVE  ~Logged(j, l)
      BY <2>1 DEF PrePrepareComesFirst, Logged
    <3>1. HasPrePrepare(GetData(i), j, l) \/ l = n
      BY <1>2, <2>1, <2>3, VotesAfterPost
    <3> QED
      BY <1>2, <2>5, <3>1 DEF NoNewVote, VotesOnce, PrePrepareComesFirst
  <2>9. \A j, l \in Node, q \in Nat : HasPrepare(dataQueue', j, l, q) => HasPrepare(dataQueue, j, l, q)
    BY <1>2, <2>1, <2>3, VotesAfterPost DEF NoNewVote
  <2>10. VotersLogged' /\ PreparedHasQuorum'
    BY <2>1, <2>9 DEF VotesOnce, VotersLogged, PreparedHasQuorum, Logged
  <2>11. CountsVoters'
    <3> SUFFICES ASSUME NEW j \in Node, NEW l \in DOMAIN requestLog[j]
                 PROVE  requestLog[j][l].prepares <= Cardinality(Heard(j, l)')
      BY <2>1 DEF CountsVoters
    <3>1. l \in Nat /\ requestLog[j][l].prepares \in Nat
      BY DEF TypeOK, LogType, LogEntry
    <3>2. Heard(j, l) \subseteq Heard(j, l)' /\ Heard(j, l)' \subseteq Node
      BY <2>1, <2>9, <3>1 DEF Heard, Logged
    <3>3. requestLog[j][l].prepares <= Cardinality(Heard(j, l))
      BY DEF VotesOnce, CountsVoters
    <3> QED
      BY <3>1, <3>2, <3>3, QuorumTypes
  <2> QED
    BY <2>7, <2>8, <2>10, <2>11 DEF VotesOnce
<1>10. CASE HandlePrePrepare(i, m)
  <2> DEFINE n == m.n
             p == PrepareMsg(i, n, m.request)
  <2>1. m.type = "PREPREPARE" /\ n \in Nat /\ m.request \in Request
    BY <1>2, <1>10, MessageFields DEF HandlePrePrepare
  <2>2. ~Logged(i, n)
    BY <1>2, <2>1 DEF HasPrePrepare, VotesOnce, PrePrepareComesFirst, m
  <2>3. /\ requestLog' = LogWith(i, n, NewEntry(m.request))
        /\ dataQueue' = PostData(GetData(i), p)
    BY <1>10, <2>2 DEF HandlePrePrepare
  <2>4. p \in Message /\ p.type = "PREPARE" /\ p.nodeId = i /\ p.n = n
    BY <2>1, MessageTypes DEF PrepareMsg
  <2> HIDE DEF n, p
  <2>5. \A j \in Node : \A l : Logged(j, l)' <=> (Logged(j, l) \/ (j = i /\ l = n))
    BY <1>1, <2>3 DEF Logged, LogWith, LogType
  <2>6. /\ \A j \in Node, l \in Nat :
              HasPrePrepare(dataQueue', j, l) => HasPrePrepare(GetData(i), j, l)
        /\ \A j, s \in Node, l \in Nat :
              HasPrepare(dataQueue', j, s, l) => HasPrepare(dataQueue, j, s, l) \/ (s = i /\ l = n)
    BY <1>2, <2>3, <2>4, VotesAfterPost DEF NoNewVote
  <2>7. OneVoteEach(dataQueue)'
    <3>1. \A j \in Node : ~HasPrepare(GetData(i), j, i, n)
      BY <1>2, <2>1, <2>2 DEF NoNewVote, VotesOnce, VotersLogged, n
    <3> QED
      BY <1>2, <1>3, <2>3, <2>4, <3>1, VotesAfterPost
  <2>8. PrePrepareComesFirst'
    <3> SUFFICES ASSUME NEW j \in Node, NEW l \in Nat, HasPrePrepare(dataQueue', j, l)
                 PROVE  ~Logged(j, l)'
      BY DEF PrePrepareComesFirst
    <3>1. ~Logged(j, l)
      BY <1>2, <2>6 DEF NoNewVote, VotesOnce, PrePrepareComesFirst
    <3>2. ~(j = i /\ l = n)
      BY <1>4, <2>1, <2>6 DEF n
    <3> QED
      BY <2>5, <3>1, <3>2
  <2>9. VotersLogged'
    BY <2>5, <2>6 DEF VotesOnce, VotersLogged
  <2>10. \A j \in Node : \A l \in DOMAIN requestLog'[j] :
            \/ l \in DOMAIN requestLog[j] /\ requestLog'[j][l] = requestLog[j][l]
            \/ j = i /\ l = n /\ requestLog'[j][l] = NewEntry(m.request)
    BY <1>1, <2>3 DEF LogWith, LogType
  <2>11. CountsVoters'
    <3> SUFFICES ASSUME NEW j \in Node, NEW l \in DOMAIN requestLog'[j]
                 PROVE  requestLog'[j][l].prepares <= Cardinality(Heard(j, l)')
      BY DEF CountsVoters
    <3>1. Heard(j, l)' \subseteq Node /\ Cardinality(Heard(j, l)') \in Nat
      BY QuorumTypes DEF Heard
    <3>2. CASE l \in DOMAIN requestLog[j] /\ requestLog'[j][l] = requestLog[j][l]
      <4>1. l \in Nat /\ requestLog[j][l].prepares \in Nat
        BY <3>2 DEF TypeOK, LogType, LogEntry
      <4>2. Heard(j, l) \subseteq Heard(j, l)'
        BY <2>2, <2>5, <2>6, <4>1 DEF Heard
      <4>3. requestLog[j][l].prepares <= Cardinality(Heard(j, l))
        BY <3>2 DEF VotesOnce, CountsVoters
      <4> QED
        BY <3>1, <3>2, <4>1, <4>2, <4>3, QuorumTypes
    <3>3. CASE requestLog'[j][l] = NewEntry(m.request)
      BY <3>1, <3>3 DEF NewEntry
    <3> QED
      BY <2>10, <3>2, <3>3
  <2>12. PreparedHasQuorum'
    <3> SUFFICES ASSUME NEW j \in Node, NEW l \in DOMAIN requestLog'[j],
                        requestLog'[j][l].bPrepared
                 PROVE  Cardinality({k \in Node : Logged(k, l)'}) >= PrepareQuorum(N)
      BY DEF PreparedHasQuorum
    <3>1. l \in DOMAIN requestLog[j] /\ requestLog[j][l].bPrepared
      BY <2>10 DEF NewEntry
    <3>2. Cardinality({k \in Node : Logged(k, l)}) >= PrepareQuorum(N)
      BY <3>1 DEF VotesOnce, PreparedHasQuorum
    <3>3. {k \in Node : Logged(k, l)} \subseteq {k \in Node : Logged(k, l)'}
      BY <2>5
    <3> QED
      BY <3>2, <3>3, QuorumTypes
  <2> QED
    BY <2>7, <2>8, <2>9, <2>11, <2>12 DEF VotesOnce
<1>11. CASE HandlePrepare(i, m)
  <2>0. PICK n \in Nat, s \in Node : n = m.n /\ s = m.nodeId
    BY <1>2, <1>11, MessageFields DEF HandlePrepare
  <2> DEFINE entry == requestLog[i][n]
             count == entry.prepares + 1
             below == [entry EXCEPT !.prepares = count]
             full  == [entry EXCEPT !.prepares = count, !.bPrepared = TRUE]
  <2>1. m.type = "PREPARE" /\ n \in DOMAIN requestLog[i] /\ entry \in LogEntry
    BY <1>1, <1>11, <2>0 DEF HandlePrepare, AcceptsPrepare, Logged, LogType
  <2>2. count \in Nat /\ entry.prepares \in Nat
    BY <2>1 DEF LogEntry
  <2>3. PICK e : /\ requestLog' = LogWith(i, n, e) /\ e.prepares = count
                 /\ e.bPrepared => entry.bPrepared \/ count >= PrepareQuorum(N)
    <3>1. CASE requestLog' = LogWith(i, n, below)
      <4>1. below.prepares = count /\ below.bPrepared = entry.bPrepared
        BY <2>1 DEF LogEntry
      <4> QED
        BY <3>1, <4>1
    <3>2. CASE requestLog' = LogWith(i, n, full) /\ count >= PrepareQuorum(N)
      <4>1. full.prepares = count
        BY <2>1 DEF LogEntry
      <4> QED
        BY <3>2, <4>1
    <3> QED
      BY <1>11, <2>0, <3>1, <3>2 DEF HandlePrepare
  <2>4. NoNewVote(dataQueue, dataQueue') /\ NoNewVote(GetData(i), dataQueue')
    <3>1. CASE dataQueue' = GetData(i)
      BY <1>2, <3>1 DEF NoNewVote
    <3>2. CASE dataQueue' = PostData(GetData(i), CommitMsg(i, n, entry.request))
      <4>1. CommitMsg(i, n, entry.request) \in Message
        BY <2>1, LogEntryUpdates, MessageTypes
      <4>2. CommitMsg(i, n, entry.request).type = "COMMIT"
        BY DEF CommitMsg
      <4>3. NoNewVote(dataQueue, dataQueue')
        BY <1>5, <3>2, <4>1, <4>2
      <4>4. NoNewVote(GetData(i), dataQueue')
        BY <1>2, <3>2, <4>1, <4>2, VotesAfterPost DEF NoNewVote
      <4> QED
        BY <4>3, <4>4
    <3> QED
      BY <1>11, <2>0, <3>1, <3>2 DEF HandlePrepare
  <2> HIDE DEF entry, count
  <2>5. \A j \in Node : \A l : Logged(j, l)' <=> Logged(j, l)
    BY <1>1, <2>1, <2>3 DEF Logged, LogWith, LogType
  <2>6. OneVoteEach(dataQueue)' /\ PrePrepareComesFirst' /\ VotersLogged'
    BY <2>4, <2>5 DEF VotesOnce, NoNewVote, PrePrepareComesFirst, VotersLogged
  <2>7. \A j \in Node : \A l \in DOMAIN requestLog'[j] :
           /\ l \in DOMAIN requestLog[j]
           /\ \/ requestLog'[j][l] = requestLog[j][l]
              \/ j = i /\ l = n /\ requestLog'[j][l] = e
    BY <1>1, <2>1, <2>3 DEF LogWith, LogType
  <2>8. \A j \in Node, l \in Nat : Heard(j, l) \subseteq Heard(j, l)' /\ Heard(j, l)' \subseteq Node
    BY <2>4, <2>5 DEF Heard, NoNewVote
  <2>9. count <= Cardinality(Heard(i, n)')
    <3>1. HasPrepare(dataQueue, i, s, n)
      BY <1>2, <2>0, <2>1 DEF HasPrepare, m
    <3>2. Logged(s, n) /\ s \notin Heard(i, n)
      BY <2>1, <3>1 DEF VotesOnce, VotersLogged, Heard
    <3>3. s \in Heard(i, n)'
      <4>1. ~HasPrepare(GetData(i), i, s, n)
        BY <1>4, <2>0, <2>1
      <4> QED
        BY <2>4, <2>5, <3>2, <4>1 DEF Heard, NoNewVote
    <3>4. IsFiniteSet(Heard(i, n)) /\ Cardinality(Heard(i, n)) \in Nat
      BY <2>1, <2>8, QuorumTypes DEF Heard
    <3>5. Cardinality(Heard(i, n) \cup {s}) = Cardinality(Heard(i, n)) + 1
      BY <3>2, <3>4, FS_AddElement
    <3>6. Heard(i, n) \cup {s} \subseteq Heard(i, n)'
      BY <2>1, <2>8, <3>3
    <3>7. /\ Cardinality(Heard(i, n) \cup {s}) <= Cardinality(Heard(i, n)')
          /\ Cardinality(Heard(i, n)') \in Nat
      BY <2>1, <2>8, <3>6, QuorumTypes
    <3>8. entry.prepares <= Cardinality(Heard(i, n))
      BY <2>1 DEF VotesOnce, CountsVoters, entry
    <3> QED
      BY <2>2, <3>4, <3>5, <3>7, <3>8 DEF count
  <2>10. CountsVoters'
    <3> SUFFICES ASSUME NEW j \in Node, NEW l \in DOMAIN requestLog'[j]
                 PROVE  requestLog'[j][l].prepares <= Cardinality(Heard(j, l)')
      BY DEF CountsVoters
    <3>1. CASE requestLog'[j][l] = requestLog[j][l]
      <4>1. l \in DOMAIN requestLog[j] /\ l \in Nat /\ requestLog[j][l].prepares \in Nat
        BY <2>7 DEF TypeOK, LogType, LogEntry
      <4>2. requestLog[j][l].prepares <= Cardinality(Heard(j, l))
        BY <4>1 DEF VotesOnce, CountsVoters
      <4>3. /\ Cardinality(Heard(j, l)) <= Cardinality(Heard(j, l)')
            /\ Cardinality(Heard(j, l)) \in Nat /\ Cardinality(Heard(j, l)') \in Nat
        BY <2>8, <4>1, QuorumTypes
      <4> QED
        BY <3>1, <4>1, <4>2, <4>3
    <3>2. CASE j = i /\ l = n /\ requestLog'[j][l] = e
      BY <2>3, <2>9, <3>2
    <3> QED
      BY <2>7, <3>1, <3>2
  <2>11. PreparedHasQuorum'
    <3> SUFFICES ASSUME NEW j \in Node, NEW l \in DOMAIN requestLog'[j],
                        requestLog'[j][l].bPrepared
                 PROVE  Cardinality({k \in Node : Logged(k, l)}) >= PrepareQuorum(N)
      BY <2>5 DEF PreparedHasQuorum
    <3>1. CASE requestLog[j][l].bPrepared
      BY <2>7, <3>1 DEF VotesOnce, PreparedHasQuorum
    <3>2. CASE l = n /\ count >= PrepareQuorum(N)
      <4>1. Heard(i, n)' \subseteq {k \in Node : Logged(k, n)}
        BY <2>5 DEF Heard
      <4>2. /\ Cardinality(Heard(i, n)') <= Cardinality({k \in Node : Logged(k, n)})
            /\ Cardinality(Heard(i, n)') \in Nat
            /\ Cardinality({k \in Node : Logged(k, n)}) \in Nat
        BY <4>1, QuorumTypes
      <4> QED
        BY <2>2, <2>9, <3>2, <4>2, QuorumTypes
    <3> QED
      BY <2>3, <2>7, <3>1, <3>2 DEF entry
  <2> QED
    BY <2>6, <2>10, <2>11 DEF VotesOnce
<1>12. CASE HandleCommit(i, m)
  <2> DEFINE entry == requestLog[i][m.n]
             e     == [entry EXCEPT !.commits = entry.commits + 1]
  <2>1. m.n \in DOMAIN requestLog[i] /\ entry \in LogEntry
    BY <1>1, <1>12 DEF HandleCommit, AcceptsCommit, Logged, LogType
  <2>2. requestLog' = LogWith(i, m.n, e)
    BY <1>12 DEF HandleCommit
  <2>3. e.prepares = entry.prepares /\ e.bPrepared = entry.bPrepared
    BY <2>1 DEF LogEntry
  <2>4. NoNewVote(dataQueue, dataQueue')
    <3>1. CASE dataQueue' = GetData(i)
      BY <1>2, <3>1
    <3>2. CASE dataQueue' = PostData(GetData(i), ReplyMsg(i, entry.request))
      <4>1. ReplyMsg(i, entry.request) \in Message
        BY <2>1, LogEntryUpdates, MessageTypes
      <4>2. ReplyMsg(i, entry.request).type = "REPLY"
        BY DEF ReplyMsg
      <4> QED
        BY <1>5, <3>2, <4>1, <4>2
    <3> QED
      BY <1>12, <3>1, <3>2 DEF HandleCommit, CommitRequest
  <2> HIDE DEF e
  <2>5. /\ \A j \in Node : DOMAIN requestLog'[j] = DOMAIN requestLog[j]
        /\ \A j \in Node : \A l \in DOMAIN requestLog[j] :
              /\ requestLog'[j][l].prepares = requestLog[j][l].prepares
              /\ requestLog'[j][l].bPrepared = requestLog[j][l].bPrepared
    BY <1>1, <2>1, <2>2, <2>3 DEF LogWith, LogType
  <2> QED
    BY <2>4, <2>5, VotesKept
<1> QED
  BY <1>6, <1>7, <1>8, <1>9, <1>10, <1>11, <1>12 DEF TakeMessage, m

\* So do the other threads', which post no vote.
LEMMA OtherStepsVotes ==
    ASSUME TypeOK, VotesOnce, NEW i \in Node,
           SendCommonMessage(i) \/ AddNewBlock(i) \/ GoOnReplying(i) \/ Stop(i) \/ EndListener(i)
    PROVE  VotesOnce'
<1>1. dataQueue \in Queues
  BY DEF TypeOK, NetType, Queues
<1>2. UNCHANGED requestLog
  BY DEF SendCommonMessage, AddNewBlock, TestWaiting, TakeChunk, SetWaiting, LockResender,
         TestResender, StopWaiting, PostRequest, GoOnReplying, CompareReply, CountReply, AddReplied,
         ClearWaiting, Stop, EndListener, roundVars
<1>3. NoNewVote(dataQueue, dataQueue')
  <2>1. CASE SendCommonMessage(i)
    <3> DEFINE m == CommonMsg(sent + 1)
    <3>1. sent + 1 \in Tx
      BY <2>1, SizeAssumption DEF SendCommonMessage, TypeOK, NetType, Tx
    <3>2. m \in Message
      BY <3>1, MessageTypes
    <3>3. m.type = "COMMON_MESSAGE"
      BY DEF CommonMsg
    <3>4. dataQueue' = PostData(dataQueue, m)
      BY <2>1 DEF SendCommonMessage
    <3> QED
      BY <1>1, <3>2, <3>3, <3>4, VotesAfterPost DEF NoNewVote
  <2>2. CASE PostRequest(i)
    <3> DEFINE r == [client |-> i, block |-> resender[i].block]
    <3>1. r \in Request
      BY <2>2, ValueTypes DEF PostRequest, TypeOK, ThreadType, Request
    <3>2. RequestMsg(r) \in Message
      BY <3>1, MessageTypes
    <3>3. RequestMsg(r).type = "REQUEST"
      BY DEF RequestMsg
    <3>4. dataQueue' = PostData(dataQueue, RequestMsg(r))
      BY <2>2 DEF PostRequest
    <3> QED
      BY <1>1, <3>2, <3>3, <3>4, VotesAfterPost DEF NoNewVote
  <2>3. CASE EndListener(i)
    <3>1. dataQueue' = dataQueue \/ (dataQueue[i] # <<>> /\ dataQueue' = GetData(i))
      BY <2>3 DEF EndListener
    <3> QED
      BY <1>1, <3>1, VotesAfterGet DEF NoNewVote
  <2>4. CASE UNCHANGED dataQueue
    BY <2>4 DEF NoNewVote
  <2> QED
    BY <2>1, <2>2, <2>3, <2>4
       DEF AddNewBlock, TestWaiting, TakeChunk, SetWaiting, LockResender, TestResender,
           StopWaiting, GoOnReplying, CompareReply, CountReply, AddReplied, ClearWaiting, Stop,
           netVars
<1> QED
  BY <1>2, <1>3, VotesKept

\* The invariant, whatever is lost and whoever stops.
THEOREM VotesAreOnce == Spec => []VotesOnce
<1>1. Init => VotesOnce
  <2> SUFFICES ASSUME Init PROVE VotesOnce
    OBVIOUS
  <2>1. \A i \in Node : Len(dataQueue[i]) = 0 /\ DOMAIN requestLog[i] = {}
    BY DEF Init, NoEntries
  <2> QED
    BY <2>1 DEF VotesOnce, OneVoteEach, PrePrepareComesFirst, VotersLogged, CountsVoters,
                PreparedHasQuorum, HasPrePrepare, HasPrepare
<1>2. TypeOK /\ NumbersGivenOnce /\ VotesOnce /\ [Next]_vars => VotesOnce'
  <2>1. UNCHANGED vars /\ TypeOK /\ VotesOnce => VotesOnce'
    BY VotesKept DEF vars, netVars, roundVars, NoNewVote
  <2> QED
    BY <2>1, ListenMessagesVotes, OtherStepsVotes DEF Next, ListenMessages
<1> QED
  BY <1>1, <1>2, TypeCorrect, GivenOnce, PTL DEF Spec

\* A number some node has prepared is logged by 2f different nodes (l.344).
THEOREM PreparedWithQuorum == Spec => []PreparedHasQuorum
<1>1. VotesOnce => PreparedHasQuorum
  BY DEF VotesOnce
<1> QED
  BY <1>1, VotesAreOnce, PTL

-----------------------------------------------------------------------------
(* The block waited for *)

\* A running node that waits for a block has a thread that will go on resending
\* it, at any moment of the races between the listener and the threads.
THEOREM WaitingResent == Spec => []WaitingIsResent
<1>1. Init => WaitingIsResent
  BY DEF Init, WaitingIsResent, Pair
<1>2. TypeOK /\ WaitingIsResent /\ [Next]_vars => WaitingIsResent'
  <2> SUFFICES ASSUME TypeOK, WaitingIsResent, [Next]_vars PROVE WaitingIsResent'
    OBVIOUS
  <2>1. CASE UNCHANGED <<bIsWaitingForReply, queued, resender, stopped>>
    BY <2>1 DEF WaitingIsResent
  <2>2. ASSUME NEW i \in Node, ClearWaiting(i)
        PROVE  WaitingIsResent'
    BY <2>2 DEF ClearWaiting, WaitingIsResent, TypeOK, ClientType, threadVars, stopVars
  <2>3. ASSUME NEW i \in Node, SetWaiting(i)
        PROVE  WaitingIsResent'
    <3>1. PICK b \in created[i] :
             /\ queued' = [queued EXCEPT ![i] = @ \cup {b}]
             /\ bIsWaitingForReply' = [bIsWaitingForReply EXCEPT ![i] = Pair(TRUE, b)]
      BY <2>3 DEF SetWaiting
    <3>2. Pair(TRUE, b).second = b
      BY DEF Pair
    <3> QED
      BY <2>3, <3>1, <3>2
         DEF SetWaiting, WaitingIsResent, TypeOK, ClientType, ThreadType, stopVars
  <2>4. ASSUME NEW i \in Node, LockResender(i)
        PROVE  WaitingIsResent'
    <3>1. PICK b \in queued[i] :
             /\ queued' = [queued EXCEPT ![i] = @ \ {b}]
             /\ resender' = [resender EXCEPT ![i] = Resending(b, "loop", 0)]
      BY <2>4 DEF LockResender
    <3>2. Resending(b, "loop", 0).block = b /\ NoResender.block = NoBlock
      BY DEF Resending, NoResender
    <3>3. resender[i] = NoResender
      BY <2>4 DEF LockResender
    <3>4. \A j \in Node : bIsWaitingForReply[j].first => bIsWaitingForReply[j].second # NoBlock
      BY ValueTypes, InitialTypes DEF TypeOK, ClientType
    <3> QED
      BY <2>4, <3>1, <3>2, <3>3, <3>4
         DEF LockResender, WaitingIsResent, TypeOK, ThreadType, clientVars, stopVars
  <2>5. ASSUME NEW i \in Node, TestResender(i)
        PROVE  WaitingIsResent'
    <3> DEFINE r == resender[i]
    <3>1. \A pc : Resending(r.block, pc, r.posts).block = r.block
      BY DEF Resending
    <3>2. UNCHANGED <<bIsWaitingForReply, queued, stopped>>
      BY <2>5 DEF TestResender, clientVars, stopVars
    <3>3. CASE /\ stopped[i] \/ bIsWaitingForReply[i] # Pair(TRUE, r.block)
               /\ resender' = [resender EXCEPT ![i] = NoResender]
      <4>1. bIsWaitingForReply[i] \in WaitingPair
        BY DEF TypeOK, ClientType
      <4>2. bIsWaitingForReply[i].first => bIsWaitingForReply[i] = Pair(TRUE, bIsWaitingForReply[i].second)
        BY <4>1, ValueTypes
      <4> QED
        BY <3>2, <3>3, <4>2 DEF WaitingIsResent, TypeOK, ThreadType
    <3>4. CASE resender'[i].block = r.block /\ \A j \in Node \ {i} : resender'[j] = resender[j]
      BY <3>2, <3>4 DEF WaitingIsResent
    <3> QED
      BY <2>5, <3>1, <3>3, <3>4 DEF TestResender, TypeOK, ThreadType
  <2>6. ASSUME NEW i \in Node, StopWaiting(i)
        PROVE  WaitingIsResent'
    BY <2>6 DEF StopWaiting, WaitingIsResent, TypeOK, ClientType, ThreadType, stopVars
  <2>7. ASSUME NEW i \in Node, PostRequest(i)
        PROVE  WaitingIsResent'
    <3>1. Resending(resender[i].block, "loop", resender[i].posts + 1).block = resender[i].block
      BY DEF Resending
    <3> QED
      BY <2>7, <3>1
         DEF PostRequest, WaitingIsResent, TypeOK, ThreadType, clientVars, stopVars
  <2>8. ASSUME NEW i \in Node, Stop(i)
        PROVE  WaitingIsResent'
    BY <2>8 DEF Stop, WaitingIsResent, TypeOK, StopType, clientVars, threadVars
  <2>9. ASSUME NEW i \in Node,
               \/ SendCommonMessage(i) \/ EndListener(i)
               \/ CompareReply(i) \/ CountReply(i) \/ AddReplied(i)
        PROVE  UNCHANGED <<bIsWaitingForReply, queued, resender, stopped>>
    BY <2>9 DEF SendCommonMessage, EndListener, CompareReply, CountReply, AddReplied, clientVars,
                threadVars, stopVars
  <2>10. ASSUME NEW i \in Node, TestWaiting(i) \/ TakeChunk(i)
         PROVE  UNCHANGED <<bIsWaitingForReply, queued, resender, stopped>>
    BY <2>10 DEF TestWaiting, TakeChunk, clientVars, stopVars
  <2>11. ASSUME NEW i \in Node, NEW m,
                \/ HandleCommonMessage(i, m)
                \/ HandleRequest(i, m)
                \/ HandleReply(i, m)
                \/ HandlePrePrepare(i, m)
                \/ HandlePrepare(i, m)
                \/ HandleCommit(i, m)
                \/ DropMessage(i, m)
         PROVE  UNCHANGED <<bIsWaitingForReply, queued, resender, stopped>>
    BY <2>11 DEF HandleCommonMessage, HandleRequest, HandleReply, HandlePrePrepare, HandlePrepare,
                 HandleCommit, DropMessage, clientVars, threadVars, stopVars
  <2> QED
    BY <2>1, <2>2, <2>3, <2>4, <2>5, <2>6, <2>7, <2>8, <2>9, <2>10, <2>11
       DEF Next, ListenMessages, TakeMessage, GoOnReplying, AddNewBlock, vars, clientVars,
           threadVars, stopVars
<1> QED
  BY <1>1, <1>2, TypeCorrect, PTL DEF Spec

-----------------------------------------------------------------------------
(* Blocks that are added are committed *)

\* Some node's consensus has committed the block.
BlockCommitted(b) ==
    \E j \in Node : \E k \in 1..Len(committed[j]) :
        /\ Logged(j, committed[j][k])
        /\ requestLog[j][committed[j][k]].request.block = b

\* A REPLY, in a queue or in the hands of a listener, is of a committed block,
\* however old it is.
RepliesAfterCommit ==
    /\ \A m \in Queued(dataQueue) : m.type = "REPLY" => BlockCommitted(m.block)
    /\ \A i \in Node : replying[i] # NotReplying => BlockCommitted(replying[i].block)

\* Logs and the sequences of committed numbers only grow.
LogsGrow ==
    /\ \A j \in Node : \A n \in DOMAIN requestLog[j] :
          n \in DOMAIN requestLog'[j] /\ requestLog'[j][n].request = requestLog[j][n].request
    /\ \A j \in Node : \A k \in 1..Len(committed[j]) :
          k \in 1..Len(committed'[j]) /\ committed'[j][k] = committed[j][k]

\* An entry replaced by one with its request, or added, is growth.
LEMMA LogWithGrows ==
    ASSUME LogType, NEW i \in Node, NEW n, NEW e, requestLog' = LogWith(i, n, e),
           Logged(i, n) => e.request = requestLog[i][n].request
    PROVE  \A j \in Node : \A l \in DOMAIN requestLog[j] :
              l \in DOMAIN requestLog'[j] /\ requestLog'[j][l].request = requestLog[j][l].request
  BY DEF LogWith, LogType, Logged

\* Every step of the listener lets logs and committed numbers grow.
LEMMA ListenMessagesGrow ==
    ASSUME TypeOK, NEW i \in Node, TakeMessage(i)
    PROVE  LogsGrow
<1> DEFINE m == Head(dataQueue[i])
<1>1. LogType
  BY DEF TypeOK
<1> HIDE DEF m
<1>2. CASE UNCHANGED <<requestLog, committed>>
  BY <1>2 DEF LogsGrow
<1>3. CASE HandlePrePrepare(i, m)
  <2>1. CASE requestLog' = LogWith(i, m.n, NewEntry(m.request)) /\ ~Logged(i, m.n)
    BY <1>1, <1>3, <2>1, LogWithGrows DEF HandlePrePrepare, LogsGrow
  <2>2. CASE UNCHANGED requestLog
    BY <1>2, <1>3, <2>2 DEF HandlePrePrepare
  <2> QED
    BY <1>3, <2>1, <2>2 DEF HandlePrePrepare
<1>4. CASE HandlePrepare(i, m)
  <2> DEFINE entry == requestLog[i][m.n]
             below == [entry EXCEPT !.prepares = entry.prepares + 1]
             full  == [entry EXCEPT !.prepares = entry.prepares + 1, !.bPrepared = TRUE]
  <2>1. Logged(i, m.n) /\ entry \in LogEntry
    BY <1>1, <1>4 DEF HandlePrepare, AcceptsPrepare, Logged, LogType
  <2>2. below.request = entry.request /\ full.request = entry.request
    BY <2>1 DEF LogEntry
  <2>3. requestLog' = LogWith(i, m.n, below) \/ requestLog' = LogWith(i, m.n, full)
    BY <1>4 DEF HandlePrepare
  <2>4. PICK e : e.request = entry.request /\ requestLog' = LogWith(i, m.n, e)
    BY <2>2, <2>3
  <2>5. UNCHANGED committed
    BY <1>4 DEF HandlePrepare
  <2> HIDE DEF entry
  <2>6. \A j \in Node : \A l \in DOMAIN requestLog[j] :
           l \in DOMAIN requestLog'[j] /\ requestLog'[j][l].request = requestLog[j][l].request
    BY <1>1, <2>4, LogWithGrows DEF entry
  <2> QED
    BY <2>5, <2>6 DEF LogsGrow
<1>5. CASE HandleCommit(i, m)
  <2> DEFINE entry == requestLog[i][m.n]
             e     == [entry EXCEPT !.commits = entry.commits + 1]
  <2>1. Logged(i, m.n) /\ entry \in LogEntry
    BY <1>1, <1>5 DEF HandleCommit, AcceptsCommit, Logged, LogType
  <2>2. e.request = entry.request
    BY <2>1 DEF LogEntry
  <2>3. requestLog' = LogWith(i, m.n, e)
    BY <1>5 DEF HandleCommit
  <2>4. \A j \in Node : \A k \in 1..Len(committed[j]) :
           k \in 1..Len(committed'[j]) /\ committed'[j][k] = committed[j][k]
    <3>1. CASE UNCHANGED committed
      BY <3>1
    <3>2. CASE committed' = [committed EXCEPT ![i] = Append(@, m.n)]
      BY <3>2 DEF TypeOK, RoundType
    <3> QED
      BY <1>5, <3>1, <3>2 DEF HandleCommit, CommitRequest
  <2> QED
    BY <1>1, <2>2, <2>3, <2>4, LogWithGrows DEF LogsGrow
<1> QED
  BY <1>2, <1>3, <1>4, <1>5
     DEF TakeMessage, m, HandleCommonMessage, HandleRequest, HandleReply, DropMessage, roundVars

\* What is committed stays committed.
LEMMA CommittedStays ==
    ASSUME LogsGrow, NEW b, BlockCommitted(b)
    PROVE  BlockCommitted(b)'
<1>0. PICK j \in Node : \E k \in 1..Len(committed[j]) :
         /\ Logged(j, committed[j][k])
         /\ requestLog[j][committed[j][k]].request.block = b
  BY DEF BlockCommitted
<1>1. PICK k \in 1..Len(committed[j]) :
         /\ Logged(j, committed[j][k])
         /\ requestLog[j][committed[j][k]].request.block = b
  BY <1>0
<1>2. k \in 1..Len(committed'[j]) /\ committed'[j][k] = committed[j][k]
  BY DEF LogsGrow
<1>3. /\ committed[j][k] \in DOMAIN requestLog'[j]
      /\ requestLog'[j][committed[j][k]].request = requestLog[j][committed[j][k]].request
  BY <1>1 DEF LogsGrow, Logged
<1> QED
  BY <1>1, <1>2, <1>3 DEF BlockCommitted, Logged

\* The invariant is kept if what is new in queues and handlers is committed.
LEMMA RepliesKept ==
    ASSUME RepliesAfterCommit, LogsGrow,
           \A m \in Queued(dataQueue') :
              m \in Queued(dataQueue) \/ (m.type = "REPLY" => BlockCommitted(m.block)'),
           \A i \in Node :
              replying'[i] # NotReplying =>
                 \/ replying[i] # NotReplying /\ replying'[i].block = replying[i].block
                 \/ BlockCommitted(replying[i].block)'
    PROVE  RepliesAfterCommit'
<1>1. \A m \in Queued(dataQueue') : (m.type = "REPLY" => BlockCommitted(m.block))'
  BY CommittedStays DEF RepliesAfterCommit
<1>2. ASSUME NEW i \in Node, replying'[i] # NotReplying
      PROVE  BlockCommitted(replying[i].block)'
  <2>1. CASE BlockCommitted(replying[i].block)'
    BY <2>1
  <2>2. CASE replying[i] # NotReplying /\ replying'[i].block = replying[i].block
    <3>1. PICK b : b = replying[i].block
      OBVIOUS
    <3>2. BlockCommitted(b)
      BY <2>2, <3>1 DEF RepliesAfterCommit
    <3>3. BlockCommitted(b)'
      BY <3>2, CommittedStays
    <3>4. replying'[i].block = b
      BY <2>2, <3>1
    <3> QED
      BY <3>3, <3>4 DEF BlockCommitted
  <2> QED
    BY <1>2, <2>1, <2>2
<1> QED
  BY <1>1, <1>2 DEF RepliesAfterCommit

\* The listener's steps: it replies to what it commits.
LEMMA ListenMessagesReplies ==
    ASSUME TypeOK, RepliesAfterCommit, NEW i \in Node, TakeMessage(i)
    PROVE  RepliesAfterCommit'
<1> DEFINE m == Head(dataQueue[i])
<1>1. dataQueue \in Queues /\ dataQueue[i] # <<>> /\ LogType
  BY DEF TakeMessage, TypeOK, NetType, Queues
<1>2. /\ m \in Message /\ m \in Queued(dataQueue)
      /\ GetData(i) \in Queues /\ Queued(GetData(i)) \subseteq Queued(dataQueue)
  BY <1>1, GetDataType, QueuedAfterGet
<1>3. LogsGrow
  BY ListenMessagesGrow
<1>4. ASSUME NEW p \in Message, p.type # "REPLY", dataQueue' = PostData(GetData(i), p)
      PROVE  \A q \in Queued(dataQueue') :
                q \in Queued(dataQueue) \/ (q.type = "REPLY" => BlockCommitted(q.block)')
  BY <1>2, <1>4, QueuedAfterPost
<1>5. UNCHANGED replying =>
         \A j \in Node : replying'[j] # NotReplying =>
            \/ replying[j] # NotReplying /\ replying'[j].block = replying[j].block
            \/ BlockCommitted(replying[j].block)'
  OBVIOUS
<1> HIDE DEF m
<1>7. CASE HandleCommonMessage(i, m)
  BY <1>2, <1>3, <1>5, <1>7, RepliesKept DEF HandleCommonMessage, clientVars
<1>8. CASE DropMessage(i, m)
  BY <1>2, <1>3, <1>5, <1>8, RepliesKept DEF DropMessage, clientVars
<1>9. CASE HandleRequest(i, m)
  <2>1. PICK p \in Message : p.type # "REPLY" /\ dataQueue' = PostData(GetData(i), p)
    <3>1. m.request \in Request /\ uiCurrentRequestNumber[i] \in Nat
      BY <1>2, <1>9, MessageFields DEF HandleRequest, TypeOK, RoundType
    <3>2. PrePrepareMsg(uiCurrentRequestNumber[i], m.request) \in Message
      BY <3>1, MessageTypes
    <3>3. PrePrepareMsg(uiCurrentRequestNumber[i], m.request).type # "REPLY"
      BY DEF PrePrepareMsg
    <3> QED
      BY <1>9, <3>2, <3>3 DEF HandleRequest
  <2> QED
    BY <1>3, <1>4, <1>5, <1>9, <2>1, RepliesKept DEF HandleRequest, clientVars
<1>10. CASE HandlePrePrepare(i, m)
  <2>1. PICK p \in Message : p.type # "REPLY" /\ dataQueue' = PostData(GetData(i), p)
    <3>1. m.n \in Nat /\ m.request \in Request
      BY <1>2, <1>10, MessageFields DEF HandlePrePrepare
    <3>2. PrepareMsg(i, m.n, m.request) \in Message
      BY <3>1, MessageTypes
    <3>3. PrepareMsg(i, m.n, m.request).type # "REPLY"
      BY DEF PrepareMsg
    <3> QED
      BY <1>10, <3>2, <3>3 DEF HandlePrePrepare
  <2> QED
    BY <1>3, <1>4, <1>5, <1>10, <2>1, RepliesKept DEF HandlePrePrepare, clientVars
<1>11. CASE HandlePrepare(i, m)
  <2> DEFINE entry == requestLog[i][m.n]
  <2>1. CommitMsg(i, m.n, entry.request) \in Message
    <3>1. m.n \in Nat /\ entry \in LogEntry
      BY <1>1, <1>2, <1>11, MessageFields DEF HandlePrepare, AcceptsPrepare, Logged, LogType
    <3> QED
      BY <3>1, LogEntryUpdates, MessageTypes
  <2>2. CommitMsg(i, m.n, entry.request).type # "REPLY"
    BY DEF CommitMsg
  <2>3. dataQueue' = GetData(i) \/ dataQueue' = PostData(GetData(i), CommitMsg(i, m.n, entry.request))
    BY <1>11 DEF HandlePrepare
  <2>4. \A q \in Queued(dataQueue') :
           q \in Queued(dataQueue) \/ (q.type = "REPLY" => BlockCommitted(q.block)')
    BY <1>2, <1>4, <2>1, <2>2, <2>3
  <2> QED
    BY <1>3, <1>5, <1>11, <2>4, RepliesKept DEF HandlePrepare, clientVars
<1>12. CASE HandleReply(i, m)
  <2>1. PICK b : b = m.block
    OBVIOUS
  <2>2. /\ m.type = "REPLY" /\ dataQueue' = GetData(i)
        /\ replying' = [replying EXCEPT ![i] = Replying("compare", b)]
    BY <1>12, <2>1 DEF HandleReply
  <2>3. BlockCommitted(b)
    BY <1>2, <2>1, <2>2 DEF RepliesAfterCommit
  <2>4. BlockCommitted(b)'
    BY <1>3, <2>3, CommittedStays
  <2>5. Replying("compare", b).block = b
    BY DEF Replying
  <2>6. ASSUME NEW j \in Node, replying'[j] # NotReplying
        PROVE  \/ replying[j] # NotReplying /\ replying'[j].block = replying[j].block
               \/ BlockCommitted(replying[j].block)'
    <3>1. CASE replying'[j] = replying[j]
      BY <2>6, <3>1
    <3>2. CASE replying'[j].block = b
      BY <2>4, <3>2 DEF BlockCommitted
    <3> QED
      BY <2>2, <2>5, <3>1, <3>2 DEF TypeOK, ClientType
  <2> QED
    BY <1>2, <1>3, <2>2, <2>6, RepliesKept
<1>13. CASE HandleCommit(i, m)
  <2>1. PICK n \in DOMAIN requestLog[i] : n = m.n
    BY <1>13 DEF HandleCommit, AcceptsCommit, Logged
  <2>2. PICK r \in Request : r = requestLog[i][n].request
    BY <1>1, <2>1 DEF LogType, LogEntry
  <2>3. CASE dataQueue' = GetData(i)
    BY <1>2, <1>3, <1>5, <1>13, <2>3, RepliesKept DEF HandleCommit, clientVars
  <2>4. CASE CommitRequest(i, n, r)
    <3>1. committed' = [committed EXCEPT ![i] = Append(@, n)]
      BY <2>4 DEF CommitRequest
    <3>2. /\ Len(committed'[i]) \in 1..Len(committed'[i])
          /\ committed'[i][Len(committed'[i])] = n
      BY <2>1, <3>1 DEF TypeOK, RoundType, LogType
    <3>3. BlockCommitted(r.block)'
      <4>1. n \in DOMAIN requestLog'[i] /\ requestLog'[i][n].request = r
        BY <1>3, <2>1, <2>2 DEF LogsGrow
      <4> QED
        BY <3>2, <4>1 DEF BlockCommitted, Logged
    <3>4. \A q \in Queued(dataQueue') :
             q \in Queued(dataQueue) \/ (q.type = "REPLY" => BlockCommitted(q.block)')
      <4>1. ReplyMsg(i, r) \in Message
        BY <2>2, MessageTypes
      <4>2. ReplyMsg(i, r).block = r.block
        BY DEF ReplyMsg
      <4>3. dataQueue' = GetData(i) \/ dataQueue' = PostData(GetData(i), ReplyMsg(i, r))
        BY <2>4 DEF CommitRequest
      <4> QED
        BY <1>2, <3>3, <4>1, <4>2, <4>3, QueuedAfterPost
    <3> QED
      BY <1>3, <1>5, <1>13, <3>4, RepliesKept DEF HandleCommit, clientVars
  <2> QED
    BY <1>13, <2>1, <2>2, <2>3, <2>4 DEF HandleCommit
<1> QED
  BY <1>7, <1>8, <1>9, <1>10, <1>11, <1>12, <1>13 DEF TakeMessage, m

\* The other threads do not reply, and the handler keeps the block it compared.
LEMMA OtherStepsReplies ==
    ASSUME TypeOK, RepliesAfterCommit, NEW i \in Node,
           SendCommonMessage(i) \/ AddNewBlock(i) \/ GoOnReplying(i) \/ Stop(i) \/ EndListener(i)
    PROVE  RepliesAfterCommit'
<1>1. dataQueue \in Queues
  BY DEF TypeOK, NetType, Queues
<1>2. UNCHANGED <<requestLog, committed>>
  BY DEF SendCommonMessage, AddNewBlock, TestWaiting, TakeChunk, SetWaiting, LockResender,
         TestResender, StopWaiting, PostRequest, GoOnReplying, CompareReply, CountReply, AddReplied,
         ClearWaiting, Stop, EndListener, roundVars
<1>3. LogsGrow
  BY <1>2 DEF LogsGrow
<1>4. \A q \in Queued(dataQueue') : q \in Queued(dataQueue) \/ q.type # "REPLY"
  <2>1. CASE SendCommonMessage(i)
    <3>1. sent + 1 \in Tx
      BY <2>1, SizeAssumption DEF SendCommonMessage, TypeOK, NetType, Tx
    <3>2. CommonMsg(sent + 1) \in Message
      BY <3>1, MessageTypes
    <3>3. CommonMsg(sent + 1).type = "COMMON_MESSAGE"
      BY DEF CommonMsg
    <3>4. dataQueue' = PostData(dataQueue, CommonMsg(sent + 1))
      BY <2>1 DEF SendCommonMessage
    <3> QED
      BY <1>1, <3>2, <3>3, <3>4, QueuedAfterPost
  <2>2. CASE PostRequest(i)
    <3> DEFINE r == [client |-> i, block |-> resender[i].block]
    <3>1. r \in Request
      BY <2>2, ValueTypes DEF PostRequest, TypeOK, ThreadType, Request
    <3>2. RequestMsg(r) \in Message
      BY <3>1, MessageTypes
    <3>3. RequestMsg(r).type = "REQUEST"
      BY DEF RequestMsg
    <3>4. dataQueue' = PostData(dataQueue, RequestMsg(r))
      BY <2>2 DEF PostRequest
    <3> QED
      BY <1>1, <3>2, <3>3, <3>4, QueuedAfterPost
  <2>3. CASE EndListener(i)
    BY <1>1, <2>3, QueuedAfterGet DEF EndListener
  <2>4. CASE UNCHANGED dataQueue
    BY <2>4
  <2> QED
    BY <2>1, <2>2, <2>3, <2>4
       DEF AddNewBlock, TestWaiting, TakeChunk, SetWaiting, LockResender, TestResender,
           StopWaiting, GoOnReplying, CompareReply, CountReply, AddReplied, ClearWaiting, Stop,
           netVars
<1>5. ASSUME NEW j \in Node, replying'[j] # NotReplying
      PROVE  replying[j] # NotReplying /\ replying'[j].block = replying[j].block
  <2>1. /\ replying \in [Node -> ReplyHandler]
        /\ \A pc \in {"count", "add"} : \A b : Replying(pc, b).block = b
        /\ NotReplying.pc = "none"
        /\ NotReplying \in ReplyHandler
    BY DEF TypeOK, ClientType, Replying, NotReplying, ReplyHandler
  <2>2. CASE UNCHANGED replying
    BY <1>5, <2>2
  <2>3. CASE CompareReply(i) \/ CountReply(i)
    <3>1. /\ replying[i].pc \in {"compare", "count"}
          /\ \/ replying' = [replying EXCEPT ![i] = NotReplying]
             \/ \E pc \in {"count", "add"} :
                   replying' = [replying EXCEPT ![i] = Replying(pc, replying[i].block)]
      BY <2>1, <2>3 DEF CompareReply, CountReply
    <3> QED
      BY <1>5, <2>1, <3>1
  <2>4. CASE AddReplied(i)
    <3>1. replying[i] \in ReplyHandler /\ replying[i].pc = "add"
      BY <2>1, <2>4 DEF AddReplied
    <3>2. replying[i] \in [pc : {"compare", "count", "add", "clear"}, block : Block]
      BY <2>1, <3>1 DEF ReplyHandler
    <3>3. [replying[i] EXCEPT !.pc = "clear"].block = replying[i].block
      BY <3>2
    <3>4. replying' = [replying EXCEPT ![i] = [replying[i] EXCEPT !.pc = "clear"]]
      BY <2>1, <2>4 DEF AddReplied
    <3> QED
      BY <1>5, <2>1, <3>1, <3>3, <3>4
  <2>5. CASE ClearWaiting(i)
    BY <1>5, <2>1, <2>5 DEF ClearWaiting
  <2> QED
    BY <2>2, <2>3, <2>4, <2>5
       DEF SendCommonMessage, AddNewBlock, TestWaiting, TakeChunk, SetWaiting, LockResender,
           TestResender, StopWaiting, PostRequest, GoOnReplying, Stop, EndListener, clientVars
<1> QED
  BY <1>3, <1>4, <1>5, RepliesKept

\* Every REPLY, on its way or in a client's hands, is of a block some node's
\* consensus has committed (l.435), however old it is: one REPLY tells a client as
\* much as the f + 1 it counts (l.259).
THEOREM RepliesCommitted == Spec => []RepliesAfterCommit
<1>1. Init => RepliesAfterCommit
  BY DEF Init, RepliesAfterCommit, Queued
<1>2. TypeOK /\ RepliesAfterCommit /\ [Next]_vars => RepliesAfterCommit'
  <2>1. UNCHANGED vars /\ RepliesAfterCommit => RepliesAfterCommit'
    <3> SUFFICES ASSUME UNCHANGED vars, RepliesAfterCommit PROVE RepliesAfterCommit'
      OBVIOUS
    <3>1. UNCHANGED <<dataQueue, replying, requestLog, committed>>
      BY DEF vars, netVars, roundVars, clientVars
    <3> QED
      BY <3>1 DEF RepliesAfterCommit, BlockCommitted, Queued, Logged
  <2> QED
    BY <2>1, ListenMessagesReplies, OtherStepsReplies DEF Next, ListenMessages
<1> QED
  BY <1>1, <1>2, TypeCorrect, PTL DEF Spec

\* What a step may add to the chain of node j.
AddsCommittedTo(j) ==
    chain'[j] # chain[j] =>
        \/ Committed(LastBlock(j))'
        \/ /\ replying[j].pc = "add"
           /\ replying[j].block # bIsWaitingForReply[j].second

\* A commit adds the block committed (l.410).
LEMMA CommitAdds ==
    ASSUME TypeOK, NEW i \in Node, NEW j \in Node, HandleCommit(i, Head(dataQueue[i]))
    PROVE  AddsCommittedTo(j)
<1> DEFINE m == Head(dataQueue[i])
<1>1. LogType /\ chain \in [Node -> Seq(Block \cup {GenesisBlock})]
  BY DEF TypeOK, DataType
<1>2. TakeMessage(i) => LogsGrow
  BY ListenMessagesGrow
<1> HIDE DEF m
<1>3. PICK n \in DOMAIN requestLog[i] : n = m.n
  BY DEF HandleCommit, AcceptsCommit, Logged, m
<1>4. PICK r \in Request : r = requestLog[i][n].request
  BY <1>1 DEF LogType, LogEntry
<1>5. CASE CommitRequest(i, n, r) /\ chain' = [chain EXCEPT ![i] = Append(@, r.block)]
  <2>1. committed' = [committed EXCEPT ![i] = Append(@, n)]
    BY <1>5 DEF CommitRequest
  <2>2. /\ Len(committed'[i]) \in 1..Len(committed'[i])
        /\ committed'[i][Len(committed'[i])] = n
    BY <1>1, <2>1 DEF TypeOK, RoundType, LogType
  <2>3. requestLog'[i][n].request = r
    <3> DEFINE x == requestLog[i][n]
               e == [x EXCEPT !.commits = x.commits + 1]
    <3>1. requestLog' = LogWith(i, n, e)
      BY <1>3 DEF HandleCommit, m
    <3>2. e.request = r
      BY <1>1, <1>4 DEF LogType, LogEntry
    <3> HIDE DEF e
    <3>3. requestLog'[i][n] = e
      BY <1>1, <3>1 DEF LogWith, LogType
    <3> QED
      BY <3>2, <3>3
  <2>4. chain'[i] = Append(chain[i], r.block) /\ (j # i => chain'[j] = chain[j])
    BY <1>1, <1>5
  <2>5. chain'[i][Len(chain'[i])] = r.block
    BY <1>1, <2>4
  <2>6. \E k \in 1..Len(committed'[i]) : requestLog'[i][committed'[i][k]].request.block = r.block
    BY <2>2, <2>3
  <2> QED
    BY <2>4, <2>5, <2>6 DEF AddsCommittedTo, Committed, LastBlock
<1>6. CASE UNCHANGED chain
  BY <1>6 DEF AddsCommittedTo
<1> QED
  BY <1>3, <1>4, <1>5, <1>6 DEF HandleCommit, CommitRequest, dataVars, m

\* A client adds the block the REPLYs were about, if it still waits for it (l.263).
LEMMA ReplyAdds ==
    ASSUME TypeOK, RepliesAfterCommit, NEW i \in Node, NEW j \in Node, AddReplied(i)
    PROVE  AddsCommittedTo(j)
<1>1. /\ chain \in [Node -> Seq(Block \cup {GenesisBlock})]
      /\ chain' = [chain EXCEPT ![i] = Append(@, bIsWaitingForReply[i].second)]
      /\ replying[i].pc = "add"
      /\ UNCHANGED <<requestLog, committed>>
  BY DEF TypeOK, DataType, AddReplied, roundVars
<1>2. replying[i] # NotReplying
  BY <1>1 DEF NotReplying, Replying
<1>3. PICK b : b = bIsWaitingForReply[i].second
  OBVIOUS
<1>4. chain'[i] = Append(chain[i], b) /\ (j # i => chain'[j] = chain[j])
  BY <1>1, <1>3
<1>5. CASE replying[i].block = b
  <2>1. \E l \in Node : \E k \in 1..Len(committed[l]) :
           requestLog[l][committed[l][k]].request.block = b
    BY <1>2, <1>5 DEF RepliesAfterCommit, BlockCommitted
  <2>2. chain'[i][Len(chain'[i])] = b
    BY <1>1, <1>4
  <2> QED
    BY <1>1, <1>4, <2>1, <2>2 DEF AddsCommittedTo, Committed, LastBlock
<1> QED
  BY <1>1, <1>3, <1>4, <1>5 DEF AddsCommittedTo

\* A node adds only committed blocks, whatever comes between the steps of the
\* REPLY handler; but if another thread's block takes the place of the one compared
\* (l.502 between l.256 and l.263), that is the one added.
THEOREM ChainsCommitted == Spec => AddsCommitted
<1>1. TypeOK /\ RepliesAfterCommit /\ [Next]_vars => \A j \in Node : AddsCommittedTo(j)
  <2> SUFFICES ASSUME TypeOK, RepliesAfterCommit, [Next]_vars, NEW j \in Node
               PROVE  AddsCommittedTo(j)
    OBVIOUS
  <2>1. CASE UNCHANGED chain
    BY <2>1 DEF AddsCommittedTo
  <2>2. ASSUME NEW i \in Node, TakeMessage(i)
        PROVE  UNCHANGED chain \/ AddsCommittedTo(j)
    BY <2>2, CommitAdds
       DEF TakeMessage, HandleCommonMessage, HandleRequest, HandleReply, HandlePrePrepare,
           HandlePrepare, DropMessage, dataVars
  <2>3. ASSUME NEW i \in Node, GoOnReplying(i)
        PROVE  UNCHANGED chain \/ AddsCommittedTo(j)
    BY <2>3, ReplyAdds DEF GoOnReplying, CompareReply, CountReply, ClearWaiting, dataVars
  <2>4. ASSUME NEW i \in Node,
               SendCommonMessage(i) \/ AddNewBlock(i) \/ Stop(i) \/ EndListener(i)
        PROVE  UNCHANGED chain
    BY <2>4 DEF SendCommonMessage, AddNewBlock, TestWaiting, TakeChunk, SetWaiting, LockResender,
                TestResender, StopWaiting, PostRequest, Stop, EndListener, dataVars
  <2> QED
    BY <2>1, <2>2, <2>3, <2>4 DEF Next, ListenMessages, vars, dataVars
<1>2. TypeOK /\ RepliesAfterCommit /\ [Next]_vars =>
         [\A i \in Node : chain'[i] # chain[i] =>
             \/ Committed(LastBlock(i))'
             \/ /\ replying[i].pc = "add"
                /\ replying[i].block # bIsWaitingForReply[i].second]_vars
  BY <1>1 DEF AddsCommittedTo
<1> QED
  BY <1>2, TypeCorrect, RepliesCommitted, PTL DEF Spec, AddsCommitted

-----------------------------------------------------------------------------
(* What a commit means *)

\* Numbers a node has committed are prepared there.
CommitsPrepared ==
    \A i \in Node : \A k \in 1..Len(committed[i]) :
        /\ Logged(i, committed[i][k])
        /\ requestLog[i][committed[i][k]].bPrepared

\* What is left of the comment at l.390, of which CommittedHasQuorum says too
\* much: they are logged by 2f different nodes.
CommittedHasLoggers ==
    \A i \in Node : \A k \in 1..Len(committed[i]) :
        Cardinality({j \in Node : Logged(j, committed[i][k])}) >= PrepareQuorum(N)

\* What is prepared stays so.
PreparedGrows ==
    \A i \in Node : \A n \in DOMAIN requestLog[i] :
        requestLog[i][n].bPrepared => n \in DOMAIN requestLog'[i] /\ requestLog'[i][n].bPrepared

\* The listener's steps keep what is prepared, and commit nothing else.
LEMMA ListenMessagesPrepared ==
    ASSUME TypeOK, NEW i \in Node, TakeMessage(i)
    PROVE  /\ PreparedGrows
           /\ \/ UNCHANGED committed
              \/ \E n \in DOMAIN requestLog[i] :
                    /\ requestLog[i][n].bPrepared
                    /\ committed' = [committed EXCEPT ![i] = Append(@, n)]
<1> DEFINE m == Head(dataQueue[i])
<1>1. LogType
  BY DEF TypeOK
<1> HIDE DEF m
<1>2. ASSUME NEW n, NEW e, requestLog' = LogWith(i, n, e),
             n \in DOMAIN requestLog[i] /\ requestLog[i][n].bPrepared => e.bPrepared
      PROVE  PreparedGrows
  BY <1>1, <1>2 DEF LogWith, LogType, PreparedGrows
<1>3. UNCHANGED requestLog => PreparedGrows
  BY DEF PreparedGrows
<1>4. CASE HandleCommonMessage(i, m) \/ HandleRequest(i, m) \/ HandleReply(i, m) \/ DropMessage(i, m)
  BY <1>3, <1>4 DEF HandleCommonMessage, HandleRequest, HandleReply, DropMessage, roundVars
<1>5. CASE HandlePrePrepare(i, m)
  <2>1. UNCHANGED committed
    BY <1>5 DEF HandlePrePrepare
  <2>2. UNCHANGED requestLog \/ (~Logged(i, m.n) /\ requestLog' = LogWith(i, m.n, NewEntry(m.request)))
    BY <1>5 DEF HandlePrePrepare
  <2> QED
    BY <1>2, <1>3, <2>1, <2>2 DEF Logged
<1>6. CASE HandlePrepare(i, m)
  <2>1. UNCHANGED committed
    BY <1>6 DEF HandlePrepare
  <2>2. m.n \in DOMAIN requestLog[i] /\ requestLog[i][m.n] \in LogEntry
    BY <1>1, <1>6 DEF HandlePrepare, AcceptsPrepare, Logged, LogType
  <2>3. PICK x \in LogEntry : x = requestLog[i][m.n]
    BY <2>2
  <2>4. \/ requestLog' = LogWith(i, m.n, [x EXCEPT !.prepares = x.prepares + 1])
        \/ requestLog' = LogWith(i, m.n, [x EXCEPT !.prepares = x.prepares + 1, !.bPrepared = TRUE])
    BY <1>6, <2>3 DEF HandlePrepare
  <2>5. /\ [x EXCEPT !.prepares = x.prepares + 1].bPrepared = x.bPrepared
        /\ [x EXCEPT !.prepares = x.prepares + 1, !.bPrepared = TRUE].bPrepared
    BY DEF LogEntry
  <2> QED
    BY <1>2, <2>1, <2>3, <2>4, <2>5
<1>7. CASE HandleCommit(i, m)
  <2>1. m.n \in DOMAIN requestLog[i] /\ requestLog[i][m.n] \in LogEntry /\ requestLog[i][m.n].bPrepared
    BY <1>1, <1>7 DEF HandleCommit, AcceptsCommit, Logged, LogType
  <2>2. PICK x \in LogEntry : x = requestLog[i][m.n]
    BY <2>1
  <2>3. requestLog' = LogWith(i, m.n, [x EXCEPT !.commits = x.commits + 1])
    BY <1>7, <2>2 DEF HandleCommit
  <2>4. [x EXCEPT !.commits = x.commits + 1].bPrepared = x.bPrepared
    BY DEF LogEntry
  <2>5. PreparedGrows
    BY <1>2, <2>2, <2>3, <2>4
  <2>6. UNCHANGED committed \/ committed' = [committed EXCEPT ![i] = Append(@, m.n)]
    BY <1>7 DEF HandleCommit, CommitRequest
  <2> QED
    BY <2>1, <2>5, <2>6
<1> QED
  BY <1>4, <1>5, <1>6, <1>7 DEF TakeMessage, m

\* A node commits what is prepared there, and so what 2f nodes have logged,
\* whichever COMMITs it counts and whatever is lost (l.378, l.395).
THEOREM CommitsArePrepared == Spec => [](CommitsPrepared /\ CommittedHasLoggers)
<1>1. Init => CommitsPrepared
  BY DEF Init, CommitsPrepared
<1>2. TypeOK /\ TypeOK' /\ CommitsPrepared /\ [Next]_vars => CommitsPrepared'
  <2> SUFFICES ASSUME TypeOK, TypeOK', CommitsPrepared, [Next]_vars
               PROVE  CommitsPrepared'
    OBVIOUS
  <2>1. CASE UNCHANGED <<requestLog, committed>>
    BY <2>1 DEF CommitsPrepared, Logged
  <2>2. ASSUME NEW i \in Node, TakeMessage(i)
        PROVE  CommitsPrepared'
    <3>1. /\ PreparedGrows
          /\ \/ UNCHANGED committed
             \/ \E n \in DOMAIN requestLog[i] :
                   /\ requestLog[i][n].bPrepared
                   /\ committed' = [committed EXCEPT ![i] = Append(@, n)]
      BY <2>2, ListenMessagesPrepared
    <3>2. committed \in [Node -> Seq(Nat)] /\ \A j \in Node : DOMAIN requestLog[j] \subseteq Nat
      BY DEF TypeOK, RoundType, LogType
    <3> SUFFICES ASSUME NEW j \in Node, NEW k \in 1..Len(committed'[j])
                 PROVE  /\ committed'[j][k] \in DOMAIN requestLog'[j]
                        /\ requestLog'[j][committed'[j][k]].bPrepared
      BY DEF CommitsPrepared, Logged
    <3>3. /\ committed'[j][k] \in DOMAIN requestLog[j]
          /\ requestLog[j][committed'[j][k]].bPrepared
      <4>1. CASE k \in 1..Len(committed[j]) /\ committed'[j][k] = committed[j][k]
        BY <4>1 DEF CommitsPrepared, Logged
      <4>2. CASE j = i /\ \E n \in DOMAIN requestLog[i] :
                             requestLog[i][n].bPrepared /\ committed'[j][k] = n
        BY <4>2
      <4>3. CASE committed'[j] = committed[j]
        BY <4>1, <4>3
      <4>4. CASE j = i /\ \E n \in DOMAIN requestLog[i] :
                             requestLog[i][n].bPrepared /\ committed'[i] = Append(committed[i], n)
        <5>1. PICK n \in DOMAIN requestLog[i] :
                 requestLog[i][n].bPrepared /\ committed'[i] = Append(committed[i], n)
          BY <4>4
        <5>2. /\ committed[i] \in Seq(Nat) /\ n \in Nat
              /\ k \in 1..Len(committed[i]) \/ k = Len(committed[i]) + 1
          BY <3>2, <4>4, <5>1
        <5>3. CASE k \in 1..Len(committed[i])
          BY <4>1, <4>4, <5>1, <5>2, <5>3
        <5>4. CASE k = Len(committed[i]) + 1
          BY <4>2, <4>4, <5>1, <5>2, <5>4
        <5> QED
          BY <5>2, <5>3, <5>4
      <4> QED
        BY <3>1, <3>2, <4>3, <4>4
    <3> QED
      BY <3>1, <3>3 DEF PreparedGrows
  <2>3. CASE UNCHANGED vars
    BY <2>1, <2>3 DEF vars, roundVars
  <2>4. ASSUME NEW i \in Node, SendCommonMessage(i) \/ AddNewBlock(i) \/ GoOnReplying(i) \/ Stop(i) \/ EndListener(i)
        PROVE  UNCHANGED <<requestLog, committed>>
    BY <2>4
       DEF SendCommonMessage, AddNewBlock, TestWaiting, TakeChunk, SetWaiting, LockResender,
           TestResender, StopWaiting, PostRequest, GoOnReplying, CompareReply, CountReply, AddReplied,
         ClearWaiting, Stop, EndListener, roundVars
  <2> QED
    BY <2>1, <2>2, <2>3, <2>4 DEF Next, ListenMessages
<1>3. CommitsPrepared /\ PreparedHasQuorum => CommittedHasLoggers
  BY DEF CommitsPrepared, PreparedHasQuorum, CommittedHasLoggers, Logged
<1> QED
  BY <1>1, <1>2, <1>3, TypeCorrect, PreparedWithQuorum, PTL DEF Spec

=============================================================================
