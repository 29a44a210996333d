--------------------------- MODULE PBFTOrderProofs ---------------------------
(***************************************************************************)
(* Theorems about PBFTNode while the network loses nothing: the total order*)
(* of its messages carries over to what the nodes decide.                  *)
(***************************************************************************)
EXTENDS PBFTNodeProofs, FiniteSetTheorems, WellFoundedInduction

\* No queue of a node that still listens is longer than a queue may be when it
\* takes a message: nothing is lost.
NoOverflow == \A i \in Node : listening[i] => Len(dataQueue[i]) <= NETWORK_BUFFER_SIZE

-----------------------------------------------------------------------------
(* The listener as a function *)

\* What a listener decides by, and what it has decided.
LocalState(i) == [state |-> state[i], log |-> requestLog[i], done |-> committed[i]]

TakesPrePrepare(l, m) ==
    /\ m.type = "PREPREPARE" /\ l.state = "PRE_PREPARE"
    /\ m.n \in DOMAIN l.log => l.log[m.n].request = m.request

TakesPrepare(l, m) == m.type = "PREPARE" /\ l.state = "PREPARE" /\ m.n \in DOMAIN l.log

TakesCommit(l, m) ==
    /\ m.type = "COMMIT" /\ l.state = "COMMIT" /\ m.n \in DOMAIN l.log
    /\ l.log[m.n].request = m.digest /\ l.log[m.n].bPrepared

LogPlus(log, n, e) == [m \in DOMAIN log \cup {n} |-> IF m = n THEN e ELSE log[m]]

AfterPrePrepare(l, m) ==
    [state |-> "PREPARE",
     log   |-> IF m.n \in DOMAIN l.log THEN l.log ELSE LogPlus(l.log, m.n, NewEntry(m.request)),
     done  |-> l.done]

AfterPrepare(l, m) ==
    LET e     == l.log[m.n]
        count == e.prepares + 1
    IN IF count < PrepareQuorum(N)
         THEN [state |-> l.state,
               log   |-> LogPlus(l.log, m.n, [e EXCEPT !.prepares = count]),
               done  |-> l.done]
         ELSE [state |-> "COMMIT",
               log   |-> LogPlus(l.log, m.n, [e EXCEPT !.prepares = count, !.bPrepared = TRUE]),
               done  |-> l.done]

AfterCommit(l, m) ==
    LET e     == l.log[m.n]
        count == e.commits + 1
        log   == LogPlus(l.log, m.n, [e EXCEPT !.commits = count])
    IN IF count < CommitQuorum(N)
         THEN [state |-> l.state, log |-> log, done |-> l.done]
         ELSE [state |-> "PRE_PREPARE", log |-> log, done |-> Append(l.done, m.n)]

\* One turn of the listener's loop: nothing in it depends on who the node is.
After(l, m) ==
    IF TakesPrePrepare(l, m) THEN AfterPrePrepare(l, m)
    ELSE IF TakesPrepare(l, m) THEN AfterPrepare(l, m)
    ELSE IF TakesCommit(l, m) THEN AfterCommit(l, m)
    ELSE l

\* LogWith changes one node's log.
LEMMA LogWithIsLogPlus ==
    ASSUME LogType, NEW i \in Node, NEW n, NEW e, requestLog' = LogWith(i, n, e)
    PROVE  /\ requestLog'[i] = LogPlus(requestLog[i], n, e)
           /\ \A j \in Node \ {i} : requestLog'[j] = requestLog[j]
  BY DEF LogType, LogWith, LogPlus

\* The fields of a local state.
LEMMA LocalFields ==
    ASSUME NEW i
    PROVE  /\ LocalState(i).state = state[i]
           /\ LocalState(i).log = requestLog[i]
           /\ LocalState(i).done = committed[i]
  BY DEF LocalState

\* A turn of the listener does what After says, and nothing to the other nodes.
LEMMA TurnIsAfter ==
    ASSUME TypeOK, NEW i \in Node, TakeMessage(i)
    PROVE  /\ LocalState(i)' = After(LocalState(i), Head(dataQueue[i]))
           /\ \A j \in Node \ {i} : LocalState(j)' = LocalState(j)
<1> DEFINE m == Head(dataQueue[i])
           l == LocalState(i)
<1>1. /\ LogType /\ state \in [Node -> {"PRE_PREPARE", "PREPARE", "COMMIT"}]
      /\ committed \in [Node -> Seq(Nat)] /\ requestLog[i] = requestLog[i]
  BY DEF TypeOK, RoundType
<1>2. l.state = state[i] /\ l.log = requestLog[i] /\ l.done = committed[i]
  BY LocalFields
<1>3. LocalState(i)' = [state |-> state'[i], log |-> requestLog'[i], done |-> committed'[i]]
  BY DEF LocalState
<1>4. l = [state |-> state[i], log |-> requestLog[i], done |-> committed[i]]
  BY DEF LocalState
<1> HIDE DEF m, l
<1>5. CASE /\ UNCHANGED <<state, requestLog, committed>>
           /\ ~TakesPrePrepare(l, m) /\ ~TakesPrepare(l, m) /\ ~TakesCommit(l, m)
  BY <1>3, <1>4, <1>5 DEF After, LocalState, m, l
<1>6. CASE HandleCommonMessage(i, m) \/ HandleRequest(i, m) \/ HandleReply(i, m)
  <2>1. m.type \notin {"PREPREPARE", "PREPARE", "COMMIT"} /\ UNCHANGED <<state, requestLog, committed>>
    BY <1>6 DEF HandleCommonMessage, HandleRequest, HandleReply, roundVars
  <2> QED
    BY <1>5, <2>1 DEF TakesPrePrepare, TakesPrepare, TakesCommit
<1>7. CASE DropMessage(i, m)
  <2>1. UNCHANGED <<state, requestLog, committed>>
    BY <1>7 DEF DropMessage, roundVars
  <2>2. ~TakesPrePrepare(l, m) /\ ~TakesPrepare(l, m) /\ ~TakesCommit(l, m)
    BY <1>2, <1>7
       DEF DropMessage, Accepts, AcceptsPrePrepare, AcceptsPrepare, AcceptsCommit, Logged,
           TakesPrePrepare, TakesPrepare, TakesCommit
  <2> QED
    BY <1>5, <2>1, <2>2
<1>8. CASE HandlePrePrepare(i, m)
  <2>1. TakesPrePrepare(l, m)
    BY <1>2, <1>8 DEF HandlePrePrepare, AcceptsPrePrepare, Logged, TakesPrePrepare
  <2>2. /\ state' = [state EXCEPT ![i] = "PREPARE"] /\ UNCHANGED committed
        /\ requestLog' = IF m.n \in DOMAIN requestLog[i]
                           THEN requestLog ELSE LogWith(i, m.n, NewEntry(m.request))
    BY <1>8 DEF HandlePrePrepare, Logged
  <2>3. /\ requestLog'[i] = AfterPrePrepare(l, m).log
        /\ \A j \in Node \ {i} : requestLog'[j] = requestLog[j]
    BY <1>1, <1>2, <2>2, LogWithIsLogPlus DEF AfterPrePrepare
  <2>4. LocalState(i)' = AfterPrePrepare(l, m)
    BY <1>1, <1>2, <1>3, <2>2, <2>3 DEF AfterPrePrepare
  <2> QED
    BY <1>1, <2>1, <2>2, <2>3, <2>4 DEF After, LocalState, m, l
<1>9. CASE HandlePrepare(i, m)
  <2> DEFINE e     == requestLog[i][m.n]
             count == e.prepares + 1
             below == [e EXCEPT !.prepares = count]
             full  == [e EXCEPT !.prepares = count, !.bPrepared = TRUE]
  <2>1. TakesPrepare(l, m) /\ ~TakesPrePrepare(l, m)
    BY <1>2, <1>9 DEF HandlePrepare, AcceptsPrepare, Logged, TakesPrepare, TakesPrePrepare
  <2>2. \/ /\ count < PrepareQuorum(N) /\ requestLog' = LogWith(i, m.n, below) /\ state' = state
        \/ /\ count >= PrepareQuorum(N) /\ requestLog' = LogWith(i, m.n, full)
           /\ state' = [state EXCEPT ![i] = "COMMIT"]
    BY <1>9 DEF HandlePrepare
  <2>3. UNCHANGED committed
    BY <1>9 DEF HandlePrepare
  <2>4. count \in Nat /\ PrepareQuorum(N) \in Int
    <3>1. e.prepares \in Nat
      BY <1>1, <1>2, <2>1 DEF TakesPrepare, LogType, LogEntry
    <3>2. N \in Nat
      BY NodeAssumption, FS_CardinalityType DEF N
    <3> QED
      BY <3>1, <3>2 DEF PrepareQuorum, FaultBound
  <2>5. \A j \in Node \ {i} : requestLog'[j] = requestLog[j] /\ state'[j] = state[j]
    BY <1>1, <2>2, LogWithIsLogPlus
  <2>6. LocalState(i)' = AfterPrepare(l, m)
    <3>1. CASE /\ count < PrepareQuorum(N) /\ requestLog' = LogWith(i, m.n, below)
               /\ state' = state
      <4>0. PICK x : x = below
        OBVIOUS
      <4>1. requestLog'[i] = LogPlus(requestLog[i], m.n, x)
        <5>1. requestLog' = LogWith(i, m.n, x)
          BY <3>1, <4>0
        <5> QED
          BY <1>1, <5>1, LogWithIsLogPlus
      <4>2. l.log[m.n].prepares + 1 < PrepareQuorum(N)
        BY <1>2, <3>1
      <4>3. state'[i] = l.state /\ committed'[i] = l.done
        BY <1>2, <2>3, <3>1
      <4> QED
        BY <1>2, <1>3, <4>0, <4>1, <4>2, <4>3 DEF AfterPrepare
    <3>2. CASE /\ count >= PrepareQuorum(N) /\ requestLog' = LogWith(i, m.n, full)
               /\ state' = [state EXCEPT ![i] = "COMMIT"]
      <4>0. PICK x : x = full
        OBVIOUS
      <4>1. requestLog'[i] = LogPlus(requestLog[i], m.n, x)
        <5>1. requestLog' = LogWith(i, m.n, x)
          BY <3>2, <4>0
        <5> QED
          BY <1>1, <5>1, LogWithIsLogPlus
      <4>2. ~(l.log[m.n].prepares + 1 < PrepareQuorum(N))
        BY <1>2, <2>4, <3>2
      <4>3. state'[i] = "COMMIT"
        BY <1>1, <3>2
      <4> QED
        BY <1>2, <1>3, <2>3, <4>0, <4>1, <4>2, <4>3 DEF AfterPrepare
    <3> QED
      BY <2>2, <3>1, <3>2
  <2> QED
    BY <2>1, <2>3, <2>5, <2>6 DEF After, LocalState, m, l
<1>10. CASE HandleCommit(i, m)
  <2> DEFINE e     == requestLog[i][m.n]
             count == e.commits + 1
             c     == [e EXCEPT !.commits = count]
  <2>1. TakesCommit(l, m) /\ ~TakesPrePrepare(l, m) /\ ~TakesPrepare(l, m)
    BY <1>2, <1>10
       DEF HandleCommit, AcceptsCommit, Logged, TakesCommit, TakesPrePrepare, TakesPrepare
  <2>2. PICK x : x = c
    OBVIOUS
  <2>3. /\ requestLog'[i] = LogPlus(requestLog[i], m.n, x)
        /\ \A j \in Node \ {i} : requestLog'[j] = requestLog[j]
    <3>1. requestLog' = LogWith(i, m.n, x)
      BY <1>10, <2>2 DEF HandleCommit
    <3> QED
      BY <1>1, <3>1, LogWithIsLogPlus
  <2>4. \/ count < CommitQuorum(N) /\ UNCHANGED <<state, committed>>
        \/ /\ count >= CommitQuorum(N)
           /\ state' = [state EXCEPT ![i] = "PRE_PREPARE"]
           /\ committed' = [committed EXCEPT ![i] = Append(@, m.n)]
    BY <1>10 DEF HandleCommit, CommitRequest, EndRound
  <2>5. count \in Nat /\ CommitQuorum(N) \in Int
    <3>1. e.commits \in Nat
      BY <1>1, <1>2, <2>1 DEF TakesCommit, LogType, LogEntry
    <3>2. N \in Nat
      BY NodeAssumption, FS_CardinalityType DEF N
    <3> QED
      BY <3>1, <3>2 DEF CommitQuorum, FaultBound
  <2>6. \A j \in Node \ {i} : state'[j] = state[j] /\ committed'[j] = committed[j]
    BY <1>1, <2>4
  <2>7. LocalState(i)' = AfterCommit(l, m)
    <3>1. CASE count < CommitQuorum(N) /\ UNCHANGED <<state, committed>>
      BY <1>2, <1>3, <2>2, <2>3, <3>1 DEF AfterCommit
    <3>2. CASE /\ count >= CommitQuorum(N)
               /\ state' = [state EXCEPT ![i] = "PRE_PREPARE"]
               /\ committed' = [committed EXCEPT ![i] = Append(@, m.n)]
      <4>1. ~(l.log[m.n].commits + 1 < CommitQuorum(N))
        BY <1>2, <2>5, <3>2
      <4>2. state'[i] = "PRE_PREPARE" /\ committed'[i] = Append(l.done, m.n)
        BY <1>1, <1>2, <3>2
      <4> QED
        BY <1>2, <1>3, <2>2, <2>3, <4>1, <4>2 DEF AfterCommit
    <3> QED
      BY <2>4, <3>1, <3>2
  <2>8. After(l, m) = AfterCommit(l, m)
    BY <2>1 DEF After
  <2>9. \A j \in Node \ {i} : LocalState(j)' = LocalState(j)
    BY <2>3, <2>6 DEF LocalState
  <2> QED
    BY <2>7, <2>8, <2>9 DEF m, l
<1> QED
  BY <1>6, <1>7, <1>8, <1>9, <1>10 DEF TakeMessage, m, l

\* A set of naturals has a least element.
LEMMA LeastNatural ==
    ASSUME NEW S \in SUBSET Nat, S # {}
    PROVE  \E t \in S : \A u \in S : t <= u
<1>1. PICK t \in S : \A u \in S : ~(<<u, t>> \in OpToRel(<, Nat))
  BY WFMin, NatLessThanWellFounded, Zenon
<1>2. \A u \in S : ~(u < t)
  BY <1>1 DEF OpToRel
<1> QED
  BY <1>2

-----------------------------------------------------------------------------
(* The run of a listener *)

Fresh == [state |-> "PRE_PREPARE", log |-> NoEntries, done |-> <<>>]

IsLocal(l) ==
    /\ l.state \in {"PRE_PREPARE", "PREPARE", "COMMIT"}
    /\ DOMAIN l.log \subseteq Nat /\ \A n \in DOMAIN l.log : l.log[n] \in LogEntry
    /\ l.done \in Seq(Nat)

\* h is every message posted, in the order of posting, and r the run of a
\* listener that handles them all.
Run(h, r) ==
    /\ h \in Seq(Message)
    /\ r[0] = Fresh
    /\ \A k \in 1..Len(h) : r[k] = After(r[k - 1], h[k])

\* Sequence t begins with sequence s.
Extends(t, s) == Len(s) <= Len(t) /\ \A k \in 1..Len(s) : t[k] = s[k]

\* The numbers a listener waits for.
LEMMA Quorums ==
    /\ N \in Nat /\ PrepareQuorum(N) \in Nat /\ CommitQuorum(N) \in Nat
    /\ 1 <= CommitQuorum(N) /\ CommitQuorum(N) <= PrepareQuorum(N)
<1>1. N \in Nat /\ N >= 2
  BY NodeAssumption, FS_CardinalityType DEF N
<1> QED
  BY <1>1 DEF PrepareQuorum, CommitQuorum, FaultBound

\* A log with an entry more is a log.
LEMMA LogPlusType ==
    ASSUME NEW log, DOMAIN log \subseteq Nat, \A n \in DOMAIN log : log[n] \in LogEntry,
           NEW n \in Nat, NEW e \in LogEntry
    PROVE  /\ DOMAIN LogPlus(log, n, e) \subseteq Nat
           /\ \A m \in DOMAIN LogPlus(log, n, e) : LogPlus(log, n, e)[m] \in LogEntry
<1>1. PICK f : f = LogPlus(log, n, e)
  OBVIOUS
<1>2. f = [m \in DOMAIN log \cup {n} |-> IF m = n THEN e ELSE log[m]]
  BY <1>1 DEF LogPlus
<1>3. DOMAIN f \subseteq Nat /\ \A m \in DOMAIN f : f[m] \in LogEntry
  BY <1>2
<1> QED
  BY <1>1, <1>3

\* Handling a message keeps a local state one.
LEMMA AfterIsLocal ==
    ASSUME NEW l, IsLocal(l), NEW m \in Message
    PROVE  IsLocal(After(l, m))
<1>1. CASE TakesPrePrepare(l, m)
  <2>1. m.n \in Nat /\ m.request \in Request
    BY <1>1, MessageFields DEF TakesPrePrepare
  <2>2. NewEntry(m.request) \in LogEntry
    BY <2>1 DEF NewEntry, LogEntry
  <2>3. PICK e : e = NewEntry(m.request)
    OBVIOUS
  <2>4. After(l, m) = AfterPrePrepare(l, m)
    BY <1>1 DEF After
  <2>5. AfterPrePrepare(l, m).log \in {l.log, LogPlus(l.log, m.n, e)}
    BY <2>3 DEF AfterPrePrepare
  <2>6. /\ DOMAIN LogPlus(l.log, m.n, e) \subseteq Nat
        /\ \A n \in DOMAIN LogPlus(l.log, m.n, e) : LogPlus(l.log, m.n, e)[n] \in LogEntry
    BY <2>1, <2>2, <2>3, LogPlusType DEF IsLocal
  <2>7. AfterPrePrepare(l, m).state = "PREPARE" /\ AfterPrePrepare(l, m).done = l.done
    BY DEF AfterPrePrepare
  <2> QED
    BY <2>4, <2>5, <2>6, <2>7 DEF IsLocal
<1>2. CASE TakesPrepare(l, m) /\ ~TakesPrePrepare(l, m)
  <2>1. m.n \in DOMAIN l.log /\ l.log[m.n] \in LogEntry
    BY <1>2 DEF TakesPrepare, IsLocal
  <2>2. PICK e \in LogEntry : e = [l.log[m.n] EXCEPT !.prepares = l.log[m.n].prepares + 1]
    BY <2>1, LogEntryUpdates
  <2>3. PICK e2 \in LogEntry :
              e2 = [l.log[m.n] EXCEPT !.prepares = l.log[m.n].prepares + 1, !.bPrepared = TRUE]
    BY <2>1, LogEntryUpdates
  <2>4. After(l, m) = AfterPrepare(l, m)
    BY <1>2 DEF After
  <2>5. /\ AfterPrepare(l, m).log \in {LogPlus(l.log, m.n, e), LogPlus(l.log, m.n, e2)}
        /\ AfterPrepare(l, m).state \in {l.state, "COMMIT"} /\ AfterPrepare(l, m).done = l.done
    BY <2>2, <2>3 DEF AfterPrepare
  <2>6. ASSUME NEW x \in LogEntry
        PROVE  /\ DOMAIN LogPlus(l.log, m.n, x) \subseteq Nat
               /\ \A n \in DOMAIN LogPlus(l.log, m.n, x) : LogPlus(l.log, m.n, x)[n] \in LogEntry
    BY <2>1, LogPlusType DEF IsLocal
  <2> QED
    BY <2>4, <2>5, <2>6 DEF IsLocal
<1>3. CASE TakesCommit(l, m) /\ ~TakesPrePrepare(l, m) /\ ~TakesPrepare(l, m)
  <2>1. m.n \in DOMAIN l.log /\ l.log[m.n] \in LogEntry
    BY <1>3 DEF TakesCommit, IsLocal
  <2>2. PICK e \in LogEntry : e = [l.log[m.n] EXCEPT !.commits = l.log[m.n].commits + 1]
    BY <2>1, LogEntryUpdates
  <2>3. After(l, m) = AfterCommit(l, m)
    BY <1>3 DEF After
  <2>4. /\ AfterCommit(l, m).log = LogPlus(l.log, m.n, e)
        /\ AfterCommit(l, m).state \in {l.state, "PRE_PREPARE"}
        /\ AfterCommit(l, m).done \in {l.done, Append(l.done, m.n)}
    BY <2>2 DEF AfterCommit
  <2>5. /\ DOMAIN LogPlus(l.log, m.n, e) \subseteq Nat
        /\ \A n \in DOMAIN LogPlus(l.log, m.n, e) : LogPlus(l.log, m.n, e)[n] \in LogEntry
    BY <2>1, LogPlusType DEF IsLocal
  <2>6. Append(l.done, m.n) \in Seq(Nat)
    BY <2>1 DEF IsLocal
  <2> QED
    BY <2>3, <2>4, <2>5, <2>6 DEF IsLocal
<1>4. CASE ~TakesPrePrepare(l, m) /\ ~TakesPrepare(l, m) /\ ~TakesCommit(l, m)
  BY <1>4 DEF After
<1> QED
  BY <1>1, <1>2, <1>3, <1>4

\* Everything on a run is a local state.
LEMMA RunIsLocal ==
    ASSUME NEW h, NEW r, Run(h, r), NEW p \in 0..Len(h)
    PROVE  IsLocal(r[p])
<1> DEFINE S == {k \in 0..Len(h) : ~IsLocal(r[k])}
<1>0. Len(h) \in Nat
  BY DEF Run
<1> SUFFICES ASSUME S # {} PROVE FALSE
  OBVIOUS
<1>1. S \subseteq Nat
  BY <1>0
<1>2. PICK k \in S : \A u \in S : k <= u
  <2> HIDE DEF S
  <2> QED
    BY <1>1, LeastNatural
<1>3. IsLocal(Fresh)
  <2>1. <<>> \in Seq(Nat) /\ DOMAIN NoEntries = {}
    BY EmptySeq DEF NoEntries
  <2> QED
    BY <2>1 DEF IsLocal, Fresh
<1>4. k # 0
  BY <1>2, <1>3 DEF Run
<1>5. k \in 1..Len(h) /\ k - 1 \in 0..Len(h) /\ k - 1 < k
  BY <1>0, <1>2, <1>4
<1>6. k - 1 \notin S
  BY <1>1, <1>2, <1>5
<1>7. IsLocal(r[k - 1]) /\ h[k] \in Message /\ r[k] = After(r[k - 1], h[k])
  BY <1>5, <1>6 DEF Run
<1> QED
  BY <1>2, <1>7, AfterIsLocal

\* Commits are appended.
LEMMA AfterExtends ==
    ASSUME NEW l, IsLocal(l), NEW m \in Message
    PROVE  Extends(After(l, m).done, l.done)
<1>1. Extends(l.done, l.done)
  BY DEF Extends, IsLocal
<1>2. CASE TakesCommit(l, m) /\ After(l, m) = AfterCommit(l, m)
  <2>1. m.n \in Nat /\ l.done \in Seq(Nat)
    BY <1>2, MessageFields DEF TakesCommit, IsLocal
  <2>2. After(l, m).done = l.done \/ After(l, m).done = Append(l.done, m.n)
    BY <1>2 DEF AfterCommit
  <2>3. Extends(Append(l.done, m.n), l.done)
    BY <2>1 DEF Extends
  <2> QED
    BY <1>1, <2>2, <2>3
<1>3. CASE After(l, m).done = l.done
  BY <1>1, <1>3
<1> QED
  BY <1>2, <1>3 DEF After, AfterPrePrepare, AfterPrepare

\* What a run has committed it keeps.
LEMMA RunExtends ==
    ASSUME NEW h, NEW r, Run(h, r), NEW p \in 0..Len(h), NEW a \in 0..p
    PROVE  Extends(r[p].done, r[a].done)
<1> DEFINE S == {k \in a..Len(h) : ~Extends(r[k].done, r[a].done)}
<1>0. Len(h) \in Nat /\ a \in 0..Len(h) /\ p \in a..Len(h)
  BY DEF Run
<1> SUFFICES ASSUME S # {} PROVE FALSE
  BY <1>0
<1>1. S \subseteq Nat
  BY <1>0
<1>2. PICK k \in S : \A u \in S : k <= u
  <2> HIDE DEF S
  <2> QED
    BY <1>1, LeastNatural
<1>3. k # a
  BY <1>0, <1>2, RunIsLocal DEF Extends, IsLocal
<1>4. k \in 1..Len(h) /\ k - 1 \in a..Len(h) /\ k - 1 < k /\ k - 1 \in 0..Len(h) /\ k \in 0..Len(h)
  BY <1>0, <1>2, <1>3
<1>5. k - 1 \notin S
  BY <1>1, <1>2, <1>4
<1>6. /\ Extends(r[k - 1].done, r[a].done) /\ h[k] \in Message /\ r[k] = After(r[k - 1], h[k])
      /\ IsLocal(r[k - 1]) /\ IsLocal(r[k]) /\ IsLocal(r[a])
  BY <1>0, <1>4, <1>5, RunIsLocal DEF Run
<1>7. Extends(r[k].done, r[k - 1].done)
  BY <1>6, AfterExtends
<1>8. /\ r[k].done \in Seq(Nat) /\ r[k - 1].done \in Seq(Nat) /\ r[a].done \in Seq(Nat)
  BY <1>6 DEF IsLocal
<1>9. \A s, t, u \in Seq(Nat) : Extends(t, s) /\ Extends(u, t) => Extends(u, s)
  BY DEF Extends
<1>10. Extends(r[k].done, r[a].done)
  BY <1>6, <1>7, <1>8, <1>9
<1> QED
  BY <1>2, <1>10

-----------------------------------------------------------------------------
(* What a step does to queues and local states *)

\* q2 is q, with message m at its end if c is 1.
Grown(q, q2, c, m) ==
    /\ c \in {0, 1} /\ q2 \in Seq(Message) /\ Len(q2) = Len(q) + c
    /\ \A k \in 1..Len(q) : q2[k] = q[k]
    /\ c = 1 => q2[Len(q) + 1] = m

\* The queues of listening nodes get the same message, or none.
AllGrown(queues, c, m) ==
    /\ c \in {0, 1} /\ (c = 1 => m \in Message)
    /\ \A j \in Node : listening[j] => Grown(queues[j], dataQueue'[j], c, m)

\* Node i, at local state l, answers message x by the next phase's message m.
Answers(i, l, x, c, m) ==
    /\ TakesPrePrepare(l, x) => c = 1 /\ m = PrepareMsg(i, x.n, x.request)
    /\ TakesPrepare(l, x) /\ After(l, x).state = "COMMIT" =>
          c = 1 /\ m = CommitMsg(i, x.n, l.log[x.n].request)

SameLocalStates == \A j \in Node : LocalState(j)' = LocalState(j)

\* The listener of i handles a message.
TurnStep(i, c, m) ==
    /\ listening[i] /\ dataQueue[i] # <<>> /\ UNCHANGED listening
    /\ LocalState(i)' = After(LocalState(i), Head(dataQueue[i]))
    /\ \A j \in Node \ {i} : LocalState(j)' = LocalState(j)
    /\ AllGrown(GetData(i), c, m)
    /\ Answers(i, LocalState(i), Head(dataQueue[i]), c, m)

\* Another thread posts or does not.
ThreadStep(c, m) == UNCHANGED listening /\ SameLocalStates /\ AllGrown(dataQueue, c, m)

\* The listener of i leaves.
LeavingStep(i) ==
    /\ listening[i] /\ listening' = [listening EXCEPT ![i] = FALSE]
    /\ SameLocalStates
    /\ \A j \in Node \ {i} : dataQueue'[j] = dataQueue[j]

\* If nothing is posted, queues grow by nothing; if a message is, by it.
LEMMA PostGrows ==
    ASSUME NEW queues \in Queues,
           \A j \in Node : listening[j] => Len(queues[j]) <= NETWORK_BUFFER_SIZE
    PROVE  /\ dataQueue' = queues => \A m : AllGrown(queues, 0, m)
           /\ \A m \in Message : dataQueue' = PostData(queues, m) => AllGrown(queues, 1, m)
<1>1. \A j \in Node : queues[j] \in Seq(Message) /\ Len(queues[j]) \in Nat
  BY DEF Queues
<1>2. ASSUME dataQueue' = queues, NEW m
      PROVE  AllGrown(queues, 0, m)
  BY <1>1, <1>2 DEF AllGrown, Grown
<1>3. ASSUME NEW m \in Message, dataQueue' = PostData(queues, m), NEW j \in Node, listening[j]
      PROVE  Grown(queues[j], dataQueue'[j], 1, m)
  <2>1. dataQueue'[j] = Append(queues[j], m)
    BY <1>3 DEF PostData
  <2> QED
    BY <1>1, <2>1 DEF Grown
<1> QED
  BY <1>2, <1>3 DEF AllGrown

\* Handling a message keeps queues short enough.
LEMMA GetDataShortens ==
    ASSUME dataQueue \in Queues, NoOverflow, NEW i \in Node, dataQueue[i] # <<>>
    PROVE  \A j \in Node : listening[j] => Len(GetData(i)[j]) <= NETWORK_BUFFER_SIZE
<1> SUFFICES ASSUME NEW j \in Node, listening[j]
             PROVE  Len(GetData(i)[j]) <= NETWORK_BUFFER_SIZE
  OBVIOUS
<1>1. Len(dataQueue[j]) <= NETWORK_BUFFER_SIZE /\ dataQueue[j] \in Seq(Message)
  BY DEF NoOverflow, Queues
<1>2. CASE j = i
  <2>1. GetData(i)[j] = Tail(dataQueue[j]) /\ dataQueue[j] # <<>>
    BY <1>2 DEF GetData, Queues
  <2>2. Len(Tail(dataQueue[j])) = Len(dataQueue[j]) - 1 /\ Len(dataQueue[j]) \in Nat
    BY <1>1, <2>1
  <2> QED
    BY <1>1, <2>1, <2>2, SizeAssumption
<1>3. CASE j # i
  BY <1>1, <1>3 DEF GetData, Queues
<1> QED
  BY <1>2, <1>3

\* A turn of the listener.
LEMMA ListenMessagesIsTurn ==
    ASSUME TypeOK, NoOverflow, NEW i \in Node, TakeMessage(i)
    PROVE  \E c, m : TurnStep(i, c, m)
<1> DEFINE x == Head(dataQueue[i])
           l == LocalState(i)
<1>1. /\ dataQueue \in Queues /\ dataQueue[i] # <<>> /\ LogType
      /\ listening[i] /\ UNCHANGED listening
  BY DEF TakeMessage, TypeOK, NetType, Queues, HandleCommonMessage, HandleRequest, HandleReply,
         HandlePrePrepare, HandlePrepare, HandleCommit, DropMessage, stopVars
<1>2. x \in Message /\ GetData(i) \in Queues
  BY <1>1, GetDataType
<1>3. \A j \in Node : listening[j] => Len(GetData(i)[j]) <= NETWORK_BUFFER_SIZE
  BY <1>1, GetDataShortens
<1>4. /\ LocalState(i)' = After(l, x)
      /\ \A j \in Node \ {i} : LocalState(j)' = LocalState(j)
  BY TurnIsAfter
<1>5. /\ l.state = state[i] /\ l.log = requestLog[i] /\ After(l, x).state = state'[i]
      /\ state \in [Node -> {"PRE_PREPARE", "PREPARE", "COMMIT"}]
  <2>1. LocalState(i)'.state = state'[i]
    BY DEF LocalState
  <2> QED
    BY <1>4, <2>1, LocalFields DEF TypeOK, RoundType
<1> HIDE DEF x, l
<1>6. SUFFICES \E c, m : AllGrown(GetData(i), c, m) /\ Answers(i, l, x, c, m)
  <2>1. ASSUME NEW c, NEW m, AllGrown(GetData(i), c, m), Answers(i, l, x, c, m)
        PROVE  TurnStep(i, c, m)
    BY <1>1, <1>4, <2>1 DEF TurnStep, l, x
  <2> QED
    BY <2>1
<1>7. CASE dataQueue' = GetData(i) /\ ~TakesPrePrepare(l, x) /\ (TakesPrepare(l, x) => state'[i] # "COMMIT")
  <2>1. AllGrown(GetData(i), 0, x)
    BY <1>2, <1>3, <1>7, PostGrows
  <2> QED
    BY <1>5, <1>7, <2>1 DEF Answers
<1>8. ASSUME NEW m \in Message, dataQueue' = PostData(GetData(i), m), Answers(i, l, x, 1, m)
      PROVE  \E c, y : AllGrown(GetData(i), c, y) /\ Answers(i, l, x, c, y)
  BY <1>2, <1>3, <1>8, PostGrows
<1>9. ASSUME x.type \notin {"PREPREPARE", "PREPARE"}
      PROVE  /\ ~TakesPrePrepare(l, x) /\ ~TakesPrepare(l, x)
             /\ \A c, m : Answers(i, l, x, c, m)
  BY <1>9 DEF TakesPrePrepare, TakesPrepare, Answers
<1>10. CASE HandleCommonMessage(i, x) \/ HandleReply(i, x)
  BY <1>7, <1>9, <1>10 DEF HandleCommonMessage, HandleReply
<1>11. CASE DropMessage(i, x)
  <2>1. dataQueue' = GetData(i)
    BY <1>11 DEF DropMessage
  <2>2. ~TakesPrePrepare(l, x) /\ ~TakesPrepare(l, x)
    BY <1>5, <1>11
       DEF DropMessage, Accepts, AcceptsPrePrepare, AcceptsPrepare, Logged, TakesPrePrepare, TakesPrepare
  <2> QED
    BY <1>7, <2>1, <2>2
<1>12. CASE HandleRequest(i, x)
  <2>1. x.request \in Request /\ uiCurrentRequestNumber[i] \in Nat /\ x.type = "REQUEST"
    BY <1>2, <1>12, MessageFields DEF HandleRequest, TypeOK, RoundType
  <2>2. PrePrepareMsg(uiCurrentRequestNumber[i], x.request) \in Message
    BY <2>1, MessageTypes
  <2> QED
    BY <1>8, <1>9, <1>12, <2>1, <2>2 DEF HandleRequest
<1>13. CASE HandlePrePrepare(i, x)
  <2>1. PrepareMsg(i, x.n, x.request) \in Message
    BY <1>2, <1>13, MessageFields, MessageTypes DEF HandlePrePrepare
  <2>2. x.type = "PREPREPARE" /\ dataQueue' = PostData(GetData(i), PrepareMsg(i, x.n, x.request))
    BY <1>13 DEF HandlePrePrepare
  <2>3. Answers(i, l, x, 1, PrepareMsg(i, x.n, x.request))
    BY <2>2 DEF Answers, TakesPrepare
  <2> QED
    BY <1>8, <2>1, <2>2, <2>3
<1>14. CASE HandlePrepare(i, x)
  <2> DEFINE m == CommitMsg(i, x.n, requestLog[i][x.n].request)
  <2>1. m \in Message
    <3>1. x.n \in Nat /\ requestLog[i][x.n] \in LogEntry
      BY <1>1, <1>2, <1>14, MessageFields DEF HandlePrepare, AcceptsPrepare, Logged, LogType
    <3> QED
      BY <3>1, LogEntryUpdates, MessageTypes
  <2>2. /\ x.type = "PREPARE" /\ state[i] = "PREPARE"
        /\ \/ dataQueue' = GetData(i) /\ state' = state
           \/ dataQueue' = PostData(GetData(i), m)
    BY <1>14 DEF HandlePrepare, AcceptsPrepare
  <2>3. ~TakesPrePrepare(l, x) /\ Answers(i, l, x, 1, m)
    BY <1>5, <2>2 DEF TakesPrePrepare, Answers
  <2>4. CASE dataQueue' = GetData(i) /\ state' = state
    BY <1>7, <2>2, <2>3, <2>4
  <2> HIDE DEF m
  <2> QED
    BY <1>8, <2>1, <2>2, <2>3, <2>4
<1>15. CASE HandleCommit(i, x)
  <2>1. ReplyMsg(i, requestLog[i][x.n].request) \in Message
    <3>1. x.n \in Nat /\ requestLog[i][x.n] \in LogEntry
      BY <1>1, <1>2, <1>15, MessageFields DEF HandleCommit, AcceptsCommit, Logged, LogType
    <3> QED
      BY <3>1, LogEntryUpdates, MessageTypes
  <2>2. /\ x.type = "COMMIT"
        /\ \/ dataQueue' = GetData(i)
           \/ dataQueue' = PostData(GetData(i), ReplyMsg(i, requestLog[i][x.n].request))
    BY <1>15 DEF HandleCommit, CommitRequest
  <2> QED
    BY <1>7, <1>8, <1>9, <2>1, <2>2
<1> QED
  BY <1>10, <1>11, <1>12, <1>13, <1>14, <1>15 DEF TakeMessage, x

\* The steps of the other threads.
LEMMA OtherStepsAreThreadSteps ==
    ASSUME TypeOK, NoOverflow, NEW i \in Node,
           SendCommonMessage(i) \/ AddNewBlock(i) \/ GoOnReplying(i) \/ Stop(i)
    PROVE  \E c, m : ThreadStep(c, m)
<1>1. dataQueue \in Queues
  BY DEF TypeOK, NetType, Queues
<1>2. UNCHANGED <<state, requestLog, committed, listening>>
  BY DEF SendCommonMessage, AddNewBlock, TestWaiting, TakeChunk, SetWaiting, LockResender,
         TestResender, StopWaiting, PostRequest, GoOnReplying, CompareReply, CountReply, AddReplied,
         ClearWaiting, Stop, roundVars, stopVars
<1>3. \E c, m : AllGrown(dataQueue, c, m)
  <2>1. CASE SendCommonMessage(i)
    <3>1. sent + 1 \in Tx
      BY <2>1, SizeAssumption DEF SendCommonMessage, TypeOK, NetType, Tx
    <3>2. CommonMsg(sent + 1) \in Message
      BY <3>1, MessageTypes
    <3> QED
      BY <1>1, <2>1, <3>2, PostGrows DEF SendCommonMessage, NoOverflow
  <2>2. CASE PostRequest(i)
    <3> DEFINE r == [client |-> i, block |-> resender[i].block]
    <3>1. r \in Request
      BY <2>2, ValueTypes DEF PostRequest, TypeOK, ThreadType, Request
    <3>2. RequestMsg(r) \in Message
      BY <3>1, MessageTypes
    <3>3. dataQueue' = PostData(dataQueue, RequestMsg(r))
      BY <2>2 DEF PostRequest
    <3> QED
      BY <1>1, <3>2, <3>3, PostGrows DEF NoOverflow
  <2>3. CASE UNCHANGED dataQueue
    BY <1>1, <2>3, PostGrows DEF NoOverflow
  <2> QED
    BY <2>1, <2>2, <2>3
       DEF AddNewBlock, TestWaiting, TakeChunk, SetWaiting, LockResender, TestResender,
           StopWaiting, GoOnReplying, CompareReply, CountReply, AddReplied, ClearWaiting, Stop,
           netVars
<1>4. SameLocalStates
  BY <1>2 DEF SameLocalStates, LocalState
<1> QED
  BY <1>2, <1>3, <1>4 DEF ThreadStep

\* A listener's end.
LEMMA EndListenerIsLeavingStep ==
    ASSUME TypeOK, NEW i \in Node, EndListener(i)
    PROVE  LeavingStep(i)
<1>1. /\ listening[i] /\ listening' = [listening EXCEPT ![i] = FALSE]
      /\ dataQueue' = dataQueue \/ dataQueue' = GetData(i)
      /\ UNCHANGED <<state, requestLog, committed>>
  BY DEF EndListener, roundVars
<1>2. SameLocalStates
  BY <1>1 DEF SameLocalStates, LocalState
<1>3. \A j \in Node \ {i} : dataQueue'[j] = dataQueue[j]
  BY <1>1 DEF GetData, TypeOK, NetType
<1> QED
  BY <1>1, <1>2, <1>3 DEF LeavingStep

\* Every step is of one of the three kinds.
LEMMA StepKinds ==
    ASSUME TypeOK, NoOverflow, [Next]_vars
    PROVE  \/ \E i \in Node : \E c, m : TurnStep(i, c, m)
           \/ \E c, m : ThreadStep(c, m)
           \/ \E i \in Node : LeavingStep(i)
<1>1. dataQueue \in Queues
  BY DEF TypeOK, NetType, Queues
<1>2. CASE UNCHANGED vars
  <2>1. UNCHANGED <<dataQueue, state, requestLog, committed, listening>>
    BY <1>2 DEF vars, netVars, roundVars, stopVars
  <2>2. \E c, m : AllGrown(dataQueue, c, m)
    BY <1>1, <2>1, PostGrows DEF NoOverflow
  <2> QED
    BY <2>1, <2>2 DEF ThreadStep, SameLocalStates, LocalState
<1> QED
  BY <1>2, ListenMessagesIsTurn, OtherStepsAreThreadSteps, EndListenerIsLeavingStep DEF Next, ListenMessages

-----------------------------------------------------------------------------
(* All nodes are at places of one run *)

\* How many messages of h a node has handled that has those of q before it.
Place(h, q) == Len(h) - Len(q)

\* A node with queue q is at local state l: it has handled all of h but q.
OnRun(h, r, q, l) ==
    /\ Len(q) <= Len(h)
    /\ \A k \in 1..Len(q) : q[k] = h[Place(h, q) + k]
    /\ l = r[Place(h, q)]

\* What has brought node i to a next phase, among the first p messages, has its
\* answer later in h.
Answered(h, r, i, p) ==
    \A k \in 1..p :
        /\ TakesPrePrepare(r[k - 1], h[k]) =>
              \E a \in (k + 1)..Len(h) : h[a] = PrepareMsg(i, h[k].n, h[k].request)
        /\ TakesPrepare(r[k - 1], h[k]) /\ r[k].state = "COMMIT" =>
              \E a \in (k + 1)..Len(h) : h[a] = CommitMsg(i, h[k].n, r[k - 1].log[h[k].n].request)

InHistory(h, r) ==
    /\ Run(h, r)
    /\ \A i \in Node : listening[i] =>
          /\ OnRun(h, r, dataQueue[i], LocalState(i))
          /\ Answered(h, r, i, Place(h, dataQueue[i]))
    /\ \A i \in Node : ~listening[i] => \E p \in 0..Len(h) : LocalState(i) = r[p]

OneRun == \E h, r : InHistory(h, r)

\* One more message for the run, if c is 1.
RunGrown(h, r, h2, r2, c, m) ==
    Run(h2, r2) /\ Grown(h, h2, c, m) /\ \A k \in 0..Len(h) : r2[k] = r[k]

\* A message is posted, or not.
LEMMA RunGrows ==
    ASSUME NEW h, NEW r, Run(h, r), NEW c \in {0, 1}, NEW m, c = 1 => m \in Message
    PROVE  \E h2, r2 : RunGrown(h, r, h2, r2, c, m)
<1>1. h \in Seq(Message) /\ Len(h) \in Nat
  BY DEF Run
<1>2. CASE c = 0
  BY <1>1, <1>2 DEF Grown, RunGrown
<1>3. CASE c = 1
  <2>0. m \in Message
    BY <1>3
  <2> DEFINE n  == Len(h) + 1
             r2 == [k \in 0..n |-> IF k = n THEN After(r[Len(h)], m) ELSE r[k]]
  <2>1. PICK h2 \in Seq(Message) : h2 = Append(h, m)
    <3>1. Append(h, m) \in Seq(Message)
      BY <1>1, <2>0
    <3> QED
      BY <3>1
  <2>2. Len(h2) = n /\ h2[n] = m /\ \A k \in 1..Len(h) : h2[k] = h[k]
    BY <1>1, <1>3, <2>1
  <2>3. \A k \in 0..Len(h) : r2[k] = r[k]
    BY <1>1
  <2>4. ASSUME NEW k \in 1..n
        PROVE  r2[k] = After(r2[k - 1], h2[k])
    <3>1. CASE k = n
      BY <1>1, <2>2, <3>1
    <3>2. CASE k # n
      <4>1. k \in 1..Len(h) /\ k \in 0..Len(h) /\ k - 1 \in 0..Len(h)
        BY <1>1, <3>2
      <4>2. r2[k] = r[k] /\ r2[k - 1] = r[k - 1] /\ h2[k] = h[k]
        BY <2>2, <2>3, <4>1
      <4> HIDE DEF r2
      <4> QED
        BY <4>1, <4>2 DEF Run
    <3> QED
      BY <3>1, <3>2
  <2>5. r2[0] = Fresh
    BY <1>1 DEF Run
  <2> HIDE DEF r2
  <2>6. Run(h2, r2)
    BY <2>1, <2>2, <2>4, <2>5 DEF Run
  <2>7. Grown(h, h2, c, m)
    BY <1>3, <2>1, <2>2 DEF Grown
  <2> QED
    BY <2>3, <2>6, <2>7 DEF RunGrown
<1> QED
  BY <1>2, <1>3

\* A node that has a message more before it is where it was.
LEMMA OnRunWhenGrown ==
    ASSUME NEW h \in Seq(Message), NEW r, NEW q \in Seq(Message), NEW l, OnRun(h, r, q, l),
           NEW c, NEW m, NEW h2, NEW q2, NEW r2, RunGrown(h, r, h2, r2, c, m),
           Grown(q, q2, c, m)
    PROVE  OnRun(h2, r2, q2, l) /\ Place(h2, q2) = Place(h, q)
<1>1. /\ Len(q) \in Nat /\ Len(h) \in Nat /\ c \in {0, 1} /\ Len(q) <= Len(h)
      /\ Len(h2) = Len(h) + c /\ Len(q2) = Len(q) + c
  BY DEF Grown, OnRun, RunGrown
<1>2. Place(h2, q2) = Place(h, q) /\ Place(h, q) \in 0..Len(h)
  BY <1>1 DEF Place
<1>3. ASSUME NEW k \in 1..Len(q2)
      PROVE  q2[k] = h2[Place(h2, q2) + k]
  <2>1. CASE k \in 1..Len(q)
    <3>1. Place(h, q) + k \in 1..Len(h)
      BY <1>1, <2>1 DEF Place
    <3>2. q2[k] = q[k] /\ h2[Place(h, q) + k] = h[Place(h, q) + k]
      BY <2>1, <3>1 DEF Grown, RunGrown
    <3> QED
      BY <1>2, <2>1, <3>2 DEF OnRun
  <2>2. CASE k \notin 1..Len(q)
    <3>1. c = 1 /\ k = Len(q) + 1 /\ Place(h2, q2) + k = Len(h) + 1
      BY <1>1, <2>2 DEF Place
    <3> QED
      BY <3>1 DEF Grown, RunGrown
  <2> QED
    BY <2>1, <2>2
<1>4. l = r2[Place(h2, q2)]
  BY <1>2 DEF OnRun, RunGrown
<1>5. Len(q2) <= Len(h2)
  BY <1>1
<1> QED
  BY <1>2, <1>3, <1>4, <1>5 DEF OnRun

\* A node that handles a message is at the next place of the run.
LEMMA OnRunWhenTaken ==
    ASSUME NEW h, NEW r, Run(h, r), NEW q \in Seq(Message), q # <<>>, NEW l, OnRun(h, r, q, l)
    PROVE  /\ OnRun(h, r, Tail(q), After(l, Head(q)))
           /\ Place(h, q) + 1 \in 1..Len(h)
           /\ Place(h, Tail(q)) = Place(h, q) + 1
           /\ Head(q) = h[Place(h, q) + 1] /\ l = r[Place(h, q)]
<1>0. h \in Seq(Message) /\ Len(q) <= Len(h)
  BY DEF Run, OnRun
<1>1. /\ Len(h) \in Nat /\ Len(q) \in Nat /\ 1 <= Len(q) /\ Len(q) <= Len(h)
      /\ Len(Tail(q)) = Len(q) - 1 /\ Tail(q) \in Seq(Message)
      /\ Head(q) = q[1] /\ \A k \in 1..(Len(q) - 1) : Tail(q)[k] = q[k + 1]
  BY <1>0
<1>2. PICK p : p = Place(h, q)
  OBVIOUS
<1>3. /\ p \in Nat /\ p = Len(h) - Len(q)
      /\ p + 1 \in 1..Len(h) /\ Place(h, Tail(q)) = p + 1 /\ (p + 1) - 1 = p
  BY <1>1, <1>2 DEF Place
<1>4. q[1] = h[p + 1] /\ l = r[p]
  BY <1>1, <1>2, <1>3 DEF OnRun
<1>5. r[p + 1] = After(l, q[1])
  <2>1. r[p + 1] = After(r[(p + 1) - 1], h[p + 1])
    BY <1>3 DEF Run
  <2> QED
    BY <1>3, <1>4, <2>1
<1>6. ASSUME NEW k \in 1..Len(Tail(q))
      PROVE  Tail(q)[k] = h[Place(h, Tail(q)) + k]
  <2>1. k \in 1..(Len(q) - 1) /\ k + 1 \in 1..Len(q)
    BY <1>1
  <2>2. q[k + 1] = h[p + (k + 1)]
    BY <1>2, <2>1 DEF OnRun
  <2>3. Place(h, Tail(q)) + k = p + (k + 1)
    BY <1>3, <2>1
  <2> QED
    BY <1>1, <2>1, <2>2, <2>3
<1>7. OnRun(h, r, Tail(q), After(l, Head(q)))
  BY <1>1, <1>3, <1>5, <1>6 DEF OnRun
<1> QED
  BY <1>1, <1>2, <1>3, <1>4, <1>7

\* What was answered stays answered.
LEMMA AnsweredWhenGrown ==
    ASSUME NEW h \in Seq(Message), NEW r, NEW i, NEW p \in 0..Len(h), Answered(h, r, i, p),
           NEW c, NEW m, NEW h2, NEW r2, RunGrown(h, r, h2, r2, c, m)
    PROVE  Answered(h2, r2, i, p)
<1> SUFFICES ASSUME NEW k \in 1..p
             PROVE  /\ TakesPrePrepare(r2[k - 1], h2[k]) =>
                          \E a \in (k + 1)..Len(h2) : h2[a] = PrepareMsg(i, h2[k].n, h2[k].request)
                    /\ TakesPrepare(r2[k - 1], h2[k]) /\ r2[k].state = "COMMIT" =>
                          \E a \in (k + 1)..Len(h2) :
                              h2[a] = CommitMsg(i, h2[k].n, r2[k - 1].log[h2[k].n].request)
  BY DEF Answered
<1>1. /\ Len(h) \in Nat /\ Len(h2) \in Nat /\ Len(h) <= Len(h2)
      /\ k \in 1..Len(h) /\ k \in 0..Len(h) /\ k - 1 \in 0..Len(h)
  BY DEF Grown, RunGrown
<1>2. r2[k - 1] = r[k - 1] /\ r2[k] = r[k] /\ h2[k] = h[k]
  BY <1>1 DEF Grown, RunGrown
<1>3. \A a \in (k + 1)..Len(h) : h2[a] = h[a] /\ a \in (k + 1)..Len(h2)
  BY <1>1 DEF Grown, RunGrown
<1> QED
  BY <1>2, <1>3 DEF Answered

\* What is handled is answered at once.
LEMMA AnsweredWhenTaken ==
    ASSUME NEW h \in Seq(Message), NEW r, NEW i, NEW p \in Nat, p + 1 \in 1..Len(h),
           Answered(h, r, i, p), NEW c, NEW m, NEW h2, NEW r2, RunGrown(h, r, h2, r2, c, m),
           Answers(i, r[p], h[p + 1], c, m)
    PROVE  Answered(h2, r2, i, p + 1)
<1>1. /\ Len(h) \in Nat /\ p \in 0..Len(h) /\ p + 1 \in 0..Len(h) /\ (p + 1) - 1 = p
      /\ Len(h2) = Len(h) + c
  BY DEF Grown, RunGrown
<1>2. Answered(h2, r2, i, p)
  BY <1>1, AnsweredWhenGrown
<1>3. r2[p] = r[p] /\ h2[p + 1] = h[p + 1] /\ r2[p + 1] = After(r[p], h[p + 1])
  <2>1. p + 1 \in 1..Len(h2)
    BY <1>1 DEF Grown, RunGrown
  <2>2. r2[p + 1] = After(r2[(p + 1) - 1], h2[p + 1])
    BY <2>1 DEF Run, RunGrown
  <2> QED
    BY <1>1, <2>2 DEF Grown, RunGrown
<1>4. c = 1 => Len(h) + 1 \in ((p + 1) + 1)..Len(h2) /\ h2[Len(h) + 1] = m
  BY <1>1 DEF Grown, RunGrown
<1>5. /\ TakesPrePrepare(r2[p], h2[p + 1]) =>
            \E a \in ((p + 1) + 1)..Len(h2) : h2[a] = PrepareMsg(i, h2[p + 1].n, h2[p + 1].request)
      /\ TakesPrepare(r2[p], h2[p + 1]) /\ r2[p + 1].state = "COMMIT" =>
            \E a \in ((p + 1) + 1)..Len(h2) :
                h2[a] = CommitMsg(i, h2[p + 1].n, r2[p].log[h2[p + 1].n].request)
  BY <1>3, <1>4 DEF Answers
<1>6. \A k \in 1..(p + 1) : k \in 1..p \/ k = p + 1
  OBVIOUS
<1> QED
  BY <1>1, <1>2, <1>5, <1>6 DEF Answered

\* What the steps' proofs need of types.
LEMMA OrderTypes ==
    ASSUME TypeOK
    PROVE  /\ dataQueue \in Queues /\ listening \in [Node -> BOOLEAN]
           /\ \A i \in Node : dataQueue[i] \in Seq(Message) /\ Len(dataQueue[i]) \in Nat
  BY DEF TypeOK, NetType, StopType, Queues

\* Posting keeps the invariant.
LEMMA ThreadStepKeepsRun ==
    ASSUME TypeOK, OneRun, NEW c, NEW m, ThreadStep(c, m)
    PROVE  OneRun'
<1>1. PICK h, r : InHistory(h, r)
  BY DEF OneRun
<1>2. /\ c \in {0, 1} /\ (c = 1 => m \in Message)
      /\ \A j \in Node : listening[j] => Grown(dataQueue[j], dataQueue'[j], c, m)
      /\ \A j \in Node : LocalState(j)' = LocalState(j) /\ listening'[j] = listening[j]
  BY DEF ThreadStep, AllGrown, SameLocalStates
<1>3. PICK h2, r2 : RunGrown(h, r, h2, r2, c, m)
  <2>1. Run(h, r) /\ c \in {0, 1} /\ (c = 1 => m \in Message)
    BY <1>1, <1>2 DEF InHistory
  <2> QED
    BY <2>1, RunGrows
<1>4. h \in Seq(Message) /\ Len(h) \in Nat
  BY <1>1 DEF InHistory, Run
<1>5. ASSUME NEW j \in Node, listening[j]
      PROVE  /\ OnRun(h2, r2, dataQueue'[j], LocalState(j))
             /\ Answered(h2, r2, j, Place(h2, dataQueue'[j]))
  <2>1. /\ OnRun(h, r, dataQueue[j], LocalState(j))
        /\ Answered(h, r, j, Place(h, dataQueue[j]))
        /\ dataQueue[j] \in Seq(Message) /\ Len(dataQueue[j]) \in Nat
    BY <1>1, <1>5, OrderTypes DEF InHistory
  <2>2. /\ OnRun(h2, r2, dataQueue'[j], LocalState(j))
        /\ Place(h2, dataQueue'[j]) = Place(h, dataQueue[j])
    <3>1. /\ h \in Seq(Message) /\ dataQueue[j] \in Seq(Message)
          /\ OnRun(h, r, dataQueue[j], LocalState(j))
          /\ RunGrown(h, r, h2, r2, c, m) /\ Grown(dataQueue[j], dataQueue'[j], c, m)
      BY <1>2, <1>3, <1>4, <1>5, <2>1
    <3> QED
      BY <3>1, OnRunWhenGrown
  <2>3. Place(h, dataQueue[j]) \in 0..Len(h)
    BY <1>4, <2>1 DEF OnRun, Place
  <2> QED
    BY <1>3, <1>4, <2>1, <2>2, <2>3, AnsweredWhenGrown
<1>6. ASSUME NEW j \in Node, ~listening[j]
      PROVE  \E p \in 0..Len(h2) : LocalState(j) = r2[p]
  <2>1. PICK p \in 0..Len(h) : LocalState(j) = r[p]
    BY <1>1, <1>6 DEF InHistory
  <2>2. p \in 0..Len(h2)
    BY <1>3, <1>4 DEF Grown, RunGrown
  <2> QED
    BY <1>3, <2>1, <2>2 DEF RunGrown
<1>7. InHistory(h2, r2)'
  BY <1>2, <1>3, <1>5, <1>6 DEF InHistory, RunGrown
<1> QED
  BY <1>7 DEF OneRun

\* A listener's turn keeps the invariant.
LEMMA TurnStepKeepsRun ==
    ASSUME TypeOK, OneRun, NEW i \in Node, NEW c, NEW m, TurnStep(i, c, m)
    PROVE  OneRun'
<1>1. PICK h, r : InHistory(h, r)
  BY DEF OneRun
<1> DEFINE q == dataQueue[i]
           p == Place(h, q)
<1>2. /\ c \in {0, 1} /\ (c = 1 => m \in Message)
      /\ \A j \in Node : listening[j] => Grown(GetData(i)[j], dataQueue'[j], c, m)
      /\ LocalState(i)' = After(LocalState(i), Head(q)) /\ listening[i] /\ q # <<>>
      /\ \A j \in Node \ {i} : LocalState(j)' = LocalState(j)
      /\ \A j \in Node : listening'[j] = listening[j]
      /\ Answers(i, LocalState(i), Head(q), c, m)
  BY DEF TurnStep, AllGrown
<1>3. PICK h2, r2 : RunGrown(h, r, h2, r2, c, m)
  <2>1. Run(h, r) /\ c \in {0, 1} /\ (c = 1 => m \in Message)
    BY <1>1, <1>2 DEF InHistory
  <2> QED
    BY <2>1, RunGrows
<1>4. h \in Seq(Message) /\ Len(h) \in Nat /\ q \in Seq(Message) /\ Len(q) \in Nat /\ Run(h, r)
  BY <1>1, OrderTypes DEF InHistory, Run
<1>5. GetData(i)[i] = Tail(q) /\ \A j \in Node \ {i} : GetData(i)[j] = dataQueue[j]
  BY OrderTypes DEF GetData, Queues
<1>6. /\ OnRun(h, r, q, LocalState(i)) /\ Answered(h, r, i, p)
  BY <1>1, <1>2 DEF InHistory
<1>7. /\ OnRun(h, r, Tail(q), After(LocalState(i), Head(q)))
      /\ p + 1 \in 1..Len(h) /\ Place(h, Tail(q)) = p + 1
      /\ Head(q) = h[p + 1] /\ LocalState(i) = r[p]
  <2>1. Run(h, r) /\ q \in Seq(Message) /\ q # <<>> /\ OnRun(h, r, q, LocalState(i))
    BY <1>2, <1>4, <1>6
  <2> HIDE DEF q
  <2> QED
    BY <2>1, OnRunWhenTaken
<1>8. p \in Nat /\ Tail(q) \in Seq(Message)
  BY <1>2, <1>4, <1>6 DEF OnRun, Place
<1> HIDE DEF p, q
<1>9. /\ OnRun(h2, r2, dataQueue'[i], LocalState(i)')
      /\ Answered(h2, r2, i, Place(h2, dataQueue'[i]))
  <2>1. Grown(Tail(q), dataQueue'[i], c, m)
    BY <1>2, <1>5
  <2>2. /\ OnRun(h2, r2, dataQueue'[i], After(LocalState(i), Head(q)))
        /\ Place(h2, dataQueue'[i]) = p + 1
    <3>1. PICK rest, next : rest = Tail(q) /\ next = After(LocalState(i), Head(q))
      OBVIOUS
    <3>2. /\ h \in Seq(Message) /\ rest \in Seq(Message) /\ OnRun(h, r, rest, next)
          /\ RunGrown(h, r, h2, r2, c, m) /\ Grown(rest, dataQueue'[i], c, m)
      BY <1>3, <1>4, <1>7, <1>8, <2>1, <3>1
    <3>3. OnRun(h2, r2, dataQueue'[i], next) /\ Place(h2, dataQueue'[i]) = Place(h, rest)
      BY <3>2, OnRunWhenGrown
    <3> QED
      BY <1>7, <3>1, <3>3
  <2>3. Answers(i, r[p], h[p + 1], c, m)
    BY <1>2, <1>7
  <2>4. Answered(h2, r2, i, p + 1)
    BY <1>3, <1>4, <1>6, <1>7, <1>8, <2>3, AnsweredWhenTaken
  <2> QED
    BY <1>2, <2>2, <2>4
<1>10. ASSUME NEW j \in Node \ {i}, listening[j]
       PROVE  /\ OnRun(h2, r2, dataQueue'[j], LocalState(j))
              /\ Answered(h2, r2, j, Place(h2, dataQueue'[j]))
  <2>1. /\ OnRun(h, r, dataQueue[j], LocalState(j))
        /\ Answered(h, r, j, Place(h, dataQueue[j]))
        /\ dataQueue[j] \in Seq(Message) /\ Len(dataQueue[j]) \in Nat
        /\ Grown(dataQueue[j], dataQueue'[j], c, m)
    BY <1>1, <1>2, <1>5, <1>10, OrderTypes DEF InHistory
  <2>2. /\ OnRun(h2, r2, dataQueue'[j], LocalState(j))
        /\ Place(h2, dataQueue'[j]) = Place(h, dataQueue[j])
    <3>1. h \in Seq(Message) /\ RunGrown(h, r, h2, r2, c, m)
      BY <1>3, <1>4
    <3> QED
      BY <2>1, <3>1, OnRunWhenGrown
  <2>3. Place(h, dataQueue[j]) \in 0..Len(h)
    BY <1>4, <2>1 DEF OnRun, Place
  <2> QED
    BY <1>3, <1>4, <2>1, <2>2, <2>3, AnsweredWhenGrown
<1>11. ASSUME NEW j \in Node, ~listening[j]
       PROVE  j # i /\ \E k \in 0..Len(h2) : LocalState(j) = r2[k]
  <2>1. PICK k \in 0..Len(h) : LocalState(j) = r[k]
    BY <1>1, <1>11 DEF InHistory
  <2>2. k \in 0..Len(h2)
    BY <1>3, <1>4 DEF Grown, RunGrown
  <2> QED
    BY <1>2, <1>3, <1>11, <2>1, <2>2 DEF RunGrown
<1>12. InHistory(h2, r2)'
  BY <1>2, <1>3, <1>9, <1>10, <1>11 DEF InHistory, RunGrown
<1> QED
  BY <1>12 DEF OneRun

\* A listener's end keeps the invariant.
LEMMA LeavingStepKeepsRun ==
    ASSUME TypeOK, OneRun, NEW i \in Node, LeavingStep(i)
    PROVE  OneRun'
<1>1. PICK h, r : InHistory(h, r)
  BY DEF OneRun
<1>2. /\ \A j \in Node : LocalState(j)' = LocalState(j)
      /\ listening[i] /\ ~listening'[i]
      /\ \A j \in Node \ {i} : listening'[j] = listening[j] /\ dataQueue'[j] = dataQueue[j]
  BY OrderTypes DEF LeavingStep, SameLocalStates
<1>3. \E p \in 0..Len(h) : LocalState(i) = r[p]
  <2>1. OnRun(h, r, dataQueue[i], LocalState(i)) /\ Len(dataQueue[i]) \in Nat /\ Len(h) \in Nat
    BY <1>1, <1>2, OrderTypes DEF InHistory, Run
  <2>2. Place(h, dataQueue[i]) \in 0..Len(h)
    BY <2>1 DEF OnRun, Place
  <2> QED
    BY <2>1, <2>2 DEF OnRun
<1>4. InHistory(h, r)'
  BY <1>1, <1>2, <1>3 DEF InHistory
<1> QED
  BY <1>4 DEF OneRun

\* While nothing is lost, all nodes are at places of one run: that of a listener
\* that handles every message posted, in the order of posting.
THEOREM NodesAreOnOneRun == Spec /\ []NoOverflow => []OneRun
<1>1. Init => OneRun
  <2> SUFFICES ASSUME Init
               PROVE  OneRun
    OBVIOUS
  <2> DEFINE r == [k \in {0} |-> Fresh]
  <2>1. \A j \in Node : listening[j] /\ dataQueue[j] = <<>> /\ LocalState(j) = Fresh
    BY DEF Init, LocalState, Fresh
  <2>2. <<>> \in Seq(Message) /\ Len(<<>>) = 0
    BY EmptySeq
  <2>3. r[0] = Fresh
    OBVIOUS
  <2> HIDE DEF r
  <2>4. InHistory(<<>>, r)
    BY <2>1, <2>2, <2>3 DEF InHistory, Run, OnRun, Answered, Place
  <2> QED
    BY <2>4 DEF OneRun
<1>2. TypeOK /\ NoOverflow /\ OneRun /\ [Next]_vars => OneRun'
  BY StepKinds, TurnStepKeepsRun, ThreadStepKeepsRun, LeavingStepKeepsRun
<1> QED
  BY <1>1, <1>2, TypeCorrect, PTL DEF Spec

\* While nothing is lost, nodes that have taken the same number of messages off
\* their queues have the same protocol state and log.
THEOREM NodesInLockstep == Spec /\ []NoOverflow => []Lockstep
<1>1. OneRun => Lockstep
  <2> SUFFICES ASSUME OneRun, NEW i \in Node, NEW j \in Node, listening[i], listening[j],
                      Len(dataQueue[i]) = Len(dataQueue[j])
               PROVE  state[i] = state[j] /\ requestLog[i] = requestLog[j]
    BY DEF Lockstep
  <2>1. LocalState(i) = LocalState(j)
    BY DEF OneRun, InHistory, OnRun, Place
  <2> QED
    BY <2>1, LocalFields
<1> QED
  BY <1>1, NodesAreOnOneRun, PTL

\* While nothing is lost, of two nodes' sequences of committed numbers one is a
\* prefix of the other, whoever stops when.
THEOREM CommitsInOneOrder == Spec /\ []NoOverflow => []CommitOrderAgreement
<1>1. TypeOK /\ OneRun => CommitOrderAgreement
  <2> SUFFICES ASSUME TypeOK, OneRun, NEW i \in Node, NEW j \in Node, NEW k \in 1..Len(committed[i]),
                      k <= Len(committed[j])
               PROVE  committed[i][k] = committed[j][k]
    BY DEF CommitOrderAgreement
  <2>1. PICK h, r : InHistory(h, r)
    BY DEF OneRun
  <2>2. Run(h, r) /\ Len(h) \in Nat
    BY <2>1 DEF InHistory, Run
  <2>3. ASSUME NEW x \in Node
        PROVE  \E p \in 0..Len(h) : LocalState(x) = r[p]
    <3>1. CASE listening[x]
      <4>1. OnRun(h, r, dataQueue[x], LocalState(x)) /\ Len(dataQueue[x]) \in Nat
        BY <2>1, <3>1, OrderTypes DEF InHistory
      <4>2. Place(h, dataQueue[x]) \in 0..Len(h)
        BY <2>2, <4>1 DEF OnRun, Place
      <4> QED
        BY <4>1, <4>2 DEF OnRun
    <3> QED
      BY <2>1, <3>1 DEF InHistory
  <2>4. PICK p \in 0..Len(h) : LocalState(i) = r[p]
    BY <2>3
  <2>5. PICK p2 \in 0..Len(h) : LocalState(j) = r[p2]
    BY <2>3
  <2>6. r[p].done = committed[i] /\ r[p2].done = committed[j]
    BY <2>4, <2>5, LocalFields
  <2>7. Extends(committed[i], committed[j]) \/ Extends(committed[j], committed[i])
    <3>1. p2 \in 0..p \/ p \in 0..p2
      OBVIOUS
    <3> QED
      BY <2>2, <2>6, <3>1, RunExtends
  <2>8. Len(committed[i]) \in Nat /\ Len(committed[j]) \in Nat
    BY DEF TypeOK, RoundType
  <2> QED
    BY <2>7, <2>8 DEF Extends
<1> QED
  BY <1>1, NodesAreOnOneRun, TypeCorrect, PTL

-----------------------------------------------------------------------------
(* No round is left half done *)

\* The PREPAREs for number n among the messages after the first a, up to the
\* b-th; the COMMITs for n and request d.
PreparesIn(h, n, a, b) == {k \in (a + 1)..b : h[k].type = "PREPARE" /\ h[k].n = n}

CommitsIn(h, n, d, a, b) ==
    {k \in (a + 1)..b : h[k].type = "COMMIT" /\ h[k].n = n /\ h[k].digest = d}

\* Only a PREPREPARE brings a listener to PREPARE, and it is logged.
LEMMA EntersPrepare ==
    ASSUME NEW l, NEW m, l.state # "PREPARE", After(l, m).state = "PREPARE"
    PROVE  TakesPrePrepare(l, m) /\ m.n \in DOMAIN After(l, m).log
<1>1. TakesPrePrepare(l, m)
  BY DEF After, TakesPrepare, AfterCommit
<1>2. After(l, m) = AfterPrePrepare(l, m)
  BY <1>1 DEF After
<1>3. m.n \in DOMAIN LogPlus(l.log, m.n, NewEntry(m.request))
  BY DEF LogPlus
<1> QED
  BY <1>1, <1>2, <1>3 DEF AfterPrePrepare

\* Only a PREPARE brings one to COMMIT, and its number is prepared.
LEMMA EntersCommit ==
    ASSUME NEW l, IsLocal(l), NEW m, l.state # "COMMIT", After(l, m).state = "COMMIT"
    PROVE  /\ TakesPrepare(l, m) /\ m.n \in DOMAIN After(l, m).log
           /\ After(l, m).log[m.n].bPrepared
           /\ After(l, m).log[m.n].request = l.log[m.n].request
<1>1. TakesPrepare(l, m) /\ ~TakesPrePrepare(l, m)
  BY DEF After, AfterPrePrepare, TakesCommit
<1>2. l.log[m.n] \in LogEntry /\ l.state # "COMMIT"
  BY <1>1 DEF TakesPrepare, IsLocal
<1>3. PICK e : e = [l.log[m.n] EXCEPT !.prepares = l.log[m.n].prepares + 1, !.bPrepared = TRUE]
  OBVIOUS
<1>4. e.bPrepared /\ e.request = l.log[m.n].request
  BY <1>2, <1>3 DEF LogEntry
<1>5. After(l, m) = AfterPrepare(l, m)
  BY <1>1 DEF After
<1>6. After(l, m).log = LogPlus(l.log, m.n, e)
  BY <1>2, <1>3, <1>5 DEF AfterPrepare
<1>7. PICK log : log = LogPlus(l.log, m.n, e)
  OBVIOUS
<1>8. m.n \in DOMAIN log /\ log[m.n] = e
  BY <1>7 DEF LogPlus
<1> QED
  BY <1>1, <1>4, <1>6, <1>7, <1>8

\* While a listener stays in PREPARE it counts every PREPARE for a number it
\* has logged, and there are fewer than it waits for.
LEMMA StaysInPrepare ==
    ASSUME NEW l, IsLocal(l), NEW m \in Message, l.state = "PREPARE", After(l, m).state = "PREPARE",
           NEW n \in DOMAIN l.log
    PROVE  /\ n \in DOMAIN After(l, m).log
           /\ IF m.type = "PREPARE" /\ m.n = n
                THEN /\ After(l, m).log[n].prepares = l.log[n].prepares + 1
                     /\ After(l, m).log[n].prepares < PrepareQuorum(N)
                ELSE After(l, m).log[n].prepares = l.log[n].prepares
<1>1. CASE TakesPrepare(l, m)
  <2>1. m.type = "PREPARE" /\ m.n \in DOMAIN l.log /\ l.log[m.n] \in LogEntry
    BY <1>1 DEF TakesPrepare, IsLocal
  <2>2. After(l, m) = AfterPrepare(l, m)
    BY <1>1, <2>1 DEF After, TakesPrePrepare
  <2>3. PICK count : count = l.log[m.n].prepares + 1
    OBVIOUS
  <2>4. PICK e : e = [l.log[m.n] EXCEPT !.prepares = count]
    OBVIOUS
  <2>5. e.prepares = count
    BY <2>1, <2>4 DEF LogEntry
  <2>6. count < PrepareQuorum(N) /\ After(l, m).log = LogPlus(l.log, m.n, e)
    BY <2>2, <2>3, <2>4 DEF AfterPrepare
  <2>7. PICK log : log = LogPlus(l.log, m.n, e)
    OBVIOUS
  <2>8. DOMAIN log = DOMAIN l.log \cup {m.n} /\ log[m.n] = e
    BY <2>7 DEF LogPlus
  <2>9. \A k \in DOMAIN l.log \ {m.n} : log[k] = l.log[k]
    BY <2>7 DEF LogPlus
  <2>10. After(l, m).log = log
    BY <2>6, <2>7
  <2>11. CASE n = m.n
    BY <2>1, <2>3, <2>5, <2>6, <2>8, <2>10, <2>11
  <2>12. CASE n # m.n
    BY <2>8, <2>9, <2>10, <2>12
  <2> QED
    BY <2>11, <2>12
<1>2. CASE ~TakesPrepare(l, m)
  <2>1. After(l, m) = l
    BY <1>2 DEF After, TakesPrePrepare, TakesCommit
  <2>2. ~(m.type = "PREPARE" /\ m.n = n)
    BY <1>2 DEF TakesPrepare
  <2> QED
    BY <2>1, <2>2
<1> QED
  BY <1>1, <1>2

\* While it stays in COMMIT it counts every COMMIT for a number it has prepared.
LEMMA StaysInCommit ==
    ASSUME NEW l, IsLocal(l), NEW m \in Message, l.state = "COMMIT", After(l, m).state = "COMMIT",
           NEW n \in DOMAIN l.log, l.log[n].bPrepared
    PROVE  /\ n \in DOMAIN After(l, m).log /\ After(l, m).log[n].bPrepared
           /\ After(l, m).log[n].request = l.log[n].request
           /\ IF m.type = "COMMIT" /\ m.n = n /\ m.digest = l.log[n].request
                THEN /\ After(l, m).log[n].commits = l.log[n].commits + 1
                     /\ After(l, m).log[n].commits < CommitQuorum(N)
                ELSE After(l, m).log[n].commits = l.log[n].commits
<1>1. CASE TakesCommit(l, m)
  <2>1. /\ m.type = "COMMIT" /\ m.n \in DOMAIN l.log /\ l.log[m.n] \in LogEntry
        /\ m.digest = l.log[m.n].request
    BY <1>1 DEF TakesCommit, IsLocal
  <2>2. After(l, m) = AfterCommit(l, m)
    BY <1>1, <2>1 DEF After, TakesPrePrepare, TakesPrepare
  <2>3. PICK count : count = l.log[m.n].commits + 1
    OBVIOUS
  <2>4. PICK e : e = [l.log[m.n] EXCEPT !.commits = count]
    OBVIOUS
  <2>5. e.commits = count /\ e.request = l.log[m.n].request /\ e.bPrepared = l.log[m.n].bPrepared
    BY <2>1, <2>4 DEF LogEntry
  <2>6. count < CommitQuorum(N) /\ After(l, m).log = LogPlus(l.log, m.n, e)
    BY <2>2, <2>3, <2>4 DEF AfterCommit
  <2>7. PICK log : log = LogPlus(l.log, m.n, e)
    OBVIOUS
  <2>8. DOMAIN log = DOMAIN l.log \cup {m.n} /\ log[m.n] = e
    BY <2>7 DEF LogPlus
  <2>9. \A k \in DOMAIN l.log \ {m.n} : log[k] = l.log[k]
    BY <2>7 DEF LogPlus
  <2>10. After(l, m).log = log
    BY <2>6, <2>7
  <2>11. CASE n = m.n
    BY <2>1, <2>3, <2>5, <2>6, <2>8, <2>10, <2>11
  <2>12. CASE n # m.n
    BY <2>8, <2>9, <2>10, <2>12
  <2> QED
    BY <2>11, <2>12
<1>2. CASE ~TakesCommit(l, m)
  <2>1. After(l, m) = l
    BY <1>2 DEF After, TakesPrePrepare, TakesPrepare
  <2>2. ~(m.type = "COMMIT" /\ m.n = n /\ m.digest = l.log[n].request)
    BY <1>2 DEF TakesCommit
  <2> QED
    BY <2>1, <2>2
<1> QED
  BY <1>1, <1>2

\* A set of messages after the a-th, up to the b-th, counted one by one.
LEMMA OneMore ==
    ASSUME NEW a \in Nat, NEW b \in Nat, a <= b, NEW T, NEW T2,
           T \subseteq (a + 1)..b, T2 \subseteq T \cup {b + 1}
    PROVE  /\ Cardinality(T) \in Nat /\ Cardinality(T2) \in Nat
           /\ Cardinality(T2) <= Cardinality(T) + 1
           /\ T2 \subseteq T => Cardinality(T2) <= Cardinality(T)
<1>1. IsFiniteSet((a + 1)..b)
  BY FS_Interval
<1>2. IsFiniteSet(T)
  BY <1>1, FS_Subset
<1>3. IsFiniteSet(T \cup {b + 1}) /\ Cardinality(T \cup {b + 1}) <= Cardinality(T) + 1
  <2>1. PICK x : x = b + 1
    OBVIOUS
  <2>2. x \notin T
    BY <2>1
  <2>3. IsFiniteSet(T \cup {x})
    BY <1>2, FS_AddElement
  <2>4. Cardinality(T \cup {x}) = Cardinality(T) + 1
    BY <1>2, <2>2, FS_AddElement
  <2>5. Cardinality(T) \in Nat
    BY <1>2, FS_CardinalityType
  <2> QED
    BY <2>1, <2>3, <2>4, <2>5
<1>4. IsFiniteSet(T2) /\ Cardinality(T2) <= Cardinality(T \cup {b + 1})
  BY <1>3, FS_Subset
<1>5. T2 \subseteq T => Cardinality(T2) <= Cardinality(T)
  BY <1>2, FS_Subset
<1>6. /\ Cardinality(T) \in Nat /\ Cardinality(T2) \in Nat /\ Cardinality(T \cup {b + 1}) \in Nat
  BY <1>2, <1>3, <1>4, FS_CardinalityType
<1> QED
  BY <1>3, <1>4, <1>5, <1>6

\* So it has counted at least those posted since it came there.
LEMMA PreparesCounted ==
    ASSUME NEW h, NEW r, Run(h, r), NEW a \in 1..Len(h), \A k \in a..Len(h) : r[k].state = "PREPARE",
           NEW n \in DOMAIN r[a].log
    PROVE  Cardinality(PreparesIn(h, n, a, Len(h))) < PrepareQuorum(N)
<1> DEFINE Ps(b)   == PreparesIn(h, n, a, b)
           Good(b) == /\ n \in DOMAIN r[b].log
                      /\ Cardinality(Ps(b)) <= r[b].log[n].prepares
                      /\ Cardinality(Ps(b)) < PrepareQuorum(N)
           S       == {b \in a..Len(h) : ~Good(b)}
<1>1. /\ h \in Seq(Message) /\ Len(h) \in Nat /\ a \in Nat /\ a \in 0..Len(h)
      /\ PrepareQuorum(N) \in Nat /\ 1 <= PrepareQuorum(N)
  BY Quorums DEF Run
<1>2. \A b \in a..Len(h) : IsLocal(r[b])
  BY <1>1, RunIsLocal
<1>3. Good(a)
  <2>1. Ps(a) = {}
    BY <1>1 DEF PreparesIn
  <2>2. r[a].log[n].prepares \in Nat
    BY <1>1, <1>2 DEF IsLocal, LogEntry
  <2>3. Cardinality(Ps(a)) = 0
    BY <2>1, FS_EmptySet
  <2> QED
    BY <1>1, <2>2, <2>3
<1> HIDE DEF Good
<1>4. ASSUME NEW b \in a..Len(h), b # a, Good(b - 1)
      PROVE  Good(b)
  <2>1. /\ b \in 1..Len(h) /\ b - 1 \in a..Len(h) /\ b - 1 \in Nat /\ a <= b - 1 /\ (b - 1) + 1 = b
    BY <1>1, <1>4
  <2>2. PICK l, m, l2 : l = r[b - 1] /\ m = h[b] /\ l2 = r[b]
    OBVIOUS
  <2>3. /\ m \in Message /\ l2 = After(l, m) /\ IsLocal(l) /\ IsLocal(l2)
        /\ l.state = "PREPARE" /\ l2.state = "PREPARE"
    BY <1>1, <1>2, <2>1, <2>2 DEF Run
  <2>4. /\ n \in DOMAIN l.log /\ Cardinality(Ps(b - 1)) <= l.log[n].prepares
        /\ Cardinality(Ps(b - 1)) < PrepareQuorum(N)
    BY <1>4, <2>2 DEF Good
  <2>5. /\ n \in DOMAIN l2.log
        /\ IF m.type = "PREPARE" /\ m.n = n
             THEN l2.log[n].prepares = l.log[n].prepares + 1 /\ l2.log[n].prepares < PrepareQuorum(N)
             ELSE l2.log[n].prepares = l.log[n].prepares
    BY <2>3, <2>4, StaysInPrepare
  <2>6. l.log[n].prepares \in Nat /\ l2.log[n].prepares \in Nat
    BY <2>3, <2>4, <2>5 DEF IsLocal, LogEntry
  <2>7. /\ Ps(b - 1) \subseteq (a + 1)..(b - 1) /\ Ps(b) \subseteq Ps(b - 1) \cup {b}
        /\ ~(m.type = "PREPARE" /\ m.n = n) => Ps(b) \subseteq Ps(b - 1)
    BY <1>1, <2>1, <2>2 DEF PreparesIn
  <2> HIDE DEF Ps
  <2>8. /\ Cardinality(Ps(b - 1)) \in Nat /\ Cardinality(Ps(b)) \in Nat
        /\ Cardinality(Ps(b)) <= Cardinality(Ps(b - 1)) + 1
        /\ Ps(b) \subseteq Ps(b - 1) => Cardinality(Ps(b)) <= Cardinality(Ps(b - 1))
    <3>1. PICK d \in Nat : d = b - 1 /\ d + 1 = b /\ a <= d
      BY <2>1
    <3> QED
      BY <1>1, <2>7, <3>1, OneMore
  <2>9. Cardinality(Ps(b)) <= l2.log[n].prepares /\ Cardinality(Ps(b)) < PrepareQuorum(N)
    BY <1>1, <2>4, <2>5, <2>6, <2>7, <2>8
  <2> QED
    BY <2>2, <2>5, <2>9 DEF Good
<1>5. S = {}
  <2> SUFFICES ASSUME S # {} PROVE FALSE
    OBVIOUS
  <2>1. S \subseteq Nat
    BY <1>1
  <2>2. PICK b \in S : \A u \in S : b <= u
    <3> HIDE DEF S
    <3> QED
      BY <2>1, LeastNatural
  <2>3. b # a /\ b - 1 \in a..Len(h) /\ b - 1 < b
    BY <1>1, <1>3, <2>2
  <2>4. b - 1 \notin S
    BY <2>1, <2>2, <2>3
  <2> QED
    BY <1>4, <2>2, <2>3, <2>4
<1>6. Good(Len(h))
  BY <1>1, <1>5
<1> QED
  BY <1>6 DEF Good

\* The same of COMMITs.
LEMMA CommitsCounted ==
    ASSUME NEW h, NEW r, Run(h, r), NEW a \in 1..Len(h), \A k \in a..Len(h) : r[k].state = "COMMIT",
           NEW n \in DOMAIN r[a].log, r[a].log[n].bPrepared
    PROVE  Cardinality(CommitsIn(h, n, r[a].log[n].request, a, Len(h))) < CommitQuorum(N)
<1> DEFINE d       == r[a].log[n].request
           Cs(b)   == CommitsIn(h, n, d, a, b)
           Good(b) == /\ n \in DOMAIN r[b].log /\ r[b].log[n].bPrepared /\ r[b].log[n].request = d
                      /\ Cardinality(Cs(b)) <= r[b].log[n].commits
                      /\ Cardinality(Cs(b)) < CommitQuorum(N)
           S       == {b \in a..Len(h) : ~Good(b)}
<1>1. /\ h \in Seq(Message) /\ Len(h) \in Nat /\ a \in Nat /\ a \in 0..Len(h)
      /\ CommitQuorum(N) \in Nat /\ 1 <= CommitQuorum(N)
  BY Quorums DEF Run
<1>2. \A b \in a..Len(h) : IsLocal(r[b])
  BY <1>1, RunIsLocal
<1>3. Good(a)
  <2>1. Cs(a) = {}
    BY <1>1 DEF CommitsIn
  <2>2. r[a].log[n].commits \in Nat
    BY <1>1, <1>2 DEF IsLocal, LogEntry
  <2>3. Cardinality(Cs(a)) = 0
    BY <2>1, FS_EmptySet
  <2> QED
    BY <1>1, <2>2, <2>3
<1> HIDE DEF Good, d
<1>4. ASSUME NEW b \in a..Len(h), b # a, Good(b - 1)
      PROVE  Good(b)
  <2>1. /\ b \in 1..Len(h) /\ b - 1 \in a..Len(h) /\ b - 1 \in Nat /\ a <= b - 1 /\ (b - 1) + 1 = b
    BY <1>1, <1>4
  <2>2. PICK l, m, l2 : l = r[b - 1] /\ m = h[b] /\ l2 = r[b]
    OBVIOUS
  <2>3. /\ m \in Message /\ l2 = After(l, m) /\ IsLocal(l) /\ IsLocal(l2)
        /\ l.state = "COMMIT" /\ l2.state = "COMMIT"
    BY <1>1, <1>2, <2>1, <2>2 DEF Run
  <2>4. /\ n \in DOMAIN l.log /\ l.log[n].bPrepared /\ l.log[n].request = d
        /\ Cardinality(Cs(b - 1)) <= l.log[n].commits
        /\ Cardinality(Cs(b - 1)) < CommitQuorum(N)
    BY <1>4, <2>2 DEF Good
  <2>5. /\ n \in DOMAIN l2.log /\ l2.log[n].bPrepared /\ l2.log[n].request = d
        /\ IF m.type = "COMMIT" /\ m.n = n /\ m.digest = d
             THEN l2.log[n].commits = l.log[n].commits + 1 /\ l2.log[n].commits < CommitQuorum(N)
             ELSE l2.log[n].commits = l.log[n].commits
    BY <2>3, <2>4, StaysInCommit
  <2>6. l.log[n].commits \in Nat /\ l2.log[n].commits \in Nat
    BY <2>3, <2>4, <2>5 DEF IsLocal, LogEntry
  <2>7. /\ Cs(b - 1) \subseteq (a + 1)..(b - 1) /\ Cs(b) \subseteq Cs(b - 1) \cup {b}
        /\ ~(m.type = "COMMIT" /\ m.n = n /\ m.digest = d) => Cs(b) \subseteq Cs(b - 1)
    BY <1>1, <2>1, <2>2 DEF CommitsIn
  <2> HIDE DEF Cs
  <2>8. /\ Cardinality(Cs(b - 1)) \in Nat /\ Cardinality(Cs(b)) \in Nat
        /\ Cardinality(Cs(b)) <= Cardinality(Cs(b - 1)) + 1
        /\ Cs(b) \subseteq Cs(b - 1) => Cardinality(Cs(b)) <= Cardinality(Cs(b - 1))
    <3>1. PICK e \in Nat : e = b - 1 /\ e + 1 = b /\ a <= e
      BY <2>1
    <3> QED
      BY <1>1, <2>7, <3>1, OneMore
  <2>9. Cardinality(Cs(b)) <= l2.log[n].commits /\ Cardinality(Cs(b)) < CommitQuorum(N)
    BY <1>1, <2>4, <2>5, <2>6, <2>7, <2>8
  <2> QED
    BY <2>2, <2>5, <2>9 DEF Good
<1>5. S = {}
  <2> SUFFICES ASSUME S # {} PROVE FALSE
    OBVIOUS
  <2>1. S \subseteq Nat
    BY <1>1
  <2>2. PICK b \in S : \A u \in S : b <= u
    <3> HIDE DEF S
    <3> QED
      BY <2>1, LeastNatural
  <2>3. b # a /\ b - 1 \in a..Len(h) /\ b - 1 < b
    BY <1>1, <1>3, <2>2
  <2>4. b - 1 \notin S
    BY <2>1, <2>2, <2>3
  <2> QED
    BY <1>4, <2>2, <2>3, <2>4
<1>6. Good(Len(h))
  BY <1>1, <1>5
<1> QED
  BY <1>6 DEF Good, d

\* A run that is in another phase than the first came there at some message.
LEMMA LastEntered ==
    ASSUME NEW h, NEW r, Run(h, r), NEW s, s # "PRE_PREPARE", r[Len(h)].state = s
    PROVE  \E a \in 1..Len(h) : r[a - 1].state # s /\ \A k \in a..Len(h) : r[k].state = s
<1> DEFINE S == {d \in 0..Len(h) : r[Len(h) - d].state # s}
<1>1. Len(h) \in Nat
  BY DEF Run
<1>2. Len(h) \in S
  <2>1. Len(h) - Len(h) = 0 /\ r[0].state = "PRE_PREPARE"
    BY <1>1 DEF Run, Fresh
  <2> QED
    BY <1>1, <2>1
<1>3. PICK d \in S : \A u \in S : d <= u
  <2>1. S \in SUBSET Nat /\ S # {}
    BY <1>1, <1>2
  <2> HIDE DEF S
  <2> QED
    BY <2>1, LeastNatural
<1>4. d # 0 /\ d \in 0..Len(h)
  <2>1. Len(h) - 0 = Len(h)
    BY <1>1
  <2> QED
    BY <1>3, <2>1
<1>5. PICK a \in 1..Len(h) : a = Len(h) - d + 1
  BY <1>1, <1>4
<1>6. r[a - 1].state # s
  <2>1. a - 1 = Len(h) - d
    BY <1>1, <1>4, <1>5
  <2> QED
    BY <1>3, <2>1
<1>7. ASSUME NEW k \in a..Len(h)
      PROVE  r[k].state = s
  <2>1. Len(h) - k \in 0..Len(h) /\ Len(h) - k < d /\ Len(h) - (Len(h) - k) = k
    BY <1>1, <1>4, <1>5
  <2>2. Len(h) - k \notin S
    BY <1>3, <1>4, <2>1
  <2> QED
    BY <2>1, <2>2
<1> QED
  BY <1>6, <1>7

\* If each of some nodes has sent one of some messages, there are as many.
LEMMA AsManyMessages ==
    ASSUME NEW h, NEW T, IsFiniteSet(T), NEW R, \A i \in R : \E k \in T : h[k].nodeId = i
    PROVE  Cardinality(R) <= Cardinality(T)
<1> DEFINE g == [i \in R |-> CHOOSE k \in T : h[k].nodeId = i]
<1>1. \A i \in R : g[i] \in T /\ h[g[i]].nodeId = i
  OBVIOUS
<1>2. g \in [R -> T]
  BY <1>1
<1> HIDE DEF g
<1>3. g \in Injection(R, T)
  BY <1>1, <1>2 DEF Injection, IsInjective
<1> QED
  BY <1>3, FS_Injection

\* If as many nodes as PREPAREs are waited for have handled everything, the run
\* ends between rounds.
LEMMA RunEndsBetweenRounds ==
    ASSUME NEW h, NEW r, Run(h, r), NEW R, Cardinality(R) >= PrepareQuorum(N), IsFiniteSet(R),
           \A i \in R : Answered(h, r, i, Len(h))
    PROVE  r[Len(h)].state = "PRE_PREPARE"
<1>1. h \in Seq(Message) /\ Len(h) \in Nat /\ Cardinality(R) \in Nat
  BY FS_CardinalityType DEF Run
<1>2. ASSUME NEW a \in 1..Len(h), NEW T, T \subseteq (a + 1)..Len(h)
      PROVE  IsFiniteSet(T) /\ Cardinality(T) \in Nat
  <2>1. IsFiniteSet((a + 1)..Len(h))
    BY <1>1, FS_Interval
  <2>2. IsFiniteSet(T)
    BY <1>2, <2>1, FS_Subset
  <2> QED
    BY <2>2, FS_CardinalityType
<1>3. r[Len(h)].state # "PREPARE"
  <2> SUFFICES ASSUME r[Len(h)].state = "PREPARE" PROVE FALSE
    OBVIOUS
  <2>1. PICK a \in 1..Len(h) : r[a - 1].state # "PREPARE" /\ \A k \in a..Len(h) : r[k].state = "PREPARE"
    BY LastEntered
  <2>2. r[a] = After(r[a - 1], h[a]) /\ r[a].state = "PREPARE"
    BY <1>1, <2>1 DEF Run
  <2>3. TakesPrePrepare(r[a - 1], h[a]) /\ h[a].n \in DOMAIN r[a].log
    BY <2>1, <2>2, EntersPrepare
  <2>4. PICK n : n = h[a].n
    OBVIOUS
  <2>5. PICK T : T = PreparesIn(h, n, a, Len(h))
    OBVIOUS
  <2>6. ASSUME NEW i \in R
        PROVE  \E k \in T : h[k].nodeId = i
    <3>1. PICK k \in (a + 1)..Len(h) : h[k] = PrepareMsg(i, h[a].n, h[a].request)
      BY <2>3 DEF Answered
    <3>2. h[k].type = "PREPARE" /\ h[k].n = n /\ h[k].nodeId = i
      BY <2>4, <3>1 DEF PrepareMsg
    <3> QED
      BY <2>5, <3>2 DEF PreparesIn
  <2>7. IsFiniteSet(T) /\ Cardinality(T) \in Nat
    BY <1>2, <2>5 DEF PreparesIn
  <2>8. Cardinality(R) <= Cardinality(T)
    BY <2>6, <2>7, AsManyMessages
  <2>9. Cardinality(T) < PrepareQuorum(N)
    BY <2>1, <2>3, <2>4, <2>5, PreparesCounted
  <2> QED
    BY <1>1, <2>7, <2>8, <2>9, Quorums
<1>4. r[Len(h)].state # "COMMIT"
  <2> SUFFICES ASSUME r[Len(h)].state = "COMMIT" PROVE FALSE
    OBVIOUS
  <2>1. PICK a \in 1..Len(h) : r[a - 1].state # "COMMIT" /\ \A k \in a..Len(h) : r[k].state = "COMMIT"
    BY LastEntered
  <2>2. r[a] = After(r[a - 1], h[a]) /\ r[a].state = "COMMIT" /\ IsLocal(r[a - 1])
    <3>1. a - 1 \in 0..Len(h) /\ a \in a..Len(h)
      BY <1>1
    <3> QED
      BY <2>1, <3>1, RunIsLocal DEF Run
  <2>3. PICK n, d : n = h[a].n /\ d = r[a - 1].log[h[a].n].request
    OBVIOUS
  <2>4. /\ TakesPrepare(r[a - 1], h[a]) /\ n \in DOMAIN r[a].log
        /\ r[a].log[n].bPrepared /\ r[a].log[n].request = d
    BY <2>1, <2>2, <2>3, EntersCommit
  <2>5. PICK T : T = CommitsIn(h, n, d, a, Len(h))
    OBVIOUS
  <2>6. ASSUME NEW i \in R
        PROVE  \E k \in T : h[k].nodeId = i
    <3>1. PICK k \in (a + 1)..Len(h) : h[k] = CommitMsg(i, n, d)
      BY <2>2, <2>3, <2>4 DEF Answered
    <3>2. h[k].type = "COMMIT" /\ h[k].n = n /\ h[k].nodeId = i /\ h[k].digest = d
      BY <3>1 DEF CommitMsg
    <3> QED
      BY <2>5, <3>2 DEF CommitsIn
  <2>7. IsFiniteSet(T) /\ Cardinality(T) \in Nat
    BY <1>2, <2>5 DEF CommitsIn
  <2>8. Cardinality(R) <= Cardinality(T)
    BY <2>6, <2>7, AsManyMessages
  <2>9. Cardinality(T) < CommitQuorum(N)
    BY <2>1, <2>4, <2>5, CommitsCounted
  <2> QED
    BY <1>1, <2>7, <2>8, <2>9, Quorums
<1>5. r[Len(h)].state \in {"PRE_PREPARE", "PREPARE", "COMMIT"}
  BY <1>1, RunIsLocal DEF IsLocal
<1> QED
  BY <1>3, <1>4, <1>5

-----------------------------------------------------------------------------
(* The primary takes requests again *)

\* A listener leaves only when it is told to stop.
RunningListens == \A i \in Node : stopped[i] \/ listening[i]

\* Queue q has a PREPREPARE.
HasPrePrepare(q) == \E k \in 1..Len(q) : q[k].type = "PREPREPARE"

\* Between rounds the primary refuses requests only while the PREPREPARE of the
\* one it took is before its own listener.
PrePrepareToCome ==
    (listening[Primary] /\ bRequestRecieved[Primary] /\ state[Primary] = "PRE_PREPARE")
    => HasPrePrepare(dataQueue[Primary])

\* A message behind a queue loses none of its PREPREPAREs; taking the head off
\* loses only that.
LEMMA PrePrepareStays ==
    ASSUME NEW q \in Seq(Message)
    PROVE  /\ \A p, c, m : Grown(q, p, c, m) /\ HasPrePrepare(q) => HasPrePrepare(p)
           /\ \A p, m : Grown(q, p, 1, m) /\ m.type = "PREPREPARE" => HasPrePrepare(p)
           /\ q # <<>> /\ HasPrePrepare(q) /\ Head(q).type # "PREPREPARE" => HasPrePrepare(Tail(q))
<1>1. Len(q) \in Nat
  OBVIOUS
<1>2. ASSUME NEW p, NEW c, NEW m, Grown(q, p, c, m), HasPrePrepare(q)
      PROVE  HasPrePrepare(p)
  BY <1>1, <1>2 DEF Grown, HasPrePrepare
<1>3. ASSUME NEW p, NEW m, Grown(q, p, 1, m), m.type = "PREPREPARE"
      PROVE  HasPrePrepare(p)
  <2>1. Len(q) + 1 \in 1..Len(p) /\ p[Len(q) + 1] = m
    BY <1>1, <1>3 DEF Grown
  <2> QED
    BY <1>3, <2>1 DEF HasPrePrepare
<1>4. ASSUME q # <<>>, HasPrePrepare(q), Head(q).type # "PREPREPARE"
      PROVE  HasPrePrepare(Tail(q))
  <2>1. PICK k \in 1..Len(q) : q[k].type = "PREPREPARE"
    BY <1>4 DEF HasPrePrepare
  <2>2. /\ Head(q) = q[1] /\ Len(Tail(q)) = Len(q) - 1
        /\ \A j \in 1..(Len(q) - 1) : Tail(q)[j] = q[j + 1]
    BY <1>1, <1>4
  <2>3. k # 1
    BY <1>4, <2>1, <2>2
  <2>4. k - 1 \in 1..(Len(q) - 1) /\ (k - 1) + 1 = k
    BY <1>1, <2>1, <2>3
  <2>5. Tail(q)[k - 1] = q[k]
    BY <2>2, <2>4
  <2> QED
    BY <2>1, <2>2, <2>4, <2>5 DEF HasPrePrepare
<1> QED
  BY <1>2, <1>3, <1>4

\* The primary takes the PREPREPARE when it comes: it gives a number once.
LEMMA PrimaryTakesPrePrepare ==
    ASSUME TypeOK, NumbersGivenOnce, NEW i \in Node, dataQueue[i] # <<>>, NEW m,
           m = Head(dataQueue[i]), m.type = "PREPREPARE", state[i] = "PRE_PREPARE"
    PROVE  AcceptsPrePrepare(i, m)
<1> SUFFICES ASSUME Logged(i, m.n)
             PROVE  requestLog[i][m.n].request = m.request
  BY DEF AcceptsPrePrepare
<1>1. dataQueue[i] \in Seq(Message)
  BY OrderTypes
<1>2. 1 \in 1..Len(dataQueue[i]) /\ m = dataQueue[i][1]
  BY <1>1
<1>3. m \in Queued(dataQueue)
  BY <1>2 DEF Queued
<1>4. <<m.n, m.request>> \in Assignments
  BY <1>3 DEF Assignments, PrePrepared
<1>5. <<m.n, requestLog[i][m.n].request>> \in Assignments
  BY DEF Assignments, LoggedRequests, Logged
<1> QED
  BY <1>4, <1>5 DEF NumbersGivenOnce

\* The listeners' turns keep the invariant.
LEMMA TurnKeepsPrePrepare ==
    ASSUME TypeOK, NoOverflow, NumbersGivenOnce, PrePrepareToCome, NEW i \in Node, TakeMessage(i)
    PROVE  PrePrepareToCome'
<1> DEFINE q == dataQueue[Primary]
<1> SUFFICES ASSUME listening'[Primary], bRequestRecieved'[Primary], state'[Primary] = "PRE_PREPARE"
             PROVE  HasPrePrepare(dataQueue'[Primary])
  BY DEF PrePrepareToCome
<1>0. /\ Primary \in Node /\ q \in Seq(Message)
      /\ state \in [Node -> {"PRE_PREPARE", "PREPARE", "COMMIT"}]
      /\ bRequestRecieved \in [Node -> BOOLEAN]
  BY NodeAssumption, OrderTypes DEF TypeOK, RoundType
<1>1. PICK c, y : TurnStep(i, c, y)
  BY ListenMessagesIsTurn
<1>2. /\ listening[Primary] /\ listening[i] /\ dataQueue[i] # <<>>
      /\ Grown(GetData(i)[Primary], dataQueue'[Primary], c, y)
  BY <1>0, <1>1 DEF TurnStep, AllGrown
<1>3. /\ i = Primary => GetData(i)[Primary] = Tail(q)
      /\ i # Primary => GetData(i)[Primary] = q
  BY <1>0, OrderTypes DEF GetData, Queues
<1>4. CASE i # Primary
  <2>1. UNCHANGED bRequestRecieved \/ bRequestRecieved' = [bRequestRecieved EXCEPT ![i] = TRUE]
            \/ bRequestRecieved' = [bRequestRecieved EXCEPT ![i] = FALSE]
    BY DEF TakeMessage, HandleCommonMessage, HandleRequest, HandleReply, HandlePrePrepare,
           HandlePrepare, HandleCommit, CommitRequest, EndRound, DropMessage, roundVars
  <2>2. bRequestRecieved[Primary]
    BY <1>0, <1>4, <2>1
  <2>3. LocalState(Primary)' = LocalState(Primary)
    BY <1>0, <1>1, <1>4 DEF TurnStep
  <2>4. LocalState(Primary)'.state = state'[Primary] /\ LocalState(Primary).state = state[Primary]
    BY DEF LocalState
  <2>5. HasPrePrepare(q)
    BY <1>2, <2>2, <2>3, <2>4 DEF PrePrepareToCome
  <2>6. Grown(q, dataQueue'[Primary], c, y)
    BY <1>2, <1>3, <1>4
  <2> HIDE DEF q
  <2> QED
    BY <1>0, <2>5, <2>6, PrePrepareStays
<1>5. CASE i = Primary
  <2> DEFINE m == Head(q)
  <2>0. /\ q # <<>> /\ Tail(q) \in Seq(Message) /\ Grown(Tail(q), dataQueue'[Primary], c, y)
        /\ q = dataQueue[i]
    BY <1>0, <1>2, <1>3, <1>5
  <2>1. ASSUME bRequestRecieved[Primary], state[Primary] = "PRE_PREPARE", m.type # "PREPREPARE"
        PROVE  HasPrePrepare(dataQueue'[Primary])
    <3>1. HasPrePrepare(q)
      BY <1>2, <2>1 DEF PrePrepareToCome
    <3> HIDE DEF q
    <3>2. HasPrePrepare(Tail(q))
      BY <1>0, <2>0, <2>1, <3>1, PrePrepareStays
    <3>3. PICK rest \in Seq(Message) : rest = Tail(q)
      BY <2>0
    <3> QED
      BY <2>0, <3>2, <3>3, PrePrepareStays
  <2>2. CASE HandleCommonMessage(i, m) \/ HandleReply(i, m)
    BY <2>1, <2>2 DEF HandleCommonMessage, HandleReply, roundVars
  <2>3. CASE HandlePrePrepare(i, m)
    BY <1>0, <1>5, <2>3 DEF HandlePrePrepare
  <2>4. CASE HandlePrepare(i, m)
    <3>1. state[i] = "PREPARE" /\ (state' = state \/ state' = [state EXCEPT ![i] = "COMMIT"])
      BY <2>4 DEF HandlePrepare, AcceptsPrepare
    <3> QED
      BY <1>0, <1>5, <3>1
  <2>5. CASE HandleCommit(i, m)
    <3>1. /\ state[i] = "COMMIT"
          /\ state' = state \/ bRequestRecieved' = [bRequestRecieved EXCEPT ![i] = FALSE]
      BY <2>5 DEF HandleCommit, AcceptsCommit, CommitRequest, EndRound
    <3> QED
      BY <1>0, <1>5, <3>1
  <2>6. CASE DropMessage(i, m)
    <3>1. UNCHANGED <<state, bRequestRecieved>> /\ ~Accepts(i, m)
      BY <2>6 DEF DropMessage, roundVars
    <3>2. m.type # "PREPREPARE"
      BY <1>2, <1>5, <2>0, <3>1, PrimaryTakesPrePrepare DEF Accepts
    <3> QED
      BY <2>1, <3>1, <3>2
  <2>7. CASE HandleRequest(i, m)
    <3>1. PICK p : p = PrePrepareMsg(uiCurrentRequestNumber[i], m.request)
      OBVIOUS
    <3>2. dataQueue' = PostData(GetData(i), p) /\ p.type = "PREPREPARE"
      BY <2>7, <3>1 DEF HandleRequest, PrePrepareMsg
    <3>3. p \in Message
      <4>1. m \in Message /\ m.type = "REQUEST"
        BY <1>0, <2>0, <2>7 DEF HandleRequest
      <4>2. m.request \in Request /\ uiCurrentRequestNumber[i] \in Nat
        BY <4>1, MessageFields DEF TypeOK, RoundType
      <4> QED
        BY <3>1, <4>2, MessageTypes
    <3>4. Grown(GetData(i)[Primary], dataQueue'[Primary], 1, p)
      <4>1. dataQueue \in Queues /\ GetData(i) \in Queues
        BY <1>2, GetDataType, OrderTypes
      <4>2. \A j \in Node : listening[j] => Len(GetData(i)[j]) <= NETWORK_BUFFER_SIZE
        BY <1>2, <4>1, GetDataShortens
      <4>3. AllGrown(GetData(i), 1, p)
        BY <3>2, <3>3, <4>1, <4>2, PostGrows
      <4> QED
        BY <1>0, <1>2, <4>3 DEF AllGrown
    <3>5. PICK rest \in Seq(Message) : rest = GetData(i)[Primary]
      BY <1>3, <1>5, <2>0
    <3> QED
      BY <3>2, <3>4, <3>5, PrePrepareStays
  <2> QED
    BY <1>5, <2>2, <2>3, <2>4, <2>5, <2>6, <2>7 DEF TakeMessage
<1> QED
  BY <1>4, <1>5

\* So do all other steps.
LEMMA OthersKeepPrePrepare ==
    ASSUME TypeOK, NoOverflow, PrePrepareToCome, [Next]_vars, \A i \in Node : ~TakeMessage(i)
    PROVE  PrePrepareToCome'
<1>0. Primary \in Node /\ dataQueue[Primary] \in Seq(Message)
  BY NodeAssumption, OrderTypes
<1>1. UNCHANGED <<state, bRequestRecieved>>
  BY DEF Next, ListenMessages, SendCommonMessage, AddNewBlock, TestWaiting, TakeChunk, SetWaiting, LockResender,
         TestResender, StopWaiting, PostRequest, GoOnReplying, CompareReply, CountReply, AddReplied,
         ClearWaiting, Stop, EndListener, roundVars, vars
<1>2. \/ \E c, m : ThreadStep(c, m)
      \/ \E i \in Node : LeavingStep(i)
      \/ UNCHANGED vars
  BY OtherStepsAreThreadSteps, EndListenerIsLeavingStep DEF Next, ListenMessages
<1>3. ASSUME NEW c, NEW m, ThreadStep(c, m)
      PROVE  PrePrepareToCome'
  <2>1. UNCHANGED listening /\ (listening[Primary] => Grown(dataQueue[Primary], dataQueue'[Primary], c, m))
    BY <1>0, <1>3 DEF ThreadStep, AllGrown
  <2>2. listening[Primary] /\ HasPrePrepare(dataQueue[Primary]) => HasPrePrepare(dataQueue'[Primary])
    BY <1>0, <2>1, PrePrepareStays
  <2> QED
    BY <1>1, <2>1, <2>2 DEF PrePrepareToCome
<1>4. ASSUME NEW i \in Node, LeavingStep(i)
      PROVE  PrePrepareToCome'
  <2>1. CASE i = Primary
    <3>1. ~listening'[Primary]
      BY <1>0, <1>4, <2>1, OrderTypes DEF LeavingStep
    <3> QED
      BY <3>1 DEF PrePrepareToCome
  <2>2. CASE i # Primary
    <3>1. listening'[Primary] = listening[Primary] /\ dataQueue'[Primary] = dataQueue[Primary]
      BY <1>0, <1>4, <2>2, OrderTypes DEF LeavingStep
    <3> QED
      BY <1>1, <3>1 DEF PrePrepareToCome, HasPrePrepare
  <2> QED
    BY <2>1, <2>2
<1>5. CASE UNCHANGED vars
  BY <1>5 DEF vars, netVars, roundVars, stopVars, PrePrepareToCome, HasPrePrepare
<1> QED
  BY <1>2, <1>3, <1>4, <1>5

\* While nothing is lost and enough nodes run, no round is left half done: once
\* everybody has handled everything, all are between rounds and the primary
\* takes requests again.
THEOREM RoundsAreFinished == Spec /\ []NoOverflow => []NoStuckRound
<1>1. Init => RunningListens /\ PrePrepareToCome
  <2> SUFFICES ASSUME Init
               PROVE  RunningListens /\ ~bRequestRecieved[Primary]
    BY DEF PrePrepareToCome
  <2> QED
    BY NodeAssumption DEF Init, RunningListens
<1>2. TypeOK /\ RunningListens /\ [Next]_vars => RunningListens'
  <2> SUFFICES ASSUME TypeOK, RunningListens, [Next]_vars
               PROVE  RunningListens'
    OBVIOUS
  <2>1. stopped \in [Node -> BOOLEAN] /\ listening \in [Node -> BOOLEAN]
    BY DEF TypeOK, StopType
  <2>2. ASSUME NEW i \in Node, Stop(i)
        PROVE  RunningListens'
    BY <2>1, <2>2 DEF Stop, RunningListens
  <2>3. ASSUME NEW i \in Node, EndListener(i)
        PROVE  RunningListens'
    BY <2>1, <2>3 DEF EndListener, RunningListens
  <2>4. CASE UNCHANGED stopVars
    BY <2>4 DEF stopVars, RunningListens
  <2> QED
    BY <2>2, <2>3, <2>4
       DEF Next, ListenMessages, vars, SendCommonMessage, TakeMessage, HandleCommonMessage, HandleRequest,
           HandleReply, HandlePrePrepare, HandlePrepare, HandleCommit, DropMessage, AddNewBlock,
           TestWaiting, TakeChunk, SetWaiting, LockResender, TestResender, StopWaiting, PostRequest,
           GoOnReplying, CompareReply, CountReply, AddReplied, ClearWaiting
<1>3. TypeOK /\ NoOverflow /\ NumbersGivenOnce /\ PrePrepareToCome /\ [Next]_vars => PrePrepareToCome'
  BY TurnKeepsPrePrepare, OthersKeepPrePrepare
<1>4. TypeOK /\ OneRun /\ RunningListens /\ PrePrepareToCome => NoStuckRound
  <2> DEFINE R == {i \in Node : ~stopped[i]}
  <2> SUFFICES ASSUME TypeOK, OneRun, RunningListens, PrePrepareToCome,
                      Primary \in R, Cardinality(R) >= PrepareQuorum(N),
                      \A i \in R : dataQueue[i] = <<>>
               PROVE  (\A i \in R : state[i] = "PRE_PREPARE") /\ ~bRequestRecieved[Primary]
    BY DEF NoStuckRound
  <2>1. PICK h, r : InHistory(h, r)
    BY DEF OneRun
  <2>2. Run(h, r) /\ Len(h) \in Nat
    BY <2>1 DEF InHistory, Run
  <2>3. ASSUME NEW i \in R
        PROVE  listening[i] /\ LocalState(i) = r[Len(h)] /\ Answered(h, r, i, Len(h))
    <3>1. listening[i] /\ i \in Node
      BY DEF RunningListens
    <3>2. Place(h, dataQueue[i]) = Len(h)
      BY <2>2 DEF Place
    <3> QED
      BY <2>1, <3>1, <3>2 DEF InHistory, OnRun
  <2>4. IsFiniteSet(R)
    <3>1. R \subseteq Node
      OBVIOUS
    <3> QED
      BY <3>1, NodeAssumption, FS_Subset
  <2> HIDE DEF R
  <2>5. r[Len(h)].state = "PRE_PREPARE"
    BY <2>2, <2>3, <2>4, RunEndsBetweenRounds
  <2>6. \A i \in R : state[i] = "PRE_PREPARE"
    BY <2>3, <2>5, LocalFields
  <2>7. ~HasPrePrepare(dataQueue[Primary])
    BY DEF HasPrePrepare
  <2> QED
    BY <2>3, <2>6, <2>7 DEF PrePrepareToCome
<1> QED
  BY <1>1, <1>2, <1>3, <1>4, TypeCorrect, NodesAreOnOneRun, GivenOnce, PTL DEF Spec

-----------------------------------------------------------------------------
(* Where blocks are cut *)

\* The numbers after which a block may begin.
Starts == {g * BLOCK_SIZE : g \in Nat}

Group(m) == (m + 1)..(m + BLOCK_SIZE)

\* b is a block cut at one of those places out of the first c transactions.
Cut(b, c) == b \subseteq 1..c /\ \E m \in Starts : b = Group(m)

AllCut(S, c) == \A b \in S : Cut(b, c)

\* What the pool of a node that has received the first c transactions may be:
\* of each group it has all it has received, or the whole group has left it.
PoolCut(p, c) ==
    /\ p \subseteq 1..c
    /\ \A m \in Starts : \/ Group(m) \cap 1..c \subseteq p
                         \/ Group(m) \cap p = {} /\ m + BLOCK_SIZE <= c

\* The arithmetic of the places.
LEMMA StartsApart ==
    /\ 0 \in Starts /\ BLOCK_SIZE \in Nat \ {0}
    /\ \A m \in Starts : m \in Nat
    /\ \A m, n \in Starts : m < n => m + BLOCK_SIZE <= n
    /\ \A t \in Nat : \E m \in Starts : m <= t /\ t < m + BLOCK_SIZE
<1>0. BLOCK_SIZE \in Nat \ {0}
  BY SizeAssumption
<1>1. 0 \in Starts /\ \A m \in Starts : m \in Nat
  BY <1>0 DEF Starts
<1>2. ASSUME NEW g \in Nat, NEW h \in Nat, g * BLOCK_SIZE < h * BLOCK_SIZE
      PROVE  g * BLOCK_SIZE + BLOCK_SIZE <= h * BLOCK_SIZE
  <2>1. g < h
    BY <1>0, <1>2
  <2>2. PICK d \in Nat : h = g + 1 + d
    BY <2>1
  <2>3. h * BLOCK_SIZE = g * BLOCK_SIZE + BLOCK_SIZE + d * BLOCK_SIZE /\ d * BLOCK_SIZE \in Nat
    BY <1>0, <2>2
  <2> QED
    BY <1>0, <2>3
<1>3. ASSUME NEW t \in Nat
      PROVE  \E m \in Starts : m <= t /\ t < m + BLOCK_SIZE
  <2>1. /\ (t \div BLOCK_SIZE) \in Nat /\ (t \div BLOCK_SIZE) * BLOCK_SIZE <= t
        /\ t < (t \div BLOCK_SIZE) * BLOCK_SIZE + BLOCK_SIZE
    BY <1>0
  <2> QED
    BY <2>1 DEF Starts
<1> QED
  BY <1>0, <1>1, <1>2, <1>3 DEF Starts

\* A block is cut whatever is received later, has no transaction 0, and shares
\* none with another.
LEMMA CutsApart ==
    /\ \A b : \A c, d \in Nat : Cut(b, c) /\ c <= d => Cut(b, d)
    /\ \A b : \A c \in Nat : Cut(b, c) => b \cap {0} = {} /\ b # {} /\ b \subseteq Nat
    /\ \A a, b : \A c, d \in Nat : Cut(a, c) /\ Cut(b, d) => a = b \/ a \cap b = {}
<1>1. ASSUME NEW b, NEW c \in Nat, NEW d \in Nat, Cut(b, c), c <= d
      PROVE  Cut(b, d)
  BY <1>1 DEF Cut
<1>2. ASSUME NEW b, NEW c \in Nat, Cut(b, c)
      PROVE  b \cap {0} = {} /\ b # {} /\ b \subseteq Nat
  <2>1. PICK m \in Starts : b = Group(m)
    BY <1>2 DEF Cut
  <2>2. m \in Nat /\ BLOCK_SIZE \in Nat \ {0}
    BY StartsApart
  <2>3. m + 1 \in b
    BY <2>1, <2>2 DEF Group
  <2> QED
    BY <1>2, <2>3 DEF Cut
<1>3. ASSUME NEW a, NEW b, NEW c \in Nat, NEW d \in Nat, Cut(a, c), Cut(b, d)
      PROVE  a = b \/ a \cap b = {}
  <2>1. PICK m \in Starts : a = Group(m)
    BY <1>3 DEF Cut
  <2>2. PICK n \in Starts : b = Group(n)
    BY <1>3 DEF Cut
  <2>3. m \in Nat /\ n \in Nat /\ BLOCK_SIZE \in Nat
    BY StartsApart
  <2>4. m = n \/ m + BLOCK_SIZE <= n \/ n + BLOCK_SIZE <= m
    BY <2>3, StartsApart
  <2> QED
    BY <2>1, <2>2, <2>3, <2>4 DEF Group
<1> QED
  BY <1>1, <1>2, <1>3

\* Receiving the next transaction keeps a pool a pool.
LEMMA PoolReceives ==
    ASSUME NEW c \in Nat, NEW p, PoolCut(p, c)
    PROVE  PoolCut(p \cup {c + 1}, c + 1)
<1>1. p \cup {c + 1} \subseteq 1..(c + 1)
  BY DEF PoolCut
<1>2. ASSUME NEW m \in Starts
      PROVE  \/ Group(m) \cap 1..(c + 1) \subseteq p \cup {c + 1}
             \/ Group(m) \cap (p \cup {c + 1}) = {} /\ m + BLOCK_SIZE <= c + 1
  <2>1. m \in Nat /\ BLOCK_SIZE \in Nat
    BY StartsApart
  <2>2. CASE Group(m) \cap 1..c \subseteq p
    BY <2>2
  <2>3. CASE Group(m) \cap p = {} /\ m + BLOCK_SIZE <= c
    BY <2>1, <2>3 DEF Group
  <2> QED
    BY <2>2, <2>3 DEF PoolCut
<1> QED
  BY <1>1, <1>2 DEF PoolCut

\* So does taking a block out.
LEMMA PoolLoses ==
    ASSUME NEW c \in Nat, NEW p, PoolCut(p, c), NEW b, Cut(b, c)
    PROVE  PoolCut(p \ b, c)
<1>1. p \ b \subseteq 1..c
  BY DEF PoolCut
<1>2. PICK n \in Starts : b = Group(n)
  BY DEF Cut
<1>3. BLOCK_SIZE \in Nat \ {0} /\ \A m \in Starts : m \in Nat
  BY StartsApart
<1>4. n + BLOCK_SIZE <= c
  <2>1. n + BLOCK_SIZE \in b
    BY <1>2, <1>3 DEF Group
  <2> QED
    BY <2>1 DEF Cut
<1>5. ASSUME NEW m \in Starts
      PROVE  \/ Group(m) \cap 1..c \subseteq p \ b
             \/ Group(m) \cap (p \ b) = {} /\ m + BLOCK_SIZE <= c
  <2>1. CASE m = n
    BY <1>2, <1>4, <2>1
  <2>2. CASE m # n
    <3>1. Group(m) \cap b = {}
      <4>1. m \in Nat /\ n \in Nat /\ (m + BLOCK_SIZE <= n \/ n + BLOCK_SIZE <= m)
        BY <1>3, <2>2, StartsApart
      <4> QED
        BY <1>2, <1>3, <4>1 DEF Group
    <3> QED
      BY <3>1 DEF PoolCut
  <2> QED
    BY <2>1, <2>2
<1> QED
  BY <1>1, <1>5 DEF PoolCut

\* The first BLOCK_SIZE transactions of a pool that has as many are a block: no
\* pool has the end of a group without its beginning.
LEMMA ChunkIsCut ==
    ASSUME NEW c \in Nat, NEW p, PoolCut(p, c), Cardinality(p) >= BLOCK_SIZE
    PROVE  Cut(Chunk(p), c)
<1>0. BLOCK_SIZE \in Nat \ {0} /\ \A m \in Starts : m \in Nat
  BY StartsApart
<1>1. p \subseteq 1..c /\ IsFiniteSet(p) /\ p \subseteq Nat
  <2>1. p \subseteq 1..c /\ IsFiniteSet(1..c)
    <3>1. 1 \in Int /\ c \in Int
      OBVIOUS
    <3> QED
      BY <3>1, FS_Interval DEF PoolCut
  <2>2. IsFiniteSet(p)
    BY <2>1, FS_Subset
  <2> QED
    BY <2>1, <2>2
<1>2. p # {}
  BY <1>0, FS_EmptySet
<1>3. PICK t \in p : \A u \in p : t <= u
  BY <1>1, <1>2, LeastNatural
<1>4. PICK m \in Starts : m <= t - 1 /\ t - 1 < m + BLOCK_SIZE
  <2>1. t - 1 \in Nat
    BY <1>1
  <2> QED
    BY <2>1, StartsApart
<1>5. m \in Nat /\ t \in Nat /\ t \in Group(m) /\ t \in 1..c
  BY <1>0, <1>1, <1>4 DEF Group
<1>6. Group(m) \cap 1..c \subseteq p
  BY <1>5 DEF PoolCut
<1>7. \A u \in p : u >= m + 1 /\ u \in Nat /\ u <= c
  BY <1>1, <1>3, <1>4, <1>5
<1>8. m + BLOCK_SIZE <= c
  <2> SUFFICES ASSUME c < m + BLOCK_SIZE
               PROVE  FALSE
    BY <1>0, <1>5
  <2>1. p \subseteq (m + 1)..c
    BY <1>5, <1>7
  <2>2. IsFiniteSet((m + 1)..c) /\ Cardinality((m + 1)..c) = c - m
    <3>1. m + 1 \in Int /\ c \in Int /\ m + 1 <= c
      BY <1>5, <1>7
    <3>2. Cardinality((m + 1)..c) = c - (m + 1) + 1
      BY <3>1, FS_Interval
    <3> QED
      BY <1>5, <3>1, <3>2, FS_Interval
  <2>3. Cardinality(p) <= c - m /\ Cardinality(p) \in Nat
    BY <1>1, <2>1, <2>2, FS_Subset, FS_CardinalityType
  <2> QED
    BY <1>0, <1>5, <2>3
<1>9. Group(m) \subseteq p /\ Group(m) \subseteq 1..c
  BY <1>0, <1>5, <1>6, <1>8 DEF Group
<1>10. ASSUME NEW u \in Group(m)
       PROVE  Cardinality({v \in p : v < u}) < BLOCK_SIZE
  <2>1. u \in Nat /\ m + 1 <= u /\ u <= m + BLOCK_SIZE
    BY <1>0, <1>5, <1>10 DEF Group
  <2>2. {v \in p : v < u} \subseteq (m + 1)..(u - 1)
    <3> SUFFICES ASSUME NEW v \in p, v < u
                 PROVE  v \in (m + 1)..(u - 1)
      OBVIOUS
    <3>1. v \in Nat /\ v >= m + 1
      BY <1>7
    <3> QED
      BY <1>5, <2>1, <3>1
  <2>3. IsFiniteSet((m + 1)..(u - 1)) /\ Cardinality((m + 1)..(u - 1)) = (u - 1) - m
    <3>1. m + 1 \in Int /\ u - 1 \in Int
      BY <1>5, <2>1
    <3>2. Cardinality((m + 1)..(u - 1)) = IF m + 1 > u - 1 THEN 0 ELSE (u - 1) - (m + 1) + 1
      BY <3>1, FS_Interval
    <3> QED
      BY <1>5, <2>1, <3>1, <3>2, FS_Interval
  <2>4. Cardinality({v \in p : v < u}) <= (u - 1) - m /\ Cardinality({v \in p : v < u}) \in Nat
    BY <2>2, <2>3, FS_Subset, FS_CardinalityType
  <2> QED
    BY <1>0, <1>5, <2>1, <2>4
<1>11. ASSUME NEW u \in p, u \notin Group(m)
       PROVE  ~(Cardinality({v \in p : v < u}) < BLOCK_SIZE)
  <2>1. u \in Nat /\ m + BLOCK_SIZE < u
    BY <1>0, <1>5, <1>7, <1>11 DEF Group
  <2>2. Group(m) \subseteq {v \in p : v < u}
    BY <1>0, <1>5, <1>9, <2>1 DEF Group
  <2>3. Cardinality(Group(m)) = BLOCK_SIZE
    <3>1. Cardinality(Group(m)) = IF m + 1 > m + BLOCK_SIZE THEN 0 ELSE (m + BLOCK_SIZE) - (m + 1) + 1
      BY <1>0, <1>5, FS_Interval DEF Group
    <3> QED
      BY <1>0, <1>5, <3>1
  <2>4. IsFiniteSet({v \in p : v < u})
    BY <1>1, FS_Subset
  <2>5. BLOCK_SIZE <= Cardinality({v \in p : v < u}) /\ Cardinality({v \in p : v < u}) \in Nat
    BY <2>2, <2>3, <2>4, FS_Subset, FS_CardinalityType
  <2> QED
    BY <1>0, <2>5
<1>12. Chunk(p) = Group(m)
  BY <1>9, <1>10, <1>11 DEF Chunk
<1> QED
  BY <1>9, <1>12 DEF Cut

-----------------------------------------------------------------------------
(* What is still in the queues *)

\* A request on its way is for a block of the first c transactions.
WellCut(m, c) == m.type \in {"REQUEST", "PREPREPARE"} => Cut(m.request.block, c)

\* f[k] counts the transactions a node will have received before the kth message
\* of its queue q, if it has received c and s are posted.
Counts(f, q, c, s) ==
    /\ f[1] = c /\ f[Len(q) + 1] = s
    /\ \A k \in 1..(Len(q) + 1) : f[k] \in 0..s
    /\ \A k \in 1..Len(q) :
          \/ q[k].type = "COMMON_MESSAGE" /\ q[k].tx = f[k] + 1 /\ f[k + 1] = f[k] + 1
          \/ q[k].type # "COMMON_MESSAGE" /\ f[k + 1] = f[k] /\ WellCut(q[k], f[k])

\* The transactions arrive in order, each before the requests that have it.
Arrives(q, c, s) == \E f : Counts(f, q, c, s)

\* What handling a message makes of the number of transactions received.
Counted(m, c, d) ==
    \/ m.type = "COMMON_MESSAGE" /\ m.tx = c + 1 /\ d = c + 1
    \/ m.type # "COMMON_MESSAGE" /\ d = c /\ WellCut(m, c)

\* Nothing is posted yet.
LEMMA NothingArrives ==
    ASSUME NEW q \in Seq(Message), q = <<>>
    PROVE  Arrives(q, 0, 0)
<1> DEFINE f == [k \in {1} |-> 0]
<1>1. Len(q) = 0
  OBVIOUS
<1>2. Counts(f, q, 0, 0)
  BY <1>1 DEF Counts
<1> QED
  BY <1>2 DEF Arrives

\* The first message of a queue.
LEMMA NextArrives ==
    ASSUME NEW q \in Seq(Message), q # <<>>, NEW s \in Nat, NEW c \in 0..s, Arrives(q, c, s)
    PROVE  \E d \in 0..s : Counted(Head(q), c, d) /\ Arrives(Tail(q), d, s)
<1>1. PICK f : Counts(f, q, c, s)
  BY DEF Arrives
<1> DEFINE g == [k \in 1..Len(q) |-> f[k + 1]]
<1>2. /\ Len(q) \in Nat \ {0} /\ Head(q) = q[1] /\ Len(Tail(q)) = Len(q) - 1
      /\ \A k \in 1..(Len(q) - 1) : Tail(q)[k] = q[k + 1]
  OBVIOUS
<1>3. f[2] \in 0..s /\ Counted(Head(q), c, f[2])
  <2>1. 1 \in 1..Len(q) /\ 1 + 1 = 2 /\ 2 \in 1..(Len(q) + 1)
    BY <1>2
  <2> QED
    BY <1>1, <1>2, <2>1 DEF Counts, Counted
<1>4. g[1] = f[2] /\ g[Len(Tail(q)) + 1] = s
  <2>1. 1 \in 1..Len(q) /\ Len(q) \in 1..Len(q) /\ Len(Tail(q)) + 1 = Len(q) /\ 1 + 1 = 2
    BY <1>2
  <2> QED
    BY <1>1, <2>1 DEF Counts
<1>5. \A k \in 1..(Len(Tail(q)) + 1) : g[k] \in 0..s
  BY <1>1, <1>2 DEF Counts
<1>6. ASSUME NEW k \in 1..Len(Tail(q))
      PROVE  \/ /\ Tail(q)[k].type = "COMMON_MESSAGE" /\ Tail(q)[k].tx = g[k] + 1
                /\ g[k + 1] = g[k] + 1
             \/ /\ Tail(q)[k].type # "COMMON_MESSAGE" /\ g[k + 1] = g[k]
                /\ WellCut(Tail(q)[k], g[k])
  <2>1. k + 1 \in 1..Len(q) /\ k \in 1..Len(q) /\ k \in 1..(Len(q) - 1)
    BY <1>2
  <2>2. Tail(q)[k] = q[k + 1] /\ g[k] = f[k + 1] /\ g[k + 1] = f[(k + 1) + 1]
    BY <1>2, <2>1
  <2> QED
    BY <1>1, <2>1, <2>2 DEF Counts
<1> HIDE DEF g
<1>7. Arrives(Tail(q), f[2], s)
  BY <1>4, <1>5, <1>6 DEF Arrives, Counts
<1> QED
  BY <1>3, <1>7

\* What posting m makes of the number of transactions posted.
LEMMA PostedArrives ==
    ASSUME NEW q \in Seq(Message), NEW s \in Nat, NEW s2 \in Nat, NEW c \in 0..s,
           NEW p, NEW n, NEW m, Arrives(q, c, s), Grown(q, p, n, m),
           (n = 0 /\ s2 = s) \/ (n = 1 /\ Counted(m, s, s2))
    PROVE  Arrives(p, c, s2)
<1>1. PICK f : Counts(f, q, c, s)
  BY DEF Arrives
<1>2. Len(q) \in Nat
  OBVIOUS
<1>3. CASE n = 0 /\ s2 = s
  <2>1. Len(p) = Len(q) /\ \A k \in 1..Len(q) : p[k] = q[k]
    BY <1>2, <1>3 DEF Grown
  <2>2. Counts(f, p, c, s2)
    BY <1>1, <1>3, <2>1 DEF Counts
  <2> QED
    BY <2>2 DEF Arrives
<1>4. CASE n = 1 /\ Counted(m, s, s2)
  <2> DEFINE g == [k \in 1..(Len(q) + 2) |-> IF k = Len(q) + 2 THEN s2 ELSE f[k]]
  <2>1. Len(p) = Len(q) + 1 /\ p[Len(q) + 1] = m /\ \A k \in 1..Len(q) : p[k] = q[k]
    BY <1>4 DEF Grown
  <2>2. g[1] = c /\ g[Len(p) + 1] = s2 /\ g[Len(q) + 1] = s /\ (Len(q) + 1) + 1 = Len(q) + 2
    BY <1>1, <1>2, <2>1 DEF Counts
  <2>3. s <= s2
    BY <1>4 DEF Counted
  <2>4. \A k \in 1..(Len(p) + 1) : g[k] \in 0..s2
    BY <1>1, <1>2, <2>1, <2>3 DEF Counts
  <2>5. ASSUME NEW k \in 1..Len(p)
        PROVE  \/ p[k].type = "COMMON_MESSAGE" /\ p[k].tx = g[k] + 1 /\ g[k + 1] = g[k] + 1
               \/ p[k].type # "COMMON_MESSAGE" /\ g[k + 1] = g[k] /\ WellCut(p[k], g[k])
    <3>1. CASE k \in 1..Len(q)
      <4>1. p[k] = q[k] /\ g[k] = f[k] /\ g[k + 1] = f[k + 1]
        BY <1>2, <2>1, <3>1
      <4> QED
        BY <1>1, <3>1, <4>1 DEF Counts
    <3>2. CASE k = Len(q) + 1
      <4>1. p[k] = m /\ g[k] = s /\ g[k + 1] = s2
        BY <1>2, <2>1, <2>2, <3>2
      <4> QED
        BY <1>4, <4>1 DEF Counted
    <3> QED
      BY <1>2, <2>1, <3>1, <3>2
  <2> HIDE DEF g
  <2> QED
    BY <2>2, <2>4, <2>5 DEF Arrives, Counts
<1> QED
  BY <1>3, <1>4

-----------------------------------------------------------------------------
(* The invariant *)

\* The blocks in the hands of a node: those of its threads and the one it last
\* waited for, those it has logged requests for, and those of its chain.
ClientBlocks(i) ==
    created[i] \cup queued[i] \cup ({bIsWaitingForReply[i].second} \ {NoBlock})
        \cup (IF resender[i] = NoResender THEN {} ELSE {resender[i].block})

LoggedBlocks(i) == {requestLog[i][n].request.block : n \in DOMAIN requestLog[i]}

BlocksOf(i) == ClientBlocks(i) \cup LoggedBlocks(i) \cup (ChainBlocks(i) \ {GenesisBlock})

\* Node i has received the first c transactions; all its blocks are cut out of
\* them.
NodeCut(i, c) ==
    /\ c \in 0..sent
    /\ PoolCut(pool[i], c)
    /\ AllCut(BlocksOf(i), c)
    /\ listening[i] => Arrives(dataQueue[i], c, sent)

BlocksCut == \A i \in Node : \E c \in Nat : NodeCut(i, c)

\* What the steps' proofs need of types.
LEMMA CutTypes ==
    ASSUME TypeOK
    PROVE  /\ dataQueue \in Queues /\ sent \in Nat /\ LogType
           /\ DOMAIN requestLog = Node
           /\ \A f \in {dataQueue, pool, chain, created, queued, resender, bIsWaitingForReply,
                        listening} : f = [j \in Node |-> f[j]]
           /\ \A i \in Node : chain[i] \in Seq(Block \cup {GenesisBlock})
<1>1. sent \in Nat
  BY SizeAssumption DEF TypeOK, NetType
<1> QED
  BY <1>1 DEF TypeOK, NetType, LogType, ClientType, DataType, ThreadType, StopType, Queues

\* A step of node i changes nothing another node has but its queue.
LEMMA StepsAreLocal ==
    ASSUME TypeOK, NEW i \in Node, NEW j \in Node \ {i},
           \/ SendCommonMessage(i) \/ TakeMessage(i) \/ GoOnReplying(i) \/ AddNewBlock(i)
           \/ Stop(i) \/ EndListener(i)
    PROVE  pool'[j] = pool[j] /\ BlocksOf(j)' = BlocksOf(j) /\ listening'[j] = listening[j]
<1> DEFINE Same == /\ pool'[j] = pool[j] /\ chain'[j] = chain[j] /\ created'[j] = created[j]
                   /\ queued'[j] = queued[j] /\ resender'[j] = resender[j]
                   /\ bIsWaitingForReply'[j] = bIsWaitingForReply[j]
                   /\ listening'[j] = listening[j] /\ requestLog'[j] = requestLog[j]
<1>0. /\ created \in [Node -> SUBSET Block] /\ queued \in [Node -> SUBSET Block]
      /\ resender \in [Node -> Resender] /\ bIsWaitingForReply \in [Node -> WaitingPair]
      /\ pool \in [Node -> SUBSET Tx] /\ chain \in [Node -> Seq(Block \cup {GenesisBlock})]
      /\ listening \in [Node -> BOOLEAN] /\ LogType
  BY DEF TypeOK, ClientType, DataType, ThreadType, StopType
<1>1. CASE SendCommonMessage(i) \/ Stop(i)
  <2>1. Same
    BY <1>1 DEF SendCommonMessage, Stop, roundVars, clientVars, dataVars, threadVars, stopVars
  <2> QED
    BY <2>1 DEF BlocksOf, ClientBlocks, LoggedBlocks, ChainBlocks
<1>2. CASE EndListener(i)
  <2>1. Same
    BY <1>0, <1>2 DEF EndListener, roundVars, clientVars, threadVars
  <2> QED
    BY <2>1 DEF BlocksOf, ClientBlocks, LoggedBlocks, ChainBlocks
<1>3. CASE AddNewBlock(i)
  <2>1. Same
    BY <1>0, <1>3
       DEF AddNewBlock, TestWaiting, TakeChunk, SetWaiting, LockResender, TestResender,
           StopWaiting, PostRequest, roundVars, clientVars, dataVars, stopVars
  <2> QED
    BY <2>1 DEF BlocksOf, ClientBlocks, LoggedBlocks, ChainBlocks
<1>4. CASE GoOnReplying(i)
  <2>1. Same
    BY <1>0, <1>4
       DEF GoOnReplying, CompareReply, CountReply, AddReplied, ClearWaiting, netVars, roundVars,
           dataVars, threadVars, stopVars
  <2> QED
    BY <2>1 DEF BlocksOf, ClientBlocks, LoggedBlocks, ChainBlocks
<1>5. CASE TakeMessage(i)
  <2>1. /\ chain'[j] = chain[j] /\ pool'[j] = pool[j] /\ bIsWaitingForReply'[j] = bIsWaitingForReply[j]
        /\ created'[j] = created[j] /\ queued'[j] = queued[j] /\ resender'[j] = resender[j]
        /\ listening'[j] = listening[j]
    BY <1>0, <1>5
       DEF TakeMessage, HandleCommonMessage, HandleRequest, HandleReply, HandlePrePrepare,
           HandlePrepare, HandleCommit, CommitRequest, DropMessage, clientVars, dataVars,
           threadVars, stopVars
  <2>2. requestLog'[j] = requestLog[j]
    <3>1. UNCHANGED requestLog \/ \E n, e : requestLog' = LogWith(i, n, e)
      BY <1>5
         DEF TakeMessage, HandleCommonMessage, HandleRequest, HandleReply, HandlePrePrepare,
             HandlePrepare, HandleCommit, DropMessage, roundVars
    <3> QED
      BY <1>0, <3>1, LogWithIsLogPlus
  <2>3. Same
    BY <2>1, <2>2
  <2> QED
    BY <2>3 DEF BlocksOf, ClientBlocks, LoggedBlocks, ChainBlocks
<1> QED
  BY <1>1, <1>2, <1>3, <1>4, <1>5

\* A chain's blocks after a block is appended.
LEMMA ChainBlocksGrow ==
    ASSUME NEW i \in Node, chain[i] \in Seq(Block \cup {GenesisBlock}), NEW b,
           chain'[i] = Append(chain[i], b)
    PROVE  ChainBlocks(i)' \subseteq ChainBlocks(i) \cup {b}
  BY DEF ChainBlocks

\* The requests of a log whose entry e replaces or adds.
LEMMA LoggedBlocksGrow ==
    ASSUME LogType, NEW i \in Node, NEW n, NEW e, requestLog' = LogWith(i, n, e)
    PROVE  LoggedBlocks(i)' \subseteq LoggedBlocks(i) \cup {e.request.block}
<1>1. requestLog'[i] = LogPlus(requestLog[i], n, e)
  BY LogWithIsLogPlus
<1> QED
  BY <1>1 DEF LoggedBlocks, LogPlus

\* What a turn of i's listener makes of its blocks, if the message in hand is
\* well cut.
LEMMA TurnBlocks ==
    ASSUME TypeOK, NEW i \in Node, NEW c \in Nat, PoolCut(pool[i], c), AllCut(BlocksOf(i), c),
           NEW m \in Message, WellCut(m, c),
           \/ HandleRequest(i, m) \/ HandleReply(i, m) \/ HandlePrePrepare(i, m)
           \/ HandlePrepare(i, m) \/ HandleCommit(i, m)
           \/ DropMessage(i, m)
    PROVE  PoolCut(pool'[i], c) /\ AllCut(BlocksOf(i)', c)
<1>0. /\ LogType /\ chain[i] \in Seq(Block \cup {GenesisBlock})
      /\ pool \in [Node -> SUBSET Tx] /\ chain \in [Node -> Seq(Block \cup {GenesisBlock})]
      /\ bIsWaitingForReply \in [Node -> WaitingPair]
  BY DEF TypeOK, ClientType, DataType
<1>1. CASE HandleRequest(i, m) \/ HandleReply(i, m) \/ DropMessage(i, m)
  <2>1. UNCHANGED <<pool, requestLog, chain, created, queued, resender, bIsWaitingForReply>>
    BY <1>1 DEF HandleRequest, HandleReply, DropMessage, clientVars, dataVars, threadVars, roundVars
  <2> QED
    BY <2>1 DEF BlocksOf, ClientBlocks, LoggedBlocks, ChainBlocks
<1>2. CASE HandlePrePrepare(i, m)
  <2>1. UNCHANGED <<pool, chain, created, queued, resender, bIsWaitingForReply>>
    BY <1>2 DEF HandlePrePrepare, clientVars, dataVars, threadVars
  <2>2. ClientBlocks(i)' = ClientBlocks(i) /\ ChainBlocks(i)' = ChainBlocks(i)
    BY <2>1 DEF ClientBlocks, ChainBlocks
  <2>3. LoggedBlocks(i)' \subseteq LoggedBlocks(i) \cup {m.request.block}
    <3>1. UNCHANGED requestLog \/ requestLog' = LogWith(i, m.n, NewEntry(m.request))
      BY <1>2 DEF HandlePrePrepare
    <3>2. NewEntry(m.request).request = m.request
      BY DEF NewEntry
    <3>3. CASE UNCHANGED requestLog
      BY <3>3 DEF LoggedBlocks
    <3>4. CASE requestLog' = LogWith(i, m.n, NewEntry(m.request))
      BY <1>0, <3>2, <3>4, LoggedBlocksGrow
    <3> QED
      BY <3>1, <3>3, <3>4
  <2>4. Cut(m.request.block, c)
    BY <1>2 DEF HandlePrePrepare, WellCut
  <2>5. BlocksOf(i)' \subseteq BlocksOf(i) \cup {m.request.block}
    BY <2>2, <2>3 DEF BlocksOf
  <2> QED
    BY <2>1, <2>4, <2>5 DEF AllCut
<1>3. CASE HandlePrepare(i, m)
  <2>1. UNCHANGED <<pool, chain, created, queued, resender, bIsWaitingForReply>>
    BY <1>3 DEF HandlePrepare, clientVars, dataVars, threadVars
  <2>2. ClientBlocks(i)' = ClientBlocks(i) /\ ChainBlocks(i)' = ChainBlocks(i)
    BY <2>1 DEF ClientBlocks, ChainBlocks
  <2>3. LoggedBlocks(i)' \subseteq LoggedBlocks(i)
    <3>1. m.n \in DOMAIN requestLog[i] /\ requestLog[i][m.n] \in LogEntry
      BY <1>0, <1>3 DEF HandlePrepare, AcceptsPrepare, Logged, LogType
    <3>2. PICK e : requestLog' = LogWith(i, m.n, e) /\ e.request = requestLog[i][m.n].request
      <4>1. PICK x \in LogEntry : x = requestLog[i][m.n]
        BY <3>1
      <4>2. \/ requestLog' = LogWith(i, m.n, [x EXCEPT !.prepares = x.prepares + 1])
            \/ requestLog' = LogWith(i, m.n, [x EXCEPT !.prepares = x.prepares + 1, !.bPrepared = TRUE])
        BY <1>3, <4>1 DEF HandlePrepare
      <4>3. /\ [x EXCEPT !.prepares = x.prepares + 1].request = x.request
            /\ [x EXCEPT !.prepares = x.prepares + 1, !.bPrepared = TRUE].request = x.request
        BY DEF LogEntry
      <4> QED
        BY <4>1, <4>2, <4>3
    <3>3. LoggedBlocks(i)' \subseteq LoggedBlocks(i) \cup {e.request.block}
      BY <1>0, <3>2, LoggedBlocksGrow
    <3> QED
      BY <3>1, <3>2, <3>3 DEF LoggedBlocks
  <2>4. BlocksOf(i)' \subseteq BlocksOf(i)
    BY <2>2, <2>3 DEF BlocksOf
  <2> QED
    BY <2>1, <2>4 DEF AllCut
<1>4. CASE HandleCommit(i, m)
  <2> DEFINE b == requestLog[i][m.n].request.block
  <2>1. UNCHANGED <<created, queued, resender, bIsWaitingForReply>>
    BY <1>4 DEF HandleCommit, clientVars, threadVars
  <2>2. ClientBlocks(i)' = ClientBlocks(i)
    BY <2>1 DEF ClientBlocks
  <2>3. m.n \in DOMAIN requestLog[i] /\ requestLog[i][m.n] \in LogEntry
    BY <1>0, <1>4 DEF HandleCommit, AcceptsCommit, Logged, LogType
  <2>4. b \in LoggedBlocks(i)
    BY <2>3 DEF LoggedBlocks
  <2>5. LoggedBlocks(i)' \subseteq LoggedBlocks(i)
    <3>1. PICK e : requestLog' = LogWith(i, m.n, e) /\ e.request = requestLog[i][m.n].request
      BY <1>4, <2>3 DEF HandleCommit, LogEntry
    <3>2. LoggedBlocks(i)' \subseteq LoggedBlocks(i) \cup {e.request.block}
      BY <1>0, <3>1, LoggedBlocksGrow
    <3> QED
      BY <2>4, <3>1, <3>2
  <2>6. Cut(b, c)
    BY <2>4 DEF AllCut, BlocksOf
  <2>7. \/ UNCHANGED <<pool, chain>>
        \/ pool'[i] = pool[i] \ b /\ chain'[i] = Append(chain[i], b)
    BY <1>0, <1>4 DEF HandleCommit, CommitRequest, Without, dataVars
  <2> HIDE DEF b
  <2>8. ChainBlocks(i)' \subseteq ChainBlocks(i) \cup {b}
    <3>1. CASE UNCHANGED <<pool, chain>>
      BY <3>1 DEF ChainBlocks
    <3>2. CASE chain'[i] = Append(chain[i], b)
      BY <1>0, <3>2, ChainBlocksGrow
    <3> QED
      BY <2>7, <3>1, <3>2
  <2>9. BlocksOf(i)' \subseteq BlocksOf(i)
    BY <2>2, <2>4, <2>5, <2>8 DEF BlocksOf
  <2>10. PoolCut(pool'[i], c)
    BY <2>6, <2>7, PoolLoses
  <2> QED
    BY <2>9, <2>10 DEF AllCut
<1> QED
  BY <1>1, <1>2, <1>3, <1>4

\* What the step of an AddNewBlock thread of i, or of a REPLY handler, makes of
\* its blocks.
LEMMA ThreadBlocks ==
    ASSUME TypeOK, NEW i \in Node, NEW c \in Nat, PoolCut(pool[i], c), AllCut(BlocksOf(i), c),
           SendCommonMessage(i) \/ AddNewBlock(i) \/ GoOnReplying(i) \/ Stop(i)
    PROVE  PoolCut(pool'[i], c) /\ AllCut(BlocksOf(i)', c)
<1>0. /\ created \in [Node -> SUBSET Block] /\ queued \in [Node -> SUBSET Block]
      /\ resender \in [Node -> Resender] /\ bIsWaitingForReply \in [Node -> WaitingPair]
      /\ pool \in [Node -> SUBSET Tx] /\ chain \in [Node -> Seq(Block \cup {GenesisBlock})]
  BY DEF TypeOK, ClientType, DataType, ThreadType
<1>1. CASE UNCHANGED <<pool, requestLog, chain, created, queued, resender, bIsWaitingForReply>>
  BY <1>1 DEF BlocksOf, ClientBlocks, LoggedBlocks, ChainBlocks
<1>2. CASE SendCommonMessage(i) \/ Stop(i) \/ TestWaiting(i)
  BY <1>1, <1>2
     DEF SendCommonMessage, Stop, TestWaiting, roundVars, clientVars, dataVars, threadVars
<1>3. ASSUME UNCHANGED <<requestLog, chain>>
      PROVE  BlocksOf(i)' = ClientBlocks(i)' \cup LoggedBlocks(i) \cup (ChainBlocks(i) \ {GenesisBlock})
  BY <1>3 DEF BlocksOf, LoggedBlocks, ChainBlocks
<1>4. CASE TakeChunk(i)
  <2>1. UNCHANGED <<requestLog, chain, queued, resender, bIsWaitingForReply>>
    BY <1>4 DEF TakeChunk, roundVars, clientVars
  <2>2. \/ UNCHANGED <<pool, created>>
        \/ /\ Cardinality(pool[i]) >= BLOCK_SIZE
           /\ pool'[i] = pool[i] \ Chunk(pool[i])
           /\ created'[i] = created[i] \cup {Chunk(pool[i])}
    BY <1>0, <1>4 DEF TakeChunk
  <2>3. CASE /\ Cardinality(pool[i]) >= BLOCK_SIZE
             /\ pool'[i] = pool[i] \ Chunk(pool[i])
             /\ created'[i] = created[i] \cup {Chunk(pool[i])}
    <3>1. Cut(Chunk(pool[i]), c)
      BY <2>3, ChunkIsCut
    <3>2. PoolCut(pool'[i], c)
      BY <2>3, <3>1, PoolLoses
    <3>3. ClientBlocks(i)' \subseteq ClientBlocks(i) \cup {Chunk(pool[i])}
      BY <2>1, <2>3 DEF ClientBlocks
    <3>4. BlocksOf(i)' \subseteq BlocksOf(i) \cup {Chunk(pool[i])}
      BY <1>3, <2>1, <3>3 DEF BlocksOf
    <3> QED
      BY <3>1, <3>2, <3>4 DEF AllCut
  <2> QED
    BY <1>1, <2>1, <2>2, <2>3
<1>5. CASE SetWaiting(i) \/ LockResender(i) \/ TestResender(i) \/ StopWaiting(i) \/ PostRequest(i)
  <2>1. UNCHANGED <<pool, requestLog, chain>>
    BY <1>5 DEF SetWaiting, LockResender, TestResender, StopWaiting, PostRequest, roundVars, dataVars
  <2>2. ClientBlocks(i)' \subseteq ClientBlocks(i)
    <3>1. CASE SetWaiting(i)
      <4>1. PICK b \in created[i] :
                /\ created'[i] = created[i] \ {b} /\ queued'[i] = queued[i] \cup {b}
                /\ bIsWaitingForReply'[i] = Pair(TRUE, b) /\ UNCHANGED resender
        BY <1>0, <3>1 DEF SetWaiting
      <4>2. Pair(TRUE, b).second = b
        BY DEF Pair
      <4> QED
        BY <4>1, <4>2 DEF ClientBlocks
    <3>2. CASE LockResender(i)
      <4>1. PICK b \in queued[i] :
                /\ queued'[i] = queued[i] \ {b} /\ resender'[i] = Resending(b, "loop", 0)
                /\ UNCHANGED <<created, bIsWaitingForReply>>
        BY <1>0, <3>2 DEF LockResender, clientVars
      <4>2. Resending(b, "loop", 0).block = b
        BY DEF Resending
      <4> QED
        BY <4>1, <4>2 DEF ClientBlocks
    <3>3. CASE TestResender(i) \/ StopWaiting(i) \/ PostRequest(i)
      <4>1. resender[i] # NoResender
        <5>1. resender[i].pc # "none" /\ NoResender.pc = "none"
          BY <3>3 DEF TestResender, StopWaiting, PostRequest, NoResender, Resending
        <5> QED
          BY <5>1
      <4>2. resender'[i] = NoResender \/ resender'[i].block = resender[i].block
        <5>1. \A pc, n : Resending(resender[i].block, pc, n).block = resender[i].block
          BY DEF Resending
        <5>2. CASE TestResender(i)
          <6>1. \/ resender' = [resender EXCEPT ![i] = NoResender]
                \/ \E pc, n : resender' = [resender EXCEPT ![i] = Resending(resender[i].block, pc, n)]
            BY <5>2, Zenon DEF TestResender
          <6> QED
            BY <1>0, <5>1, <6>1
        <5>3. CASE StopWaiting(i)
          BY <1>0, <5>3 DEF StopWaiting
        <5>4. CASE PostRequest(i)
          BY <1>0, <5>1, <5>4 DEF PostRequest
        <5> QED
          BY <3>3, <5>2, <5>3, <5>4
      <4>3. /\ UNCHANGED <<created, queued>>
            /\ bIsWaitingForReply'[i].second = bIsWaitingForReply[i].second
        <5>1. /\ UNCHANGED <<created, queued>>
              /\ \/ UNCHANGED bIsWaitingForReply
                 \/ bIsWaitingForReply' = [bIsWaitingForReply EXCEPT ![i].first = FALSE]
          BY <3>3 DEF TestResender, StopWaiting, PostRequest, clientVars
        <5> QED
          BY <1>0, <5>1, ValueTypes
      <4> QED
        BY <4>1, <4>2, <4>3 DEF ClientBlocks
    <3> QED
      BY <1>5, <3>1, <3>2, <3>3
  <2>3. BlocksOf(i)' \subseteq BlocksOf(i)
    BY <1>3, <2>1, <2>2 DEF BlocksOf
  <2> QED
    BY <2>1, <2>3 DEF AllCut
<1>6. CASE CompareReply(i) \/ CountReply(i)
  BY <1>1, <1>6 DEF CompareReply, CountReply, roundVars, dataVars, threadVars
<1>7. CASE ClearWaiting(i)
  <2>1. /\ UNCHANGED <<pool, requestLog, chain, created, queued, resender>>
        /\ bIsWaitingForReply'[i].second = bIsWaitingForReply[i].second
    BY <1>0, <1>7, ValueTypes DEF ClearWaiting, roundVars, dataVars, threadVars
  <2> QED
    BY <2>1 DEF BlocksOf, ClientBlocks, LoggedBlocks, ChainBlocks
<1>8. CASE AddReplied(i)
  <2>1. PICK b : b = bIsWaitingForReply[i].second
    OBVIOUS
  <2>2. b \in Block /\ b # NoBlock
    <3>1. replying[i] # NotReplying
      BY <1>8 DEF AddReplied, NotReplying, Replying
    <3> QED
      BY <2>1, <3>1, InitialTypes DEF TypeOK, ClientType
  <2>3. /\ UNCHANGED <<pool, requestLog, created, queued, resender, bIsWaitingForReply>>
        /\ chain'[i] = Append(chain[i], b)
    BY <1>0, <1>8, <2>1 DEF AddReplied, roundVars, threadVars
  <2>4. /\ ClientBlocks(i)' = ClientBlocks(i) /\ LoggedBlocks(i)' = LoggedBlocks(i)
        /\ b \in ClientBlocks(i)
    BY <2>1, <2>2, <2>3 DEF ClientBlocks, LoggedBlocks
  <2>5. ChainBlocks(i)' \subseteq ChainBlocks(i) \cup {b}
    BY <1>0, <2>3, ChainBlocksGrow
  <2>6. BlocksOf(i)' \subseteq BlocksOf(i)
    BY <2>4, <2>5 DEF BlocksOf
  <2> QED
    BY <2>3, <2>6 DEF AllCut
<1> QED
  BY <1>2, <1>4, <1>5, <1>6, <1>7, <1>8 DEF AddNewBlock, GoOnReplying

\* Which message a step posts, to queues that have room, if any.
Posted(queues) ==
    \E n, m : /\ AllGrown(queues, n, m)
              /\ (n = 0 /\ sent' = sent) \/ (n = 1 /\ Counted(m, sent, sent'))

\* What is left of i's queue once its listener has taken a message.
LEMMA TurnPosts ==
    ASSUME TypeOK, NoOverflow, NEW i \in Node, TakeMessage(i),
           WellCut(Head(dataQueue[i]), sent)
    PROVE  Posted(GetData(i))
<1> DEFINE m == Head(dataQueue[i])
<1>1. dataQueue \in Queues /\ dataQueue[i] # <<>> /\ LogType
  BY DEF TakeMessage, TypeOK, NetType, Queues
<1>2. m \in Message /\ GetData(i) \in Queues
  BY <1>1, GetDataType
<1>3. \A j \in Node : listening[j] => Len(GetData(i)[j]) <= NETWORK_BUFFER_SIZE
  BY <1>1, GetDataShortens
<1>4. sent' = sent
  BY DEF TakeMessage, HandleCommonMessage, HandleRequest, HandleReply, HandlePrePrepare,
         HandlePrepare, HandleCommit, DropMessage
<1>5. WellCut(m, sent)
  OBVIOUS
<1> HIDE DEF m
<1>6. ASSUME dataQueue' = GetData(i)
      PROVE  Posted(GetData(i))
  <2>1. AllGrown(GetData(i), 0, m)
    BY <1>2, <1>3, <1>6, PostGrows
  <2> QED
    BY <1>4, <2>1 DEF Posted
<1>7. ASSUME NEW x \in Message, dataQueue' = PostData(GetData(i), x), WellCut(x, sent),
             x.type # "COMMON_MESSAGE"
      PROVE  Posted(GetData(i))
  <2>1. AllGrown(GetData(i), 1, x)
    BY <1>2, <1>3, <1>7, PostGrows
  <2> QED
    BY <1>4, <1>7, <2>1 DEF Posted, Counted
<1>8. CASE HandleCommonMessage(i, m) \/ HandleReply(i, m) \/ DropMessage(i, m)
  BY <1>6, <1>8 DEF HandleCommonMessage, HandleReply, DropMessage
<1>9. CASE HandleRequest(i, m)
  <2>1. m.request \in Request /\ uiCurrentRequestNumber[i] \in Nat /\ m.type = "REQUEST"
    BY <1>2, <1>9, MessageFields DEF HandleRequest, TypeOK, RoundType
  <2> DEFINE x == PrePrepareMsg(uiCurrentRequestNumber[i], m.request)
  <2>2. x \in Message
    BY <2>1, MessageTypes
  <2>3. x.type = "PREPREPARE" /\ x.request = m.request
    BY DEF PrePrepareMsg
  <2>4. WellCut(x, sent)
    BY <1>5, <2>1, <2>3 DEF WellCut
  <2>5. dataQueue' = PostData(GetData(i), x)
    BY <1>9 DEF HandleRequest
  <2> HIDE DEF x
  <2> QED
    BY <1>7, <2>2, <2>3, <2>4, <2>5
<1>10. CASE HandlePrePrepare(i, m)
  <2> DEFINE x == PrepareMsg(i, m.n, m.request)
  <2>1. x \in Message
    BY <1>2, <1>10, MessageFields, MessageTypes DEF HandlePrePrepare
  <2>2. x.type = "PREPARE" /\ dataQueue' = PostData(GetData(i), x)
    BY <1>10 DEF HandlePrePrepare, PrepareMsg
  <2> HIDE DEF x
  <2> QED
    BY <1>7, <2>1, <2>2 DEF WellCut
<1>11. CASE HandlePrepare(i, m)
  <2> DEFINE x == CommitMsg(i, m.n, requestLog[i][m.n].request)
  <2>1. x \in Message
    <3>1. m.n \in Nat /\ requestLog[i][m.n] \in LogEntry
      BY <1>1, <1>2, <1>11, MessageFields DEF HandlePrepare, AcceptsPrepare, Logged, LogType
    <3> QED
      BY <3>1, LogEntryUpdates, MessageTypes
  <2>2. x.type = "COMMIT"
    BY DEF CommitMsg
  <2>3. dataQueue' = GetData(i) \/ dataQueue' = PostData(GetData(i), x)
    BY <1>11 DEF HandlePrepare
  <2> HIDE DEF x
  <2> QED
    BY <1>6, <1>7, <2>1, <2>2, <2>3 DEF WellCut
<1>12. CASE HandleCommit(i, m)
  <2> DEFINE x == ReplyMsg(i, requestLog[i][m.n].request)
  <2>1. x \in Message
    <3>1. m.n \in Nat /\ requestLog[i][m.n] \in LogEntry
      BY <1>1, <1>2, <1>12, MessageFields DEF HandleCommit, AcceptsCommit, Logged, LogType
    <3> QED
      BY <3>1, LogEntryUpdates, MessageTypes
  <2>2. x.type = "REPLY"
    BY DEF ReplyMsg
  <2>3. dataQueue' = GetData(i) \/ dataQueue' = PostData(GetData(i), x)
    BY <1>12 DEF HandleCommit, CommitRequest
  <2> HIDE DEF x
  <2> QED
    BY <1>6, <1>7, <2>1, <2>2, <2>3 DEF WellCut
<1> QED
  BY <1>8, <1>9, <1>10, <1>11, <1>12 DEF TakeMessage, m

\* What the other threads post.
LEMMA ThreadPosts ==
    ASSUME TypeOK, NoOverflow, NEW i \in Node, AllCut(BlocksOf(i), sent),
           SendCommonMessage(i) \/ AddNewBlock(i) \/ GoOnReplying(i) \/ Stop(i)
    PROVE  Posted(dataQueue)
<1>1. dataQueue \in Queues
  BY DEF TypeOK, NetType, Queues
<1>2. CASE SendCommonMessage(i)
  <2> DEFINE x == CommonMsg(sent + 1)
  <2>1. sent + 1 \in Tx
    BY <1>2, SizeAssumption DEF SendCommonMessage, TypeOK, NetType, Tx
  <2>2. x \in Message
    BY <2>1, MessageTypes
  <2>3. /\ x.type = "COMMON_MESSAGE" /\ x.tx = sent + 1 /\ sent' = sent + 1
        /\ dataQueue' = PostData(dataQueue, x)
    BY <1>2 DEF SendCommonMessage, CommonMsg
  <2> HIDE DEF x
  <2>4. AllGrown(dataQueue, 1, x)
    BY <1>1, <2>2, <2>3, PostGrows DEF NoOverflow
  <2> QED
    BY <2>3, <2>4 DEF Posted, Counted
<1>3. CASE PostRequest(i)
  <2> DEFINE r == [client |-> i, block |-> resender[i].block]
             x == RequestMsg(r)
  <2>1. r \in Request
    BY <1>3, ValueTypes DEF PostRequest, TypeOK, ThreadType, Request
  <2>2. x \in Message
    BY <2>1, MessageTypes
  <2>3. x.type = "REQUEST" /\ x.request.block = resender[i].block
    BY DEF RequestMsg
  <2>4. dataQueue' = PostData(dataQueue, x) /\ sent' = sent
    BY <1>3 DEF PostRequest
  <2>5. Cut(resender[i].block, sent)
    <3>1. resender[i] # NoResender
      <4>1. resender[i].pc = "post" /\ NoResender.pc = "none"
        BY <1>3 DEF PostRequest, NoResender, Resending
      <4> QED
        BY <4>1
    <3> QED
      BY <3>1 DEF AllCut, BlocksOf, ClientBlocks
  <2> HIDE DEF x
  <2>6. AllGrown(dataQueue, 1, x)
    BY <1>1, <2>2, <2>4, PostGrows DEF NoOverflow
  <2> QED
    BY <2>3, <2>4, <2>5, <2>6 DEF Posted, Counted, WellCut
<1>4. CASE UNCHANGED <<dataQueue, sent>>
  <2>1. \A x : AllGrown(dataQueue, 0, x)
    BY <1>1, <1>4, PostGrows DEF NoOverflow
  <2> QED
    BY <1>4, <2>1 DEF Posted
<1> QED
  BY <1>2, <1>3, <1>4
     DEF AddNewBlock, TestWaiting, TakeChunk, SetWaiting, LockResender, TestResender,
         StopWaiting, GoOnReplying, CompareReply, CountReply, AddReplied, ClearWaiting, Stop,
         netVars

\* A node that does nothing but receive what is posted.
LEMMA ReceiverStaysCut ==
    ASSUME TypeOK, TypeOK', NEW queues \in Queues, Posted(queues), NEW j \in Node, NEW c \in 0..sent,
           PoolCut(pool'[j], c), AllCut(BlocksOf(j)', c), listening'[j] = listening[j],
           listening[j] => Arrives(queues[j], c, sent)
    PROVE  NodeCut(j, c)'
<1>1. sent \in Nat /\ sent' \in Nat
  BY CutTypes, SizeAssumption DEF TypeOK, NetType
<1>2. PICK n, m : /\ AllGrown(queues, n, m)
                  /\ (n = 0 /\ sent' = sent) \/ (n = 1 /\ Counted(m, sent, sent'))
  BY DEF Posted
<1>3. c \in 0..sent'
  BY <1>1, <1>2 DEF Counted
<1>4. ASSUME listening[j]
      PROVE  Arrives(dataQueue'[j], c, sent')
  <2>1. Grown(queues[j], dataQueue'[j], n, m) /\ queues[j] \in Seq(Message)
    BY <1>2, <1>4 DEF AllGrown, Queues
  <2> QED
    BY <1>1, <1>2, <1>4, <2>1, PostedArrives
<1> QED
  BY <1>3, <1>4 DEF NodeCut

\* A listener's turn keeps the invariant.
LEMMA TurnStaysCut ==
    ASSUME TypeOK, TypeOK', NoOverflow, BlocksCut, NEW i \in Node, TakeMessage(i)
    PROVE  BlocksCut'
<1> DEFINE m == Head(dataQueue[i])
<1>0. /\ dataQueue \in Queues /\ dataQueue[i] \in Seq(Message) /\ dataQueue[i] # <<>>
      /\ m \in Message /\ sent \in Nat /\ GetData(i) \in Queues /\ listening[i]
      /\ UNCHANGED listening
  <2>1. /\ dataQueue \in Queues /\ dataQueue[i] # <<>> /\ listening[i] /\ UNCHANGED listening
        /\ sent \in Nat
    BY CutTypes
       DEF TakeMessage, HandleCommonMessage, HandleRequest, HandleReply, HandlePrePrepare,
           HandlePrepare, HandleCommit, DropMessage, stopVars
  <2> QED
    BY <2>1, GetDataType DEF Queues
<1>1. PICK c \in Nat : NodeCut(i, c)
  BY DEF BlocksCut
<1>2. PICK d \in 0..sent : Counted(m, c, d) /\ Arrives(Tail(dataQueue[i]), d, sent)
  BY <1>0, <1>1, NextArrives DEF NodeCut
<1>3. WellCut(m, sent)
  BY <1>0, <1>1, <1>2, CutsApart DEF Counted, WellCut, NodeCut
<1>4. PoolCut(pool'[i], d) /\ AllCut(BlocksOf(i)', d)
  <2>1. CASE HandleCommonMessage(i, m)
    <3>1. m.type = "COMMON_MESSAGE" /\ m.tx = c + 1 /\ d = c + 1
      BY <1>2, <2>1 DEF Counted, HandleCommonMessage
    <3>2. /\ UNCHANGED <<requestLog, chain, created, queued, resender, bIsWaitingForReply>>
          /\ pool'[i] = pool[i] \cup {m.tx}
      BY <2>1 DEF HandleCommonMessage, roundVars, clientVars, TypeOK, DataType
    <3>3. BlocksOf(i)' = BlocksOf(i)
      BY <3>2 DEF BlocksOf, ClientBlocks, LoggedBlocks, ChainBlocks
    <3>4. PoolCut(pool'[i], d)
      BY <1>1, <3>1, <3>2, PoolReceives DEF NodeCut
    <3>5. AllCut(BlocksOf(i), d)
      <4>1. c <= d /\ d \in Nat /\ AllCut(BlocksOf(i), c)
        BY <1>1, <3>1 DEF NodeCut
      <4> QED
        BY <4>1, CutsApart DEF AllCut
    <3> QED
      BY <3>3, <3>4, <3>5
  <2>2. CASE ~HandleCommonMessage(i, m)
    <3>1. \/ HandleRequest(i, m) \/ HandleReply(i, m) \/ HandlePrePrepare(i, m)
          \/ HandlePrepare(i, m) \/ HandleCommit(i, m) \/ DropMessage(i, m)
      BY <2>2 DEF TakeMessage
    <3>2. m.type # "COMMON_MESSAGE"
      BY <3>1
         DEF HandleRequest, HandleReply, HandlePrePrepare, HandlePrepare, HandleCommit,
             DropMessage, Accepts
    <3>3. d = c /\ WellCut(m, c)
      BY <1>2, <3>2 DEF Counted
    <3> HIDE DEF m
    <3>4. PoolCut(pool[i], c) /\ AllCut(BlocksOf(i), c)
      BY <1>1 DEF NodeCut
    <3> QED
      BY <1>0, <3>1, <3>3, <3>4, TurnBlocks
  <2> QED
    BY <2>1, <2>2
<1>5. Posted(GetData(i))
  BY <1>3, TurnPosts
<1>6. NodeCut(i, d)'
  <2>1. GetData(i)[i] = Tail(dataQueue[i])
    BY <1>0 DEF GetData, Queues
  <2> QED
    BY <1>0, <1>2, <1>4, <1>5, <2>1, ReceiverStaysCut
<1>7. ASSUME NEW j \in Node \ {i}
      PROVE  \E x \in Nat : NodeCut(j, x)'
  <2>1. PICK x \in Nat : NodeCut(j, x)
    BY DEF BlocksCut
  <2>2. pool'[j] = pool[j] /\ BlocksOf(j)' = BlocksOf(j) /\ listening'[j] = listening[j]
    BY StepsAreLocal
  <2>3. GetData(i)[j] = dataQueue[j]
    BY <1>0 DEF GetData, Queues
  <2>4. /\ x \in 0..sent /\ PoolCut(pool'[j], x) /\ AllCut(BlocksOf(j)', x)
        /\ listening[j] => Arrives(GetData(i)[j], x, sent)
    BY <2>1, <2>2, <2>3 DEF NodeCut
  <2>5. NodeCut(j, x)'
    BY <1>0, <1>5, <2>2, <2>4, ReceiverStaysCut
  <2> QED
    BY <2>5
<1>8. d \in Nat
  BY <1>0
<1> QED
  BY <1>6, <1>7, <1>8 DEF BlocksCut

\* So does a step of another thread.
LEMMA ThreadStaysCut ==
    ASSUME TypeOK, TypeOK', NoOverflow, BlocksCut, NEW i \in Node,
           SendCommonMessage(i) \/ AddNewBlock(i) \/ GoOnReplying(i) \/ Stop(i)
    PROVE  BlocksCut'
<1>0. dataQueue \in Queues /\ sent \in Nat /\ UNCHANGED listening
  BY CutTypes
     DEF SendCommonMessage, AddNewBlock, TestWaiting, TakeChunk, SetWaiting, LockResender,
         TestResender, StopWaiting, PostRequest, GoOnReplying, CompareReply, CountReply, AddReplied,
         ClearWaiting, Stop, stopVars
<1>1. PICK c \in Nat : NodeCut(i, c)
  BY DEF BlocksCut
<1>2. AllCut(BlocksOf(i), sent)
  BY <1>0, <1>1, CutsApart DEF NodeCut, AllCut
<1>3. Posted(dataQueue)
  BY <1>2, ThreadPosts
<1>4. ASSUME NEW j \in Node
      PROVE  \E x \in Nat : NodeCut(j, x)'
  <2>1. PICK x \in Nat : NodeCut(j, x)
    BY DEF BlocksCut
  <2>2. PoolCut(pool'[j], x) /\ AllCut(BlocksOf(j)', x)
    <3>1. PoolCut(pool[j], x) /\ AllCut(BlocksOf(j), x)
      BY <2>1 DEF NodeCut
    <3>2. CASE j = i
      BY <3>1, <3>2, ThreadBlocks
    <3>3. CASE j # i
      BY <3>1, <3>3, StepsAreLocal
    <3> QED
      BY <3>2, <3>3
  <2>3. x \in 0..sent /\ (listening[j] => Arrives(dataQueue[j], x, sent))
    BY <2>1 DEF NodeCut
  <2>4. NodeCut(j, x)'
    BY <1>0, <1>3, <2>2, <2>3, ReceiverStaysCut
  <2> QED
    BY <2>4
<1> QED
  BY <1>4 DEF BlocksCut

\* So does a listener's end, with or without a transaction in its hands.
LEMMA LeavingStaysCut ==
    ASSUME TypeOK, BlocksCut, NEW i \in Node, EndListener(i)
    PROVE  BlocksCut'
<1>0. /\ dataQueue \in Queues /\ dataQueue[i] \in Seq(Message) /\ sent \in Nat
      /\ listening[i] /\ ~listening'[i] /\ sent' = sent
      /\ \A j \in Node \ {i} : dataQueue'[j] = dataQueue[j]
      /\ UNCHANGED <<requestLog, chain, created, queued, resender, bIsWaitingForReply>>
  <2>1. /\ dataQueue \in Queues /\ sent \in Nat /\ listening \in [Node -> BOOLEAN]
        /\ dataQueue' = dataQueue \/ dataQueue' = GetData(i)
        /\ listening' = [listening EXCEPT ![i] = FALSE] /\ listening[i] /\ sent' = sent
        /\ UNCHANGED <<requestLog, chain, created, queued, resender, bIsWaitingForReply>>
    BY CutTypes DEF EndListener, roundVars, clientVars, threadVars, TypeOK, StopType
  <2> QED
    BY <2>1 DEF GetData, Queues
<1>1. PICK c \in Nat : NodeCut(i, c)
  BY DEF BlocksCut
<1>2. BlocksOf(i)' = BlocksOf(i)
  BY <1>0 DEF BlocksOf, ClientBlocks, LoggedBlocks, ChainBlocks
<1>3. \E d \in 0..sent : PoolCut(pool'[i], d) /\ AllCut(BlocksOf(i), d)
  <2>1. c \in 0..sent /\ PoolCut(pool[i], c) /\ AllCut(BlocksOf(i), c)
    BY <1>1 DEF NodeCut
  <2>2. CASE pool' = pool
    BY <2>1, <2>2
  <2>3. CASE /\ dataQueue[i] # <<>> /\ Head(dataQueue[i]).type = "COMMON_MESSAGE"
             /\ pool'[i] = pool[i] \cup {Head(dataQueue[i]).tx}
    <3>1. PICK d \in 0..sent : Counted(Head(dataQueue[i]), c, d)
      BY <1>0, <1>1, <2>1, <2>3, NextArrives DEF NodeCut
    <3>2. d = c + 1 /\ pool'[i] = pool[i] \cup {c + 1}
      BY <2>3, <3>1 DEF Counted
    <3>3. PoolCut(pool'[i], d)
      BY <2>1, <3>2, PoolReceives
    <3>4. AllCut(BlocksOf(i), d)
      <4>1. c <= d /\ d \in Nat /\ c \in Nat
        BY <3>2
      <4> QED
        BY <2>1, <4>1, CutsApart DEF AllCut
    <3> QED
      BY <3>3, <3>4
  <2> QED
    BY <2>2, <2>3 DEF EndListener, TypeOK, DataType
<1>4. \E d \in Nat : NodeCut(i, d)'
  BY <1>0, <1>2, <1>3 DEF NodeCut
<1>5. ASSUME NEW j \in Node \ {i}
      PROVE  \E d \in Nat : NodeCut(j, d)'
  <2>1. pool'[j] = pool[j] /\ BlocksOf(j)' = BlocksOf(j) /\ listening'[j] = listening[j]
    BY StepsAreLocal
  <2> QED
    BY <1>0, <2>1 DEF BlocksCut, NodeCut
<1> QED
  BY <1>4, <1>5 DEF BlocksCut

\* While nothing is lost, every block any node has in hand, has logged or has in
\* its chain is cut at the same places of the one sequence of transactions, out
\* of those the node has received.
THEOREM BlocksAreCut == Spec /\ []NoOverflow => []BlocksCut
<1>1. Init => BlocksCut
  <2> SUFFICES ASSUME Init, NEW i \in Node
               PROVE  NodeCut(i, 0)
    BY DEF BlocksCut
  <2>1. 0 \in 0..sent /\ sent = 0
    BY DEF Init
  <2>2. PoolCut(pool[i], 0)
    <3>1. pool[i] = {} /\ 1..0 = {}
      BY DEF Init
    <3> QED
      BY <3>1 DEF PoolCut
  <2>3. BlocksOf(i) = {}
    <3>1. /\ created[i] = {} /\ queued[i] = {} /\ bIsWaitingForReply[i] = Pair(FALSE, NoBlock)
          /\ resender[i] = NoResender /\ requestLog[i] = NoEntries /\ chain[i] = <<GenesisBlock>>
      BY DEF Init
    <3>2. ClientBlocks(i) = {}
      BY <3>1 DEF ClientBlocks, Pair
    <3>3. LoggedBlocks(i) = {}
      BY <3>1 DEF LoggedBlocks, NoEntries
    <3>4. ChainBlocks(i) \subseteq {GenesisBlock}
      BY <3>1 DEF ChainBlocks
    <3> QED
      BY <3>2, <3>3, <3>4 DEF BlocksOf
  <2>4. Arrives(dataQueue[i], 0, sent)
    <3>1. dataQueue[i] = <<>> /\ <<>> \in Seq(Message)
      BY EmptySeq DEF Init
    <3> QED
      BY <2>1, <3>1, NothingArrives
  <2> QED
    BY <2>1, <2>2, <2>3, <2>4 DEF NodeCut, AllCut
<1>2. TypeOK /\ TypeOK' /\ NoOverflow /\ BlocksCut /\ [Next]_vars => BlocksCut'
  <2> SUFFICES ASSUME TypeOK, TypeOK', NoOverflow, BlocksCut, [Next]_vars
               PROVE  BlocksCut'
    OBVIOUS
  <2>1. CASE UNCHANGED vars
    BY <2>1
       DEF vars, netVars, roundVars, clientVars, dataVars, threadVars, stopVars, BlocksCut, NodeCut,
           BlocksOf, ClientBlocks, LoggedBlocks, ChainBlocks
  <2>2. CASE Next
    BY <2>2, TurnStaysCut, ThreadStaysCut, LeavingStaysCut DEF Next, ListenMessages
  <2> QED
    BY <2>1, <2>2
<1> QED
  BY <1>1, <1>2, TypeCorrect, PTL DEF Spec

\* While nothing is lost, any two blocks of the system are the same or share no
\* transaction: none is committed in two blocks.
THEOREM BlocksShareNothing == Spec /\ []NoOverflow => []BlocksDisjoint
<1>1. TypeOK /\ BlocksCut => BlocksDisjoint
  <2> SUFFICES ASSUME TypeOK, BlocksCut,
                      NEW i \in Node, NEW a \in OwnBlocks(i) \cup ChainBlocks(i),
                      NEW j \in Node, NEW b \in OwnBlocks(j) \cup ChainBlocks(j)
               PROVE  a = b \/ a \cap b = {}
    BY DEF BlocksDisjoint
  <2>1. ASSUME NEW k \in Node
        PROVE  OwnBlocks(k) \cup ChainBlocks(k) \subseteq BlocksOf(k) \cup {GenesisBlock}
    BY DEF OwnBlocks, BlocksOf, ClientBlocks, NoResender, Resending
  <2>2. PICK c \in Nat : AllCut(BlocksOf(i), c)
    BY DEF BlocksCut, NodeCut
  <2>3. PICK d \in Nat : AllCut(BlocksOf(j), d)
    BY DEF BlocksCut, NodeCut
  <2>4. (a = GenesisBlock \/ Cut(a, c)) /\ (b = GenesisBlock \/ Cut(b, d))
    BY <2>1, <2>2, <2>3 DEF AllCut
  <2> QED
    BY <2>4, CutsApart DEF GenesisBlock
<1> QED
  BY <1>1, BlocksAreCut, TypeCorrect, PTL

=============================================================================
