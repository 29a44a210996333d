---------------------------- MODULE NodeFactory ----------------------------
(***************************************************************************)
(* RunNewNode of NodeFactory.cpp and PBFTNodeFactory.cpp, which differ only*)
(* in the class of the node, step by step: one thread calls it, but the    *)
(* nodes it has started run meanwhile and read what it changes.            *)
(* PlainNodes and JoiningRound compose it with the nodes' threads.         *)
(***************************************************************************)
EXTENDS Naturals, Sequences, Functions

CONSTANTS
    Key,        \* the key pairs GeneratePrivateKey may give
    MaxNodes    \* bound: calls of RunNewNode

ASSUME FactoryAssumption == MaxNodes \in Nat \ {0}

Id == 0..(MaxNodes - 1)

VARIABLES
    call,            \* where RunNewNode is, and vbNewPrivateKey
    m_vPublicKeys,   \* by index; a public key stands for its pair
    m_vpNodes,       \* [id, key] of the nodes created
    clients,         \* ids registered in the network
    running          \* ids of the nodes whose thread has begun

factoryVars == <<call, m_vPublicKeys, m_vpNodes, clients, running>>

FactoryInit ==
    /\ call = [pc |-> "idle"]
    /\ m_vPublicKeys = <<>>
    /\ m_vpNodes = <<>>
    /\ clients = {}
    /\ running = {}

\* l.20-22: a pair no one has.
PushKey ==
    /\ call.pc = "idle"
    /\ Len(m_vpNodes) < MaxNodes
    /\ LET key == CHOOSE k \in Key : k \notin Range(m_vPublicKeys)
       IN  /\ m_vPublicKeys' = Append(m_vPublicKeys, key)
           /\ call' = [pc |-> "keyed", key |-> key]
    /\ UNCHANGED <<m_vpNodes, clients, running>>

\* Faulty: the id is taken from the keys, of which there is one more.
CreateNumberedByKeys ==
    /\ call.pc = "keyed"
    /\ m_vpNodes' = Append(m_vpNodes, [id |-> Len(m_vPublicKeys), key |-> call.key])
    /\ call' = [pc |-> "created"]
    /\ UNCHANGED <<m_vPublicKeys, clients, running>>

\* l.24.
CreateNode ==
    /\ call.pc = "keyed"
    /\ m_vpNodes' = Append(m_vpNodes, [id |-> Len(m_vpNodes), key |-> call.key])
    /\ call' = [pc |-> "created"]
    /\ UNCHANGED <<m_vPublicKeys, clients, running>>

\* l.26.  The client is in a map; its queue belongs to the composition.
Register ==
    /\ call.pc = "created"
    /\ clients' = clients \cup {Len(m_vpNodes) - 1}
    /\ call' = [pc |-> "registered"]
    /\ UNCHANGED <<m_vPublicKeys, m_vpNodes, running>>

\* Faulty: the thread begins before the node is registered.
RunBeforeRegistering ==
    /\ call.pc \in {"created", "registered"}
    /\ running' = running \cup {m_vpNodes[Len(m_vpNodes)].id}
    /\ call' = [pc |-> IF call.pc = "created" THEN "created" ELSE "idle"]
    /\ UNCHANGED <<m_vPublicKeys, m_vpNodes, clients>>

\* l.29-32.
RunThread ==
    /\ call.pc = "registered"
    /\ running' = running \cup {m_vpNodes[Len(m_vpNodes)].id}
    /\ call' = [pc |-> "idle"]
    /\ UNCHANGED <<m_vPublicKeys, m_vpNodes, clients>>

RunNewNode == PushKey \/ CreateNode \/ Register \/ RunThread

\* The key at the index a message's sender gives (Node.cpp:72, PBFTNode.cpp:175)
\* exists, and is the one the sender signs with.
HasKeyOf(id) ==
    /\ id < Len(m_vPublicKeys)
    /\ \E k \in DOMAIN m_vpNodes :
          m_vpNodes[k].id = id /\ m_vpNodes[k].key = m_vPublicKeys[id + 1]

=============================================================================
