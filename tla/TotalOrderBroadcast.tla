------------------------ MODULE TotalOrderBroadcast ------------------------
(***************************************************************************)
(* What NetworkManager1 promises the nodes: a post reaches every registered*)
(* client at once, so all clients get the posts in one order; a client that*)
(* has Capacity data waiting may lose the newest one, and nothing else is  *)
(* ever lost, repeated or overtaken.                                       *)
(***************************************************************************)
EXTENDS Naturals, Sequences

CONSTANTS
    Client,     \* the clients that may register
    Data,       \* the data that may be posted
    Capacity    \* data that may wait for a client without any being lost

VARIABLES
    registered, \* the clients with an inbox
    inbox       \* [Client -> Seq(Data)]

vars == <<registered, inbox>>

Init ==
    /\ registered = {}
    /\ inbox = [c \in Client |-> <<>>]

Register(c) ==
    /\ registered' = registered \cup {c}
    /\ UNCHANGED inbox

Post(d) ==
    /\ inbox' = [c \in Client |-> IF c \in registered THEN Append(inbox[c], d) ELSE inbox[c]]
    /\ UNCHANGED registered

Lose(c) ==
    /\ Len(inbox[c]) > Capacity
    /\ inbox' = [inbox EXCEPT ![c] = SubSeq(@, 1, Len(@) - 1)]
    /\ UNCHANGED registered

Deliver(c) ==
    /\ inbox[c] # <<>>
    /\ inbox' = [inbox EXCEPT ![c] = Tail(@)]
    /\ UNCHANGED registered

Next ==
    \/ \E c \in Client : Register(c) \/ Lose(c) \/ Deliver(c)
    \/ \E d \in Data : Post(d)

Spec == Init /\ [][Next]_vars

=============================================================================
