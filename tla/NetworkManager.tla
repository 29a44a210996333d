--------------------------- MODULE NetworkManager ---------------------------
(***************************************************************************)
(* The old network (NetworkManager.cpp): a post fulfils the one promise    *)
(* there is and puts a new one in its place; readers ask for the promise's *)
(* future and wait for it.  A promise and its future are a number; what it *)
(* is fulfilled with plays no part, as a reader gets what it waited for.   *)
(***************************************************************************)
EXTENDS Naturals, FiniteSets

CONSTANTS
    Poster, Reader,   \* threads
    NoPoster,            \* a mutex is free
    MaxPosts          \* bound: calls of PostData

ASSUME OldNetworkAssumption == MaxPosts \in Nat /\ NoPoster \notin Poster

VARIABLES
    m_queueMutex,   \* its owner; m_futureMutex is held for one access only
    m_dataPromice,  \* the number of the promise
    fulfilled,      \* promises that have their value
    retrieved,      \* promises whose future has been taken
    m_dataFuture,   \* the number of the promise it belongs to
    posting,        \* [Poster -> where it is in PostData]
    waiting         \* readers that wait, with their futures

oldVars == <<m_queueMutex, m_dataPromice, fulfilled, retrieved, m_dataFuture, posting, waiting>>

OldTypeOK ==
    /\ m_queueMutex \in Poster \cup {NoPoster}
    /\ m_dataPromice \in Nat /\ m_dataFuture \in Nat
    /\ fulfilled \subseteq Nat /\ retrieved \subseteq Nat
    /\ posting \in [Poster -> {"out", "called", "set", "renew", "assign", "sleep"}]
    /\ waiting \subseteq Reader \X Nat

\* l.6-10.
OldInit ==
    /\ m_queueMutex = NoPoster
    /\ m_dataPromice = 0
    /\ fulfilled = {}
    /\ retrieved = {0}
    /\ m_dataFuture = 0
    /\ posting = [p \in Poster |-> "out"]
    /\ waiting = {}

-----------------------------------------------------------------------------
(* PostData *)

PosterGoes(p, from, to) ==
    /\ posting[p] = from
    /\ posting' = [posting EXCEPT ![p] = to]
    /\ UNCHANGED waiting

\* Posters that have yet to renew the promise.
Posts == {p \in Poster : posting[p] \in {"called", "set", "renew"}}

Call(p) ==
    /\ m_dataPromice + Cardinality(Posts) < MaxPosts
    /\ PosterGoes(p, "out", "called")
    /\ UNCHANGED <<m_queueMutex, m_dataPromice, fulfilled, retrieved, m_dataFuture>>

\* Faulty: posters are not kept apart.
NoLock(p) ==
    /\ PosterGoes(p, "called", "set")
    /\ UNCHANGED <<m_queueMutex, m_dataPromice, fulfilled, retrieved, m_dataFuture>>

\* l.21.
Lock(p) ==
    /\ m_queueMutex = NoPoster
    /\ m_queueMutex' = p
    /\ PosterGoes(p, "called", "set")
    /\ UNCHANGED <<m_dataPromice, fulfilled, retrieved, m_dataFuture>>

\* Faulty: the promise is replaced first, and the new one fulfilled.
RenewFirst(p) ==
    /\ PosterGoes(p, "set", "renew")
    /\ fulfilled' = fulfilled \cup {m_dataPromice + 1}
    /\ UNCHANGED <<m_queueMutex, m_dataPromice, retrieved, m_dataFuture>>

\* l.23: every reader that waits for this future has its datum.
SetValue(p) ==
    /\ PosterGoes(p, "set", "renew")
    /\ fulfilled' = fulfilled \cup {m_dataPromice}
    /\ UNCHANGED <<m_queueMutex, m_dataPromice, retrieved, m_dataFuture>>

\* l.25.
Renew(p) ==
    /\ PosterGoes(p, "renew", "assign")
    /\ m_dataPromice' = m_dataPromice + 1
    /\ UNCHANGED <<m_queueMutex, fulfilled, retrieved, m_dataFuture>>

\* Faulty: the future stays what it is.
KeepFuture(p) ==
    /\ PosterGoes(p, "assign", "sleep")
    /\ retrieved' = retrieved \cup {m_dataPromice}
    /\ UNCHANGED <<m_queueMutex, m_dataPromice, fulfilled, m_dataFuture>>

\* l.26-28.
Assign(p) ==
    /\ PosterGoes(p, "assign", "sleep")
    /\ m_dataFuture' = m_dataPromice
    /\ retrieved' = retrieved \cup {m_dataPromice}
    /\ UNCHANGED <<m_queueMutex, m_dataPromice, fulfilled>>

\* l.30-31.
Return(p) ==
    /\ m_queueMutex' = NoPoster
    /\ PosterGoes(p, "sleep", "out")
    /\ UNCHANGED <<m_dataPromice, fulfilled, retrieved, m_dataFuture>>

PostData(p) == Lock(p) \/ SetValue(p) \/ Renew(p) \/ Assign(p) \/ Return(p)

-----------------------------------------------------------------------------
(* Readers *)

Waits(r) == \E w \in waiting : w[1] = r

\* l.34-38; the reader waits for what it is given.
GetFuture(r) ==
    /\ ~Waits(r)
    /\ waiting' = waiting \cup {<<r, m_dataFuture>>}
    /\ UNCHANGED <<m_queueMutex, m_dataPromice, fulfilled, retrieved, m_dataFuture, posting>>

\* shared_future::get.
GetValue(r) ==
    /\ \E w \in waiting : w[1] = r /\ w[2] \in fulfilled /\ waiting' = waiting \ {w}
    /\ UNCHANGED <<m_queueMutex, m_dataPromice, fulfilled, retrieved, m_dataFuture, posting>>

OldNext ==
    \/ \E p \in Poster : Call(p) \/ PostData(p)
    \/ \E r \in Reader : GetFuture(r) \/ GetValue(r)

\* Every thread gets its turn; a poster may wait for ever for others who post.
OldFairness ==
    /\ \A p \in Poster : WF_oldVars(PostData(p))
    /\ \A r \in Reader : WF_oldVars(GetValue(r))

-----------------------------------------------------------------------------
(* Properties *)

\* No promise is broken: a future that has been given out, or may be, belongs to
\* the promise the next post fulfils or to one that has been fulfilled.
NoBrokenPromise ==
    \A n \in {m_dataFuture} \cup {w[2] : w \in waiting} : n \in fulfilled \cup {m_dataPromice}

\* PostData meets neither of the exceptions of std::promise: no promise is
\* fulfilled twice (l.23), and from none are two futures taken (l.27).
ThrowsNothing ==
    \A p \in Poster :
        /\ posting[p] = "set"    => m_dataPromice \notin fulfilled
        /\ posting[p] = "assign" => m_dataPromice \notin retrieved

\* A reader is given a datum that has been there already only while a post is
\* between l.23 and l.27: this is the time in which one that comes back at once
\* gets the same datum again.
OldDatumWhilePosting ==
    m_dataFuture \in fulfilled => \E p \in Poster : posting[p] \in {"renew", "assign"}

\* A reader that waits is not forgotten: the next post gives it its datum.
WaiterServed ==
    \A r \in Reader : Waits(r) /\ (\E p \in Poster : posting[p] \in {"called", "set"}) ~> ~Waits(r)

=============================================================================
