-------------------------- MODULE PBFTDataPackage --------------------------
(***************************************************************************)
(* The packages PBFTNode builds, and GetRawData (PBFTDataPackage.cpp), the *)
(* bytes of a package.  GetDataHash is the hash of these bytes: it is the  *)
(* digest by which a PREPREPARE names its request, and what every handler  *)
(* signs and verifies.  What the bytes do not tell apart, hash and         *)
(* signature do not either.  PBFTNode takes packages as records.           *)
(***************************************************************************)
EXTENDS Integers, Sequences, FiniteSets

CONSTANTS
    Null,
    Base,        \* values of a byte
    UIntSize,    \* bytes of an unsigned int, and of a MessageType
    LongSize,    \* bytes of a long long
    HashSize,    \* bytes of a block's hash
    NodeId,          \* nodes
    Primary,     \* the one that gives the numbers
    Number,      \* sequence numbers
    Time, Block, \* a timestamp, and a block's hash, as the number its bytes make
    MaxPackages  \* bound: packages built

\* The numbers that so many bytes hold.
Power[size \in Nat] == IF size = 0 THEN 1 ELSE Base * Power[size - 1]

UINT_MAX == Power[UIntSize] - 1

\* PBFTDataPackage.h:16, in the order of the values.
MessageType == <<"COMMON_MESSAGE", "REQUEST", "PREPREPARE", "PREPARE", "COMMIT", "REPLY">>

ASSUME PackageAssumption ==
    /\ Base \in Nat /\ Base > 1
    /\ {UIntSize, LongSize, HashSize} \subseteq Nat \ {0}
    /\ Len(MessageType) <= Power[UIntSize]
    /\ Primary \in NodeId /\ NodeId \cup Number \subseteq 0..UINT_MAX
    /\ Time \subseteq 0..(Power[LongSize] - 1)
    /\ Block \subseteq 0..(Power[HashSize] - 1)
    /\ Null \notin Nat

VARIABLE packages    \* built so far
packageVars == <<packages>>

-----------------------------------------------------------------------------
(* Serialization *)

\* Faulty: the loop leaves out the highest byte.
LowerBytes(x, size) == [i \in 1..(size - 1) |-> (x \div Power[size - i - 1]) % Base]

\* The bytes of x, the highest one first (l.28-34).
Bytes(x, size) == [i \in 1..size |-> (x \div Power[size - i]) % Base]

\* A field that is not set gives no bytes (l.48, l.54, l.64, l.73, l.82).
Optional(x, size) == IF x = Null THEN <<>> ELSE Bytes(x, size)

TypeNumber(type) == (CHOOSE n \in DOMAIN MessageType : MessageType[n] = type) - 1

\* l.24-107.  Neither vbMessageDigest nor pClientRequest is among the bytes.
GetRawData(p) ==
       Bytes(p.uiSender, UIntSize) \o Bytes(p.uiDestination, UIntSize)
    \o Bytes(TypeNumber(p.type), UIntSize)
    \o Optional(p.pBlock, HashSize) \o Optional(p.pTimestamp, LongSize)
    \o Optional(p.puiNodeId, UIntSize) \o Optional(p.puiViewNumber, UIntSize)
    \o Optional(p.puiSequenceNumber, UIntSize)
    \o p.message

\* Two packages have one hash when their bytes are the same.
GetDataHash(p) == GetRawData(p)

-----------------------------------------------------------------------------
(* The packages of PBFTNode *)

\* l.6-18: nothing but the sender, the destination and the type.
NewPackage(sender, destination, type) ==
    [uiSender |-> sender, uiDestination |-> destination, type |-> type, message |-> <<>>,
     pBlock |-> Null, pTimestamp |-> Null, puiNodeId |-> Null, puiViewNumber |-> Null,
     puiSequenceNumber |-> Null, vbMessageDigest |-> Null, pClientRequest |-> Null]

With(p, fields) == [f \in DOMAIN p |-> IF f \in DOMAIN fields THEN fields[f] ELSE p[f]]

Post(p) ==
    /\ Cardinality(packages) < MaxPackages
    /\ packages' = packages \cup {p}

Built(type) == {p \in packages : p.type = type}

\* PBFTNode.cpp:62-74.  The text is the sender's number and a time.
CommonMessage(i) ==
    \E t \in Time :
        Post(With(NewPackage(i, UINT_MAX, "COMMON_MESSAGE"),
                  [message |-> Bytes(i, UIntSize) \o Bytes(t, LongSize)]))

\* PBFTNode.cpp:486-494.
Request(i) ==
    \E primary \in NodeId, b \in Block, t \in Time :
        Post(With(NewPackage(i, primary, "REQUEST"),
                  [pBlock |-> b, pTimestamp |-> t, puiNodeId |-> i]))

\* PBFTNode.cpp:228-234: a number is given once, and the view stays 0.
PrePrepare ==
    \E request \in Built("REQUEST"), n \in Number :
        /\ \A p \in Built("PREPREPARE") : p.puiSequenceNumber # n
        /\ Post(With(NewPackage(Primary, UINT_MAX, "PREPREPARE"),
                     [pClientRequest |-> request, puiSequenceNumber |-> n, puiViewNumber |-> 0,
                      vbMessageDigest |-> GetDataHash(request)]))

\* PBFTNode.cpp:296-301.
Prepare(i) ==
    \E p \in Built("PREPREPARE") :
        Post(With(NewPackage(i, UINT_MAX, "PREPARE"),
                  [puiSequenceNumber |-> p.puiSequenceNumber, puiViewNumber |-> p.puiViewNumber,
                   vbMessageDigest |-> p.vbMessageDigest, puiNodeId |-> i]))

\* PBFTNode.cpp:349-354.
Commit(i) ==
    \E p \in Built("PREPREPARE") :
        Post(With(NewPackage(i, UINT_MAX, "COMMIT"),
                  [puiSequenceNumber |-> p.puiSequenceNumber, puiViewNumber |-> p.puiViewNumber,
                   vbMessageDigest |-> GetDataHash(p.pClientRequest), puiNodeId |-> i]))

\* PBFTNode.cpp:428-433.
Reply(i) ==
    \E p \in Built("PREPREPARE") :
        Post(With(NewPackage(i, p.pClientRequest.uiSender, "REPLY"),
                  [puiViewNumber |-> p.puiViewNumber, pTimestamp |-> p.pClientRequest.pTimestamp,
                   pBlock |-> p.pClientRequest.pBlock, puiNodeId |-> i]))

PackageInit == packages = {}

PackageNext ==
    \/ PrePrepare
    \/ \E i \in NodeId : CommonMessage(i) \/ Request(i) \/ Prepare(i) \/ Commit(i) \/ Reply(i)

-----------------------------------------------------------------------------
(* Properties *)

\* The fields that GetRawData reads.
Read(p) == With(p, [vbMessageDigest |-> Null, pClientRequest |-> Null])

\* The bytes tell packages apart by every field that goes into them, although they
\* hold neither the lengths nor the presence of the fields: the type, at a fixed
\* place, settles which are there.  So one digest names one REQUEST (l.276, l.374).
BytesTellApart ==
    \A p, q \in packages : GetRawData(p) = GetRawData(q) => Read(p) = Read(q)

=============================================================================
