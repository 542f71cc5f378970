---------------------------- MODULE CodecProofs ----------------------------
(***************************************************************************)
(* Codec for every length of a string and every number of elements: the    *)
(* receiver finds field by field what the sender pushed.  The invariant    *)
(* keeps sender and receiver in step: what the receiver expects takes what *)
(* was still to push when as many fields had been pushed.                  *)
(***************************************************************************)
EXTENDS Codec, SequenceTheorems, TLAPS

(* A sequence of whatever it consists of.                                  *)
IsSeq(s) == s \in Seq(Range(s))

(* Numbers and strings only: what a list repeats.                          *)
IsSimple(item) ==
    \/ item.kind = "number" /\ item.width \in Nat \ {0}
    \/ item.kind = "string"

Plain(s) == IsSeq(s) /\ \A i \in 1 .. Len(s) : IsSimple(s[i])

IsItem(item) ==
    \/ IsSimple(item)
    \/ item.kind = "count" /\ item.width \in Nat \ {0}
    \/ item.kind = "elements" /\ item.left \in Nat /\ Plain(item.of) /\ item.of # << >>

(* What a sender may have to push: elements behind a count, no two loops   *)
(* in a row.                                                               *)
Loose(s) ==
    /\ IsSeq(s)
    /\ \A i \in 1 .. Len(s) :
          /\ IsItem(s[i])
          /\ s[i].kind = "count" => i < Len(s) /\ s[i + 1].kind = "elements"
          /\ s[i].kind = "elements" /\ i < Len(s) => s[i + 1].kind # "elements"

Pushable(s) == Loose(s) /\ (s # << >> => s[1].kind # "elements")

(* Item i of t takes what item i of s pushes.                              *)
SameItem(t, s, i) ==
    \/ t[i] = s[i]
    \/ /\ t[i].kind = "number" /\ s[i].kind = "count"
       /\ t[i].width = s[i].width /\ t[i].name = s[i].name
       /\ i + 1 = Len(t) /\ t[i + 1].kind = "rest"
    \/ /\ t[i].kind = "rest" /\ s[i].kind = "elements"
       /\ t[i].of = s[i].of /\ i = Len(t)
    \/ /\ t[i].kind = "optional" /\ s[i].kind = "number"
       /\ t[i].width = s[i].width /\ t[i].name = s[i].name /\ i = Len(t)

(* The receiver of t understands the sender of s.                          *)
Agree(t, s) ==
    /\ IsSeq(t)
    /\ \A i \in 1 .. Len(s) : SameItem(t, s, i)
    /\ \/ Len(t) = Len(s)
       \/ /\ Len(t) = Len(s) + 1
          /\ t[Len(t)].kind = "optional" /\ t[Len(t)].width \in Nat \ {0}

(* The field f is the head of s, with f.then to push behind it.            *)
Pushed(s, f) ==
    /\ s # << >> /\ IsSeq(f.bytes) /\ f.name = s[1].name
    /\ \/ /\ s[1].kind = "number" /\ Len(f.bytes) = s[1].width
          /\ f.then = Continue(Tail(s), FALSE)
       \/ /\ s[1].kind = "string"
          /\ f.bytes[1].value \in Nat /\ Len(f.bytes) = 2 + f.bytes[1].value
          /\ f.then = Continue(Tail(s), FALSE)
       \/ /\ s[1].kind = "count" /\ Len(f.bytes) = s[1].width
          /\ f.bytes[1].value \in Nat
          /\ f.then = Continue(Counted(Tail(s), f.bytes[1].value), FALSE)

(* What was still to push, and pushed, when i fields were.                 *)
Then(i) == IF i = 0 THEN Sender(message) ELSE sent[i].then
End(i) == IF i = 0 THEN 0 ELSE sent[i].from + Len(sent[i].bytes)

FieldsInv ==
    /\ message \in Message
    /\ IsSeq(sent)
    /\ \A i \in 0 .. Len(sent) : Pushable(Then(i))
    /\ \A i \in 1 .. Len(sent) : Pushed(Then(i - 1), sent[i])
    /\ Then(Len(sent)) = layout

BytesInv ==
    /\ IsSeq(content)
    /\ End(Len(sent)) = Len(content)
    /\ \A i \in 1 .. Len(sent) :
          /\ sent[i].from \in Nat
          /\ sent[i].from = End(i - 1)
          /\ End(i) <= Len(content)
          /\ \A j \in 1 .. Len(sent[i].bytes) :
                content[sent[i].from + j] = sent[i].bytes[j]

(* The layout s after k numbers: the count and data of a message.          *)
Counting(s, k) ==
    /\ IsSeq(s) /\ Len(s) = k + 2
    /\ s[k + 1] = [kind |-> "count", width |-> 4, name |-> "count"]
    /\ s[k + 2] = Elements(Byte, 0)

(* One byte of the data, and the loop that pushes the others.              *)
Looping(s, left) ==
    /\ IsSeq(s) /\ Len(s) = 2
    /\ s[1].kind = "number" /\ s[1].width = 1
    /\ s[2] = Elements(Byte, left)

(* The data of a message as its sender gets on with them.                  *)
DataInv(before) ==
    /\ DataCount \in Nat
    /\ \/ layout = << >> /\ Len(content) = before + DataCount
       \/ \E left \in Nat : /\ Looping(layout, left)
                            /\ Len(content) + 1 + left = before + DataCount

ReadInv ==
    IF sent = << >> THEN Counting(layout, 0) /\ Len(content) = 0 ELSE DataInv(4)

WriteInv ==
    \/ /\ Len(sent) = 0 /\ Len(content) = 0 /\ Counting(layout, 2)
       /\ layout[1].kind = "number" /\ layout[1].width = 4
       /\ layout[2].kind = "number" /\ layout[2].width = 8
    \/ /\ Len(sent) = 1 /\ Len(content) = 4 /\ Counting(layout, 1)
       /\ layout[1].kind = "number" /\ layout[1].width = 8
    \/ Len(sent) = 2 /\ Counting(layout, 0) /\ Len(content) = 12
    \/ Len(sent) > 2 /\ DataInv(16)

SizeInv ==
    /\ message \in {"ReadResponse", "ReadInPlaceResponse"} => ReadInv
    /\ message \in {"WriteRequest", "WriteInPlaceRequest"} => WriteInv

PushInv == taken = << >> /\ at = 0 /\ todo = Receiver(message)

LockstepInv ==
    /\ IsSeq(taken)
    /\ Len(taken) <= Len(sent)
    /\ \A i \in 1 .. Len(taken) :
          taken[i].name = sent[i].name /\ taken[i].bytes = sent[i].bytes
    /\ at = End(Len(taken))
    /\ Agree(todo, Then(Len(taken)))

IInv ==
    /\ phase \in {"idle", "push", "sent", "pop"}
    /\ phase # "idle" => FieldsInv /\ BytesInv
    /\ phase \in {"push", "sent"} => PushInv /\ SizeInv
    /\ phase \in {"sent", "pop"} => layout = << >>
    /\ phase = "sent" => wire = PushHeader(Len(content)) \o content
    /\ phase = "pop" => wire = << >> /\ buffer = content /\ LockstepInv

(* Some numbers or strings at least.                                       *)
Simple(s) == Plain(s) /\ s # << >>

OpeningNames ==
    {"LinuxErrorResponse", "FileSystemStatusRequest",
     "FileSystemStatusResponse", "LinuxOpenRequest", "LinuxOpenResponse",
     "LinuxCreateRequest", "LinuxCreateResponse", "MakeSymbolicLinkRequest",
     "MakeSymbolicLinkResponse", "MakeDeviceNodeRequest",
     "MakeDeviceNodeResponse", "RenameRequest", "ReadLinkRequest",
     "ReadLinkResponse"}

AttributeAndDirectoryNames ==
    {"GetAttributesRequest", "GetAttributesResponse", "SetAttributesRequest",
     "WalkExtendedAttributesRequest", "WalkExtendedAttributesResponse",
     "CreateExtendedAttributesRequest", "ReadDirectoryRequest",
     "FlushFileRequest"}

LockAndNameNames ==
    {"LockRequest", "LockResponse", "GetLockRequest", "GetLockResponse",
     "LinkRequest", "MakeDirectoryRequest", "MakeDirectoryResponse",
     "RenameAtRequest", "UnlinkAtRequest"}

SessionAndWalkNames ==
    {"VersionRequest", "VersionResponse", "AuthenticationRequest",
     "AuthenticationResponse", "AttachRequest", "AttachResponse",
     "FlushRequest", "WalkRequest", "WalkResponse", "OpenRequest",
     "OpenResponse", "CreateResponse"}

TransferNames ==
    {"ReadRequest", "ReadResponse", "WriteRequest", "WriteResponse",
     "ClunkRequest", "RemoveRequest", "ReadStatusRequest"}

WindowsNames ==
    {"AccessRequest", "WindowsReadDirectoryRequest", "WindowsOpenRequest",
     "WindowsOpenResponse"}

----------------------------------------------------------------------------
(* Sequences of whatever they consist of.                                  *)
LEMMA SeqFacts ==
  ASSUME NEW s, IsSeq(s)
  PROVE  /\ Len(s) \in Nat
         /\ DOMAIN s = 1 .. Len(s)
         /\ s = << >> <=> Len(s) = 0
         /\ s # << >> => Head(s) = s[1] /\ Len(s) > 0
  <1>1. Len(s) \in Nat /\ DOMAIN s = 1 .. Len(s)
    BY LenProperties DEF IsSeq
  <1>2. s = << >> <=> Len(s) = 0
    BY EmptySeq DEF IsSeq
  <1>3. Head(s) = s[1]
    BY DEF IsSeq
  <1>. QED
    BY <1>1, <1>2, <1>3

(* Two sequences one behind the other, item by item.                       *)
LEMMA Concat ==
  ASSUME NEW a, NEW b, IsSeq(a), IsSeq(b)
  PROVE  /\ IsSeq(a \o b)
         /\ Len(a \o b) = Len(a) + Len(b)
         /\ \A i \in 1 .. Len(a) : (a \o b)[i] = a[i]
         /\ \A i \in 1 .. Len(b) : (a \o b)[Len(a) + i] = b[i]
         /\ \A i \in Len(a) + 1 .. Len(a) + Len(b) : (a \o b)[i] = b[i - Len(a)]
  <1>. DEFINE T == Range(a) \cup Range(b)
  <1>1. a \in Seq(T) /\ b \in Seq(T)
    BY SeqMonotonic DEF IsSeq
  <1>2. /\ a \o b \in Seq(T)
        /\ Len(a \o b) = Len(a) + Len(b)
        /\ \A i \in 1 .. Len(a) + Len(b) : (a \o b)[i] =
              IF i <= Len(a) THEN a[i] ELSE b[i - Len(a)]
    BY <1>1, ConcatProperties
  <1>3. IsSeq(a \o b)
    BY <1>2, SeqOfRange DEF IsSeq
  <1>4. Len(a) \in Nat /\ Len(b) \in Nat
    BY SeqFacts
  <1>. HIDE DEF T
  <1>. QED
    BY <1>2, <1>3, <1>4

(* A function on 1 .. n is a sequence of that length.                      *)
LEMMA IsSeqByDomain ==
  ASSUME NEW n \in Nat, NEW s, s = [i \in 1 .. n |-> s[i]]
  PROVE  IsSeq(s) /\ Len(s) = n
  <1>1. DOMAIN s = 1 .. n
    OBVIOUS
  <1>2. s \in [1 .. n -> Range(s)]
    BY <1>1 DEF Range
  <1>. QED
    BY <1>2 DEF IsSeq

(* A sequence without its first item.                                      *)
LEMMA TailSeq ==
  ASSUME NEW s, IsSeq(s), s # << >>
  PROVE  /\ IsSeq(Tail(s))
         /\ Len(Tail(s)) = Len(s) - 1
         /\ \A i \in 1 .. Len(s) - 1 : Tail(s)[i] = s[i + 1]
  <1>1. /\ Tail(s) \in Seq(Range(s))
        /\ Len(Tail(s)) = Len(s) - 1
        /\ \A i \in 1 .. Len(Tail(s)) : Tail(s)[i] = s[i + 1]
    BY HeadTailProperties DEF IsSeq
  <1>2. IsSeq(Tail(s))
    BY <1>1, SeqOfRange DEF IsSeq
  <1>. QED
    BY <1>1, <1>2

(* A sequence of one item.                                                 *)
LEMMA Single ==
  ASSUME NEW x
  PROVE  IsSeq(<<x>>) /\ Len(<<x>>) = 1 /\ <<x>>[1] = x
  <1>1. <<x>> \in Seq({x})
    OBVIOUS
  <1>2. IsSeq(<<x>>)
    BY <1>1, SeqOfRange DEF IsSeq
  <1>. QED
    BY <1>2

(* The empty sequence.                                                     *)
LEMMA Empty == IsSeq(<< >>) /\ Len(<< >>) = 0
  <1>1. << >> \in Seq({})
    OBVIOUS
  <1>. QED
    BY <1>1, SeqOfRange DEF IsSeq

(* A sequence with one item more.                                          *)
LEMMA AppendSeq ==
  ASSUME NEW s, IsSeq(s), NEW x
  PROVE  /\ IsSeq(Append(s, x))
         /\ Len(Append(s, x)) = Len(s) + 1
         /\ \A i \in 1 .. Len(s) : Append(s, x)[i] = s[i]
         /\ Append(s, x)[Len(s) + 1] = x
  <1>. DEFINE T == Range(s) \cup {x}
  <1>1. s \in Seq(T) /\ x \in T
    BY SeqMonotonic DEF IsSeq
  <1>. HIDE DEF T
  <1>2. /\ Append(s, x) \in Seq(T)
        /\ Len(Append(s, x)) = Len(s) + 1
        /\ \A i \in 1 .. Len(s) : Append(s, x)[i] = s[i]
        /\ Append(s, x)[Len(s) + 1] = x
    BY <1>1, AppendProperties
  <1>. QED
    BY <1>2, SeqOfRange DEF IsSeq

(* A part of a sequence: what PopBytes and PopHeader take.                 *)
LEMMA Part ==
  ASSUME NEW s, IsSeq(s), NEW m \in Nat \ {0}, NEW n \in Nat, m <= n + 1, n <= Len(s)
  PROVE  /\ IsSeq(SubSeq(s, m, n))
         /\ Len(SubSeq(s, m, n)) = n + 1 - m
         /\ \A i \in 1 .. n + 1 - m : SubSeq(s, m, n)[i] = s[m + i - 1]
  <1>1. \A i \in m .. n : s[i] \in Range(s)
    BY LenProperties DEF IsSeq
  <1>2. /\ SubSeq(s, m, n) \in Seq(Range(s))
        /\ Len(SubSeq(s, m, n)) = IF m <= n THEN n - m + 1 ELSE 0
        /\ \A i \in 1 .. n - m + 1 : SubSeq(s, m, n)[i] = s[m + i - 1]
    BY <1>1, SubSeqProperties
  <1>3. IsSeq(SubSeq(s, m, n))
    BY <1>2, SeqOfRange DEF IsSeq
  <1>. QED
    BY <1>2, <1>3

(* Sequences are equal if their lengths and items are.                     *)
LEMMA SameSeq ==
  ASSUME NEW a, NEW b, IsSeq(a), IsSeq(b), Len(a) = Len(b),
         \A i \in 1 .. Len(a) : a[i] = b[i]
  PROVE  a = b
  <1>. DEFINE T == Range(a) \cup Range(b)
  <1>1. a \in Seq(T) /\ b \in Seq(T)
    BY SeqMonotonic DEF IsSeq
  <1>. HIDE DEF T
  <1>. QED
    BY <1>1, SeqEqual

----------------------------------------------------------------------------
(* Layouts.                                                                *)
LEMMA SimpleU ==
  ASSUME NEW w \in Nat \ {0}, NEW n \in Nat \ {0}, NEW names, DOMAIN names = 1 .. n
  PROVE  Simple(U(w, names))
  <1>. DEFINE s == U(w, names)
  <1>1. s = [i \in 1 .. n |-> s[i]]
    BY DEF U
  <1>2. IsSeq(s) /\ Len(s) = n
    BY <1>1, IsSeqByDomain
  <1>3. \A i \in 1 .. n : IsSimple(s[i])
    BY DEF U, IsSimple
  <1>. QED
    BY <1>2, <1>3, SeqFacts DEF Simple, Plain

(* A string is simple.                                                     *)
LEMMA SimpleS ==
  ASSUME NEW name
  PROVE  Simple(S(name))
  <1>. DEFINE s == S(name)
  <1>1. s = [i \in 1 .. 1 |-> s[i]]
    BY DEF S
  <1>2. IsSeq(s) /\ Len(s) = 1
    BY <1>1, IsSeqByDomain
  <1>3. s[1].kind = "string"
    BY DEF S
  <1>. QED
    BY <1>2, <1>3, SeqFacts DEF Simple, Plain, IsSimple

(* Simple layouts one behind the other are simple.                         *)
LEMMA SimpleConcat ==
  ASSUME NEW a, NEW b, Simple(a), Simple(b)
  PROVE  Simple(a \o b)
  <1>1. IsSeq(a) /\ IsSeq(b)
    BY DEF Simple, Plain
  <1>2. \A i \in 1 .. Len(a) + Len(b) : IsSimple((a \o b)[i])
    <2>. TAKE i \in 1 .. Len(a) + Len(b)
    <2>1. CASE i <= Len(a)
      BY <1>1, <2>1, Concat, SeqFacts DEF Simple, Plain
    <2>2. CASE i > Len(a)
      <3>1. i - Len(a) \in 1 .. Len(b) /\ (a \o b)[i] = b[i - Len(a)]
        BY <1>1, <2>2, Concat, SeqFacts
      <3>. QED
        BY <3>1 DEF Simple, Plain
    <2>. QED
      BY <1>1, <2>1, <2>2, SeqFacts
  <1>. QED
    BY <1>1, <1>2, Concat, SeqFacts DEF Simple, Plain

(* Numbers are simple, as many as the layouts have in a row.               *)
LEMMA Numbers ==
  ASSUME NEW w \in Nat \ {0}
  PROVE  /\ \A a : Simple(U(w, <<a>>))
         /\ \A a, b : Simple(U(w, <<a, b>>))
         /\ \A a, b, c : Simple(U(w, <<a, b, c>>))
         /\ \A a, b, c, d : Simple(U(w, <<a, b, c, d>>))
         /\ \A a, b, c, d, e : Simple(U(w, <<a, b, c, d, e>>))
         /\ \A a, b, c, d, e, f : Simple(U(w, <<a, b, c, d, e, f>>))
         /\ \A a, b, c, d, e, f, g, h, i, j, k :
               Simple(U(w, <<a, b, c, d, e, f, g, h, i, j, k>>))
         /\ \A a, b, c, d, e, f, g, h, i, j, k, l, m, n, o :
               Simple(U(w, <<a, b, c, d, e, f, g, h, i, j, k, l, m, n, o>>))
  <1>1. ASSUME NEW a PROVE Simple(U(w, <<a>>))
    <2>. DEFINE names == <<a>>
    <2>1. DOMAIN names = 1 .. 1
      OBVIOUS
    <2>. HIDE DEF names
    <2>2. Simple(U(w, names))
      BY <2>1, SimpleU, 1 \in Nat \ {0}
    <2>. QED
      BY <2>2 DEF names
  <1>2. ASSUME NEW a, NEW b PROVE Simple(U(w, <<a, b>>))
    <2>. DEFINE names == <<a, b>>
    <2>1. DOMAIN names = 1 .. 2
      OBVIOUS
    <2>. HIDE DEF names
    <2>2. Simple(U(w, names))
      BY <2>1, SimpleU, 2 \in Nat \ {0}
    <2>. QED
      BY <2>2 DEF names
  <1>3. ASSUME NEW a, NEW b, NEW c PROVE Simple(U(w, <<a, b, c>>))
    <2>. DEFINE names == <<a, b, c>>
    <2>1. DOMAIN names = 1 .. 3
      OBVIOUS
    <2>. HIDE DEF names
    <2>2. Simple(U(w, names))
      BY <2>1, SimpleU, 3 \in Nat \ {0}
    <2>. QED
      BY <2>2 DEF names
  <1>4. ASSUME NEW a, NEW b, NEW c, NEW d PROVE Simple(U(w, <<a, b, c, d>>))
    <2>. DEFINE names == <<a, b, c, d>>
    <2>1. DOMAIN names = 1 .. 4
      OBVIOUS
    <2>. HIDE DEF names
    <2>2. Simple(U(w, names))
      BY <2>1, SimpleU, 4 \in Nat \ {0}
    <2>. QED
      BY <2>2 DEF names
  <1>5. ASSUME NEW a, NEW b, NEW c, NEW d, NEW e PROVE Simple(U(w, <<a, b, c, d, e>>))
    <2>. DEFINE names == <<a, b, c, d, e>>
    <2>1. DOMAIN names = 1 .. 5
      OBVIOUS
    <2>. HIDE DEF names
    <2>2. Simple(U(w, names))
      BY <2>1, SimpleU, 5 \in Nat \ {0}
    <2>. QED
      BY <2>2 DEF names
  <1>6. ASSUME NEW a, NEW b, NEW c, NEW d, NEW e, NEW f
        PROVE  Simple(U(w, <<a, b, c, d, e, f>>))
    <2>. DEFINE names == <<a, b, c, d, e, f>>
    <2>1. DOMAIN names = 1 .. 6
      OBVIOUS
    <2>. HIDE DEF names
    <2>2. Simple(U(w, names))
      BY <2>1, SimpleU, 6 \in Nat \ {0}
    <2>. QED
      BY <2>2 DEF names
  <1>7. ASSUME NEW a, NEW b, NEW c, NEW d, NEW e, NEW f, NEW g,
               NEW h, NEW i, NEW j, NEW k
        PROVE  Simple(U(w, <<a, b, c, d, e, f, g, h, i, j, k>>))
    <2>. DEFINE names == <<a, b, c, d, e, f, g, h, i, j, k>>
    <2>1. DOMAIN names = 1 .. 11
      OBVIOUS
    <2>. HIDE DEF names
    <2>2. Simple(U(w, names))
      BY <2>1, SimpleU, 11 \in Nat \ {0}
    <2>. QED
      BY <2>2 DEF names
  <1>8. ASSUME NEW a, NEW b, NEW c, NEW d, NEW e, NEW f, NEW g,
               NEW h, NEW i, NEW j, NEW k, NEW l, NEW m, NEW n, NEW o
        PROVE  Simple(U(w, <<a, b, c, d, e, f, g, h, i, j, k, l, m, n, o>>))
    <2>. DEFINE names == <<a, b, c, d, e, f, g, h, i, j, k, l, m, n, o>>
    <2>1. DOMAIN names = 1 .. 15
      OBVIOUS
    <2>. HIDE DEF names
    <2>2. Simple(U(w, names))
      BY <2>1, SimpleU, 15 \in Nat \ {0}
    <2>. QED
      BY <2>2 DEF names
  <1>. QED
    BY <1>1, <1>2, <1>3, <1>4, <1>5, <1>6, <1>7, <1>8

(* The parts that several messages share are simple.                       *)
LEMMA SimpleParts ==
  /\ Simple(Qid) /\ Simple(Attributes) /\ Simple(Byte)
  /\ Simple(DirectoryEntry) /\ Simple(WindowsDirectoryEntry)
  <1>1. Simple(Qid)
    BY Numbers, SimpleConcat DEF Qid
  <1>2. Simple(Attributes)
    BY Numbers, SimpleConcat DEF Attributes
  <1>3. Simple(DirectoryEntry)
    BY <1>1, Numbers, SimpleS, SimpleConcat DEF DirectoryEntry
  <1>4. Simple(WindowsDirectoryEntry)
    BY <1>3, Numbers, SimpleConcat DEF WindowsDirectoryEntry
  <1>5. Simple(Byte)
    BY Numbers DEF Byte
  <1>. QED
    BY <1>1, <1>2, <1>3, <1>4, <1>5

(* Simple items can be pushed.                                             *)
LEMMA PushableSimple ==
  ASSUME NEW s, Simple(s)
  PROVE  Pushable(s)
  <1>. QED
    BY SeqFacts DEF Simple, Plain, Pushable, Loose, IsItem, IsSimple

(* A counted list of simple elements can be pushed.                        *)
LEMMA PushableList ==
  ASSUME NEW width \in Nat \ {0}, NEW name, NEW element, Simple(element)
  PROVE  Pushable(List(width, name, element))
  <1>. DEFINE s == List(width, name, element)
  <1>1. s = [i \in 1 .. 2 |-> s[i]]
    BY DEF List
  <1>2. IsSeq(s) /\ Len(s) = 2
    BY <1>1, IsSeqByDomain
  <1>3. /\ s[1].kind = "count" /\ s[1].width = width
        /\ s[2].kind = "elements" /\ s[2].of = element /\ s[2].left = 0
    BY DEF List, Elements
  <1>4. IsItem(s[1]) /\ IsItem(s[2])
    BY <1>3 DEF IsItem, Simple
  <1>. HIDE DEF s
  <1>5. \A i \in 1 .. Len(s) : i = 1 \/ i = 2
    BY <1>2
  <1>6. Pushable(s)
    BY <1>2, <1>3, <1>4, <1>5 DEF Pushable, Loose
  <1>. QED
    BY <1>6 DEF s

(* Simple items before a layout, even before a loop, can be pushed.        *)
LEMMA LooseConcat ==
  ASSUME NEW a, NEW s, Simple(a), Loose(s)
  PROVE  Pushable(a \o s)
  <1>1. /\ IsSeq(a) /\ IsSeq(s) /\ Len(a) \in Nat \ {0} /\ Len(s) \in Nat
    BY SeqFacts DEF Simple, Plain, Loose
  <1>2. /\ IsSeq(a \o s)
        /\ Len(a \o s) = Len(a) + Len(s)
        /\ \A i \in 1 .. Len(a) : (a \o s)[i] = a[i]
        /\ \A i \in Len(a) + 1 .. Len(a) + Len(s) : (a \o s)[i] = s[i - Len(a)]
    BY <1>1, Concat
  <1>. DEFINE u == a \o s
  <1>. HIDE DEF u
  <1>3. ASSUME NEW i \in 1 .. Len(u), i <= Len(a)
        PROVE  IsSimple(u[i])
    BY <1>1, <1>2, <1>3 DEF Simple, Plain, u
  <1>4. ASSUME NEW i \in 1 .. Len(u), i > Len(a)
        PROVE  /\ IsItem(u[i])
               /\ u[i].kind = "count" => i < Len(u) /\ u[i + 1].kind = "elements"
               /\ u[i].kind = "elements" /\ i < Len(u) => u[i + 1].kind # "elements"
    <2>. DEFINE j == i - Len(a)
    <2>1. j \in 1 .. Len(s) /\ u[i] = s[j] /\ (i < Len(u) <=> j < Len(s))
      BY <1>1, <1>2, <1>4 DEF u
    <2>2. i < Len(u) => u[i + 1] = s[j + 1]
      <3>1. ASSUME i < Len(u)
            PROVE  /\ i + 1 \in Len(a) + 1 .. Len(a) + Len(s)
                   /\ (i + 1) - Len(a) = j + 1
        BY <1>1, <1>2, <1>4, <3>1 DEF u
      <3>. QED
        BY <3>1, <1>2 DEF u
    <2>. HIDE DEF j
    <2>. QED
      BY <2>1, <2>2 DEF Loose
  <1>5. \A i \in 1 .. Len(u) : i <= Len(a) \/ i > Len(a)
    BY <1>1, <1>2 DEF u
  <1>6. Loose(u)
    BY <1>2, <1>3, <1>4, <1>5 DEF Loose, IsItem, IsSimple, u
  <1>7. u[1].kind # "elements"
    BY <1>1, <1>2, <1>3 DEF IsSimple, u
  <1>. QED
    BY <1>6, <1>7 DEF Pushable, u

(* Simple items before a layout that can be pushed.                        *)
LEMMA PushableConcat ==
  ASSUME NEW a, NEW s, Simple(a), Pushable(s)
  PROVE  Pushable(a \o s)
  BY LooseConcat DEF Pushable

(* From Rlerror to Rreadlink code and comments agree.                      *)
LEMMA OpeningLayouts ==
  \A m \in OpeningNames : Opening[m] = LinuxMessages[m] /\ Pushable(LinuxMessages[m])
  <1>. DEFINE C == Opening
              D == LinuxMessages
  <1>1. /\ C.LinuxErrorResponse = D.LinuxErrorResponse
        /\ C.FileSystemStatusRequest = D.FileSystemStatusRequest
        /\ C.FileSystemStatusResponse = D.FileSystemStatusResponse
        /\ C.LinuxOpenRequest = D.LinuxOpenRequest
        /\ C.LinuxOpenResponse = D.LinuxOpenResponse
        /\ C.LinuxCreateRequest = D.LinuxCreateRequest
        /\ C.LinuxCreateResponse = D.LinuxCreateResponse
        /\ C.MakeSymbolicLinkRequest = D.MakeSymbolicLinkRequest
        /\ C.MakeSymbolicLinkResponse = D.MakeSymbolicLinkResponse
        /\ C.MakeDeviceNodeRequest = D.MakeDeviceNodeRequest
        /\ C.MakeDeviceNodeResponse = D.MakeDeviceNodeResponse
        /\ C.RenameRequest = D.RenameRequest
        /\ C.ReadLinkRequest = D.ReadLinkRequest
        /\ C.ReadLinkResponse = D.ReadLinkResponse
    BY DEF PopQid, Qid, PopAttributes, Attributes, Opening, LinuxMessages
  <1>2. /\ Simple(D.LinuxErrorResponse)
        /\ Simple(D.FileSystemStatusRequest)
        /\ Simple(D.FileSystemStatusResponse)
        /\ Simple(D.LinuxOpenRequest)
        /\ Simple(D.LinuxOpenResponse)
        /\ Simple(D.LinuxCreateRequest)
        /\ Simple(D.LinuxCreateResponse)
        /\ Simple(D.MakeSymbolicLinkRequest)
        /\ Simple(D.MakeSymbolicLinkResponse)
        /\ Simple(D.MakeDeviceNodeRequest)
        /\ Simple(D.MakeDeviceNodeResponse)
        /\ Simple(D.RenameRequest)
        /\ Simple(D.ReadLinkRequest)
        /\ Simple(D.ReadLinkResponse)
    BY Numbers, SimpleS, SimpleConcat, SimpleParts DEF LinuxMessages
  <1>. HIDE DEF C, D
  <1>4. \A m \in OpeningNames : C[m] = D[m] /\ Pushable(D[m])
    BY <1>1, <1>2, PushableSimple DEF OpeningNames
  <1>. QED
    BY <1>4 DEF C, D

(* From Tgetattr to Tfsync they do, Rreaddir apart.                        *)
LEMMA AttributeAndDirectoryLayouts ==
  \A m \in AttributeAndDirectoryNames :
     AttributesAndDirectories[m] = LinuxMessages[m] /\ Pushable(LinuxMessages[m])
  <1>. DEFINE C == AttributesAndDirectories
              D == LinuxMessages
  <1>1. /\ C.GetAttributesRequest = D.GetAttributesRequest
        /\ C.GetAttributesResponse = D.GetAttributesResponse
        /\ C.SetAttributesRequest = D.SetAttributesRequest
        /\ C.WalkExtendedAttributesRequest = D.WalkExtendedAttributesRequest
        /\ C.WalkExtendedAttributesResponse = D.WalkExtendedAttributesResponse
        /\ C.CreateExtendedAttributesRequest = D.CreateExtendedAttributesRequest
        /\ C.ReadDirectoryRequest = D.ReadDirectoryRequest
        /\ C.FlushFileRequest = D.FlushFileRequest
    BY DEF PopQid, Qid, PopAttributes, Attributes, AttributesAndDirectories, LinuxMessages
  <1>2. /\ Simple(D.GetAttributesRequest)
        /\ Simple(D.GetAttributesResponse)
        /\ Simple(D.SetAttributesRequest)
        /\ Simple(D.WalkExtendedAttributesRequest)
        /\ Simple(D.WalkExtendedAttributesResponse)
        /\ Simple(D.CreateExtendedAttributesRequest)
        /\ Simple(D.ReadDirectoryRequest)
        /\ Simple(D.FlushFileRequest)
    BY Numbers, SimpleS, SimpleConcat, SimpleParts DEF LinuxMessages
  <1>. HIDE DEF C, D
  <1>4. \A m \in AttributeAndDirectoryNames : C[m] = D[m] /\ Pushable(D[m])
    BY <1>1, <1>2, PushableSimple DEF AttributeAndDirectoryNames
  <1>. QED
    BY <1>4 DEF C, D

(* From Tlock to Tunlinkat they do.                                        *)
LEMMA LockAndNameLayouts ==
  \A m \in LockAndNameNames :
     LocksAndNames[m] = LinuxMessages[m] /\ Pushable(LinuxMessages[m])
  <1>. DEFINE C == LocksAndNames
              D == LinuxMessages
  <1>1. /\ C.LockRequest = D.LockRequest
        /\ C.LockResponse = D.LockResponse
        /\ C.GetLockRequest = D.GetLockRequest
        /\ C.GetLockResponse = D.GetLockResponse
        /\ C.LinkRequest = D.LinkRequest
        /\ C.MakeDirectoryRequest = D.MakeDirectoryRequest
        /\ C.MakeDirectoryResponse = D.MakeDirectoryResponse
        /\ C.RenameAtRequest = D.RenameAtRequest
        /\ C.UnlinkAtRequest = D.UnlinkAtRequest
    BY DEF PopQid, Qid, PopAttributes, Attributes, LocksAndNames, LinuxMessages
  <1>2. /\ Simple(D.LockRequest)
        /\ Simple(D.LockResponse)
        /\ Simple(D.GetLockRequest)
        /\ Simple(D.GetLockResponse)
        /\ Simple(D.LinkRequest)
        /\ Simple(D.MakeDirectoryRequest)
        /\ Simple(D.MakeDirectoryResponse)
        /\ Simple(D.RenameAtRequest)
        /\ Simple(D.UnlinkAtRequest)
    BY Numbers, SimpleS, SimpleConcat, SimpleParts DEF LinuxMessages
  <1>. HIDE DEF C, D
  <1>4. \A m \in LockAndNameNames : C[m] = D[m] /\ Pushable(D[m])
    BY <1>1, <1>2, PushableSimple DEF LockAndNameNames
  <1>. QED
    BY <1>4 DEF C, D

(* From Tversion to Rcreate they do, Rerror and Tcreate apart.             *)
LEMMA SessionAndWalkLayouts ==
  \A m \in SessionAndWalkNames :
     SessionAndWalk[m] = BaseMessages[m] /\ Pushable(BaseMessages[m])
  <1>. DEFINE C == SessionAndWalk
              D == BaseMessages
  <1>1. /\ C.VersionRequest = D.VersionRequest
        /\ C.VersionResponse = D.VersionResponse
        /\ C.AuthenticationRequest = D.AuthenticationRequest
        /\ C.AuthenticationResponse = D.AuthenticationResponse
        /\ C.AttachRequest = D.AttachRequest
        /\ C.AttachResponse = D.AttachResponse
        /\ C.FlushRequest = D.FlushRequest
        /\ C.WalkRequest = D.WalkRequest
        /\ C.WalkResponse = D.WalkResponse
        /\ C.OpenRequest = D.OpenRequest
        /\ C.OpenResponse = D.OpenResponse
        /\ C.CreateResponse = D.CreateResponse
    BY DEF PopQid, Qid, PopAttributes, Attributes, SessionAndWalk, BaseMessages
  <1>2. /\ Simple(D.VersionRequest)
        /\ Simple(D.VersionResponse)
        /\ Simple(D.AuthenticationRequest)
        /\ Simple(D.AuthenticationResponse)
        /\ Simple(D.AttachRequest)
        /\ Simple(D.AttachResponse)
        /\ Simple(D.FlushRequest)
        /\ Simple(D.OpenRequest)
        /\ Simple(D.OpenResponse)
        /\ Simple(D.CreateResponse)
    BY Numbers, SimpleS, SimpleConcat, SimpleParts DEF BaseMessages
  <1>3. /\ Pushable(D.WalkRequest)
        /\ Pushable(D.WalkResponse)
    BY Numbers, SimpleS, SimpleConcat, SimpleParts, PushableList, PushableConcat
       DEF BaseMessages
  <1>. HIDE DEF C, D
  <1>4. \A m \in SessionAndWalkNames : C[m] = D[m] /\ Pushable(D[m])
    BY <1>1, <1>2, PushableSimple, <1>3 DEF SessionAndWalkNames
  <1>. QED
    BY <1>4 DEF C, D

(* From Tread to Tstat they do.                                            *)
LEMMA TransferLayouts ==
  \A m \in TransferNames : Transferring[m] = BaseMessages[m] /\ Pushable(BaseMessages[m])
  <1>. DEFINE C == Transferring
              D == BaseMessages
  <1>1. /\ C.ReadRequest = D.ReadRequest
        /\ C.ReadResponse = D.ReadResponse
        /\ C.WriteRequest = D.WriteRequest
        /\ C.WriteResponse = D.WriteResponse
        /\ C.ClunkRequest = D.ClunkRequest
        /\ C.RemoveRequest = D.RemoveRequest
        /\ C.ReadStatusRequest = D.ReadStatusRequest
    BY DEF PopQid, Qid, PopAttributes, Attributes, Transferring, BaseMessages
  <1>2. /\ Simple(D.ReadRequest)
        /\ Simple(D.WriteResponse)
        /\ Simple(D.ClunkRequest)
        /\ Simple(D.RemoveRequest)
        /\ Simple(D.ReadStatusRequest)
    BY Numbers, SimpleS, SimpleConcat, SimpleParts DEF BaseMessages
  <1>3. /\ Pushable(D.ReadResponse)
        /\ Pushable(D.WriteRequest)
    BY Numbers, SimpleS, SimpleConcat, SimpleParts, PushableList, PushableConcat
       DEF BaseMessages
  <1>. HIDE DEF C, D
  <1>4. \A m \in TransferNames : C[m] = D[m] /\ Pushable(D[m])
    BY <1>1, <1>2, PushableSimple, <1>3 DEF TransferNames
  <1>. QED
    BY <1>4 DEF C, D

(* The messages of 9P2000.W do, Rwreaddir apart.                           *)
LEMMA WindowsLayouts ==
  \A m \in WindowsNames : Windows[m] = WindowsMessages[m] /\ Pushable(WindowsMessages[m])
  <1>. DEFINE C == Windows
              D == WindowsMessages
  <1>1. /\ C.AccessRequest = D.AccessRequest
        /\ C.WindowsReadDirectoryRequest = D.WindowsReadDirectoryRequest
        /\ C.WindowsOpenRequest = D.WindowsOpenRequest
        /\ C.WindowsOpenResponse = D.WindowsOpenResponse
    BY DEF PopQid, Qid, PopAttributes, Attributes, Windows, WindowsMessages
  <1>2. /\ Simple(D.AccessRequest)
        /\ Simple(D.WindowsReadDirectoryRequest)
        /\ Simple(D.WindowsOpenResponse)
    BY Numbers, SimpleS, SimpleConcat, SimpleParts DEF WindowsMessages
  <1>3. /\ Pushable(D.WindowsOpenRequest)
    BY Numbers, SimpleS, SimpleConcat, SimpleParts, PushableList, PushableConcat
       DEF WindowsMessages
  <1>. HIDE DEF C, D
  <1>4. \A m \in WindowsNames : C[m] = D[m] /\ Pushable(D[m])
    BY <1>1, <1>2, PushableSimple, <1>3 DEF WindowsNames
  <1>. QED
    BY <1>4 DEF C, D

(* Two tables without a message in common.                                 *)
LEMMA Merged ==
  ASSUME NEW f, NEW g, DOMAIN f \cap DOMAIN g = {}
  PROVE  /\ DOMAIN (f ++ g) = DOMAIN f \cup DOMAIN g
         /\ \A m \in DOMAIN f : (f ++ g)[m] = f[m]
         /\ \A m \in DOMAIN g : (f ++ g)[m] = g[m]
  <1>. QED
    BY DEF ++

(* The messages of each table.                                             *)
LEMMA Tables ==
  /\ DOMAIN Opening = OpeningNames
  /\ DOMAIN AttributesAndDirectories =
        AttributeAndDirectoryNames \cup {"ReadDirectoryResponse"}
  /\ DOMAIN LocksAndNames = LockAndNameNames
  /\ DOMAIN SessionAndWalk =
        SessionAndWalkNames \cup {"ErrorResponse", "UnixErrorResponse", "CreateRequest"}
  /\ DOMAIN ReadInPlace = {"ReadInPlaceResponse"}
  /\ DOMAIN WriteInPlace = {"WriteInPlaceRequest"}
  /\ DOMAIN Transferring = TransferNames
  /\ DOMAIN Windows = WindowsNames \cup {"WindowsReadDirectoryResponse"}
  <1>1. DOMAIN Opening = OpeningNames
    BY DEF Opening, OpeningNames
  <1>2. DOMAIN AttributesAndDirectories =
           AttributeAndDirectoryNames \cup {"ReadDirectoryResponse"}
    BY DEF AttributesAndDirectories, AttributeAndDirectoryNames
  <1>3. DOMAIN LocksAndNames = LockAndNameNames
    BY DEF LocksAndNames, LockAndNameNames
  <1>4. DOMAIN SessionAndWalk =
           SessionAndWalkNames \cup {"ErrorResponse", "UnixErrorResponse", "CreateRequest"}
    BY DEF SessionAndWalk, SessionAndWalkNames
  <1>5. DOMAIN ReadInPlace = {"ReadInPlaceResponse"}
    BY DEF ReadInPlace
  <1>6. DOMAIN WriteInPlace = {"WriteInPlaceRequest"}
    BY DEF WriteInPlace
  <1>7. DOMAIN Transferring = TransferNames
    BY DEF Transferring, TransferNames
  <1>8. DOMAIN Windows = WindowsNames \cup {"WindowsReadDirectoryResponse"}
    BY DEF Windows, WindowsNames
  <1>. QED
    BY <1>1, <1>2, <1>3, <1>4, <1>5, <1>6, <1>7, <1>8

(* The messages of each table of Layouts.                                  *)
LEMMA DocumentedTables ==
  /\ DOMAIN LinuxMessages = OpeningNames \cup AttributeAndDirectoryNames
                              \cup LockAndNameNames \cup {"ReadDirectoryResponse"}
  /\ DOMAIN BaseMessages = SessionAndWalkNames \cup TransferNames
                              \cup {"ErrorResponse", "UnixErrorResponse", "CreateRequest"}
  /\ DOMAIN WindowsMessages = WindowsNames \cup {"WindowsReadDirectoryResponse"}
  <1>1. DOMAIN LinuxMessages =
           OpeningNames \cup AttributeAndDirectoryNames \cup LockAndNameNames
             \cup {"ReadDirectoryResponse"}
    BY DEF LinuxMessages, OpeningNames, AttributeAndDirectoryNames, LockAndNameNames
  <1>2. DOMAIN BaseMessages =
           SessionAndWalkNames \cup TransferNames
             \cup {"ErrorResponse", "UnixErrorResponse", "CreateRequest"}
    BY DEF BaseMessages, SessionAndWalkNames, TransferNames
  <1>3. DOMAIN WindowsMessages = WindowsNames \cup {"WindowsReadDirectoryResponse"}
    BY DEF WindowsMessages, WindowsNames
  <1>. QED
    BY <1>1, <1>2, <1>3

(* What the code pushes and pops, message by message.                      *)
LEMMA CodedIs ==
  /\ DOMAIN Coded = OpeningNames \cup AttributeAndDirectoryNames \cup LockAndNameNames
        \cup SessionAndWalkNames \cup TransferNames \cup WindowsNames
        \cup {"ReadDirectoryResponse", "ErrorResponse", "UnixErrorResponse",
              "CreateRequest", "ReadInPlaceResponse", "WriteInPlaceRequest",
              "WindowsReadDirectoryResponse"}
  /\ \A m \in DOMAIN Opening : Coded[m] = Opening[m]
  /\ \A m \in DOMAIN AttributesAndDirectories : Coded[m] = AttributesAndDirectories[m]
  /\ \A m \in DOMAIN LocksAndNames : Coded[m] = LocksAndNames[m]
  /\ \A m \in DOMAIN SessionAndWalk : Coded[m] = SessionAndWalk[m]
  /\ \A m \in DOMAIN ReadInPlace : Coded[m] = ReadInPlace[m]
  /\ \A m \in DOMAIN WriteInPlace : Coded[m] = WriteInPlace[m]
  /\ \A m \in DOMAIN Transferring : Coded[m] = Transferring[m]
  /\ \A m \in DOMAIN Windows : Coded[m] = Windows[m]
  <1>. DEFINE T2 == Opening ++ AttributesAndDirectories
              T3 == T2 ++ LocksAndNames
              T4 == T3 ++ SessionAndWalk
              T5 == T4 ++ ReadInPlace
              T6 == T5 ++ WriteInPlace
              T7 == T6 ++ Transferring
              T8 == T7 ++ Windows
  <1>0. Coded = T8
    BY DEF Coded
  <1>2. /\ DOMAIN T2 = DOMAIN Opening \cup DOMAIN AttributesAndDirectories
        /\ \A m \in DOMAIN Opening : T2[m] = Opening[m]
        /\ \A m \in DOMAIN AttributesAndDirectories : T2[m] = AttributesAndDirectories[m]
    <2>1. (OpeningNames)
             \cap (AttributeAndDirectoryNames \cup {"ReadDirectoryResponse"}) = {}
      BY DEF OpeningNames, AttributeAndDirectoryNames
    <2>2. DOMAIN Opening \cap DOMAIN AttributesAndDirectories = {}
      BY <2>1, Tables
    <2>. QED
      BY <2>2, Merged
  <1>. HIDE DEF T2
  <1>3. /\ DOMAIN T3 = DOMAIN T2 \cup DOMAIN LocksAndNames
        /\ \A m \in DOMAIN T2 : T3[m] = T2[m]
        /\ \A m \in DOMAIN LocksAndNames : T3[m] = LocksAndNames[m]
    <2>1. (OpeningNames
             \cup (AttributeAndDirectoryNames \cup {"ReadDirectoryResponse"}))
             \cap (LockAndNameNames) = {}
      BY DEF OpeningNames, AttributeAndDirectoryNames, LockAndNameNames
    <2>2. DOMAIN T2 \cap DOMAIN LocksAndNames = {}
      BY <2>1, <1>2, Tables
    <2>. QED
      BY <2>2, Merged
  <1>. HIDE DEF T3
  <1>4. /\ DOMAIN T4 = DOMAIN T3 \cup DOMAIN SessionAndWalk
        /\ \A m \in DOMAIN T3 : T4[m] = T3[m]
        /\ \A m \in DOMAIN SessionAndWalk : T4[m] = SessionAndWalk[m]
    <2>1. (OpeningNames
             \cup (AttributeAndDirectoryNames \cup {"ReadDirectoryResponse"})
             \cup LockAndNameNames)
             \cap (SessionAndWalkNames
                   \cup {"ErrorResponse", "UnixErrorResponse", "CreateRequest"}) = {}
      BY DEF OpeningNames, AttributeAndDirectoryNames, LockAndNameNames,
           SessionAndWalkNames
    <2>2. DOMAIN T3 \cap DOMAIN SessionAndWalk = {}
      BY <2>1, <1>2, <1>3, Tables
    <2>. QED
      BY <2>2, Merged
  <1>. HIDE DEF T4
  <1>5. /\ DOMAIN T5 = DOMAIN T4 \cup DOMAIN ReadInPlace
        /\ \A m \in DOMAIN T4 : T5[m] = T4[m]
        /\ \A m \in DOMAIN ReadInPlace : T5[m] = ReadInPlace[m]
    <2>1. (OpeningNames
             \cup (AttributeAndDirectoryNames \cup {"ReadDirectoryResponse"})
             \cup LockAndNameNames
             \cup (SessionAndWalkNames
                   \cup {"ErrorResponse", "UnixErrorResponse", "CreateRequest"}))
             \cap ({"ReadInPlaceResponse"}) = {}
      BY DEF OpeningNames, AttributeAndDirectoryNames, LockAndNameNames,
           SessionAndWalkNames
    <2>2. DOMAIN T4 \cap DOMAIN ReadInPlace = {}
      BY <2>1, <1>2, <1>3, <1>4, Tables
    <2>. QED
      BY <2>2, Merged
  <1>. HIDE DEF T5
  <1>6. /\ DOMAIN T6 = DOMAIN T5 \cup DOMAIN WriteInPlace
        /\ \A m \in DOMAIN T5 : T6[m] = T5[m]
        /\ \A m \in DOMAIN WriteInPlace : T6[m] = WriteInPlace[m]
    <2>1. (OpeningNames
             \cup (AttributeAndDirectoryNames \cup {"ReadDirectoryResponse"})
             \cup LockAndNameNames
             \cup (SessionAndWalkNames
                   \cup {"ErrorResponse", "UnixErrorResponse", "CreateRequest"})
             \cup {"ReadInPlaceResponse"})
             \cap ({"WriteInPlaceRequest"}) = {}
      BY DEF OpeningNames, AttributeAndDirectoryNames, LockAndNameNames,
           SessionAndWalkNames
    <2>2. DOMAIN T5 \cap DOMAIN WriteInPlace = {}
      BY <2>1, <1>2, <1>3, <1>4, <1>5, Tables
    <2>. QED
      BY <2>2, Merged
  <1>. HIDE DEF T6
  <1>7. /\ DOMAIN T7 = DOMAIN T6 \cup DOMAIN Transferring
        /\ \A m \in DOMAIN T6 : T7[m] = T6[m]
        /\ \A m \in DOMAIN Transferring : T7[m] = Transferring[m]
    <2>1. (OpeningNames
             \cup (AttributeAndDirectoryNames \cup {"ReadDirectoryResponse"})
             \cup LockAndNameNames
             \cup (SessionAndWalkNames
                   \cup {"ErrorResponse", "UnixErrorResponse", "CreateRequest"})
             \cup {"ReadInPlaceResponse"}
             \cup {"WriteInPlaceRequest"})
             \cap (TransferNames) = {}
      BY DEF OpeningNames, AttributeAndDirectoryNames, LockAndNameNames,
           SessionAndWalkNames, TransferNames
    <2>2. DOMAIN T6 \cap DOMAIN Transferring = {}
      BY <2>1, <1>2, <1>3, <1>4, <1>5, <1>6, Tables
    <2>. QED
      BY <2>2, Merged
  <1>. HIDE DEF T7
  <1>8. /\ DOMAIN T8 = DOMAIN T7 \cup DOMAIN Windows
        /\ \A m \in DOMAIN T7 : T8[m] = T7[m]
        /\ \A m \in DOMAIN Windows : T8[m] = Windows[m]
    <2>1. (OpeningNames
             \cup (AttributeAndDirectoryNames \cup {"ReadDirectoryResponse"})
             \cup LockAndNameNames
             \cup (SessionAndWalkNames
                   \cup {"ErrorResponse", "UnixErrorResponse", "CreateRequest"})
             \cup {"ReadInPlaceResponse"}
             \cup {"WriteInPlaceRequest"}
             \cup TransferNames)
             \cap (WindowsNames \cup {"WindowsReadDirectoryResponse"}) = {}
      BY DEF OpeningNames, AttributeAndDirectoryNames, LockAndNameNames,
           SessionAndWalkNames, TransferNames, WindowsNames
    <2>2. DOMAIN T7 \cap DOMAIN Windows = {}
      BY <2>1, <1>2, <1>3, <1>4, <1>5, <1>6, <1>7, Tables
    <2>. QED
      BY <2>2, Merged
  <1>. HIDE DEF T8
  <1>9. DOMAIN T8 = DOMAIN Opening \cup DOMAIN AttributesAndDirectories
          \cup DOMAIN LocksAndNames \cup DOMAIN SessionAndWalk \cup DOMAIN ReadInPlace
          \cup DOMAIN WriteInPlace \cup DOMAIN Transferring \cup DOMAIN Windows
    BY <1>2, <1>3, <1>4, <1>5, <1>6, <1>7, <1>8
  <1>10. DOMAIN T8 = OpeningNames \cup AttributeAndDirectoryNames \cup LockAndNameNames
        \cup SessionAndWalkNames \cup TransferNames \cup WindowsNames
        \cup {"ReadDirectoryResponse", "ErrorResponse", "UnixErrorResponse",
              "CreateRequest", "ReadInPlaceResponse", "WriteInPlaceRequest",
              "WindowsReadDirectoryResponse"}
    BY <1>9, Tables
  <1>11. /\ \A m \in DOMAIN Opening : T8[m] = Opening[m]
         /\ \A m \in DOMAIN AttributesAndDirectories : T8[m] = AttributesAndDirectories[m]
    BY <1>2, <1>3, <1>4, <1>5, <1>6, <1>7, <1>8
  <1>12. /\ \A m \in DOMAIN LocksAndNames : T8[m] = LocksAndNames[m]
         /\ \A m \in DOMAIN SessionAndWalk : T8[m] = SessionAndWalk[m]
    BY <1>3, <1>4, <1>5, <1>6, <1>7, <1>8
  <1>13. /\ \A m \in DOMAIN ReadInPlace : T8[m] = ReadInPlace[m]
         /\ \A m \in DOMAIN WriteInPlace : T8[m] = WriteInPlace[m]
    BY <1>5, <1>6, <1>7, <1>8
  <1>14. /\ \A m \in DOMAIN Transferring : T8[m] = Transferring[m]
         /\ \A m \in DOMAIN Windows : T8[m] = Windows[m]
    BY <1>7, <1>8
  <1>. QED
    BY <1>0, <1>10, <1>11, <1>12, <1>13, <1>14

(* What the comments say, message by message.                              *)
LEMMA DocumentedIs ==
  /\ \A m \in DOMAIN LinuxMessages : Documented[m] = LinuxMessages[m]
  /\ \A m \in DOMAIN BaseMessages : Documented[m] = BaseMessages[m]
  /\ \A m \in DOMAIN WindowsMessages : Documented[m] = WindowsMessages[m]
  /\ Documented["ReadInPlaceResponse"] = BaseMessages.ReadResponse
  /\ Documented["WriteInPlaceRequest"] = BaseMessages.WriteRequest
  <1>. DEFINE I == [ReadInPlaceResponse |-> BaseMessages.ReadResponse,
                    WriteInPlaceRequest |-> BaseMessages.WriteRequest]
              T2 == LinuxMessages ++ BaseMessages
              T3 == T2 ++ WindowsMessages
              T4 == T3 ++ I
  <1>0. Documented = T4
    BY DEF Documented
  <1>1. /\ DOMAIN I = {"ReadInPlaceResponse", "WriteInPlaceRequest"}
        /\ I["ReadInPlaceResponse"] = BaseMessages.ReadResponse
        /\ I["WriteInPlaceRequest"] = BaseMessages.WriteRequest
    OBVIOUS
  <1>. HIDE DEF I
  <1>2. /\ DOMAIN T2 = DOMAIN LinuxMessages \cup DOMAIN BaseMessages
        /\ \A m \in DOMAIN LinuxMessages : T2[m] = LinuxMessages[m]
        /\ \A m \in DOMAIN BaseMessages : T2[m] = BaseMessages[m]
    <2>1. (OpeningNames \cup AttributeAndDirectoryNames \cup LockAndNameNames
              \cup {"ReadDirectoryResponse"})
            \cap (SessionAndWalkNames \cup TransferNames
              \cup {"ErrorResponse", "UnixErrorResponse", "CreateRequest"}) = {}
      BY DEF OpeningNames, AttributeAndDirectoryNames, LockAndNameNames,
             SessionAndWalkNames, TransferNames, WindowsNames
    <2>2. DOMAIN LinuxMessages \cap DOMAIN BaseMessages = {}
      BY <2>1, DocumentedTables
    <2>. QED
      BY <2>2, Merged
  <1>. HIDE DEF T2
  <1>3. /\ DOMAIN T3 = DOMAIN T2 \cup DOMAIN WindowsMessages
        /\ \A m \in DOMAIN T2 : T3[m] = T2[m]
        /\ \A m \in DOMAIN WindowsMessages : T3[m] = WindowsMessages[m]
    <2>1. ((OpeningNames \cup AttributeAndDirectoryNames \cup LockAndNameNames
              \cup {"ReadDirectoryResponse"})
             \cup (SessionAndWalkNames \cup TransferNames
              \cup {"ErrorResponse", "UnixErrorResponse", "CreateRequest"}))
            \cap (WindowsNames \cup {"WindowsReadDirectoryResponse"}) = {}
      BY DEF OpeningNames, AttributeAndDirectoryNames, LockAndNameNames,
             SessionAndWalkNames, TransferNames, WindowsNames
    <2>2. DOMAIN T2 \cap DOMAIN WindowsMessages = {}
      BY <2>1, <1>2, DocumentedTables
    <2>. QED
      BY <2>2, Merged
  <1>. HIDE DEF T3
  <1>4. /\ \A m \in DOMAIN T3 : T4[m] = T3[m]
        /\ \A m \in DOMAIN I : T4[m] = I[m]
    <2>1. ((OpeningNames \cup AttributeAndDirectoryNames \cup LockAndNameNames
              \cup {"ReadDirectoryResponse"})
             \cup (SessionAndWalkNames \cup TransferNames
              \cup {"ErrorResponse", "UnixErrorResponse", "CreateRequest"})
             \cup (WindowsNames \cup {"WindowsReadDirectoryResponse"}))
            \cap {"ReadInPlaceResponse", "WriteInPlaceRequest"} = {}
      BY DEF OpeningNames, AttributeAndDirectoryNames, LockAndNameNames,
             SessionAndWalkNames, TransferNames, WindowsNames
    <2>2. DOMAIN T3 \cap DOMAIN I = {}
      BY <2>1, <1>1, <1>2, <1>3, DocumentedTables
    <2>. QED
      BY <2>2, Merged
  <1>. HIDE DEF T4
  <1>. QED
    BY <1>0, <1>1, <1>2, <1>3, <1>4

----------------------------------------------------------------------------
(* Layouts that agree: the same on both sides.                             *)
LEMMA AgreeSame ==
  ASSUME NEW s, Loose(s)
  PROVE  Agree(s, s)
  BY DEF Agree, SameItem, Loose

(* What a receiver expects is as long as what the sender has to push, or   *)
(* it has an optional item more.                                           *)
LEMMA AgreeLength ==
  ASSUME NEW t, NEW s, IsSeq(s), Agree(t, s)
  PROVE  /\ IsSeq(t) /\ Len(t) \in Nat /\ Len(s) \in Nat
         /\ Len(t) = Len(s) \/ Len(t) = Len(s) + 1
         /\ s # << >> => t # << >> /\ SameItem(t, s, 1)
         /\ s = << >> => \/ t = << >>
                         \/ /\ Len(t) = 1 /\ t[1].kind = "optional"
                            /\ t[1].width \in Nat \ {0}
  <1>1. IsSeq(t) /\ Len(t) \in Nat /\ Len(s) \in Nat
    BY SeqFacts DEF Agree
  <1>2. Len(t) = Len(s) \/ Len(t) = Len(s) + 1
    BY DEF Agree
  <1>3. s # << >> => t # << >> /\ SameItem(t, s, 1)
    BY <1>1, <1>2, SeqFacts DEF Agree
  <1>4. s = << >> => \/ t = << >>
                     \/ /\ Len(t) = 1 /\ t[1].kind = "optional"
                        /\ t[1].width \in Nat \ {0}
    BY <1>1, SeqFacts DEF Agree
  <1>. QED
    BY <1>1, <1>2, <1>3, <1>4

(* Behind the first item of a layout; no loop follows a loop.              *)
LEMMA LooseTail ==
  ASSUME NEW s, Loose(s), s # << >>
  PROVE  /\ Loose(Tail(s))
         /\ s[1].kind = "elements" => Pushable(Tail(s))
  <1>. DEFINE u == Tail(s)
  <1>1. IsSeq(s) /\ Len(s) \in Nat \ {0}
    BY SeqFacts DEF Loose
  <1>2. IsSeq(u) /\ Len(u) = Len(s) - 1 /\ \A i \in 1 .. Len(s) - 1 : u[i] = s[i + 1]
    BY <1>1, TailSeq
  <1>. HIDE DEF u
  <1>3. ASSUME NEW i \in 1 .. Len(u)
        PROVE  /\ IsItem(u[i])
               /\ u[i].kind = "count" => i < Len(u) /\ u[i + 1].kind = "elements"
               /\ u[i].kind = "elements" /\ i < Len(u) => u[i + 1].kind # "elements"
    <2>1. i + 1 \in 1 .. Len(s) /\ u[i] = s[i + 1] /\ (i < Len(u) <=> i + 1 < Len(s))
      BY <1>1, <1>2
    <2>2. i < Len(u) => u[i + 1] = s[(i + 1) + 1]
      BY <1>1, <1>2
    <2>. QED
      BY <2>1, <2>2 DEF Loose
  <1>4. Loose(u)
    BY <1>2, <1>3 DEF Loose
  <1>5. s[1].kind = "elements" => Pushable(u)
    <2>. SUFFICES ASSUME s[1].kind = "elements", u # << >> PROVE u[1].kind # "elements"
      BY <1>4 DEF Pushable
    <2>1. 1 < Len(s) /\ u[1] = s[1 + 1]
      BY <1>1, <1>2, SeqFacts
    <2>. QED
      BY <1>1, <2>1 DEF Loose
  <1>. QED
    BY <1>4, <1>5 DEF u

(* Layouts that agree do so behind their first items.                      *)
LEMMA AgreeTail ==
  ASSUME NEW t, NEW s, IsSeq(s), s # << >>, Agree(t, s)
  PROVE  Agree(Tail(t), Tail(s))
  <1>. DEFINE u == Tail(t)
              v == Tail(s)
  <1>1. IsSeq(t) /\ t # << >> /\ Len(t) \in Nat \ {0} /\ Len(s) \in Nat \ {0}
    BY AgreeLength, SeqFacts
  <1>2. IsSeq(u) /\ Len(u) = Len(t) - 1 /\ \A i \in 1 .. Len(t) - 1 : u[i] = t[i + 1]
    BY <1>1, TailSeq
  <1>3. IsSeq(v) /\ Len(v) = Len(s) - 1 /\ \A i \in 1 .. Len(s) - 1 : v[i] = s[i + 1]
    BY <1>1, TailSeq
  <1>. HIDE DEF u, v
  <1>4. ASSUME NEW i \in 1 .. Len(v)
        PROVE  SameItem(u, v, i)
    <2>1. /\ i + 1 \in 1 .. Len(s) /\ v[i] = s[i + 1]
          /\ u[i] = t[i + 1]
      BY <1>1, <1>2, <1>3 DEF Agree
    <2>2. SameItem(t, s, i + 1)
      BY <2>1 DEF Agree
    <2>3. (i + 1) + 1 = Len(t) => i + 1 = Len(u) /\ u[i + 1] = t[(i + 1) + 1]
      BY <1>1, <1>2
    <2>4. i + 1 = Len(t) => i = Len(u)
      BY <1>1, <1>2
    <2>. QED
      BY <2>1, <2>2, <2>3, <2>4 DEF SameItem
  <1>5. \/ Len(u) = Len(v)
        \/ /\ Len(u) = Len(v) + 1
           /\ u[Len(u)].kind = "optional" /\ u[Len(u)].width \in Nat \ {0}
    <2>1. CASE Len(t) = Len(s)
      BY <2>1, <1>2, <1>3
    <2>2. CASE /\ Len(t) = Len(s) + 1
               /\ t[Len(t)].kind = "optional" /\ t[Len(t)].width \in Nat \ {0}
      BY <2>2, <1>1, <1>2, <1>3
    <2>. QED
      BY <2>1, <2>2 DEF Agree
  <1>. QED
    BY <1>2, <1>4, <1>5 DEF Agree, u, v

(* Another item at the head of both.                                       *)
LEMMA AgreeCons ==
  ASSUME NEW t, NEW s, IsSeq(s), Agree(t, s), NEW x, NEW y,
         \/ x = y
         \/ x.kind = "rest" /\ y.kind = "elements" /\ x.of = y.of /\ t = << >>
  PROVE  Agree(<<x>> \o t, <<y>> \o s)
  <1>. DEFINE u == <<x>> \o t
              v == <<y>> \o s
  <1>1. IsSeq(t) /\ Len(t) \in Nat /\ Len(s) \in Nat
    BY AgreeLength
  <1>2. /\ IsSeq(u) /\ Len(u) = Len(t) + 1 /\ u[1] = x
        /\ \A i \in 2 .. Len(t) + 1 : u[i] = t[i - 1]
    BY <1>1, Single, Concat
  <1>3. /\ IsSeq(v) /\ Len(v) = Len(s) + 1 /\ v[1] = y
        /\ \A i \in 2 .. Len(s) + 1 : v[i] = s[i - 1]
    BY <1>1, Single, Concat
  <1>. HIDE DEF u, v
  <1>4. ASSUME NEW i \in 1 .. Len(v)
        PROVE  SameItem(u, v, i)
    <2>1. CASE i = 1
      BY <2>1, <1>1, <1>2, <1>3, SeqFacts DEF SameItem
    <2>2. CASE i # 1
      <3>1. /\ i - 1 \in 1 .. Len(s) /\ v[i] = s[i - 1]
            /\ u[i] = t[i - 1]
        BY <2>2, <1>1, <1>2, <1>3 DEF Agree
      <3>2. SameItem(t, s, i - 1)
        BY <3>1 DEF Agree
      <3>3. (i - 1) + 1 = Len(t) => i + 1 = Len(u) /\ u[i + 1] = t[(i - 1) + 1]
        BY <1>1, <1>2
      <3>4. i - 1 = Len(t) => i = Len(u)
        BY <1>1, <1>2
      <3>. QED
        BY <3>1, <3>2, <3>3, <3>4 DEF SameItem
    <2>. QED
      BY <2>1, <2>2
  <1>5. \/ Len(u) = Len(v)
        \/ /\ Len(u) = Len(v) + 1
           /\ u[Len(u)].kind = "optional" /\ u[Len(u)].width \in Nat \ {0}
    <2>1. CASE Len(t) = Len(s)
      BY <2>1, <1>2, <1>3
    <2>2. CASE /\ Len(t) = Len(s) + 1
               /\ t[Len(t)].kind = "optional" /\ t[Len(t)].width \in Nat \ {0}
      BY <2>2, <1>1, <1>2, <1>3
    <2>. QED
      BY <2>1, <2>2 DEF Agree
  <1>. QED
    BY <1>2, <1>4, <1>5 DEF Agree, u, v

(* The same items before both.                                             *)
LEMMA AgreeConcat ==
  ASSUME NEW a, IsSeq(a), NEW t, NEW s, IsSeq(s), Agree(t, s)
  PROVE  Agree(a \o t, a \o s)
  <1>. DEFINE u == a \o t
              v == a \o s
  <1>1. IsSeq(t) /\ Len(t) \in Nat /\ Len(s) \in Nat /\ Len(a) \in Nat
    BY AgreeLength, SeqFacts
  <1>2. /\ IsSeq(u) /\ Len(u) = Len(a) + Len(t)
        /\ \A i \in 1 .. Len(a) : u[i] = a[i]
        /\ \A i \in Len(a) + 1 .. Len(a) + Len(t) : u[i] = t[i - Len(a)]
    BY <1>1, Concat
  <1>3. /\ IsSeq(v) /\ Len(v) = Len(a) + Len(s)
        /\ \A i \in 1 .. Len(a) : v[i] = a[i]
        /\ \A i \in Len(a) + 1 .. Len(a) + Len(s) : v[i] = s[i - Len(a)]
    BY <1>1, Concat
  <1>. HIDE DEF u, v
  <1>4. ASSUME NEW i \in 1 .. Len(v)
        PROVE  SameItem(u, v, i)
    <2>1. CASE i <= Len(a)
      BY <2>1, <1>1, <1>2, <1>3 DEF SameItem
    <2>2. CASE i > Len(a)
      <3>. DEFINE j == i - Len(a)
      <3>1. /\ j \in 1 .. Len(s) /\ v[i] = s[j] /\ u[i] = t[j]
        BY <2>2, <1>1, <1>2, <1>3 DEF Agree
      <3>2. SameItem(t, s, j)
        BY <3>1 DEF Agree
      <3>3. j + 1 = Len(t) => i + 1 = Len(u) /\ u[i + 1] = t[j + 1]
        <4>1. (i + 1) - Len(a) = j + 1
          BY <1>1
        <4>. QED
          BY <4>1, <2>2, <1>1, <1>2
      <3>4. j = Len(t) => i = Len(u)
        BY <1>1, <1>2
      <3>. HIDE DEF j
      <3>. QED
        BY <3>1, <3>2, <3>3, <3>4 DEF SameItem
    <2>. QED
      BY <2>1, <2>2, <1>1, <1>3
  <1>5. \/ Len(u) = Len(v)
        \/ /\ Len(u) = Len(v) + 1
           /\ u[Len(u)].kind = "optional" /\ u[Len(u)].width \in Nat \ {0}
    <2>1. CASE Len(t) = Len(s)
      BY <2>1, <1>2, <1>3
    <2>2. CASE /\ Len(t) = Len(s) + 1
               /\ t[Len(t)].kind = "optional" /\ t[Len(t)].width \in Nat \ {0}
      <3>1. Len(u) \in Len(a) + 1 .. Len(a) + Len(t) /\ Len(u) - Len(a) = Len(t)
        BY <2>2, <1>1, <1>2
      <3>. QED
        BY <3>1, <2>2, <1>1, <1>2, <1>3
    <2>. QED
      BY <2>1, <2>2 DEF Agree
  <1>. QED
    BY <1>2, <1>4, <1>5 DEF Agree, u, v

(* A loop before what does not begin with one.                             *)
LEMMA LooseCons ==
  ASSUME NEW x, IsItem(x), x.kind = "elements", NEW s, Pushable(s)
  PROVE  Loose(<<x>> \o s)
  <1>. DEFINE u == <<x>> \o s
  <1>1. IsSeq(s) /\ Len(s) \in Nat
    BY SeqFacts DEF Pushable, Loose
  <1>2. /\ IsSeq(u) /\ Len(u) = Len(s) + 1 /\ u[1] = x
        /\ \A i \in 2 .. Len(s) + 1 : u[i] = s[i - 1]
    BY <1>1, Single, Concat
  <1>. HIDE DEF u
  <1>3. ASSUME NEW i \in 1 .. Len(u), i # 1
        PROVE  /\ IsItem(u[i])
               /\ u[i].kind = "count" => i < Len(u) /\ u[i + 1].kind = "elements"
               /\ u[i].kind = "elements" /\ i < Len(u) => u[i + 1].kind # "elements"
    <2>. DEFINE j == i - 1
    <2>1. j \in 1 .. Len(s) /\ u[i] = s[j] /\ (i < Len(u) <=> j < Len(s))
      BY <1>1, <1>2, <1>3
    <2>2. i < Len(u) => u[i + 1] = s[j + 1]
      BY <1>1, <1>2, <1>3
    <2>. HIDE DEF j
    <2>. QED
      BY <2>1, <2>2 DEF Pushable, Loose
  <1>4. 1 < Len(u) => u[2].kind # "elements"
    BY <1>1, <1>2, SeqFacts DEF Pushable
  <1>5. Loose(u)
    <2>1. u[1].kind # "count" /\ IsItem(u[1])
      BY <1>2
    <2>2. 1 + 1 = 2
      OBVIOUS
    <2>3. 1 < Len(u) => u[1 + 1].kind # "elements"
      BY <1>4, <2>2
    <2>. QED
      BY <1>2, <1>3, <2>1, <2>3 DEF Loose
  <1>. QED
    BY <1>5 DEF u

(* What Continue makes of the head of a loop.                              *)
LEMMA ContinueIs ==
  ASSUME NEW s, IsSeq(s), NEW end
  PROVE  /\ s = << >> => Continue(s, end) = << >>
         /\ s # << >> /\ s[1].kind \notin {"elements", "rest"} => Continue(s, end) = s
         /\ s # << >> /\ s[1].kind = "elements" =>
              Continue(s, end) =
                IF s[1].left > 0
                THEN s[1].of \o (<<Elements(s[1].of, s[1].left - 1)>> \o Tail(s))
                ELSE Tail(s)
         /\ s # << >> /\ s[1].kind = "rest" =>
              Continue(s, end) =
                IF end THEN Tail(s) ELSE s[1].of \o (<<s[1]>> \o Tail(s))
  <1>1. s # << >> => Head(s) = s[1]
    BY SeqFacts
  <1>. QED
    BY <1>1 DEF Continue, GoesOn, Less

(* The sender's layouts keep their form when a loop begins again or ends.  *)
LEMMA ContinuePushable ==
  ASSUME NEW s, Loose(s)
  PROVE  Pushable(Continue(s, FALSE))
  <1>1. IsSeq(s)
    BY DEF Loose
  <1>2. CASE s = << >>
    BY <1>1, <1>2, ContinueIs DEF Pushable
  <1>3. CASE s # << >> /\ s[1].kind # "elements"
    <2>1. IsItem(s[1])
      BY <1>1, <1>3, SeqFacts DEF Loose
    <2>2. s[1].kind \notin {"elements", "rest"}
      BY <2>1, <1>3 DEF IsItem, IsSimple
    <2>3. Continue(s, FALSE) = s
      BY <2>2, <1>1, <1>3, ContinueIs
    <2>. QED
      BY <2>3, <1>3 DEF Pushable
  <1>4. CASE s # << >> /\ s[1].kind = "elements"
    <2>1. s[1].left \in Nat /\ Simple(s[1].of)
      <3>1. IsItem(s[1])
        BY <1>1, <1>4, SeqFacts DEF Loose
      <3>. QED
        BY <3>1, <1>4 DEF IsItem, IsSimple, Simple
    <2>2. Pushable(Tail(s))
      BY <1>4, LooseTail
    <2>3. CASE s[1].left = 0
      <3>1. ~(s[1].left > 0)
        BY <2>3
      <3>2. Continue(s, FALSE) = Tail(s)
        BY <3>1, <1>1, <1>4, ContinueIs
      <3>. QED
        BY <3>2, <2>2
    <2>4. CASE s[1].left > 0
      <3>. DEFINE x == Elements(s[1].of, s[1].left - 1)
      <3>1. IsItem(x) /\ x.kind = "elements"
        BY <2>1, <2>4 DEF IsItem, Elements, Simple
      <3>2. Loose(<<x>> \o Tail(s))
        BY <3>1, <2>2, LooseCons
      <3>. HIDE DEF x
      <3>3. Pushable(s[1].of \o (<<x>> \o Tail(s)))
        BY <3>2, <2>1, LooseConcat
      <3>4. Continue(s, FALSE) = s[1].of \o (<<x>> \o Tail(s))
        BY <1>1, <1>4, <2>4, ContinueIs DEF x
      <3>. QED
        BY <3>3, <3>4
    <2>5. s[1].left = 0 \/ s[1].left > 0
      BY <2>1
    <2>. QED
      BY <2>3, <2>4, <2>5
  <1>. QED
    BY <1>2, <1>3, <1>4

(* Sender and receiver pass the head of a loop alike, if the receiver sees *)
(* the end of the message when nothing is left to push and not earlier.    *)
LEMMA ContinueAgree ==
  ASSUME NEW t, NEW s, Loose(s), Agree(t, s), NEW end \in BOOLEAN,
         end <=> Continue(s, FALSE) = << >>
  PROVE  Agree(Continue(t, end), Continue(s, FALSE))
  <1>1. IsSeq(s) /\ IsSeq(t)
    BY AgreeLength DEF Loose
  <1>2. CASE s = << >>
    <2>1. Continue(s, FALSE) = s
      BY <1>1, <1>2, ContinueIs
    <2>2. Continue(t, end) = t
      BY <1>1, <1>2, AgreeLength, ContinueIs, SeqFacts
    <2>. QED
      BY <2>1, <2>2
  <1>3. CASE s # << >> /\ s[1].kind # "elements"
    <2>1. IsItem(s[1])
      BY <1>1, <1>3, SeqFacts DEF Loose
    <2>2. s[1].kind \notin {"elements", "rest"}
      BY <2>1, <1>3 DEF IsItem, IsSimple
    <2>3. t # << >> /\ SameItem(t, s, 1)
      BY <1>1, <1>3, AgreeLength
    <2>4. t[1].kind \notin {"elements", "rest"}
      BY <2>2, <2>3, <1>3 DEF SameItem
    <2>5. Continue(s, FALSE) = s
      BY <2>2, <1>1, <1>3, ContinueIs
    <2>6. Continue(t, end) = t
      BY <2>3, <2>4, <1>1, ContinueIs
    <2>. QED
      BY <2>5, <2>6
  <1>4. CASE s # << >> /\ s[1].kind = "elements"
    <2>1. s[1].left \in Nat /\ Simple(s[1].of)
      <3>1. IsItem(s[1])
        BY <1>1, <1>4, SeqFacts DEF Loose
      <3>. QED
        BY <3>1, <1>4 DEF IsItem, IsSimple, Simple
    <2>2. t # << >> /\ SameItem(t, s, 1)
      BY <1>1, <1>4, AgreeLength
    <2>3. /\ t[1] = s[1] \/ t[1].kind = "rest"
          /\ t[1].kind = "rest" => t[1].of = s[1].of /\ Len(t) = 1
      BY <2>2, <1>4 DEF SameItem
    <2>4. Agree(Tail(t), Tail(s))
      BY <1>1, <1>4, AgreeTail
    <2>5. IsSeq(Tail(s)) /\ IsSeq(Tail(t)) /\ Len(Tail(t)) = Len(t) - 1
      BY <1>1, <1>4, <2>2, TailSeq
    <2>6. CASE s[1].left = 0
      <3>0. ~(s[1].left > 0)
        BY <2>6
      <3>1. Continue(s, FALSE) = Tail(s)
        BY <3>0, <1>1, <1>4, ContinueIs
      <3>2. CASE t[1] = s[1]
        <4>1. Continue(t, end) = Tail(t)
          BY <3>0, <3>2, <2>2, <1>1, <1>4, ContinueIs
        <4>. QED
          BY <3>1, <4>1, <2>4
      <3>3. CASE t[1].kind = "rest"
        <4>1. Tail(s) = << >>
          <5>1. Len(s) <= Len(t) /\ Len(s) \in Nat \ {0}
            BY <1>1, <1>4, AgreeLength, SeqFacts
          <5>2. Len(Tail(s)) = 0
            BY <5>1, <3>3, <2>3, <1>1, <1>4, TailSeq
          <5>. QED
            BY <5>2, <2>5, SeqFacts
        <4>2. end
          BY <4>1, <3>1
        <4>3. Continue(t, end) = Tail(t)
          BY <4>2, <3>3, <2>2, <1>1, ContinueIs
        <4>. QED
          BY <3>1, <4>3, <2>4
      <3>. QED
        BY <3>2, <3>3, <2>3
    <2>7. CASE s[1].left > 0
      <3>. DEFINE y == Elements(s[1].of, s[1].left - 1)
                  v == <<y>> \o Tail(s)
      <3>1. Continue(s, FALSE) = s[1].of \o v
        BY <2>7, <1>1, <1>4, ContinueIs
      <3>2. IsSeq(v) /\ IsSeq(s[1].of) /\ y.kind = "elements" /\ y.of = s[1].of
        <4>1. y.kind = "elements" /\ y.of = s[1].of
          BY DEF Elements
        <4>. HIDE DEF y
        <4>2. IsSeq(<<y>>) /\ IsSeq(Tail(s))
          BY <2>1, <2>5, Single
        <4>3. IsSeq(v)
          BY ONLY <4>2, Concat
        <4>. QED
          BY <2>1, <2>5, <4>1, <4>3 DEF Simple, Plain
      <3>3. CASE t[1] = s[1]
        <4>1. Continue(t, end) = s[1].of \o (<<y>> \o Tail(t))
          <5>1. /\ IsSeq(t) /\ t # << >>
                /\ t[1].kind = "elements" /\ t[1].left > 0
            BY <3>3, <2>2, <2>7, <1>1, <1>4
          <5>2. Continue(t, end) =
                  t[1].of \o (<<Elements(t[1].of, t[1].left - 1)>> \o Tail(t))
            BY <5>1, ContinueIs
          <5>. QED
            BY <5>2, <3>3
        <4>2. Agree(<<y>> \o Tail(t), v)
          BY <2>4, <2>5, AgreeCons
        <4>. HIDE DEF y, v
        <4>3. Agree(s[1].of \o (<<y>> \o Tail(t)), s[1].of \o v)
          BY <3>2, <4>2, AgreeConcat
        <4>. QED
          BY <3>1, <4>1, <4>3
      <3>4. CASE t[1].kind = "rest"
        <4>1. ~end
          <5>1. s[1].of \o v # << >>
            <6>1. Len(s[1].of) \in Nat \ {0} /\ Len(v) \in Nat
              BY <2>1, <3>2, SeqFacts DEF Simple, Plain
            <6>. HIDE DEF v
            <6>2. IsSeq(s[1].of \o v) /\ Len(s[1].of \o v) = Len(s[1].of) + Len(v)
              BY <3>2, Concat
            <6>. QED
              BY <6>1, <6>2, SeqFacts
          <5>. QED
            BY <5>1, <3>1
        <4>2. Continue(t, end) = s[1].of \o (<<t[1]>> \o Tail(t))
          BY <4>1, <3>4, <2>2, <2>3, <1>1, ContinueIs
        <4>3. Tail(t) = << >>
          <5>1. Len(Tail(t)) = 0
            BY <2>3, <2>5, <3>4
          <5>. QED
            BY <5>1, <2>5, SeqFacts
        <4>4. Agree(<<t[1]>> \o Tail(t), v)
          BY <4>3, <3>2, <3>4, <2>3, <2>4, <2>5, AgreeCons
        <4>. HIDE DEF y, v
        <4>5. Agree(s[1].of \o (<<t[1]>> \o Tail(t)), s[1].of \o v)
          BY <3>2, <4>4, AgreeConcat
        <4>. QED
          BY <3>1, <4>2, <4>5
      <3>. QED
        BY <3>3, <3>4, <2>3
    <2>8. s[1].left = 0 \/ s[1].left > 0
      BY <2>1
    <2>. QED
      BY <2>6, <2>7, <2>8
  <1>. QED
    BY <1>2, <1>3, <1>4

(* The count bounds the loop on both sides.                                *)
LEMMA CountedAgree ==
  ASSUME NEW s, Loose(s), s # << >>, s[1].kind = "elements", NEW c \in Nat
  PROVE  /\ Loose(Counted(s, c))
         /\ \A t : Agree(t, s) => Agree(Counted(t, c), Counted(s, c))
  <1>1. IsSeq(s) /\ Head(s) = s[1] /\ IsItem(s[1])
    BY SeqFacts DEF Loose
  <1>. DEFINE x == Elements(s[1].of, c)
  <1>2. IsItem(x) /\ x.kind = "elements"
    BY <1>1 DEF IsItem, IsSimple, Elements
  <1>3. Counted(s, c) = <<x>> \o Tail(s)
    BY <1>1 DEF Counted
  <1>. HIDE DEF x
  <1>4. Pushable(Tail(s)) /\ IsSeq(Tail(s))
    BY LooseTail DEF Pushable, Loose
  <1>5. Loose(<<x>> \o Tail(s))
    BY <1>2, <1>4, LooseCons
  <1>6. ASSUME NEW t, Agree(t, s)
        PROVE  Agree(Counted(t, c), Counted(s, c))
    <2>1. IsSeq(t) /\ t # << >> /\ SameItem(t, s, 1)
      BY <1>1, <1>6, AgreeLength
    <2>2. Head(t) = t[1] /\ t[1].of = s[1].of
      BY <2>1, SeqFacts DEF SameItem
    <2>3. Counted(t, c) = <<x>> \o Tail(t)
      BY <2>2 DEF Counted, x
    <2>4. Agree(Tail(t), Tail(s))
      BY <1>1, <1>6, AgreeTail
    <2>5. Agree(<<x>> \o Tail(t), <<x>> \o Tail(s))
      BY <2>4, <1>4, AgreeCons
    <2>. QED
      BY <2>3, <2>5, <1>3
  <1>. QED
    BY <1>3, <1>5, <1>6

----------------------------------------------------------------------------
(* The messages.                                                           *)

(* Code and comments lay out the same.                                     *)
LEMMA SameLayout ==
  ASSUME NEW m, Coded[m] = Documented[m], Pushable(Documented[m])
  PROVE  Pushable(Sender(m)) /\ Agree(Receiver(m), Sender(m))
  <1>1. Sender(m) = Documented[m] /\ Receiver(m) = Documented[m]
    BY DEF Sender, Receiver
  <1>. QED
    BY <1>1, AgreeSame DEF Pushable

(* The data of a reply are taken to its end, whatever the count says.      *)
LEMMA RestAgrees ==
  ASSUME NEW width \in Nat \ {0}, NEW name, NEW element, Simple(element)
  PROVE  Agree(U(width, <<name>>) \o Rest(element), List(width, name, element))
  <1>. DEFINE a == U(width, <<name>>)
              b == Rest(element)
              s == List(width, name, element)
              t == a \o b
  <1>1. IsSeq(a) /\ Len(a) = 1
    <2>1. a = [i \in 1 .. 1 |-> a[i]]
      BY DEF U
    <2>. QED
      BY <2>1, IsSeqByDomain
  <1>2. a[1].kind = "number" /\ a[1].width = width /\ a[1].name = name
    BY DEF U
  <1>3. IsSeq(b) /\ Len(b) = 1 /\ b[1].kind = "rest" /\ b[1].of = element
    <2>. DEFINE x == [kind |-> "rest", of |-> element]
    <2>1. b = <<x>> /\ x.kind = "rest" /\ x.of = element
      BY DEF Rest
    <2>. HIDE DEF x, b
    <2>. QED
      BY <2>1, Single
  <1>4. s = [i \in 1 .. 2 |-> s[i]]
    BY DEF List
  <1>5. IsSeq(s) /\ Len(s) = 2
    BY <1>4, IsSeqByDomain
  <1>6. /\ s[1].kind = "count" /\ s[1].width = width /\ s[1].name = name
        /\ s[2].kind = "elements" /\ s[2].of = element
    BY DEF List, Elements
  <1>. HIDE DEF a, b, s
  <1>7. IsSeq(t) /\ Len(t) = 2 /\ t[1] = a[1] /\ t[2] = b[1]
    <2>1. /\ IsSeq(t) /\ Len(t) = Len(a) + Len(b)
          /\ \A i \in 1 .. Len(a) : t[i] = a[i]
          /\ \A i \in Len(a) + 1 .. Len(a) + Len(b) : t[i] = b[i - Len(a)]
      <3>1. IsSeq(a) /\ IsSeq(b)
        BY <1>1, <1>3
      <3>. QED
        BY ONLY <3>1, Concat
    <2>. HIDE DEF t
    <2>2. Len(t) = 2 /\ 1 \in 1 .. Len(a) /\ 2 \in Len(a) + 1 .. Len(a) + Len(b)
      BY <2>1, <1>1, <1>3
    <2>3. 2 - Len(a) = 1
      BY <1>1
    <2>. QED
      BY <2>1, <2>2, <2>3
  <1>. HIDE DEF t
  <1>8. SameItem(t, s, 1) /\ SameItem(t, s, 2)
    <2>1. 1 + 1 = 2
      OBVIOUS
    <2>. QED
      BY <2>1, <1>2, <1>3, <1>6, <1>7 DEF SameItem
  <1>9. Agree(t, s)
    <2>1. \A i \in 1 .. Len(s) : i = 1 \/ i = 2
      BY <1>5
    <2>. QED
      BY <2>1, <1>5, <1>7, <1>8 DEF Agree
  <1>. QED
    BY <1>9 DEF t, a, b, s

(* Rerror ends behind its text, or behind a code of four bytes.            *)
LEMMA ErrorAgrees ==
  /\ Agree(PopErrorResponse, S("ename"))
  /\ Agree(PopErrorResponse, S("ename") \o U(4, <<"errno">>))
  <1>. DEFINE a == S("ename")
              b == U(4, <<"errno">>)
              c == IfFits(4, "errno")
              t == a \o c
              s == a \o b
  <1>0. PopErrorResponse = t
    BY DEF PopErrorResponse
  <1>1. IsSeq(a) /\ Len(a) = 1
    <2>1. a = [i \in 1 .. 1 |-> a[i]]
      BY DEF S
    <2>. QED
      BY <2>1, IsSeqByDomain
  <1>2. IsSeq(b) /\ Len(b) = 1
    <2>1. b = [i \in 1 .. 1 |-> b[i]]
      BY DEF U
    <2>. QED
      BY <2>1, IsSeqByDomain
  <1>3. b[1].kind = "number" /\ b[1].width = 4 /\ b[1].name = "errno"
    BY DEF U
  <1>4. /\ IsSeq(c) /\ Len(c) = 1
        /\ c[1].kind = "optional" /\ c[1].width = 4 /\ c[1].name = "errno"
    <2>. DEFINE x == [kind |-> "optional", width |-> 4, name |-> "errno"]
    <2>1. c = <<x>> /\ x.kind = "optional" /\ x.width = 4 /\ x.name = "errno"
      BY DEF IfFits
    <2>. HIDE DEF x, c
    <2>. QED
      BY <2>1, Single
  <1>. HIDE DEF a, b, c
  <1>5. IsSeq(t) /\ Len(t) = 2 /\ t[1] = a[1] /\ t[2] = c[1]
    <2>1. /\ IsSeq(t) /\ Len(t) = Len(a) + Len(c)
          /\ \A i \in 1 .. Len(a) : t[i] = a[i]
          /\ \A i \in 1 .. Len(c) : t[Len(a) + i] = c[i]
      <3>1. IsSeq(a) /\ IsSeq(c)
        BY <1>1, <1>4
      <3>. QED
        BY ONLY <3>1, Concat
    <2>. HIDE DEF t
    <2>2. Len(t) = 2 /\ Len(a) + 1 = 2
      BY <2>1, <1>1, <1>4
    <2>. QED
      BY <2>1, <2>2, <1>1, <1>4
  <1>6. IsSeq(s) /\ Len(s) = 2 /\ s[1] = a[1] /\ s[2] = b[1]
    <2>1. /\ IsSeq(s) /\ Len(s) = Len(a) + Len(b)
          /\ \A i \in 1 .. Len(a) : s[i] = a[i]
          /\ \A i \in 1 .. Len(b) : s[Len(a) + i] = b[i]
      <3>1. IsSeq(a) /\ IsSeq(b)
        BY <1>1, <1>2
      <3>. QED
        BY ONLY <3>1, Concat
    <2>. HIDE DEF s
    <2>2. Len(s) = 2 /\ Len(a) + 1 = 2
      BY <2>1, <1>1, <1>2
    <2>. QED
      BY <2>1, <2>2, <1>1, <1>2
  <1>. HIDE DEF t, s
  <1>7. Agree(t, a)
    <2>1. \A i \in 1 .. Len(a) : i = 1
      BY <1>1
    <2>2. Len(t) = Len(a) + 1 /\ t[Len(t)].kind = "optional" /\ t[Len(t)].width \in Nat \ {0}
      BY <1>1, <1>4, <1>5
    <2>. QED
      BY <2>1, <2>2, <1>5 DEF Agree, SameItem
  <1>8. Agree(t, s)
    <2>1. \A i \in 1 .. Len(s) : i = 1 \/ i = 2
      BY <1>6
    <2>2. SameItem(t, s, 1) /\ SameItem(t, s, 2)
      BY <1>3, <1>4, <1>5, <1>6 DEF SameItem
    <2>. QED
      BY <2>1, <2>2, <1>5, <1>6 DEF Agree
  <1>. QED
    BY <1>0, <1>7, <1>8 DEF a, b, c, t, s

(* Every message but CreateRequest, whose mode has two widths, is laid out *)
(* so that its receiver understands its sender.                            *)
LEMMA LayoutsAgree ==
  ASSUME NEW m \in Message
  PROVE  Pushable(Sender(m)) /\ Agree(Receiver(m), Sender(m))
  <1>0. m \in DOMAIN Coded /\ m # "CreateRequest"
    BY MessageAssumption
  <1>1. CASE m \in OpeningNames
    BY <1>1, Tables, DocumentedTables, CodedIs, DocumentedIs, OpeningLayouts, SameLayout
  <1>2. CASE m \in AttributeAndDirectoryNames
    BY <1>2, Tables, DocumentedTables, CodedIs, DocumentedIs,
       AttributeAndDirectoryLayouts, SameLayout
  <1>3. CASE m \in LockAndNameNames
    BY <1>3, Tables, DocumentedTables, CodedIs, DocumentedIs,
       LockAndNameLayouts, SameLayout
  <1>4. CASE m \in SessionAndWalkNames
    BY <1>4, Tables, DocumentedTables, CodedIs, DocumentedIs,
       SessionAndWalkLayouts, SameLayout
  <1>5. CASE m \in TransferNames
    BY <1>5, Tables, DocumentedTables, CodedIs, DocumentedIs, TransferLayouts, SameLayout
  <1>6. CASE m \in WindowsNames
    BY <1>6, Tables, DocumentedTables, CodedIs, DocumentedIs, WindowsLayouts, SameLayout
  <1>7. CASE m = "ReadInPlaceResponse"
    <2>1. Coded["ReadInPlaceResponse"] = List(4, "count", Byte)
      BY Tables, CodedIs DEF ReadInPlace
    <2>2. Documented["ReadInPlaceResponse"] = List(4, "count", Byte)
      BY DocumentedIs DEF BaseMessages
    <2>3. Pushable(List(4, "count", Byte))
      BY SimpleParts, PushableList
    <2>. QED
      BY <1>7, <2>1, <2>2, <2>3, SameLayout
  <1>8. CASE m = "WriteInPlaceRequest"
    <2>1. Coded["WriteInPlaceRequest"] =
            U(4, <<"fid">>) \o U(8, <<"offset">>) \o List(4, "count", Byte)
      BY Tables, CodedIs DEF WriteInPlace
    <2>2. Documented["WriteInPlaceRequest"] =
            U(4, <<"fid">>) \o U(8, <<"offset">>) \o List(4, "count", Byte)
      BY DocumentedIs DEF BaseMessages
    <2>3. Pushable(U(4, <<"fid">>) \o U(8, <<"offset">>) \o List(4, "count", Byte))
      BY Numbers, SimpleConcat, SimpleParts, PushableList, PushableConcat
    <2>. QED
      BY <1>8, <2>1, <2>2, <2>3, SameLayout
  <1>9. CASE m = "ReadDirectoryResponse"
    <2>1. m \in Replies
      BY <1>9 DEF Replies
    <2>2. Coded["ReadDirectoryResponse"] = U(4, <<"count">>) \o Rest(PopDirectoryEntry)
      BY Tables, CodedIs DEF AttributesAndDirectories
    <2>3. Documented["ReadDirectoryResponse"] = List(4, "count", DirectoryEntry)
      BY DocumentedTables, DocumentedIs DEF LinuxMessages
    <2>4. PopDirectoryEntry = DirectoryEntry
      BY DEF PopDirectoryEntry, DirectoryEntry, PopQid, Qid
    <2>. QED
      BY <1>9, <2>1, <2>2, <2>3, <2>4, SimpleParts, PushableList, RestAgrees
         DEF Sender, Receiver
  <1>10. CASE m = "WindowsReadDirectoryResponse"
    <2>1. m \in Replies
      BY <1>10 DEF Replies
    <2>2. Coded["WindowsReadDirectoryResponse"] =
             U(4, <<"count">>) \o Rest(PopWindowsDirectoryEntry)
      BY Tables, CodedIs DEF Windows
    <2>3. Documented["WindowsReadDirectoryResponse"] = List(4, "count", WindowsDirectoryEntry)
      BY DocumentedTables, DocumentedIs DEF WindowsMessages
    <2>4. PopWindowsDirectoryEntry = WindowsDirectoryEntry
      BY DEF PopWindowsDirectoryEntry, WindowsDirectoryEntry, DirectoryEntry, PopQid, Qid
    <2>. QED
      BY <1>10, <2>1, <2>2, <2>3, <2>4, SimpleParts, PushableList, RestAgrees
         DEF Sender, Receiver
  <1>11. CASE m = "ErrorResponse"
    <2>1. m \in Replies
      BY <1>11 DEF Replies
    <2>2. Coded["ErrorResponse"] = PopErrorResponse
      BY Tables, CodedIs DEF SessionAndWalk
    <2>3. Documented["ErrorResponse"] = S("ename")
      BY DocumentedTables, DocumentedIs DEF BaseMessages
    <2>. QED
      BY <1>11, <2>1, <2>2, <2>3, SimpleS, PushableSimple, ErrorAgrees DEF Sender, Receiver
  <1>12. CASE m = "UnixErrorResponse"
    <2>1. m \in Replies
      BY <1>12 DEF Replies
    <2>2. Coded["UnixErrorResponse"] = PopErrorResponse
      BY Tables, CodedIs DEF SessionAndWalk
    <2>3. Documented["UnixErrorResponse"] = S("ename") \o U(4, <<"errno">>)
      BY DocumentedTables, DocumentedIs DEF BaseMessages
    <2>4. Pushable(S("ename") \o U(4, <<"errno">>))
      BY SimpleS, Numbers, SimpleConcat, PushableSimple
    <2>. QED
      BY <1>12, <2>1, <2>2, <2>3, <2>4, ErrorAgrees DEF Sender, Receiver
  <1>. QED
    BY <1>0, <1>1, <1>2, <1>3, <1>4, <1>5, <1>6, <1>7, <1>8, <1>9, <1>10, <1>11, <1>12,
       CodedIs

(* A field is as long as it is wide, and its first byte tells its value.   *)
LEMMA FieldSeq ==
  ASSUME NEW name, NEW width \in Nat, NEW value
  PROVE  /\ IsSeq(Field(name, width, value))
         /\ Len(Field(name, width, value)) = width
         /\ width > 0 => Field(name, width, value)[1].value = value
  <1>. DEFINE f == Field(name, width, value)
  <1>1. f = [i \in 1 .. width |-> f[i]]
    BY DEF Field
  <1>2. width > 0 => f[1].value = value
    BY DEF Field
  <1>. HIDE DEF f
  <1>3. IsSeq(f) /\ Len(f) = width
    BY <1>1, IsSeqByDomain
  <1>. QED
    BY <1>2, <1>3 DEF f

(* Two sequences one after the other: their lengths, and where it begins.  *)
LEMMA Together ==
  ASSUME NEW a, NEW b, IsSeq(a), IsSeq(b)
  PROVE  /\ IsSeq(a \o b) /\ Len(a \o b) = Len(a) + Len(b)
         /\ Len(a) > 0 => (a \o b)[1] = a[1]
  <1>. DEFINE c == a \o b
  <1>1. IsSeq(c) /\ Len(c) = Len(a) + Len(b) /\ \A i \in 1 .. Len(a) : c[i] = a[i]
    BY Concat
  <1>. HIDE DEF c
  <1>2. Len(a) > 0 => c[1] = a[1]
    BY <1>1, SeqFacts
  <1>. QED
    BY <1>1, <1>2 DEF c

(* The casts to 16 bits lose nothing within the bounds.                    *)
LEMMA Casts ==
  /\ MaxLength \in Nat /\ MaxNames \in Nat /\ MaxCount \in Nat
  /\ \A n \in 0 .. MaxLength : Cast(n, 2) = n
  /\ \A n \in 0 .. MaxNames : Cast(n, 2) = n
  /\ \A n, width : width # 2 => Cast(n, width) = n
  <1>1. MaxLength \in Nat /\ MaxNames \in Nat /\ MaxCount \in Nat
    BY BoundAssumption
  <1>2. \A n \in Nat : n < 65536 => n % 65536 = n
    OBVIOUS
  <1>3. MaxLength < 65536 /\ MaxNames < 65536
    BY BoundAssumption
  <1>4. \A n \in 0 .. MaxLength : n \in Nat /\ n < 65536
    BY <1>1, <1>3
  <1>5. \A n \in 0 .. MaxNames : n \in Nat /\ n < 65536
    BY <1>1, <1>3
  <1>. QED
    BY <1>1, <1>2, <1>4, <1>5 DEF Cast

(* A string is two bytes longer than its length, which its first byte      *)
(* tells when the cast to 16 bits loses nothing.                           *)
LEMMA TextSeq ==
  ASSUME NEW name, NEW length \in Nat, Cast(length, 2) = length
  PROVE  /\ IsSeq(Text(name, length))
         /\ Len(Text(name, length)) = 2 + length
         /\ Text(name, length)[1].value = length
  <1>. DEFINE a == Field("length", 2, length)
              b == Field(name, length, 0)
              c == a \o b
  <1>1. Text(name, length) = c
    BY DEF Text
  <1>2. IsSeq(a) /\ Len(a) = 2 /\ a[1].value = length
    <2>1. 2 \in Nat /\ 2 > 0
      OBVIOUS
    <2>. QED
      BY <2>1, FieldSeq
  <1>3. IsSeq(b) /\ Len(b) = length
    BY FieldSeq
  <1>. HIDE DEF a, b
  <1>4. IsSeq(c) /\ Len(c) = Len(a) + Len(b) /\ (Len(a) > 0 => c[1] = a[1])
    BY <1>2, <1>3, Together
  <1>. HIDE DEF c
  <1>5. Len(c) = 2 + length /\ c[1].value = length
    BY <1>2, <1>3, <1>4
  <1>. QED
    BY <1>1, <1>4, <1>5

(* A header is seven bytes long and begins with the size of the message.   *)
LEMMA HeaderSeq ==
  ASSUME NEW size \in Nat
  PROVE  /\ IsSeq(PushHeader(size))
         /\ Len(PushHeader(size)) = HeaderSize
         /\ PushHeader(size)[1].value = size + HeaderSize
  <1>. DEFINE v == size + HeaderSize
              a == Field("size", 4, v)
              b == Field("type", 1, 0)
              c == Field("tag", 2, 0)
              d == a \o b
              e == d \o c
  <1>1. PushHeader(size) = e
    BY DEF PushHeader
  <1>. HIDE DEF v
  <1>2. IsSeq(a) /\ Len(a) = 4 /\ (4 > 0 => a[1].value = v)
    BY FieldSeq
  <1>3. IsSeq(b) /\ Len(b) = 1
    BY FieldSeq
  <1>4. IsSeq(c) /\ Len(c) = 2
    BY FieldSeq
  <1>. HIDE DEF a, b, c
  <1>5. IsSeq(d) /\ Len(d) = Len(a) + Len(b) /\ (Len(a) > 0 => d[1] = a[1])
    BY <1>2, <1>3, Together
  <1>. HIDE DEF d
  <1>6. IsSeq(e) /\ Len(e) = Len(d) + Len(c) /\ (Len(d) > 0 => e[1] = d[1])
    BY <1>4, <1>5, Together
  <1>. HIDE DEF e
  <1>7. Len(e) = 7 /\ e[1].value = v
    BY <1>2, <1>3, <1>4, <1>5, <1>6
  <1>. QED
    <2>1. HeaderSize = 7
      BY DEF HeaderSize
    <2>. QED
      BY <1>1, <1>6, <1>7, <2>1 DEF v

----------------------------------------------------------------------------
(* What a push does to the state.                                          *)
LEMMA PushEffect ==
  ASSUME FieldsInv, BytesInv, NEW bytes, NEW items, Push(bytes, items), IsSeq(bytes)
  PROVE  /\ IsSeq(sent) /\ Len(sent) \in Nat /\ IsSeq(sent')
         /\ Len(sent') = Len(sent) + 1
         /\ \A i \in 1 .. Len(sent) : sent'[i] = sent[i]
         /\ sent'[Len(sent) + 1].bytes = bytes
         /\ IsSeq(content') /\ Len(content) \in Nat
         /\ Len(content') = Len(content) + Len(bytes)
         /\ layout' = Continue(items, FALSE)
         /\ message' = message
  <1>. DEFINE f == [name |-> Head(layout).name, bytes |-> bytes,
                    from |-> Len(content), then |-> Continue(items, FALSE)]
  <1>1. /\ sent' = Append(sent, f) /\ content' = content \o bytes
        /\ layout' = Continue(items, FALSE) /\ message' = message
    BY DEF Push
  <1>2. f.bytes = bytes
    OBVIOUS
  <1>. HIDE DEF f
  <1>3. IsSeq(sent) /\ Len(sent) \in Nat /\ IsSeq(content) /\ Len(content) \in Nat
    BY SeqFacts DEF FieldsInv, BytesInv
  <1>4. /\ IsSeq(sent') /\ Len(sent') = Len(sent) + 1 /\ sent'[Len(sent) + 1] = f
        /\ \A i \in 1 .. Len(sent) : sent'[i] = sent[i]
    BY <1>1, <1>3, AppendSeq
  <1>5. IsSeq(content') /\ Len(content') = Len(content) + Len(bytes)
    BY <1>1, <1>3, Concat
  <1>. QED
    BY <1>1, <1>2, <1>3, <1>4, <1>5

(* A push keeps record of what was pushed, where and before what.          *)
LEMMA PushKeepsRecord ==
  ASSUME FieldsInv, BytesInv, NEW bytes, NEW items, Push(bytes, items), layout # << >>,
         Pushable(Continue(items, FALSE)),
         NEW f,
         f = [name |-> Head(layout).name, bytes |-> bytes,
              from |-> Len(content), then |-> Continue(items, FALSE)],
         Pushed(layout, f)
  PROVE  FieldsInv' /\ BytesInv'
  <1>1. PICK n \in Nat : n = Len(sent)
    BY SeqFacts DEF FieldsInv
  <1>2. /\ f.bytes = bytes /\ f.from = Len(content) /\ f.then = Continue(items, FALSE)
        /\ sent' = Append(sent, f) /\ layout' = f.then
        /\ content' = content \o bytes /\ message' = message
    BY DEF Push
  <1>3. /\ IsSeq(sent') /\ Len(sent') = n + 1 /\ sent'[n + 1] = f
        /\ \A i \in 1 .. n : sent'[i] = sent[i]
    BY <1>1, <1>2, AppendSeq DEF FieldsInv
  <1>4. IsSeq(bytes) /\ IsSeq(content) /\ Len(bytes) \in Nat /\ Len(content) \in Nat
    BY <1>2, SeqFacts DEF Pushed, BytesInv
  <1>5. /\ IsSeq(content') /\ Len(content') = Len(content) + Len(bytes)
        /\ \A i \in 1 .. Len(content) : content'[i] = content[i]
        /\ \A i \in 1 .. Len(bytes) : content'[Len(content) + i] = bytes[i]
    BY <1>2, <1>4, Concat
  <1>6. \A i \in 0 .. n : Then(i)' = Then(i) /\ End(i)' = End(i)
    <2>. SUFFICES ASSUME NEW i \in 0 .. n
                  PROVE  Then(i)' = Then(i) /\ End(i)' = End(i)
      OBVIOUS
    <2>1. CASE i = 0
      BY <1>2, <2>1 DEF Then, End
    <2>2. CASE i \in 1 .. n
      <3>1. sent'[i] = sent[i] /\ i # 0
        BY <1>3, <2>2
      <3>. QED
        BY <3>1 DEF Then, End
    <2>. QED
      BY <2>1, <2>2
  <1>7. Then(n + 1)' = layout' /\ End(n + 1)' = Len(content')
    <2>1. n + 1 # 0 /\ sent'[n + 1] = f
      BY <1>3
    <2>2. Then(n + 1)' = f.then /\ End(n + 1)' = f.from + Len(f.bytes)
      BY <2>1 DEF Then, End
    <2>. QED
      BY <1>2, <1>5, <2>2
  <1>8. FieldsInv'
    <2>1. \A i \in 0 .. n + 1 : Pushable(Then(i))'
      <3>. SUFFICES ASSUME NEW i \in 0 .. n + 1
                    PROVE  Pushable(Then(i))'
        OBVIOUS
      <3>1. CASE i \in 0 .. n
        BY <1>1, <1>6, <3>1 DEF FieldsInv
      <3>2. CASE i = n + 1
        BY <1>2, <1>7, <3>2
      <3>. QED
        BY <3>1, <3>2
    <2>2. \A i \in 1 .. n + 1 : Pushed(Then(i - 1), sent[i])'
      <3>. SUFFICES ASSUME NEW i \in 1 .. n + 1
                    PROVE  Pushed(Then(i - 1), sent[i])'
        OBVIOUS
      <3>1. Then(i - 1)' = Then(i - 1)
        BY <1>6
      <3>2. CASE i \in 1 .. n
        BY <1>1, <1>3, <3>1, <3>2 DEF FieldsInv
      <3>3. CASE i = n + 1
        BY <1>1, <1>3, <3>1, <3>3 DEF FieldsInv
      <3>. QED
        BY <3>2, <3>3
    <2>. QED
      BY <1>2, <1>3, <1>7, <2>1, <2>2 DEF FieldsInv
  <1>9. BytesInv'
    <2>. SUFFICES ASSUME NEW i \in 1 .. n + 1
                  PROVE  (/\ sent[i].from \in Nat
                          /\ sent[i].from = End(i - 1)
                          /\ End(i) <= Len(content)
                          /\ \A j \in 1 .. Len(sent[i].bytes) :
                                content[sent[i].from + j] = sent[i].bytes[j])'
      BY <1>3, <1>5, <1>7 DEF BytesInv
    <2>1. CASE i \in 1 .. n
      <3>1. /\ sent[i].from \in Nat /\ sent[i].from = End(i - 1)
            /\ End(i) <= Len(content)
            /\ \A j \in 1 .. Len(sent[i].bytes) :
                  content[sent[i].from + j] = sent[i].bytes[j]
        BY <1>1, <2>1 DEF BytesInv
      <3>2. IsSeq(sent[i].bytes) /\ End(i) = sent[i].from + Len(sent[i].bytes)
        <4>1. Pushed(Then(i - 1), sent[i])
          BY <1>1, <2>1 DEF FieldsInv
        <4>2. i # 0
          BY <2>1
        <4>. QED
          BY <4>1, <4>2 DEF Pushed, End
      <3>3. \A j \in 1 .. Len(sent[i].bytes) : content'[sent[i].from + j] = sent[i].bytes[j]
        <4>1. Len(sent[i].bytes) \in Nat
          BY <3>2, SeqFacts
        <4>. SUFFICES ASSUME NEW j \in 1 .. Len(sent[i].bytes)
                      PROVE  content'[sent[i].from + j] = sent[i].bytes[j]
          OBVIOUS
        <4>2. sent[i].from + j \in 1 .. Len(content)
          BY <1>4, <3>1, <3>2, <4>1
        <4>. QED
          BY <1>5, <3>1, <4>2
      <3>4. sent'[i] = sent[i] /\ End(i)' = End(i) /\ End(i - 1)' = End(i - 1)
        BY <1>3, <1>6, <2>1
      <3>5. End(i) \in Nat
        BY <3>1, <3>2, SeqFacts
      <3>6. End(i) <= Len(content')
        BY <1>4, <1>5, <3>1, <3>5
      <3>. QED
        BY <3>1, <3>3, <3>4, <3>6
    <2>2. CASE i = n + 1
      <3>1. sent'[i] = f /\ End(i)' = Len(content') /\ End(i - 1)' = End(n)
        BY <1>3, <1>6, <1>7, <2>2
      <3>2. End(n) = Len(content)
        BY <1>1 DEF BytesInv
      <3>3. f.from \in Nat /\ f.from = End(n) /\ Len(content') <= Len(content')
        BY <1>2, <1>4, <1>5, <3>2
      <3>4. \A j \in 1 .. Len(f.bytes) : content'[f.from + j] = f.bytes[j]
        BY <1>2, <1>5
      <3>. QED
        BY <3>1, <3>3, <3>4
    <2>. QED
      BY <2>1, <2>2
  <1>. QED
    BY <1>8, <1>9

(* What there is to push begins with an item that can be pushed.           *)
LEMMA LayoutHead ==
  ASSUME FieldsInv, layout # << >>
  PROVE  /\ Pushable(layout) /\ IsSeq(layout) /\ Head(layout) = layout[1]
         /\ IsItem(layout[1]) /\ Loose(Tail(layout))
         /\ layout[1].kind = "count" =>
              Tail(layout) # << >> /\ Tail(layout)[1].kind = "elements"
  <1>1. Len(sent) \in 0 .. Len(sent)
    BY SeqFacts DEF FieldsInv
  <1>2. Pushable(layout)
    BY <1>1 DEF FieldsInv
  <1>3. Loose(layout) /\ IsSeq(layout) /\ Head(layout) = layout[1]
        /\ Len(layout) \in Nat /\ Len(layout) > 0
    BY <1>2, SeqFacts DEF Pushable, Loose
  <1>4. IsItem(layout[1])
    BY <1>3 DEF Loose
  <1>5. Loose(Tail(layout))
    BY <1>3, LooseTail
  <1>6. ASSUME layout[1].kind = "count"
        PROVE  Tail(layout) # << >> /\ Tail(layout)[1].kind = "elements"
    <2>1. 1 < Len(layout) /\ layout[2].kind = "elements"
      BY <1>3, <1>6 DEF Loose
    <2>2. /\ IsSeq(Tail(layout)) /\ Len(Tail(layout)) = Len(layout) - 1
          /\ Tail(layout)[1] = layout[2]
      BY <1>3, <2>1, TailSeq
    <2>3. Len(Tail(layout)) # 0
      BY <1>3, <2>1, <2>2
    <2>. QED
      BY <2>1, <2>2, <2>3, SeqFacts
  <1>. QED
    BY <1>2, <1>3, <1>4, <1>5, <1>6

(* The three ways to push.                                                 *)
LEMMA NumberPush ==
  ASSUME FieldsInv, PushNumber
  PROVE  /\ layout # << >> /\ layout[1].kind = "number" /\ layout[1].width \in Nat \ {0}
         /\ \E bytes : /\ IsSeq(bytes) /\ Len(bytes) = layout[1].width
                       /\ Push(bytes, Tail(layout))
  <1>1. layout # << >> /\ Head(layout).kind = "number"
    BY DEF PushNumber, Pushes
  <1>2. Head(layout) = layout[1] /\ IsItem(layout[1])
    BY <1>1, LayoutHead
  <1>3. layout[1].width \in Nat \ {0}
    BY <1>1, <1>2 DEF IsItem, IsSimple
  <1>. DEFINE bytes == Field(layout[1].name, layout[1].width, 0)
  <1>4. Push(bytes, Tail(layout))
    BY <1>2 DEF PushNumber
  <1>5. IsSeq(bytes) /\ Len(bytes) = layout[1].width
    BY <1>3, FieldSeq
  <1>. HIDE DEF bytes
  <1>. QED
    BY <1>1, <1>2, <1>3, <1>4, <1>5

(* What PushString pushes.                                                 *)
LEMMA StringPush ==
  ASSUME FieldsInv, PushString
  PROVE  /\ layout # << >> /\ layout[1].kind = "string"
         /\ \E bytes : /\ IsSeq(bytes) /\ bytes[1].value \in Nat
                       /\ Len(bytes) = 2 + bytes[1].value
                       /\ Push(bytes, Tail(layout))
  <1>1. layout # << >> /\ Head(layout).kind = "string"
    BY DEF PushString, Pushes
  <1>2. Head(layout) = layout[1]
    BY <1>1, LayoutHead
  <1>3. PICK length \in 0 .. MaxLength : Push(Text(layout[1].name, length), Tail(layout))
    BY <1>2 DEF PushString
  <1>. DEFINE bytes == Text(layout[1].name, length)
  <1>4. length \in Nat /\ Cast(length, 2) = length
    BY Casts
  <1>5. IsSeq(bytes) /\ bytes[1].value = length /\ Len(bytes) = 2 + length
    BY <1>4, TextSeq
  <1>6. Push(bytes, Tail(layout))
    BY <1>3
  <1>. HIDE DEF bytes
  <1>. QED
    BY <1>1, <1>2, <1>4, <1>5, <1>6

(* What PushCount pushes: the loop behind it is as long as the count says. *)
LEMMA CountPush ==
  ASSUME FieldsInv, PushCount
  PROVE  /\ layout # << >> /\ layout[1].kind = "count" /\ layout[1].width \in Nat \ {0}
         /\ \E bytes : /\ IsSeq(bytes) /\ bytes[1].value \in Nat
                       /\ Len(bytes) = layout[1].width
                       /\ Push(bytes, Counted(Tail(layout), bytes[1].value))
  <1>1. layout # << >> /\ Head(layout).kind = "count"
    BY DEF PushCount, Pushes
  <1>2. Head(layout) = layout[1] /\ IsItem(layout[1])
    BY <1>1, LayoutHead
  <1>3. layout[1].width \in Nat \ {0}
    BY <1>1, <1>2 DEF IsItem, IsSimple
  <1>. DEFINE width == layout[1].width
  <1>4. PICK count \in 0 .. IF width = 2 THEN MaxNames ELSE MaxCount :
           Push(Field(layout[1].name, width, Cast(count, width)), Counted(Tail(layout), count))
    BY <1>2 DEF PushCount
  <1>5. count \in Nat /\ Cast(count, width) = count
    <2>1. CASE width = 2
      BY <2>1, Casts
    <2>2. CASE width # 2
      BY <2>2, Casts
    <2>. QED
      BY <2>1, <2>2
  <1>. DEFINE bytes == Field(layout[1].name, width, count)
  <1>6. IsSeq(bytes) /\ Len(bytes) = width /\ bytes[1].value = count
    BY <1>3, FieldSeq
  <1>7. Push(bytes, Counted(Tail(layout), count))
    BY <1>4, <1>5
  <1>. HIDE DEF bytes
  <1>. QED
    BY <1>1, <1>2, <1>3, <1>5, <1>6, <1>7

(* Every push keeps record of what was pushed.                             *)
LEMMA PushesKeepRecord ==
  ASSUME FieldsInv, BytesInv, PushNumber \/ PushString \/ PushCount
  PROVE  FieldsInv' /\ BytesInv'
  <1>. DEFINE f(bytes, items) ==
                [name |-> Head(layout).name, bytes |-> bytes,
                 from |-> Len(content), then |-> Continue(items, FALSE)]
  <1>1. layout # << >>
    BY DEF PushNumber, PushString, PushCount, Pushes
  <1>2. IsSeq(layout) /\ Head(layout) = layout[1] /\ Loose(Tail(layout))
    BY <1>1, LayoutHead
  <1>3. ASSUME NEW bytes, NEW items
        PROVE  /\ f(bytes, items).name = layout[1].name /\ f(bytes, items).bytes = bytes
               /\ f(bytes, items).then = Continue(items, FALSE)
    BY <1>2
  <1>4. ASSUME NEW bytes, NEW items, Push(bytes, items), Loose(items),
               Pushed(layout, f(bytes, items))
        PROVE  FieldsInv' /\ BytesInv'
    <2>1. Pushable(Continue(items, FALSE))
      BY <1>4, ContinuePushable
    <2>. QED
      BY <1>1, <1>4, <2>1, PushKeepsRecord
  <1>. HIDE DEF f
  <1>5. CASE PushNumber
    <2>1. PICK bytes : /\ IsSeq(bytes) /\ Len(bytes) = layout[1].width
                       /\ Push(bytes, Tail(layout))
      BY <1>5, NumberPush
    <2>2. layout[1].kind = "number"
      BY <1>5, NumberPush
    <2>3. Pushed(layout, f(bytes, Tail(layout)))
      BY <1>1, <1>3, <2>1, <2>2 DEF Pushed
    <2>. QED
      BY <1>2, <1>4, <2>1, <2>3
  <1>6. CASE PushString
    <2>1. PICK bytes : /\ IsSeq(bytes) /\ bytes[1].value \in Nat
                       /\ Len(bytes) = 2 + bytes[1].value
                       /\ Push(bytes, Tail(layout))
      BY <1>6, StringPush
    <2>2. layout[1].kind = "string"
      BY <1>6, StringPush
    <2>3. Pushed(layout, f(bytes, Tail(layout)))
      BY <1>1, <1>3, <2>1, <2>2 DEF Pushed
    <2>. QED
      BY <1>2, <1>4, <2>1, <2>3
  <1>7. CASE PushCount
    <2>1. PICK bytes : /\ IsSeq(bytes) /\ bytes[1].value \in Nat
                       /\ Len(bytes) = layout[1].width
                       /\ Push(bytes, Counted(Tail(layout), bytes[1].value))
      BY <1>7, CountPush
    <2>2. layout[1].kind = "count"
      BY <1>7, CountPush
    <2>. DEFINE items == Counted(Tail(layout), bytes[1].value)
                g == f(bytes, items)
    <2>3. Pushed(layout, g)
      <3>1. g.name = layout[1].name /\ g.bytes = bytes /\ g.then = Continue(items, FALSE)
        BY <1>3
      <3>. HIDE DEF g
      <3>. QED
        BY <1>1, <2>1, <2>2, <3>1 DEF Pushed
    <2>4. Tail(layout) # << >> /\ Tail(layout)[1].kind = "elements"
      BY <1>1, <2>2, LayoutHead
    <2>5. Loose(Counted(Tail(layout), bytes[1].value))
      BY <1>2, <2>1, <2>4, CountedAgree
    <2>. QED
      BY <1>4, <2>1, <2>3, <2>5
  <1>. QED
    BY <1>5, <1>6, <1>7

(* An item in front of a sequence.                                         *)
LEMMA ConsSeq ==
  ASSUME NEW x, NEW s, IsSeq(s)
  PROVE  IsSeq(<<x>> \o s) /\ Len(<<x>> \o s) = Len(s) + 1 /\ (<<x>> \o s)[1] = x
  <1>. DEFINE a == <<x>>
              u == a \o s
  <1>1. IsSeq(a) /\ Len(a) = 1 /\ a[1] = x
    BY Single
  <1>. HIDE DEF a
  <1>2. IsSeq(u) /\ Len(u) = Len(a) + Len(s) /\ (Len(a) > 0 => u[1] = a[1])
    BY <1>1, Together
  <1>. HIDE DEF u
  <1>3. Len(s) \in Nat
    BY SeqFacts
  <1>4. IsSeq(u) /\ Len(u) = Len(s) + 1 /\ u[1] = x
    BY <1>1, <1>2, <1>3
  <1>. QED
    BY <1>4 DEF u, a

(* The second item is the first of the tail.                               *)
LEMMA TailFirst ==
  ASSUME NEW s, IsSeq(s), Len(s) > 1
  PROVE  /\ s # << >> /\ Tail(s) # << >> /\ Tail(s)[1] = s[2]
         /\ IsSeq(Tail(s)) /\ Len(Tail(s)) = Len(s) - 1
  <1>. DEFINE t == Tail(s)
  <1>1. s # << >> /\ Len(s) \in Nat
    BY SeqFacts
  <1>2. IsSeq(t) /\ Len(t) = Len(s) - 1 /\ \A i \in 1 .. Len(s) - 1 : t[i] = s[i + 1]
    BY <1>1, TailSeq
  <1>. HIDE DEF t
  <1>3. t[1] = s[1 + 1] /\ Len(t) # 0
    BY <1>1, <1>2
  <1>4. t # << >>
    BY <1>2, <1>3, SeqFacts
  <1>. QED
    BY <1>1, <1>2, <1>3, <1>4 DEF t

(* Two items.                                                              *)
LEMMA Pair ==
  ASSUME NEW a, NEW b, IsSeq(a), IsSeq(b)
  PROVE  Len(a) = 1 /\ Len(b) = 1 =>
           /\ IsSeq(a \o b) /\ Len(a \o b) = 2
           /\ (a \o b)[1] = a[1] /\ (a \o b)[2] = b[1]
  <1>. DEFINE c == a \o b
  <1>1. /\ IsSeq(c) /\ Len(c) = Len(a) + Len(b)
        /\ \A i \in 1 .. Len(a) : c[i] = a[i]
        /\ \A i \in 1 .. Len(b) : c[Len(a) + i] = b[i]
    BY Concat
  <1>. HIDE DEF c
  <1>2. Len(a) = 1 /\ Len(b) = 1 => Len(c) = 2 /\ c[1] = a[1] /\ c[1 + 1] = b[1]
    BY <1>1
  <1>. QED
    BY <1>1, <1>2 DEF c

(* One byte, and the loop that goes on for the others.                     *)
LEMMA LoopingIs ==
  ASSUME NEW s, IsSeq(s), Len(s) = 0, NEW left
  PROVE  Looping(Byte \o (<<Elements(Byte, left)>> \o s), left)
  <1>. DEFINE x == Elements(Byte, left)
              a == Byte
              b == <<x>> \o s
              c == a \o b
  <1>1. IsSeq(a) /\ Len(a) = 1 /\ a[1].kind = "number" /\ a[1].width = 1
    <2>1. a = [i \in 1 .. 1 |-> a[i]]
      BY DEF Byte, U
    <2>2. a[1].kind = "number" /\ a[1].width = 1
      BY DEF Byte, U
    <2>. QED
      BY <2>1, <2>2, IsSeqByDomain
  <1>. HIDE DEF a, x
  <1>2. IsSeq(b) /\ Len(b) = Len(s) + 1 /\ b[1] = x
    BY ConsSeq
  <1>. HIDE DEF b
  <1>3. Len(b) = 1
    BY <1>2
  <1>4. IsSeq(c) /\ Len(c) = 2 /\ c[1] = a[1] /\ c[2] = b[1]
    BY ONLY <1>1, <1>2, <1>3, Pair
  <1>. HIDE DEF c
  <1>5. Looping(c, left)
    BY <1>1, <1>2, <1>4 DEF Looping, x
  <1>. QED
    BY <1>5 DEF a, b, c, x

(* A loop over data has come to its end, or a byte of them is next.        *)
LEMMA Looped ==
  ASSUME NEW t, IsSeq(t), Len(t) = 1, NEW left \in Nat, t[1] = Elements(Byte, left)
  PROVE  /\ left = 0 => Continue(t, FALSE) = << >>
         /\ left > 0 => Looping(Continue(t, FALSE), left - 1)
  <1>1. t # << >> /\ IsSeq(Tail(t)) /\ Len(Tail(t)) = 0
    <2>1. t # << >>
      BY SeqFacts
    <2>. QED
      BY <2>1, TailSeq
  <1>2. t[1].kind = "elements" /\ t[1].of = Byte /\ t[1].left = left
    BY DEF Elements
  <1>3. Tail(t) = << >>
    BY <1>1, SeqFacts
  <1>4. CASE left = 0
    <2>1. ~(left > 0)
      BY <1>4
    <2>. QED
      BY <1>1, <1>2, <1>3, <1>4, <2>1, ContinueIs
  <1>5. CASE left > 0
    <2>1. Continue(t, FALSE) = Byte \o (<<Elements(Byte, left - 1)>> \o Tail(t))
      BY <1>1, <1>2, <1>5, ContinueIs
    <2>2. Looping(Byte \o (<<Elements(Byte, left - 1)>> \o Tail(t)), left - 1)
      BY <1>1, LoopingIs
    <2>3. ~(left = 0)
      BY <1>5
    <2>. QED
      BY <2>1, <2>2, <2>3
  <1>. QED
    BY <1>4, <1>5

(* A push of one byte of the data.                                         *)
LEMMA DataStep ==
  ASSUME FieldsInv, BytesInv, PushNumber \/ PushString \/ PushCount,
         NEW left \in Nat, Looping(layout, left)
  PROVE  /\ Len(content') = Len(content) + 1
         /\ left = 0 => layout' = << >>
         /\ left > 0 => Looping(layout, left - 1)'
  <1>1. PushNumber
    BY StringPush, CountPush DEF Looping
  <1>2. PICK bytes : /\ IsSeq(bytes) /\ Len(bytes) = layout[1].width
                     /\ Push(bytes, Tail(layout))
    BY <1>1, NumberPush
  <1>3. Len(content') = Len(content) + 1 /\ layout' = Continue(Tail(layout), FALSE)
    BY <1>2, PushEffect DEF Looping
  <1>4. IsSeq(layout) /\ Len(layout) = 2 /\ layout[2] = Elements(Byte, left) /\ layout # << >>
    BY SeqFacts DEF Looping
  <1>5. IsSeq(Tail(layout)) /\ Len(Tail(layout)) = 1 /\ Tail(layout)[1] = layout[2]
    BY <1>4, TailFirst
  <1>. QED
    BY <1>3, <1>4, <1>5, Looped

(* A push of the count in front of the data.                               *)
LEMMA CountStep ==
  ASSUME FieldsInv, BytesInv, PushNumber \/ PushString \/ PushCount, Counting(layout, 0)
  PROVE  \E count \in Nat :
            /\ sent'[Len(sent) + 1].bytes[1].value = count
            /\ Len(content') = Len(content) + 4
            /\ count = 0 => layout' = << >>
            /\ count > 0 => Looping(layout, count - 1)'
  <1>1. /\ IsSeq(layout) /\ Len(layout) = 2 /\ layout[2] = Elements(Byte, 0)
        /\ layout[1].kind = "count" /\ layout[1].width = 4
    BY DEF Counting
  <1>2. layout # << >>
    BY <1>1, SeqFacts
  <1>3. PushCount
    BY <1>1, NumberPush, StringPush
  <1>4. PICK bytes : /\ IsSeq(bytes) /\ bytes[1].value \in Nat
                     /\ Len(bytes) = layout[1].width
                     /\ Push(bytes, Counted(Tail(layout), bytes[1].value))
    BY <1>3, CountPush
  <1>. DEFINE count == bytes[1].value
              t == Counted(Tail(layout), count)
  <1>5. /\ sent'[Len(sent) + 1].bytes = bytes
        /\ Len(content') = Len(content) + 4 /\ layout' = Continue(t, FALSE)
    BY <1>1, <1>4, PushEffect
  <1>6. IsSeq(Tail(layout)) /\ Len(Tail(layout)) = 1 /\ Tail(layout)[1] = layout[2]
        /\ Tail(layout) # << >>
    <2>. DEFINE r == Tail(layout)
    <2>1. IsSeq(layout) /\ Len(layout) > 1
      BY <1>1
    <2>2. /\ IsSeq(r) /\ Len(r) = Len(layout) - 1
          /\ r # << >> /\ r[1] = layout[2]
      BY ONLY <2>1, TailFirst
    <2>. QED
      BY <1>1, <2>2
  <1>7. IsSeq(t) /\ Len(t) = 1 /\ t[1] = Elements(Byte, count)
    <2>. DEFINE u == Tail(layout)
                b == Tail(u)
                x == Elements(Byte, count)
    <2>1. Head(u).of = Byte /\ Head(u) = u[1]
      BY <1>1, <1>6, SeqFacts DEF Elements
    <2>2. t = <<x>> \o b
      BY <2>1 DEF Counted
    <2>. HIDE DEF u
    <2>3. IsSeq(b) /\ Len(b) = 0
      <3>1. IsSeq(u) /\ Len(u) = 1 /\ u # << >>
        BY <1>6 DEF u
      <3>2. IsSeq(b) /\ Len(b) = Len(u) - 1
        BY <3>1, TailSeq
      <3>. QED
        BY <3>1, <3>2
    <2>. HIDE DEF b, x, t
    <2>4. IsSeq(<<x>> \o b) /\ Len(<<x>> \o b) = Len(b) + 1 /\ (<<x>> \o b)[1] = x
      BY <2>3, ConsSeq
    <2>. QED
      BY <2>2, <2>3, <2>4 DEF x
  <1>. HIDE DEF t
  <1>8. count \in Nat
    BY <1>4
  <1>. QED
    BY <1>5, <1>7, <1>8, Looped

(* A push of a number in front of the count.                               *)
LEMMA NumberStep ==
  ASSUME FieldsInv, BytesInv, PushNumber \/ PushString \/ PushCount,
         NEW k \in Nat, Counting(layout, k + 1), layout[1].kind = "number",
         layout[2].kind \notin {"elements", "rest"}
  PROVE  /\ Len(content') = Len(content) + layout[1].width
         /\ IsSeq(layout') /\ Len(layout') = k + 2
         /\ \A i \in 1 .. k + 2 : layout'[i] = layout[i + 1]
  <1>1. IsSeq(layout) /\ Len(layout) = k + 3
    BY DEF Counting
  <1>2. layout # << >>
    BY <1>1, SeqFacts
  <1>3. PushNumber
    BY StringPush, CountPush
  <1>4. PICK bytes : /\ IsSeq(bytes) /\ Len(bytes) = layout[1].width
                     /\ Push(bytes, Tail(layout))
    BY <1>3, NumberPush
  <1>5. Len(content') = Len(content) + layout[1].width /\ layout' = Continue(Tail(layout), FALSE)
    BY <1>4, PushEffect
  <1>6. /\ IsSeq(Tail(layout)) /\ Len(Tail(layout)) = k + 2
        /\ \A i \in 1 .. k + 2 : Tail(layout)[i] = layout[i + 1]
    BY <1>1, <1>2, TailSeq
  <1>7. Tail(layout)[1].kind \notin {"elements", "rest"}
    BY <1>6
  <1>8. Continue(Tail(layout), FALSE) = Tail(layout)
    BY <1>6, <1>7, ContinueIs
  <1>. QED
    BY <1>5, <1>6, <1>8

(* A push appends to what was pushed.                                      *)
LEMMA PushAppends ==
  ASSUME FieldsInv, BytesInv, PushNumber \/ PushString \/ PushCount
  PROVE  /\ message' = message /\ layout # << >>
         /\ Len(sent) \in Nat /\ Len(content) \in Nat /\ IsSeq(sent) /\ IsSeq(sent')
         /\ Len(sent') = Len(sent) + 1
         /\ \A i \in 1 .. Len(sent) : sent'[i] = sent[i]
  <1>1. CASE PushNumber
    BY <1>1, NumberPush, PushEffect
  <1>2. CASE PushString
    BY <1>2, StringPush, PushEffect
  <1>3. CASE PushCount
    BY <1>3, CountPush, PushEffect
  <1>. QED
    BY <1>1, <1>2, <1>3

(* The data go on being as long as the count says.                         *)
LEMMA DataGoOn ==
  ASSUME FieldsInv, BytesInv, PushNumber \/ PushString \/ PushCount,
         NEW before \in Nat, DataInv(before), DataCount' = DataCount
  PROVE  DataInv(before)'
  <1>1. layout # << >> /\ Len(content) \in Nat
    BY PushAppends
  <1>2. PICK left \in Nat : /\ Looping(layout, left)
                            /\ Len(content) + 1 + left = before + DataCount
    BY <1>1 DEF DataInv
  <1>3. /\ Len(content') = Len(content) + 1
        /\ left = 0 => layout' = << >>
        /\ left > 0 => Looping(layout, left - 1)'
    BY <1>2, DataStep
  <1>4. DataCount' \in Nat
    BY DEF DataInv
  <1>5. CASE left = 0
    BY <1>1, <1>2, <1>3, <1>4, <1>5 DEF DataInv
  <1>6. CASE left > 0
    <2>1. left - 1 \in Nat /\ Len(content') + 1 + (left - 1) = before + DataCount'
      BY <1>1, <1>2, <1>3, <1>4, <1>6
    <2>. QED
      BY <1>3, <1>4, <1>6, <2>1 DEF DataInv
  <1>. QED
    BY <1>5, <1>6

(* The data begin behind their count.                                      *)
LEMMA DataBegin ==
  ASSUME FieldsInv, BytesInv, PushNumber \/ PushString \/ PushCount, Counting(layout, 0),
         sent'[Len(sent) + 1].bytes[1].value = DataCount',
         NEW before \in Nat, Len(content) + 4 = before
  PROVE  DataInv(before)'
  <1>1. PICK count \in Nat : /\ sent'[Len(sent) + 1].bytes[1].value = count
                             /\ Len(content') = Len(content) + 4
                             /\ count = 0 => layout' = << >>
                             /\ count > 0 => Looping(layout, count - 1)'
    BY CountStep
  <1>2. DataCount' = count /\ Len(content') = before
    BY <1>1
  <1>3. CASE count = 0
    BY <1>1, <1>2, <1>3 DEF DataInv
  <1>4. CASE count > 0
    <2>1. count - 1 \in Nat /\ Len(content') + 1 + (count - 1) = before + DataCount'
      BY <1>2, <1>4
    <2>. QED
      BY <1>1, <1>2, <1>4, <2>1 DEF DataInv
  <1>. QED
    BY <1>3, <1>4

(* Messages with data stay as long as their count says, push by push.      *)
LEMMA PushKeepsSizes ==
  ASSUME FieldsInv, BytesInv, SizeInv, PushNumber \/ PushString \/ PushCount
  PROVE  SizeInv'
  <1>1. /\ message' = message /\ layout # << >>
        /\ Len(sent) \in Nat /\ Len(content) \in Nat /\ IsSeq(sent) /\ IsSeq(sent')
        /\ Len(sent') = Len(sent) + 1
        /\ \A i \in 1 .. Len(sent) : sent'[i] = sent[i]
    BY PushAppends
  <1>2. ASSUME message \in {"ReadResponse", "ReadInPlaceResponse"}
        PROVE  ReadInv'
    <2>1. message \in Replies
      BY <1>2 DEF Replies
    <2>2. DataCount' = sent'[1].bytes[1].value /\ DataCount = sent[1].bytes[1].value
      BY <1>1, <2>1 DEF DataCount
    <2>3. ReadInv
      BY <1>2 DEF SizeInv
    <2>4. DataInv(4)'
      <3>1. CASE sent = << >>
        <4>1. Len(sent) + 1 = 1 /\ Counting(layout, 0) /\ Len(content) + 4 = 4
          BY <1>1, <2>3, <3>1, Empty DEF ReadInv
        <4>2. sent'[Len(sent) + 1].bytes[1].value = DataCount'
          BY <2>2, <4>1
        <4>. QED
          BY <4>1, <4>2, DataBegin
      <3>2. CASE sent # << >>
        <4>1. 1 \in 1 .. Len(sent)
          BY <1>1, <3>2, SeqFacts
        <4>2. DataCount' = DataCount
          BY <1>1, <2>2, <4>1
        <4>3. DataInv(4)
          BY <2>3, <3>2 DEF ReadInv
        <4>. QED
          BY <4>2, <4>3, DataGoOn
      <3>. QED
        BY <3>1, <3>2
    <2>5. sent' # << >>
      BY <1>1, SeqFacts
    <2>. QED
      BY <2>4, <2>5 DEF ReadInv
  <1>3. ASSUME message \in {"WriteRequest", "WriteInPlaceRequest"}
        PROVE  WriteInv'
    <2>1. message \notin Replies
      BY <1>3 DEF Replies
    <2>2. DataCount' = sent'[3].bytes[1].value /\ DataCount = sent[3].bytes[1].value
      BY <1>1, <2>1 DEF DataCount
    <2>3. WriteInv
      BY <1>3 DEF SizeInv
    <2>4. CASE /\ Len(sent) = 0 /\ Counting(layout, 2) /\ Len(content) = 0
               /\ layout[1].kind = "number" /\ layout[1].width = 4
               /\ layout[2].kind = "number" /\ layout[2].width = 8
      <3>1. Counting(layout, 1 + 1)
        BY <2>4
      <3>2. /\ Len(content') = Len(content) + layout[1].width
            /\ IsSeq(layout') /\ Len(layout') = 1 + 2
            /\ \A i \in 1 .. 1 + 2 : layout'[i] = layout[i + 1]
        BY <2>4, <3>1, NumberStep
      <3>3. layout'[1] = layout[2] /\ layout'[2] = layout[3] /\ layout'[3] = layout[4]
        BY <3>2
      <3>4. Counting(layout, 1)'
        BY <2>4, <3>2, <3>3 DEF Counting
      <3>. QED
        BY <1>1, <2>4, <3>2, <3>3, <3>4 DEF WriteInv
    <2>5. CASE /\ Len(sent) = 1 /\ Counting(layout, 1) /\ Len(content) = 4
               /\ layout[1].kind = "number" /\ layout[1].width = 8
      <3>1. Counting(layout, 0 + 1) /\ layout[2].kind = "count"
        BY <2>5 DEF Counting
      <3>2. /\ Len(content') = Len(content) + layout[1].width
            /\ IsSeq(layout') /\ Len(layout') = 0 + 2
            /\ \A i \in 1 .. 0 + 2 : layout'[i] = layout[i + 1]
        BY <2>5, <3>1, NumberStep
      <3>3. layout'[1] = layout[2] /\ layout'[2] = layout[3]
        BY <3>2
      <3>4. Counting(layout, 0)'
        BY <2>5, <3>2, <3>3 DEF Counting
      <3>. QED
        BY <1>1, <2>5, <3>2, <3>4 DEF WriteInv
    <2>6. CASE Len(sent) = 2 /\ Counting(layout, 0) /\ Len(content) = 12
      <3>1. sent'[Len(sent) + 1].bytes[1].value = DataCount' /\ Len(content) + 4 = 16
        BY <2>2, <2>6
      <3>2. DataInv(16)'
        BY <2>6, <3>1, DataBegin
      <3>. QED
        BY <1>1, <2>6, <3>2 DEF WriteInv
    <2>7. CASE Len(sent) > 2 /\ DataInv(16)
      <3>1. DataCount' = DataCount
        BY <1>1, <2>2, <2>7
      <3>2. DataInv(16)'
        BY <2>7, <3>1, DataGoOn
      <3>. QED
        BY <1>1, <2>7, <3>2 DEF WriteInv
    <2>. QED
      BY <2>3, <2>4, <2>5, <2>6, <2>7 DEF WriteInv
  <1>. QED
    BY <1>1, <1>2, <1>3 DEF SizeInv

(* The layouts of the four messages with data.                             *)
LEMMA ReadLayouts ==
  /\ Sender("ReadResponse") = List(4, "count", Byte)
  /\ Sender("ReadInPlaceResponse") = List(4, "count", Byte)
  <1>1. "ReadResponse" \in Replies /\ "ReadInPlaceResponse" \in Replies
    BY DEF Replies
  <1>2. "ReadResponse" \in DOMAIN BaseMessages
    BY DocumentedTables DEF TransferNames
  <1>3. BaseMessages.ReadResponse = List(4, "count", Byte)
    BY DEF BaseMessages
  <1>4. Documented["ReadResponse"] = BaseMessages["ReadResponse"]
    BY <1>2, DocumentedIs
  <1>5. Documented["ReadInPlaceResponse"] = BaseMessages.ReadResponse
    BY DocumentedIs
  <1>. QED
    BY <1>1, <1>3, <1>4, <1>5 DEF Sender

(* Both ways of a write are laid out alike.                                *)
LEMMA WriteLayouts ==
  /\ Sender("WriteRequest") =
       U(4, <<"fid">>) \o U(8, <<"offset">>) \o List(4, "count", Byte)
  /\ Sender("WriteInPlaceRequest") =
       U(4, <<"fid">>) \o U(8, <<"offset">>) \o List(4, "count", Byte)
  <1>1. "WriteRequest" \notin Replies /\ "WriteInPlaceRequest" \notin Replies
    BY DEF Replies
  <1>2. "WriteRequest" \in DOMAIN Transferring
    BY Tables DEF TransferNames
  <1>3. "WriteInPlaceRequest" \in DOMAIN WriteInPlace
    BY Tables
  <1>4. Transferring.WriteRequest =
          U(4, <<"fid">>) \o U(8, <<"offset">>) \o List(4, "count", Byte)
    BY DEF Transferring
  <1>5. WriteInPlace.WriteInPlaceRequest =
          U(4, <<"fid">>) \o U(8, <<"offset">>) \o List(4, "count", Byte)
    BY DEF WriteInPlace
  <1>6. Coded["WriteRequest"] = Transferring["WriteRequest"]
    BY <1>2, CodedIs
  <1>7. Coded["WriteInPlaceRequest"] = WriteInPlace["WriteInPlaceRequest"]
    BY <1>3, CodedIs
  <1>. QED
    BY <1>1, <1>4, <1>5, <1>6, <1>7 DEF Sender

(* One number.                                                             *)
LEMMA OneNumber ==
  ASSUME NEW width, NEW name
  PROVE  /\ IsSeq(U(width, <<name>>)) /\ Len(U(width, <<name>>)) = 1
         /\ U(width, <<name>>)[1].kind = "number" /\ U(width, <<name>>)[1].width = width
  <1>. DEFINE u == U(width, <<name>>)
  <1>1. u = [i \in 1 .. 1 |-> u[i]]
    BY DEF U
  <1>2. u[1].kind = "number" /\ u[1].width = width
    BY DEF U
  <1>. HIDE DEF u
  <1>3. IsSeq(u) /\ Len(u) = 1
    BY <1>1, IsSeqByDomain
  <1>. QED
    BY <1>2, <1>3 DEF u

(* In the messages with data the count comes first or third.               *)
LEMMA DataLayouts ==
  /\ Counting(List(4, "count", Byte), 0)
  /\ LET s == U(4, <<"fid">>) \o U(8, <<"offset">>) \o List(4, "count", Byte)
     IN  /\ Counting(s, 2)
         /\ s[1].kind = "number" /\ s[1].width = 4
         /\ s[2].kind = "number" /\ s[2].width = 8
  <1>. DEFINE a == U(4, <<"fid">>)
              b == U(8, <<"offset">>)
              l == List(4, "count", Byte)
              c == a \o b
              s == c \o l
              x == [kind |-> "count", width |-> 4, name |-> "count"]
              y == Elements(Byte, 0)
  <1>1. IsSeq(l) /\ Len(l) = 2 /\ l[1] = x /\ l[2] = y
    <2>1. l = <<x, y>>
      BY DEF List
    <2>. HIDE DEF x, y, l
    <2>2. l = [i \in 1 .. 2 |-> l[i]] /\ l[1] = x /\ l[2] = y
      BY <2>1
    <2>. QED
      BY <2>2, IsSeqByDomain
  <1>2. IsSeq(a) /\ Len(a) = 1 /\ a[1].kind = "number" /\ a[1].width = 4
    BY OneNumber
  <1>3. IsSeq(b) /\ Len(b) = 1 /\ b[1].kind = "number" /\ b[1].width = 8
    BY OneNumber
  <1>. HIDE DEF a, b, l, x, y
  <1>4. IsSeq(c) /\ Len(c) = 2 /\ c[1] = a[1] /\ c[2] = b[1]
    BY ONLY <1>2, <1>3, Pair
  <1>. HIDE DEF c
  <1>5. /\ IsSeq(s) /\ Len(s) = Len(c) + Len(l)
        /\ \A i \in 1 .. Len(c) : s[i] = c[i]
        /\ \A i \in 1 .. Len(l) : s[Len(c) + i] = l[i]
    <2>1. IsSeq(c) /\ IsSeq(l)
      BY <1>1, <1>4
    <2>. QED
      BY ONLY <2>1, Concat
  <1>. HIDE DEF s
  <1>6. Len(s) = 4 /\ s[1] = c[1] /\ s[2] = c[2] /\ s[2 + 1] = l[1] /\ s[2 + 2] = l[2]
    BY <1>1, <1>4, <1>5
  <1>7. Counting(l, 0)
    BY <1>1 DEF Counting, x, y
  <1>8. Counting(s, 2)
    <2>1. Len(s) = 2 + 2 /\ s[2 + 1] = x /\ s[2 + 2] = y
      BY <1>1, <1>6
    <2>. QED
      BY <1>5, <2>1 DEF Counting, x, y
  <1>. QED
    BY <1>2, <1>3, <1>4, <1>6, <1>7, <1>8 DEF a, b, c, l, s

(* A message begins with all of its layout to push and nothing pushed.     *)
LEMMA BeginStep ==
  ASSUME NEW m \in Message, Begin(m)
  PROVE  FieldsInv' /\ BytesInv' /\ PushInv' /\ SizeInv'
  <1>1. /\ message' = m /\ layout' = Sender(m) /\ todo' = Receiver(m) /\ at' = 0
        /\ content' = << >> /\ sent' = << >> /\ taken' = << >>
    BY DEF Begin
  <1>2. IsSeq(sent') /\ Len(sent') = 0 /\ IsSeq(content') /\ Len(content') = 0
    BY <1>1, Empty
  <1>3. Then(0)' = layout' /\ End(0)' = 0
    BY <1>1 DEF Then, End
  <1>4. Pushable(layout)'
    BY <1>1, LayoutsAgree
  <1>5. FieldsInv'
    <2>1. (\A i \in 0 .. Len(sent) : Pushable(Then(i)))'
      <3>. SUFFICES ASSUME NEW i \in 0 .. 0
                    PROVE  Pushable(Then(i))'
        BY <1>2
      <3>. QED
        BY <1>3, <1>4
    <2>. QED
      BY <1>1, <1>2, <1>3, <2>1 DEF FieldsInv
  <1>6. BytesInv'
    BY <1>2, <1>3 DEF BytesInv
  <1>7. PushInv'
    BY <1>1 DEF PushInv
  <1>8. ASSUME m \in {"ReadResponse", "ReadInPlaceResponse"}
        PROVE  ReadInv'
    BY <1>1, <1>2, <1>8, ReadLayouts, DataLayouts DEF ReadInv
  <1>9. ASSUME m \in {"WriteRequest", "WriteInPlaceRequest"}
        PROVE  WriteInv'
    <2>1. layout' = U(4, <<"fid">>) \o U(8, <<"offset">>) \o List(4, "count", Byte)
      BY <1>1, <1>9, WriteLayouts
    <2>2. /\ Counting(layout, 2)'
          /\ layout'[1].kind = "number" /\ layout'[1].width = 4
          /\ layout'[2].kind = "number" /\ layout'[2].width = 8
      BY <2>1, DataLayouts
    <2>. QED
      BY <1>2, <2>2 DEF WriteInv
  <1>. QED
    BY <1>1, <1>5, <1>6, <1>7, <1>8, <1>9 DEF SizeInv

(* Sending adds a header with the size of all that was pushed, whether it  *)
(* is measured or added up.                                                *)
LEMMA SendStep ==
  ASSUME FieldsInv, BytesInv, SizeInv, Send
  PROVE  layout = << >> /\ wire' = PushHeader(Len(content)) \o content
  <1>1. layout = << >> /\ Len(layout) = 0
    BY Empty DEF Send
  <1>2. Len(content) \in Nat
    BY SeqFacts DEF BytesInv
  <1>3. ASSUME message = "WriteInPlaceRequest"
        PROVE  ContentSize = Len(content)
    <2>1. WriteInv
      BY <1>3 DEF SizeInv
    <2>2. DataInv(16)
      BY <1>1, <2>1 DEF WriteInv, Counting
    <2>3. DataCount \in Nat /\ Len(content) = 16 + DataCount
      BY <1>1, <2>2 DEF DataInv, Looping
    <2>4. WriteRequestHeaderSize - HeaderSize = 16
      BY DEF WriteRequestHeaderSize, HeaderSize
    <2>. QED
      BY <1>3, <2>3, <2>4 DEF ContentSize
  <1>4. ContentSize = Len(content)
    BY <1>3 DEF ContentSize
  <1>. QED
    BY <1>1, <1>4 DEF Send

(* The invariants of what was pushed are about four variables.             *)
LEMMA NothingPushed ==
  ASSUME UNCHANGED <<message, layout, content, sent>>
  PROVE  /\ FieldsInv => FieldsInv'
         /\ BytesInv => BytesInv'
         /\ SizeInv => SizeInv'
  <1>1. message' = message /\ layout' = layout /\ content' = content /\ sent' = sent
    OBVIOUS
  <1>2. FieldsInv => FieldsInv'
    BY <1>1 DEF FieldsInv, Then
  <1>3. BytesInv => BytesInv'
    BY <1>1 DEF BytesInv, End
  <1>4. DataCount' = DataCount
    BY <1>1 DEF DataCount
  <1>5. SizeInv => SizeInv'
    <2>1. \A before : DataInv(before) => DataInv(before)'
      BY <1>1, <1>4 DEF DataInv
    <2>2. ReadInv => ReadInv'
      BY <1>1, <2>1 DEF ReadInv
    <2>3. WriteInv => WriteInv'
      BY <1>1, <2>1 DEF WriteInv
    <2>. QED
      BY <1>1, <2>2, <2>3 DEF SizeInv
  <1>. QED
    BY <1>2, <1>3, <1>5

(* The receiver receives what was pushed, and nothing is left on the wire. *)
LEMMA PopHeaderStep ==
  ASSUME FieldsInv, BytesInv, PushInv, PopHeader,
         wire = PushHeader(Len(content)) \o content
  PROVE  buffer' = content /\ wire' = << >> /\ LockstepInv'
  <1>. DEFINE n == Len(content)
              h == PushHeader(n)
              w == h \o content
              b == SubSeq(w, HeaderSize + 1, n + 7)
              e == SubSeq(w, n + 7 + 1, Len(w))
  <1>1. n \in Nat /\ IsSeq(content) /\ HeaderSize = 7
    BY SeqFacts DEF BytesInv, HeaderSize
  <1>2. IsSeq(h) /\ Len(h) = 7 /\ h[1].value = n + 7
    BY <1>1, HeaderSeq
  <1>3. wire = w /\ buffer' = SubSeq(wire, HeaderSize + 1, wire[1].value)
        /\ wire' = SubSeq(wire, wire[1].value + 1, Len(wire))
    BY DEF PopHeader
  <1>. HIDE DEF h
  <1>4. /\ IsSeq(w) /\ Len(w) = Len(h) + Len(content)
        /\ \A i \in 1 .. Len(h) : w[i] = h[i]
        /\ \A i \in 1 .. Len(content) : w[Len(h) + i] = content[i]
    <2>1. IsSeq(h)
      BY <1>2
    <2>2. IsSeq(content)
      BY <1>1
    <2>. QED
      BY ONLY <2>1, <2>2, Concat
  <1>. HIDE DEF w
  <1>5. Len(w) = n + 7 /\ w[1] = h[1] /\ \A i \in 1 .. n : w[7 + i] = content[i]
    BY <1>1, <1>2, <1>4
  <1>6. buffer' = b /\ wire' = e
    BY <1>2, <1>3, <1>5
  <1>7. b = content
    <2>1. /\ IsSeq(SubSeq(w, 8, n + 7)) /\ Len(SubSeq(w, 8, n + 7)) = n + 7 + 1 - 8
          /\ \A i \in 1 .. n + 7 + 1 - 8 : SubSeq(w, 8, n + 7)[i] = w[8 + i - 1]
      BY <1>1, <1>4, <1>5, Part
    <2>2. b = SubSeq(w, 8, n + 7)
      BY <1>1
    <2>. HIDE DEF b
    <2>3. IsSeq(b) /\ Len(b) = n /\ \A i \in 1 .. n : b[i] = content[i]
      BY <1>1, <1>5, <2>1, <2>2
    <2>. QED
      BY <1>1, <2>3, SameSeq
  <1>8. e = << >>
    <2>1. n + 8 \in Nat \ {0} /\ n + 7 \in Nat /\ n + 8 <= n + 7 + 1 /\ n + 7 <= Len(w)
      BY <1>1, <1>5
    <2>2. IsSeq(SubSeq(w, n + 8, n + 7)) /\ Len(SubSeq(w, n + 8, n + 7)) = n + 7 + 1 - (n + 8)
      BY <1>4, <2>1, Part
    <2>3. e = SubSeq(w, n + 8, n + 7)
      BY <1>1, <1>5
    <2>. HIDE DEF e
    <2>4. IsSeq(e) /\ Len(e) = 0
      BY <1>1, <2>2, <2>3
    <2>. QED
      BY <2>4, SeqFacts
  <1>9. LockstepInv'
    <2>1. /\ taken' = << >> /\ at' = 0 /\ todo' = Receiver(message)
          /\ message' = message /\ sent' = sent
      BY DEF PopHeader, PushInv
    <2>2. IsSeq(taken') /\ Len(taken') = 0
      BY <2>1, Empty
    <2>3. Then(0)' = Sender(message) /\ End(0)' = 0
      BY <2>1 DEF Then, End
    <2>4. Agree(todo, Then(0))'
      BY <2>1, <2>3, LayoutsAgree DEF FieldsInv
    <2>5. Len(sent') \in Nat
      BY <2>1, SeqFacts DEF FieldsInv
    <2>. QED
      BY <2>1, <2>2, <2>3, <2>4, <2>5 DEF LockstepInv
  <1>. QED
    BY <1>6, <1>7, <1>8, <1>9

----------------------------------------------------------------------------
(* All of the message was pushed.                                          *)
Settled == FieldsInv /\ BytesInv /\ layout = << >>

(* What was pushed behind the first k fields.                              *)
LEMMA NextField ==
  ASSUME Settled, NEW k \in 0 .. Len(sent)
  PROVE  /\ Len(sent) \in Nat /\ Len(content) \in Nat /\ IsSeq(content)
         /\ Pushable(Then(k)) /\ End(k) \in Nat /\ End(k) <= Len(content)
         /\ k = Len(sent) => Then(k) = << >> /\ End(k) = Len(content)
         /\ k < Len(sent) =>
              /\ Then(k) # << >> /\ Pushed(Then(k), sent[k + 1])
              /\ Then(k + 1) = sent[k + 1].then
              /\ IsSeq(sent[k + 1].bytes) /\ Len(sent[k + 1].bytes) \in Nat \ {0}
              /\ End(k + 1) = End(k) + Len(sent[k + 1].bytes)
              /\ End(k + 1) <= Len(content)
              /\ \A j \in 1 .. Len(sent[k + 1].bytes) :
                    content[End(k) + j] = sent[k + 1].bytes[j]
  <1>1. /\ FieldsInv /\ BytesInv /\ layout = << >> /\ IsSeq(content)
        /\ Len(sent) \in Nat /\ Len(content) \in Nat
    BY SeqFacts DEF Settled, FieldsInv, BytesInv
  <1>2. Pushable(Then(k))
    BY <1>1 DEF FieldsInv
  <1>3. End(k) \in Nat /\ End(k) <= Len(content)
    <2>1. CASE k = 0
      BY <1>1, <2>1 DEF End
    <2>2. CASE k \in 1 .. Len(sent)
      <3>1. Pushed(Then(k - 1), sent[k])
        BY <1>1, <2>2 DEF FieldsInv
      <3>2. sent[k].from \in Nat /\ Len(sent[k].bytes) \in Nat
        BY <1>1, <2>2, <3>1, SeqFacts DEF BytesInv, Pushed
      <3>3. End(k) = sent[k].from + Len(sent[k].bytes)
        BY <2>2 DEF End
      <3>4. End(k) <= Len(content)
        BY <1>1, <2>2 DEF BytesInv
      <3>. QED
        BY <3>2, <3>3, <3>4
    <2>. QED
      BY <1>1, <2>1, <2>2
  <1>4. k = Len(sent) => Then(k) = << >> /\ End(k) = Len(content)
    BY <1>1 DEF FieldsInv, BytesInv
  <1>5. ASSUME k < Len(sent)
        PROVE  /\ Then(k) # << >> /\ Pushed(Then(k), sent[k + 1])
               /\ Then(k + 1) = sent[k + 1].then
               /\ IsSeq(sent[k + 1].bytes) /\ Len(sent[k + 1].bytes) \in Nat \ {0}
               /\ End(k + 1) = End(k) + Len(sent[k + 1].bytes)
               /\ End(k + 1) <= Len(content)
               /\ \A j \in 1 .. Len(sent[k + 1].bytes) :
                     content[End(k) + j] = sent[k + 1].bytes[j]
    <2>. DEFINE m == k + 1
                f == sent[k + 1]
                s == Then(k)
    <2>1. m \in 1 .. Len(sent) /\ m - 1 = k /\ m # 0
      BY <1>1, <1>5
    <2>2. Pushed(s, f)
      <3>1. Pushed(Then(m - 1), sent[m])
        BY <1>1, <2>1 DEF FieldsInv
      <3>. QED
        BY <2>1, <3>1
    <2>3. /\ f.from = End(k) /\ End(m) <= Len(content)
          /\ \A j \in 1 .. Len(f.bytes) : content[f.from + j] = f.bytes[j]
      <3>1. /\ sent[m].from = End(m - 1) /\ End(m) <= Len(content)
            /\ \A j \in 1 .. Len(sent[m].bytes) :
                  content[sent[m].from + j] = sent[m].bytes[j]
        BY <1>1, <2>1 DEF BytesInv
      <3>. QED
        BY <2>1, <3>1
    <2>4. Then(m) = f.then /\ End(m) = f.from + Len(f.bytes)
      BY <2>1 DEF Then, End
    <2>. HIDE DEF f, s
    <2>5. s # << >> /\ IsSeq(f.bytes)
      BY <2>2 DEF Pushed
    <2>6. IsItem(s[1])
      <3>1. Loose(s) /\ IsSeq(s)
        BY <1>2 DEF s, Pushable, Loose
      <3>2. 1 \in 1 .. Len(s)
        BY <2>5, <3>1, SeqFacts
      <3>. QED
        BY <3>1, <3>2 DEF Loose
    <2>7. Len(f.bytes) \in Nat \ {0}
      <3>1. Len(f.bytes) \in Nat
        BY <2>5, SeqFacts
      <3>2. s[1].kind \in {"number", "count"} => s[1].width \in Nat \ {0}
        BY <2>6 DEF IsItem, IsSimple
      <3>3. \/ s[1].kind \in {"number", "count"} /\ Len(f.bytes) = s[1].width
            \/ f.bytes[1].value \in Nat /\ Len(f.bytes) = 2 + f.bytes[1].value
        BY <2>2 DEF Pushed
      <3>. QED
        BY <3>1, <3>2, <3>3
    <2>. QED
      BY <2>2, <2>3, <2>4, <2>5, <2>7 DEF f, s
  <1>. QED
    BY <1>1, <1>2, <1>3, <1>4, <1>5

(* The bytes end where there is nothing left to push.                      *)
LEMMA EndOfMessage ==
  ASSUME Settled, NEW k \in 0 .. Len(sent), k < Len(sent)
  PROVE  End(k + 1) = Len(content) <=> Then(k + 1) = << >>
  <1>1. k + 1 \in 0 .. Len(sent) /\ Len(sent) \in Nat
    BY NextField
  <1>2. CASE k + 1 = Len(sent)
    BY <1>1, <1>2, NextField
  <1>3. CASE k + 1 < Len(sent)
    <2>. DEFINE m == k + 1
    <2>1. m \in 0 .. Len(sent) /\ m < Len(sent)
      BY <1>1, <1>3
    <2>. HIDE DEF m
    <2>2. /\ Then(m) # << >> /\ End(m) \in Nat /\ Len(sent[m + 1].bytes) \in Nat \ {0}
          /\ End(m + 1) = End(m) + Len(sent[m + 1].bytes)
          /\ End(m + 1) <= Len(content) /\ Len(content) \in Nat
      BY <2>1, NextField
    <2>3. End(m) # Len(content)
      BY <2>2
    <2>. QED
      BY <2>2, <2>3 DEF m
  <1>. QED
    BY <1>1, <1>2, <1>3

(* What a receiver in lockstep finds when it goes on: with a field ahead,  *)
(* its own idea of that field; without, nothing or an optional field.      *)
LEMMA Ahead ==
  ASSUME Settled, LockstepInv, buffer = content, NEW k, k = Len(taken)
  PROVE  /\ k \in 0 .. Len(sent) /\ IsSeq(taken) /\ IsSeq(todo)
         /\ at = End(k) /\ Left \in Nat /\ Left = Len(content) - End(k)
         /\ Agree(todo, Then(k)) /\ Loose(Then(k)) /\ IsSeq(Then(k))
         /\ k < Len(sent) =>
              /\ todo # << >> /\ SameItem(todo, Then(k), 1)
              /\ Head(todo) = todo[1] /\ IsItem(Then(k)[1])
         /\ k = Len(sent) =>
              /\ Left = 0
              /\ \/ todo = << >>
                 \/ /\ todo # << >> /\ Len(todo) = 1 /\ Head(todo) = todo[1]
                    /\ todo[1].kind = "optional" /\ todo[1].width \in Nat \ {0}
  <1>1. k \in 0 .. Len(sent) /\ IsSeq(taken)
    <2>1. Len(taken) \in Nat /\ Len(sent) \in Nat /\ Len(taken) <= Len(sent)
      BY SeqFacts DEF LockstepInv, Settled, FieldsInv
    <2>. QED
      BY <2>1 DEF LockstepInv
  <1>2. at = End(k) /\ Agree(todo, Then(k))
    BY DEF LockstepInv
  <1>3. /\ End(k) \in Nat /\ End(k) <= Len(content) /\ Len(content) \in Nat
        /\ Pushable(Then(k))
        /\ k = Len(sent) => Then(k) = << >> /\ End(k) = Len(content)
        /\ k < Len(sent) => Then(k) # << >>
    BY <1>1, NextField
  <1>4. Left \in Nat /\ Left = Len(content) - End(k)
    BY <1>2, <1>3 DEF Left
  <1>. DEFINE s == Then(k)
  <1>5. Loose(s) /\ IsSeq(s)
    BY <1>3 DEF Pushable, Loose
  <1>6. IsSeq(todo)
    BY <1>2 DEF Agree
  <1>7. k < Len(sent) => /\ todo # << >> /\ SameItem(todo, s, 1)
                         /\ Head(todo) = todo[1] /\ IsItem(s[1])
    <2>. HAVE k < Len(sent)
    <2>. HIDE DEF s
    <2>1. s # << >>
      BY <1>3 DEF s
    <2>2. todo # << >> /\ SameItem(todo, s, 1)
      BY <1>2, <1>5, <2>1, AgreeLength DEF s
    <2>3. 1 \in 1 .. Len(s)
      BY <1>5, <2>1, SeqFacts
    <2>4. IsItem(s[1])
      BY <1>5, <2>3 DEF Loose
    <2>5. Head(todo) = todo[1]
      BY <1>6, <2>2, SeqFacts
    <2>. QED
      BY <2>2, <2>4, <2>5
  <1>8. k = Len(sent) =>
          /\ Left = 0
          /\ \/ todo = << >>
             \/ /\ todo # << >> /\ Len(todo) = 1 /\ Head(todo) = todo[1]
                /\ todo[1].kind = "optional" /\ todo[1].width \in Nat \ {0}
    <2>. HAVE k = Len(sent)
    <2>1. s = << >> /\ Left = 0
      BY <1>3, <1>4
    <2>. HIDE DEF s
    <2>2. \/ todo = << >>
          \/ /\ Len(todo) = 1 /\ todo[1].kind = "optional" /\ todo[1].width \in Nat \ {0}
      BY <1>2, <1>5, <2>1, AgreeLength DEF s
    <2>3. todo # << >> => Head(todo) = todo[1]
      BY <1>6, SeqFacts
    <2>. QED
      BY <2>1, <2>2, <2>3
  <1>. QED
    BY <1>1, <1>2, <1>4, <1>5, <1>6, <1>7, <1>8

(* A rest goes on for as many elements as were counted.                    *)
LEMMA RestCounted ==
  ASSUME NEW t, NEW s, Loose(s), s # << >>, s[1].kind = "elements", Agree(t, s),
         t[1].kind = "rest", NEW count \in Nat
  PROVE  Agree(t, Counted(s, count))
  <1>1. IsSeq(s) /\ Len(s) \in Nat /\ Len(s) > 0 /\ Head(s) = s[1]
    BY SeqFacts DEF Loose
  <1>2. IsSeq(t) /\ SameItem(t, s, 1) /\ (Len(t) = Len(s) \/ Len(t) = Len(s) + 1)
    BY <1>1, AgreeLength
  <1>3. Len(t) = 1 /\ t[1].of = s[1].of
    BY <1>2 DEF SameItem
  <1>4. Len(s) = 1
    BY <1>1, <1>2, <1>3
  <1>. DEFINE x == Elements(Head(s).of, count)
              b == Tail(s)
              c == <<x>> \o b
  <1>5. Counted(s, count) = c
    BY DEF Counted
  <1>6. IsSeq(b) /\ Len(b) = Len(s) - 1
    BY <1>1, TailSeq
  <1>7. x.kind = "elements" /\ x.of = s[1].of
    BY <1>1 DEF Elements
  <1>. HIDE DEF x, b
  <1>8. IsSeq(c) /\ Len(c) = Len(b) + 1 /\ c[1] = x
    BY <1>6, ConsSeq
  <1>. HIDE DEF c
  <1>9. Len(c) = 1
    BY <1>4, <1>6, <1>8
  <1>10. SameItem(t, c, 1)
    BY <1>2, <1>3, <1>7, <1>8 DEF SameItem
  <1>11. \A i \in 1 .. Len(c) : i = 1
    BY <1>9
  <1>. QED
    BY <1>2, <1>3, <1>5, <1>9, <1>10, <1>11 DEF Agree

(* A pop of just the bytes of the next field keeps the receiver in step if *)
(* it agrees with the sender about what comes behind the field.            *)
LEMMA PopKeepsStep ==
  ASSUME Settled, LockstepInv, buffer = content, NEW k, k = Len(taken), k < Len(sent),
         NEW size, size = Len(sent[k + 1].bytes), NEW items, PopBytes(size, items),
         Head(todo).name = sent[k + 1].name,
         Agree(Continue(items, size = Left), Then(k + 1))
  PROVE  LockstepInv'
  <1>. DEFINE f == sent[k + 1]
              part == SubSeq(buffer, at + 1, at + size)
              g == [name |-> Head(todo).name, bytes |-> part]
  <1>1. k \in 0 .. Len(sent) /\ IsSeq(taken) /\ at = End(k)
    BY Ahead
  <1>2. /\ Len(sent) \in Nat /\ Len(content) \in Nat /\ IsSeq(content) /\ End(k) \in Nat
        /\ IsSeq(f.bytes) /\ Len(f.bytes) \in Nat \ {0}
        /\ End(k + 1) = End(k) + Len(f.bytes) /\ End(k + 1) <= Len(content)
        /\ \A j \in 1 .. Len(f.bytes) : content[End(k) + j] = f.bytes[j]
    BY <1>1, NextField
  <1>3. /\ taken' = Append(taken, g) /\ at' = at + size
        /\ todo' = Continue(items, size = Left)
        /\ message' = message /\ sent' = sent
    BY DEF PopBytes
  <1>4. part = f.bytes
    <2>. HIDE DEF f
    <2>. DEFINE m == at + 1
                n == at + size
    <2>1. m \in Nat \ {0} /\ n \in Nat /\ m <= n + 1 /\ n <= Len(content)
      BY <1>1, <1>2, SMTT(30) DEF f
    <2>2. n + 1 - m = size /\ \A i \in 1 .. size : m + i - 1 = End(k) + i
      BY <1>1, <1>2 DEF f
    <2>. HIDE DEF m, n
    <2>. DEFINE p == SubSeq(content, m, n)
    <2>3. /\ IsSeq(p) /\ Len(p) = n + 1 - m
          /\ \A i \in 1 .. n + 1 - m : p[i] = content[m + i - 1]
      <3>1. IsSeq(content)
        BY <1>2
      <3>. QED
        BY ONLY <2>1, <3>1, Part
    <2>4. part = p
      BY DEF m, n
    <2>. HIDE DEF p, part
    <2>5. Len(p) = Len(f.bytes)
      BY <2>2, <2>3 DEF f
    <2>6. \A i \in 1 .. Len(p) : p[i] = f.bytes[i]
      <3>. SUFFICES ASSUME NEW i \in 1 .. Len(p)
                    PROVE  p[i] = f.bytes[i]
        OBVIOUS
      <3>1. p[i] = content[m + i - 1] /\ m + i - 1 = End(k) + i
        BY <2>2, <2>3, <2>5 DEF f
      <3>2. content[End(k) + i] = f.bytes[i]
        BY <1>2, <2>5
      <3>. QED
        BY <3>1, <3>2
    <2>7. p = f.bytes
      BY <1>2, <2>3, <2>5, <2>6, SameSeq
    <2>. QED
      BY <2>4, <2>7
  <1>5. g.name = f.name /\ g.bytes = f.bytes
    BY <1>4
  <1>. HIDE DEF g, f
  <1>6. /\ IsSeq(taken') /\ Len(taken') = k + 1 /\ taken'[k + 1] = g
        /\ \A i \in 1 .. k : taken'[i] = taken[i]
    BY <1>1, <1>3, AppendSeq
  <1>7. \A i \in 1 .. k + 1 : taken'[i].name = sent[i].name /\ taken'[i].bytes = sent[i].bytes
    <2>. SUFFICES ASSUME NEW i \in 1 .. k + 1
                  PROVE  taken'[i].name = sent[i].name /\ taken'[i].bytes = sent[i].bytes
      OBVIOUS
    <2>1. CASE i \in 1 .. k
      BY <1>6, <2>1 DEF LockstepInv
    <2>2. CASE i = k + 1
      BY <1>5, <1>6, <2>2 DEF f
    <2>. QED
      BY <1>1, <2>1, <2>2
  <1>8. at' = End(k + 1)
    BY <1>1, <1>2, <1>3 DEF f
  <1>9. Then(k + 1)' = Then(k + 1) /\ End(k + 1)' = End(k + 1)
    BY <1>3 DEF Then, End
  <1>10. k + 1 <= Len(sent)
    BY <1>1, <1>2
  <1>. QED
    BY <1>3, <1>6, <1>7, <1>8, <1>9, <1>10 DEF LockstepInv

(* A field that ends the bytes ends what there was to push: so both sides  *)
(* know alike whether a loop goes on.                                      *)
LEMMA PopEnds ==
  ASSUME Settled, LockstepInv, buffer = content, NEW k, k = Len(taken), k < Len(sent)
  PROVE  Len(sent[k + 1].bytes) = Left <=> Then(k + 1) = << >>
  <1>1. k \in 0 .. Len(sent) /\ Left = Len(content) - End(k)
    BY Ahead
  <1>2. /\ Len(content) \in Nat /\ End(k) \in Nat /\ Len(sent[k + 1].bytes) \in Nat
        /\ End(k + 1) = End(k) + Len(sent[k + 1].bytes)
    BY <1>1, NextField
  <1>3. End(k + 1) = Len(content) <=> Then(k + 1) = << >>
    BY <1>1, EndOfMessage
  <1>. QED
    BY <1>1, <1>2, <1>3

(* The tail of one item.                                                   *)
LEMMA TailOfOne ==
  ASSUME NEW s, IsSeq(s), Len(s) = 1
  PROVE  s # << >> /\ Tail(s) = << >>
  <1>. DEFINE t == Tail(s)
  <1>1. s # << >>
    BY SeqFacts
  <1>2. IsSeq(t) /\ Len(t) = Len(s) - 1
    BY <1>1, TailSeq
  <1>. HIDE DEF t
  <1>3. Len(t) = 0
    BY <1>2
  <1>4. t = << >>
    BY <1>2, <1>3, SeqFacts
  <1>. QED
    BY <1>1, <1>4 DEF t

(* Who expects nothing agrees with who has nothing to push.                *)
LEMMA AgreeEmpty == Agree(<< >>, << >>)
  <1>. DEFINE e == << >>
  <1>1. IsSeq(e) /\ Len(e) = 0
    BY Empty
  <1>. HIDE DEF e
  <1>2. Agree(e, e)
    BY <1>1 DEF Agree
  <1>. QED
    BY <1>2 DEF e

(* The receiver pops one of the numbers that the sender pushed.            *)
LEMMA PopPlain ==
  ASSUME Settled, LockstepInv, buffer = content, NEW k, k = Len(taken), k < Len(sent),
         Then(k)[1].kind \in {"number", "string"},
         todo[1] = Then(k)[1] \/ todo[1].kind = "optional",
         todo[1].name = Then(k)[1].name,
         NEW size, size = Len(sent[k + 1].bytes), PopBytes(size, Tail(todo))
  PROVE  LockstepInv'
  <1>. DEFINE s == Then(k)
              f == sent[k + 1]
  <1>1. /\ k \in 0 .. Len(sent) /\ IsSeq(todo) /\ Agree(todo, s) /\ Loose(s) /\ IsSeq(s)
        /\ todo # << >> /\ Head(todo) = todo[1]
    BY Ahead
  <1>2. s # << >> /\ Pushed(s, f) /\ Then(k + 1) = f.then
    BY <1>1, NextField
  <1>. HIDE DEF s
  <1>3. f.then = Continue(Tail(s), FALSE) /\ f.name = s[1].name
    BY <1>2 DEF Pushed, s
  <1>4. Agree(Tail(todo), Tail(s)) /\ Loose(Tail(s))
    BY <1>1, <1>2, AgreeTail, LooseTail
  <1>5. (size = Left) \in BOOLEAN /\ ((size = Left) <=> Continue(Tail(s), FALSE) = << >>)
    BY <1>2, <1>3, PopEnds
  <1>6. Agree(Continue(Tail(todo), size = Left), Continue(Tail(s), FALSE))
    BY <1>4, <1>5, ContinueAgree
  <1>7. Head(todo).name = f.name
    BY <1>1, <1>3 DEF s
  <1>8. Agree(Continue(Tail(todo), size = Left), Then(k + 1))
    BY <1>2, <1>3, <1>6
  <1>. QED
    BY <1>7, <1>8, PopKeepsStep

(* The receiver pops a count, and counts on or goes on to the end.         *)
LEMMA PopCounted ==
  ASSUME Settled, LockstepInv, buffer = content, NEW k, k = Len(taken), k < Len(sent),
         Then(k)[1].kind = "count", todo[1].name = Then(k)[1].name,
         NEW size, size = Len(sent[k + 1].bytes), NEW items,
         \/ items = Counted(Tail(todo), sent[k + 1].bytes[1].value)
         \/ items = Tail(todo) /\ Tail(todo)[1].kind = "rest",
         PopBytes(size, items)
  PROVE  LockstepInv'
  <1>. DEFINE s == Then(k)
              f == sent[k + 1]
              c == f.bytes[1].value
              u == Counted(Tail(s), c)
  <1>1. /\ k \in 0 .. Len(sent) /\ IsSeq(todo) /\ Agree(todo, s) /\ Loose(s) /\ IsSeq(s)
        /\ todo # << >> /\ Head(todo) = todo[1]
    BY Ahead
  <1>2. s # << >> /\ Pushed(s, f) /\ Then(k + 1) = f.then
    BY <1>1, NextField
  <1>. HIDE DEF s
  <1>3. f.then = Continue(u, FALSE) /\ f.name = s[1].name /\ c \in Nat
    BY <1>2 DEF Pushed, s
  <1>4. Agree(Tail(todo), Tail(s)) /\ Loose(Tail(s))
    BY <1>1, <1>2, AgreeTail, LooseTail
  <1>5. Tail(s) # << >> /\ Tail(s)[1].kind = "elements"
    <2>1. Len(s) \in Nat /\ 1 \in 1 .. Len(s)
      BY <1>1, <1>2, SeqFacts
    <2>2. 1 < Len(s) /\ s[2].kind = "elements"
      BY <1>1, <2>1 DEF Loose, s
    <2>. QED
      BY <1>1, <2>1, <2>2, TailFirst
  <1>6. Loose(u) /\ (\A t : Agree(t, Tail(s)) => Agree(Counted(t, c), u))
    BY <1>3, <1>4, <1>5, CountedAgree
  <1>7. Agree(items, u)
    <2>1. CASE items = Counted(Tail(todo), c)
      BY <1>4, <1>6, <2>1
    <2>2. CASE items = Tail(todo) /\ Tail(todo)[1].kind = "rest"
      BY <1>3, <1>4, <1>5, <2>2, RestCounted
    <2>. QED
      BY <2>1, <2>2
  <1>. HIDE DEF u
  <1>8. (size = Left) \in BOOLEAN /\ ((size = Left) <=> Continue(u, FALSE) = << >>)
    BY <1>2, <1>3, PopEnds
  <1>9. Agree(Continue(items, size = Left), Continue(u, FALSE))
    BY <1>6, <1>7, <1>8, ContinueAgree
  <1>10. Head(todo).name = f.name
    BY <1>1, <1>3 DEF s
  <1>11. Agree(Continue(items, size = Left), Then(k + 1))
    BY <1>2, <1>3, <1>9
  <1>. QED
    BY <1>10, <1>11, PopKeepsStep

(* Every pop keeps the receiver in step with the sender.                   *)
LEMMA PopStep ==
  ASSUME Settled, LockstepInv, buffer = content,
         PopNumber \/ PopString \/ PopCount \/ PopOptional \/ SkipOptional
  PROVE  LockstepInv'
  <1>1. PICK k : k = Len(taken)
    OBVIOUS
  <1>. DEFINE s == Then(k)
              f == sent[k + 1]
  <1>2. /\ k \in 0 .. Len(sent) /\ at = End(k) /\ IsSeq(todo)
        /\ Left \in Nat /\ Left = Len(content) - End(k)
        /\ Agree(todo, s) /\ IsSeq(s)
    BY <1>1, Ahead
  <1>3. todo # << >>
    BY DEF PopNumber, PopString, PopCount, PopOptional, SkipOptional, Pops
  <1>4. Head(todo) = todo[1]
    BY <1>2, <1>3, SeqFacts
  <1>5. CASE k = Len(sent)
    <2>1. /\ Left = 0 /\ Len(todo) = 1
          /\ todo[1].kind = "optional" /\ todo[1].width \in Nat \ {0}
      BY <1>1, <1>3, <1>5, Ahead
    <2>2. SkipOptional
      BY <1>4, <2>1 DEF PopNumber, PopString, PopCount, PopOptional, Pops
    <2>3. /\ todo' = Tail(todo) /\ at' = at /\ taken' = taken
          /\ message' = message /\ sent' = sent
      BY <2>2 DEF SkipOptional
    <2>4. Tail(todo) = << >>
      BY <1>2, <2>1, TailOfOne
    <2>5. s = << >>
      BY <1>2, <1>5, NextField
    <2>6. Agree(todo', << >>)
      BY <2>3, <2>4, AgreeEmpty
    <2>7. Then(k)' = s /\ End(k)' = End(k)
      BY <2>3 DEF Then, End
    <2>. QED
      BY <1>1, <2>3, <2>5, <2>6, <2>7 DEF LockstepInv
  <1>6. CASE k < Len(sent)
    <2>1. SameItem(todo, s, 1) /\ IsItem(s[1])
      BY <1>1, <1>6, Ahead
    <2>2. /\ s # << >> /\ Pushed(s, f) /\ Then(k + 1) = f.then
          /\ Len(content) \in Nat /\ End(k) \in Nat /\ Len(f.bytes) \in Nat \ {0}
          /\ content[End(k) + 1] = f.bytes[1]
      <3>1. /\ s # << >> /\ Pushed(s, f) /\ Then(k + 1) = f.then
            /\ Len(content) \in Nat /\ End(k) \in Nat /\ Len(f.bytes) \in Nat \ {0}
            /\ \A j \in 1 .. Len(f.bytes) : content[End(k) + j] = f.bytes[j]
        BY <1>2, <1>6, NextField
      <3>2. 1 \in 1 .. Len(f.bytes)
        BY <3>1
      <3>. QED
        BY <3>1, <3>2
    <2>3. buffer[at + 1].value = f.bytes[1].value
      BY <1>2, <2>2
    <2>4. s[1].kind \in {"number", "string", "count", "elements"}
      BY <2>1 DEF IsItem, IsSimple
    <2>5. /\ s[1].kind \in {"number", "count"} => Len(f.bytes) = s[1].width
          /\ s[1].kind = "string" => Len(f.bytes) = 2 + f.bytes[1].value
          /\ s[1].kind # "elements"
      BY <2>2 DEF Pushed
    <2>. HIDE DEF s, f
    <2>6. CASE PopNumber
      <3>1. todo[1].kind = "number" /\ PopBytes(todo[1].width, Tail(todo))
        BY <1>4, <2>6 DEF PopNumber, Pops
      <3>2. CASE todo[1] = s[1]
        BY <1>1, <1>6, <2>5, <3>1, <3>2, PopPlain DEF s, f
      <3>3. CASE /\ s[1].kind = "count" /\ todo[1].width = s[1].width
                 /\ todo[1].name = s[1].name /\ 1 + 1 = Len(todo)
                 /\ todo[1 + 1].kind = "rest"
        <4>1. Tail(todo)[1].kind = "rest"
          <5>1. 2 = Len(todo)
            BY <3>3
          <5>2. todo[2].kind = "rest"
            BY <3>3
          <5>3. IsSeq(todo)
            BY <1>2
          <5>4. Len(todo) > 1
            BY ONLY <5>1
          <5>5. Tail(todo)[1] = todo[2]
            BY ONLY <5>3, <5>4, TailFirst
          <5>. QED
            BY ONLY <5>2, <5>5
        <4>. QED
          BY <1>1, <1>6, <2>5, <3>1, <3>3, <4>1, PopCounted DEF s, f
      <3>. QED
        BY <2>1, <3>1, <3>2, <3>3 DEF SameItem
    <2>7. CASE PopString
      <3>1. /\ todo[1].kind = "string"
            /\ PopBytes(2 + buffer[at + 1].value, Tail(todo))
        BY <1>4, <2>7 DEF PopString, Pops
      <3>2. todo[1] = s[1]
        BY <2>1, <3>1 DEF SameItem
      <3>. QED
        BY <1>1, <1>6, <2>3, <2>5, <3>1, <3>2, PopPlain DEF s, f
    <2>8. CASE PopCount
      <3>1. /\ todo[1].kind = "count"
            /\ PopBytes(todo[1].width, Counted(Tail(todo), buffer[at + 1].value))
        BY <1>4, <2>8 DEF PopCount, Pops
      <3>2. todo[1] = s[1]
        BY <2>1, <3>1 DEF SameItem
      <3>. QED
        BY <1>1, <1>6, <2>3, <2>5, <3>1, <3>2, PopCounted DEF s, f
    <2>9. ASSUME todo[1].kind = "optional"
          PROVE  /\ s[1].kind = "number" /\ todo[1].width = s[1].width
                 /\ todo[1].name = s[1].name /\ Len(todo) = 1
      BY <2>1, <2>4, <2>9 DEF SameItem
    <2>10. CASE PopOptional
      <3>1. todo[1].kind = "optional" /\ PopBytes(todo[1].width, Tail(todo))
        BY <1>4, <2>10 DEF PopOptional, Pops
      <3>. QED
        BY <1>1, <1>6, <2>5, <2>9, <3>1, PopPlain DEF s, f
    <2>11. CASE SkipOptional
      <3>1. todo[1].kind = "optional" /\ Left # todo[1].width
        BY <1>4, <2>11 DEF SkipOptional, Pops
      <3>2. f.then = Continue(Tail(s), FALSE)
        BY <2>2, <2>9, <3>1 DEF Pushed
      <3>3. Len(s) = 1
        <4>1. Len(todo) = Len(s) \/ Len(todo) = Len(s) + 1
          BY <1>2, AgreeLength DEF s
        <4>2. Len(s) \in Nat /\ Len(s) # 0
          BY <1>2, <2>2, SeqFacts DEF s
        <4>3. Len(todo) = 1
          BY <2>9, <3>1
        <4>. QED
          BY <4>1, <4>2, <4>3
      <3>4. Tail(s) = << >>
        BY <1>2, <3>3, TailOfOne DEF s
      <3>5. f.then = << >>
        BY <3>2, <3>4, ContinueIs, Empty
      <3>6. Len(f.bytes) = Left
        BY <1>1, <1>6, <2>2, <3>5, PopEnds DEF f
      <3>. QED
        BY <2>5, <2>9, <3>1, <3>6
    <2>. QED
      BY <2>6, <2>7, <2>8, <2>10, <2>11
  <1>. QED
    <2>1. Len(sent) \in Nat
      BY <1>2, NextField
    <2>. QED
      BY <1>2, <1>5, <1>6, <2>1

----------------------------------------------------------------------------
(* The invariant holds of the initial state, where no message crosses.     *)
LEMMA InitIInv == Init => IInv
  BY DEF Init, IInv

(* Every step preserves the invariant.                                     *)
LEMMA NextIInv == IInv /\ [Next]_vars => IInv'
  <1>. SUFFICES ASSUME IInv, [Next]_vars
                PROVE  IInv'
    OBVIOUS
  <1>1. ASSUME NEW m \in Message, Begin(m)
        PROVE  IInv'
    <2>1. phase' = "push"
      BY <1>1 DEF Begin
    <2>. QED
      BY <1>1, <2>1, BeginStep DEF IInv
  <1>2. CASE PushNumber \/ PushString \/ PushCount
    <2>1. phase = "push"
      BY <1>2 DEF PushNumber, PushString, PushCount, Pushes
    <2>2. FieldsInv /\ BytesInv /\ PushInv /\ SizeInv
      BY <2>1 DEF IInv
    <2>3. UNCHANGED <<phase, message, taken, at, todo>>
      BY <1>2 DEF PushNumber, PushString, PushCount, Push
    <2>4. FieldsInv' /\ BytesInv' /\ SizeInv'
      BY <1>2, <2>2, PushesKeepRecord, PushKeepsSizes
    <2>5. PushInv'
      BY <2>2, <2>3 DEF PushInv
    <2>. QED
      BY <2>1, <2>3, <2>4, <2>5 DEF IInv
  <1>3. CASE Send
    <2>1. phase = "push" /\ phase' = "sent"
      BY <1>3 DEF Send
    <2>2. FieldsInv /\ BytesInv /\ PushInv /\ SizeInv
      BY <2>1 DEF IInv
    <2>3. UNCHANGED <<message, layout, content, sent, taken, at, todo>>
      BY <1>3 DEF Send
    <2>4. layout = << >> /\ wire' = PushHeader(Len(content)) \o content
      BY <1>3, <2>2, SendStep
    <2>5. FieldsInv' /\ BytesInv' /\ SizeInv'
      BY <2>2, <2>3, NothingPushed
    <2>6. PushInv'
      BY <2>2, <2>3 DEF PushInv
    <2>7. wire' = PushHeader(Len(content')) \o content' /\ layout' = << >>
      BY <2>3, <2>4
    <2>. QED
      BY <2>1, <2>5, <2>6, <2>7 DEF IInv
  <1>4. CASE PopHeader
    <2>1. phase = "sent" /\ phase' = "pop"
      BY <1>4 DEF PopHeader
    <2>2. /\ FieldsInv /\ BytesInv /\ PushInv /\ layout = << >>
          /\ wire = PushHeader(Len(content)) \o content
      BY <2>1 DEF IInv
    <2>3. UNCHANGED <<message, layout, content, sent>>
      BY <1>4 DEF PopHeader
    <2>4. FieldsInv' /\ BytesInv'
      BY <2>2, <2>3, NothingPushed
    <2>5. buffer' = content /\ wire' = << >> /\ LockstepInv'
      BY <1>4, <2>2, PopHeaderStep
    <2>. QED
      BY <2>1, <2>2, <2>3, <2>4, <2>5 DEF IInv
  <1>5. CASE PopNumber \/ PopString \/ PopCount \/ PopOptional \/ SkipOptional
    <2>1. phase = "pop"
      BY <1>5 DEF PopNumber, PopString, PopCount, PopOptional, SkipOptional, Pops
    <2>2. /\ FieldsInv /\ BytesInv /\ layout = << >>
          /\ wire = << >> /\ buffer = content /\ LockstepInv
      BY <2>1 DEF IInv
    <2>3. UNCHANGED <<phase, message, layout, content, wire, buffer, sent>>
      BY <1>5 DEF PopNumber, PopString, PopCount, PopOptional, SkipOptional, PopBytes
    <2>4. FieldsInv' /\ BytesInv'
      BY <2>2, <2>3, NothingPushed
    <2>5. LockstepInv'
      BY <1>5, <2>2, PopStep DEF Settled
    <2>. QED
      BY <2>1, <2>2, <2>3, <2>4, <2>5 DEF IInv
  <1>6. CASE Done
    <2>1. phase' = "idle"
      BY <1>6 DEF Done
    <2>. QED
      BY <2>1 DEF IInv
  <1>7. CASE UNCHANGED vars
    <2>1. UNCHANGED <<phase, message, layout, content, wire, buffer, at, todo, sent, taken>>
      BY <1>7 DEF vars
    <2>2. FieldsInv => FieldsInv'
      BY <2>1, NothingPushed
    <2>3. BytesInv => BytesInv'
      BY <2>1, NothingPushed
    <2>4. SizeInv => SizeInv'
      BY <2>1, NothingPushed
    <2>5. PushInv => PushInv'
      BY <2>1 DEF PushInv
    <2>6. LockstepInv => LockstepInv'
      BY <2>1 DEF LockstepInv, Then, End
    <2>. QED
      BY <2>1, <2>2, <2>3, <2>4, <2>5, <2>6 DEF IInv
  <1>. QED
    BY <1>1, <1>2, <1>3, <1>4, <1>5, <1>6, <1>7 DEF Next

(* A receiver in lockstep understands what it pops.                        *)
LEMMA LockstepUnderstood == IInv => Understood
  <1>. SUFFICES ASSUME IInv, phase = "pop"
                PROVE  /\ Len(taken) <= Len(sent)
                       /\ \A i \in 1 .. Len(taken) :
                             taken[i].name = sent[i].name /\ taken[i].bytes = sent[i].bytes
                       /\ Needed <= Left
                       /\ todo = << >> => Len(taken) = Len(sent) /\ Left = 0 /\ wire = << >>
    BY DEF Understood
  <1>1. Settled /\ LockstepInv /\ buffer = content /\ wire = << >>
    BY DEF IInv, Settled
  <1>2. PICK k : k = Len(taken)
    OBVIOUS
  <1>. DEFINE s == Then(k)
              f == sent[k + 1]
  <1>3. /\ k \in 0 .. Len(sent) /\ at = End(k) /\ Left \in Nat
        /\ Left = Len(content) - End(k) /\ Len(sent) \in Nat
    BY <1>1, <1>2, Ahead, NextField
  <1>4. todo = << >> => k = Len(sent) /\ Left = 0
    <2>1. k < Len(sent) => todo # << >>
      BY <1>1, <1>2, Ahead
    <2>2. k = Len(sent) => Left = 0
      BY <1>1, <1>2, Ahead
    <2>. QED
      BY <1>3, <2>1, <2>2
  <1>5. Needed <= Left
    <2>1. CASE todo = << >>
      BY <1>3, <2>1 DEF Needed
    <2>2. CASE todo # << >> /\ k = Len(sent)
      <3>1. Head(todo).kind = "optional"
        BY <1>1, <1>2, <2>2, Ahead
      <3>. QED
        BY <1>3, <2>2, <3>1 DEF Needed
    <2>3. CASE todo # << >> /\ k < Len(sent)
      <3>1. SameItem(todo, s, 1) /\ IsItem(s[1]) /\ Head(todo) = todo[1]
        BY <1>1, <1>2, <2>3, Ahead
      <3>2. /\ Pushed(s, f) /\ Len(content) \in Nat /\ End(k) \in Nat
            /\ Len(f.bytes) \in Nat \ {0} /\ End(k) + Len(f.bytes) <= Len(content)
            /\ content[End(k) + 1] = f.bytes[1]
        <4>1. /\ Pushed(s, f) /\ Len(content) \in Nat /\ End(k) \in Nat
              /\ Len(f.bytes) \in Nat \ {0} /\ End(k + 1) = End(k) + Len(f.bytes)
              /\ End(k + 1) <= Len(content)
              /\ \A j \in 1 .. Len(f.bytes) : content[End(k) + j] = f.bytes[j]
          BY <1>1, <1>3, <2>3, NextField
        <4>2. 1 \in 1 .. Len(f.bytes)
          BY <4>1
        <4>. QED
          BY <4>1, <4>2
      <3>3. buffer[at + 1].value = f.bytes[1].value /\ Len(f.bytes) <= Left
        BY <1>1, <1>3, <3>2
      <3>. HIDE DEF s, f
      <3>4. CASE todo[1].kind \in {"number", "count"}
        <4>1. todo[1].width = s[1].width /\ s[1].kind \in {"number", "count"}
          BY <3>1, <3>4 DEF SameItem
        <4>2. Len(f.bytes) = s[1].width
          BY <3>2, <4>1 DEF Pushed
        <4>3. Needed = todo[1].width
          BY <2>3, <3>1, <3>4 DEF Needed
        <4>. QED
          BY <3>3, <4>1, <4>2, <4>3
      <3>5. CASE todo[1].kind = "string"
        <4>1. s[1].kind = "string"
          BY <3>1, <3>5 DEF SameItem
        <4>2. f.bytes[1].value \in Nat /\ Len(f.bytes) = 2 + f.bytes[1].value
          BY <3>2, <4>1 DEF Pushed
        <4>3. ~(Left < 2)
          BY <1>3, <3>3, <4>2
        <4>4. Needed = 2 + buffer[at + 1].value
          BY <2>3, <3>1, <3>5, <4>3 DEF Needed
        <4>. QED
          BY <3>3, <4>2, <4>4
      <3>6. CASE todo[1].kind \notin {"number", "count", "string"}
        BY <1>3, <2>3, <3>1, <3>6 DEF Needed
      <3>. QED
        BY <3>4, <3>5, <3>6
    <2>. QED
      BY <1>3, <2>1, <2>2, <2>3
  <1>. QED
    BY <1>1, <1>2, <1>3, <1>4, <1>5 DEF LockstepInv

(* A message that is sent has the header that is subtracted, and its data. *)
LEMMA SentSizes == IInv => SizesAgree
  <1>. SUFFICES ASSUME IInv, phase = "sent"
                PROVE  /\ message \in {"ReadResponse", "ReadInPlaceResponse"} =>
                             Len(wire) = ReadResponseHeaderSize + DataCount
                       /\ message \in {"WriteRequest", "WriteInPlaceRequest"} =>
                             Len(wire) = WriteRequestHeaderSize + DataCount
    BY DEF SizesAgree
  <1>1. /\ BytesInv /\ SizeInv /\ layout = << >>
        /\ wire = PushHeader(Len(content)) \o content
    BY DEF IInv
  <1>2. IsSeq(content) /\ Len(content) \in Nat
    BY <1>1, SeqFacts DEF BytesInv
  <1>3. Len(wire) = 7 + Len(content)
    <2>. DEFINE h == PushHeader(Len(content))
    <2>1. IsSeq(h) /\ Len(h) = 7
      BY <1>2, HeaderSeq DEF HeaderSize
    <2>. HIDE DEF h
    <2>2. Len(h \o content) = Len(h) + Len(content)
      BY <1>2, <2>1, Together
    <2>. QED
      BY <1>1, <2>1, <2>2 DEF h
  <1>4. ReadResponseHeaderSize = 11 /\ WriteRequestHeaderSize = 23
    BY DEF ReadResponseHeaderSize, WriteRequestHeaderSize, HeaderSize
  <1>5. Len(layout) = 0
    BY <1>1, Empty
  <1>6. ASSUME message \in {"ReadResponse", "ReadInPlaceResponse"}
        PROVE  Len(wire) = ReadResponseHeaderSize + DataCount
    <2>1. DataInv(4)
      BY <1>1, <1>5, <1>6 DEF SizeInv, ReadInv, Counting
    <2>2. DataCount \in Nat /\ Len(content) = 4 + DataCount
      BY <1>1, <1>5, <2>1 DEF DataInv, Looping
    <2>. QED
      BY <1>2, <1>3, <1>4, <2>2
  <1>7. ASSUME message \in {"WriteRequest", "WriteInPlaceRequest"}
        PROVE  Len(wire) = WriteRequestHeaderSize + DataCount
    <2>1. DataInv(16)
      BY <1>1, <1>5, <1>7 DEF SizeInv, WriteInv, Counting
    <2>2. DataCount \in Nat /\ Len(content) = 16 + DataCount
      BY <1>1, <1>5, <2>1 DEF DataInv, Looping
    <2>. QED
      BY <1>2, <1>3, <1>4, <2>2
  <1>. QED
    BY <1>6, <1>7

(* The receiver walks in lockstep with the sender: the inductive invariant. *)
THEOREM Invariant == Spec => []IInv
  BY InitIInv, NextIInv, PTL DEF Spec

(* Every message of the client but CreateRequest is understood by a server *)
(* that keeps to the comments, and every reply of such a server by the     *)
(* client: field by field, to the last byte, for strings and lists of any  *)
(* length that the casts to 16 bits allow.                                 *)
THEOREM MessagesUnderstood == Spec => []Understood
  BY Invariant, LockstepUnderstood, PTL

(* The header sizes of reads and writes are right for any amount of data.  *)
THEOREM HeaderSizesAgree == Spec => []SizesAgree
  BY Invariant, SentSizes, PTL

============================================================================
