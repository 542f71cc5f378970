--------------------------- MODULE TransferProofs ---------------------------
(***************************************************************************)
(* The transfer loops for every message size, buffer length and offset.    *)
(* The room of a request may wrap around; what is counted does not, since  *)
(* no request asks for more than what is left.                             *)
(***************************************************************************)
EXTENDS Transfer, TLAPS

(* A value below the modulus is not changed by it.                         *)
LEMMA ModSmall ==
  ASSUME NEW d \in Nat, NEW x \in 0 .. (d - 1)
  PROVE  x % d = x
  OBVIOUS

(* What is left of a natural number, and a remainder, are natural numbers. *)
LEMMA NaturalNumbers ==
  ASSUME NEW a \in Nat, NEW b \in 0 .. a, NEW x \in Int, NEW d \in Nat, d > 0
  PROVE  b \in Nat /\ a - b \in Nat /\ x % d \in Nat
  OBVIOUS

(* No request asks for more than what is left, even if its room wrapped    *)
(* around; it asks for nothing only if a header fills the message.         *)
LEMMA CountBounds ==
  ASSUME TypeOK
  PROVE  /\ Count \in 0 .. unproceeded
         /\ unproceeded > 0 /\ Count = 0 => g_MaximumMessageSize = HeaderSize
  <1> DEFINE room == (g_MaximumMessageSize - HeaderSize) % DWORD
  <1>1. /\ DWORD \in Nat /\ DWORD > 23
        /\ g_MaximumMessageSize \in 0 .. (DWORD - 1) /\ HeaderSize \in {11, 23}
    BY TransferAssumption
       DEF TypeOK, HeaderSize, ReadResponseHeaderSize, WriteRequestHeaderSize
  <1>2. room \in Nat /\ (room = 0 => g_MaximumMessageSize = HeaderSize)
    <2>1. room \in Nat
      BY <1>1
    <2>2. CASE g_MaximumMessageSize >= HeaderSize
      <3>1. g_MaximumMessageSize - HeaderSize \in 0 .. (DWORD - 1)
        BY <1>1, <2>2
      <3> QED  BY <1>1, <3>1, ModSmall
    <2>3. CASE g_MaximumMessageSize < HeaderSize
      <3>1. g_MaximumMessageSize - HeaderSize + DWORD \in 1 .. (DWORD - 1)
        BY <1>1, <2>3
      <3>2. room = g_MaximumMessageSize - HeaderSize + DWORD
        BY <1>1, <3>1
      <3> QED  BY <3>1, <3>2
    <2> QED  BY <1>1, <2>1, <2>2, <2>3
  <1>3. Count = IF unproceeded < room THEN unproceeded ELSE room
    BY DEF Count
  <1>4. unproceeded \in Nat
    BY TransferAssumption DEF TypeOK
  <1> HIDE DEF room
  <1> QED  BY <1>2, <1>3, <1>4

(* The next n bytes after the first p of the buffer lengthen the prefix.   *)
LEMMA PrefixGrows ==
  ASSUME TypeOK, NEW n \in Nat,
         moved = Prefix(proceeded), Moves(n), offset' = offset
  PROVE  moved' = {<<i, offset + i>> : i \in 0 .. ((proceeded + n) - 1)}
  <1>1. proceeded \in Nat /\ offset \in Nat
    BY TransferAssumption DEF TypeOK
  <1>2. {<<proceeded + i, offset + proceeded + i>> : i \in 0 .. (n - 1)}
          = {<<i, offset + i>> : i \in proceeded .. (proceeded + n - 1)}
    <2>1. ASSUME NEW i \in 0 .. (n - 1)
          PROVE  /\ proceeded + i \in proceeded .. (proceeded + n - 1)
                 /\ offset + proceeded + i = offset + (proceeded + i)
      BY <1>1
    <2>2. ASSUME NEW i \in proceeded .. (proceeded + n - 1)
          PROVE  /\ i - proceeded \in 0 .. (n - 1)
                 /\ proceeded + (i - proceeded) = i
                 /\ offset + proceeded + (i - proceeded) = offset + i
      BY <1>1
    <2> QED  BY <2>1, <2>2
  <1>3. 0 .. ((proceeded + n) - 1)
          = (0 .. (proceeded - 1)) \cup (proceeded .. (proceeded + n - 1))
    BY <1>1
  <1> QED  BY <1>2, <1>3 DEF Moves, Prefix

(* There is room for no bytes at all, in whatever state comes next.        *)
LEMMA NoneFits == ASSUME TypeOK' PROVE 0 \in 0 .. Count' /\ proceeded' \in Nat
  <1>1. DWORD \in Nat /\ DWORD > 0
    BY TransferAssumption DEF WriteRequestHeaderSize
  <1>2. g_MaximumMessageSize' \in Int /\ HeaderSize' \in Int
    BY <1>1 DEF TypeOK, HeaderSize, ReadResponseHeaderSize, WriteRequestHeaderSize
  <1>3. /\ length' \in Nat /\ proceeded' \in 0 .. length'
        /\ unproceeded' = length' - proceeded'
    BY <1>1 DEF TypeOK
  <1>4. g_MaximumMessageSize' - HeaderSize' \in Int
    BY <1>2
  <1>5. /\ proceeded' \in Nat /\ unproceeded' \in Nat
        /\ (g_MaximumMessageSize' - HeaderSize') % DWORD \in Nat
    BY <1>1, <1>3, <1>4, NaturalNumbers
  <1> QED  BY <1>5 DEF Count

(* What establishes Contiguous: m bytes were moved that are not counted.   *)
LEMMA ContiguousNext ==
  ASSUME NEW m \in 0 .. Count',
         moved' = {<<i, offset' + i>> : i \in 0 .. ((proceeded' + m) - 1)},
         up' \/ status' = "SUCCESS" => m = 0
  PROVE  Contiguous'
  BY Zenon DEF Contiguous, Prefix

(* The count is exact: m is 0.                                             *)
LEMMA ExactContiguous ==
  ASSUME TypeOK', moved' = {<<i, offset' + i>> : i \in 0 .. (proceeded' - 1)}
  PROVE  Contiguous'
  <1>1. 0 .. (proceeded' - 1) = 0 .. ((proceeded' + 0) - 1)
    BY NoneFits
  <1>2. moved' = {<<i, offset' + i>> : i \in 0 .. ((proceeded' + 0) - 1)}
    BY <1>1, Zenon
  <1> QED  BY <1>2, NoneFits, ContiguousNext

(* The inductive invariant: an append learns its offset before it moves    *)
(* anything, so that the ghost never changes meaning; and requests of no   *)
(* bytes never follow others.                                              *)
AppendFirst == pc = "append" => proceeded = 0 /\ moved = {}
UnaskedFirst ==
    g_MaximumMessageSize = HeaderSize /\ pc \in {"append", "loop"} => proceeded = 0

IInv == TypeOK /\ Contiguous /\ ShortOnlyAtEnd /\ AppendFirst /\ UnaskedFirst

(* Before the first callback nothing was moved.                            *)
LEMMA InitEstablishes == Init => IInv
  <1> SUFFICES ASSUME Init PROVE IInv
    OBVIOUS
  <1>1. TypeOK
    BY TransferAssumption DEF Init, TypeOK, WriteRequestHeaderSize
  <1>2. Contiguous
    <2>1. moved = Prefix(proceeded + 0)
      BY DEF Init, Prefix
    <2>2. 0 \in 0 .. Count
      BY <1>1, CountBounds
    <2> QED  BY <2>1, <2>2 DEF Contiguous
  <1>3. ShortOnlyAtEnd /\ AppendFirst /\ UnaskedFirst
    BY DEF Init, ShortOnlyAtEnd, AppendFirst, UnaskedFirst
  <1> QED  BY <1>1, <1>2, <1>3 DEF IInv

(* ReadFile and WriteFile start with nothing proceeded.                    *)
LEMMA BeginEstablishes ==
  ASSUME IInv, NEW k \in {"read", "write"}, NEW where \in Offsets, NEW bytes \in Lengths,
         Begin(k, where, bytes), pc' \in {"loop", "append"}
  PROVE  IInv'
  <1>1. TypeOK'
    BY TransferAssumption DEF Begin, IInv, TypeOK
  <1>2. Contiguous'
    <2>1. moved' = {<<i, offset' + i>> : i \in 0 .. (proceeded' - 1)}
      BY DEF Begin
    <2> QED  BY <1>1, <2>1, ExactContiguous
  <1> QED  BY <1>1, <1>2 DEF Begin, IInv, ShortOnlyAtEnd, AppendFirst, UnaskedFirst

(* Learning the end of the file changes no place that was used.            *)
LEMMA AppendPreserves == IInv /\ Append => IInv'
  <1> SUFFICES ASSUME IInv, Append PROVE IInv'
    OBVIOUS
  <1>1. TypeOK'
    BY DEF Append, IInv, TypeOK, counts
  <1>2. Contiguous'
    <2>1. moved' = {<<i, offset' + i>> : i \in 0 .. (proceeded' - 1)}
      BY DEF Append, counts, IInv, AppendFirst
    <2> QED  BY <1>1, <2>1, ExactContiguous
  <1>3. HeaderSize' = HeaderSize
    BY DEF Append, HeaderSize
  <1> QED
    BY <1>1, <1>2, <1>3
       DEF Append, counts, IInv, ShortOnlyAtEnd, AppendFirst, UnaskedFirst

(* An answer lengthens the moved part, and the counts with it.             *)
LEMMA AnsweredPreserves ==
  ASSUME IInv, pc = "loop", unproceeded # 0, NEW n \in 0 .. Count, Answered(n),
         round' = 1 - round, UNCHANGED <<g_MaximumMessageSize, call>>
  PROVE  IInv'
  <1>1. /\ offset \in Nat /\ length \in 0 .. (DWORD - 1) /\ proceeded \in 0 .. length
        /\ unproceeded = length - proceeded /\ size \in Nat
        /\ DWORD \in Nat
    BY TransferAssumption DEF IInv, TypeOK
  <1>2. n \in 0 .. unproceeded
    BY <1>1, CountBounds DEF IInv
  <1>3. proceeded' = proceeded + n /\ unproceeded' = unproceeded - n
    <2>1. proceeded + n \in 0 .. (DWORD - 1) /\ unproceeded - n \in 0 .. (DWORD - 1)
      BY <1>1, <1>2
    <2> QED  BY <1>1, <2>1, ModSmall DEF Answered, Proceeds
  <1>4. offset' = offset /\ length' = length /\ HeaderSize' = HeaderSize
    BY DEF call, HeaderSize
  <1>5. TypeOK'
    <2>1. size' \in Nat /\ answer' \in {"bytes", "nothing", "unasked"} /\ up' \in BOOLEAN
      BY <1>1, <1>2 DEF Answered, Moves, Answers, IInv, TypeOK
    <2>2. pc' \in {"loop", "return"} /\ status' = status
      BY DEF Answered
    <2> QED  BY <1>1, <1>2, <1>3, <1>4, <2>1, <2>2 DEF IInv, TypeOK, call
  <1>6. Contiguous'
    <2>1. moved = Prefix(proceeded)
      BY <1>1 DEF Answered, IInv, Contiguous
    <2>2. moved' = {<<i, offset + i>> : i \in 0 .. ((proceeded + n) - 1)}
      BY <1>1, <1>2, <1>4, <2>1, PrefixGrows DEF Answered, IInv
    <2>3. moved' = {<<i, offset' + i>> : i \in 0 .. (proceeded' - 1)}
      <3>1. 0 .. (proceeded' - 1) = 0 .. ((proceeded + n) - 1)
        BY <1>1, <1>2, <1>3
      <3> QED  BY <1>4, <2>2, <3>1, Zenon
    <2> QED  BY <1>5, <2>3, ExactContiguous
  <1>7. ShortOnlyAtEnd'
    <2>1. pc' = "return" => n = 0 /\ answer' \in {"nothing", "unasked"}
      BY DEF Answered, Answers
    <2>2. answer' = "unasked" => Count = 0
      <3>1. Count \in Nat /\ n \in 0 .. Count
        BY <1>1, CountBounds DEF IInv
      <3>2. answer' = "unasked" => ~(n > 0) /\ ~(n = 0 /\ Count > 0)
        BY DEF Answered, Answers
      <3> QED  BY <3>1, <3>2
    <2>3. answer' = "unasked" => g_MaximumMessageSize = HeaderSize
      BY <1>1, <2>2, CountBounds DEF IInv
    <2>4. pc' = "return" /\ answer' = "unasked" => proceeded' = 0
      BY <1>1, <1>3, <2>1, <2>3 DEF IInv, UnaskedFirst
    <2> QED  BY <1>4, <2>1, <2>3, <2>4 DEF ShortOnlyAtEnd
  <1>8. AppendFirst'
    BY DEF Answered, AppendFirst
  <1>9. UnaskedFirst'
    <2>1. g_MaximumMessageSize = HeaderSize => proceeded = 0 /\ n = 0
      <3>1. g_MaximumMessageSize = HeaderSize => Count = 0
        <4>1. HeaderSize \in Nat
          BY DEF HeaderSize, ReadResponseHeaderSize, WriteRequestHeaderSize
        <4>2. (HeaderSize - HeaderSize) % DWORD = 0
          BY <4>1, ModSmall, TransferAssumption DEF WriteRequestHeaderSize
        <4> QED  BY <1>1, <4>2 DEF Count
      <3> QED  BY <1>1, <1>2, <3>1 DEF IInv, UnaskedFirst
    <2> QED  BY <1>1, <1>3, <1>4, <2>1 DEF UnaskedFirst
  <1> QED  BY <1>5, <1>6, <1>7, <1>8, <1>9 DEF IInv

(* A request that fails leaves the counts; with the connection lost it may *)
(* have moved bytes that are not counted.                                  *)
LEMMA FailedPreserves ==
  ASSUME IInv, NEW n \in 0 .. Count, Refused \/ Lost(n),
         round' = 1 - round, UNCHANGED <<g_MaximumMessageSize, call>>
  PROVE  IInv'
  <1>1. /\ pc' = "return" /\ status' = "error" /\ answer' = "error"
        /\ proceeded' = proceeded /\ unproceeded' = unproceeded
        /\ offset' = offset /\ length' = length /\ kind' = kind
        /\ g_MaximumMessageSize' = g_MaximumMessageSize
    BY DEF Refused, Lost, Fails, counts, call
  <1>2. /\ offset \in Nat /\ proceeded \in Nat /\ size \in Nat /\ Count \in Nat
        /\ up \in BOOLEAN
    BY TransferAssumption, CountBounds DEF IInv, TypeOK
  <1>3. TypeOK'
    <2>1. n \in Nat /\ offset + proceeded + n \in Nat
      BY <1>2
    <2>2. size' \in {size, offset + proceeded + n} /\ up' \in {up, FALSE}
      BY DEF Refused, Lost, Moves
    <2>3. size' \in Nat /\ up' \in BOOLEAN
      BY <1>2, <2>1, <2>2
    <2> QED  BY <1>1, <2>3 DEF IInv, TypeOK
  <1>4. Contiguous'
    <2>1. Count' = Count
      BY <1>1 DEF Count, HeaderSize
    <2>2. CASE Refused
      BY <1>1, <2>1, <2>2 DEF Refused, IInv, Contiguous, Prefix
    <2>3. CASE Lost(n)
      <3>1. moved = Prefix(proceeded)
        BY <1>2, <2>3 DEF Lost, IInv, Contiguous
      <3>2. moved' = {<<i, offset + i>> : i \in 0 .. ((proceeded + n) - 1)}
        BY <1>1, <1>2, <2>3, <3>1, PrefixGrows DEF Lost, IInv
      <3>3. ~(up' \/ status' = "SUCCESS")
        BY <1>1, <2>3 DEF Lost
      <3>4. moved' = {<<i, offset' + i>> : i \in 0 .. ((proceeded' + n) - 1)}
        <4>1. offset' = offset /\ 0 .. ((proceeded' + n) - 1) = 0 .. ((proceeded + n) - 1)
          BY <1>1
        <4> QED  BY <3>2, <4>1, Zenon
      <3> QED  BY <2>1, <3>3, <3>4, ContiguousNext
    <2> QED  BY <2>2, <2>3
  <1> QED  BY <1>1, <1>3, <1>4 DEF IInv, ShortOnlyAtEnd, AppendFirst, UnaskedFirst

(* One round of either loop.                                               *)
LEMMA RequestPreserves == IInv /\ Request => IInv'
  <1> SUFFICES ASSUME IInv, Request PROVE IInv'
    OBVIOUS
  <1>1. CASE Refused
    <2>1. 0 \in 0 .. Count
      BY CountBounds DEF IInv
    <2> QED  BY <1>1, <2>1, FailedPreserves DEF Request
  <1>2. ASSUME NEW n \in 0 .. Count, Answered(n) PROVE IInv'
    BY <1>2, AnsweredPreserves DEF Request
  <1>3. ASSUME NEW n \in 0 .. Count, Lost(n) PROVE IInv'
    BY <1>3, FailedPreserves DEF Request
  <1> QED  BY <1>1, <1>2, <1>3 DEF Request, Movable

(* The end of the loop, the return and other clients that resize the file  *)
(* change nothing that the invariant speaks of.                            *)
LEMMA OthersPreserve ==
  ASSUME IInv, Complete \/ Return \/ Resize \/ UNCHANGED vars
  PROVE  IInv'
  <1>1. UNCHANGED <<g_MaximumMessageSize, up, kind, offset, length, proceeded, unproceeded,
                    status, moved, answer, round>>
    BY DEF Complete, Return, Resize, vars, call, counts
  <1>2. TypeOK'
    BY <1>1, TransferAssumption DEF Complete, Return, Resize, vars, IInv, TypeOK
  <1>3. Contiguous'
    <2>1. Count' = Count
      BY <1>1 DEF Count, HeaderSize
    <2> QED  BY <1>1, <2>1 DEF IInv, Contiguous, Prefix
  <1>4. ShortOnlyAtEnd' /\ AppendFirst' /\ UnaskedFirst'
    <2>1. HeaderSize' = HeaderSize
      BY <1>1 DEF HeaderSize
    <2>2. pc' = pc \/ pc' \in {"return", "idle"}
      BY DEF Complete, Return, Resize, vars
    <2>3. pc' = "return" => pc = "return" \/ unproceeded = 0
      BY DEF Complete, Return, Resize, vars
    <2> QED
      BY <1>1, <2>1, <2>2, <2>3 DEF IInv, ShortOnlyAtEnd, AppendFirst, UnaskedFirst, TypeOK
  <1> QED  BY <1>2, <1>3, <1>4 DEF IInv

(* Every step keeps the inductive invariant.                               *)
LEMMA StepPreserves == IInv /\ [Next]_vars => IInv'
  <1> SUFFICES ASSUME IInv, [Next]_vars PROVE IInv'
    OBVIOUS
  <1>1. CASE ReadFile
    BY <1>1, BeginEstablishes DEF ReadFile
  <1>2. CASE WriteFile
    BY <1>2, BeginEstablishes DEF WriteFile
  <1>3. CASE Append \/ Request
    BY <1>3, AppendPreserves, RequestPreserves
  <1>4. CASE Complete \/ Return \/ Resize \/ UNCHANGED vars
    BY <1>4, OthersPreserve
  <1> QED  BY <1>1, <1>2, <1>3, <1>4 DEF Next, Callback

(* The inductive invariant holds in every behaviour.                       *)
THEOREM Inductive == Spec => []IInv
  BY InitEstablishes, StepPreserves, PTL DEF Spec

(* ProceededSize and UnproceededSize stay within the buffer: whatever      *)
(* message size the server replied with, no count of the loops wraps.      *)
THEOREM TypeCorrect == Spec => []TypeOK
  BY Inductive, PTL DEF IInv

(* ReadFile and WriteFile move the first bytes of the buffer, each once    *)
(* and in place, and report their exact number, except that a connection   *)
(* lost in a request may have moved part of that request uncounted.        *)
THEOREM TransferContiguous == Spec => []Contiguous
  BY Inductive, PTL DEF IInv

(* A callback that succeeds with a short count was told "nothing" by the   *)
(* server, or the message size had no room for a byte.                     *)
THEOREM ShortTransfersEnd == Spec => []ShortOnlyAtEnd
  BY Inductive, PTL DEF IInv

=============================================================================
