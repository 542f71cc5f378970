-------------------------- MODULE AttributesProofs --------------------------
(***************************************************************************)
(* The conversions of Attributes lose nothing, for every width, epoch and  *)
(* frequency; so what a caller sets is what a later callback reports.      *)
(***************************************************************************)
EXTENDS Attributes, TLAPS

USE WidthAssumption

----------------------------------------------------------------------------
(* Arithmetic.                                                             *)

(* What division and remainder by a positive number are.                   *)
LEMMA DivMod ==
    ASSUME NEW n \in Nat, NEW d \in Nat \ {0}
    PROVE  /\ n \div d \in Nat /\ n % d \in 0 .. (d - 1)
           /\ n = (n \div d) * d + (n % d)
  BY Z3

(* A 64-bit number is a natural number.                                    *)
LEMMA WordNatural == \A n \in 0 .. (Word - 1) : n \in Nat
  OBVIOUS

(* A number below the modulus is its own remainder.                        *)
LEMMA ModSmall ==
    ASSUME NEW d \in Nat \ {0}, NEW n \in 0 .. (d - 1)
    PROVE  n % d = n
  BY Z3

(* Quotient and remainder are unique.                                      *)
LEMMA DivModUnique ==
    ASSUME NEW d \in Nat \ {0}, NEW q \in Nat, NEW r \in 0 .. (d - 1)
    PROVE  (q * d + r) \div d = q /\ (q * d + r) % d = r
  BY Z3

(* An unsigned subtraction that wraps is undone by the addition.           *)
LEMMA WrapCancels ==
    ASSUME NEW w \in Nat \ {0}, NEW n \in 0 .. (w - 1), NEW k \in 0 .. (w - 1)
    PROVE  /\ (n - k) % w \in 0 .. (w - 1)
           /\ (((n - k) % w) + k) % w = n
  BY Z3

----------------------------------------------------------------------------
(* The conversions.                                                        *)

(* A number of two DWORDs is cut into them and put together again.         *)
LEMMA JoinSplit ==
    ASSUME NEW n \in 0 .. (Word - 1)
    PROVE  Split(n) \in Pair /\ Joined(Split(n)) = n
<1> DEFINE q == n \div DWORD
           r == n % DWORD
<1>1. n \in Nat /\ q \in Nat /\ r \in 0 .. (DWORD - 1) /\ n = q * DWORD + r
  <2>1. n \in Nat
    BY WordNatural
  <2> QED
    BY <2>1, DivMod
<1>2. q \in 0 .. (DWORD - 1)
  <2>1. SUFFICES ASSUME q >= DWORD PROVE FALSE
    BY <1>1
  <2>2. q * DWORD >= DWORD * DWORD
    BY <1>1, <2>1, Z3
  <2> QED
    BY <1>1, <2>2 DEF Word
<1>3. q % DWORD = q
  BY <1>2, ModSmall
<1> QED
  BY <1>1, <1>2, <1>3 DEF Split, Joined, Pair

(* Two DWORDs are put together and cut again.                              *)
LEMMA SplitJoin ==
    ASSUME NEW pair \in Pair
    PROVE  Joined(pair) \in 0 .. (Word - 1) /\ Split(Joined(pair)) = pair
<1> DEFINE h == pair.high
           l == pair.low
<1>1. h \in 0 .. (DWORD - 1) /\ l \in 0 .. (DWORD - 1) /\ pair = [low |-> l, high |-> h]
  BY DEF Pair
<1>2. h * DWORD \in Nat /\ h * DWORD <= (DWORD - 1) * DWORD
  BY <1>1, Z3
<1>3. (DWORD - 1) * DWORD + (DWORD - 1) = Word - 1
  BY Z3 DEF Word
<1>4. h * DWORD + l \in 0 .. (Word - 1)
  BY <1>1, <1>2, <1>3
<1>5. (h * DWORD + l) \div DWORD = h /\ (h * DWORD + l) % DWORD = l
  BY <1>1, DivModUnique
<1>6. h % DWORD = h
  BY <1>1, ModSmall
<1> QED
  BY <1>1, <1>4, <1>5, <1>6 DEF Split, Joined

(* FromFileTime followed by ToFileTime is the identity on all FILETIMEs:   *)
(* the wrap of a time before 1970 is undone.                               *)
THEOREM FileTimeRoundTrip ==
    \A pair \in Pair :
        /\ FromFileTime(pair) \in Time
        /\ ToFileTime(FromFileTime(pair)[1], FromFileTime(pair)[2]) = pair
<1> SUFFICES ASSUME NEW pair \in Pair
             PROVE  /\ FromFileTime(pair) \in Time
                    /\ ToFileTime(FromFileTime(pair)[1], FromFileTime(pair)[2]) = pair
  OBVIOUS
<1> DEFINE n == Joined(pair)
           q == n \div Frequency
           r == n % Frequency
<1>1. n \in 0 .. (Word - 1) /\ Split(n) = pair
  BY SplitJoin
<1>2. q \in Nat /\ r \in 0 .. (Frequency - 1) /\ n = q * Frequency + r
  <2>1. n \in Nat
    BY <1>1, WordNatural
  <2> QED
    BY <2>1, DivMod
<1>3. q \in 0 .. (Word - 1)
  <2>1. q <= q * Frequency
    BY <1>2, Z3T(30)
  <2> QED
    BY <1>1, <1>2, <2>1
<1>4. (q - Epoch) % Word \in 0 .. (Word - 1) /\ (((q - Epoch) % Word) + Epoch) % Word = q
  BY <1>3, WrapCancels
<1>5. (r * Unit) \div Unit = r /\ r * Unit \in Nat
  <2>1. r * Unit + 0 = r * Unit /\ r * Unit \in Nat
    BY <1>2, Z3
  <2>2. (r * Unit + 0) \div Unit = r
    BY <1>2, DivModUnique
  <2> QED
    BY <2>1, <2>2
<1>6. n % Word = n
  BY <1>1, ModSmall
<1>7. FromFileTime(pair) = <<(q - Epoch) % Word, r * Unit>>
  BY DEF FromFileTime
<1>8. ToFileTime((q - Epoch) % Word, r * Unit) = Split((q * Frequency + r) % Word)
  BY <1>4, <1>5 DEF ToFileTime
<1> QED
  BY <1>1, <1>2, <1>4, <1>5, <1>6, <1>7, <1>8 DEF Time

(* A time of the server between 1601 and the last FILETIME, before 1970    *)
(* included, is shown as the right one, and setting what was shown gives   *)
(* it back to the last unit.  seconds is the signed number, its remainder  *)
(* the one that is sent.                                                   *)
THEOREM ServerTimeRoundTrip ==
    ASSUME NEW seconds \in Int, NEW nanoseconds \in 0 .. (Frequency * Unit - 1),
           -Epoch <= seconds, seconds < Word,
           (seconds + Epoch) * Frequency + Frequency <= Word
    PROVE  /\ Joined(ToFileTime(seconds % Word, nanoseconds))
                = (seconds + Epoch) * Frequency + (nanoseconds \div Unit)
           /\ FromFileTime(ToFileTime(seconds % Word, nanoseconds))
                = <<seconds % Word, (nanoseconds \div Unit) * Unit>>
<1> DEFINE s == seconds + Epoch
           u == nanoseconds \div Unit
           n == s * Frequency + u
<1>1. s \in Nat /\ s * Frequency \in Nat /\ s <= s * Frequency
  <2>1. s \in Nat
    OBVIOUS
  <2> QED
    BY <2>1, Z3
<1>2. u \in 0 .. (Frequency - 1)
  <2>1. /\ nanoseconds \in Nat /\ u \in Nat /\ nanoseconds % Unit \in Nat
        /\ nanoseconds = u * Unit + (nanoseconds % Unit)
    <3>1. Frequency * Unit \in Nat
      BY Z3
    <3> QED
      BY <3>1, DivMod
  <2>2. SUFFICES ASSUME u >= Frequency PROVE FALSE
    BY <2>1
  <2>3. u * Unit >= Frequency * Unit /\ Frequency * Unit \in Nat /\ u * Unit \in Nat
    BY <2>1, <2>2, Z3
  <2> QED
    BY <2>1, <2>3
<1>3. s \in 0 .. (Word - 1) /\ n \in 0 .. (Word - 1)
  BY <1>1, <1>2
<1>4. s - Epoch = seconds
  OBVIOUS
<1>5. seconds % Word \in 0 .. (Word - 1) /\ ((seconds % Word) + Epoch) % Word = s
  BY <1>3, <1>4, WrapCancels
<1>6. n % Word = n
  BY <1>3, ModSmall
<1>7. ToFileTime(seconds % Word, nanoseconds) = Split(n)
  BY <1>5, <1>6 DEF ToFileTime
<1>8. Joined(Split(n)) = n
  BY <1>3, JoinSplit
<1>9. n \div Frequency = s /\ n % Frequency = u
  BY <1>1, <1>2, DivModUnique
<1> QED
  BY <1>4, <1>7, <1>8, <1>9 DEF FromFileTime

----------------------------------------------------------------------------
(* What the callbacks remember.                                            *)

(* What was set with success and not changed since is what the file holds, *)
(* as GetFileInformation would show it.                                    *)
Remembered ==
    /\ \A time \in told.write : time = ToFileTime(file.write[1], file.write[2])
    /\ \A time \in told.access : time = ToFileTime(file.access[1], file.access[2])
    /\ \A size \in told.size : size = Split(file.size)
    /\ \A readOnly \in told.readOnly : readOnly = ("w" \notin file.permissions)

IInv == TypeOK /\ Remembered /\ InformationAgrees /\ RefusalsReported

(* The conversion of a code never says success for anything but 0.         *)
LEMMA NoRefusalIsSuccess == \A error : error # 0 => ToNtStatus(error) # "SUCCESS"
  BY DEF ToNtStatus

Kept == [type : Types, permissions : SUBSET {"r", "w", "x"},
         size : 0 .. (Word - 1), access : Time, write : Time]

Request == [valid : SUBSET {"Mode", "Size", "AccessTime", "AccessTimeSet", "WriteTime", "WriteTimeSet"},
            permissions : SUBSET {"r", "w", "x"},
            size : 0 .. (Word - 1), access : Time, write : Time]

Told == [access : SUBSET Pair, write : SUBSET Pair, size : SUBSET Pair, readOnly : SUBSET BOOLEAN]

(* A time of the server is a number of seconds and one of nanoseconds.     *)
LEMMA ServerTimesTyped == ServerTimes \subseteq Time
  BY ValueAssumption DEF Time

(* A request of the right type leaves a file of the right type, and each   *)
(* of its parts lands where valid says.                                    *)
LEMMA SetTyped ==
    ASSUME NEW f \in Kept, NEW request \in Request, NEW now \in Time
    PROVE  /\ Set(f, request, now) \in Kept
           /\ Set(f, request, now).type = f.type
           /\ Set(f, request, now).permissions
                = IF "Mode" \in request.valid THEN request.permissions ELSE f.permissions
           /\ Set(f, request, now).size
                = IF "Size" \in request.valid THEN request.size ELSE f.size
           /\ Set(f, request, now).access
                = IF {"AccessTime", "AccessTimeSet"} \subseteq request.valid
                  THEN request.access ELSE f.access
           /\ Set(f, request, now).write
                = IF {"WriteTime", "WriteTimeSet"} \subseteq request.valid THEN request.write
                  ELSE IF "Size" \in request.valid THEN now ELSE f.write
  BY DEF Set, Kept, Request

(* An empty request has the type of a request.                             *)
LEMMA NoRequestTyped == NoRequest \in Request
  BY DEF NoRequest, Request, Time

(* A callback other than GetFileInformation reports nothing that could     *)
(* disagree, and no refusal as a success.                                  *)
LEMMA ReportsHarmless ==
    ASSUME NEW callback, NEW error, Reports(callback, error),
           callback # "GetFileInformation" \/ error # 0
    PROVE  InformationAgrees' /\ RefusalsReported'
  BY NoRefusalIsSuccess DEF Reports, InformationAgrees, RefusalsReported

(* A callback that is refused changes nothing.                             *)
LEMMA RefusalHarmless ==
    ASSUME TypeOK, Remembered, NEW callback, InvalidHandle(callback) \/ Refused(callback)
    PROVE  IInv'
<1>1. UNCHANGED <<file, told>> /\ \E error : error # 0 /\ Reports(callback, error)
  BY ValueAssumption DEF InvalidHandle, Refused, EBADF
<1>2. InformationAgrees' /\ RefusalsReported'
  BY <1>1, ReportsHarmless
<1>3. TypeOK' /\ Remembered'
  BY <1>1 DEF TypeOK, Remembered
<1> QED
  BY <1>2, <1>3 DEF IInv

(* A callback that sets attributes keeps the invariant if its request is   *)
(* typed and what it remembers is what the request sets.                   *)
LEMMA SettingKeeps ==
    ASSUME TypeOK, Remembered, NEW callback, callback # "GetFileInformation",
           NEW request \in Request, NEW remembered \in Told,
           \A now \in Time :
              LET f == Set(file, request, now)
              IN  /\ \A time \in remembered.write : time = ToFileTime(f.write[1], f.write[2])
                  /\ \A time \in remembered.access : time = ToFileTime(f.access[1], f.access[2])
                  /\ \A size \in remembered.size : size = Split(f.size)
                  /\ \A readOnly \in remembered.readOnly : readOnly = ("w" \notin f.permissions),
           SetAttributes(callback, request, remembered)
    PROVE  IInv'
<1>1. CASE InvalidHandle(callback) \/ Refused(callback)
  BY <1>1, RefusalHarmless
<1>2. CASE /\ \E now \in ServerTimes : file' = Set(file, request, now)
           /\ told' = remembered
           /\ Reports(callback, 0)
  <2>1. PICK now \in Time : file' = Set(file, request, now)
    BY <1>2, ServerTimesTyped
  <2>2. file \in Kept
    BY DEF TypeOK, Kept
  <2>3. TypeOK'
    BY <1>2, <2>1, <2>2, SetTyped DEF TypeOK, Kept, Told
  <2>4. Remembered'
    BY <1>2, <2>1 DEF Remembered
  <2>5. InformationAgrees' /\ RefusalsReported'
    BY <1>2, ReportsHarmless
  <2> QED
    BY <2>3, <2>4, <2>5 DEF IInv
<1> QED
  BY <1>1, <1>2 DEF SetAttributes

(* SetFileTime remembers the times that its mask lets through.             *)
LEMMA SetFileTimeKeeps ==
    ASSUME TypeOK, Remembered,
           NEW access \in FileTimes \cup {NoTime}, NEW write \in FileTimes \cup {NoTime},
           SetFileTime(access, write)
    PROVE  IInv'
<1> DEFINE valid == IF write # NoTime THEN {"WriteTime", "WriteTimeSet"}
                    ELSE IF access # NoTime THEN {"AccessTime", "AccessTimeSet"}
                    ELSE {}
           a == IF access = NoTime THEN NoRequest.access ELSE FromFileTime(Split(access))
           w == IF write = NoTime THEN NoRequest.write ELSE FromFileTime(Split(write))
           request == [NoRequest EXCEPT
                         !.valid = valid,
                         !.access = IF access = NoTime THEN @ ELSE FromFileTime(Split(access)),
                         !.write = IF write = NoTime THEN @ ELSE FromFileTime(Split(write))]
           remembered == [told EXCEPT
                            !.access = IF access = NoTime \/ write # NoTime THEN @ ELSE {Split(access)},
                            !.write = IF write = NoTime THEN @ ELSE {Split(write)}]
<1>1. \A time \in FileTimes :
         /\ Split(time) \in Pair
         /\ FromFileTime(Split(time)) \in Time
         /\ ToFileTime(FromFileTime(Split(time))[1], FromFileTime(Split(time))[2]) = Split(time)
  BY ValueAssumption, JoinSplit, FileTimeRoundTrip
<1>2. a \in Time /\ w \in Time
  BY <1>1, NoRequestTyped DEF Request
<1>3. /\ request \in Request /\ request.valid = valid
      /\ request.access = a /\ request.write = w
  BY <1>2, NoRequestTyped DEF Request
<1>4. /\ remembered \in Told
      /\ remembered.access = IF access = NoTime \/ write # NoTime THEN told.access ELSE {Split(access)}
      /\ remembered.write = IF write = NoTime THEN told.write ELSE {Split(write)}
      /\ remembered.size = told.size /\ remembered.readOnly = told.readOnly
  <2>1. told = [told EXCEPT !.access = told.access] /\ told \in Told
    BY DEF TypeOK, Told
  <2>2. \A time \in FileTimes : {Split(time)} \subseteq Pair
    BY <1>1
  <2>3. remembered \in Told
    BY <1>1, <2>1, <2>2 DEF Told
  <2> QED
    BY <2>1, <2>3 DEF Told
<1>5. ASSUME NEW now \in Time
      PROVE  LET f == Set(file, request, now)
             IN  /\ \A time \in remembered.write : time = ToFileTime(f.write[1], f.write[2])
                 /\ \A time \in remembered.access : time = ToFileTime(f.access[1], f.access[2])
                 /\ \A size \in remembered.size : size = Split(f.size)
                 /\ \A readOnly \in remembered.readOnly : readOnly = ("w" \notin f.permissions)
  <2> DEFINE f == Set(file, request, now)
  <2>a. file \in Kept
    BY DEF TypeOK, Kept
  <2> HIDE DEF request, a, w
  <2>1. /\ f.permissions = file.permissions /\ f.size = file.size
        /\ f.access = IF write = NoTime /\ access # NoTime THEN a ELSE file.access
        /\ f.write = IF write # NoTime THEN w ELSE file.write
    BY <1>3, <2>a, SetTyped
  <2> USE DEF a, w
  <2> HIDE DEF f
  <2>2. \A time \in remembered.write : time = ToFileTime(f.write[1], f.write[2])
    BY <1>1, <1>4, <2>1 DEF Remembered
  <2>3. \A time \in remembered.access : time = ToFileTime(f.access[1], f.access[2])
    BY <1>1, <1>4, <2>1 DEF Remembered
  <2>4. \A size \in remembered.size : size = Split(f.size)
    BY <1>4, <2>1 DEF Remembered
  <2>5. \A readOnly \in remembered.readOnly : readOnly = ("w" \notin f.permissions)
    BY <1>4, <2>1 DEF Remembered
  <2> QED
    BY <2>2, <2>3, <2>4, <2>5 DEF f
<1>6. SetAttributes("SetFileTime", request, remembered)
  BY DEF SetFileTime
<1> HIDE DEF request, remembered
<1> QED
  BY <1>3, <1>4, <1>5, <1>6, SettingKeeps

(* SetFileAttributes remembers the one attribute that it sends.            *)
LEMMA SetFileAttributesKeeps ==
    ASSUME TypeOK, Remembered, NEW attributes, SetFileAttributes(attributes)
    PROVE  IInv'
<1> DEFINE permissions == {"r"} \cup (IF "READONLY" \in attributes THEN {} ELSE {"w"})
           request == [NoRequest EXCEPT !.valid = {"Mode"}, !.permissions = permissions]
           readOnlyAsked == "READONLY" \in attributes
           remembered == [told EXCEPT !.readOnly = {readOnlyAsked}]
<1>1. request \in Request /\ request.valid = {"Mode"} /\ request.permissions = permissions
  BY NoRequestTyped DEF Request
<1>2. /\ remembered \in Told /\ remembered.readOnly = {readOnlyAsked}
      /\ remembered.access = told.access /\ remembered.write = told.write
      /\ remembered.size = told.size
  <2>1. readOnlyAsked \in BOOLEAN
    OBVIOUS
  <2> HIDE DEF readOnlyAsked
  <2> QED
    BY <2>1 DEF TypeOK, Told
<1>3. ASSUME NEW now \in Time
      PROVE  LET f == Set(file, request, now)
             IN  /\ \A time \in remembered.write : time = ToFileTime(f.write[1], f.write[2])
                 /\ \A time \in remembered.access : time = ToFileTime(f.access[1], f.access[2])
                 /\ \A size \in remembered.size : size = Split(f.size)
                 /\ \A readOnly \in remembered.readOnly : readOnly = ("w" \notin f.permissions)
  <2> DEFINE f == Set(file, request, now)
  <2>a. file \in Kept
    BY DEF TypeOK, Kept
  <2>2. ("w" \notin permissions) = readOnlyAsked
    OBVIOUS
  <2> HIDE DEF request, permissions, remembered, readOnlyAsked
  <2>1. /\ f.permissions = permissions /\ f.size = file.size
        /\ f.access = file.access /\ f.write = file.write
    BY <1>1, <2>a, SetTyped
  <2> HIDE DEF f
  <2>3. /\ \A time \in remembered.write : time = ToFileTime(f.write[1], f.write[2])
        /\ \A time \in remembered.access : time = ToFileTime(f.access[1], f.access[2])
        /\ \A size \in remembered.size : size = Split(f.size)
    BY <1>2, <2>1 DEF Remembered
  <2>4. \A readOnly \in remembered.readOnly : readOnly = ("w" \notin f.permissions)
    BY <1>2, <2>1, <2>2
  <2> QED
    BY <2>3, <2>4 DEF f
<1>4. SetAttributes("SetFileAttributes", request, remembered)
  BY DEF SetFileAttributes
<1> HIDE DEF request, remembered
<1> QED
  BY <1>1, <1>2, <1>3, <1>4, SettingKeeps

(* The two callbacks about sizes remember the size and no write time.      *)
LEMMA SetSizeKeeps ==
    ASSUME TypeOK, Remembered, NEW callback, callback # "GetFileInformation",
           NEW size \in Sizes, SetSize(callback, size)
    PROVE  IInv'
<1> DEFINE request == [NoRequest EXCEPT !.valid = {"Size"}, !.size = size]
           remembered == [told EXCEPT !.size = {Split(size)}, !.write = {}]
<1>1. size \in 0 .. (Word - 1) /\ Split(size) \in Pair
  BY ValueAssumption, JoinSplit
<1>2. request \in Request /\ request.valid = {"Size"} /\ request.size = size
  BY <1>1, NoRequestTyped DEF Request
<1>3. /\ remembered \in Told /\ remembered.size = {Split(size)} /\ remembered.write = {}
      /\ remembered.access = told.access /\ remembered.readOnly = told.readOnly
  BY <1>1 DEF TypeOK, Told
<1>4. ASSUME NEW now \in Time
      PROVE  LET f == Set(file, request, now)
             IN  /\ \A time \in remembered.write : time = ToFileTime(f.write[1], f.write[2])
                 /\ \A time \in remembered.access : time = ToFileTime(f.access[1], f.access[2])
                 /\ \A s \in remembered.size : s = Split(f.size)
                 /\ \A readOnly \in remembered.readOnly : readOnly = ("w" \notin f.permissions)
  <2> DEFINE f == Set(file, request, now)
  <2>a. file \in Kept
    BY DEF TypeOK, Kept
  <2> HIDE DEF request, remembered
  <2>1. f.permissions = file.permissions /\ f.size = size /\ f.access = file.access
    BY <1>2, <2>a, SetTyped
  <2> HIDE DEF f
  <2> QED
    BY <1>3, <2>1 DEF Remembered, f
<1>5. SetAttributes(callback, request, remembered)
  BY DEF SetSize
<1> HIDE DEF request, remembered
<1> QED
  BY <1>2, <1>3, <1>4, <1>5, SettingKeeps

----------------------------------------------------------------------------
(* The space of a volume, and the size of a file.                          *)

(* A product of sizes that the whole volume's product bounds does not      *)
(* wrap.                                                                   *)
LEMMA ProductFits ==
    ASSUME NEW b \in Nat, NEW n \in Nat, NEW total \in Nat,
           n <= total, b * total < Word
    PROVE  /\ b * n \in Nat /\ b * total \in Nat
           /\ b * n <= b * total
           /\ (b * n) % Word = b * n
<1>1. b * n \in Nat /\ b * total \in Nat
  BY Z3
<1>2. b * n <= b * total
  <2>1. b * total = b * n + b * (total - n) /\ b * (total - n) >= 0
    BY Z3
  <2> QED
    BY <1>1, <2>1
<1>3. b * n \in 0 .. (Word - 1)
  BY <1>1, <1>2
<1> QED
  BY <1>1, <1>2, <1>3, ModSmall

(* The three figures of a volume that fits 64 bits are in order, and what  *)
(* is not free is used.                                                    *)
LEMMA SpaceFits ==
    ASSUME NEW b \in Nat, NEW total \in Nat, NEW free \in Nat, NEW available \in Nat,
           available <= free, free <= total, b * total < Word
    PROVE  LET space == Space(b, total, free, available)
           IN  /\ space.available <= space.free
               /\ space.free + b * (total - free) = space.total
<1> DEFINE space == Space(b, total, free, available)
<1>1. available <= total
  OBVIOUS
<1>2. (b * total) % Word = b * total
  BY ProductFits
<1>3. (b * free) % Word = b * free
  BY ProductFits
<1>4. (b * available) % Word = b * available
  BY <1>1, ProductFits
<1>5. b * available <= b * free
  <2>1. b * free = b * available + b * (free - available) /\ b * (free - available) >= 0
    BY Z3
  <2>2. b * available \in Nat /\ b * free \in Nat /\ b * (free - available) \in Nat
    BY Z3
  <2> QED
    BY <2>1, <2>2
<1>6. b * free + b * (total - free) = b * total
  BY Z3
<1>7. space.available = b * available /\ space.free = b * free /\ space.total = b * total
  BY <1>2, <1>3, <1>4 DEF Space
<1> HIDE DEF space
<1>8. space.available <= space.free /\ space.free + b * (total - free) = space.total
  BY <1>5, <1>6, <1>7
<1> QED
  BY <1>8 DEF space

(* Which callbacks say what: all but GetDiskFreeSpace leave the space      *)
(* alone, and all but those about sizes the size.                          *)
LEMMA WhoAnswers ==
    ASSUME NEW callback, NEW request, NEW remembered,
           SetAttributes(callback, request, remembered)
    PROVE  answer'.callback = callback
  BY DEF SetAttributes, InvalidHandle, Refused, Reports

(* A request without a size in its valid fields leaves the size alone.     *)
LEMMA SizeStays ==
    ASSUME NEW callback, NEW request, NEW remembered, file \in Kept,
           "Size" \notin request.valid,
           SetAttributes(callback, request, remembered)
    PROVE  file'.size = file.size
<1>1. CASE UNCHANGED file
  BY <1>1
<1>2. CASE \E now \in ServerTimes : file' = Set(file, request, now)
  BY <1>2 DEF Set, Kept
<1> QED
  BY <1>1, <1>2 DEF SetAttributes, InvalidHandle, Refused

(* What GetDiskFreeSpace answers is in order.                              *)
LEMMA SpaceOfAnswer == GetDiskFreeSpace => SpaceOrdered'
<1> SUFFICES ASSUME GetDiskFreeSpace, answer'.error = 0, answer'.fits
             PROVE  /\ answer'.space.available <= answer'.space.free
                    /\ answer'.space.free + answer'.used = answer'.space.total
  BY DEF SpaceOrdered
<1>1. ~ Refused("GetDiskFreeSpace")
  BY ValueAssumption DEF Refused, Reports
<1>2. PICK blockSize \in Sizes, total \in Sizes,
           free \in Sizes \cup {0}, available \in Sizes \cup {0} :
              /\ available <= free /\ free <= total
              /\ answer' =
                   [callback |-> "GetDiskFreeSpace", error |-> 0, status |-> ToNtStatus(0),
                    fits |-> blockSize * total < Word, used |-> blockSize * (total - free),
                    space |-> Space(blockSize, total, free, available)]
  BY <1>1 DEF GetDiskFreeSpace
<1>3. blockSize \in Nat /\ total \in Nat /\ free \in Nat /\ available \in Nat
  BY ValueAssumption
<1>4. /\ blockSize * total < Word
      /\ answer'.used = blockSize * (total - free)
      /\ answer'.space = Space(blockSize, total, free, available)
  <2> DEFINE fits == blockSize * total < Word
             used == blockSize * (total - free)
             space == Space(blockSize, total, free, available)
  <2>1. answer' = [callback |-> "GetDiskFreeSpace", error |-> 0, status |-> ToNtStatus(0),
                   fits |-> fits, used |-> used, space |-> space]
    BY <1>2
  <2> HIDE DEF fits, used, space
  <2>2. fits /\ answer'.used = used /\ answer'.space = space
    BY <2>1
  <2> QED
    BY <2>2 DEF fits, used, space
<1>5. LET space == Space(blockSize, total, free, available)
      IN  /\ space.available <= space.free
          /\ space.free + blockSize * (total - free) = space.total
  BY <1>2, <1>3, <1>4, SpaceFits
<1> QED
  BY <1>4, <1>5

(* Every step leaves the space of the latest answer in order.              *)
LEMMA NextSpace == SpaceOrdered /\ [Next]_vars => SpaceOrdered'
<1> SUFFICES ASSUME SpaceOrdered, [Next]_vars PROVE SpaceOrdered'
  OBVIOUS
<1>1. ASSUME NEW access \in FileTimes \cup {NoTime}, NEW write \in FileTimes \cup {NoTime},
             SetFileTime(access, write)
      PROVE  SpaceOrdered'
  <2>1. answer'.callback = "SetFileTime"
    BY <1>1, WhoAnswers DEF SetFileTime
  <2> QED
    BY <2>1 DEF SpaceOrdered
<1>2. ASSUME NEW attributes, SetFileAttributes(attributes) PROVE SpaceOrdered'
  <2>1. answer'.callback = "SetFileAttributes"
    BY <1>2, WhoAnswers DEF SetFileAttributes
  <2> QED
    BY <2>1 DEF SpaceOrdered
<1>3. ASSUME NEW size, SetEndOfFile(size) \/ SetAllocationSize(size) PROVE SpaceOrdered'
  <2>1. answer'.callback \in {"SetEndOfFile", "SetAllocationSize"}
    BY <1>3, WhoAnswers DEF SetEndOfFile, SetAllocationSize, SetSize
  <2> QED
    BY <2>1 DEF SpaceOrdered
<1>4. CASE GetFileInformation \/ FlushFileBuffers
  <2>1. answer'.callback \in {"GetFileInformation", "FlushFileBuffers"}
    BY <1>4 DEF GetFileInformation, FlushFileBuffers, InvalidHandle, Refused, Reports
  <2> QED
    BY <2>1 DEF SpaceOrdered
<1>5. CASE GetDiskFreeSpace
  BY <1>5, SpaceOfAnswer
<1>6. CASE Others
  BY <1>6 DEF Others, NoAnswer, SpaceOrdered
<1>7. CASE UNCHANGED vars
  BY <1>7 DEF vars, SpaceOrdered
<1> QED
  BY <1>1, <1>2, <1>3, <1>4, <1>5, <1>6, <1>7 DEF Next

(* Only the callbacks about sizes, and other clients, change the size.     *)
LEMMA NextContent ==
    TypeOK /\ Next /\ file'.size # file.size =>
        answer'.callback \in {"none", "SetEndOfFile", "SetAllocationSize"}
<1> SUFFICES ASSUME TypeOK, Next, file'.size # file.size
             PROVE  answer'.callback \in {"none", "SetEndOfFile", "SetAllocationSize"}
  OBVIOUS
<1>0. file \in Kept
  BY DEF TypeOK, Kept
<1>1. ASSUME NEW access \in FileTimes \cup {NoTime}, NEW write \in FileTimes \cup {NoTime},
             SetFileTime(access, write)
      PROVE  FALSE
  <2> DEFINE valid == IF write # NoTime THEN {"WriteTime", "WriteTimeSet"}
                      ELSE IF access # NoTime THEN {"AccessTime", "AccessTimeSet"}
                      ELSE {}
             request == [NoRequest EXCEPT
                           !.valid = valid,
                           !.access = IF access = NoTime THEN @ ELSE FromFileTime(Split(access)),
                           !.write = IF write = NoTime THEN @ ELSE FromFileTime(Split(write))]
  <2>1. "Size" \notin request.valid
    <3>1. request.valid = valid
      BY DEF NoRequest
    <3> HIDE DEF request
    <3> QED
      BY <3>1
  <2>2. \E remembered : SetAttributes("SetFileTime", request, remembered)
    BY <1>1 DEF SetFileTime
  <2> HIDE DEF request
  <2> QED
    BY <1>0, <2>1, <2>2, SizeStays
<1>2. ASSUME NEW attributes, SetFileAttributes(attributes) PROVE FALSE
  <2> DEFINE request == [NoRequest EXCEPT
                           !.valid = {"Mode"},
                           !.permissions = {"r"} \cup
                              (IF "READONLY" \in attributes THEN {} ELSE {"w"})]
  <2>1. "Size" \notin request.valid
    BY DEF NoRequest
  <2>2. \E remembered : SetAttributes("SetFileAttributes", request, remembered)
    BY <1>2 DEF SetFileAttributes
  <2> HIDE DEF request
  <2> QED
    BY <1>0, <2>1, <2>2, SizeStays
<1>3. ASSUME NEW size, SetEndOfFile(size) \/ SetAllocationSize(size)
      PROVE  answer'.callback \in {"SetEndOfFile", "SetAllocationSize"}
  BY <1>3, WhoAnswers DEF SetEndOfFile, SetAllocationSize, SetSize
<1>4. CASE GetFileInformation \/ FlushFileBuffers \/ GetDiskFreeSpace
  BY <1>4 DEF GetFileInformation, FlushFileBuffers, GetDiskFreeSpace, InvalidHandle, Refused
<1>5. CASE Others
  BY <1>5 DEF Others, NoAnswer
<1> QED
  BY <1>1, <1>2, <1>3, <1>4, <1>5 DEF Next

----------------------------------------------------------------------------
(* The theorems.                                                           *)

LEMMA InitIInv == Init => IInv
  <1> SUFFICES ASSUME Init PROVE IInv
    OBVIOUS
  <1>1. file \in Kept
    BY ServerTimesTyped, ValueAssumption DEF Init, Kept
  <1>2. TypeOK
    BY <1>1 DEF Init, TypeOK, Kept, NothingTold
  <1>3. Remembered /\ InformationAgrees /\ RefusalsReported
    BY DEF Init, Remembered, InformationAgrees, RefusalsReported, NothingTold, NoAnswer
  <1> QED
    BY <1>2, <1>3 DEF IInv

LEMMA NextIInv == IInv /\ [Next]_vars => IInv'
<1> SUFFICES ASSUME IInv, [Next]_vars PROVE IInv'
  OBVIOUS
<1> USE DEF IInv
<1>1. ASSUME NEW access \in FileTimes \cup {NoTime}, NEW write \in FileTimes \cup {NoTime},
             SetFileTime(access, write)
      PROVE  IInv'
  BY <1>1, SetFileTimeKeeps
<1>2. ASSUME NEW attributes, SetFileAttributes(attributes) PROVE IInv'
  BY <1>2, SetFileAttributesKeeps
<1>3. ASSUME NEW size \in Sizes, SetEndOfFile(size) \/ SetAllocationSize(size) PROVE IInv'
  BY <1>3, SetSizeKeeps DEF SetEndOfFile, SetAllocationSize
<1>4. CASE GetFileInformation
  <2>1. CASE InvalidHandle("GetFileInformation") \/ Refused("GetFileInformation")
    BY <2>1, RefusalHarmless
  <2>2. CASE /\ answer' = [callback |-> "GetFileInformation", error |-> 0,
                           status |-> ToNtStatus(0), information |-> Information]
             /\ UNCHANGED <<file, told>>
    <3>1. TypeOK' /\ Remembered'
      BY <2>2 DEF TypeOK, Remembered
    <3>2. RefusalsReported'
      BY <2>2 DEF RefusalsReported
    <3>3. /\ answer'.information.write = ToFileTime(file.write[1], file.write[2])
          /\ answer'.information.access = ToFileTime(file.access[1], file.access[2])
          /\ answer'.information.size = Split(file.size)
          /\ answer'.information.attributes = ToFileAttributes(file.type, file.permissions)
      BY <2>2 DEF Information
    <3>4. "READONLY" \in ToFileAttributes(file.type, file.permissions) <=> "w" \notin file.permissions
      BY DEF ToFileAttributes
    <3>5. \A readOnly \in told.readOnly :
             readOnly <=> "READONLY" \in ToFileAttributes(file.type, file.permissions)
      BY <3>4 DEF Remembered
    <3>6. InformationAgrees'
      BY <2>2, <3>3, <3>5 DEF InformationAgrees, Remembered
    <3> QED
      BY <3>1, <3>2, <3>6
  <2> QED
    BY <1>4, <2>1, <2>2 DEF GetFileInformation
<1>5. CASE FlushFileBuffers
  <2>1. CASE InvalidHandle("FlushFileBuffers") \/ Refused("FlushFileBuffers")
    BY <2>1, RefusalHarmless
  <2>2. CASE Reports("FlushFileBuffers", 0) /\ UNCHANGED <<file, told>>
    <3>1. TypeOK' /\ Remembered'
      BY <2>2 DEF TypeOK, Remembered
    <3> QED
      BY <2>2, <3>1, ReportsHarmless
  <2> QED
    BY <1>5, <2>1, <2>2 DEF FlushFileBuffers
<1>6. CASE GetDiskFreeSpace
  <2>1. CASE Refused("GetDiskFreeSpace")
    BY <2>1, RefusalHarmless
  <2>2. CASE ~ Refused("GetDiskFreeSpace")
    <3>1. /\ UNCHANGED <<file, told>>
          /\ answer'.callback = "GetDiskFreeSpace" /\ answer'.error = 0
      BY <1>6, <2>2 DEF GetDiskFreeSpace
    <3>2. TypeOK' /\ Remembered'
      BY <3>1 DEF TypeOK, Remembered
    <3> QED
      BY <3>1, <3>2 DEF InformationAgrees, RefusalsReported
  <2> QED
    BY <2>1, <2>2
<1>7. CASE Others
  <2>1. answer' = NoAnswer
    BY <1>7 DEF Others
  <2>2. InformationAgrees' /\ RefusalsReported'
    BY <2>1 DEF InformationAgrees, RefusalsReported, NoAnswer
  <2>3. TypeOK'
    <3>1. Sizes \subseteq 0 .. (Word - 1)
      BY ValueAssumption
    <3>2. CASE \E time \in ServerTimes :
                 file' = [file EXCEPT !.access = time] /\ told' = [told EXCEPT !.access = {}]
      BY <3>2, ServerTimesTyped DEF TypeOK
    <3>3. CASE \E time \in ServerTimes :
                 file' = [file EXCEPT !.write = time] /\ told' = [told EXCEPT !.write = {}]
      BY <3>3, ServerTimesTyped DEF TypeOK
    <3>4. CASE \E size \in Sizes, time \in ServerTimes :
                 /\ file' = [file EXCEPT !.size = size, !.write = time]
                 /\ told' = [told EXCEPT !.size = {}, !.write = {}]
      BY <3>1, <3>4, ServerTimesTyped DEF TypeOK
    <3>5. CASE \E permissions \in {{"r"}, {"r", "w"}, {"r", "w", "x"}} :
                 /\ file' = [file EXCEPT !.permissions = permissions]
                 /\ told' = [told EXCEPT !.readOnly = {}]
      BY <3>5 DEF TypeOK
    <3> QED
      BY <1>7, <3>2, <3>3, <3>4, <3>5 DEF Others
  <2>4. Remembered'
    <3>1. \/ \E time \in ServerTimes :
                file' = [file EXCEPT !.access = time] /\ told' = [told EXCEPT !.access = {}]
          \/ \E time \in ServerTimes :
                file' = [file EXCEPT !.write = time] /\ told' = [told EXCEPT !.write = {}]
          \/ \E size \in Sizes, time \in ServerTimes :
                /\ file' = [file EXCEPT !.size = size, !.write = time]
                /\ told' = [told EXCEPT !.size = {}, !.write = {}]
          \/ \E permissions \in {{"r"}, {"r", "w"}, {"r", "w", "x"}} :
                /\ file' = [file EXCEPT !.permissions = permissions]
                /\ told' = [told EXCEPT !.readOnly = {}]
      BY <1>7 DEF Others
    <3>2. /\ \/ told'.write = {}
             \/ told'.write = told.write /\ file'.write = file.write
          /\ \/ told'.access = {}
             \/ told'.access = told.access /\ file'.access = file.access
          /\ \/ told'.size = {}
             \/ told'.size = told.size /\ file'.size = file.size
          /\ \/ told'.readOnly = {}
             \/ told'.readOnly = told.readOnly /\ file'.permissions = file.permissions
      BY <3>1 DEF TypeOK
    <3> QED
      BY <3>2 DEF Remembered
  <2> QED
    BY <2>2, <2>3, <2>4
<1>8. CASE UNCHANGED vars
  BY <1>8 DEF vars, TypeOK, Remembered, InformationAgrees, RefusalsReported
<1> QED
  BY <1>1, <1>2, <1>3, <1>4, <1>5, <1>6, <1>7, <1>8 DEF Next

LEMMA Inductive == Spec => []IInv
  BY InitIInv, NextIInv, PTL DEF Spec

(* Every conversion stays within its width.                                *)
THEOREM TypeCorrect == Spec => []TypeOK
  BY Inductive, PTL DEF IInv

(* What a caller set, and nobody changed since, is what callers are told,  *)
(* for every width of the numbers, every epoch and every frequency.        *)
THEOREM CallersAgree == Spec => []InformationAgrees
  BY Inductive, PTL DEF IInv

(* No refusal of the server, whatever its code, reaches a caller as a      *)
(* success.                                                                *)
THEOREM RefusalsReach == Spec => []RefusalsReported
  BY Inductive, PTL DEF IInv

(* The space that a caller is told of is in order and adds up, whenever    *)
(* the size of the volume is a number of 64 bits: none of the three        *)
(* products wraps then.                                                    *)
THEOREM SpaceInOrder == Spec => []SpaceOrdered
<1>1. Init => SpaceOrdered
  BY DEF Init, NoAnswer, SpaceOrdered
<1> QED
  BY <1>1, NextSpace, PTL DEF Spec

(* No callback but the two about sizes changes the size of a file.         *)
THEOREM ContentIsKept == Spec => ContentKept
<1>1. TypeOK /\ [Next]_vars =>
         [file'.size # file.size =>
             answer'.callback \in {"none", "SetEndOfFile", "SetAllocationSize"}]_vars
  BY NextContent
<1> QED
  BY <1>1, TypeCorrect, PTL DEF Spec, ContentKept

=============================================================================
