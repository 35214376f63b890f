------------------------- MODULE VideoCapturerProofs -------------------------
(***************************************************************************)
(* What VideoCapturer promises for every file, rate and clock: the picture *)
(* of the time is shown, and a whole file never ends.                      *)
(***************************************************************************)
EXTENDS VideoCapturer, WellFoundedInduction, TLAPS

-----------------------------------------------------------------------------
(* Numbers. *)

LEMMA SetInduction ==
  ASSUME NEW S \in SUBSET Nat, 0 \in S, \A n \in S : n + 1 \in S
  PROVE  S = Nat
<1>1. IsWellFoundedOn(OpToRel(<, Nat), Nat)
  BY NatLessThanWellFounded
<1> DEFINE R == {ss \in Nat \X Nat : ss[1] < ss[2]}
           T == Nat \ S
<1>2. IsWellFoundedOn(R, Nat)
  BY <1>1, Zenon DEF OpToRel
<1> SUFFICES ASSUME T # {} PROVE FALSE
  OBVIOUS
<1>3. \E x \in T : \A y \in T : <<y, x>> \notin R
  <2> HIDE DEF R, T
  <2>1. T \subseteq Nat
    BY DEF T
  <2> QED BY <1>2, <2>1, WFMin
<1>4. PICK x \in T : \A y \in T : ~(y < x)
  BY <1>3
<1>5. x - 1 \in S
  BY <1>4
<1> QED BY <1>5

LEMMA Euclid ==
  ASSUME NEW d \in Nat \ {0}, NEW x \in Nat
  PROVE  x = d * (x \div d) + (x % d) /\ x % d \in 0 .. d - 1 /\ x \div d \in Nat
  BY Z3

LEMMA Multiples ==
  ASSUME NEW d \in Nat \ {0}, NEW a \in Nat, NEW b \in Nat, a < b
  PROVE  d * a + d <= d * b
<1>1. b - a - 1 \in Nat
  OBVIOUS
<1>2. \A k \in Nat : d * k >= 0
  BY Z3
<1>3. d * (b - a - 1) >= 0
  BY <1>1, <1>2
<1>4. d * (b - a - 1) = d * b - d * a - d
  BY Z3
<1> QED BY <1>3, <1>4, Z3

LEMMA DivMonotone ==
  ASSUME NEW d \in Nat \ {0}, NEW x \in Nat, NEW y \in Nat, x <= y
  PROVE  x \div d <= y \div d
<1> DEFINE p == x \div d
           q == y \div d
<1>1. x = d * p + (x % d) /\ x % d \in 0 .. d - 1 /\ p \in Nat
  BY Euclid
<1>2. y = d * q + (y % d) /\ y % d \in 0 .. d - 1 /\ q \in Nat
  BY Euclid
<1> SUFFICES ASSUME q < p PROVE FALSE
  BY <1>1, <1>2
<1> HIDE DEF p, q
<1>3. d * q + d <= d * p
  BY <1>1, <1>2, Multiples
<1>4. d * q \in Int /\ d * p \in Int
  BY <1>1, <1>2
<1> QED BY <1>1, <1>2, <1>3, <1>4

\* A number has one remainder only.
LEMMA OneRemainder ==
  ASSUME NEW d \in Nat \ {0}, NEW a \in Nat, NEW b \in Nat,
         NEW m \in 0 .. d - 1, NEW n \in 0 .. d - 1, d * a + m = d * b + n
  PROVE  m = n
<1>1. d * a \in Int /\ d * b \in Int
  OBVIOUS
<1>2. CASE a < b
  <2>1. d * a + d <= d * b
    BY <1>2, Multiples
  <2> QED BY <1>1, <2>1
<1>3. CASE b < a
  <2>1. d * b + d <= d * a
    BY <1>3, Multiples
  <2> QED BY <1>1, <2>1
<1>4. CASE a = b
  BY <1>1, <1>4
<1> QED BY <1>2, <1>3, <1>4

\* Counting round.
LEMMA NextRemainder ==
  ASSUME NEW d \in Nat \ {0}, NEW x \in Nat
  PROVE  (x + 1) % d = IF (x % d) + 1 = d THEN 0 ELSE (x % d) + 1
<1> DEFINE q == x \div d
           m == x % d
           z == x + 1
<1>1. x = d * q + m /\ m \in 0 .. d - 1 /\ q \in Nat
  BY Euclid
<1>2. z \in Nat
  OBVIOUS
<1>3. z = d * (z \div d) + (z % d) /\ z % d \in 0 .. d - 1 /\ z \div d \in Nat
  BY <1>2, Euclid
<1>4. z = d * q + (m + 1)
  <2> HIDE DEF q, m
  <2>1. d * q \in Int
    BY <1>1
  <2> QED BY <1>1, <2>1
<1>5. CASE m + 1 = d
  <2>1. z = d * (q + 1) + 0
    <3> HIDE DEF q, m, z
    <3>1. d * (q + 1) = d * q + d
      BY <1>1, Z3
    <3>2. d * q \in Int
      BY <1>1
    <3> QED BY <1>1, <1>4, <1>5, <3>1, <3>2
  <2>2. q + 1 \in Nat /\ 0 \in 0 .. d - 1
    BY <1>1
  <2> HIDE DEF q, m, z
  <2>3. z % d = 0
    BY <1>3, <2>1, <2>2, OneRemainder
  <2> QED BY <2>3, <1>5 DEF z, m
<1>6. CASE m + 1 # d
  <2>1. m + 1 \in 0 .. d - 1
    BY <1>1, <1>6
  <2> HIDE DEF q, m, z
  <2>2. z % d = m + 1
    BY <1>1, <1>3, <1>4, <2>1, OneRemainder
  <2> QED BY <2>2, <1>6 DEF z, m
<1> QED BY <1>5, <1>6

\* Time does not go back, nor do frames.
LEMMA FrameAtTyped == ASSUME NEW a \in Nat PROVE FrameAt(a) \in Nat
<1>1. a * FpsNum \in Nat /\ Second * FpsDen \in Nat \ {0}
  BY Y4MAssumption, Z3
<1> QED BY <1>1, Euclid DEF FrameAt

LEMMA FrameAtMonotone ==
  ASSUME NEW a \in Nat, NEW b \in Nat, a <= b
  PROVE  FrameAt(a) <= FrameAt(b)
<1>1. Second * FpsDen \in Nat \ {0}
  BY Y4MAssumption, Z3
<1>2. a * FpsNum \in Nat /\ b * FpsNum \in Nat
  BY Y4MAssumption, Z3
<1>3. a * FpsNum <= b * FpsNum
  <2>1. (b - a) * FpsNum >= 0
    BY Y4MAssumption, Z3
  <2>2. (b - a) * FpsNum = b * FpsNum - a * FpsNum
    BY Y4MAssumption, Z3
  <2> QED BY <1>2, <2>1, <2>2
<1> QED BY <1>1, <1>2, <1>3, DivMonotone DEF FrameAt

-----------------------------------------------------------------------------
(* Where the frames begin. *)

\* The recursive function in Offset exists.
LEMMA BeginsExist ==
  ASSUME NEW h, NEW m \in Nat
  PROVE  \E g : g = [n \in 0 .. m |-> IF n = 0 THEN Start ELSE g[n - 1] + h[n] + Size]
<1> DEFINE Rec(g, k) == g = [n \in 0 .. k |-> IF n = 0 THEN Start ELSE g[n - 1] + h[n] + Size]
           S == {k \in Nat : \E g : Rec(g, k)}
<1>1. 0 \in S
  <2> DEFINE e == [n \in 0 .. 0 |-> Start]
  <2>1. \A n \in 0 .. 0 : n = 0
    OBVIOUS
  <2>2. Rec(e, 0)
    BY <2>1
  <2> HIDE DEF Rec
  <2> QED BY <2>2
<1>2. ASSUME NEW k \in S PROVE k + 1 \in S
  <2>1. k \in Nat
    OBVIOUS
  <2>2. PICK g : Rec(g, k)
    OBVIOUS
  <2> DEFINE f == [n \in 0 .. k + 1 |-> IF n = k + 1 THEN g[k] + h[k + 1] + Size ELSE g[n]]
  <2>3. ASSUME NEW n \in 0 .. k + 1
        PROVE  f[n] = IF n = 0 THEN Start ELSE f[n - 1] + h[n] + Size
    <3>1. f[k + 1] = g[k] + h[k + 1] + Size
      BY <2>1
    <3>2. \A j \in 0 .. k : f[j] = g[j]
      BY <2>1
    <3>3. \A j \in 0 .. k : g[j] = IF j = 0 THEN Start ELSE g[j - 1] + h[j] + Size
      BY <2>2
    <3> HIDE DEF f, S, Rec
    <3>4. CASE n = k + 1
      <4>1. n # 0 /\ n - 1 = k /\ k \in 0 .. k
        BY <2>1, <3>4
      <4>2. f[n - 1] = g[k]
        BY <3>2, <4>1
      <4> QED BY <3>1, <3>4, <4>1, <4>2
    <3>5. CASE n # k + 1
      <4>1. n \in 0 .. k /\ (n # 0 => n - 1 \in 0 .. k)
        BY <2>1, <3>5
      <4>2. f[n] = g[n] /\ (n # 0 => f[n - 1] = g[n - 1])
        BY <3>2, <4>1
      <4>3. g[n] = IF n = 0 THEN Start ELSE g[n - 1] + h[n] + Size
        BY <3>3, <4>1
      <4> QED BY <4>2, <4>3
    <3> QED BY <3>4, <3>5
  <2>4. f = [n \in 0 .. k + 1 |-> f[n]]
    OBVIOUS
  <2>5. Rec(f, k + 1)
    <3> HIDE DEF f
    <3> QED BY <2>3, <2>4, Zenon
  <2> HIDE DEF Rec
  <2> QED BY <2>1, <2>5
<1>3. S \in SUBSET Nat
  OBVIOUS
<1>4. m \in S
  <2> HIDE DEF S
  <2> QED BY <1>1, <1>2, <1>3, SetInduction
<1> QED BY <1>4

\* A file, without its cut: the lengths of its header lines.
LEMMA HeadersTyped ==
  ASSUME file \in Files
  PROVE  /\ Frames \in 0 .. MaxFrames
         /\ \A i \in 0 .. Frames - 1 : file.headers[i + 1] \in Nat \ {0}
         /\ file.cut \in 0 .. Size
<1>1. file.headers \in BoundedSeq(HeaderLengths, MaxFrames) /\ file.cut \in 0 .. Size
  BY Zenon DEF Files
<1>2. PICK m \in 0 .. MaxFrames : file.headers \in [1 .. m -> HeaderLengths]
  BY <1>1, Zenon DEF BoundedSeq, SeqOf
<1>3. m \in Nat /\ Len(file.headers) = m
  BY <1>2, Y4MAssumption
<1>4. ASSUME NEW i \in 0 .. m - 1 PROVE file.headers[i + 1] \in Nat \ {0}
  <2>1. i + 1 \in 1 .. m
    BY <1>3
  <2>2. file.headers[i + 1] \in HeaderLengths
    BY <1>2, <2>1
  <2> QED BY <2>2, Y4MAssumption
<1> QED BY <1>1, <1>2, <1>3, <1>4 DEF Frames

\* One frame begins where the one before it ends.
LEMMA OffsetStep ==
  ASSUME file \in Files
  PROVE  /\ Offset(0) = Start
         /\ \A i \in 0 .. Frames - 1 : Offset(i + 1) = Offset(i) + file.headers[i + 1] + Size
<1> DEFINE Def(g) == g = [n \in 0 .. Frames |-> IF n = 0 THEN Start
                                                ELSE g[n - 1] + file.headers[n] + Size]
           b == CHOOSE g : Def(g)
<1>1. Frames \in Nat
  BY HeadersTyped
<1>2. \E g : Def(g)
  BY <1>1, BeginsExist, Zenon
<1>3. Def(b)
  <2> HIDE DEF Def
  <2> QED BY <1>2
<1>4. \A i : Offset(i) = b[i]
  BY Zenon DEF Offset
<1> HIDE DEF b
<1>5. \A n \in 0 .. Frames : b[n] = IF n = 0 THEN Start ELSE b[n - 1] + file.headers[n] + Size
  BY <1>3, Zenon
<1> HIDE DEF Def
<1>6. Offset(0) = Start
  <2>1. 0 \in 0 .. Frames
    BY <1>1
  <2> QED BY <1>4, <1>5, <2>1, Zenon
<1>7. ASSUME NEW i \in 0 .. Frames - 1
      PROVE  Offset(i + 1) = Offset(i) + file.headers[i + 1] + Size
  <2> DEFINE n == i + 1
  <2>1. n \in 0 .. Frames /\ n # 0 /\ n - 1 = i
    BY <1>1
  <2> HIDE DEF n
  <2>2. b[n] = b[i] + file.headers[n] + Size
    BY <1>5, <2>1
  <2> QED BY <1>4, <2>2, Zenon DEF n
<1> QED BY <1>6, <1>7

LEMMA OffsetTyped == ASSUME file \in Files PROVE \A i \in 0 .. Frames : Offset(i) \in Nat
<1> DEFINE S == {i \in Nat : i <= Frames => Offset(i) \in Nat}
<1>1. Frames \in Nat /\ \A i \in 0 .. Frames - 1 : file.headers[i + 1] \in Nat
  BY HeadersTyped
<1>2. 0 \in S
  BY OffsetStep, Y4MAssumption
<1>3. ASSUME NEW i \in S PROVE i + 1 \in S
  <2> SUFFICES ASSUME i + 1 <= Frames PROVE Offset(i + 1) \in Nat
    OBVIOUS
  <2>1. i \in 0 .. Frames - 1 /\ Offset(i) \in Nat
    BY <1>1
  <2>2. Offset(i + 1) = Offset(i) + file.headers[i + 1] + Size
    BY <2>1, OffsetStep
  <2> QED BY <1>1, <2>1, <2>2, Y4MAssumption
<1>4. S \in SUBSET Nat
  OBVIOUS
<1>5. S = Nat
  <2> HIDE DEF S
  <2> QED BY <1>2, <1>3, <1>4, SetInduction
<1> QED BY <1>1, <1>5

\* A frame ends before any later one begins.
LEMMA OffsetMonotone ==
  ASSUME file \in Files, NEW i \in 0 .. Frames - 1, NEW j \in 0 .. Frames, i < j
  PROVE  Offset(i) + file.headers[i + 1] + Size <= Offset(j)
<1> DEFINE S == {k \in Nat : i + 1 + k <= Frames => Offset(i + 1) <= Offset(i + 1 + k)}
<1>1. Frames \in Nat /\ \A k \in 0 .. Frames - 1 : file.headers[k + 1] \in Nat
  BY HeadersTyped
<1>2. 0 \in S
  <2>1. i + 1 \in 0 .. Frames /\ i + 1 + 0 = i + 1
    BY <1>1
  <2>2. Offset(i + 1) \in Nat
    BY <2>1, OffsetTyped
  <2> QED BY <2>1, <2>2
<1>3. ASSUME NEW k \in S PROVE k + 1 \in S
  <2> SUFFICES ASSUME i + 1 + (k + 1) <= Frames PROVE Offset(i + 1) <= Offset(i + 1 + (k + 1))
    OBVIOUS
  <2> DEFINE l == i + 1 + k
  <2>1. l \in 0 .. Frames - 1 /\ l \in 0 .. Frames /\ l + 1 = i + 1 + (k + 1)
        /\ i + 1 \in 0 .. Frames
    BY <1>1
  <2>2. Offset(i + 1) <= Offset(l)
    BY <2>1
  <2> HIDE DEF l, S
  <2>3. Offset(l + 1) = Offset(l) + file.headers[l + 1] + Size
    BY <2>1, OffsetStep
  <2>4. Offset(l) \in Nat /\ Offset(i + 1) \in Nat /\ file.headers[l + 1] \in Nat
    BY <1>1, <2>1, OffsetTyped
  <2>5. Offset(i + 1) <= Offset(l + 1)
    BY <2>2, <2>3, <2>4, Y4MAssumption
  <2> QED BY <2>1, <2>5
<1>4. S \in SUBSET Nat
  OBVIOUS
<1>5. S = Nat
  <2> HIDE DEF S
  <2> QED BY <1>2, <1>3, <1>4, SetInduction
<1>6. j - (i + 1) \in Nat /\ i + 1 + (j - (i + 1)) = j
  BY <1>1
<1>7. Offset(i + 1) <= Offset(j)
  <2>1. j - (i + 1) \in S
    BY <1>5, <1>6
  <2> QED BY <1>6, <2>1
<1> QED BY <1>7, OffsetStep

\* A frame that is not the last ends before the file does, whatever is cut of it, and the
\* last one ends with the file exactly if nothing is cut.
LEMMA FileSizeBounds ==
  ASSUME file \in Files
  PROVE  /\ FileSize \in Nat /\ Start <= FileSize
         /\ \A i \in 0 .. Frames - 1 :
              /\ Offset(i) \in Nat /\ Offset(i) <= FileSize
              /\ i + 1 < Frames => Offset(i) + FrameLength(i) < FileSize
              /\ i + 1 = Frames => Offset(i) + FrameLength(i) = FileSize + file.cut
              /\ Offset(i) + file.headers[i + 1] <= FileSize
<1>1. /\ Frames \in Nat /\ file.cut \in 0 .. Size
      /\ \A i \in 0 .. Frames - 1 : file.headers[i + 1] \in Nat \ {0}
  BY HeadersTyped
<1>2. CASE Frames = 0
  BY <1>2, Y4MAssumption DEF FileSize
<1>3. CASE Frames # 0
  <2> DEFINE last == Frames - 1
  <2>1. last \in 0 .. Frames - 1 /\ last \in 0 .. Frames /\ last + 1 = Frames
    BY <1>1, <1>3
  <2>2. Offset(Frames) = Offset(last) + file.headers[last + 1] + Size
    BY <2>1, OffsetStep, Zenon
  <2>3. Offset(last) \in Nat /\ file.headers[last + 1] \in Nat \ {0}
    BY <1>1, <2>1, OffsetTyped
  <2>4. FileSize = Offset(Frames) - file.cut
    BY <1>3 DEF FileSize
  <2>5. /\ FileSize \in Nat
        /\ Offset(last) < FileSize
        /\ Offset(last) + file.headers[last + 1] <= FileSize
        /\ Offset(last) + file.headers[last + 1] + Size = FileSize + file.cut
    BY <1>1, <2>2, <2>3, <2>4, Y4MAssumption
  <2>6. ASSUME NEW i \in 0 .. Frames - 1, i # last
        PROVE  /\ Offset(i) \in Nat /\ file.headers[i + 1] \in Nat \ {0} /\ i + 1 < Frames
               /\ Offset(i) + file.headers[i + 1] + Size <= Offset(last)
    <3>1. i < last /\ i \in 0 .. Frames
      BY <1>1, <2>6
    <3> QED BY <1>1, <2>1, <3>1, OffsetMonotone, OffsetTyped
  <2>7. Start <= Offset(last)
    <3>1. CASE last = 0
      BY <3>1, OffsetStep, Y4MAssumption
    <3>2. CASE last # 0
      <4>1. 0 \in 0 .. Frames - 1 /\ 0 # last
        BY <1>1, <1>3, <3>2
      <4>2. Offset(0) + file.headers[0 + 1] + Size <= Offset(last) /\ file.headers[0 + 1] \in Nat
        BY <2>6, <4>1
      <4> QED BY <2>3, <4>2, OffsetStep, Y4MAssumption
    <3> QED BY <3>1, <3>2
  <2> HIDE DEF last
  <2>8. ASSUME NEW i \in 0 .. Frames - 1
        PROVE  /\ Offset(i) \in Nat /\ Offset(i) <= FileSize
               /\ i + 1 < Frames => Offset(i) + FrameLength(i) < FileSize
               /\ i + 1 = Frames => Offset(i) + FrameLength(i) = FileSize + file.cut
               /\ Offset(i) + file.headers[i + 1] <= FileSize
    <3>1. CASE i = last
      <4>1. FrameLength(i) = file.headers[last + 1] + Size
        BY <3>1 DEF FrameLength
      <4> QED BY <2>1, <2>3, <2>5, <3>1, <4>1, Y4MAssumption
    <3>2. CASE i # last
      <4>1. FrameLength(i) = file.headers[i + 1] + Size
        BY DEF FrameLength
      <4> QED BY <2>3, <2>5, <2>6, <3>2, <4>1, Y4MAssumption
    <3> QED BY <3>1, <3>2
  <2> QED BY <2>3, <2>5, <2>7, <2>8, Y4MAssumption
<1> QED BY <1>2, <1>3

\* No two frames begin at the same place.
LEMMA OneFrameBegins ==
  ASSUME file \in Files, NEW i \in 0 .. Frames - 1, NEW j \in 0 .. Frames - 1,
         Offset(i) = Offset(j)
  PROVE  i = j
<1>1. /\ Frames \in Nat
      /\ file.headers[i + 1] \in Nat \ {0} /\ file.headers[j + 1] \in Nat \ {0}
      /\ Offset(i) \in Nat /\ Offset(j) \in Nat /\ i \in 0 .. Frames /\ j \in 0 .. Frames
  BY HeadersTyped, OffsetTyped
<1>2. CASE i < j
  <2>1. Offset(i) + file.headers[i + 1] + Size <= Offset(j)
    BY <1>1, <1>2, OffsetMonotone
  <2> QED BY <1>1, <2>1, Y4MAssumption
<1>3. CASE j < i
  <2>1. Offset(j) + file.headers[j + 1] + Size <= Offset(i)
    BY <1>1, <1>3, OffsetMonotone
  <2> QED BY <1>1, <2>1, Y4MAssumption
<1> QED BY <1>1, <1>2, <1>3

-----------------------------------------------------------------------------
(* Playing. *)

\* The frame of the file that is next.
Slot == frame % (IF Frames = 0 THEN 1 ELSE Frames)

\* A file that is open and has not failed stands at the frame that is next.
AtNext == ReadHeader /\ pos = ftell /\ pos = Offset(Slot)

\* The picture is that of the last frame that was asked for.
ShowsLast ==
  /\ prevFrame = frame - 1
  /\ prevFrame # -1 => Frames > 0 /\ picture = prevFrame % Frames

\* A picture is asked for by the clock, and the clock stands still meanwhile.
OnTime ==
  /\ capture = "reading" <=> reading = "reading"
  /\ reading = "reading" => frame <= target /\ target = FrameAt(now)
  /\ reading = "idle" => prevFrame <= FrameAt(now)
  /\ videoType = "Y4MFile" /\ capture = "capturing" => reading = "idle" /\ prevFrame = FrameAt(now)

WholeFile == ReadHeader /\ Frames > 0 /\ file.cut = 0

IInv ==
  /\ CaptureTypeOK
  /\ reading = "closed" => frame = 0 /\ prevFrame = -1
  /\ reading \in {"idle", "reading"} => AtNext
  /\ reading = "idle" => ShowsLast
  /\ OnTime
  /\ WholeFile => reading # "failed"

LEMMA InitHolds == CaptureInit => IInv
<1> SUFFICES ASSUME CaptureInit PROVE IInv
  OBVIOUS
<1>1. file \in Files
  BY DEF CaptureInit, Y4MInit
<1>2. FileSize \in Nat
  BY <1>1, FileSizeBounds
<1>3. 0 \in 0 .. FileSize /\ 0 \in 0 .. MaxTime
  BY <1>2, CapturerAssumption
<1>4. Y4MTypeOK
  BY <1>1, <1>3 DEF CaptureInit, Y4MInit, Y4MTypeOK
<1>5. CaptureTypeOK
  BY <1>3, <1>4 DEF CaptureInit, CaptureTypeOK
<1> QED BY <1>5 DEF CaptureInit, Y4MInit, IInv, OnTime

\* The frame that is next is in the file, unless the file has none.
LEMMA SlotTyped ==
  ASSUME Y4MTypeOK
  PROVE  /\ Frames = 0 => Slot = 0
         /\ Frames # 0 => Slot = frame % Frames /\ Slot \in 0 .. Frames - 1
<1>1. file \in Files /\ frame \in Nat
  BY DEF Y4MTypeOK
<1>2. Frames \in Nat
  BY <1>1, HeadersTyped
<1>3. CASE Frames = 0
  <2>1. frame % 1 \in 0 .. 1 - 1
    BY <1>1, Euclid
  <2> QED BY <1>3, <2>1 DEF Slot
<1>4. CASE Frames # 0
  <2> DEFINE d == Frames
  <2>1. d \in Nat \ {0}
    BY <1>2, <1>4
  <2> HIDE DEF d
  <2>2. frame % d \in 0 .. d - 1
    BY <1>1, <2>1, Euclid
  <2> QED BY <1>4, <2>2 DEF Slot, d
<1> QED BY <1>3, <1>4

\* To pass a frame is to pass the one that is next, and to stand at the one after it.
LEMMA PassesNext ==
  ASSUME Y4MTypeOK, AtNext, UNCHANGED file, frame' = frame + 1,
         NEW i \in ReadFrameHeader, PassesFrame(i)
  PROVE  /\ Frames > 0 /\ i = frame % Frames
         /\ AtNext' /\ pos' \in 0 .. FileSize'
<1>1. file \in Files /\ frame \in Nat /\ Frames \in Nat
  BY HeadersTyped DEF Y4MTypeOK
<1>2. i \in 0 .. Frames - 1 /\ Offset(i) = ftell
  BY DEF ReadFrameHeader
<1>3. Frames # 0 /\ Frames > 0
  BY <1>1, <1>2
<1>4. Slot = frame % Frames /\ Slot \in 0 .. Frames - 1
  BY <1>3, SlotTyped
<1>5. i = Slot
  BY <1>1, <1>2, <1>4, OneFrameBegins DEF AtNext
<1>6. Frames' = Frames /\ FileSize' = FileSize /\ Offset(Slot)' = Offset(Slot')
  <2>1. Frames' = Frames
    BY DEF Frames
  <2>2. ASSUME NEW n PROVE Offset(n)' = Offset(n)
    BY <2>1, SMT DEF Offset
  <2>3. FileSize' = FileSize
    BY <2>1, <2>2, Zenon DEF FileSize
  <2>4. Offset(Slot)' = Offset(Slot')
    BY <2>1, SMT DEF Offset
  <2> QED BY <2>1, <2>3, <2>4
<1>7. Slot' = IF i + 1 = Frames THEN 0 ELSE i + 1
  <2> DEFINE d == Frames
  <2>1. d \in Nat \ {0}
    BY <1>1, <1>3
  <2> HIDE DEF d
  <2>2. (frame + 1) % d = IF (frame % d) + 1 = d THEN 0 ELSE (frame % d) + 1
    BY <1>1, <2>1, NextRemainder
  <2>3. Slot' = (frame + 1) % Frames
    BY <1>3, <1>6 DEF Slot
  <2> QED BY <1>4, <1>5, <2>2, <2>3 DEF d
<1>8. Offset(i) + FrameLength(i) <= FileSize /\ Rewinds(i) /\ pos = Offset(i)
  BY <1>2 DEF PassesFrame, AtNext
<1>9. /\ FileSize \in Nat /\ Start <= FileSize /\ Offset(i) \in Nat /\ file.cut \in 0 .. Size
      /\ i + 1 < Frames => Offset(i) + FrameLength(i) < FileSize
      /\ i + 1 = Frames => Offset(i) + FrameLength(i) = FileSize + file.cut
      /\ FrameLength(i) \in Nat
  BY <1>1, <1>2, FileSizeBounds, HeadersTyped, Y4MAssumption DEF FrameLength
<1>10. Offset(i + 1) = Offset(i) + FrameLength(i) /\ Offset(0) = Start
  <2>1. Offset(i + 1) = Offset(i) + file.headers[i + 1] + Size
    BY <1>1, <1>2, OffsetStep
  <2>2. file.headers[i + 1] \in Nat
    BY <1>1, <1>2, HeadersTyped
  <2> QED BY <1>1, <1>9, <2>1, <2>2, OffsetStep, Y4MAssumption DEF FrameLength
<1>11. CASE i + 1 = Frames
  <2>1. pos + FrameLength(i) = FileSize
    BY <1>8, <1>9, <1>11
  <2>2. ftell' = Start /\ pos' = Start
    BY <1>8, <2>1 DEF Rewinds
  <2>3. pos' = Offset(Slot)'
    BY <1>6, <1>7, <1>10, <1>11, <2>2
  <2> QED BY <1>3, <1>4, <1>5, <1>6, <1>9, <2>2, <2>3, Y4MAssumption DEF AtNext, ReadHeader
<1>12. CASE i + 1 # Frames
  <2>1. pos + FrameLength(i) # FileSize
    BY <1>1, <1>2, <1>8, <1>9, <1>12
  <2>2. pos' = Offset(i) + FrameLength(i) /\ ftell' = pos'
    BY <1>2, <1>8, <2>1 DEF Rewinds, AtNext
  <2>3. pos' = Offset(Slot)'
    BY <1>6, <1>7, <1>10, <1>12, <2>2
  <2> QED BY <1>3, <1>4, <1>5, <1>6, <1>8, <1>9, <2>2, <2>3 DEF AtNext, ReadHeader
<1> QED BY <1>11, <1>12

\* The file and what is left alone.
LEMMA FileKept ==
  ASSUME UNCHANGED file
  PROVE  Frames' = Frames /\ FileSize' = FileSize /\ WholeFile' = WholeFile /\ ReadHeader' = ReadHeader
<1>1. Frames' = Frames
  BY DEF Frames
<1>2. Offset(Frames)' = Offset(Frames)
  BY <1>1, SMT DEF Offset
<1>3. FileSize' = FileSize
  BY <1>1, <1>2, Zenon DEF FileSize
<1>4. ReadHeader' = ReadHeader
  BY DEF ReadHeader
<1>5. WholeFile' = WholeFile
  BY <1>1, <1>4 DEF WholeFile
<1> QED BY <1>1, <1>3, <1>4, <1>5

LEMMA AtNextKept == ASSUME AtNext, UNCHANGED <<file, pos, ftell, frame>> PROVE AtNext'
<1>1. Frames' = Frames /\ ReadHeader' = ReadHeader
  BY FileKept
<1>2. Slot' = Slot
  BY <1>1 DEF Slot
<1>3. Offset(Slot)' = Offset(Slot)
  BY <1>1, <1>2, SMT DEF Offset
<1> QED BY <1>1, <1>3 DEF AtNext

LEMMA NowTyped == ASSUME CaptureTypeOK PROVE now \in Nat /\ FrameAt(now) \in Nat
<1>1. now \in Nat
  BY CapturerAssumption DEF CaptureTypeOK
<1> QED BY <1>1, FrameAtTyped

LEMMA SkipHolds ==
  ASSUME IInv, SkipFrame, capture = "reading", capture' = "reading",
         UNCHANGED <<videoType, stopped, now, owner>>
  PROVE  IInv'
<1>1. CaptureTypeOK /\ Y4MTypeOK /\ AtNext /\ OnTime /\ reading = "reading"
  BY DEF IInv, CaptureTypeOK, SkipFrame
<1>2. PICK i \in ReadFrameHeader : PassesFrame(i)
  BY DEF SkipFrame
<1>3. UNCHANGED <<file, prevFrame, target, picture, reading>> /\ frame' = frame + 1 /\ frame < target
  BY DEF SkipFrame
<1>4. AtNext' /\ pos' \in 0 .. FileSize'
  BY <1>1, <1>2, <1>3, PassesNext
<1>5. WholeFile' = WholeFile /\ FileSize' = FileSize
  BY <1>3, FileKept
<1>6. Y4MTypeOK'
  BY <1>1, <1>3, <1>4 DEF Y4MTypeOK, AtNext
<1>7. CaptureTypeOK'
  BY <1>1, <1>6 DEF CaptureTypeOK
<1>8. OnTime'
  BY <1>1, <1>3 DEF OnTime, Y4MTypeOK, FrameAt
<1> QED BY <1>1, <1>3, <1>4, <1>5, <1>7, <1>8 DEF IInv

LEMMA ReadsFrameHolds ==
  ASSUME IInv, ReadsFrame, capture = "reading", capture' = "capturing",
         UNCHANGED <<videoType, stopped, now, owner>>
  PROVE  IInv'
<1>1. CaptureTypeOK /\ Y4MTypeOK /\ AtNext /\ OnTime /\ reading = "reading"
  BY DEF IInv, CaptureTypeOK, ReadsFrame
<1>2. PICK i \in ReadFrameHeader : PassesFrame(i) /\ picture' = i
  BY DEF ReadsFrame
<1>3. /\ UNCHANGED <<file, target>> /\ frame' = frame + 1 /\ frame = target
      /\ prevFrame' = target /\ reading' = "idle"
  BY DEF ReadsFrame
<1>4. Frames > 0 /\ i = frame % Frames /\ AtNext' /\ pos' \in 0 .. FileSize'
  BY <1>1, <1>2, <1>3, PassesNext
<1>5. WholeFile' = WholeFile /\ FileSize' = FileSize /\ Frames' = Frames
  BY <1>3, FileKept
<1>6. picture' \in 0 .. MaxFrames - 1
  <2>1. Frames \in 0 .. MaxFrames
    BY <1>1, HeadersTyped DEF Y4MTypeOK
  <2> QED BY <1>2, <2>1, Y4MAssumption DEF ReadFrameHeader
<1>7. Y4MTypeOK'
  BY <1>1, <1>3, <1>4, <1>6 DEF Y4MTypeOK, AtNext
<1>8. CaptureTypeOK'
  BY <1>1, <1>7 DEF CaptureTypeOK
<1>9. ShowsLast'
  BY <1>1, <1>2, <1>3, <1>4, <1>5 DEF ShowsLast, Y4MTypeOK
<1>10. OnTime'
  <2>1. FrameAt(now)' = FrameAt(now) /\ FrameAt(now) \in Nat /\ target = FrameAt(now)
    BY <1>1, NowTyped DEF OnTime, FrameAt
  <2> QED BY <1>3, <2>1 DEF OnTime
<1> QED BY <1>3, <1>4, <1>5, <1>8, <1>9, <1>10 DEF IInv

\* There is a frame to be read wherever a whole file stands.
LEMMA WholeReads ==
  ASSUME Y4MTypeOK, AtNext, WholeFile
  PROVE  Slot \in ReadFrameHeader /\ pos + FrameLength(Slot) <= FileSize
<1>1. file \in Files /\ Frames # 0 /\ file.cut = 0
  BY HeadersTyped DEF Y4MTypeOK, WholeFile
<1>2. Slot \in 0 .. Frames - 1 /\ Frames \in Nat
  BY <1>1, SlotTyped, HeadersTyped
<1> DEFINE i == Slot
<1> HIDE DEF i
<1>3. i \in 0 .. Frames - 1
  BY <1>2 DEF i
<1>4. /\ FileSize \in Nat /\ Offset(i) \in Nat
      /\ i + 1 < Frames => Offset(i) + FrameLength(i) < FileSize
      /\ i + 1 = Frames => Offset(i) + FrameLength(i) = FileSize + file.cut
      /\ Offset(i) + file.headers[i + 1] <= FileSize
  BY <1>1, <1>3, FileSizeBounds
<1>5. FrameLength(i) \in Nat
  BY <1>1, <1>3, HeadersTyped, Y4MAssumption DEF FrameLength
<1>6. pos = Offset(i) /\ ftell = Offset(i)
  BY DEF AtNext, i
<1>7. pos + FrameLength(i) <= FileSize
  BY <1>1, <1>2, <1>3, <1>4, <1>5, <1>6
<1>8. i \in ReadFrameHeader
  BY <1>3, <1>4, <1>6 DEF ReadFrameHeader
<1> QED BY <1>7, <1>8 DEF i

LEMMA FailsHolds ==
  ASSUME IInv, FailsFrame, capture = "reading", capture' = "over",
         UNCHANGED <<videoType, stopped, now, owner>>
  PROVE  IInv'
<1>1. CaptureTypeOK /\ Y4MTypeOK /\ AtNext /\ OnTime /\ reading = "reading"
  BY DEF IInv, CaptureTypeOK, FailsFrame
<1>2. UNCHANGED <<file, ftell, pos, frame, prevFrame, target, picture>> /\ reading' = "failed"
  BY DEF FailsFrame
<1>3. WholeFile' = WholeFile /\ FileSize' = FileSize
  BY <1>2, FileKept
<1>4. ~WholeFile
  <2> SUFFICES ASSUME WholeFile PROVE FALSE
    OBVIOUS
  <2>1. Slot \in ReadFrameHeader /\ pos + FrameLength(Slot) <= FileSize
    BY <1>1, WholeReads
  <2>2. \A i \in ReadFrameHeader : pos + FrameLength(i) > FileSize
    BY DEF FailsFrame
  <2>3. /\ FileSize \in Nat /\ pos \in Nat /\ FrameLength(Slot) \in Nat
    <3>1. file \in Files /\ Slot \in 0 .. Frames - 1
      BY <2>1 DEF ReadFrameHeader, Y4MTypeOK, CaptureTypeOK, IInv
    <3>2. FileSize \in Nat
      BY <3>1, FileSizeBounds
    <3> QED BY <1>1, <3>1, <3>2, HeadersTyped, Y4MAssumption DEF FrameLength, Y4MTypeOK
  <2> QED BY <2>1, <2>2, <2>3
<1>5. Y4MTypeOK'
  BY <1>1, <1>2, <1>3 DEF Y4MTypeOK
<1>6. CaptureTypeOK'
  BY <1>1, <1>5 DEF CaptureTypeOK
<1>7. OnTime'
  BY <1>2 DEF OnTime
<1> QED BY <1>2, <1>3, <1>4, <1>6, <1>7 DEF IInv

\* A call of GetFrame.
LEMMA AsksHolds == ASSUME IInv, Asks PROVE IInv'
<1>1. /\ CaptureTypeOK /\ Y4MTypeOK /\ AtNext /\ OnTime /\ ShowsLast /\ reading = "idle"
      /\ videoType = "Y4MFile" /\ capture = "producing"
  BY DEF IInv, CaptureTypeOK, Asks, GetFrame
<1>2. /\ UNCHANGED <<file, ftell, pos, frame, prevFrame, picture>>
      /\ UNCHANGED <<videoType, stopped, now, owner>>
      /\ target' = FrameAt(now)
      /\ reading' = IF FrameAt(now) = prevFrame THEN "idle"
                    ELSE IF FrameAt(now) < frame THEN "failed"
                    ELSE "reading"
  BY DEF Asks, GetFrame
<1>3. FrameAt(now) \in Nat /\ FrameAt(now)' = FrameAt(now) /\ frame \in Nat
  BY <1>1, <1>2, NowTyped DEF FrameAt, Y4MTypeOK
<1>4. ~(FrameAt(now) # prevFrame /\ FrameAt(now) < frame)
  BY <1>1, <1>3 DEF OnTime, ShowsLast
<1>5. AtNext'
  BY <1>1, <1>2, AtNextKept
<1>6. WholeFile' = WholeFile /\ FileSize' = FileSize /\ Frames' = Frames
  BY <1>2, FileKept
<1>7. \/ reading' = "idle" /\ capture' = "capturing" /\ FrameAt(now) = prevFrame
      \/ reading' = "reading" /\ capture' = "reading" /\ frame <= FrameAt(now)
  <2>1. CASE FrameAt(now) = prevFrame
    BY <1>2, <2>1 DEF Asks
  <2>2. CASE FrameAt(now) # prevFrame
    BY <1>2, <1>3, <1>4, <2>2 DEF Asks
  <2> QED BY <2>1, <2>2
<1>8. Y4MTypeOK'
  BY <1>1, <1>2, <1>3, <1>6, <1>7 DEF Y4MTypeOK
<1>9. CaptureTypeOK'
  BY <1>1, <1>2, <1>7, <1>8 DEF CaptureTypeOK
<1>10. ShowsLast'
  BY <1>1, <1>2, <1>6 DEF ShowsLast
<1>11. OnTime'
  BY <1>2, <1>3, <1>7 DEF OnTime
<1> QED BY <1>5, <1>7, <1>9, <1>10, <1>11 DEF IInv

\* A turn of the loop in GetFrame.
LEMMA ReadsHolds == ASSUME IInv, Reads PROVE IInv'
<1>1. capture = "reading" /\ UNCHANGED <<videoType, stopped, now, owner>>
  BY DEF Reads
<1>2. CASE SkipFrame
  <2>1. capture' = "reading"
    BY <1>2 DEF Reads, SkipFrame
  <2> QED BY <1>1, <1>2, <2>1, SkipHolds
<1>3. CASE ReadsFrame
  <2>1. capture' = "capturing"
    BY <1>3 DEF Reads, ReadsFrame
  <2> QED BY <1>1, <1>3, <2>1, ReadsFrameHolds
<1>4. CASE FailsFrame
  <2>1. capture' = "over"
    BY <1>4 DEF Reads, FailsFrame
  <2> QED BY <1>1, <1>4, <2>1, FailsHolds
<1> QED BY <1>2, <1>3, <1>4 DEF Reads

\* The steps that leave the file where it stands.
LEMMA Y4MKept ==
  ASSUME CaptureTypeOK, UNCHANGED y4mVars
  PROVE  /\ UNCHANGED <<file, ftell, pos, frame, prevFrame, target, picture, reading>>
         /\ Y4MTypeOK' /\ (AtNext => AtNext') /\ (ShowsLast => ShowsLast')
         /\ WholeFile' = WholeFile
<1>1. UNCHANGED <<file, ftell, pos, frame, prevFrame, target, picture, reading>>
  BY DEF y4mVars
<1>2. FileSize' = FileSize /\ Frames' = Frames /\ WholeFile' = WholeFile
  BY <1>1, FileKept
<1>3. AtNext => AtNext'
  BY <1>1, AtNextKept
<1>4. Y4MTypeOK'
  BY <1>1, <1>2 DEF CaptureTypeOK, Y4MTypeOK
<1>5. ShowsLast => ShowsLast'
  BY <1>1, <1>2 DEF ShowsLast
<1> QED BY <1>1, <1>2, <1>3, <1>4, <1>5

LEMMA OpensHolds == ASSUME IInv, Opens PROVE IInv'
<1>1. CaptureTypeOK /\ capture = "opening" /\ OnTime /\ UNCHANGED <<videoType, stopped, now, owner>>
  BY DEF IInv, Opens
<1>2. CASE videoType = "Y4MFile" /\ ReadHeader
  <2>1. /\ reading = "closed" /\ reading' = "idle" /\ ftell' = Start /\ pos' = Start
        /\ UNCHANGED <<file, frame, prevFrame, target, picture>>
    BY <1>2 DEF Opens, Open
  <2>2. capture' = "testing"
    BY <1>2, <2>1 DEF Opens
  <2>3. frame = 0 /\ prevFrame = -1 /\ file \in Files
    BY <2>1 DEF IInv, CaptureTypeOK, Y4MTypeOK
  <2>4. FileSize' = FileSize /\ WholeFile' = WholeFile /\ Frames' = Frames /\ ReadHeader'
    BY <1>2, <2>1, FileKept
  <2>5. Start \in 0 .. FileSize
    BY <2>3, FileSizeBounds, Y4MAssumption
  <2>6. CaptureTypeOK'
    <3>1. Y4MTypeOK'
      BY <1>1, <2>1, <2>4, <2>5 DEF CaptureTypeOK, Y4MTypeOK
    <3> QED BY <1>1, <2>2, <3>1 DEF CaptureTypeOK
  <2>7. AtNext'
    <3>1. Slot' = 0
      <4>1. Frames \in Nat
        BY <2>3, HeadersTyped
      <4> DEFINE d == IF Frames = 0 THEN 1 ELSE Frames
      <4>2. d \in Nat \ {0}
        BY <4>1
      <4>3. Slot' = 0 % d
        BY <2>1, <2>3, <2>4 DEF Slot
      <4> HIDE DEF d
      <4>4. 0 % d = 0
        BY <4>2, Z3
      <4> QED BY <4>3, <4>4
    <3>2. Offset(0)' = Start
      <4>1. (file \in Files)'
        BY <2>1, <2>3
      <4>2. Offset(0) = Start
        BY <2>3, OffsetStep
      <4>3. Frames' = Frames
        BY <2>4
      <4>4. Offset(0)' = Offset(0)
        BY <2>1, <4>3, SMT DEF Offset
      <4> QED BY <4>2, <4>4
    <3>3. Offset(Slot)' = Offset(0)'
      BY <3>1, SMT DEF Offset
    <3> QED BY <2>1, <2>4, <3>2, <3>3 DEF AtNext
  <2>8. ShowsLast'
    BY <2>1, <2>3 DEF ShowsLast
  <2>9. OnTime'
    <3>1. FrameAt(now) \in Nat /\ FrameAt(now)' = FrameAt(now)
      BY <1>1, NowTyped DEF FrameAt
    <3> QED BY <2>1, <2>2, <2>3, <3>1 DEF OnTime
  <2> QED BY <2>1, <2>6, <2>7, <2>8, <2>9 DEF IInv
<1>3. CASE videoType = "Y4MFile" /\ ~ReadHeader
  <2>1. /\ reading' = "failed" /\ capture' = "over"
        /\ UNCHANGED <<file, ftell, pos, frame, prevFrame, target, picture>>
    BY <1>3 DEF Opens, Open
  <2>2. FileSize' = FileSize /\ WholeFile' = WholeFile
    BY <2>1, FileKept
  <2>3. CaptureTypeOK'
    <3>1. Y4MTypeOK'
      BY <1>1, <2>1, <2>2 DEF CaptureTypeOK, Y4MTypeOK
    <3> QED BY <1>1, <2>1, <3>1 DEF CaptureTypeOK
  <2>4. OnTime'
    BY <2>1 DEF OnTime
  <2>5. ~WholeFile'
    BY <1>3, <2>2 DEF WholeFile
  <2> QED BY <2>1, <2>3, <2>4, <2>5 DEF IInv
<1>4. CASE videoType # "Y4MFile"
  <2>1. UNCHANGED y4mVars /\ capture' \in {"over", "testing"}
    BY <1>4 DEF Opens
  <2>2. /\ UNCHANGED <<file, ftell, pos, frame, prevFrame, target, picture, reading>>
        /\ Y4MTypeOK' /\ (AtNext => AtNext') /\ (ShowsLast => ShowsLast') /\ WholeFile' = WholeFile
    BY <1>1, <2>1, Y4MKept
  <2>3. CaptureTypeOK'
    BY <1>1, <2>1, <2>2 DEF CaptureTypeOK
  <2>4. OnTime'
    BY <1>1, <2>1, <2>2 DEF OnTime, FrameAt
  <2> QED BY <2>2, <2>3, <2>4 DEF IInv
<1> QED BY <1>2, <1>3, <1>4

\* The clock goes on only between two pictures.
LEMMA TestsHolds == ASSUME IInv, TestsStopped PROVE IInv'
<1>1. /\ CaptureTypeOK /\ OnTime /\ capture = "testing" /\ UNCHANGED y4mVars
      /\ capture' \in {"over", "producing"} /\ UNCHANGED <<videoType, stopped, owner>>
  BY DEF IInv, TestsStopped
<1>2. /\ UNCHANGED <<file, ftell, pos, frame, prevFrame, target, picture, reading>>
      /\ Y4MTypeOK' /\ (AtNext => AtNext') /\ (ShowsLast => ShowsLast') /\ WholeFile' = WholeFile
  BY <1>1, Y4MKept
<1>3. now \in 0 .. MaxTime /\ now' \in 0 .. MaxTime /\ now <= now'
  <2>1. MaxStep \in Nat /\ MaxTime \in Nat /\ now \in 0 .. MaxTime
    BY <1>1, CapturerAssumption DEF CaptureTypeOK
  <2>2. CASE stopped
    BY <2>1, <2>2 DEF TestsStopped
  <2>3. CASE ~stopped
    <3>1. PICK t \in now .. now + MaxStep : now' = IF t < MaxTime THEN t ELSE MaxTime
      BY <2>3 DEF TestsStopped
    <3> QED BY <2>1, <3>1
  <2> QED BY <2>2, <2>3
<1>4. now \in Nat /\ now' \in Nat
  BY <1>3, CapturerAssumption
<1>5. FrameAt(now) <= FrameAt(now') /\ FrameAt(now) \in Nat /\ FrameAt(now') \in Nat
  BY <1>3, <1>4, FrameAtTyped, FrameAtMonotone
<1>6. CaptureTypeOK'
  BY <1>1, <1>2, <1>3 DEF CaptureTypeOK
<1>7. OnTime'
  <2>1. reading = "idle" => prevFrame' <= FrameAt(now)'
    <3>1. prevFrame \in Int
      BY <1>1 DEF CaptureTypeOK, Y4MTypeOK
    <3>2. reading = "idle" => prevFrame <= FrameAt(now')
      BY <1>1, <1>5, <3>1 DEF OnTime
    <3>3. FrameAt(now)' = FrameAt(now')
      BY DEF FrameAt
    <3> QED BY <1>2, <3>2, <3>3
  <2> QED BY <1>1, <1>2, <2>1 DEF OnTime
<1> QED BY <1>2, <1>6, <1>7 DEF IInv

\* What else the thread and its owner do.
LEMMA OthersHold ==
  ASSUME IInv, Draws \/ Captures \/ StopCapture \/ Joins \/ UNCHANGED videoVars
  PROVE  IInv'
<1>1. CaptureTypeOK /\ OnTime /\ UNCHANGED y4mVars /\ UNCHANGED <<videoType, now>>
  BY DEF IInv, Draws, Captures, StopCapture, Joins, videoVars, captureVars
<1>2. /\ UNCHANGED <<file, ftell, pos, frame, prevFrame, target, picture, reading>>
      /\ Y4MTypeOK' /\ (AtNext => AtNext') /\ (ShowsLast => ShowsLast') /\ WholeFile' = WholeFile
  BY <1>1, Y4MKept
<1>3. CaptureTypeOK'
  <2>1. stopped' \in BOOLEAN
    BY <1>1 DEF CaptureTypeOK, Draws, Captures, StopCapture, Joins, videoVars, captureVars
  <2>2. capture' \in {"opening", "testing", "producing", "reading", "capturing", "over"}
    BY <1>1 DEF CaptureTypeOK, Draws, Captures, StopCapture, Joins, videoVars, captureVars
  <2>3. owner' \in {"alive", "stopping", "gone"}
    BY <1>1 DEF CaptureTypeOK, Draws, Captures, StopCapture, Joins, videoVars, captureVars
  <2> QED BY <1>1, <1>2, <2>1, <2>2, <2>3 DEF CaptureTypeOK
<1>4. \/ capture' = capture
      \/ videoType # "Y4MFile" /\ capture = "producing" /\ capture' \in {"capturing", "testing"}
      \/ capture = "capturing" /\ capture' = "testing"
  BY DEF Draws, Captures, StopCapture, Joins, videoVars, captureVars
<1>5. FrameAt(now)' = FrameAt(now)
  BY <1>1 DEF FrameAt
<1>6. OnTime'
  BY <1>1, <1>2, <1>4, <1>5 DEF OnTime
<1> QED BY <1>2, <1>3, <1>6 DEF IInv

-----------------------------------------------------------------------------
\* The invariant that the theorems rest on holds of every file, rate and clock.
THEOREM Invariance == CaptureSpec => []IInv
<1>1. IInv /\ [CaptureNext]_videoVars => IInv'
  <2> SUFFICES ASSUME IInv, [CaptureNext]_videoVars PROVE IInv'
    OBVIOUS
  <2>1. CASE Opens
    BY <2>1, OpensHolds
  <2>2. CASE TestsStopped
    BY <2>2, TestsHolds
  <2>3. CASE Asks
    BY <2>3, AsksHolds
  <2>4. CASE Reads
    BY <2>4, ReadsHolds
  <2>5. CASE Draws \/ Captures \/ StopCapture \/ Joins \/ UNCHANGED videoVars
    BY <2>5, OthersHold
  <2> QED BY <2>1, <2>2, <2>3, <2>4, <2>5 DEF CaptureNext, Thread
<1> QED BY InitHolds, <1>1, PTL DEF CaptureSpec

\* The variables keep their types: neither pos_ nor the file ever stands behind the file's
\* end, however long the headers of its frames are and whatever is cut of it.
THEOREM CapturerTypes == CaptureSpec => []CaptureTypeOK
<1>1. IInv => CaptureTypeOK
  BY DEF IInv
<1> QED BY <1>1, Invariance, PTL

\* At any rate, and however the clock goes on between two turns, the picture that is
\* captured is the one of the time, in a file that is played again and again
\* (y4m_reader.h:23, y4m_reader.cpp:41-92).
THEOREM ThePictureOfTheTime == CaptureSpec => []ShowsPictureOfTime
<1>1. IInv => ShowsPictureOfTime
  <2> SUFFICES ASSUME IInv, videoType = "Y4MFile", capture = "capturing"
               PROVE  picture = FrameAt(now) % Frames
    BY DEF ShowsPictureOfTime
  <2>1. reading = "idle" /\ prevFrame = FrameAt(now) /\ ShowsLast /\ CaptureTypeOK
    BY DEF IInv, OnTime
  <2>2. FrameAt(now) \in Nat
    BY <2>1, NowTyped
  <2>3. prevFrame # -1
    BY <2>1, <2>2
  <2> QED BY <2>1, <2>3 DEF ShowsLast
<1> QED BY <1>1, Invariance, PTL

\* A whole file of any number of frames with headers of any lengths is played for ever:
\* no call of GetFrame fails, and pos_ and the file stand at the frame that is next
\* (y4m_reader.cpp:41-92, 220-247).
THEOREM AWholeFileIsPlayed == CaptureSpec => []WholeFileIsPlayed
<1>1. IInv => WholeFileIsPlayed
  <2>1. IInv => (ReadHeader /\ Frames > 0 /\ file.cut = 0 => reading # "failed")
    BY DEF IInv, WholeFile
  <2>2. IInv /\ reading = "idle" =>
          pos = ftell /\ pos = Offset(frame % (IF Frames = 0 THEN 1 ELSE Frames))
    BY DEF IInv, AtNext, Slot
  <2> QED BY <2>1, <2>2 DEF WholeFileIsPlayed
<1> QED BY <1>1, Invariance, PTL
=============================================================================
