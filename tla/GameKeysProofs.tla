--------------------------- MODULE GameKeysProofs ---------------------------
(***************************************************************************)
(* What GameKeys promises for any number of instances, clients and keys:   *)
(* nothing undefined happens to a careful user; every key arrives at every *)
(* instance; and what a trigger does is what was typed.                    *)
(***************************************************************************)
EXTENDS GameKeys, SequenceTheorems, WellFoundedInduction, TLAPS

\* What of the types is needed.
Shape ==
  /\ stage \in [Instances -> Stages]
  /\ trigger \in [Instances -> {"none", "turning", "over"}]
  /\ DOMAIN queue = Instances

\* The thread of a trigger lives within the life of its GameKey.
ThreadInsideKey ==
  \A i \in Instances :
    /\ stage[i] \in {"hatching", "registering"} => trigger[i] = "none"
    /\ stage[i] \in {"unregistering", "gone"} => trigger[i] = "over"

\* The keys of a careful user are on their way, or waiting, only where everybody runs.
KeysOnlyWhileRunning ==
  careful => /\ at # 0 => AllIn("running")
             /\ \A i \in Instances : stage[i] # "running" => queue[i] = << >>

IInv == Shape /\ ThreadInsideKey /\ KeysOnlyWhileRunning /\ CarefulIsSafe

-----------------------------------------------------------------------------
\* Nothing is registered, typed or undefined at the start.
LEMMA InitHolds == Init => IInv
  BY DEF Init, IInv, Shape, Stages, ThreadInsideKey, KeysOnlyWhileRunning, CarefulIsSafe, AllIn

\* Reading a key.
LEMMA ReadsHolds == ASSUME IInv, NEW k \in Keys, Reads(k) PROVE IInv'
<1> USE DEF IInv, Reads, triggerVars
<1>1. Shape'
  BY DEF Shape
<1>2. ThreadInsideKey'
  BY DEF ThreadInsideKey
<1>3. KeysOnlyWhileRunning'
  BY DEF KeysOnlyWhileRunning, AllIn
<1>4. CarefulIsSafe'
  BY DEF CarefulIsSafe, AllIn, BeingChanged
<1> QED BY <1>1, <1>2, <1>3, <1>4

\* Pushing it, and the end of the reader.
LEMMA PushesHolds == ASSUME IInv, PushesKey PROVE IInv'
<1> USE DEF IInv, PushesKey
<1>1. Shape'
  BY DEF Shape
<1>2. ThreadInsideKey'
  BY DEF ThreadInsideKey
<1>3. KeysOnlyWhileRunning'
  BY DEF KeysOnlyWhileRunning, AllIn
<1>4. CarefulIsSafe'
  BY DEF CarefulIsSafe
<1> QED BY <1>1, <1>2, <1>3, <1>4

LEMMA StopsReadingHolds == ASSUME IInv, StopsReading PROVE IInv'
  BY DEF IInv, StopsReading, triggerVars, Shape, ThreadInsideKey, KeysOnlyWhileRunning, AllIn,
         CarefulIsSafe

\* The life of an instance: a careful user keeps keys_ and what is typed away from it.
LEMMA LivesHolds == ASSUME IInv, NEW i \in Instances, Lives(i) PROVE IInv'
<1> USE DEF IInv, Moves, readerVars, triggerVars
<1>1. CASE StartsRegister(i)
  <2> USE <1>1 DEF StartsRegister, StartsChange
  <2>1. Shape'
    BY DEF Shape, Stages
  <2>2. ThreadInsideKey'
    BY DEF Shape, ThreadInsideKey
  <2>3. KeysOnlyWhileRunning'
    BY DEF Shape, KeysOnlyWhileRunning, AllIn, InUse
  <2>4. CarefulIsSafe'
    BY DEF CarefulIsSafe, InUse
  <2> QED BY <2>1, <2>2, <2>3, <2>4
<1>2. CASE Registered(i)
  <2> USE <1>2 DEF Registered
  <2>1. Shape'
    BY DEF Shape, Stages
  <2>2. ThreadInsideKey'
    BY DEF Shape, ThreadInsideKey
  <2>3. KeysOnlyWhileRunning'
    BY DEF Shape, KeysOnlyWhileRunning, AllIn
  <2>4. CarefulIsSafe'
    BY DEF CarefulIsSafe
  <2> QED BY <2>1, <2>2, <2>3, <2>4
<1>3. CASE Closes(i) \/ ClearsClients(i) \/ StartsJoin(i)
  <2> USE <1>3 DEF Closes, ClearsClients, StartsJoin
  <2>1. Shape'
    BY DEF Shape, Stages
  <2>2. ThreadInsideKey'
    BY DEF Shape, ThreadInsideKey
  <2>3. KeysOnlyWhileRunning'
    BY DEF Shape, KeysOnlyWhileRunning, AllIn
  <2>4. CarefulIsSafe'
    BY DEF CarefulIsSafe
  <2> QED BY <2>1, <2>2, <2>3, <2>4
<1>4. CASE StartsUnregister(i)
  <2> USE <1>4 DEF StartsUnregister, StartsChange
  <2>1. Shape'
    BY DEF Shape, Stages
  <2>2. ThreadInsideKey'
    BY DEF Shape, ThreadInsideKey, Joined
  <2>3. KeysOnlyWhileRunning'
    BY DEF Shape, KeysOnlyWhileRunning, AllIn, InUse
  <2>4. CarefulIsSafe'
    BY DEF CarefulIsSafe, InUse
  <2> QED BY <2>1, <2>2, <2>3, <2>4
<1>5. CASE Unregistered(i)
  <2> USE <1>5 DEF Unregistered
  <2>1. Shape'
    BY DEF Shape, Stages
  <2>2. ThreadInsideKey'
    BY DEF Shape, ThreadInsideKey
  <2>3. KeysOnlyWhileRunning'
    BY DEF Shape, KeysOnlyWhileRunning, AllIn
  <2>4. CarefulIsSafe'
    BY DEF CarefulIsSafe
  <2> QED BY <2>1, <2>2, <2>3, <2>4
<1> QED BY <1>1, <1>2, <1>3, <1>4, <1>5 DEF Lives

\* The thread of a trigger: it turns only while its GameKey is there, and what it takes
\* was left to it while its instance ran.
LEMMA ActsHolds == ASSUME IInv, NEW i \in Instances, Acts(i) PROVE IInv'
<1> USE DEF IInv, readerVars
<1>1. CASE Stops(i)
  <2> USE <1>1 DEF Stops
  <2>1. Shape'
    BY DEF Shape
  <2>2. ThreadInsideKey'
    BY DEF Shape, ThreadInsideKey
  <2>3. KeysOnlyWhileRunning'
    BY DEF KeysOnlyWhileRunning, AllIn
  <2>4. CarefulIsSafe'
    BY DEF CarefulIsSafe
  <2> QED BY <2>1, <2>2, <2>3, <2>4
<1>2. ASSUME NEW late, FindsNoKey(i, late) PROVE IInv'
  <2> USE <1>2 DEF FindsNoKey, Turns, GoesOnWithoutKey
  <2>1. Shape'
    BY DEF Shape
  <2>2. ThreadInsideKey'
    BY DEF ThreadInsideKey
  <2>3. KeysOnlyWhileRunning'
    BY DEF KeysOnlyWhileRunning, AllIn
  <2>4. ~KeyIsGone(i)
    BY DEF ThreadInsideKey, KeyIsGone
  <2>5. CarefulIsSafe'
    BY <2>4 DEF CarefulIsSafe
  <2> QED BY <2>1, <2>2, <2>3, <2>5
<1>3. ASSUME NEW late, TakesKey(i, late) PROVE IInv'
  <2> USE <1>3 DEF TakesKey, Turns
  <2>1. Shape'
    BY DEF Shape
  <2>2. ThreadInsideKey'
    BY DEF ThreadInsideKey
  <2>3. careful => stage[i] = "running"
    BY DEF KeysOnlyWhileRunning
  <2>4. KeysOnlyWhileRunning'
    BY <2>3 DEF Shape, KeysOnlyWhileRunning, AllIn
  <2>5. ~KeyIsGone(i)
    BY DEF ThreadInsideKey, KeyIsGone
  <2>6. CarefulIsSafe'
    BY <2>3, <2>5 DEF CarefulIsSafe, HasContext
  <2> QED BY <2>1, <2>2, <2>4, <2>6
<1> QED BY <1>1, <1>2, <1>3 DEF Acts

\* A step in which nothing happens.
LEMMA StutterHolds == ASSUME IInv, UNCHANGED vars PROVE IInv'
  BY DEF IInv, vars, readerVars, triggerVars, Shape, ThreadInsideKey, KeysOnlyWhileRunning,
         AllIn, CarefulIsSafe

-----------------------------------------------------------------------------
\* A user who types only while all instances run, and has them start and end one at a time
\* with nothing left over, meets no race for keys_, no destroyed io_context and no
\* destroyed GameKey, with any number of instances (fake_audio_key_trigger.h:82-91,
\* zakuro.cpp:606-639).
THEOREM CarefulUsersAreSafe == Spec => []CarefulIsSafe
<1>1. IInv /\ [Next]_vars => IInv'
  BY ReadsHolds, PushesHolds, StopsReadingHolds, LivesHolds, ActsHolds, StutterHolds DEF Next
<1>2. IInv => CarefulIsSafe
  BY DEF IInv
<1> QED BY InitHolds, <1>1, <1>2, PTL DEF Spec

-----------------------------------------------------------------------------
(* Every key arrives.                                                       *)

\* The instances whose GameKey stands in keys_.
Standing == {"running", "closed", "cleared", "joining", "unregistering"}

\* keys_ holds each of them once.  It only changes while nobody goes through it.
KeysStand ==
  /\ \A m, n \in 1 .. Len(keys) : keys[m] = keys[n] => m = n
  /\ \A i \in Instances : stage[i] \in Standing <=> \E n \in 1 .. Len(keys) : keys[n] = i
  /\ ~undefined /\ at # 0 => ~BeingChanged /\ typed # << >>

\* Nothing has been taken or left before an instance registers.
Fresh ==
  \A i \in Instances :
    stage[i] \in {"hatching", "registering"} =>
      queue[i] = << >> /\ seq[i] = << >> /\ done[i] = << >> /\ lapses[i] = {}

\* The last key that has been pushed to i.
Upto(i) == IF OnItsWay(i) THEN Len(typed) - 1 ELSE Len(typed)

Arrived(i) == taken[i] <= Upto(i) /\ queue[i] = SubSeq(typed, taken[i] + 1, Upto(i))

\* The inductive invariant.
ArrivalInv ==
  /\ TypeOK
  /\ DOMAIN done = Instances
  /\ ThreadInsideKey
  /\ KeysStand
  /\ Fresh
  /\ ~undefined =>
       \A i \in Instances : stage[i] \in Standing \ {"unregistering"} => Arrived(i)

\* What is pushed to an instance, of the keys that were typed.
LEMMA SubSeqPush ==
  ASSUME NEW S, NEW s \in Seq(S), NEW a \in Nat, NEW b \in a .. Len(s), b < Len(s)
  PROVE  Append(SubSeq(s, a + 1, b), s[b + 1]) = SubSeq(s, a + 1, b + 1)
<1>1. SubSeq(s, a + 1, b) \in Seq(S)
  BY SubSeqProperties
<1>2. /\ a + 1 \in 1 .. Len(s) /\ b + 1 \in a + 1 .. Len(s) /\ (b + 1) - 1 = b
      /\ s[b + 1] \in S
  OBVIOUS
<1>3. SubSeq(s, a + 1, b + 1) = SubSeq(s, a + 1, b) \o << s[b + 1] >>
  BY <1>2, SubSeqRecursiveSecond
<1> QED BY <1>1, <1>2, <1>3, AppendIsConcat

\* What is taken from it.
LEMMA SubSeqPop ==
  ASSUME NEW S, NEW s \in Seq(S), NEW a \in Nat, NEW b \in a .. Len(s),
         SubSeq(s, a + 1, b) # << >>
  PROVE  /\ a + 1 <= b
         /\ Head(SubSeq(s, a + 1, b)) = s[a + 1]
         /\ Tail(SubSeq(s, a + 1, b)) = SubSeq(s, a + 2, b)
<1>1. SubSeq(s, a + 1, b) \in Seq(S) /\ Len(SubSeq(s, a + 1, b)) = b - a
  BY SubSeqProperties
<1>2. b - a # 0
  BY <1>1
<1>3. a + 1 \in 1 .. Len(s) /\ b \in a + 1 .. Len(s) /\ a + 1 + 1 = a + 2
  BY <1>2
<1> QED BY <1>3, HeadTailOfSubSeq

\* Typing on does not change it.
LEMMA SubSeqKept ==
  ASSUME NEW S, NEW s \in Seq(S), NEW a \in Nat, NEW b \in a .. Len(s), NEW e \in S
  PROVE  SubSeq(Append(s, e), a + 1, b) = SubSeq(s, a + 1, b)
<1>1. /\ SubSeq(s, a + 1, b) \in Seq(S)
      /\ Len(SubSeq(s, a + 1, b)) = b - a
      /\ \A j \in 1 .. b - a : SubSeq(s, a + 1, b)[j] = s[a + j]
  BY SubSeqProperties
<1>2. /\ Len(Append(s, e)) = Len(s) + 1
      /\ \A j \in 1 .. Len(s) : Append(s, e)[j] = s[j]
  BY AppendProperties
<1>3. \A j \in a + 1 .. b : Append(s, e)[j] \in S /\ j \in 1 .. Len(s)
  BY <1>2
<1>4. /\ SubSeq(Append(s, e), a + 1, b) \in Seq(S)
      /\ Len(SubSeq(Append(s, e), a + 1, b)) = b - a
      /\ \A j \in 1 .. b - a : SubSeq(Append(s, e), a + 1, b)[j] = Append(s, e)[a + j]
  BY <1>3, SubSeqProperties
<1>5. \A j \in 1 .. b - a : SubSeq(Append(s, e), a + 1, b)[j] = SubSeq(s, a + 1, b)[j]
  BY <1>1, <1>2, <1>4
<1> QED BY <1>1, <1>4, <1>5, SeqEqual

\* An instance that takes keys stands in keys_, and the last key is on its way to those
\* that the loop has not come to.
LEMMA ArrivalInit == Init => ArrivalInv
<1> SUFFICES ASSUME Init PROVE ArrivalInv
  OBVIOUS
<1>1. TypeOK /\ DOMAIN done = Instances
  <2>1. << >> \in Seq(Keys) /\ << >> \in Seq(Instances) /\ << >> \in Seq(Letters) /\ Len(keys) = 0
    BY DEF Init
  <2>2. stage \in [Instances -> Stages] /\ trigger \in [Instances -> {"none", "turning", "over"}]
    BY DEF Init, Stages
  <2> HIDE DEF Letters
  <2>3. queue \in [Instances -> Seq(Keys)] /\ seq \in [Instances -> Seq(Letters)]
    BY <2>1 DEF Init
  <2>4. since \in [Instances -> Nat] /\ taken \in [Instances -> Nat]
        /\ lapses \in [Instances -> SUBSET Nat] /\ DOMAIN done = Instances
    BY DEF Init
  <2>5. careful \in BOOLEAN /\ undefined \in BOOLEAN
    BY Zenon DEF Init
  <2>7. reader \in {"reading", "over"} /\ at \in 0 .. Len(keys)
    BY <2>1 DEF Init
  <2>6. typed \in Seq(Keys) /\ keys \in Seq(Instances)
    BY <2>1 DEF Init
  <2> QED BY <2>2, <2>3, <2>4, <2>5, <2>6, <2>7 DEF TypeOK
<1>2. ThreadInsideKey /\ Fresh
  BY DEF Init, ThreadInsideKey, Fresh
<1>3. KeysStand
  BY DEF Init, KeysStand, Standing
<1>4. \A i \in Instances : stage[i] \notin Standing
  BY DEF Init, Standing
<1> QED BY <1>1, <1>2, <1>3, <1>4 DEF ArrivalInv

\* Reading a key: it is on its way to everybody who stands in keys_.
LEMMA ReadsArrives == ASSUME ArrivalInv, NEW k \in Keys, Reads(k) PROVE ArrivalInv'
<1> USE DEF ArrivalInv, Reads, triggerVars
<1>1. typed \in Seq(Keys) /\ typed' = Append(typed, k) /\ Len(typed) \in Nat /\ Len(keys) \in Nat
  BY DEF TypeOK
<1>2. /\ typed' \in Seq(Keys) /\ Len(typed') = Len(typed) + 1 /\ typed' # << >>
  BY <1>1, AppendProperties
<1>3. keys = << >> <=> Len(keys) = 0
  BY DEF TypeOK
<1>4. at' \in 0 .. Len(keys)
  BY <1>1, <1>3
<1>5. TypeOK'
  BY <1>2, <1>4 DEF TypeOK, BeingChanged
<1>6. ThreadInsideKey' /\ Fresh'
  BY DEF ThreadInsideKey, Fresh
<1>7. KeysStand'
  BY <1>2 DEF KeysStand, BeingChanged
<1>8. ASSUME ~undefined', NEW i \in Instances, stage[i] \in Standing \ {"unregistering"}
      PROVE  Arrived(i)'
  <2>1. ~OnItsWay(i) /\ Upto(i) = Len(typed)
    BY DEF OnItsWay, Upto
  <2>2. taken[i] \in Nat /\ taken[i] <= Len(typed)
        /\ queue[i] = SubSeq(typed, taken[i] + 1, Len(typed))
    BY <2>1, <1>8 DEF Arrived, TypeOK
  <2>3. PICK n \in 1 .. Len(keys) : keys[n] = i
    BY <1>8 DEF KeysStand
  <2>4. OnItsWay(i)'
    BY <2>3, <1>3, <1>1 DEF OnItsWay
  <2>5. Upto(i)' = Len(typed)
    BY <2>4, <1>1, <1>2 DEF Upto
  <2>6. SubSeq(typed', taken[i] + 1, Len(typed)) = SubSeq(typed, taken[i] + 1, Len(typed))
    <3>1. Len(typed) \in taken[i] .. Len(typed)
      BY <2>2, <1>1
    <3> DEFINE a == taken[i]
               b == Len(typed)
    <3>2. typed \in Seq(Keys) /\ k \in Keys /\ a \in Nat /\ b \in a .. Len(typed)
      BY <3>1, <2>2, <1>1
    <3> HIDE DEF a, b
    <3>3. SubSeq(Append(typed, k), a + 1, b) = SubSeq(typed, a + 1, b)
      BY <3>2, SubSeqKept
    <3> QED BY <3>3, <1>1 DEF a, b
  <2> QED BY <2>2, <2>5, <2>6 DEF Arrived
<1> QED BY <1>5, <1>6, <1>7, <1>8

\* Pushing it: one instance has it now, and no other.
LEMMA PushesArrives == ASSUME ArrivalInv, PushesKey PROVE ArrivalInv'
<1> USE DEF ArrivalInv, PushesKey
<1> DEFINE j == keys[at]
           L == Len(typed)
<1>1. /\ at \in 1 .. Len(keys) /\ Len(keys) \in Nat /\ j \in Instances
      /\ typed # << >> /\ L \in Nat \ {0} /\ Last(typed) = typed[L] /\ Last(typed) \in Keys
      /\ typed \in Seq(Keys)
  BY DEF KeysStand, TypeOK, Last
<1>2. at' = IF at = Len(keys) THEN 0 ELSE at + 1
  BY DEF AfterPush
<1>3. /\ queue' \in [Instances -> Seq(Keys)]
      /\ queue'[j] = Append(queue[j], Last(typed))
      /\ \A i \in Instances \ {j} : queue'[i] = queue[i]
  BY <1>1, AppendProperties DEF TypeOK
<1> HIDE DEF j, L
<1>4. TypeOK'
  <2>1. at' \in 0 .. Len(keys)
    BY <1>1, <1>2
  <2> QED BY <1>3, <2>1 DEF TypeOK
<1>5. stage[j] \in Standing \ {"hatching", "registering", "unregistering"}
  <2>1. stage[j] \in Standing
    BY <1>1 DEF KeysStand, j
  <2>2. stage[j] # "unregistering"
    BY <1>1 DEF KeysStand, BeingChanged
  <2> QED BY <2>1, <2>2 DEF Standing
<1>6. ThreadInsideKey' /\ Fresh'
  BY <1>1, <1>3, <1>5 DEF ThreadInsideKey, Fresh
<1>7. KeysStand'
  BY DEF KeysStand, BeingChanged
<1>8. ASSUME NEW i \in Instances, i # j
      PROVE  OnItsWay(i)' <=> OnItsWay(i)
  <2>1. keys[at] # i
    BY <1>8 DEF j
  <2> QED BY <1>1, <1>2, <2>1 DEF OnItsWay
<1>9. ASSUME NEW i, i = j PROVE OnItsWay(i) /\ ~OnItsWay(i)'
  <2>1. keys[at] = i
    BY <1>9 DEF j
  <2>2. OnItsWay(i)
    BY <1>1, <2>1 DEF OnItsWay
  <2>3. \A n \in 1 .. Len(keys) : keys[n] = i => n = at
    BY <1>1, <2>1 DEF KeysStand
  <2>4. ASSUME at' # 0, NEW n \in at' .. Len(keys) PROVE keys[n] # i
    <3>1. n \in 1 .. Len(keys) /\ n # at
      BY <1>1, <1>2, <2>4
    <3> QED BY <2>3, <3>1
  <2>5. ~OnItsWay(i)'
    BY <2>4 DEF OnItsWay
  <2> QED BY <2>2, <2>5
<1>10. ASSUME ~undefined, NEW i \in Instances, stage[i] \in Standing \ {"unregistering"}
       PROVE  Arrived(i)'
  <2>1. Arrived(i) /\ taken[i] \in Nat
    BY <1>10 DEF TypeOK
  <2>2. CASE i # j
    BY <2>1, <2>2, <1>3, <1>8 DEF Arrived, Upto
  <2>3. CASE i = j
    <3>1. Upto(i) = L - 1 /\ Upto(i)' = L
      BY <2>3, <1>9 DEF Upto, L
    <3>2. L - 1 \in taken[i] .. L /\ L - 1 < L /\ (L - 1) + 1 = L
      BY <2>1, <3>1, <1>1 DEF Arrived
    <3>3. L - 1 \in taken[i] .. Len(typed) /\ L - 1 < Len(typed)
      BY <3>2 DEF L
    <3>4. Append(SubSeq(typed, taken[i] + 1, L - 1), typed[L]) = SubSeq(typed, taken[i] + 1, L)
      <4> DEFINE b == L - 1
      <4>1. b \in taken[i] .. Len(typed) /\ b < Len(typed) /\ b + 1 = L
        BY <3>2, <3>3
      <4> HIDE DEF b
      <4>2. Append(SubSeq(typed, taken[i] + 1, b), typed[b + 1]) = SubSeq(typed, taken[i] + 1, b + 1)
        BY <4>1, <2>1, <1>1, SubSeqPush
      <4> QED BY <4>1, <4>2 DEF b
    <3>5. queue[i] = SubSeq(typed, taken[i] + 1, L - 1)
      BY <2>1, <3>1 DEF Arrived
    <3>6. queue'[i] = Append(queue[i], typed[L])
      BY <2>3, <1>1, <1>3
    <3>7. taken[i] <= L
      BY <3>2, <2>1, <1>1
    <3>8. queue'[i] = SubSeq(typed, taken[i] + 1, L)
      BY <3>4, <3>5, <3>6
    <3> QED BY <3>1, <3>7, <3>8 DEF Arrived
  <2> QED BY <2>2, <2>3
<1> QED BY <1>4, <1>6, <1>7, <1>10

LEMMA StopsReadingArrives == ASSUME ArrivalInv, StopsReading PROVE ArrivalInv'
  BY DEF ArrivalInv, StopsReading, triggerVars, TypeOK, ThreadInsideKey, KeysStand, Fresh,
         Arrived, Upto, OnItsWay, BeingChanged

\* Nothing changes for who neither moves in keys_ nor takes a key.
LEMMA KeepsArrived ==
  ASSUME UNCHANGED <<readerVars, keys, queue, taken>>, NEW i, Arrived(i)
  PROVE  Arrived(i)'
  BY DEF readerVars, Arrived, Upto, OnItsWay

\* What is left when one element is taken out.
LEMMA RemoveAtProperties ==
  ASSUME NEW S, NEW s \in Seq(S), NEW k \in 1 .. Len(s)
  PROVE  /\ RemoveAt(s, k) \in Seq(S)
         /\ Len(RemoveAt(s, k)) = Len(s) - 1
         /\ \A n \in 1 .. Len(s) - 1 : RemoveAt(s, k)[n] = IF n < k THEN s[n] ELSE s[n + 1]
<1> DEFINE a == SubSeq(s, 1, k - 1)
           b == SubSeq(s, k + 1, Len(s))
<1>1. a \in Seq(S) /\ Len(a) = k - 1 /\ \A n \in 1 .. k - 1 : a[n] = s[n]
  BY SubSeqProperties
<1>2. b \in Seq(S) /\ Len(b) = Len(s) - k /\ \A n \in 1 .. Len(s) - k : b[n] = s[k + n]
  BY SubSeqProperties
<1>3. RemoveAt(s, k) = a \o b
  BY DEF RemoveAt
<1> HIDE DEF a, b
<1>4. /\ a \o b \in Seq(S) /\ Len(a \o b) = Len(a) + Len(b)
      /\ \A n \in 1 .. Len(a) + Len(b) : (a \o b)[n] = IF n <= Len(a) THEN a[n] ELSE b[n - Len(a)]
  <2>1. a \in Seq(S) /\ b \in Seq(S)
    BY <1>1, <1>2
  <2> QED BY <2>1, ConcatProperties
<1>5. ASSUME NEW n \in 1 .. Len(s) - 1 PROVE (a \o b)[n] = IF n < k THEN s[n] ELSE s[n + 1]
  <2>1. (a \o b)[n] = IF n <= k - 1 THEN a[n] ELSE b[n - (k - 1)]
    <3>1. n \in 1 .. Len(a) + Len(b)
      BY <1>1, <1>2
    <3>2. (a \o b)[n] = IF n <= Len(a) THEN a[n] ELSE b[n - Len(a)]
      BY <1>4, <3>1
    <3> QED BY <1>1, <3>2
  <2>2. CASE n < k
    BY <2>1, <2>2, <1>1
  <2>3. CASE ~(n < k)
    <3>1. n - (k - 1) \in 1 .. Len(s) - k /\ k + (n - (k - 1)) = n + 1
      BY <2>3
    <3> QED BY <3>1, <2>1, <2>3, <1>2
  <2> QED BY <2>2, <2>3
<1> QED BY <1>1, <1>2, <1>3, <1>4, <1>5

\* The life of an instance.  keys_ only changes outside of the loop, or undefined is set.
LEMMA LivesArrives == ASSUME ArrivalInv, NEW i \in Instances, Lives(i) PROVE ArrivalInv'
<1> USE DEF ArrivalInv, Moves
<1>0. stage \in [Instances -> Stages] /\ keys \in Seq(Instances) /\ Len(keys) \in Nat
  BY DEF TypeOK
<1>1. CASE StartsRegister(i) \/ StartsUnregister(i)
  <2> USE <1>1 DEF StartsRegister, StartsUnregister, StartsChange, readerVars, triggerVars
  <2>1. UNCHANGED <<at, typed, keys, queue, trigger, seq, taken, done, lapses>>
    OBVIOUS
  <2>2. TypeOK'
    <3>1. stage' \in [Instances -> Stages]
      BY <1>0 DEF Stages
    <3>2. undefined' \in BOOLEAN
      BY DEF InUse, BeingChanged
    <3> QED BY <2>1, <3>1, <3>2 DEF TypeOK
  <2>3. ThreadInsideKey'
    BY <1>0, <2>1 DEF ThreadInsideKey, Joined
  <2>4. KeysStand'
    <3>1. \A j \in Instances : stage'[j] \in Standing <=> stage[j] \in Standing
      BY <1>0 DEF Standing
    <3>2. ~undefined' => at = 0
      BY DEF InUse
    <3> QED BY <2>1, <3>1, <3>2 DEF KeysStand
  <2>5. Fresh'
    BY <1>0, <2>1 DEF Fresh
  <2>6. ASSUME ~undefined', NEW j \in Instances, stage'[j] \in Standing \ {"unregistering"}
        PROVE  Arrived(j)'
    <3>1. stage[j] \in Standing \ {"unregistering"}
      BY <2>6, <1>0 DEF Standing
    <3>2. Arrived(j)
      BY <3>1
    <3> QED BY <2>1, <3>2 DEF Arrived, Upto, OnItsWay
  <2> QED BY <2>1, <2>2, <2>3, <2>4, <2>5, <2>6
<1>2. CASE Registered(i)
  <2> USE <1>2 DEF Registered
  <2>1. /\ UNCHANGED <<at, typed, queue, seq, done, lapses, undefined>>
        /\ stage[i] = "registering" /\ ~undefined /\ at = 0
        /\ keys' = Append(keys, i)
        /\ typed \in Seq(Keys) /\ Len(typed) \in Nat
    BY DEF readerVars, KeysStand, BeingChanged, TypeOK
  <2>2. /\ keys' \in Seq(Instances) /\ Len(keys') = Len(keys) + 1
        /\ \A n \in 1 .. Len(keys) : keys'[n] = keys[n]
        /\ keys'[Len(keys) + 1] = i
    BY <1>0, <2>1, AppendProperties
  <2>3. stage' = [stage EXCEPT ![i] = "running"]
    OBVIOUS
  <2>4. TypeOK'
    <3>1. stage' \in [Instances -> Stages]
      BY <1>0, <2>3 DEF Stages
    <3>2. trigger' \in [Instances -> {"none", "turning", "over"}]
      BY DEF TypeOK
    <3>3. since' \in [Instances -> Nat] /\ taken' \in [Instances -> Nat]
      BY <2>1 DEF TypeOK
    <3>4. at' \in 0 .. Len(keys')
      BY <1>0, <2>1, <2>2
    <3> QED BY <2>1, <2>2, <3>1, <3>2, <3>3, <3>4 DEF TypeOK, readerVars
  <2>5. ThreadInsideKey'
    BY <1>0, <2>3 DEF ThreadInsideKey, TypeOK
  <2>6. Fresh'
    BY <1>0, <2>1, <2>3 DEF Fresh
  <2>7. \A n \in 1 .. Len(keys) : keys[n] # i
    BY <2>1 DEF KeysStand, Standing
  <2>8. ASSUME NEW m \in 1 .. Len(keys'), NEW n \in 1 .. Len(keys'), keys'[m] = keys'[n]
        PROVE  m = n
    <3>1. (m \in 1 .. Len(keys) \/ m = Len(keys) + 1) /\ (n \in 1 .. Len(keys) \/ n = Len(keys) + 1)
      BY <1>0, <2>2
    <3> QED BY <3>1, <2>2, <2>7, <2>8 DEF KeysStand
  <2>9. ASSUME NEW j \in Instances
        PROVE  stage'[j] \in Standing <=> \E n \in 1 .. Len(keys') : keys'[n] = j
    <3>1. CASE j = i
      <4>1. Len(keys) + 1 \in 1 .. Len(keys')
        BY <1>0, <2>2
      <4> QED BY <3>1, <4>1, <1>0, <2>2, <2>3 DEF Standing
    <3>2. CASE j # i
      <4>1. \A n \in 1 .. Len(keys') : n \in 1 .. Len(keys) \/ n = Len(keys) + 1
        BY <1>0, <2>2
      <4>2. \A n \in 1 .. Len(keys) : n \in 1 .. Len(keys')
        BY <1>0, <2>2
      <4>3. (\E n \in 1 .. Len(keys') : keys'[n] = j) <=> (\E n \in 1 .. Len(keys) : keys[n] = j)
        BY <3>2, <4>1, <4>2, <2>2
      <4> QED BY <3>2, <4>3, <1>0, <2>3 DEF KeysStand
    <3> QED BY <3>1, <3>2
  <2>10. KeysStand'
    BY <2>1, <2>8, <2>9 DEF KeysStand
  <2>11. ASSUME NEW j \in Instances, stage'[j] \in Standing \ {"unregistering"}
         PROVE  Arrived(j)'
    <3>1. Upto(j) = Len(typed) /\ Upto(j)' = Len(typed)
      BY <2>1 DEF Upto, OnItsWay
    <3>2. CASE j = i
      <4>1. taken'[j] = Len(typed) /\ queue'[j] = << >>
        BY <3>2, <2>1 DEF TypeOK, Fresh
      <4>2. SubSeq(typed, Len(typed) + 1, Len(typed)) = << >>
        BY <2>1, SubSeqEmpty
      <4> QED BY <2>1, <3>1, <4>1, <4>2 DEF Arrived
    <3>3. CASE j # i
      <4>1. Arrived(j)
        BY <3>3, <2>1, <2>3, <2>11, <1>0
      <4>2. taken'[j] = taken[j]
        BY <3>3 DEF TypeOK
      <4> QED BY <2>1, <3>1, <4>1, <4>2 DEF Arrived
    <3> QED BY <3>2, <3>3
  <2> QED BY <2>1, <2>4, <2>5, <2>6, <2>10, <2>11
<1>3. CASE Closes(i) \/ ClearsClients(i) \/ StartsJoin(i)
  <2> USE <1>3 DEF Closes, ClearsClients, StartsJoin, readerVars, triggerVars
  <2>1. /\ UNCHANGED <<at, typed, keys, queue, trigger, seq, taken, done, lapses, undefined>>
        /\ stage[i] \in {"running", "closed", "cleared"}
        /\ stage'[i] \in {"closed", "cleared", "joining"}
        /\ \A j \in Instances \ {i} : stage'[j] = stage[j]
        /\ stage' \in [Instances -> Stages]
    BY <1>0 DEF Stages
  <2>2. \A j \in Instances :
          /\ stage'[j] \in Standing <=> stage[j] \in Standing
          /\ stage'[j] \in {"registering", "unregistering"} <=> stage[j] \in {"registering", "unregistering"}
          /\ stage'[j] = "unregistering" <=> stage[j] = "unregistering"
    BY <2>1 DEF Standing
  <2>3. TypeOK'
    BY <2>1 DEF TypeOK
  <2>4. ThreadInsideKey' /\ Fresh'
    BY <2>1 DEF ThreadInsideKey, Fresh
  <2>5. KeysStand'
    BY <2>1, <2>2 DEF KeysStand, BeingChanged
  <2>6. ASSUME ~undefined, NEW j \in Instances, stage'[j] \in Standing \ {"unregistering"}
        PROVE  Arrived(j)'
    <3>1. Arrived(j)
      BY <2>6, <2>2
    <3> QED BY <2>1, <3>1 DEF Arrived, Upto, OnItsWay
  <2> QED BY <2>1, <2>3, <2>4, <2>5, <2>6
<1>4. CASE Unregistered(i)
  <2> USE <1>4 DEF Unregistered
  <2>1. /\ UNCHANGED <<at, typed, queue, trigger, seq, taken, done, lapses, undefined>>
        /\ stage[i] = "unregistering" /\ ~undefined /\ at = 0
        /\ stage' = [stage EXCEPT ![i] = "gone"]
    BY DEF readerVars, triggerVars, KeysStand, BeingChanged
  <2>2. PICK k \in 1 .. Len(keys) : keys[k] = i /\ keys' = RemoveAt(keys, k)
    OBVIOUS
  <2>3. /\ keys' \in Seq(Instances) /\ Len(keys') = Len(keys) - 1
        /\ \A n \in 1 .. Len(keys) - 1 : keys'[n] = IF n < k THEN keys[n] ELSE keys[n + 1]
    BY <1>0, <2>2, RemoveAtProperties
  <2>4. TypeOK'
    <3>1. stage' \in [Instances -> Stages]
      BY <1>0, <2>1 DEF Stages
    <3>2. at' \in 0 .. Len(keys')
      BY <1>0, <2>1, <2>2, <2>3
    <3> QED BY <2>1, <2>3, <3>1, <3>2 DEF TypeOK, readerVars, triggerVars
  <2>5. ThreadInsideKey' /\ Fresh'
    BY <1>0, <2>1 DEF ThreadInsideKey, Fresh
  <2>6. \A m, n \in 1 .. Len(keys) : keys[m] = keys[n] => m = n
    BY DEF KeysStand
  <2>7. ASSUME NEW m \in 1 .. Len(keys'), NEW n \in 1 .. Len(keys'), keys'[m] = keys'[n]
        PROVE  m = n
    <3> DEFINE a == IF m < k THEN m ELSE m + 1
               b == IF n < k THEN n ELSE n + 1
    <3>1. a \in 1 .. Len(keys) /\ b \in 1 .. Len(keys)
      BY <1>0, <2>2, <2>3
    <3>2. keys'[m] = keys[a] /\ keys'[n] = keys[b]
      BY <1>0, <2>2, <2>3
    <3>3. a = b
      <4> HIDE DEF a, b
      <4> QED BY <3>1, <3>2, <2>6, <2>7
    <3> QED BY <3>3, <2>2
  <2>8. ASSUME NEW j \in Instances
        PROVE  stage'[j] \in Standing <=> \E n \in 1 .. Len(keys') : keys'[n] = j
    <3>1. ASSUME NEW n \in 1 .. Len(keys')
          PROVE  \E m \in 1 .. Len(keys) : m # k /\ keys[m] = keys'[n]
      <4> DEFINE a == IF n < k THEN n ELSE n + 1
      <4>1. a \in 1 .. Len(keys) /\ a # k /\ keys'[n] = keys[a]
        BY <1>0, <2>2, <2>3
      <4> HIDE DEF a
      <4> QED BY <4>1
    <3>2. ASSUME NEW m \in 1 .. Len(keys), m # k
          PROVE  \E n \in 1 .. Len(keys') : keys'[n] = keys[m]
      <4> DEFINE a == IF m < k THEN m ELSE m - 1
      <4>1. a \in 1 .. Len(keys')
        BY <1>0, <2>2, <2>3, <3>2
      <4>2. keys'[a] = keys[m]
        BY <1>0, <2>2, <2>3, <3>2
      <4> HIDE DEF a
      <4> QED BY <4>1, <4>2
    <3>3. CASE j = i
      BY <3>1, <3>3, <1>0, <2>1, <2>2, <2>6 DEF Standing
    <3>4. CASE j # i
      <4>1. (\E n \in 1 .. Len(keys') : keys'[n] = j) => \E m \in 1 .. Len(keys) : keys[m] = j
        BY <3>1
      <4>2. ASSUME NEW m \in 1 .. Len(keys), keys[m] = j
            PROVE  \E n \in 1 .. Len(keys') : keys'[n] = j
        <5>1. m # k
          BY <3>4, <4>2, <2>2
        <5> QED BY <5>1, <4>2, <3>2
      <4>3. stage'[j] = stage[j]
        BY <3>4, <2>1
      <4> QED BY <4>1, <4>2, <4>3 DEF KeysStand
    <3> QED BY <3>3, <3>4
  <2>9. KeysStand'
    BY <2>1, <2>7, <2>8 DEF KeysStand
  <2>10. ASSUME NEW j \in Instances, stage'[j] \in Standing \ {"unregistering"}
         PROVE  Arrived(j)'
    <3>1. Upto(j) = Len(typed) /\ Upto(j)' = Len(typed)
      BY <2>1 DEF Upto, OnItsWay
    <3>2. Arrived(j)
      BY <2>1, <2>10, <1>0 DEF Standing
    <3> QED BY <2>1, <3>1, <3>2 DEF Arrived
  <2> QED BY <2>1, <2>4, <2>5, <2>9, <2>10
<1> QED BY <1>1, <1>2, <1>3, <1>4 DEF Lives

\* A trigger takes the first of what was pushed.
LEMMA TakesArrives ==
  ASSUME ArrivalInv, NEW i \in Instances, NEW late \in BOOLEAN, TakesKey(i, late)
  PROVE  /\ ArrivalInv'
         /\ Arrived(i) /\ stage[i] \in Standing \ {"unregistering"} => 
              taken[i] + 1 <= Len(typed) /\ Head(queue[i]) = typed[taken[i] + 1]
<1> USE DEF ArrivalInv, TakesKey, Turns, readerVars
<1> DEFINE k == Head(queue[i])
<1>1. /\ ~undefined /\ trigger[i] = "turning" /\ queue[i] # << >>
      /\ queue' = [queue EXCEPT ![i] = Tail(@)] /\ taken' = [taken EXCEPT ![i] = @ + 1]
      /\ UNCHANGED <<at, typed, keys, stage, trigger, since>>
  OBVIOUS
<1>2. queue[i] \in Seq(Keys) /\ typed \in Seq(Keys) /\ Len(typed) \in Nat /\ taken[i] \in Nat
  BY DEF TypeOK
<1>3. k \in Keys /\ Tail(queue[i]) \in Seq(Keys)
  BY <1>1, <1>2, HeadTailProperties
<1>4. stage[i] \notin {"hatching", "registering"}
  BY <1>1 DEF ThreadInsideKey
<1>5. /\ seq' = [seq EXCEPT ![i] = SequenceAfter(Current(i, late), k)]
      /\ DOMAIN done' = DOMAIN done /\ \A j \in Instances \ {i} : done'[j] = done[j]
      /\ undefined' \in BOOLEAN
  OBVIOUS
<1> HIDE DEF k
<1>6. SequenceAfter(Current(i, late), k) \in Seq(Letters)
  <2>1. Current(i, late) \in Seq(Letters)
    BY EmptySeq DEF Current, TypeOK
  <2> HIDE DEF Letters
  <2>2. << >> \in Seq(Letters)
    BY EmptySeq
  <2>3. k \in Letters => Append(Current(i, late), k) \in Seq(Letters)
    BY <2>1, AppendProperties
  <2> QED BY <2>1, <2>2, <2>3 DEF SequenceAfter
<1>7. lapses' \in [Instances -> SUBSET Nat] /\ \A j \in Instances \ {i} : lapses'[j] = lapses[j]
  BY <1>2 DEF Lapse, TypeOK
<1>8. TypeOK'
  <2>1. queue' \in [Instances -> Seq(Keys)]
    BY <1>1, <1>3 DEF TypeOK
  <2>2. taken' \in [Instances -> Nat]
    BY <1>1, <1>2 DEF TypeOK
  <2>3. seq' \in [Instances -> Seq(Letters)]
    BY <1>5, <1>6 DEF TypeOK
  <2> QED BY <1>1, <1>5, <1>7, <2>1, <2>2, <2>3 DEF TypeOK
<1>9. ThreadInsideKey' /\ Fresh'
  <2>1. \A j \in Instances \ {i} : queue'[j] = queue[j] /\ seq'[j] = seq[j]
    BY <1>1, <1>5 DEF TypeOK
  <2>2. ThreadInsideKey'
    BY <1>1 DEF ThreadInsideKey
  <2> QED BY <1>1, <1>4, <1>5, <1>7, <2>1, <2>2 DEF Fresh
<1>10. KeysStand'
  BY <1>1 DEF KeysStand, BeingChanged
<1>11. ASSUME Arrived(i), stage[i] \in Standing \ {"unregistering"}
       PROVE  Arrived(i)' /\ taken[i] + 1 <= Len(typed) /\ Head(queue[i]) = typed[taken[i] + 1]
  <2> DEFINE a == taken[i]
             b == Upto(i)
  <2>1. b \in a .. Len(typed) /\ a \in Nat /\ queue[i] = SubSeq(typed, a + 1, b)
    <3>1. b \in Int /\ b <= Len(typed)
      BY <1>2 DEF Upto
    <3> QED BY <3>1, <1>2, <1>11 DEF Arrived
  <2>2. Upto(i)' = b /\ taken'[i] = a + 1 /\ queue'[i] = Tail(queue[i])
    BY <1>1, <1>2 DEF Upto, OnItsWay, TypeOK
  <2> HIDE DEF a, b
  <2>3. /\ a + 1 <= b
        /\ Head(SubSeq(typed, a + 1, b)) = typed[a + 1]
        /\ Tail(SubSeq(typed, a + 1, b)) = SubSeq(typed, a + 2, b)
    BY <2>1, <1>1, <1>2, SubSeqPop
  <2>4. (a + 1) + 1 = a + 2 /\ a + 1 <= Len(typed)
    BY <2>1, <2>3, <1>2
  <2>5. Arrived(i)'
    BY <1>1, <2>1, <2>2, <2>3, <2>4 DEF Arrived
  <2> QED BY <2>1, <2>3, <2>4, <2>5 DEF a
<1>12. ASSUME NEW j \in Instances, stage'[j] \in Standing \ {"unregistering"}
       PROVE  Arrived(j)'
  <2>1. stage[j] \in Standing \ {"unregistering"} /\ Arrived(j)
    BY <1>1, <1>12
  <2>2. CASE j = i
    <3>1. Arrived(i)'
      BY <2>1, <2>2, <1>11
    <3> QED BY <3>1, <2>2 DEF Arrived, Upto, OnItsWay
  <2>3. CASE j # i
    <3>1. queue'[j] = queue[j] /\ taken'[j] = taken[j]
      BY <2>3, <1>1 DEF TypeOK
    <3> QED BY <3>1, <2>1, <1>1 DEF Arrived, Upto, OnItsWay
  <2> QED BY <2>2, <2>3
<1> QED BY <1>5, <1>8, <1>9, <1>10, <1>11, <1>12

\* The other turns of a trigger take nothing.
LEMMA ActsArrives == ASSUME ArrivalInv, NEW i \in Instances, Acts(i) PROVE ArrivalInv'
<1> USE DEF ArrivalInv
<1>1. CASE Stops(i)
  <2> USE <1>1 DEF Stops, readerVars
  <2>1. TypeOK'
    BY DEF TypeOK
  <2>2. ThreadInsideKey' /\ Fresh'
    BY DEF ThreadInsideKey, Fresh
  <2>3. KeysStand'
    BY DEF KeysStand, BeingChanged
  <2>4. \A j \in Instances : Arrived(j)' <=> Arrived(j)
    BY DEF Arrived, Upto, OnItsWay
  <2> QED BY <2>1, <2>2, <2>3, <2>4
<1>2. ASSUME NEW late \in BOOLEAN, FindsNoKey(i, late) PROVE ArrivalInv'
  <2> USE <1>2 DEF FindsNoKey, Turns, readerVars, GoesOnWithoutKey
  <2>1. Current(i, late) \in Seq(Letters)
    <3> HIDE DEF Letters
    <3> QED BY EmptySeq DEF Current, TypeOK
  <2>2. seq' = [seq EXCEPT ![i] = Current(i, late)] /\ ~undefined /\ trigger[i] = "turning"
    OBVIOUS
  <2>3. lapses' \in [Instances -> SUBSET Nat] /\ \A j \in Instances \ {i} : lapses'[j] = lapses[j]
    BY DEF Lapse, TypeOK
  <2>4. stage[i] \notin {"hatching", "registering"}
    BY <2>2 DEF ThreadInsideKey
  <2>5. TypeOK'
    <3>1. seq' \in [Instances -> Seq(Letters)]
      BY <2>1, <2>2 DEF TypeOK
    <3>2. undefined' \in BOOLEAN
      BY DEF KeyIsGone
    <3> QED BY <2>3, <3>1, <3>2 DEF TypeOK
  <2>6. ThreadInsideKey'
    BY DEF ThreadInsideKey
  <2>7. Fresh'
    <3>1. \A j \in Instances \ {i} : seq'[j] = seq[j]
      BY <2>2 DEF TypeOK
    <3> QED BY <3>1, <2>3, <2>4 DEF Fresh
  <2>8. KeysStand'
    BY <2>2 DEF KeysStand, BeingChanged
  <2>9. \A j \in Instances : Arrived(j)' <=> Arrived(j)
    BY DEF Arrived, Upto, OnItsWay
  <2> QED BY <2>2, <2>5, <2>6, <2>7, <2>8, <2>9
<1>3. ASSUME NEW late \in BOOLEAN, TakesKey(i, late) PROVE ArrivalInv'
  BY <1>3, TakesArrives
<1> QED BY <1>1, <1>2, <1>3 DEF Acts

\* The inductive step.
LEMMA ArrivalStep == ArrivalInv /\ [Next]_vars => ArrivalInv'
<1>1. ASSUME ArrivalInv, UNCHANGED vars PROVE ArrivalInv'
  <2> USE <1>1 DEF ArrivalInv, vars, readerVars, triggerVars
  <2>1. TypeOK'
    BY DEF TypeOK
  <2>2. ThreadInsideKey' /\ Fresh'
    BY DEF ThreadInsideKey, Fresh
  <2>3. KeysStand'
    BY DEF KeysStand, BeingChanged
  <2>4. \A j \in Instances : Arrived(j)' <=> Arrived(j)
    BY DEF Arrived, Upto, OnItsWay
  <2> QED BY <2>1, <2>2, <2>3, <2>4
<1> QED BY <1>1, ReadsArrives, PushesArrives, StopsReadingArrives, LivesArrives, ActsArrives DEF Next

\* Every instance gets every key read since it registered, in order, none twice and none
\* lost, whoever registers, ends or is slow meanwhile (game_key_core.h:113-117,
\* game_key.h:24-38).
THEOREM EveryKeyArrives == Spec => []KeysArrive
<1>1. ArrivalInv => KeysArrive
  BY DEF ArrivalInv, KeysArrive, Standing, Arrived, Upto
<1> QED BY <1>1, ArrivalInit, ArrivalStep, PTL DEF Spec

-----------------------------------------------------------------------------
(* Induction over data: the operator of the community modules that appends   *)
(* all sequences of a sequence.                                              *)

\* Induction over the natural numbers, for a set of them.
LEMMA SetInduction ==
  ASSUME NEW S \in SUBSET Nat, 0 \in S, \A n \in S : n + 1 \in S
  PROVE  S = Nat
<1>1. IsWellFoundedOn(OpToRel(<, Nat), Nat)
  BY NatLessThanWellFounded
<1> DEFINE R == {ss \in Nat \X Nat : ss[1] < ss[2]}
           T == Nat \ S
<1>2. IsWellFoundedOn(R, Nat)
  BY <1>1, Zenon DEF OpToRel
<1> SUFFICES ASSUME T # {} PROVE FALSE
  OBVIOUS
<1>3. \E x \in T : \A y \in T : <<y, x>> \notin R
  <2> HIDE DEF R, T
  <2>1. T \subseteq Nat
    BY DEF T
  <2> QED BY <1>2, <2>1, WFMin
<1>4. PICK x \in T : \A y \in T : ~(y < x)
  BY <1>3
<1>5. x - 1 \in S
  BY <1>4
<1> QED BY <1>5

\* The recursive function in FlattenSeq exists.
LEMMA FlattenExists ==
  ASSUME NEW t, NEW m \in Nat
  PROVE  \E g : /\ g = [i \in 1 .. m |-> g[i]]
                /\ \A i \in 1 .. m : g[i] = IF i = 1 THEN t[i] ELSE g[i - 1] \o t[i]
<1> DEFINE Rec(g, k) == /\ g = [i \in 1 .. k |-> g[i]]
                        /\ \A i \in 1 .. k : g[i] = IF i = 1 THEN t[i] ELSE g[i - 1] \o t[i]
           S == {k \in Nat : \E g : Rec(g, k)}
<1>1. 0 \in S
  <2> DEFINE e == [i \in 1 .. 0 |-> i]
  <2>1. e = [i \in 1 .. 0 |-> e[i]]
    OBVIOUS
  <2>2. Rec(e, 0)
    BY <2>1
  <2> HIDE DEF Rec
  <2> QED BY <2>2
<1>2. ASSUME NEW k \in S PROVE k + 1 \in S
  <2>1. PICK g : Rec(g, k)
    OBVIOUS
  <2>2. k \in Nat
    OBVIOUS
  <2> DEFINE next == IF k = 0 THEN t[1] ELSE g[k] \o t[k + 1]
             h == [i \in 1 .. k + 1 |-> IF i = k + 1 THEN next ELSE g[i]]
  <2>3. h = [i \in 1 .. k + 1 |-> h[i]]
    OBVIOUS
  <2>4. ASSUME NEW i \in 1 .. k + 1
        PROVE  h[i] = IF i = 1 THEN t[i] ELSE h[i - 1] \o t[i]
    <3>1. h[k + 1] = next
      BY <2>2
    <3>2. \A j \in 1 .. k : h[j] = g[j]
      BY <2>2
    <3> HIDE DEF h, S
    <3>3. CASE i = k + 1 /\ k = 0
      BY <3>1, <3>3
    <3>4. CASE i = k + 1 /\ k # 0
      <4>1. h[k] = g[k] /\ i # 1 /\ i - 1 = k
        BY <3>2, <3>4, <2>2
      <4> QED BY <3>1, <3>4, <4>1
    <3>5. CASE i # k + 1
      <4>1. i \in 1 .. k /\ (i # 1 => i - 1 \in 1 .. k)
        BY <3>5, <2>2
      <4>2. h[i] = g[i] /\ (i # 1 => h[i - 1] = g[i - 1])
        BY <4>1, <3>2
      <4>3. g[i] = IF i = 1 THEN t[i] ELSE g[i - 1] \o t[i]
        BY <4>1, <2>1
      <4> QED BY <4>2, <4>3
    <3> QED BY <3>3, <3>4, <3>5
  <2>5. Rec(h, k + 1)
    <3> HIDE DEF h
    <3> QED BY <2>3, <2>4
  <2>6. k + 1 \in Nat
    BY <2>2
  <2> HIDE DEF h, Rec
  <2> QED BY <2>5, <2>6
<1>3. S \in SUBSET Nat
  OBVIOUS
<1>4. S = Nat
  <2> HIDE DEF S
  <2> QED BY <1>1, <1>2, <1>3, SetInduction
<1> QED BY <1>4

\* What FlattenSeq returns, without its recursive function.
LEMMA FlattenDefined ==
  ASSUME NEW t, NEW m \in Nat, m # 0, Len(t) = m
  PROVE  \E f : /\ \A i \in 1 .. m : f[i] = IF i = 1 THEN t[i] ELSE f[i - 1] \o t[i]
                /\ FlattenSeq(t) = f[m]
<1> DEFINE Def(g) == g = [i \in 1 .. m |-> IF i = 1 THEN t[i] ELSE g[i - 1] \o t[i]]
           f == CHOOSE g : Def(g)
<1>1. PICK g : /\ g = [i \in 1 .. m |-> g[i]]
               /\ \A i \in 1 .. m : g[i] = IF i = 1 THEN t[i] ELSE g[i - 1] \o t[i]
  BY FlattenExists
<1>2. [i \in 1 .. m |-> g[i]] = [i \in 1 .. m |-> IF i = 1 THEN t[i] ELSE g[i - 1] \o t[i]]
  BY <1>1, Zenon
<1>3. Def(g)
  BY <1>1, <1>2, Zenon
<1>4. Def(f)
  <2> HIDE DEF Def
  <2> QED BY <1>3
<1>5. FlattenSeq(t) = f[m]
  BY Zenon DEF FlattenSeq
<1> HIDE DEF f
<1>6. ASSUME NEW i \in 1 .. m PROVE f[i] = IF i = 1 THEN t[i] ELSE f[i - 1] \o t[i]
  BY <1>4, Zenon
<1> QED BY <1>5, <1>6

\* One more sequence at the end.
LEMMA FlattenLast ==
  ASSUME NEW S, NEW m \in Nat, NEW t \in [1 .. m + 1 -> Seq(S)],
         NEW s, s = [i \in 1 .. m |-> t[i]]
  PROVE  /\ FlattenSeq(s) \in Seq(S)
         /\ FlattenSeq(t) = FlattenSeq(s) \o t[m + 1]
<1>1. Len(s) = m /\ Len(t) = m + 1
  OBVIOUS
<1>2. PICK f : /\ \A i \in 1 .. m + 1 : f[i] = IF i = 1 THEN t[i] ELSE f[i - 1] \o t[i]
               /\ FlattenSeq(t) = f[m + 1]
  <2>1. m + 1 \in Nat /\ m + 1 # 0
    OBVIOUS
  <2> QED BY <1>1, <2>1, FlattenDefined
<1>3. CASE m = 0
  <2>1. s = << >>
    BY <1>3
  <2>2. FlattenSeq(s) = << >>
    BY <2>1, Zenon DEF FlattenSeq
  <2>3. t[1] \in Seq(S) /\ 1 \in 1 .. m + 1 /\ m + 1 = 1
    BY <1>3
  <2>4. FlattenSeq(t) = t[1]
    BY <1>2, <2>3
  <2>5. << >> \o t[1] = t[1]
    BY <2>3
  <2> QED BY <2>2, <2>3, <2>4, <2>5
<1>4. CASE m # 0
  <2>1. PICK g : /\ \A i \in 1 .. m : g[i] = IF i = 1 THEN s[i] ELSE g[i - 1] \o s[i]
                 /\ FlattenSeq(s) = g[m]
    <3>1. ASSUME NEW r, Len(r) = m
          PROVE  \E g : /\ \A i \in 1 .. m : g[i] = IF i = 1 THEN r[i] ELSE g[i - 1] \o r[i]
                        /\ FlattenSeq(r) = g[m]
      BY <1>4, <3>1, FlattenDefined
    <3> QED BY <1>1, <3>1, Zenon
  <2> DEFINE T == {k \in Nat : k + 1 \in 1 .. m => f[k + 1] = g[k + 1] /\ f[k + 1] \in Seq(S)}
  <2>2. f[1] = g[1] /\ f[1] \in Seq(S)
    <3>1. 1 \in 1 .. m /\ 1 \in 1 .. m + 1
      BY <1>4
    <3>2. f[1] = t[1] /\ g[1] = s[1] /\ s[1] = t[1] /\ t[1] \in Seq(S)
      BY <3>1, <1>2, <2>1
    <3> QED BY <3>2
  <2>3. 0 \in T
    BY <2>2
  <2>4. ASSUME NEW k \in T PROVE k + 1 \in T
    <3> SUFFICES ASSUME k + 2 \in 1 .. m PROVE f[k + 2] = g[k + 2] /\ f[k + 2] \in Seq(S)
      OBVIOUS
    <3>1. k \in Nat
      OBVIOUS
    <3>2. f[k + 1] = g[k + 1] /\ f[k + 1] \in Seq(S)
      BY <3>1
    <3> DEFINE i == k + 2
    <3>3. i \in 1 .. m /\ i \in 1 .. m + 1 /\ i # 1 /\ i - 1 = k + 1
      BY <3>1
    <3> HIDE DEF T, i
    <3>4. f[i] = f[k + 1] \o t[i] /\ g[i] = g[k + 1] \o s[i] /\ s[i] = t[i] /\ t[i] \in Seq(S)
      BY <1>2, <2>1, <3>3
    <3>5. f[i] = g[i]
      BY <3>2, <3>4, Zenon
    <3>6. f[k + 1] \o t[i] \in Seq(S)
      BY <3>2, <3>4, ConcatProperties
    <3>7. f[i] \in Seq(S)
      BY <3>4, <3>6, Zenon
    <3> QED BY <3>5, <3>7 DEF i
  <2>5. T \in SUBSET Nat
    OBVIOUS
  <2>6. T = Nat
    <3> HIDE DEF T
    <3> QED BY <2>3, <2>4, <2>5, SetInduction
  <2>7. m - 1 \in Nat /\ (m - 1) + 1 = m /\ m \in 1 .. m
    BY <1>4
  <2>8. f[m] = g[m] /\ f[m] \in Seq(S)
    <3>1. m - 1 \in T
      BY <2>6, <2>7
    <3> QED BY <3>1, <2>7
  <2>9. f[m + 1] = f[m] \o t[m + 1]
    <3> DEFINE i == m + 1
    <3>1. i \in 1 .. m + 1 /\ i # 1 /\ i - 1 = m
      BY <1>4
    <3> HIDE DEF i
    <3>2. f[i] = f[m] \o t[i]
      BY <3>1, <1>2
    <3> QED BY <3>2 DEF i
  <2> QED BY <1>2, <2>1, <2>8, <2>9
<1> QED BY <1>3, <1>4

-----------------------------------------------------------------------------
(* Every command is what was typed.                                         *)

\* s is made of the letters of t at the places L.
SpelledBy(t, s, L) ==
  \E f \in [1 .. Len(s) -> L] :
    /\ \A a, b \in 1 .. Len(s) : f[a] = f[b] => a = b
    /\ \A l \in L : \E a \in 1 .. Len(s) : f[a] = l
    /\ \A a \in 1 .. Len(s) : t[f[a]] = s[a]

\* What the keys mean that i has taken.
Meant(i) == [n \in 1 .. taken[i] - since[i] |-> Meaning(i, since[i] + n)]

\* What a running trigger has done, and what it remembers, is given by what was typed.
ActsAsTyped(i) ==
  /\ since[i] <= taken[i]
  /\ lapses[i] \subseteq 0 .. taken[i]
  /\ SpelledBy(typed, seq[i], LettersBefore(i, taken[i] + 1))
  /\ done[i] = FlattenSeq(Meant(i))

CommandInv ==
  /\ ArrivalInv
  /\ ~undefined => \A i \in Instances : stage[i] = "running" => ActsAsTyped(i)

\* No letters, and one more.
LEMMA SpelledEmpty == \A t : SpelledBy(t, << >>, {})
<1> SUFFICES ASSUME NEW t PROVE SpelledBy(t, << >>, {})
  OBVIOUS
<1> DEFINE f == [a \in 1 .. 0 |-> a]
<1>1. f \in [1 .. Len(<< >>) -> {}]
  OBVIOUS
<1> HIDE DEF f
<1> QED BY <1>1 DEF SpelledBy

LEMMA SpelledMore ==
  ASSUME NEW t, NEW S, NEW s \in Seq(S), NEW L, NEW n, n \notin L, t[n] \in S, SpelledBy(t, s, L)
  PROVE  SpelledBy(t, Append(s, t[n]), L \union {n})
<1> DEFINE m == Len(s)
           r == Append(s, t[n])
<1>1. m \in Nat /\ Len(r) = m + 1 /\ r[m + 1] = t[n] /\ \A a \in 1 .. m : r[a] = s[a]
  BY AppendProperties
<1>2. PICK f \in [1 .. m -> L] :
        /\ \A a, b \in 1 .. m : f[a] = f[b] => a = b
        /\ \A l \in L : \E a \in 1 .. m : f[a] = l
        /\ \A a \in 1 .. m : t[f[a]] = s[a]
  BY DEF SpelledBy
<1> HIDE DEF m, r
<1> DEFINE g == [a \in 1 .. m + 1 |-> IF a = m + 1 THEN n ELSE f[a]]
<1>3. g \in [1 .. m + 1 -> L \union {n}]
  BY <1>1, <1>2
<1>4. g[m + 1] = n /\ \A a \in 1 .. m : g[a] = f[a] /\ f[a] \in L
  BY <1>1, <1>2
<1>5. \A a \in 1 .. m + 1 : a \in 1 .. m \/ a = m + 1
  BY <1>1
<1>6. \A a \in 1 .. m : a \in 1 .. m + 1
  BY <1>1
<1> HIDE DEF g
<1>7. ASSUME NEW a \in 1 .. m + 1, NEW b \in 1 .. m + 1, g[a] = g[b] PROVE a = b
  BY <1>2, <1>4, <1>5, <1>7
<1>8. ASSUME NEW l \in L \union {n} PROVE \E a \in 1 .. m + 1 : g[a] = l
  <2>1. CASE l = n
    <3>1. m + 1 \in 1 .. m + 1
      BY <1>1
    <3> QED BY <2>1, <3>1, <1>4
  <2>2. CASE l \in L
    BY <2>2, <1>2, <1>4, <1>6
  <2> QED BY <2>1, <2>2
<1>9. ASSUME NEW a \in 1 .. m + 1 PROVE t[g[a]] = r[a]
  <2>1. CASE a = m + 1
    BY <2>1, <1>1, <1>4
  <2>2. CASE a \in 1 .. m
    BY <2>2, <1>1, <1>2, <1>4
  <2> QED BY <2>1, <2>2, <1>5
<1>10. Len(r) = m + 1
  BY <1>1
<1>11. /\ g \in [1 .. Len(r) -> L \union {n}]
       /\ \A a, b \in 1 .. Len(r) : g[a] = g[b] => a = b
       /\ \A l \in L \union {n} : \E a \in 1 .. Len(r) : g[a] = l
       /\ \A a \in 1 .. Len(r) : t[g[a]] = r[a]
  BY <1>3, <1>7, <1>8, <1>9, <1>10
<1> QED BY <1>11, Zenon DEF SpelledBy, r

\* Whether there is none, or exactly one, can be told from the places.
Exactly(t, L, k) == \E l \in L : L = {l} /\ t[l] = k

LEMMA SpelledNone ==
  ASSUME NEW t, NEW s \in Seq(Letters), NEW L, SpelledBy(t, s, L)
  PROVE  (s = << >>) <=> (L = {})
<1>1. PICK f \in [1 .. Len(s) -> L] : \A l \in L : \E a \in 1 .. Len(s) : f[a] = l
  BY DEF SpelledBy
<1>2. Len(s) \in Nat
  OBVIOUS
<1>3. s = << >> => L = {}
  BY <1>1
<1>4. L = {} => s = << >>
  <2>1. Len(s) # 0 => f[1] \in L
    BY <1>1, <1>2
  <2> QED BY <2>1, <1>2, EmptySeq
<1> QED BY <1>3, <1>4

LEMMA SpelledOne ==
  ASSUME NEW t, NEW s \in Seq(Letters), NEW L, SpelledBy(t, s, L), NEW k
  PROVE  (s = <<k>>) <=> Exactly(t, L, k)
<1>1. PICK f \in [1 .. Len(s) -> L] :
        /\ \A a, b \in 1 .. Len(s) : f[a] = f[b] => a = b
        /\ \A l \in L : \E a \in 1 .. Len(s) : f[a] = l
        /\ \A a \in 1 .. Len(s) : t[f[a]] = s[a]
  BY DEF SpelledBy
<1>2. Len(s) \in Nat
  OBVIOUS
<1>3. ASSUME s = <<k>> PROVE Exactly(t, L, k)
  <2>1. Len(s) = 1 /\ s[1] = k
    BY <1>3
  <2>2. 1 \in 1 .. Len(s) /\ \A a \in 1 .. Len(s) : a = 1
    BY <2>1
  <2>3. f[1] \in L /\ t[f[1]] = k /\ \A l \in L : f[1] = l
    BY <2>1, <2>2, <1>1
  <2>4. L = {f[1]}
    BY <2>3
  <2> QED BY <2>3, <2>4 DEF Exactly
<1>4. ASSUME NEW l \in L, L = {l}, t[l] = k PROVE s = <<k>>
  <2>1. Len(s) # 0
    BY <1>1, <1>2
  <2>2. 1 \in 1 .. Len(s) /\ Len(s) \in 1 .. Len(s)
    BY <2>1, <1>2
  <2>3. f[1] = l /\ f[Len(s)] = l
    BY <2>2, <1>1, <1>4
  <2>4. Len(s) = 1
    <3> DEFINE m == Len(s)
    <3>1. 1 \in 1 .. m /\ m \in 1 .. m /\ f[1] = f[m]
      BY <2>2, <2>3
    <3>2. \A a, b \in 1 .. m : f[a] = f[b] => a = b
      BY <1>1
    <3> HIDE DEF m
    <3>3. m = 1
      BY <3>1, <3>2
    <3> QED BY <3>3 DEF m
  <2>5. s[1] = k
    BY <2>2, <2>3, <1>1, <1>4
  <2>6. k \in Letters
    BY <2>2, <2>5
  <2> QED BY <2>4, <2>5, <2>6, SeqEqual
<1> QED BY <1>3, <1>4 DEF Exactly

\* What a key means is a sequence of commands.
Commands == [op : {"PauseAll", "ResumeAll", "Play", "Close", "Connect"}, of : Nat]

LEMMA NumberTyped == \A k \in Digits : Number(k) \in Nat
  BY DEF Digits, Number

LEMMA MeaningTyped == \A i, n : Meaning(i, n) \in Seq(Commands)
<1> SUFFICES ASSUME NEW i, NEW n PROVE Meaning(i, n) \in Seq(Commands)
  OBVIOUS
<1>1. << >> \in Seq(Commands)
  BY EmptySeq
<1>2. ASSUME NEW op \in {"PauseAll", "ResumeAll", "Play", "Close", "Connect"}, NEW of \in Nat
      PROVE  Command(op, of) \in Seq(Commands)
  <2>1. [op |-> op, of |-> of] \in Commands
    BY DEF Commands
  <2> QED BY <2>1 DEF Command
<1> DEFINE k == typed[n]
           number == Number(k)
<1>3. k \in Digits => number \in Nat
  BY NumberTyped
<1>4. Command("PauseAll", 0) \in Seq(Commands) /\ Command("ResumeAll", 0) \in Seq(Commands)
  BY <1>2
<1>5. k \in Digits => /\ Command("Play", number) \in Seq(Commands)
                      /\ Command("Close", number) \in Seq(Commands)
                      /\ Command("Connect", number) \in Seq(Commands)
  <2> HIDE DEF number
  <2> QED BY <1>2, <1>3
<1>6. \/ Meaning(i, n) \in {Command("PauseAll", 0), Command("ResumeAll", 0), << >>}
      \/ k \in Digits /\ Meaning(i, n) \in {Command("Play", number), Command("Close", number),
                                            Command("Connect", number)}
  BY DEF Meaning
<1> HIDE DEF k, number
<1> QED BY <1>1, <1>4, <1>5, <1>6

\* The trigger does what the key means, if it remembers the letters before it.
LEMMA CommandMeant ==
  ASSUME NEW i, NEW n, NEW s \in Seq(Letters), stage[i] = "running",
         SpelledBy(typed', s, LettersBefore(i, n)')
  PROVE  CommandsFor(i, s, typed'[n]) = Meaning(i, n)'
<1> DEFINE t == typed'
           k == t[n]
           L == LettersBefore(i, n)'
           number == Number(k)
<1>1. Meaning(i, n)' =
        CASE k = "s" -> Command("PauseAll", 0)
          [] k = "S" -> Command("ResumeAll", 0)
          [] k \in Digits /\ L = {} /\ number < Voices -> Command("Play", number)
          [] k \in Digits /\ Exactly(t, L, "q") /\ number < Vcs -> Command("Close", number)
          [] k \in Digits /\ Exactly(t, L, "Q") /\ number < Vcs -> Command("Connect", number)
          [] OTHER -> << >>
  <2>1. After(i, n, "q")' <=> Exactly(t, L, "q")
    BY DEF After, Exactly
  <2>2. After(i, n, "Q")' <=> Exactly(t, L, "Q")
    BY DEF After, Exactly
  <2>3. Meaning(i, n)' =
          CASE k = "s" -> Command("PauseAll", 0)
            [] k = "S" -> Command("ResumeAll", 0)
            [] k \in Digits /\ L = {} /\ number < Voices -> Command("Play", number)
            [] k \in Digits /\ After(i, n, "q")' /\ number < Vcs -> Command("Close", number)
            [] k \in Digits /\ After(i, n, "Q")' /\ number < Vcs -> Command("Connect", number)
            [] OTHER -> << >>
    BY DEF Meaning
  <2> HIDE DEF k, L, number, t
  <2> QED BY <2>1, <2>2, <2>3
<1>2. CommandsFor(i, s, k) =
        CASE k = "s" -> Command("PauseAll", 0)
          [] k = "S" -> Command("ResumeAll", 0)
          [] k \in Digits /\ s = << >> /\ number < Voices -> Command("Play", number)
          [] k \in Digits /\ s = <<"q">> /\ number < ClientsOf(i) -> Command("Close", number)
          [] k \in Digits /\ s = <<"Q">> /\ number < ClientsOf(i) -> Command("Connect", number)
          [] OTHER -> << >>
  BY Zenon DEF CommandsFor
<1>3. ClientsOf(i) = Vcs
  BY DEF ClientsOf
<1>4. SpelledBy(t, s, L)
  OBVIOUS
<1> HIDE DEF k, L, number, t
<1>5. (s = << >>) <=> (L = {})
  BY <1>4, SpelledNone
<1>6. (s = <<"q">>) <=> Exactly(t, L, "q")
  BY <1>4, SpelledOne
<1>7. (s = <<"Q">>) <=> Exactly(t, L, "Q")
  BY <1>4, SpelledOne
<1>8. CommandsFor(i, s, k) = Meaning(i, n)'
  BY <1>1, <1>2, <1>3, <1>5, <1>6, <1>7
<1> QED BY <1>8 DEF k, t

\* Lapses and keys from the n-th on do not change what stands before it.
LEMMA LettersKept ==
  ASSUME NEW i, NEW n \in Nat, since[i] \in Nat, since'[i] = since[i],
         \A l \in 1 .. n - 1 : typed'[l] = typed[l],
         \A m \in 0 .. n - 1 : m \in lapses'[i] <=> m \in lapses[i]
  PROVE  LettersBefore(i, n)' = LettersBefore(i, n)
<1>1. ASSUME NEW l \in since[i] + 1 .. n - 1
      PROVE  l \in LettersBefore(i, n)' <=> l \in LettersBefore(i, n)
  <2>1. typed'[l] = typed[l]
    OBVIOUS
  <2>2. \A m \in l + 1 .. n - 1 : typed'[m] = typed[m]
    OBVIOUS
  <2>3. \A m \in l .. n - 1 : m \in lapses'[i] <=> m \in lapses[i]
    OBVIOUS
  <2> QED BY <2>1, <2>2, <2>3 DEF LettersBefore
<1>2. /\ LettersBefore(i, n)' \subseteq since[i] + 1 .. n - 1
      /\ LettersBefore(i, n) \subseteq since[i] + 1 .. n - 1
  BY DEF LettersBefore
<1> QED BY <1>1, <1>2

\* Nor what it means.
LEMMA MeaningKept ==
  ASSUME NEW i, NEW n \in Nat \ {0}, since[i] \in Nat, since'[i] = since[i],
         \A l \in 1 .. n : typed'[l] = typed[l],
         \A m \in 0 .. n - 1 : m \in lapses'[i] <=> m \in lapses[i]
  PROVE  Meaning(i, n)' = Meaning(i, n)
<1>1. LettersBefore(i, n)' = LettersBefore(i, n)
  BY LettersKept
<1>2. typed'[n] = typed[n]
  OBVIOUS
<1>3. \A l \in LettersBefore(i, n) : typed'[l] = typed[l]
  BY DEF LettersBefore
<1>4. (After(i, n, "q")' <=> After(i, n, "q")) /\ (After(i, n, "Q")' <=> After(i, n, "Q"))
  BY <1>1, <1>3 DEF After
<1> QED BY <1>1, <1>2, <1>4 DEF Meaning

\* What has been done stays what was meant while nothing is taken.
LEMMA StaysAsTyped ==
  ASSUME ArrivalInv, NEW i \in Instances, ActsAsTyped(i),
         UNCHANGED <<seq[i], since[i], taken[i], lapses[i], done[i]>>,
         \A l \in 1 .. taken[i] : typed'[l] = typed[l]
  PROVE  ActsAsTyped(i)'
<1>1. since[i] \in Nat /\ taken[i] \in Nat /\ since[i] <= taken[i]
  BY DEF ArrivalInv, TypeOK, ActsAsTyped
<1> DEFINE n == taken[i] + 1
<1>2. LettersBefore(i, n)' = LettersBefore(i, n)
  <2>1. n \in Nat /\ n - 1 = taken[i] /\ n' = n
    BY <1>1
  <2> HIDE DEF n
  <2>2. \A l \in 1 .. n - 1 : typed'[l] = typed[l]
    BY <2>1
  <2> QED BY <1>1, <2>1, <2>2, LettersKept
<1>3. SpelledBy(typed', seq'[i], LettersBefore(i, n))
  <2>1. SpelledBy(typed, seq[i], LettersBefore(i, n))
    BY DEF ActsAsTyped
  <2>2. \A l \in LettersBefore(i, n) : typed'[l] = typed[l]
    BY <1>1 DEF LettersBefore
  <2> HIDE DEF n
  <2> QED BY <2>1, <2>2 DEF SpelledBy
<1>4. Meant(i)' = Meant(i)
  <2>1. ASSUME NEW j \in 1 .. taken[i] - since[i]
        PROVE  Meaning(i, since[i] + j)' = Meaning(i, since[i] + j)
    <3> DEFINE m == since[i] + j
    <3>1. m \in Nat \ {0} /\ m <= taken[i] /\ m' = m
      BY <1>1
    <3> HIDE DEF m
    <3>2. \A l \in 1 .. m : typed'[l] = typed[l]
      BY <1>1, <3>1
    <3>3. Meaning(i, m)' = Meaning(i, m)
      BY <1>1, <3>1, <3>2, MeaningKept
    <3> QED BY <3>3 DEF m
  <2> QED BY <2>1 DEF Meant
<1> QED BY <1>2, <1>3, <1>4 DEF ActsAsTyped

\* What a trigger gives for a key is a sequence of commands as well.
LEMMA CommandsTyped == \A i, s, k : CommandsFor(i, s, k) \in Seq(Commands)
<1> SUFFICES ASSUME NEW i, NEW s, NEW k PROVE CommandsFor(i, s, k) \in Seq(Commands)
  OBVIOUS
<1> DEFINE number == Number(k)
<1>1. ASSUME NEW op \in {"PauseAll", "ResumeAll", "Play", "Close", "Connect"}, NEW of \in Nat
      PROVE  Command(op, of) \in Seq(Commands)
  <2>1. [op |-> op, of |-> of] \in Commands
    BY DEF Commands
  <2> QED BY <2>1 DEF Command
<1>2. << >> \in Seq(Commands)
  BY EmptySeq
<1>3. Command("PauseAll", 0) \in Seq(Commands) /\ Command("ResumeAll", 0) \in Seq(Commands)
  BY <1>1
<1>4. k \in Digits => /\ Command("Play", number) \in Seq(Commands)
                      /\ Command("Close", number) \in Seq(Commands)
                      /\ Command("Connect", number) \in Seq(Commands)
  <2>1. k \in Digits => number \in Nat
    BY NumberTyped
  <2> HIDE DEF number
  <2> QED BY <1>1, <2>1
<1>5. \/ CommandsFor(i, s, k) \in {Command("PauseAll", 0), Command("ResumeAll", 0), << >>}
      \/ k \in Digits /\ CommandsFor(i, s, k) \in {Command("Play", number),
                           Command("Close", number), Command("Connect", number)}
  <2> DEFINE none == s = << >>
             q == s = <<"q">>
             Q == s = <<"Q">>
  <2>1. CommandsFor(i, s, k) =
          CASE k = "s" -> Command("PauseAll", 0)
            [] k = "S" -> Command("ResumeAll", 0)
            [] k \in Digits /\ none /\ number < Voices -> Command("Play", number)
            [] k \in Digits /\ q /\ number < ClientsOf(i) -> Command("Close", number)
            [] k \in Digits /\ Q /\ number < ClientsOf(i) -> Command("Connect", number)
            [] OTHER -> << >>
    BY Zenon DEF CommandsFor
  <2> HIDE DEF none, q, Q, number
  <2> QED BY <2>1
<1> HIDE DEF number
<1> QED BY <1>2, <1>3, <1>4, <1>5

\* The letters before the key after the n-th.
LEMMA LettersNext ==
  ASSUME NEW i, NEW n \in Nat, since'[i] \in Nat, since'[i] < n, n \notin lapses'[i]
  PROVE  LettersBefore(i, n + 1)' =
           IF typed'[n] \in Letters THEN LettersBefore(i, n)' \union {n}
           ELSE IF typed'[n] \in Digits THEN {} ELSE LettersBefore(i, n)'
<1> DEFINE t == typed'
           a == since'[i]
           B == lapses'[i]
           Old(l) == /\ t[l] \in Letters
                     /\ \A m \in l + 1 .. n - 1 : t[m] \notin Digits
                     /\ \A m \in l .. n - 1 : m \notin B
           New(l) == /\ t[l] \in Letters
                     /\ \A m \in l + 1 .. n : t[m] \notin Digits
                     /\ \A m \in l .. n : m \notin B
<1>1. LettersBefore(i, n)' = {l \in a + 1 .. n - 1 : Old(l)}
  BY DEF LettersBefore
<1>2. LettersBefore(i, n + 1)' = {l \in a + 1 .. n : New(l)}
  <2>1. LettersBefore(i, n + 1)' = {l \in a + 1 .. (n + 1) - 1 :
           /\ t[l] \in Letters
           /\ \A m \in l + 1 .. (n + 1) - 1 : t[m] \notin Digits
           /\ \A m \in l .. (n + 1) - 1 : m \notin B}
    BY DEF LettersBefore
  <2>2. (n + 1) - 1 = n
    OBVIOUS
  <2> QED BY <2>1, <2>2
<1>3. Letters \intersect Digits = {}
  BY DEF Letters, Digits
<1>4. a \in Nat /\ a < n /\ n \notin B /\ n \in a + 1 .. n
  OBVIOUS
<1> HIDE DEF t, a, B
<1>5. New(n) <=> t[n] \in Letters
  BY <1>4
<1>6. ASSUME NEW l \in a + 1 .. n - 1 PROVE New(l) <=> Old(l) /\ t[n] \notin Digits
  <2>1. \A m : m \in l + 1 .. n <=> m \in l + 1 .. n - 1 \/ m = n
    BY <1>4
  <2>2. \A m : m \in l .. n <=> m \in l .. n - 1 \/ m = n
    BY <1>4
  <2> QED BY <2>1, <2>2, <1>4
<1>7. \A l : l \in a + 1 .. n <=> l \in a + 1 .. n - 1 \/ l = n
  BY <1>4
<1> HIDE DEF Old, New
<1>8. {l \in a + 1 .. n : New(l)} =
        IF t[n] \in Letters THEN {l \in a + 1 .. n - 1 : Old(l)} \union {n}
        ELSE IF t[n] \in Digits THEN {} ELSE {l \in a + 1 .. n - 1 : Old(l)}
  <2>1. CASE t[n] \in Letters
    BY <2>1, <1>3, <1>5, <1>6, <1>7
  <2>2. CASE t[n] \notin Letters /\ t[n] \in Digits
    BY <2>2, <1>5, <1>6, <1>7
  <2>3. CASE t[n] \notin Letters /\ t[n] \notin Digits
    BY <2>3, <1>5, <1>6, <1>7
  <2> QED BY <2>1, <2>2, <2>3
<1> QED BY <1>1, <1>2, <1>8 DEF t

\* A lapse forgets the letters before the next key, and changes no key before it.
LEMMA LapseSpells ==
  ASSUME ArrivalInv, NEW i \in Instances, ActsAsTyped(i), NEW late \in BOOLEAN,
         Lapse(i, late), UNCHANGED <<typed, since>>, NEW n, n = taken[i] + 1
  PROVE  /\ SpelledBy(typed', Current(i, late), LettersBefore(i, n)')
         /\ lapses'[i] \subseteq 0 .. taken[i]
         /\ \A m \in since[i] + 1 .. taken[i] : Meaning(i, m)' = Meaning(i, m)
<1>1. /\ since[i] \in Nat /\ taken[i] \in Nat /\ n \in Nat /\ n - 1 = taken[i]
      /\ lapses \in [Instances -> SUBSET Nat] /\ lapses[i] \subseteq 0 .. taken[i]
  <2>1. since[i] \in Nat /\ taken[i] \in Nat /\ lapses \in [Instances -> SUBSET Nat]
    BY DEF ArrivalInv, TypeOK
  <2>2. lapses[i] \subseteq 0 .. taken[i]
    BY Zenon DEF ActsAsTyped
  <2> QED BY <2>1, <2>2
<1>2. \/ late /\ seq[i] # << >> /\ lapses'[i] = lapses[i] \union {taken[i]} /\ Current(i, late) = << >>
      \/ lapses'[i] = lapses[i] /\ Current(i, late) = seq[i]
  BY <1>1 DEF Lapse, Current
<1>3. lapses'[i] \subseteq 0 .. taken[i] /\ lapses[i] \subseteq lapses'[i]
      /\ lapses'[i] \subseteq lapses[i] \union {taken[i]}
  BY <1>1, <1>2
<1>4. SpelledBy(typed', Current(i, late), LettersBefore(i, n)')
  <2>1. CASE lapses'[i] = lapses[i] \union {taken[i]} /\ Current(i, late) = << >>
    <3>1. taken[i] \in lapses'[i] /\ \A l \in since[i] + 1 .. n - 1 : taken[i] \in l .. n - 1
      BY <2>1, <1>1
    <3>2. LettersBefore(i, n)' = {}
      BY <3>1 DEF LettersBefore
    <3>3. SpelledBy(typed', << >>, {})
      BY SpelledEmpty
    <3> QED BY <3>2, <3>3, <2>1
  <2>2. CASE lapses'[i] = lapses[i] /\ Current(i, late) = seq[i]
    <3>1. LettersBefore(i, n)' = LettersBefore(i, n)
      BY <2>2, <1>1, LettersKept
    <3>2. SpelledBy(typed, seq[i], LettersBefore(i, n))
      BY DEF ActsAsTyped
    <3> QED BY <3>1, <3>2, <2>2
  <2> QED BY <1>2, <2>1, <2>2
<1>5. ASSUME NEW m \in since[i] + 1 .. taken[i] PROVE Meaning(i, m)' = Meaning(i, m)
  <2>1. m \in Nat \ {0} /\ since'[i] = since[i] /\ \A l \in 1 .. m : typed'[l] = typed[l]
    BY <1>1
  <2>2. \A x \in 0 .. m - 1 : x \in lapses'[i] <=> x \in lapses[i]
    BY <1>1, <1>3
  <2> QED BY <2>1, <2>2, <1>1, MeaningKept
<1> QED BY <1>3, <1>4, <1>5

\* Finding no key, a trigger may have forgotten letters.
LEMMA FindsAsTyped ==
  ASSUME ArrivalInv, NEW i \in Instances, ActsAsTyped(i), NEW late \in BOOLEAN,
         FindsNoKey(i, late)
  PROVE  ActsAsTyped(i)'
<1> DEFINE n == taken[i] + 1
<1>1. /\ UNCHANGED <<typed, since, taken, done>> /\ Lapse(i, late)
      /\ seq'[i] = Current(i, late) /\ n' = n
      /\ since[i] \in Nat /\ taken[i] \in Nat /\ since[i] <= taken[i]
  <2>1. since[i] \in Nat /\ taken[i] \in Nat /\ i \in DOMAIN seq
    BY DEF ArrivalInv, TypeOK
  <2>2. since[i] <= taken[i]
    BY Zenon DEF ActsAsTyped
  <2> QED BY <2>1, <2>2 DEF FindsNoKey, readerVars
<1>2. /\ SpelledBy(typed', Current(i, late), LettersBefore(i, n)')
      /\ lapses'[i] \subseteq 0 .. taken[i]
      /\ \A m \in since[i] + 1 .. taken[i] : Meaning(i, m)' = Meaning(i, m)
  <2> HIDE DEF n
  <2>1. n = taken[i] + 1
    BY DEF n
  <2> QED BY <1>1, <2>1, LapseSpells
<1>3. Meant(i)' = Meant(i)
  <2>1. ASSUME NEW j \in 1 .. taken[i] - since[i]
        PROVE  Meaning(i, since[i] + j)' = Meaning(i, since[i] + j)
    <3> DEFINE m == since[i] + j
    <3>1. m \in since[i] + 1 .. taken[i] /\ m' = m
      BY <1>1
    <3> HIDE DEF m
    <3>2. Meaning(i, m)' = Meaning(i, m)
      BY <1>2, <3>1
    <3> QED BY <3>1, <3>2 DEF m
  <2> QED BY <1>1, <2>1 DEF Meant
<1>4. done[i] = FlattenSeq(Meant(i))
  BY Zenon DEF ActsAsTyped
<1>5. SpelledBy(typed', seq'[i], LettersBefore(i, taken[i] + 1)')
  BY <1>1, <1>2
<1> QED BY <1>1, <1>2, <1>3, <1>4, <1>5 DEF ActsAsTyped

\* Taking one, it remembers or forgets what the key says, and does what the key means.
LEMMA TakesAsTyped ==
  ASSUME ArrivalInv, NEW i \in Instances, ActsAsTyped(i), stage[i] = "running",
         NEW late \in BOOLEAN, TakesKey(i, late), NEW n, n = taken[i] + 1
  PROVE  ActsAsTyped(i)'
<1> DEFINE k == typed[n]
           s == Current(i, late)
<1>1. /\ UNCHANGED <<typed, since>> /\ Lapse(i, late)
      /\ since[i] \in Nat /\ taken[i] \in Nat /\ since[i] <= taken[i]
      /\ taken'[i] = n /\ n \in Nat /\ n - 1 = taken[i] /\ since[i] < n
  <2>1. since[i] \in Nat /\ taken[i] \in Nat /\ taken \in [Instances -> Nat]
    BY DEF ArrivalInv, TypeOK
  <2>2. since[i] <= taken[i]
    BY Zenon DEF ActsAsTyped
  <2> QED BY <2>1, <2>2 DEF TakesKey, readerVars
<1>2. Head(queue[i]) = k
  <2>1. stage[i] \in Standing \ {"unregistering"} /\ ~undefined
    BY DEF Standing, TakesKey, Turns
  <2>2. Arrived(i)
    BY <2>1 DEF ArrivalInv
  <2> QED BY <2>1, <2>2, TakesArrives
<1>3. /\ seq'[i] = SequenceAfter(s, k)
      /\ done'[i] = done[i] \o CommandsFor(i, s, k)
  <2>1. i \in DOMAIN seq /\ i \in DOMAIN done
    BY DEF ArrivalInv, TypeOK
  <2> QED BY <1>2, <2>1 DEF TakesKey
<1>4. s \in Seq(Letters)
  BY EmptySeq DEF ArrivalInv, TypeOK, Current
<1> HIDE DEF s
<1>5. /\ SpelledBy(typed', s, LettersBefore(i, n)')
      /\ lapses'[i] \subseteq 0 .. taken[i]
      /\ \A m \in since[i] + 1 .. taken[i] : Meaning(i, m)' = Meaning(i, m)
  BY <1>1, LapseSpells DEF s
<1>6. k = typed'[n]
  BY <1>1
<1> HIDE DEF k
<1>7. SpelledBy(typed', SequenceAfter(s, k), LettersBefore(i, n + 1)')
  <2> DEFINE L == LettersBefore(i, n)'
             t == typed'
  <2>1. LettersBefore(i, n + 1)' = IF k \in Letters THEN L \union {n}
                                   ELSE IF k \in Digits THEN {} ELSE L
    <3>1. n \notin lapses'[i]
      BY <1>1, <1>5
    <3> QED BY <1>1, <1>6, <3>1, LettersNext
  <2>2. n \notin L
    BY <1>1 DEF LettersBefore
  <2>3. SpelledBy(t, s, L) /\ k = t[n]
    BY <1>5, <1>6
  <2>4. Letters \intersect Digits = {}
    BY DEF Letters, Digits
  <2> HIDE DEF L, t
  <2>5. CASE k \in Letters
    <3>1. SpelledBy(t, Append(s, t[n]), L \union {n})
      BY <2>2, <2>3, <2>5, <1>4, SpelledMore
    <3>2. SequenceAfter(s, k) = Append(s, k)
      BY <2>4, <2>5 DEF SequenceAfter
    <3>3. LettersBefore(i, n + 1)' = L \union {n}
      BY <2>1, <2>5
    <3>4. SpelledBy(t, Append(s, k), L \union {n})
      BY <3>1, <2>3
    <3> QED BY <3>2, <3>3, <3>4 DEF t
  <2>6. CASE k \notin Letters /\ k \in Digits
    BY <2>1, <2>6, SpelledEmpty DEF SequenceAfter
  <2>7. CASE k \notin Letters /\ k \notin Digits
    BY <2>1, <2>3, <2>7 DEF SequenceAfter, t
  <2> QED BY <2>5, <2>6, <2>7
<1>8. CommandsFor(i, s, k) = Meaning(i, n)'
  BY <1>4, <1>5, <1>6, CommandMeant
<1>9. done'[i] = FlattenSeq(Meant(i)')
  <2>0. PICK m : m = taken[i] - since[i]
    OBVIOUS
  <2> DEFINE r == Meant(i)
             t == Meant(i)'
  <2>1. m \in Nat /\ taken'[i] - since'[i] = m + 1 /\ since[i] + (m + 1) = n
    BY <1>1, <2>0
  <2>2. r = [j \in 1 .. m |-> Meaning(i, since[i] + j)]
    BY <2>0 DEF Meant
  <2>3. t = [j \in 1 .. m + 1 |-> Meaning(i, since[i] + j)']
    BY <1>1, <2>1 DEF Meant
  <2>4. ASSUME NEW j \in 1 .. m PROVE t[j] = r[j] /\ t[j] \in Seq(Commands)
    <3> DEFINE x == since[i] + j
    <3>1. x \in since[i] + 1 .. taken[i] /\ x' = x
      BY <1>1, <2>0
    <3>2. j \in 1 .. m + 1
      BY <2>1
    <3> HIDE DEF x, r, t
    <3>3. Meaning(i, x)' = Meaning(i, x)
      BY <1>5, <3>1
    <3>4. t[j] = Meaning(i, x)' /\ r[j] = Meaning(i, x)
      BY <2>2, <2>3, <3>1, <3>2 DEF x
    <3> QED BY <3>3, <3>4, MeaningTyped
  <2>5. t[m + 1] = CommandsFor(i, s, k)
    <3>1. since'[i] + (m + 1) = n /\ m + 1 \in 1 .. m + 1
      BY <1>1, <2>1
    <3>2. t[m + 1] = Meaning(i, since[i] + (m + 1))'
      BY <2>3, <3>1
    <3>3. Meaning(i, since[i] + (m + 1))' = Meaning(i, n)'
      BY <3>1
    <3> QED BY <1>8, <3>2, <3>3
  <2>6. done[i] = FlattenSeq(r)
    BY Zenon DEF ActsAsTyped
  <2>7. done'[i] = FlattenSeq(r) \o CommandsFor(i, s, k)
    BY <1>3, <2>6
  <2>8. CommandsFor(i, s, k) \in Seq(Commands)
    BY CommandsTyped
  <2>9. r = [j \in 1 .. m |-> r[j]] /\ t = [j \in 1 .. m + 1 |-> t[j]]
    BY <2>2, <2>3
  <2> HIDE DEF r, t
  <2>10. ASSUME NEW j \in 1 .. m + 1 PROVE t[j] \in Seq(Commands)
    <3>1. CASE j = m + 1
      BY <2>5, <2>8, <3>1
    <3>2. CASE j \in 1 .. m
      BY <2>4, <3>2
    <3> QED BY <3>1, <3>2, <2>1
  <2>11. t \in [1 .. m + 1 -> Seq(Commands)]
    BY <2>9, <2>10
  <2>12. r = [j \in 1 .. m |-> t[j]]
    BY <2>4, <2>9
  <2>13. FlattenSeq(t) = FlattenSeq(r) \o t[m + 1]
    BY <2>1, <2>11, <2>12, FlattenLast
  <2> QED BY <2>5, <2>7, <2>13 DEF t
<1>10. SpelledBy(typed, seq[i], LettersBefore(i, taken[i] + 1))'
  BY <1>1, <1>3, <1>7
<1>11. since'[i] <= taken'[i] /\ lapses'[i] \subseteq 0 .. taken'[i]
  BY <1>1, <1>5
<1> QED BY <1>9, <1>10, <1>11 DEF ActsAsTyped

\* An instance begins with nothing typed, remembered or done.
LEMMA RegisteredAsTyped ==
  ASSUME ArrivalInv, NEW i \in Instances, Registered(i)
  PROVE  ActsAsTyped(i)'
<1>1. /\ since'[i] = Len(typed) /\ taken'[i] = Len(typed) /\ Len(typed) \in Nat
      /\ lapses'[i] = {} /\ seq'[i] = << >> /\ done'[i] = << >>
  BY DEF ArrivalInv, TypeOK, Fresh, Registered, Moves
<1>2. LettersBefore(i, taken[i] + 1)' = {}
  BY <1>1 DEF LettersBefore
<1>3. SpelledBy(typed', << >>, {})
  BY SpelledEmpty
<1>4. Meant(i)' = << >>
  BY <1>1 DEF Meant
<1>5. FlattenSeq(Meant(i)') = << >>
  <2>1. FlattenSeq(<< >>) = << >>
    BY Zenon DEF FlattenSeq
  <2> QED BY <1>4, <2>1
<1>6. SpelledBy(typed, seq[i], LettersBefore(i, taken[i] + 1))'
  BY <1>1, <1>2, <1>3
<1>7. since'[i] <= taken'[i] /\ lapses'[i] \subseteq 0 .. taken'[i]
  BY <1>1
<1> QED BY <1>1, <1>5, <1>6, <1>7 DEF ActsAsTyped

\* The inductive step.
LEMMA CommandStep == CommandInv /\ [Next]_vars => CommandInv'
<1> SUFFICES ASSUME CommandInv, [Next]_vars PROVE CommandInv'
  OBVIOUS
<1>1. ArrivalInv /\ ArrivalInv'
  BY ArrivalStep DEF CommandInv
<1> SUFFICES ASSUME ~undefined', NEW j \in Instances, stage'[j] = "running"
             PROVE  ActsAsTyped(j)'
  BY <1>1 DEF CommandInv
<1>3. ASSUME ~undefined, stage[j] = "running",
             UNCHANGED <<typed, seq[j], since[j], taken[j], lapses[j], done[j]>>
      PROVE  ActsAsTyped(j)'
  <2>1. ActsAsTyped(j)
    BY <1>3 DEF CommandInv
  <2> QED BY <1>1, <1>3, <2>1, StaysAsTyped
<1>4. CASE UNCHANGED vars
  BY <1>3, <1>4 DEF vars, readerVars, triggerVars
<1>5. ASSUME NEW k \in Keys, Reads(k) PROVE ActsAsTyped(j)'
  <2>1. /\ ~undefined /\ stage[j] = "running" /\ typed' = Append(typed, k)
        /\ UNCHANGED <<seq[j], since[j], taken[j], lapses[j], done[j]>>
    BY <1>5 DEF Reads, triggerVars
  <2>2. ActsAsTyped(j)
    BY <2>1 DEF CommandInv
  <2>3. taken[j] <= Len(typed) /\ taken[j] \in Nat /\ typed \in Seq(Keys) /\ Len(typed) \in Nat
    <3>1. Arrived(j) /\ taken[j] \in Nat /\ typed \in Seq(Keys)
      BY <1>1, <2>1 DEF ArrivalInv, Standing, TypeOK
    <3> QED BY <3>1 DEF Arrived, Upto
  <2>4. \A l \in 1 .. taken[j] : typed'[l] = typed[l]
    BY <2>1, <2>3, AppendProperties
  <2> QED BY <1>1, <2>1, <2>2, <2>4, StaysAsTyped
<1>6. CASE PushesKey \/ StopsReading
  BY <1>3, <1>6 DEF PushesKey, StopsReading, triggerVars
<1>7. ASSUME NEW i \in Instances, Lives(i) PROVE ActsAsTyped(j)'
  <2>1. CASE Registered(i) /\ j = i
    BY <1>1, <2>1, RegisteredAsTyped
  <2>2. CASE Registered(i) /\ j # i
    <3>1. /\ ~undefined /\ stage[j] = "running"
          /\ UNCHANGED <<typed, seq[j], since[j], taken[j], lapses[j], done[j]>>
      BY <1>1, <2>2 DEF ArrivalInv, TypeOK, Registered, Moves, readerVars
    <3> QED BY <3>1, <1>3
  <2>3. CASE ~Registered(i)
    <3>1. \/ StartsRegister(i) \/ Closes(i) \/ ClearsClients(i) \/ StartsJoin(i)
          \/ StartsUnregister(i) \/ Unregistered(i)
      BY <1>7, <2>3 DEF Lives
    <3>2. ~undefined /\ UNCHANGED <<typed, seq[j], since[j], taken[j], lapses[j], done[j]>>
      BY <3>1 DEF StartsRegister, Closes, ClearsClients, StartsJoin, StartsUnregister,
                  Unregistered, StartsChange, Moves, readerVars, triggerVars
    <3>3. stage[j] = "running"
      BY <1>1, <3>1 DEF StartsRegister, Closes, ClearsClients, StartsJoin, StartsUnregister,
                        Unregistered, StartsChange, Moves, ArrivalInv, TypeOK
    <3> QED BY <3>2, <3>3, <1>3
  <2> QED BY <2>1, <2>2, <2>3
<1>8. ASSUME NEW i \in Instances, Acts(i) PROVE ActsAsTyped(j)'
  <2>1. CASE Stops(i)
    BY <1>3, <2>1 DEF Stops, readerVars
  <2>2. ASSUME NEW late \in BOOLEAN, FindsNoKey(i, late) PROVE ActsAsTyped(j)'
    <3>1. ~undefined /\ stage[j] = "running" /\ typed' = typed
      BY <2>2 DEF FindsNoKey, Turns, readerVars
    <3>2. CASE j = i
      <4>1. ActsAsTyped(j)
        BY <3>1 DEF CommandInv
      <4> QED BY <1>1, <2>2, <3>2, <4>1, FindsAsTyped
    <3>3. CASE j # i
      <4>1. UNCHANGED <<seq[j], since[j], taken[j], lapses[j], done[j]>>
        BY <1>1, <2>2, <3>3 DEF FindsNoKey, Lapse, ArrivalInv, TypeOK
      <4> QED BY <3>1, <4>1, <1>3
    <3> QED BY <3>2, <3>3
  <2>3. ASSUME NEW late \in BOOLEAN, TakesKey(i, late) PROVE ActsAsTyped(j)'
    <3>1. ~undefined /\ stage[j] = "running" /\ typed' = typed
      BY <2>3 DEF TakesKey, Turns, readerVars
    <3>2. CASE j = i
      <4>1. ActsAsTyped(j)
        BY <3>1 DEF CommandInv
      <4> QED BY <1>1, <2>3, <3>1, <3>2, <4>1, TakesAsTyped
    <3>3. CASE j # i
      <4>1. UNCHANGED <<seq[j], since[j], taken[j], done[j]>>
        BY <1>1, <2>3, <3>3 DEF TakesKey, ArrivalInv, TypeOK
      <4>2. UNCHANGED lapses[j]
        BY <1>1, <2>3, <3>3 DEF TakesKey, Lapse, ArrivalInv, TypeOK
      <4> QED BY <3>1, <4>1, <4>2, <1>3
    <3> QED BY <3>2, <3>3
  <2> QED BY <1>8, <2>1, <2>2, <2>3 DEF Acts
<1> QED BY <1>4, <1>5, <1>6, <1>7, <1>8 DEF Next

\* While an instance runs, its trigger has given exactly the commands that were typed to it
\* and taken: letters of a sequence that has expired or been ended by a digit count for
\* nothing, and neither the other instances nor a backlog change what the keys mean
\* (fake_audio_key_trigger.h:36-86).
THEOREM CommandsFollowTyping == Spec => []CommandsAreTyped
<1>1. Init => CommandInv
  <2>1. Init => \A i \in Instances : stage[i] # "running"
    BY DEF Init
  <2> QED BY <2>1, ArrivalInit DEF CommandInv
<1>2. CommandInv => CommandsAreTyped
  BY Zenon DEF CommandInv, CommandsAreTyped, ActsAsTyped, Meant
<1> QED BY <1>1, <1>2, CommandStep, PTL DEF Spec
=============================================================================
