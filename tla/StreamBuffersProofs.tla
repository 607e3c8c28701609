------------------------ MODULE StreamBuffersProofs ------------------------
(***************************************************************************)
(* The four buffers for fragments of every size, texts of any length and   *)
(* any number of failures.                                                 *)
(***************************************************************************)
EXTENDS StreamBuffers, VersionLinesProofs

Pieces == Seq(1 .. Fragment)

\* The variables, and what one of the four readers cannot be in.
Typed ==
  /\ reader \in Readers /\ pieces \in Pieces
  /\ pc \in {"read", "store", "done", "null", "dead"}
  /\ got \in Nat /\ size \in Nat /\ counted \in Nat /\ broken \in Nat
  /\ frag \in 0 .. Fragment /\ end \in Int
  /\ pc \in {"read", "done"} => frag = 0
  /\ pc = "store" => frag > 0

\* What is allocated holds what is stored, and for each reader what it relies on.
Sized ==
  /\ reader = "stream" =>
       /\ pc \in {"read", "store"} => size >= Fragment
       /\ IF got = 0 THEN end = NoEnd ELSE end = got /\ got < size
  /\ reader = "pacman" =>
       /\ \/ counted = 0 /\ got = 0 /\ size = Fragment
          \/ counted >= Fragment /\ size = counted /\ got <= counted
       /\ end = IF pc = "done" THEN got ELSE NoEnd
  /\ reader = "curl" => IF got = 0 THEN end = NoEnd ELSE end = got /\ size = got + 1
  /\ reader = "post" =>
       /\ pc \in {"read", "store", "done"}
       /\ got + frag + Sum(pieces) = size
       /\ end = IF pc = "done" THEN got - 1 ELSE NoEnd
       /\ pc = "done" => pieces = <<>>

\* Why a text ended, and what was read of it.
Ended ==
  /\ text = [k \in 1 .. got |-> k]
  /\ pc = "done" /\ broken = 0 => pieces = <<>>
  /\ pc = "done" /\ reader \in {"stream", "curl"} => got > 0
  /\ pc = "null" /\ broken = 0 => got = 0 /\ pieces = <<>> /\ reader \in {"stream", "curl"}

Filled == Typed /\ Sized /\ Ended

-----------------------------------------------------------------------------
\* The sums of the front of a text.
Entry(s, f, k) == IF k = 0 THEN 0 ELSE s[k] + f[k - 1]
Partial(s, f) == f = [k \in 0 .. Len(s) |-> Entry(s, f, k)]

\* There are such sums, and Sum is the last of them.
LEMMA SumSolves ==
  ASSUME NEW s, Len(s) \in Nat
  PROVE  \E f : Partial(s, f) /\ Sum(s) = f[Len(s)]
<1> DEFINE D == 0 .. Len(s)
           Done == {n \in Nat : \E f : f = [k \in D |-> f[k]]
                                       /\ \A k \in D : k < n => f[k] = Entry(s, f, k)}
<1>1. 0 \in Done
  <2> DEFINE z == [k \in D |-> 0]
  <2>1. z = [k \in D |-> z[k]]
    OBVIOUS
  <2> HIDE DEF z
  <2> QED BY <2>1
<1>2. ASSUME NEW n \in Nat, n \in Done PROVE n + 1 \in Done
  <2>1. PICK f : f = [k \in D |-> f[k]] /\ \A k \in D : k < n => f[k] = Entry(s, f, k)
    BY <1>2
  <2> DEFINE g == [k \in D |-> Entry(s, f, k)]
  <2>2. g = [k \in D |-> g[k]] /\ \A k \in D : g[k] = Entry(s, f, k)
    OBVIOUS
  <2>3. ASSUME NEW k \in D, k < n + 1 PROVE g[k] = Entry(s, g, k)
    <3>1. CASE k = 0
      BY <2>2, <3>1 DEF Entry
    <3>2. CASE k # 0
      <4>1. k - 1 \in D /\ k - 1 < n
        BY <2>3, <3>2
      <4>2. g[k - 1] = f[k - 1]
        BY <2>1, <2>2, <4>1
      <4> QED BY <2>2, <3>2, <4>2 DEF Entry
    <3> QED BY <3>1, <3>2
  <2> HIDE DEF g
  <2> QED BY <2>2, <2>3
<1>3. \A n \in Nat : n \in Done
  <2> HIDE DEF Done
  <2> QED BY <1>1, <1>2, SetInduction
<1>4. PICK f : f = [k \in D |-> f[k]] /\ \A k \in D : k < Len(s) + 1 => f[k] = Entry(s, f, k)
  <2>1. Len(s) + 1 \in Done
    <3> HIDE DEF Done
    <3> QED BY <1>3
  <2> QED BY <2>1
<1>5. f = [k \in D |-> Entry(s, f, k)]
  <2>1. \A k \in D : f[k] = Entry(s, f, k)
    BY <1>4
  <2> QED BY <1>4, <2>1
<1> DEFINE c == CHOOSE g : Partial(s, g)
<1>6. Partial(s, c)
  <2>1. Partial(s, f)
    BY <1>5 DEF Partial
  <2> QED BY <2>1
<1>7. Sum(s) = c[Len(s)]
  BY DEF Sum, Partial, Entry
<1> HIDE DEF c
<1> QED BY <1>6, <1>7

\* The sum of a text is that of its first piece and the rest.
LEMMA SumOfPieces ==
  ASSUME NEW s \in Pieces
  PROVE  /\ Sum(s) \in Nat
         /\ s = <<>> => Sum(s) = 0
         /\ s # <<>> => Sum(s) = Head(s) + Sum(Tail(s))
<1>0. Len(s) \in Nat /\ \A k \in 1 .. Len(s) : s[k] \in Nat
  BY FragmentAssumption DEF Pieces
<1>1. PICK f : Partial(s, f) /\ Sum(s) = f[Len(s)]
  BY <1>0, SumSolves
<1>2. f[0] = 0 /\ \A k \in 1 .. Len(s) : f[k] = s[k] + f[k - 1]
  <2>1. \A k \in 0 .. Len(s) : f[k] = IF k = 0 THEN 0 ELSE s[k] + f[k - 1]
    BY <1>1 DEF Partial, Entry
  <2> QED BY <1>0, <2>1
<1> DEFINE Done == {n \in Nat : n \in 0 .. Len(s) => f[n] \in Nat}
<1>3. \A n \in Nat : n \in Done
  <2>1. 0 \in Done
    BY <1>2
  <2>2. ASSUME NEW n \in Nat, n \in Done PROVE n + 1 \in Done
    <3>1. CASE n + 1 \in 1 .. Len(s)
      <4>1. f[n + 1] = s[n + 1] + f[n] /\ n \in 0 .. Len(s) /\ s[n + 1] \in Nat
        BY <1>0, <1>2, <3>1
      <4> QED BY <2>2, <4>1
    <3> QED BY <3>1
  <2> HIDE DEF Done
  <2> QED BY <2>1, <2>2, SetInduction
<1>4. Sum(s) \in Nat
  BY <1>0, <1>1, <1>3
<1>5. ASSUME s # <<>> PROVE Sum(s) = Head(s) + Sum(Tail(s))
  <2> DEFINE t == Tail(s)
  <2>1. /\ Len(t) = Len(s) - 1 /\ Len(t) \in Nat /\ Head(s) = s[1] /\ Len(s) >= 1
        /\ \A k \in 1 .. Len(t) : t[k] = s[k + 1] /\ t[k] \in Nat
    BY <1>0, <1>5 DEF Pieces
  <2>2. PICK g : Partial(t, g) /\ Sum(t) = g[Len(t)]
    BY <2>1, SumSolves
  <2> HIDE DEF t
  <2>3. g[0] = 0 /\ \A k \in 1 .. Len(t) : g[k] = t[k] + g[k - 1]
    <3>1. \A k \in 0 .. Len(t) : g[k] = IF k = 0 THEN 0 ELSE t[k] + g[k - 1]
      BY <2>2 DEF Partial, Entry
    <3> QED BY <2>1, <3>1
  <2> DEFINE Same == {n \in Nat : n <= Len(t) => g[n] \in Nat /\ f[n + 1] = s[1] + g[n]}
  <2>4. 0 \in Same
    <3>1. f[1] = s[1] + f[0]
      BY <1>0, <1>2, <2>1
    <3> QED BY <1>2, <2>3, <3>1
  <2>5. ASSUME NEW n \in Nat, n \in Same PROVE n + 1 \in Same
    <3> SUFFICES ASSUME n + 1 <= Len(t) PROVE g[n + 1] \in Nat /\ f[n + 1 + 1] = s[1] + g[n + 1]
      OBVIOUS
    <3>1. g[n] \in Nat /\ f[n + 1] = s[1] + g[n]
      BY <2>1, <2>5
    <3>2. n + 1 \in 1 .. Len(t) /\ n + 1 + 1 \in 1 .. Len(s) /\ n + 1 + 1 - 1 = n + 1 /\ n + 1 - 1 = n
      BY <2>1
    <3>3. g[n + 1] = t[n + 1] + g[n] /\ t[n + 1] \in Nat /\ t[n + 1] = s[n + 1 + 1]
      BY <2>1, <2>3, <3>2
    <3>4. f[n + 1 + 1] = s[n + 1 + 1] + f[n + 1]
      BY <1>2, <3>2
    <3>5. s[1] \in Nat
      BY <1>0, <2>1
    <3> QED BY <3>1, <3>3, <3>4, <3>5
  <2>6. \A n \in Nat : n \in Same
    <3> HIDE DEF Same
    <3> QED BY <2>4, <2>5, SetInduction
  <2>7. f[Len(t) + 1] = s[1] + g[Len(t)] /\ Len(t) + 1 = Len(s)
    BY <2>1, <2>6
  <2> QED BY <1>1, <2>1, <2>2, <2>7 DEF t
<1>6. s = <<>> => Sum(s) = 0
  BY <1>1, <1>2
<1>7. s # <<>> => Sum(s) = Head(s) + Sum(Tail(s))
  BY <1>5
<1> QED BY <1>4, <1>6, <1>7

-----------------------------------------------------------------------------
\* The text of a reader that has read nothing.
LEMMA InitFilled == Init => Filled
<1> SUFFICES ASSUME Init PROVE Filled
  OBVIOUS
<1>1. pieces \in Pieces
  <2>1. PICK n \in 0 .. MaxPieces : pieces \in [1 .. n -> 1 .. Fragment]
    BY DEF Init
  <2>2. n \in Nat
    BY PiecesAssumption
  <2>3. pieces \in UNION {[1 .. m -> 1 .. Fragment] : m \in Nat}
    BY <2>1, <2>2
  <2> QED BY <2>3, SeqDef DEF Pieces
<1>2. Sum(pieces) \in Nat
  BY <1>1, SumOfPieces
<1>3. size \in Nat
  BY <1>2, FragmentAssumption DEF Init
<1>4. Typed
  BY <1>1, <1>3, FragmentAssumption DEF Init, Typed, NoEnd
<1>5. Sized
  BY <1>2, FragmentAssumption DEF Init, Sized, Readers
<1>6. text = [k \in 1 .. got |-> k]
  BY DEF Init
<1> QED BY <1>4, <1>5, <1>6 DEF Init, Ended, Filled

\* A piece that is copied continues the text.
LEMMA CopiedText ==
  ASSUME NEW m \in Nat, NEW n \in Nat
  PROVE  [k \in 1 .. m |-> k] \o [k \in 1 .. n |-> m + k] = [k \in 1 .. m + n |-> k]
<1> DEFINE s == [k \in 1 .. m |-> k]
           t == [k \in 1 .. n |-> m + k]
           u == [k \in 1 .. m + n |-> k]
<1>1. s \in Seq(Int) /\ t \in Seq(Int) /\ u \in Seq(Int)
  OBVIOUS
<1>2. Len(s) = m /\ Len(t) = n /\ Len(u) = m + n
  OBVIOUS
<1>3. s \o t \in Seq(Int) /\ Len(s \o t) = m + n
  BY <1>1, <1>2, ConcatProperties
<1>4. \A k \in 1 .. m + n : (s \o t)[k] = k
  <2>1. \A k \in 1 .. Len(s) + Len(t) : (s \o t)[k] = IF k <= Len(s) THEN s[k] ELSE t[k - Len(s)]
    BY <1>1, ConcatProperties
  <2> QED BY <1>2, <2>1
<1>5. \A k \in 1 .. m + n : u[k] = k
  OBVIOUS
<1> HIDE DEF s, t, u
<1>6. s \o t = u
  BY <1>1, <1>2, <1>3, <1>4, <1>5, SeqEqual
<1> QED BY <1>6 DEF s, t, u

\* Reading and storing keep the invariant.
LEMMA PieceFilled ==
  ASSUME Filled, Read \/ Double \/ StoreStream \/ StorePacman \/ StoreCurl \/ StorePost
  PROVE  Filled'
<1> USE FragmentAssumption
<1>1. CASE Read
  <2>1. pieces \in Seq(1 .. Fragment) /\ pieces # <<>>
    BY <1>1 DEF Read, Filled, Typed, Pieces
  <2>2. frag' \in 1 .. Fragment /\ pieces' \in Pieces
    BY <1>1, <2>1 DEF Read, Pieces
  <2>3. Typed'
    BY <1>1, <2>2 DEF Read, Filled, Typed
  <2>4. Sum(pieces) = frag' + Sum(pieces') /\ Sum(pieces') \in Nat
    BY <1>1, <2>1, <2>2, SumOfPieces DEF Read, Pieces
  <2>5. Sized'
    BY <1>1, <2>2, <2>4 DEF Read, Filled, Typed, Sized, Readers
  <2> QED BY <1>1, <2>3, <2>5 DEF Read, Filled, Ended
<1>2. CASE Double
  BY <1>2 DEF Double, Filled, Typed, Sized, Ended, Readers
<1>3. ASSUME Copied PROVE text' = [k \in 1 .. got' |-> k]
  BY <1>3, CopiedText DEF Copied, Filled, Typed, Ended
<1>4. CASE StoreStream
  <2>1. Typed' /\ Sized'
    BY <1>4 DEF StoreStream, Copied, Filled, Typed, Sized, Readers, NoEnd
  <2> QED BY <1>3, <1>4, <2>1 DEF StoreStream, Copied, Filled, Ended
<1>5. CASE StorePacman
  <2>1. Typed' /\ Sized'
    BY <1>5 DEF StorePacman, Enough, Copied, Filled, Typed, Sized, Readers, NoEnd
  <2> QED BY <1>3, <1>5, <2>1 DEF StorePacman, Copied, Filled, Ended
<1>6. CASE StoreCurl
  <2>1. Typed' /\ Sized'
    BY <1>6 DEF StoreCurl, Copied, Filled, Typed, Sized, Readers, NoEnd
  <2> QED BY <1>3, <1>6, <2>1 DEF StoreCurl, Copied, Filled, Ended
<1>7. CASE StorePost
  <2>0. Sum(pieces) \in Nat
    BY SumOfPieces DEF Filled, Typed
  <2>1. Typed' /\ Sized'
    BY <1>7, <2>0 DEF StorePost, Copied, Filled, Typed, Sized, Readers, NoEnd
  <2> QED BY <1>3, <1>7, <2>1 DEF StorePost, Copied, Filled, Ended
<1> QED BY <1>1, <1>2, <1>4, <1>5, <1>6, <1>7

\* The end of a text, and a failed call, keep the invariant.
LEMMA EndFilled ==
  ASSUME Filled, EndStream \/ EndPacman \/ EndCurl \/ EndPost \/ ReadFails \/ AllocFails
  PROVE  Filled'
<1> USE FragmentAssumption
<1>1. CASE EndStream
  BY <1>1 DEF EndStream, Filled, Typed, Sized, Ended, Readers, NoEnd
<1>2. CASE EndPacman
  BY <1>2 DEF EndPacman, Filled, Typed, Sized, Ended, Readers, NoEnd
<1>3. CASE EndCurl
  BY <1>3 DEF EndCurl, Filled, Typed, Sized, Ended, Readers, NoEnd
<1>4. CASE EndPost
  BY <1>4 DEF EndPost, Filled, Typed, Sized, Ended, Readers, NoEnd
<1>5. CASE ReadFails
  BY <1>5 DEF ReadFails, Fault, Filled, Typed, Sized, Ended, Readers, NoEnd
<1>6. CASE AllocFails
  BY <1>6 DEF AllocFails, Fault, Filled, Typed, Sized, Ended, Readers, NoEnd
<1> QED BY <1>1, <1>2, <1>3, <1>4, <1>5, <1>6

\* For all fragments and texts: the buffers hold what they are filled with.
THEOREM FilledInvariant == Spec => []Filled
<1>1. Filled /\ [Next]_vars => Filled'
  <2> SUFFICES ASSUME Filled, [Next]_vars PROVE Filled'
    OBVIOUS
  <2>1. CASE UNCHANGED vars
    BY <2>1 DEF vars, Filled, Typed, Sized, Ended
  <2> QED BY <2>1, PieceFilled, EndFilled DEF Next
<1> QED BY <1>1, InitFilled, PTL DEF Spec

\* For all fragments and texts: nothing is written outside of what is allocated,
\* but for the two terminators that WithinBuffer names.
THEOREM NoOverrun == Spec => []WithinBuffer
<1>1. Filled => WithinBuffer
  <2> SUFFICES ASSUME Filled PROVE WithinBuffer
    OBVIOUS
  <2>1. Sum(pieces) \in Nat /\ (pieces = <<>> => Sum(pieces) = 0)
    BY SumOfPieces DEF Filled, Typed
  <2> USE FragmentAssumption DEF Filled, Typed, NoEnd, WithinBuffer
  <2>2. CASE reader = "stream"
    BY <2>2 DEF Sized
  <2>3. CASE reader = "pacman"
    BY <2>3 DEF Sized
  <2>4. CASE reader = "curl"
    BY <2>4 DEF Sized
  <2>5. CASE reader = "post"
    <3>1. got + frag + Sum(pieces) = size /\ frag \in Nat /\ got \in Nat /\ Sum(pieces) \in Nat
      BY <2>1, <2>5 DEF Sized
    <3>2. got <= size
      BY <3>1
    <3>3. CASE pc = "done"
      <4>1. end = got - 1 /\ size = got
        BY <2>1, <2>5, <3>1, <3>3 DEF Sized
      <4> QED BY <2>5, <3>1, <3>3, <4>1
    <3>4. CASE pc # "done"
      <4>1. end = -2
        BY <2>5, <3>4 DEF Sized
      <4> QED BY <3>2, <4>1
    <3> QED BY <3>3, <3>4
  <2> QED BY <2>2, <2>3, <2>4, <2>5 DEF Readers
<1> QED BY <1>1, FilledInvariant, PTL

\* For all fragments and texts: what is stored is the text, whole unless a call failed.
THEOREM WholeText == Spec => []ReadsWhole
<1>1. Filled => ReadsWhole
  BY DEF Filled, Typed, Sized, Ended, Readers, ReadsWhole
<1> QED BY <1>1, FilledInvariant, PTL
=============================================================================
