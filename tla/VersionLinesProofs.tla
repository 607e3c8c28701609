------------------------- MODULE VersionLinesProofs -------------------------
(***************************************************************************)
(* What zip_merge_sorted_list() and the loop of save_ver_cache() compute,  *)
(* for lists of every length.  The recursions are unfolded by an induction *)
(* over sets of naturals, which the least elements of WellFoundedInduction *)
(* justify.                                                                *)
(***************************************************************************)
EXTENDS VersionLines, SequenceTheorems, FiniteSetTheorems, WellFoundedInduction, TLAPS

\* A set that has 0 and the successor of each of its elements has every number.
LEMMA SetInduction ==
  ASSUME NEW S, 0 \in S, \A n \in Nat : n \in S => n + 1 \in S
  PROVE  \A n \in Nat : n \in S
<1> DEFINE Less == {ss \in Nat \X Nat : ss[1] < ss[2]}
           Missing == Nat \ S
<1>1. IsWellFoundedOn(Less, Nat)
  BY NatLessThanWellFounded DEF OpToRel
<1> SUFFICES ASSUME Missing # {} PROVE FALSE
  OBVIOUS
<1>2. PICK n \in Missing : \A m \in Missing : <<m, n>> \notin Less
  <2> HIDE DEF Less, Missing
  <2> QED BY <1>1, WFMin DEF Missing
<1>3. n - 1 \in Nat
  BY <1>2
<1>4. n - 1 \notin Missing
  <2>1. <<n - 1, n>> \in Nat \X Nat /\ <<n - 1, n>>[1] < <<n - 1, n>>[2]
    BY <1>3
  <2> QED BY <1>2, <2>1
<1>5. n - 1 + 1 \in S
  BY <1>3, <1>4
<1> QED BY <1>2, <1>3, <1>5

\* The same up to a bound, as a loop counts.
LEMMA CountInduction ==
  ASSUME NEW D, NEW n \in Nat, 0 \in D, \A k \in 1 .. n : k - 1 \in D => k \in D
  PROVE  \A k \in 0 .. n : k \in D
<1> DEFINE S == {k \in Nat : k <= n => k \in D}
<1>1. 0 \in S
  OBVIOUS
<1>2. \A k \in Nat : k \in S => k + 1 \in S
  <2> TAKE k \in Nat
  <2> HAVE k \in S
  <2> SUFFICES ASSUME k + 1 <= n PROVE k + 1 \in D
    OBVIOUS
  <2>1. k + 1 \in 1 .. n /\ (k + 1) - 1 = k /\ k \in D
    OBVIOUS
  <2> QED BY <2>1
<1>3. \A k \in Nat : k \in S
  <2> HIDE DEF S
  <2> QED BY <1>1, <1>2, SetInduction
<1> QED BY <1>3

\* A loop of n rounds, and what it has after each of them.
Closed(step, n, T) == \A r \in T, k \in 1 .. n : step[<<r, k>>] \in T
Runs(f, n, first, step) == f[0] = first /\ \A k \in 1 .. n : f[k] = step[<<f[k - 1], k>>]

\* A loop has a result for each number of rounds.
LEMMA LoopResults ==
  ASSUME NEW n \in Nat, NEW T, NEW first \in T, NEW step, Closed(step, n, T)
  PROVE  \E f \in [0 .. n -> T] : Runs(f, n, first, step)
<1>0. \A r \in T, k \in 1 .. n : step[<<r, k>>] \in T
  BY DEF Closed
<1> DEFINE Upto(f, m) == f[0] = first /\ \A k \in 1 .. m : f[k] = step[<<f[k - 1], k>>]
           D == {m \in Nat : \E f \in [0 .. m -> T] : Upto(f, m)}
<1>1. 0 \in D
  <2>1. [k \in 0 .. 0 |-> first] \in [0 .. 0 -> T] /\ Upto([k \in 0 .. 0 |-> first], 0)
    OBVIOUS
  <2> QED BY <2>1
<1>2. ASSUME NEW m \in 1 .. n, m - 1 \in D PROVE m \in D
  <2>1. PICK f \in [0 .. m - 1 -> T] : Upto(f, m - 1)
    BY <1>2
  <2> DEFINE g == [k \in 0 .. m |-> IF k = m THEN step[<<f[m - 1], m>>] ELSE f[k]]
  <2>2. /\ \A k \in 0 .. m - 1 : g[k] = f[k]
        /\ g[m] = step[<<f[m - 1], m>>] /\ m - 1 \in 0 .. m - 1 /\ 0 \in 0 .. m - 1
    OBVIOUS
  <2>3. g \in [0 .. m -> T]
    BY <1>0, <2>1, <2>2
  <2> HIDE DEF g
  <2>4. g[0] = first
    BY <2>1, <2>2
  <2>5. ASSUME NEW k \in 1 .. m PROVE g[k] = step[<<g[k - 1], k>>]
    <3>1. CASE k = m
      BY <2>2, <3>1
    <3>2. CASE k # m
      <4>1. k \in 1 .. m - 1 /\ k \in 0 .. m - 1 /\ k - 1 \in 0 .. m - 1
        BY <3>2
      <4> QED BY <2>1, <2>2, <4>1
    <3> QED BY <3>1, <3>2
  <2>6. m \in Nat
    OBVIOUS
  <2> QED BY <2>3, <2>4, <2>5, <2>6
<1>3. n \in D
  <2>1. n \in 0 .. n
    OBVIOUS
  <2> HIDE DEF D
  <2> QED BY <1>1, <1>2, <2>1, CountInduction
<1> QED BY <1>3 DEF Runs

-----------------------------------------------------------------------------
\* The cursors, how much is left behind them, and one round of the loops.
Cursors(old, new) == (1 .. Len(old) + 1) \X (1 .. Len(new) + 1)
Left(old, new, at) == (Len(old) + 1 - at[1]) + (Len(new) + 1 - at[2])
Round(zip, old, new, at) ==
  LET i == at[1]
      j == at[2]
  IN IF i > Len(old) \/ j > Len(new)
     THEN SubSeq(old, i, Len(old)) \o SubSeq(new, j, Len(new))
     ELSE IF old[i].name < new[j].name
     THEN <<old[i]>> \o zip[<<i + 1, j>>]
     ELSE <<new[j]>> \o zip[<<IF old[i].name = new[j].name THEN i + 1 ELSE i, j + 1>>]

\* A round only asks for what is behind it.
LEMMA RoundBehind ==
  ASSUME NEW old, NEW new, Len(old) \in Nat, Len(new) \in Nat, NEW z, NEW y,
         NEW at \in Cursors(old, new),
         \A to \in Cursors(old, new) : Left(old, new, to) < Left(old, new, at) => z[to] = y[to]
  PROVE  Round(z, old, new, at) = Round(y, old, new, at)
<1>0. PICK i \in 1 .. Len(old) + 1, j \in 1 .. Len(new) + 1 : at = <<i, j>>
  BY DEF Cursors
<1>1. CASE i > Len(old) \/ j > Len(new)
  BY <1>0, <1>1 DEF Round
<1>2. CASE i <= Len(old) /\ j <= Len(new)
  <2>1. \A a \in {i, i + 1}, b \in {j, j + 1} : a + b > i + j => z[<<a, b>>] = y[<<a, b>>]
    <3> TAKE a \in {i, i + 1}, b \in {j, j + 1}
    <3> HAVE a + b > i + j
    <3>1. <<a, b>> \in Cursors(old, new) /\ Left(old, new, <<a, b>>) < Left(old, new, at)
      BY <1>0, <1>2 DEF Cursors, Left
    <3> QED BY <3>1
  <2>2. /\ z[<<i + 1, j>>] = y[<<i + 1, j>>] /\ z[<<i, j + 1>>] = y[<<i, j + 1>>]
        /\ z[<<i + 1, j + 1>>] = y[<<i + 1, j + 1>>]
    BY <2>1
  <2> QED BY <1>0, <2>2 DEF Round
<1> QED BY <1>1, <1>2

\* The recursion has a solution, so that ZipFrom is one.
LEMMA ZipSolves ==
  ASSUME NEW old, NEW new, Len(old) \in Nat, Len(new) \in Nat
  PROVE  ZipFrom(old, new) = [at \in Cursors(old, new) |-> Round(ZipFrom(old, new), old, new, at)]
<1> DEFINE C == Cursors(old, new)
           Solves(z, n) == \A at \in C : Left(old, new, at) < n => z[at] = Round(z, old, new, at)
           Done == {n \in Nat : \E z : z = [at \in C |-> z[at]] /\ Solves(z, n)}
<1>0. \A at \in C : Left(old, new, at) \in Nat /\ Left(old, new, at) < Len(old) + Len(new) + 1
  BY DEF Left, Cursors
<1>1. 0 \in Done
  <2> DEFINE z == [at \in C |-> 0]
  <2>1. z = [at \in C |-> z[at]] /\ Solves(z, 0)
    BY <1>0
  <2> HIDE DEF z
  <2> QED BY <2>1
<1>2. ASSUME NEW n \in Nat, n \in Done PROVE n + 1 \in Done
  <2> PICK z : z = [at \in C |-> z[at]] /\ Solves(z, n)
    BY <1>2
  <2> DEFINE y == [at \in C |-> Round(z, old, new, at)]
  <2>1. \A at \in C : y[at] = Round(z, old, new, at)
    OBVIOUS
  <2>2. ASSUME NEW at \in C, Left(old, new, at) < n + 1
        PROVE  y[at] = Round(y, old, new, at)
    <3>1. \A to \in C : Left(old, new, to) < Left(old, new, at) => z[to] = y[to]
      <4> TAKE to \in C
      <4> HAVE Left(old, new, to) < Left(old, new, at)
      <4>1. Left(old, new, to) < n
        BY <2>2, <1>0
      <4> QED BY <4>1, <2>1
    <3> HIDE DEF y
    <3>2. Round(z, old, new, at) = Round(y, old, new, at)
      BY ONLY Len(old) \in Nat, Len(new) \in Nat, <3>1, RoundBehind
    <3> QED BY <3>2, <2>1
  <2>3. y = [at \in C |-> y[at]]
    OBVIOUS
  <2> HIDE DEF y
  <2> QED BY <2>2, <2>3
<1>3. \A n \in Nat : n \in Done
  <2> HIDE DEF Done
  <2> QED BY <1>1, <1>2, SetInduction
<1>4. PICK z : z = [at \in C |-> z[at]] /\ Solves(z, Len(old) + Len(new) + 1)
  BY <1>3
<1>5. z = [at \in C |-> Round(z, old, new, at)]
  <2>1. \A at \in C : z[at] = Round(z, old, new, at)
    BY <1>4, <1>0
  <2> QED BY <1>4, <2>1
<1> QED
  BY <1>5 DEF ZipFrom, Round, Cursors

-----------------------------------------------------------------------------
\* The lines of a list from a cursor on.
From(s, i) == {s[k] : k \in i .. Len(s)}

\* All lines before one of this kind have a smaller name.
Leads(z, l) == \E q \in 1 .. Len(z) : z[q] = l /\ \A m \in 1 .. q - 1 : z[m].name < l.name

\* What z has of the lists from two cursors on: nothing else, every new entry,
\* every old one that no new one of its name takes the place of, and their order,
\* as far as the lists have one.
Zipped(z, old, new, i, j) ==
  /\ From(z, 1) \subseteq From(old, i) \cup From(new, j)
  /\ From(new, j) \subseteq From(z, 1)
  /\ \A l \in From(old, i) : l \in From(z, 1) \/ \E m \in From(new, j) : m.name = l.name
  /\ Ordered(old) /\ Ordered(new) => Ordered(z)
  /\ Ordered(new) => \A l \in From(new, j) : Leads(z, l)

\* The line under the cursor comes before those behind it.
LEMMA FromNext ==
  ASSUME NEW S, NEW s \in Seq(S), NEW i \in 1 .. Len(s)
  PROVE  /\ s[i] \in S /\ From(s, i) = {s[i]} \cup From(s, i + 1) /\ From(s, i + 1) \subseteq S
         /\ Ordered(s) => \A l \in From(s, i + 1) : s[i].name < l.name
<1>1. i .. Len(s) = {i} \cup (i + 1) .. Len(s) /\ \A k \in i .. Len(s) : k \in DOMAIN s
  OBVIOUS
<1>2. s[i] \in S /\ \A k \in i + 1 .. Len(s) : s[k] \in S /\ k \in DOMAIN s /\ i < k
  OBVIOUS
<1> QED BY <1>1, <1>2 DEF From, Ordered

\* A line put in front of a list.
LEMMA FromFront ==
  ASSUME NEW S, NEW x \in S, NEW y \in Seq(S)
  PROVE  /\ <<x>> \o y \in Seq(S) /\ From(<<x>> \o y, 1) = {x} \cup From(y, 1)
         /\ Ordered(y) /\ (\A l \in From(y, 1) : x.name < l.name) => Ordered(<<x>> \o y)
         /\ Leads(<<x>> \o y, x)
         /\ \A l : x.name < l.name /\ Leads(y, l) => Leads(<<x>> \o y, l)
<1> DEFINE z == <<x>> \o y
<1>1. /\ z \in Seq(S) /\ DOMAIN z = 1 .. Len(y) + 1 /\ Len(z) = Len(y) + 1 /\ z[1] = x
      /\ DOMAIN y = 1 .. Len(y) /\ Len(y) \in Nat
      /\ \A k \in 1 .. Len(y) : z[k + 1] = y[k]
      /\ \A k \in 2 .. Len(y) + 1 : k - 1 \in 1 .. Len(y) /\ z[k] = y[k - 1]
  OBVIOUS
<1> HIDE DEF z
<1>2. From(z, 1) \subseteq {x} \cup From(y, 1)
  <2> SUFFICES ASSUME NEW l \in From(z, 1) PROVE l \in {x} \cup From(y, 1)
    OBVIOUS
  <2>1. PICK k \in 1 .. Len(y) + 1 : l = z[k]
    BY <1>1 DEF From
  <2>2. k = 1 \/ k \in 2 .. Len(y) + 1
    BY <1>1
  <2> QED BY <1>1, <2>1, <2>2 DEF From
<1>3. {x} \cup From(y, 1) \subseteq From(z, 1)
  <2>1. 1 \in 1 .. Len(z) /\ \A k \in 1 .. Len(y) : k + 1 \in 1 .. Len(z)
    BY <1>1
  <2> QED BY <1>1, <2>1 DEF From
<1>4. ASSUME Ordered(y), \A l \in From(y, 1) : x.name < l.name PROVE Ordered(z)
  <2> SUFFICES ASSUME NEW a \in 1 .. Len(y) + 1, NEW b \in 1 .. Len(y) + 1, a < b
               PROVE  z[a].name < z[b].name
    BY <1>1 DEF Ordered
  <2>1. b \in 2 .. Len(y) + 1
    BY <1>1
  <2>2. b - 1 \in 1 .. Len(y) /\ z[b] = y[b - 1]
    BY <1>1, <2>1
  <2>3. CASE a = 1
    BY <1>1, <1>4, <2>2, <2>3 DEF From
  <2>4. CASE a # 1
    <3>1. a \in 2 .. Len(y) + 1 /\ a - 1 < b - 1
      BY <1>1, <2>4
    <3>2. a - 1 \in 1 .. Len(y) /\ z[a] = y[a - 1]
      BY <1>1, <3>1
    <3> QED BY <1>1, <1>4, <2>2, <3>1, <3>2 DEF Ordered
  <2> QED BY <2>3, <2>4
<1>5. Leads(z, x)
  <2>1. 1 \in 1 .. Len(z) /\ 1 .. 1 - 1 = {}
    BY <1>1
  <2> QED BY <1>1, <2>1 DEF Leads
<1>6. ASSUME NEW l, x.name < l.name, Leads(y, l) PROVE Leads(z, l)
  <2>1. PICK q \in 1 .. Len(y) : y[q] = l /\ \A m \in 1 .. q - 1 : y[m].name < l.name
    BY <1>6 DEF Leads
  <2>2. q + 1 \in 1 .. Len(z) /\ z[q + 1] = l /\ (q + 1) - 1 = q
    BY <1>1, <2>1
  <2>3. ASSUME NEW m \in 1 .. q PROVE z[m].name < l.name
    <3>1. CASE m = 1
      BY <1>1, <1>6, <3>1
    <3>2. CASE m # 1
      <4>1. m \in 2 .. Len(y) + 1 /\ m - 1 \in 1 .. q - 1
        BY <1>1, <3>2
      <4> QED BY <1>1, <2>1, <4>1
    <3> QED BY <3>1, <3>2
  <2> QED BY <2>2, <2>3 DEF Leads
<1> QED BY <1>1, <1>2, <1>3, <1>4, <1>5, <1>6 DEF z

\* Every line of an ordered list leads.
LEMMA OrderedLeads ==
  ASSUME NEW S, NEW s \in Seq(S), Ordered(s), NEW l \in From(s, 1)
  PROVE  Leads(s, l)
<1>1. PICK q \in 1 .. Len(s) : l = s[q]
  BY DEF From
<1>2. \A m \in 1 .. q - 1 : m \in DOMAIN s /\ m < q
  OBVIOUS
<1> QED BY <1>1, <1>2 DEF Leads, Ordered

\* The end of a list.
LEMMA FromEnd ==
  ASSUME NEW S, NEW s \in Seq(S), NEW i \in 1 .. Len(s) + 1
  PROVE  /\ SubSeq(s, i, Len(s)) \in Seq(S) /\ From(SubSeq(s, i, Len(s)), 1) = From(s, i)
         /\ Ordered(s) => Ordered(SubSeq(s, i, Len(s)))
<1> DEFINE p == SubSeq(s, i, Len(s))
<1>1. /\ p \in Seq(S) /\ Len(p) = Len(s) + 1 - i /\ DOMAIN p = 1 .. Len(s) + 1 - i
      /\ \A k \in 1 .. Len(s) + 1 - i : p[k] = s[i + k - 1]
      /\ Len(s) \in Nat /\ DOMAIN s = 1 .. Len(s)
  BY SubSeqProperties
<1> HIDE DEF p
<1>2. \A k \in 1 .. Len(p) : i + k - 1 \in i .. Len(s) /\ i + k - 1 \in DOMAIN s
  BY <1>1
<1>3. \A k \in i .. Len(s) : k - i + 1 \in 1 .. Len(p) /\ p[k - i + 1] = s[k]
  <2> TAKE k \in i .. Len(s)
  <2>1. k - i + 1 \in 1 .. Len(p) /\ i + (k - i + 1) - 1 = k
    BY <1>1
  <2> QED BY <1>1, <2>1
<1>4. From(p, 1) \subseteq From(s, i)
  BY <1>1, <1>2 DEF From
<1>5. From(s, i) \subseteq From(p, 1)
  BY <1>3 DEF From
<1>6. ASSUME Ordered(s) PROVE Ordered(p)
  <2> SUFFICES ASSUME NEW a \in 1 .. Len(p), NEW b \in 1 .. Len(p), a < b
               PROVE  p[a].name < p[b].name
    BY <1>1 DEF Ordered
  <2>1. i + a - 1 < i + b - 1
    BY <1>1
  <2> QED BY <1>1, <1>2, <1>6, <2>1 DEF Ordered
<1> QED BY <1>1, <1>4, <1>5, <1>6 DEF p

\* One list is used up: the other one is copied.
LEMMA ZippedEnds ==
  ASSUME NEW S, NEW old \in Seq(S), NEW new \in Seq(S),
         NEW i \in 1 .. Len(old) + 1, NEW j \in 1 .. Len(new) + 1
  PROVE  /\ i > Len(old) => Zipped(SubSeq(new, j, Len(new)), old, new, i, j)
         /\ j > Len(new) => Zipped(SubSeq(old, i, Len(old)), old, new, i, j)
<1>1. /\ From(SubSeq(new, j, Len(new)), 1) = From(new, j)
      /\ Ordered(new) => Ordered(SubSeq(new, j, Len(new)))
      /\ From(SubSeq(old, i, Len(old)), 1) = From(old, i)
      /\ Ordered(old) => Ordered(SubSeq(old, i, Len(old)))
      /\ SubSeq(new, j, Len(new)) \in Seq(S)
  BY FromEnd
<1>2. (i > Len(old) => From(old, i) = {}) /\ (j > Len(new) => From(new, j) = {})
  BY DEF From
<1>3. Ordered(new) => \A l \in From(new, j) : Leads(SubSeq(new, j, Len(new)), l)
  BY <1>1, OrderedLeads
<1> QED BY <1>1, <1>2, <1>3 DEF Zipped

\* The old line comes first.
LEMMA ZippedOld ==
  ASSUME NEW S, \A l \in S : l.name \in Int, NEW old \in Seq(S), NEW new \in Seq(S),
         NEW i \in 1 .. Len(old), NEW j \in 1 .. Len(new), NEW y \in Seq(S),
         old[i].name < new[j].name, Zipped(y, old, new, i + 1, j)
  PROVE  <<old[i]>> \o y \in Seq(S) /\ Zipped(<<old[i]>> \o y, old, new, i, j)
<1> DEFINE z == <<old[i]>> \o y
<1>1. /\ old[i] \in S /\ From(old, i) = {old[i]} \cup From(old, i + 1) /\ From(old, i + 1) \subseteq S
      /\ Ordered(old) => \A l \in From(old, i + 1) : old[i].name < l.name
  BY FromNext
<1>2. /\ new[j] \in S /\ From(new, j) = {new[j]} \cup From(new, j + 1) /\ From(new, j + 1) \subseteq S
      /\ Ordered(new) => \A l \in From(new, j + 1) : new[j].name < l.name
  BY FromNext
<1>3. z \in Seq(S) /\ From(z, 1) = {old[i]} \cup From(y, 1)
  BY <1>1, FromFront
<1>4. ASSUME Ordered(old), Ordered(new) PROVE Ordered(z)
  <2>1. \A l \in From(new, j) : old[i].name < l.name
    BY <1>1, <1>2, <1>4
  <2>2. Ordered(y) /\ \A l \in From(y, 1) : old[i].name < l.name
    BY <1>1, <1>4, <2>1 DEF Zipped
  <2> QED BY <1>1, <2>2, FromFront
<1>5. ASSUME Ordered(new), NEW l \in From(new, j) PROVE Leads(z, l)
  <2>1. old[i].name < l.name
    BY <1>1, <1>2, <1>5
  <2>2. Leads(y, l)
    BY <1>5 DEF Zipped
  <2> QED BY <1>1, <2>1, <2>2, FromFront
<1> QED BY <1>1, <1>3, <1>4, <1>5 DEF Zipped

\* The new line comes first, and takes the place of an old one of its name.
LEMMA ZippedNew ==
  ASSUME NEW S, \A l \in S : l.name \in Int, NEW old \in Seq(S), NEW new \in Seq(S),
         NEW i \in 1 .. Len(old), NEW j \in 1 .. Len(new), NEW y \in Seq(S),
         \/ old[i].name > new[j].name /\ Zipped(y, old, new, i, j + 1)
         \/ old[i].name = new[j].name /\ Zipped(y, old, new, i + 1, j + 1)
  PROVE  <<new[j]>> \o y \in Seq(S) /\ Zipped(<<new[j]>> \o y, old, new, i, j)
<1> DEFINE z == <<new[j]>> \o y
<1>1. /\ old[i] \in S /\ From(old, i) = {old[i]} \cup From(old, i + 1) /\ From(old, i + 1) \subseteq S
      /\ Ordered(old) => \A l \in From(old, i + 1) : old[i].name < l.name
  BY FromNext
<1>2. /\ new[j] \in S /\ From(new, j) = {new[j]} \cup From(new, j + 1) /\ From(new, j + 1) \subseteq S
      /\ Ordered(new) => \A l \in From(new, j + 1) : new[j].name < l.name
  BY FromNext
<1>3. z \in Seq(S) /\ From(z, 1) = {new[j]} \cup From(y, 1)
  BY <1>2, FromFront
<1>6. ASSUME Ordered(new), NEW l \in From(new, j) PROVE Leads(z, l)
  <2>1. CASE l = new[j]
    BY <1>2, <2>1, FromFront
  <2>2. CASE l # new[j]
    <3>1. l \in From(new, j + 1) /\ new[j].name < l.name
      BY <1>2, <1>6, <2>2
    <3>2. Leads(y, l)
      BY <1>6, <3>1 DEF Zipped
    <3> QED BY <1>2, <3>1, <3>2, FromFront
  <2> QED BY <2>1, <2>2
<1>4. CASE old[i].name > new[j].name /\ Zipped(y, old, new, i, j + 1)
  <2>1. ASSUME Ordered(old), Ordered(new) PROVE Ordered(z)
    <3>1. \A l \in From(old, i) : new[j].name < l.name
      BY <1>1, <1>2, <1>4, <2>1
    <3>2. Ordered(y) /\ \A l \in From(y, 1) : new[j].name < l.name
      BY <1>2, <1>4, <2>1, <3>1 DEF Zipped
    <3> QED BY <1>2, <3>2, FromFront
  <2> QED BY <1>2, <1>3, <1>4, <1>6, <2>1 DEF Zipped
<1>5. CASE old[i].name = new[j].name /\ Zipped(y, old, new, i + 1, j + 1)
  <2>1. ASSUME Ordered(old), Ordered(new) PROVE Ordered(z)
    <3>1. \A l \in From(old, i + 1) : new[j].name < l.name
      BY <1>1, <1>5, <2>1
    <3>2. Ordered(y) /\ \A l \in From(y, 1) : new[j].name < l.name
      BY <1>2, <1>5, <2>1, <3>1 DEF Zipped
    <3> QED BY <1>2, <3>2, FromFront
  <2> QED BY <1>1, <1>2, <1>3, <1>5, <1>6, <2>1 DEF Zipped
<1> QED BY <1>4, <1>5

\* What a round does with the lines under its cursors.
Remainder(s, k) == SubSeq(s, k, Len(s))
Put(l, s) == <<l>> \o s
Unfolds(old, new, i, j) ==
  /\ i > Len(old) => ZipFrom(old, new)[<<i, j>>] = Remainder(new, j)
  /\ j > Len(new) => ZipFrom(old, new)[<<i, j>>] = Remainder(old, i)
  /\ i <= Len(old) /\ j <= Len(new) =>
       /\ old[i].name < new[j].name =>
            ZipFrom(old, new)[<<i, j>>] = Put(old[i], ZipFrom(old, new)[<<i + 1, j>>])
       /\ ~(old[i].name < new[j].name) /\ old[i].name = new[j].name =>
            ZipFrom(old, new)[<<i, j>>] = Put(new[j], ZipFrom(old, new)[<<i + 1, j + 1>>])
       /\ ~(old[i].name < new[j].name) /\ old[i].name # new[j].name =>
            ZipFrom(old, new)[<<i, j>>] = Put(new[j], ZipFrom(old, new)[<<i, j + 1>>])

\* One unfolding of the recursion.
LEMMA ZipAt ==
  ASSUME NEW S, NEW old \in Seq(S), NEW new \in Seq(S),
         NEW i \in 1 .. Len(old) + 1, NEW j \in 1 .. Len(new) + 1
  PROVE  Unfolds(old, new, i, j)
<1> DEFINE z == ZipFrom(old, new)
<1>0. Len(old) \in Nat /\ Len(new) \in Nat
  OBVIOUS
<1>1. z = [at \in Cursors(old, new) |-> Round(z, old, new, at)]
  BY <1>0, ZipSolves
<1>2. <<i, j>> \in Cursors(old, new)
  BY DEF Cursors
<1> HIDE DEF z
<1>3. z[<<i, j>>] = Round(z, old, new, <<i, j>>)
  BY <1>1, <1>2
<1>4. <<i, j>>[1] = i /\ <<i, j>>[2] = j
  OBVIOUS
<1>5. SubSeq(old, i, Len(old)) \in Seq(S) /\ SubSeq(new, j, Len(new)) \in Seq(S)
  BY FromEnd
<1>6. (i > Len(old) => SubSeq(old, i, Len(old)) = <<>>)
      /\ (j > Len(new) => SubSeq(new, j, Len(new)) = <<>>)
  BY SubSeqEmpty
<1>7. i > Len(old) \/ j > Len(new) =>
        z[<<i, j>>] = SubSeq(old, i, Len(old)) \o SubSeq(new, j, Len(new))
  BY <1>3, <1>4 DEF Round
<1>8. i <= Len(old) /\ j <= Len(new) =>
        z[<<i, j>>] = IF old[i].name < new[j].name
           THEN <<old[i]>> \o z[<<i + 1, j>>]
           ELSE <<new[j]>> \o z[<<IF old[i].name = new[j].name THEN i + 1 ELSE i, j + 1>>]
  BY <1>3, <1>4 DEF Round
<1>e. \A s \in Seq(S) : s \o <<>> = s /\ <<>> \o s = s
  BY ConcatEmptySeq
<1>9. i > Len(old) => z[<<i, j>>] = SubSeq(new, j, Len(new))
  BY <1>5, <1>6, <1>7, <1>e
<1>10. j > Len(new) => z[<<i, j>>] = SubSeq(old, i, Len(old))
  BY <1>5, <1>6, <1>7, <1>e
<1> QED BY <1>8, <1>9, <1>10 DEF z, Unfolds, Put, Remainder

\* What the recursion has of the lists from two cursors on is right.
Right(S, old, new, i, j) ==
  /\ ZipFrom(old, new)[<<i, j>>] \in Seq(S)
  /\ Zipped(ZipFrom(old, new)[<<i, j>>], old, new, i, j)

\* It is right from a pair of cursors on when it is from the next ones on.
LEMMA RightFromNext ==
  ASSUME NEW S, \A l \in S : l.name \in Int, NEW old \in Seq(S), NEW new \in Seq(S),
         NEW i \in 1 .. Len(old) + 1, NEW j \in 1 .. Len(new) + 1,
         i <= Len(old) /\ j <= Len(new) =>
           /\ Right(S, old, new, i + 1, j)
           /\ Right(S, old, new, i, j + 1)
           /\ Right(S, old, new, i + 1, j + 1)
  PROVE  Right(S, old, new, i, j)
<1>0. Unfolds(old, new, i, j)
  BY ZipAt
<1> DEFINE z == ZipFrom(old, new)
<1>1. ASSUME i > Len(old) \/ j > Len(new) PROVE Right(S, old, new, i, j)
  <2>1. /\ i > Len(old) => Zipped(Remainder(new, j), old, new, i, j)
        /\ j > Len(new) => Zipped(Remainder(old, i), old, new, i, j)
    BY ZippedEnds DEF Remainder
  <2>2. Remainder(new, j) \in Seq(S) /\ Remainder(old, i) \in Seq(S)
    BY FromEnd DEF Remainder
  <2> QED BY <1>0, <1>1, <2>1, <2>2 DEF Right, Unfolds
<1>2. ASSUME i <= Len(old), j <= Len(new) PROVE Right(S, old, new, i, j)
  <2>1. /\ i \in 1 .. Len(old) /\ j \in 1 .. Len(new)
        /\ z[<<i + 1, j>>] \in Seq(S) /\ Zipped(z[<<i + 1, j>>], old, new, i + 1, j)
        /\ z[<<i, j + 1>>] \in Seq(S) /\ Zipped(z[<<i, j + 1>>], old, new, i, j + 1)
        /\ z[<<i + 1, j + 1>>] \in Seq(S) /\ Zipped(z[<<i + 1, j + 1>>], old, new, i + 1, j + 1)
    BY <1>2 DEF Right
  <2>2. old[i].name \in Int /\ new[j].name \in Int
    BY <2>1
  <2>3. CASE old[i].name < new[j].name
    <3>1. z[<<i, j>>] = Put(old[i], z[<<i + 1, j>>])
      BY ONLY <1>0, <1>2, <2>3 DEF Unfolds
    <3> HIDE DEF z
    <3>2. Put(old[i], z[<<i + 1, j>>]) \in Seq(S)
          /\ Zipped(Put(old[i], z[<<i + 1, j>>]), old, new, i, j)
      BY <2>1, <2>3, ZippedOld DEF Put
    <3> QED BY <3>1, <3>2 DEF Right, z
  <2>4. CASE old[i].name = new[j].name
    <3>1. z[<<i, j>>] = Put(new[j], z[<<i + 1, j + 1>>])
      BY ONLY <1>0, <1>2, <2>2, <2>4 DEF Unfolds
    <3> HIDE DEF z
    <3>2. Put(new[j], z[<<i + 1, j + 1>>]) \in Seq(S)
          /\ Zipped(Put(new[j], z[<<i + 1, j + 1>>]), old, new, i, j)
      BY <2>1, <2>4, ZippedNew DEF Put
    <3> QED BY <3>1, <3>2 DEF Right, z
  <2>5. CASE old[i].name > new[j].name
    <3>1. z[<<i, j>>] = Put(new[j], z[<<i, j + 1>>])
      BY ONLY <1>0, <1>2, <2>2, <2>5 DEF Unfolds
    <3> HIDE DEF z
    <3>2. Put(new[j], z[<<i, j + 1>>]) \in Seq(S)
          /\ Zipped(Put(new[j], z[<<i, j + 1>>]), old, new, i, j)
      BY <2>1, <2>5, ZippedNew DEF Put
    <3> QED BY <3>1, <3>2 DEF Right, z
  <2> QED BY <2>2, <2>3, <2>4, <2>5
<1> QED BY <1>1, <1>2

\* What it has from any pair of cursors on is right.
LEMMA RightFrom ==
  ASSUME NEW S, \A l \in S : l.name \in Int, NEW old \in Seq(S), NEW new \in Seq(S)
  PROVE  \A i \in 1 .. Len(old) + 1, j \in 1 .. Len(new) + 1 : Right(S, old, new, i, j)
<1> DEFINE Done == {n \in Nat : \A i \in 1 .. Len(old) + 1, j \in 1 .. Len(new) + 1 :
                      Left(old, new, <<i, j>>) < n => Right(S, old, new, i, j)}
<1>0. /\ Len(old) \in Nat /\ Len(new) \in Nat
  OBVIOUS
<1>1. 0 \in Done
  BY <1>0 DEF Left
<1>2. ASSUME NEW n \in Nat, n \in Done PROVE n + 1 \in Done
  <2> SUFFICES ASSUME NEW i \in 1 .. Len(old) + 1, NEW j \in 1 .. Len(new) + 1,
                      Left(old, new, <<i, j>>) < n + 1
               PROVE  Right(S, old, new, i, j)
    OBVIOUS
  <2>1. ASSUME i <= Len(old), j <= Len(new)
        PROVE  /\ Right(S, old, new, i + 1, j)
               /\ Right(S, old, new, i, j + 1)
               /\ Right(S, old, new, i + 1, j + 1)
    <3>1. /\ i + 1 \in 1 .. Len(old) + 1 /\ j + 1 \in 1 .. Len(new) + 1
          /\ Left(old, new, <<i + 1, j>>) < n
          /\ Left(old, new, <<i, j + 1>>) < n
          /\ Left(old, new, <<i + 1, j + 1>>) < n
      BY <1>0, <2>1 DEF Left
    <3> QED BY <1>2, <3>1
  <2> QED BY <2>1, RightFromNext
<1>3. \A n \in Nat : n \in Done
  <2> HIDE DEF Done
  <2> QED BY <1>1, <1>2, SetInduction
<1>4. \A i \in 1 .. Len(old) + 1, j \in 1 .. Len(new) + 1 :
        /\ Len(old) + Len(new) + 1 \in Nat
        /\ Left(old, new, <<i, j>>) < Len(old) + Len(new) + 1
  BY <1>0 DEF Left
<1> QED BY <1>3, <1>4

\* For all lists: the merge has every new line, every old one whose name has no
\* new line, and no other; of ordered lists it is ordered, and ordered new lines
\* are found in it behind smaller names only.
THEOREM MergeOfLists ==
  ASSUME NEW S, \A l \in S : l.name \in Int, NEW old \in Seq(S), NEW new \in Seq(S)
  PROVE  ZipMerge(old, new) \in Seq(S) /\ Zipped(ZipMerge(old, new), old, new, 1, 1)
<1>1. 1 \in 1 .. Len(old) + 1 /\ 1 \in 1 .. Len(new) + 1
  OBVIOUS
<1>2. Right(S, old, new, 1, 1)
  BY <1>1, RightFrom
<1> QED BY <1>2 DEF ZipMerge, Right

\* What the three cases of the loops, and their end, take of the recursion.
Steps(old, new, i, j) ==
  /\ i <= Len(old) /\ (j <= Len(new) => old[i].name < new[j].name) =>
       ZipFrom(old, new)[<<i, j>>] = Put(old[i], ZipFrom(old, new)[<<i + 1, j>>])
  /\ i <= Len(old) /\ j <= Len(new) /\ old[i].name = new[j].name =>
       ZipFrom(old, new)[<<i, j>>] = Put(new[j], ZipFrom(old, new)[<<i + 1, j + 1>>])
  /\ j <= Len(new) /\ (i <= Len(old) => old[i].name > new[j].name) =>
       ZipFrom(old, new)[<<i, j>>] = Put(new[j], ZipFrom(old, new)[<<i, j + 1>>])
  /\ i > Len(old) /\ j > Len(new) => ZipFrom(old, new)[<<i, j>>] = <<>>

\* A step of the loops takes the first line of what the recursion has.
LEMMA ZipStep ==
  ASSUME NEW S, \A l \in S : l.name \in Int, NEW old \in Seq(S), NEW new \in Seq(S),
         NEW i \in 1 .. Len(old) + 1, NEW j \in 1 .. Len(new) + 1
  PROVE  Steps(old, new, i, j)
<1>0. Unfolds(old, new, i, j)
  BY ZipAt
<1>1. CASE i <= Len(old) /\ j <= Len(new)
  <2>1. old[i].name \in Int /\ new[j].name \in Int
    BY <1>1
  <2> QED BY ONLY <1>0, <1>1, <2>1, i \in 1 .. Len(old) + 1, j \in 1 .. Len(new) + 1 DEF Unfolds, Steps
<1>2. CASE i <= Len(old) /\ j > Len(new)
  <2>1. i + 1 \in 1 .. Len(old) + 1 /\ i \in 1 .. Len(old) /\ Len(old) \in i .. Len(old)
    BY <1>2
  <2>2. Unfolds(old, new, i + 1, j)
    BY <2>1, ZipAt
  <2>3. Remainder(old, i) = Put(old[i], Remainder(old, i + 1))
    BY <2>1, SubSeqRecursiveFirst DEF Remainder, Put
  <2> QED BY <1>0, <1>2, <2>2, <2>3 DEF Unfolds, Steps
<1>3. CASE i > Len(old) /\ j <= Len(new)
  <2>1. j + 1 \in 1 .. Len(new) + 1 /\ j \in 1 .. Len(new) /\ Len(new) \in j .. Len(new)
    BY <1>3
  <2>2. Unfolds(old, new, i, j + 1)
    BY <2>1, ZipAt
  <2>3. Remainder(new, j) = Put(new[j], Remainder(new, j + 1))
    BY <2>1, SubSeqRecursiveFirst DEF Remainder, Put
  <2> QED BY <1>0, <1>3, <2>2, <2>3 DEF Unfolds, Steps
<1>4. CASE i > Len(old) /\ j > Len(new)
  <2>1. Remainder(new, j) = <<>>
    BY <1>4, SubSeqEmpty DEF Remainder
  <2> QED BY <1>0, <1>4, <2>1 DEF Unfolds, Steps
<1> QED BY <1>1, <1>2, <1>3, <1>4
-----------------------------------------------------------------------------
\* What a loop that copies has copied before each round.
Longer(r, l) == Append(r, l)
Copies(p, s, n, K) ==
  /\ p[0] = <<>>
  /\ \A k \in 1 .. n : p[k] = IF k \in K THEN Longer(p[k - 1], s[k]) ELSE p[k - 1]

\* The recursion of Picked has a solution.
LEMMA PickedLoop ==
  ASSUME NEW S, NEW s \in Seq(S), NEW K
  PROVE  \E p \in [0 .. Len(s) -> Seq(S)] : Copies(p, s, Len(s), K) /\ Picked(s, K) = p[Len(s)]
<1>n. PICK n \in Nat : n = Len(s)
  OBVIOUS
<1>t. PICK T : T = Seq(S)
  OBVIOUS
<1>0. /\ <<>> \in T /\ \A r \in T, k \in 1 .. n : Longer(r, s[k]) \in T
  BY <1>n, <1>t DEF Longer
<1> DEFINE Body(p) == [k \in 0 .. n |->
                         IF k = 0 THEN <<>>
                         ELSE IF k \in K THEN Longer(p[k - 1], s[k]) ELSE p[k - 1]]
           c == CHOOSE p : p = Body(p)
<1>1. \A p : p = Body(p) => p = [k \in 0 .. n |-> p[k]] /\ Copies(p, s, n, K)
  <2> TAKE p
  <2> HAVE p = Body(p)
  <2>1. 0 \in 0 .. n /\ \A k \in 1 .. n : k \in 0 .. n /\ k # 0
    OBVIOUS
  <2>2. p = [k \in 0 .. n |-> p[k]]
    OBVIOUS
  <2>3. p[0] = <<>> /\ \A k \in 1 .. n : p[k] = IF k \in K THEN Longer(p[k - 1], s[k]) ELSE p[k - 1]
    BY <2>1
  <2> QED BY <2>2, <2>3 DEF Copies
<1>2. \E p : p = Body(p)
  <2> DEFINE step == [at \in T \X (1 .. n) |->
                        IF at[2] \in K THEN Longer(at[1], s[at[2]]) ELSE at[1]]
  <2>1. \A r \in T, k \in 1 .. n :
          /\ step[<<r, k>>] = IF k \in K THEN Longer(r, s[k]) ELSE r
          /\ step[<<r, k>>] \in T
    BY <1>0
  <2> HIDE DEF step
  <2>2. PICK f \in [0 .. n -> T] :
          f[0] = <<>> /\ \A k \in 1 .. n : f[k] = step[<<f[k - 1], k>>]
    <3>1. Closed(step, n, T) /\ <<>> \in T
      BY <1>0, <2>1 DEF Closed
    <3>2. PICK f \in [0 .. n -> T] : Runs(f, n, <<>>, step)
      BY <3>1, LoopResults
    <3> QED BY <3>2 DEF Runs
  <2>3. \A k \in 1 .. n : k - 1 \in 0 .. n /\ f[k - 1] \in T
    OBVIOUS
  <2>4. \A k \in 1 .. n : f[k] = IF k \in K THEN Longer(f[k - 1], s[k]) ELSE f[k - 1]
    BY <2>1, <2>2, <2>3
  <2>5. f = [k \in 0 .. n |-> f[k]]
    OBVIOUS
  <2>6. f = Body(f)
    <3>1. \A k \in 0 .. n : k = 0 \/ k \in 1 .. n
      OBVIOUS
    <3>2. \A k \in 0 .. n :
            f[k] = IF k = 0 THEN <<>>
                   ELSE IF k \in K THEN Longer(f[k - 1], s[k]) ELSE f[k - 1]
      BY <2>2, <2>4, <3>1
    <3> QED BY <2>5, <3>2
  <2> QED BY <2>6
<1>3. c = Body(c)
  <2> HIDE DEF Body
  <2> QED BY <1>2
<1>4. c = [k \in 0 .. n |-> c[k]] /\ Copies(c, s, n, K)
  <2> HIDE DEF Body, c
  <2> QED BY <1>1, <1>3
<1>5. Picked(s, K) = c[n]
  BY <1>n DEF Picked, Longer
<1> HIDE DEF c
<1>6. \A k \in 0 .. n : c[k] \in T
  <2> DEFINE D == {k \in 0 .. n : c[k] \in T}
  <2>1. 0 \in D
    BY <1>0, <1>4 DEF Copies
  <2>2. \A k \in 1 .. n : k - 1 \in D => k \in D
    <3> TAKE k \in 1 .. n
    <3> HAVE k - 1 \in D
    <3>1. c[k] = Longer(c[k - 1], s[k]) \/ c[k] = c[k - 1]
      BY <1>4 DEF Copies
    <3>2. c[k - 1] \in T /\ Longer(c[k - 1], s[k]) \in T
      BY <1>0
    <3> QED BY <3>1, <3>2
  <2> HIDE DEF D
  <2>3. \A k \in 0 .. n : k \in D
    BY <2>1, <2>2, CountInduction
  <2> QED BY <2>3 DEF D
<1>7. c \in [0 .. n -> T]
  BY <1>4, <1>6
<1> QED BY <1>n, <1>t, <1>4, <1>5, <1>7

\* A line appended to a list.
LEMMA FromBack ==
  ASSUME NEW S, NEW x \in S, NEW y \in Seq(S)
  PROVE  From(Append(y, x), 1) = From(y, 1) \cup {x}
<1>1. /\ Len(Append(y, x)) = Len(y) + 1 /\ Len(y) \in Nat
      /\ \A k \in 1 .. Len(y) : Append(y, x)[k] = y[k]
      /\ Append(y, x)[Len(y) + 1] = x
  OBVIOUS
<1>2. 1 .. Len(y) + 1 = (1 .. Len(y)) \cup {Len(y) + 1}
  BY <1>1
<1> HIDE DEF From
<1> QED BY <1>1, <1>2 DEF From

\* The loop copies the elements it is to copy, and a list of which it is to copy
\* everything as it is.
LEMMA PickedLines ==
  ASSUME NEW S, NEW s \in Seq(S), NEW K
  PROVE  /\ Picked(s, K) \in Seq(S)
         /\ From(Picked(s, K), 1) = {s[k] : k \in K \cap (1 .. Len(s))}
         /\ 1 .. Len(s) \subseteq K => Picked(s, K) = s
<1>1. PICK p \in [0 .. Len(s) -> Seq(S)] : Copies(p, s, Len(s), K) /\ Picked(s, K) = p[Len(s)]
  BY PickedLoop
<1>2. /\ Len(s) \in Nat /\ \A k \in 1 .. Len(s) : s[k] \in S
      /\ \A k \in 0 .. Len(s) : p[k] \in Seq(S)
      /\ \A k \in 1 .. Len(s) : k - 1 \in 0 .. Len(s) /\ k \in 0 .. Len(s)
  OBVIOUS
<1>3. p[0] = <<>> /\ \A k \in 1 .. Len(s) : /\ k \in K => p[k] = Append(p[k - 1], s[k])
                                            /\ k \notin K => p[k] = p[k - 1]
  BY <1>1 DEF Copies, Longer
<1>4. \A k \in 0 .. Len(s) : From(p[k], 1) = {s[m] : m \in K \cap (1 .. k)}
  <2> DEFINE D == {k \in 0 .. Len(s) : From(p[k], 1) = {s[m] : m \in K \cap (1 .. k)}}
  <2>1. 0 \in D
    <3>1. From(p[0], 1) = {}
      BY <1>3 DEF From
    <3> QED BY <1>2, <3>1
  <2>2. \A k \in 1 .. Len(s) : k - 1 \in D => k \in D
    <3> TAKE k \in 1 .. Len(s)
    <3> HAVE k - 1 \in D
    <3>1. From(p[k - 1], 1) = {s[m] : m \in K \cap (1 .. k - 1)}
      OBVIOUS
    <3>2. 1 .. k = (1 .. k - 1) \cup {k}
      BY <1>2
    <3>3. CASE k \in K
      <4>1. From(p[k], 1) = From(p[k - 1], 1) \cup {s[k]}
        BY <1>2, <1>3, <3>3, FromBack
      <4> QED BY <1>2, <3>1, <3>2, <3>3, <4>1
    <3>4. CASE k \notin K
      BY <1>2, <1>3, <3>1, <3>2, <3>4
    <3> QED BY <3>3, <3>4
  <2> HIDE DEF D
  <2>3. \A k \in 0 .. Len(s) : k \in D
    BY <1>2, <2>1, <2>2, CountInduction
  <2> QED BY <2>3 DEF D
<1>5. ASSUME 1 .. Len(s) \subseteq K PROVE p[Len(s)] = s
  <2> DEFINE D == {k \in 0 .. Len(s) : Len(p[k]) = k /\ \A m \in 1 .. k : p[k][m] = s[m]}
  <2>1. 0 \in D
    BY <1>2, <1>3
  <2>2. \A k \in 1 .. Len(s) : k - 1 \in D => k \in D
    <3> TAKE k \in 1 .. Len(s)
    <3> HAVE k - 1 \in D
    <3>1. p[k] = Append(p[k - 1], s[k]) /\ p[k - 1] \in Seq(S) /\ s[k] \in S
      BY <1>2, <1>3, <1>5
    <3>2. Len(p[k - 1]) = k - 1 /\ \A m \in 1 .. k - 1 : p[k - 1][m] = s[m]
      OBVIOUS
    <3> DEFINE q == p[k - 1]
    <3>3. Len(Append(q, s[k])) = Len(q) + 1 /\ Append(q, s[k])[Len(q) + 1] = s[k]
          /\ \A m \in 1 .. Len(q) : Append(q, s[k])[m] = q[m]
      BY <3>1
    <3>4. 1 .. k = (1 .. k - 1) \cup {k} /\ (k - 1) + 1 = k /\ k \in 0 .. Len(s)
      BY <1>2
    <3> QED BY <3>1, <3>2, <3>3, <3>4
  <2> HIDE DEF D
  <2>3. \A k \in 0 .. Len(s) : k \in D
    BY <1>2, <2>1, <2>2, CountInduction
  <2>4. Len(s) \in 0 .. Len(s)
    BY <1>2
  <2>5. Len(p[Len(s)]) = Len(s) /\ \A m \in 1 .. Len(s) : p[Len(s)][m] = s[m]
    BY <2>3, <2>4 DEF D
  <2>6. p[Len(s)] \in Seq(S)
    BY <1>2, <2>4
  <2> DEFINE z == p[Len(s)]
  <2> HIDE DEF z
  <2>7. z \in Seq(S) /\ Len(z) = Len(s) /\ \A m \in 1 .. Len(s) : z[m] = s[m]
    BY <2>5, <2>6 DEF z
  <2>8. z = s
    BY <2>7, SeqEqual
  <2> QED BY <2>8 DEF z
<1>6. Len(s) \in 0 .. Len(s)
  BY <1>2
<1> QED BY <1>1, <1>2, <1>4, <1>5, <1>6

\* A line behind smaller names only stays behind such ones when lines are left out.
LEMMA PickedLeads ==
  ASSUME NEW S, NEW s \in Seq(S), NEW K, NEW l, Leads(s, l),
         \A k \in 1 .. Len(s) : s[k] = l => k \in K
  PROVE  Leads(Picked(s, K), l)
<1>1. PICK p \in [0 .. Len(s) -> Seq(S)] : Copies(p, s, Len(s), K) /\ Picked(s, K) = p[Len(s)]
  BY PickedLoop
<1>2. PICK q \in 1 .. Len(s) : s[q] = l /\ \A m \in 1 .. q - 1 : s[m].name < l.name
  BY DEF Leads
<1>a. /\ Len(s) \in Nat /\ \A k \in 1 .. Len(s) : s[k] \in S
      /\ \A k \in 0 .. Len(s) : p[k] \in Seq(S)
      /\ \A k \in 1 .. Len(s) : k - 1 \in 0 .. Len(s) /\ k \in 0 .. Len(s)
  OBVIOUS
<1>b. p[0] = <<>> /\ \A k \in 1 .. Len(s) : /\ k \in K => p[k] = Append(p[k - 1], s[k])
                                            /\ k \notin K => p[k] = p[k - 1]
  BY <1>1 DEF Copies, Longer
<1>3. /\ Len(s) \in Nat /\ p[0] = <<>>
      /\ \A k \in 1 .. Len(s) : k - 1 \in 0 .. Len(s) /\ p[k - 1] \in Seq(S) /\ s[k] \in S
      /\ \A k \in 1 .. Len(s) : k \in K => p[k] = Append(p[k - 1], s[k])
      /\ \A k \in 1 .. Len(s) : k \notin K => p[k] = p[k - 1]
  BY <1>a, <1>b
<1> DEFINE Smaller(r) == \A m \in 1 .. Len(r) : r[m].name < l.name
<1>4. ASSUME NEW r \in Seq(S), NEW x \in S
      PROVE  /\ Smaller(r) /\ x.name < l.name => Smaller(Append(r, x))
             /\ Smaller(r) /\ x = l => Leads(Append(r, x), l)
             /\ Leads(r, l) => Leads(Append(r, x), l)
  <2>1. /\ Len(r) \in Nat /\ Len(Append(r, x)) = Len(r) + 1 /\ Append(r, x)[Len(r) + 1] = x
        /\ \A m \in 1 .. Len(r) : Append(r, x)[m] = r[m]
        /\ \A m \in 1 .. Len(r) + 1 : m \in 1 .. Len(r) \/ m = Len(r) + 1
    OBVIOUS
  <2> DEFINE y == Append(r, x)
  <2> HIDE DEF y
  <2>2. Smaller(r) /\ x.name < l.name => Smaller(y)
    BY <2>1 DEF y
  <2>3. Smaller(r) /\ x = l => Leads(y, l)
    <3>1. Len(r) + 1 \in 1 .. Len(y) /\ (Len(r) + 1) - 1 = Len(r) /\ y[Len(r) + 1] = x
      BY <2>1 DEF y
    <3> QED BY <2>1, <3>1 DEF y, Leads
  <2>4. ASSUME Leads(r, l) PROVE Leads(y, l)
    <3>1. PICK a \in 1 .. Len(r) : r[a] = l /\ \A m \in 1 .. a - 1 : r[m].name < l.name
      BY <2>4 DEF Leads
    <3>2. a \in 1 .. Len(y) /\ y[a] = l /\ \A m \in 1 .. a - 1 : m \in 1 .. Len(r) /\ y[m] = r[m]
      BY <2>1, <3>1 DEF y
    <3> QED BY <3>1, <3>2 DEF Leads
  <2> QED BY <2>2, <2>3, <2>4 DEF y
<1> DEFINE D == {k \in 0 .. Len(s) : (k < q => Smaller(p[k])) /\ (k >= q => Leads(p[k], l))}
<1>5. 0 \in D
  BY <1>3
<1>6. \A k \in 1 .. Len(s) : k - 1 \in D => k \in D
  <2> TAKE k \in 1 .. Len(s)
  <2> HAVE k - 1 \in D
  <2>1. (k - 1 < q => Smaller(p[k - 1])) /\ (k - 1 >= q => Leads(p[k - 1], l))
    OBVIOUS
  <2> HIDE DEF Smaller
  <2>2. CASE k < q
    <3>1. s[k].name < l.name /\ Smaller(p[k - 1])
      BY <1>2, <2>1, <2>2
    <3>2. Smaller(p[k])
      BY <1>3, <1>4, <3>1
    <3> QED BY <1>3, <2>2, <3>2
  <2>3. CASE k = q
    <3>1. s[k] = l /\ k \in K /\ Smaller(p[k - 1])
      BY <1>2, <1>3, <2>1, <2>3
    <3>2. Leads(p[k], l)
      BY <1>3, <1>4, <3>1
    <3> QED BY <1>3, <2>3, <3>2
  <2>4. CASE k > q
    <3>1. Leads(p[k - 1], l)
      BY <1>3, <2>1, <2>4
    <3>2. Leads(p[k], l)
      BY <1>3, <1>4, <3>1
    <3> QED BY <1>3, <2>4, <3>2
  <2> QED BY <2>2, <2>3, <2>4
<1>7. \A k \in 0 .. Len(s) : k \in D
  <2> HIDE DEF D
  <2> QED BY <1>3, <1>5, <1>6, CountInduction
<1>8. Leads(p[Len(s)], l)
  BY <1>2, <1>3, <1>7
<1> QED BY <1>1, <1>8
=============================================================================
