--------------------------- MODULE GitReportProofs ---------------------------
(***************************************************************************)
(* versions.txt between any number of instances that fetch, and what the   *)
(* report of another one reads there: for all names, versions, systems and *)
(* numbers of commands and kills.                                          *)
(***************************************************************************)
EXTENDS GitReport, VersionLinesProofs

\* A finite set of numbers has a greatest one.
LEMMA Greatest ==
  ASSUME NEW T \in SUBSET Int, IsFiniteSet(T), T # {}
  PROVE  \E m \in T : \A x \in T : x <= m
<1> DEFINE Has(U) == \E m \in U : \A x \in U : x <= m
           D == {n \in Nat : \A U \in SUBSET Int :
                   IsFiniteSet(U) /\ Cardinality(U) = n /\ U # {} => Has(U)}
<1>1. 0 \in D
  BY FS_EmptySet
<1>2. ASSUME NEW n \in Nat, n \in D PROVE n + 1 \in D
  <2> SUFFICES ASSUME NEW U \in SUBSET Int, IsFiniteSet(U), Cardinality(U) = n + 1, U # {}
               PROVE  Has(U)
    OBVIOUS
  <2>1. PICK u \in U : TRUE
    OBVIOUS
  <2>2. IsFiniteSet(U \ {u}) /\ Cardinality(U \ {u}) = n
    <3>1. IsFiniteSet(U \ {u}) /\ Cardinality(U \ {u}) = Cardinality(U) - 1
      BY <2>1, FS_RemoveElement
    <3> QED BY <3>1
  <2>3. CASE U \ {u} = {}
    BY <2>1, <2>3
  <2>4. CASE U \ {u} # {}
    <3>1. PICK m \in U \ {u} : \A x \in U \ {u} : x <= m
      BY <1>2, <2>2, <2>4
    <3>2. CASE u <= m
      BY <3>1, <3>2
    <3>3. CASE ~(u <= m)
      <4>1. \A x \in U : x <= u
        BY <3>1, <3>3
      <4> QED BY <2>1, <4>1
    <3> QED BY <3>2, <3>3
  <2> QED BY <2>3, <2>4
<1>3. \A n \in Nat : n \in D
  <2> HIDE DEF D
  <2> QED BY <1>1, <1>2, SetInduction
<1>4. Cardinality(T) \in Nat
  BY FS_CardinalityType
<1> QED BY <1>3, <1>4

-----------------------------------------------------------------------------
(* The constants and the sets of lines.                                     *)

MaxVer == CHOOSE m \in Vers : \A v \in Vers : v <= m

\* The names are numbers, and so is the longest version.
LEMMA TextsAndVersions ==
  /\ Texts \subseteq Int /\ 0 \in Texts /\ Names \subseteq Texts
  /\ \A n \in Names : Rest[n] \in Texts
  /\ MaxVer \in Nat \ {0} /\ Vers \subseteq 1 .. MaxVer
<1> DEFINE Rests == {Rest[n] : n \in Names}
           known == {0} \cup Names \cup Rests
<1>1. IsFiniteSet(known) /\ known \subseteq Nat
  <2>1. Rest \in Surjection(Names, Rests)
    BY SharedNamesAssumption DEF Surjection
  <2>2. IsFiniteSet(Rests)
    <3> HIDE DEF Rests
    <3> QED BY <2>1, SharedNamesAssumption, FS_Surjection
  <2>3. IsFiniteSet({0})
    BY FS_Singleton
  <2>4. IsFiniteSet({0} \cup Names)
    BY <2>3, SharedNamesAssumption, FS_Union
  <2>5. IsFiniteSet(({0} \cup Names) \cup Rests)
    <3> HIDE DEF Rests
    <3> QED BY <2>2, <2>4, FS_Union
  <2>6. known \subseteq Nat
    <3>1. \A n \in Names : n \in Nat /\ Rest[n] \in Nat
      BY SharedNamesAssumption
    <3> QED BY <3>1
  <2> QED BY <2>5, <2>6
<1>2. Texts = known \cup {1 + CHOOSE m \in known : \A n \in known : n <= m}
  BY DEF Texts
<1> HIDE DEF known
<1>3. \E m \in known : \A n \in known : n <= m
  <2>1. known # {} /\ known \in SUBSET Int
    BY <1>1 DEF known
  <2> QED BY <1>1, <2>1, Greatest
<1>4. Texts \subseteq Int
  <2> DEFINE last == CHOOSE m \in known : \A n \in known : n <= m
  <2>1. last \in known
    BY <1>3
  <2>3. Texts = known \cup {1 + last}
    BY ONLY <1>2
  <2> HIDE DEF last
  <2>2. 1 + last \in Int
    BY <1>1, <2>1
  <2>4. \A x \in known : x \in Int
    BY <1>1
  <2> QED BY <2>2, <2>3, <2>4
<1>5. 0 \in Texts /\ Names \subseteq Texts /\ \A n \in Names : Rest[n] \in Texts
  BY <1>2 DEF known
<1>6. MaxVer \in Nat \ {0} /\ Vers \subseteq 1 .. MaxVer
  <2>1. \E m \in Vers : \A v \in Vers : v <= m
    <3>1. Vers \in SUBSET Int /\ Vers # {} /\ IsFiniteSet(Vers)
      BY SharedNamesAssumption
    <3> QED BY <3>1, Greatest
  <2>2. MaxVer \in Vers /\ \A v \in Vers : v <= MaxVer
    BY <2>1 DEF MaxVer
  <2> QED BY <2>2, SharedNamesAssumption
<1> QED BY <1>4, <1>5, <1>6

\* The lines that the parser takes, and those of a fetched version.
Good == {l \in Lines : l.space}
Fresh == [name : Names, ver : Vers, space : {TRUE}]

\* What a line holds; fresh lines are good ones.
LEMMA LineSets ==
  /\ Lines = [name : Texts, ver : 1 .. MaxVer, space : BOOLEAN]
  /\ Good \subseteq Lines /\ Fresh \subseteq Good /\ Fresh \subseteq Lines
  /\ Seq(Good) \subseteq Seq(Lines) /\ Seq(Fresh) \subseteq Seq(Good)
  /\ \A l \in Lines : l.name \in Int
<1>1. Lines = [name : Texts, ver : 1 .. MaxVer, space : BOOLEAN]
  BY DEF Lines, MaxVer
<1>2. Good \subseteq Lines /\ Fresh \subseteq Good
  BY <1>1, TextsAndVersions DEF Good, Fresh
<1>3. \A l \in Lines : l.name \in Int
  BY <1>1, TextsAndVersions
<1> QED BY <1>1, <1>2, <1>3, SeqMonotonic

-----------------------------------------------------------------------------
(* What a list leaves of the lines it is written over.                      *)

\* A line takes at least a character of its version and its newline.
LEMMA Widths ==
  ASSUME NEW l \in Lines
  PROVE  Before(l) \in Nat /\ Width(l) \in Int /\ Width(l) = Before(l) + l.ver + 1 /\ l.ver \in 1 .. MaxVer
<1>1. l.ver \in 1 .. MaxVer /\ MaxVer \in Nat
  BY LineSets, TextsAndVersions
<1>2. Before(l) \in Nat
  BY DEF Before
<1> QED BY <1>1, <1>2 DEF Width

\* What is left of a line is one line or none.
LEMMA CutLine ==
  ASSUME NEW l \in Lines, NEW k \in Int
  PROVE  Cut(l, k) \in Seq(Lines)
<1>0. /\ l = [name |-> l.name, ver |-> l.ver, space |-> l.space]
      /\ l.name \in Texts /\ l.ver \in 1 .. MaxVer /\ l.space \in BOOLEAN
  BY LineSets
<1>1. CASE k <= 0
  BY <1>1 DEF Cut
<1>2. CASE k > 0 /\ k < Before(l)
  <2> DEFINE t == IF k = 1 /\ l.name \in Names THEN Rest[l.name] ELSE 0
  <2>1. t \in Texts
    BY TextsAndVersions
  <2>2. [l EXCEPT !.name = t] \in Lines
    <3> HIDE DEF t
    <3> QED BY <1>0, <2>1, LineSets
  <2>3. Cut(l, k) = <<[l EXCEPT !.name = t]>>
    BY <1>2 DEF Cut
  <2> HIDE DEF t
  <2> QED BY <2>2, <2>3
<1>3. CASE k > 0 /\ k >= Before(l) /\ k < Width(l) - 1
  <2>1. Width(l) - 1 - k \in 1 .. MaxVer
    BY <1>3, Widths, TextsAndVersions
  <2>2. [name |-> 0, ver |-> Width(l) - 1 - k, space |-> FALSE] \in Lines
    BY <2>1, LineSets, TextsAndVersions
  <2>3. Cut(l, k) = <<[name |-> 0, ver |-> Width(l) - 1 - k, space |-> FALSE]>>
    <3>1. ~ (k <= 0) /\ ~ (k < Before(l)) /\ k < Width(l) - 1
      BY <1>3, Widths
    <3> QED BY ONLY <3>1 DEF Cut
  <2> QED BY <2>2, <2>3
<1>4. CASE k > 0 /\ k >= Before(l) /\ k >= Width(l) - 1
  BY <1>4, Widths DEF Cut
<1> QED BY <1>1, <1>2, <1>3, <1>4, Widths

\* The end of each line is a number.
LEMMA EndsAreNumbers ==
  ASSUME NEW s \in Seq(Lines)
  PROVE  \A k \in 0 .. Len(s) : Ends(s)[k] \in Int
<1>n. PICK n \in Nat : n = Len(s)
  OBVIOUS
<1>0. \A k \in 1 .. n : Width(s[k]) \in Int
  BY <1>n, Widths
<1> DEFINE Body(p) == [k \in 0 .. n |-> IF k = 0 THEN 0 ELSE p[k - 1] + Width(s[k])]
           c == CHOOSE p : p = Body(p)
<1>2. \E p : p = Body(p)
  <2> DEFINE step == [at \in Int \X (1 .. n) |-> at[1] + Width(s[at[2]])]
  <2>1. \A r \in Int, k \in 1 .. n : step[<<r, k>>] = r + Width(s[k]) /\ step[<<r, k>>] \in Int
    BY <1>0
  <2> HIDE DEF step
  <2>2. PICK f \in [0 .. n -> Int] : f[0] = 0 /\ \A k \in 1 .. n : f[k] = step[<<f[k - 1], k>>]
    <3>0. \A r \in Int, k \in 1 .. n : step[<<r, k>>] \in Int
      BY <2>1
    <3>1. Closed(step, n, Int)
      BY <3>0 DEF Closed
    <3>2. PICK f \in [0 .. n -> Int] : Runs(f, n, 0, step)
      <4>1. 0 \in Int
        OBVIOUS
      <4> QED BY <3>1, <4>1, LoopResults
    <3> QED BY <3>2 DEF Runs
  <2>3. \A k \in 1 .. n : k - 1 \in 0 .. n /\ f[k - 1] \in Int
    OBVIOUS
  <2>4. \A k \in 1 .. n : f[k] = f[k - 1] + Width(s[k])
    BY <2>1, <2>2, <2>3
  <2>5. f = [k \in 0 .. n |-> f[k]]
    OBVIOUS
  <2>6. \A k \in 0 .. n : f[k] = IF k = 0 THEN 0 ELSE f[k - 1] + Width(s[k])
    BY <2>2, <2>4
  <2> QED BY <2>5, <2>6
<1>3. c = Body(c)
  <2> HIDE DEF Body
  <2> QED BY <1>2
<1>5. Ends(s) = c
  BY <1>n DEF Ends
<1>4. c[0] = 0 /\ \A k \in 1 .. n : c[k] = c[k - 1] + Width(s[k])
  <2> HIDE DEF c
  <2>1. \A p : p = Body(p) => p[0] = 0 /\ \A k \in 1 .. n : p[k] = p[k - 1] + Width(s[k])
    <3>1. 0 \in 0 .. n /\ \A k \in 1 .. n : k \in 0 .. n /\ k # 0
      OBVIOUS
    <3> QED BY <3>1
  <2> QED BY <1>3, <2>1
<1> HIDE DEF c
<1>6. \A k \in 0 .. n : c[k] \in Int
  <2> DEFINE D == {k \in 0 .. n : c[k] \in Int}
  <2>1. 0 \in D
    BY <1>4
  <2>2. \A k \in 1 .. n : k - 1 \in D => k \in D
    BY <1>0, <1>4
  <2> HIDE DEF D
  <2>3. \A k \in 0 .. n : k \in D
    BY <2>1, <2>2, CountInduction
  <2> QED BY <2>3 DEF D
<1> QED BY <1>n, <1>5, <1>6

\* What is left of a list are lines; of no lines, none.
LEMMA BehindLines ==
  ASSUME NEW s \in Seq(Lines), NEW lines \in Seq(Lines)
  PROVE  Behind(s, lines) \in Seq(Lines) /\ (lines = <<>> => Behind(s, lines) = <<>>)
<1>n. PICK n \in Nat : n = Len(lines)
  OBVIOUS
<1>t. PICK T : T = Seq(Lines)
  OBVIOUS
<1> DEFINE Joined(r, k) == r \o Cut(lines[k], Ends(s)[Len(s)] - Ends(lines)[k - 1])
<1>0. <<>> \in T /\ \A r \in T, k \in 1 .. n : Joined(r, k) \in T
  <2>1. \A k \in 1 .. n : Cut(lines[k], Ends(s)[Len(s)] - Ends(lines)[k - 1]) \in Seq(Lines)
    <3> TAKE k \in 1 .. n
    <3>1. lines[k] \in Lines
      BY <1>n
    <3>2. Ends(s)[Len(s)] \in Int /\ Ends(lines)[k - 1] \in Int
      <4>1. Len(s) \in 0 .. Len(s) /\ k - 1 \in 0 .. Len(lines)
        BY <1>n
      <4> QED BY <4>1, EndsAreNumbers
    <3>3. Ends(s)[Len(s)] - Ends(lines)[k - 1] \in Int
      BY <3>2
    <3> QED BY <3>1, <3>3, CutLine
  <2>2. \A r \in Seq(Lines), k \in 1 .. n : Joined(r, k) \in Seq(Lines)
    BY <2>1
  <2> QED BY <1>t, <2>2
<1> DEFINE Body(p) == [k \in 0 .. n |-> IF k = 0 THEN <<>> ELSE Joined(p[k - 1], k)]
           c == CHOOSE p : p = Body(p)
<1>5. Behind(s, lines) = c[n]
  BY <1>n DEF Behind
<1> HIDE DEF Joined
<1>1. \A p : p = Body(p) => p[0] = <<>> /\ \A k \in 1 .. n : p[k] = Joined(p[k - 1], k)
  <2>1. 0 \in 0 .. n /\ \A k \in 1 .. n : k \in 0 .. n /\ k # 0
    OBVIOUS
  <2> QED BY <2>1
<1>2. \E p : p = Body(p)
  <2> DEFINE step == [at \in T \X (1 .. n) |-> Joined(at[1], at[2])]
  <2>1. \A r \in T, k \in 1 .. n : step[<<r, k>>] = Joined(r, k) /\ step[<<r, k>>] \in T
    BY <1>0
  <2> HIDE DEF step
  <2>2. PICK f \in [0 .. n -> T] : f[0] = <<>> /\ \A k \in 1 .. n : f[k] = step[<<f[k - 1], k>>]
    <3>1. Closed(step, n, T) /\ <<>> \in T
      BY <1>0, <2>1 DEF Closed
    <3>2. PICK f \in [0 .. n -> T] : Runs(f, n, <<>>, step)
      BY <3>1, LoopResults
    <3> QED BY <3>2 DEF Runs
  <2>3. \A k \in 1 .. n : k - 1 \in 0 .. n /\ f[k - 1] \in T
    OBVIOUS
  <2>4. \A k \in 1 .. n : f[k] = Joined(f[k - 1], k)
    BY <2>1, <2>2, <2>3
  <2>5. f = [k \in 0 .. n |-> f[k]]
    OBVIOUS
  <2>6. \A k \in 0 .. n : f[k] = IF k = 0 THEN <<>> ELSE Joined(f[k - 1], k)
    BY <2>2, <2>4
  <2> QED BY <2>5, <2>6
<1>3. c = Body(c)
  <2> HIDE DEF Body
  <2> QED BY <1>2
<1>4. c[0] = <<>> /\ \A k \in 1 .. n : c[k] = Joined(c[k - 1], k)
  <2> HIDE DEF c, Body
  <2> QED BY <1>1, <1>3
<1> HIDE DEF c
<1>6. \A k \in 0 .. n : c[k] \in T
  <2> DEFINE D == {k \in 0 .. n : c[k] \in T}
  <2>1. 0 \in D
    BY <1>0, <1>4
  <2>2. \A k \in 1 .. n : k - 1 \in D => k \in D
    BY <1>0, <1>4
  <2> HIDE DEF D
  <2>3. \A k \in 0 .. n : k \in D
    BY <2>1, <2>2, CountInduction
  <2> QED BY <2>3 DEF D
<1>7. lines = <<>> => n = 0
  BY <1>n
<1>8. c[n] \in T
  BY <1>6
<1> QED BY <1>t, <1>4, <1>5, <1>7, <1>8

-----------------------------------------------------------------------------
(* What load_ver_cache() reads.                                             *)

\* The lines that are counted are no more than there are.
LEMMA LoadedLines ==
  ASSUME NEW f \in Seq(Lines)
  PROVE  /\ Loaded(f) \in Seq(Lines) /\ Len(Loaded(f)) \in 0 .. Len(f)
         /\ \A k \in 1 .. Len(Loaded(f)) : k \in 1 .. Len(f) /\ Loaded(f)[k] = f[k] /\ f[k] \in Lines
         /\ Len(Loaded(f)) = Cardinality(Valid(f))
         /\ f \in Seq(Good) => Loaded(f) = f /\ Clean(f)
<1>n. PICK n \in Nat : n = Cardinality(Valid(f)) /\ n <= Len(f)
  <2>1. IsFiniteSet(1 .. Len(f)) /\ Cardinality(1 .. Len(f)) = Len(f)
    <3>1. 1 \in Int /\ Len(f) \in Int /\ Len(f) \in Nat
      OBVIOUS
    <3>2. /\ IsFiniteSet(1 .. Len(f))
          /\ Cardinality(1 .. Len(f)) = IF 1 > Len(f) THEN 0 ELSE Len(f) - 1 + 1
      BY <3>1, FS_Interval
    <3> QED BY <3>1, <3>2
  <2>2. Valid(f) \subseteq 1 .. Len(f)
    BY DEF Valid
  <2>3. /\ IsFiniteSet(Valid(f)) /\ Cardinality(Valid(f)) <= Cardinality(1 .. Len(f))
    BY <2>1, <2>2, FS_Subset
  <2>4. Cardinality(Valid(f)) \in Nat
    BY <2>3, FS_CardinalityType
  <2> QED BY <2>1, <2>3, <2>4
<1>1. Loaded(f) = SubSeq(f, 1, n)
  BY <1>n DEF Loaded
<1>2. /\ Loaded(f) \in Seq(Lines) /\ Len(Loaded(f)) = n
      /\ \A k \in 1 .. n : k \in 1 .. Len(f) /\ Loaded(f)[k] = f[k] /\ f[k] \in Lines
  BY <1>n, <1>1
<1>3. ASSUME f \in Seq(Good) PROVE Loaded(f) = f /\ Clean(f)
  <2>1. \A k \in 1 .. Len(f) : f[k] \in Good
    BY <1>3
  <2>2. Valid(f) = 1 .. Len(f)
    BY <2>1 DEF Valid, Good
  <2>3. n = Len(f)
    <3>1. Len(f) \in Nat
      OBVIOUS
    <3>2. Cardinality(1 .. Len(f)) = IF 1 > Len(f) THEN 0 ELSE Len(f) - 1 + 1
      BY <3>1, FS_Interval
    <3> QED BY <1>n, <2>2, <3>1, <3>2
  <2>4. Loaded(f) = f
    BY <1>1, <2>3, SubSeqFull
  <2> QED BY <1>2, <2>1, <2>4 DEF Clean, Good
<1> QED BY <1>n, <1>2, <1>3

\* A reading has the lines that are counted, the valid ones as they are, with
\* anything for a name that was not set; of a file without such lines it is what
\* was counted.
LEMMA ReadingLines ==
  ASSUME NEW f \in Seq(Lines), NEW r \in Readings(f)
  PROVE  /\ r \in Seq(Lines) /\ Len(r) = Len(Loaded(f)) /\ (Clean(f) => r = Loaded(f))
         /\ \A k \in 1 .. Len(r) : f[k].space => r[k] = f[k]
<1>n. PICK n \in Nat : n = Len(Loaded(f))
  BY LoadedLines
<1>1. /\ Loaded(f) \in Seq(Lines)
      /\ \A k \in 1 .. n : Loaded(f)[k] = f[k] /\ f[k] \in Lines
  BY <1>n, LoadedLines
<1>2. PICK c \in [1 .. n -> Texts] :
        r = [k \in 1 .. n |-> IF f[k].space THEN f[k] ELSE [f[k] EXCEPT !.name = c[k]]]
  BY <1>n DEF Readings
<1>3. \A k \in 1 .. n : r[k] \in Lines
  <2> TAKE k \in 1 .. n
  <2>1. r[k] = IF f[k].space THEN f[k] ELSE [f[k] EXCEPT !.name = c[k]]
    BY <1>2
  <2>2. f[k] \in Lines /\ c[k] \in Texts
    BY <1>1
  <2>3. [f[k] EXCEPT !.name = c[k]] \in Lines
    BY <2>2, LineSets
  <2> QED BY <2>1, <2>2, <2>3
<1>4. r \in [1 .. n -> Lines]
  BY <1>2, <1>3
<1>5. r \in Seq(Lines) /\ Len(r) = n
  BY <1>4
<1>6. ASSUME Clean(f) PROVE r = Loaded(f)
  <2>1. \A k \in 1 .. n : r[k] = Loaded(f)[k]
    BY <1>1, <1>2, <1>6, <1>n DEF Clean
  <2> QED BY <1>n, <1>1, <1>5, <2>1, SeqEqual
<1>7. \A k \in 1 .. n : f[k].space => r[k] = f[k]
  BY <1>2
<1> QED BY <1>n, <1>5, <1>6, <1>7

-----------------------------------------------------------------------------
(* The variables in their domains, and what is known of each instance.      *)

SharedType ==
  /\ file \in Seq(Lines) /\ pc \in [Procs -> {"idle", "loaded", "opened"}]
  /\ list \in [Procs -> Seq(Lines)] /\ fetched \in [Procs -> Seq(Fresh)]
  /\ seen \in [Procs -> Seq(Lines) \cup {Unknown}]
  /\ mixed \in BOOLEAN /\ orderly \in BOOLEAN
  /\ settled \in Seq(Fresh) \cup {Unknown}
  /\ \A p \in Procs : pc[p] = "idle" => list[p] = <<>> /\ seen[p] = Unknown

Found == [name : Texts, kind : {"git", "upgrade", "downgrade", "current", "foreign"}]
Said == [name : Texts, ver : (1 .. MaxVer) \cup {FromAur, FromClone, Garbled}]

WalkType ==
  /\ walk \in {"no", "next", "search", "done", "dead"}
  /\ system \in Systems \cup {<<>>} /\ system \in Seq(Found)
  /\ cache \in Seq(Lines) /\ onDisk \in Seq(Lines)
  /\ ri \in 1 .. Len(system) + 1 /\ rj \in 1 .. Len(cache) + 1
  /\ walk = "search" => ri <= Len(system) /\ system[ri].kind = "git"
  /\ walk = "done" => ri > Len(system)
  /\ shown \in Seq(Said) /\ due \in Seq(Fresh) \cup {Unknown}

\* While nothing was mixed and every list was sorted, what is on disk and what the
\* instances hold is sorted, and only one has the file open: then it is empty.
Tidy ==
  orderly /\ ~ mixed =>
    /\ file \in Seq(Good) /\ Ordered(file)
    /\ \A p \in Procs : list[p] \in Seq(Good) /\ Ordered(list[p])
    /\ \A p \in Procs : pc[p] = "opened" => file = <<>> /\ \A q \in Procs : pc[q] = "opened" => q = p

\* An instance that nobody disturbed holds the merge of a reading of the file it
\* saw, and the file is empty once it opened it.
Merges(s, f, l) == \E reading \in Readings(f) : l = ZipMerge(reading, s)
Held ==
  \A p \in Procs : Alone(p) =>
    /\ seen[p] \in Seq(Lines) /\ Merges(fetched[p], seen[p], list[p])
    /\ pc[p] = "opened" => file = <<>>

\* What was saved last by an instance that was alone is found in the file.
Recorded(f, s) == f \in Seq(Good) /\ \A l \in From(s, 1) : Leads(f, l)
Settled == settled # Unknown /\ Ordered(settled) => Recorded(file, settled)
Due == due # Unknown /\ Ordered(due) => cache = onDisk /\ Recorded(cache, due)

\* Ahead of the cursor the walk still finds what is due, behind it was shown.
Git(m) == m \in 1 .. Len(system) /\ system[m].kind = "git"
FoundAt(l, q) == cache[q] = l /\ \A k \in 1 .. q - 1 : cache[k].name < l.name
Wanted == due # Unknown /\ Ordered(due) /\ GitNames(system) \subseteq NamesIn(due)
Ahead(m, l) ==
  IF m < ri THEN Shows(l.name, l.ver) \in {shown[x] : x \in DOMAIN shown}
  ELSE \E q \in rj .. Len(cache) : FoundAt(l, q)
Finding ==
  Wanted =>
    /\ walk # "dead"
    /\ \A m \in 1 .. Len(system) : Git(m) =>
         \A l \in From(due, 1) : l.name = system[m].name => Ahead(m, l)

\* The walk over a sorted file: every name behind the cursor is smaller than those
\* to come; what was shown agrees with the file, once for each package.
SortedFile == walk # "no" /\ Ordered(onDisk) /\ Valid(onDisk) = DOMAIN onDisk
Passed ==
  cache = onDisk /\ \A k \in 1 .. rj - 1, m \in ri .. Len(system) : cache[k].name < system[m].name
Agrees ==
  \A x \in DOMAIN shown : \A k \in DOMAIN onDisk :
    (shown[x].name = onDisk[k].name /\ shown[x].name \in GitNames(system)) =>
      shown[x].ver = onDisk[k].ver
Missing == ~ (GitNames(system) \subseteq NamesIn(onDisk))
Once(n) == \E x \in DOMAIN shown : \A y \in DOMAIN shown : shown[y].name = n <=> y = x
Counted(m) ==
  IF m < ri THEN Once(system[m].name) ELSE \A x \in DOMAIN shown : shown[x].name # system[m].name
Following ==
  SortedFile =>
    /\ Passed /\ Agrees
    /\ walk = "dead" => Missing
    /\ walk # "dead" => \A m \in 1 .. Len(system) : Git(m) => Counted(m)

-----------------------------------------------------------------------------
(* What the actions make of the lists.                                      *)

\* Every fetched line is a fresh one.
LEMMA FetchedLines ==
  ASSUME NEW names \in Inputs, NEW items \in Fetches(names, Vers)
  PROVE  items \in Seq(Fresh)
<1>1. names \in Seq(Names) /\ DOMAIN names = 1 .. Len(names) /\ Len(names) \in Nat
  BY SharedInputsAssumption
<1>2. PICK v \in [DOMAIN names -> Vers] : items = [k \in DOMAIN names |-> Line(names[k], v[k])]
  BY DEF Fetches
<1>3. \A k \in 1 .. Len(names) : Line(names[k], v[k]) \in Fresh
  BY <1>1 DEF Line, Fresh
<1>4. items \in [1 .. Len(names) -> Fresh]
  BY <1>1, <1>2, <1>3
<1> QED BY <1>1, <1>4

\* The merge of two lists of lines, and of two lists of good ones.
LEMMA MergedLines ==
  ASSUME NEW old \in Seq(Lines), NEW new \in Seq(Fresh)
  PROVE  /\ ZipMerge(old, new) \in Seq(Lines)
         /\ Zipped(ZipMerge(old, new), old, new, 1, 1)
         /\ old \in Seq(Good) => ZipMerge(old, new) \in Seq(Good)
<1>1. new \in Seq(Lines) /\ new \in Seq(Good) /\ \A l \in Good : l.name \in Int
  BY LineSets
<1>2. ZipMerge(old, new) \in Seq(Lines) /\ Zipped(ZipMerge(old, new), old, new, 1, 1)
  BY <1>1, LineSets, MergeOfLists
<1>3. ASSUME old \in Seq(Good) PROVE ZipMerge(old, new) \in Seq(Good)
  BY <1>1, <1>3, MergeOfLists
<1> QED BY <1>2, <1>3

\* A save writes the good lines of the list, in their order.
LEMMA SavedLines ==
  ASSUME NEW s \in Seq(Lines)
  PROVE  /\ Saved(s) \in Seq(Good) /\ (s \in Seq(Good) => Saved(s) = s)
         /\ From(Saved(s), 1) = {l \in From(s, 1) : l.space}
         /\ \A l \in Good : Leads(s, l) => Leads(Saved(s), l)
<1>0. DOMAIN s = 1 .. Len(s) /\ Len(s) \in Nat /\ \A k \in 1 .. Len(s) : s[k] \in Lines
  OBVIOUS
<1>1. /\ Saved(s) \in Seq(Lines) /\ (1 .. Len(s) \subseteq Valid(s) => Saved(s) = s)
      /\ From(Saved(s), 1) = {s[k] : k \in Valid(s) \cap (1 .. Len(s))}
  BY PickedLines DEF Saved
<1>2. s \in Seq(Good) => 1 .. Len(s) \subseteq Valid(s)
  <2> HAVE s \in Seq(Good)
  <2>1. \A k \in 1 .. Len(s) : s[k] \in Good /\ k \in DOMAIN s
    OBVIOUS
  <2> QED BY <2>1 DEF Valid, Good
<1>3. From(Saved(s), 1) = {l \in From(s, 1) : l.space}
  BY <1>0, <1>1 DEF From, Valid
<1>4. Saved(s) \in Seq(Good)
  <2>1. DOMAIN Saved(s) = 1 .. Len(Saved(s)) /\ \A k \in 1 .. Len(Saved(s)) : Saved(s)[k] \in Lines
    BY <1>1
  <2>2. \A k \in 1 .. Len(Saved(s)) : Saved(s)[k] \in From(Saved(s), 1)
    BY DEF From
  <2>3. \A k \in 1 .. Len(Saved(s)) : Saved(s)[k] \in Good
    BY <1>3, <2>1, <2>2 DEF Good
  <2> QED BY <1>1, <2>3, ElementOfSeq, IsASeq
<1>5. ASSUME NEW l \in Good, Leads(s, l) PROVE Leads(Saved(s), l)
  <2>1. \A k \in 1 .. Len(s) : s[k] = l => k \in Valid(s)
    BY <1>0 DEF Valid, Good
  <2> QED BY <1>5, <2>1, PickedLeads DEF Saved
<1> QED BY <1>1, <1>2, <1>3, <1>4, <1>5

\* What a command merges when it loads the file.
LEMMA LoadMerges ==
  ASSUME SharedType, NEW p \in Procs, NEW names \in Inputs, NEW items \in Fetches(names, Vers),
         Load(p, items)
  PROVE  /\ items \in Seq(Fresh)
         /\ \E reading \in Readings(file) :
              /\ reading \in Seq(Lines)
              /\ list' = [list EXCEPT ![p] = ZipMerge(reading, items)]
              /\ ZipMerge(reading, items) \in Seq(Lines)
<1>1. items \in Seq(Fresh)
  BY FetchedLines
<1>2. PICK reading \in Readings(file) : list' = [list EXCEPT ![p] = ZipMerge(reading, items)]
  BY DEF Load
<1>3. reading \in Seq(Lines)
  BY ReadingLines DEF SharedType
<1>4. ZipMerge(reading, items) \in Seq(Lines)
  BY <1>1, <1>3, MergedLines
<1> QED BY <1>1, <1>2, <1>3, <1>4

\* What a write leaves in the file: the saved list, if the file was empty.
LEMMA WriteLeaves ==
  ASSUME SharedType, NEW p \in Procs, Write(p)
  PROVE  /\ file' \in Seq(Lines)
         /\ file = <<>> => file' = Saved(list[p])
         /\ file = <<>> /\ list[p] \in Seq(Good) => file' = list[p]
<1>1. list[p] \in Seq(Lines) /\ file \in Seq(Lines)
  BY DEF SharedType
<1> DEFINE s == Saved(list[p])
<1>2. s \in Seq(Lines) /\ (list[p] \in Seq(Good) => s = list[p])
  BY <1>1, SavedLines, LineSets
<1>3. file' = s \o Behind(s, file)
  BY DEF Write
<1> HIDE DEF s
<1>4. Behind(s, file) \in Seq(Lines) /\ (file = <<>> => Behind(s, file) = <<>>)
  BY <1>1, <1>2, BehindLines
<1>5. file' \in Seq(Lines)
  BY <1>2, <1>3, <1>4
<1>6. s \o <<>> = s
  BY <1>2, ConcatEmptySeq
<1>7. file = <<>> => file' = s
  BY <1>3, <1>4, <1>6
<1> QED BY <1>2, <1>5, <1>7 DEF s

\* A step of an instance that fetches.
LEMMA SharedSteps ==
  ASSUME SharedNext
  PROVE  \/ \E p \in Procs : \E names \in Inputs : \E items \in Fetches(names, Vers) : Load(p, items)
         \/ \E p \in Procs : \E names \in Inputs : \E items \in Fetches(names, Vers) : Misread(p, items)
         \/ \E p \in Procs : Open(p)
         \/ \E p \in Procs : Write(p)
         \/ \E p \in Procs : Kill(p)
BY DEF SharedNext, Fetch

\* A report changes nothing the instances share.
LEMMA ReportApart ==
  ASSUME Report
  PROVE  UNCHANGED shared
BY DEF Report, Begin, SkipOther, ShowAur, Search, Advance, ShowRecorded, ShowClone,
       ShowAndFree, NothingPrinted, Garbage, End, Forget, Shown, Dies, NotRecorded

-----------------------------------------------------------------------------
(* The variables of the instances stay in their domains.                    *)

\* They begin there.
LEMMA SharedTypeInit ==
  ASSUME SharedInit
  PROVE  SharedType
<1>1. <<>> \in Seq(Lines) /\ <<>> \in Seq(Fresh)
  OBVIOUS
<1>2. /\ [p \in Procs |-> <<>>] \in [Procs -> Seq(Lines)]
      /\ [p \in Procs |-> <<>>] \in [Procs -> Seq(Fresh)]
  BY <1>1
<1>3. \A p \in Procs : list[p] = <<>> /\ seen[p] = Unknown
  BY DEF SharedInit
<1> QED BY <1>1, <1>2, <1>3 DEF SharedInit, SharedType

\* Load keeps the domains.
LEMMA SharedTypeLoad ==
  ASSUME SharedType, NEW p \in Procs, NEW names \in Inputs, NEW items \in Fetches(names, Vers),
         Load(p, items)
  PROVE  SharedType'
<1>1. PICK merged \in Seq(Lines) : list' = [list EXCEPT ![p] = merged]
  BY LoadMerges
<1>2. items \in Seq(Fresh)
  BY FetchedLines
<1>3. /\ pc' = [pc EXCEPT ![p] = "loaded"] /\ fetched' = [fetched EXCEPT ![p] = items]
      /\ seen' = [seen EXCEPT ![p] = IF Opened = {} THEN file ELSE Unknown]
      /\ orderly' \in BOOLEAN /\ UNCHANGED <<file, mixed, settled>>
  BY DEF Load, SharedType
<1>4. /\ list' \in [Procs -> Seq(Lines)] /\ fetched' \in [Procs -> Seq(Fresh)]
      /\ pc' \in [Procs -> {"idle", "loaded", "opened"}]
      /\ seen' \in [Procs -> Seq(Lines) \cup {Unknown}]
  BY <1>1, <1>2, <1>3 DEF SharedType
<1>5. ASSUME NEW q \in Procs, pc'[q] = "idle" PROVE list'[q] = <<>> /\ seen'[q] = Unknown
  <2>1. q # p
    BY <1>3, <1>5 DEF SharedType
  <2> QED BY <1>1, <1>3, <1>5, <2>1 DEF SharedType
<1> QED BY <1>3, <1>4, <1>5 DEF SharedType

\* Open keeps them.
LEMMA SharedTypeOpen ==
  ASSUME SharedType, NEW p \in Procs, Open(p)
  PROVE  SharedType'
<1>1. /\ pc' = [pc EXCEPT ![p] = "opened"] /\ file' = <<>> /\ settled' = Unknown
      /\ mixed' \in BOOLEAN /\ UNCHANGED <<list, fetched, orderly>>
      /\ seen' = [q \in Procs |-> IF q = p /\ Opened = {} THEN seen[p] ELSE Unknown]
  BY DEF Open, SharedType
<1>2. seen' \in [Procs -> Seq(Lines) \cup {Unknown}]
  BY <1>1 DEF SharedType
<1>3. ASSUME NEW q \in Procs, pc'[q] = "idle" PROVE list'[q] = <<>> /\ seen'[q] = Unknown
  <2>1. q # p
    BY <1>1, <1>3 DEF SharedType
  <2> QED BY <1>1, <1>3, <2>1 DEF SharedType
<1>4. <<>> \in Seq(Lines)
  OBVIOUS
<1> QED BY <1>1, <1>2, <1>3, <1>4 DEF SharedType

\* Write keeps them.
LEMMA SharedTypeWrite ==
  ASSUME SharedType, NEW p \in Procs, Write(p)
  PROVE  SharedType'
<1>1. /\ pc' = [pc EXCEPT ![p] = "idle"] /\ list' = [list EXCEPT ![p] = <<>>]
      /\ fetched' = [fetched EXCEPT ![p] = <<>>]
      /\ settled' = (IF Alone(p) THEN fetched[p] ELSE Unknown)
      /\ seen' = [q \in Procs |-> Unknown] /\ UNCHANGED <<mixed, orderly>>
  BY DEF Write, Leave
<1>2. file' \in Seq(Lines)
  BY WriteLeaves
<1>3. /\ list' \in [Procs -> Seq(Lines)] /\ fetched' \in [Procs -> Seq(Fresh)]
      /\ pc' \in [Procs -> {"idle", "loaded", "opened"}]
      /\ seen' \in [Procs -> Seq(Lines) \cup {Unknown}]
      /\ settled' \in Seq(Fresh) \cup {Unknown}
  BY <1>1 DEF SharedType
<1>4. ASSUME NEW q \in Procs, pc'[q] = "idle" PROVE list'[q] = <<>> /\ seen'[q] = Unknown
  BY <1>1, <1>4 DEF SharedType
<1> QED BY <1>1, <1>2, <1>3, <1>4 DEF SharedType

\* Kill keeps them.
LEMMA SharedTypeKill ==
  ASSUME SharedType, NEW p \in Procs, Kill(p)
  PROVE  SharedType'
<1>1. /\ pc' = [pc EXCEPT ![p] = "idle"] /\ list' = [list EXCEPT ![p] = <<>>]
      /\ fetched' = [fetched EXCEPT ![p] = <<>>] /\ seen' = [seen EXCEPT ![p] = Unknown]
      /\ UNCHANGED <<file, mixed, orderly, settled>>
  BY DEF Kill, Leave
<1>2. /\ list' \in [Procs -> Seq(Lines)] /\ fetched' \in [Procs -> Seq(Fresh)]
      /\ pc' \in [Procs -> {"idle", "loaded", "opened"}]
      /\ seen' \in [Procs -> Seq(Lines) \cup {Unknown}]
  BY <1>1 DEF SharedType
<1>3. ASSUME NEW q \in Procs, pc'[q] = "idle" PROVE list'[q] = <<>> /\ seen'[q] = Unknown
  BY <1>1, <1>3 DEF SharedType
<1> QED BY <1>1, <1>2, <1>3 DEF SharedType

\* Every step keeps them.
LEMMA SharedTypeStep ==
  ASSUME SharedType, [Next]_vars
  PROVE  SharedType'
<1>1. CASE SharedNext
  <2>1. ASSUME NEW p \in Procs, NEW items, Misread(p, items) PROVE SharedType'
    BY <2>1 DEF Misread, locals, SharedType
  <2> QED BY <1>1, <2>1, SharedSteps, SharedTypeLoad, SharedTypeOpen, SharedTypeWrite, SharedTypeKill
<1>2. CASE UNCHANGED shared
  BY <1>2 DEF shared, locals, SharedType
<1> QED BY <1>1, <1>2, ReportApart DEF Next, Others, vars

-----------------------------------------------------------------------------
(* The variables of the report stay in their domains.                       *)

\* A section says which packages of its kind there are.
LEMMA SectionLines ==
  ASSUME NEW s \in Seq(Found), NEW kind
  PROVE  /\ Section(s, kind) \in Seq(Said)
         /\ \A x \in DOMAIN Section(s, kind) :
              \E k \in DOMAIN s : s[k].kind = kind /\ s[k].name = Section(s, kind)[x].name
<1> DEFINE K == {k \in DOMAIN s : s[k].kind = kind}
           l == Picked(s, K)
<1>1. l \in Seq(Found) /\ From(l, 1) = {s[k] : k \in K \cap (1 .. Len(s))}
  <2> HIDE DEF K
  <2> QED BY PickedLines
<1>2. Section(s, kind) = [x \in DOMAIN l |-> Shows(l[x].name, FromAur)]
  BY DEF Section
<1> HIDE DEF l
<1>3. \A x \in 1 .. Len(l) : \E k \in DOMAIN s : s[k].kind = kind /\ s[k].name = l[x].name
  <2> TAKE x \in 1 .. Len(l)
  <2>1. l[x] \in From(l, 1)
    BY DEF From
  <2> QED BY <1>1, <2>1
<1>4. DOMAIN l = 1 .. Len(l) /\ Len(l) \in Nat /\ \A x \in 1 .. Len(l) : l[x] \in Found
  BY <1>1
<1>5. \A x \in 1 .. Len(l) : Shows(l[x].name, FromAur) \in Said
  BY <1>4 DEF Shows, Said, Found
<1>6. Section(s, kind) \in [1 .. Len(l) -> Said]
  BY <1>2, <1>4, <1>5
<1>7. \A x \in 1 .. Len(l) : Section(s, kind)[x].name = l[x].name
  BY <1>2, <1>4 DEF Shows
<1>8. DOMAIN Section(s, kind) = 1 .. Len(l) /\ Section(s, kind) \in Seq(Said)
  BY <1>4, <1>6
<1> HIDE DEF K
<1> QED BY <1>3, <1>7, <1>8

\* The versions that a report may show.
LEMMA EntryLines ==
  ASSUME WalkType, NEW e \in Entries
  PROVE  e.name \in Texts /\ (IF e.space THEN e.ver ELSE Garbled) \in (1 .. MaxVer) \cup {FromAur, FromClone, Garbled}
<1>1. CASE rj <= Len(cache)
  <2>1. e = cache[rj] /\ cache[rj] \in Lines
    BY <1>1 DEF Entries, WalkType
  <2> QED BY <2>1, LineSets
<1>2. CASE rj > Len(cache) /\ rj \in Valid(onDisk)
  <2>1. e = onDisk[rj] /\ onDisk[rj] \in Lines
    BY <1>2 DEF Entries, WalkType, Valid
  <2> QED BY <2>1, LineSets
<1>3. CASE rj > Len(cache) /\ rj \notin Valid(onDisk)
  <2>1. e \in {[name |-> n, ver |-> Garbled, space |-> FALSE] : n \in Texts}
    <3>1. ~ (rj <= Len(cache))
      BY <1>3 DEF WalkType
    <3> QED BY <1>3, <3>1 DEF Entries
  <2> QED BY <2>1
<1> QED BY <1>1, <1>2, <1>3 DEF WalkType

\* A line that is shown.
LEMMA ShownLine ==
  ASSUME WalkType, ri \in 1 .. Len(system),
         NEW v \in (1 .. MaxVer) \cup {FromAur, FromClone, Garbled}
  PROVE  /\ system[ri] \in Found /\ Shows(Name, v) \in Said
         /\ Append(shown, Shows(Name, v)) \in Seq(Said)
<1>1. system[ri] \in Found
  BY DEF WalkType
<1>2. Shows(Name, v) \in Said
  BY <1>1 DEF Shows, Name, Found, Said
<1> QED BY <1>1, <1>2 DEF WalkType

\* Begin loads lines and shows lines.
LEMMA WalkTypeBegin ==
  ASSUME SharedType, WalkType, NEW s \in Systems, Begin(s)
  PROVE  WalkType'
<1>1. s \in Seq(Found)
  BY SystemsAssumption DEF Found
<1>2. cache' \in Seq(Lines) /\ onDisk' \in Seq(Lines) /\ due' \in Seq(Fresh) \cup {Unknown}
  BY ReadingLines DEF Begin, SharedType
<1>3. shown' \in Seq(Said)
  BY <1>1, SectionLines DEF Begin
<1>4. /\ system' = s /\ ri' = 1 /\ rj' = 1 /\ walk' = "next"
      /\ 1 \in 1 .. Len(s) + 1 /\ 1 \in 1 .. Len(cache') + 1
  BY <1>1, <1>2 DEF Begin
<1> QED BY <1>1, <1>2, <1>3, <1>4 DEF WalkType

\* The report's steps keep its variables in their domains.
LEMMA WalkTypeStep ==
  ASSUME SharedType, WalkType, [Next]_vars
  PROVE  WalkType'
<1>0. /\ Len(system) \in Nat /\ Len(cache) \in Nat /\ ri \in 1 .. Len(system) + 1
      /\ rj \in 1 .. Len(cache) + 1
  BY DEF WalkType
<1>1. ASSUME UNCHANGED walkVars PROVE WalkType'
  BY <1>1 DEF walkVars, WalkType
<1>2. ASSUME NEW v \in (1 .. MaxVer) \cup {FromAur, FromClone, Garbled},
             walk \in {"next", "search"}, ri \in 1 .. Len(system), Shown(v), UNCHANGED rj
      PROVE  WalkType'
  <2>1. shown' \in Seq(Said) /\ walk' = "next" /\ ri' = ri + 1 /\ ri' \in 1 .. Len(system) + 1
        /\ UNCHANGED <<system, cache, onDisk, due, rj>>
    BY <1>0, <1>2, ShownLine DEF Shown
  <2> QED BY <2>1 DEF WalkType
<1>3. ASSUME NEW s \in Systems, Begin(s) PROVE WalkType'
  BY <1>3, WalkTypeBegin
<1>4. CASE SkipOther
  BY <1>0, <1>4 DEF SkipOther, WalkType
<1>5. CASE ShowAur
  <2>1. ri \in 1 .. Len(system) /\ walk \in {"next", "search"} /\ UNCHANGED rj /\ Shown(FromAur)
    BY <1>0, <1>5 DEF ShowAur
  <2> QED BY <1>2, <2>1
<1>6. CASE Search
  BY <1>6 DEF Search, WalkType
<1>7. CASE Advance
  BY <1>0, <1>7 DEF Advance, WalkType
<1>8. CASE ShowRecorded
  <2>1. PICK e \in Entries : Shown(IF e.space THEN e.ver ELSE Garbled)
    BY <1>8 DEF ShowRecorded
  <2>2. (IF e.space THEN e.ver ELSE Garbled) \in (1 .. MaxVer) \cup {FromAur, FromClone, Garbled}
    BY EntryLines
  <2>3. ri \in 1 .. Len(system) /\ walk \in {"next", "search"} /\ UNCHANGED rj
    BY <1>0, <1>8 DEF ShowRecorded, WalkType
  <2> QED BY <1>2, <2>1, <2>2, <2>3
<1>9. CASE ShowClone
  <2>1. ri \in 1 .. Len(system) /\ walk \in {"next", "search"} /\ UNCHANGED rj /\ Shown(FromClone)
    BY <1>0, <1>9 DEF ShowClone, NotRecorded, WalkType
  <2> QED BY <1>2, <2>1
<1>10. CASE ShowAndFree
  <2>1. walk = "search" /\ ri \in 1 .. Len(system)
    BY <1>0, <1>10 DEF ShowAndFree, NotRecorded, WalkType
  <2>2. shown' \in Seq(Said)
    BY <1>10, <2>1, ShownLine DEF ShowAndFree
  <2> QED BY <1>10, <2>2 DEF ShowAndFree, WalkType
<1>11. CASE NothingPrinted
  BY <1>11 DEF NothingPrinted, Dies, WalkType
<1>12. CASE Garbage
  BY <1>12 DEF Garbage, Dies, WalkType
<1>13. CASE End
  BY <1>13 DEF End, WalkType
<1>14. CASE Forget
  BY <1>14 DEF Forget, WalkType
<1> QED BY <1>1, <1>3, <1>4, <1>5, <1>6, <1>7, <1>8, <1>9, <1>10, <1>11, <1>12, <1>13, <1>14
        DEF Next, Others, Report, vars

\* The variables stay in these domains.
LEMMA TypeInvariant == Spec => [](SharedType /\ WalkType)
<1>1. Init => SharedType /\ WalkType
  <2> HAVE Init
  <2>1. SharedType
    BY SharedTypeInit DEF Init
  <2>2. WalkType
    BY DEF Init, WalkType
  <2> QED BY <2>1, <2>2
<1>2. SharedType /\ WalkType /\ [Next]_vars => (SharedType /\ WalkType)'
  BY SharedTypeStep, WalkTypeStep
<1> QED BY <1>1, <1>2, PTL DEF Spec

\* For all names, versions, inputs and systems: the variables of the instances and
\* of the report stay in their domains, and what an instance merged is gone when
\* its command ends.
THEOREM TypeCorrect == Spec => []TypeOK
<1>1. SharedType /\ WalkType => TypeOK
  <2> HAVE SharedType /\ WalkType
  <2>1. \A p \in Procs :
          /\ list[p] \in Seq(Lines) /\ (pc[p] = "idle" => list[p] = <<>>)
          /\ seen[p] = Unknown \/ (seen[p] \in Seq(Lines) /\ pc[p] # "idle")
    BY DEF SharedType
  <2> QED BY <2>1 DEF SharedType, WalkType, TypeOK
<1> QED BY <1>1, TypeInvariant, PTL

-----------------------------------------------------------------------------
(* The file is sorted while nothing was mixed.                              *)

\* Load: the sorted file is read as it is, and merged with sorted packages.
LEMMA TidyLoad ==
  ASSUME SharedType, Tidy, NEW p \in Procs, NEW names \in Inputs,
         NEW items \in Fetches(names, Vers), Load(p, items)
  PROVE  Tidy'
<1> SUFFICES ASSUME orderly', ~ mixed'
             PROVE  /\ file' \in Seq(Good) /\ Ordered(file')
                    /\ \A q \in Procs : list'[q] \in Seq(Good) /\ Ordered(list'[q])
                    /\ \A q \in Procs : pc'[q] = "opened" =>
                         file' = <<>> /\ \A r \in Procs : pc'[r] = "opened" => r = q
  BY DEF Tidy
<1>1. /\ file' = file /\ orderly /\ ~ mixed /\ pc' = [pc EXCEPT ![p] = "loaded"]
      /\ StrictlySorted([k \in DOMAIN items |-> items[k].name])
  BY DEF Load
<1>2. /\ file \in Seq(Good) /\ Ordered(file)
      /\ \A q \in Procs : list[q] \in Seq(Good) /\ Ordered(list[q])
      /\ \A q \in Procs : pc[q] = "opened" => file = <<>> /\ \A r \in Procs : pc[r] = "opened" => r = q
  BY <1>1 DEF Tidy
<1>3. PICK reading \in Readings(file) : list' = [list EXCEPT ![p] = ZipMerge(reading, items)]
  BY LoadMerges
<1>4. reading = file
  <2>1. file \in Seq(Lines) /\ Loaded(file) = file /\ Clean(file)
    BY <1>2, LoadedLines DEF SharedType
  <2> QED BY <2>1, ReadingLines
<1>5. Ordered(items)
  BY <1>1 DEF Ordered, StrictlySorted
<1> DEFINE z == ZipMerge(file, items)
<1>6. z \in Seq(Good) /\ Ordered(z)
  <2>1. file \in Seq(Lines) /\ items \in Seq(Fresh)
    BY LoadMerges DEF SharedType
  <2> QED BY <1>2, <1>5, <2>1, MergedLines DEF Zipped
<1>7. list' = [list EXCEPT ![p] = z]
  BY <1>3, <1>4
<1> HIDE DEF z
<1>8. \A q \in Procs : list'[q] \in Seq(Good) /\ Ordered(list'[q])
  BY <1>2, <1>6, <1>7 DEF SharedType
<1>9. \A q \in Procs : pc'[q] = "opened" => pc[q] = "opened"
  BY <1>1 DEF SharedType
<1> QED BY <1>1, <1>2, <1>8, <1>9

\* Open: the file is empty, and nobody else has it open.
LEMMA TidyOpen ==
  ASSUME SharedType, Tidy, NEW p \in Procs, Open(p)
  PROVE  Tidy'
<1> SUFFICES ASSUME orderly', ~ mixed'
             PROVE  /\ file' \in Seq(Good) /\ Ordered(file')
                    /\ \A q \in Procs : list'[q] \in Seq(Good) /\ Ordered(list'[q])
                    /\ \A q \in Procs : pc'[q] = "opened" =>
                         file' = <<>> /\ \A r \in Procs : pc'[r] = "opened" => r = q
  BY DEF Tidy
<1>1. /\ file' = <<>> /\ orderly /\ ~ mixed /\ Opened = {} /\ pc' = [pc EXCEPT ![p] = "opened"]
      /\ list' = list
  BY DEF Open
<1>2. \A q \in Procs : list[q] \in Seq(Good) /\ Ordered(list[q])
  BY <1>1 DEF Tidy
<1>3. \A q \in Procs : pc'[q] = "opened" => q = p
  BY <1>1 DEF SharedType, Opened
<1>4. <<>> \in Seq(Good) /\ Ordered(<<>>)
  BY DEF Ordered
<1> QED BY <1>1, <1>2, <1>3, <1>4

\* Write: the sorted list is all that the file has.
LEMMA TidyWrite ==
  ASSUME SharedType, Tidy, NEW p \in Procs, Write(p)
  PROVE  Tidy'
<1> SUFFICES ASSUME orderly', ~ mixed'
             PROVE  /\ file' \in Seq(Good) /\ Ordered(file')
                    /\ \A q \in Procs : list'[q] \in Seq(Good) /\ Ordered(list'[q])
                    /\ \A q \in Procs : pc'[q] = "opened" =>
                         file' = <<>> /\ \A r \in Procs : pc'[r] = "opened" => r = q
  BY DEF Tidy
<1>1. /\ orderly /\ ~ mixed /\ pc[p] = "opened" /\ pc' = [pc EXCEPT ![p] = "idle"]
      /\ list' = [list EXCEPT ![p] = <<>>]
  BY DEF Write, Leave
<1>2. /\ \A q \in Procs : list[q] \in Seq(Good) /\ Ordered(list[q])
      /\ file = <<>> /\ \A q \in Procs : pc[q] = "opened" => q = p
  BY <1>1 DEF Tidy
<1>3. file' = list[p]
  BY <1>2, WriteLeaves
<1>4. <<>> \in Seq(Good) /\ Ordered(<<>>)
  BY DEF Ordered
<1>5. \A q \in Procs : pc'[q] # "opened"
  BY <1>1, <1>2 DEF SharedType
<1>6. \A q \in Procs : list'[q] \in Seq(Good) /\ Ordered(list'[q])
  BY <1>1, <1>2, <1>4 DEF SharedType
<1> QED BY <1>2, <1>3, <1>5, <1>6

\* Kill: the file stays as it is.
LEMMA TidyKill ==
  ASSUME SharedType, Tidy, NEW p \in Procs, Kill(p)
  PROVE  Tidy'
<1> SUFFICES ASSUME orderly', ~ mixed'
             PROVE  /\ file' \in Seq(Good) /\ Ordered(file')
                    /\ \A q \in Procs : list'[q] \in Seq(Good) /\ Ordered(list'[q])
                    /\ \A q \in Procs : pc'[q] = "opened" =>
                         file' = <<>> /\ \A r \in Procs : pc'[r] = "opened" => r = q
  BY DEF Tidy
<1>1. /\ orderly /\ ~ mixed /\ file' = file /\ pc' = [pc EXCEPT ![p] = "idle"]
      /\ list' = [list EXCEPT ![p] = <<>>]
  BY DEF Kill, Leave
<1>2. /\ file \in Seq(Good) /\ Ordered(file)
      /\ \A q \in Procs : list[q] \in Seq(Good) /\ Ordered(list[q])
      /\ \A q \in Procs : pc[q] = "opened" => file = <<>> /\ \A r \in Procs : pc[r] = "opened" => r = q
  BY <1>1 DEF Tidy
<1>4. <<>> \in Seq(Good) /\ Ordered(<<>>)
  BY DEF Ordered
<1>5. \A q \in Procs : pc'[q] = "opened" => pc[q] = "opened"
  BY <1>1 DEF SharedType
<1>6. \A q \in Procs : list'[q] \in Seq(Good) /\ Ordered(list'[q])
  BY <1>1, <1>2, <1>4 DEF SharedType
<1> QED BY <1>1, <1>2, <1>5, <1>6

\* For any number of instances: while no two of them had the file open at once and
\* every command merged a sorted list, the file is sorted, with one line for a
\* name and no damaged line.
THEOREM FileSortedAlone == Spec => []SortedUnlessMixed
<1>1. Init => Tidy
  BY DEF Init, SharedInit, Tidy, Ordered
<1>2. SharedType /\ Tidy /\ [Next]_vars => Tidy'
  <2> SUFFICES ASSUME SharedType, Tidy, [Next]_vars PROVE Tidy'
    OBVIOUS
  <2>1. CASE SharedNext
    <3>1. ASSUME NEW p \in Procs, NEW items, Misread(p, items) PROVE Tidy'
      BY <3>1 DEF Misread, locals, Tidy
    <3> QED BY <2>1, <3>1, SharedSteps, TidyLoad, TidyOpen, TidyWrite, TidyKill
  <2>2. CASE UNCHANGED shared
    BY <2>2 DEF shared, locals, Tidy
  <2> QED BY <2>1, <2>2, ReportApart DEF Next, Others, vars
<1>3. SharedType /\ Tidy => SortedUnlessMixed
  <2> SUFFICES ASSUME SharedType, Tidy, orderly, ~ mixed
               PROVE  Ordered(file) /\ Valid(file) = DOMAIN file
    BY DEF SortedUnlessMixed
  <2>1. file \in Seq(Good) /\ Ordered(file)
    BY DEF Tidy
  <2>2. \A k \in DOMAIN file : file[k].space
    BY <2>1 DEF Good
  <2> QED BY <2>1, <2>2 DEF Valid
<1> QED BY <1>1, <1>2, <1>3, TypeInvariant, PTL DEF Spec

-----------------------------------------------------------------------------
(* A save of an instance that was alone forgets nothing.                    *)

\* What an instance holds of itself stays true when another one loads.
LEMMA HeldLoad ==
  ASSUME SharedType, Held, NEW p \in Procs, NEW names \in Inputs,
         NEW items \in Fetches(names, Vers), Load(p, items)
  PROVE  Held'
<1>1. /\ pc' = [pc EXCEPT ![p] = "loaded"] /\ fetched' = [fetched EXCEPT ![p] = items]
      /\ seen' = [seen EXCEPT ![p] = IF Opened = {} THEN file ELSE Unknown]
      /\ file' = file
  BY DEF Load
<1>2. PICK reading \in Readings(file) : list' = [list EXCEPT ![p] = ZipMerge(reading, items)]
  BY LoadMerges
<1> SUFFICES ASSUME NEW q \in Procs, seen'[q] # Unknown
             PROVE  /\ seen'[q] \in Seq(Lines) /\ Merges(fetched'[q], seen'[q], list'[q])
                    /\ pc'[q] = "opened" => file' = <<>>
  BY DEF Held, Alone
<1>3. CASE q = p
  <2>1. seen'[p] = file /\ file \in Seq(Lines)
    BY <1>1, <1>3 DEF SharedType
  <2>2. pc'[p] = "loaded" /\ fetched'[p] = items /\ list'[p] = ZipMerge(reading, items)
    BY <1>1, <1>2 DEF SharedType
  <2> QED BY <1>3, <2>1, <2>2 DEF Merges
<1>4. CASE q # p
  <2>1. pc'[q] = pc[q] /\ fetched'[q] = fetched[q] /\ list'[q] = list[q] /\ seen'[q] = seen[q]
    BY <1>1, <1>2, <1>4 DEF SharedType
  <2> QED BY <1>1, <2>1 DEF Held, Alone
<1> QED BY <1>3, <1>4

\* Nobody is alone after another one opened or wrote the file.
LEMMA HeldRest ==
  ASSUME SharedType, Held, NEW p \in Procs, Open(p) \/ Write(p) \/ Kill(p)
  PROVE  Held'
<1> SUFFICES ASSUME NEW q \in Procs, seen'[q] # Unknown
             PROVE  /\ seen'[q] \in Seq(Lines) /\ Merges(fetched'[q], seen'[q], list'[q])
                    /\ pc'[q] = "opened" => file' = <<>>
  BY DEF Held, Alone
<1>1. CASE Open(p)
  <2>1. /\ q = p /\ seen'[q] = seen[q] /\ file' = <<>> /\ list' = list /\ fetched' = fetched
    BY <1>1 DEF Open, SharedType
  <2> QED BY <2>1 DEF Held, Alone
<1>2. CASE Write(p)
  BY <1>2 DEF Write
<1>3. CASE Kill(p)
  <2>1. q # p
    BY <1>3 DEF Kill, SharedType
  <2>2. pc'[q] = pc[q] /\ fetched'[q] = fetched[q] /\ list'[q] = list[q] /\ seen'[q] = seen[q]
        /\ file' = file
    BY <1>3, <2>1 DEF Kill, Leave, SharedType
  <2> QED BY <2>2 DEF Held, Alone
<1> QED BY <1>1, <1>2, <1>3

\* An instance that was alone all along holds a merge of the file it saw.
LEMMA HeldInvariant == Spec => []Held
<1>1. Init => Held
  BY DEF Init, SharedInit, Held, Alone
<1>2. SharedType /\ Held /\ [Next]_vars => Held'
  <2> SUFFICES ASSUME SharedType, Held, [Next]_vars PROVE Held'
    OBVIOUS
  <2>1. CASE SharedNext
    <3>1. ASSUME NEW p \in Procs, NEW items, Misread(p, items) PROVE Held'
      BY <3>1 DEF Misread, locals, Held, Alone
    <3> QED BY <2>1, <3>1, SharedSteps, HeldLoad, HeldRest
  <2>2. CASE UNCHANGED shared
    BY <2>2 DEF shared, locals, Held, Alone
  <2> QED BY <2>1, <2>2, ReportApart DEF Next, Others, vars
<1> QED BY <1>1, <1>2, TypeInvariant, PTL DEF Spec

\* The file after the write of an instance that was alone has the good lines of
\* its merge, in their order.
LEMMA AloneWrites ==
  ASSUME SharedType, Held, NEW p \in Procs, Write(p), Alone(p)
  PROVE  /\ seen[p] \in Seq(Lines) /\ file' \in Seq(Good)
         /\ \E reading \in Readings(seen[p]), z \in Seq(Lines) :
              /\ Zipped(z, reading, fetched[p], 1, 1)
              /\ From(file', 1) = {l \in From(z, 1) : l.space}
              /\ \A l \in Good : Leads(z, l) => Leads(file', l)
<1>1. /\ seen[p] \in Seq(Lines) /\ Merges(fetched[p], seen[p], list[p])
      /\ file = <<>>
  BY DEF Held, Write
<1>2. PICK reading \in Readings(seen[p]) : list[p] = ZipMerge(reading, fetched[p])
  BY <1>1 DEF Merges
<1>3. reading \in Seq(Lines) /\ fetched[p] \in Seq(Fresh)
  BY <1>1, ReadingLines DEF SharedType
<1> DEFINE z == ZipMerge(reading, fetched[p])
<1>4. z \in Seq(Lines) /\ Zipped(z, reading, fetched[p], 1, 1)
  BY <1>3, MergedLines
<1>5. file' = Saved(z)
  BY <1>1, <1>2, WriteLeaves
<1> HIDE DEF z
<1>6. /\ file' \in Seq(Good) /\ From(file', 1) = {l \in From(z, 1) : l.space}
      /\ \A l \in Good : Leads(z, l) => Leads(file', l)
  BY <1>4, <1>5, SavedLines
<1> QED BY <1>1, <1>4, <1>6

\* For all files, damaged ones too, lists and interleavings: when nobody else had
\* versions.txt open since the load of an instance, its save leaves the fetched
\* versions there and every valid line of another package among those counted,
\* as it was loaded.
THEOREM SaveForgetsNothing == Spec => SaveKeeps
<1> DEFINE Kept(p) ==
      LET lines == {file'[k] : k \in DOMAIN file'}
          counted == Cardinality(Valid(seen[p]))
      IN /\ \A k \in DOMAIN fetched[p] : fetched[p][k] \in lines
         /\ \A k \in Valid(seen[p]) :
              k <= counted /\ seen[p][k].name \notin NamesIn(fetched[p])
                => seen[p][k] \in lines
<1>1. ASSUME SharedType, Held, NEW p \in Procs, Write(p), Alone(p) PROVE Kept(p)
  <2> DEFINE f == seen[p]
             new == fetched[p]
  <2>1. file' \in Seq(Good) /\ f \in Seq(Lines) /\ new \in Seq(Fresh)
    BY <1>1, AloneWrites DEF SharedType
  <2>2. PICK reading \in Readings(f), z \in Seq(Lines) :
          /\ Zipped(z, reading, new, 1, 1)
          /\ From(file', 1) = {l \in From(z, 1) : l.space}
    BY <1>1, AloneWrites
  <2>3. /\ From(file', 1) = {file'[k] : k \in DOMAIN file'} /\ From(new, 1) = {new[k] : k \in DOMAIN new}
        /\ \A m \in From(new, 1) : m.name \in NamesIn(new) /\ m.space
    <3>1. From(file', 1) = {file'[k] : k \in DOMAIN file'}
      BY <2>1 DEF From
    <3>2. DOMAIN new = 1 .. Len(new) /\ \A k \in 1 .. Len(new) : new[k] \in Fresh
      BY <2>1
    <3> QED BY <3>1, <3>2 DEF From, NamesIn, Fresh
  <2>4. \A k \in Valid(f) : k <= Cardinality(Valid(f)) => f[k] \in From(reading, 1) /\ f[k].space
    <3>1. reading \in Seq(Lines) /\ Len(reading) = Cardinality(Valid(f))
      BY <2>1, LoadedLines, ReadingLines
    <3>2. \A k \in Valid(f) : k \in 1 .. Len(f) /\ f[k].space
      BY <2>1 DEF Valid
    <3>3. \A k \in Valid(f) : k <= Cardinality(Valid(f)) => k \in 1 .. Len(reading) /\ reading[k] = f[k]
      BY <2>1, <3>1, <3>2, ReadingLines
    <3> QED BY <3>2, <3>3 DEF From
  <2>5. /\ From(new, 1) \subseteq From(z, 1)
        /\ \A l \in From(reading, 1) : l \in From(z, 1) \/ \E m \in From(new, 1) : m.name = l.name
    BY <2>2 DEF Zipped
  <2>6. \A k \in DOMAIN new : new[k] \in From(file', 1)
    BY <2>2, <2>3, <2>5
  <2>7. \A k \in Valid(f) :
          k <= Cardinality(Valid(f)) /\ f[k].name \notin NamesIn(new) => f[k] \in From(file', 1)
    BY <2>2, <2>3, <2>4, <2>5
  <2> QED BY <2>3, <2>6, <2>7
<1>2. SharedType /\ Held /\ [Next]_vars => [\A p \in Procs : Write(p) /\ Alone(p) => Kept(p)]_shared
  BY <1>1
<1> QED BY <1>2, TypeInvariant, HeldInvariant, PTL DEF Spec, SaveKeeps

-----------------------------------------------------------------------------
(* aur_list_git() after an undisturbed fetch.                               *)

\* What was saved last by an instance that was alone is recorded, and is when a
\* report begins.
LEMMA SettledInvariant == Spec => [](Settled /\ Due)
<1>1. Init => Settled /\ Due
  BY DEF Init, SharedInit, Settled, Due
<1>2. ASSUME SharedType, Held, Settled, [Next]_vars PROVE Settled'
  <2>1. ASSUME NEW p \in Procs, Write(p) PROVE Settled'
    <3> SUFFICES ASSUME settled' # Unknown, Ordered(settled') PROVE Recorded(file', settled')
      BY DEF Settled
    <3>1. Alone(p) /\ settled' = fetched[p]
      BY <2>1 DEF Write
    <3>2. file' \in Seq(Good) /\ fetched[p] \in Seq(Fresh)
      BY <1>2, <2>1, <3>1, AloneWrites DEF SharedType
    <3>3. PICK reading \in Readings(seen[p]), z \in Seq(Lines) :
            /\ Zipped(z, reading, fetched[p], 1, 1)
            /\ \A l \in Good : Leads(z, l) => Leads(file', l)
      BY <1>2, <2>1, <3>1, AloneWrites
    <3>4. \A l \in From(fetched[p], 1) : l \in Good
      BY <3>2, LineSets DEF From
    <3>5. \A l \in From(fetched[p], 1) : Leads(z, l)
      BY <3>1, <3>3 DEF Zipped
    <3> QED BY <3>1, <3>2, <3>3, <3>4, <3>5 DEF Recorded
  <2>2. ASSUME NEW p \in Procs, Open(p) PROVE Settled'
    BY <2>2 DEF Open, Settled
  <2>3. ASSUME UNCHANGED <<file, settled>> PROVE Settled'
    BY <1>2, <2>3 DEF Settled
  <2>4. \A items : \A p \in Procs : Load(p, items) \/ Misread(p, items) => UNCHANGED <<file, settled>>
    BY DEF Load, Misread
  <2>5. \A p \in Procs : Kill(p) => UNCHANGED <<file, settled>>
    BY DEF Kill
  <2>6. UNCHANGED shared => UNCHANGED <<file, settled>>
    BY DEF shared
  <2> QED BY <1>2, <2>1, <2>2, <2>3, <2>4, <2>5, <2>6, SharedSteps, ReportApart DEF Next, Others, vars
<1>3. ASSUME SharedType, Settled, Due, [Next]_vars PROVE Due'
  <2>1. ASSUME NEW s \in Systems, Begin(s) PROVE Due'
    <3> SUFFICES ASSUME due' # Unknown, Ordered(due') PROVE cache' = onDisk' /\ Recorded(cache', due')
      BY DEF Due
    <3>1. due' = settled /\ onDisk' = file /\ cache' \in Readings(file)
      BY <2>1 DEF Begin
    <3>2. Recorded(file, settled)
      BY <1>3, <3>1 DEF Settled
    <3>3. file \in Seq(Lines) /\ Loaded(file) = file /\ Clean(file)
      BY <1>3, <3>2, LoadedLines DEF Recorded, SharedType
    <3>4. cache' = file
      BY <3>1, <3>3, ReadingLines
    <3> QED BY <3>1, <3>2, <3>4
  <2>2. CASE Forget
    BY <2>2 DEF Forget, Due
  <2>3. ASSUME UNCHANGED <<due, cache, onDisk>> PROVE Due'
    BY <1>3, <2>3 DEF Due
  <2>4. UNCHANGED walkVars => UNCHANGED <<due, cache, onDisk>>
    BY DEF walkVars
  <2>5. SkipOther \/ ShowAur \/ Search \/ Advance \/ ShowRecorded \/ ShowClone \/ ShowAndFree
          \/ NothingPrinted \/ Garbage \/ End => UNCHANGED <<due, cache, onDisk>>
    BY DEF SkipOther, ShowAur, Search, Advance, ShowRecorded, ShowClone, ShowAndFree,
           NothingPrinted, Garbage, End, Shown, Dies
  <2> QED BY <1>3, <2>1, <2>2, <2>3, <2>4, <2>5 DEF Next, Others, Report, vars
<1> QED BY <1>1, <1>2, <1>3, TypeInvariant, HeldInvariant, PTL DEF Spec

\* pacman lists the foreign packages by their names.
SortedSystems == \A s \in Systems : Ordered(s)

\* The system under the report is sorted.
LEMMA SystemOrdered ==
  ASSUME SortedSystems, WalkType
  PROVE  /\ Ordered(system)
         /\ \A k, m \in 1 .. Len(system) : k < m => system[k].name < system[m].name
         /\ \A m \in 1 .. Len(system) : system[m].name \in Int
<1>1. Ordered(system)
  BY DEF SortedSystems, WalkType, Ordered
<1>2. DOMAIN system = 1 .. Len(system) /\ \A m \in 1 .. Len(system) : system[m] \in Found
  BY DEF WalkType
<1>3. \A m \in 1 .. Len(system) : system[m].name \in Int
  BY <1>2, TextsAndVersions DEF Found
<1> QED BY <1>1, <1>2, <1>3 DEF Ordered

\* Every -git package is one of the lines that are due.
LEMMA WantedLine ==
  ASSUME SharedType, WalkType, Wanted, NEW m \in 1 .. Len(system), Git(m)
  PROVE  \E l \in From(due, 1) : l.name = system[m].name
<1>1. DOMAIN system = 1 .. Len(system) /\ due \in Seq(Fresh)
  BY DEF WalkType, Wanted
<1>2. system[m].name \in GitNames(system)
  BY <1>1 DEF GitNames, Git
<1>3. PICK k \in DOMAIN due : due[k].name = system[m].name
  BY <1>2 DEF Wanted, NamesIn
<1> QED BY <1>1, <1>3 DEF From

\* What the cursor in versions.txt is at when the walk comes to a -git package.
LEMMA CursorFinds ==
  ASSUME SharedType, WalkType, Due, Finding, Wanted, Git(ri)
  PROVE  /\ rj <= Len(cache) /\ rj \in 1 .. Len(cache) /\ cache[rj] \in Good /\ Entries = {cache[rj]}
         /\ cache[rj].name # Name => cache[rj].name < Name
         /\ \A l \in From(due, 1) : l.name = Name /\ cache[rj].name = Name => cache[rj] = l
<1>1. /\ ri \in 1 .. Len(system) /\ Name = system[ri].name /\ ~ (ri < ri)
      /\ rj \in 1 .. Len(cache) + 1 /\ Len(cache) \in Nat /\ cache \in Seq(Good)
  BY DEF WalkType, Git, Name, Due, Recorded, Wanted
<1>2. \A l \in From(due, 1) : l.name = Name => \E q \in rj .. Len(cache) : FoundAt(l, q)
  BY <1>1 DEF Finding, Ahead
<1>3. PICK l \in From(due, 1) : l.name = Name
  BY <1>1, WantedLine
<1>4. PICK q \in rj .. Len(cache) : FoundAt(l, q)
  BY <1>2, <1>3
<1>5. rj <= Len(cache) /\ rj \in 1 .. Len(cache) /\ cache[rj] \in Good
  BY <1>1, <1>4
<1>6. Entries = {cache[rj]}
  BY <1>5 DEF Entries
<1>7. \A k \in From(due, 1) : k.name = Name => cache[rj] = k \/ cache[rj].name < Name
  <2> TAKE k \in From(due, 1)
  <2> HAVE k.name = Name
  <2>1. PICK r \in rj .. Len(cache) : FoundAt(k, r)
    BY <1>2
  <2>2. r = rj \/ rj \in 1 .. r - 1
    BY <1>1, <2>1
  <2> QED BY <2>1, <2>2 DEF FoundAt
<1>8. cache[rj].name \in Int
  BY <1>5, LineSets
<1>9. cache[rj].name # Name => cache[rj].name < Name
  BY <1>3, <1>7
<1>10. \A k \in From(due, 1) : k.name = Name /\ cache[rj].name = Name => cache[rj] = k
  BY <1>7, <1>8
<1> QED BY <1>5, <1>6, <1>9, <1>10

\* So the walk does not miss it, and reads nothing that was never set.
LEMMA NothingMissed ==
  ASSUME SharedType, WalkType, Due, Finding, Wanted, walk = "search"
  PROVE  ~ NotRecorded /\ ~ Garbage
<1>1. Git(ri)
  BY DEF WalkType, Git
<1>2. /\ rj <= Len(cache) /\ rj \in 1 .. Len(cache) /\ cache[rj] \in Good /\ Entries = {cache[rj]}
      /\ cache[rj].name # Name => cache[rj].name < Name
  BY <1>1, CursorFinds
<1>3. ~ (rj > Len(cache))
  BY <1>2
<1>4. cache[rj].name \in Int /\ Name \in Int
  <2>1. system[ri] \in Found
    BY <1>1 DEF Git, WalkType
  <2> QED BY <1>2, <2>1, LineSets, TextsAndVersions DEF Found, Name
<1>5. ~ NotRecorded
  <2> SUFFICES ASSUME NotRecorded PROVE FALSE
    OBVIOUS
  <2>1. Name # cache[rj].name /\ (Name > cache[rj].name => rj > Len(cache))
    BY <1>2 DEF NotRecorded
  <2> QED BY <1>2, <1>3, <1>4, <2>1
<1>6. ~ Garbage
  BY <1>2 DEF Garbage, Good
<1> QED BY <1>5, <1>6

\* Advance passes no line that is due.
LEMMA FindingAdvance ==
  ASSUME SortedSystems, SharedType, WalkType, Due, Finding, Wanted, Advance
  PROVE  Finding'
<1>1. /\ walk = "search" /\ rj <= Len(cache) /\ Name > cache[rj].name /\ rj' = rj + 1
      /\ UNCHANGED <<walk, system, ri, cache, shown, due>>
  BY DEF Advance
<1>2. /\ ri \in 1 .. Len(system) /\ rj \in 1 .. Len(cache) /\ Len(cache) \in Nat
      /\ Name = system[ri].name /\ cache[rj] \in Lines
  BY <1>1 DEF WalkType, Name
<1> SUFFICES ASSUME NEW m \in 1 .. Len(system), Git(m), NEW l \in From(due, 1), l.name = system[m].name
             PROVE  Ahead(m, l)'
  BY <1>1 DEF Finding, Git
<1>3. Ahead(m, l)
  BY DEF Finding
<1>4. CASE m < ri
  BY <1>1, <1>3, <1>4 DEF Ahead
<1>5. CASE ~ (m < ri)
  <2>1. PICK q \in rj .. Len(cache) : FoundAt(l, q)
    BY <1>3, <1>5 DEF Ahead
  <2>2. Name <= system[m].name
    BY <1>2, <1>5, SystemOrdered
  <2>3. cache[rj].name \in Int /\ Name \in Int /\ system[m].name \in Int
    BY <1>2, LineSets, SystemOrdered
  <2>4. q # rj
    BY <1>1, <2>1, <2>2, <2>3 DEF FoundAt
  <2>5. q \in rj' .. Len(cache')
    BY <1>1, <1>2, <2>4
  <2>6. FoundAt(l, q)'
    BY <1>1, <2>1 DEF FoundAt
  <2> QED BY <1>1, <1>5, <2>5, <2>6 DEF Ahead
<1> QED BY <1>4, <1>5

\* ShowRecorded shows the line that is due.
LEMMA FindingShow ==
  ASSUME SharedType, WalkType, Due, Finding, Wanted, ShowRecorded
  PROVE  Finding'
<1>1. walk = "search" /\ Git(ri)
  BY DEF ShowRecorded, WalkType, Git
<1>2. /\ rj \in 1 .. Len(cache) /\ cache[rj] \in Good /\ Entries = {cache[rj]}
      /\ \A l \in From(due, 1) : l.name = Name /\ cache[rj].name = Name => cache[rj] = l
  BY <1>1, CursorFinds
<1>3. /\ Name = cache[rj].name /\ Shown(cache[rj].ver) /\ UNCHANGED rj
  BY <1>2 DEF ShowRecorded, Good
<1>4. /\ shown' = Append(shown, Shows(Name, cache[rj].ver)) /\ walk' = "next" /\ ri' = ri + 1
      /\ UNCHANGED <<system, cache, due, rj>>
  BY <1>3 DEF Shown
<1>5. /\ {shown[x] : x \in DOMAIN shown} \subseteq {shown'[x] : x \in DOMAIN shown'}
      /\ Shows(Name, cache[rj].ver) \in {shown'[x] : x \in DOMAIN shown'}
  <2>1. shown \in Seq(Said)
    BY DEF WalkType
  <2> DEFINE sh == Shows(Name, cache[rj].ver)
  <2>2. shown' = Append(shown, sh)
    BY <1>4
  <2> HIDE DEF sh
  <2>3. /\ DOMAIN shown = 1 .. Len(shown) /\ Len(shown) \in Nat
        /\ DOMAIN shown' = 1 .. Len(shown) + 1 /\ shown'[Len(shown) + 1] = sh
        /\ \A x \in 1 .. Len(shown) : shown'[x] = shown[x] /\ x \in 1 .. Len(shown) + 1
    BY <2>1, <2>2
  <2>4. Len(shown) + 1 \in 1 .. Len(shown) + 1
    BY <2>3
  <2> QED BY <2>3, <2>4 DEF sh
<1> SUFFICES ASSUME NEW m \in 1 .. Len(system), Git(m), NEW l \in From(due, 1), l.name = system[m].name
             PROVE  Ahead(m, l)'
  BY <1>4 DEF Finding, Git
<1>6. Ahead(m, l) /\ ri \in Nat
  BY DEF Finding, WalkType
<1>7. CASE m < ri
  <2>1. m < ri'
    BY <1>4, <1>6, <1>7
  <2> QED BY <1>5, <1>6, <1>7, <2>1 DEF Ahead, Shows
<1>8. CASE m = ri
  <2>1. cache[rj] = l /\ m < ri'
    BY <1>2, <1>3, <1>4, <1>6, <1>8 DEF Name
  <2>2. Shows(l.name, l.ver) \in {shown'[x] : x \in DOMAIN shown'}
    BY <1>3, <1>5, <2>1
  <2> QED BY <2>1, <2>2 DEF Ahead, Shows
<1>9. CASE m > ri
  <2>1. ~ (m < ri) /\ ~ (m < ri')
    BY <1>4, <1>6, <1>9
  <2>2. PICK q \in rj .. Len(cache) : FoundAt(l, q)
    BY <1>6, <2>1 DEF Ahead
  <2>3. q \in rj' .. Len(cache') /\ FoundAt(l, q)'
    BY <1>4, <2>2 DEF FoundAt
  <2> QED BY <2>1, <2>3 DEF Ahead
<1> QED BY <1>6, <1>7, <1>8, <1>9

\* The walk begins before all of them.
LEMMA FindingBegin ==
  ASSUME Due', NEW s \in Systems, Begin(s)
  PROVE  Finding'
<1>1. walk' = "next" /\ ri' = 1 /\ rj' = 1 /\ system' = s
  BY DEF Begin
<1> SUFFICES ASSUME Wanted',
                    NEW m \in 1 .. Len(s), NEW l \in From(due', 1), l.name = s[m].name
             PROVE  Ahead(m, l)'
  BY <1>1 DEF Finding
<1>2. Leads(cache', l)
  BY DEF Wanted, Due, Recorded
<1>3. PICK q \in 1 .. Len(cache') : cache'[q] = l /\ \A k \in 1 .. q - 1 : cache'[k].name < l.name
  BY <1>2 DEF Leads
<1>4. ~ (m < ri')
  <2>1. m \in Int /\ 1 <= m
    OBVIOUS
  <2> QED BY <1>1, <2>1
<1> QED BY <1>1, <1>3, <1>4 DEF Ahead, FoundAt

\* Every step keeps what is due ahead of the cursor or shown.
LEMMA FindingStep ==
  ASSUME SortedSystems, SharedType, WalkType, Due, Finding, Due', [Next]_vars
  PROVE  Finding'
<1>1. ASSUME NEW s \in Systems, Begin(s) PROVE Finding'
  BY <1>1, FindingBegin
<1>2. CASE Forget
  BY <1>2 DEF Forget, Finding, Wanted
<1>3. ASSUME ~ Forget, \A s \in Systems : ~ Begin(s) PROVE Finding'
  <2>1. UNCHANGED <<due, system, cache>>
    BY <1>3 DEF Next, Others, Report, vars, walkVars, SkipOther, ShowAur, Search, Advance, ShowRecorded,
       ShowClone, ShowAndFree, NothingPrinted, Garbage, End, Shown, Dies
  <2>2. CASE ~ Wanted
    BY <2>1, <2>2 DEF Finding, Wanted
  <2>3. CASE Wanted
    <3>1. ASSUME UNCHANGED <<ri, rj, shown>>, walk' # "dead" PROVE Finding'
      BY <2>1, <2>3, <3>1 DEF Finding, Wanted, Ahead, FoundAt, Git
    <3>2. CASE UNCHANGED walkVars
      BY <2>3, <3>1, <3>2 DEF walkVars, Finding
    <3>3. CASE SkipOther
      <4>1. /\ walk' # "dead" /\ ri' = ri + 1 /\ UNCHANGED <<rj, shown>> /\ ~ Git(ri) /\ ri \in Nat
        BY <3>3 DEF SkipOther, Git, WalkType
      <4> SUFFICES ASSUME NEW m \in 1 .. Len(system), Git(m), NEW l \in From(due, 1), l.name = system[m].name
                   PROVE  Ahead(m, l)'
        BY <2>1, <4>1 DEF Finding, Git
      <4>2. Ahead(m, l) /\ m # ri
        BY <2>3, <4>1 DEF Finding
      <4>3. m < ri <=> m < ri'
        BY <4>1, <4>2
      <4> QED BY <2>1, <4>1, <4>2, <4>3 DEF Ahead, FoundAt
    <3>4. CASE ShowAur
      <4>1. Git(ri) /\ rj > Len(cache)
        BY <3>4 DEF ShowAur, Git, WalkType
      <4>2. rj <= Len(cache) /\ rj \in Int /\ Len(cache) \in Int
        BY <2>3, <4>1, CursorFinds DEF WalkType
      <4> QED BY <4>1, <4>2
    <3>5. CASE Search
      BY <3>1, <3>5 DEF Search
    <3>6. CASE Advance
      BY <2>3, <3>6, FindingAdvance
    <3>7. CASE ShowRecorded
      BY <2>3, <3>7, FindingShow
    <3>8. CASE ShowClone \/ ShowAndFree \/ NothingPrinted
      BY <2>3, <3>8, NothingMissed DEF ShowClone, ShowAndFree, NothingPrinted, NotRecorded
    <3>9. CASE Garbage
      BY <2>3, <3>9, NothingMissed DEF Garbage
    <3>10. CASE End
      BY <3>1, <3>10 DEF End
    <3> QED BY <1>3, <3>2, <3>3, <3>4, <3>5, <3>6, <3>7, <3>8, <3>9, <3>10 DEF Next, Others, Report, vars
  <2> QED BY <2>2, <2>3
<1> QED BY <1>1, <1>2, <1>3

\* For all names, versions and files, and all systems that pacman lists in order:
\* after an undisturbed fetch of a sorted list that had every -git package the
\* report does not die, and shows each of them with the version that was fetched.
THEOREM ShowsWhatWasFetched ==
  ASSUME SortedSystems
  PROVE  Spec => []FetchGitAccurate
<1>1. Init => Finding
  BY DEF Init, SharedInit, Finding, Wanted
<1>2. SharedType /\ WalkType /\ Due /\ Finding /\ Due' /\ [Next]_vars => Finding'
  BY SortedSystems, FindingStep
<1>3. SharedType /\ WalkType /\ Finding => FetchGitAccurate
  <2> SUFFICES ASSUME SharedType, WalkType, Finding, Wanted
               PROVE  /\ walk # "dead"
                      /\ walk = "done" =>
                           \A k \in DOMAIN due :
                             due[k].name \in GitNames(system) =>
                               Shows(due[k].name, due[k].ver) \in {shown[m] : m \in DOMAIN shown}
    BY DEF FetchGitAccurate, Wanted
  <2>1. walk # "dead"
    BY DEF Finding
  <2>2. ASSUME walk = "done", NEW k \in DOMAIN due, due[k].name \in GitNames(system)
        PROVE  Shows(due[k].name, due[k].ver) \in {shown[m] : m \in DOMAIN shown}
    <3>1. due[k] \in From(due, 1)
      BY DEF Wanted, SharedType, WalkType, From
    <3>2. PICK m \in 1 .. Len(system) : Git(m) /\ system[m].name = due[k].name
      <4>1. DOMAIN system = 1 .. Len(system)
        BY DEF WalkType
      <4> DEFINE n == due[k].name
      <4>2. n \in {system[m].name : m \in {x \in DOMAIN system : system[x].kind = "git"}}
        BY <2>2 DEF GitNames
      <4> HIDE DEF n
      <4>3. PICK m \in DOMAIN system : system[m].kind = "git" /\ system[m].name = n
        BY <4>2
      <4> QED BY <4>1, <4>3 DEF Git, n
    <3>3. m < ri
      BY <2>2 DEF WalkType
    <3>4. Ahead(m, due[k])
      BY <3>1, <3>2 DEF Finding
    <3> QED BY <3>3, <3>4 DEF Ahead
  <2> QED BY <2>1, <2>2
<1> QED BY <1>1, <1>2, <1>3, TypeInvariant, SettledInvariant, PTL DEF Spec

-----------------------------------------------------------------------------
(* aur_list_git() over a sorted file.                                       *)

\* A line appended to the report.
LEMMA AppendedLine ==
  ASSUME NEW s \in Seq(Said), NEW l \in Said, NEW z, z = Append(s, l)
  PROVE  \E last : /\ DOMAIN z = DOMAIN s \cup {last} /\ last \notin DOMAIN s
                   /\ z[last] = l /\ \A x \in DOMAIN s : z[x] = s[x]
<1>1. /\ DOMAIN s = 1 .. Len(s) /\ Len(s) \in Nat
      /\ DOMAIN z = 1 .. Len(s) + 1 /\ z[Len(s) + 1] = l
      /\ \A x \in 1 .. Len(s) : z[x] = s[x]
  OBVIOUS
<1>2. 1 .. Len(s) + 1 = (1 .. Len(s)) \cup {Len(s) + 1} /\ Len(s) + 1 \notin 1 .. Len(s)
  BY <1>1
<1> QED BY <1>1, <1>2

\* Every line of one is a line of two others.
Joins(z, a, b) ==
  \A x \in DOMAIN z : (\E i \in DOMAIN a : z[x] = a[i]) \/ (\E i \in DOMAIN b : z[x] = b[i])

\* The lines of two sections.
LEMMA BothSections ==
  ASSUME NEW a \in Seq(Said), NEW b \in Seq(Said)
  PROVE  Joins(a \o b, a, b)
<1> DEFINE z == a \o b
<1> SUFFICES ASSUME NEW x \in DOMAIN z
             PROVE  (\E i \in DOMAIN a : z[x] = a[i]) \/ (\E i \in DOMAIN b : z[x] = b[i])
  BY DEF Joins
<1>1. /\ DOMAIN z = 1 .. Len(a) + Len(b) /\ DOMAIN a = 1 .. Len(a) /\ DOMAIN b = 1 .. Len(b)
      /\ Len(a) \in Nat /\ Len(b) \in Nat
      /\ \A i \in 1 .. Len(a) + Len(b) : z[i] = IF i <= Len(a) THEN a[i] ELSE b[i - Len(a)]
  OBVIOUS
<1>2. CASE x <= Len(a)
  BY <1>1, <1>2
<1>3. CASE ~ (x <= Len(a))
  <2>1. x - Len(a) \in DOMAIN b
    BY <1>1, <1>3
  <2> QED BY <1>1, <1>3, <2>1
<1> QED BY <1>2, <1>3

\* The walk begins with sections that have no -git package.
LEMMA FollowingBegin ==
  ASSUME SortedSystems, SharedType, NEW s \in Systems, Begin(s)
  PROVE  Following'
<1>1. /\ walk' = "next" /\ system' = s /\ ri' = 1 /\ rj' = 1 /\ cache' \in Readings(file)
      /\ onDisk' = file /\ shown' = Section(s, "upgrade") \o Section(s, "downgrade")
  BY DEF Begin
<1>2. s \in Seq(Found) /\ Ordered(s)
  BY SystemsAssumption DEF Found, SortedSystems
<1>3. \A x \in DOMAIN shown' : \A m \in DOMAIN s : s[m].kind = "git" => shown'[x].name # s[m].name
  <2> TAKE x \in DOMAIN shown'
  <2> TAKE m \in DOMAIN s
  <2> HAVE s[m].kind = "git"
  <2> DEFINE a == Section(s, "upgrade")
             b == Section(s, "downgrade")
  <2>1. /\ a \in Seq(Said) /\ \A i \in DOMAIN a : \E k \in DOMAIN s : s[k].kind = "upgrade" /\ s[k].name = a[i].name
        /\ b \in Seq(Said) /\ \A i \in DOMAIN b : \E k \in DOMAIN s : s[k].kind = "downgrade" /\ s[k].name = b[i].name
    BY <1>2, SectionLines
  <2>2. shown' = a \o b
    BY <1>1
  <2> HIDE DEF a, b
  <2>3. PICK k \in DOMAIN s : s[k].kind \in {"upgrade", "downgrade"} /\ s[k].name = shown'[x].name
    <3>1. (\E i \in DOMAIN a : shown'[x] = a[i]) \/ (\E i \in DOMAIN b : shown'[x] = b[i])
      <4>1. Joins(shown', a, b)
        BY <2>1, <2>2, BothSections
      <4> QED BY <4>1 DEF Joins
    <3> QED BY <2>1, <3>1
  <2>4. k # m
    BY <2>3
  <2>5. k < m \/ m < k
    BY <1>2, <2>4
  <2>6. s[k].name \in Int /\ s[m].name \in Int
    <3>1. s[k] \in Found /\ s[m] \in Found
      BY <1>2
    <3> QED BY <3>1, TextsAndVersions DEF Found
  <2> QED BY <1>2, <2>3, <2>5, <2>6 DEF Ordered
<1> SUFFICES ASSUME SortedFile'
             PROVE  Passed' /\ Agrees' /\ \A m \in 1 .. Len(s) : Git(m)' => Counted(m)'
  BY <1>1 DEF Following
<1>4. cache' = file
  <2>1. Valid(file) = DOMAIN file /\ file \in Seq(Lines)
    BY <1>1 DEF SortedFile, SharedType
  <2>2. \A k \in 1 .. Len(file) : file[k] \in Good
    BY <2>1 DEF Valid, Good
  <2>3. file \in Seq(Good)
    BY <2>1, <2>2, ElementOfSeq, IsASeq
  <2> QED BY <1>1, <2>1, <2>3, LoadedLines, ReadingLines
<1>5. Passed'
  <2>1. \A k \in 1 .. rj' - 1 : FALSE
    BY <1>1
  <2> QED BY <1>1, <1>4, <2>1 DEF Passed
<1>6. Agrees'
  <2>1. \A x \in DOMAIN shown' : shown'[x].name \notin GitNames(s)
    BY <1>3 DEF GitNames
  <2> QED BY <1>1, <2>1 DEF Agrees
<1>7. ASSUME NEW m \in 1 .. Len(s), Git(m)' PROVE Counted(m)'
  <2>1. ~ (m < ri')
    BY <1>1
  <2>2. m \in DOMAIN s /\ s[m].kind = "git"
    BY <1>1, <1>2, <1>7 DEF Git
  <2> QED BY <1>1, <1>3, <2>1, <2>2 DEF Counted
<1> QED BY <1>5, <1>6, <1>7

\* The package under the cursor is not recorded.
Absent == \A k \in DOMAIN onDisk : onDisk[k].name # Name

\* What the walk knows of the package under its cursor.
LEMMA CursorOver ==
  ASSUME SortedSystems, WalkType, SortedFile, Passed, ri \in 1 .. Len(system)
  PROVE  /\ rj > Len(cache) => Absent
         /\ rj <= Len(cache) /\ Name < cache[rj].name => Absent
         /\ rj <= Len(cache) /\ Name = cache[rj].name =>
              \A k \in DOMAIN onDisk : onDisk[k].name = Name => k = rj
         /\ rj <= Len(cache) => Entries = {cache[rj]} /\ cache[rj].space /\ cache[rj] \in Lines
<1>1. /\ cache = onDisk /\ DOMAIN onDisk = 1 .. Len(onDisk) /\ Len(cache) \in Nat
      /\ rj \in 1 .. Len(cache) + 1 /\ cache \in Seq(Lines) /\ Name = system[ri].name
  BY DEF Passed, WalkType, Name
<1>2. \A k \in 1 .. rj - 1 : cache[k].name < Name
  <2>1. ri \in ri .. Len(system)
    OBVIOUS
  <2> QED BY <1>1, <2>1 DEF Passed
<1>3. \A k \in 1 .. Len(cache) : cache[k].name \in Int
  <2>1. \A k \in 1 .. Len(cache) : cache[k] \in Lines
    BY <1>1
  <2> QED BY <2>1, LineSets
<1>4. Name \in Int
  BY <1>1, SystemOrdered
<1>5. \A k, q \in 1 .. Len(cache) : k < q => cache[k].name < cache[q].name
  BY <1>1 DEF SortedFile, Ordered
<1>6. rj > Len(cache) => Absent
  <2> SUFFICES ASSUME rj > Len(cache), NEW k \in 1 .. Len(cache) PROVE cache[k].name # Name
    BY <1>1 DEF Absent
  <2>1. k \in 1 .. rj - 1
    BY <1>1
  <2> QED BY <1>2, <1>3, <1>4, <2>1
<1>7. ASSUME rj <= Len(cache), Name <= cache[rj].name, NEW k \in 1 .. Len(cache), k # rj
      PROVE  cache[k].name # Name
  <2>1. rj \in 1 .. Len(cache)
    BY <1>1, <1>7
  <2>2. CASE k < rj
    <3>1. k \in 1 .. rj - 1
      BY <1>1, <2>2
    <3> QED BY <1>2, <1>3, <1>4, <3>1
  <2>3. CASE rj < k
    BY <1>3, <1>4, <1>5, <1>7, <2>1, <2>3
  <2> QED BY <1>1, <1>7, <2>2, <2>3
<1>8. rj <= Len(cache) => rj \in 1 .. Len(cache) /\ cache[rj].name \in Int
  BY <1>1, <1>3
<1>9. rj <= Len(cache) /\ Name < cache[rj].name => Absent
  BY <1>1, <1>4, <1>7, <1>8 DEF Absent
<1>10. rj <= Len(cache) /\ Name = cache[rj].name =>
         \A k \in DOMAIN onDisk : onDisk[k].name = Name => k = rj
  BY <1>1, <1>4, <1>7, <1>8
<1>11. rj <= Len(cache) => Entries = {cache[rj]} /\ cache[rj].space /\ cache[rj] \in Lines
  BY <1>1, <1>8 DEF Entries, SortedFile, Valid
<1> QED BY <1>6, <1>9, <1>10, <1>11

\* A name that the walk does not find, or that lies behind the list, is not recorded.
LEMMA NotThere ==
  ASSUME SortedSystems, WalkType, SortedFile, Passed, NotRecorded \/ Garbage
  PROVE  Absent /\ Git(ri)
<1>1. walk = "search"
  BY DEF NotRecorded, Garbage
<1>2. Git(ri) /\ ri \in 1 .. Len(system)
  BY <1>1 DEF WalkType, Git
<1>3. CASE rj > Len(cache)
  BY <1>2, <1>3, CursorOver
<1>4. CASE rj <= Len(cache)
  <2>1. Entries = {cache[rj]} /\ cache[rj].space /\ cache[rj] \in Lines
    BY <1>2, <1>4, CursorOver
  <2>2. NotRecorded
    BY <2>1 DEF Garbage
  <2>3. Name # cache[rj].name /\ (Name > cache[rj].name => rj > Len(cache))
    BY <2>1, <2>2 DEF NotRecorded
  <2>4. Name \in Int /\ cache[rj].name \in Int /\ rj \in Int /\ Len(cache) \in Int
    <3>1. Name \in Int
      BY <1>2, SystemOrdered DEF Name
    <3>2. rj \in Int /\ Len(cache) \in Int
      BY DEF WalkType
    <3> QED BY <2>1, <3>1, <3>2, LineSets
  <2>5. Name < cache[rj].name
    BY <1>4, <2>3, <2>4
  <2> QED BY <1>2, <1>4, <2>5, CursorOver
<1> QED BY <1>2, <1>3, <1>4 DEF WalkType

\* A line that agrees with the file is shown, and the walk goes on.
LEMMA FollowingShow ==
  ASSUME SortedSystems, WalkType, Following, SortedFile, walk # "dead", Git(ri),
         NEW v \in (1 .. MaxVer) \cup {FromAur, FromClone, Garbled}, Shown(v), UNCHANGED rj,
         \A k \in DOMAIN onDisk : onDisk[k].name = Name => onDisk[k].ver = v
  PROVE  Following'
<1>1. /\ shown' = Append(shown, Shows(Name, v)) /\ walk' = "next" /\ ri' = ri + 1
      /\ UNCHANGED <<system, cache, onDisk, rj>>
  BY DEF Shown
<1>2. /\ ri \in 1 .. Len(system) /\ Name = system[ri].name /\ ri \in Int
  BY DEF Git, Name
<1>3. shown \in Seq(Said) /\ Shows(Name, v) \in Said
  BY <1>2, ShownLine DEF WalkType
<1>4. PICK last : /\ DOMAIN shown' = DOMAIN shown \cup {last} /\ last \notin DOMAIN shown
                  /\ shown'[last] = Shows(Name, v) /\ \A x \in DOMAIN shown : shown'[x] = shown[x]
  BY <1>1, <1>3, AppendedLine
<1>5. Shows(Name, v).name = Name /\ Shows(Name, v).ver = v
  BY DEF Shows
<1>6. Passed'
  <2>1. \A m \in ri' .. Len(system) : m \in ri .. Len(system)
    BY <1>1, <1>2
  <2> QED BY <1>1, <2>1 DEF Following, Passed
<1>7. Agrees'
  <2> SUFFICES ASSUME NEW x \in DOMAIN shown', NEW k \in DOMAIN onDisk, shown'[x].name = onDisk[k].name,
                      shown'[x].name \in GitNames(system)
               PROVE  shown'[x].ver = onDisk[k].ver
    BY <1>1 DEF Agrees
  <2>1. CASE x = last
    BY <1>4, <1>5, <2>1
  <2>2. CASE x # last
    BY <1>4, <2>2 DEF Following, Agrees
  <2> QED BY <2>1, <2>2
<1>8. ASSUME NEW m \in 1 .. Len(system), Git(m) PROVE Counted(m)'
  <2>1. Counted(m)
    BY <1>8 DEF Following
  <2>2. m # ri => system[m].name # Name
    <3> HAVE m # ri
    <3>1. m < ri \/ ri < m
      BY <1>2
    <3>2. system[m].name \in Int /\ system[ri].name \in Int
      BY <1>2, SystemOrdered
    <3>3. m < ri => system[m].name < system[ri].name
      BY <1>2, SystemOrdered
    <3>4. ri < m => system[ri].name < system[m].name
      BY <1>2, SystemOrdered
    <3> QED BY <1>2, <3>1, <3>2, <3>3, <3>4
  <2> DEFINE n == system[m].name
  <2> HIDE DEF n
  <2>3. CASE m < ri
    <3>1. m < ri' /\ m # ri
      BY <1>1, <1>2, <2>3
    <3>2. PICK x \in DOMAIN shown : \A y \in DOMAIN shown : shown[y].name = n <=> y = x
      BY <2>1, <2>3 DEF Counted, Once, n
    <3>3. n # Name
      BY <2>2, <3>1 DEF n
    <3>4. \A y \in DOMAIN shown' : shown'[y].name = n <=> y = x
      BY <1>4, <1>5, <3>2, <3>3
    <3>5. x \in DOMAIN shown'
      BY <1>4, <3>2
    <3> QED BY <1>1, <3>1, <3>4, <3>5 DEF Counted, Once, n
  <2>4. CASE m = ri
    <3>1. m < ri' /\ ~ (m < ri) /\ n = Name
      BY <1>1, <1>2, <2>4 DEF n
    <3>2. \A y \in DOMAIN shown : shown[y].name # n
      BY <2>1, <3>1 DEF Counted, n
    <3>3. \A y \in DOMAIN shown' : shown'[y].name = n <=> y = last
      BY <1>4, <1>5, <3>1, <3>2
    <3> QED BY <1>1, <1>4, <3>1, <3>3 DEF Counted, Once, n
  <2>5. CASE m > ri
    <3>1. ~ (m < ri) /\ ~ (m < ri') /\ m # ri
      BY <1>1, <1>2, <2>5
    <3>2. \A y \in DOMAIN shown : shown[y].name # n
      BY <2>1, <3>1 DEF Counted, n
    <3>3. n # Name
      BY <2>2, <3>1 DEF n
    <3>4. \A y \in DOMAIN shown' : shown'[y].name # n
      BY <1>4, <1>5, <3>2, <3>3
    <3> QED BY <1>1, <3>1, <3>4 DEF Counted, n
  <2> QED BY <1>2, <2>3, <2>4, <2>5
<1> QED BY <1>1, <1>6, <1>7, <1>8 DEF Following, Git

\* The line under the cursor agrees with the file.
LEMMA RecordedAgrees ==
  ASSUME SortedSystems, WalkType, Following, SortedFile, ShowRecorded
  PROVE  \E v \in (1 .. MaxVer) \cup {FromAur, FromClone, Garbled} :
           Shown(v) /\ \A k \in DOMAIN onDisk : onDisk[k].name = Name => onDisk[k].ver = v
<1>1. Passed /\ ri \in 1 .. Len(system)
  BY DEF Following, ShowRecorded, WalkType
<1>2. PICK e \in Entries : Name = e.name /\ Shown(IF e.space THEN e.ver ELSE Garbled)
  BY DEF ShowRecorded
<1>3. (IF e.space THEN e.ver ELSE Garbled) \in (1 .. MaxVer) \cup {FromAur, FromClone, Garbled}
  BY EntryLines
<1>4. CASE rj > Len(cache)
  <2>1. Absent
    BY <1>1, <1>4, CursorOver
  <2> QED BY <1>2, <1>3, <2>1 DEF Absent
<1>5. CASE rj <= Len(cache)
  <2>1. e = cache[rj] /\ e.space
    BY <1>1, <1>2, <1>5, CursorOver
  <2>2. \A k \in DOMAIN onDisk : onDisk[k].name = Name => k = rj
    BY <1>1, <1>2, <1>5, <2>1, CursorOver
  <2>3. \A k \in DOMAIN onDisk : onDisk[k].name = Name => onDisk[k].ver = e.ver
    BY <1>1, <2>1, <2>2 DEF Passed
  <2> QED BY <1>2, <1>3, <2>1, <2>3
<1> QED BY <1>4, <1>5 DEF WalkType

\* Every step keeps to the file.
LEMMA FollowingStep ==
  ASSUME SortedSystems, SharedType, WalkType, Following, [Next]_vars
  PROVE  Following'
<1>1. ASSUME NEW s \in Systems, Begin(s) PROVE Following'
  BY <1>1, FollowingBegin
<1>2. CASE Forget
  BY <1>2 DEF Forget, Following, SortedFile
<1>3. ASSUME ~ Forget, \A s \in Systems : ~ Begin(s) PROVE Following'
  <2>1. UNCHANGED <<system, cache, onDisk>> /\ (walk' = "no" <=> walk = "no")
    BY <1>3 DEF Next, Others, Report, vars, walkVars, SkipOther, ShowAur, Search, Advance, ShowRecorded,
       ShowClone, ShowAndFree, NothingPrinted, Garbage, End, Shown, Dies, NotRecorded
  <2>2. CASE ~ SortedFile
    BY <2>1, <2>2 DEF Following, SortedFile
  <2>3. CASE SortedFile
    <3>0. Passed /\ Agrees
      BY <2>3 DEF Following
    <3>1. ASSUME UNCHANGED <<ri, rj, shown>>, walk' = "dead" <=> walk = "dead" PROVE Following'
      BY <2>1, <2>3, <3>1 DEF Following, SortedFile, Passed, Agrees, Missing, Counted, Once, Git
    <3>2. CASE UNCHANGED walkVars
      BY <3>1, <3>2 DEF walkVars
    <3>3. CASE SkipOther
      <4>1. /\ walk # "dead" /\ walk' # "dead" /\ ri' = ri + 1 /\ UNCHANGED <<rj, shown>>
            /\ ~ Git(ri) /\ ri \in Nat
        BY <3>3 DEF SkipOther, Git, WalkType
      <4>2. Passed'
        <5>1. \A m \in ri' .. Len(system) : m \in ri .. Len(system)
          BY <4>1
        <5> QED BY <2>1, <3>0, <4>1, <5>1 DEF Passed
      <4>3. Agrees'
        BY <2>1, <3>0, <4>1 DEF Agrees
      <4>4. ASSUME NEW m \in 1 .. Len(system), Git(m) PROVE Counted(m)'
        <5>1. Counted(m) /\ m # ri
          BY <2>3, <4>1, <4>4 DEF Following
        <5>2. m < ri <=> m < ri'
          BY <4>1, <5>1
        <5> QED BY <2>1, <4>1, <5>1, <5>2 DEF Counted, Once
      <4> QED BY <2>1, <4>1, <4>2, <4>3, <4>4 DEF Following, Git
    <3>4. CASE ShowAur
      <4>1. Git(ri) /\ ri \in 1 .. Len(system) /\ walk # "dead" /\ Shown(FromAur) /\ UNCHANGED rj
            /\ rj > Len(cache)
        BY <3>4 DEF ShowAur, Git, WalkType
      <4>2. Absent
        BY <2>3, <3>0, <4>1, CursorOver
      <4>3. FromAur \in (1 .. MaxVer) \cup {FromAur, FromClone, Garbled}
        OBVIOUS
      <4> QED BY <2>3, <4>1, <4>2, <4>3, FollowingShow DEF Absent
    <3>5. CASE Search
      BY <3>1, <3>5 DEF Search
    <3>6. CASE Advance
      <4>1. /\ walk = "search" /\ walk' = walk /\ rj <= Len(cache) /\ Name > cache[rj].name /\ rj' = rj + 1
            /\ UNCHANGED <<ri, shown>> /\ ri \in 1 .. Len(system) /\ Name = system[ri].name
            /\ rj \in 1 .. Len(cache)
        BY <3>6 DEF Advance, WalkType, Name
      <4>2. ASSUME NEW k \in 1 .. rj' - 1, NEW m \in ri .. Len(system)
            PROVE  cache[k].name < system[m].name
        <5>1. CASE k \in 1 .. rj - 1
          BY <3>0, <5>1 DEF Passed
        <5>2. CASE k = rj
          <6>1. cache[rj] \in Lines /\ m \in 1 .. Len(system)
            BY <4>1 DEF WalkType
          <6>2. cache[rj].name \in Int /\ system[ri].name \in Int /\ system[m].name \in Int
            BY <4>1, <6>1, LineSets, SystemOrdered
          <6>3. m = ri \/ system[ri].name < system[m].name
            BY <4>1, <6>1, SystemOrdered
          <6> QED BY <4>1, <5>2, <6>2, <6>3
        <5>3. k \in 1 .. rj - 1 \/ k = rj
          BY <4>1
        <5> QED BY <5>1, <5>2, <5>3
      <4>3. Passed'
        BY <2>1, <3>0, <4>1, <4>2 DEF Passed
      <4> QED BY <2>1, <2>3, <4>1, <4>3 DEF Following, Agrees, Missing, Counted, Once, Git
    <3>7. CASE ShowRecorded
      <4>1. Git(ri) /\ walk # "dead" /\ UNCHANGED rj
        BY <3>7 DEF ShowRecorded, WalkType, Git
      <4> QED BY <2>3, <3>7, <4>1, RecordedAgrees, FollowingShow
    <3>8. CASE ShowClone
      <4>1. Absent /\ Git(ri) /\ walk # "dead" /\ Shown(FromClone) /\ UNCHANGED rj
        BY <2>3, <3>0, <3>8, NotThere DEF ShowClone, NotRecorded
      <4>2. FromClone \in (1 .. MaxVer) \cup {FromAur, FromClone, Garbled}
        OBVIOUS
      <4> QED BY <2>3, <4>1, <4>2, FollowingShow DEF Absent
    <3>9. CASE ShowAndFree \/ NothingPrinted \/ Garbage
      <4>1. NotRecorded \/ Garbage
        BY <3>9 DEF ShowAndFree, NothingPrinted
      <4>2. Absent /\ Git(ri) /\ ri \in 1 .. Len(system) /\ Name = system[ri].name
        BY <2>3, <3>0, <4>1, NotThere DEF Git, Name
      <4>3. Missing
        <5>1. Name \in GitNames(system)
          BY <4>2 DEF GitNames, Git, WalkType
        <5>2. Name \notin NamesIn(onDisk)
          BY <4>2 DEF Absent, NamesIn
        <5> QED BY <5>1, <5>2 DEF Missing
      <4>4. walk' = "dead" /\ UNCHANGED <<ri, rj>>
        BY <3>9 DEF ShowAndFree, NothingPrinted, Garbage, Dies
      <4>5. Agrees'
        <5>1. CASE UNCHANGED shown
          BY <2>1, <3>0, <5>1 DEF Agrees
        <5>2. CASE ShowAndFree
          <6>1. shown' = Append(shown, Shows(Name, FromAur)) /\ Shows(Name, FromAur).name = Name
            BY <5>2 DEF ShowAndFree, Shows
          <6>2. shown \in Seq(Said) /\ Shows(Name, FromAur) \in Said
            BY <4>2, ShownLine DEF WalkType
          <6>3. PICK last : /\ DOMAIN shown' = DOMAIN shown \cup {last} /\ last \notin DOMAIN shown
                            /\ shown'[last] = Shows(Name, FromAur)
                            /\ \A x \in DOMAIN shown : shown'[x] = shown[x]
            BY <6>1, <6>2, AppendedLine
          <6> QED BY <2>1, <3>0, <4>2, <6>1, <6>3 DEF Agrees, Absent
        <5> QED BY <3>9, <5>1, <5>2 DEF NothingPrinted, Garbage, Dies
      <4> QED BY <2>1, <3>0, <4>3, <4>4, <4>5 DEF Following, Passed, Missing
    <3>10. CASE End
      BY <3>1, <3>10 DEF End
    <3> QED BY <1>3, <3>2, <3>3, <3>4, <3>5, <3>6, <3>7, <3>8, <3>9, <3>10 DEF Next, Others, Report, vars
  <2> QED BY <2>2, <2>3
<1> QED BY <1>1, <1>2, <1>3

\* For all sorted files without damaged lines, and all systems that pacman lists in
\* order: the report shows the recorded version of every package that is recorded,
\* dies only of one that is not, and lists every -git package once.
THEOREM FollowsTheFile ==
  ASSUME SortedSystems
  PROVE  Spec => []ReportFollowsRecord
<1>1. Init => Following
  BY DEF Init, SharedInit, Following, SortedFile
<1>2. SharedType /\ WalkType /\ Following /\ [Next]_vars => Following'
  BY SortedSystems, FollowingStep
<1>3. WalkType /\ Following => ReportFollowsRecord
  <2> SUFFICES ASSUME WalkType, Following, SortedFile
               PROVE  /\ Agrees
                      /\ walk = "dead" => Missing
                      /\ walk = "done" =>
                           \A n \in GitNames(system) :
                             Cardinality({m \in DOMAIN shown : shown[m].name = n}) = 1
    BY DEF ReportFollowsRecord, SortedFile, Agrees, Missing
  <2>1. ASSUME walk = "done", NEW n \in GitNames(system)
        PROVE  Cardinality({m \in DOMAIN shown : shown[m].name = n}) = 1
    <3>1. PICK m \in 1 .. Len(system) : Git(m) /\ system[m].name = n
      <4>1. DOMAIN system = 1 .. Len(system)
        BY DEF WalkType
      <4> QED BY <4>1 DEF GitNames, Git
    <3>2. m < ri
      BY <2>1 DEF WalkType
    <3>3. Once(n)
      BY <2>1, <3>1, <3>2 DEF Following, Counted
    <3>4. PICK x \in DOMAIN shown : \A y \in DOMAIN shown : shown[y].name = n <=> y = x
      BY <3>3 DEF Once
    <3>5. {y \in DOMAIN shown : shown[y].name = n} = {x}
      BY <3>4
    <3> QED BY <3>5, FS_Singleton
  <2> QED BY <2>1 DEF Following
<1> QED BY <1>1, <1>2, <1>3, TypeInvariant, PTL DEF Spec
=============================================================================
