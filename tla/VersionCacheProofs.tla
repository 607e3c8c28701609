------------------------- MODULE VersionCacheProofs -------------------------
(***************************************************************************)
(* versions.txt for all names, versions, lists and numbers of faults: the  *)
(* loops merge as ZipMerge does, the file stays sorted through interrupted *)
(* writes, and it implements VersionStore.                                 *)
(***************************************************************************)
EXTENDS VersionCache, VersionLinesProofs

\* The lines that the parser takes, and those of a fetched version.
Good == {l \in Lines : l.space}
Fresh == [name : Names, ver : Vers, space : {TRUE}]

\* Only the last line of the file can be damaged; no list in memory has one.
Typed ==
  /\ TypeOK
  /\ old \in Seq(Good) /\ new \in Seq(Fresh) /\ dest \in Seq(Good)
  /\ \A k \in 1 .. Len(file) - 1 : file[k].space

\* The loops are on their way to ZipMerge of the file's lines and the new ones.
Merging ==
  /\ phase # "idle" => old = IF unread THEN <<>> ELSE Loaded(file)
  /\ phase = "merge" => ~unread /\ ZipMerge(old, new) = dest \o ZipFrom(old, new)[<<i, j>>]
  /\ phase = "save" => dest = ZipMerge(old, new)

SortedInputs == \A s \in Inputs : StrictlySorted(s)
InOrder == SortedInputs => Ordered(file) /\ Ordered(old) /\ Ordered(new)

Kept == Typed /\ Merging /\ InOrder

-----------------------------------------------------------------------------
\* The sets of lines, and that their names can be compared.
LEMMA LineSets ==
  /\ Good \subseteq Lines /\ Fresh \subseteq Good
  /\ Seq(Good) \subseteq Seq(Lines) /\ Seq(Fresh) \subseteq Seq(Good)
  /\ \A l \in Lines : l.name \in Int
<1>1. Good \subseteq Lines /\ Fresh \subseteq Good
  BY DEF Good, Fresh, Lines
<1>2. \A l \in Lines : l.name \in Int
  BY NamesAssumption DEF Lines
<1> QED BY <1>1, <1>2, SeqMonotonic

\* The parser reads the valid lines of a file whose last line may be damaged.
LEMMA LoadedLines ==
  ASSUME NEW f \in Seq(Lines), \A k \in 1 .. Len(f) - 1 : f[k].space
  PROVE  /\ Loaded(f) \in Seq(Good) /\ Len(Loaded(f)) <= Len(f)
         /\ Valid(f) = 1 .. Len(Loaded(f))
         /\ \A k \in 1 .. Len(Loaded(f)) : Loaded(f)[k] = f[k]
<1>0. Len(f) \in Nat /\ DOMAIN f = 1 .. Len(f) /\ \A k \in 1 .. Len(f) : f[k] \in Lines
  OBVIOUS
<1>1. PICK n \in 0 .. Len(f) : Valid(f) = 1 .. n
  <2>1. CASE f = <<>>
    BY <2>1 DEF Valid
  <2>2. CASE f # <<>> /\ f[Len(f)].space
    BY <1>0, <2>2 DEF Valid
  <2>3. CASE f # <<>> /\ ~f[Len(f)].space
    <3>1. Len(f) - 1 \in 0 .. Len(f)
      BY <1>0, <2>3
    <3>2. Valid(f) = 1 .. (Len(f) - 1)
      BY <1>0, <2>3 DEF Valid
    <3> QED BY <3>1, <3>2
  <2> QED BY <2>1, <2>2, <2>3
<1>2. Cardinality(Valid(f)) = n
  BY <1>0, <1>1, FS_Interval
<1>3. \A k \in 1 .. n : f[k] \in Good
  BY <1>0, <1>1 DEF Valid, Good
<1>4. Loaded(f) = SubSeq(f, 1, n)
  BY <1>2 DEF Loaded
<1>5. /\ SubSeq(f, 1, n) \in Seq(Good) /\ Len(SubSeq(f, 1, n)) = n
      /\ \A k \in 1 .. n : SubSeq(f, 1, n)[k] = f[k]
  <2>1. n \in Int /\ 1 \in Int /\ n - 1 + 1 = n /\ \A k \in 1 .. n : 1 + k - 1 = k
    BY <1>0
  <2>2. SubSeq(f, 1, n) \in Seq(Good)
    BY <2>1, <1>3, SubSeqProperties
  <2>3. Len(SubSeq(f, 1, n)) = n /\ \A k \in 1 .. n : SubSeq(f, 1, n)[k] = f[k]
    BY <1>0, <1>1
  <2> QED BY <2>2, <2>3
<1> QED BY <1>0, <1>1, <1>4, <1>5

\* A line put in front of what follows is appended to what is before.
LEMMA PutFirst ==
  ASSUME NEW S, NEW s \in Seq(S), NEW l \in S, NEW r \in Seq(S)
  PROVE  s \o Put(l, r) = Append(s, l) \o r
<1>1. <<l>> \in Seq(S)
  OBVIOUS
<1>2. (s \o <<l>>) \o r = s \o (<<l>> \o r)
  BY ONLY <1>1, s \in Seq(S), r \in Seq(S), ConcatAssociative
<1>3. Append(s, l) = s \o <<l>>
  BY AppendIsConcat
<1> QED BY <1>2, <1>3 DEF Put

\* The fetched lines are fresh, and as sorted as their names.
LEMMA FetchedLines ==
  ASSUME NEW names \in Inputs, NEW items \in Fetches(names, Vers)
  PROVE  items \in Seq(Fresh) /\ (StrictlySorted(names) => Ordered(items))
<1>1. PICK v \in [DOMAIN names -> Vers] : items = [k \in DOMAIN names |-> Line(names[k], v[k])]
  BY DEF Fetches
<1>2. /\ names \in Seq(Names) /\ Len(names) \in Nat /\ DOMAIN names = 1 .. Len(names)
      /\ \A k \in 1 .. Len(names) : names[k] \in Names
  BY InputsAssumption
<1>3. /\ DOMAIN items = 1 .. Len(names)
      /\ \A k \in 1 .. Len(names) : items[k] \in Fresh /\ items[k].name = names[k]
  BY <1>1, <1>2 DEF Line, Fresh
<1>4. items \in [1 .. Len(names) -> Fresh]
  BY <1>1, <1>2, <1>3
<1>5. items \in Seq(Fresh)
  BY <1>2, <1>4, SeqDef
<1> QED BY <1>2, <1>3, <1>5 DEF StrictlySorted, Ordered

\* What an interrupted write leaves of a list: its front, and a damaged line.
Front(f, s, k) ==
  /\ Len(f) \in {k, k + 1} /\ \A m \in 1 .. k : f[m] = s[m]
  /\ Len(f) = k + 1 => /\ f[k + 1].name = s[k + 1].name
                       /\ f[k + 1].space => f[k + 1] = [s[k + 1] EXCEPT !.ver = Torn]


\* What a save writes is such a front.
LEMMA WrittenLines ==
  ASSUME NEW s \in Seq(Good), NEW f \in Written(s)
  PROVE  f \in Seq(Lines) /\ \E k \in 0 .. Len(s) - 1 : Front(f, s, k)
<1>1. PICK k \in 0 .. Len(s) - 1 :
        \/ f = SubSeq(s, 1, k)
        \/ f = Append(SubSeq(s, 1, k), [s[k + 1] EXCEPT !.ver = Torn])
        \/ f = Append(SubSeq(s, 1, k), [s[k + 1] EXCEPT !.space = FALSE])
  BY DEF Written
<1> DEFINE p == SubSeq(s, 1, k)
<1>2. s \in Seq(Lines) /\ Len(s) \in Nat /\ s[k + 1] \in Good /\ s[k + 1] \in Lines
  BY LineSets
<1>3. p \in Seq(Lines) /\ Len(p) = k /\ \A m \in 1 .. k : p[m] = s[m]
  BY <1>2
<1> HIDE DEF p
<1>4. /\ [s[k + 1] EXCEPT !.ver = Torn] \in Lines
      /\ [s[k + 1] EXCEPT !.ver = Torn].name = s[k + 1].name
      /\ [s[k + 1] EXCEPT !.space = FALSE] \in Lines
      /\ [s[k + 1] EXCEPT !.space = FALSE].name = s[k + 1].name
      /\ ~[s[k + 1] EXCEPT !.space = FALSE].space
  BY <1>2 DEF Lines
<1>5. ASSUME NEW l \in Lines
      PROVE  /\ Append(p, l) \in Seq(Lines) /\ Len(Append(p, l)) = k + 1
             /\ Append(p, l)[k + 1] = l /\ \A m \in 1 .. k : Append(p, l)[m] = s[m]
  BY <1>3, AppendProperties
<1>6. CASE f = p
  BY <1>3, <1>6 DEF Front
<1>7. CASE f = Append(p, [s[k + 1] EXCEPT !.ver = Torn])
  BY <1>4, <1>5, <1>7 DEF Front
<1>8. CASE f = Append(p, [s[k + 1] EXCEPT !.space = FALSE])
  BY <1>4, <1>5, <1>8 DEF Front
<1> QED BY <1>1, <1>6, <1>7, <1>8 DEF p

\* A front has the order of its list, and only its last line is damaged.
LEMMA FrontOrdered ==
  ASSUME NEW s \in Seq(Good), NEW f \in Seq(Lines), NEW k \in 0 .. Len(s) - 1, Front(f, s, k)
  PROVE  (\A m \in 1 .. Len(f) - 1 : f[m].space) /\ (Ordered(s) => Ordered(f))
<1>1. /\ Len(s) \in Nat /\ DOMAIN s = 1 .. Len(s) /\ DOMAIN f = 1 .. Len(f)
      /\ \A m \in 1 .. Len(s) : s[m].space
  BY DEF Good
<1>2. \A m \in 1 .. Len(f) : m \in 1 .. Len(s) /\ f[m].name = s[m].name
  <2> TAKE m \in 1 .. Len(f)
  <2>1. m \in 1 .. k \/ (m = k + 1 /\ Len(f) = k + 1)
    BY DEF Front
  <2> QED BY <1>1, <2>1 DEF Front
<1>3. \A m \in 1 .. Len(f) - 1 : m \in 1 .. k
  BY DEF Front
<1>4. \A m \in 1 .. Len(f) - 1 : f[m].space
  BY <1>1, <1>2, <1>3 DEF Front
<1>5. Ordered(s) => Ordered(f)
  BY ONLY <1>1, <1>2 DEF Ordered
<1> QED BY <1>4, <1>5

-----------------------------------------------------------------------------
\* Nothing was fetched, and there is no file.
LEMMA InitKept == Init => Kept
<1> SUFFICES ASSUME Init PROVE Kept
  OBVIOUS
<1>1. <<>> \in Seq(Lines) /\ <<>> \in Seq(Good) /\ <<>> \in Seq(Fresh)
  OBVIOUS
<1>2. Ordered(<<>>)
  BY DEF Ordered
<1>3. 1 \in 1 .. Len(<<>>) + 1
  OBVIOUS
<1>b. unread \in BOOLEAN
  BY DEF Init
<1>4. TypeOK
  <2>1. 0 \in 0 .. MaxCommands /\ 0 \in 0 .. MaxFaults
    BY BoundsAssumption
  <2> QED BY <1>1, <1>3, <1>b, <2>1 DEF Init, TypeOK
<1>5. Typed
  BY <1>1, <1>4 DEF Init, Typed
<1> QED BY <1>2, <1>5 DEF Init, Kept, Merging, InOrder

\* A command begins: the first line of the merge is that of ZipMerge.
LEMMA LoadKept ==
  ASSUME Kept, NEW names \in Inputs, NEW items \in Fetches(names, Vers),
         Load(items) \/ LoadUnread(items)
  PROVE  Kept'
<1>1. items \in Seq(Fresh) /\ items \in Seq(Good) /\ (SortedInputs => Ordered(items))
  BY FetchedLines, LineSets DEF SortedInputs
<1>2. file' = file /\ file \in Seq(Lines) /\ new' = items /\ i' = 1 /\ j' = 1
  BY DEF Kept, Typed, TypeOK, Load, LoadUnread
<1>3. /\ Loaded(file) \in Seq(Good)
      /\ Valid(file) = 1 .. Len(Loaded(file)) /\ Len(Loaded(file)) <= Len(file)
      /\ \A k \in 1 .. Len(Loaded(file)) : Loaded(file)[k] = file[k]
  BY LoadedLines DEF Kept, Typed, TypeOK
<1>4. Ordered(file) => Ordered(Loaded(file))
  <2>1. DOMAIN file = 1 .. Len(file) /\ DOMAIN Loaded(file) = 1 .. Len(Loaded(file))
    BY <1>2, <1>3
  <2> QED BY ONLY <1>2, <1>3, <2>1, Len(file) \in Nat DEF Ordered
<1>5. Ordered(<<>>) /\ <<>> \in Seq(Good)
  BY DEF Ordered
<1>6. ZipMerge(<<>>, items) = items
  <2>1. <<>> \in Seq(Good) /\ 1 \in 1 .. Len(<<>>) + 1 /\ 1 \in 1 .. Len(items) + 1 /\ 1 > Len(<<>>)
    BY <1>1
  <2>2. Unfolds(<<>>, items, 1, 1)
    BY <1>1, <2>1, ZipAt
  <2>3. SubSeq(items, 1, Len(items)) = items
    BY <1>1, SubSeqFull
  <2> QED BY <2>1, <2>2, <2>3 DEF Unfolds, Remainder, ZipMerge
<1>7. ZipMerge(Loaded(file), items) = <<>> \o ZipFrom(Loaded(file), items)[<<1, 1>>]
  <2>1. ZipMerge(Loaded(file), items) \in Seq(Good)
    BY <1>1, <1>3, LineSets, MergeOfLists
  <2> QED BY <2>1, ConcatEmptySeq DEF ZipMerge
<1>8. CASE Load(items)
  <2>1. old' = Loaded(file) /\ ~unread'
    BY <1>8 DEF Load
  <2>2. phase' = "save" => file = <<>> /\ dest' = items
    BY <1>8 DEF Load
  <2>3. phase' = "merge" => dest' = <<>>
    BY <1>8 DEF Load
  <2>4. phase' \in {"save", "merge"}
    BY <1>8 DEF Load
  <2>5. file = <<>> => Loaded(file) = <<>>
    BY <1>3
  <2>6. Merging'
    BY <1>2, <1>6, <1>7, <2>1, <2>2, <2>3, <2>4, <2>5 DEF Merging
  <2>7. dest' \in Seq(Good)
    BY <1>1, <1>5, <2>2, <2>3, <2>4
  <2>8. InOrder'
    BY <1>1, <1>2, <1>4, <2>1 DEF Kept, InOrder, SortedInputs
  <2>9. commands' \in 0 .. MaxCommands /\ faults' \in 0 .. MaxFaults
    <3>1. commands < MaxCommands /\ commands' = commands + 1 /\ faults' = faults
      BY <1>8 DEF Load
    <3> QED BY <3>1, BoundsAssumption DEF Kept, Typed, TypeOK
  <2>10. i' \in 1 .. Len(old') + 1 /\ j' \in 1 .. Len(new') + 1
    BY <1>1, <1>2, <1>3, <2>1
  <2>b. unread' \in BOOLEAN
    BY <1>8 DEF Load
  <2>l. old' \in Seq(Lines) /\ new' \in Seq(Lines) /\ dest' \in Seq(Lines) /\ file' \in Seq(Lines)
    BY <1>1, <1>2, <1>3, <2>1, <2>7, LineSets
  <2>11. TypeOK'
    BY <2>b, <2>l, <2>4, <2>9, <2>10 DEF TypeOK
  <2> QED BY <1>1, <1>2, <1>3, <2>1, <2>6, <2>7, <2>8, <2>11 DEF Kept, Typed
<1>9. CASE LoadUnread(items)
  <2>1. old' = <<>> /\ unread' = TRUE /\ phase' = "save" /\ dest' = items
    BY <1>9 DEF LoadUnread
  <2>2. Merging'
    BY <1>2, <1>6, <2>1 DEF Merging
  <2>3. InOrder'
    BY <1>1, <1>2, <1>5, <2>1 DEF Kept, InOrder, SortedInputs
  <2>4. commands' \in 0 .. MaxCommands /\ faults' \in 0 .. MaxFaults
    BY <1>9, BoundsAssumption DEF Kept, Typed, TypeOK, LoadUnread
  <2>5. i' \in 1 .. Len(old') + 1 /\ j' \in 1 .. Len(new') + 1
    BY <1>1, <1>2, <1>5, <2>1
  <2>6. TypeOK'
    BY <1>1, <1>2, <1>5, <2>1, <2>4, <2>5, LineSets DEF TypeOK
  <2> QED BY <1>1, <1>2, <1>5, <2>1, <2>2, <2>3, <2>6 DEF Kept, Typed
<1> QED BY <1>8, <1>9

\* A step of the loops takes the line that ZipMerge takes.
LEMMA LoopKept ==
  ASSUME Kept, TakeOld \/ Replace \/ TakeNew
  PROVE  Kept'
<1>1. /\ phase = "merge" /\ phase' = "merge" /\ UNCHANGED <<file, old, new, unread, commands, faults>>
  BY DEF TakeOld, Replace, TakeNew, lists
<1>2. /\ old \in Seq(Good) /\ new \in Seq(Good) /\ dest \in Seq(Good) /\ Len(old) \in Nat
      /\ Len(new) \in Nat /\ i \in 1 .. Len(old) + 1 /\ j \in 1 .. Len(new) + 1
      /\ \A l \in Good : l.name \in Int
  BY LineSets DEF Kept, Typed, TypeOK
<1> DEFINE R(a, b) == ZipFrom(old, new)[<<a, b>>]
           Taken(l) == /\ l \in Good /\ dest' = Append(dest, l) /\ R(i, j) = Put(l, R(i', j'))
                       /\ i' \in 1 .. Len(old) + 1 /\ j' \in 1 .. Len(new) + 1
<1>r. Steps(old, new, i, j)
  BY <1>2, ZipStep
<1>3. \E l : Taken(l)
  <2>1. CASE TakeOld
    <3>1. i \in 1 .. Len(old) /\ old[i] \in Good /\ i' = i + 1 /\ j' = j /\ dest' = Append(dest, old[i])
      BY <1>2, <2>1 DEF TakeOld
    <3>2. R(i, j) = Put(old[i], R(i + 1, j))
      BY <1>r, <2>1 DEF TakeOld, Steps
    <3>3. Taken(old[i])
      BY <1>2, <3>1, <3>2
    <3> QED BY <3>3
  <2>2. CASE Replace
    <3>1. /\ i \in 1 .. Len(old) /\ j \in 1 .. Len(new) /\ new[j] \in Good
          /\ i' = i + 1 /\ j' = j + 1 /\ dest' = Append(dest, new[j])
      BY <1>2, <2>2 DEF Replace
    <3>2. R(i, j) = Put(new[j], R(i + 1, j + 1))
      BY <1>r, <2>2 DEF Replace, Steps
    <3>3. Taken(new[j])
      BY <1>2, <3>1, <3>2
    <3> QED BY <3>3
  <2>3. CASE TakeNew
    <3>1. j \in 1 .. Len(new) /\ new[j] \in Good /\ i' = i /\ j' = j + 1 /\ dest' = Append(dest, new[j])
      BY <1>2, <2>3 DEF TakeNew
    <3>2. R(i, j) = Put(new[j], R(i, j + 1))
      BY <1>r, <2>3 DEF TakeNew, Steps
    <3>3. Taken(new[j])
      BY <1>2, <3>1, <3>2
    <3> QED BY <3>3
  <2> QED BY <2>1, <2>2, <2>3
<1>4. PICK l : Taken(l)
  BY <1>3
<1>5. dest' \in Seq(Good)
  BY <1>2, <1>4
<1>6. dest \o R(i, j) = dest' \o R(i', j')
  <2>1. R(i', j') \in Seq(Good)
    BY <1>2, <1>4, RightFrom DEF Right
  <2> DEFINE r == R(i', j')
  <2>2. r \in Seq(Good) /\ R(i, j) = Put(l, r) /\ dest' = Append(dest, l) /\ l \in Good
    BY <1>4, <2>1
  <2>4. dest \in Seq(Good)
    BY <1>2
  <2> HIDE DEF r, R
  <2>3. dest \o Put(l, r) = Append(dest, l) \o r
    BY ONLY <2>2, <2>4, PutFirst
  <2> QED BY <2>2, <2>3 DEF r
<1>7. Merging'
  <2>1. ZipMerge(old, new) = dest' \o R(i', j')
    BY <1>1, <1>6 DEF Kept, Merging
  <2> QED BY <1>1, <2>1 DEF Kept, Merging
<1>8. TypeOK'
  BY <1>1, <1>4, <1>5, LineSets DEF Kept, Typed, TypeOK
<1>9. Typed'
  BY <1>1, <1>5, <1>8 DEF Kept, Typed
<1>10. InOrder'
  BY <1>1 DEF Kept, InOrder, SortedInputs
<1> QED BY <1>7, <1>9, <1>10 DEF Kept

\* What is saved is the merge of the lists, or the front of it.
LEMMA FileKept ==
  ASSUME Kept, EndMerge \/ Save \/ Fail \/ Delete
  PROVE  Kept'
<1>1. UNCHANGED <<i, j, dest, old, new, unread, commands>>
  BY DEF EndMerge, Save, Fail, Delete, lists
<1>2. faults' \in 0 .. MaxFaults /\ phase' \in {"idle", "save"}
  BY BoundsAssumption DEF Kept, Typed, TypeOK, EndMerge, Save, Fail, Delete
<1>3. Merging'
  <2>1. CASE EndMerge
    <3>1. UNCHANGED file /\ i > Len(old) /\ j > Len(new) /\ phase = "merge"
      BY <2>1 DEF EndMerge
    <3>2. ZipFrom(old, new)[<<i, j>>] = <<>>
      <4>1. Steps(old, new, i, j)
        BY LineSets, ZipStep DEF Kept, Typed, TypeOK
      <4> QED BY <3>1, <4>1 DEF Steps
    <3>3. dest \o <<>> = dest
      BY ConcatEmptySeq DEF Kept, Typed
    <3>4. ZipMerge(old, new) = dest
      BY <3>1, <3>2, <3>3 DEF Kept, Merging
    <3> QED BY <1>1, <1>2, <3>1, <3>4 DEF Kept, Merging
  <2>2. CASE Save \/ Fail \/ Delete
    <3>1. phase' = "idle"
      BY <2>2 DEF Save, Fail, Delete
    <3> QED BY <3>1 DEF Merging
  <2> QED BY <2>1, <2>2
<1>4. /\ file' \in Seq(Lines) /\ (\A k \in 1 .. Len(file') - 1 : file'[k].space)
      /\ SortedInputs => Ordered(file')
  <2>1. ASSUME phase = "save"
        PROVE  dest \in Seq(Lines) /\ (SortedInputs => Ordered(dest))
    <3>1. Zipped(dest, old, new, 1, 1)
      BY <2>1, LineSets, MergeOfLists DEF Kept, Typed, Merging
    <3> QED BY <3>1, LineSets DEF Kept, Typed, Zipped, InOrder
  <2>2. CASE file' = file
    BY <2>2 DEF Kept, Typed, TypeOK, InOrder
  <2>3. CASE Save
    <3>1. file' = dest /\ phase = "save" /\ dest \in Seq(Good)
      BY <2>3 DEF Save, Kept, Typed
    <3>2. \A k \in 1 .. Len(dest) - 1 : dest[k].space
      BY <3>1 DEF Good
    <3> QED BY <2>1, <3>1, <3>2
  <2>4. CASE phase = "save" /\ file' \in Written(dest)
    <3>1. dest \in Seq(Good)
      BY DEF Kept, Typed
    <3>2. PICK k \in 0 .. Len(dest) - 1 : file' \in Seq(Lines) /\ Front(file', dest, k)
      BY <2>4, <3>1, WrittenLines
    <3>3. (\A m \in 1 .. Len(file') - 1 : file'[m].space) /\ (Ordered(dest) => Ordered(file'))
      BY <3>1, <3>2, FrontOrdered
    <3> QED BY <2>1, <2>4, <3>2, <3>3
  <2>5. CASE Delete
    BY <2>5 DEF Delete, Ordered
  <2> QED BY <2>2, <2>3, <2>4, <2>5 DEF EndMerge, Fail
<1>5. TypeOK'
  BY <1>1, <1>2, <1>4 DEF Kept, Typed, TypeOK
<1> QED BY <1>1, <1>3, <1>4, <1>5 DEF Kept, Typed, InOrder, SortedInputs

\* For all constants: the loops merge, and the file is as it was merged or cut.
THEOREM KeptInvariant == Spec => []Kept
<1>1. Kept /\ [Next]_vars => Kept'
  <2> SUFFICES ASSUME Kept, [Next]_vars PROVE Kept'
    OBVIOUS
  <2>1. CASE UNCHANGED vars
    BY <2>1 DEF vars, Kept, Typed, TypeOK, Merging, InOrder, SortedInputs
  <2>2. CASE LoadSome
    BY <2>2, LoadKept DEF LoadSome
  <2>3. CASE TakeOld \/ Replace \/ TakeNew
    BY <2>3, LoopKept
  <2>4. CASE EndMerge \/ Save \/ Fail \/ Delete
    BY <2>4, FileKept
  <2> QED BY <2>1, <2>2, <2>3, <2>4 DEF Next
<1> QED BY <1>1, InitKept, PTL DEF Spec

\* For all constants: the variables stay in their domains.
THEOREM TypeCorrect == Spec => []TypeOK
<1>1. Kept => TypeOK
  BY DEF Kept, Typed
<1> QED BY <1>1, KeptInvariant, PTL

\* For all lists: versions.txt stays sorted, whatever write was interrupted.
THEOREM FileSorted == Spec => []SortedOnDisk
<1>1. Kept => SortedOnDisk
  BY DEF Kept, InOrder, SortedInputs, SortedOnDisk
<1> QED BY <1>1, KeptInvariant, PTL

\* For all lists: a save has every fetched version and every loaded package.
THEOREM SaveForgetsNothing == Spec => []MergeKeepsAll
<1>1. Kept => MergeKeepsAll
  <2> SUFFICES ASSUME Kept, phase = "save" PROVE MergeKeepsAll
    BY DEF MergeKeepsAll
  <2>1. /\ old \in Seq(Good) /\ new \in Seq(Good) /\ dest \in Seq(Good) /\ dest = ZipMerge(old, new)
    BY LineSets DEF Kept, Typed, Merging
  <2>2. Zipped(dest, old, new, 1, 1)
    BY <2>1, LineSets, MergeOfLists
  <2>3. /\ DOMAIN dest = 1 .. Len(dest) /\ DOMAIN old = 1 .. Len(old) /\ DOMAIN new = 1 .. Len(new)
        /\ \A k \in 1 .. Len(dest) : dest[k].space
    BY <2>1 DEF Good
  <2>4. Valid(dest) = DOMAIN dest
    BY <2>3 DEF Valid
  <2>5. \A k \in DOMAIN new : new[k] \in {dest[m] : m \in DOMAIN dest}
    BY <2>2, <2>3 DEF Zipped, From
  <2>6. \A k \in DOMAIN old : old[k].name \in NamesIn(dest)
    <3> TAKE k \in DOMAIN old
    <3>1. old[k] \in From(dest, 1) \/ \E m \in From(dest, 1) : m.name = old[k].name
      BY <2>2, <2>3 DEF Zipped, From
    <3> QED BY <2>3, <3>1 DEF From, NamesIn
  <2> QED BY <2>1, <2>4, <2>5, <2>6 DEF MergeKeepsAll
<1> QED BY <1>1, KeptInvariant, PTL

-----------------------------------------------------------------------------
\* In a list with one line for a name, the version of a name is that of its line.
LEMMA VersionOf ==
  ASSUME NEW s \in Seq(Lines), Ordered(s), NEW n \in Names
  PROVE  /\ VersionIn(s, n) \in Vers \cup {Torn, NoVersion}
         /\ \A v \in Vers \cup {Torn} : VersionIn(s, n) = v <=> Line(n, v) \in From(s, 1)
<1>0. /\ DOMAIN s = 1 .. Len(s) /\ Len(s) \in Nat
      /\ \A k \in 1 .. Len(s) : s[k] \in Lines /\ s[k].name \in Int
  BY LineSets
<1>1. \A k \in Valid(s) : k \in 1 .. Len(s) /\ s[k] = Line(s[k].name, s[k].ver)
                          /\ s[k].ver \in Vers \cup {Torn}
  BY <1>0 DEF Valid, Lines, Line
<1>2. ASSUME NEW v, Line(n, v) \in From(s, 1)
      PROVE  \E k \in Valid(s) : s[k].name = n /\ s[k].ver = v
  <2>1. PICK k \in 1 .. Len(s) : s[k] = Line(n, v)
    BY <1>2 DEF From
  <2>2. s[k].space /\ s[k].name = n /\ s[k].ver = v
    BY <2>1 DEF Line
  <2> QED BY <1>0, <2>2 DEF Valid
<1>3. CASE \E k \in Valid(s) : s[k].name = n
  <2> DEFINE c == CHOOSE k \in Valid(s) : s[k].name = n
  <2>1. c \in Valid(s) /\ s[c].name = n
    BY <1>3
  <2>2. VersionIn(s, n) = s[c].ver
    BY <1>3 DEF VersionIn
  <2> HIDE DEF c
  <2>3. \A k \in Valid(s) : s[k].name = n => k = c
    <3> SUFFICES ASSUME NEW k \in Valid(s), s[k].name = n, k # c PROVE FALSE
      OBVIOUS
    <3>1. k < c \/ c < k
      BY <1>1, <2>1
    <3> QED BY <1>0, <1>1, <2>1, <3>1 DEF Ordered
  <2>4. Line(n, s[c].ver) \in From(s, 1)
    BY <1>1, <2>1 DEF From
  <2> QED BY <1>1, <1>2, <2>1, <2>2, <2>3, <2>4
<1>4. CASE ~ \E k \in Valid(s) : s[k].name = n
  <2>1. VersionIn(s, n) = NoVersion
    BY <1>4 DEF VersionIn
  <2> QED BY <1>2, <1>4, <2>1, VersAssumption
<1> QED BY <1>3, <1>4

\* Two lists with the same lines of a name have the same version of it.
LEMMA SameVersion ==
  ASSUME NEW s \in Seq(Lines), NEW t \in Seq(Lines), Ordered(s), Ordered(t), NEW n \in Names,
         \A v \in Vers \cup {Torn} : Line(n, v) \in From(s, 1) <=> Line(n, v) \in From(t, 1)
  PROVE  VersionIn(s, n) = VersionIn(t, n)
<1>1. /\ VersionIn(s, n) \in Vers \cup {Torn, NoVersion}
      /\ \A v \in Vers \cup {Torn} : VersionIn(s, n) = v <=> Line(n, v) \in From(s, 1)
  BY VersionOf
<1>2. /\ VersionIn(t, n) \in Vers \cup {Torn, NoVersion}
      /\ \A v \in Vers \cup {Torn} : VersionIn(t, n) = v <=> Line(n, v) \in From(t, 1)
  BY VersionOf
<1>3. CASE VersionIn(s, n) \in Vers \cup {Torn}
  BY <1>1, <1>2, <1>3
<1>4. CASE VersionIn(s, n) = NoVersion
  <2>1. VersionIn(t, n) \notin Vers \cup {Torn}
    BY <1>1, <1>2, <1>4, VersAssumption
  <2> QED BY <1>2, <1>4, <2>1
<1> QED BY <1>1, <1>3, <1>4

\* What is loaded of a file records what the file does.
LEMMA LoadedVersion ==
  ASSUME NEW f \in Seq(Lines), \A k \in 1 .. Len(f) - 1 : f[k].space, Ordered(f), NEW n \in Names
  PROVE  Ordered(Loaded(f)) /\ VersionIn(Loaded(f), n) = VersionIn(f, n)
<1>1. /\ Loaded(f) \in Seq(Good) /\ Valid(f) = 1 .. Len(Loaded(f)) /\ Len(Loaded(f)) <= Len(f)
      /\ \A k \in 1 .. Len(Loaded(f)) : Loaded(f)[k] = f[k]
  BY LoadedLines
<1>2. DOMAIN f = 1 .. Len(f) /\ DOMAIN Loaded(f) = 1 .. Len(Loaded(f)) /\ Len(f) \in Nat
  BY <1>1
<1>3. Ordered(Loaded(f))
  BY ONLY <1>1, <1>2, Ordered(f), Len(Loaded(f)) \in Nat DEF Ordered
<1>4. ASSUME NEW v PROVE Line(n, v) \in From(f, 1) <=> Line(n, v) \in From(Loaded(f), 1)
  <2>1. \A k \in 1 .. Len(f) : f[k] = Line(n, v) => k \in 1 .. Len(Loaded(f))
    BY <1>1, <1>2 DEF Valid, Line
  <2>2. Line(n, v) \in From(f, 1) => Line(n, v) \in From(Loaded(f), 1)
    BY <1>1, <2>1 DEF From
  <2>3. Line(n, v) \in From(Loaded(f), 1) => Line(n, v) \in From(f, 1)
    <3>1. \A k \in 1 .. Len(Loaded(f)) : k \in 1 .. Len(f)
      BY <1>1, <1>2
    <3> QED BY <1>1, <3>1 DEF From
  <2> QED BY <2>2, <2>3
<1>5. Loaded(f) \in Seq(Lines)
  BY <1>1, LineSets
<1> QED BY <1>3, <1>4, <1>5, SameVersion

\* The list that is saved has the fetched versions, and of the others the loaded.
LEMMA SavedVersion ==
  ASSUME Kept, SortedInputs, phase = "save", NEW n \in Names
  PROVE  /\ VersionIn(new, n) \in Vers \cup {NoVersion}
         /\ VersionIn(dest, n) = IF VersionIn(new, n) # NoVersion THEN VersionIn(new, n)
                                 ELSE IF unread THEN NoVersion ELSE VersionIn(file, n)
<1>1. /\ old \in Seq(Good) /\ new \in Seq(Fresh) /\ new \in Seq(Good) /\ dest \in Seq(Good)
      /\ old \in Seq(Lines) /\ new \in Seq(Lines) /\ dest \in Seq(Lines) /\ file \in Seq(Lines)
      /\ dest = ZipMerge(old, new) /\ Ordered(old) /\ Ordered(new)
      /\ old = IF unread THEN <<>> ELSE Loaded(file)
  BY LineSets DEF Kept, Typed, TypeOK, Merging, InOrder
<1>2. Zipped(dest, old, new, 1, 1) /\ Ordered(dest)
  BY <1>1, LineSets, MergeOfLists DEF Zipped
<1>3. /\ \A l \in From(new, 1) : l \in Fresh
      /\ \A l \in From(old, 1) : l \in Good
  BY <1>1 DEF From
<1>4. /\ VersionIn(new, n) \in Vers \cup {Torn, NoVersion}
      /\ \A v \in Vers \cup {Torn} : VersionIn(new, n) = v <=> Line(n, v) \in From(new, 1)
  BY <1>1, VersionOf
<1>5. /\ VersionIn(dest, n) \in Vers \cup {Torn, NoVersion}
      /\ \A v \in Vers \cup {Torn} : VersionIn(dest, n) = v <=> Line(n, v) \in From(dest, 1)
  BY <1>1, <1>2, VersionOf
<1>6. VersionIn(new, n) \in Vers \cup {NoVersion}
  <2>1. Line(n, Torn) \notin From(new, 1)
    BY <1>3, VersAssumption DEF Fresh, Line
  <2> QED BY <1>4, <2>1
<1>7. CASE VersionIn(new, n) # NoVersion
  <2>1. Line(n, VersionIn(new, n)) \in From(new, 1) /\ VersionIn(new, n) \in Vers
    BY <1>4, <1>6, <1>7
  <2>2. Line(n, VersionIn(new, n)) \in From(dest, 1)
    BY <1>2, <2>1 DEF Zipped
  <2> QED BY <1>5, <1>6, <1>7, <2>1, <2>2
<1>8. CASE VersionIn(new, n) = NoVersion
  <2>1. \A l \in From(new, 1) : l.name # n
    <3> SUFFICES ASSUME NEW l \in From(new, 1), l.name = n PROVE FALSE
      OBVIOUS
    <3>1. l = Line(n, l.ver) /\ l.ver \in Vers
      BY <1>3 DEF Fresh, Line
    <3> QED BY <1>4, <1>8, <3>1, VersAssumption
  <2>2. ASSUME NEW v PROVE Line(n, v) \in From(dest, 1) <=> Line(n, v) \in From(old, 1)
    <3>1. Line(n, v).name = n
      BY DEF Line
    <3> QED BY <1>2, <2>1, <3>1 DEF Zipped
  <2>3. VersionIn(dest, n) = VersionIn(old, n)
    BY <1>1, <1>2, <2>2, SameVersion
  <2>4. unread => VersionIn(old, n) = NoVersion
    BY <1>1 DEF VersionIn, Valid
  <2>5. ~unread => VersionIn(old, n) = VersionIn(file, n)
    BY <1>1, LoadedVersion DEF Kept, Typed, InOrder
  <2> QED BY <1>6, <1>8, <2>3, <2>4, <2>5
<1> QED BY <1>7, <1>8

\* An interrupted write loses versions, and can damage one.
LEMMA FrontVersion ==
  ASSUME NEW s \in Seq(Good), Ordered(s), NEW f \in Seq(Lines), NEW k \in 0 .. Len(s) - 1,
         Front(f, s, k)
  PROVE  \/ \A n \in Names : VersionIn(f, n) \in {VersionIn(s, n), NoVersion}
         \/ \E hit \in Names : \A n \in Names :
              VersionIn(f, n) \in {IF n = hit THEN Torn ELSE VersionIn(s, n), NoVersion}
<1>1. s \in Seq(Lines) /\ Ordered(f) /\ Len(s) \in Nat
  BY LineSets, FrontOrdered
<1>2. s[k + 1] \in Good /\ s[k + 1].name \in Names
  BY DEF Good, Lines
<1>3. ASSUME NEW n \in Names, VersionIn(f, n) # NoVersion
      PROVE  \/ VersionIn(f, n) = VersionIn(s, n)
             \/ /\ Len(f) = k + 1 /\ f[k + 1].space
                /\ n = s[k + 1].name /\ VersionIn(f, n) = Torn
  <2>1. PICK v \in Vers \cup {Torn} : VersionIn(f, n) = v /\ Line(n, v) \in From(f, 1)
    BY <1>1, <1>3, VersionOf
  <2>2. PICK m \in 1 .. Len(f) : f[m] = Line(n, v)
    BY <2>1 DEF From
  <2>3. m \in 1 .. k \/ (m = k + 1 /\ Len(f) = k + 1)
    BY DEF Front
  <2>4. CASE m \in 1 .. k
    <3>1. s[m] = Line(n, v) /\ m \in 1 .. Len(s)
      BY <1>1, <2>2, <2>4 DEF Front
    <3>2. Line(n, v) \in From(s, 1)
      BY <3>1 DEF From
    <3> QED BY <1>1, <2>1, <3>2, VersionOf
  <2>5. CASE m = k + 1 /\ Len(f) = k + 1
    <3>1. f[k + 1].space /\ f[k + 1].name = n /\ f[k + 1].ver = v
      BY <2>2, <2>5 DEF Line
    <3>2. f[k + 1].name = s[k + 1].name /\ f[k + 1] = [s[k + 1] EXCEPT !.ver = Torn]
      BY <2>5, <3>1 DEF Front
    <3>3. [s[k + 1] EXCEPT !.ver = Torn].ver = Torn
      BY <1>2 DEF Good, Lines
    <3> QED BY <2>1, <2>5, <3>1, <3>2, <3>3
  <2> QED BY <2>3, <2>4, <2>5
<1>4. CASE Len(f) = k + 1 /\ f[k + 1].space
  <2> DEFINE hit == s[k + 1].name
  <2>3. k + 1 \in 1 .. Len(f)
    BY <1>1, <1>4
  <2>4. f[k + 1] = [s[k + 1] EXCEPT !.ver = Torn]
    BY <1>4 DEF Front
  <2>5. [s[k + 1] EXCEPT !.ver = Torn] = Line(hit, Torn)
    <3> DEFINE l == [s[k + 1] EXCEPT !.ver = Torn]
    <3>1. l \in Good /\ l.name = hit /\ l.ver = Torn
      BY <1>2 DEF Good, Lines
    <3>2. \A g \in Good : g = Line(g.name, g.ver)
      BY DEF Good, Lines, Line
    <3>3. l = Line(hit, Torn)
      <4> HIDE DEF l, hit
      <4> QED BY <3>1, <3>2
    <3> QED BY <3>3
  <2>1. f[k + 1] = Line(hit, Torn) /\ k + 1 \in 1 .. Len(f)
    BY <2>3, <2>4, <2>5
  <2>2. VersionIn(f, hit) = Torn
    <3>1. Line(hit, Torn) \in From(f, 1)
      BY <2>1 DEF From
    <3> QED BY <1>1, <1>2, <3>1, VersionOf
  <2> QED BY <1>2, <1>3, <2>2
<1>5. CASE ~(Len(f) = k + 1 /\ f[k + 1].space)
  BY <1>3, <1>5
<1> QED BY <1>4, <1>5

\* The versions that a list records.
Recorded(s) == [n \in Names |-> VersionIn(s, n)]

\* Every step is one of VersionStore, or none.
LEMMA StoreStep ==
  ASSUME Kept, Kept', SortedInputs, [Next]_vars
  PROVE  [Store!Next]_(Store!vars)
<1> USE DEF Recorded
<1>1. CASE UNCHANGED vars
  BY <1>1 DEF vars, Store!vars
<1>2. ASSUME NEW s \in Seq(Fresh), Ordered(s) PROVE Recorded(s) \in Store!Versions
  <2>1. ASSUME NEW n \in Names PROVE VersionIn(s, n) \in Vers \cup {NoVersion}
    <3>1. s \in Seq(Lines) /\ \A l \in From(s, 1) : l \in Fresh
      BY LineSets DEF From
    <3>2. Line(n, Torn) \notin From(s, 1)
      BY <3>1, VersAssumption DEF Fresh, Line
    <3> QED BY <1>2, <3>1, <3>2, VersionOf
  <2> QED BY <2>1 DEF Store!Versions
<1>3. CASE LoadSome
  <2>1. file' = file /\ phase = "idle"
    BY <1>3 DEF LoadSome, Load, LoadUnread
  <2>2. Recorded(new') \in Store!Versions
    BY <1>2 DEF Kept, Typed, InOrder, SortedInputs
  <2>3. CASE \E names \in Inputs : \E items \in Fetches(names, Vers) : Load(items)
    <3>1. faults' = faults /\ ~unread'
      BY <2>3 DEF Load
    <3>2. Store!Fetch
      BY <2>1, <2>2, <3>1 DEF Store!Fetch
    <3> QED BY <3>2 DEF Store!Next
  <2>4. CASE \E names \in Inputs : \E items \in Fetches(names, Vers) : LoadUnread(items)
    <3>1. faults' = faults + 1 /\ unread' /\ phase' = "save"
      BY <2>4 DEF LoadUnread
    <3>2. Store!FetchBlindly
      BY <2>1, <2>2, <3>1 DEF Store!FetchBlindly
    <3> QED BY <3>2 DEF Store!Next
  <2> QED BY <1>3, <2>3, <2>4 DEF LoadSome
<1>4. CASE TakeOld \/ Replace \/ TakeNew
  BY <1>4 DEF TakeOld, Replace, TakeNew, lists, Store!vars
<1>5. CASE EndMerge
  BY <1>5 DEF EndMerge, lists, Store!vars, Kept, Merging
<1>6. CASE Save
  <2>1. file' = dest /\ phase = "save" /\ phase' = "idle" /\ UNCHANGED <<new, faults>>
    BY <1>6 DEF Save, lists
  <2>2. Recorded(dest) = IF unread THEN Recorded(new) ELSE Store!Updated
    BY <2>1, SavedVersion DEF Store!Updated
  <2>3. Store!Record
    BY <2>1, <2>2 DEF Store!Record
  <2> QED BY <2>3 DEF Store!Next
<1>7. CASE Fail
  <2>1. phase' = "idle" /\ faults' = faults + 1 /\ new' = new
    BY <1>7 DEF Fail, lists
  <2> DEFINE Results == {Recorded(file), Store!Updated}
                          \cup {[Store!Updated EXCEPT ![hit] = Torn] : hit \in Names}
  <2> SUFFICES ASSUME TRUE
               PROVE  \E lost \in SUBSET Names : \E r \in Results :
                          Recorded(file') = [n \in Names |-> IF n \in lost THEN NoVersion ELSE r[n]]
    BY <2>1 DEF Store!Mishap, Store!Next
  <2>2. CASE file' = file
    <3>1. {} \in SUBSET Names /\ Recorded(file') = [n \in Names |-> IF n \in {} THEN NoVersion ELSE Recorded(file)[n]]
      BY <2>2
    <3> QED BY <3>1
  <2>3. CASE phase = "save" /\ file' \in Written(dest)
    <3>1. dest \in Seq(Good) /\ dest \in Seq(Lines) /\ Ordered(dest)
      BY <2>3, LineSets, MergeOfLists DEF Kept, Typed, Merging, InOrder, Zipped
    <3>2. PICK k \in 0 .. Len(dest) - 1 : file' \in Seq(Lines) /\ Front(file', dest, k)
      BY <2>3, <3>1, WrittenLines
    <3> DEFINE lost == {n \in Names : VersionIn(file', n) = NoVersion}
    <3>3. ASSUME NEW n \in Names, VersionIn(dest, n) # NoVersion
          PROVE  VersionIn(dest, n) = Store!Updated[n]
      BY <2>3, <3>3, SavedVersion DEF Store!Updated
    <3>4. CASE \A n \in Names : VersionIn(file', n) \in {VersionIn(dest, n), NoVersion}
      <4>1. Recorded(file') = [n \in Names |-> IF n \in lost THEN NoVersion ELSE Store!Updated[n]]
        BY <3>3, <3>4
      <4> QED BY <4>1
    <3>5. CASE \E hit \in Names : \A n \in Names :
                 VersionIn(file', n) \in {IF n = hit THEN Torn ELSE VersionIn(dest, n), NoVersion}
      <4>1. PICK hit \in Names : \A n \in Names :
              VersionIn(file', n) \in {IF n = hit THEN Torn ELSE VersionIn(dest, n), NoVersion}
        BY <3>5
      <4> DEFINE r == [Store!Updated EXCEPT ![hit] = Torn]
      <4>2. \A n \in Names : r[n] = IF n = hit THEN Torn ELSE Store!Updated[n]
        BY DEF Store!Updated
      <4>3. r \in Results /\ lost \in SUBSET Names
        OBVIOUS
      <4> HIDE DEF r, Results
      <4>4. Recorded(file') = [n \in Names |-> IF n \in lost THEN NoVersion ELSE r[n]]
        BY <3>3, <4>1, <4>2
      <4> HIDE DEF lost
      <4> QED BY <4>3, <4>4
    <3>6. \/ \A n \in Names : VersionIn(file', n) \in {VersionIn(dest, n), NoVersion}
          \/ \E hit \in Names : \A n \in Names :
               VersionIn(file', n) \in {IF n = hit THEN Torn ELSE VersionIn(dest, n), NoVersion}
      BY ONLY <3>1, <3>2, FrontVersion
    <3> QED BY <3>4, <3>5, <3>6
  <2> QED BY <1>7, <2>2, <2>3 DEF Fail
<1>8. CASE Delete
  <2>1. phase = "idle" /\ file' = <<>> /\ UNCHANGED <<phase, new, unread, faults>>
    BY <1>8 DEF Delete, lists
  <2>2. Recorded(<<>>) = Store!Nothing
    BY DEF VersionIn, Valid, Store!Nothing
  <2>3. Store!Forget
    BY <2>1, <2>2 DEF Store!Forget
  <2> QED BY <2>3 DEF Store!Next
<1> QED BY <1>1, <1>3, <1>4, <1>5, <1>6, <1>7, <1>8 DEF Next

\* For all constants with sorted inputs: versions.txt is the record of the last
\* fetched versions that VersionStore describes.
THEOREM ImplementsStore ==
  ASSUME SortedInputs
  PROVE  Spec => RecordsLastFetched
<1>1. Init => Store!Init
  BY DEF Init, Store!Init, Store!Nothing, VersionIn, Valid
<1>2. Kept /\ Kept' /\ [Next]_vars => [Store!Next]_(Store!vars)
  BY StoreStep
<1> QED BY <1>1, <1>2, KeptInvariant, PTL DEF Spec, RecordsLastFetched, Store!Spec
=============================================================================
