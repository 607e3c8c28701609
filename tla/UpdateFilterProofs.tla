------------------------- MODULE UpdateFilterProofs -------------------------
(***************************************************************************)
(* The walk of filter_pkg_updates() over lists of any length: its loop     *)
(* invariants, and what they give at the end of a walk.  Then the parsers  *)
(* of arg_commands.c over command lines of any length.                     *)
(***************************************************************************)
EXTENDS CommandLine, SequenceTheorems, FiniteSetTheorems, WellFoundedInduction, TLAPS

\* The inputs keep the order pacman and qsort() gave them.
InputsSorted == StrictlySorted(namelist) /\ Sorted(ignore)

\* Every name the cursor has passed was excluded, unwanted or kept.
PassedAccounted ==
  \A k \in 1 .. i - 1 : \/ namelist[k] \in Elements(ignore)
                        \/ ~Wanted(namelist[k])
                        \/ namelist[k] \in Elements(kept)

\* Every kept name was passed and is wanted.
KeptPassed ==
  \A k \in 1 .. Len(kept) : /\ \E m \in 1 .. i - 1 : kept[k] = namelist[m]
                            /\ Wanted(kept[k])

\* The two cursors split both lists at the same place, when the excluded
\* names are distinct and installed.
InStep ==
  StrictlySorted(ignore) /\ Elements(ignore) \subseteq Elements(namelist) =>
    /\ \A k \in 1 .. i - 1, m \in j .. Len(ignore) : namelist[k] < ignore[m]
    /\ \A k \in i .. Len(namelist), m \in 1 .. j - 1 : ignore[m] < namelist[k]

IInv == /\ TypeOK /\ InputsSorted /\ PassedAccounted
        /\ KeptPassed /\ StrictlySorted(kept)
        /\ InStep /\ ExactWhenInstalled

-----------------------------------------------------------------------------
\* A list of the model is a sequence of names.
LEMMA ListsAreSequences ==
  ASSUME NEW n \in Nat, NEW s \in Lists(n)
  PROVE  s \in Seq(Names)
BY DEF Lists

\* Both cursors stay in range, whichever way the exclude cursor jumps.
LEMMA CatchUpInRange ==
  ASSUME TypeOK, Walking
  PROVE  CatchUp(namelist[i]) \in j .. Len(ignore) + 1
BY DEF TypeOK, Walking, CatchUp

\* filter_pkg_updates() keeps its cursors inside their lists and its outputs
\* well formed: the initial states are such states.
LEMMA InitIInv == Init => IInv
<1> SUFFICES ASSUME Init PROVE IInv
  OBVIOUS
<1>1. namelist \in Seq(Names) /\ ignore \in Seq(Names)
  BY ListsAreSequences, BoundsAssumption DEF Init
<1>2. TypeOK
  <2>1. node \in [Names -> Nodes]
    BY NodeKindsAssumption DEF Init
  <2>2. pass \in {"count", "fill", "done", "summary"}
    BY DEF Init
  <2>3. i \in 1 .. Len(namelist) + 1 /\ j \in 1 .. Len(ignore) + 1
    BY <1>1 DEF Init
  <2> QED BY <1>1, <2>1, <2>2, <2>3 DEF Init, TypeOK
<1>3. InputsSorted
  BY DEF Init, InputsSorted
<1>4. PassedAccounted /\ KeptPassed /\ StrictlySorted(kept)
  BY DEF Init, PassedAccounted, KeptPassed, StrictlySorted
<1>5. InStep
  BY DEF Init, InStep
<1>6. ExactWhenInstalled
  BY DEF Init, ExactWhenInstalled, Elements
<1> QED BY <1>2, <1>3, <1>4, <1>5, <1>6 DEF IInv

-----------------------------------------------------------------------------
\* Names are integers, and the cursors are places of their lists.
LEMMA Typing ==
  ASSUME TypeOK
  PROVE  /\ namelist \in Seq(Int) /\ ignore \in Seq(Int) /\ kept \in Seq(Int)
         /\ i \in Nat \ {0} /\ j \in Nat \ {0}
         /\ i <= Len(namelist) + 1 /\ j <= Len(ignore) + 1
<1>1. ASSUME NEW s \in Seq(Names) PROVE s \in Seq(Int)
  BY SeqMonotonic, NamesAssumption
<1>2. /\ namelist \in Seq(Int) /\ ignore \in Seq(Int) /\ kept \in Seq(Int)
  BY <1>1 DEF TypeOK
<1>3. /\ i \in Nat \ {0} /\ j \in Nat \ {0}
      /\ i <= Len(namelist) + 1 /\ j <= Len(ignore) + 1
  BY <1>2 DEF TypeOK
<1> QED BY <1>2, <1>3

\* Being an element of a list, by position.
LEMMA ElementAt ==
  ASSUME NEW s \in Seq(Int), NEW x
  PROVE  x \in Elements(s) <=> \E k \in 1 .. Len(s) : x = s[k]
BY DEF Elements

\* The order of a strictly sorted list, by position.
LEMMA SortedAt ==
  ASSUME NEW s \in Seq(Int), StrictlySorted(s),
         NEW a \in 1 .. Len(s), NEW b \in 1 .. Len(s)
  PROVE  (a < b => s[a] < s[b]) /\ (a <= b => s[a] <= s[b])
BY DEF StrictlySorted

\* An excluded name moves both cursors of filter_pkg_updates() by one: the
\* next excluded name is larger, so the two lists stay split at one place.
LEMMA SkipExcludedIInv == IInv /\ SkipExcluded => IInv'
<1> SUFFICES ASSUME IInv, SkipExcluded PROVE IInv'
  OBVIOUS
<1>t. /\ namelist \in Seq(Int) /\ ignore \in Seq(Int) /\ kept \in Seq(Int)
      /\ i \in Nat \ {0} /\ j \in Nat \ {0}
      /\ i <= Len(namelist) + 1 /\ j <= Len(ignore) + 1
  BY Typing DEF IInv
<1>0. /\ Walking /\ Excluded /\ i' = i + 1 /\ j' = j + 1
      /\ UNCHANGED <<command, node, namelist, ignore, pass, kept, limit, out>>
  BY DEF SkipExcluded, inputs
<1>1. TypeOK'
  BY <1>0 DEF IInv, TypeOK, Walking, Excluded
<1>2. InputsSorted' /\ StrictlySorted(kept)' /\ ExactWhenInstalled'
  BY <1>0 DEF IInv, InputsSorted, ExactWhenInstalled, Elements, StrictlySorted,
              Sorted
<1>e. /\ Elements(ignore)' = Elements(ignore) /\ Elements(kept)' = Elements(kept)
      /\ Elements(namelist)' = Elements(namelist)
      /\ StrictlySorted(ignore)' <=> StrictlySorted(ignore)
      /\ \A n : Wanted(n)' <=> Wanted(n)
  BY <1>0 DEF Elements, StrictlySorted, Wanted
<1>3. PassedAccounted'
  <2> SUFFICES ASSUME NEW k \in 1 .. i
               PROVE  \/ namelist[k] \in Elements(ignore)
                      \/ ~Wanted(namelist[k])
                      \/ namelist[k] \in Elements(kept)
    BY <1>0, <1>t, <1>e DEF PassedAccounted
  <2>1. CASE k = i
    BY <2>1, <1>0, <1>t, ElementAt DEF IInv, Excluded
  <2>2. CASE k # i
    BY <2>2, <1>t DEF IInv, PassedAccounted
  <2> QED BY <2>1, <2>2
<1>4. KeptPassed'
  <2>1. ASSUME NEW k \in 1 .. Len(kept)
        PROVE  (\E m \in 1 .. i : kept[k] = namelist[m]) /\ Wanted(kept[k])
    <3>1. PICK m \in 1 .. i - 1 : kept[k] = namelist[m]
      BY DEF IInv, KeptPassed
    <3>2. m \in 1 .. i
      BY <1>t
    <3> QED BY <3>1, <3>2 DEF IInv, KeptPassed
  <2> QED BY <1>0, <1>t, <1>e, <2>1 DEF KeptPassed
<1>5. InStep'
  <2> SUFFICES ASSUME StrictlySorted(ignore),
                      Elements(ignore) \subseteq Elements(namelist)
               PROVE  /\ \A k \in 1 .. i, m \in j + 1 .. Len(ignore) :
                           namelist[k] < ignore[m]
                      /\ \A k \in i + 1 .. Len(namelist), m \in 1 .. j :
                           ignore[m] < namelist[k]
    BY <1>0, <1>t, <1>e DEF InStep
  <2>0. /\ \A k \in 1 .. i - 1, m \in j .. Len(ignore) : namelist[k] < ignore[m]
        /\ \A k \in i .. Len(namelist), m \in 1 .. j - 1 : ignore[m] < namelist[k]
    BY DEF IInv, InStep
  <2>1. ASSUME NEW k \in 1 .. i, NEW m \in j + 1 .. Len(ignore)
        PROVE  namelist[k] < ignore[m]
    <3>1. CASE k = i
      BY <3>1, <1>0, <1>t, SortedAt DEF IInv, Excluded
    <3>2. CASE k # i
      BY <3>2, <2>0, <1>t DEF IInv
    <3> QED BY <3>1, <3>2
  <2>2. ASSUME NEW k \in i + 1 .. Len(namelist), NEW m \in 1 .. j
        PROVE  ignore[m] < namelist[k]
    <3>1. CASE m = j
      BY <3>1, <1>0, <1>t, SortedAt DEF IInv, InputsSorted, Excluded, Walking
    <3>2. CASE m # j
      BY <3>2, <2>0, <1>t DEF IInv
    <3> QED BY <3>1, <3>2
  <2> QED BY <2>1, <2>2
<1> QED BY <1>1, <1>2, <1>3, <1>4, <1>5 DEF IInv

\* When the excluded names are distinct and installed, the next of them is
\* not behind the walk of filter_pkg_updates(): the cursor never runs away.
LEMMA NoRunaway ==
  ASSUME IInv, Walking, StrictlySorted(ignore),
         Elements(ignore) \subseteq Elements(namelist)
  PROVE  /\ CatchUp(namelist[i]) = j
         /\ j <= Len(ignore) => namelist[i] <= ignore[j]
<1>t. /\ namelist \in Seq(Int) /\ ignore \in Seq(Int) /\ kept \in Seq(Int)
      /\ i \in Nat \ {0} /\ j \in Nat \ {0}
      /\ i <= Len(namelist) + 1 /\ j <= Len(ignore) + 1
  BY Typing DEF IInv
<1>0. /\ \A k \in 1 .. i - 1, m \in j .. Len(ignore) : namelist[k] < ignore[m]
      /\ StrictlySorted(namelist) /\ i <= Len(namelist)
  BY DEF IInv, InStep, InputsSorted, Walking
<1>1. ASSUME j <= Len(ignore) PROVE namelist[i] <= ignore[j]
  <2>1. ignore[j] \in Elements(namelist)
    BY <1>1, <1>t, ElementAt DEF IInv
  <2>2. PICK p \in 1 .. Len(namelist) : ignore[j] = namelist[p]
    BY <2>1, <1>t, ElementAt DEF IInv
  <2>3. i <= p
    BY <1>0, <1>1, <2>2, <1>t DEF IInv
  <2> QED BY <1>0, <2>2, <2>3, <1>t, SortedAt DEF IInv
<1>2. CatchUp(namelist[i]) = j
  BY <1>0, <1>1, <1>t DEF CatchUp, IInv
<1> QED BY <1>1, <1>2

\* Passing a name that is not excluded keeps the lists split.
LEMMA PassNotExcluded ==
  ASSUME IInv, Walking, ~Excluded, i' = i + 1, j' = CatchUp(namelist[i]),
         UNCHANGED inputs
  PROVE  /\ InStep' /\ InputsSorted'
         /\ StrictlySorted(ignore) /\ Elements(ignore) \subseteq Elements(namelist)
              => namelist[i] \notin Elements(ignore)
<1>t. /\ namelist \in Seq(Int) /\ ignore \in Seq(Int) /\ kept \in Seq(Int)
      /\ i \in Nat \ {0} /\ j \in Nat \ {0}
      /\ i <= Len(namelist) + 1 /\ j <= Len(ignore) + 1
  BY Typing DEF IInv
<1>0. i <= Len(namelist) /\ UNCHANGED <<command, node, namelist, ignore>>
  BY DEF Walking, inputs
<1>1. InputsSorted'
  BY <1>0 DEF IInv, InputsSorted, StrictlySorted, Sorted
<1>2. ASSUME StrictlySorted(ignore),
             Elements(ignore) \subseteq Elements(namelist)
      PROVE  /\ j' = j
             /\ \A m \in j .. Len(ignore) : namelist[i] < ignore[m]
             /\ \A m \in 1 .. j - 1 : ignore[m] < namelist[i]
  <2>1. j' = j /\ (j <= Len(ignore) => namelist[i] < ignore[j])
    BY <1>0, <1>2, NoRunaway, <1>t DEF Excluded, IInv
  <2>2. ASSUME NEW m \in j .. Len(ignore) PROVE namelist[i] < ignore[m]
    BY <1>0, <2>1, <1>2, <1>t, SortedAt DEF IInv
  <2>3. ASSUME NEW m \in 1 .. j - 1 PROVE ignore[m] < namelist[i]
    BY <1>0, <1>2, <1>t DEF IInv, InStep
  <2> QED BY <2>1, <2>2, <2>3
<1>e. /\ StrictlySorted(ignore)' <=> StrictlySorted(ignore)
      /\ Elements(ignore)' = Elements(ignore)
      /\ Elements(namelist)' = Elements(namelist)
  BY <1>0 DEF StrictlySorted, Elements
<1>3. InStep'
  <2> SUFFICES ASSUME StrictlySorted(ignore),
                      Elements(ignore) \subseteq Elements(namelist)
               PROVE  /\ \A k \in 1 .. i' - 1, m \in j' .. Len(ignore') :
                           namelist'[k] < ignore'[m]
                      /\ \A k \in i' .. Len(namelist'), m \in 1 .. j' - 1 :
                           ignore'[m] < namelist'[k]
    BY <1>e, Zenon DEF InStep
  <2>0. /\ \A k \in 1 .. i - 1, m \in j .. Len(ignore) : namelist[k] < ignore[m]
        /\ \A k \in i .. Len(namelist), m \in 1 .. j - 1 : ignore[m] < namelist[k]
    BY DEF IInv, InStep
  <2>1. ASSUME NEW k \in 1 .. i, NEW m \in j .. Len(ignore)
        PROVE  namelist[k] < ignore[m]
    <3>1. CASE k = i
      BY <3>1, <1>2
    <3>2. CASE k # i
      <4>1. k \in 1 .. i - 1
        BY <3>2, <1>t
      <4> QED BY <4>1, <2>0
    <3> QED BY <3>1, <3>2
  <2>2. ASSUME NEW k \in i + 1 .. Len(namelist), NEW m \in 1 .. j - 1
        PROVE  ignore[m] < namelist[k]
    <3>1. k \in i .. Len(namelist)
      BY <1>t
    <3> QED BY <3>1, <2>0
  <2>3. /\ i' - 1 = i /\ i' = i + 1 /\ j' = j
        /\ namelist' = namelist /\ ignore' = ignore
    BY <1>0, <1>2, <1>t
  <2> QED BY <2>1, <2>2, <2>3
<1>4. ASSUME StrictlySorted(ignore), Elements(ignore) \subseteq Elements(namelist)
      PROVE  namelist[i] \notin Elements(ignore)
  <2>1. SUFFICES ASSUME NEW m \in 1 .. Len(ignore), namelist[i] = ignore[m]
                 PROVE  FALSE
    BY <1>t, ElementAt DEF IInv
  <2> QED BY <1>0, <1>2, <1>4, <2>1, <1>t DEF IInv
<1> QED BY <1>1, <1>3, <1>4

\* A name that is not eligible is passed over by filter_pkg_updates() and
\* leaves what was kept alone.
LEMMA SkipIneligibleIInv == IInv /\ SkipIneligible => IInv'
<1> SUFFICES ASSUME IInv, SkipIneligible PROVE IInv'
  OBVIOUS
<1>t. /\ namelist \in Seq(Int) /\ ignore \in Seq(Int) /\ kept \in Seq(Int)
      /\ i \in Nat \ {0} /\ j \in Nat \ {0}
      /\ i <= Len(namelist) + 1 /\ j <= Len(ignore) + 1
  BY Typing DEF IInv
<1>0. /\ Walking /\ ~Excluded /\ i' = i + 1 /\ j' = CatchUp(namelist[i])
      /\ i <= Len(namelist) /\ ~Wanted(namelist[i])
      /\ UNCHANGED <<command, node, namelist, ignore, pass, kept, limit, out>>
  BY DEF SkipIneligible, inputs, Wanted, Walking
<1>e. /\ Elements(ignore)' = Elements(ignore) /\ Elements(kept)' = Elements(kept)
      /\ \A n : Wanted(n)' <=> Wanted(n)
  BY <1>0 DEF Elements, Wanted
<1>1. TypeOK'
  BY <1>0, <1>t, CatchUpInRange DEF IInv, TypeOK
<1>2. StrictlySorted(kept)' /\ ExactWhenInstalled'
  <2>1. StrictlySorted(kept)'
    BY <1>0 DEF IInv, StrictlySorted
  <2>2. ExactWhenInstalled /\ UNCHANGED <<out, node, namelist, kept, ignore>>
    BY <1>0 DEF IInv
  <2>3. ExactWhenInstalled'
    BY <1>0, <2>2, <1>e DEF ExactWhenInstalled
  <2> QED BY <2>1, <2>3
<1>3. PassedAccounted'
  <2> SUFFICES ASSUME NEW k \in 1 .. i
               PROVE  \/ namelist[k] \in Elements(ignore)
                      \/ ~Wanted(namelist[k])
                      \/ namelist[k] \in Elements(kept)
    BY <1>0, <1>t, <1>e DEF PassedAccounted
  <2>1. CASE k = i
    BY <2>1, <1>0
  <2>2. CASE k # i
    BY <2>2, <1>t DEF IInv, PassedAccounted
  <2> QED BY <2>1, <2>2
<1>4. KeptPassed'
  <2>1. ASSUME NEW k \in 1 .. Len(kept)
        PROVE  (\E m \in 1 .. i : kept[k] = namelist[m]) /\ Wanted(kept[k])
    <3>1. PICK m \in 1 .. i - 1 : kept[k] = namelist[m]
      BY DEF IInv, KeptPassed
    <3>2. m \in 1 .. i
      BY <1>t
    <3> QED BY <3>1, <3>2 DEF IInv, KeptPassed
  <2> QED BY <1>0, <1>t, <1>e, <2>1 DEF KeptPassed
<1>5. InStep' /\ InputsSorted'
  BY <1>0, PassNotExcluded DEF inputs
<1> QED BY <1>1, <1>2, <1>3, <1>4, <1>5 DEF IInv

\* What Append() does to a list of names, by position and by element.
LEMMA AppendAt ==
  ASSUME NEW s \in Seq(Int), NEW x \in Int
  PROVE  /\ Append(s, x) \in Seq(Int) /\ Len(Append(s, x)) = Len(s) + 1
         /\ \A k \in 1 .. Len(s) : Append(s, x)[k] = s[k]
         /\ Append(s, x)[Len(s) + 1] = x
         /\ Elements(Append(s, x)) = Elements(s) \cup {x}
         /\ StrictlySorted(s) /\ (\A k \in 1 .. Len(s) : s[k] < x)
              => StrictlySorted(Append(s, x))
<1> DEFINE t == Append(s, x)
<1>1. /\ t \in Seq(Int) /\ Len(t) = Len(s) + 1 /\ Len(s) \in Nat
      /\ \A k \in 1 .. Len(s) : t[k] = s[k]
      /\ t[Len(s) + 1] = x
  OBVIOUS
<1> HIDE DEF t
<1>2. ASSUME NEW y
      PROVE  y \in Elements(t) <=> y \in Elements(s) \cup {x}
  <2>1. y \in Elements(t) <=> \E k \in 1 .. Len(s) + 1 : y = t[k]
    BY <1>1, ElementAt
  <2>2. y \in Elements(s) <=> \E k \in 1 .. Len(s) : y = s[k]
    BY ElementAt
  <2> QED BY <1>1, <2>1, <2>2
<1>3. StrictlySorted(s) /\ (\A k \in 1 .. Len(s) : s[k] < x)
        => StrictlySorted(t)
  <2> SUFFICES ASSUME StrictlySorted(s), \A k \in 1 .. Len(s) : s[k] < x,
                      NEW a \in 1 .. Len(s) + 1, NEW b \in 1 .. Len(s) + 1,
                      a < b
               PROVE  t[a] < t[b]
    BY <1>1 DEF StrictlySorted
  <2>1. CASE b = Len(s) + 1
    <3>1. a \in 1 .. Len(s)
      BY <2>1, <1>1
    <3>2. t[a] = s[a] /\ s[a] < x
      BY <3>1, <1>1
    <3> QED BY <2>1, <3>2, <1>1
  <2>2. CASE b # Len(s) + 1
    <3>0. Len(s) \in Nat /\ a \in Nat /\ b \in Nat
      BY <1>1
    <3>1. a \in 1 .. Len(s) /\ b \in 1 .. Len(s)
      BY <2>2, <3>0
    <3> QED BY <3>1, <1>1, SortedAt
  <2> QED BY <2>1, <2>2
<1> QED BY <1>1, <1>2, <1>3 DEF t

\* An eligible name that is not excluded is kept: it is larger than the names
\* filter_pkg_updates() kept before, and it is not excluded further on.
LEMMA KeepIInv == IInv /\ Keep => IInv'
<1> SUFFICES ASSUME IInv, Keep PROVE IInv'
  OBVIOUS
<1>t. /\ namelist \in Seq(Int) /\ ignore \in Seq(Int) /\ kept \in Seq(Int)
      /\ i \in Nat \ {0} /\ j \in Nat \ {0}
      /\ i <= Len(namelist) + 1 /\ j <= Len(ignore) + 1
  BY Typing DEF IInv
<1> DEFINE name == namelist[i]
<1>0. /\ Walking /\ ~Excluded /\ i' = i + 1 /\ j' = CatchUp(name)
      /\ i <= Len(namelist) /\ Wanted(name) /\ kept' = Append(kept, name)
      /\ out' = out \/ out' = Append(out, name)
      /\ UNCHANGED <<command, node, namelist, ignore, pass, limit>>
  BY DEF Keep, inputs, Wanted, Walking
<1>n. name \in Int /\ name \in Names
  BY <1>0, <1>t DEF IInv, TypeOK
<1>e. /\ Elements(ignore)' = Elements(ignore)
      /\ Elements(kept)' = Elements(kept) \cup {name}
      /\ \A n : Wanted(n)' <=> Wanted(n)
  <2>1. Elements(Append(kept, name)) = Elements(kept) \cup {name}
    BY <1>t, <1>n, AppendAt
  <2> QED BY <1>0, <2>1 DEF Elements, Wanted
<1>k. \A k \in 1 .. Len(kept) :
        (\E m \in 1 .. i - 1 : kept[k] = namelist[m]) /\ Wanted(kept[k])
  BY DEF IInv, KeptPassed
<1>1. TypeOK'
  <2>1. kept' \in Seq(Names)
    BY <1>0, <1>n DEF IInv, TypeOK
  <2>2. Append(out, name) \in Seq(Names)
    BY <1>n DEF IInv, TypeOK
  <2>3. out' \in Seq(Names)
    BY <1>0, <2>2 DEF IInv, TypeOK
  <2>4. j' \in 1 .. Len(ignore) + 1
    BY <1>0, <1>t, CatchUpInRange DEF IInv
  <2> QED BY <1>0, <1>t, <2>1, <2>3, <2>4 DEF IInv, TypeOK
<1>2. StrictlySorted(kept)'
  <2>1. ASSUME NEW k \in 1 .. Len(kept) PROVE kept[k] < name
    <3>1. PICK m \in 1 .. i - 1 : kept[k] = namelist[m]
      BY <1>k
    <3>2. m \in 1 .. Len(namelist) /\ i \in 1 .. Len(namelist) /\ m < i
      BY <1>0, <1>t
    <3> QED BY <1>t, <3>1, <3>2, SortedAt DEF IInv, InputsSorted
  <2>2. StrictlySorted(Append(kept, name))
    BY <1>t, <1>n, <2>1, AppendAt DEF IInv
  <2> QED BY <1>0, <2>2
<1>3. PassedAccounted'
  <2> SUFFICES ASSUME NEW k \in 1 .. i
               PROVE  \/ namelist[k] \in Elements(ignore)
                      \/ ~Wanted(namelist[k])
                      \/ namelist[k] \in Elements(kept) \cup {name}
    BY <1>0, <1>t, <1>e DEF PassedAccounted
  <2>1. CASE k = i
    BY <2>1, <1>0
  <2>2. CASE k # i
    BY <2>2, <1>t DEF IInv, PassedAccounted
  <2> QED BY <2>1, <2>2
<1>4. KeptPassed'
  <2>0. /\ DOMAIN kept' = 1 .. Len(kept) + 1 /\ kept'[Len(kept) + 1] = name
        /\ \A k \in 1 .. Len(kept) : kept'[k] = kept[k]
    BY <1>0, <1>t, <1>n, AppendAt
  <2>1. ASSUME NEW k \in 1 .. Len(kept) + 1
        PROVE  (\E m \in 1 .. i : kept'[k] = namelist[m]) /\ Wanted(kept'[k])
    <3>1. CASE k = Len(kept) + 1
      <4>1. i \in 1 .. i
        BY <1>t
      <4> QED BY <3>1, <4>1, <2>0, <1>0
    <3>2. CASE k # Len(kept) + 1
      <4>1. k \in 1 .. Len(kept)
        BY <3>2, <1>t
      <4>2. PICK m \in 1 .. i - 1 : kept[k] = namelist[m]
        BY <1>k, <4>1
      <4>3. m \in 1 .. i
        BY <1>t
      <4> QED BY <4>1, <4>2, <4>3, <2>0, <1>k
    <3> QED BY <3>1, <3>2
  <2>2. Len(kept') = Len(kept) + 1 /\ 1 .. i' - 1 = 1 .. i /\ namelist' = namelist
    BY <1>0, <1>t, <1>n, AppendAt
  <2> QED BY <1>e, <2>1, <2>2 DEF KeptPassed
<1>5. InStep' /\ InputsSorted'
  BY <1>0, PassNotExcluded DEF inputs
<1>6. ExactWhenInstalled'
  <2>1. StrictlySorted(ignore) /\ Elements(ignore) \subseteq Elements(namelist)
          => name \notin Elements(ignore)
    BY <1>0, PassNotExcluded DEF inputs
  <2>2. /\ Elements(namelist)' = Elements(namelist)
        /\ StrictlySorted(ignore)' <=> StrictlySorted(ignore)
    BY <1>0 DEF Elements, StrictlySorted
  <2> QED BY <1>e, <2>1, <2>2 DEF IInv, ExactWhenInstalled
<1> QED BY <1>1, <1>2, <1>3, <1>4, <1>5, <1>6 DEF IInv

\* The loop invariants of filter_pkg_updates() depend on its inputs, its
\* cursors and what it kept.
LEMMA FrameIInv ==
  ASSUME IInv, TypeOK',
         UNCHANGED <<command, node, namelist, ignore, i, j, kept>>
  PROVE  IInv'
<1>1. /\ Elements(ignore)' = Elements(ignore) /\ Elements(kept)' = Elements(kept)
      /\ Elements(namelist)' = Elements(namelist)
      /\ StrictlySorted(ignore)' <=> StrictlySorted(ignore)
      /\ \A n : Wanted(n)' <=> Wanted(n)
  BY DEF Elements, StrictlySorted, Wanted
<1>2. InputsSorted' /\ StrictlySorted(kept)'
  BY DEF IInv, InputsSorted, StrictlySorted, Sorted
<1>3. PassedAccounted'
  BY <1>1 DEF IInv, PassedAccounted
<1>4. KeptPassed'
  BY <1>1 DEF IInv, KeptPassed
<1>5. InStep'
  BY <1>1 DEF IInv, InStep
<1>6. ExactWhenInstalled'
  BY <1>1 DEF IInv, ExactWhenInstalled
<1> QED BY <1>2, <1>3, <1>4, <1>5, <1>6 DEF IInv

\* The second walk of aur_fetch_updates() starts over, and the end of a walk
\* changes nothing that was kept.
LEMMA WalkEndIInv == IInv /\ (SecondWalk \/ Finish) => IInv'
<1>1. ASSUME IInv, SecondWalk PROVE IInv'
  <2>0. /\ pass' = "fill" /\ i' = 1 /\ j' = 1 /\ kept' = <<>> /\ limit' = Len(kept)
        /\ UNCHANGED <<command, node, namelist, ignore, out>>
    BY <1>1 DEF SecondWalk, inputs
  <2>1. TypeOK'
    BY <1>1, <2>0 DEF IInv, TypeOK
  <2>2. InputsSorted' /\ StrictlySorted(kept)'
    BY <1>1, <2>0 DEF IInv, InputsSorted, StrictlySorted, Sorted
  <2>3. PassedAccounted' /\ KeptPassed'
    BY <2>0 DEF PassedAccounted, KeptPassed
  <2>4. InStep'
    BY <2>0 DEF InStep
  <2>5. ExactWhenInstalled'
    BY <2>0 DEF ExactWhenInstalled, Elements
  <2> QED BY <2>1, <2>2, <2>3, <2>4, <2>5 DEF IInv
<1>2. ASSUME IInv, Finish PROVE IInv'
  <2>0. /\ pass' = "done"
        /\ UNCHANGED <<command, node, namelist, ignore, i, j, kept, limit, out>>
    BY <1>2 DEF Finish, inputs
  <2>1. TypeOK'
    BY <1>2, <2>0 DEF IInv, TypeOK
  <2> QED BY <1>2, <2>0, <2>1, FrameIInv
<1> QED BY <1>1, <1>2

\* A step that changes nothing keeps the loop invariants.
LEMMA StutterIInv == IInv /\ UNCHANGED vars => IInv'
<1> SUFFICES ASSUME IInv, UNCHANGED vars PROVE IInv'
  OBVIOUS
<1>1. TypeOK'
  BY DEF vars, IInv, TypeOK
<1> QED BY <1>1, FrameIInv DEF vars

-----------------------------------------------------------------------------
\* The loop invariants of filter_pkg_updates() hold throughout both walks of
\* aur_fetch_updates(), for lists of any length.
THEOREM LoopInvariants == Spec => []IInv
<1>1. IInv /\ [Next]_vars => IInv'
  BY SkipExcludedIInv, SkipIneligibleIInv, KeepIInv, WalkEndIInv, StutterIInv
     DEF Next
<1> QED BY InitIInv, <1>1, PTL DEF Spec

\* The cursors and outputs of filter_pkg_updates() stay in their domains.
THEOREM TypeCorrect == Spec => []TypeOK
<1>1. IInv => TypeOK
  BY DEF IInv
<1> QED BY LoopInvariants, <1>1, PTL

\* At the end of a walk every name of the list has been passed.
LEMMA WalkComplete ==
  IInv /\ Walked => \A n \in Elements(namelist) \ Elements(ignore) :
                     Wanted(n) => n \in Elements(kept)
<1> SUFFICES ASSUME IInv, Walked,
                    NEW n \in Elements(namelist) \ Elements(ignore), Wanted(n)
             PROVE  n \in Elements(kept)
  OBVIOUS
<1>1. namelist \in Seq(Int) /\ i - 1 = Len(namelist)
  BY Typing DEF IInv, Walked
<1>2. PICK k \in 1 .. Len(namelist) : n = namelist[k]
  BY <1>1, ElementAt
<1> QED BY <1>1, <1>2 DEF IInv, PassedAccounted

\* What was kept has been passed and is wanted.
LEMMA WalkOrdered ==
  IInv => StrictlySorted(kept)
          /\ \A n \in Elements(kept) : n \in Elements(namelist) /\ Wanted(n)
<1> SUFFICES ASSUME IInv, NEW n \in Elements(kept)
             PROVE  n \in Elements(namelist) /\ Wanted(n)
  BY DEF IInv
<1>t. /\ namelist \in Seq(Int) /\ kept \in Seq(Int)
      /\ i \in Nat \ {0} /\ i <= Len(namelist) + 1
  BY Typing DEF IInv
<1>1. PICK k \in 1 .. Len(kept) : n = kept[k]
  BY <1>t, ElementAt
<1>2. PICK m \in 1 .. i - 1 : kept[k] = namelist[m]
  BY DEF IInv, KeptPassed
<1>3. m \in 1 .. Len(namelist)
  BY <1>t
<1> QED BY <1>t, <1>1, <1>2, <1>3, ElementAt DEF IInv, KeptPassed

\* What filter_pkg_updates() keeps is an ordered selection of the eligible
\* installed packages, and a finished walk has kept every one that was not
\* excluded, however its exclude cursor jumped.
THEOREM OrderedSelection == Spec => []WalkSelects
<1>1. IInv => WalkSelects
  BY WalkComplete, WalkOrdered DEF WalkSelects
<1> QED BY LoopInvariants, <1>1, PTL

\* Excluding distinct installed packages works: filter_pkg_updates() keeps
\* none of them.
THEOREM InstalledExcluded == Spec => []ExactWhenInstalled
<1>1. IInv => ExactWhenInstalled
  BY DEF IInv
<1> QED BY LoopInvariants, <1>1, PTL

-----------------------------------------------------------------------------
\* The options in front of a place: m is where their run begins.
RunFrom(args, k, m) ==
  /\ m \in 1 .. k /\ \A l \in m .. k - 1 : args[l] = ExcludeOption
  /\ m > 1 => args[m - 1] # ExcludeOption

\* There is one such m.
LEMMA RunBegins ==
  ASSUME NEW args, NEW k \in Nat, k >= 1
  PROVE  \E m \in 1 .. k : RunFrom(args, k, m)
                           /\ \A n \in 1 .. k : RunFrom(args, k, n) => n = m
<1> DEFINE Less == {ss \in Nat \X Nat : ss[1] < ss[2]}
           Runs == {m \in 1 .. k : \A l \in m .. k - 1 : args[l] = ExcludeOption}
<1>1. IsWellFoundedOn(Less, Nat)
  BY NatLessThanWellFounded DEF OpToRel
<1>2. Runs # {} /\ Runs \subseteq Nat
  <2>1. k \in Runs
    OBVIOUS
  <2> QED BY <2>1
<1>3. PICK m \in Runs : \A n \in Runs : <<n, m>> \notin Less
  <2> HIDE DEF Less, Runs
  <2> QED BY <1>1, <1>2, WFMin
<1>4. m > 1 => args[m - 1] # ExcludeOption
  <2> SUFFICES ASSUME m > 1, args[m - 1] = ExcludeOption PROVE FALSE
    OBVIOUS
  <2>1. m - 1 \in 1 .. k /\ \A l \in m - 1 .. k - 1 : l = m - 1 \/ l \in m .. k - 1
    BY <1>3
  <2>2. m - 1 \in Runs
    BY <1>3, <2>1
  <2>3. <<m - 1, m>> \in Nat \X Nat /\ <<m - 1, m>>[1] < <<m - 1, m>>[2]
    BY <1>3
  <2> QED BY <1>3, <2>2, <2>3
<1>5. RunFrom(args, k, m)
  BY <1>3, <1>4 DEF RunFrom
<1>6. ASSUME NEW n \in 1 .. k, RunFrom(args, k, n) PROVE n = m
  <2>1. CASE n < m
    <3>1. m > 1 /\ m - 1 \in n .. k - 1
      BY <1>3, <2>1
    <3> QED BY <1>4, <1>6, <3>1 DEF RunFrom
  <2>2. CASE m < n
    <3>1. n > 1 /\ n - 1 \in m .. k - 1
      BY <1>3, <2>2
    <3> QED BY <1>3, <1>6, <3>1 DEF RunFrom
  <2> QED BY <1>3, <2>1, <2>2
<1> QED BY <1>3, <1>5, <1>6

\* The definition of an operand, by its run.
LEMMA OperandRun ==
  ASSUME NEW k \in Nat, k >= 1
  PROVE  Operand(k) <=> UpdateCommand /\ \E m \in 1 .. k : RunFrom(argv, k, m) /\ (k - m) % 2 = 1
<1>1. ASSUME Operand(k)
      PROVE  UpdateCommand /\ \E m \in 1 .. k : RunFrom(argv, k, m) /\ (k - m) % 2 = 1
  <2>1. PICK n \in 1 .. k - 1 :
          /\ n % 2 = 1 /\ \A m \in k - n .. k - 1 : argv[m] = ExcludeOption
          /\ k - n > 1 => argv[k - n - 1] # ExcludeOption
    BY <1>1 DEF Operand
  <2>2. PICK m \in 1 .. k : m = k - n
    OBVIOUS
  <2>3. RunFrom(argv, k, m)
    BY <2>1, <2>2 DEF RunFrom
  <2>4. k - m = n
    BY <2>2
  <2> QED BY <1>1, <2>1, <2>3, <2>4 DEF Operand
<1>2. ASSUME UpdateCommand, NEW m \in 1 .. k, RunFrom(argv, k, m), (k - m) % 2 = 1
      PROVE  Operand(k)
  <2>1. PICK n \in 0 .. k - 1 : n = k - m
    OBVIOUS
  <2>2. n \in 1 .. k - 1 /\ n % 2 = 1 /\ k - n = m
    BY <1>2, <2>1
  <2> QED BY <1>2, <2>2 DEF Operand, RunFrom
<1> QED BY <1>1, <1>2

\* An operand follows an --exclude that is not itself one.
LEMMA OperandNext ==
  ASSUME NEW k \in Nat, k >= 1
  PROVE  Operand(k + 1) <=> UpdateCommand /\ argv[k] = ExcludeOption /\ ~Operand(k)
<1>1. k + 1 \in Nat /\ k + 1 >= 1 /\ k + 1 - 1 = k
  OBVIOUS
<1>2. CASE argv[k] # ExcludeOption
  <2>1. ASSUME NEW m \in 1 .. k + 1, RunFrom(argv, k + 1, m) PROVE m = k + 1
    <3>1. m <= k => k \in m .. k + 1 - 1
      OBVIOUS
    <3> QED BY <1>2, <2>1, <3>1 DEF RunFrom
  <2>2. ~Operand(k + 1)
    <3>1. \A m \in 1 .. k + 1 : m = k + 1 => (k + 1 - m) % 2 # 1
      OBVIOUS
    <3> QED BY <1>1, <2>1, <3>1, OperandRun
  <2> QED BY <1>2, <2>2
<1>3. CASE argv[k] = ExcludeOption
  <2>1. PICK m \in 1 .. k : RunFrom(argv, k, m)
                            /\ \A n \in 1 .. k : RunFrom(argv, k, n) => n = m
    BY RunBegins
  <2>2. m \in 1 .. k + 1 /\ RunFrom(argv, k + 1, m)
    <3>1. \A l \in m .. k + 1 - 1 : l = k \/ l \in m .. k - 1
      OBVIOUS
    <3> QED BY <1>3, <2>1, <3>1 DEF RunFrom
  <2>3. ASSUME NEW n \in 1 .. k + 1, RunFrom(argv, k + 1, n) PROVE n = m
    <3>1. n # k + 1
      BY <1>3, <2>3 DEF RunFrom
    <3>2. n \in 1 .. k /\ \A l \in n .. k - 1 : l \in n .. k + 1 - 1
      BY <3>1
    <3>3. RunFrom(argv, k, n)
      BY <2>3, <3>2 DEF RunFrom
    <3> QED BY <2>1, <3>2, <3>3
  <2>4. (k + 1 - m) % 2 = 1 <=> ~((k - m) % 2 = 1)
    OBVIOUS
  <2>5. Operand(k) <=> UpdateCommand /\ (k - m) % 2 = 1
    BY <2>1, OperandRun
  <2>6. Operand(k + 1) <=> UpdateCommand /\ (k + 1 - m) % 2 = 1
    BY <1>1, <2>2, <2>3, OperandRun
  <2> QED BY <1>3, <2>4, <2>5, <2>6
<1> QED BY <1>2, <1>3

\* A list goes on with the next argument.
LEMMA ListedAppend ==
  ASSUME NEW args, NEW T, NEW taken \in Seq(T), NEW n \in Nat, args[n + 1] \in T,
         NEW places \in SUBSET (1 .. n), Listed(args, taken, places)
  PROVE  Listed(args, Append(taken, args[n + 1]), places \cup {n + 1})
<1> DEFINE more == places \cup {n + 1}
<1>1. IsFiniteSet(places) /\ IsFiniteSet(more)
  <2>1. IsFiniteSet(1 .. n) /\ places \subseteq 1 .. n
    BY FS_Interval
  <2>2. IsFiniteSet(places)
    BY <2>1, FS_Subset
  <2> QED BY <2>2, FS_AddElement
<1>2. n + 1 \notin places
  OBVIOUS
<1>3. Cardinality(more) = Cardinality(places) + 1 /\ Cardinality(places) \in Nat
  BY <1>1, <1>2, FS_AddElement, FS_CardinalityType
<1>4. PICK len \in Nat : len = Len(taken) /\ len = Cardinality(places)
  BY <1>3 DEF Listed
<1>a. PICK x \in T : x = args[n + 1]
  OBVIOUS
<1>5. /\ Len(Append(taken, args[n + 1])) = len + 1
      /\ Append(taken, args[n + 1])[len + 1] = args[n + 1]
      /\ \A k \in 1 .. len : Append(taken, args[n + 1])[k] = taken[k]
  <2>1. /\ Len(Append(taken, x)) = len + 1 /\ Append(taken, x)[len + 1] = x
        /\ \A k \in 1 .. len : Append(taken, x)[k] = taken[k]
    <3>1. /\ Len(Append(taken, x)) = Len(taken) + 1 /\ Append(taken, x)[Len(taken) + 1] = x
          /\ \A k \in 1 .. Len(taken) : Append(taken, x)[k] = taken[k]
      BY AppendProperties
    <3> QED BY ONLY <1>4, <3>1
  <2> QED BY <1>a, <2>1
<1>6. ASSUME NEW k \in places
      PROVE  Rank(k, more) = Rank(k, places) /\ Rank(k, places) \in 1 .. len
  <2>1. {m \in more : m <= k} = {m \in places : m <= k}
    OBVIOUS
  <2> DEFINE below == {m \in places : m <= k}
  <2>2. IsFiniteSet(below) /\ Cardinality(below) <= len /\ Cardinality(below) \in Nat
    <3>1. below \subseteq places
      OBVIOUS
    <3> HIDE DEF below
    <3>2. IsFiniteSet(below) /\ Cardinality(below) <= Cardinality(places)
      BY <1>1, <3>1, FS_Subset
    <3> QED BY <1>4, <3>2, FS_CardinalityType
  <2>3. k \in below
    OBVIOUS
  <2>4. Cardinality(below) # 0
    BY <2>2, <2>3, FS_EmptySet
  <2>5. Rank(k, more) = Cardinality(below) /\ Rank(k, places) = Cardinality(below)
    BY <2>1 DEF Rank
  <2> HIDE DEF below
  <2> QED BY <2>2, <2>4, <2>5
<1>7. Rank(n + 1, more) = len + 1
  <2>1. \A m \in more : m <= n + 1
    OBVIOUS
  <2>2. {m \in more : m <= n + 1} = more
    <3> HIDE DEF more
    <3> QED BY <2>1
  <2> HIDE DEF more
  <2> QED BY <1>3, <1>4, <2>2 DEF Rank
<1>8. ASSUME NEW k \in more PROVE Append(taken, args[n + 1])[Rank(k, more)] = args[k]
  <2>1. CASE k = n + 1
    BY <1>5, <1>7, <2>1
  <2>2. CASE k \in places
    BY <1>5, <1>6, <2>2 DEF Listed
  <2> QED BY <1>8, <2>1, <2>2
<1> HIDE DEF more
<1>9. Listed(args, Append(taken, args[n + 1]), more)
  BY <1>3, <1>4, <1>5, <1>8 DEF Listed
<1> QED BY <1>9 DEF more

-----------------------------------------------------------------------------
\* The places of what each list takes, and those of them among the first n.
Operands == {k \in Nat : Operand(k)}
Packages == {k \in Nat : ~UpdateCommand /\ argv[k] \in PackageNames}
PacmanOptions == {k \in Nat : TakesPacman /\ ~Operand(k) /\ argv[k] = PacmanOption}
Upto(n, places) == {k \in 1 .. n : k \in places}

\* The first n arguments are looked at and none is wrong; the lists have what
\* they take of them.
TakenUpto(n, ex, ps, os, rs) ==
  /\ \A k \in 1 .. n : (argv[k] = EndOfOptions => Operand(k)) /\ ~Wrong(k)
  /\ ex \in Seq(Names) /\ Listed(argv, ex, Upto(n, Operands))
  /\ ps \in Seq(Names) /\ Listed(argv, ps, Upto(n, Packages))
  /\ os \in Seq(Names) /\ Listed(argv, os, Upto(n, PacmanOptions))
  /\ rs <=> \E k \in 1 .. n : ~Operand(k) /\ argv[k] = ResetOption

\* What ArgsAsWritten is proved from: the cursor is behind all that was taken,
\* and not at an operand.
ParseInv ==
  /\ argv \in Seq(Names) /\ at \in 1 .. Len(argv) + 1
  /\ stage = "parse" => ~Operand(at) /\ TakenUpto(at - 1, excluded, pkgs, options, reset)
  /\ ArgsAsWritten

\* A list has the next argument when it takes it.
Goes(args, taken, more, k, places) ==
  more = IF k \in places THEN Append(taken, args[k]) ELSE taken
LEMMA ListedNext ==
  ASSUME NEW args, NEW T, NEW taken \in Seq(T), NEW n \in Nat, args[n + 1] \in T, NEW places,
         Listed(args, taken, Upto(n, places)),
         NEW more, Goes(args, taken, more, n + 1, places)
  PROVE  more \in Seq(T) /\ Listed(args, more, Upto(n + 1, places))
<1>1. Upto(n, places) \in SUBSET (1 .. n)
  BY DEF Upto
<1>2. CASE n + 1 \in places
  <2>1. Upto(n + 1, places) = Upto(n, places) \cup {n + 1}
    BY <1>2 DEF Upto
  <2>2. Listed(args, Append(taken, args[n + 1]), Upto(n, places) \cup {n + 1})
    BY <1>1, ListedAppend
  <2>3. Append(taken, args[n + 1]) \in Seq(T)
    BY AppendProperties
  <2> QED BY <1>2, <2>1, <2>2, <2>3 DEF Goes
<1>3. CASE n + 1 \notin places
  <2>1. Upto(n + 1, places) = Upto(n, places)
    BY <1>3 DEF Upto
  <2> QED BY <1>3, <2>1 DEF Goes
<1> QED BY <1>2, <1>3

\* All of them have what they take of the argument k.
Takes(k, ex, ex2, ps, ps2, os, os2, rs, rs2) ==
  /\ argv[k] = EndOfOptions => Operand(k)
  /\ ~Wrong(k)
  /\ ex2 = IF Operand(k) THEN Append(ex, argv[k]) ELSE ex
  /\ ps2 = IF ~UpdateCommand /\ argv[k] \in PackageNames THEN Append(ps, argv[k]) ELSE ps
  /\ os2 = IF TakesPacman /\ ~Operand(k) /\ argv[k] = PacmanOption
           THEN Append(os, argv[k]) ELSE os
  /\ rs2 <=> rs \/ (~Operand(k) /\ argv[k] = ResetOption)

LEMMA TakenNext ==
  ASSUME argv \in Seq(Names), NEW n \in Nat, n + 1 <= Len(argv), NEW ex, NEW ps, NEW os, NEW rs,
         TakenUpto(n, ex, ps, os, rs), NEW ex2, NEW ps2, NEW os2, NEW rs2,
         Takes(n + 1, ex, ex2, ps, ps2, os, os2, rs, rs2)
  PROVE  TakenUpto(n + 1, ex2, ps2, os2, rs2)
<1>1. argv[n + 1] \in Names /\ n + 1 \in Nat
  OBVIOUS
<1>2. \A k \in 1 .. n + 1 : k \in 1 .. n \/ k = n + 1
  OBVIOUS
<1>n. n + 1 \in 1 .. n + 1 /\ \A k \in 1 .. n : k \in 1 .. n + 1
  OBVIOUS
<1>3. \A k \in 1 .. n + 1 : (argv[k] = EndOfOptions => Operand(k)) /\ ~Wrong(k)
  BY <1>2 DEF TakenUpto, Takes
<1>4. ex2 \in Seq(Names) /\ Listed(argv, ex2, Upto(n + 1, Operands))
  <2>1. ex \in Seq(Names) /\ Listed(argv, ex, Upto(n, Operands))
    BY DEF TakenUpto
  <2>2. n + 1 \in Operands <=> Operand(n + 1)
    BY <1>1 DEF Operands
  <2>3. Goes(argv, ex, ex2, n + 1, Operands)
    BY <2>2 DEF Takes, Goes
  <2> QED BY <1>1, <2>1, <2>3, ListedNext
<1>5. ps2 \in Seq(Names) /\ Listed(argv, ps2, Upto(n + 1, Packages))
  <2>1. ps \in Seq(Names) /\ Listed(argv, ps, Upto(n, Packages))
    BY DEF TakenUpto
  <2>2. n + 1 \in Packages <=> ~UpdateCommand /\ argv[n + 1] \in PackageNames
    BY <1>1 DEF Packages
  <2>3. Goes(argv, ps, ps2, n + 1, Packages)
    BY <2>2 DEF Takes, Goes
  <2> QED BY <1>1, <2>1, <2>3, ListedNext
<1>6. os2 \in Seq(Names) /\ Listed(argv, os2, Upto(n + 1, PacmanOptions))
  <2>1. os \in Seq(Names) /\ Listed(argv, os, Upto(n, PacmanOptions))
    BY DEF TakenUpto
  <2>2. n + 1 \in PacmanOptions <=>
          TakesPacman /\ ~Operand(n + 1) /\ argv[n + 1] = PacmanOption
    BY <1>1 DEF PacmanOptions
  <2>3. Goes(argv, os, os2, n + 1, PacmanOptions)
    BY <2>2 DEF Takes, Goes
  <2> QED BY <1>1, <2>1, <2>3, ListedNext
<1>7. rs2 <=> \E k \in 1 .. n + 1 : ~Operand(k) /\ argv[k] = ResetOption
  <2>1. rs <=> \E k \in 1 .. n : ~Operand(k) /\ argv[k] = ResetOption
    BY DEF TakenUpto
  <2> QED BY <1>2, <1>n, <2>1 DEF Takes
<1> QED BY <1>3, <1>4, <1>5, <1>6, <1>7 DEF TakenUpto

\* What depends on the command line alone.
SameLine == UNCHANGED <<given, argv>>
LEMMA LineStays ==
  ASSUME SameLine
  PROVE  /\ \A k : Operand(k)' <=> Operand(k)
         /\ \A n, ex, ps, os, rs : TakenUpto(n, ex, ps, os, rs) => TakenUpto(n, ex, ps, os, rs)'
<1>0. given' = given /\ argv' = argv
  BY DEF SameLine
<1>1. (UpdateCommand' <=> UpdateCommand) /\ (TakesPacman' <=> TakesPacman)
      /\ (TakesReset' <=> TakesReset)
  BY <1>0 DEF UpdateCommand, TakesPacman, TakesReset
<1>2. \A k : Operand(k)' <=> Operand(k)
  BY <1>0, <1>1 DEF Operand
<1>3. \A k : Wrong(k)' <=> Wrong(k)
  BY <1>0, <1>1, <1>2 DEF Wrong
<1>4. Operands' = Operands /\ Packages' = Packages /\ PacmanOptions' = PacmanOptions
  BY <1>0, <1>1, <1>2 DEF Operands, Packages, PacmanOptions
<1>5. ASSUME NEW n, NEW ex, NEW ps, NEW os, NEW rs, TakenUpto(n, ex, ps, os, rs)
      PROVE  TakenUpto(n, ex, ps, os, rs)'
  BY <1>0, <1>2, <1>3, <1>4, <1>5 DEF TakenUpto
<1> QED BY <1>2, <1>5

-----------------------------------------------------------------------------
\* The options are different numbers, and none is a package.
LEMMA OptionsDiffer ==
  /\ EndOfOptions # PacmanOption /\ EndOfOptions # ExcludeOption
  /\ EndOfOptions # ResetOption /\ PacmanOption # ExcludeOption
  /\ PacmanOption # ResetOption /\ ExcludeOption # ResetOption
  /\ \A n \in PackageNames : n \notin {EndOfOptions, PacmanOption, ExcludeOption, ResetOption}
BY NamesAssumption
   DEF EndOfOptions, PacmanOption, ExcludeOption, ResetOption, PackageNames

\* Where the cursor of a parser is.
LEMMA CursorAt ==
  ASSUME ParseInv, Parsing
  PROVE  /\ at \in Nat /\ at >= 1 /\ at - 1 \in Nat /\ at - 1 + 1 = at
         /\ argv \in Seq(Names) /\ Len(argv) \in Nat /\ at <= Len(argv) /\ argv[at] \in Names
         /\ ~Operand(at) /\ TakenUpto(at - 1, excluded, pkgs, options, reset)
BY DEF ParseInv, Parsing

\* A parser goes on with what it has taken.
LEMMA GoesOn ==
  ASSUME SameLine, argv \in Seq(Names), stage' = "parse", at' \in 1 .. Len(argv) + 1,
         ~Operand(at'), TakenUpto(at' - 1, excluded', pkgs', options', reset')
  PROVE  ParseInv'
<1>1. PICK n : n = at'
  OBVIOUS
<1>2. PICK ex, ps, os, rs : ex = excluded' /\ ps = pkgs' /\ os = options' /\ rs = reset'
  OBVIOUS
<1>3. ~Operand(n)' /\ TakenUpto(n - 1, ex, ps, os, rs)'
  BY <1>1, <1>2, LineStays
<1>4. ~Operand(at)' /\ TakenUpto(at - 1, excluded, pkgs, options, reset)'
  BY <1>1, <1>2, <1>3 DEF Operand, TakenUpto
<1>5. ArgsAsWritten'
  BY DEF ArgsAsWritten
<1> QED BY <1>4, <1>5 DEF ParseInv, SameLine

\* An argument that is taken by itself is no --exclude.
LEMMA TakesOne ==
  ASSUME ParseInv, Parsing, SameLine, stage' = stage, at' = at + 1,
         ~(UpdateCommand /\ argv[at] = ExcludeOption), argv[at] # EndOfOptions, ~Wrong(at),
         excluded' = excluded,
         pkgs' = IF ~UpdateCommand /\ argv[at] \in PackageNames
                 THEN Append(pkgs, argv[at]) ELSE pkgs,
         options' = IF TakesPacman /\ argv[at] = PacmanOption
                    THEN Append(options, argv[at]) ELSE options,
         reset' <=> reset \/ argv[at] = ResetOption
  PROVE  ParseInv'
<1>0. /\ at \in Nat /\ at >= 1 /\ at - 1 \in Nat /\ at - 1 + 1 = at
      /\ argv \in Seq(Names) /\ Len(argv) \in Nat /\ at <= Len(argv)
      /\ ~Operand(at) /\ TakenUpto(at - 1, excluded, pkgs, options, reset)
  BY CursorAt
<1>1. PICK n \in Nat : n = at - 1 /\ at = n + 1
  BY <1>0
<1>2. ~Operand(n + 2)
  <2>1. ~Operand(at + 1)
    BY <1>0, OperandNext
  <2>2. n + 2 = at + 1
    BY <1>1
  <2> QED BY <2>1, <2>2
<1>3. TakenUpto(n + 1, excluded', pkgs', options', reset')
  <2>1. Takes(n + 1, excluded, excluded', pkgs, pkgs', options, options', reset, reset')
    BY <1>0, <1>1 DEF Takes
  <2> QED BY <1>0, <1>1, <2>1, TakenNext
<1>4. at' \in 1 .. Len(argv) + 1 /\ at' = n + 2 /\ at' - 1 = n + 1
  BY <1>0, <1>1
<1> QED BY <1>0, <1>2, <1>3, <1>4, GoesOn DEF Parsing

\* --exclude is taken with its operand.
LEMMA TakesTwo == ASSUME ParseInv, TakeExclude PROVE ParseInv'
<1>0. /\ at \in Nat /\ at >= 1 /\ at - 1 \in Nat /\ at - 1 + 1 = at
      /\ argv \in Seq(Names) /\ Len(argv) \in Nat /\ at <= Len(argv)
      /\ ~Operand(at) /\ TakenUpto(at - 1, excluded, pkgs, options, reset)
  BY CursorAt DEF TakeExclude
<1>1. PICK n \in Nat : n = at - 1 /\ at = n + 1
  BY <1>0
<1>2. /\ UpdateCommand /\ argv[n + 1] = ExcludeOption /\ n + 1 < Len(argv)
      /\ excluded' = Append(excluded, argv[n + 2]) /\ at' = n + 3
      /\ pkgs' = pkgs /\ options' = options /\ reset' = reset /\ stage' = "parse"
      /\ SameLine
  BY <1>1 DEF TakeExclude, Parsing, SameLine
<1>3. Operand(n + 2) /\ ~Operand(n + 3)
  <2>1. Operand(at + 1)
    BY <1>0, <1>1, <1>2, OperandNext
  <2>2. at + 1 \in Nat /\ at + 1 >= 1 /\ at + 1 = n + 2 /\ at + 1 + 1 = n + 3
    BY <1>1
  <2>3. ~Operand(at + 1 + 1)
    BY <2>1, <2>2, OperandNext
  <2> QED BY <2>1, <2>2, <2>3
<1>4. TakenUpto(n + 1, excluded, pkgs, options, reset)
  <2>1. ~Wrong(n + 1)
    BY <1>2 DEF Wrong
  <2>2. ~Operand(n + 1)
    BY <1>0, <1>1
  <2>3. Takes(n + 1, excluded, excluded, pkgs, pkgs, options, options, reset, reset)
    BY <1>2, <2>1, <2>2, OptionsDiffer DEF Takes
  <2> QED BY <1>0, <1>1, <2>3, TakenNext
<1>5. TakenUpto(n + 2, excluded', pkgs', options', reset')
  <2>1. ~Wrong(n + 2)
    BY <1>3 DEF Wrong
  <2>2. PICK m \in Nat : m = n + 1 /\ n + 2 = m + 1
    OBVIOUS
  <2>3. TakenUpto(m + 1, excluded', pkgs', options', reset')
    <3>1. Takes(m + 1, excluded, excluded', pkgs, pkgs', options, options', reset, reset')
      BY <1>2, <1>3, <2>1, <2>2 DEF Takes
    <3>2. m + 1 <= Len(argv)
      BY <1>0, <1>2, <2>2
    <3> QED BY <1>0, <1>4, <2>2, <3>1, <3>2, TakenNext
  <2> QED BY <2>2, <2>3
<1>6. at' \in 1 .. Len(argv) + 1 /\ at' - 1 = n + 2
  BY <1>0, <1>2
<1> QED BY <1>0, <1>2, <1>3, <1>5, <1>6, GoesOn

\* The places in front of the cursor are those that are looked at, when the
\* parser stops there.
LEMMA LookedUpto ==
  ASSUME ParseInv, stage = "parse", at <= Len(argv) => argv[at] = EndOfOptions
  PROVE  Looked = 1 .. at - 1
<1>0. argv \in Seq(Names) /\ at \in 1 .. Len(argv) + 1 /\ ~Operand(at)
      /\ TakenUpto(at - 1, excluded, pkgs, options, reset)
  BY DEF ParseInv
<1>1. ASSUME NEW l \in 1 .. at - 1 PROVE l \in Looked
  <2>1. \A m \in 1 .. l : m \in 1 .. at - 1
    BY <1>0
  <2>2. \A m \in 1 .. l : argv[m] = EndOfOptions => Operand(m)
    BY <1>0, <2>1 DEF TakenUpto
  <2> QED BY <1>0, <2>2 DEF Looked
<1>2. ASSUME NEW l \in Looked PROVE l \in 1 .. at - 1
  <2>1. l \in 1 .. Len(argv) /\ \A m \in 1 .. l : argv[m] = EndOfOptions => Operand(m)
    BY <1>0 DEF Looked
  <2>2. ~(at <= l)
    BY <1>0, <2>1
  <2> QED BY <1>0, <2>1, <2>2
<1> QED BY <1>1, <1>2

\* What a parser that comes to the end has is as written.
LEMMA EndsAsWritten == ASSUME ParseInv, EndParse PROVE ParseInv'
<1>0. argv \in Seq(Names) /\ at \in 1 .. Len(argv) + 1
      /\ TakenUpto(at - 1, excluded, pkgs, options, reset)
  BY DEF ParseInv, EndParse
<1>1. Looked = 1 .. at - 1
  BY LookedUpto DEF EndParse
<1>2. /\ {l \in Looked : Operand(l)} = Upto(at - 1, Operands)
      /\ {l \in Looked : ~UpdateCommand /\ argv[l] \in PackageNames} = Upto(at - 1, Packages)
      /\ {l \in Looked : TakesPacman /\ ~Operand(l) /\ argv[l] = PacmanOption}
           = Upto(at - 1, PacmanOptions)
  BY <1>0, <1>1 DEF Upto, Operands, Packages, PacmanOptions
<1> DEFINE Written ==
             /\ \A l \in Looked : ~Wrong(l)
             /\ Listed(argv, excluded, {l \in Looked : Operand(l)})
             /\ Listed(argv, pkgs, {l \in Looked : ~UpdateCommand /\ argv[l] \in PackageNames})
             /\ Listed(argv, options, {l \in Looked : TakesPacman /\ ~Operand(l)
                                                      /\ argv[l] = PacmanOption})
             /\ reset <=> \E l \in Looked : ~Operand(l) /\ argv[l] = ResetOption
<1>3. Written
  BY <1>0, <1>1, <1>2 DEF TakenUpto
<1>4. UNCHANGED <<given, argv, at, excluded, pkgs, options, reset>> /\ stage' = "parsed"
  BY DEF EndParse
<1>5. Written'
  BY <1>3, <1>4 DEF Looked, Operand, Wrong, UpdateCommand, TakesPacman, TakesReset
<1>6. ArgsAsWritten'
  BY <1>4, <1>5 DEF ArgsAsWritten
<1> QED BY <1>0, <1>4, <1>6 DEF ParseInv

\* What a parser refuses is wrong.
LEMMA RefusesWrong == ASSUME ParseInv, Refuse PROVE ParseInv'
<1>0. /\ at \in Nat /\ at >= 1 /\ argv \in Seq(Names) /\ Len(argv) \in Nat /\ at <= Len(argv)
      /\ ~Operand(at) /\ TakenUpto(at - 1, excluded, pkgs, options, reset)
  BY CursorAt DEF Refuse
<1>1. UNCHANGED <<given, argv, at>> /\ stage' = "refused"
  BY DEF Refuse
<1>2. at \in Looked
  <2>1. \A m \in 1 .. at : m \in 1 .. at - 1 \/ m = at
    BY <1>0
  <2>2. argv[at] # EndOfOptions
    BY DEF Refuse
  <2>3. \A m \in 1 .. at : argv[m] = EndOfOptions => Operand(m)
    BY <1>0, <2>1, <2>2 DEF TakenUpto
  <2> QED BY <1>0, <2>3 DEF Looked
<1>3. Wrong(at)
  BY <1>0 DEF Refuse, Wrong, IsPacmanOption
<1>4. \E l \in Looked : Wrong(l)
  BY <1>2, <1>3
<1>5. Looked' = Looked /\ \A l : Wrong(l)' <=> Wrong(l)
  BY <1>1 DEF Looked, Operand, Wrong, UpdateCommand, TakesPacman, TakesReset
<1>6. ArgsAsWritten'
  BY <1>1, <1>4, <1>5 DEF ArgsAsWritten
<1> QED BY <1>0, <1>1, <1>6 DEF ParseInv

LEMMA ParseStart == CommandInit => ParseInv
<1> SUFFICES ASSUME CommandInit PROVE ParseInv
  OBVIOUS
<1>1. /\ argv \in Seq(Names) /\ at = 1 /\ stage = "parse" /\ Len(argv) \in Nat
      /\ excluded = <<>> /\ pkgs = <<>> /\ options = <<>> /\ reset = FALSE
  BY ArgumentsAssumption DEF CommandInit
<1>2. ~Operand(at)
  BY <1>1 DEF Operand
<1>3. \A places : Upto(at - 1, places) = {}
  BY <1>1 DEF Upto
<1>4. Listed(argv, <<>>, {})
  <2>1. Cardinality({}) = 0 /\ Len(<<>>) = 0
    BY FS_EmptySet
  <2> QED BY <2>1 DEF Listed
<1>5. TakenUpto(at - 1, excluded, pkgs, options, reset)
  <2>1. \A places : Listed(argv, <<>>, Upto(at - 1, places))
    BY <1>3, <1>4
  <2>2. \A l \in 1 .. at - 1 : FALSE
    BY <1>1
  <2> QED BY <1>1, <2>1, <2>2 DEF TakenUpto
<1> QED BY <1>1, <1>2, <1>5 DEF ParseInv, ArgsAsWritten

LEMMA ParseStep == ParseInv /\ [CommandNext]_<<vars, parsing>> => ParseInv'
<1> SUFFICES ASSUME ParseInv, [CommandNext]_<<vars, parsing>> PROVE ParseInv'
  OBVIOUS
<1>1. CASE TakePacmanOption
  <2>1. /\ Parsing /\ SameLine /\ stage' = stage /\ at' = at + 1
        /\ TakesPacman /\ argv[at] = PacmanOption
        /\ options' = Append(options, argv[at])
        /\ excluded' = excluded /\ pkgs' = pkgs /\ reset' = reset
    BY <1>1 DEF TakePacmanOption, SameLine, IsPacmanOption
  <2>2. ~Wrong(at) /\ argv[at] \notin PackageNames
    BY <2>1, OptionsDiffer DEF Wrong
  <2> QED BY <2>1, <2>2, OptionsDiffer, TakesOne
<1>2. CASE TakeExclude
  BY <1>2, TakesTwo
<1>3. CASE TakePackage
  <2>1. /\ Parsing /\ SameLine /\ stage' = stage /\ at' = at + 1
        /\ ~UpdateCommand /\ argv[at] \in PackageNames /\ pkgs' = Append(pkgs, argv[at])
        /\ excluded' = excluded /\ options' = options /\ reset' = reset
    BY <1>3 DEF TakePackage, SameLine
  <2>2. ~Wrong(at)
    BY <2>1 DEF Wrong
  <2> QED BY <2>1, <2>2, OptionsDiffer, TakesOne
<1>4. CASE TakeReset
  <2>1. /\ Parsing /\ SameLine /\ stage' = stage /\ at' = at + 1
        /\ TakesReset /\ argv[at] = ResetOption /\ reset' = TRUE
        /\ excluded' = excluded /\ options' = options /\ pkgs' = pkgs
    BY <1>4 DEF TakeReset, SameLine
  <2>2. ~Wrong(at) /\ argv[at] \notin PackageNames
    BY <2>1, OptionsDiffer DEF Wrong
  <2> QED BY <2>1, <2>2, OptionsDiffer, TakesOne
<1>5. CASE EndParse
  BY <1>5, EndsAsWritten
<1>6. CASE Refuse
  BY <1>6, RefusesWrong
<1>7. CASE Collect
  <2>1. stage' = "run" /\ argv' = <<>> /\ at' = 1
    BY <1>7 DEF Collect
  <2>2. argv' \in Seq(Names) /\ Len(argv') = 0
    BY <2>1
  <2> QED BY <2>1, <2>2 DEF ParseInv, ArgsAsWritten
<1>8. CASE Filter \/ UNCHANGED <<vars, parsing>>
  <2>1. UNCHANGED <<stage, given, argv, at, excluded, pkgs, options, reset>>
    BY <1>8 DEF Filter, parsing
  <2>2. CASE stage = "parse"
    <3>1. SameLine /\ stage' = "parse" /\ at' = at
      BY <2>1, <2>2 DEF SameLine
    <3>2. argv \in Seq(Names) /\ at \in 1 .. Len(argv) + 1
          /\ ~Operand(at) /\ TakenUpto(at - 1, excluded, pkgs, options, reset)
      BY <2>2 DEF ParseInv
    <3> QED BY <2>1, <3>1, <3>2, GoesOn
  <2>3. ArgsAsWritten'
    BY <2>1 DEF ParseInv, ArgsAsWritten, Looked, Operand, Wrong, UpdateCommand, TakesPacman,
                TakesReset
  <2>4. CASE stage # "parse"
    BY <2>1, <2>3, <2>4 DEF ParseInv
  <2> QED BY <2>2, <2>4
<1> QED BY <1>1, <1>2, <1>3, <1>4, <1>5, <1>6, <1>7, <1>8 DEF CommandNext, Parse

\* Both parsers take every command line as it is written, however long it is
\* and whatever the operands look like.
THEOREM TakenAsWritten == CommandSpec => []ArgsAsWritten
<1>1. CommandInit => ParseInv
  BY ParseStart
<1>2. ParseInv /\ [CommandNext]_<<vars, parsing>> => ParseInv'
  BY ParseStep
<1>3. ParseInv => ArgsAsWritten
  BY DEF ParseInv
<1> QED BY <1>1, <1>2, <1>3, PTL DEF CommandSpec

-----------------------------------------------------------------------------
\* The excluded names are arguments.
ExcludedTyped == excluded \in Seq(Names)

\* Before main() has collected anything there is nothing to walk over.
LEMMA IdleIInv == Idle => IInv
<1> SUFFICES ASSUME Idle PROVE IInv
  OBVIOUS
<1>0. /\ command = "INSTALL_DOWNGRADES" /\ pass = "summary"
      /\ namelist = <<>> /\ ignore = <<>> /\ i = 1 /\ j = 1
      /\ kept = <<>> /\ limit = 0 /\ out = <<>>
  BY DEF Idle
<1>1. node \in [Names -> Nodes]
  <2>1. [non_aur |-> TRUE, git |-> TRUE, update |-> "UPGRADE"] \in Nodes
    BY DEF Nodes
  <2>2. (CHOOSE nd \in Nodes : TRUE) \in Nodes
    BY <2>1
  <2> QED BY <2>2 DEF Idle
<1>2. TypeOK
  BY <1>0, <1>1 DEF TypeOK, Commands
<1>3. InputsSorted
  BY <1>0 DEF InputsSorted, StrictlySorted, Sorted
<1>4. PassedAccounted /\ KeptPassed /\ StrictlySorted(kept)
  BY <1>0 DEF PassedAccounted, KeptPassed, StrictlySorted
<1>5. InStep
  BY <1>0 DEF InStep
<1>6. ExactWhenInstalled
  BY <1>0 DEF ExactWhenInstalled, Elements
<1> QED BY <1>2, <1>3, <1>4, <1>5, <1>6 DEF IInv

\* What main() collects can be walked over: both lists are sorted names, and
\* both cursors are at their beginning.
LEMMA CollectIInv == IInv /\ Idle /\ ExcludedTyped /\ Collect => IInv'
<1> SUFFICES ASSUME IInv, Idle, ExcludedTyped, Collect PROVE IInv'
  OBVIOUS
<1>0. /\ command' = given /\ given \in Commands
      /\ pass' = (IF given \in FilterCommands THEN "count" ELSE "summary")
      /\ i' = 1 /\ j' = 1 /\ kept' = <<>> /\ limit' = 0 /\ out' = <<>>
  BY DEF Collect, UpdateCommand, Idle
<1>1. node' \in [Names -> Nodes]
  <2>1. PICK nodes \in [PackageNames -> NodeKinds] :
          node' = [n \in Names |-> IF n \in PackageNames THEN nodes[n] ELSE node[n]]
    BY DEF Collect
  <2>2. node \in [Names -> Nodes]
    BY DEF IInv, TypeOK
  <2>3. \A n \in Names : (IF n \in PackageNames THEN nodes[n] ELSE node[n]) \in Nodes
    BY <2>1, <2>2, NodeKindsAssumption
  <2> QED BY <2>1, <2>3
<1>2. namelist' \in Seq(Names) /\ StrictlySorted(namelist)'
  <2>1. PICK installed \in Lists(MaxInstalled) :
          StrictlySorted(installed) /\ namelist' = installed
    BY DEF Collect
  <2>2. installed \in Seq(Names)
    BY <2>1, ListsAreSequences, BoundsAssumption
  <2> QED BY <2>1, <2>2 DEF StrictlySorted
<1>3. ignore' \in Seq(Names) /\ Sorted(ignore)'
  <2>1. PICK order \in Bijection(DOMAIN excluded, DOMAIN excluded) :
          /\ ignore' = [k \in DOMAIN excluded |-> excluded[order[k]]]
          /\ Sorted(ignore')
    BY DEF Collect
  <2>2. /\ excluded \in [1 .. Len(excluded) -> Names] /\ Len(excluded) \in Nat
        /\ DOMAIN excluded = 1 .. Len(excluded)
    BY DEF ExcludedTyped
  <2>3. order \in [DOMAIN excluded -> DOMAIN excluded]
    BY <2>1 DEF Bijection, Injection
  <2>4. \A k \in 1 .. Len(excluded) : excluded[order[k]] \in Names
    BY <2>2, <2>3
  <2>5. ignore' \in [1 .. Len(excluded) -> Names]
    BY <2>1, <2>2, <2>4
  <2>6. ignore' \in Seq(Names)
    BY <2>2, <2>5
  <2> QED BY <2>1, <2>6 DEF Sorted
<1>4. TypeOK'
  <2>1. pass' \in {"count", "fill", "done", "summary"}
    BY <1>0
  <2>2. i' \in 1 .. Len(namelist') + 1 /\ j' \in 1 .. Len(ignore') + 1
    BY <1>0, <1>2, <1>3
  <2> QED BY <1>0, <1>1, <1>2, <1>3, <2>1, <2>2 DEF TypeOK
<1>5. InputsSorted'
  BY <1>2, <1>3 DEF InputsSorted
<1>6. PassedAccounted' /\ KeptPassed' /\ StrictlySorted(kept)'
  BY <1>0 DEF PassedAccounted, KeptPassed, StrictlySorted
<1>7. InStep'
  BY <1>0 DEF InStep
<1>8. ExactWhenInstalled'
  BY <1>0 DEF ExactWhenInstalled, Elements
<1> QED BY <1>4, <1>5, <1>6, <1>7, <1>8 DEF IInv

\* From the arguments to the end of the walks.
RunInv == ParseInv /\ ExcludedTyped /\ IInv /\ (stage # "run" => Idle)

LEMMA ExcludedStep ==
  ParseInv /\ ExcludedTyped /\ [CommandNext]_<<vars, parsing>> => ExcludedTyped'
<1> SUFFICES ASSUME ParseInv, ExcludedTyped, [CommandNext]_<<vars, parsing>>
             PROVE  ExcludedTyped'
  OBVIOUS
<1>1. CASE TakeExclude
  <2>1. argv \in Seq(Names) /\ at \in Nat /\ at >= 1 /\ at < Len(argv) /\ Len(argv) \in Nat
    BY <1>1, CursorAt DEF TakeExclude
  <2>2. argv[at + 1] \in Names
    BY <2>1
  <2>3. excluded' = Append(excluded, argv[at + 1])
    BY <1>1 DEF TakeExclude
  <2> QED BY <2>2, <2>3 DEF ExcludedTyped
<1>2. CASE Collect
  BY <1>2 DEF Collect, ExcludedTyped
<1>3. CASE ~TakeExclude /\ ~Collect
  <2>1. excluded' = excluded
    BY <1>3 DEF CommandNext, Parse, TakePacmanOption, TakePackage, TakeReset, EndParse, Refuse,
                Filter, parsing
  <2> QED BY <2>1 DEF ExcludedTyped
<1> QED BY <1>1, <1>2, <1>3

LEMMA RunStep == RunInv /\ [CommandNext]_<<vars, parsing>> => RunInv'
<1> SUFFICES ASSUME RunInv, [CommandNext]_<<vars, parsing>> PROVE RunInv'
  OBVIOUS
<1>1. ParseInv' /\ ExcludedTyped'
  BY ParseStep, ExcludedStep DEF RunInv
<1>2. CASE Parse
  <2>1. UNCHANGED vars /\ stage = "parse"
    BY <1>2 DEF Parse, Parsing, TakePacmanOption, TakeExclude, TakePackage, TakeReset, EndParse,
                Refuse
  <2>2. IInv' /\ Idle
    BY <2>1, StutterIInv DEF RunInv
  <2>3. Idle'
    BY <2>1, <2>2 DEF Idle, vars
  <2> QED BY <1>1, <2>2, <2>3 DEF RunInv
<1>3. CASE Collect
  <2>1. stage = "parsed" /\ stage' = "run"
    BY <1>3 DEF Collect
  <2> QED BY <1>1, <1>3, <2>1, CollectIInv DEF RunInv
<1>4. CASE Filter
  <2>1. stage' = "run" /\ Next
    BY <1>4 DEF Filter, parsing
  <2>2. IInv'
    BY <2>1, SkipExcludedIInv, SkipIneligibleIInv, KeepIInv, WalkEndIInv DEF Next, RunInv
  <2> QED BY <1>1, <2>1, <2>2 DEF RunInv
<1>5. CASE UNCHANGED <<vars, parsing>>
  <2>1. UNCHANGED vars /\ stage' = stage
    BY <1>5 DEF parsing
  <2>2. IInv'
    BY <2>1, StutterIInv DEF RunInv
  <2>3. Idle => Idle'
    BY <2>1 DEF Idle, vars
  <2> QED BY <1>1, <2>1, <2>2, <2>3 DEF RunInv
<1> QED BY <1>2, <1>3, <1>4, <1>5 DEF CommandNext

\* What holds of the walks holds of them behind the parsers: main() gives
\* filter_pkg_updates() nothing but sorted lists, whatever the command line.
THEOREM WalksOfCommand ==
  CommandSpec => [](TypeOK /\ WalkSelects /\ ExactWhenInstalled)
<1>1. CommandInit => RunInv
  BY ParseStart, IdleIInv DEF CommandInit, RunInv, ExcludedTyped
<1>2. RunInv /\ [CommandNext]_<<vars, parsing>> => RunInv'
  BY RunStep
<1>3. RunInv => TypeOK /\ WalkSelects /\ ExactWhenInstalled
  BY WalkComplete, WalkOrdered DEF RunInv, IInv, WalkSelects
<1> QED BY <1>1, <1>2, <1>3, PTL DEF CommandSpec
=============================================================================
