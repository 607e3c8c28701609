--------------------------- MODULE AurQueryProofs ---------------------------
(***************************************************************************)
(* The dictionary of AurQuery for a stash of any size and any hash: every  *)
(* chain of hashtable.c ends, finds its nodes, and no package is dropped.  *)
(* And for any answer: what process_response_json() writes, and that       *)
(* hashtable and walks implement PackageDict.                              *)
(*                                                                         *)
(* A node goes to the end of its bucket when it takes the next place of    *)
(* the stash, so that every chain goes up in the stash: each bucket and    *)
(* node points to the next higher node of the same bucket.                 *)
(*                                                                         *)
(* For the answer, the places the loops may be at follow from how tokens   *)
(* nest; from them follows what a walk has read when it ends, then what    *)
(* the nodes say, then what is kept of the command line.                   *)
(***************************************************************************)
EXTENDS AurQuery, WellFoundedInduction, TLAPS

\* A set that has 0 and the successor of each of its elements has every number.
LEMMA SetInduction ==
  ASSUME NEW S, 0 \in S, \A n \in Nat : n \in S => n + 1 \in S
  PROVE  \A n \in Nat : n \in S
<1> DEFINE Less == {ss \in Nat \X Nat : ss[1] < ss[2]}
           Missing == Nat \ S
<1>1. IsWellFoundedOn(Less, Nat)
  BY NatLessThanWellFounded DEF OpToRel
<1> SUFFICES ASSUME Missing # {} PROVE FALSE
  OBVIOUS
<1>2. PICK n \in Missing : \A m \in Missing : <<m, n>> \notin Less
  <2> HIDE DEF Less, Missing
  <2> QED BY <1>1, WFMin DEF Missing
<1>3. n - 1 \in Nat
  BY <1>2
<1>4. n - 1 \notin Missing
  <2>1. <<n - 1, n>> \in Nat \X Nat /\ <<n - 1, n>>[1] < <<n - 1, n>>[2]
    BY <1>3
  <2> QED BY <1>2, <2>1
<1>5. n - 1 + 1 \in S
  BY <1>3, <1>4
<1> QED BY <1>2, <1>3, <1>5

\* The same up to a bound, as a loop counts.
LEMMA CountInduction ==
  ASSUME NEW D, NEW n \in Nat, 0 \in D, \A m \in 1 .. n : m - 1 \in D => m \in D
  PROVE  \A m \in 0 .. n : m \in D
<1> DEFINE S == {m \in Nat : m <= n => m \in D}
<1>1. 0 \in S
  OBVIOUS
<1>2. \A m \in Nat : m \in S => m + 1 \in S
  <2> TAKE m \in Nat
  <2> HAVE m \in S
  <2> SUFFICES ASSUME m + 1 <= n PROVE m + 1 \in D
    OBVIOUS
  <2>1. m + 1 \in 1 .. n /\ (m + 1) - 1 = m /\ m \in D
    OBVIOUS
  <2> QED BY <2>1
<1>3. \A m \in Nat : m \in S
  <2> HIDE DEF S
  <2> QED BY <1>1, <1>2, SetInduction
<1> QED BY <1>3

\* A set with a number up to a bound has a least one.
LEMMA LeastOf ==
  ASSUME NEW H, NEW n \in Nat, \E m \in 0 .. n : m \in H
  PROVE  \E m \in 0 .. n : m \in H /\ \A l \in 0 .. m - 1 : l \notin H
<1> SUFFICES ASSUME \A m \in 0 .. n : m \in H => \E l \in 0 .. m - 1 : l \in H
             PROVE  FALSE
  OBVIOUS
<1> DEFINE D == {m \in 0 .. n : \A l \in 0 .. m : l \notin H}
<1>1. 0 \in D
  OBVIOUS
<1>2. ASSUME NEW m \in 1 .. n, m - 1 \in D PROVE m \in D
  <2>1. \A l \in 0 .. m : l \in 0 .. m - 1 \/ l = m
    OBVIOUS
  <2> QED BY <1>2, <2>1
<1>3. \A m \in 0 .. n : m \in D
  <2> HIDE DEF D
  <2> QED BY <1>1, <1>2, CountInduction
<1> QED BY <1>3

-----------------------------------------------------------------------------
\* A walk of n rounds from p, and what it has come to after each of them.
Walks(f, n, p, link) == f[0] = p /\ \A m \in 1 .. n : f[m] = link[f[m - 1]]

\* It has a result after each round.
LEMMA WalkExists ==
  ASSUME NEW n \in Nat, NEW T, NEW link \in [T -> T], NEW p \in T
  PROVE  \E f \in [0 .. n -> T] : Walks(f, n, p, link)
<1> DEFINE Upto(f, m) == f[0] = p /\ \A l \in 1 .. m : f[l] = link[f[l - 1]]
           D == {m \in Nat : \E f \in [0 .. m -> T] : Upto(f, m)}
<1>1. 0 \in D
  <2>1. [l \in 0 .. 0 |-> p] \in [0 .. 0 -> T] /\ Upto([l \in 0 .. 0 |-> p], 0)
    OBVIOUS
  <2> QED BY <2>1
<1>2. ASSUME NEW m \in 1 .. n, m - 1 \in D PROVE m \in D
  <2>1. PICK f \in [0 .. m - 1 -> T] : Upto(f, m - 1)
    BY <1>2
  <2> DEFINE g == [l \in 0 .. m |-> IF l = m THEN link[f[m - 1]] ELSE f[l]]
  <2>2. /\ \A l \in 0 .. m - 1 : g[l] = f[l]
        /\ g[m] = link[f[m - 1]] /\ m - 1 \in 0 .. m - 1 /\ 0 \in 0 .. m - 1
    OBVIOUS
  <2>3. g \in [0 .. m -> T]
    BY <2>1, <2>2
  <2> HIDE DEF g
  <2>4. g[0] = p
    BY <2>1, <2>2
  <2>5. ASSUME NEW l \in 1 .. m PROVE g[l] = link[g[l - 1]]
    <3>1. CASE l = m
      BY <2>2, <3>1
    <3>2. CASE l # m
      <4>1. l \in 1 .. m - 1 /\ l \in 0 .. m - 1 /\ l - 1 \in 0 .. m - 1
        BY <3>2
      <4> QED BY <2>1, <2>2, <4>1
    <3> QED BY <3>1, <3>2
  <2>6. m \in Nat
    OBVIOUS
  <2> QED BY <2>3, <2>4, <2>5, <2>6
<1>3. n \in D
  <2>1. n \in 0 .. n
    OBVIOUS
  <2> HIDE DEF D
  <2> QED BY <1>1, <1>2, <2>1, CountInduction
<1> QED BY <1>3 DEF Walks

-----------------------------------------------------------------------------
\* A node and a table have the fields of the code's structures.
IsNode(r) ==
  r = [field \in {"pkg_name", "installed_ver", "updated_ver", "next_node", "package_base",
                  "update_type", "is_non_aur", "is_git"} |-> r[field]]
IsTable(t) ==
  /\ t = [size |-> t.size, map |-> t.map, stash |-> t.stash, n_items |-> t.n_items]
  /\ t.size \in Nat /\ t.map \in [0 .. t.size - 1 -> 0 .. t.size]
  /\ t.stash = [p \in 1 .. t.size |-> t.stash[p]]
  /\ \A p \in 1 .. t.size : /\ IsNode(t.stash[p]) /\ t.stash[p].pkg_name \in Texts
                            /\ t.stash[p].next_node \in 0 .. t.size

\* The bucket of a node, and where a pointer leads.
BucketOf(t, p) == Bucket(t, t.stash[p].pkg_name)
Link(t, p) == IF p = NULL THEN NULL ELSE t.stash[p].next_node

\* q is the first of the nodes p + 1 .. n in the bucket b, NULL when it has none.
IsNext(t, n, p, b, q) ==
  IF q = NULL THEN \A r \in p + 1 .. n : BucketOf(t, r) # b
  ELSE q \in p + 1 .. n /\ BucketOf(t, q) = b /\ \A r \in p + 1 .. q - 1 : BucketOf(t, r) # b

\* The first n nodes, of different names, are linked in their order.
Distinct(t, n) == \A p, q \in 1 .. n : t.stash[p].pkg_name = t.stash[q].pkg_name => p = q
Linked(t, n) ==
  /\ n \in 0 .. t.size /\ Distinct(t, n)
  /\ \A b \in 0 .. t.size - 1 : IsNext(t, n, 0, b, t.map[b])
  /\ \A p \in 1 .. n : IsNext(t, n, p, BucketOf(t, p), t.stash[p].next_node)

\* A bucket is one of the table's.
LEMMA Buckets ==
  ASSUME NEW t, IsTable(t), t.size # 0, NEW key \in Texts
  PROVE  Bucket(t, key) \in 0 .. t.size - 1
<1>1. PICK h \in Nat : h = Hash[key]
  BY HashAssumption
<1>2. PICK n \in Nat : n = t.size /\ n > 0
  BY DEF IsTable
<1>3. h % n \in 0 .. n - 1
  BY <1>2
<1> QED BY <1>1, <1>2, <1>3 DEF Bucket

\* The pointers, one behind the other.
LEMMA FollowLinks ==
  ASSUME NEW t, IsTable(t), NEW p \in 0 .. t.size
  PROVE  /\ Follow(t, p)[0] = p
         /\ \A m \in 0 .. t.size : Follow(t, p)[m] \in 0 .. t.size
         /\ \A m \in 1 .. t.size : Follow(t, p)[m] = Link(t, Follow(t, p)[m - 1])
<1>n. PICK n \in Nat : n = t.size
  BY DEF IsTable
<1> DEFINE T == 0 .. n
           link == [q \in 0 .. n |-> IF q = NULL THEN NULL ELSE t.stash[q].next_node]
<1>1. link \in [T -> T] /\ \A q \in T : link[q] = Link(t, q)
  <2>1. \A q \in T : (IF q = NULL THEN NULL ELSE t.stash[q].next_node) \in T
    BY <1>n DEF IsTable, NULL
  <2> QED BY <2>1 DEF Link
<1> DEFINE Body(f) == [m \in 0 .. n |-> IF m = 0 THEN p ELSE link[f[m - 1]]]
           c == CHOOSE f : f = Body(f)
<1>2. Follow(t, p) = c
  BY <1>n DEF Follow
<1> HIDE DEF link
<1>3. \E f \in [0 .. n -> T] : f = Body(f)
  <2>1. PICK f \in [0 .. n -> T] : f[0] = p /\ \A m \in 1 .. n : f[m] = link[f[m - 1]]
    <3>1. link \in [T -> T] /\ p \in T
      BY <1>1, <1>n
    <3>2. \E f \in [0 .. n -> T] : Walks(f, n, p, link)
      <4> HIDE DEF T
      <4> QED BY <3>1, WalkExists
    <3> QED BY <3>2 DEF Walks
  <2>2. ASSUME NEW m \in 0 .. n PROVE f[m] = IF m = 0 THEN p ELSE link[f[m - 1]]
    <3>1. m = 0 \/ m \in 1 .. n
      OBVIOUS
    <3> QED BY <2>1, <3>1
  <2>3. f = [m \in 0 .. n |-> f[m]]
    OBVIOUS
  <2> QED BY <2>2, <2>3
<1>4. c = Body(c)
  <2> HIDE DEF Body
  <2> QED BY <1>3
<1>5. c[0] = p /\ \A m \in 1 .. n : c[m] = link[c[m - 1]]
  <2>1. \A f : f = Body(f) => f[0] = p /\ \A m \in 1 .. n : f[m] = link[f[m - 1]]
    OBVIOUS
  <2> HIDE DEF c, Body
  <2> QED BY <1>4, <2>1
<1> HIDE DEF c
<1>6. \A m \in 0 .. n : c[m] \in T
  <2> DEFINE D == {m \in 0 .. n : c[m] \in T}
  <2>1. 0 \in D
    BY <1>5, <1>n
  <2>2. ASSUME NEW m \in 1 .. n, m - 1 \in D PROVE m \in D
    <3>1. link[c[m - 1]] \in T /\ m \in 0 .. n
      BY <1>1, <2>2
    <3> QED BY <1>5, <3>1
  <2> HIDE DEF D
  <2>3. \A m \in 0 .. n : m \in D
    BY <2>1, <2>2, CountInduction
  <2> QED BY <2>3 DEF D
<1>7. \A m \in 1 .. n : c[m] = Link(t, c[m - 1])
  <2>1. \A m \in 1 .. n : m - 1 \in 0 .. n
    OBVIOUS
  <2> QED BY <1>1, <1>5, <1>6, <2>1
<1> QED BY <1>2, <1>5, <1>6, <1>7, <1>n

\* What is so of a chain after m pointers: it has gone up m nodes or ended,
\* and has passed no node of its bucket.
Along(t, n, b, f, m) ==
  /\ f[m] \in 0 .. n
  /\ f[m] # NULL => f[m] > m /\ BucketOf(t, f[m]) = b
  /\ \A r \in 1 .. n : BucketOf(t, r) = b =>
       (f[m] # NULL /\ r > f[m]) \/ \E l \in 0 .. m : f[l] = r

\* It stays so.
LEMMA ChainGoesUp ==
  ASSUME NEW t, IsTable(t), NEW n, Linked(t, n), NEW b \in 0 .. t.size - 1
  PROVE  \A m \in 0 .. t.size : Along(t, n, b, Follow(t, t.map[b]), m)
<1>n. PICK z \in Nat : z = t.size
  BY DEF IsTable
<1>0. t.map[b] \in 0 .. z /\ n \in 0 .. z
  BY <1>n DEF IsTable, Linked
<1>1. PICK f : f = Follow(t, t.map[b])
  OBVIOUS
<1>2. f[0] = t.map[b] /\ \A m \in 1 .. z : f[m] = Link(t, f[m - 1])
  BY <1>0, <1>1, <1>n, FollowLinks
<1>3. Along(t, n, b, f, 0)
  <2>1. IsNext(t, n, 0, b, f[0])
    BY <1>2 DEF Linked
  <2>2. CASE f[0] = NULL
    BY <1>0, <2>1, <2>2 DEF IsNext, Along, NULL
  <2>3. CASE f[0] # NULL
    <3>1. f[0] \in 1 .. n /\ BucketOf(t, f[0]) = b /\ \A r \in 1 .. f[0] - 1 : BucketOf(t, r) # b
      BY <2>1, <2>3 DEF IsNext
    <3>2. 0 \in 0 .. 0
      OBVIOUS
    <3> QED BY <1>0, <3>1, <3>2 DEF Along, NULL
  <2> QED BY <2>2, <2>3
<1>4. ASSUME NEW m \in 1 .. z, Along(t, n, b, f, m - 1) PROVE Along(t, n, b, f, m)
  <2>1. PICK g : g = f[m - 1]
    OBVIOUS
  <2>2. /\ g \in 0 .. n /\ (g # NULL => g > m - 1 /\ BucketOf(t, g) = b)
        /\ \A r \in 1 .. n : BucketOf(t, r) = b =>
             (g # NULL /\ r > g) \/ \E l \in 0 .. m - 1 : f[l] = r
    BY <1>4, <2>1 DEF Along
  <2>3. f[m] = IF g = NULL THEN NULL ELSE t.stash[g].next_node
    BY <1>2, <2>1 DEF Link
  <2>4. m \in 0 .. m /\ \A l \in 0 .. m - 1 : l \in 0 .. m
    OBVIOUS
  <2>5. CASE g = NULL
    <3>1. f[m] = NULL
      BY <2>3, <2>5
    <3>2. \A r \in 1 .. n : BucketOf(t, r) = b => \E l \in 0 .. m : f[l] = r
      BY <2>2, <2>4, <2>5
    <3> QED BY <1>0, <3>1, <3>2 DEF Along, NULL
  <2>6. CASE g # NULL
    <3>0. g \in 1 .. n /\ g >= m /\ BucketOf(t, g) = b
      BY <1>0, <2>2, <2>6 DEF NULL
    <3>1. IsNext(t, n, g, b, f[m])
      BY <2>3, <2>6, <3>0 DEF Linked
    <3>2. ASSUME NEW r \in 1 .. n, BucketOf(t, r) = b, r <= g PROVE \E l \in 0 .. m : f[l] = r
      BY <2>2, <2>4, <3>0, <3>2
    <3>3. CASE f[m] = NULL
      <4>1. \A r \in 1 .. n : BucketOf(t, r) = b => r <= g
        BY <1>0, <3>0, <3>1, <3>3 DEF IsNext
      <4> QED BY <1>0, <3>2, <3>3, <4>1 DEF Along, NULL
    <3>4. CASE f[m] # NULL
      <4>1. PICK q \in g + 1 .. n : q = f[m] /\ BucketOf(t, q) = b
                                    /\ \A r \in g + 1 .. q - 1 : BucketOf(t, r) # b
        BY <3>1, <3>4 DEF IsNext
      <4>2. q \in 0 .. n /\ q > m
        BY <1>0, <3>0, <4>1
      <4>3. ASSUME NEW r \in 1 .. n, BucketOf(t, r) = b
            PROVE  r > q \/ \E l \in 0 .. m : f[l] = r
        <5>1. r <= g \/ r = q \/ r > q
          BY <1>0, <3>0, <4>1, <4>3
        <5> QED BY <2>4, <3>2, <4>1, <4>3, <5>1
      <4> QED BY <3>4, <4>1, <4>2, <4>3 DEF Along
    <3> QED BY <3>3, <3>4
  <2> QED BY <2>5, <2>6
<1>5. \A m \in 0 .. z : Along(t, n, b, f, m)
  <2> DEFINE D == {m \in 0 .. z : Along(t, n, b, f, m)}
  <2>1. 0 \in D
    BY <1>3
  <2>2. \A m \in 1 .. z : m - 1 \in D => m \in D
    BY <1>4
  <2> HIDE DEF D
  <2>3. \A m \in 0 .. z : m \in D
    BY <2>1, <2>2, CountInduction
  <2> QED BY <2>3 DEF D
<1> QED BY <1>1, <1>5, <1>n

\* Every chain ends, its nodes are used ones, and each node of a bucket is in it.
LEMMA Chains ==
  ASSUME NEW t, IsTable(t), NEW n, Linked(t, n), NEW b \in 0 .. t.size - 1
  PROVE  /\ Follow(t, t.map[b])[t.size] = NULL
         /\ \A m \in 0 .. t.size : LET q == Follow(t, t.map[b])[m]
                                   IN  q # NULL => q \in 1 .. n /\ BucketOf(t, q) = b
         /\ \A r \in 1 .. n : BucketOf(t, r) = b =>
              \E l \in 0 .. t.size : Follow(t, t.map[b])[l] = r
<1>n. PICK z \in Nat : z = t.size
  BY DEF IsTable
<1>0. n \in 0 .. z
  BY <1>n DEF Linked
<1>1. PICK f : f = Follow(t, t.map[b])
  OBVIOUS
<1>2. \A m \in 0 .. z : Along(t, n, b, f, m)
  BY <1>1, <1>n, ChainGoesUp
<1>3. \A m \in 0 .. z : f[m] # NULL => f[m] \in 1 .. n /\ BucketOf(t, f[m]) = b
  BY <1>0, <1>2 DEF Along, NULL
<1>4. f[z] = NULL
  <2>1. Along(t, n, b, f, z)
    BY <1>2
  <2> QED BY <1>0, <2>1 DEF Along, NULL
<1>5. \A r \in 1 .. n : BucketOf(t, r) = b => \E l \in 0 .. z : f[l] = r
  <2>1. Along(t, n, b, f, z)
    BY <1>2
  <2> QED BY <1>4, <2>1 DEF Along
<1> QED BY <1>1, <1>3, <1>4, <1>5, <1>n

-----------------------------------------------------------------------------
\* The m-th node of the key's bucket is the one searched for.
HitAt(t, key, m) ==
  LET f == Follow(t, t.map[Bucket(t, key)])
  IN  f[m] # NULL /\ t.stash[f[m]].pkg_name = key

\* hashtable_find_inside_map() gives NULL or a node of the chain with the name.
LEMMA FindHits ==
  ASSUME NEW t, IsTable(t), NEW key
  PROVE  IF \E m \in 0 .. t.size : HitAt(t, key, m)
         THEN \E m \in 0 .. t.size : HitAt(t, key, m)
                /\ Find(t, key) = Follow(t, t.map[Bucket(t, key)])[m]
         ELSE Find(t, key) = NULL
<1>n. PICK z \in Nat : z = t.size
  BY DEF IsTable
<1> DEFINE f == Follow(t, t.map[Bucket(t, key)])
           First(m) == HitAt(t, key, m) /\ \A l \in 0 .. m - 1 : ~HitAt(t, key, l)
           c == CHOOSE m \in 0 .. t.size : First(m)
<1>1. Find(t, key) = IF \E m \in 0 .. t.size : HitAt(t, key, m) THEN f[c] ELSE NULL
  BY DEF Find, HitAt
<1>2. ASSUME NEW m \in 0 .. z, HitAt(t, key, m) PROVE \E l \in 0 .. z : First(l)
  <2> DEFINE H == {l \in 0 .. z : HitAt(t, key, l)}
  <2>1. m \in H
    BY <1>2
  <2>2. \E l \in 0 .. z : l \in H /\ \A h \in 0 .. l - 1 : h \notin H
    <3> HIDE DEF H
    <3> QED BY <2>1, LeastOf
  <2>3. PICK l \in 0 .. z : l \in H /\ \A h \in 0 .. l - 1 : h \notin H
    BY <2>2
  <2>4. \A h \in 0 .. l - 1 : h \in 0 .. z
    OBVIOUS
  <2> QED BY <2>3, <2>4
<1> HIDE DEF f
<1>3. CASE \E m \in 0 .. t.size : HitAt(t, key, m)
  <2>1. \E m \in 0 .. t.size : First(m)
    BY <1>2, <1>3, <1>n
  <2>2. c \in 0 .. t.size /\ First(c)
    <3> HIDE DEF First
    <3> QED BY <2>1
  <2> QED BY <1>1, <1>3, <2>2 DEF f
<1> QED BY <1>1, <1>3

\* Each used node is found under its name.
LEMMA FindsNode ==
  ASSUME NEW t, IsTable(t), NEW n, Linked(t, n), NEW p \in 1 .. n
  PROVE  Find(t, t.stash[p].pkg_name) = p
<1>n. PICK z \in Nat : z = t.size
  BY DEF IsTable
<1>0. n \in 0 .. z /\ p \in 1 .. z /\ z # 0
  BY <1>n DEF Linked
<1>1. PICK key \in Texts : key = t.stash[p].pkg_name
  BY <1>0, <1>n DEF IsTable
<1>2. PICK b \in 0 .. t.size - 1 : b = Bucket(t, key)
  BY <1>0, <1>1, <1>n, Buckets
<1>3. PICK f : f = Follow(t, t.map[b])
  OBVIOUS
<1>4. BucketOf(t, p) = b
  BY <1>1, <1>2 DEF BucketOf
<1>5. \E m \in 0 .. t.size : f[m] = p
  BY <1>3, <1>4, Chains
<1>6. \E m \in 0 .. t.size : HitAt(t, key, m)
  <2>1. PICK m \in 0 .. t.size : f[m] = p
    BY <1>5
  <2>2. f[m] # NULL /\ t.stash[f[m]].pkg_name = key
    BY <1>0, <1>1, <2>1 DEF NULL
  <2> QED BY <1>2, <1>3, <2>2 DEF HitAt
<1>7. PICK m \in 0 .. t.size : HitAt(t, key, m) /\ Find(t, key) = f[m]
  BY <1>2, <1>3, <1>6, FindHits
<1>8. f[m] \in 1 .. n /\ t.stash[f[m]].pkg_name = key
  <2>1. f[m] # NULL /\ t.stash[f[m]].pkg_name = key
    BY <1>2, <1>3, <1>7 DEF HitAt
  <2> QED BY <1>3, <2>1, Chains
<1> QED BY <1>1, <1>7, <1>8 DEF Linked, Distinct

\* A name that no used node has is not found.
LEMMA FindsNothing ==
  ASSUME NEW t, IsTable(t), t.size # 0, NEW n, Linked(t, n), NEW key \in Texts,
         \A p \in 1 .. n : t.stash[p].pkg_name # key
  PROVE  Find(t, key) = NULL
<1>1. PICK b \in 0 .. t.size - 1 : b = Bucket(t, key)
  BY Buckets
<1>2. ASSUME NEW m \in 0 .. t.size PROVE ~HitAt(t, key, m)
  <2>1. Follow(t, t.map[b])[m] # NULL => Follow(t, t.map[b])[m] \in 1 .. n
    BY Chains
  <2> QED BY <1>1, <2>1 DEF HitAt
<1> QED BY <1>2, FindHits

-----------------------------------------------------------------------------
\* The tables have the same nodes under the same names.
SameNames(t, u) ==
  /\ u.size = t.size /\ u.n_items = t.n_items
  /\ \A p \in 1 .. t.size : u.stash[p].pkg_name = t.stash[p].pkg_name

\* They have the same contents in them.
SameEntries(t, u) == \A p \in 1 .. t.size : EntryOf(u.stash[p]) = EntryOf(t.stash[p])

\* With one node more, a pointer that leads somewhere stays right; NULL does
\* when the node is of another bucket, and else must lead to the node.
LEMMA NextStays ==
  ASSUME NEW t, NEW u, SameNames(t, u), NEW z \in Nat, z = t.size, NEW n \in 0 .. z,
         n + 1 <= z, NEW a \in 0 .. n, NEW b, NEW q, IsNext(t, n, a, b, q)
  PROVE  IF q = NULL /\ BucketOf(t, n + 1) = b THEN IsNext(u, n + 1, a, b, n + 1)
         ELSE IsNext(u, n + 1, a, b, q)
<1>1. \A r \in 1 .. z : BucketOf(u, r) = BucketOf(t, r)
  BY DEF SameNames, BucketOf, Bucket
<1>2. CASE q # NULL
  <2>1. q \in a + 1 .. n /\ BucketOf(t, q) = b /\ \A r \in a + 1 .. q - 1 : BucketOf(t, r) # b
    BY <1>2 DEF IsNext
  <2>2. q \in a + 1 .. n + 1 /\ q \in 1 .. z /\ \A r \in a + 1 .. q - 1 : r \in 1 .. z
    BY <2>1
  <2> QED BY <1>1, <1>2, <2>1, <2>2 DEF IsNext
<1>3. CASE q = NULL
  <2>1. \A r \in a + 1 .. n : BucketOf(t, r) # b
    BY <1>3 DEF IsNext
  <2>2. \A r \in a + 1 .. n + 1 : r \in 1 .. z /\ (r \in a + 1 .. n \/ r = n + 1)
    OBVIOUS
  <2>3. /\ n + 1 \in a + 1 .. n + 1 /\ n + 1 # 0
        /\ \A r \in a + 1 .. n + 1 - 1 : r \in a + 1 .. n /\ r \in 1 .. z
    OBVIOUS
  <2>4. CASE BucketOf(t, n + 1) = b
    BY <1>1, <1>3, <2>1, <2>2, <2>3, <2>4 DEF IsNext, NULL
  <2>5. CASE BucketOf(t, n + 1) # b
    BY <1>1, <1>3, <2>1, <2>2, <2>5 DEF IsNext
  <2> QED BY <2>4, <2>5
<1> QED BY <1>2, <1>3

\* The table u has the next node p behind the end of its chain in t.
Appended(t, u, p) ==
  /\ \A b \in 0 .. t.size - 1 :
       u.map[b] = IF t.map[b] = NULL /\ BucketOf(t, p) = b THEN p ELSE t.map[b]
  /\ \A q \in 1 .. p - 1 :
       u.stash[q].next_node = IF t.stash[q].next_node = NULL /\ BucketOf(t, p) = BucketOf(t, q)
                              THEN p ELSE t.stash[q].next_node
  /\ u.stash[p].next_node = NULL

\* That is linked in the order of the nodes again.
LEMMA AppendedLinked ==
  ASSUME NEW t, NEW u, SameNames(t, u), t.size \in Nat, NEW n, Linked(t, n), n + 1 <= t.size,
         \A p \in 1 .. n : t.stash[p].pkg_name # t.stash[n + 1].pkg_name,
         Appended(t, u, n + 1)
  PROVE  Linked(u, n + 1)
<1>n. PICK z \in Nat : z = t.size
  OBVIOUS
<1>0. n \in 0 .. z /\ n + 1 \in 1 .. z /\ n + 1 <= z /\ u.size = z
  BY <1>n DEF Linked, SameNames
<1>1. Distinct(u, n + 1)
  <2>1. \A p \in 1 .. n + 1 : p \in 1 .. z /\ (p \in 1 .. n \/ p = n + 1)
    BY <1>0
  <2>2. \A p \in 1 .. z : u.stash[p].pkg_name = t.stash[p].pkg_name
    BY <1>n DEF SameNames
  <2> QED BY <2>1, <2>2 DEF Distinct, Linked
<1>2. ASSUME NEW b \in 0 .. z - 1 PROVE IsNext(u, n + 1, 0, b, u.map[b])
  <2>1. IsNext(t, n, 0, b, t.map[b]) /\ 0 \in 0 .. n
    BY <1>0, <1>n, <1>2 DEF Linked
  <2>2. u.map[b] = IF t.map[b] = NULL /\ BucketOf(t, n + 1) = b THEN n + 1 ELSE t.map[b]
    BY <1>n, <1>2 DEF Appended
  <2> QED BY <1>0, <1>n, <2>1, <2>2, NextStays
<1>3. ASSUME NEW p \in 1 .. n PROVE IsNext(u, n + 1, p, BucketOf(u, p), u.stash[p].next_node)
  <2>1. IsNext(t, n, p, BucketOf(t, p), t.stash[p].next_node) /\ p \in 0 .. n /\ p \in 1 .. z
    BY <1>0, <1>3 DEF Linked
  <2>2. p \in 1 .. n + 1 - 1
    BY <1>0, <1>3
  <2>3. u.stash[p].next_node = IF t.stash[p].next_node = NULL /\ BucketOf(t, n + 1) = BucketOf(t, p)
                               THEN n + 1 ELSE t.stash[p].next_node
    <3>1. \A q \in 1 .. n + 1 - 1 :
            u.stash[q].next_node = IF t.stash[q].next_node = NULL /\ BucketOf(t, n + 1) = BucketOf(t, q)
                                   THEN n + 1 ELSE t.stash[q].next_node
      BY <1>0 DEF Appended
    <3> QED BY <2>2, <3>1
  <2>4. BucketOf(u, p) = BucketOf(t, p)
    BY <1>n, <2>1 DEF SameNames, BucketOf, Bucket
  <2> QED BY <1>0, <1>n, <2>1, <2>3, <2>4, NextStays
<1>4. IsNext(u, n + 1, n + 1, BucketOf(u, n + 1), u.stash[n + 1].next_node)
  <2>1. u.stash[n + 1].next_node = NULL
    BY DEF Appended
  <2>2. \A r \in n + 1 + 1 .. n + 1 : FALSE
    BY <1>0
  <2> QED BY <2>1, <2>2 DEF IsNext
<1>5. \A p \in 1 .. n + 1 : p \in 1 .. n \/ p = n + 1
  BY <1>0
<1> QED BY <1>0, <1>1, <1>2, <1>3, <1>4, <1>5 DEF Linked

\* The chain of a bucket that is not empty has a last node, the only used one of
\* the bucket that leads nowhere.
LEMMA LastOfChain ==
  ASSUME NEW t, IsTable(t), NEW n, Linked(t, n), NEW b \in 0 .. t.size - 1, t.map[b] # NULL
  PROVE  \E q \in Chain(t, t.map[b]) : t.stash[q].next_node = NULL
<1>n. PICK z \in Nat : z = t.size
  BY DEF IsTable
<1>1. PICK f : f = Follow(t, t.map[b])
  OBVIOUS
<1>0. t.map[b] \in 0 .. t.size
  BY DEF IsTable
<1>2. f[0] # NULL /\ f[z] = NULL /\ \A m \in 1 .. z : f[m] = Link(t, f[m - 1])
  BY <1>0, <1>1, <1>n, FollowLinks, Chains
<1> DEFINE H == {m \in 0 .. z : f[m] = NULL}
<1>3. \E m \in 0 .. z : m \in H
  BY <1>2
<1>4. PICK m \in 0 .. z : m \in H /\ \A l \in 0 .. m - 1 : l \notin H
  <2> HIDE DEF H
  <2> QED BY <1>3, LeastOf
<1>5. m \in 1 .. z /\ m - 1 \in 0 .. m - 1 /\ m - 1 \in 0 .. z
  BY <1>2, <1>4
<1>6. f[m - 1] # NULL /\ f[m] = NULL
  BY <1>4, <1>5
<1>7. t.stash[f[m - 1]].next_node = NULL
  BY <1>2, <1>5, <1>6 DEF Link
<1>8. f[m - 1] \in Chain(t, t.map[b])
  BY <1>1, <1>5, <1>6, <1>n DEF Chain
<1> QED BY <1>7, <1>8

LEMMA OneLast ==
  ASSUME NEW t, IsTable(t), NEW n, Linked(t, n), NEW b \in 0 .. t.size - 1,
         NEW q \in Chain(t, t.map[b]), t.stash[q].next_node = NULL
  PROVE  /\ q \in 1 .. n /\ BucketOf(t, q) = b
         /\ \A p \in 1 .. n : BucketOf(t, p) = b /\ t.stash[p].next_node = NULL => p = q
<1>n. PICK z \in Nat : z = t.size
  BY DEF IsTable
<1>0. n \in 0 .. z
  BY <1>n DEF Linked
<1>1. q \in 1 .. n /\ BucketOf(t, q) = b
  BY Chains DEF Chain
<1>2. \A p \in 1 .. n : t.stash[p].next_node = NULL =>
        \A r \in p + 1 .. n : BucketOf(t, r) # BucketOf(t, p)
  BY DEF Linked, IsNext
<1>3. ASSUME NEW p \in 1 .. n, BucketOf(t, p) = b, t.stash[p].next_node = NULL PROVE p = q
  <2>1. ~(p \in q + 1 .. n) /\ ~(q \in p + 1 .. n)
    BY <1>1, <1>2, <1>3
  <2> QED BY <1>0, <1>1, <2>1
<1> QED BY <1>1, <1>3

-----------------------------------------------------------------------------
\* Tables whose nodes differ in one pointer.
LEMMA Repoint ==
  ASSUME NEW t, IsTable(t), NEW p \in 1 .. t.size, NEW x \in 0 .. t.size
  PROVE  LET u == [t EXCEPT !.stash[p].next_node = x]
         IN  /\ IsTable(u) /\ SameNames(t, u) /\ SameEntries(t, u) /\ u.map = t.map
             /\ \A q \in 1 .. t.size :
                  u.stash[q].next_node = IF q = p THEN x ELSE t.stash[q].next_node
<1> DEFINE r == [t.stash[p] EXCEPT !.next_node = x]
           u == [t EXCEPT !.stash[p].next_node = x]
<1>1. /\ u = [size |-> u.size, map |-> u.map, stash |-> u.stash, n_items |-> u.n_items]
      /\ u.size = t.size /\ u.map = t.map /\ u.n_items = t.n_items
      /\ u.stash = [t.stash EXCEPT ![p] = r]
  <2>1. PICK n, m, s, i : t = [size |-> n, map |-> m, stash |-> s, n_items |-> i]
    BY DEF IsTable
  <2>2. u = [size |-> n, map |-> m, stash |-> [s EXCEPT ![p].next_node = x], n_items |-> i]
    BY ONLY <2>1
  <2> QED BY <2>1, <2>2
<1>2. IsNode(r) /\ r.pkg_name = t.stash[p].pkg_name /\ r.next_node = x
      /\ EntryOf(r) = EntryOf(t.stash[p])
  <2>0. IsNode(t.stash[p])
    BY DEF IsTable
  <2>1. /\ IsNode(r) /\ r.pkg_name = t.stash[p].pkg_name /\ r.next_node = x
        /\ r.installed_ver = t.stash[p].installed_ver /\ r.updated_ver = t.stash[p].updated_ver
        /\ r.package_base = t.stash[p].package_base /\ r.is_non_aur = t.stash[p].is_non_aur
        /\ r.update_type = t.stash[p].update_type
    BY ONLY <2>0 DEF IsNode
  <2> HIDE DEF r
  <2> QED BY <2>1 DEF EntryOf
<1> HIDE DEF r, u
<1>3. \A q \in 1 .. t.size : u.stash[q] = IF q = p THEN r ELSE t.stash[q]
  BY <1>1 DEF IsTable
<1>4. u.stash = [q \in 1 .. t.size |-> u.stash[q]]
  BY <1>1 DEF IsTable
<1>5. SameNames(t, u)
  BY <1>1, <1>2, <1>3 DEF SameNames
<1>6. IsTable(u)
  BY <1>1, <1>2, <1>3, <1>4 DEF IsTable
<1>7. \A q \in 1 .. t.size : u.stash[q].next_node = IF q = p THEN x ELSE t.stash[q].next_node
  BY <1>2, <1>3
<1>8. SameEntries(t, u)
  BY <1>2, <1>3 DEF SameEntries
<1> QED BY <1>1, <1>5, <1>6, <1>7, <1>8 DEF u

\* Tables that differ in one bucket.
LEMMA Rebucket ==
  ASSUME NEW t, IsTable(t), NEW b \in 0 .. t.size - 1, NEW x \in 0 .. t.size
  PROVE  LET u == [t EXCEPT !.map[b] = x]
         IN  /\ IsTable(u) /\ SameNames(t, u) /\ u.stash = t.stash
             /\ \A c \in 0 .. t.size - 1 : u.map[c] = IF c = b THEN x ELSE t.map[c]
<1> DEFINE u == [t EXCEPT !.map[b] = x]
<1>1. /\ u = [size |-> u.size, map |-> u.map, stash |-> u.stash, n_items |-> u.n_items]
      /\ u.size = t.size /\ u.stash = t.stash /\ u.n_items = t.n_items
      /\ u.map = [t.map EXCEPT ![b] = x]
  <2>1. PICK n, m, s, i : t = [size |-> n, map |-> m, stash |-> s, n_items |-> i]
    BY DEF IsTable
  <2>2. u = [size |-> n, map |-> [m EXCEPT ![b] = x], stash |-> s, n_items |-> i]
    BY ONLY <2>1
  <2> QED BY <2>1, <2>2
<1> HIDE DEF u
<1>2. u.map \in [0 .. t.size - 1 -> 0 .. t.size]
      /\ \A c \in 0 .. t.size - 1 : u.map[c] = IF c = b THEN x ELSE t.map[c]
  BY <1>1 DEF IsTable
<1>3. SameNames(t, u)
  BY <1>1 DEF SameNames
<1>4. IsTable(u)
  BY <1>1, <1>2 DEF IsTable
<1> QED BY <1>1, <1>2, <1>3, <1>4 DEF u

\* The next node goes to the end of its bucket.
LEMMA AppendNext ==
  ASSUME NEW t, IsTable(t), NEW n, Linked(t, n), n + 1 <= t.size,
         \A p \in 1 .. n : t.stash[p].pkg_name # t.stash[n + 1].pkg_name
  PROVE  LET u == AppendNode(t, n + 1)
         IN  IsTable(u) /\ SameNames(t, u) /\ SameEntries(t, u) /\ Linked(u, n + 1)
<1>n. PICK z \in Nat : z = t.size
  BY DEF IsTable
<1>0. n \in 0 .. z /\ n + 1 \in 1 .. z /\ z # 0
  BY <1>n DEF Linked
<1>1. PICK p \in 1 .. z : p = n + 1
  BY <1>0
<1>2. PICK b \in 0 .. z - 1 : b = BucketOf(t, p)
  <2>1. t.stash[p].pkg_name \in Texts
    BY <1>1, <1>n DEF IsTable
  <2> QED BY <1>0, <1>n, <2>1, Buckets DEF BucketOf
<1>3. \A q \in 1 .. p - 1 : q \in 1 .. n /\ q \in 1 .. z /\ q # p
  BY <1>0, <1>1
<1>4. 0 \in 0 .. z /\ NULL = 0 /\ p \in 0 .. z
  BY DEF NULL
<1> DEFINE u == AppendNode(t, p)
<1>5. CASE t.map[b] = NULL
  <2> DEFINE v == [t EXCEPT !.map[b] = p]
  <2>1. u = [v EXCEPT !.stash[p].next_node = NULL]
    BY <1>2, <1>5 DEF AppendNode, BucketOf
  <2>2. /\ IsTable(v) /\ SameNames(t, v) /\ v.stash = t.stash /\ v.size = t.size
        /\ \A c \in 0 .. z - 1 : v.map[c] = IF c = b THEN p ELSE t.map[c]
    BY <1>n, <1>4, Rebucket DEF SameNames
  <2> HIDE DEF u, v
  <2>3. /\ IsTable(u) /\ SameNames(v, u) /\ SameEntries(v, u) /\ u.map = v.map
        /\ \A q \in 1 .. z : u.stash[q].next_node = IF q = p THEN NULL ELSE v.stash[q].next_node
    <3>1. IsTable(v) /\ p \in 1 .. v.size /\ NULL \in 0 .. v.size
      BY <1>n, <1>4, <2>2
    <3>2. /\ IsTable(u) /\ SameNames(v, u) /\ SameEntries(v, u) /\ u.map = v.map
          /\ \A q \in 1 .. v.size :
               u.stash[q].next_node = IF q = p THEN NULL ELSE v.stash[q].next_node
      BY <2>1, <3>1, Repoint
    <3> QED BY <1>n, <2>2, <3>2
  <2>4. SameNames(t, u)
    BY <2>2, <2>3 DEF SameNames
  <2>5. \A q \in 1 .. n : BucketOf(t, q) # b
    <3>1. IsNext(t, n, 0, b, NULL)
      BY <1>2, <1>5, <1>n DEF Linked
    <3> QED BY <3>1 DEF IsNext
  <2>6. Appended(t, u, p)
    <3>1. \A c \in 0 .. z - 1 : u.map[c] = IF t.map[c] = NULL /\ b = c THEN p ELSE t.map[c]
      BY <1>5, <2>2, <2>3
    <3>2. \A q \in 1 .. p - 1 : u.stash[q].next_node = t.stash[q].next_node
                                /\ BucketOf(t, q) # b
      BY <1>3, <2>2, <2>3, <2>5
    <3> QED BY <1>2, <1>n, <2>3, <3>1, <3>2 DEF Appended
  <2>7. SameEntries(t, u)
    BY <2>2, <2>3 DEF SameEntries
  <2> QED BY <1>0, <1>1, <1>n, <2>3, <2>4, <2>6, <2>7, AppendedLinked DEF u
<1>6. CASE t.map[b] # NULL
  <2> DEFINE last == CHOOSE q \in Chain(t, t.map[b]) : t.stash[q].next_node = NULL
             v == [t EXCEPT !.stash[last].next_node = p]
  <2>1. u = [v EXCEPT !.stash[p].next_node = NULL]
    BY <1>2, <1>6 DEF AppendNode, BucketOf
  <2>2. last \in Chain(t, t.map[b]) /\ t.stash[last].next_node = NULL
    <3>1. \E q \in Chain(t, t.map[b]) : t.stash[q].next_node = NULL
      BY <1>2, <1>6, <1>n, LastOfChain
    <3> QED BY <3>1
  <2> HIDE DEF last
  <2>3. /\ last \in 1 .. n /\ BucketOf(t, last) = b
        /\ \A q \in 1 .. n : BucketOf(t, q) = b /\ t.stash[q].next_node = NULL => q = last
    BY <1>2, <1>n, <2>2, OneLast
  <2>4. last \in 1 .. z /\ last # p
    BY <1>0, <1>1, <2>3
  <2>5. /\ IsTable(v) /\ SameNames(t, v) /\ SameEntries(t, v) /\ v.map = t.map /\ v.size = t.size
        /\ \A q \in 1 .. z : v.stash[q].next_node = IF q = last THEN p ELSE t.stash[q].next_node
    <3>1. /\ IsTable(v) /\ SameNames(t, v) /\ SameEntries(t, v) /\ v.map = t.map
          /\ \A q \in 1 .. t.size : v.stash[q].next_node = IF q = last THEN p ELSE t.stash[q].next_node
      BY <1>n, <1>4, <2>4, Repoint
    <3> QED BY <1>n, <3>1 DEF SameNames
  <2> HIDE DEF u, v
  <2>6. /\ IsTable(u) /\ SameNames(v, u) /\ SameEntries(v, u) /\ u.map = v.map
        /\ \A q \in 1 .. z : u.stash[q].next_node = IF q = p THEN NULL ELSE v.stash[q].next_node
    <3>1. IsTable(v) /\ p \in 1 .. v.size /\ NULL \in 0 .. v.size
      BY <1>n, <1>4, <2>5
    <3>2. /\ IsTable(u) /\ SameNames(v, u) /\ SameEntries(v, u) /\ u.map = v.map
          /\ \A q \in 1 .. v.size :
               u.stash[q].next_node = IF q = p THEN NULL ELSE v.stash[q].next_node
      BY <2>1, <3>1, Repoint
    <3> QED BY <1>n, <2>5, <3>2
  <2>7. SameNames(t, u)
    BY <2>5, <2>6 DEF SameNames
  <2>8. Appended(t, u, p)
    <3>1. \A c \in 0 .. z - 1 : u.map[c] = IF t.map[c] = NULL /\ b = c THEN p ELSE t.map[c]
      BY <1>6, <2>5, <2>6
    <3>2. \A q \in 1 .. p - 1 :
            u.stash[q].next_node = IF t.stash[q].next_node = NULL /\ b = BucketOf(t, q)
                                   THEN p ELSE t.stash[q].next_node
      BY <1>3, <2>2, <2>3, <2>5, <2>6
    <3> QED BY <1>2, <1>n, <2>6, <3>1, <3>2 DEF Appended
  <2>9. SameEntries(t, u)
    BY <2>5, <2>6 DEF SameEntries
  <2> QED BY <1>0, <1>1, <1>n, <2>6, <2>7, <2>8, <2>9, AppendedLinked DEF u
<1> QED BY <1>1, <1>5, <1>6

-----------------------------------------------------------------------------
\* A node of the stash is assigned to; a place outside of it is not.
LEMMA PutNode ==
  ASSUME NEW t, IsTable(t), NEW p, NEW r,
         p \in 1 .. t.size => IsNode(r) /\ r.pkg_name \in Texts
                              /\ r.next_node = t.stash[p].next_node
  PROVE  LET v == [t EXCEPT !.stash[p] = r]
         IN  /\ IsTable(v) /\ v.size = t.size /\ v.map = t.map /\ v.n_items = t.n_items
             /\ \A q \in 1 .. t.size : v.stash[q] = IF q = p THEN r ELSE t.stash[q]
<1> DEFINE v == [t EXCEPT !.stash[p] = r]
<1>1. /\ v = [size |-> v.size, map |-> v.map, stash |-> v.stash, n_items |-> v.n_items]
      /\ v.size = t.size /\ v.map = t.map /\ v.n_items = t.n_items
      /\ v.stash = [t.stash EXCEPT ![p] = r]
  <2>1. PICK n, m, s, i : t = [size |-> n, map |-> m, stash |-> s, n_items |-> i]
    BY DEF IsTable
  <2>2. v = [size |-> n, map |-> m, stash |-> [s EXCEPT ![p] = r], n_items |-> i]
    BY ONLY <2>1
  <2> QED BY <2>1, <2>2
<1> HIDE DEF v
<1>2. \A q \in 1 .. t.size : v.stash[q] = IF q = p THEN r ELSE t.stash[q]
  BY <1>1 DEF IsTable
<1>3. v.stash = [q \in 1 .. t.size |-> v.stash[q]]
  BY <1>1 DEF IsTable
<1>4. IsTable(v)
  <2>1. ASSUME NEW q \in 1 .. t.size
        PROVE  IsNode(v.stash[q]) /\ v.stash[q].pkg_name \in Texts
               /\ v.stash[q].next_node \in 0 .. t.size
    <3>1. IsNode(t.stash[q]) /\ t.stash[q].pkg_name \in Texts
          /\ t.stash[q].next_node \in 0 .. t.size
      BY DEF IsTable
    <3> QED BY <1>2, <3>1
  <2> QED BY <1>1, <1>3, <2>1 DEF IsTable
<1> QED BY <1>1, <1>2, <1>4 DEF v

\* The number of used nodes is.
LEMMA PutCount ==
  ASSUME NEW t, IsTable(t), NEW x
  PROVE  LET v == [t EXCEPT !.n_items = x]
         IN  IsTable(v) /\ v.size = t.size /\ v.map = t.map /\ v.stash = t.stash /\ v.n_items = x
<1> DEFINE v == [t EXCEPT !.n_items = x]
<1>1. /\ v = [size |-> v.size, map |-> v.map, stash |-> v.stash, n_items |-> v.n_items]
      /\ v.size = t.size /\ v.map = t.map /\ v.stash = t.stash /\ v.n_items = x
  <2>1. PICK n, m, s, i : t = [size |-> n, map |-> m, stash |-> s, n_items |-> i]
    BY DEF IsTable
  <2>2. v = [size |-> n, map |-> m, stash |-> s, n_items |-> x]
    BY ONLY <2>1
  <2> QED BY <2>1, <2>2
<1> HIDE DEF v
<1>2. IsTable(v)
  BY <1>1 DEF IsTable
<1> QED BY <1>1, <1>2 DEF v

\* What the links depend on.
SameLinks(t, v, n) ==
  /\ v.size = t.size /\ v.map = t.map
  /\ \A p \in 1 .. n : /\ v.stash[p].pkg_name = t.stash[p].pkg_name
                       /\ v.stash[p].next_node = t.stash[p].next_node
LEMMA StillLinked ==
  ASSUME NEW t, NEW v, t.size \in Nat, NEW n, Linked(t, n), SameLinks(t, v, n)
  PROVE  Linked(v, n)
<1>n. PICK z \in Nat : z = t.size
  OBVIOUS
<1>0. n \in 0 .. z
  BY <1>n DEF Linked
<1>1. \A r \in 1 .. n : BucketOf(v, r) = BucketOf(t, r)
  BY DEF SameLinks, BucketOf, Bucket
<1>2. ASSUME NEW a \in 0 .. n, NEW b, NEW q, IsNext(t, n, a, b, q) PROVE IsNext(v, n, a, b, q)
  <2>1. \A r \in a + 1 .. n : r \in 1 .. n
    BY <1>0
  <2>2. CASE q = NULL
    BY <1>1, <1>2, <2>1, <2>2 DEF IsNext
  <2>3. CASE q # NULL
    <3>1. q \in a + 1 .. n /\ BucketOf(t, q) = b /\ \A r \in a + 1 .. q - 1 : BucketOf(t, r) # b
      BY <1>2, <2>3 DEF IsNext
    <3>2. \A r \in a + 1 .. q - 1 : r \in 1 .. n
      BY <1>0, <3>1
    <3> QED BY <1>1, <2>1, <2>3, <3>1, <3>2 DEF IsNext
  <2> QED BY <2>2, <2>3
<1>3. Distinct(v, n)
  BY DEF Linked, Distinct, SameLinks
<1>4. 0 \in 0 .. n /\ \A p \in 1 .. n : p \in 0 .. n
  BY <1>0
<1>5. \A b \in 0 .. v.size - 1 : IsNext(v, n, 0, b, v.map[b])
  BY <1>2, <1>4 DEF Linked, SameLinks
<1>6. ASSUME NEW p \in 1 .. n PROVE IsNext(v, n, p, BucketOf(v, p), v.stash[p].next_node)
  <2>1. IsNext(t, n, p, BucketOf(t, p), t.stash[p].next_node)
    BY DEF Linked
  <2> QED BY <1>1, <1>2, <1>4, <2>1 DEF SameLinks
<1> QED BY <1>0, <1>n, <1>3, <1>5, <1>6 DEF Linked, SameLinks

\* What setting a name keeps, and gives.
HasName(t, key) == \E p \in 1 .. t.n_items : t.stash[p].pkg_name = key
Sound(t) == IsTable(t) /\ Linked(t, t.n_items)
\* What is in the node p once it was set: its base is what it was.
Item(t, p, installed, new, non_aur) ==
  [installed |-> installed, updated |-> new, base |-> t.stash[p].package_base,
   non_aur |-> non_aur, update |-> "UP_TO_DATE"]
\* Only the entry of the name changes.
Gains(t, u, key, installed, new, non_aur) ==
  /\ t.n_items <= u.n_items
  /\ \A p \in 1 .. t.n_items : /\ u.stash[p].pkg_name = t.stash[p].pkg_name
                               /\ t.stash[p].pkg_name # key =>
                                    EntryOf(u.stash[p]) = EntryOf(t.stash[p])
  /\ \A p \in 1 .. u.n_items : p \in 1 .. t.n_items \/ u.stash[p].pkg_name = key
  /\ \A p \in 1 .. u.n_items : u.stash[p].pkg_name = key =>
       EntryOf(u.stash[p]) = Item(t, p, installed, new, non_aur)
  /\ \A p \in 1 .. t.size : u.stash[p].package_base = t.stash[p].package_base
Filled(t, u, key) ==
  /\ Sound(u) /\ u.size = t.size /\ u.n_items <= t.n_items + 1
  /\ \A name : HasName(t, name) => HasName(u, name)
  /\ t.n_items < t.size => HasName(u, key)

\* The table v has x nodes, and another name in the node p.
Renamed(t, v, x, p, key) ==
  /\ IsTable(v) /\ v.size = t.size /\ v.map = t.map /\ v.n_items = x
  /\ v.stash[p].pkg_name = key /\ v.stash[p].next_node = t.stash[p].next_node
  /\ \A q \in 1 .. t.size : q # p => v.stash[q] = t.stash[q]

\* The fields hashtable_set_item() assigns do not link the node.
LEMMA SetNode ==
  ASSUME NEW t, Sound(t), NEW p \in 1 .. t.size, NEW key \in Names, NEW installed, NEW new, NEW non_aur,
         NEW x
  PROVE  LET v == Set([t EXCEPT !.n_items = x], p, key, installed, new, non_aur)
         IN  Renamed(t, v, x, p, key) /\ EntryOf(v.stash[p]) = Item(t, p, installed, new, non_aur)
<1> DEFINE a == [t EXCEPT !.n_items = x]
           git == key \in GitNames
           r == [t.stash[p] EXCEPT !.pkg_name = key, !.installed_ver = installed,
                   !.updated_ver = new, !.is_non_aur = non_aur,
                   !.is_git = git, !.update_type = "UP_TO_DATE"]
           v == Set(a, p, key, installed, new, non_aur)
<1>1. IsTable(a) /\ a.size = t.size /\ a.map = t.map /\ a.stash = t.stash /\ a.n_items = x
  BY PutCount DEF Sound
<1> HIDE DEF a
<1>2. v = [a EXCEPT !.stash[p] = r]
  BY <1>1 DEF Set
<1> HIDE DEF git
<1>3. IsNode(r) /\ r.pkg_name = key /\ r.next_node = t.stash[p].next_node
      /\ EntryOf(r) = Item(t, p, installed, new, non_aur)
  <2>0. IsNode(t.stash[p])
    BY DEF Sound, IsTable
  <2>1. /\ IsNode(r) /\ r.pkg_name = key /\ r.next_node = t.stash[p].next_node
        /\ r.installed_ver = installed /\ r.updated_ver = new /\ r.is_non_aur = non_aur
        /\ r.package_base = t.stash[p].package_base /\ r.update_type = "UP_TO_DATE"
    BY ONLY <2>0 DEF IsNode
  <2> HIDE DEF r
  <2> QED BY <2>1 DEF EntryOf, Item
<1> HIDE DEF r, v
<1>4. key \in Texts
  BY DEF Texts
<1>5. /\ IsTable(v) /\ v.size = a.size /\ v.map = a.map /\ v.n_items = a.n_items
      /\ \A q \in 1 .. a.size : v.stash[q] = IF q = p THEN r ELSE a.stash[q]
  <2>1. IsNode(r) /\ r.pkg_name \in Texts /\ r.next_node = a.stash[p].next_node
    BY <1>1, <1>3, <1>4
  <2> QED BY <1>1, <1>2, <2>1, PutNode
<1>6. Renamed(t, v, x, p, key)
  BY <1>1, <1>3, <1>5 DEF Renamed
<1>7. EntryOf(v.stash[p]) = Item(t, p, installed, new, non_aur)
  BY <1>1, <1>3, <1>5
<1> QED BY <1>6, <1>7 DEF a, v

LEMMA SetItem ==
  ASSUME NEW t, Sound(t), t.size # 0, NEW key \in Names, NEW installed, NEW new, NEW non_aur
  PROVE  LET u == hashtable_set_item(t, key, installed, new, non_aur)
         IN  Filled(t, u, key) /\ Gains(t, u, key, installed, new, non_aur)
<1>n. PICK z \in Nat : z = t.size
  BY DEF Sound, IsTable
<1>0. PICK n \in 0 .. z : n = t.n_items /\ Linked(t, n)
  BY <1>n DEF Sound, Linked
<1> DEFINE u == hashtable_set_item(t, key, installed, new, non_aur)
           Setting(p) == Set([t EXCEPT !.n_items = IF p > n THEN p ELSE n], p, key,
                             installed, new, non_aur)
<1>k. key \in Texts
  BY DEF Texts
<1>1. \A p : p = (IF Find(t, key) # NULL THEN Find(t, key) ELSE n + 1) =>
        u = IF p > z THEN t ELSE Remap(Setting(p), p)
  BY <1>0, <1>n DEF hashtable_set_item
<1> SUFFICES Filled(t, u, key) /\ Gains(t, u, key, installed, new, non_aur)
  OBVIOUS
<1> HIDE DEF u
<1>2. CASE HasName(t, key)
  <2>1. PICK p \in 1 .. n : t.stash[p].pkg_name = key
    BY <1>0, <1>2 DEF HasName
  <2>2. Find(t, key) = p
    BY <1>0, <2>1, FindsNode DEF Sound
  <2>3. p \in 1 .. z /\ p # NULL /\ ~(p > n) /\ ~(p > z)
    BY <1>0, <2>1 DEF NULL
  <2> DEFINE v == Set([t EXCEPT !.n_items = n], p, key, installed, new, non_aur)
  <2>4. u = Remap(v, p)
    BY <1>1, <2>2, <2>3
  <2>5. /\ IsTable(v) /\ v.size = t.size /\ v.map = t.map /\ v.n_items = n
        /\ v.stash[p].pkg_name = key /\ v.stash[p].next_node = t.stash[p].next_node
        /\ \A q \in 1 .. z : q # p => v.stash[q] = t.stash[q]
        /\ EntryOf(v.stash[p]) = Item(t, p, installed, new, non_aur)
    <3>1. p \in 1 .. t.size
      BY <1>n, <2>3
    <3>2. Renamed(t, v, n, p, key) /\ EntryOf(v.stash[p]) = Item(t, p, installed, new, non_aur)
      BY <3>1, SetNode
    <3> QED BY <1>n, <3>2 DEF Renamed
  <2> HIDE DEF v
  <2>6. \A q \in 1 .. n : q \in 1 .. z
    BY <1>0
  <2>7. SameLinks(t, v, n)
    BY <2>1, <2>5, <2>6 DEF SameLinks
  <2>8. Linked(v, n)
    BY <1>0, <1>n, <2>7, StillLinked
  <2>9. Find(v, v.stash[p].pkg_name) = p
    BY <2>5, <2>8, FindsNode
  <2>10. u = v
    BY <2>4, <2>9 DEF Remap
  <2>11. \A name : HasName(v, name) <=> HasName(t, name)
    BY <1>0, <2>5, <2>7 DEF HasName, SameLinks
  <2>12. \A q \in 1 .. n : t.stash[q].pkg_name = key => q = p
    BY <1>0, <2>1 DEF Linked, Distinct
  <2>13. Gains(t, v, key, installed, new, non_aur)
    <3>1. \A q \in 1 .. n : v.stash[q].pkg_name = t.stash[q].pkg_name
      BY <2>7 DEF SameLinks
    <3>2. \A q \in 1 .. n : t.stash[q].pkg_name # key => EntryOf(v.stash[q]) = EntryOf(t.stash[q])
      BY <2>1, <2>5, <2>6
    <3>3. \A q \in 1 .. n : v.stash[q].pkg_name = key =>
            EntryOf(v.stash[q]) = Item(t, q, installed, new, non_aur)
      BY <2>5, <2>12, <3>1
    <3>4. \A q \in 1 .. z : v.stash[q].package_base = t.stash[q].package_base
      <4>1. v.stash[p].package_base = t.stash[p].package_base
        BY <2>5 DEF EntryOf, Item
      <4> QED BY <2>5, <4>1
    <3> QED BY <1>0, <1>n, <2>5, <3>1, <3>2, <3>3, <3>4 DEF Gains
  <2> QED BY <1>0, <1>2, <2>5, <2>8, <2>10, <2>11, <2>13 DEF Filled, Sound
<1>3. CASE ~HasName(t, key)
  <2>1. \A q \in 1 .. n : t.stash[q].pkg_name # key
    BY <1>0, <1>3 DEF HasName
  <2>2. Find(t, key) = NULL
    BY <1>0, <1>k, <2>1, FindsNothing DEF Sound
  <2>3. CASE n + 1 > z
    <3>1. u = t
      BY <1>1, <2>2, <2>3
    <3>2. ~(n < z)
      BY <2>3
    <3>3. Gains(t, t, key, installed, new, non_aur)
      BY <1>0, <1>n, <2>1 DEF Gains
    <3> QED BY <1>0, <1>n, <3>1, <3>2, <3>3 DEF Filled, Sound
  <2>4. CASE n + 1 <= z
    <3>1. PICK p \in 1 .. z : p = n + 1
      BY <2>4
    <3>2. p > n /\ ~(p > z) /\ p # NULL
      BY <3>1 DEF NULL
    <3> DEFINE v == Set([t EXCEPT !.n_items = p], p, key, installed, new, non_aur)
    <3>3. u = Remap(v, p)
      BY <1>1, <2>2, <3>1, <3>2
    <3>4. /\ IsTable(v) /\ v.size = t.size /\ v.map = t.map /\ v.n_items = p
          /\ v.stash[p].pkg_name = key /\ v.stash[p].next_node = t.stash[p].next_node
          /\ \A q \in 1 .. z : q # p => v.stash[q] = t.stash[q]
          /\ EntryOf(v.stash[p]) = Item(t, p, installed, new, non_aur)
      <4>1. p \in 1 .. t.size
        BY <1>n
      <4>2. Renamed(t, v, p, p, key) /\ EntryOf(v.stash[p]) = Item(t, p, installed, new, non_aur)
        BY <4>1, SetNode
      <4> QED BY <1>n, <4>2 DEF Renamed
    <3> HIDE DEF v
    <3>5. \A q \in 1 .. n : q \in 1 .. z /\ q # p
      BY <3>1
    <3>6. SameLinks(t, v, n)
      BY <3>4, <3>5 DEF SameLinks
    <3>7. Linked(v, n)
      BY <1>0, <1>n, <3>6, StillLinked
    <3>8. \A q \in 1 .. n : v.stash[q].pkg_name # key
      BY <2>1, <3>6 DEF SameLinks
    <3>9. Find(v, key) = NULL
      BY <1>k, <3>4, <3>7, <3>8, FindsNothing
    <3>10. u = AppendNode(v, n + 1)
      BY <3>1, <3>2, <3>3, <3>4, <3>9 DEF Remap
    <3>11. IsTable(u) /\ SameNames(v, u) /\ SameEntries(v, u) /\ Linked(u, n + 1)
      BY <1>n, <2>4, <3>1, <3>4, <3>7, <3>8, <3>10, AppendNext
    <3>12. Sound(u) /\ u.size = t.size /\ u.n_items = n + 1
      BY <3>1, <3>4, <3>11 DEF Sound, SameNames
    <3>13. HasName(u, key)
      <4>1. u.stash[p].pkg_name = key /\ p \in 1 .. n + 1
        BY <1>n, <3>1, <3>4, <3>11 DEF SameNames
      <4> QED BY <3>12, <4>1 DEF HasName
    <3>14. ASSUME NEW name, HasName(t, name) PROVE HasName(u, name)
      <4>1. PICK q \in 1 .. n : t.stash[q].pkg_name = name
        BY <1>0, <3>14 DEF HasName
      <4>2. u.stash[q].pkg_name = name /\ q \in 1 .. n + 1
        BY <1>n, <3>4, <3>5, <3>11, <4>1 DEF SameNames
      <4> QED BY <3>12, <4>2 DEF HasName
    <3>15. Gains(t, u, key, installed, new, non_aur)
      <4>1. \A q \in 1 .. z : EntryOf(u.stash[q]) = EntryOf(v.stash[q])
                             /\ u.stash[q].pkg_name = v.stash[q].pkg_name
        BY <1>n, <3>4, <3>11 DEF SameEntries, SameNames
      <4>2. \A q \in 1 .. n : u.stash[q].pkg_name = t.stash[q].pkg_name
                             /\ EntryOf(u.stash[q]) = EntryOf(t.stash[q])
        BY <3>4, <3>5, <4>1
      <4>3. EntryOf(u.stash[p]) = Item(t, p, installed, new, non_aur) /\ u.stash[p].pkg_name = key
        BY <3>4, <4>1
      <4>4. \A q \in 1 .. n + 1 : q = p \/ q \in 1 .. n
        BY <3>1
      <4>5. \A q \in 1 .. n : u.stash[q].pkg_name # key
        BY <2>1, <4>2
      <4>6. \A q \in 1 .. n + 1 : q \in 1 .. n \/ u.stash[q].pkg_name = key
        BY <4>3, <4>4
      <4>7. \A q \in 1 .. n + 1 : u.stash[q].pkg_name = key =>
              EntryOf(u.stash[q]) = Item(t, q, installed, new, non_aur)
        BY <4>3, <4>4, <4>5
      <4>8. \A q \in 1 .. z : u.stash[q].package_base = t.stash[q].package_base
        <5>1. u.stash[p].package_base = t.stash[p].package_base
          BY <4>3 DEF EntryOf, Item
        <5>2. ASSUME NEW q \in 1 .. z, q # p PROVE u.stash[q].package_base = t.stash[q].package_base
          <6>1. EntryOf(u.stash[q]) = EntryOf(t.stash[q])
            BY <3>4, <4>1, <5>2
          <6> QED BY <6>1 DEF EntryOf
        <5> QED BY <5>1, <5>2
      <4> QED BY <1>0, <1>n, <3>12, <4>2, <4>6, <4>7, <4>8 DEF Gains
    <3> QED BY <1>0, <3>12, <3>13, <3>14, <3>15 DEF Filled
  <2> QED BY <1>0, <2>3, <2>4
<1> QED BY <1>2, <1>3

-----------------------------------------------------------------------------
\* The names put so far are there, each in a place of its own.
PutSoFar == IF phase = "fill" THEN k - 1 ELSE Len(request.pkgs)
Filling ==
  /\ request \in Requests /\ k \in 1 .. Len(request.pkgs) + 1
  /\ Len(request.pkgs) <= table.size
  /\ phase = "fill" => table.n_items < k
  /\ \A m \in 1 .. PutSoFar : HasName(table, NameAt(m))

\* What TableSound and NothingDropped are proved from.
TableInv == Sound(table) /\ Filling

\* What a request is.
LEMMA Requested ==
  ASSUME NEW r \in Requests
  PROVE  Len(r.pkgs) \in Nat /\ DOMAIN r.pkgs = 1 .. Len(r.pkgs)
         /\ \A m \in 1 .. Len(r.pkgs) : /\ r.pkgs[m].name \in Names
                                        /\ r.pkgs[m].ver \in Versions \cup {NoText}
<1>1. PICK T : T = [name : Names, ver : Versions \cup {NoText}]
  OBVIOUS
<1>2. r.pkgs \in Seq(T)
  BY <1>1, QueryAssumption
<1>3. \A m \in 1 .. Len(r.pkgs) : r.pkgs[m] \in T
  BY <1>2
<1>4. \A p \in T : p.name \in Names /\ p.ver \in Versions \cup {NoText}
  BY <1>1
<1>5. Len(r.pkgs) \in Nat /\ DOMAIN r.pkgs = 1 .. Len(r.pkgs)
  BY <1>2
<1> QED BY <1>3, <1>4, <1>5

\* A new table has no nodes.
LEMMA EmptyTable ==
  ASSUME NEW n \in Nat
  PROVE  LET t == hashtable_init(n) IN Sound(t) /\ t.size = n /\ t.n_items = 0
<1> DEFINE t == hashtable_init(n)
<1>1. /\ t = [size |-> n, map |-> [b \in 0 .. n - 1 |-> NULL],
              stash |-> [p \in 1 .. n |-> Blank], n_items |-> 0]
  BY DEF hashtable_init
<1>2. IsNode(Blank) /\ Blank.pkg_name \in Texts /\ Blank.next_node = NULL
  BY DEF IsNode, Blank, Texts
<1>3. IsTable(t)
  BY <1>1, <1>2 DEF IsTable, NULL
<1>4. Linked(t, 0)
  BY <1>1 DEF Linked, Distinct, IsNext, NULL
<1> QED BY <1>1, <1>3, <1>4 DEF Sound

LEMMA TableInit == Init => TableInv
<1> SUFFICES ASSUME Init PROVE TableInv
  OBVIOUS
<1>1. request \in Requests /\ Len(request.pkgs) \in Nat
  BY Requested DEF Init
<1>2. PICK n \in Nat : n >= Len(request.pkgs) /\ table = hashtable_init(n)
  BY <1>1, QueryAssumption DEF Init
<1>3. Sound(table) /\ table.size = n /\ table.n_items = 0
  BY <1>2, EmptyTable
<1> QED BY <1>1, <1>2, <1>3 DEF TableInv, Filling, PutSoFar, Init

\* Each package takes one place at most.
LEMMA FillKeeps == ASSUME TableInv, Fill PROVE TableInv'
<1> DEFINE key == request.pkgs[k].name
           len == Len(request.pkgs)
<1>1. request \in Requests /\ len \in Nat /\ k \in 1 .. len /\ key \in Names
  BY Requested DEF TableInv, Filling, Fill
<1>2. table.size # 0 /\ table.n_items < table.size /\ table.n_items \in Nat /\ table.size \in Nat
  BY <1>1 DEF TableInv, Filling, Sound, Linked, IsTable, Fill
<1>3. Filled(table, table', key)
  BY <1>1, <1>2, SetItem DEF Fill, TableInv
<1>4. Sound(table') /\ table'.size = table.size /\ table'.n_items <= table.n_items + 1
  BY <1>3 DEF Filled
<1>5. \A m \in 1 .. k : HasName(table', NameAt(m))
  <2>1. HasName(table', key)
    BY <1>2, <1>3 DEF Filled
  <2>2. \A m \in 1 .. k - 1 : HasName(table', NameAt(m))
    BY <1>3 DEF Filled, TableInv, Filling, PutSoFar, Fill
  <2>3. \A m \in 1 .. k : m = k \/ m \in 1 .. k - 1
    BY <1>1
  <2> QED BY <2>1, <2>2, <2>3 DEF NameAt
<1>6. k' = k + 1 /\ UNCHANGED <<request, phase>> /\ phase = "fill"
  BY DEF Fill
<1>7. table'.n_items \in Int
  BY <1>4 DEF Sound, Linked, IsTable
<1>8. table'.n_items < k + 1
  <2>1. table.n_items < k
    BY DEF TableInv, Filling, Fill
  <2>2. k \in Int
    BY <1>1
  <2> QED BY <1>2, <1>4, <1>7, <2>1, <2>2
<1>9. \A m \in 1 .. k' - 1 : HasName(table', NameAt(m)')
  BY <1>1, <1>5, <1>6 DEF NameAt
<1> QED BY <1>1, <1>4, <1>6, <1>8, <1>9 DEF TableInv, Filling, PutSoFar

\* What the answer is written to keeps its name and its place in the chain.
LEMMA UpdateKeeps == ASSUME TableInv, UpdateNode PROVE TableInv'
<1>1. PICK type : table' = [table EXCEPT !.stash[Node] =
                   [@ EXCEPT !.updated_ver = found["Version"],
                             !.package_base = found["PackageBase"],
                             !.is_non_aur = FALSE, !.update_type = type]]
  BY DEF UpdateNode
<1>2. PICK p : p = Node
  OBVIOUS
<1> DEFINE r == [table.stash[p] EXCEPT !.updated_ver = found["Version"],
                    !.package_base = found["PackageBase"],
                    !.is_non_aur = FALSE, !.update_type = type]
<1>3. table' = [table EXCEPT !.stash[p] = r]
  BY <1>1, <1>2
<1>4. p \in 1 .. table.size => IsNode(r) /\ r.pkg_name = table.stash[p].pkg_name
                               /\ r.next_node = table.stash[p].next_node
  <2> HAVE p \in 1 .. table.size
  <2>1. IsNode(table.stash[p])
    BY DEF TableInv, Sound, IsTable
  <2> QED BY ONLY <2>1 DEF IsNode
<1>t. IsTable(table) /\ Linked(table, table.n_items)
  BY DEF TableInv, Sound
<1>5. p \in 1 .. table.size => table.stash[p].pkg_name \in Texts
  BY <1>t DEF IsTable
<1> HIDE DEF r
<1>6. /\ IsTable(table') /\ table'.size = table.size /\ table'.map = table.map
      /\ table'.n_items = table.n_items
      /\ \A q \in 1 .. table.size : table'.stash[q] = IF q = p THEN r ELSE table.stash[q]
  BY <1>t, <1>3, <1>4, <1>5, PutNode
<1>7. SameLinks(table, table', table.n_items)
  <2>1. \A q \in 1 .. table.n_items : q \in 1 .. table.size
    BY <1>t DEF Linked, IsTable
  <2> QED BY <1>4, <1>6, <2>1 DEF SameLinks
<1>8. Sound(table')
  BY <1>t, <1>6, <1>7, StillLinked DEF Sound, IsTable
<1>9. \A name : HasName(table, name) => HasName(table', name)
  BY <1>6, <1>7 DEF HasName, SameLinks
<1>10. UNCHANGED <<request, k>> /\ phase = "package" /\ phase' = "apply"
  BY DEF UpdateNode, Walked
<1>11. \A m \in 1 .. PutSoFar' : HasName(table', NameAt(m)')
  BY <1>9, <1>10 DEF TableInv, Filling, NameAt, PutSoFar
<1> QED BY <1>6, <1>8, <1>10, <1>11 DEF TableInv, Filling

LEMMA TableStep == TableInv /\ [Next]_vars => TableInv'
<1> SUFFICES ASSUME TableInv, [Next]_vars PROVE TableInv'
  OBVIOUS
<1>1. CASE Fill
  BY <1>1, FillKeeps
<1>2. CASE UpdateNode
  BY <1>2, UpdateKeeps
<1>3. CASE EndFill
  <2>1. request \in Requests /\ Len(request.pkgs) \in Nat
    BY Requested DEF TableInv, Filling
  <2>2. /\ UNCHANGED <<request, table, k>> /\ phase = "fill" /\ phase' = "ask"
        /\ k = Len(request.pkgs) + 1
    BY <1>3, <2>1 DEF EndFill, TableInv, Filling
  <2> QED BY <2>1, <2>2 DEF TableInv, Filling, PutSoFar, NameAt
<1>4. CASE ~Fill /\ ~UpdateNode /\ ~EndFill
  <2>1. /\ UNCHANGED <<request, table>> /\ (phase' = "fill" <=> phase = "fill")
        /\ k' = k \/ k' = 1 \/ (k' = k + 1 /\ k <= Len(request.pkgs))
        /\ phase = "fill" => k' = k
    BY <1>4 DEF Next, Compute, vars, Ask, AskFails, SearchOn, NoResults, Results, Package,
                ReadField, PassToken, NotPackage, Walked, UpdateNull, EndApply, SelectKnown,
                PassUnknown, EndSelect, Selecting
  <2>2. request \in Requests /\ Len(request.pkgs) \in Nat
    BY Requested DEF TableInv, Filling
  <2>3. k' \in 1 .. Len(request.pkgs) + 1
    BY <2>1, <2>2 DEF TableInv, Filling
  <2> QED BY <2>1, <2>2, <2>3 DEF TableInv, Filling, PutSoFar, NameAt
<1> QED BY <1>1, <1>2, <1>3, <1>4

LEMMA TableAlways == Spec => []TableInv
<1>1. Init => TableInv
  BY TableInit
<1>2. TableInv /\ [Next]_vars => TableInv'
  BY TableStep
<1> QED BY <1>1, <1>2, PTL DEF Spec

\* Every chain of hashtable.c ends and each node in use is the one found under
\* its name, for any hash, any size and whatever is set again.
THEOREM ChainsSound == Spec => []TableSound
<1>1. ASSUME TableInv PROVE TableSound
  <2>1. IsTable(table) /\ Linked(table, table.n_items)
    BY <1>1 DEF TableInv, Sound
  <2>2. DOMAIN table.map = 0 .. table.size - 1
    BY <2>1 DEF IsTable
  <2>3. \A b \in 0 .. table.size - 1 : Follow(table, table.map[b])[table.size] = NULL
    BY <2>1, Chains
  <2>4. \A p \in 1 .. table.n_items : Find(table, table.stash[p].pkg_name) = p
    BY <2>1, FindsNode
  <2> QED BY <2>2, <2>3, <2>4 DEF TableSound
<1> QED BY <1>1, TableAlways, PTL

\* The stash has a place for every package of a request: what main.c and
\* pkg_install_stages.c look up without a check is there.
THEOREM PlacesEnough == Spec => []NothingDropped
<1>1. ASSUME TableInv PROVE NothingDropped
  <2> SUFFICES ASSUME phase # "fill", NEW m \in DOMAIN request.pkgs
               PROVE  Find(table, NameAt(m)) # NULL
    BY DEF NothingDropped
  <2>1. HasName(table, NameAt(m))
    BY <1>1, Requested DEF TableInv, Filling, PutSoFar
  <2>2. PICK p \in 1 .. table.n_items : table.stash[p].pkg_name = NameAt(m)
    BY <2>1 DEF HasName
  <2>3. Find(table, NameAt(m)) = p
    BY <1>1, <2>2, FindsNode DEF TableInv, Sound
  <2> QED BY <2>3 DEF NULL
<1> QED BY <1>1, TableAlways, PTL

-----------------------------------------------------------------------------
\* Tokens, each with its children, one behind the other.
AreTokens(t) == Len(t) \in Nat /\ DOMAIN t = 1 .. Len(t) /\ Nested(t)

\* The first token inside of one, or the first one behind it.
LEMMA FirstInside ==
  ASSUME NEW t, AreTokens(t), NEW p \in 1 .. Len(t)
  PROVE  p + 1 \in Children(t, p) \cup {p + t[p].size}
<1>1. PICK n \in Nat : n = t[p].size /\ n # 0
  BY DEF AreTokens, Nested
<1>2. n = 1 \/ p + 1 \in p + 1 .. p + n - 1
  BY <1>1
<1>3. \A r \in p + 1 .. p + 1 - 1 : FALSE
  OBVIOUS
<1> QED BY <1>1, <1>2, <1>3 DEF Children, Inside

\* A child is inside of the other, with all that is in it.
LEMMA ChildInside ==
  ASSUME NEW t, AreTokens(t), NEW p \in 1 .. Len(t), NEW q \in Children(t, p)
  PROVE  /\ q \in 1 .. Len(t) /\ t[q].size \in Nat \ {0} /\ t[p].size \in Nat \ {0}
         /\ p < q /\ q + t[q].size <= p + t[p].size /\ p + t[p].size <= Len(t) + 1
<1>1. PICK n \in Nat : n = t[p].size /\ n # 0 /\ p + n <= Len(t) + 1
  BY DEF AreTokens, Nested
<1>2. q \in p + 1 .. p + n - 1
  BY <1>1 DEF Children, Inside
<1>3. q \in 1 .. Len(t)
  BY <1>1, <1>2 DEF AreTokens
<1>4. t[q].size \in Nat \ {0} /\ q + t[q].size <= p + t[p].size
  BY <1>2, <1>1, <1>3 DEF AreTokens, Nested, Inside
<1> QED BY <1>1, <1>2, <1>3, <1>4

\* find_next_sibling(): behind a child comes the next one, or the end of both.
LEMMA NextSibling ==
  ASSUME NEW t, AreTokens(t), NEW p \in 1 .. Len(t), NEW q \in Children(t, p)
  PROVE  /\ q + t[q].size \in Children(t, p) \cup {p + t[p].size}
         /\ \A s \in Children(t, p) : s > q => s >= q + t[q].size
<1>0. PICK len \in Nat : len = Len(t) /\ p \in 1 .. len /\ q \in 1 .. len
  BY ChildInside DEF AreTokens
<1>1. PICK n \in Nat : n = t[p].size /\ n # 0 /\ p + n <= Len(t) + 1
  BY DEF AreTokens, Nested
<1>2. PICK m \in Nat : m = t[q].size /\ m # 0 /\ q + m <= p + n
  BY <1>1, ChildInside
<1>3. q \in p + 1 .. p + n - 1 /\ q \in 1 .. Len(t) /\ \A r \in p + 1 .. q - 1 : r + t[r].size <= q
  BY <1>1, ChildInside DEF Children, Inside
<1>4. ASSUME NEW s \in Children(t, p), s > q PROVE s >= q + m
  <2>1. s \in p + 1 .. p + n - 1 /\ \A r \in p + 1 .. s - 1 : r + t[r].size <= s
    BY <1>1 DEF Children, Inside
  <2>2. q \in p + 1 .. s - 1
    BY <1>3, <1>4, <2>1
  <2> QED BY <1>2, <1>3, <2>1, <2>2
<1>5. CASE q + m = p + n
  <2>1. q + t[q].size = p + t[p].size
    BY <1>1, <1>2, <1>5
  <2> QED BY <1>2, <1>4, <2>1
<1>6. CASE q + m < p + n
  <2>1. q + m \in p + 1 .. p + n - 1
    BY <1>2, <1>3, <1>6
  <2>2. ASSUME NEW r \in p + 1 .. q + m - 1 PROVE r + t[r].size <= q + m
    <3>1. r \in p + 1 .. p + n - 1 /\ r \in Int
      BY <1>0, <1>2, <2>1
    <3>2. CASE r < q
      <4>1. r \in p + 1 .. q - 1
        BY <1>0, <3>1, <3>2
      <4>2. r + t[r].size <= q
        BY <1>3, <4>1
      <4>3. PICK l \in Nat : l = t[r].size
        <5>1. r \in 1 .. len
          BY <1>0, <1>1, <3>1
        <5> QED BY <1>0, <5>1 DEF AreTokens, Nested
      <4>4. r + l <= q
        BY <4>2, <4>3
      <4>5. r + l <= q + m
        BY <1>0, <1>2, <3>1, <4>3, <4>4
      <4> QED BY <4>3, <4>5
    <3>3. CASE r = q
      BY <1>2, <3>3
    <3>4. CASE r > q
      <4>1. r \in q + 1 .. q + m - 1
        BY <1>3, <3>4
      <4>2. \A s \in q + 1 .. q + t[q].size - 1 : s + t[s].size <= q + t[q].size
        BY <1>3 DEF AreTokens, Nested, Inside
      <4> QED BY <1>2, <4>1, <4>2
    <3> QED BY <1>0, <3>1, <3>2, <3>3, <3>4
  <2>3. q + m \in Children(t, p)
    BY <1>1, <2>1, <2>2 DEF Children, Inside
  <2> QED BY <1>2, <1>4, <2>3
<1>7. q + m = p + n \/ q + m < p + n
  <2>1. p \in Int /\ q \in Int
    BY <1>0
  <2> QED BY <1>2, <2>1
<1> QED BY <1>5, <1>6, <1>7

-----------------------------------------------------------------------------
\* The walks over the answer: where the loop over the packages may be, which is
\* at their objects or behind their array, and the walk for the one at p.
Outer(a) ==
  Places(a) \cup {Len(a.tokens) + 1}
  \cup {q \in Children(a.tokens, 1) : \A x \in Arrays(a) : q >= x + a.tokens[x].size}
Walk(a, p) == Children(a.tokens, p) \cup {q \in Outer(a) : q >= p + a.tokens[p].size}

\* The first token of an answer is around all others.
LEMMA AnswerTokens ==
  ASSUME NEW a, NEW names, IsAnswer(a, names)
  PROVE  \E len \in Nat \ {0} : /\ len = Len(a.tokens) /\ AreTokens(a.tokens)
                                /\ 1 \in 1 .. len /\ a.tokens[1].size = len
                                /\ \A q \in 1 .. len : a.tokens[q].size \in Nat \ {0}
<1>1. PICK len \in Nat \ {0} : len = Len(a.tokens)
  BY DEF IsAnswer
<1>2. AreTokens(a.tokens) /\ a.tokens[1].size = len
  BY <1>1 DEF IsAnswer, AreTokens
<1>3. 1 \in 1 .. len
  BY <1>1
<1>4. \A q \in 1 .. len : a.tokens[q].size \in Nat \ {0}
  BY <1>1, <1>2 DEF AreTokens, Nested
<1> QED BY <1>1, <1>2, <1>3, <1>4

\* What is directly inside of the first one, key or value.
LEMMA InAnswer ==
  ASSUME NEW a, NEW names, IsAnswer(a, names), NEW q \in Children(a.tokens, 1)
  PROVE  /\ q \in 2 .. Len(a.tokens) /\ a.tokens[q].key \notin Keys
         /\ a.tokens[q].size = 1 \/ q \in Arrays(a)
         /\ q + a.tokens[q].size \in Children(a.tokens, 1) \cup {Len(a.tokens) + 1}
<1>1. PICK len \in Nat \ {0} : /\ len = Len(a.tokens) /\ AreTokens(a.tokens)
                               /\ 1 \in 1 .. len /\ a.tokens[1].size = len
  BY AnswerTokens
<1>2. a.tokens[q].key \notin Keys /\ (a.tokens[q].size = 1 \/ q \in Arrays(a))
  BY DEF IsAnswer
<1>3. q \in 1 .. len /\ 1 < q
  BY <1>1, ChildInside
<1>4. q + a.tokens[q].size \in Children(a.tokens, 1) \cup {1 + len}
  BY <1>1, NextSibling
<1> QED BY <1>1, <1>2, <1>3, <1>4

\* Behind the array there is a key, or nothing; its first element is a package.
LEMMA ArrayEnds ==
  ASSUME NEW a, NEW names, IsAnswer(a, names), NEW x \in Arrays(a)
  PROVE  /\ x \in Children(a.tokens, 1) /\ Children(a.tokens, x) = Places(a)
         /\ x + a.tokens[x].size \in Outer(a) /\ x + 1 \in Outer(a)
         /\ \A y \in Arrays(a) : y = x
<1>1. PICK len \in Nat \ {0} : len = Len(a.tokens) /\ AreTokens(a.tokens)
                               /\ \A q \in 1 .. len : a.tokens[q].size \in Nat \ {0}
  BY AnswerTokens
<1>2. x \in 2 .. len /\ x - 1 \in a.keys
  BY <1>1 DEF Arrays
<1>3. x - 1 + 1 = x
  BY <1>2
<1>4. IsKey(a, x - 1)
  BY <1>2 DEF IsAnswer
<1>5. x \in Children(a.tokens, 1) /\ x + a.tokens[x].size \in a.keys \cup {len + 1}
  BY <1>1, <1>3, <1>4 DEF IsKey
<1>6. Children(a.tokens, x) = Places(a) /\ \A y \in Arrays(a) : y = x
  BY DEF IsAnswer
<1>7. a.keys \subseteq Children(a.tokens, 1)
  BY DEF IsAnswer, IsKey
<1>8. PICK e \in Nat : e = x + a.tokens[x].size
  BY <1>1, <1>2
<1>9. e \in Outer(a)
  <2>1. \A y \in Arrays(a) : e >= y + a.tokens[y].size
    BY <1>6, <1>8
  <2> QED BY <1>1, <1>5, <1>7, <1>8, <2>1 DEF Outer
<1>10. x + 1 \in Outer(a)
  <2>1. x \in 1 .. len
    BY <1>2
  <2>2. x + 1 \in Places(a) \cup {e}
    BY <1>1, <1>6, <1>8, <2>1, FirstInside
  <2> QED BY <1>9, <2>2 DEF Outer
<1> QED BY <1>5, <1>6, <1>8, <1>9, <1>10

\* The objects of the packages are inside of the array.
LEMMA PlaceInside ==
  ASSUME NEW a, NEW names, IsAnswer(a, names), NEW r \in a.told
  PROVE  /\ r.place \in 1 .. Len(a.tokens)
         /\ \E x \in Arrays(a) : r.place \in Children(a.tokens, x) /\ x < r.place
                                 /\ r.place < x + a.tokens[x].size
<1>1. PICK len \in Nat \ {0} : len = Len(a.tokens) /\ AreTokens(a.tokens)
                               /\ \A q \in 1 .. len : a.tokens[q].size \in Nat \ {0}
  BY AnswerTokens
<1>2. PICK x : x \in Arrays(a)
  BY DEF IsAnswer
<1>3. r.place \in Children(a.tokens, x)
  BY <1>2, ArrayEnds DEF Places
<1>4. x \in 1 .. len
  BY <1>1, <1>2 DEF Arrays
<1>5. /\ r.place \in 1 .. len /\ a.tokens[r.place].size \in Nat \ {0} /\ x < r.place
      /\ r.place + a.tokens[r.place].size <= x + a.tokens[x].size
  BY <1>1, <1>3, <1>4, ChildInside
<1>6. r.place < x + a.tokens[x].size
  BY <1>1, <1>4, <1>5
<1> QED BY <1>1, <1>2, <1>3, <1>5, <1>6

\* The loop over the packages stays where it may be, and meets each of them.
LEMMA OuterNext ==
  ASSUME NEW a, NEW names, IsAnswer(a, names), NEW q \in Outer(a), q <= Len(a.tokens)
  PROVE  /\ q \in 1 .. Len(a.tokens) /\ a.tokens[q].size \in Nat \ {0}
         /\ a.tokens[q].key \notin Keys /\ q + a.tokens[q].size \in Outer(a)
         /\ q \notin Places(a) => q + 1 \in Outer(a)
         /\ \A r \in a.told : r.place < q + a.tokens[q].size => r.place <= q
<1>1. PICK len \in Nat \ {0} : len = Len(a.tokens) /\ AreTokens(a.tokens)
                               /\ \A s \in 1 .. len : a.tokens[s].size \in Nat \ {0}
  BY AnswerTokens
<1>2. CASE q \in Places(a)
  <2>1. PICK r \in a.told : q = r.place
    BY <1>2 DEF Places
  <2>2. PICK x \in Arrays(a) : q \in Children(a.tokens, x)
    BY <2>1, PlaceInside
  <2>3. x \in 1 .. len
    BY <1>1 DEF Arrays
  <2>4. q \in 1 .. len
    BY <1>1, <2>1, PlaceInside
  <2>5. a.tokens[q].key \notin Keys
    BY <2>1 DEF IsAnswer
  <2>6. q + a.tokens[q].size \in Places(a) \cup {x + a.tokens[x].size}
    BY <1>1, <2>2, <2>3, NextSibling, ArrayEnds
  <2>7. q + a.tokens[q].size \in Outer(a)
    BY <2>6, ArrayEnds DEF Outer
  <2>8. ASSUME NEW s \in a.told, s.place < q + a.tokens[q].size PROVE s.place <= q
    <3>1. s.place \in Children(a.tokens, x) /\ s.place \in 1 .. len
      BY <1>1, PlaceInside, ArrayEnds
    <3>2. s.place > q => s.place >= q + a.tokens[q].size
      BY <1>1, <2>2, <2>3, <3>1, NextSibling
    <3> QED BY <1>1, <2>4, <2>8, <3>1, <3>2
  <2> QED BY <1>1, <1>2, <2>4, <2>5, <2>7, <2>8
<1>3. CASE q \notin Places(a)
  <2>1. /\ q \in Children(a.tokens, 1) /\ \A x \in Arrays(a) : q >= x + a.tokens[x].size
    BY <1>1, <1>3 DEF Outer
  <2>2. q \in 2 .. len
    BY <1>1, <2>1, InAnswer
  <2>3. q \notin Arrays(a)
    BY <1>1, <2>1, <2>2
  <2>4. a.tokens[q].size = 1 /\ a.tokens[q].key \notin Keys
        /\ q + 1 \in Children(a.tokens, 1) \cup {len + 1}
    BY <1>1, <2>1, <2>3, InAnswer
  <2>5. ASSUME NEW x \in Arrays(a) PROVE q + 1 >= x + a.tokens[x].size
    <3>1. x \in 1 .. len
      BY <1>1 DEF Arrays
    <3> QED BY <1>1, <2>1, <2>2, <3>1
  <2>6. q + 1 \in Outer(a)
    BY <1>1, <2>4, <2>5 DEF Outer
  <2>7. ASSUME NEW r \in a.told PROVE r.place <= q
    <3>1. PICK x \in Arrays(a) : r.place < x + a.tokens[x].size
      BY PlaceInside
    <3>2. r.place \in 1 .. len /\ x \in 1 .. len
      BY <1>1, PlaceInside DEF Arrays
    <3> QED BY <1>1, <2>1, <2>2, <3>1, <3>2
  <2> QED BY <1>1, <1>3, <2>2, <2>4, <2>6, <2>7
<1> QED BY <1>2, <1>3

\* So does the walk for one package, which reads in its object only.
LEMMA WalkNext ==
  ASSUME NEW a, NEW names, IsAnswer(a, names), NEW p \in Places(a), NEW q \in Walk(a, p),
         q <= Len(a.tokens)
  PROVE  /\ q \in 1 .. Len(a.tokens) /\ a.tokens[q].size \in Nat \ {0}
         /\ q + a.tokens[q].size \in Walk(a, p)
         /\ a.tokens[q].key \in Keys => q \in Children(a.tokens, p)
         /\ \A s \in Children(a.tokens, p) : s < q + a.tokens[q].size => s <= q
<1>1. PICK len \in Nat \ {0} : len = Len(a.tokens) /\ AreTokens(a.tokens)
                               /\ \A s \in 1 .. len : a.tokens[s].size \in Nat \ {0}
  BY AnswerTokens
<1>2. p \in Outer(a) /\ p \in 1 .. len
  BY <1>1, PlaceInside DEF Places, Outer
<1>3. PICK e \in Nat : e = p + a.tokens[p].size /\ e \in Outer(a)
  BY <1>1, <1>2, OuterNext
<1>4. \A s \in Children(a.tokens, p) : s \in 1 .. len /\ s < e
  <2> TAKE s \in Children(a.tokens, p)
  <2>1. s \in 1 .. len /\ s + a.tokens[s].size <= p + a.tokens[p].size
    BY <1>1, <1>2, ChildInside
  <2> QED BY <1>1, <1>3, <2>1
<1>5. CASE q \in Children(a.tokens, p)
  <2>1. /\ q + a.tokens[q].size \in Children(a.tokens, p) \cup {e}
        /\ \A s \in Children(a.tokens, p) : s > q => s >= q + a.tokens[q].size
    BY <1>1, <1>2, <1>3, <1>5, NextSibling
  <2>2. q + a.tokens[q].size \in Walk(a, p)
    BY <1>3, <2>1 DEF Walk
  <2>3. \A s \in Children(a.tokens, p) : s < q + a.tokens[q].size => s <= q
    BY <1>1, <1>4, <1>5, <2>1
  <2> QED BY <1>1, <1>4, <1>5, <2>2, <2>3
<1>6. CASE q \notin Children(a.tokens, p)
  <2>1. q \in Outer(a) /\ q >= e
    BY <1>3, <1>6 DEF Walk
  <2>2. /\ q \in 1 .. len /\ a.tokens[q].size \in Nat \ {0}
        /\ a.tokens[q].key \notin Keys /\ q + a.tokens[q].size \in Outer(a)
    BY <1>1, <2>1, OuterNext
  <2>3. q + a.tokens[q].size >= e
    BY <2>1, <2>2
  <2>4. q + a.tokens[q].size \in Walk(a, p)
    BY <1>3, <2>2, <2>3 DEF Walk
  <2>5. \A s \in Children(a.tokens, p) : s <= q
    BY <1>4, <2>1, <2>2
  <2> QED BY <1>1, <2>2, <2>4, <2>5
<1> QED BY <1>5, <1>6

\* It starts there.
LEMMA WalkStarts ==
  ASSUME NEW a, NEW names, IsAnswer(a, names), NEW p \in Places(a)
  PROVE  p + 1 \in Walk(a, p) /\ \A s \in Children(a.tokens, p) : s >= p + 1
<1>1. PICK len \in Nat \ {0} : len = Len(a.tokens) /\ AreTokens(a.tokens)
                               /\ \A s \in 1 .. len : a.tokens[s].size \in Nat \ {0}
  BY AnswerTokens
<1>2. p \in Outer(a) /\ p \in 1 .. len
  BY <1>1, PlaceInside DEF Places, Outer
<1>3. PICK e \in Nat : e = p + a.tokens[p].size /\ e \in Outer(a)
  BY <1>1, <1>2, OuterNext
<1>4. p + 1 \in Children(a.tokens, p) \cup {e}
  BY <1>1, <1>2, <1>3, FirstInside
<1>5. \A s \in Children(a.tokens, p) : s \in 1 .. len /\ p < s
  BY <1>1, <1>2, ChildInside
<1> QED BY <1>2, <1>3, <1>4, <1>5 DEF Walk

-----------------------------------------------------------------------------
\* What was read of the package that r is about.
HasRead(r) ==
  /\ \A key \in Keys : found[key] \in {NoText, r.says[key], Junk}
  /\ ~Misread => \A key \in Keys : found[key] \in {NoText, r.says[key]}
  /\ \A q \in Children(tokens, r.place) :
       q < walk /\ tokens[q].key \in Keys => found[tokens[q].key] # NoText

\* The walk for an object reads what the answer says in it, the one for a token
\* behind the array nothing.
ReadSoFar ==
  /\ pos <= Len(tokens) /\ found = [key \in Keys |-> found[key]]
  /\ \A r \in answer.told : r.place = pos => walk \in Walk(answer, pos) /\ HasRead(r)
  /\ pos \notin Places(answer) => walk \in Outer(answer) /\ found = Unread

Phases == {"fill", "ask", "search", "apply", "package", "select", "done", "dead"}
Asked == {NameAt(m) : m \in DOMAIN request.pkgs}
Reading ==
  /\ phase \in Phases
  /\ pos \in 1 .. Len(tokens) + 1 /\ walk \in 1 .. Len(tokens) + 1
  /\ answer = NoAnswer \/ IsAnswer(answer, Asked)
  /\ phase \in {"fill", "ask"} => answer = NoAnswer
  /\ phase \in {"search", "apply", "package"} => IsAnswer(answer, Asked)
  /\ phase = "search" =>
       /\ pos \in answer.keys \cup {Len(tokens) + 1}
       /\ \A q \in answer.keys : q < pos => tokens[q].key # "results"
  /\ phase \in {"apply", "package"} => pos \in Outer(answer)
  /\ phase = "package" => ReadSoFar
  /\ phase = "dead" => Misread

\* Where the loop and the walks may be is in the answer, or behind it.
LEMMA OuterIn ==
  ASSUME NEW a, NEW names, IsAnswer(a, names), NEW q \in Outer(a)
  PROVE  q \in 1 .. Len(a.tokens) + 1
<1>1. PICK len \in Nat \ {0} : len = Len(a.tokens)
  BY AnswerTokens
<1>2. q = len + 1 \/ q <= len
  <2>1. q \in Places(a) => q \in 1 .. len
    BY <1>1, PlaceInside DEF Places
  <2>2. q \in Children(a.tokens, 1) => q \in 1 .. len
    BY <1>1, InAnswer
  <2> QED BY <1>1, <2>1, <2>2 DEF Outer
<1> QED BY <1>1, <1>2, OuterNext

LEMMA WalkIn ==
  ASSUME NEW a, NEW names, IsAnswer(a, names), NEW p \in Places(a), NEW q \in Walk(a, p)
  PROVE  q \in 1 .. Len(a.tokens) + 1
<1>1. PICK len \in Nat \ {0} : len = Len(a.tokens) /\ AreTokens(a.tokens)
  BY AnswerTokens
<1>2. p \in 1 .. len
  BY <1>1, PlaceInside DEF Places
<1>3. q \in Children(a.tokens, p) => q \in 1 .. len
  BY <1>1, <1>2, ChildInside
<1>4. q \in Outer(a) => q \in 1 .. len + 1
  BY <1>1, OuterIn
<1> QED BY <1>1, <1>3, <1>4 DEF Walk

\* The search is at a key, and passes over what is inside of its value.
LEMMA KeyNext ==
  ASSUME NEW a, NEW names, IsAnswer(a, names), NEW q \in a.keys
  PROVE  /\ q \in 1 .. Len(a.tokens) /\ q + 1 \in 1 .. Len(a.tokens)
         /\ q + 1 + a.tokens[q + 1].size \in a.keys \cup {Len(a.tokens) + 1}
         /\ q + 1 + a.tokens[q + 1].size \in 1 .. Len(a.tokens) + 1
         /\ \A s \in a.keys : s < q + 1 + a.tokens[q + 1].size => s <= q
<1>1. PICK len \in Nat \ {0} : /\ len = Len(a.tokens) /\ AreTokens(a.tokens)
                               /\ 1 \in 1 .. len /\ a.tokens[1].size = len
                               /\ \A s \in 1 .. len : a.tokens[s].size \in Nat \ {0}
  BY AnswerTokens
<1>2. q \in Children(a.tokens, 1) /\ q + 1 \in Children(a.tokens, 1) \ a.keys
      /\ q + 1 + a.tokens[q + 1].size \in a.keys \cup {len + 1}
  BY <1>1 DEF IsAnswer, IsKey
<1>3. a.keys \subseteq Children(a.tokens, 1)
  BY DEF IsAnswer, IsKey
<1>4. \A s \in Children(a.tokens, 1) : s \in 1 .. len
  BY <1>1, ChildInside
<1>5. PICK p \in 1 .. len : p = q + 1 /\ q \in 1 .. len
  BY <1>2, <1>4
<1>6. \A s \in Children(a.tokens, 1) : s > p => s >= p + a.tokens[p].size
  BY <1>1, <1>2, <1>5, NextSibling
<1>7. ASSUME NEW s \in a.keys, s < p + a.tokens[p].size PROVE s <= q
  <2>1. PICK e \in Nat : e = p + a.tokens[p].size
    BY <1>1
  <2>2. s # p /\ s \in 1 .. len /\ (s > p => s >= e) /\ s < e
    BY <1>2, <1>3, <1>4, <1>5, <1>6, <1>7, <2>1
  <2> QED BY <1>5, <2>1, <2>2
<1>8. p + a.tokens[p].size \in 1 .. len + 1
  BY <1>1, <1>2, <1>3, <1>4, <1>5
<1> QED BY <1>1, <1>2, <1>5, <1>7, <1>8

\* A package that was asked for has a node.
LEMMA AskedFound ==
  ASSUME TableInv, phase # "fill", NEW n \in Asked
  PROVE  Find(table, n) \in 1 .. table.n_items /\ table.stash[Find(table, n)].pkg_name = n
<1>1. PICK m \in DOMAIN request.pkgs : n = NameAt(m)
  BY DEF Asked
<1>2. HasName(table, n)
  BY <1>1, Requested DEF TableInv, Filling, PutSoFar
<1>3. PICK p \in 1 .. table.n_items : table.stash[p].pkg_name = n
  BY <1>2 DEF HasName
<1> QED BY <1>3, FindsNode DEF TableInv, Sound

LEMMA ReadingInit == Init => Reading
<1> SUFFICES ASSUME Init PROVE Reading
  OBVIOUS
<1>1. answer = NoAnswer /\ pos = 1 /\ walk = 1 /\ phase = "fill"
  BY DEF Init
<1>2. tokens = <<>> /\ Len(tokens) = 0
  BY <1>1 DEF tokens, NoAnswer
<1> QED BY <1>1, <1>2 DEF Reading, Phases

\* An answer is about what was asked.
LEMMA AskReads == ASSUME TableInv, Reading, Ask PROVE Reading'
<1>1. request \in Requests /\ UNCHANGED request /\ Asked' = Asked
  BY DEF TableInv, Filling, Ask, Asked, NameAt
<1>2. Asked \in SUBSET Names /\ answer' \in Answers[Asked]
  BY <1>1, Requested DEF Ask, Asked, NameAt
<1>3. IsAnswer(answer', Asked)
  BY <1>2, AnswersAssumption
<1>4. PICK len \in Nat \ {0} : len = Len(answer'.tokens)
  BY <1>3, AnswerTokens
<1>5. phase' = "search" /\ pos' = 2 /\ walk' = walk /\ walk = 1
  <2>1. answer = NoAnswer /\ Len(tokens) = 0
    BY DEF Reading, Ask, NoAnswer, tokens
  <2> QED BY <2>1 DEF Reading, Ask, package
<1>6. 2 \in answer'.keys \cup {len + 1}
  BY <1>3, <1>4 DEF IsAnswer
<1>7. \A q \in answer'.keys : ~(q < 2)
  <2>1. \A q \in answer'.keys : q \in Children(answer'.tokens, 1)
    BY <1>3 DEF IsAnswer, IsKey
  <2> QED BY <1>3, <1>4, <2>1, InAnswer
<1>8. tokens' = answer'.tokens
  BY DEF tokens
<1> QED BY <1>1, <1>3, <1>4, <1>5, <1>6, <1>7, <1>8 DEF Reading, Phases

\* The steps of the search.
LEMMA SearchReads == ASSUME Reading, SearchOn \/ Results, UNCHANGED request PROVE Reading'
<1>1. UNCHANGED <<answer, walk>> /\ tokens' = tokens /\ Asked' = Asked /\ tokens = answer.tokens
  BY DEF SearchOn, Results, package, tokens, Asked, NameAt
<1>2. IsAnswer(answer, Asked) /\ pos \in answer.keys /\ phase = "search"
  <2>1. /\ phase = "search" /\ pos <= Len(tokens) /\ IsAnswer(answer, Asked)
        /\ pos \in answer.keys \cup {Len(tokens) + 1}
    BY DEF Reading, SearchOn, Results
  <2>2. PICK len \in Nat \ {0} : len = Len(tokens)
    BY <1>1, <2>1, AnswerTokens
  <2> QED BY <2>1, <2>2
<1>3. CASE SearchOn
  <2>1. pos' = pos + 1 + tokens[pos + 1].size /\ phase' = "search" /\ tokens[pos].key # "results"
    BY <1>2, <1>3 DEF SearchOn, find_next_sibling
  <2>2. /\ pos' \in answer.keys \cup {Len(tokens) + 1} /\ pos' \in 1 .. Len(tokens) + 1
        /\ \A s \in answer.keys : s < pos' => s <= pos
    BY <1>1, <1>2, <2>1, KeyNext
  <2>3. PICK len \in Nat \ {0} : len = Len(tokens)
    BY <1>1, <1>2, AnswerTokens
  <2>4. ASSUME NEW s \in answer.keys, s < pos' PROVE tokens[s].key # "results"
    <3>1. s <= pos /\ s \in 1 .. len /\ pos \in 1 .. len
      BY <1>1, <1>2, <2>2, <2>3, <2>4, KeyNext
    <3>2. s < pos => tokens[s].key # "results"
      BY <1>2 DEF Reading
    <3> QED BY <2>1, <3>1, <3>2
  <2> QED BY <1>1, <1>2, <2>1, <2>2, <2>4 DEF Reading, Phases
<1>4. CASE Results
  <2>1. pos' = pos + 2 /\ phase' = "apply" /\ tokens[pos].key = "results"
    BY <1>4 DEF Results
  <2>2. PICK x \in 2 .. Len(tokens) : x = pos + 1 /\ x + 1 = pos + 2 /\ x - 1 = pos
    <3>1. PICK len \in Nat \ {0} : len = Len(tokens)
      BY <1>1, <1>2, AnswerTokens
    <3>2. pos \in 1 .. len /\ pos + 1 \in 1 .. len
      BY <1>1, <1>2, <3>1, KeyNext
    <3> QED BY <3>1, <3>2
  <2>3. x \in Arrays(answer)
    BY <1>1, <1>2, <2>1, <2>2 DEF Arrays
  <2>4. pos' \in Outer(answer)
    BY <1>2, <2>1, <2>2, <2>3, ArrayEnds
  <2>5. pos' \in 1 .. Len(tokens) + 1
    BY <1>1, <1>2, <2>4, OuterIn
  <2> QED BY <1>1, <1>2, <2>1, <2>4, <2>5 DEF Reading, Phases
<1> QED BY <1>3, <1>4

\* A new package is walked for.
LEMMA PackageReads == ASSUME Reading, Package, UNCHANGED request PROVE Reading'
<1>1. /\ UNCHANGED <<answer, pos>> /\ tokens' = tokens /\ Asked' = Asked
      /\ tokens = answer.tokens /\ (Misread' <=> Misread)
  BY DEF Package, tokens, Asked, NameAt, Misread
<1>2. /\ IsAnswer(answer, Asked) /\ pos \in Outer(answer) /\ pos <= Len(tokens)
      /\ phase' = "package" /\ walk' = pos + 1 /\ found' = Unread
  BY DEF Reading, Package
<1>3. PICK len \in Nat \ {0} : len = Len(tokens)
  BY <1>1, <1>2, AnswerTokens
<1>4. pos \in 1 .. len
  BY <1>1, <1>2, <1>3, OuterNext
<1>5. \A r \in answer.told : r.place = pos => walk' \in Walk(answer, pos) /\ HasRead(r)'
  <2> SUFFICES ASSUME NEW r \in answer.told, r.place = pos
               PROVE  walk' \in Walk(answer, pos) /\ HasRead(r)'
    OBVIOUS
  <2>1. pos \in Places(answer)
    BY DEF Places
  <2>2. pos + 1 \in Walk(answer, pos) /\ \A s \in Children(tokens, pos) : s >= pos + 1
    BY <1>1, <1>2, <2>1, WalkStarts
  <2>3. \A s \in Children(tokens, pos) : s \in 1 .. len
    <3>1. AreTokens(tokens)
      BY <1>1, <1>2, AnswerTokens
    <3> QED BY <1>3, <1>4, <3>1, ChildInside
  <2>4. \A s \in Children(tokens, pos) : ~(s < walk')
    BY <1>2, <1>4, <2>2, <2>3
  <2>5. \A key \in Keys : found'[key] = NoText
    BY <1>2 DEF Unread
  <2> QED BY <1>1, <1>2, <2>2, <2>4, <2>5 DEF HasRead
<1>6. pos \notin Places(answer) => walk' \in Outer(answer)
  BY <1>1, <1>2, OuterNext
<1>7. found' = [key \in Keys |-> found'[key]]
  BY <1>2 DEF Unread
<1>8. ReadSoFar'
  BY <1>1, <1>2, <1>5, <1>6, <1>7 DEF ReadSoFar
<1>9. walk' \in 1 .. Len(tokens) + 1
  BY <1>2, <1>3, <1>4
<1> QED BY <1>1, <1>2, <1>8, <1>9 DEF Reading, Phases

\* A step of the walk.
LEMMA WalkReads ==
  ASSUME TableInv, Reading, ReadField \/ PassToken, UNCHANGED request PROVE Reading'
<1>1. /\ UNCHANGED <<answer, pos, phase>> /\ tokens' = tokens /\ Asked' = Asked
      /\ tokens = answer.tokens /\ (Misread' <=> Misread)
  BY DEF ReadField, PassToken, tokens, Asked, NameAt, Misread
<1>2. /\ IsAnswer(answer, Asked) /\ pos \in Outer(answer) /\ phase = "package" /\ ReadSoFar
      /\ walk <= Len(tokens) /\ walk' = walk + tokens[walk].size
  BY DEF Reading, ReadField, PassToken, find_next_sibling
<1>3. PICK len \in Nat \ {0} : len = Len(tokens)
  BY <1>1, <1>2, AnswerTokens
<1>4. CASE pos \notin Places(answer)
  <2>1. walk \in Outer(answer) /\ found = Unread
    BY <1>2, <1>4 DEF ReadSoFar
  <2>2. tokens[walk].key \notin Keys /\ walk' \in Outer(answer)
    BY <1>1, <1>2, <2>1, OuterNext
  <2>3. found' = found
    BY <2>2 DEF ReadField, PassToken
  <2>4. walk' \in 1 .. Len(tokens) + 1
    BY <1>1, <1>2, <2>2, OuterIn
  <2>5. \A r \in answer.told : r.place # pos
    BY <1>4 DEF Places
  <2>6. ReadSoFar'
    BY <1>1, <1>2, <2>1, <2>2, <2>3, <2>5 DEF ReadSoFar
  <2> QED BY <1>1, <1>2, <2>4, <2>6 DEF Reading
<1>5. CASE pos \in Places(answer)
  <2>1. PICK r \in answer.told : r.place = pos
    BY <1>5 DEF Places
  <2>2. walk \in Walk(answer, pos) /\ HasRead(r)
    BY <1>2, <2>1 DEF ReadSoFar
  <2>3. /\ walk \in 1 .. len /\ tokens[walk].size \in Nat \ {0} /\ walk' \in Walk(answer, pos)
        /\ tokens[walk].key \in Keys => walk \in Children(tokens, pos)
        /\ \A s \in Children(tokens, pos) : s < walk' => s <= walk
    BY <1>1, <1>2, <1>3, <1>5, <2>2, WalkNext
  <2>4. \A s \in Children(tokens, pos) : s < walk' => s < walk \/ s = walk
    <3>1. \A s \in Children(tokens, pos) : s \in 1 .. len
      <4>1. AreTokens(tokens) /\ pos \in 1 .. len
        BY <1>1, <1>2, <1>3, AnswerTokens, OuterNext DEF ReadSoFar
      <4> QED BY <1>3, <4>1, ChildInside
    <3> QED BY <2>3, <3>1
  <2>5. found' = [key \in Keys |-> found'[key]] /\ HasRead(r)'
    <3>1. CASE ReadField
      <4> DEFINE key == tokens[walk].key
      <4>1. key \in Keys /\ found' = [found EXCEPT ![key] = Behind(tokens, walk)]
        BY <3>1 DEF ReadField
      <4>2. found = [f \in Keys |-> found[f]]
        BY <1>2 DEF ReadSoFar
      <4>3. /\ found' = [f \in Keys |-> found'[f]]
            /\ \A f \in Keys : found'[f] = IF f = key THEN Behind(tokens, walk) ELSE found[f]
        BY <4>1, <4>2
      <4>4. walk \in Children(tokens, r.place)
        BY <2>1, <2>3, <4>1
      <4>5. Behind(tokens, walk) \in {r.says[key], Junk}
        BY <1>1, <1>2, <2>1, <4>1, <4>4 DEF IsAnswer, Describes
      <4>6. ~Misread => Behind(tokens, walk) = r.says[key]
        BY <2>1, <4>1, <4>4 DEF Misread
      <4>7. Behind(tokens, walk) # NoText
        <5>1. Junk # NoText
          BY QueryAssumption DEF Texts
        <5>2. r.says[key] # NoText
          <6>1. /\ r.says["Name"] \in Asked /\ r.says["Version"] \in Versions
                /\ r.says["PackageBase"] \in Bases
            BY <1>2, <2>1 DEF IsAnswer
          <6>2. Asked \subseteq Texts
            <7>1. request \in Requests
              BY DEF TableInv, Filling
            <7> QED BY <7>1, Requested DEF Asked, NameAt, Texts
          <6> QED BY <4>1, <6>1, <6>2, QueryAssumption DEF Keys
        <5> QED BY <4>5, <5>1, <5>2
      <4> HIDE DEF key
      <4>8. /\ \A f \in Keys : found'[f] \in {NoText, r.says[f], Junk}
            /\ ~Misread => \A f \in Keys : found'[f] \in {NoText, r.says[f]}
        BY <2>2, <4>3, <4>5, <4>6 DEF HasRead
      <4>9. ASSUME NEW s \in Children(tokens, r.place), s < walk', tokens[s].key \in Keys
            PROVE  found'[tokens[s].key] # NoText
        <5>1. CASE tokens[s].key = key
          BY <4>3, <4>7, <4>9, <5>1
        <5>2. CASE tokens[s].key # key
          <6>1. s < walk
            BY <2>1, <2>4, <4>9, <5>2 DEF key
          <6>2. found[tokens[s].key] # NoText
            BY <2>2, <4>9, <6>1 DEF HasRead
          <6> QED BY <4>3, <4>9, <5>2, <6>2
        <5> QED BY <5>1, <5>2
      <4> QED BY <1>1, <4>3, <4>8, <4>9 DEF HasRead
    <3>2. CASE PassToken
      <4>1. found' = found /\ tokens[walk].key \notin Keys
        BY <3>2 DEF PassToken
      <4>2. \A s \in Children(tokens, r.place) :
              s < walk' /\ tokens[s].key \in Keys => found'[tokens[s].key] # NoText
        BY <2>1, <2>2, <2>4, <4>1 DEF HasRead
      <4>3. found = [f \in Keys |-> found[f]]
        BY <1>2 DEF ReadSoFar
      <4> QED BY <1>1, <2>2, <4>1, <4>2, <4>3 DEF HasRead
    <3> QED BY <3>1, <3>2
  <2>6. \A s \in answer.told : s.place = pos => s = r
    BY <1>2, <2>1 DEF IsAnswer
  <2>7. ReadSoFar'
    BY <1>1, <1>2, <1>5, <2>3, <2>5, <2>6 DEF ReadSoFar
  <2>8. walk' \in 1 .. Len(tokens) + 1
    BY <1>1, <1>2, <1>5, <2>3, WalkIn
  <2> QED BY <1>1, <1>2, <2>7, <2>8 DEF Reading
<1> QED BY <1>4, <1>5

\* At the end of the walk for an object its three texts are there; without an
\* object there is no name.
LEMMA WalkedReads ==
  ASSUME Reading, Walked
  PROVE  /\ pos \notin Places(answer) => found["Name"] = NoText
         /\ \A r \in answer.told : r.place = pos =>
              \A key \in Keys : /\ found[key] # NoText /\ found[key] \in {r.says[key], Junk}
                                /\ ~Misread => found[key] = r.says[key]
<1>1. /\ IsAnswer(answer, Asked) /\ pos \in Outer(answer) /\ ReadSoFar
      /\ tokens = answer.tokens /\ walk > Len(tokens)
  BY DEF Reading, Walked, tokens
<1>2. PICK len \in Nat \ {0} : len = Len(tokens) /\ AreTokens(tokens) /\ walk \in 1 .. len + 1
  BY <1>1, AnswerTokens DEF Reading
<1>3. pos \notin Places(answer) => found["Name"] = NoText
  BY <1>1 DEF ReadSoFar, Unread, Keys
<1>4. ASSUME NEW r \in answer.told, r.place = pos, NEW key \in Keys
      PROVE  /\ found[key] # NoText /\ found[key] \in {r.says[key], Junk}
             /\ ~Misread => found[key] = r.says[key]
  <2>1. HasRead(r)
    BY <1>1, <1>4 DEF ReadSoFar
  <2>2. PICK q \in Children(tokens, r.place) : tokens[q].key = key
    BY <1>1 DEF IsAnswer, Describes
  <2>3. q < walk
    <3>1. pos \in 1 .. len
      BY <1>1, <1>2, OuterNext DEF ReadSoFar
    <3>2. q \in 1 .. len
      BY <1>2, <1>4, <3>1, ChildInside
    <3> QED BY <1>1, <1>2, <3>2
  <2> QED BY <2>1, <2>2, <2>3 DEF HasRead
<1> QED BY <1>3, <1>4

\* The loop goes on behind the package.
LEMMA LoopReads ==
  ASSUME Reading, NotPackage \/ UpdateNode, UNCHANGED request PROVE Reading'
<1>1. /\ UNCHANGED <<answer, walk>> /\ tokens' = tokens /\ Asked' = Asked
      /\ tokens = answer.tokens
  BY DEF NotPackage, UpdateNode, package, tokens, Asked, NameAt
<1>2. /\ IsAnswer(answer, Asked) /\ pos \in Outer(answer) /\ pos <= Len(tokens)
      /\ phase' = "apply" /\ pos' = pos + tokens[pos].size
  BY DEF Reading, ReadSoFar, NotPackage, UpdateNode, Walked, find_next_sibling
<1>3. pos' \in Outer(answer) /\ pos' \in 1 .. Len(tokens) + 1
  BY <1>1, <1>2, OuterNext, OuterIn
<1> QED BY <1>1, <1>2, <1>3 DEF Reading, Phases

\* The program dies of a name that is none, which is not what the answer says.
LEMMA DeathReads == ASSUME TableInv, Reading, UpdateNull PROVE Reading'
<1>1. /\ UNCHANGED <<request, answer, pos, walk>> /\ tokens' = tokens /\ Asked' = Asked
      /\ (Misread' <=> Misread)
  BY DEF UpdateNull, package, tokens, Asked, NameAt, Misread
<1>2. /\ IsAnswer(answer, Asked) /\ phase = "package" /\ phase' = "dead" /\ Walked
      /\ found["Name"] # NoText /\ Node = NULL
  BY DEF Reading, UpdateNull, Walked
<1>3. PICK r \in answer.told : r.place = pos
  BY <1>2, WalkedReads DEF Places
<1>4. ~Misread => found["Name"] \in Asked
  <2>1. "Name" \in Keys
    BY DEF Keys
  <2> QED BY <1>2, <1>3, <2>1, WalkedReads DEF IsAnswer
<1>5. found["Name"] \in Asked => Node # NULL
  BY <1>2, AskedFound DEF Node, TableInv, Sound, Linked, NULL
<1> QED BY <1>1, <1>2, <1>4, <1>5 DEF Reading, Phases

LEMMA ReadingStep == TableInv /\ Reading /\ [Next]_vars => Reading'
<1> SUFFICES ASSUME TableInv, Reading, [Next]_vars PROVE Reading'
  OBVIOUS
<1>1. UNCHANGED request
  BY DEF Next, Compute, vars, Fill, EndFill, Ask, AskFails, SearchOn, NoResults, Results, Package,
         ReadField, PassToken, NotPackage, UpdateNode, UpdateNull, EndApply, SelectKnown,
         PassUnknown, EndSelect
<1>2. CASE Ask
  BY <1>2, AskReads
<1>3. CASE SearchOn \/ Results
  BY <1>1, <1>3, SearchReads
<1>4. CASE Package
  BY <1>1, <1>4, PackageReads
<1>5. CASE ReadField \/ PassToken
  BY <1>1, <1>5, WalkReads
<1>6. CASE NotPackage \/ UpdateNode
  BY <1>1, <1>6, LoopReads
<1>7. CASE UpdateNull
  BY <1>7, DeathReads
<1>8. CASE \/ Fill \/ EndFill \/ AskFails \/ NoResults \/ EndApply \/ SelectKnown
           \/ PassUnknown \/ EndSelect
  <2>1. /\ UNCHANGED <<answer, pos, walk>> /\ tokens' = tokens /\ Asked' = Asked
        /\ phase' \in {"fill", "ask", "select", "done"}
        /\ phase' \in {"fill", "ask"} => phase = "fill"
    BY <1>1, <1>8 DEF Fill, EndFill, AskFails, NoResults, EndApply, SelectKnown, PassUnknown,
                      EndSelect, Selecting, package, tokens, Asked, NameAt
  <2> QED BY <2>1 DEF Reading, Phases
<1>9. CASE UNCHANGED vars
  <2>1. UNCHANGED <<phase, pos, walk, answer, found, tokens, Asked>> /\ (Misread' <=> Misread)
    BY <1>9 DEF vars, tokens, Asked, NameAt, Misread
  <2>2. ReadSoFar' <=> ReadSoFar
    BY <2>1 DEF ReadSoFar, HasRead
  <2> QED BY <2>1, <2>2 DEF Reading
<1> QED BY <1>2, <1>3, <1>4, <1>5, <1>6, <1>7, <1>8, <1>9 DEF Next, Compute

-----------------------------------------------------------------------------
\* What the nodes in use say, with whatever answer.
Nodes ==
  /\ \A p \in 1 .. table.n_items :
       /\ table.stash[p].pkg_name \in Names /\ EntryOf(table.stash[p]) \in Entries
       /\ ~table.stash[p].is_non_aur => table.stash[p].package_base \in Bases \cup {Junk}
  /\ phase = "fill" => \A p \in 1 .. table.size : table.stash[p].package_base = Garbage

\* What the loop over the packages has gone past.
Passed ==
  IF phase = "search" THEN {}
  ELSE IF phase \in {"apply", "package"} THEN {r \in answer.told : r.place < pos}
  ELSE answer.told

\* A node says what it was told, and only then is of the AUR.
SaysOf(node, told) ==
  /\ \A r \in told : r.says["Name"] = node.pkg_name => Applied(node, r.says)
  /\ node.is_non_aur = ~\E r \in told : r.says["Name"] = node.pkg_name
Written ==
  phase # "dead" /\ ~Misread => \A p \in 1 .. table.n_items : SaysOf(table.stash[p], Passed)

\* What filter_aur_pkgs() kept so far.
KnownOf(pkgs, told, places) == {m \in places : \E r \in told : r.says["Name"] = pkgs[m].name}
Keeps(list, pkgs, told, places) == Listed(list, pkgs, KnownOf(pkgs, told, places))
Selection ==
  /\ selected \in Seq(Names)
  /\ phase \notin {"select", "done"} => selected = <<>>
  /\ request.source = "arguments" /\ ~Misread =>
       /\ phase = "select" => Keeps(selected, request.pkgs, answer.told, 1 .. k - 1)
       /\ phase = "done" => Keeps(selected, request.pkgs, answer.told, DOMAIN request.pkgs)

\* The table u has what was found in the node p, and else what t has.
Updated(t, u, p, f, type) ==
  /\ u.size = t.size /\ u.n_items = t.n_items
  /\ \A q \in 1 .. t.size : /\ u.stash[q].pkg_name = t.stash[q].pkg_name
                            /\ q # p => EntryOf(u.stash[q]) = EntryOf(t.stash[q])
  /\ EntryOf(u.stash[p]) = [installed |-> t.stash[p].installed_ver, updated |-> f["Version"],
                            base |-> f["PackageBase"], non_aur |-> FALSE, update |-> type]

\* What UpdateNode writes to is the node of a package the answer tells of.
LEMMA FoundNode ==
  ASSUME TableInv, Reading, Nodes, UpdateNode
  PROVE  \E r \in answer.told :
           /\ r.place = pos /\ found["Name"] = r.says["Name"] /\ r.says["Name"] \in Names
           /\ Node \in 1 .. table.n_items /\ table.stash[Node].pkg_name = r.says["Name"]
<1>1. Walked /\ found["Name"] # NoText /\ Node # NULL /\ IsAnswer(answer, Asked) /\ phase # "fill"
  BY DEF UpdateNode, Walked, Reading
<1>2. PICK r \in answer.told : r.place = pos
  BY <1>1, WalkedReads DEF Places
<1>3. found["Name"] \in {r.says["Name"], Junk}
  BY <1>1, <1>2, WalkedReads DEF Keys
<1>4. r.says["Name"] \in Asked
  BY <1>1, <1>2 DEF IsAnswer
<1>5. Find(table, r.says["Name"]) \in 1 .. table.n_items
      /\ table.stash[Find(table, r.says["Name"])].pkg_name = r.says["Name"]
  BY <1>1, <1>4, AskedFound
<1>6. found["Name"] # Junk
  <2>1. IsTable(table) /\ Linked(table, table.n_items) /\ Junk \in Texts
    BY DEF TableInv, Sound, Texts
  <2>2. table.size # 0
    BY <1>5, <2>1 DEF Linked, IsTable
  <2>3. \A p \in 1 .. table.n_items : table.stash[p].pkg_name # Junk
    BY TextsAssumption DEF Nodes
  <2>4. Find(table, Junk) = NULL
    BY <2>1, <2>2, <2>3, FindsNothing
  <2> QED BY <1>1, <2>4 DEF Node
<1>7. r.says["Name"] \in Names
  BY <1>5 DEF Nodes
<1> QED BY <1>2, <1>3, <1>5, <1>6, <1>7 DEF Node

\* It writes what was found.
LEMMA NodeUpdated ==
  ASSUME TableInv, Reading, Nodes, UpdateNode
  PROVE  \E type \in Compare(table.stash[Node].installed_ver, found["Version"]) :
           Updated(table, table', Node, found, type)
<1>1. PICK type \in Compare(table.stash[Node].installed_ver, found["Version"]) :
        table' = [table EXCEPT !.stash[Node] =
                    [@ EXCEPT !.updated_ver = found["Version"],
                              !.package_base = found["PackageBase"],
                              !.is_non_aur = FALSE, !.update_type = type]]
  BY DEF UpdateNode
<1>t. IsTable(table) /\ Linked(table, table.n_items)
  BY DEF TableInv, Sound
<1>2. PICK p \in 1 .. table.size : p = Node
  BY <1>t, FoundNode DEF Linked, IsTable
<1> DEFINE r == [table.stash[p] EXCEPT !.updated_ver = found["Version"],
                    !.package_base = found["PackageBase"],
                    !.is_non_aur = FALSE, !.update_type = type]
<1>3. table' = [table EXCEPT !.stash[p] = r]
  BY <1>1, <1>2
<1>4. /\ IsNode(r) /\ r.pkg_name = table.stash[p].pkg_name
      /\ r.next_node = table.stash[p].next_node
      /\ EntryOf(r) = [installed |-> table.stash[p].installed_ver, updated |-> found["Version"],
                       base |-> found["PackageBase"], non_aur |-> FALSE, update |-> type]
  <2>0. IsNode(table.stash[p])
    BY <1>t DEF IsTable
  <2>1. /\ IsNode(r) /\ r.pkg_name = table.stash[p].pkg_name
        /\ r.next_node = table.stash[p].next_node
        /\ r.installed_ver = table.stash[p].installed_ver /\ r.updated_ver = found["Version"]
        /\ r.package_base = found["PackageBase"] /\ r.is_non_aur = FALSE /\ r.update_type = type
    BY ONLY <2>0 DEF IsNode
  <2> HIDE DEF r
  <2> QED BY <2>1 DEF EntryOf
<1>5. table.stash[p].pkg_name \in Texts
  BY <1>t DEF IsTable
<1> HIDE DEF r
<1>6. /\ table'.size = table.size /\ table'.n_items = table.n_items
      /\ \A q \in 1 .. table.size : table'.stash[q] = IF q = p THEN r ELSE table.stash[q]
  <2>1. /\ p \in 1 .. table.size => IsNode(r) /\ r.pkg_name \in Texts
                                   /\ r.next_node = table.stash[p].next_node
    BY <1>4, <1>5
  <2> QED BY <1>t, <1>3, <2>1, PutNode
<1>7. Updated(table, table', p, found, type)
  BY <1>4, <1>6 DEF Updated
<1> QED BY <1>2, <1>7

\* There is a place for the next package.
LEMMA FillPlace ==
  ASSUME TableInv, Fill
  PROVE  Sound(table) /\ table.size # 0 /\ NameAt(k) \in Names
         /\ request.pkgs[k].ver \in Versions \cup {NoText}
<1>1. PICK len \in Nat : len = Len(request.pkgs)
  BY Requested DEF TableInv, Filling
<1>2. k \in 1 .. len /\ request \in Requests
  BY <1>1 DEF TableInv, Filling, Fill
<1>3. table.size # 0
  <2>1. len <= table.size /\ table.size \in Nat
    BY <1>1 DEF TableInv, Filling, Sound, IsTable
  <2> QED BY <1>2, <2>1
<1> QED BY <1>1, <1>2, <1>3, Requested DEF TableInv, NameAt

\* A new node, or one that is set again, is not of the AUR; the others are kept.
LEMMA FillGains ==
  ASSUME TableInv, Fill
  PROVE  Gains(table, table', NameAt(k), request.pkgs[k].ver, NoText, TRUE)
BY FillPlace, SetItem DEF Fill, NameAt

\* The fields of an entry.
LEMMA EntryFields ==
  ASSUME NEW node, NEW e, EntryOf(node) = e
  PROVE  /\ e.installed = node.installed_ver /\ e.updated = node.updated_ver
         /\ e.base = node.package_base /\ e.non_aur = node.is_non_aur
         /\ e.update = node.update_type
BY DEF EntryOf

LEMMA FillNodes == ASSUME TableInv, Nodes, Fill PROVE Nodes'
<1>1. /\ Gains(table, table', NameAt(k), request.pkgs[k].ver, NoText, TRUE)
      /\ phase = "fill" /\ phase' = "fill"
  BY FillGains DEF Fill
<1>2. NameAt(k) \in Names /\ request.pkgs[k].ver \in Versions \cup {NoText}
  BY FillPlace
<1>3. /\ table'.size = table.size /\ table'.n_items \in 0 .. table.size /\ table.size \in Nat
      /\ table.n_items \in 0 .. table.size
  <2>1. TableInv' /\ table'.size = table.size
    <3>1. Filled(table, table', NameAt(k))
      BY FillPlace, SetItem DEF Fill, NameAt
    <3> QED BY <3>1, FillKeeps DEF Filled
  <2> QED BY <2>1 DEF TableInv, Sound, Linked, IsTable
<1>4. \A p \in 1 .. table.size : table'.stash[p].package_base = Garbage
  BY <1>1 DEF Gains, Nodes
<1>5. ASSUME NEW p \in 1 .. table'.n_items
      PROVE  /\ table'.stash[p].pkg_name \in Names /\ EntryOf(table'.stash[p]) \in Entries
             /\ ~table'.stash[p].is_non_aur => table'.stash[p].package_base \in Bases \cup {Junk}
  <2>1. p \in 1 .. table.size
    BY <1>3
  <2>2. CASE table'.stash[p].pkg_name = NameAt(k)
    <3>1. EntryOf(table'.stash[p]) = Item(table, p, request.pkgs[k].ver, NoText, TRUE)
      BY <1>1, <2>2 DEF Gains
    <3>2. table.stash[p].package_base = Garbage
      BY <1>1, <2>1 DEF Nodes
    <3>3. table'.stash[p].is_non_aur = TRUE
      BY <3>1, EntryFields DEF Item
    <3> QED BY <1>2, <2>2, <3>1, <3>2, <3>3 DEF Item, Entries
  <2>3. CASE table'.stash[p].pkg_name # NameAt(k)
    <3>1. p \in 1 .. table.n_items
      BY <1>1, <2>3 DEF Gains
    <3>2. /\ table'.stash[p].pkg_name = table.stash[p].pkg_name
          /\ EntryOf(table'.stash[p]) = EntryOf(table.stash[p])
      BY <1>1, <2>3, <3>1 DEF Gains
    <3>3. /\ table'.stash[p].is_non_aur = table.stash[p].is_non_aur
          /\ table'.stash[p].package_base = table.stash[p].package_base
      BY <3>2 DEF EntryOf
    <3> QED BY <3>1, <3>2, <3>3 DEF Nodes
  <2> QED BY <2>2, <2>3
<1> QED BY <1>3, <1>4, <1>5 DEF Nodes

LEMMA UpdateNodes == ASSUME TableInv, Reading, Nodes, UpdateNode PROVE Nodes'
<1>1. PICK r \in answer.told : /\ r.place = pos
                               /\ Node \in 1 .. table.n_items
  BY FoundNode
<1>2. PICK type \in Compare(table.stash[Node].installed_ver, found["Version"]) :
        Updated(table, table', Node, found, type)
  BY NodeUpdated
<1>3. IsAnswer(answer, Asked) /\ Walked /\ phase' = "apply" /\ Node \in 1 .. table.n_items
  BY <1>1 DEF UpdateNode, Walked, Reading
<1>4. found["Version"] \in Versions \cup {Junk} /\ found["PackageBase"] \in Bases \cup {Junk}
  <2>1. "Version" \in Keys /\ "PackageBase" \in Keys
    BY DEF Keys
  <2>2. r.says["Version"] \in Versions /\ r.says["PackageBase"] \in Bases
    BY <1>3 DEF IsAnswer
  <2> QED BY <1>1, <1>3, <2>1, <2>2, WalkedReads
<1>5. type \in {"UPGRADE", "UP_TO_DATE", "DOWNGRADE"}
  BY DEF Compare
<1>6. table.n_items \in 0 .. table.size /\ table.size \in Nat
  BY DEF TableInv, Sound, Linked, IsTable
<1>7. ASSUME NEW p \in 1 .. table.n_items
      PROVE  /\ table'.stash[p].pkg_name \in Names /\ EntryOf(table'.stash[p]) \in Entries
             /\ ~table'.stash[p].is_non_aur => table'.stash[p].package_base \in Bases \cup {Junk}
  <2>1. p \in 1 .. table.size /\ table'.stash[p].pkg_name \in Names
    BY <1>2, <1>6 DEF Updated, Nodes
  <2>2. CASE p = Node
    <3>1. EntryOf(table'.stash[p]) =
            [installed |-> table.stash[p].installed_ver, updated |-> found["Version"],
             base |-> found["PackageBase"], non_aur |-> FALSE, update |-> type]
      BY <1>2, <2>2 DEF Updated
    <3>2. table'.stash[p].package_base = found["PackageBase"]
      BY <3>1, EntryFields
    <3>3. table.stash[p].installed_ver \in Versions \cup {NoText}
      <4>1. EntryOf(table.stash[p]) \in Entries
        BY DEF Nodes
      <4> QED BY <4>1 DEF EntryOf, Entries
    <3>4. EntryOf(table'.stash[p]) \in Entries
      BY <1>4, <1>5, <3>1, <3>3 DEF Entries
    <3> QED BY <1>4, <2>1, <3>2, <3>4
  <2>3. CASE p # Node
    <3>1. EntryOf(table'.stash[p]) = EntryOf(table.stash[p])
      BY <1>2, <2>1, <2>3 DEF Updated
    <3>2. /\ table'.stash[p].is_non_aur = table.stash[p].is_non_aur
          /\ table'.stash[p].package_base = table.stash[p].package_base
      BY <3>1 DEF EntryOf
    <3> QED BY <2>1, <3>1, <3>2 DEF Nodes
  <2> QED BY <2>2, <2>3
<1>8. table'.n_items = table.n_items
  BY <1>2 DEF Updated
<1> QED BY <1>3, <1>7, <1>8 DEF Nodes

LEMMA NodesInit == Init => Nodes
<1> SUFFICES ASSUME Init PROVE Nodes
  OBVIOUS
<1>1. PICK n \in Nat : table = hashtable_init(n)
  BY Requested, QueryAssumption DEF Init
<1>2. table.size = n /\ table.n_items = 0 /\ table.stash = [p \in 1 .. n |-> Blank]
  BY <1>1 DEF hashtable_init
<1> QED BY <1>2 DEF Nodes, Blank

\* The table is written to nowhere else.
LEMMA TableKept ==
  ASSUME [Next]_vars, ~Fill, ~UpdateNode
  PROVE  UNCHANGED <<request, table>> /\ (phase' = "fill" => phase = "fill")
BY DEF Next, Compute, vars, EndFill, Ask, AskFails, SearchOn, NoResults, Results, Package,
       ReadField, PassToken, NotPackage, Walked, UpdateNull, EndApply, SelectKnown, PassUnknown,
       EndSelect

LEMMA NodesStep == TableInv /\ Reading /\ Nodes /\ [Next]_vars => Nodes'
<1> SUFFICES ASSUME TableInv, Reading, Nodes, [Next]_vars PROVE Nodes'
  OBVIOUS
<1>1. CASE Fill
  BY <1>1, FillNodes
<1>2. CASE UpdateNode
  BY <1>2, UpdateNodes
<1>3. CASE ~Fill /\ ~UpdateNode
  BY <1>3, TableKept DEF Nodes
<1> QED BY <1>1, <1>2, <1>3

\* Only its contents matter.
LEMMA SaysSame ==
  ASSUME NEW node, NEW other, EntryOf(other) = EntryOf(node), other.pkg_name = node.pkg_name,
         NEW told, SaysOf(node, told)
  PROVE  SaysOf(other, told)
<1>1. /\ other.installed_ver = node.installed_ver /\ other.updated_ver = node.updated_ver
      /\ other.package_base = node.package_base /\ other.is_non_aur = node.is_non_aur
      /\ other.update_type = node.update_type
  BY DEF EntryOf
<1>2. \A says : Applied(node, says) <=> Applied(other, says)
  BY <1>1 DEF Applied
<1> QED BY <1>1, <1>2 DEF SaysOf

\* The version of a node is compared with what the AUR says.
LEMMA Compared ==
  ASSUME NEW node, NEW says, says["Version"] \in Versions,
         node.installed_ver \in Versions \cup {NoText},
         node.updated_ver = says["Version"], node.package_base = says["PackageBase"],
         node.update_type \in Compare(node.installed_ver, says["Version"])
  PROVE  Applied(node, says)
<1>1. Versions \subseteq Int /\ NoText \notin Versions
  BY QueryAssumption
<1>2. CASE node.installed_ver = NoText
  BY <1>2 DEF Compare, Applied
<1>3. CASE node.installed_ver # NoText
  <2>1. PICK i \in Int : i = node.installed_ver
    BY <1>1, <1>3
  <2>2. PICK u \in Int : u = says["Version"]
    BY <1>1
  <2>3. node.update_type \in IF i = u THEN {"UP_TO_DATE"} ELSE IF i < u THEN {"UPGRADE"} ELSE {"DOWNGRADE"}
    BY <1>3, <2>1, <2>2 DEF Compare
  <2>4. (node.update_type = "UPGRADE" <=> i < u) /\ (node.update_type = "DOWNGRADE" <=> i > u)
    BY <2>3
  <2> QED BY <1>3, <2>1, <2>2, <2>4 DEF Applied
<1> QED BY <1>2, <1>3

\* A step that applies nothing goes past no package.
LEMMA PassedKept ==
  ASSUME TableInv, Reading, [Next]_vars, ~UpdateNode, phase' # "dead"
  PROVE  Passed' = Passed /\ (Misread => Misread')
<1>1. CASE Ask
  <2>1. answer.told = {} /\ phase = "ask" /\ phase' = "search"
    BY <1>1 DEF Ask, Reading, NoAnswer
  <2> QED BY <2>1 DEF Passed, Misread
<1>2. CASE answer' = answer
  <2>0. (Misread <=> Misread') /\ tokens = answer.tokens
    BY <1>2 DEF Misread, tokens
  <2>1. CASE Results
    <3>1. /\ IsAnswer(answer, Asked) /\ phase = "search" /\ phase' = "apply" /\ pos' = pos + 2
          /\ pos <= Len(tokens) /\ tokens[pos].key = "results"
          /\ pos \in answer.keys \cup {Len(tokens) + 1}
      BY <2>1 DEF Reading, Results
    <3>2. PICK len \in Nat \ {0} : len = Len(tokens)
      BY <2>0, <3>1, AnswerTokens
    <3>3. pos \in answer.keys /\ pos \in 1 .. len /\ pos + 1 \in 1 .. len
      BY <2>0, <3>1, <3>2, KeyNext
    <3>4. PICK x \in 2 .. len : x = pos + 1 /\ x - 1 = pos
      BY <3>3
    <3>5. x \in Arrays(answer)
      BY <2>0, <3>1, <3>2, <3>3, <3>4 DEF Arrays
    <3>6. \A r \in answer.told : ~(r.place < pos + 2)
      <4> TAKE r \in answer.told
      <4>1. r.place \in 1 .. len /\ x < r.place
        BY <2>0, <3>1, <3>2, <3>5, PlaceInside, ArrayEnds
      <4> QED BY <3>4, <4>1
    <3> QED BY <1>2, <2>0, <3>1, <3>6 DEF Passed
  <2>2. CASE NoResults
    <3>1. /\ IsAnswer(answer, Asked) /\ phase = "search" /\ phase' = "select"
          /\ pos > Len(tokens) /\ pos \in 1 .. Len(tokens) + 1
          /\ \A q \in answer.keys : q < pos => tokens[q].key # "results"
      BY <2>2 DEF Reading, NoResults
    <3>2. PICK len \in Nat \ {0} : len = Len(tokens)
      BY <2>0, <3>1, AnswerTokens
    <3>3. ASSUME NEW x \in Arrays(answer) PROVE FALSE
      <4>1. x \in 2 .. len /\ x - 1 \in answer.keys /\ tokens[x - 1].key = "results"
        BY <2>0, <3>2 DEF Arrays
      <4>2. x - 1 < pos
        BY <3>1, <3>2, <4>1
      <4> QED BY <3>1, <4>1, <4>2
    <3>4. answer.told = {}
      BY <3>1, <3>3 DEF IsAnswer
    <3> QED BY <1>2, <2>0, <3>1, <3>4 DEF Passed
  <2>3. CASE EndApply
    <3>1. /\ IsAnswer(answer, Asked) /\ phase = "apply" /\ phase' = "select"
          /\ pos > Len(tokens) /\ pos \in 1 .. Len(tokens) + 1
      BY <2>3 DEF Reading, EndApply
    <3>2. PICK len \in Nat \ {0} : len = Len(tokens)
      BY <2>0, <3>1, AnswerTokens
    <3>3. \A r \in answer.told : r.place < pos
      <4> TAKE r \in answer.told
      <4>1. r.place \in 1 .. len
        BY <2>0, <3>1, <3>2, PlaceInside
      <4> QED BY <3>1, <3>2, <4>1
    <3> QED BY <1>2, <2>0, <3>1, <3>3 DEF Passed
  <2>4. CASE NotPackage
    <3>1. /\ IsAnswer(answer, Asked) /\ phase = "package" /\ phase' = "apply" /\ Walked
          /\ found["Name"] = NoText /\ pos \in Outer(answer) /\ pos <= Len(tokens)
          /\ pos' = pos + tokens[pos].size
      BY <2>4 DEF Reading, ReadSoFar, NotPackage, Walked, find_next_sibling
    <3>2. PICK len \in Nat \ {0} : len = Len(tokens)
      BY <2>0, <3>1, AnswerTokens
    <3>3. \A r \in answer.told : r.place # pos
      BY <3>1, WalkedReads DEF Keys
    <3>4. /\ pos \in 1 .. len /\ tokens[pos].size \in Nat \ {0}
          /\ \A r \in answer.told : r.place < pos' => r.place <= pos
      BY <2>0, <3>1, <3>2, OuterNext
    <3>5. \A r \in answer.told : r.place < pos' <=> r.place < pos
      <4> TAKE r \in answer.told
      <4>1. r.place \in 1 .. len
        BY <2>0, <3>1, <3>2, PlaceInside
      <4> QED BY <3>1, <3>3, <3>4, <4>1
    <3> QED BY <1>2, <2>0, <3>1, <3>5 DEF Passed
  <2>5. CASE ~Results /\ ~NoResults /\ ~EndApply /\ ~NotPackage /\ ~Ask
    <3>1. \/ UNCHANGED <<phase, pos>>
          \/ phase \in {"apply", "package"} /\ phase' \in {"apply", "package"} /\ UNCHANGED pos
          \/ phase = "search" /\ phase' = "search"
          \/ phase \notin {"search", "apply", "package"} /\ phase' \notin {"search", "apply", "package"}
      BY <2>5 DEF Next, Compute, vars, Fill, EndFill, AskFails, SearchOn, Package, ReadField, PassToken,
                  UpdateNull, SelectKnown, PassUnknown, EndSelect, Selecting
    <3> QED BY <1>2, <2>0, <3>1 DEF Passed
  <2> QED BY <1>1, <2>1, <2>2, <2>3, <2>4, <2>5
<1> QED BY <1>1, <1>2 DEF Next, Compute, vars, Fill, EndFill, AskFails, SearchOn, NoResults, Results,
             Package, ReadField, PassToken, NotPackage, UpdateNull, EndApply, SelectKnown,
             PassUnknown, EndSelect

\* Before the AUR is asked each node is one of no package of the AUR.
LEMMA FillWrites == ASSUME TableInv, Reading, Nodes, Written, Fill PROVE Written'
<1>1. /\ Gains(table, table', NameAt(k), request.pkgs[k].ver, NoText, TRUE)
      /\ phase = "fill" /\ phase' = "fill" /\ answer' = answer /\ answer.told = {}
  <2>1. phase = "fill" /\ phase' = "fill" /\ answer' = answer
    BY DEF Fill
  <2>2. answer.told = {}
    BY <2>1 DEF Reading, NoAnswer
  <2> QED BY <2>1, <2>2, FillGains
<1>2. Passed = {} /\ Passed' = {} /\ ~Misread
  BY <1>1 DEF Passed, Misread
<1>3. ASSUME NEW p \in 1 .. table'.n_items PROVE SaysOf(table'.stash[p], {})
  <2>1. CASE table'.stash[p].pkg_name = NameAt(k)
    <3>1. EntryOf(table'.stash[p]) = Item(table, p, request.pkgs[k].ver, NoText, TRUE)
      BY <1>1, <2>1 DEF Gains
    <3>2. table'.stash[p].is_non_aur = TRUE
      BY <3>1, EntryFields DEF Item
    <3> QED BY <3>2 DEF SaysOf
  <2>2. CASE table'.stash[p].pkg_name # NameAt(k)
    <3>1. p \in 1 .. table.n_items
      BY <1>1, <2>2 DEF Gains
    <3>2. /\ table'.stash[p].pkg_name = table.stash[p].pkg_name
          /\ EntryOf(table'.stash[p]) = EntryOf(table.stash[p])
      BY <1>1, <2>2, <3>1 DEF Gains
    <3>3. SaysOf(table.stash[p], {})
      BY <1>1, <1>2, <3>1 DEF Written
    <3> QED BY <3>2, <3>3, SaysSame
  <2> QED BY <2>1, <2>2
<1> QED BY <1>2, <1>3 DEF Written

\* The node of the package the loop is at gets what the answer says of it.
LEMMA UpdateWrites ==
  ASSUME TableInv, Reading, Nodes, Written, UpdateNode, ~Misread PROVE Written'
<1>1. PICK r \in answer.told :
        /\ r.place = pos /\ found["Name"] = r.says["Name"]
        /\ Node \in 1 .. table.n_items /\ table.stash[Node].pkg_name = r.says["Name"]
  BY FoundNode
<1>2. PICK type \in Compare(table.stash[Node].installed_ver, found["Version"]) :
        Updated(table, table', Node, found, type)
  BY NodeUpdated
<1>3. /\ IsAnswer(answer, Asked) /\ Walked /\ phase = "package" /\ phase' = "apply"
      /\ answer' = answer /\ pos' = pos + tokens[pos].size /\ tokens = answer.tokens
      /\ pos \in Outer(answer) /\ pos <= Len(tokens)
  BY DEF UpdateNode, Walked, Reading, ReadSoFar, find_next_sibling, tokens
<1>4. found["Version"] = r.says["Version"] /\ found["PackageBase"] = r.says["PackageBase"]
  BY <1>1, <1>3, WalkedReads DEF Keys
<1>5. Passed' = Passed \cup {r}
  <2>1. PICK len \in Nat \ {0} : len = Len(tokens)
    BY <1>3, AnswerTokens
  <2>2. /\ pos \in 1 .. len /\ tokens[pos].size \in Nat \ {0}
        /\ \A s \in answer.told : s.place < pos' => s.place <= pos
    BY <1>3, <2>1, OuterNext
  <2>3. \A s \in answer.told : s.place = pos => s = r
    BY <1>1, <1>3 DEF IsAnswer
  <2>4. \A s \in answer.told : s.place < pos' <=> s.place < pos \/ s = r
    <3> TAKE s \in answer.told
    <3>1. PICK l \in 1 .. len : l = s.place
      BY <1>3, <2>1, PlaceInside
    <3>2. PICK i \in 1 .. len, n \in Nat \ {0} : i = pos /\ n = tokens[pos].size
      BY <2>2
    <3>3. pos' = i + n /\ (l < i + n => l <= i) /\ (l = i <=> s = r)
      BY <1>1, <1>3, <2>2, <2>3, <3>1, <3>2
    <3>4. l < i + n <=> l < i \/ l = i
      BY <3>3
    <3> QED BY <3>1, <3>2, <3>3, <3>4
  <2> QED BY <1>1, <1>3, <2>4 DEF Passed
<1>6. table.n_items \in 0 .. table.size /\ table.size \in Nat /\ table'.n_items = table.n_items
  BY <1>2 DEF TableInv, Sound, Linked, IsTable, Updated
<1>7. ASSUME NEW p \in 1 .. table.n_items PROVE SaysOf(table'.stash[p], Passed \cup {r})
  <2>0. p \in 1 .. table.size
    BY <1>6
  <2>1. table'.stash[p].pkg_name = table.stash[p].pkg_name /\ SaysOf(table.stash[p], Passed)
    BY <1>2, <1>3, <2>0 DEF Updated, Written
  <2>2. CASE p = Node
    <3>1. EntryOf(table'.stash[p]) =
            [installed |-> table.stash[p].installed_ver, updated |-> found["Version"],
             base |-> found["PackageBase"], non_aur |-> FALSE, update |-> type]
      BY <1>2, <2>2 DEF Updated
    <3>2. /\ table'.stash[p].installed_ver = table.stash[p].installed_ver
          /\ table'.stash[p].updated_ver = r.says["Version"]
          /\ table'.stash[p].package_base = r.says["PackageBase"]
          /\ table'.stash[p].is_non_aur = FALSE /\ table'.stash[p].update_type = type
      BY <1>4, <3>1, EntryFields
    <3>3. table.stash[p].installed_ver \in Versions \cup {NoText}
      <4>1. EntryOf(table.stash[p]) \in Entries
        BY DEF Nodes
      <4> QED BY <4>1 DEF EntryOf, Entries
    <3>4. Applied(table'.stash[p], r.says)
      <4>1. r.says["Version"] \in Versions
        BY <1>3 DEF IsAnswer
      <4> QED BY <1>2, <1>4, <2>2, <3>2, <3>3, <4>1, Compared
    <3>5. table'.stash[p].pkg_name = r.says["Name"]
      BY <1>1, <2>1, <2>2
    <3>6. \A s \in Passed \cup {r} : s.says["Name"] = r.says["Name"] => s = r
      <4>1. Passed \subseteq answer.told
        BY DEF Passed
      <4> QED BY <1>3, <4>1 DEF IsAnswer
    <3> QED BY <3>2, <3>4, <3>5, <3>6 DEF SaysOf
  <2>3. CASE p # Node
    <3>1. EntryOf(table'.stash[p]) = EntryOf(table.stash[p])
      BY <1>2, <2>0, <2>3 DEF Updated
    <3>2. SaysOf(table'.stash[p], Passed)
      BY <2>1, <3>1, SaysSame
    <3>3. table'.stash[p].pkg_name # r.says["Name"]
      BY <1>1, <2>1, <2>3 DEF TableInv, Sound, Linked, Distinct
    <3> QED BY <3>2, <3>3 DEF SaysOf
  <2> QED BY <2>2, <2>3
<1> QED BY <1>5, <1>6, <1>7 DEF Written

LEMMA WrittenInit == Init => Written
<1> SUFFICES ASSUME Init PROVE Written
  OBVIOUS
<1>1. PICK n \in Nat : table = hashtable_init(n)
  BY Requested, QueryAssumption DEF Init
<1>2. table.n_items = 0
  BY <1>1 DEF hashtable_init
<1> QED BY <1>2 DEF Written

LEMMA WrittenStep == TableInv /\ Reading /\ Nodes /\ Written /\ [Next]_vars => Written'
<1> SUFFICES ASSUME TableInv, Reading, Nodes, Written, [Next]_vars, phase' # "dead", ~Misread'
             PROVE  Written'
  BY DEF Written
<1>1. CASE Fill
  BY <1>1, FillWrites
<1>2. CASE UpdateNode
  <2>1. ~Misread
    BY <1>2 DEF UpdateNode, Misread, tokens
  <2> QED BY <1>2, <2>1, UpdateWrites
<1>3. CASE ~Fill /\ ~UpdateNode
  <2>1. table' = table /\ Passed' = Passed /\ ~Misread
    BY <1>3, TableKept, PassedKept
  <2>2. phase # "dead"
    BY <1>3 DEF Next, Compute, vars, EndFill, Ask, AskFails, SearchOn, NoResults, Results, Package,
                ReadField, PassToken, NotPackage, Walked, UpdateNull, EndApply, SelectKnown,
                PassUnknown, EndSelect, Selecting
  <2> QED BY <2>1, <2>2 DEF Written
<1> QED BY <1>1, <1>2, <1>3

-----------------------------------------------------------------------------
\* In the selection a package is known when the answer told of it.
LEMMA KnownTold ==
  ASSUME TableInv, Reading, Written, phase = "select" \/ phase = "done", ~Misread,
         NEW m \in DOMAIN request.pkgs
  PROVE  /\ Find(table, NameAt(m)) \in 1 .. table.n_items
         /\ NodeOf(NameAt(m)).is_non_aur = ~Answered(NameAt(m))
         /\ \A r \in answer.told : r.says["Name"] = NameAt(m) => Applied(NodeOf(NameAt(m)), r.says)
<1>1. NameAt(m) \in Asked /\ phase # "fill" /\ phase # "dead"
  BY DEF Asked
<1>2. PICK p \in 1 .. table.n_items : p = Find(table, NameAt(m)) /\ table.stash[p].pkg_name = NameAt(m)
  BY <1>1, AskedFound
<1>3. SaysOf(table.stash[p], answer.told)
  <2>1. Passed = answer.told
    BY DEF Passed
  <2> QED BY <1>1, <2>1 DEF Written
<1> QED BY <1>2, <1>3 DEF SaysOf, NodeOf, Answered

\* One more name, of a place behind all others.
LEMMA ListedNext ==
  ASSUME NEW list, list \in Seq(Names), NEW pkgs, NEW n \in Nat, pkgs[n].name \in Names,
         NEW places, places \subseteq 1 .. n - 1, Listed(list, pkgs, places)
  PROVE  Listed(Append(list, pkgs[n].name), pkgs, places \cup {n})
<1>1. PICK len \in Nat : len = Len(list) /\ DOMAIN list = 1 .. len
  OBVIOUS
<1>2. PICK at \in [1 .. len -> places] :
        /\ \A x, y \in 1 .. len : x < y => at[x] < at[y]
        /\ \A x \in 1 .. len : list[x] = pkgs[at[x]].name
        /\ \A m \in places : \E x \in 1 .. len : at[x] = m
  BY <1>1 DEF Listed
<1> DEFINE new == Append(list, pkgs[n].name)
           to == [x \in 1 .. len + 1 |-> IF x = len + 1 THEN n ELSE at[x]]
<1>3. DOMAIN new = 1 .. len + 1 /\ new[len + 1] = pkgs[n].name /\ \A x \in 1 .. len : new[x] = list[x]
  BY <1>1
<1>4. \A x \in 1 .. len + 1 : x = len + 1 \/ x \in 1 .. len
  OBVIOUS
<1>5. /\ to \in [1 .. len + 1 -> places \cup {n}] /\ to[len + 1] = n
      /\ \A x \in 1 .. len : to[x] = at[x] /\ at[x] \in places /\ x \in 1 .. len + 1 /\ x # len + 1
      /\ len + 1 \in 1 .. len + 1
  BY <1>4
<1> HIDE DEF new, to
<1>6. \A x, y \in 1 .. len + 1 : x < y => to[x] < to[y]
  <2> SUFFICES ASSUME NEW x \in 1 .. len + 1, NEW y \in 1 .. len + 1, x < y PROVE to[x] < to[y]
    OBVIOUS
  <2>1. x \in 1 .. len
    OBVIOUS
  <2>2. to[x] = at[x] /\ at[x] \in 1 .. n - 1
    BY <1>5, <2>1
  <2>3. CASE y = len + 1
    BY <1>5, <2>2, <2>3
  <2>4. CASE y \in 1 .. len
    BY <1>2, <1>5, <2>1, <2>4
  <2> QED BY <1>4, <2>3, <2>4
<1>7. \A x \in 1 .. len + 1 : new[x] = pkgs[to[x]].name
  BY <1>2, <1>3, <1>4, <1>5
<1>8. \A m \in places \cup {n} : \E x \in 1 .. len + 1 : to[x] = m
  BY <1>2, <1>5
<1>9. Listed(new, pkgs, places \cup {n})
  <2>1. to \in [DOMAIN new -> places \cup {n}]
    BY <1>3, <1>5
  <2>2. /\ \A x, y \in DOMAIN new : x < y => to[x] < to[y]
        /\ \A x \in DOMAIN new : new[x] = pkgs[to[x]].name
        /\ \A m \in places \cup {n} : \E x \in DOMAIN new : to[x] = m
    BY <1>3, <1>6, <1>7, <1>8
  <2> QED BY <2>1, <2>2 DEF Listed
<1> QED BY <1>9 DEF new

\* No name, no place.
LEMMA ListedNone == ASSUME NEW pkgs PROVE Listed(<<>>, pkgs, {})
<1>1. DOMAIN <<>> = {}
  OBVIOUS
<1>2. [x \in {} |-> 0] \in [{} -> {}]
  OBVIOUS
<1> QED BY <1>1, <1>2 DEF Listed

LEMMA SelectionInit == Init => Selection
BY DEF Init, Selection

\* A name of the request that the answer told of is kept.
LEMMA KnownKept ==
  ASSUME TableInv, Reading, Written, Selection, SelectKnown \/ PassUnknown PROVE Selection'
<1>1. /\ UNCHANGED <<request, answer, phase>> /\ phase = "select" /\ k' = k + 1
      /\ request.source = "arguments" /\ request \in Requests
      /\ (Misread <=> Misread')
  BY DEF SelectKnown, PassUnknown, Selecting, TableInv, Filling, Misread, tokens
<1>2. PICK len \in Nat : /\ len = Len(request.pkgs) /\ DOMAIN request.pkgs = 1 .. len
                         /\ k \in 1 .. len /\ NameAt(k) \in Names
  <2>1. PICK len \in Nat : len = Len(request.pkgs) /\ DOMAIN request.pkgs = 1 .. len
    BY <1>1, Requested
  <2>2. k \in 1 .. len
    BY <2>1 DEF TableInv, Filling, SelectKnown, PassUnknown, Selecting
  <2> QED BY <1>1, <2>1, <2>2, Requested DEF NameAt
<1>3. selected' \in Seq(Names)
  BY <1>2 DEF Selection, SelectKnown, PassUnknown
<1>4. ~Misread => (Known(k) <=> Answered(NameAt(k)))
  <2> HAVE ~Misread
  <2>1. NodeOf(NameAt(k)).is_non_aur = ~Answered(NameAt(k))
    BY <1>1, <1>2, KnownTold
  <2> QED BY <2>1 DEF Known, NodeOf
<1>5. \A m \in 1 .. k : m = k \/ m \in 1 .. k - 1
  BY <1>2
<1>6. \A m \in 1 .. k - 1 : m \in 1 .. k /\ m # k
  BY <1>2
<1>7. ASSUME ~Misread PROVE Keeps(selected', request.pkgs, answer.told, 1 .. k)
  <2>1. Keeps(selected, request.pkgs, answer.told, 1 .. k - 1)
    BY <1>1, <1>7 DEF Selection
  <2>2. CASE SelectKnown
    <3>1. KnownOf(request.pkgs, answer.told, 1 .. k) = KnownOf(request.pkgs, answer.told, 1 .. k - 1) \cup {k}
      <4>1. Answered(NameAt(k)) /\ k \in 1 .. k
        BY <1>2, <1>4, <1>7, <2>2 DEF SelectKnown
      <4> QED BY <1>5, <1>6, <4>1 DEF KnownOf, Answered, NameAt
    <3>2. selected' = Append(selected, request.pkgs[k].name) /\ request.pkgs[k].name \in Names
      BY <1>2, <2>2 DEF SelectKnown, NameAt
    <3>3. KnownOf(request.pkgs, answer.told, 1 .. k - 1) \subseteq 1 .. k - 1
      BY DEF KnownOf
    <3>4. selected \in Seq(Names) /\ k \in Nat
      BY <1>2 DEF Selection
    <3>5. Listed(Append(selected, request.pkgs[k].name), request.pkgs,
                 KnownOf(request.pkgs, answer.told, 1 .. k - 1) \cup {k})
      BY <2>1, <3>2, <3>3, <3>4, ListedNext DEF Keeps
    <3> QED BY <3>1, <3>2, <3>5 DEF Keeps
  <2>3. CASE PassUnknown
    <3>1. KnownOf(request.pkgs, answer.told, 1 .. k) = KnownOf(request.pkgs, answer.told, 1 .. k - 1)
      <4>1. ~Answered(NameAt(k))
        BY <1>4, <1>7, <2>3 DEF PassUnknown
      <4> QED BY <1>5, <1>6, <4>1 DEF KnownOf, Answered, NameAt
    <3>2. selected' = selected
      BY <2>3 DEF PassUnknown
    <3> QED BY <2>1, <3>1, <3>2 DEF Keeps
  <2> QED BY <2>2, <2>3, SelectKnown \/ PassUnknown
<1>8. k' - 1 = k
  BY <1>1, <1>2
<1> QED BY <1>1, <1>3, <1>7, <1>8 DEF Selection

\* The list is started, and ended.
LEMMA SelectionEnds ==
  ASSUME TableInv, Reading, Selection, NoResults \/ EndApply \/ EndSelect \/ AskFails PROVE Selection'
<1>1. /\ UNCHANGED <<request, answer, selected>> /\ request \in Requests
      /\ (Misread <=> Misread')
  BY DEF NoResults, EndApply, EndSelect, AskFails, TableInv, Filling, Misread, tokens
<1>2. PICK len \in Nat : len = Len(request.pkgs) /\ DOMAIN request.pkgs = 1 .. len
  BY <1>1, Requested
<1>3. CASE NoResults \/ EndApply
  <2>1. phase' = "select" /\ k' = 1 /\ selected = <<>>
    BY <1>3 DEF Selection, NoResults, EndApply
  <2>2. KnownOf(request.pkgs, answer.told, 1 .. k' - 1) = {}
    BY <2>1 DEF KnownOf
  <2> QED BY <1>1, <2>1, <2>2, ListedNone DEF Selection, Keeps
<1>4. CASE AskFails
  <2>1. phase' = "done" /\ answer = NoAnswer /\ selected = <<>>
    BY <1>4 DEF Selection, Reading, AskFails
  <2>2. KnownOf(request.pkgs, answer.told, DOMAIN request.pkgs) = {}
    BY <2>1 DEF KnownOf, NoAnswer
  <2> QED BY <1>1, <2>1, <2>2, ListedNone DEF Selection, Keeps
<1>5. CASE EndSelect
  <2>1. phase = "select" /\ phase' = "done" /\ k \in 1 .. len + 1
    BY <1>2, <1>5 DEF EndSelect, TableInv, Filling
  <2>2. request.source = "arguments" => k = len + 1
    BY <1>2, <1>5, <2>1 DEF EndSelect, Selecting
  <2>3. request.source = "arguments" => 1 .. k - 1 = DOMAIN request.pkgs
    BY <1>2, <2>1, <2>2
  <2> QED BY <1>1, <2>1, <2>3 DEF Selection
<1> QED BY <1>3, <1>4, <1>5

LEMMA SelectionStep == TableInv /\ Reading /\ Written /\ Selection /\ [Next]_vars => Selection'
<1> SUFFICES ASSUME TableInv, Reading, Written, Selection, [Next]_vars PROVE Selection'
  OBVIOUS
<1>1. CASE SelectKnown \/ PassUnknown
  BY <1>1, KnownKept
<1>2. CASE NoResults \/ EndApply \/ EndSelect \/ AskFails
  BY <1>2, SelectionEnds
<1>3. CASE UNCHANGED vars
  <2>1. /\ UNCHANGED <<request, answer, phase, selected, k>>
        /\ (Misread <=> Misread')
    BY <1>3 DEF vars, Misread, tokens
  <2> QED BY <2>1 DEF Selection
<1>4. CASE \/ Fill \/ EndFill \/ Ask \/ SearchOn \/ Results \/ Package \/ ReadField \/ PassToken
           \/ NotPackage \/ UpdateNode \/ UpdateNull
  <2>1. selected' = selected /\ {phase, phase'} \subseteq Phases \ {"select", "done"}
    BY <1>4 DEF Fill, EndFill, Ask, SearchOn, Results, Package, ReadField, PassToken, NotPackage,
                UpdateNode, UpdateNull, Walked, Phases
  <2> QED BY <2>1 DEF Selection
<1> QED BY <1>1, <1>2, <1>3, <1>4 DEF Next, Compute

-----------------------------------------------------------------------------
\* What all of it is proved from.
AnswerInv == TableInv /\ Reading /\ Nodes /\ Written /\ Selection

LEMMA AnswerAlways == Spec => []AnswerInv
<1>1. Init => AnswerInv
  BY TableInit, ReadingInit, NodesInit, WrittenInit, SelectionInit DEF AnswerInv
<1>2. AnswerInv /\ [Next]_vars => AnswerInv'
  BY TableStep, ReadingStep, NodesStep, WrittenStep, SelectionStep DEF AnswerInv
<1> QED BY <1>1, <1>2, PTL DEF Spec

\* Every variable stays in its domain, and every pointer is NULL or leads to a
\* node in use.
THEOREM TypeCorrect == Spec => []TypeOK
<1>1. ASSUME AnswerInv PROVE TypeOK
  <2>1. TableInv /\ Reading /\ Selection
    BY <1>1 DEF AnswerInv
  <2>2. IsTable(table) /\ Linked(table, table.n_items) /\ table.size \in Nat
        /\ table.n_items \in 0 .. table.size
    BY <2>1 DEF TableInv, Sound, Linked, IsTable
  <2>3. ASSUME NEW b \in DOMAIN table.map PROVE table.map[b] \in 0 .. table.n_items
    <3>1. IsNext(table, table.n_items, 0, b, table.map[b])
      BY <2>2 DEF IsTable, Linked
    <3> QED BY <2>2, <3>1 DEF IsNext, NULL
  <2>4. ASSUME NEW p \in 1 .. table.n_items
        PROVE  table.stash[p].next_node \in 0 .. table.n_items
    <3>1. IsNext(table, table.n_items, p, BucketOf(table, p), table.stash[p].next_node)
      BY <2>2 DEF Linked
    <3> QED BY <2>2, <3>1 DEF IsNext, NULL
  <2> QED BY <2>1, <2>2, <2>3, <2>4 DEF TypeOK, Filling, TableInv, Reading, Selection, Phases
<1> QED BY <1>1, AnswerAlways, PTL

\* process_response_json() writes what the AUR said of each package to its node
\* and to no other, and filter_aur_pkgs() keeps the packages the AUR knows, for
\* any answer in which no value reads like a key, whatever its layout.
THEOREM AnswerWritten == Spec => []AnswerApplied
<1>1. ASSUME AnswerInv PROVE AnswerApplied
  <2> SUFFICES ASSUME phase = "done", ~Misread
               PROVE  /\ \A r \in answer.told : Applied(NodeOf(r.says["Name"]), r.says)
                      /\ \A m \in DOMAIN request.pkgs :
                           NodeOf(NameAt(m)).is_non_aur <=> ~Answered(NameAt(m))
                      /\ request.source = "arguments" =>
                           Listed(selected, request.pkgs,
                                  {m \in DOMAIN request.pkgs : Answered(NameAt(m))})
    BY DEF AnswerApplied
  <2>1. TableInv /\ Reading /\ Written /\ Selection
    BY <1>1 DEF AnswerInv
  <2>2. ASSUME NEW r \in answer.told PROVE Applied(NodeOf(r.says["Name"]), r.says)
    <3>1. r.says["Name"] \in Asked
      BY <2>1 DEF Reading, NoAnswer, IsAnswer
    <3>2. PICK m \in DOMAIN request.pkgs : r.says["Name"] = NameAt(m)
      BY <3>1 DEF Asked
    <3> QED BY <2>1, <3>2, KnownTold
  <2>3. ASSUME NEW m \in DOMAIN request.pkgs
        PROVE  NodeOf(NameAt(m)).is_non_aur <=> ~Answered(NameAt(m))
    <3>1. NodeOf(NameAt(m)).is_non_aur = ~Answered(NameAt(m))
      BY <2>1, KnownTold
    <3> QED BY <3>1
  <2>4. request.source = "arguments" =>
          Listed(selected, request.pkgs, {m \in DOMAIN request.pkgs : Answered(NameAt(m))})
    <3>1. KnownOf(request.pkgs, answer.told, DOMAIN request.pkgs)
            = {m \in DOMAIN request.pkgs : Answered(NameAt(m))}
      BY DEF KnownOf, Answered, NameAt
    <3> QED BY <2>1, <3>1 DEF Selection, Keeps
  <2> QED BY <2>2, <2>3, <2>4
<1> QED BY <1>1, AnswerAlways, PTL

\* No package that counts as known to the AUR has the package_base that was on
\* the stack, also when an answer is misread.
THEOREM BaseKnown == Spec => []BaseBeforeUse
<1>1. AnswerInv => BaseBeforeUse
  BY DEF AnswerInv, Nodes, BaseBeforeUse
<1> QED BY <1>1, AnswerAlways, PTL

\* The lookup that is not checked finds a node, but for an answer in which a
\* value reads like a key.
THEOREM DiesOnlyMisread == Spec => []DiesOfMisreading
<1>1. AnswerInv => DiesOfMisreading
  BY DEF AnswerInv, Reading, DiesOfMisreading
<1> QED BY <1>1, AnswerAlways, PTL

-----------------------------------------------------------------------------
\* The entry of a name is what is in its node.
LEMMA EntryOfNode ==
  ASSUME NEW t, Sound(t), NEW p \in 1 .. t.n_items
  PROVE  Entry(t, t.stash[p].pkg_name) = EntryOf(t.stash[p])
<1>1. Find(t, t.stash[p].pkg_name) = p
  BY FindsNode DEF Sound
<1>2. t.n_items # 0 /\ p # NULL
  BY DEF Sound, Linked, IsTable, NULL
<1> QED BY <1>1, <1>2 DEF Entry

LEMMA NoEntry ==
  ASSUME NEW t, Sound(t), NEW n \in Names, ~HasName(t, n)
  PROVE  Entry(t, n) = Absent
<1>1. CASE t.n_items = 0
  BY <1>1 DEF Entry
<1>2. CASE t.n_items # 0
  <2>1. t.size # 0 /\ n \in Texts
    BY <1>2 DEF Sound, Linked, IsTable, Texts
  <2>2. Find(t, n) = NULL
    BY <2>1, FindsNothing DEF Sound, HasName
  <2> QED BY <2>2 DEF Entry
<1> QED BY <1>1, <1>2

\* The entries of a new table.
LEMMA DictInit == Init => Dict!Init
<1> SUFFICES ASSUME Init PROVE Dict!Init
  OBVIOUS
<1>1. PICK n \in Nat : table = hashtable_init(n)
  BY Requested, QueryAssumption DEF Init
<1>2. table.n_items = 0 /\ phase = "fill"
  BY <1>1 DEF hashtable_init, Init
<1>3. \A m \in Names : Entry(table, m) = Absent
  BY <1>2 DEF Entry
<1> QED BY <1>2, <1>3 DEF Dict!Init

\* hashtable_set_item() puts one entry, in which the AUR has said nothing.
LEMMA FillPuts ==
  ASSUME TableInv, Nodes, Fill
  PROVE  /\ \A m \in Names \ {NameAt(k)} : Entry(table', m) = Entry(table, m)
         /\ Entry(table', NameAt(k)) =
              [installed |-> request.pkgs[k].ver, updated |-> NoText, base |-> Garbage,
               non_aur |-> TRUE, update |-> "UP_TO_DATE"]
<1>1. Gains(table, table', NameAt(k), request.pkgs[k].ver, NoText, TRUE) /\ phase = "fill"
  BY FillGains DEF Fill
<1>2. Filled(table, table', NameAt(k))
  BY FillPlace, SetItem DEF Fill, NameAt
<1>3. Sound(table) /\ Sound(table') /\ table'.size = table.size
  BY <1>2 DEF TableInv, Filled
<1>4. /\ table.n_items \in 0 .. table.size /\ table'.n_items \in 0 .. table.size
      /\ table.size \in Nat /\ table.n_items <= table'.n_items
  BY <1>1, <1>3 DEF Sound, Linked, IsTable, Gains
<1>5. ASSUME NEW m \in Names \ {NameAt(k)} PROVE Entry(table', m) = Entry(table, m)
  <2>1. CASE HasName(table, m)
    <3>1. PICK p \in 1 .. table.n_items : table.stash[p].pkg_name = m
      BY <2>1 DEF HasName
    <3>2. /\ table'.stash[p].pkg_name = m /\ p \in 1 .. table'.n_items
          /\ EntryOf(table'.stash[p]) = EntryOf(table.stash[p])
      BY <1>1, <1>4, <3>1 DEF Gains
    <3> QED BY <1>3, <3>1, <3>2, EntryOfNode
  <2>2. CASE ~HasName(table, m)
    <3>1. ~HasName(table', m)
      <4> SUFFICES ASSUME NEW p \in 1 .. table'.n_items, table'.stash[p].pkg_name = m PROVE FALSE
        BY DEF HasName
      <4>1. p \in 1 .. table.n_items
        BY <1>1 DEF Gains
      <4>2. table.stash[p].pkg_name = m
        BY <1>1, <4>1 DEF Gains
      <4> QED BY <2>2, <4>1, <4>2 DEF HasName
    <3> QED BY <1>3, <2>2, <3>1, NoEntry
  <2> QED BY <2>1, <2>2
<1>6. Entry(table', NameAt(k)) = [installed |-> request.pkgs[k].ver, updated |-> NoText,
                                  base |-> Garbage, non_aur |-> TRUE, update |-> "UP_TO_DATE"]
  <2>1. HasName(table', NameAt(k))
    <3>1. PICK len \in Nat : len = Len(request.pkgs)
      BY Requested DEF TableInv, Filling
    <3>2. k \in 1 .. len /\ table.n_items < k /\ len <= table.size
      BY <1>1, <3>1 DEF TableInv, Filling, Fill
    <3>3. table.n_items < table.size
      BY <1>4, <3>2
    <3> QED BY <1>2, <3>3 DEF Filled
  <2>2. PICK p \in 1 .. table'.n_items : table'.stash[p].pkg_name = NameAt(k)
    BY <2>1 DEF HasName
  <2>3. EntryOf(table'.stash[p]) = Item(table, p, request.pkgs[k].ver, NoText, TRUE)
    BY <1>1, <2>2 DEF Gains
  <2>4. table.stash[p].package_base = Garbage
    BY <1>1, <1>4 DEF Nodes
  <2>5. Entry(table', NameAt(k)) = EntryOf(table'.stash[p])
    BY <1>3, <2>2, EntryOfNode
  <2> QED BY <2>3, <2>4, <2>5 DEF Item
<1> QED BY <1>5, <1>6

\* What an entry is when the AUR knows the package.
LEMMA ToldEntry ==
  ASSUME NEW e, NEW v \in Versions \cup {Junk}, NEW b \in Bases \cup {Junk},
         NEW type \in Compare(e.installed, v)
  PROVE  [installed |-> e.installed, updated |-> v, base |-> b, non_aur |-> FALSE,
          update |-> type] \in Dict!Told(e)
<1> DEFINE Of(w, c) == {[installed |-> e.installed, updated |-> w, base |-> c, non_aur |-> FALSE,
                         update |-> u] : u \in Compare(e.installed, w)}
           d == [installed |-> e.installed, updated |-> v, base |-> b, non_aur |-> FALSE,
                 update |-> type]
<1>1. d \in Of(v, b)
  OBVIOUS
<1>2. Dict!Told(e) = UNION {Of(w, c) : w \in Versions \cup {Junk}, c \in Bases \cup {Junk}}
  BY DEF Dict!Told
<1> HIDE DEF Of, d
<1>3. d \in Dict!Told(e)
  BY <1>1, <1>2
<1> QED BY <1>3 DEF d

\* Writing what was found changes the entry of one package, which was there.
LEMMA UpdateLearns ==
  ASSUME TableInv, Reading, Nodes, UpdateNode
  PROVE  /\ found["Name"] \in Names /\ Entry(table, found["Name"]) # Absent
         /\ \A m \in Names \ {found["Name"]} : Entry(table', m) = Entry(table, m)
         /\ Entry(table', found["Name"]) \in Dict!Told(Entry(table, found["Name"]))
<1>1. PICK r \in answer.told :
        /\ r.place = pos /\ found["Name"] = r.says["Name"] /\ r.says["Name"] \in Names
        /\ Node \in 1 .. table.n_items /\ table.stash[Node].pkg_name = r.says["Name"]
  BY FoundNode
<1>2. PICK type \in Compare(table.stash[Node].installed_ver, found["Version"]) :
        Updated(table, table', Node, found, type)
  BY NodeUpdated
<1>3. PICK n \in Names : n = found["Name"]
  BY <1>1
<1>4. PICK p \in 1 .. table.n_items : p = Node /\ table.stash[p].pkg_name = n
  BY <1>1, <1>3
<1>5. /\ Sound(table) /\ Sound(table') /\ table'.size = table.size /\ table'.n_items = table.n_items
      /\ table.n_items \in 0 .. table.size /\ table.size \in Nat
  BY <1>2, UpdateKeeps DEF TableInv, Sound, Linked, IsTable, Updated
<1>6. \A q \in 1 .. table.n_items :
        /\ table'.stash[q].pkg_name = table.stash[q].pkg_name
        /\ q # p => EntryOf(table'.stash[q]) = EntryOf(table.stash[q])
  <2>1. \A q \in 1 .. table.n_items : q \in 1 .. table.size
    BY <1>5
  <2> QED BY <1>2, <1>4, <2>1 DEF Updated
<1>7. Entry(table, n) = EntryOf(table.stash[p]) /\ Entry(table', n) = EntryOf(table'.stash[p])
  BY <1>4, <1>5, <1>6, EntryOfNode
<1>8. Entry(table, n) # Absent
  BY <1>7, AbsentAssumption DEF Nodes
<1>9. ASSUME NEW m \in Names \ {n} PROVE Entry(table', m) = Entry(table, m)
  <2>1. CASE HasName(table, m)
    <3>1. PICK q \in 1 .. table.n_items : table.stash[q].pkg_name = m
      BY <2>1 DEF HasName
    <3>2. q # p
      BY <1>4, <3>1
    <3>3. table'.stash[q].pkg_name = m /\ EntryOf(table'.stash[q]) = EntryOf(table.stash[q])
      BY <1>6, <3>1, <3>2
    <3> QED BY <1>5, <3>1, <3>3, EntryOfNode
  <2>2. CASE ~HasName(table, m)
    <3>1. ~HasName(table', m)
      BY <1>5, <1>6, <2>2 DEF HasName
    <3> QED BY <1>5, <2>2, <3>1, NoEntry
  <2> QED BY <2>1, <2>2
<1>10. found["Version"] \in Versions \cup {Junk} /\ found["PackageBase"] \in Bases \cup {Junk}
  <2>1. "Version" \in Keys /\ "PackageBase" \in Keys
    BY DEF Keys
  <2>2. Walked /\ r.says["Version"] \in Versions /\ r.says["PackageBase"] \in Bases
    BY DEF UpdateNode, Walked, Reading, IsAnswer
  <2> QED BY <1>1, <2>1, <2>2, WalkedReads
<1>11. PICK e : e = Entry(table, n)
  OBVIOUS
<1>12. e.installed = table.stash[p].installed_ver
  BY <1>7, <1>11, EntryFields
<1>13. PICK v, b : v = found["Version"] /\ b = found["PackageBase"]
  OBVIOUS
<1>14. Entry(table', n) = [installed |-> e.installed, updated |-> v, base |-> b,
                           non_aur |-> FALSE, update |-> type]
  BY <1>2, <1>4, <1>7, <1>12, <1>13 DEF Updated
<1>15. Entry(table', n) \in Dict!Told(e)
  <2>1. type \in Compare(e.installed, v) /\ v \in Versions \cup {Junk} /\ b \in Bases \cup {Junk}
    BY <1>2, <1>4, <1>10, <1>12, <1>13
  <2>2. [installed |-> e.installed, updated |-> v, base |-> b, non_aur |-> FALSE,
         update |-> type] \in Dict!Told(e)
    BY ONLY <2>1, ToldEntry
  <2> QED BY ONLY <1>14, <2>2
<1> QED BY <1>3, <1>8, <1>9, <1>11, <1>15

\* Every step is one of the dictionary's, or none.
LEMMA DictStep == AnswerInv /\ [Next]_vars => [Dict!Next]_(Dict!vars)
<1> SUFFICES ASSUME AnswerInv, [Next]_vars PROVE [Dict!Next]_(Dict!vars)
  OBVIOUS
<1>i. TableInv /\ Reading /\ Nodes
  BY DEF AnswerInv
<1>1. CASE Fill
  <2>1. PICK n \in Names : n = NameAt(k)
    BY <1>1, <1>i, FillPlace
  <2>2. PICK v \in Versions \cup {Junk} \cup {NoText} : v = request.pkgs[k].ver
    BY <1>1, <1>i, FillPlace
  <2>3. phase = "fill" /\ phase' = "fill"
    BY <1>1 DEF Fill
  <2>4. Dict!Put(n)
    <3>1. Dict!Only(n)
      BY <1>1, <1>i, <2>1, FillPuts DEF Dict!Only
    <3>2. Entry(table', n) = Dict!Fresh(v)
      BY <1>1, <1>i, <2>1, <2>2, FillPuts DEF Dict!Fresh
    <3> QED BY <2>2, <2>3, <3>1, <3>2 DEF Dict!Put
  <2> QED BY <2>4 DEF Dict!Next
<1>2. CASE UpdateNode
  <2>1. PICK n \in Names : n = found["Name"]
    BY <1>2, <1>i, UpdateLearns
  <2>2. phase # "fill" /\ phase' # "fill"
    BY <1>2 DEF UpdateNode, Walked
  <2>3. Dict!Learn(n)
    <3>1. Dict!Only(n)
      BY <1>2, <1>i, <2>1, UpdateLearns DEF Dict!Only
    <3>2. Entry(table, n) # Absent
      BY <1>2, <1>i, <2>1, UpdateLearns
    <3>3. Entry(table', n) \in Dict!Told(Entry(table, n))
      BY <1>2, <1>i, <2>1, UpdateLearns
    <3> QED BY <2>2, <3>1, <3>2, <3>3 DEF Dict!Learn
  <2> QED BY <2>3 DEF Dict!Next
<1>3. CASE EndFill
  <2>1. phase = "fill" /\ phase' = "ask" /\ table' = table
    BY <1>3 DEF EndFill
  <2> QED BY <2>1 DEF Dict!Close, Dict!Next
<1>4. CASE ~Fill /\ ~UpdateNode /\ ~EndFill
  <2>1. table' = table /\ (phase' = "fill" <=> phase = "fill")
    BY <1>4 DEF Next, Compute, vars, Ask, AskFails, SearchOn, NoResults, Results, Package,
                ReadField, PassToken, NotPackage, Walked, UpdateNull, EndApply, SelectKnown,
                PassUnknown, EndSelect, Selecting
  <2> QED BY <2>1 DEF Dict!vars
<1> QED BY <1>1, <1>2, <1>3, <1>4

\* hashtable.c and the walks over the answer implement the dictionary: for any
\* hash, any request and any answer there is one entry for a name, which the
\* AUR's answer changes for the packages it tells of and for no other.
THEOREM DictionaryKept == Spec => KeepsDictionary
<1>1. Init => Dict!Init
  BY DictInit
<1>2. AnswerInv /\ [Next]_vars => [Dict!Next]_(Dict!vars)
  BY DictStep
<1> QED BY <1>1, <1>2, AnswerAlways, PTL DEF Spec, KeepsDictionary, Dict!Spec
=============================================================================
