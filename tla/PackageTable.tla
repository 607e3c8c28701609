---------------------------- MODULE PackageTable ----------------------------
(***************************************************************************)
(* hashtable.c: the dictionary of packages.  Its nodes live in a stash of  *)
(* the caller's; a bucket is a chain of nodes.  main() and                 *)
(* pkg_list_manage_subseq() give the stash and the buckets one size.       *)
(*                                                                         *)
(* A pointer to a node is its place in the stash, NULL is 0.               *)
(***************************************************************************)
EXTENDS Integers

CONSTANTS
  Names,      \* package names
  Junk,       \* a text of the AUR's answer that is no package's name
  Hash,       \* additive_hash() of each text
  GitNames,   \* the names that end in -git
  NoText,     \* a text that is NULL
  Garbage     \* package_base of a node it was never assigned to

Texts == Names \cup {Junk}

ASSUME TextsAssumption == Junk \notin Names /\ GitNames \subseteq Names
ASSUME HashAssumption == Hash \in [Texts -> Nat]

NULL == 0

Blank == [pkg_name |-> Junk, installed_ver |-> NoText,
          updated_ver |-> NoText, next_node |-> NULL, package_base |-> Garbage,
          update_type |-> "UNKNOWN", is_non_aur |-> FALSE, is_git |-> FALSE]

hashtable_init(n) ==
  [size |-> n, map |-> [b \in 0 .. n - 1 |-> NULL],
   stash |-> [p \in 1 .. n |-> Blank], n_items |-> 0]

Bucket(t, key) == Hash[key] % t.size

\* The node m links behind the node p, NULL behind the end of its chain.
Follow(t, p) ==
  LET link == [q \in 0 .. t.size |-> IF q = NULL THEN NULL ELSE t.stash[q].next_node]
      follow[m \in 0 .. t.size] == IF m = 0 THEN p ELSE link[follow[m - 1]]
  IN  follow

Chain(t, p) == {Follow(t, p)[m] : m \in 0 .. t.size} \ {NULL}

\* hashtable_find_inside_map(): the first node of the bucket with the name.
Find(t, key) ==
  LET follow == Follow(t, t.map[Bucket(t, key)])
      Hit(m) == follow[m] # NULL /\ t.stash[follow[m]].pkg_name = key
  IN  IF \E m \in 0 .. t.size : Hit(m)
      THEN follow[CHOOSE m \in 0 .. t.size : Hit(m) /\ \A l \in 0 .. m - 1 : ~Hit(l)]
      ELSE NULL

\* __unmap_node(): the bucket, or the node before it, goes past the node.
Unmap(t, p) ==
  LET b == Bucket(t, t.stash[p].pkg_name)
      next == t.stash[p].next_node
      Before == {q \in Chain(t, t.map[b]) : t.stash[q].next_node = p}
  IN  IF t.map[b] = p
      THEN [t EXCEPT !.map[b] = next, !.stash[p].next_node = NULL]
      ELSE IF Before = {} THEN t
      ELSE [t EXCEPT !.stash[CHOOSE q \in Before : TRUE].next_node = next,
                     !.stash[p].next_node = NULL]

\* Mutant of AppendNode: the node becomes the whole bucket.
AppendOver(t, p) ==
  [t EXCEPT !.map[Bucket(t, t.stash[p].pkg_name)] = p, !.stash[p].next_node = NULL]

\* The node goes to the end of its bucket.
AppendNode(t, p) ==
  LET b == Bucket(t, t.stash[p].pkg_name)
      last == CHOOSE q \in Chain(t, t.map[b]) : t.stash[q].next_node = NULL
  IN  IF t.map[b] = NULL
      THEN [t EXCEPT !.map[b] = p, !.stash[p].next_node = NULL]
      ELSE [t EXCEPT !.stash[last].next_node = p, !.stash[p].next_node = NULL]

\* Mutant of Remap: a node that is mapped already is linked again.
RemapAgain(t, p) == AppendNode(t, p)

\* __remap_node(): in place of a node with the same name, if it is another.
Remap(t, p) ==
  LET mapped == Find(t, t.stash[p].pkg_name)
  IN  IF mapped = p THEN t
      ELSE AppendNode(IF mapped = NULL THEN t ELSE Unmap(t, mapped), p)

\* The fields hashtable_set_item() assigns.
Set(t, p, key, installed, new, non_aur) ==
  [t EXCEPT !.stash[p] =
     [@ EXCEPT !.pkg_name = key, !.installed_ver = installed, !.updated_ver = new,
               !.is_non_aur = non_aur, !.is_git = key \in GitNames,
               !.update_type = "UP_TO_DATE"]]

\* Mutant of hashtable_set_item: one place of the stash is never used.
set_item_short(t, key, installed, new, non_aur) ==
  LET p == IF Find(t, key) # NULL THEN Find(t, key) ELSE t.n_items + 1
  IN  IF p >= t.size THEN t
      ELSE Remap(Set([t EXCEPT !.n_items = IF p > @ THEN p ELSE @], p, key,
                     installed, new, non_aur), p)

\* A new name takes the next place of the stash, and is dropped when there is
\* none.
hashtable_set_item(t, key, installed, new, non_aur) ==
  LET p == IF Find(t, key) # NULL THEN Find(t, key) ELSE t.n_items + 1
  IN  IF p > t.size THEN t
      ELSE Remap(Set([t EXCEPT !.n_items = IF p > @ THEN p ELSE @], p, key,
                     installed, new, non_aur), p)
=============================================================================
