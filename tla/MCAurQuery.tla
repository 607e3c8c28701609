----------------------------- MODULE MCAurQuery -----------------------------
(***************************************************************************)
(* AurQuery with three names that share a bucket of the tables of three    *)
(* and of five, and answers of several layouts.  The code does not order   *)
(* the names, so a request numbers them as they come.                      *)
(***************************************************************************)
EXTENDS AurQuery, FiniteSets, SequencesExt

MCHash == [t \in Texts |-> IF t = Junk THEN 5 ELSE 15 * t + 1]

Pkg(n, v) == [name |-> n, ver |-> v]
MCRequests ==
  {[source |-> "pacman", pkgs |-> s] :
     s \in {<<>>, <<Pkg(1, 2)>>, <<Pkg(2, 2), Pkg(3, 2)>>,
            <<Pkg(1, 2), Pkg(2, 2), Pkg(3, 2)>>}} \cup
  {[source |-> "arguments", pkgs |-> s] :
     s \in {q \in UNION {[1 .. n -> {Pkg(m, NoText) : m \in Names}] : n \in 1 .. 3} :
              \A m \in DOMAIN q : q[m].name = 1 \/ \E l \in 1 .. m - 1 : q[m].name <= q[l].name + 1}}

-----------------------------------------------------------------------------
Scalar(key, val) == <<[key |-> key, val |-> val, size |-> 1]>>
Container(kids) == <<[key |-> "other", val |-> Junk, size |-> Len(kids) + 1]>> \o kids

\* A field that is not one of the three: its value is a text, a text that
\* reads like a key, or a list with such a text.
Extras == {Scalar("other", Junk), Scalar("Name", Junk), Scalar("Version", Junk),
           Scalar("PackageBase", Junk), Container(Scalar("Name", Junk))}

FieldOf(says, f, extra) ==
  IF f = "extra" THEN Scalar("other", Junk) \o extra
  ELSE Scalar(f, Junk) \o Scalar("other", says[f])

ObjectOf(says, order, extra) ==
  Container(FlattenSeq([f \in DOMAIN order |-> FieldOf(says, order[f], extra)]))

Field == Scalar("other", Junk) \o Scalar("other", Junk)
Order(ends) == IF ends = "first"
               THEN <<"Name", "extra", "Version", "PackageBase">>
               ELSE <<"extra", "PackageBase", "Version", "Name">>

SaysAbout(names) ==
  UNION {{[m \in DOMAIN o |-> [Name |-> o[m], Version |-> v[o[m]], PackageBase |-> 10 + o[m]]] :
            o \in {q \in [1 .. Cardinality(ns) -> ns] :
                     \A x, y \in DOMAIN q : q[x] = q[y] => x = y},
            v \in {[n \in ns |-> ((n + s) % 3) + 1] : s \in 1 .. 3}} : ns \in SUBSET names}

\* The array of packages at the first or the last key.
Answer(list, extra, ends) ==
  LET objects == [r \in DOMAIN list |-> ObjectOf(list[r], Order(ends), extra)]
      body == Scalar("results", Junk) \o Container(FlattenSeq(objects))
      first == IF ends = "first" THEN 4 ELSE 6
      place == [r \in DOMAIN list |-> first + Len(FlattenSeq(SubSeq(objects, 1, r - 1)))]
  IN  [tokens |-> Container(IF ends = "first" THEN body \o Field ELSE Field \o body),
       keys |-> {2, IF ends = "first" THEN 2 + Len(body) ELSE 4},
       told |-> {[place |-> place[r], says |-> list[r]] : r \in DOMAIN list}]

NoArray == [tokens |-> Container(Field), keys |-> {2}, told |-> {}]

MCAnswers ==
  [names \in SUBSET Names |->
     {Answer(list, extra, ends) :
        list \in SaysAbout(names), extra \in Extras, ends \in {"first", "last"}}
     \cup {NoArray}]
=============================================================================
