----------------------------- MODULE MCMembers ------------------------------
(***************************************************************************)
(* Instances of Members for TLC.                                           *)
(***************************************************************************)
EXTENDS Members

CONSTANTS x, y, k, l, i0, i1, m1, m2

NameOrder == <<i0, i1, "M", "P", "S", "X", k, l>>

AllNames == Range(NameOrder)

Order ==
  [p \in AllNames \X BOOLEAN |->
     2 * (CHOOSE i \in DOMAIN NameOrder : NameOrder[i] = p[1]) + IF p[2] THEN 1 ELSE 0]

Numbers == <<i0, i1>>

\* type Port struct { X *leaf }
\* struct { P *struct { X *leaf; M map[string]*Port }; S []*leaf }
Kinds ==
  <<>> :> "struct" @@ <<"P">> :> "struct" @@ <<"S">> :> "slice"
    @@ <<"P", "X">> :> "leaf" @@ <<"P", "M">> :> "map"
    @@ [p \in {<<"P", "M", n>> : n \in {k, l}} |-> "struct"]
    @@ [p \in {<<"P", "M", n, "X">> : n \in {k, l}} \cup {<<"S", n>> : n \in {i0, i1}} |-> "leaf"]

Spots == DOMAIN Kinds

\* The value that has these leaves, and nothing that is empty.
Of(leaves) ==
  [p \in Spots |->
     IF p \in DOMAIN leaves THEN leaves[p]
     ELSE IF p = <<>> \/ \E q \in DOMAIN leaves : IsPrefix(p, q) THEN Here ELSE Nil]

Empty == Of(<<>>)

AnyStart ==
  {Of(<<"P", "X">> :> x @@ <<"P", "M", k, "X">> :> x
        @@ <<"S", i0>> :> x @@ <<"S", i1>> :> x),
   Empty}

Clear(path) == [path |-> path, new |-> Empty]

Set(path, leaf, o) == [path |-> path, new |-> Of(leaf :> o)]

\* No element of a slice is nil.
AnyEdit ==
  {Clear(<<"P">>), Set(<<"P">>, <<"P", "M", k, "X">>, y),
   Clear(<<"P", "X">>), Set(<<"P", "X">>, <<"P", "X">>, y),
   Clear(<<"P", "M", k>>), Set(<<"P", "M", l>>, <<"P", "M", l, "X">>, x),
   Set(<<"P", "M", k, "X">>, <<"P", "M", k, "X">>, y),
   Clear(<<"S">>), Set(<<"S">>, <<"S", i0>>, y)}

\* The trees a Config may have, layer by layer: ports and slices, maps of ports,
\* what P holds, and the root.
Maps(names, elems) == UNION {[D -> elems] : D \in SUBSET names}

Either(name, elems) == {<<>>} \cup {name :> o : o \in elems}

Ports == Maps({"X"}, {x, y})

Slices == Maps({i0, i1}, {x, y})

PortMaps == Maps({k, l}, Ports)

Inners == {a @@ b : a \in Ports, b \in Either("M", PortMaps)}

Configs ==
  {b @@ c : b \in Either("P", Inners), c \in Either("S", Slices)}

\* What is at a place may map to any of them.
Mapped ==
  [p \in Spots |->
     CASE Kinds[p] = "leaf"  -> {x, y}
       [] Kinds[p] = "slice" -> Slices
       [] Kinds[p] = "map"   -> PortMaps
       [] p = <<"P">>        -> Inners
       [] p = <<>>           -> Configs
       [] OTHER              -> Ports]

Layers == <<{x, y}, Ports \cup Slices, PortMaps, Inners, Configs>>

Every == UNION Range(Layers)

Heights == [o \in Every |-> CHOOSE h \in 0 .. 4 :
              o \in Layers[h + 1] /\ \A i \in 1 .. h : o \notin Layers[i]]

\* TLC works out a definition once, but what a constant stands for at every use:
\* the constants stand for the names of definitions.
TheNames   == AllNames
TheObjects == Every
TheHeights == Heights
TheOrder   == Order
TheIndices == Numbers
ThePlaces  == Spots
TheKinds   == Kinds
TheTrees   == Mapped
TheStarts  == AnyStart
TheEdits   == AnyEdit

Symmetry == Permutations(MemberIds)
=============================================================================
