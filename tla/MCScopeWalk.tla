---------------------------- MODULE MCScopeWalk ----------------------------
(* Modules for the expression walk: iterators of every origin around and   *)
(* beside references to one name, chains of blocks around a special        *)
(* attribute and their lookalikes, and provider references of every shape. *)
EXTENDS ScopeWalk, TLC

Node0 == [kind |-> "file", name |-> "", labels |-> 0, label |-> "", path |-> << >>,
          role |-> "", binds |-> {}]
BlockOf(name, labels) == [Node0 EXCEPT !.kind = "block", !.name = name, !.labels = labels]
Labelled(name, label) == [BlockOf(name, 1) EXCEPT !.label = label]
Attr(name) == [Node0 EXCEPT !.kind = "attribute", !.name = name]
Expr(kind, role) == [Node0 EXCEPT !.kind = kind, !.role = role]
Trav(role, path) == [Expr("traversal", role) EXCEPT !.path = path]
For(role, names) == [Expr("for", role) EXCEPT !.binds = names]

Place(p, n) == p :> n
\* An attribute with a tree of expressions: positions are relative to it.
Under(p, part) == [q \in {p \o r : r \in DOMAIN part} |-> part[SubSeq(q, Len(p) + 1, Len(q))]]
Simple(p, name, path) == Place(p, Attr(name)) @@ Place(Append(p, 1), Trav("", path))

(* Scopes **************************************************************** *)

Names == {<<"it">>, <<"rule", "value">>, <<"local", "a">>, <<"vars", "x">>}

\* A reference in the collection, the body and the condition of two nested
\* for expressions
Fors(r, outer, inner) ==
  Place(<<1>>, For("", outer)) @@ Place(<<1, 1>>, Trav("", r)) @@
  Place(<<1, 2>>, For("scoped", inner)) @@ Place(<<1, 2, 1>>, Trav("", r)) @@
  Place(<<1, 2, 2>>, Expr("template", "scoped")) @@ Place(<<1, 2, 2, 1>>, Trav("", r)) @@
  Place(<<1, 2, 3>>, Trav("scoped", r)) @@ Place(<<1, 3>>, Trav("scoped", r))

ForTree(r, outer, inner) ==
  Place(<<1>>, Node0) @@ Place(<<1, 1>>, BlockOf("output", 1)) @@
  Place(<<1, 1, 1>>, Attr("value")) @@ Under(<<1, 1, 1>>, Fors(r, outer, inner)) @@
  Simple(<<1, 1, 2>>, "sibling", r) @@
  Place(<<2>>, Node0) @@ Place(<<2, 1>>, BlockOf("output", 1)) @@ Simple(<<2, 1, 1>>, "value", <<"local", "b">>)

Iterators == {<< >>, <<"it">>, <<"each", "key">>}

DynamicTree(r, iterator, inner, names) ==
  Place(<<1>>, Node0) @@ Place(<<1, 1>>, BlockOf("resource", 2)) @@
  Place(<<1, 1, 1>>, Labelled("dynamic", "rule")) @@
  Simple(<<1, 1, 1, 1>>, "for_each", r) @@ Simple(<<1, 1, 1, 2>>, "labels", r) @@
  (IF iterator = << >> THEN << >> ELSE Simple(<<1, 1, 1, 3>>, "iterator", iterator)) @@
  Place(<<1, 1, 1, 4>>, BlockOf("content", 0)) @@
  Place(<<1, 1, 1, 4, 1>>, Attr("x")) @@
  Place(<<1, 1, 1, 4, 1, 1>>, For("", names)) @@ Place(<<1, 1, 1, 4, 1, 1, 1>>, Trav("", r)) @@
  Place(<<1, 1, 1, 4, 1, 1, 2>>, Trav("scoped", r)) @@
  Place(<<1, 1, 1, 4, 2>>, Labelled("dynamic", inner)) @@
  Simple(<<1, 1, 1, 4, 2, 1>>, "for_each", r) @@
  Place(<<1, 1, 1, 4, 2, 2>>, BlockOf("content", 0)) @@ Simple(<<1, 1, 1, 4, 2, 2, 1>>, "x", r) @@
  Place(<<1, 1, 1, 5>>, BlockOf("other", 0)) @@ Simple(<<1, 1, 1, 5, 1>>, "x", r) @@
  Place(<<1, 1, 2>>, BlockOf("content", 0)) @@ Simple(<<1, 1, 2, 1>>, "x", r)

Scoped1 ==
  {ForTree(r, o, i) : r \in Names, o \in {{"it"}, {"it", "rule"}, {"local"}},
                      i \in {{"rule"}, {"it"}, {"local", "k"}}}
Scoped2 ==
  {DynamicTree(r, t, i, n) : r \in Names, t \in Iterators, i \in {"rule", "local"}, n \in {{"it"}, {"k"}}}

(* Special positions ***************************************************** *)

Terraform == <<"terraform", 0>>
Encryption == <<"encryption", 0>>
Resource == <<"resource", 2>>
Lifecycle == <<"lifecycle", 0>>
Remote == <<"remote_state_data_sources", 0>>

\* Blocks from the top level inwards, an attribute and two traversals: one
\* that is a keyword there and one that is not
Positions ==
  { << <<<<"variable", 1>>>>, "type", <<"string">>, <<"string", "x">> >>,
    << <<Resource, Lifecycle>>, "ignore_changes", <<"tags", "x">>, <<"vars">> >>,
    << <<Resource>>, "provider", <<"aws", "east", "[]">>, <<"aws", "[]">> >>,
    << <<<<"import", 0>>>>, "provider", <<"aws", "east">>, <<"aws", "a", "b">> >>,
    << <<<<"action", 2>>>>, "provider", <<"aws", "east">>, <<"aws", "east", "[]">> >>,
    << <<<<"action", 2>>, <<"config", 0>>>>, "x", <<"caller", "id">>, <<"vars", "x">> >>,
    << <<<<"action", 2>>, <<"config", 0>>, <<"deep", 0>>>>, "x", <<"caller">>, <<"local", "a">> >>,
    << <<Resource, <<"provisioner", 1>>>>, "on_failure", <<"continue">>, <<"destroy">> >>,
    << <<<<"removed", 0>>, <<"provisioner", 1>>>>, "when", <<"destroy">>, <<"fail">> >>,
    << <<Resource, Lifecycle, <<"action_trigger", 0>>>>, "events", <<"after_create">>, <<"halt">> >>,
    << <<Resource, Lifecycle, <<"action_trigger", 0>>>>, "on_failure", <<"taint">>, <<"fail">> >>,
    << <<Terraform, Encryption, <<"state", 0>>>>, "method", <<"method", "m", "n">>, <<"method", "m">> >>,
    << <<Terraform, Encryption, <<"plan", 0>>, <<"fallback", 0>>>>, "method",
       <<"method", "m", "n">>, <<"method", "m", "[]">> >>,
    << <<Terraform, Encryption, Remote, <<"remote_state_data_source", 1>>>>, "method",
       <<"method", "m", "n">>, <<"local", "a">> >>,
    << <<<<"language", 0>>>>, "edition", <<"tofu2024">>, <<"tofu2024", "x">> >> }

Strays == {<<"terraform", 0>>, <<"resource", 1>>, <<"state", 0>>, <<"config", 0>>, <<"foo", 0>>,
           <<"variable", 1>>, <<"variable", 0>>, <<"lifecycle", 0>>, <<"lifecycle", 1>>}

\* The chain itself, and lookalikes: one block more, one replaced, one missing,
\* or the rest of it generated by a dynamic block or directly in one, with the
\* labels it should have or one more
Insert(c, i, b) == SubSeq(c, 1, i) \o b \o SubSeq(c, i + 1, Len(c))
MoreLabels(c, i) == [c EXCEPT ![i] = <<c[i][1], c[i][2] + 1>>]
Surroundings(c) ==
  {c} \cup {Insert(c, i, <<b>>) : i \in 0..Len(c), b \in Strays}
      \cup {[c EXCEPT ![i] = b] : i \in DOMAIN c, b \in Strays}
      \cup {Insert(c, i, <<<<"dynamic", 1>>, <<"content", 0>>>>) : i \in 1..Len(c)}
      \cup {Insert(c, i, <<<<"dynamic", 1>>>>) : i \in 0..Len(c)}
      \cup {Insert(MoreLabels(c, i), i - 1, <<<<"dynamic", 1>>>>) : i \in DOMAIN c}
      \cup ({SubSeq(c, 1, i - 1) \o SubSeq(c, i + 1, Len(c)) : i \in DOMAIN c} \ {<< >>})

Ones(n) == [i \in 1..n |-> 1]
ChainTree(c, name, exprs) ==
  LET a == Ones(Len(c) + 2)
  IN Place(<<1>>, Node0) @@
     [p \in {Ones(i + 1) : i \in DOMAIN c} |->
        LET b == c[Len(p) - 1] IN [BlockOf(b[1], b[2]) EXCEPT !.label = "rule"]] @@
     Place(a, Attr(name)) @@ Under(a, exprs)

PositionTrees ==
  UNION {{ChainTree(c, pos[2], Place(<<1>>, Trav("", pos[i]))) : c \in Surroundings(pos[1]), i \in {3, 4}} :
           pos \in Positions}

(* Provider references *************************************************** *)

Aliases == {<<"aws">>, <<"aws", "east">>, <<"aws", "east", "[]">>, <<"aws", "[]">>, <<"azurerm", "a", "b", "c">>}

\* One item, with the value given directly or as the collection of an index
Item(key, path, indexed) ==
  Place(<<1>>, Expr("object", "")) @@ Place(<<1, 1>>, key) @@
  (IF indexed
   THEN Place(<<1, 2>>, Expr("index", "value")) @@ Place(<<1, 2, 1>>, Trav("", path)) @@
        Place(<<1, 2, 2>>, Trav("", <<"each", "key">>))
   ELSE Place(<<1, 2>>, Trav("value", path)))

AliasList(item, path) ==
  Place(<<1>>, Expr("object", "")) @@ Place(<<1, 1>>, Trav("key", <<item>>)) @@
  Place(<<1, 2>>, [Expr("tuple", "value") EXCEPT !.name = item]) @@ Place(<<1, 2, 1>>, Trav("", path))

ProviderTrees ==
  {ChainTree(<<<<"module", 1>>>>, name, Item(Trav("key", k), v, x)) :
     name \in {"providers", "inputs"}, k \in Aliases, v \in Aliases, x \in BOOLEAN}
  \cup {ChainTree(<<b, <<"required_providers", 0>>>>, "aws", AliasList(n, v)) :
     b \in {Terraform, <<"foo", 0>>}, n \in {"configuration_aliases", "source"}, v \in Aliases}

MCModules ==
  {[tree |-> t, localKinds |-> l] : t \in Scoped1 \cup Scoped2,
                               l \in {[a |-> "composite"], [b |-> "other"], << >>}}
  \cup {[tree |-> t, localKinds |-> [a |-> "composite"]] : t \in PositionTrees \cup ProviderTrees}
MCLookalikes == {[tree |-> t, localKinds |-> << >>] : t \in PositionTrees}
MCFilters == {{}, {"W001"}, {"E004", "W009"}}
MCResourceTypes == {"aws_vpc"}
=============================================================================
