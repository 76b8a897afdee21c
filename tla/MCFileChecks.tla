---------------------------- MODULE MCFileChecks ----------------------------
(***************************************************************************)
(* One block with every shape of argument, type and pair of locals; two    *)
(* blocks whose children are shared, broken, linked or elsewhere; files of *)
(* values without module blocks: every nest of blocks up to three deep     *)
(* with bad values on each level, templates, ARNs and bucket names; and    *)
(* the trees of MCScopeWalk with neither.                                  *)
(***************************************************************************)
EXTENDS FileChecks, MCScopeWalk

Const(type, converts) == [k |-> "const", type |-> type, converts |-> converts]
Typed(type) == [k |-> "value", type |-> type]
Local(n) == [k |-> "local", name |-> n]
Wrap(e) == [k |-> "wrap", of |-> e]
Tuple(s) == [k |-> "tuple", parts |-> s]
Object(s) == [k |-> "object", items |-> s]
It(key, val) == [key |-> key, val |-> val]

Number == Const("number", {"number", "string"})
Consts == { Const("string", {"string"}), Const("string", {"string", "number"}),
            Const("string", {"string", "bool"}), Number, Const("bool", {"bool", "string"}) }
Leaves == Consts \cup {Typed("string"), Typed("object"), Unknown, Local("x"), Local("y")}

Exprs == Leaves
  \cup {Wrap(Local("x")), Wrap(Number)}
  \cup {Tuple(<<a, b>>) : a \in Leaves, b \in {Const("string", {"string"}), Number}}
  \cup {Object(<<It("f", e)>>) : e \in Leaves}
  \cup {Object(<<It(k, e), It("f", Tuple(<<e>>))>>) : k \in {"", "g"}, e \in Leaves}

MCLocals == {<< >>} \cup {[n \in {"x", "y"} |-> IF n = "x" THEN e ELSE f] :
  e \in {Const("string", {"string"}), Number, Typed("string"), Unknown, Local("x"), Local("y"),
         Tuple(<<Unknown>>), Wrap(Local("y")), Object(<<It("f", Local("x"))>>)},
  f \in {Const("string", {"string", "bool"}), Typed("object"), Local("x"), Local("y")}}

Name(n) == [t |-> "name", name |-> n]
Call(n, args) == [t |-> "call", name |-> n, args |-> args]
Fields(items) == Call("object", <<[t |-> "fields", items |-> items]>>)
Field(key, type) == [key |-> key, type |-> type]

MCTypes ==
  { Name(n) : n \in Scalars \cup {"any"} }
  \cup { Call("list", <<Name("number")>>), Call("list", <<Name("mystery")>>), Call("list", << >>),
         Call("map", <<Name("number")>>), Call("set", <<Name("bool")>>),
         Call("string", <<Name("bad")>>), [t |-> "wrap", of |-> Name("bool")],
         Call("list", <<Call("list", <<Name("string")>>)>>), Call("object", <<Name("string")>>),
         Fields(<<Field("f", Call("optional", <<Name("number"), Unknown>>))>>),
         Fields(<<Field("f", Call("list", <<Name("bool")>>)), Field("g", Name("string"))>>),
         Fields(<<Field("", Name("string")), Field("f", Name("number"))>>) }

File(parses, declared) == [parses |-> parses, vars |-> declared]
Child(link, fs) == [link |-> link, files |-> fs]
Module(source, inputs) == [source |-> source, inputs |-> inputs]

Single ==
  [locals |-> MCLocals,
   children |-> {[child |-> Child(FALSE, <<File(TRUE, [in |-> t])>>)] : t \in MCTypes},
   blocks |-> {<<Module("child", [in |-> e])>> : e \in Exprs}]

Children ==
  { Child(FALSE, <<File(TRUE, [in |-> Name("number")]), File(p, [other |-> t])>>) :
      p \in BOOLEAN, t \in {Name("string"), [t |-> "none"]} }
  \cup { Child(TRUE, <<File(TRUE, [in |-> Name("bool")])>>),
         Child(FALSE, <<File(TRUE, [other |-> Fields(<<Field("f", Name("bool"))>>)])>>) }
Arguments == {[in |-> e] : e \in {Number, Const("string", {"string"}), Local("x")}}
  \cup {[in |-> Unknown, other |-> e, source |-> Unknown] : e \in {Number, Object(<<It("g", Number)>>)}}

Double ==
  [locals |-> {[x |-> Const("bool", {"bool", "string"})]},
   children |-> {[a |-> c, b |-> d] : c \in Children, d \in Children},
   blocks |-> {<<Module(s, i), Module(t, j)>> :
     s \in {"a", "registry"}, t \in {"a", "b"}, i \in Arguments, j \in Arguments}]

NoBlocks == [locals |-> {<< >>}, children |-> {<< >>}, blocks |-> {<< >>}]

MCFamilies == {Single, Double, NoBlocks}

(* Values **************************************************************** *)

MCPartitions == {"aws", "aws-iso"}
MCLetters == {"a", "x"}
MCDirectorySuffix == <<"-", "-", "x">>

Lit(text) == [kind |-> "literal", text |-> text]
Hole == [kind |-> "interp", text |-> << >>]
Tpl(parts) == [k |-> "template", parts |-> parts]
Str(text) == Tpl(<<Lit(text)>>)
List(elems) == [k |-> "tuple", elems |-> elems]
Bl(type, label, attrs) == [type |-> type, label |-> label, attrs |-> attrs]
NoAttrs == [a \in {} |-> 0]
Blank == [p \in {<< >>} |-> Bl("", "", NoAttrs)]
FileOf(b) == [p \in {<< >>, <<1>>} |-> IF p = << >> THEN Bl("", "", NoAttrs) ELSE b]

Arn(p, s, r, a, rest) == <<"arn", ":">> \o p \o <<":">> \o s \o <<":">> \o r \o <<":">> \o a \o <<":">> \o rest

\* Every code but E204 and E210 has something to say of these attributes.
BadValues ==
  [n \in {"cidr_block", "cidr_blocks", "region", "account_id", "role_arn", "policy_arns", "bucket"} |->
     CASE n = "cidr_blocks" -> List(<<Str(<<"1">>), [k |-> "other"], Str(<<"1">>)>>)
       [] n = "policy_arns" -> List(<<Str(<<"1">>), Str(<< >>), Str(<<"1">>)>>)
       [] OTHER -> Str(<<"1">>)]
Kinds ==
  { Bl(t, "l", BadValues) : t \in {"variable", "module", "lifecycle", "dynamic"} }
  \cup { Bl("provider", l, BadValues) : l \in {"aws", "google"} }
  \cup { Bl("resource", l, BadValues) : l \in {"aws_s3_bucket", "google_x", "aws_lb_listener_rule"} }
  \cup { Bl("data", l, BadValues) : l \in {"aws_quicksight_data_source", ""} }
Misspelt == {Bl(t, "", BadValues) : t \in {"conditions", "permission", "permissions"}}

\* A chain of blocks, the second with two blocks in it
Chains == {[p \in {<< >>, <<1>>, <<1, 1>>, <<1, 1, 1>>, <<1, 1, 2>>} |->
              CASE p = << >> -> Bl("", "", BadValues) [] p = <<1>> -> a [] p = <<1, 1>> -> b
                [] p = <<1, 1, 1>> -> c [] OTHER -> Bl("lifecycle", "", BadValues)] :
             a \in Kinds, b \in Kinds \cup Misspelt, c \in Kinds}

\* CIDR blocks: every template of one or two interpolations between these
Pieces == { << >>, <<"1">>, <<"1", ".">>, <<".">>, <<"/", "8">>, <<".", "1", "/", "8">>,
            <<"/", "3", "3">>, <<"1", ".", "1", ".", "1", ".">>, <<".", "1", ".", "1", ".", "1", "/", "8">>,
            <<".", "2", "5", "6", "/", "8">>, <<"1", ".", "1", ".">>, <<"1", ".", "1", ".", "1", ".", "1", "/">> }
Literal(t) == IF t = << >> THEN << >> ELSE <<Lit(t)>>
CidrTemplates ==
  {Tpl(Literal(a) \o <<Hole>> \o Literal(b) \o h \o Literal(c)) :
     a \in Pieces, b \in Pieces, h \in {<< >>, <<Hole>>}, c \in {<< >>, <<".", "1", "/", "8">>, <<"8">>}}
  \cup {Tpl(<<Lit(a), Lit(b)>>) : a \in Pieces, b \in Pieces}
MCCidrValues == {<< >>, <<"1">>, <<"1", ".", "1">>, <<"1", ".", "1", ".", "1">>, <<"1", ".">>, <<"/">>, <<"8">>,
                 <<"1", ".", "1", ".", "1", ".", "1", "/", "8">>, <<":", ":", "1">>}

\* ARNs by their fields, interpolations written as "?"
Split(s) ==
  LET holes == {i \in DOMAIN s : s[i] = "?"}
      Bound(n) == IF n = 0 THEN 0 ELSE CHOOSE i \in holes : Cardinality({j \in holes : j < i}) = n - 1
      End(n) == IF n = Cardinality(holes) THEN Len(s) + 1 ELSE Bound(n + 1)
      Run(n) == SubSeq(s, Bound(n) + 1, End(n) - 1)
  IN Tpl(Literal(Run(0)) \o FlattenSeq([n \in 1..Cardinality(holes) |-> <<Hole>> \o Literal(Run(n))]))
Arns(partition) ==
  {Split(Arn(partition, s, r, a, rest)) :
     s \in {<<"s3">>, <<"?">>, <<"s!">>},
     r \in {<< >>, <<"?">>, <<"us-east-1">>, <<"us-iso-east-1">>, <<"mars">>, <<"us-east-1", "?">>},
     a \in {<< >>, <<"123456789012">>, <<"12">>, <<"?">>, <<"12", "?">>},
     rest \in {<< >>, <<"?">>, <<"b">>, <<"b", ":", "b">>}}
  \cup {Str(<<"arn", ":", "aws">>), Tpl(<<Hole, Lit(<<":", "s3">>)>>), Tpl(<<Lit(<<"arn", ":">>), Hole>>),
        Str(Arn(<<"aws">>, <<"a">>, << >>, << >>, <<"b">>)),
        Split(Arn(<<"aws">>, <<"?">>, <<"123456789012">>, <<"b">>, <<"b">>))}
MCArnValues == {<< >>, <<"aws">>, <<"-iso">>, <<"aws-iso">>, <<"s3">>, <<"3456789012">>, <<"s3", ":">>}

CidrFiles == {FileOf(Bl("resource", "google_x", [cidr_block |-> e])) : e \in CidrTemplates}
ArnFiles ==
  {FileOf(Bl("resource", "google_x", [role_arn |-> e])) :
     e \in UNION {Arns(p) : p \in {<<"aws">>, <<"aws-iso">>, <<"asw">>, <<"?">>, <<"aws", "?">>}}}

Buckets(label, names) == {FileOf(Bl("resource", label, [bucket |-> Str(n)])) : n \in names}
BucketFiles ==
  Buckets("aws_s3_bucket", BoundedSeq({"a", "1", ".", "-", "A"}, 4) \cup BoundedSeq({"1", "."}, MaxName + 1))
  \cup Buckets("aws_s3_directory_bucket",
         {s \o MCDirectorySuffix : s \in BoundedSeq({"a", "-"}, MaxName - 2)} \cup BoundedSeq({"a", "-", "."}, 3))

Config(fs, filters) == [files |-> fs, filters |-> filters]
MCConfigs ==
  { Config({Blank}, {{}}), Config(Chains, {{}, {"E201", "E204"}, {"E210"}}),
    Config(CidrFiles, {{"E101"}}), Config(ArnFiles, {{"E203"}}), Config(BucketFiles, {{"E204"}}) }

NoWalk ==
  /\ tree = << >> /\ localKinds = << >> /\ checks = {} /\ files = {} /\ done = TRUE
  /\ bodies = << >> /\ todo = Idle /\ iters = {} /\ stack = << >> /\ context = "default"
  /\ refs = {} /\ seen = {} /\ used = {} /\ found = {}
NoInputs == locals = << >> /\ blocks = << >> /\ children = << >> /\ Init
NoValues == file = Blank /\ filter = {} /\ FamilyStart

\* Only one of the three has something to look at.
MCInit ==
  \/ WalkInit /\ NoInputs /\ NoValues
  \/ NoWalk /\ Init /\ NoValues
  \/ NoWalk /\ NoInputs /\ FamilyInit

MCSpec == MCInit /\ [][FileNext]_<<walkVars, vars, familyVars>>
=============================================================================
