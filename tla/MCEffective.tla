---------------------------- MODULE MCEffective ----------------------------
(* Modules of two primary files with one block each and of two override    *)
(* blocks, in one override file or in two.                                 *)
EXTENDS Effective

\* src is the file and the position of a block; count comes first in file 2
\* only.
Names == <<"for_each", "depends_on", "x", "y", "z", "w", "v", "p", "q", "a", "c", "e", "k",
           "region", "alias", "ignore_changes", "destroy", "enforced", "method", "pass",
           "encrypted_metadata_alias", "count">>
Rank(src, n) == IF n = "count" /\ src[1] = 2 THEN 0
                ELSE CHOOSE i \in DOMAIN Names : Names[i] = n
Args(src, lits) ==
  [n \in DOMAIN lits |-> [file |-> src[1], lit |-> lits[n], pos |-> src[2] + Rank(src, n)]]
B(type, label, attrs, nested) ==
  [type |-> type, label |-> label, attrs |-> attrs, nested |-> nested]
None == << >>
Expr(S) == [n \in S |-> "expr"]

\* A block that src writes, by kind; both sides draw on the same kinds.
Resource(src, full) ==
  B("resource", "r", Args(src, Expr(IF full THEN {"count", "for_each", "depends_on"} ELSE {"count", "depends_on"})),
    <<B("foo", "", Args(src, Expr({"x"})), None),
      B("dynamic", IF full THEN "foo" ELSE "bar", Args(src, Expr({"x"})), None),
      B("lifecycle", "",
        Args(src, [ignore_changes |-> IF full THEN "all" ELSE "expr", destroy |-> "true"]),
        <<B("precondition", "", Args(src, Expr({"c"})), None),
          B("action_trigger", "", Args(src, Expr({"e"})), None)>>)>>)
Bare(src) == B("resource", "r", Args(src, Expr({"for_each"})), None)
Data(src) ==
  B("data", "d", Args(src, Expr({"a"})),
    <<B("lifecycle", "", None, <<B("precondition", "", Args(src, Expr({"c"})), None)>>)>>)
Locals1(src, S) == B("locals", "", Args(src, Expr(S)), None)
Provider(src, alias) == B("provider", "aws", Args(src, Expr({"region"}) @@ alias), None)
Terraform(src, S, nested) == B("terraform", "", Args(src, Expr(S)), nested)
Required(src, S) == B("required_providers", "", Args(src, Expr(S)), None)
Store(src, type) == B(type, "", Args(src, Expr({"k"})), None)
Target(src, type, lit) == B(type, "", Args(src, [enforced |-> lit, method |-> "expr"]), None)
Key(src, S) == B("key_provider", "k", Args(src, Expr(S)), None)
Encryption(src, nested) == B("encryption", "", None, nested)
Remote(src, lit) == B("remote_state_data_sources", "", None, <<Target(src, "default", lit)>>)

PrimaryKinds(s) ==
  { Resource(s, TRUE), Bare(s), Data(s), Locals1(s, {"x", "y"}), Provider(s, None),
    Terraform(s, {"v"}, <<Store(s, "backend"), Required(s, {"p", "q"})>>),
    Terraform(s, {}, <<Required(s, {"p"}),
       Encryption(s, <<Key(s, {"pass", "encrypted_metadata_alias"}), Target(s, "state", "true"),
                       Remote(s, "true")>>)>>) }

OverrideKinds(s) ==
  { Resource(s, FALSE), Resource(s, TRUE), Data(s), Locals1(s, {"x", "z"}), Provider(s, None),
    Provider(s, [alias |-> "east"]), Provider(s, [alias |-> ""]), B("moved", "", None, None), Bare(s),
    Terraform(s, {"v"}, <<Required(s, {"p"}), Required(s, {"p", "w"}), Store(s, "cloud"),
                          Store(s, "provider_meta")>>),
    Terraform(s, {}, <<Store(s, "backend"), Store(s, "other")>>),
    Terraform(s, {}, <<Encryption(s, <<Key(s, {"pass", "encrypted_metadata_alias"}),
                                       Target(s, "state", "false"), Target(s, "plan", "true")>>)>>),
    Terraform(s, {}, <<Encryption(s, <<Target(s, "plan", "false"), Remote(s, "expr")>>)>>) }

File(name, override, tofu, blocks) ==
  [name |-> name, override |-> override, tofu |-> tofu, blocks |-> blocks]

MCModules ==
  LET P == PrimaryKinds(<<2, 100>>) \X PrimaryKinds(<<4, 100>>)
      O(f) == OverrideKinds(<<1, 100>>) \X OverrideKinds(<<f, 200>>)
      Primaries(p) == <<File(2, FALSE, FALSE, <<p[1]>>), File(4, FALSE, FALSE, <<p[2]>>)>>
  IN {<<File(1, TRUE, FALSE, o)>> \o Primaries(p) : p \in P, o \in O(1)}
     \cup {<<File(1, TRUE, FALSE, <<o[1]>>)>> \o Primaries(p)
             \o <<File(5, TRUE, TRUE, <<o[2]>>)>> : p \in P, o \in O(5)}
     \cup {Primaries(p) : p \in P}
=============================================================================
