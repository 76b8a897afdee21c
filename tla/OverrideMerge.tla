--------------------------- MODULE OverrideMerge ---------------------------
(***************************************************************************)
(* How one block overrides another (checker/effective.go 168-705), as      *)
(* functions of values.  A block is a record: its type, its label, its     *)
(* arguments (a function from names) and its nested blocks in order.       *)
(*                                                                         *)
(* An argument's value is a record too: src names the block that wrote it  *)
(* and lit says what the merge can see of its expression: "true", "false", *)
(* "all" (ignore_changes = all), "empty" (the tuple []), an alias's text   *)
(* ("" if it is not a literal), or "expr" for anything else.               *)
(*                                                                         *)
(* Every merge below the top level builds a fresh block in the code        *)
(* (cloneBlock, mergeNestedBlock) before it writes, so values suffice      *)
(* here.  Effective.tla models the objects the top level shares.           *)
(***************************************************************************)
EXTENDS Naturals, Sequences, SequencesExt, FiniteSetsExt

Has(f, n) == n \in DOMAIN f
Without(f, S) == [n \in DOMAIN f \ S |-> f[n]]
\* f with the entries of new added to it or in place of its own.
Updated(f, new) ==
  [n \in DOMAIN f \cup DOMAIN new |-> IF n \in DOMAIN new THEN new[n] ELSE f[n]]
Only(f, S) == [n \in DOMAIN f \cap S |-> f[n]]

Storage == {"backend", "cloud", "state_store"}
Forbidden == {"check", "moved", "import", "removed"}

\* effectiveNestedBlockType: a dynamic block stands for the type it generates.
NestedType(b) == IF b.type = "dynamic" THEN b.label ELSE b.type

\* The blocks of bs that Holds is true of, in their order.
Where(bs, Holds(_)) ==
  FlattenSeq([i \in DOMAIN bs |-> IF Holds(bs[i]) THEN <<bs[i]>> ELSE << >>])

TypesIn(bs) == {NestedType(bs[i]) : i \in DOMAIN bs}
OfType(bs, S) == Where(bs, LAMBDA b : b.type \in S)
NotOfType(bs, S) == Where(bs, LAMBDA b : b.type \notin S)
Peers(bs, t) == Where(bs, LAMBDA b : NestedType(b) = t)

\* Mutant: a dynamic block is a type of its own.
NotPeersLiteral(bs, S) == Where(bs, LAMBDA b : b.type \notin S)
NotPeers(bs, S) == Where(bs, LAMBDA b : NestedType(b) \notin S)

\* sameBlockLabels with the type, the key of a named encryption block.
SameBlock(a, b) == a.type = b.type /\ a.label = b.label

MergeNested(base, over) ==
  [base EXCEPT !.attrs = Updated(@, over.attrs),
               !.nested = NotPeers(@, TypesIn(over.nested)) \o over.nested]

\* A managed resource's lifecycle: settings merge one by one, ignore_changes
\* only if the base does not ignore everything, and conditions stay the base's.
MergeLifecycle(base, over, tofu) ==
  LET Lit(b) == IF Has(b.attrs, "ignore_changes") THEN b.attrs["ignore_changes"].lit ELSE "none"
      settings == {"create_before_destroy", "prevent_destroy"}
                    \cup (IF tofu THEN {"destroy"} ELSE {})
                    \cup (IF Lit(base) = "all" \/ Lit(over) = "empty"
                          THEN {} ELSE {"ignore_changes"})
      triggers == OfType(over.nested, {"action_trigger"})
  IN [base EXCEPT
        !.attrs = Updated(@, Only(over.attrs, settings)),
        !.nested = IF triggers = <<>> THEN @
                   ELSE NotOfType(@, {"action_trigger"}) \o triggers]

\* blockSpecialMergeTypes: nested types merged rather than replaced.
Special(type) == CASE type = "resource" -> {"lifecycle"}
                   [] type = "action" -> {"config"}
                   [] type = "terraform" -> {"required_providers"}
                   [] OTHER -> {}

IsEmpty(b) == b.attrs = << >> /\ b.nested = << >>

\* What becomes of the blocks bs of type t when os overrides them: the first,
\* or an empty one, merged with those of os one after the other.
Combine(b, o, tofu) ==
  IF NestedType(o) = "lifecycle" THEN MergeLifecycle(b, o, tofu) ELSE MergeNested(b, o)
FirstOrEmpty(bs, os, t) ==
  IF Peers(bs, t) # << >> THEN Peers(bs, t)[1]
  ELSE [Peers(os, t)[1] EXCEPT !.attrs = << >>, !.nested = << >>]
Combined(bs, os, t, tofu) ==
  LET given == Peers(os, t)
      result[k \in 0..Len(given)] ==
        IF k = 0 THEN FirstOrEmpty(bs, os, t) ELSE Combine(result[k - 1], given[k], tofu)
  IN result[Len(given)]

MergeBody(base, over, tofu) ==
  LET merged == {t \in TypesIn(over.nested) \cap Special(base.type) :
                   t = "lifecycle" \/ Peers(base.nested, t) # << >>}
      Result(t) == Combined(base.nested, over.nested, t, tofu)
      Item(j) == LET t == NestedType(over.nested[j])
                     first == \A i \in 1..(j-1) : NestedType(over.nested[i]) # t
                 IN IF t \notin merged THEN <<over.nested[j]>>
                    ELSE IF first /\ ~IsEmpty(Result(t)) THEN <<Result(t)>> ELSE << >>
  IN [base EXCEPT
        !.attrs = Updated(@, over.attrs),
        !.nested = NotPeers(@, TypesIn(over.nested))
                     \o FlattenSeq([j \in DOMAIN over.nested |-> Item(j)])]

\* forbidsOverrideDependsOn and restoreForbiddenNestedBlocks: what an override
\* of a block of this type may not touch.
FixedArgs(type) ==
  IF type \in {"resource", "data", "ephemeral", "module", "output"} THEN {"depends_on"} ELSE {}
FixedBlocks(type) == CASE type = "variable" -> {"validation"}
                       [] type = "output" -> {"precondition"}
                       [] type \in {"data", "ephemeral"} -> {"lifecycle"}
                       [] type = "terraform" -> {"provider_meta"}
                       [] OTHER -> {}

MergeTopLevel(base, over, tofu) ==
  LET merged == MergeBody(base, over, tofu)
      args == FixedArgs(base.type)
      fixed == FixedBlocks(base.type)
      storage == OfType(over.nested, Storage)
      restored == IF fixed = {} THEN merged.nested
                  ELSE NotOfType(merged.nested, fixed) \o OfType(base.nested, fixed)
  IN [merged EXCEPT
        !.attrs = Updated(Without(@, args), Only(base.attrs, args)),
        !.nested = IF base.type = "terraform" /\ storage # << >>
                   THEN NotOfType(restored, Storage) \o storage ELSE restored]

(* Encryption (OpenTofu).  An enforced target stays enforced unless the    *)
(* override says true as well; a key provider keeps its metadata alias.    *)
Keyed == {"key_provider", "method"}
Enforced(b) == Has(b.attrs, "enforced") /\ b.attrs["enforced"].lit = "true"

\* Mutant: the override's target simply wins.
MergeTargetRelaxed(base, over) == MergeNested(base, over)

MergeTarget(base, over) ==
  LET merged == MergeNested(base, over)
  IN IF Enforced(base) /\ ~Enforced(over)
     THEN [merged EXCEPT !.attrs["enforced"] = base.attrs["enforced"]] ELSE merged

MergeKeyed(base, over) ==
  LET merged == MergeNested(base, over)
      alias == {"encrypted_metadata_alias"}
  IN IF base.type = "key_provider"
     THEN [merged EXCEPT !.attrs = Updated(Without(@, alias), Only(base.attrs, alias))]
     ELSE merged

\* The first block that Same matches is merged with o; without one o is added.
Upsert(bs, o, Same(_, _), Merge(_, _)) ==
  LET hits == {i \in DOMAIN bs : Same(bs[i], o)}
  IN IF hits = {} THEN Append(bs, o)
     ELSE [bs EXCEPT ![Min(hits)] = Merge(@, o)]

SameType(a, b) == a.type = b.type

AddRemote(bs, t) ==
  CASE t.type = "default" -> Upsert(bs, t, SameType, MergeTarget)
    [] t.type = "remote_state_data_source" -> Upsert(bs, t, SameBlock, MergeTarget)
    [] OTHER -> bs
MergeRemote(base, over) ==
  LET result[k \in 0..Len(over.nested)] ==
        IF k = 0 THEN base.nested ELSE AddRemote(result[k - 1], over.nested[k])
  IN [base EXCEPT !.nested = result[Len(over.nested)]]

AddEncryption(bs, n) ==
  CASE n.type \in Keyed -> Upsert(bs, n, SameBlock, MergeKeyed)
    [] n.type \in {"state", "plan"} -> Upsert(bs, n, SameType, MergeTarget)
    [] n.type = "remote_state_data_sources" -> Upsert(bs, n, SameType, MergeRemote)
    [] OTHER -> bs
MergeEncryption(base, over) ==
  LET result[k \in 0..Len(over.nested)] ==
        IF k = 0 THEN base.nested ELSE AddEncryption(result[k - 1], over.nested[k])
  IN [base EXCEPT !.attrs = Updated(@, over.attrs), !.nested = result[Len(over.nested)]]

(* applyTerraformOverride: a terraform block overrides all the module's    *)
(* terraform blocks at once.                                               *)
AddToFirst(bs, n) == ReplaceAt(bs, 1, [bs[1] EXCEPT !.nested = Append(@, n)])

\* The places of nested blocks of type t, as <<block, nested block>>.
Within(bs, t) == UNION {{<<i, j>> : j \in {k \in DOMAIN bs[i].nested : bs[i].nested[k].type = t}}
                          : i \in DOMAIN bs}
Earliest(places) == CHOOSE p \in places : \A q \in places :
                      p[1] < q[1] \/ (p[1] = q[1] /\ p[2] <= q[2])

\* Mutant: the other blocks that require a provider keep their requirement.
MergeProvidersFirst(bs, over) ==
  LET holders == Within(bs, "required_providers")
      New(p, n) == IF p = Earliest(holders) THEN [n EXCEPT !.attrs = Updated(@, over.attrs)] ELSE n
      Merge(i) == [j \in DOMAIN bs[i].nested |-> New(<<i, j>>, bs[i].nested[j])]
  IN IF holders = {} THEN AddToFirst(bs, over)
     ELSE [i \in DOMAIN bs |-> [bs[i] EXCEPT !.nested = Merge(i)]]

MergeProviders(bs, over) ==
  LET holders == Within(bs, "required_providers")
      New(p, n) == IF p \notin holders THEN n
                   ELSE IF p = Earliest(holders) THEN [n EXCEPT !.attrs = Updated(@, over.attrs)]
                   ELSE [n EXCEPT !.attrs = Without(@, DOMAIN over.attrs)]
      Merge(i) == [j \in DOMAIN bs[i].nested |-> New(<<i, j>>, bs[i].nested[j])]
  IN IF over.attrs = << >> THEN bs
     ELSE IF holders = {} THEN AddToFirst(bs, over)
     ELSE [i \in DOMAIN bs |-> [bs[i] EXCEPT !.nested = Merge(i)]]

MergeEncryptions(bs, over) ==
  LET holders == Within(bs, "encryption")
      i == Earliest(holders)[1]
      j == Earliest(holders)[2]
      nested == bs[i].nested
  IN IF holders = {} THEN AddToFirst(bs, over)
     ELSE ReplaceAt(bs, i, [bs[i] EXCEPT
            !.nested = ReplaceAt(nested, j, MergeEncryption(nested[j], over))])

\* Arguments leave every block and land in the first; nested types and the
\* storage selection are replaced wherever they are.
Cleared(bs, over) ==
  LET names == DOMAIN over.attrs
      fieldwise == {"provider_meta", "required_providers", "encryption"}
      storage == OfType(over.nested, Storage) # << >>
      replaced == TypesIn(NotOfType(over.nested, fieldwise \cup Storage))
      Stays(n) == /\ ~(storage /\ n.type \in Storage)
                  /\ NestedType(n) \notin replaced
      Attrs(i) == IF i = 1 THEN Updated(bs[i].attrs, over.attrs) ELSE Without(bs[i].attrs, names)
  IN [i \in DOMAIN bs |-> [bs[i] EXCEPT !.attrs = Attrs(i), !.nested = Where(@, Stays)]]

Apply(bs, n) == CASE n.type = "provider_meta" -> bs
                  [] n.type = "required_providers" -> MergeProviders(bs, n)
                  [] n.type = "encryption" -> MergeEncryptions(bs, n)
                  [] OTHER -> AddToFirst(bs, n)
Applied(bs, ns) ==
  LET result[k \in 0..Len(ns)] == IF k = 0 THEN bs ELSE Apply(result[k - 1], ns[k])
  IN result[Len(ns)]

TerraformOverride(bs, over) == Applied(Cleared(bs, over), over.nested)
=============================================================================
