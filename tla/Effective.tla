----------------------------- MODULE Effective -----------------------------
(***************************************************************************)
(* buildEffectiveConfig (checker/effective.go 31-166): the semantic checks *)
(* look at a module whose override files have been applied to its primary  *)
(* files.  The parsed files stay as they are, for formatting and --fix     *)
(* look at them as well, so every object is copied before its first write. *)
(*                                                                         *)
(* Objects are explicit.  A file body is a list of references to top-level *)
(* blocks and heap maps a reference to the block's value.  The parser's    *)
(* objects are the bodies Parsed(i) and the references <<i, j>> of file i; *)
(* the merge allocates the body Copy(i), and for a clone a reference that  *)
(* starts with 0 and says while which override block was applied and for   *)
(* which place it was made.  An effective file goes by the number of the   *)
(* file it is made from: a primary file, or an override file that has      *)
(* blocks which override nothing.  One action is one turn of the loop over *)
(* the override blocks.                                                    *)
(*                                                                         *)
(* A file's name is its rank in the order of names; whether the name is an *)
(* override's and whether it ends in .tofu are fields.                     *)
(***************************************************************************)
EXTENDS OverrideMerge

CONSTANT Modules   \* the parsed files of the modules considered

\* The parser gives argument n of block j its file and a position of its own,
\* before those of later blocks.
InPlace(blocks, j, n, value, name) ==
  /\ value.file = name /\ value.pos \in Nat
  /\ \A l \in DOMAIN blocks[j].attrs \ {n} : blocks[j].attrs[l].pos # value.pos
  /\ \A k \in DOMAIN blocks : k > j =>
       \A l \in DOMAIN blocks[k].attrs : blocks[k].attrs[l].pos > value.pos

\* The blocks of a body are a list.
Listed(bs) ==
  /\ bs \in Seq(ToSet(bs))
  /\ \A b \in ToSet(bs) : DOMAIN b = {"type", "label", "attrs", "nested"}

ModulesAssumption ==
  \A m \in Modules :
    /\ IsFiniteSet(DOMAIN m) /\ DOMAIN m \subseteq Nat \ {0}
    /\ \A i \in DOMAIN m :
         /\ m[i].name \in Nat
         /\ Len(m[i].blocks) \in Nat /\ DOMAIN m[i].blocks = 1..Len(m[i].blocks)
         /\ \A j \in DOMAIN m[i].blocks :
              /\ DOMAIN m[i].blocks[j] = {"type", "label", "attrs", "nested"}
              /\ Listed(m[i].blocks[j].nested)
              /\ \A b \in ToSet(m[i].blocks[j].nested) :
                   Listed(b.nested) /\ \A c \in ToSet(b.nested) : Listed(c.nested)
              /\ \A n \in DOMAIN m[i].blocks[j].attrs :
                   InPlace(m[i].blocks, j, n, m[i].blocks[j].attrs[n], m[i].name)
    /\ \A i, j \in DOMAIN m : i < j => m[i].name < m[j].name
ASSUME ModulesAssumption

VARIABLES
  files,     \* the parsed files, in the order of the directory
  pc,        \* "index", "apply" or "done"
  mem,       \* heap, bodies, effective (the body of each effective file), and
             \* what the merge has copied: own (file bodies), ownLocals (blocks)
  index,     \* where the blocks, the terraform blocks and the locals are
  todo       \* the override blocks left, as <<file, block>> references

vars == <<files, pc, mem, index, todo>>

OpenTofu == \E i \in DOMAIN files : files[i].tofu
IsPrimary(i) == i \in DOMAIN files /\ ~files[i].override
IsOverride(i) == i \in DOMAIN files /\ files[i].override
RefsOf(i) == [j \in DOMAIN files[i].blocks |-> <<i, j>>]
Refs == UNION {{<<i, j>> : j \in DOMAIN files[i].blocks} : i \in DOMAIN files}

Parsed(i) == <<"parsed", i>>
Copy(i) == <<"copy", i>>

\* A place is <<effective file, block>>.
BodyOf(m, f) == m.bodies[m.effective[f]]
Places(m) == UNION {{<<f, b>> : b \in DOMAIN BodyOf(m, f)} : f \in DOMAIN m.effective}
RefAt(m, place) == BodyOf(m, place[1])[place[2]]
At(m, place) == m.heap[RefAt(m, place)]

\* topLevelBlockIdentity
Identity(b) ==
  <<b.type, b.label, IF b.type # "provider" THEN "none"
                     ELSE IF Has(b.attrs, "alias") THEN b.attrs["alias"].lit ELSE "">>
IsTerraform(b) == b.type = "terraform" /\ b.label = ""

Init ==
  /\ files \in Modules
  /\ pc = "index"
  /\ mem = [heap |-> [r \in Refs |-> files[r[1]].blocks[r[2]]],
            bodies |-> [o \in {Parsed(i) : i \in DOMAIN files} |-> RefsOf(o[2])],
            effective |-> << >>, own |-> {}, ownLocals |-> {}]
  /\ index = [blocks |-> << >>, terraform |-> {}, locals |-> << >>]
  /\ todo = {}

(* Memory.  Install puts clones with new values at places, and Overwrite   *)
(* writes to the objects there; new is a function from places to values.   *)

\* ensureEffectiveFileBodyOwned, of several files.
OwnBodies(m, fs) ==
  LET copied == fs \ m.own
  IN [m EXCEPT
        !.bodies = Updated(@, [o \in {Copy(f) : f \in copied} |-> BodyOf(m, o[2])]),
        !.effective = [f \in DOMAIN @ |-> IF f \in copied THEN Copy(f) ELSE @[f]],
        !.own = @ \cup fs]

Overwrite(m, new) ==
  LET Here(r) == {p \in DOMAIN new : RefAt(m, p) = r}
  IN [m EXCEPT !.heap = [r \in DOMAIN @ |-> IF Here(r) = {} THEN @[r]
                                           ELSE new[CHOOSE p \in Here(r) : TRUE]]]

Clone(by, place) == <<0, by, place>>

\* Mutant: the blocks are changed without a clone.
InstallShared(m, by, new) == Overwrite(OwnBodies(m, {p[1] : p \in DOMAIN new}), new)

Install(m, by, new) ==
  LET o == OwnBodies(m, {p[1] : p \in DOMAIN new})
      Body(b) == [j \in DOMAIN o.bodies[b] |->
                    IF b[1] = "copy" /\ <<b[2], j>> \in DOMAIN new
                    THEN Clone(by, <<b[2], j>>) ELSE o.bodies[b][j]]
  IN [o EXCEPT !.heap = Updated(@, [r \in {Clone(by, p) : p \in DOMAIN new} |-> new[r[3]]]),
               !.bodies = [b \in DOMAIN @ |-> Body(b)]]

\* extraFiles: an override file gets an effective file of its own for the
\* blocks of it that override nothing.
WithExtra(m, i) ==
  IF i \in DOMAIN m.effective THEN m
  ELSE [m EXCEPT !.bodies = Updated(@, [o \in {Copy(i)} |-> << >>]),
                 !.effective = Updated(@, [f \in {i} |-> Copy(i)]),
                 !.own = @ \cup {i}]

AddRef(m, f, ref) == [m EXCEPT !.bodies[m.effective[f]] = Append(@, ref)]

\* The places of the primary files' blocks, and what is where.
IndexOf(m) ==
  LET locals == {p \in Places(m) : At(m, p).type = "locals"}
      plain == Places(m) \ locals
  IN [blocks |-> [id \in {Identity(At(m, p)) : p \in plain} |->
                    Earliest({p \in plain : Identity(At(m, p)) = id})],
      terraform |-> {p \in plain : IsTerraform(At(m, p))},
      locals |-> [n \in UNION {DOMAIN At(m, p).attrs : p \in locals} |->
                    Earliest({p \in locals : Has(At(m, p).attrs, n)})]]

\* Mutant: override files in the reverse order.
BeforeReversed(r, q) ==
  \/ files[r[1]].name > files[q[1]].name
  \/ r[1] = q[1] /\ r[2] < q[2]

\* Override files by name, and the blocks of one in their order.
Before(r, q) ==
  \/ files[r[1]].name < files[q[1]].name
  \/ r[1] = q[1] /\ r[2] < q[2]

\* Without an override file the parsed files are the effective ones.
NoOverrides ==
  /\ pc = "index"
  /\ ~\E i \in DOMAIN files : IsOverride(i)
  /\ mem' = [mem EXCEPT !.effective = [i \in DOMAIN files |-> Parsed(i)]]
  /\ pc' = "done"
  /\ UNCHANGED <<files, index, todo>>

IndexPrimary ==
  /\ pc = "index"
  /\ \E i \in DOMAIN files : IsOverride(i)
  /\ mem' = [mem EXCEPT !.effective = [i \in {k \in DOMAIN files : IsPrimary(k)} |-> Parsed(i)]]
  /\ index' = IndexOf(mem')
  /\ todo' = {r \in Refs : IsOverride(r[1])}
  /\ pc' = "apply"
  /\ UNCHANGED files

\* The turn of override block r.
Turn(r) ==
  /\ pc = "apply"
  /\ \A q \in todo \ {r} : Before(r, q)
  /\ todo' = todo \ {r}
  /\ UNCHANGED <<files, pc>>

Block(r) == mem.heap[r]

\* replaceEffectiveAttribute: a locals block is cloned at its first write only.
ReplaceLocals(m, by, values) ==
  LET Here(place) == {n \in DOMAIN values : index.locals[n] = place}
      New(places) == [p \in places |->
                        [At(m, p) EXCEPT !.attrs = Updated(@, Only(values, Here(p)))]]
      places == {index.locals[n] : n \in DOMAIN values}
      cloned == Install(m, by, New(places \ m.ownLocals))
  IN [Overwrite(cloned, New(places \cap m.ownLocals)) EXCEPT !.ownLocals = @ \cup places]

OverrideLocals(r) ==
  /\ Turn(r)
  /\ Block(r).type = "locals"
  /\ mem' = ReplaceLocals(mem, r, Only(Block(r).attrs, DOMAIN index.locals))
  /\ UNCHANGED index

\* An override that finds no terraform block gets an empty one to apply to.
Seed(m, r) ==
  LET x == WithExtra(m, r[1])
      ref == Clone(r, << >>)
      empty == [Block(r) EXCEPT !.attrs = << >>, !.nested = << >>]
  IN AddRef([x EXCEPT !.heap = Updated(@, [s \in {ref} |-> empty])], r[1], ref)

\* Places as they come in the files as they are listed.
InOrder(places) ==
  CHOOSE s \in [1..Cardinality(places) -> places] :
    \A i, j \in DOMAIN s : i < j => s[i] # s[j] /\ Earliest({s[i], s[j]}) = s[i]

\* The terraform blocks at places after an override, which writes nothing but
\* their bodies, as a function from places.
TerraformsAfter(m, places, over) ==
  LET s == InOrder(places)
      new == TerraformOverride([i \in DOMAIN s |-> At(m, s[i])], over)
      Nth(p) == CHOOSE i \in DOMAIN s : s[i] = p
  IN [p \in places |->
        [At(m, p) EXCEPT !.attrs = new[Nth(p)].attrs, !.nested = new[Nth(p)].nested]]

OverrideTerraform(r) ==
  /\ Turn(r)
  /\ IsTerraform(Block(r))
  /\ LET none == index.terraform = {}
         m == IF none THEN Seed(mem, r) ELSE mem
         places == IF none THEN {<<r[1], Len(BodyOf(m, r[1]))>>} ELSE index.terraform
         new == TerraformsAfter(m, places, Block(r))
     IN /\ mem' = Install(m, r, Only(new, {p \in places : new[p] # At(m, p)}))
        /\ index' = [index EXCEPT !.terraform = places]

IsNamed(b) == b.type \notin Forbidden \cup {"locals"} /\ ~IsTerraform(b)
Matched(b) == Identity(b) \in DOMAIN index.blocks
\* allowOverrideOnlyBlock
AllowedAlone(b) == b.type = "provider" /\ ~Has(b.attrs, "alias")

MergeBlock(r) ==
  /\ Turn(r)
  /\ IsNamed(Block(r))
  /\ Matched(Block(r))
  /\ LET place == index.blocks[Identity(Block(r))]
     IN mem' = Install(mem, r, [p \in {place} |-> MergeTopLevel(At(mem, p), Block(r), OpenTofu)])
  /\ UNCHANGED index

\* The block itself, not a clone, joins the override file's effective file.
AddBlock(r) ==
  /\ Turn(r)
  /\ IsNamed(Block(r))
  /\ ~Matched(Block(r))
  /\ AllowedAlone(Block(r))
  /\ LET m == WithExtra(mem, r[1])
         place == <<r[1], Len(BodyOf(m, r[1])) + 1>>
     IN /\ mem' = AddRef(m, r[1], r)
        /\ index' = [index EXCEPT !.blocks =
                       Updated(@, [id \in {Identity(Block(r))} |-> place])]

SkipBlock(r) ==
  /\ Turn(r)
  /\ \/ Block(r).type \in Forbidden
     \/ IsNamed(Block(r)) /\ ~Matched(Block(r)) /\ ~AllowedAlone(Block(r))
  /\ UNCHANGED <<mem, index>>

Finish ==
  /\ pc = "apply"
  /\ todo = {}
  /\ pc' = "done"
  /\ UNCHANGED <<files, mem, index, todo>>

Next == \/ NoOverrides \/ IndexPrimary
        \/ \E r \in todo : \/ OverrideLocals(r) \/ OverrideTerraform(r) \/ MergeBlock(r)
                           \/ AddBlock(r) \/ SkipBlock(r)
        \/ Finish

Spec == Init /\ [][Next]_vars

(* What the merged blocks are read for at once: E005 for a block with both *)
(* count and for_each, at the later of the two, and E002 for a local       *)
(* defined twice, at the second definition and naming the first.           *)
Counted == {"resource", "data", "module", "action"}

\* The primary files as they are listed, then the override files by name
FilePrecedes(i, k) ==
  \/ IsPrimary(i) /\ (IsPrimary(k) => i < k)
  \/ IsOverride(i) /\ IsOverride(k) /\ files[i].name < files[k].name

\* sourceOrder, by name; there is no table without an override file.
SourceOrder(name) ==
  IF \A i \in DOMAIN files : IsPrimary(i) THEN 0
  ELSE LET f == CHOOSE i \in DOMAIN files : files[i].name = name
       IN Cardinality({i \in DOMAIN files : FilePrecedes(i, f)})

\* Mutant: the files' names decide.
LaterByName(a, b) ==
  IF a.file = b.file THEN IF b.pos > a.pos THEN b ELSE a
  ELSE IF b.file > a.file THEN b ELSE a

\* laterAttribute
Later(a, b) ==
  IF a.file = b.file THEN IF b.pos > a.pos THEN b ELSE a
  ELSE IF SourceOrder(b.file) > SourceOrder(a.file) THEN b ELSE a

\* checkCountForEach, of one block
BothSet(b) == b.type \in Counted /\ Has(b.attrs, "count") /\ Has(b.attrs, "for_each")
Culprit(b) == Later(b.attrs["count"], b.attrs["for_each"])

\* buildLocalsMap: what is defined again, with what it was first defined as.
Duplicates(m) ==
  LET Defining(n) == {p \in Places(m) : At(m, p).type = "locals" /\ Has(At(m, p).attrs, n)}
      First(n) == At(m, Earliest(Defining(n))).attrs[n]
      names == UNION {DOMAIN At(m, p).attrs : p \in {q \in Places(m) : At(m, q).type = "locals"}}
  IN UNION {{<<At(m, p).attrs[n], First(n)>> : p \in Defining(n) \ {Earliest(Defining(n))}}
              : n \in names}

(***************************************************************************)
(* What the effective configuration is, read off the parsed files.         *)
(***************************************************************************)
Source(r) == files[r[1]].blocks[r[2]]

\* Blocks in the order of their files, and the blocks of a file in theirs
Precedes(r, q) == FilePrecedes(r[1], q[1]) \/ (r[1] = q[1] /\ r[2] < q[2])
FirstOf(S) == CHOOSE r \in S : \A q \in S \ {r} : Precedes(r, q)
LastOf(S) == CHOOSE r \in S : \A q \in S \ {r} : Precedes(q, r)

\* What has been read: the primary files, and the override blocks whose turn is
\* over.
Read == Refs \ todo
IsRead(r) == IsPrimary(r[1]) \/ Source(r).type \notin Forbidden

\* The blocks that make up the effective block of an identity: a block of the
\* primary files, or one that an override file may add, and the overrides that
\* come after it.
Of(id) == {r \in Read : Source(r).type # "locals" /\ Identity(Source(r)) = id /\ IsRead(r)}
Founding(id) == {r \in Of(id) : IsPrimary(r[1]) \/ AllowedAlone(Source(r))}
Base(id) == FirstOf(Founding(id))
Contributors(id) ==
  {Base(id)} \cup {r \in Of(id) : IsOverride(r[1]) /\ Precedes(Base(id), r)}

\* Those that have a say in an argument: depends_on is the first block's alone.
Setters(id, n) ==
  {r \in IF n \in FixedArgs(id[1]) THEN {Base(id)} ELSE Contributors(id) : Has(Source(r).attrs, n)}

\* Those that supply a nested block of a type.
Suppliers(id, t) == {r \in Contributors(id) : t \in TypesIn(Source(r).nested)}

\* The definitions of a local; what counts is the first of the primary files'
\* and all overrides.
Defining(n) == {r \in Read : Source(r).type = "locals" /\ Has(Source(r).attrs, n)}
Definitions(n) == {r \in Defining(n) : IsPrimary(r[1])}
LocalValue(n) ==
  Source(LastOf({FirstOf(Definitions(n))} \cup {r \in Defining(n) : IsOverride(r[1])})).attrs[n]

\* The terraform blocks of the primary files, and those that override them.
PrimaryTerraforms == {r \in Refs : IsPrimary(r[1]) /\ IsTerraform(Source(r))}
TerraformOverrides == {r \in Read : IsOverride(r[1]) /\ IsTerraform(Source(r))}

NestedOf(bs) == FlattenSeq([i \in DOMAIN bs |-> bs[i].nested])
Rules(bs) == NotOfType(NestedOf(OfType(bs, {"lifecycle"})), {"action_trigger"})
Requiring(bs, n) == Where(bs, LAMBDA b : b.type = "required_providers" /\ Has(b.attrs, n))

Merged == {id \in DOMAIN index.blocks : id # <<"terraform", "", "none">>}
EffectiveBlock(id) == At(mem, index.blocks[id])

\* The parser's objects are never written: E008 and --fix still look at them
\* after the semantic checks built their view (ensureEffectiveFileBodyOwned,
\* cloneBlock before every write).
ParsedIntact ==
  /\ \A r \in Refs : mem.heap[r] = files[r[1]].blocks[r[2]]
  /\ \A i \in DOMAIN files : mem.bodies[Parsed(i)] = RefsOf(i)

\* An argument of a merged block has the value of the last block, in override
\* order, that sets it; depends_on only ever the primary block's.  A local has
\* the value of its last override, if any.  So it is after every turn, for the
\* blocks read by then.
LastOverrideWins ==
  pc # "index" =>
    /\ \A id \in Merged :
         LET attrs == EffectiveBlock(id).attrs
             names == UNION {DOMAIN Source(r).attrs : r \in Contributors(id)}
         IN /\ DOMAIN attrs = {n \in names : Setters(id, n) # {}}
            /\ \A n \in DOMAIN attrs : attrs[n] = Source(LastOf(Setters(id, n))).attrs[n]
    /\ \A n \in DOMAIN index.locals : At(mem, index.locals[n]).attrs[n] = LocalValue(n)
    /\ pc = "done" => Read = Refs

\* The verdicts on merged blocks are about what the files say.  E005 names the
\* argument Terraform meets last, primary files first and then the override
\* files by name, whatever order the names have among all files (the comment
\* of checkCountForEach, effective.go 56-63).  E002 names each definition of a
\* local after the first of the primary files, and no override of it.
VerdictsAsWritten ==
  pc = "done" =>
    /\ \A id \in {x \in Merged : x[1] \in Counted} :
         LET both == {"count", "for_each"}
             set == {n \in both : Setters(id, n) # {}}
             latest == Source(LastOf(Setters(id, "count") \cup Setters(id, "for_each"))).attrs
             n == CHOOSE x \in both \cap DOMAIN latest :
                    \A y \in both \cap DOMAIN latest : latest[x].pos >= latest[y].pos
         IN /\ BothSet(EffectiveBlock(id)) <=> set = both
            /\ set = both => Culprit(EffectiveBlock(id)) = latest[n]
    /\ Duplicates(mem) =
         LET Again(r) == {n \in DOMAIN Source(r).attrs : r # FirstOf(Definitions(n))}
         IN UNION {{<<Source(r).attrs[n], LocalValue(n)>> : n \in Again(r)} :
                     r \in {q \in Refs : IsPrimary(q[1]) /\ Source(q).type = "locals"}}

\* Nested blocks of one type come together from one block: the last that
\* supplies any of the type, a dynamic block counting as what it generates.
\* Check rules are the primary block's alone, a resource's lifecycle included
\* (of two lifecycle blocks, which Terraform refuses, an override keeps one).
NestedTogether ==
  pc # "index" =>
    \A id \in {x \in Merged : x[1] # "terraform"} :
      LET fixed == FixedBlocks(id[1])
          apart == Special(id[1]) \cup fixed
          nested == EffectiveBlock(id).nested
          base == Source(Base(id)).nested
          types == UNION {TypesIn(Source(r).nested) : r \in Contributors(id)}
      IN /\ TypesIn(nested) \ apart = types \ apart
         /\ \A t \in types \ apart :
              Peers(nested, t) = Peers(Source(LastOf(Suppliers(id, t))).nested, t)
         /\ OfType(nested, fixed) = OfType(base, fixed)
         /\ id[1] = "resource" /\ Len(Peers(base, "lifecycle")) <= 1 => Rules(nested) = Rules(base)

\* What dynamic blocks of the overrides generate.  Terraform refuses any dynamic
\* block there, and so any of what is replaced as a whole or merged one by one.
Generated == UNION {TypesIn(OfType(Source(r).nested, {"dynamic"})) : r \in TerraformOverrides}
Static == Generated \cap (Storage \cup {"required_providers"}) = {}

\* Over all the module's terraform blocks there is one storage selection, the
\* last override's that makes any, and an overridden required provider is
\* required once, as the last override that names it says.  So it is after every
\* turn, for the overrides read by then.
TerraformSelections ==
  pc # "index" /\ index.terraform # {} /\ Static =>
    LET p == InOrder(PrimaryTerraforms)
        e == InOrder(index.terraform)
        written == NestedOf([i \in DOMAIN p |-> Source(p[i])])
        all == NestedOf([i \in DOMAIN e |-> At(mem, e[i])])
        selecting == {r \in TerraformOverrides : OfType(Source(r).nested, Storage) # << >>}
        Naming(n) == {r \in TerraformOverrides : Requiring(Source(r).nested, n) # << >>}
        names == UNION {UNION {DOMAIN b.attrs : b \in ToSet(Source(r).nested)} : r \in TerraformOverrides}
    IN /\ OfType(all, Storage) =
            OfType(IF selecting = {} THEN written ELSE Source(LastOf(selecting)).nested, Storage)
       /\ \A n \in {x \in names : Naming(x) # {}} :
            LET here == Requiring(all, n)
            IN Len(here) = 1 /\ here[1].attrs[n] =
                 Last(Requiring(Source(LastOf(Naming(n))).nested, n)).attrs[n]

\* What no later override takes back: an enforced encryption target, a key
\* provider with its metadata alias, and a resource that ignores all changes in
\* its lifecycle block (of two, which Terraform refuses, an override keeps one).
\* A dynamic encryption block, refused too, would replace the encryption blocks.
Inside(bs) == UNION {ToSet(b.nested) : b \in bs}
Encryptions ==
  {b \in Inside({At(mem, p) : p \in index.terraform}) : b.type = "encryption"}
Ignoring(b) ==
  LET own == Peers(b.nested, "lifecycle")
  IN Len(own) = 1 /\ Has(own[1].attrs, "ignore_changes") /\ own[1].attrs["ignore_changes"].lit = "all"

Sticky ==
  LET parts == Inside(Encryptions)
      remotes == {b \in parts : b.type = "remote_state_data_sources"}
      targets == {b \in parts \cup Inside(remotes) : b.type \notin Keyed}
  IN {<<"enforced", b.type, b.label>> : b \in {x \in targets : Enforced(x)}}
       \cup {<<b.type, b.label, Only(b.attrs, {"encrypted_metadata_alias"})>> :
               b \in {x \in parts : x.type = "key_provider"}}
       \cup {<<"ignores", id>> : id \in
               {x \in Merged : x[1] = "resource" /\ Ignoring(EffectiveBlock(x))}}

StickySettings == [][pc = "apply" /\ "encryption" \notin Generated' => Sticky \subseteq Sticky']_vars
=============================================================================
