----------------------------- MODULE ScopeWalk -----------------------------
(***************************************************************************)
(* The expression walk of Run (checker/checks.go 147-278, 369-848): every  *)
(* expression of every file is visited with the iterators in scope, save   *)
(* the traversals that are keywords or declarations where they stand, and  *)
(* the visits report scope roots, undefined locals and interpolated        *)
(* collections; locals nobody used are reported at the end.                *)
(*                                                                         *)
(* A module is a tree of files, blocks, attributes and expressions.  A     *)
(* node is named by the positions that lead to it, so its ancestors are    *)
(* its prefixes.  A traversal's path is its root, attribute names, and     *)
(* "[]" for an index.  The pieces of hclsyntax.Walk that matter are        *)
(* external: a for expression wraps its key, value and condition in a      *)
(* ChildScope, and a bare identifier as an object key is not walked.       *)
(***************************************************************************)
EXTENDS Naturals, Sequences, FiniteSets

CONSTANTS
  Modules,        \* the parsed modules: [tree |-> .., localKinds |-> ..]
  Filters,        \* the sets of codes of --checks; {} enables all
  ResourceTypes   \* the names shaped like a provider's resource type

\* What the parser guarantees of a tree: a dynamic block directly in another
\* one's body, which Terraform's grammar forbids, is left out.
Up(p) == SubSeq(p, 1, Len(p) - 1)
Structure == {"file", "block", "attribute"}
DynamicIn(t, p) == t[p].kind = "block" /\ t[p].name = "dynamic" /\ t[p].labels = 1

WellFormed(t) ==
  \A p \in DOMAIN t :
    /\ p \in Seq(Nat) /\ p # << >>
    /\ Len(p) = 1 <=> t[p].kind = "file"
    /\ Len(p) > 1 =>
         /\ Up(p) \in DOMAIN t /\ t[Up(p)].kind # "traversal"
         /\ DynamicIn(t, Up(p)) => ~DynamicIn(t, p)
         /\ t[Up(p)].kind \in {"file", "block"} <=> t[p].kind \in Structure
         /\ t[Up(p)].kind = "attribute" => p = Append(Up(p), 1)
    /\ t[p].kind = "attribute" => Append(p, 1) \in DOMAIN t
    /\ t[p].role = "scoped" => Len(p) > 2 /\ t[Up(p)].kind = "for"
    /\ t[p].role = "key" => Len(p) > 1 /\ t[Up(p)].kind = "object"

ModulesAssumption == \A m \in Modules : WellFormed(m.tree)
ASSUME ModulesAssumption

VARIABLES
  tree,    \* the nodes of all files
  localKinds,  \* buildLocalsMap: name -> "composite" or "other"
  checks,  \* the filter
  files,   \* the files not opened yet
  bodies,  \* the walkExpressionsAt and walkDynamicBlock calls under way
  todo,    \* hclsyntax.Walk: what is left in each ChildScope, outermost first
  iters,   \* w.iterators
  stack,   \* w.stack
  context, \* w.scopeContext
  refs,    \* w.providerReferences
  seen,    \* the visits: the node and the iterators passed to the callback
  used,    \* usedLocals
  found,   \* the violations: code and node
  done

walker == <<todo, iters, stack, context, refs>>
input == <<tree, localKinds, checks>>
output == <<seen, used, found>>
walkVars == <<input, files, bodies, walker, output, done>>

Enabled(code) == checks = {} \/ code \in checks
Only(code, S) == IF Enabled(code) THEN S ELSE {}

Top(s) == s[Len(s)]
Pop(s) == SubSeq(s, 1, Len(s) - 1)

NodesIn(p) == {q \in DOMAIN tree : Len(q) = Len(p) + 1 /\ Up(q) = p}
First(S) == CHOOSE p \in S : \A q \in S : Top(p) <= Top(q)
Is(p, kind) == tree[p].kind = kind
ExprOf(a) == Append(a, 1)   \* the expression of attribute a

Traversal(p) == Is(p, "traversal")
Root(p) == tree[p].path[1]
Bare(p, names) == Traversal(p) /\ Len(tree[p].path) = 1 /\ Root(p) \in names

(* Names ***************************************************************** *)

ScopeRoots == {"var", "local", "module", "data", "ephemeral", "path", "terraform",
               "each", "count", "self", "action"}
Typos == {"vars", "locals", "modules", "datas", "paths", "terraforms"}

\* ValidateScopeRoot and scopeRootViolation
RootViolation(p, names) ==
  IF Root(p) \in ScopeRoots \cup names \cup ResourceTypes THEN {}
  ELSE LET code == IF Root(p) \in Typos THEN "E009" ELSE "W009"
       IN Only(code, {<<code, p>>})

\* local.x, not shadowed: the name of the local, else nothing
LocalNamed(p, names) ==
  IF Root(p) = "local" /\ "local" \notin names /\ Len(tree[p].path) >= 2 /\ tree[p].path[2] # "[]"
  THEN {tree[p].path[2]} ELSE {}

\* typeMismatchViolation, for one part of a template
Interpolated(p, names) ==
  Traversal(p) /\ Len(tree[p].path) = 2
    /\ \E n \in LocalNamed(p, names) : n \in DOMAIN localKinds /\ localKinds[n] = "composite"

(* Positions with a grammar of their own ********************************* *)

Unlabelled == {"encryption", "state", "plan", "fallback", "remote_state_data_sources", "default",
               "lifecycle", "action_trigger", "required_providers"}

\* mutant: any depth will do
TrackedAnywhere(b, topLevel) ==
  IF tree[b].labels = (CASE tree[b].name \in {"resource", "data", "ephemeral", "action"} -> 2
                         [] tree[b].name \in {"module", "provisioner", "variable",
                                              "remote_state_data_source"} -> 1
                         [] OTHER -> 0)
  THEN tree[b].name ELSE ""

\* scopeTraversalBlockType: the type, or "" for a lookalike
TrackedType(b, topLevel) ==
  LET type == tree[b].name
      n == tree[b].labels
      permitted ==
        CASE type \in {"terraform", "import", "removed"} -> topLevel /\ n = 0
          [] type \in {"resource", "data", "ephemeral", "action"} -> topLevel /\ n = 2
          [] type = "module" -> topLevel /\ n = 1
          [] type \in Unlabelled -> n = 0
          [] type \in {"provisioner", "remote_state_data_source"} -> n = 1
          [] OTHER -> TRUE
  IN IF permitted THEN type ELSE ""

WithProvider == {"resource", "data", "ephemeral", "action", "import"}

\* The ancestry anc holds the enclosing block's type and the next three.
EncryptionTarget(anc) ==
  \/ anc[1] \in {"state", "plan"} /\ anc[2] = "encryption" /\ anc[3] = "terraform"
  \/ anc[1] = "fallback" /\ anc[2] \in {"state", "plan"}
       /\ anc[3] = "encryption" /\ anc[4] = "terraform"
  \/ anc[1] \in {"default", "remote_state_data_source"} /\ anc[2] = "remote_state_data_sources"
       /\ anc[3] = "encryption" /\ anc[4] = "terraform"

\* classifyScopeTraversalContext
Classify(inAction, anc, name) ==
  LET provisioner == anc[1] = "provisioner" /\ anc[2] \in {"resource", "removed"}
      trigger == anc[1] = "action_trigger" /\ anc[2] = "lifecycle" /\ anc[3] = "resource"
  IN CASE inAction -> "action_config"
       [] ~inAction /\ anc[1] = "variable" /\ name = "type" -> "type"
       [] ~inAction /\ anc[1] = "lifecycle" /\ name = "ignore_changes" -> "relative"
       [] ~inAction /\ \/ anc[1] = "module" /\ name = "providers"
                       \/ anc[1] \in WithProvider /\ name = "provider"
                       \/ anc[1] = "required_providers" /\ anc[2] = "terraform" -> "provider"
       [] ~inAction /\ provisioner /\ name = "on_failure" -> "on_failure"
       [] ~inAction /\ provisioner /\ name = "when" -> "when"
       [] ~inAction /\ trigger /\ name = "events" -> "events"
       [] ~inAction /\ trigger /\ name = "on_failure" -> "action_failure"
       [] ~inAction /\ name = "method" /\ EncryptionTarget(anc) -> "method"
       [] OTHER -> "default"

Events == {"before_create", "after_create", "before_update", "after_update",
           "before_destroy", "after_destroy"}

\* skipScopeTraversalForContext
Skipped(p, c) ==
  \/ c = "type" /\ Bare(p, {"string", "number", "bool", "any"})
  \/ c = "relative"
  \/ c = "on_failure" /\ Bare(p, {"continue", "fail"})
  \/ c = "when" /\ Bare(p, {"create", "destroy"})
  \/ c = "events" /\ Bare(p, Events)
  \/ c = "action_failure" /\ Bare(p, {"halt", "continue", "taint"})
  \/ c = "action_config" /\ Root(p) = "caller"
  \/ c = "method" /\ Root(p) = "method" /\ Len(tree[p].path) = 3
       /\ "[]" \notin {tree[p].path[2], tree[p].path[3]}

\* isProviderTraversal
ProviderTraversal(p, root, allowKey) ==
  LET path == tree[p].path
  IN /\ Traversal(p)
     /\ root = "" \/ Root(p) = root
     /\ \/ Len(path) = 1
        \/ Len(path) = 2 /\ path[2] # "[]"
        \/ Len(path) = 3 /\ allowKey /\ path[2] # "[]" /\ path[3] = "[]"

\* addProviderReference: an index expression refers through its collection.
ProviderRef(p, root, allowKey) ==
  {q \in {p} : ProviderTraversal(p, root, allowKey)} \cup
  {q \in {Append(p, 1)} : /\ allowKey /\ Is(p, "index")
                          /\ ProviderTraversal(q, root, FALSE) /\ Len(tree[q].path) = 2}

\* collectProviderReferences
ProviderRefs(e, anc, name) ==
  IF anc[1] = "module" /\ name = "providers"
  THEN UNION {ProviderRef(q, "", tree[q].role = "value") : q \in {c \in NodesIn(e) : Is(e, "object")}}
  ELSE IF anc[1] = "required_providers" /\ anc[2] = "terraform"
  THEN UNION {ProviderRef(q, name, FALSE) :
                q \in UNION {NodesIn(t) : t \in {c \in NodesIn(e) :
                        /\ Is(e, "object") /\ Is(c, "tuple")
                        /\ tree[c].role = "value" /\ tree[c].name = "configuration_aliases"}}}
  ELSE ProviderRef(e, "", anc[1] # "action")

(* The walk ************************************************************** *)

Dynamic(b) == DynamicIn(tree, b)

\* dynamicIteratorName: the iterator attribute if it is a name, else the label
IteratorName(b) ==
  LET named == {a \in NodesIn(b) : Is(a, "attribute") /\ tree[a].name = "iterator"
                                      /\ Traversal(ExprOf(a)) /\ Len(tree[ExprOf(a)].path) = 1}
  IN IF named = {} THEN tree[b].label ELSE Root(ExprOf(First(named)))

NoAncestry == <<"", "", "", "">>
Idle == << << >> >>

\* A call for the body of p: dynamic says which of the two functions it is.
Body(p, names, dynamic, inLanguage, inAction, anc) ==
  [at |-> p, iters |-> names, dynamic |-> dynamic, language |-> inLanguage,
   action |-> inAction, anc |-> anc,
   attrs |-> {q \in NodesIn(p) : Is(q, "attribute")},
   blocks |-> {q \in NodesIn(p) : Is(q, "block")}]

Current == Top(bodies)
WithCurrent(b) == Append(Pop(bodies), b)

\* Run's loop over the files
OpenFile ==
  /\ bodies = << >> /\ files # {} /\ ~done
  /\ LET f == First(files)
     IN /\ files' = files \ {f}
        /\ bodies' = <<Body(f, {}, FALSE, FALSE, FALSE, NoAncestry)>>
  /\ UNCHANGED <<input, walker, output, done>>

\* An attribute whose value is a declaration: the OpenTofu edition, or the
\* iterator of a dynamic block.
Declares(a) ==
  \/ Current.dynamic /\ tree[a].name = "iterator"
  \/ ~Current.dynamic /\ Current.language /\ tree[a].name = "edition"
       /\ Bare(ExprOf(a), {"tofu2024"})

SkipAttribute(a) ==
  /\ Declares(a)
  /\ bodies' = WithCurrent([Current EXCEPT !.attrs = @ \ {a}])
  /\ UNCHANGED <<input, files, walker, output, done>>

\* The walker is shared by the attributes of a body and set up for each.
StartWalk(a, names, c, providers) ==
  /\ bodies' = WithCurrent([Current EXCEPT !.attrs = @ \ {a}])
  /\ todo' = << << {[at |-> ExprOf(a), own |-> TRUE]} >> >>
  /\ iters' = names /\ stack' = << >> /\ context' = c /\ refs' = providers
  /\ UNCHANGED <<input, files, output, done>>

WalkAttribute(a) ==
  LET c == Classify(Current.action, Current.anc, tree[a].name)
  IN /\ ~Current.dynamic /\ ~Declares(a)
     /\ StartWalk(a, Current.iters, c,
          IF c = "provider" THEN ProviderRefs(ExprOf(a), Current.anc, tree[a].name) ELSE {})

\* walkDynamicBlock: only the labels see the iterator.
Augmented == Current.iters \cup {IteratorName(Current.at)}

WalkDynamicAttribute(a) ==
  /\ Current.dynamic /\ ~Declares(a)
  /\ StartWalk(a, IF tree[a].name = "labels" THEN Augmented ELSE Current.iters,
               IF Current.action THEN "action_config" ELSE "default", {})

Attribute ==
  /\ bodies # << >> /\ todo = Idle
  /\ \E a \in Current.attrs : SkipAttribute(a) \/ WalkAttribute(a) \/ WalkDynamicAttribute(a)

Descend(b, body) ==
  /\ bodies' = Append(WithCurrent([Current EXCEPT !.blocks = @ \ {b}]), body)
  /\ UNCHANGED <<input, files, walker, output, done>>

NextBlock(b) ==
  bodies # << >> /\ todo = Idle /\ Current.attrs = {} /\ Current.blocks # {}
    /\ b = First(Current.blocks)

OrdinaryBlock(b) ==
  LET topLevel == Len(Current.at) = 1
  IN /\ NextBlock(b) /\ ~Current.dynamic /\ ~Dynamic(b)
     /\ Descend(b, Body(b, Current.iters, FALSE,
          topLevel /\ tree[b].name = "language" /\ tree[b].labels = 0,
          \/ Current.action
          \/ tree[b].name = "config" /\ tree[b].labels = 0 /\ Current.anc[1] = "action",
          <<TrackedType(b, topLevel)>> \o Pop(Current.anc)))

DynamicBlock(b) ==
  /\ NextBlock(b) /\ ~Current.dynamic /\ Dynamic(b)
  /\ Descend(b, Body(b, Current.iters, TRUE, FALSE, Current.action, NoAncestry))

\* The blocks in a dynamic block: only content sees the iterator.
InDynamic(b) ==
  /\ NextBlock(b) /\ Current.dynamic
  /\ Descend(b, Body(b, IF tree[b].name = "content" THEN Augmented ELSE Current.iters,
                     FALSE, FALSE, Current.action, <<tree[b].name, "dynamic", "", "">>))

Return ==
  /\ bodies # << >> /\ todo = Idle /\ Current.attrs = {} /\ Current.blocks = {}
  /\ bodies' = Pop(bodies)
  /\ UNCHANGED <<input, files, walker, output, done>>

Expressions(p) ==
  {q \in NodesIn(p) : ~(tree[q].role = "key" /\ Traversal(q) /\ Len(tree[q].path) = 1)}

\* What hclsyntax.Walk enters below p, in order of position: a child of its own
\* (own) or wrapped in the ChildScope that has to be entered first.
Below(p) == {[at |-> q, own |-> tree[q].role # "scoped"] : q \in Expressions(p)}

\* A level of todo is a sequence of groups of siblings, innermost first.
Upcoming == Top(todo) # << >>
Group == Head(Top(todo))
Node == First({e.at : e \in Group})
Own == [at |-> Node, own |-> TRUE] \in Group
AsSeq(S) == IF S = {} THEN << >> ELSE <<S>>
Rest == AsSeq({e \in Group : e.at # Node}) \o Tail(Top(todo))
Later(new) == Append(Pop(todo), AsSeq(new) \o Rest)

\* Enter a ChildScope: the for expression's names join the iterators.
EnterScope ==
  /\ Upcoming /\ ~Own
  /\ stack' = Append(stack, iters)
  /\ iters' = iters \cup tree[Up(Node)].binds
  /\ todo' = Append(Later({}), <<{[at |-> Node, own |-> TRUE]}>>)
  /\ UNCHANGED <<input, files, bodies, context, refs, output, done>>

\* mutant: the saved iterators are dropped, not restored
ExitForgetful ==
  /\ Top(todo) = << >> /\ Len(todo) > 1
  /\ stack' = Pop(stack) /\ todo' = Pop(todo)
  /\ UNCHANGED <<input, files, bodies, iters, context, refs, output, done>>

ExitScope ==
  /\ Top(todo) = << >> /\ Len(todo) > 1
  /\ iters' = Top(stack) /\ stack' = Pop(stack) /\ todo' = Pop(todo)
  /\ UNCHANGED <<input, files, bodies, context, refs, output, done>>

\* Enter a traversal that is left out where it stands
Omit ==
  /\ Upcoming /\ Own /\ Traversal(Node)
  /\ Node \in refs \/ Skipped(Node, context)
  /\ todo' = Later({})
  /\ UNCHANGED <<input, files, bodies, iters, stack, context, refs, output, done>>

\* mutant: locals are only collected for E003
CollectForE003 ==
  /\ Upcoming /\ Own /\ Traversal(Node)
  /\ Node \notin refs /\ ~Skipped(Node, context)
  /\ LET names == LocalNamed(Node, iters)
     IN /\ used' = used \cup Only("E003", names)
        /\ found' = found \cup RootViolation(Node, iters)
                      \cup Only("E003", {<<"E003", Node>> : n \in names \ DOMAIN localKinds})
  /\ seen' = seen \cup {<<Node, iters>>}
  /\ todo' = Later({})
  /\ UNCHANGED <<input, files, bodies, iters, stack, context, refs, done>>

\* Run's callback on a traversal
VisitTraversal ==
  /\ Upcoming /\ Own /\ Traversal(Node)
  /\ Node \notin refs /\ ~Skipped(Node, context)
  /\ LET names == LocalNamed(Node, iters)
     IN /\ used' = used \cup names
        /\ found' = found \cup RootViolation(Node, iters)
                      \cup Only("E003", {<<"E003", Node>> : n \in names \ DOMAIN localKinds})
  /\ seen' = seen \cup {<<Node, iters>>}
  /\ todo' = Later({})
  /\ UNCHANGED <<input, files, bodies, iters, stack, context, refs, done>>

\* Run's callback on any other expression: templates have their parts checked.
VisitOther ==
  /\ Upcoming /\ Own /\ ~Traversal(Node)
  /\ LET parts == IF Is(Node, "template") THEN {q \in NodesIn(Node) : Interpolated(q, iters)} ELSE {}
     IN found' = found \cup Only("E004", {<<"E004", q>> : q \in parts})
  /\ seen' = seen \cup {<<Node, iters>>}
  /\ todo' = Later(Below(Node))
  /\ UNCHANGED <<input, files, bodies, iters, stack, context, refs, used, done>>

\* W001, after the last file
ReportUnused ==
  /\ bodies = << >> /\ files = {} /\ ~done
  /\ found' = found \cup Only("W001", {<<"W001", n>> : n \in DOMAIN localKinds \ used})
  /\ done' = TRUE
  /\ UNCHANGED <<input, files, bodies, walker, seen, used>>

WalkInit ==
  /\ \E m \in Modules : tree = m.tree /\ localKinds = m.localKinds
  /\ checks \in Filters
  /\ files = {p \in DOMAIN tree : Len(p) = 1}
  /\ bodies = << >> /\ todo = Idle /\ iters = {} /\ stack = << >>
  /\ context = "default" /\ refs = {}
  /\ seen = {} /\ used = {} /\ found = {} /\ done = FALSE

WalkNext ==
  \/ OpenFile \/ Attribute
  \/ \E b \in DOMAIN tree : OrdinaryBlock(b) \/ DynamicBlock(b) \/ InDynamic(b)
  \/ Return \/ EnterScope \/ ExitScope \/ Omit \/ VisitTraversal \/ VisitOther
  \/ ReportUnused

WalkSpec == WalkInit /\ [][WalkNext]_walkVars /\ WF_walkVars(WalkNext)

(* What the walk should do, read off the tree **************************** *)

Prefix(p, i) == SubSeq(p, 1, i)

\* The names bound where q joins its parent
Bindings(q) ==
  IF Len(q) < 3 THEN {}
  ELSE IF tree[q].role = "scoped" THEN tree[Up(q)].binds
  ELSE IF Dynamic(Up(q)) /\ \/ Is(q, "attribute") /\ tree[q].name = "labels"
                            \/ Is(q, "block") /\ tree[q].name = "content"
  THEN {IteratorName(Up(q))} ELSE {}

InScope(p) == UNION {Bindings(Prefix(p, i)) : i \in 1..Len(p)}

\* The label counts of the grammar
Labels(type) ==
  CASE type \in {"resource", "data", "ephemeral", "action"} -> 2
    [] type \in {"module", "provisioner", "remote_state_data_source", "variable"} -> 1
    [] OTHER -> 0

\* Block b stands at the top level and has its labels.  Where lookalikes are
\* tolerated, any block directly in a dynamic block passes for such a one.
Rooted(b, tolerant) ==
  \/ Len(b) = 2 /\ tree[b].labels = Labels(tree[b].name)
  \/ tolerant /\ Len(b) > 2 /\ Dynamic(Up(b))

\* The blocks around attribute a, innermost first, have these types and their
\* label counts, and the last of them stands at the top level.
Around(a, types, tolerant) ==
  LET n == Len(types)
      Near(k) == Prefix(a, Len(a) - k)
  IN /\ Len(a) - 2 >= n
     /\ \A k \in 1..n : tree[Near(k)].name \in types[k]
     /\ \A k \in 1..n - 1 : tree[Near(k)].labels = Labels(tree[Near(k)].name)
     /\ Rooted(Near(n), tolerant)

InActionConfig(a, tolerant) ==
  \E i \in 3..Len(a) - 1 :
    /\ tree[Prefix(a, i)].name = "config" /\ tree[Prefix(a, i)].labels = 0
    /\ tree[Prefix(a, i - 1)].name = "action" /\ Rooted(Prefix(a, i - 1), tolerant)

WithLifecycle == {"resource", "data", "ephemeral", "module", "removed"}

\* The lookalikes that are tolerated besides: a variable block of any labels in
\* any place, and a lifecycle block in any place
VariableLike(b) == Len(b) > 1 /\ tree[b].name = "variable"
LifecycleLike(b) ==
  Len(b) > 1 /\ tree[b].name = "lifecycle" /\ (tree[b].labels = 0 \/ Dynamic(Up(b)))

\* The position of attribute a in Terraform's and OpenTofu's grammar, and the
\* one it is taken for where lookalikes are tolerated
Position(a, tolerant) ==
  LET Named(name) == tree[a].name = name
      In(types) == Around(a, types, tolerant)
      Provisioner == In(<<{"provisioner"}, {"resource", "removed"}>>)
      Trigger == In(<<{"action_trigger"}, {"lifecycle"}, {"resource"}>>)
      Encryption == {"encryption"}
      Method ==
        \/ In(<<{"state", "plan"}, Encryption, {"terraform"}>>)
        \/ In(<<{"fallback"}, {"state", "plan"}, Encryption, {"terraform"}>>)
        \/ In(<<{"default", "remote_state_data_source"}, {"remote_state_data_sources"},
                Encryption, {"terraform"}>>)
      Type == IF tolerant THEN VariableLike(Up(a)) ELSE In(<<{"variable"}>>)
      Relative == IF tolerant THEN LifecycleLike(Up(a)) ELSE In(<<{"lifecycle"}, WithLifecycle>>)
  IN IF InActionConfig(a, tolerant) THEN "action_config"
     ELSE IF Named("type") /\ Type THEN "type"
     ELSE IF Named("ignore_changes") /\ Relative THEN "relative"
     ELSE IF \/ Named("providers") /\ In(<<{"module"}>>)
             \/ Named("provider") /\ In(<<WithProvider>>)
             \/ In(<<{"required_providers"}, {"terraform"}>>) THEN "provider"
     ELSE IF Named("on_failure") /\ Provisioner THEN "on_failure"
     ELSE IF Named("when") /\ Provisioner THEN "when"
     ELSE IF Named("events") /\ Trigger THEN "events"
     ELSE IF Named("on_failure") /\ Trigger THEN "action_failure"
     ELSE IF Named("method") /\ Method THEN "method"
     ELSE "default"

AttributeOf(p) ==
  Prefix(p, CHOOSE i \in 1..Len(p) : Is(Prefix(p, i), "attribute"))

\* Declarations are not references: an iterator's name, the edition.
Declaration(a) ==
  \/ Dynamic(Up(a)) /\ tree[a].name = "iterator"
  \/ Around(a, <<{"language"}>>, FALSE) /\ tree[a].name = "edition" /\ Bare(ExprOf(a), {"tofu2024"})

NotAReference(p, tolerant) ==
  LET a == AttributeOf(p)
      anc == [i \in 1..4 |-> IF Len(a) - i >= 2 THEN tree[Prefix(a, Len(a) - i)].name ELSE ""]
  IN \/ Declaration(a)
     \/ \E i \in 1..Len(p) :
          LET q == Prefix(p, i) IN Traversal(q) /\ tree[q].role = "key" /\ Len(tree[q].path) = 1
     \/ /\ Traversal(p)
        /\ \/ Skipped(p, Position(a, tolerant))
           \/ Position(a, tolerant) = "provider" /\ p \in ProviderRefs(ExprOf(a), anc, tree[a].name)

Expected(tolerant) ==
  {p \in DOMAIN tree : ~Is(p, "file") /\ ~Is(p, "block") /\ ~Is(p, "attribute")
                         /\ ~NotAReference(p, tolerant)}
References == {p \in Expected(TRUE) : Traversal(p)}

(* Properties ************************************************************ *)

\* Whatever was pushed and popped on the way, in whatever order a body's
\* attributes come, the callback gets exactly the names its node can see:
\* those of the for expressions and dynamic blocks around it, where they bind.
ScopesLexical == \A v \in seen : v[2] = InScope(v[1])

\* When Run returns, every expression has been visited, except the traversals
\* that are declarations or keywords where they stand (checks.go 360-393): the
\* four ancestors, the flags and the resets the walk carries along amount to
\* the whole path.  Lookalikes are no exception to that, save those that
\* Rooted, VariableLike and LifecycleLike say are taken for the real thing.
EverythingVisited == done => {v[1] : v \in seen} = Expected(TRUE)

\* What scopeTraversalBlockType's comment says of lookalikes (checks.go
\* 467-470): whatever the grammar does not permit where it stands, or with the
\* labels it has, leaves its traversals under ordinary validation.
LookalikesOrdinary == done => Expected(FALSE) \subseteq {v[1] : v \in seen}

\* The violations are those the tree calls for, restricted to --checks: what a
\* code needs is collected even when other codes are off, a local is unused iff
\* no reference that is not shadowed names it, a shadowed root is no violation.
Violations ==
  (UNION {RootViolation(p, InScope(p)) : p \in References})
  \cup (UNION {Only("E003", {<<"E003", p>> : n \in LocalNamed(p, InScope(p)) \ DOMAIN localKinds}) :
                 p \in References})
  \cup Only("E004", {<<"E004", q>> : q \in {q \in DOMAIN tree :
         /\ Len(q) > 1 /\ Is(Up(q), "template") /\ Up(q) \in Expected(TRUE)
         /\ Interpolated(q, InScope(q))}})
  \cup Only("W001", {<<"W001", n>> : n \in
         DOMAIN localKinds \ UNION {LocalNamed(p, InScope(p)) : p \in References}})

DiagnosticsExact == done => found = Violations
=============================================================================
