-------------------------- MODULE ScopeWalkProofs --------------------------
(* The walk, for every module the parser can produce.  ScopesLexical first:*)
(* a pending node is paired with the iterators the walk will have when it  *)
(* gets there, those of its level of the scope stack.  Then what the walk  *)
(* visits and reports: nothing is missed and nothing is added.             *)
EXTENDS ScopeWalk, WellFoundedInduction, SequenceTheorems, TLAPS

Scopes == {InScope(p) : p \in DOMAIN tree}
Entry == [at : DOMAIN tree, own : BOOLEAN]

\* The iterators of level k: saved on the stack, but for the innermost
ScopeOf(k) == IF k = Len(todo) THEN iters ELSE stack[k]

EntryOK(e, names) ==
  /\ tree[e.at].kind \notin Structure
  /\ IF e.own THEN InScope(e.at) = names
     ELSE tree[e.at].role = "scoped" /\ InScope(Up(e.at)) = names

WalkType ==
  /\ todo \in Seq(Seq(SUBSET Entry)) /\ stack \in Seq(Scopes)
  /\ Len(todo) = Len(stack) + 1

GroupsOK(level, names) ==
  \A g \in 1..Len(level) : level[g] # {} /\ \A e \in level[g] : EntryOK(e, names)

WalkInv == \A k \in 1..Len(todo) : GroupsOK(todo[k], ScopeOf(k))

\* A call's iterators are those in scope at its body.
BodyOK(b) ==
  /\ DOMAIN b = {"at", "iters", "dynamic", "language", "action", "anc", "attrs", "blocks"}
  /\ b.at \in DOMAIN tree
  /\ tree[b.at].kind \in {"file", "block"}
  /\ b.dynamic <=> Dynamic(b.at)
  /\ b.iters = InScope(b.at)
  /\ b.attrs \subseteq {q \in NodesIn(b.at) : Is(q, "attribute")}
  /\ b.blocks \subseteq {q \in NodesIn(b.at) : Is(q, "block")}

IsSeq(s) == \E S : s \in Seq(S)
BodiesOK(s) == IsSeq(s) /\ \A i \in 1..Len(s) : BodyOK(s[i])
BodiesInv == BodiesOK(bodies)

FilesInv == files \subseteq {p \in DOMAIN tree : Len(p) = 1}

IInv ==
  /\ WellFormed(tree) /\ FilesInv
  /\ BodiesInv /\ WalkType /\ WalkInv /\ ScopesLexical

-----------------------------------------------------------------------------
(* Nodes and scopes *)

\* A node sees what its parent sees, and what is bound where it joins it.
LEMMA ScopeStep ==
  ASSUME NEW q \in Seq(Nat), q # << >>
  PROVE  /\ Len(q) > 1 => InScope(q) = InScope(Up(q)) \cup Bindings(q)
         /\ Len(q) = 1 => InScope(q) = {}
<1>1. Len(q) \in Nat \ {0} BY EmptySeq
<1>2. ASSUME Len(q) = 1 PROVE InScope(q) = {}
  <2>1. \A i \in 1..1 : Len(Prefix(q, i)) = 1
    BY <1>2, SubSeqProperties DEF Prefix
  <2>2. \A r : Len(r) = 1 => Bindings(r) = {}
    BY DEF Bindings
  <2>3. QED BY <1>2, <2>1, <2>2 DEF InScope
<1>3. ASSUME Len(q) > 1 PROVE InScope(q) = InScope(Up(q)) \cup Bindings(q)
  <2> DEFINE u == Up(q)
             n == Len(q)
  <2>1. u \in Seq(Nat) /\ Len(u) = n - 1
    BY <1>1, <1>3, SubSeqProperties DEF Up
  <2>2. \A i \in 1..n - 1 : Prefix(u, i) = Prefix(q, i)
    <3> TAKE i \in 1..n - 1
    <3>1. SubSeq(SubSeq(q, 1, n - 1), 1, i) = SubSeq(q, 1, i)
      BY <1>1, <1>3, SubSeqOfSubSeq
    <3>2. QED BY <3>1 DEF Prefix, Up
  <2>3. Prefix(q, n) = q
    BY SubSeqFull DEF Prefix
  <2>4. InScope(u) = UNION {Bindings(Prefix(q, i)) : i \in 1..n - 1}
    BY <2>1, <2>2 DEF InScope
  <2>5. InScope(q) = UNION {Bindings(Prefix(q, i)) : i \in 1..n}
    BY DEF InScope
  <2>6. 1..n = (1..n - 1) \cup {n} /\ n \in Nat
    BY <1>1, <1>3
  <2> HIDE DEF u, n
  <2>7. InScope(q) = InScope(u) \cup Bindings(Prefix(q, n))
    BY <2>4, <2>5, <2>6
  <2>8. QED BY <2>7, <2>3 DEF u, n
<1>4. QED BY <1>1, <1>2, <1>3

LEMMA FirstIn ==
  ASSUME NEW S, S # {}, S \subseteq Seq(Nat), << >> \notin S
  PROVE  First(S) \in S
<1> DEFINE Tops == {Top(p) : p \in S}
<1>1. \A p \in S : Top(p) \in Nat
  BY EmptySeq, ElementOfSeq DEF Top
<1>2. Tops \subseteq Nat /\ Tops # {} BY <1>1
<1>3. PICK m \in Tops : \A n \in Tops : <<n, m>> \notin OpToRel(<, Nat)
  BY <1>2, NatLessThanWellFounded, WFMin, Zenon
<1>4. \A n \in Tops : m <= n
  <2> HIDE DEF Tops
  <2>1. SUFFICES ASSUME NEW n \in Tops PROVE ~(n < m)
    BY <1>2
  <2>2. <<n, m>> \in Nat \X Nat
    BY <1>2
  <2>3. <<n, m>>[1] = n /\ <<n, m>>[2] = m
    OBVIOUS
  <2>4. QED
    BY <1>3, <2>2, <2>3, Zenon DEF OpToRel
<1>5. PICK p \in S : Top(p) = m BY <1>3
<1>6. \A q \in S : Top(p) <= Top(q) BY <1>4, <1>5
<1>7. QED BY <1>5, <1>6 DEF First

-----------------------------------------------------------------------------
(* Calls *)

LEMMA PopProperties ==
  ASSUME NEW S, NEW s \in Seq(S), s # << >>
  PROVE  /\ Len(s) \in Nat \ {0} /\ Top(s) \in S
         /\ Pop(s) \in Seq(S) /\ Len(Pop(s)) = Len(s) - 1
         /\ \A i \in 1..Len(s) - 1 : Pop(s)[i] = s[i]
<1>1. Len(s) \in Nat \ {0} BY EmptySeq
<1>2. \A i \in 1..Len(s) : s[i] \in S BY ElementOfSeq
<1> DEFINE n == Len(s) - 1
<1>3. n \in Nat /\ \A i \in 1..n : s[i] \in S BY <1>1, <1>2
<1>n. /\ SubSeq(s, 1, n) \in Seq(S)
      /\ Len(SubSeq(s, 1, n)) = n
      /\ \A i \in 1..n : SubSeq(s, 1, n)[i] = s[i]
  <2> HIDE DEF n
  <2>1. QED BY <1>3, SubSeqProperties
<1>4. s[Len(s)] \in S BY <1>1, <1>2
<1>5. QED BY <1>1, <1>n, <1>4 DEF Pop, Top

LEMMA CallStack ==
  ASSUME NEW s, BodiesOK(s)
  PROVE  /\ s # << >> => BodyOK(Top(s)) /\ BodiesOK(Pop(s))
         /\ \A c : BodyOK(c) => BodiesOK(Append(s, c))
<1>1. PICK S : s \in Seq(S) BY DEF BodiesOK, IsSeq
<1>2. Len(s) \in Nat BY <1>1
<1>3. ASSUME s # << >> PROVE BodyOK(Top(s)) /\ BodiesOK(Pop(s))
  <2>1. Len(s) \in 1..Len(s) BY <1>1, <1>3, EmptySeq
  <2>2. /\ Pop(s) \in Seq(S) /\ Len(Pop(s)) = Len(s) - 1
        /\ \A i \in 1..Len(s) - 1 : Pop(s)[i] = s[i]
    BY <1>1, <1>3, PopProperties
  <2>3. QED BY <1>2, <2>1, <2>2 DEF BodiesOK, IsSeq, Top
<1>4. ASSUME NEW c, BodyOK(c) PROVE BodiesOK(Append(s, c))
  <2>1. s \in Seq(S \cup {c})
    <3>1. \A i \in 1..Len(s) : s[i] \in S \cup {c} BY <1>1, ElementOfSeq
    <3>2. s = [i \in 1..Len(s) |-> s[i]] BY <1>1
    <3>3. QED BY <1>2, <3>1, <3>2
  <2>2. /\ Append(s, c) \in Seq(S \cup {c})
        /\ Len(Append(s, c)) = Len(s) + 1
        /\ \A i \in 1..Len(s) : Append(s, c)[i] = s[i]
        /\ Append(s, c)[Len(s) + 1] = c
    BY <2>1, AppendProperties
  <2>3. QED BY <1>2, <1>4, <2>2 DEF BodiesOK, IsSeq
<1>5. QED BY <1>3, <1>4

\* Where a child of a body sees more than the body does
LEMMA ChildScope ==
  ASSUME WellFormed(tree), NEW b \in DOMAIN tree, tree[b].kind \in {"file", "block"},
         NEW q \in NodesIn(b), Is(q, "attribute") \/ Is(q, "block")
  PROVE  /\ q \in DOMAIN tree
         /\ ~Dynamic(b) => InScope(q) = InScope(b)
         /\ Dynamic(b) => InScope(q) = InScope(b) \cup
              IF tree[q].name = IF Is(q, "attribute") THEN "labels" ELSE "content"
              THEN {IteratorName(b)} ELSE {}
<1>1. /\ q \in DOMAIN tree /\ Up(q) = b /\ Len(q) = Len(b) + 1
      /\ q \in Seq(Nat) /\ b \in Seq(Nat) /\ b # << >>
  BY DEF NodesIn, WellFormed
<1>2. Len(q) > 1 BY <1>1, EmptySeq
<1>3. InScope(q) = InScope(b) \cup Bindings(q) BY <1>1, <1>2, ScopeStep, EmptySeq
<1>4. tree[q].role # "scoped" BY <1>1 DEF WellFormed
<1>5. ASSUME Dynamic(b) PROVE Len(q) > 2
  <2>1. Len(b) = 1 <=> tree[b].kind = "file" BY DEF WellFormed
  <2>2. Len(b) # 1 BY <1>5, <2>1 DEF Dynamic, DynamicIn
  <2>3. Len(b) \in Nat \ {0} BY <1>1, EmptySeq
  <2>4. \A k \in Nat \ {0} : k # 1 => k + 1 > 2 OBVIOUS
  <2>5. QED BY <1>1, <2>2, <2>3, <2>4
<1>6. QED BY <1>1, <1>3, <1>4, <1>5 DEF Bindings, Is

\* An attribute's expression sees what the attribute sees.
LEMMA ValueScope ==
  ASSUME WellFormed(tree), NEW a \in DOMAIN tree, Is(a, "attribute")
  PROVE  /\ ExprOf(a) \in DOMAIN tree /\ tree[ExprOf(a)].kind \notin Structure
         /\ InScope(ExprOf(a)) = InScope(a)
<1>1. /\ a \in Seq(Nat) /\ a # << >> /\ ExprOf(a) \in DOMAIN tree /\ ExprOf(a) \in Seq(Nat)
  BY DEF WellFormed, Is, ExprOf
<1>2. Len(a) \in Nat \ {0} /\ Len(ExprOf(a)) = Len(a) + 1
  BY <1>1, EmptySeq, AppendProperties DEF ExprOf
<1>3. Up(ExprOf(a)) = a
  BY <1>1, <1>2, HeadTailAppend, SubSeqProperties, AppendProperties, SeqEqual DEF Up, ExprOf
<1>4. tree[ExprOf(a)].kind \notin Structure /\ tree[ExprOf(a)].role # "scoped"
  BY <1>1, <1>2, <1>3 DEF WellFormed, Is
<1>5. Bindings(ExprOf(a)) = {}
  BY <1>3, <1>4 DEF Bindings, Dynamic, DynamicIn, Is
<1>6. InScope(ExprOf(a)) = InScope(Up(ExprOf(a))) \cup Bindings(ExprOf(a))
  BY <1>1, <1>2, ScopeStep, EmptySeq
<1>7. QED BY <1>1, <1>3, <1>4, <1>5, <1>6

-----------------------------------------------------------------------------
(* The steps on bodies *)

LEMMA SameTree ==
  ASSUME tree' = tree
  PROVE  /\ \A p : InScope(p)' = InScope(p)
         /\ \A b : BodyOK(b)' = BodyOK(b)
         /\ \A e, n : EntryOK(e, n)' = EntryOK(e, n)
         /\ Scopes' = Scopes /\ Entry' = Entry
<1>1. \A p : InScope(p)' = InScope(p)
  BY DEF InScope, Bindings, IteratorName, Dynamic, NodesIn, First, Traversal, Is, ExprOf, Root
<1>2. \A b : BodyOK(b)' = BodyOK(b)
  BY <1>1 DEF BodyOK, Dynamic, NodesIn, Is
<1>3. \A e, n : EntryOK(e, n)' = EntryOK(e, n)
  BY <1>1 DEF EntryOK
<1>4. QED BY <1>1, <1>2, <1>3 DEF Scopes, Entry

\* A step that leaves the walker alone
LEMMA BodyStep ==
  ASSUME IInv, tree' = tree, UNCHANGED <<todo, iters, stack, seen>>,
         files' \subseteq files, BodiesOK(bodies')
  PROVE  IInv'
<1>1. WellFormed(tree') /\ FilesInv' BY DEF IInv, FilesInv
<1>2. BodiesInv' BY SameTree DEF BodiesInv, BodiesOK
<1>3. WalkType' BY SameTree DEF IInv, WalkType
<1>4. WalkInv'
  BY SameTree DEF IInv, WalkInv, GroupsOK, ScopeOf
<1>5. ScopesLexical' BY SameTree DEF IInv, ScopesLexical
<1>6. QED BY <1>1, <1>2, <1>3, <1>4, <1>5 DEF IInv

LEMMA OpenFileStep == IInv /\ OpenFile => IInv'
<1> SUFFICES ASSUME IInv, OpenFile PROVE IInv'
  OBVIOUS
<1> DEFINE f == First(files)
<1>1. f \in files
  <2>1. files \subseteq Seq(Nat) /\ << >> \notin files
    BY DEF IInv, FilesInv, WellFormed
  <2>2. QED BY <2>1, FirstIn DEF OpenFile
<1>2. f \in DOMAIN tree /\ tree[f].kind = "file" /\ InScope(f) = {}
  <2>1. f \in DOMAIN tree /\ Len(f) = 1 BY <1>1 DEF IInv, FilesInv
  <2>2. f \in Seq(Nat) /\ f # << >> /\ tree[f].kind = "file" BY <2>1 DEF IInv, WellFormed
  <2>3. QED BY <2>1, <2>2, ScopeStep
<1>3. BodyOK(Body(f, {}, FALSE, FALSE, FALSE, NoAncestry))
  BY <1>2 DEF BodyOK, Body, Dynamic, DynamicIn
<1>4. BodiesOK(bodies')
  <2>1. BodiesOK(<< >>) BY EmptySeq DEF BodiesOK, IsSeq
  <2>2. bodies' = Append(<< >>, Body(f, {}, FALSE, FALSE, FALSE, NoAncestry)) BY DEF OpenFile
  <2>3. QED BY <2>1, <2>2, <1>3, CallStack
<1>5. QED BY <1>4, BodyStep DEF OpenFile, input, walker, output

LEMMA CurrentOK ==
  ASSUME IInv, bodies # << >>
  PROVE  /\ BodyOK(Current)
         /\ \A c : BodyOK(c) => BodiesOK(WithCurrent(c))
BY CallStack DEF IInv, BodiesInv, Current, WithCurrent

LEMMA Narrowed ==
  ASSUME IInv, bodies # << >>, NEW S
  PROVE  /\ BodiesOK(WithCurrent([Current EXCEPT !.attrs = @ \ S]))
         /\ BodiesOK(WithCurrent([Current EXCEPT !.blocks = @ \ S]))
<1>1. BodyOK(Current) BY CurrentOK
<1>2. BodyOK([Current EXCEPT !.attrs = @ \ S]) BY <1>1 DEF BodyOK
<1>3. BodyOK([Current EXCEPT !.blocks = @ \ S]) BY <1>1 DEF BodyOK
<1>4. QED BY <1>2, <1>3, CurrentOK

LEMMA SkipAttributeStep ==
  ASSUME IInv, bodies # << >>, NEW a, SkipAttribute(a)
  PROVE  IInv'
BY Narrowed, BodyStep DEF SkipAttribute, input, walker, output

LEMMA NextBlockOK ==
  ASSUME IInv, NEW b, NextBlock(b)
  PROVE  /\ BodyOK(Current)
         /\ b \in NodesIn(Current.at) /\ Is(b, "block") /\ b \in DOMAIN tree
         /\ b \in Current.blocks
<1>1. BodyOK(Current) BY CurrentOK DEF NextBlock
<1>2. Current.blocks \subseteq DOMAIN tree BY <1>1 DEF BodyOK, NodesIn
<1>3. Current.blocks \subseteq Seq(Nat) /\ << >> \notin Current.blocks
  BY <1>2 DEF IInv, WellFormed
<1>4. b \in Current.blocks BY <1>3, FirstIn DEF NextBlock
<1>5. QED BY <1>1, <1>2, <1>4 DEF BodyOK

LEMMA DescendStep ==
  ASSUME IInv, NEW b, NextBlock(b), NEW c, BodyOK(c), Descend(b, c)
  PROVE  IInv'
<1>1. BodiesOK(WithCurrent([Current EXCEPT !.blocks = @ \ {b}])) BY Narrowed DEF NextBlock
<1>2. BodiesOK(bodies') BY <1>1, CallStack DEF Descend
<1>3. QED BY <1>2, BodyStep DEF Descend, input, walker, output

LEMMA BlockStep ==
  ASSUME IInv, NEW b, OrdinaryBlock(b) \/ DynamicBlock(b) \/ InDynamic(b)
  PROVE  IInv'
<1>1. NextBlock(b) BY DEF OrdinaryBlock, DynamicBlock, InDynamic
<1>2. /\ BodyOK(Current) /\ b \in DOMAIN tree /\ tree[b].kind = "block"
      /\ ~Dynamic(Current.at) => InScope(b) = Current.iters
      /\ Dynamic(Current.at) => InScope(b) =
           IF tree[b].name = "content" THEN Augmented ELSE Current.iters
      /\ Dynamic(Current.at) => ~Dynamic(b)
  <2>1. /\ BodyOK(Current) /\ b \in NodesIn(Current.at) /\ Is(b, "block") /\ b \in DOMAIN tree
    BY <1>1, NextBlockOK
  <2>2. WellFormed(tree) /\ ~Is(b, "attribute") BY <2>1 DEF IInv, Is
  <2>3. /\ ~Dynamic(Current.at) => InScope(b) = InScope(Current.at)
        /\ Dynamic(Current.at) => InScope(b) = InScope(Current.at) \cup
             IF tree[b].name = "content" THEN {IteratorName(Current.at)} ELSE {}
    BY <2>1, <2>2, ChildScope DEF BodyOK
  <2>4. Dynamic(Current.at) => ~Dynamic(b)
    <3>1. Up(b) = Current.at /\ Len(b) = Len(Current.at) + 1 BY <2>1 DEF NodesIn
    <3>2. Current.at \in Seq(Nat) /\ Current.at # << >> BY <2>1 DEF BodyOK, IInv, WellFormed
    <3>3. Len(b) > 1 BY <3>1, <3>2, EmptySeq
    <3>4. QED BY <2>1, <3>1, <3>3 DEF IInv, WellFormed, Dynamic
  <2>5. QED BY <2>1, <2>3, <2>4 DEF BodyOK, Is, Augmented
<1>3. CASE OrdinaryBlock(b)
  <2> DEFINE topLevel == Len(Current.at) = 1
             c == Body(b, Current.iters, FALSE,
                    topLevel /\ tree[b].name = "language" /\ tree[b].labels = 0,
                    \/ Current.action
                    \/ tree[b].name = "config" /\ tree[b].labels = 0 /\ Current.anc[1] = "action",
                    <<TrackedType(b, topLevel)>> \o Pop(Current.anc))
  <2>1. Descend(b, c) /\ ~Current.dynamic /\ ~Dynamic(b) BY <1>3 DEF OrdinaryBlock
  <2>2. BodyOK(c) BY <1>2, <2>1 DEF BodyOK, Body
  <2>3. QED BY <1>1, <2>1, <2>2, DescendStep
<1>4. CASE DynamicBlock(b)
  <2> DEFINE c == Body(b, Current.iters, TRUE, FALSE, Current.action, NoAncestry)
  <2>1. Descend(b, c) /\ ~Current.dynamic /\ Dynamic(b) BY <1>4 DEF DynamicBlock
  <2>2. BodyOK(c) BY <1>2, <2>1 DEF BodyOK, Body
  <2>3. QED BY <1>1, <2>1, <2>2, DescendStep
<1>5. CASE InDynamic(b)
  <2> DEFINE c == Body(b, IF tree[b].name = "content" THEN Augmented ELSE Current.iters,
                       FALSE, FALSE, Current.action, <<tree[b].name, "dynamic", "", "">>)
  <2>1. Descend(b, c) /\ Current.dynamic BY <1>5 DEF InDynamic
  <2>2. BodyOK(c) BY <1>2, <2>1 DEF BodyOK, Body
  <2>3. QED BY <1>1, <2>1, <2>2, DescendStep
<1>6. QED BY <1>3, <1>4, <1>5

LEMMA ReturnStep == IInv /\ Return => IInv'
BY CallStack, BodyStep DEF Return, IInv, BodiesInv, input, walker, output

-----------------------------------------------------------------------------
(* The steps of the walker *)

\* A step that leaves the bodies alone
LEMMA WalkStep ==
  ASSUME IInv, tree' = tree, UNCHANGED <<files, bodies>>,
         WalkType', WalkInv', ScopesLexical'
  PROVE  IInv'
<1>1. WellFormed(tree') /\ FilesInv' BY DEF IInv, FilesInv
<1>2. BodiesInv' BY SameTree DEF IInv, BodiesInv, BodiesOK
<1>3. QED BY <1>1, <1>2 DEF IInv

LEMMA StartWalkStep ==
  ASSUME IInv, bodies # << >>, NEW a \in Current.attrs, NEW names, NEW c, NEW r,
         StartWalk(a, names, c, r), names = InScope(a)
  PROVE  IInv'
<1>1. a \in DOMAIN tree /\ Is(a, "attribute")
  BY CurrentOK DEF BodyOK, NodesIn
<1>2. /\ ExprOf(a) \in DOMAIN tree /\ tree[ExprOf(a)].kind \notin Structure
      /\ InScope(ExprOf(a)) = names
  BY <1>1, ValueScope DEF IInv
<1> DEFINE group == {[at |-> ExprOf(a), own |-> TRUE]}
<1>3. /\ todo' = << <<group>> >> /\ stack' = << >> /\ iters' = names
      /\ tree' = tree /\ files' = files /\ seen' = seen
  BY DEF StartWalk, input, output
<1>4. WellFormed(tree') /\ FilesInv' BY <1>3 DEF IInv, FilesInv
<1>5. BodiesInv'
  BY <1>3, Narrowed, SameTree DEF StartWalk, BodiesInv, BodiesOK
<1>6. WalkType'
  <2>1. group \in SUBSET Entry BY <1>2 DEF Entry
  <2>2. << <<group>> >> \in Seq(Seq(SUBSET Entry)) /\ << >> \in Seq(Scopes)
    BY <2>1, EmptySeq
  <2>3. QED BY <1>3, <2>2, SameTree DEF WalkType
<1>7. WalkInv'
  <2>1. group # {} /\ \A e \in group : EntryOK(e, names)
    BY <1>2 DEF EntryOK
  <2>2. \A e \in group : EntryOK(e, names)' BY <1>3, <2>1, SameTree
  <2> HIDE DEF group
  <2>3. Len(<<group>>) = 1 /\ <<group>>[1] = group OBVIOUS
  <2>4. GroupsOK(<<group>>, names)' BY <2>1, <2>2, <2>3 DEF GroupsOK
  <2>5. Len(todo') = 1 /\ todo'[1] = <<group>> BY <1>3
  <2>6. \A k \in 1..Len(todo') : k = 1 BY <2>5
  <2>7. QED BY <1>3, <2>4, <2>5, <2>6 DEF WalkInv, ScopeOf
<1>8. ScopesLexical' BY <1>3, SameTree DEF IInv, ScopesLexical
<1>9. QED BY <1>4, <1>5, <1>6, <1>7, <1>8 DEF IInv

LEMMA AttributeStep == IInv /\ Attribute => IInv'
<1> SUFFICES ASSUME IInv, Attribute PROVE IInv'
  OBVIOUS
<1>1. PICK a \in Current.attrs : SkipAttribute(a) \/ WalkAttribute(a) \/ WalkDynamicAttribute(a)
  BY DEF Attribute
<1>2. bodies # << >> BY DEF Attribute
<1>3. /\ BodyOK(Current)
      /\ ~Current.dynamic => InScope(a) = Current.iters
      /\ Current.dynamic => InScope(a) = IF tree[a].name = "labels" THEN Augmented ELSE Current.iters
  <2>1. BodyOK(Current) BY <1>2, CurrentOK
  <2>2. a \in NodesIn(Current.at) /\ Is(a, "attribute") BY <2>1 DEF BodyOK
  <2>3. /\ ~Dynamic(Current.at) => InScope(a) = InScope(Current.at)
        /\ Dynamic(Current.at) => InScope(a) = InScope(Current.at) \cup
             IF tree[a].name = "labels" THEN {IteratorName(Current.at)} ELSE {}
    BY <2>1, <2>2, ChildScope DEF BodyOK, IInv
  <2>4. QED BY <2>1, <2>3 DEF BodyOK, Augmented
<1>4. CASE SkipAttribute(a) BY <1>2, <1>4, SkipAttributeStep
<1>5. CASE WalkAttribute(a)
  <2>1. \E c, r : StartWalk(a, Current.iters, c, r) /\ ~Current.dynamic
    BY <1>5 DEF WalkAttribute
  <2>2. QED BY <1>2, <1>3, <2>1, StartWalkStep
<1>6. CASE WalkDynamicAttribute(a)
  <2>1. \E c, r : /\ StartWalk(a, IF tree[a].name = "labels" THEN Augmented ELSE Current.iters, c, r)
                  /\ Current.dynamic
    BY <1>6 DEF WalkDynamicAttribute
  <2>2. QED BY <1>2, <1>3, <2>1, StartWalkStep
<1>7. QED BY <1>1, <1>4, <1>5, <1>6

\* What the innermost level holds
LEMMA LevelOK ==
  ASSUME IInv, Upcoming
  PROVE  /\ Top(todo) \in Seq(SUBSET Entry) /\ Top(todo) # << >>
         /\ GroupsOK(Top(todo), iters)
         /\ Group \in SUBSET Entry /\ Group # {} /\ \A e \in Group : EntryOK(e, iters)
         /\ Tail(Top(todo)) \in Seq(SUBSET Entry) /\ GroupsOK(Tail(Top(todo)), iters)
<1> DEFINE level == Top(todo)
<1>1. todo \in Seq(Seq(SUBSET Entry)) /\ todo # << >> /\ Len(todo) \in Nat \ {0}
  <2>1. todo \in Seq(Seq(SUBSET Entry)) /\ Len(todo) = Len(stack) + 1 /\ Len(stack) \in Nat
    BY DEF IInv, WalkType
  <2>2. QED BY <2>1
<1>2. level \in Seq(SUBSET Entry) /\ level # << >>
  BY <1>1, PopProperties DEF Upcoming
<1>3. GroupsOK(level, iters)
  BY <1>1 DEF IInv, WalkInv, ScopeOf, Top
<1>4. /\ Len(level) \in Nat \ {0} /\ Head(level) = level[1] /\ level[1] \in SUBSET Entry
      /\ Tail(level) \in Seq(SUBSET Entry) /\ Len(Tail(level)) = Len(level) - 1
      /\ \A i \in 1..Len(Tail(level)) : Tail(level)[i] = level[i + 1]
  BY <1>2, HeadTailProperties, EmptySeq, ElementOfSeq
<1> HIDE DEF level
<1>5. 1 \in 1..Len(level) /\ \A i \in 1..Len(Tail(level)) : i + 1 \in 1..Len(level)
  BY <1>4
<1>6. GroupsOK(Tail(level), iters) BY <1>3, <1>4, <1>5 DEF GroupsOK
<1>7. level[1] # {} /\ \A e \in level[1] : EntryOK(e, iters) BY <1>3, <1>5 DEF GroupsOK
<1>8. QED BY <1>2, <1>3, <1>4, <1>6, <1>7 DEF level, Group

LEMMA NodeOK ==
  ASSUME IInv, Upcoming
  PROVE  /\ Node \in DOMAIN tree /\ tree[Node].kind \notin Structure
         /\ Own => InScope(Node) = iters
         /\ ~Own => tree[Node].role = "scoped" /\ InScope(Up(Node)) = iters
<1> DEFINE ats == {e.at : e \in Group}
<1>1. ats \subseteq DOMAIN tree /\ ats # {} BY LevelOK DEF Entry
<1>2. ats \subseteq Seq(Nat) /\ << >> \notin ats BY <1>1 DEF IInv, WellFormed
<1>3. Node \in ats BY <1>1, <1>2, FirstIn DEF Node
<1>4. PICK e \in Group : e.at = Node BY <1>3
<1>5. e = [at |-> Node, own |-> e.own] /\ e.own \in BOOLEAN
  BY <1>4, LevelOK DEF Entry
<1>6. EntryOK(e, iters) BY LevelOK
<1>7. ASSUME Own PROVE InScope(Node) = iters
  <2>1. EntryOK([at |-> Node, own |-> TRUE], iters) BY <1>7, LevelOK DEF Own
  <2>2. QED BY <2>1 DEF EntryOK
<1>8. ASSUME ~Own PROVE ~e.own BY <1>5, <1>8 DEF Own
<1>9. QED BY <1>1, <1>3, <1>4, <1>6, <1>7, <1>8 DEF EntryOK

LEMMA GroupsJoin ==
  ASSUME NEW s \in Seq(SUBSET Entry), NEW t \in Seq(SUBSET Entry), NEW names,
         GroupsOK(s, names), GroupsOK(t, names)
  PROVE  s \o t \in Seq(SUBSET Entry) /\ GroupsOK(s \o t, names)
<1>1. /\ s \o t \in Seq(SUBSET Entry) /\ Len(s \o t) = Len(s) + Len(t)
      /\ \A i \in 1..Len(s) + Len(t) : (s \o t)[i] = IF i <= Len(s) THEN s[i] ELSE t[i - Len(s)]
  BY ConcatProperties
<1>2. Len(s) \in Nat /\ Len(t) \in Nat OBVIOUS
<1>3. \A i \in 1..Len(s) + Len(t) : IF i <= Len(s) THEN i \in 1..Len(s) ELSE i - Len(s) \in 1..Len(t)
  BY <1>2
<1>4. QED BY <1>1, <1>2, <1>3 DEF GroupsOK

LEMMA AsSeqOK ==
  ASSUME NEW S \in SUBSET Entry, NEW names, \A e \in S : EntryOK(e, names)
  PROVE  AsSeq(S) \in Seq(SUBSET Entry) /\ GroupsOK(AsSeq(S), names)
<1>1. CASE S = {} BY <1>1, EmptySeq DEF AsSeq, GroupsOK
<1>2. CASE S # {}
  <2> DEFINE level == <<S>>
  <2>1. Len(level) = 1 /\ level[1] = S /\ level \in Seq(SUBSET Entry) OBVIOUS
  <2>2. AsSeq(S) = level BY <1>2 DEF AsSeq
  <2> HIDE DEF level
  <2>3. \A g \in 1..Len(level) : level[g] = S BY <2>1
  <2>4. GroupsOK(level, names) BY <1>2, <2>3 DEF GroupsOK
  <2>5. QED BY <2>1, <2>2, <2>4
<1>3. QED BY <1>1, <1>2

\* The innermost level once its next node has been entered
LEMMA LaterOK ==
  ASSUME IInv, Upcoming, NEW new \in SUBSET Entry, \A e \in new : EntryOK(e, iters)
  PROVE  /\ Later(new) \in Seq(Seq(SUBSET Entry)) /\ Len(Later(new)) = Len(todo)
         /\ \A k \in 1..Len(todo) - 1 : Later(new)[k] = todo[k]
         /\ GroupsOK(Later(new)[Len(todo)], iters)
<1> DEFINE level == AsSeq(new) \o Rest
<1>1. /\ todo \in Seq(Seq(SUBSET Entry)) /\ todo # << >>
  <2>1. todo \in Seq(Seq(SUBSET Entry)) /\ Len(todo) = Len(stack) + 1 /\ Len(stack) \in Nat
    BY DEF IInv, WalkType
  <2>2. QED BY <2>1
<1>2. level \in Seq(SUBSET Entry) /\ GroupsOK(level, iters)
  <2> DEFINE others == {e \in Group : e.at # Node}
  <2>1. others \in SUBSET Entry /\ \A e \in others : EntryOK(e, iters) BY LevelOK
  <2>2. Rest \in Seq(SUBSET Entry) /\ GroupsOK(Rest, iters)
    BY <2>1, LevelOK, AsSeqOK, GroupsJoin DEF Rest
  <2>3. QED BY <2>2, AsSeqOK, GroupsJoin
<1>3. /\ Pop(todo) \in Seq(Seq(SUBSET Entry)) /\ Len(Pop(todo)) = Len(todo) - 1
      /\ Len(todo) \in Nat \ {0}
      /\ \A k \in 1..Len(todo) - 1 : Pop(todo)[k] = todo[k]
  BY <1>1, PopProperties
<1> HIDE DEF level
<1>4. /\ Append(Pop(todo), level) \in Seq(Seq(SUBSET Entry))
      /\ Len(Append(Pop(todo), level)) = Len(Pop(todo)) + 1
      /\ \A k \in 1..Len(Pop(todo)) : Append(Pop(todo), level)[k] = Pop(todo)[k]
      /\ Append(Pop(todo), level)[Len(Pop(todo)) + 1] = level
  BY <1>2, <1>3, AppendProperties
<1>5. Later(new) = Append(Pop(todo), level) BY DEF Later, level
<1>6. QED BY <1>2, <1>3, <1>4, <1>5

\* What an expression puts before the walk
LEMMA BelowOK ==
  ASSUME IInv, Upcoming, Own
  PROVE  Below(Node) \in SUBSET Entry /\ \A e \in Below(Node) : EntryOK(e, iters)
<1>1. /\ Node \in DOMAIN tree /\ tree[Node].kind \notin Structure /\ InScope(Node) = iters
      /\ WellFormed(tree)
  BY NodeOK DEF IInv
<1>2. Node \in Seq(Nat) /\ Node # << >> BY <1>1 DEF WellFormed
<1>3. SUFFICES ASSUME NEW q \in NodesIn(Node)
               PROVE  LET e == [at |-> q, own |-> tree[q].role # "scoped"]
                      IN e \in Entry /\ EntryOK(e, iters)
  BY DEF Below, Expressions
<1>4. q \in DOMAIN tree /\ Up(q) = Node /\ Len(q) = Len(Node) + 1 BY DEF NodesIn
<1>5. q \in Seq(Nat) /\ q # << >> /\ Len(q) > 1
  <2>1. Len(Node) \in Nat \ {0} BY <1>2, EmptySeq
  <2>2. QED BY <1>1, <1>4, <2>1 DEF WellFormed
<1>6. tree[q].kind \notin Structure BY <1>1, <1>4, <1>5 DEF WellFormed, Structure
<1>7. ASSUME tree[q].role # "scoped" PROVE InScope(q) = iters
  <2>1. InScope(q) = InScope(Node) \cup Bindings(q) BY <1>4, <1>5, ScopeStep
  <2>2. Bindings(q) = {} BY <1>1, <1>4, <1>7 DEF Bindings, Dynamic, DynamicIn, Structure
  <2>3. QED BY <1>1, <2>1, <2>2
<1>8. QED BY <1>1, <1>4, <1>6, <1>7 DEF Entry, EntryOK

\* A step that enters the next node and stays on its level
LEMMA LaterStep ==
  ASSUME IInv, Upcoming, NEW new \in SUBSET Entry, \A e \in new : EntryOK(e, iters),
         todo' = Later(new), UNCHANGED <<tree, files, bodies, iters, stack>>, ScopesLexical'
  PROVE  IInv'
<1>1. /\ todo' \in Seq(Seq(SUBSET Entry)) /\ Len(todo') = Len(todo)
      /\ \A k \in 1..Len(todo) - 1 : todo'[k] = todo[k]
      /\ GroupsOK(todo'[Len(todo)], iters)
  BY LaterOK
<1>2. stack \in Seq(Scopes) /\ Len(todo) = Len(stack) + 1 /\ Len(todo) \in Nat \ {0}
  BY DEF IInv, WalkType
<1>3. WalkType' BY <1>1, <1>2, SameTree DEF WalkType
<1>4. ASSUME NEW k \in 1..Len(todo) PROVE GroupsOK(todo'[k], ScopeOf(k))
  <2>1. CASE k = Len(todo) BY <1>1, <2>1 DEF ScopeOf
  <2>2. CASE k # Len(todo)
    <3>1. k \in 1..Len(todo) - 1 BY <1>2, <2>2
    <3>2. QED BY <1>1, <3>1 DEF IInv, WalkInv
  <2>3. QED BY <2>1, <2>2
<1>5. \A k : ScopeOf(k)' = ScopeOf(k) BY <1>1 DEF ScopeOf
<1>6. WalkInv' BY <1>1, <1>4, <1>5, SameTree DEF WalkInv, GroupsOK
<1>7. QED BY <1>3, <1>6, WalkStep

LEMMA OmitStep == IInv /\ Omit => IInv'
<1> SUFFICES ASSUME IInv, Omit PROVE IInv'
  OBVIOUS
<1>1. ScopesLexical' BY SameTree DEF Omit, IInv, ScopesLexical, input, output
<1>2. QED BY <1>1, LaterStep DEF Omit, input, output

\* The callback is handed the innermost iterators: those in scope at the node.
LEMMA VisitStep ==
  ASSUME IInv, Upcoming, Own, tree' = tree, seen' = seen \cup {<<Node, iters>>}
  PROVE  ScopesLexical'
BY NodeOK, SameTree DEF IInv, ScopesLexical

LEMMA VisitTraversalStep == IInv /\ VisitTraversal => IInv'
<1> SUFFICES ASSUME IInv, VisitTraversal PROVE IInv'
  OBVIOUS
<1>1. ScopesLexical' BY VisitStep DEF VisitTraversal, input
<1>2. QED BY <1>1, LaterStep DEF VisitTraversal, input

LEMMA VisitOtherStep == IInv /\ VisitOther => IInv'
<1> SUFFICES ASSUME IInv, VisitOther PROVE IInv'
  OBVIOUS
<1>1. ScopesLexical' BY VisitStep DEF VisitOther, input
<1>2. QED BY <1>1, BelowOK, LaterStep DEF VisitOther, input

LEMMA EnterScopeStep == IInv /\ EnterScope => IInv'
<1> SUFFICES ASSUME IInv, EnterScope PROVE IInv'
  OBVIOUS
<1> DEFINE n == Len(todo)
           lower == Later({})
           upper == <<{[at |-> Node, own |-> TRUE]}>>
<1>1. /\ lower \in Seq(Seq(SUBSET Entry)) /\ Len(lower) = n
      /\ \A k \in 1..n - 1 : lower[k] = todo[k]
      /\ GroupsOK(lower[n], iters)
  BY LaterOK DEF EnterScope
<1>2. stack \in Seq(Scopes) /\ n = Len(stack) + 1 /\ n \in Nat \ {0}
  BY DEF IInv, WalkType
<1>3. /\ Node \in DOMAIN tree /\ tree[Node].kind \notin Structure
      /\ tree[Node].role = "scoped" /\ InScope(Up(Node)) = iters
  BY NodeOK DEF EnterScope
<1>4. Node \in Seq(Nat) /\ Node # << >> /\ Len(Node) > 2 /\ Up(Node) \in DOMAIN tree
  BY <1>3 DEF IInv, WellFormed
<1>5. InScope(Node) = iters'
  <2>1. InScope(Node) = InScope(Up(Node)) \cup Bindings(Node) BY <1>4, ScopeStep
  <2>2. Bindings(Node) = tree[Up(Node)].binds BY <1>3, <1>4 DEF Bindings
  <2>3. QED BY <1>3, <2>1, <2>2 DEF EnterScope
<1>6. upper \in Seq(SUBSET Entry) /\ GroupsOK(upper, iters')
  <2> DEFINE group == {[at |-> Node, own |-> TRUE]}
  <2>1. group \in SUBSET Entry BY <1>3 DEF Entry
  <2>2. group # {} /\ \A e \in group : EntryOK(e, iters') BY <1>3, <1>5 DEF EntryOK
  <2>3. upper = <<group>> OBVIOUS
  <2> HIDE DEF group, upper
  <2>4. upper \in Seq(SUBSET Entry) /\ Len(upper) = 1 /\ upper[1] = group BY <2>1, <2>3
  <2>5. \A g \in 1..Len(upper) : upper[g] = group BY <2>4
  <2>6. QED BY <2>2, <2>4, <2>5 DEF GroupsOK
<1>7. todo' = Append(lower, upper) /\ stack' = Append(stack, iters) BY DEF EnterScope
<1>8. tree' = tree /\ files' = files /\ bodies' = bodies /\ seen' = seen
  BY DEF EnterScope, input, output
<1> HIDE DEF lower, upper, n
<1>9. /\ todo' \in Seq(Seq(SUBSET Entry)) /\ Len(todo') = n + 1
      /\ \A k \in 1..n : todo'[k] = lower[k]
      /\ todo'[n + 1] = upper
  BY <1>1, <1>6, <1>7, AppendProperties
<1>10. iters \in Scopes BY <1>3, <1>4 DEF Scopes
<1>11. /\ stack' \in Seq(Scopes) /\ Len(stack') = n
       /\ \A k \in 1..n - 1 : stack'[k] = stack[k]
       /\ stack'[n] = iters
  <2>1. /\ Append(stack, iters) \in Seq(Scopes) /\ Len(Append(stack, iters)) = Len(stack) + 1
        /\ \A k \in 1..Len(stack) : Append(stack, iters)[k] = stack[k]
        /\ Append(stack, iters)[Len(stack) + 1] = iters
    BY <1>2, <1>10, AppendProperties
  <2>2. n - 1 = Len(stack) BY <1>2
  <2>3. QED BY <1>2, <1>7, <2>1, <2>2
<1>12. WalkType' BY <1>8, <1>9, <1>11, SameTree DEF WalkType
<1>13. ASSUME NEW k \in 1..n + 1 PROVE GroupsOK(todo'[k], ScopeOf(k)')
  <2>1. CASE k = n + 1 BY <1>6, <1>9, <2>1 DEF ScopeOf
  <2>2. CASE k = n
    <3>1. ScopeOf(k)' = iters BY <1>2, <1>9, <1>11, <2>2 DEF ScopeOf
    <3>2. n \in 1..n BY <1>2
    <3>3. todo'[n] = lower[n] BY <1>9, <3>2
    <3>4. QED BY <1>1, <2>2, <3>1, <3>3
  <2>3. CASE k # n /\ k # n + 1
    <3>1. k \in 1..n - 1 /\ k \in 1..n BY <1>2, <2>3
    <3>2. todo'[k] = todo[k] BY <1>1, <1>9, <3>1
    <3>3. ScopeOf(k)' = stack[k] BY <1>9, <1>11, <2>3, <3>1 DEF ScopeOf
    <3>4. GroupsOK(todo[k], stack[k]) BY <2>3, <3>1 DEF IInv, WalkInv, ScopeOf, n
    <3>5. QED BY <3>2, <3>3, <3>4
  <2>4. QED BY <2>1, <2>2, <2>3
<1>14. WalkInv' BY <1>8, <1>9, <1>13, SameTree DEF WalkInv, GroupsOK
<1>15. ScopesLexical' BY <1>8, SameTree DEF IInv, ScopesLexical
<1>16. QED BY <1>8, <1>12, <1>14, <1>15, WalkStep

LEMMA ExitScopeStep == IInv /\ ExitScope => IInv'
<1> SUFFICES ASSUME IInv, ExitScope PROVE IInv'
  OBVIOUS
<1> DEFINE n == Len(todo)
<1>1. /\ todo \in Seq(Seq(SUBSET Entry)) /\ stack \in Seq(Scopes)
      /\ n = Len(stack) + 1 /\ n \in Nat /\ n > 1
  BY DEF IInv, WalkType, ExitScope
<1>2. todo # << >> /\ stack # << >> BY <1>1
<1>3. todo' = Pop(todo) /\ stack' = Pop(stack) /\ iters' = Top(stack) BY DEF ExitScope
<1>4. tree' = tree /\ files' = files /\ bodies' = bodies /\ seen' = seen
  BY DEF ExitScope, input, output
<1>5. /\ todo' \in Seq(Seq(SUBSET Entry)) /\ Len(todo') = n - 1
      /\ \A k \in 1..n - 1 : todo'[k] = todo[k]
  BY <1>1, <1>2, <1>3, PopProperties
<1>6. /\ stack' \in Seq(Scopes) /\ Len(stack') = Len(stack) - 1
      /\ \A k \in 1..Len(stack) - 1 : stack'[k] = stack[k]
  BY <1>1, <1>2, <1>3, PopProperties
<1>7. iters' = stack[n - 1] BY <1>1, <1>3 DEF Top
<1> HIDE DEF n
<1>8. WalkType' BY <1>1, <1>4, <1>5, <1>6, SameTree DEF WalkType
<1>9. ASSUME NEW k \in 1..n - 1 PROVE GroupsOK(todo'[k], ScopeOf(k)')
  <2>1. k \in 1..n /\ k # n BY <1>1
  <2>2. GroupsOK(todo[k], stack[k]) BY <2>1 DEF IInv, WalkInv, ScopeOf, n
  <2>3. ScopeOf(k)' = stack[k]
    <3>1. CASE k = n - 1 BY <1>5, <1>7, <3>1 DEF ScopeOf
    <3>2. CASE k # n - 1
      <4>1. k \in 1..Len(stack) - 1 BY <1>1, <3>2
      <4>2. QED BY <1>5, <1>6, <3>2, <4>1 DEF ScopeOf
    <3>3. QED BY <3>1, <3>2
  <2>4. QED BY <1>5, <2>2, <2>3
<1>10. WalkInv' BY <1>4, <1>5, <1>9, SameTree DEF WalkInv, GroupsOK
<1>11. ScopesLexical' BY <1>4, SameTree DEF IInv, ScopesLexical
<1>12. QED BY <1>4, <1>8, <1>10, <1>11, WalkStep

LEMMA ReportUnusedStep == IInv /\ ReportUnused => IInv'
BY BodyStep DEF ReportUnused, IInv, BodiesInv, input, walker

-----------------------------------------------------------------------------

LEMMA InitOK == WalkInit => IInv
<1> SUFFICES ASSUME WalkInit PROVE IInv
  OBVIOUS
<1>1. WellFormed(tree) BY ModulesAssumption DEF ModulesAssumption, WalkInit
<1>2. FilesInv BY DEF WalkInit, FilesInv
<1>3. BodiesInv BY EmptySeq DEF WalkInit, BodiesInv, BodiesOK, IsSeq
<1>4. todo = << << >> >> /\ stack = << >> BY DEF WalkInit, Idle
<1>5. WalkType
  <2>1. << << >> >> \in Seq(Seq(SUBSET Entry)) /\ << >> \in Seq(Scopes) BY EmptySeq
  <2>2. QED BY <1>4, <2>1 DEF WalkType
<1>6. WalkInv
  <2>1. Len(todo) = 1 /\ Len(todo[1]) = 0 BY <1>4
  <2>2. \A k \in 1..Len(todo) : Len(todo[k]) = 0 BY <2>1
  <2>3. QED BY <2>2 DEF WalkInv, GroupsOK
<1>7. ScopesLexical BY DEF WalkInit, ScopesLexical
<1>8. QED BY <1>1, <1>2, <1>3, <1>5, <1>6, <1>7 DEF IInv

LEMMA Inductive == IInv /\ [WalkNext]_walkVars => IInv'
<1> SUFFICES ASSUME IInv, [WalkNext]_walkVars PROVE IInv'
  OBVIOUS
<1>1. CASE UNCHANGED walkVars
  BY <1>1, BodyStep DEF IInv, BodiesInv, walkVars, input, walker, output
<1>2. ASSUME NEW b \in DOMAIN tree, OrdinaryBlock(b) \/ DynamicBlock(b) \/ InDynamic(b)
      PROVE IInv'
  BY <1>2, BlockStep
<1>3. QED
  BY <1>1, <1>2, OpenFileStep, AttributeStep, ReturnStep, EnterScopeStep, ExitScopeStep,
     OmitStep, VisitTraversalStep, VisitOtherStep, ReportUnusedStep DEF WalkNext

\* The iterators the callback is given are those in scope at the node, for
\* every tree of blocks and expressions (checks.go 701-752, 784-811).
THEOREM ScopesCorrect == WalkSpec => []ScopesLexical
<1>1. IInv => ScopesLexical BY DEF IInv
<1>2. QED BY <1>1, InitOK, Inductive, PTL DEF WalkSpec

-----------------------------------------------------------------------------
(* EverythingVisited and DiagnosticsExact.  The four types, the flags and  *)
(* the resets a call carries along are read off the path of its body; what *)
(* is left to visit hangs from the nodes some list still holds.            *)

\* r stands on the path to p.
Above(r, p) == Len(r) \in 1..Len(p) /\ Prefix(p, Len(r)) = r

\* The k-th block around what stands in the body of p, its own block first
Slot(p, k) == Prefix(p, (Len(p) + 1) - k)

\* scopeTraversalBlockType is not asked about the blocks in a dynamic block:
\* whatever its labels and its place, such a block keeps the name it has.
TypeOf(q) ==
  IF Dynamic(q) THEN "dynamic"
  ELSE IF Len(q) > 2 /\ Dynamic(Up(q)) THEN tree[q].name
  ELSE TrackedType(q, Len(q) = 2)

AncestorType(p, k) ==
  IF k > Len(p) - 1 \/ \E j \in 1..k - 1 : Dynamic(Slot(p, j)) THEN ""
  ELSE TypeOf(Slot(p, k))

Ancestors(p) ==
  <<AncestorType(p, 1), AncestorType(p, 2), AncestorType(p, 3), AncestorType(p, 4)>>

ActionAt(q) == tree[q].name = "action" /\ Rooted(q, TRUE)
ConfigAt(q) == tree[q].name = "config" /\ tree[q].labels = 0
InConfig(p) == \E i \in 3..Len(p) : ConfigAt(Prefix(p, i)) /\ ActionAt(Prefix(p, i - 1))

InLanguage(p) == Len(p) = 2 /\ tree[p].name = "language" /\ tree[p].labels = 0

PlaceOK(b) ==
  /\ ~b.dynamic => b.anc = Ancestors(b.at)
  /\ b.action <=> InConfig(b.at)
  /\ b.language <=> InLanguage(b.at)

RawAncestors(a) ==
  [i \in 1..4 |-> IF Len(a) - i >= 2 THEN tree[Prefix(a, Len(a) - i)].name ELSE ""]
RefsOf(a) ==
  IF Position(a, TRUE) = "provider" THEN ProviderRefs(ExprOf(a), RawAncestors(a), tree[a].name) ELSE {}
BareKey(q) == Traversal(q) /\ tree[q].role = "key" /\ Len(tree[q].path) = 1
UnderKey(p) == \E i \in 1..Len(p) : BareKey(Prefix(p, i))

\* The walker is set up for the attribute above each node it has before it.
SetUp(p, c, r) ==
  \E a \in DOMAIN tree :
    /\ Is(a, "attribute") /\ Above(a, p) /\ ~Declaration(a) /\ ~UnderKey(p)
    /\ c = Position(a, TRUE) /\ r = RefsOf(a)

InLevel(level, q) == \E g \in 1..Len(level) : \E e \in level[g] : e.at = q
InTodo(levels, q) == \E k \in 1..Len(levels) : InLevel(levels[k], q)

InBodies(s, q) == \E i \in 1..Len(s) : q \in s[i].attrs \cup s[i].blocks
Pending(q) == q \in files \/ InBodies(bodies, q) \/ InTodo(todo, q)

Visited == {v[1] : v \in seen}
Covered == \A p \in Expected(TRUE) : p \in Visited \/ \E r \in DOMAIN tree : Pending(r) /\ Above(r, p)

Phase ==
  /\ bodies = << >> => todo = Idle
  /\ done => bodies = << >> /\ files = {}

AllPlaced(s) == \A i \in 1..Len(s) : PlaceOK(s[i])
PlacesOK == AllPlaced(bodies)
WalkerSetUp == \A q \in DOMAIN tree : InTodo(todo, q) => SetUp(q, context, refs)
SeenExpected == Visited \subseteq Expected(TRUE)
Complete == PlacesOK /\ WalkerSetUp /\ SeenExpected /\ Covered /\ Phase

\* What the visits of the nodes of V come to
ReferencesIn(V) == {p \in V : Traversal(p)}
UsedBy(V) == UNION {LocalNamed(p, InScope(p)) : p \in ReferencesIn(V)}
ReportedOf(V) ==
  (UNION {RootViolation(p, InScope(p)) : p \in ReferencesIn(V)})
  \cup (UNION {Only("E003", {<<"E003", p>> : n \in LocalNamed(p, InScope(p)) \ DOMAIN localKinds}) :
                 p \in ReferencesIn(V)})
  \cup Only("E004", {<<"E004", q>> : q \in {q \in DOMAIN tree :
         /\ Len(q) > 1 /\ Is(Up(q), "template") /\ Up(q) \in V
         /\ Interpolated(q, InScope(q))}})
Unused(S) == Only("W001", {<<"W001", n>> : n \in DOMAIN localKinds \ S})

Diagnosed ==
  /\ used = UsedBy(Visited)
  /\ found = ReportedOf(Visited) \cup IF done THEN Unused(used) ELSE {}

-----------------------------------------------------------------------------
(* Paths *)

LEMMA LeastNatural ==
  ASSUME NEW S \in SUBSET Nat, S # {}
  PROVE  \E m \in S : \A n \in S : m <= n
<1>1. PICK m \in S : \A n \in S : ~(<<n, m>> \in OpToRel(<, Nat))
  BY NatLessThanWellFounded, WFMin
<1>2. \A n \in S : m <= n
  <2> TAKE n \in S
  <2>1. <<n, m>> \in Nat \X Nat OBVIOUS
  <2>2. ~(n < m) BY <1>1, <2>1 DEF OpToRel
  <2>3. QED BY <2>1, <2>2
<1>3. QED BY <1>2

LEMMA Prefixes ==
  ASSUME NEW p \in Seq(Nat), NEW i \in 1..Len(p)
  PROVE  /\ Prefix(p, i) \in Seq(Nat) /\ Len(Prefix(p, i)) = i
         /\ \A j \in 1..i : Prefix(Prefix(p, i), j) = Prefix(p, j)
         /\ Prefix(p, Len(p)) = p
         /\ i > 1 => Up(Prefix(p, i)) = Prefix(p, i - 1)
<1>1. /\ Len(p) \in Nat /\ i \in Nat /\ i <= Len(p) /\ i >= 1
      /\ \A k \in 1..i : p[k] \in Nat
  BY ElementOfSeq
<1>2. Prefix(p, i) \in Seq(Nat) /\ Len(Prefix(p, i)) = i
  BY <1>1, SubSeqProperties DEF Prefix
<1>3. \A j \in 1..i : Prefix(Prefix(p, i), j) = Prefix(p, j)
  BY <1>1, SubSeqOfSubSeq DEF Prefix
<1>4. Prefix(p, Len(p)) = p BY SubSeqFull DEF Prefix
<1>5. ASSUME i > 1 PROVE Up(Prefix(p, i)) = Prefix(p, i - 1)
  <2>1. i - 1 \in 1..i BY <1>1, <1>5
  <2>2. Up(Prefix(p, i)) = Prefix(Prefix(p, i), i - 1) BY <1>2 DEF Up, Prefix
  <2>3. QED BY <1>3, <2>1, <2>2
<1>6. QED BY <1>2, <1>3, <1>4, <1>5

LEMMA PathIn ==
  ASSUME WellFormed(tree), NEW p \in DOMAIN tree, NEW i \in 1..Len(p)
  PROVE  Prefix(p, i) \in DOMAIN tree
<1>1. p \in Seq(Nat) /\ p # << >> BY DEF WellFormed
<1>2. Len(p) \in Nat \ {0} BY <1>1, EmptySeq
<1> DEFINE Missing == {n \in Nat : n < Len(p) /\ Prefix(p, Len(p) - n) \notin DOMAIN tree}
<1>3. Missing = {}
  <2>1. SUFFICES ASSUME Missing # {} PROVE FALSE
    OBVIOUS
  <2>2. PICK m \in Missing : \A n \in Missing : m <= n BY <2>1, LeastNatural
  <2>3. m # 0 BY <1>1, <1>2, <2>2, Prefixes
  <2>4. m - 1 \in Nat /\ m - 1 < Len(p) /\ m - 1 \notin Missing BY <1>2, <2>2, <2>3
  <2> DEFINE k == Len(p) - (m - 1)
  <2>5. Prefix(p, k) \in DOMAIN tree BY <2>4
  <2>6. k \in 1..Len(p) /\ k > 1 /\ k - 1 = Len(p) - m BY <1>2, <2>2, <2>3
  <2> HIDE DEF k
  <2>7. Len(Prefix(p, k)) = k /\ Up(Prefix(p, k)) = Prefix(p, k - 1) BY <1>1, <2>6, Prefixes
  <2>8. Prefix(p, k - 1) \in DOMAIN tree BY <2>5, <2>6, <2>7 DEF WellFormed
  <2>9. QED BY <2>2, <2>6, <2>8
<1>4. Len(p) - i \in Nat /\ Len(p) - i < Len(p) /\ Len(p) - (Len(p) - i) = i BY <1>2
<1>5. QED BY <1>3, <1>4

\* The path from r to p goes through a child of r.
LEMMA Fork ==
  ASSUME WellFormed(tree), NEW p \in DOMAIN tree, NEW r, Above(r, p), r # p
  PROVE  \E c \in NodesIn(r) : Above(c, p)
<1>1. p \in Seq(Nat) /\ p # << >> /\ Len(p) \in Nat BY DEF WellFormed
<1>2. Len(r) \in 1..Len(p) /\ Prefix(p, Len(r)) = r BY DEF Above
<1>3. Len(r) # Len(p) BY <1>1, <1>2, Prefixes
<1> DEFINE n == Len(r) + 1
<1>4. n \in 1..Len(p) /\ n > 1 /\ n - 1 = Len(r) BY <1>1, <1>2, <1>3
<1> HIDE DEF n
<1>5. Len(Prefix(p, n)) = n /\ Up(Prefix(p, n)) = r BY <1>1, <1>2, <1>4, Prefixes
<1>6. Prefix(p, n) \in NodesIn(r) BY <1>4, <1>5, PathIn DEF NodesIn, n
<1>7. Above(Prefix(p, n), p) BY <1>4, <1>5 DEF Above
<1>8. QED BY <1>6, <1>7

LEMMA AboveSelf ==
  ASSUME WellFormed(tree), NEW p \in DOMAIN tree
  PROVE  Above(p, p)
<1>1. p \in Seq(Nat) /\ p # << >> BY DEF WellFormed
<1>2. Len(p) \in 1..Len(p) BY <1>1, EmptySeq
<1>3. QED BY <1>1, <1>2, Prefixes DEF Above

LEMMA AboveChild ==
  ASSUME WellFormed(tree), NEW p \in DOMAIN tree, NEW c \in NodesIn(p), NEW r, Above(r, p)
  PROVE  /\ c \in DOMAIN tree /\ Above(r, c)
         /\ Len(c) = Len(p) + 1 /\ Up(c) = p /\ Prefix(c, Len(c)) = c
         /\ \A i \in 1..Len(p) : Prefix(c, i) = Prefix(p, i)
<1>1. /\ c \in DOMAIN tree /\ Len(c) = Len(p) + 1 /\ Up(c) = p
      /\ c \in Seq(Nat) /\ p \in Seq(Nat) /\ p # << >>
  BY DEF NodesIn, WellFormed
<1>2. Len(p) \in Nat \ {0} BY <1>1, EmptySeq
<1>3. Prefix(c, Len(p)) = p BY <1>1, <1>2 DEF Up, Prefix
<1>4. Len(p) \in 1..Len(c) BY <1>1, <1>2
<1>5. \A i \in 1..Len(p) : Prefix(c, i) = Prefix(p, i)
  <2>1. \A i \in 1..Len(p) : Prefix(Prefix(c, Len(p)), i) = Prefix(c, i) BY <1>1, <1>4, Prefixes
  <2>2. QED BY <1>3, <2>1
<1>6. Prefix(c, Len(c)) = c BY <1>1, SubSeqFull DEF Prefix
<1>7. Above(r, c) BY <1>1, <1>2, <1>5 DEF Above
<1>8. QED BY <1>1, <1>5, <1>6, <1>7

\* Below an attribute or an expression there are only expressions.
LEMMA Kinds ==
  ASSUME WellFormed(tree), NEW p \in DOMAIN tree, NEW i \in 1..Len(p), NEW j \in 1..Len(p), i < j,
         tree[Prefix(p, i)].kind \notin {"file", "block"}
  PROVE  tree[Prefix(p, j)].kind \notin Structure
<1>1. p \in Seq(Nat) BY DEF WellFormed
<1>2. Len(p) \in Nat /\ i \in Nat BY <1>1
<1> DEFINE Wrong == {n \in Nat : n > i /\ n <= Len(p) /\ tree[Prefix(p, n)].kind \in Structure}
<1>3. Wrong = {}
  <2>1. SUFFICES ASSUME Wrong # {} PROVE FALSE
    OBVIOUS
  <2>2. PICK m \in Wrong : \A n \in Wrong : m <= n BY <2>1, LeastNatural
  <2>3. m \in 1..Len(p) /\ m > 1 /\ m - 1 \in 1..Len(p) BY <1>2, <2>2
  <2>4. Prefix(p, m) \in DOMAIN tree /\ Len(Prefix(p, m)) = m /\ Up(Prefix(p, m)) = Prefix(p, m - 1)
    BY <1>1, <2>3, Prefixes, PathIn
  <2>5. tree[Prefix(p, m - 1)].kind \in {"file", "block"}
    <3>1. tree[Prefix(p, m)].kind \in Structure BY <2>2
    <3>2. \A q \in DOMAIN tree :
            Len(q) > 1 => (tree[Up(q)].kind \in {"file", "block"} <=> tree[q].kind \in Structure)
      BY Zenon DEF WellFormed
    <3>3. QED BY <2>3, <2>4, <3>1, <3>2
  <2>6. m - 1 # i BY <2>5
  <2>7. m - 1 \in Wrong BY <1>2, <2>2, <2>3, <2>5, <2>6 DEF Structure
  <2>8. QED BY <2>2, <2>3, <2>7
<1>4. QED BY <1>2, <1>3

LEMMA UnderAttribute ==
  ASSUME WellFormed(tree), NEW p \in DOMAIN tree,
         NEW a \in DOMAIN tree, Is(a, "attribute"), Above(a, p)
  PROVE  /\ AttributeOf(p) = a
         /\ p # a => Above(ExprOf(a), p)
         /\ \A i \in 1..Len(a) - 1 : tree[Prefix(p, i)].kind \in {"file", "block"}
<1>1. /\ Len(a) \in 1..Len(p) /\ Prefix(p, Len(a)) = a
      /\ p \in Seq(Nat) /\ Len(p) \in Nat
  BY DEF Above, WellFormed
<1>2. \A i \in 1..Len(a) - 1 : tree[Prefix(p, i)].kind \in {"file", "block"}
  <2>1. SUFFICES ASSUME NEW i \in 1..Len(a) - 1, tree[Prefix(p, i)].kind \notin {"file", "block"}
                 PROVE  FALSE
    OBVIOUS
  <2>2. i \in 1..Len(p) /\ i < Len(a) BY <1>1
  <2>3. QED BY <1>1, <2>1, <2>2, Kinds DEF Is, Structure
<1>3. \A i \in 1..Len(p) : Is(Prefix(p, i), "attribute") <=> i = Len(a)
  <2>1. SUFFICES ASSUME NEW i \in 1..Len(p), i # Len(a)
                 PROVE  ~Is(Prefix(p, i), "attribute")
    BY <1>1
  <2>2. CASE i < Len(a) BY <1>1, <1>2, <2>2 DEF Is
  <2>3. CASE i > Len(a) BY <1>1, <2>3, Kinds DEF Is, Structure
  <2>4. QED BY <1>1, <2>1, <2>2, <2>3
<1>4. (CHOOSE i \in 1..Len(p) : Is(Prefix(p, i), "attribute")) = Len(a) BY <1>1, <1>3
<1>5. AttributeOf(p) = a BY <1>1, <1>4 DEF AttributeOf
<1>6. ASSUME p # a PROVE Above(ExprOf(a), p)
  <2>1. PICK c \in NodesIn(a) : Above(c, p) BY <1>6, Fork
  <2>2. c \in DOMAIN tree /\ Up(c) = a /\ Len(c) = Len(a) + 1 BY DEF NodesIn
  <2>3. c = ExprOf(a)
    <3>1. \A q \in DOMAIN tree : Len(q) > 1 => (tree[Up(q)].kind = "attribute" => q = Append(Up(q), 1))
      BY Zenon DEF WellFormed
    <3>2. Len(c) > 1 BY <1>1, <2>2
    <3>3. tree[a].kind = "attribute" BY DEF Is
    <3>4. QED BY <2>2, <3>1, <3>2, <3>3 DEF ExprOf
  <2>4. QED BY <2>1, <2>3
<1>7. QED BY <1>2, <1>5, <1>6

-----------------------------------------------------------------------------
(* The types a call carries along, and the position of an attribute *)

TopOnly == {"terraform", "import", "removed", "resource", "data", "ephemeral", "action", "module"}
Tracked == TopOnly \cup Unlabelled \cup {"provisioner", "remote_state_data_source"}

\* scopeTraversalBlockType, read backwards
LEMMA TrackedName ==
  ASSUME NEW q, NEW top \in BOOLEAN, NEW T \in SUBSET Tracked
  PROVE  TrackedType(q, top) \in T <=>
           /\ tree[q].name \in T /\ tree[q].labels = Labels(tree[q].name)
           /\ tree[q].name \in TopOnly => top
<1> DEFINE type == tree[q].name
           n == tree[q].labels
<1>1. "" \notin Tracked BY DEF Tracked, TopOnly, Unlabelled
<1>2. TrackedType(q, top) \in {type, ""} BY DEF TrackedType
<1>3. ASSUME type \in Tracked
      PROVE  TrackedType(q, top) = type <=> n = Labels(type) /\ (type \in TopOnly => top)
  <2>1. CASE type \in {"terraform", "import", "removed"}
    BY <2>1 DEF TrackedType, Labels, TopOnly, Unlabelled
  <2>2. CASE type \in {"resource", "data", "ephemeral", "action"}
    BY <2>2 DEF TrackedType, Labels, TopOnly, Unlabelled
  <2>3. CASE type = "module"
    BY <2>3 DEF TrackedType, Labels, TopOnly, Unlabelled
  <2>4. CASE type \in Unlabelled
    BY <2>4 DEF TrackedType, Labels, TopOnly, Unlabelled
  <2>5. CASE type \in {"provisioner", "remote_state_data_source"}
    BY <2>5 DEF TrackedType, Labels, TopOnly, Unlabelled
  <2>6. QED BY <1>3, <2>1, <2>2, <2>3, <2>4, <2>5 DEF Tracked, TopOnly
<1>4. QED BY <1>1, <1>2, <1>3

LEMMA UntrackedName ==
  ASSUME NEW q, NEW top \in BOOLEAN, NEW name \in {"variable", "dynamic"}
  PROVE  TrackedType(q, top) = name <=> tree[q].name = name
<1> DEFINE type == tree[q].name
<1>1. TrackedType(q, top) \in {type, ""} BY DEF TrackedType
<1>2. type = name => TrackedType(q, top) = name BY DEF TrackedType, Unlabelled
<1>3. QED BY <1>1, <1>2

\* The two kinds of block that end a chain, and those on the way
LEMMA OutermostType ==
  ASSUME NEW q, ~Dynamic(q), Len(q) \in Nat, Len(q) > 1, NEW T \in SUBSET TopOnly
  PROVE  TypeOf(q) \in T <=> tree[q].name \in T /\ Rooted(q, TRUE)
<1>1. CASE Len(q) > 2 /\ Dynamic(Up(q)) BY <1>1 DEF TypeOf, Rooted
<1>2. CASE ~(Len(q) > 2 /\ Dynamic(Up(q)))
  <2> DEFINE top == Len(q) = 2
  <2>1. top \in BOOLEAN /\ T \in SUBSET Tracked BY DEF Tracked
  <2>2. TypeOf(q) = TrackedType(q, top) BY <1>2 DEF TypeOf
  <2>3. Rooted(q, TRUE) <=> top /\ tree[q].labels = Labels(tree[q].name) BY <1>2 DEF Rooted
  <2> HIDE DEF top
  <2>4. TrackedType(q, top) \in T <=>
          /\ tree[q].name \in T /\ tree[q].labels = Labels(tree[q].name)
          /\ tree[q].name \in TopOnly => top
    BY <2>1, TrackedName
  <2>5. QED BY <2>2, <2>3, <2>4
<1>3. QED BY <1>1, <1>2

LEMMA InnerType ==
  ASSUME NEW q, ~Dynamic(q), ~Dynamic(Up(q)), NEW T \in SUBSET (Tracked \ TopOnly)
  PROVE  TypeOf(q) \in T <=> tree[q].name \in T /\ tree[q].labels = Labels(tree[q].name)
<1> DEFINE top == Len(q) = 2
<1>1. top \in BOOLEAN /\ T \in SUBSET Tracked /\ T \cap TopOnly = {} OBVIOUS
<1>2. TypeOf(q) = TrackedType(q, top) BY DEF TypeOf
<1> HIDE DEF top
<1>3. TrackedType(q, top) \in T <=>
        /\ tree[q].name \in T /\ tree[q].labels = Labels(tree[q].name)
        /\ tree[q].name \in TopOnly => top
  BY <1>1, TrackedName
<1>4. QED BY <1>1, <1>2, <1>3

LEMMA Slots ==
  ASSUME WellFormed(tree), NEW p \in DOMAIN tree, NEW k \in 1..Len(p)
  PROVE  /\ Slot(p, k) \in DOMAIN tree /\ Len(Slot(p, k)) = (Len(p) + 1) - k
         /\ \A a \in NodesIn(p) : Slot(p, k) = Prefix(a, Len(a) - k)
         /\ \A b \in NodesIn(p) : Slot(p, k) = Slot(b, k + 1)
         /\ Slot(p, 1) = p
         /\ k + 1 \in 1..Len(p) => Up(Slot(p, k)) = Slot(p, k + 1)
<1>1. p \in Seq(Nat) /\ p # << >> BY DEF WellFormed
<1>2. Len(p) \in Nat \ {0} BY <1>1, EmptySeq
<1>3. (Len(p) + 1) - k \in 1..Len(p) /\ (Len(p) + 1) - 1 = Len(p) BY <1>2
<1>4. Slot(p, k) \in DOMAIN tree /\ Len(Slot(p, k)) = (Len(p) + 1) - k
  BY <1>1, <1>3, Prefixes, PathIn DEF Slot
<1>5. Slot(p, 1) = p BY <1>1, <1>2, <1>3, Prefixes DEF Slot
<1>6. ASSUME NEW a \in NodesIn(p)
      PROVE  Slot(p, k) = Prefix(a, Len(a) - k) /\ Slot(p, k) = Slot(a, k + 1)
  <2>1. /\ Len(a) = Len(p) + 1
        /\ \A i \in 1..Len(p) : Prefix(a, i) = Prefix(p, i)
    BY AboveSelf, AboveChild
  <2>2. Len(a) - k = (Len(p) + 1) - k /\ (Len(a) + 1) - (k + 1) = (Len(p) + 1) - k
    BY <1>2, <2>1
  <2>3. QED BY <1>3, <2>1, <2>2 DEF Slot
<1>7. ASSUME k + 1 \in 1..Len(p) PROVE Up(Slot(p, k)) = Slot(p, k + 1)
  <2> DEFINE n == (Len(p) + 1) - k
  <2>1. n \in 1..Len(p) /\ n > 1 /\ n - 1 = (Len(p) + 1) - (k + 1) BY <1>2, <1>7
  <2> HIDE DEF n
  <2>2. Up(Prefix(p, n)) = Prefix(p, n - 1) BY <1>1, <2>1, Prefixes
  <2>3. QED BY <2>1, <2>2 DEF Slot, n
<1>8. QED BY <1>4, <1>5, <1>6, <1>7

LEMMA InnermostType ==
  ASSUME WellFormed(tree), NEW p \in DOMAIN tree
  PROVE  AncestorType(p, 1) = IF Len(p) = 1 THEN "" ELSE TypeOf(p)
<1>1. p \in Seq(Nat) /\ p # << >> BY DEF WellFormed
<1>2. Len(p) \in Nat \ {0} BY <1>1, EmptySeq
<1>3. Slot(p, 1) = p BY <1>2, Slots
<1>4. ~\E j \in 1..1 - 1 : Dynamic(Slot(p, j)) OBVIOUS
<1>5. 1 > Len(p) - 1 <=> Len(p) = 1
  <2>1. \A n \in Nat \ {0} : 1 > n - 1 <=> n = 1 OBVIOUS
  <2>2. QED BY <1>2, <2>1
<1>6. QED BY <1>3, <1>4, <1>5 DEF AncestorType

\* The four types shift by one, whatever block is opened.
LEMMA AncestorsShift ==
  ASSUME WellFormed(tree), NEW p \in DOMAIN tree, NEW b \in NodesIn(p), ~Dynamic(b),
         NEW k \in Nat, k > 1
  PROVE  AncestorType(b, k) =
           IF Dynamic(p) THEN IF k = 2 THEN "dynamic" ELSE "" ELSE AncestorType(p, k - 1)
<1>1. /\ Len(p) \in Nat \ {0} /\ b \in DOMAIN tree /\ Len(b) = Len(p) + 1
  <2>1. p \in Seq(Nat) /\ p # << >> BY DEF WellFormed
  <2>2. b \in DOMAIN tree /\ Len(b) = Len(p) + 1 BY DEF NodesIn
  <2>3. QED BY <2>1, <2>2, EmptySeq
<1>2. \A j \in 1..Len(p) : Slot(p, j) = Slot(b, j + 1) BY Slots
<1>3. Slot(b, 1) = b /\ Slot(p, 1) = p
  <2>1. 1 \in 1..Len(p) /\ 1 \in 1..Len(b) BY <1>1
  <2>2. QED BY <1>1, <2>1, Slots
<1>4. k > Len(b) - 1 <=> k - 1 > Len(p) - 1 BY <1>1
<1>5. CASE k > Len(b) - 1
  <2>1. AncestorType(b, k) = "" BY <1>5 DEF AncestorType
  <2>2. AncestorType(p, k - 1) = "" BY <1>4, <1>5 DEF AncestorType
  <2>3. Dynamic(p) => k # 2
    <3>1. Dynamic(p) => Len(p) # 1 BY DEF WellFormed, Dynamic, DynamicIn
    <3>2. \A n \in Nat \ {0} : k - 1 > n - 1 /\ n # 1 => k # 2 OBVIOUS
    <3>3. QED BY <1>1, <1>4, <1>5, <3>1, <3>2
  <2>4. QED BY <2>1, <2>2, <2>3
<1>6. CASE ~(k > Len(b) - 1)
  <2>1. k - 1 \in 1..Len(p) BY <1>1, <1>6
  <2>2. (\E j \in 1..k - 1 : Dynamic(Slot(b, j))) <=> \E j \in 1..(k - 1) - 1 : Dynamic(Slot(p, j))
    <3>1. ASSUME NEW j \in 1..k - 1, Dynamic(Slot(b, j))
          PROVE  \E i \in 1..(k - 1) - 1 : Dynamic(Slot(p, i))
      <4>1. j # 1 BY <1>3, <3>1
      <4>2. j - 1 \in 1..(k - 1) - 1 /\ j - 1 \in 1..Len(p) /\ (j - 1) + 1 = j BY <2>1, <4>1
      <4>3. Slot(p, j - 1) = Slot(b, j) BY <1>2, <4>2
      <4>4. QED BY <3>1, <4>2, <4>3
    <3>2. ASSUME NEW j \in 1..(k - 1) - 1, Dynamic(Slot(p, j))
          PROVE  \E i \in 1..k - 1 : Dynamic(Slot(b, i))
      <4>1. j + 1 \in 1..k - 1 /\ j \in 1..Len(p) BY <2>1
      <4>2. QED BY <1>2, <3>2, <4>1
    <3>3. QED BY <3>1, <3>2
  <2>3. Slot(b, k) = Slot(p, k - 1)
    <3>1. (k - 1) + 1 = k OBVIOUS
    <3>2. QED BY <1>2, <2>1, <3>1
  <2>4. AncestorType(b, k) = AncestorType(p, k - 1)
    BY <1>4, <1>6, <2>2, <2>3 DEF AncestorType
  <2>5. ASSUME Dynamic(p), k = 2 PROVE AncestorType(p, k - 1) = "dynamic"
    <3>1. k - 1 = 1 /\ ~\E j \in 1..(k - 1) - 1 : Dynamic(Slot(p, j)) BY <2>5
    <3>2. QED BY <1>3, <1>4, <1>6, <2>5, <3>1 DEF AncestorType, TypeOf
  <2>6. ASSUME Dynamic(p), k # 2 PROVE AncestorType(p, k - 1) = ""
    <3>1. 1 \in 1..(k - 1) - 1 BY <2>6
    <3>2. QED BY <1>3, <2>6, <3>1 DEF AncestorType
  <2>7. QED BY <2>4, <2>5, <2>6
<1>7. QED BY <1>5, <1>6

LEMMA FirstShifts ==
  ASSUME WellFormed(tree), NEW p \in DOMAIN tree, NEW b \in NodesIn(p), ~Dynamic(b)
  PROVE  /\ AncestorType(b, 2) = IF Dynamic(p) THEN "dynamic" ELSE AncestorType(p, 1)
         /\ AncestorType(b, 3) = IF Dynamic(p) THEN "" ELSE AncestorType(p, 2)
         /\ AncestorType(b, 4) = IF Dynamic(p) THEN "" ELSE AncestorType(p, 3)
<1>1. ASSUME NEW k, k = 2 PROVE AncestorType(b, k) = IF Dynamic(p) THEN "dynamic" ELSE AncestorType(p, 1)
  <2>1. k \in Nat /\ k > 1 /\ k - 1 = 1 BY <1>1
  <2>2. AncestorType(b, k) =
          IF Dynamic(p) THEN IF k = 2 THEN "dynamic" ELSE "" ELSE AncestorType(p, k - 1)
    BY <2>1, AncestorsShift
  <2>3. QED BY <1>1, <2>1, <2>2
<1>2. ASSUME NEW k, k = 3 PROVE AncestorType(b, k) = IF Dynamic(p) THEN "" ELSE AncestorType(p, 2)
  <2>1. k \in Nat /\ k > 1 /\ k - 1 = 2 /\ k # 2 BY <1>2
  <2>2. AncestorType(b, k) =
          IF Dynamic(p) THEN IF k = 2 THEN "dynamic" ELSE "" ELSE AncestorType(p, k - 1)
    BY <2>1, AncestorsShift
  <2>3. QED BY <1>2, <2>1, <2>2
<1>3. ASSUME NEW k, k = 4 PROVE AncestorType(b, k) = IF Dynamic(p) THEN "" ELSE AncestorType(p, 3)
  <2>1. k \in Nat /\ k > 1 /\ k - 1 = 3 /\ k # 2 BY <1>3
  <2>2. AncestorType(b, k) =
          IF Dynamic(p) THEN IF k = 2 THEN "dynamic" ELSE "" ELSE AncestorType(p, k - 1)
    BY <2>1, AncestorsShift
  <2>3. QED BY <1>3, <2>1, <2>2
<1>4. QED BY <1>1, <1>2, <1>3, Zenon

LEMMA Shifted ==
  ASSUME NEW w, NEW x, NEW y, NEW z, NEW u
  PROVE  <<u>> \o Pop(<<w, x, y, z>>) = <<u, w, x, y>>
<1> DEFINE S == {w, x, y, z, u}
           s == <<w, x, y, z>>
<1>1. s \in Seq(S) /\ Len(s) = 4 /\ s[1] = w /\ s[2] = x /\ s[3] = y /\ s[4] = z /\ s # << >>
  OBVIOUS
<1>2. <<u>> \in Seq(S) /\ Len(<<u>>) = 1 /\ <<u>>[1] = u OBVIOUS
<1>3. <<u, w, x, y>> \in Seq(S) /\ Len(<<u, w, x, y>>) = 4
      /\ <<u, w, x, y>>[1] = u /\ <<u, w, x, y>>[2] = w
      /\ <<u, w, x, y>>[3] = x /\ <<u, w, x, y>>[4] = y
  OBVIOUS
<1> HIDE DEF S, s
<1>4. Pop(s) \in Seq(S) /\ Len(Pop(s)) = 3 /\ \A i \in 1..3 : Pop(s)[i] = s[i]
  <2>1. Pop(s) \in Seq(S) /\ Len(Pop(s)) = Len(s) - 1 /\ \A i \in 1..Len(s) - 1 : Pop(s)[i] = s[i]
    BY <1>1, PopProperties
  <2>2. QED BY <1>1, <2>1
<1>5. /\ <<u>> \o Pop(s) \in Seq(S) /\ Len(<<u>> \o Pop(s)) = 4
      /\ (<<u>> \o Pop(s))[1] = u /\ (<<u>> \o Pop(s))[2] = w
      /\ (<<u>> \o Pop(s))[3] = x /\ (<<u>> \o Pop(s))[4] = y
  <2> DEFINE h == <<u>>
             t == Pop(s)
  <2>1. h \in Seq(S) /\ Len(h) = 1 /\ h[1] = u BY <1>2
  <2>2. t \in Seq(S) /\ Len(t) = 3 /\ t[1] = w /\ t[2] = x /\ t[3] = y BY <1>1, <1>4
  <2> HIDE DEF h, t
  <2>3. /\ h \o t \in Seq(S) /\ Len(h \o t) = Len(h) + Len(t)
        /\ \A i \in 1..Len(h) + Len(t) :
             (h \o t)[i] = IF i <= Len(h) THEN h[i] ELSE t[i - Len(h)]
    BY <2>1, <2>2, ConcatProperties
  <2>4. /\ Len(h \o t) = 4 /\ (h \o t)[1] = h[1]
        /\ (h \o t)[2] = t[1] /\ (h \o t)[3] = t[2] /\ (h \o t)[4] = t[3]
    BY <2>1, <2>2, <2>3
  <2>5. QED BY <2>1, <2>2, <2>3, <2>4 DEF h, t
<1>6. \A i \in 1..4 : (<<u>> \o Pop(s))[i] = <<u, w, x, y>>[i] BY <1>3, <1>5
<1>7. <<u>> \o Pop(s) = <<u, w, x, y>> BY <1>3, <1>5, <1>6, SeqEqual
<1>8. QED BY <1>7 DEF s

LEMMA OrdinaryAncestors ==
  ASSUME WellFormed(tree), NEW p \in DOMAIN tree, ~Dynamic(p), NEW b \in NodesIn(p), ~Dynamic(b)
  PROVE  Ancestors(b) = <<TrackedType(b, Len(p) = 1)>> \o Pop(Ancestors(p))
<1>1. /\ AncestorType(b, 2) = AncestorType(p, 1)
      /\ AncestorType(b, 3) = AncestorType(p, 2)
      /\ AncestorType(b, 4) = AncestorType(p, 3)
  BY FirstShifts
<1>2. AncestorType(b, 1) = TrackedType(b, Len(p) = 1)
  <2>1. p \in Seq(Nat) /\ p # << >> BY DEF WellFormed
  <2>2. Len(p) \in Nat \ {0} BY <2>1, EmptySeq
  <2>3. b \in DOMAIN tree /\ Len(b) = Len(p) + 1 BY DEF NodesIn
  <2>4. Len(b) # 1 /\ (Len(b) = 2 <=> Len(p) = 1)
    <3>1. \A n \in Nat \ {0} : n + 1 # 1 /\ (n + 1 = 2 <=> n = 1) OBVIOUS
    <3>2. QED BY <2>2, <2>3, <3>1
  <2>5. AncestorType(b, 1) = TypeOf(b) BY <2>3, <2>4, InnermostType
  <2>6. Up(b) = p BY DEF NodesIn
  <2>7. QED BY <2>4, <2>5, <2>6 DEF TypeOf
<1> DEFINE t == TrackedType(b, Len(p) = 1)
<1>3. AncestorType(b, 1) = t BY <1>2
<1> HIDE DEF t
<1>4. <<t>> \o Pop(Ancestors(p)) =
        <<t, AncestorType(p, 1), AncestorType(p, 2), AncestorType(p, 3)>>
  BY Shifted DEF Ancestors
<1>5. Ancestors(b) = <<t>> \o Pop(Ancestors(p)) BY <1>1, <1>3, <1>4 DEF Ancestors
<1>6. QED BY <1>5 DEF t

LEMMA DynamicAncestors ==
  ASSUME WellFormed(tree), NEW p \in DOMAIN tree, Dynamic(p),
         NEW b \in NodesIn(p), Is(b, "block"), ~Dynamic(b)
  PROVE  Ancestors(b) = <<tree[b].name, "dynamic", "", "">>
<1>1. /\ AncestorType(b, 2) = "dynamic" /\ AncestorType(b, 3) = "" /\ AncestorType(b, 4) = ""
  BY FirstShifts
<1>2. AncestorType(b, 1) = tree[b].name
  <2>1. p \in Seq(Nat) /\ p # << >> /\ Len(p) # 1 BY DEF WellFormed, Dynamic, DynamicIn
  <2>2. Len(p) \in Nat \ {0} BY <2>1, EmptySeq
  <2>3. b \in DOMAIN tree /\ Len(b) = Len(p) + 1 /\ Up(b) = p BY DEF NodesIn
  <2>4. Len(b) > 2 /\ Len(b) # 1
    <3>1. \A n \in Nat \ {0} : n # 1 => n + 1 > 2 /\ n + 1 # 1 OBVIOUS
    <3>2. QED BY <2>1, <2>2, <2>3, <3>1
  <2>5. AncestorType(b, 1) = TypeOf(b) BY <2>3, <2>4, InnermostType
  <2>6. QED BY <2>3, <2>4, <2>5 DEF TypeOf
<1>3. QED BY <1>1, <1>2 DEF Ancestors

\* A chain of tracked types that ends at the top level is in the grammar iff
\* the call carries it.
LEMMA Chain ==
  ASSUME WellFormed(tree), NEW p \in DOMAIN tree, NEW a \in NodesIn(p),
         NEW types \in Seq(SUBSET Tracked), Len(types) # 0, types[Len(types)] \subseteq TopOnly,
         \A k \in 1..Len(types) - 1 : types[k] \cap TopOnly = {}
  PROVE  Around(a, types, TRUE) <=> \A k \in 1..Len(types) : AncestorType(p, k) \in types[k]
<1> DEFINE n == Len(types)
<1>1. /\ n \in Nat \ {0} /\ \A k \in 1..n : types[k] \in SUBSET Tracked
      /\ \A k \in 1..n - 1 : types[k] \cap TopOnly = {}
      /\ types[n] \subseteq TopOnly
  BY ElementOfSeq
<1>2. /\ Len(p) \in Nat \ {0} /\ Len(a) = Len(p) + 1 /\ Len(a) - 2 = Len(p) - 1
  <2>1. p \in Seq(Nat) /\ p # << >> BY DEF WellFormed
  <2>2. Len(a) = Len(p) + 1 BY DEF NodesIn
  <2>3. \A m \in Nat : (m + 1) - 2 = m - 1 OBVIOUS
  <2>4. QED BY <2>1, <2>2, <2>3, EmptySeq
<1>3. \A k \in 1..Len(p) : Slot(p, k) = Prefix(a, Len(a) - k) /\ Len(Slot(p, k)) = (Len(p) + 1) - k
  BY Slots
<1>4. "" \notin Tracked /\ "dynamic" \notin Tracked BY DEF Tracked, TopOnly, Unlabelled
<1>5. Around(a, types, TRUE) <=>
        /\ n <= Len(p) - 1
        /\ \A k \in 1..n : tree[Prefix(a, Len(a) - k)].name \in types[k]
        /\ \A k \in 1..n - 1 : tree[Prefix(a, Len(a) - k)].labels
                                 = Labels(tree[Prefix(a, Len(a) - k)].name)
        /\ Rooted(Prefix(a, Len(a) - n), TRUE)
  BY <1>2 DEF Around
<1> HIDE DEF n
\* Chain and call agree on each block when both are so long and no block of
\* the chain is dynamic.
<1>6. ASSUME n <= Len(p) - 1, \A k \in 1..n : ~Dynamic(Slot(p, k))
      PROVE  Around(a, types, TRUE) <=> \A k \in 1..n : AncestorType(p, k) \in types[k]
  <2>1. \A k \in 1..n : /\ k \in 1..Len(p) /\ k + 1 \in 1..Len(p) /\ ~(k > Len(p) - 1)
                        /\ \A j \in 1..k - 1 : j \in 1..n
    BY <1>1, <1>2, <1>6
  <2>2. ASSUME NEW k \in 1..n PROVE AncestorType(p, k) = TypeOf(Slot(p, k))
    BY <1>6, <2>1 DEF AncestorType
  <2>3. ASSUME NEW k \in 1..n - 1
        PROVE  TypeOf(Slot(p, k)) \in types[k] <=>
                 /\ tree[Slot(p, k)].name \in types[k]
                 /\ tree[Slot(p, k)].labels = Labels(tree[Slot(p, k)].name)
    <3>1. k \in 1..n /\ k + 1 \in 1..n BY <1>1
    <3>2. Up(Slot(p, k)) = Slot(p, k + 1) BY <2>1, <3>1, Slots
    <3>3. ~Dynamic(Slot(p, k)) /\ ~Dynamic(Up(Slot(p, k))) BY <1>6, <3>1, <3>2
    <3>4. types[k] \in SUBSET (Tracked \ TopOnly) BY <1>1, <3>1
    <3>5. QED BY <3>3, <3>4, InnerType
  <2>4. TypeOf(Slot(p, n)) \in types[n] <=>
          tree[Slot(p, n)].name \in types[n] /\ Rooted(Slot(p, n), TRUE)
    <3>1. n \in 1..n /\ n \in 1..Len(p) BY <1>1, <2>1
    <3>2. Len(Slot(p, n)) \in Nat /\ Len(Slot(p, n)) > 1
      <4>1. Len(Slot(p, n)) = (Len(p) + 1) - n BY <1>3, <3>1
      <4>2. \A l, m \in Nat \ {0} : m <= l - 1 => (l + 1) - m \in Nat /\ (l + 1) - m > 1 OBVIOUS
      <4>3. QED BY <1>1, <1>2, <1>6, <4>1, <4>2
    <3>3. types[n] \in SUBSET TopOnly /\ ~Dynamic(Slot(p, n)) BY <1>1, <1>6, <3>1
    <3>4. QED BY <3>2, <3>3, OutermostType
  <2>5. Around(a, types, TRUE) <=>
          /\ \A k \in 1..n : tree[Slot(p, k)].name \in types[k]
          /\ \A k \in 1..n - 1 : tree[Slot(p, k)].labels = Labels(tree[Slot(p, k)].name)
          /\ Rooted(Slot(p, n), TRUE)
    <3>1. \A k \in 1..n : Prefix(a, Len(a) - k) = Slot(p, k) BY <1>3, <2>1
    <3>2. n \in 1..n /\ \A k \in 1..n - 1 : k \in 1..n BY <1>1
    <3>3. QED BY <1>5, <1>6, <3>1, <3>2
  <2>6. \A k \in 1..n : k = n \/ k \in 1..n - 1 BY <1>1
  <2>7. n \in 1..n /\ \A k \in 1..n - 1 : k \in 1..n BY <1>1
  <2>8. QED BY <2>2, <2>3, <2>4, <2>5, <2>6, <2>7
<1>7. ASSUME Around(a, types, TRUE) \/ \A k \in 1..n : AncestorType(p, k) \in types[k]
      PROVE  n <= Len(p) - 1 /\ \A k \in 1..n : ~Dynamic(Slot(p, k))
  <2>1. CASE Around(a, types, TRUE)
    <3>1. n <= Len(p) - 1 BY <1>5, <2>1
    <3>2. ASSUME NEW k \in 1..n PROVE ~Dynamic(Slot(p, k))
      <4>1. k \in 1..Len(p) BY <1>1, <1>2, <3>1
      <4>2. tree[Slot(p, k)].name \in Tracked BY <1>1, <1>3, <1>5, <2>1, <4>1
      <4>3. QED BY <1>4, <4>2 DEF Dynamic, DynamicIn
    <3>3. QED BY <3>1, <3>2
  <2>2. CASE \A k \in 1..n : AncestorType(p, k) \in types[k]
    <3>1. ASSUME NEW k \in 1..n PROVE ~(k > Len(p) - 1) /\ ~Dynamic(Slot(p, k))
      <4>1. AncestorType(p, k) \in Tracked BY <1>1, <2>2
      <4>2. AncestorType(p, k) # "" /\ AncestorType(p, k) # "dynamic" BY <1>4, <4>1
      <4>3. QED BY <4>2 DEF AncestorType, TypeOf
    <3>2. n \in 1..n BY <1>1
    <3>3. n <= Len(p) - 1 BY <1>1, <1>2, <3>1, <3>2
    <3>4. QED BY <3>1, <3>3
  <2>3. QED BY <1>7, <2>1, <2>2
<1>8. QED BY <1>6, <1>7 DEF n

\* classifyScopeTraversalContext finds the position from the four types.
LEMMA OrdinaryPosition ==
  ASSUME WellFormed(tree), NEW p \in DOMAIN tree, ~Dynamic(p),
         NEW a \in NodesIn(p), Is(a, "attribute")
  PROVE  /\ Classify(InConfig(p), Ancestors(p), tree[a].name) = Position(a, TRUE)
         /\ Position(a, TRUE) = "provider" =>
              /\ Ancestors(p)[1] = "module" <=> RawAncestors(a)[1] = "module"
              /\ Ancestors(p)[1] = "action" <=> RawAncestors(a)[1] = "action"
              /\ Ancestors(p)[1] = "required_providers" /\ Ancestors(p)[2] = "terraform" <=>
                   RawAncestors(a)[1] = "required_providers" /\ RawAncestors(a)[2] = "terraform"
<1> DEFINE anc == Ancestors(p)
           A(k) == AncestorType(p, k)
<1>1. anc[1] = A(1) /\ anc[2] = A(2) /\ anc[3] = A(3) /\ anc[4] = A(4) BY DEF Ancestors
<1>2. /\ Len(p) \in Nat \ {0} /\ Len(a) = Len(p) + 1 /\ Len(a) - 2 = Len(p) - 1
      /\ a \in DOMAIN tree
      /\ \A i \in 1..Len(p) : Prefix(a, i) = Prefix(p, i)
  <2>1. p \in Seq(Nat) /\ p # << >> BY DEF WellFormed
  <2>2. Len(a) = Len(p) + 1 /\ a \in DOMAIN tree BY DEF NodesIn
  <2>3. \A m \in Nat : (m + 1) - 2 = m - 1 OBVIOUS
  <2>4. \A i \in 1..Len(p) : Prefix(a, i) = Prefix(p, i) BY AboveSelf, AboveChild
  <2>5. QED BY <2>1, <2>2, <2>3, <2>4, EmptySeq
<1>3. InActionConfig(a, TRUE) <=> InConfig(p)
  <2>1. Len(a) - 1 = Len(p) BY <1>2
  <2>2. \A i \in 3..Len(p) : Prefix(a, i) = Prefix(p, i) /\ Prefix(a, i - 1) = Prefix(p, i - 1)
    <3>1. \A i \in 3..Len(p) : i \in 1..Len(p) /\ i - 1 \in 1..Len(p) BY <1>2
    <3>2. QED BY <1>2, <3>1
  <2>3. QED BY <2>1, <2>2 DEF InActionConfig, InConfig, ActionAt, ConfigAt
\* The types that are taken anywhere
<1>4. /\ A(1) = "variable" <=> VariableLike(Up(a))
      /\ A(1) = "lifecycle" <=> LifecycleLike(Up(a))
  <2>1. Up(a) = p /\ A(1) = IF Len(p) = 1 THEN "" ELSE TypeOf(p)
    BY InnermostType DEF NodesIn
  <2>2. CASE Len(p) = 1
    <3>1. A(1) # "variable" /\ A(1) # "lifecycle" BY <2>1, <2>2
    <3>2. ~VariableLike(p) /\ ~LifecycleLike(p) BY <2>2 DEF VariableLike, LifecycleLike
    <3>3. QED BY <2>1, <3>1, <3>2
  <2>3. CASE Len(p) # 1
    <3>1. Len(p) > 1 BY <1>2, <2>3
    <3>2. Len(p) = 2 => ~Dynamic(Up(p))
      <4>1. ASSUME Len(p) = 2 PROVE Up(p) \in DOMAIN tree /\ Len(Up(p)) = 1
        <5>1. Up(p) \in DOMAIN tree BY <3>1 DEF WellFormed
        <5>2. p \in Seq(Nat) /\ Up(p) = Prefix(p, 1) /\ 1 \in 1..Len(p)
          BY <4>1 DEF WellFormed, Up, Prefix
        <5>3. QED BY <5>1, <5>2, Prefixes
      <4>2. QED BY <4>1 DEF WellFormed, Dynamic, DynamicIn
    <3> DEFINE top == Len(p) = 2
    <3>3. top \in BOOLEAN /\ TypeOf(p) = IF Dynamic(Up(p)) THEN tree[p].name ELSE TrackedType(p, top)
      BY <1>2, <3>1, <3>2 DEF TypeOf
    <3> HIDE DEF top
    <3>4. TrackedType(p, top) = "variable" <=> tree[p].name = "variable" BY <3>3, UntrackedName
    <3>5. TrackedType(p, top) = "lifecycle" <=> tree[p].name = "lifecycle" /\ tree[p].labels = 0
      <4> DEFINE T == {"lifecycle"}
      <4>1. T \in SUBSET Tracked /\ "lifecycle" \notin TopOnly /\ Labels("lifecycle") = 0
            /\ \A x : x \in T <=> x = "lifecycle"
        BY DEF Tracked, TopOnly, Unlabelled, Labels
      <4> HIDE DEF T
      <4>2. TrackedType(p, top) \in T <=>
              /\ tree[p].name \in T /\ tree[p].labels = Labels(tree[p].name)
              /\ tree[p].name \in TopOnly => top
        BY <3>3, <4>1, TrackedName
      <4>3. QED BY <4>1, <4>2
    <3>6. TypeOf(p) = "variable" <=> VariableLike(p) BY <3>1, <3>3, <3>4 DEF VariableLike
    <3>7. TypeOf(p) = "lifecycle" <=> LifecycleLike(p) BY <3>1, <3>3, <3>5 DEF LifecycleLike
    <3>8. QED BY <2>1, <2>3, <3>6, <3>7
  <2>4. QED BY <2>2, <2>3
\* The chains that end at the top level
<1>5. ASSUME NEW S \in SUBSET TopOnly
      PROVE  Around(a, <<S>>, TRUE) <=> A(1) \in S
  <2> DEFINE types == <<S>>
  <2>1. types \in Seq(SUBSET Tracked) /\ Len(types) = 1 /\ types[1] = S BY DEF Tracked
  <2> HIDE DEF types
  <2>2. /\ types \in Seq(SUBSET Tracked) /\ Len(types) # 0 /\ types[Len(types)] \subseteq TopOnly
        /\ \A k \in 1..Len(types) - 1 : types[k] \cap TopOnly = {}
    BY <2>1
  <2>3. Around(a, types, TRUE) <=> \A k \in 1..Len(types) : A(k) \in types[k]
    BY <2>2, Chain, Zenon
  <2>4. (\A k \in 1..Len(types) : A(k) \in types[k]) <=> A(1) \in S
    <3>1. 1..Len(types) = {1} BY <2>1
    <3>2. QED BY <2>1, <3>1
  <2>5. QED BY <2>3, <2>4 DEF types
<1>6. ASSUME NEW R \in SUBSET (Tracked \ TopOnly), NEW S \in SUBSET TopOnly
      PROVE  Around(a, <<R, S>>, TRUE) <=> A(1) \in R /\ A(2) \in S
  <2> DEFINE types == <<R, S>>
  <2>1. types \in Seq(SUBSET Tracked) /\ Len(types) = 2 /\ types[1] = R /\ types[2] = S BY DEF Tracked
  <2> HIDE DEF types
  <2>2. /\ types \in Seq(SUBSET Tracked) /\ Len(types) # 0 /\ types[Len(types)] \subseteq TopOnly
        /\ \A k \in 1..Len(types) - 1 : types[k] \cap TopOnly = {}
    BY <2>1
  <2>3. Around(a, types, TRUE) <=> \A k \in 1..Len(types) : A(k) \in types[k]
    BY <2>2, Chain, Zenon
  <2>4. (\A k \in 1..Len(types) : A(k) \in types[k]) <=> A(1) \in R /\ A(2) \in S
    <3>1. 1..Len(types) = {1, 2} BY <2>1
    <3>2. QED BY <2>1, <3>1
  <2>5. QED BY <2>3, <2>4 DEF types
<1>7. ASSUME NEW Q \in SUBSET (Tracked \ TopOnly), NEW R \in SUBSET (Tracked \ TopOnly),
             NEW S \in SUBSET TopOnly
      PROVE  Around(a, <<Q, R, S>>, TRUE) <=> A(1) \in Q /\ A(2) \in R /\ A(3) \in S
  <2> DEFINE types == <<Q, R, S>>
  <2>1. /\ types \in Seq(SUBSET Tracked) /\ Len(types) = 3
        /\ types[1] = Q /\ types[2] = R /\ types[3] = S
    BY DEF Tracked
  <2> HIDE DEF types
  <2>2. /\ types \in Seq(SUBSET Tracked) /\ Len(types) # 0 /\ types[Len(types)] \subseteq TopOnly
        /\ \A k \in 1..Len(types) - 1 : types[k] \cap TopOnly = {}
    BY <2>1
  <2>3. Around(a, types, TRUE) <=> \A k \in 1..Len(types) : A(k) \in types[k]
    BY <2>2, Chain, Zenon
  <2>4. (\A k \in 1..Len(types) : A(k) \in types[k]) <=> A(1) \in Q /\ A(2) \in R /\ A(3) \in S
    <3>1. 1..Len(types) = {1, 2, 3} BY <2>1
    <3>2. QED BY <2>1, <3>1
  <2>5. QED BY <2>3, <2>4 DEF types
<1>8. ASSUME NEW P \in SUBSET (Tracked \ TopOnly), NEW Q \in SUBSET (Tracked \ TopOnly),
             NEW R \in SUBSET (Tracked \ TopOnly), NEW S \in SUBSET TopOnly
      PROVE  Around(a, <<P, Q, R, S>>, TRUE) <=> A(1) \in P /\ A(2) \in Q /\ A(3) \in R /\ A(4) \in S
  <2> DEFINE types == <<P, Q, R, S>>
  <2>1. /\ types \in Seq(SUBSET Tracked) /\ Len(types) = 4
        /\ types[1] = P /\ types[2] = Q /\ types[3] = R /\ types[4] = S
    BY DEF Tracked
  <2> HIDE DEF types
  <2>2. /\ types \in Seq(SUBSET Tracked) /\ Len(types) # 0 /\ types[Len(types)] \subseteq TopOnly
        /\ \A k \in 1..Len(types) - 1 : types[k] \cap TopOnly = {}
    BY <2>1
  <2>3. Around(a, types, TRUE) <=> \A k \in 1..Len(types) : A(k) \in types[k]
    BY <2>2, Chain, Zenon
  <2>4. (\A k \in 1..Len(types) : A(k) \in types[k]) <=>
          A(1) \in P /\ A(2) \in Q /\ A(3) \in R /\ A(4) \in S
    <3>1. 1..Len(types) = {1, 2, 3, 4} BY <2>1
    <3>2. QED BY <2>1, <3>1
  <2>5. QED BY <2>3, <2>4 DEF types
\* The chains of Position
<1>9. /\ Around(a, <<{"module"}>>, TRUE) <=> A(1) = "module"
      /\ Around(a, <<WithProvider>>, TRUE) <=> A(1) \in WithProvider
  <2>1. {"module"} \in SUBSET TopOnly /\ WithProvider \in SUBSET TopOnly
    BY DEF TopOnly, WithProvider
  <2>2. QED BY <2>1, <1>5
<1>10. /\ Around(a, <<{"required_providers"}, {"terraform"}>>, TRUE) <=>
            A(1) = "required_providers" /\ A(2) = "terraform"
       /\ Around(a, <<{"provisioner"}, {"resource", "removed"}>>, TRUE) <=>
            A(1) = "provisioner" /\ A(2) \in {"resource", "removed"}
  <2>1. /\ {"required_providers"} \in SUBSET (Tracked \ TopOnly)
        /\ {"provisioner"} \in SUBSET (Tracked \ TopOnly)
        /\ {"terraform"} \in SUBSET TopOnly /\ {"resource", "removed"} \in SUBSET TopOnly
    BY DEF Tracked, TopOnly, Unlabelled
  <2>2. QED BY <2>1, <1>6
<1>11. /\ Around(a, <<{"action_trigger"}, {"lifecycle"}, {"resource"}>>, TRUE) <=>
            A(1) = "action_trigger" /\ A(2) = "lifecycle" /\ A(3) = "resource"
       /\ Around(a, <<{"state", "plan"}, {"encryption"}, {"terraform"}>>, TRUE) <=>
            A(1) \in {"state", "plan"} /\ A(2) = "encryption" /\ A(3) = "terraform"
  <2>1. /\ {"action_trigger"} \in SUBSET (Tracked \ TopOnly) /\ {"lifecycle"} \in SUBSET (Tracked \ TopOnly)
        /\ {"state", "plan"} \in SUBSET (Tracked \ TopOnly) /\ {"encryption"} \in SUBSET (Tracked \ TopOnly)
        /\ {"resource"} \in SUBSET TopOnly /\ {"terraform"} \in SUBSET TopOnly
    BY DEF Tracked, TopOnly, Unlabelled
  <2>2. QED BY <2>1, <1>7
<1>12. /\ {"fallback"} \in SUBSET (Tracked \ TopOnly) /\ {"state", "plan"} \in SUBSET (Tracked \ TopOnly)
       /\ {"default", "remote_state_data_source"} \in SUBSET (Tracked \ TopOnly)
       /\ {"remote_state_data_sources"} \in SUBSET (Tracked \ TopOnly)
       /\ {"encryption"} \in SUBSET (Tracked \ TopOnly) /\ {"terraform"} \in SUBSET TopOnly
  BY DEF Tracked, TopOnly, Unlabelled
<1>13. Around(a, <<{"fallback"}, {"state", "plan"}, {"encryption"}, {"terraform"}>>, TRUE) <=>
         A(1) = "fallback" /\ A(2) \in {"state", "plan"} /\ A(3) = "encryption" /\ A(4) = "terraform"
  <2> DEFINE P == {"fallback"}
             Q == {"state", "plan"}
             R == {"encryption"}
             S == {"terraform"}
  <2>1. /\ P \in SUBSET (Tracked \ TopOnly) /\ Q \in SUBSET (Tracked \ TopOnly)
        /\ R \in SUBSET (Tracked \ TopOnly) /\ S \in SUBSET TopOnly
    BY <1>12
  <2> HIDE DEF P, Q, R, S
  <2>2. Around(a, <<P, Q, R, S>>, TRUE) <=> A(1) \in P /\ A(2) \in Q /\ A(3) \in R /\ A(4) \in S
    BY <1>8, <2>1
  <2>3. QED BY <2>2 DEF P, Q, R, S
<1>14. Around(a, <<{"default", "remote_state_data_source"}, {"remote_state_data_sources"},
                         {"encryption"}, {"terraform"}>>, TRUE) <=>
         /\ A(1) \in {"default", "remote_state_data_source"} /\ A(2) = "remote_state_data_sources"
         /\ A(3) = "encryption" /\ A(4) = "terraform"
  <2> DEFINE P == {"default", "remote_state_data_source"}
             Q == {"remote_state_data_sources"}
             R == {"encryption"}
             S == {"terraform"}
  <2>1. /\ P \in SUBSET (Tracked \ TopOnly) /\ Q \in SUBSET (Tracked \ TopOnly)
        /\ R \in SUBSET (Tracked \ TopOnly) /\ S \in SUBSET TopOnly
    BY <1>12
  <2> HIDE DEF P, Q, R, S
  <2>2. Around(a, <<P, Q, R, S>>, TRUE) <=> A(1) \in P /\ A(2) \in Q /\ A(3) \in R /\ A(4) \in S
    BY <1>8, <2>1
  <2>3. QED BY <2>2 DEF P, Q, R, S
<1> HIDE DEF A, anc
<1>15. Classify(InConfig(p), anc, tree[a].name) = Position(a, TRUE)
  BY <1>1, <1>3, <1>4, <1>9, <1>10, <1>11, <1>13, <1>14 DEF Classify, Position, EncryptionTarget
\* What collectProviderReferences asks of the types, the names tell as well.
<1>16. ASSUME NEW k \in 1..4, A(k) \in Tracked
       PROVE  RawAncestors(a)[k] = A(k)
  <2>1. ~(k > Len(p) - 1) /\ tree[Slot(p, k)].name = A(k)
    <3>1. "" \notin Tracked /\ "dynamic" \notin Tracked BY DEF Tracked, TopOnly, Unlabelled
    <3>2. A(k) # "" /\ A(k) # "dynamic" BY <1>16, <3>1
    <3> DEFINE q == Slot(p, k)
               top == Len(q) = 2
    <3>3. ~(k > Len(p) - 1) /\ A(k) = TypeOf(q) BY <3>2 DEF A, AncestorType
    <3> HIDE DEF q
    <3>4. A(k) = tree[q].name \/ A(k) = TrackedType(q, top) BY <3>2, <3>3 DEF TypeOf
    <3> HIDE DEF top
    <3>5. TrackedType(q, top) \in {tree[q].name, ""} BY DEF TrackedType
    <3>6. QED BY <3>2, <3>3, <3>4, <3>5 DEF q
  <2>2. k \in 1..Len(p)
    <3>1. \A m \in Nat : ~(k > m - 1) => k \in 1..m OBVIOUS
    <3>2. QED BY <1>2, <2>1, <3>1
  <2>3. Slot(p, k) = Prefix(a, Len(a) - k) BY <2>2, Slots
  <2>4. Len(a) - k >= 2
    <3>1. \A m \in Nat : ~(k > m - 1) => (m + 1) - k >= 2 OBVIOUS
    <3>2. QED BY <1>2, <2>1, <3>1
  <2>5. QED BY <1>16, <2>1, <2>3, <2>4 DEF RawAncestors
<1>17. ASSUME Position(a, TRUE) = "provider"
       PROVE  \/ A(1) = "module" \/ A(1) \in WithProvider
              \/ A(1) = "required_providers" /\ A(2) = "terraform"
  BY <1>17, <1>9, <1>10 DEF Position
<1>18. ASSUME Position(a, TRUE) = "provider"
       PROVE  /\ A(1) = "module" <=> RawAncestors(a)[1] = "module"
              /\ A(1) = "action" <=> RawAncestors(a)[1] = "action"
              /\ A(1) = "required_providers" /\ A(2) = "terraform" <=>
                   RawAncestors(a)[1] = "required_providers" /\ RawAncestors(a)[2] = "terraform"
  <2>1. /\ {"module", "required_providers", "terraform"} \subseteq Tracked /\ WithProvider \subseteq Tracked
        /\ "required_providers" \notin WithProvider
    BY DEF Tracked, TopOnly, Unlabelled, WithProvider
  <2>2. A(1) \in Tracked BY <1>17, <1>18, <2>1
  <2>3. RawAncestors(a)[1] = A(1) BY <1>16, <2>2
  <2>4. A(1) = "required_providers" => A(2) = "terraform" BY <1>17, <1>18, <2>1
  <2>5. A(2) = "terraform" => RawAncestors(a)[2] = "terraform" BY <1>16, <2>1
  <2>6. QED BY <2>3, <2>4, <2>5
<1>19. QED BY <1>1, <1>15, <1>18 DEF anc

\* walkDynamicBlock knows one position only, or two.
LEMMA DynamicPosition ==
  ASSUME WellFormed(tree), NEW p \in DOMAIN tree, Dynamic(p),
         NEW a \in NodesIn(p), Is(a, "attribute")
  PROVE  Position(a, TRUE) = IF InConfig(p) THEN "action_config" ELSE "default"
<1>1. /\ Len(p) \in Nat \ {0} /\ Len(a) = Len(p) + 1
      /\ \A i \in 1..Len(p) : Prefix(a, i) = Prefix(p, i)
      /\ Prefix(a, Len(a) - 1) = p
  <2>1. p \in Seq(Nat) /\ p # << >> BY DEF WellFormed
  <2>2. Len(p) \in Nat \ {0} /\ 1 \in 1..Len(p) BY <2>1, EmptySeq
  <2>3. Len(a) = Len(p) + 1 BY DEF NodesIn
  <2>4. \A i \in 1..Len(p) : Prefix(a, i) = Prefix(p, i) BY AboveSelf, AboveChild
  <2>5. Prefix(a, Len(a) - 1) = p BY <2>2, Slots
  <2>6. QED BY <2>2, <2>3, <2>4, <2>5
<1>2. InActionConfig(a, TRUE) <=> InConfig(p)
  <2>1. Len(a) - 1 = Len(p) BY <1>1
  <2>2. \A i \in 3..Len(p) : Prefix(a, i) = Prefix(p, i) /\ Prefix(a, i - 1) = Prefix(p, i - 1)
    <3>1. \A i \in 3..Len(p) : i \in 1..Len(p) /\ i - 1 \in 1..Len(p) BY <1>1
    <3>2. QED BY <1>1, <3>1
  <2>3. QED BY <2>1, <2>2 DEF InActionConfig, InConfig, ActionAt, ConfigAt
<1>3. ASSUME NEW types, Len(types) \in Nat \ {0}, "dynamic" \notin types[1]
      PROVE  ~Around(a, types, TRUE)
  <2>1. 1 \in 1..Len(types) BY <1>3
  <2>2. tree[Prefix(a, Len(a) - 1)].name = "dynamic" BY <1>1 DEF Dynamic, DynamicIn
  <2>3. QED BY <1>3, <2>1, <2>2 DEF Around
<1>4. ASSUME NEW S, "dynamic" \notin S
      PROVE  /\ ~Around(a, <<S>>, TRUE)
             /\ \A T, U, V : /\ ~Around(a, <<S, T>>, TRUE)
                             /\ ~Around(a, <<S, T, U>>, TRUE)
                             /\ ~Around(a, <<S, T, U, V>>, TRUE)
  <2>1. ~Around(a, <<S>>, TRUE)
    <3>1. Len(<<S>>) \in Nat \ {0} /\ "dynamic" \notin <<S>>[1] BY <1>4
    <3>2. QED BY <1>3, <3>1
  <2>2. ASSUME NEW T PROVE ~Around(a, <<S, T>>, TRUE)
    <3>1. Len(<<S, T>>) \in Nat \ {0} /\ "dynamic" \notin <<S, T>>[1] BY <1>4
    <3>2. QED BY <1>3, <3>1
  <2>3. ASSUME NEW T, NEW U PROVE ~Around(a, <<S, T, U>>, TRUE)
    <3>1. Len(<<S, T, U>>) \in Nat \ {0} /\ "dynamic" \notin <<S, T, U>>[1] BY <1>4
    <3>2. QED BY <1>3, <3>1
  <2>4. ASSUME NEW T, NEW U, NEW V PROVE ~Around(a, <<S, T, U, V>>, TRUE)
    <3>1. Len(<<S, T, U, V>>) \in Nat \ {0} /\ "dynamic" \notin <<S, T, U, V>>[1] BY <1>4
    <3>2. QED BY <1>3, <3>1
  <2>5. QED BY <2>1, <2>2, <2>3, <2>4
<1>5. /\ "dynamic" \notin {"module"}
      /\ "dynamic" \notin WithProvider /\ "dynamic" \notin {"required_providers"}
      /\ "dynamic" \notin {"provisioner"} /\ "dynamic" \notin {"action_trigger"}
      /\ "dynamic" \notin {"state", "plan"} /\ "dynamic" \notin {"fallback"}
      /\ "dynamic" \notin {"default", "remote_state_data_source"}
  BY DEF WithProvider
<1>6. /\ ~VariableLike(Up(a)) /\ ~LifecycleLike(Up(a))
  <2>1. Up(a) = p /\ tree[p].name = "dynamic" BY DEF NodesIn, Dynamic, DynamicIn
  <2>2. QED BY <2>1 DEF VariableLike, LifecycleLike
<1>7. /\ ~Around(a, <<{"module"}>>, TRUE) /\ ~Around(a, <<WithProvider>>, TRUE)
      /\ ~Around(a, <<{"required_providers"}, {"terraform"}>>, TRUE)
      /\ ~Around(a, <<{"provisioner"}, {"resource", "removed"}>>, TRUE)
  BY <1>4, <1>5, Zenon
<1>8. /\ ~Around(a, <<{"action_trigger"}, {"lifecycle"}, {"resource"}>>, TRUE)
      /\ ~Around(a, <<{"state", "plan"}, {"encryption"}, {"terraform"}>>, TRUE)
  BY <1>4, <1>5, Zenon
<1>9. /\ ~Around(a, <<{"fallback"}, {"state", "plan"}, {"encryption"}, {"terraform"}>>, TRUE)
      /\ ~Around(a, <<{"default", "remote_state_data_source"}, {"remote_state_data_sources"},
                            {"encryption"}, {"terraform"}>>, TRUE)
  BY <1>4, <1>5, Zenon
<1>10. QED BY <1>2, <1>6, <1>7, <1>8, <1>9 DEF Position

LEMMA DeclarationOf ==
  ASSUME WellFormed(tree), NEW p \in DOMAIN tree, NEW a \in NodesIn(p), Is(a, "attribute")
  PROVE  Declaration(a) <=>
           \/ Dynamic(p) /\ tree[a].name = "iterator"
           \/ InLanguage(p) /\ tree[a].name = "edition" /\ Bare(ExprOf(a), {"tofu2024"})
<1>1. Up(a) = p /\ Len(a) = Len(p) + 1 BY DEF NodesIn
<1>2. Len(p) \in Nat \ {0} /\ 1 \in 1..Len(p)
  <2>1. p \in Seq(Nat) /\ p # << >> BY DEF WellFormed
  <2>2. QED BY <2>1, EmptySeq
<1>3. Prefix(a, Len(a) - 1) = p BY <1>2, Slots
<1>4. Around(a, <<{"language"}>>, FALSE) <=> InLanguage(p)
  <2> DEFINE types == <<{"language"}>>
  <2>1. Len(types) = 1 /\ types[1] = {"language"} OBVIOUS
  <2> HIDE DEF types
  <2>2. 1..Len(types) = {1} /\ 1..Len(types) - 1 = {} BY <2>1
  <2>3. Around(a, types, FALSE) <=>
          Len(a) - 2 >= 1 /\ tree[p].name = "language" /\ Rooted(p, FALSE)
    BY <1>3, <2>1, <2>2 DEF Around
  <2>4. Len(p) = 2 => Len(a) - 2 >= 1 BY <1>1, <1>2
  <2>5. Labels("language") = 0 BY DEF Labels
  <2>6. QED BY <2>3, <2>4, <2>5 DEF InLanguage, Rooted, types
<1>5. QED BY <1>1, <1>4 DEF Declaration

\* No ancestor of an attribute's expression is a key, nor the expression.
LEMMA ValueAbove ==
  ASSUME WellFormed(tree), NEW a \in DOMAIN tree, Is(a, "attribute")
  PROVE  /\ ExprOf(a) \in DOMAIN tree /\ Above(a, ExprOf(a)) /\ ~UnderKey(ExprOf(a))
<1>1. a \in Seq(Nat) /\ a # << >> /\ ExprOf(a) \in DOMAIN tree BY DEF WellFormed, Is, ExprOf
<1>2. Len(a) \in Nat \ {0} /\ Len(ExprOf(a)) = Len(a) + 1 /\ ExprOf(a) \in Seq(Nat)
  BY <1>1, EmptySeq, AppendProperties DEF ExprOf
<1>3. Up(ExprOf(a)) = a
  BY <1>1, <1>2, HeadTailAppend, SubSeqProperties, AppendProperties, SeqEqual DEF Up, ExprOf
<1>4. ExprOf(a) \in NodesIn(a) BY <1>1, <1>2, <1>3 DEF NodesIn
<1>5. Above(a, a) BY <1>1, AboveSelf
<1>6. Above(a, ExprOf(a)) /\ \A i \in 1..Len(a) : Prefix(ExprOf(a), i) = Prefix(a, i)
  BY <1>4, <1>5, AboveChild
<1>7. Prefix(a, Len(a)) = a /\ Prefix(ExprOf(a), Len(ExprOf(a))) = ExprOf(a)
  BY <1>1, <1>2, SubSeqFull DEF Prefix
<1>8. ASSUME NEW i \in 1..Len(ExprOf(a)) PROVE ~BareKey(Prefix(ExprOf(a), i))
  <2>1. CASE i = Len(ExprOf(a))
    <3>1. tree[ExprOf(a)].role # "key" BY <1>1, <1>3 DEF WellFormed, Is
    <3>2. QED BY <1>7, <2>1, <3>1 DEF BareKey
  <2>2. CASE i = Len(a) BY <1>6, <1>7, <1>2, <2>2 DEF BareKey, Traversal, Is
  <2>3. CASE i # Len(ExprOf(a)) /\ i # Len(a)
    <3>1. i \in 1..Len(a) - 1 BY <1>2, <2>3
    <3>2. tree[Prefix(ExprOf(a), i)].kind \in {"file", "block"} BY <1>1, <1>6, <3>1, UnderAttribute
    <3>3. QED BY <3>2 DEF BareKey, Traversal, Is
  <2>4. QED BY <2>1, <2>2, <2>3
<1>9. QED BY <1>1, <1>6, <1>8 DEF UnderKey

\* In the terms of the walk: what is left out below an attribute
LEMMA LeftOut ==
  ASSUME WellFormed(tree), NEW p \in DOMAIN tree, NEW a \in DOMAIN tree,
         Is(a, "attribute"), Above(a, p)
  PROVE  NotAReference(p, TRUE) <=>
           \/ Declaration(a) \/ UnderKey(p)
           \/ Traversal(p) /\ (Skipped(p, Position(a, TRUE)) \/ p \in RefsOf(a))
<1>1. AttributeOf(p) = a BY UnderAttribute
<1> DEFINE anc == [i \in 1..4 |-> IF Len(a) - i >= 2 THEN tree[Prefix(a, Len(a) - i)].name ELSE ""]
<1>2. anc = RawAncestors(a) BY DEF RawAncestors
<1> HIDE DEF anc
<1>3. NotAReference(p, TRUE) <=>
         \/ Declaration(a) \/ UnderKey(p)
         \/ Traversal(p) /\ \/ Skipped(p, Position(a, TRUE))
                            \/ Position(a, TRUE) = "provider" /\ p \in ProviderRefs(ExprOf(a), anc, tree[a].name)
  BY <1>1 DEF NotAReference, UnderKey, BareKey, anc
<1>4. QED BY <1>2, <1>3 DEF RefsOf

LEMMA InExpected ==
  ASSUME WellFormed(tree), NEW p \in DOMAIN tree, tree[p].kind \notin Structure, SetUp(p, context, refs)
  PROVE  p \in Expected(TRUE) <=> ~(Traversal(p) /\ (Skipped(p, context) \/ p \in refs))
<1>1. PICK a \in DOMAIN tree :
        /\ Is(a, "attribute") /\ Above(a, p) /\ ~Declaration(a) /\ ~UnderKey(p)
        /\ context = Position(a, TRUE) /\ refs = RefsOf(a)
  BY DEF SetUp
<1>2. p \in Expected(TRUE) <=> ~NotAReference(p, TRUE) BY DEF Expected, Is, Structure
<1>3. QED BY <1>1, <1>2, LeftOut

\* The same providers are left out whether the types are tracked or not.
LEMMA SameRefs ==
  ASSUME WellFormed(tree), NEW p \in DOMAIN tree, ~Dynamic(p),
         NEW a \in NodesIn(p), Is(a, "attribute"), Position(a, TRUE) = "provider"
  PROVE  ProviderRefs(ExprOf(a), Ancestors(p), tree[a].name) = RefsOf(a)
BY OrdinaryPosition DEF ProviderRefs, RefsOf

-----------------------------------------------------------------------------
(* What the lists of the walk hold *)

LEMMA CallLists ==
  ASSUME NEW s, IsSeq(s)
  PROVE  /\ s # << >> =>
              /\ AllPlaced(s) => PlaceOK(Top(s)) /\ AllPlaced(Pop(s))
              /\ \A q : InBodies(s, q) <=> InBodies(Pop(s), q) \/ q \in Top(s).attrs \cup Top(s).blocks
         /\ \A c : /\ AllPlaced(s) /\ PlaceOK(c) => AllPlaced(Append(s, c))
                   /\ \A q : InBodies(Append(s, c), q) <=> InBodies(s, q) \/ q \in c.attrs \cup c.blocks
<1>1. PICK S : s \in Seq(S) BY DEF IsSeq
<1>2. Len(s) \in Nat BY <1>1
<1>3. ASSUME s # << >>
      PROVE  /\ AllPlaced(s) => PlaceOK(Top(s)) /\ AllPlaced(Pop(s))
             /\ \A q : InBodies(s, q) <=> InBodies(Pop(s), q) \/ q \in Top(s).attrs \cup Top(s).blocks
  <2> DEFINE n == Len(s)
             t == Pop(s)
  <2>1. n \in Nat \ {0} BY <1>1, <1>3, EmptySeq
  <2>2. Len(t) = n - 1 /\ \A i \in 1..n - 1 : t[i] = s[i] BY <1>1, <1>3, PopProperties
  <2>3. Top(s) = s[n] BY DEF Top
  <2> HIDE DEF n, t
  <2>4. n \in 1..n /\ 1..n = (1..n - 1) \cup {n} BY <2>1
  <2>5. AllPlaced(s) => PlaceOK(s[n]) /\ AllPlaced(t) BY <2>2, <2>4 DEF AllPlaced, n
  <2>6. \A q : InBodies(s, q) <=> InBodies(t, q) \/ q \in s[n].attrs \cup s[n].blocks
    BY <2>2, <2>4 DEF InBodies, n
  <2>7. QED BY <2>3, <2>5, <2>6 DEF t
<1>4. ASSUME NEW c
      PROVE  /\ AllPlaced(s) /\ PlaceOK(c) => AllPlaced(Append(s, c))
             /\ \A q : InBodies(Append(s, c), q) <=> InBodies(s, q) \/ q \in c.attrs \cup c.blocks
  <2> DEFINE n == Len(s)
             t == Append(s, c)
  <2>1. s \in Seq(S \cup {c})
    <3>1. \A i \in 1..Len(s) : s[i] \in S \cup {c} BY <1>1, ElementOfSeq
    <3>2. s = [i \in 1..Len(s) |-> s[i]] BY <1>1
    <3>3. QED BY <1>2, <3>1, <3>2
  <2>2. Len(t) = n + 1 /\ (\A i \in 1..n : t[i] = s[i]) /\ t[n + 1] = c
    BY <2>1, AppendProperties
  <2>3. n \in Nat BY <1>2
  <2> HIDE DEF n, t
  <2>4. 1..n + 1 = (1..n) \cup {n + 1} BY <2>3
  <2>5. AllPlaced(s) /\ PlaceOK(c) => AllPlaced(t) BY <2>2, <2>4 DEF AllPlaced, n
  <2>6. \A q : InBodies(t, q) <=> InBodies(s, q) \/ q \in c.attrs \cup c.blocks
    BY <2>2, <2>4 DEF InBodies, n
  <2>7. QED BY <2>5, <2>6 DEF t
<1>5. QED BY <1>3, <1>4

LEMMA InLevels ==
  ASSUME NEW T, NEW s \in Seq(SUBSET T), NEW t \in Seq(SUBSET T), NEW q
  PROVE  /\ InLevel(s \o t, q) <=> InLevel(s, q) \/ InLevel(t, q)
         /\ \A S \in SUBSET T : InLevel(AsSeq(S), q) <=> \E e \in S : e.at = q
         /\ s # << >> => (InLevel(s, q) <=> (\E e \in Head(s) : e.at = q) \/ InLevel(Tail(s), q))
<1>1. /\ Len(s \o t) = Len(s) + Len(t) /\ Len(s) \in Nat /\ Len(t) \in Nat
      /\ \A i \in 1..Len(s) + Len(t) : (s \o t)[i] = IF i <= Len(s) THEN s[i] ELSE t[i - Len(s)]
  BY ConcatProperties
<1>2. InLevel(s \o t, q) <=> InLevel(s, q) \/ InLevel(t, q)
  <2> DEFINE m == Len(s)
             n == Len(t)
             u == s \o t
  <2>1. /\ m \in Nat /\ n \in Nat /\ Len(u) = m + n
        /\ \A i \in 1..m + n : u[i] = IF i <= m THEN s[i] ELSE t[i - m]
    BY <1>1
  <2> HIDE DEF m, n, u
  <2>2. ASSUME NEW i \in 1..m + n, \E e \in u[i] : e.at = q PROVE InLevel(s, q) \/ InLevel(t, q)
    <3>1. CASE i <= m
      <4>1. i \in 1..m /\ u[i] = s[i] BY <2>1, <3>1
      <4>2. QED BY <2>2, <4>1 DEF InLevel, m
    <3>2. CASE ~(i <= m)
      <4>1. i - m \in 1..n /\ u[i] = t[i - m] BY <2>1, <3>2
      <4>2. QED BY <2>2, <4>1 DEF InLevel, n
    <3>3. QED BY <3>1, <3>2
  <2>3. ASSUME NEW i \in 1..m, \E e \in s[i] : e.at = q PROVE InLevel(u, q)
    <3>1. i \in 1..m + n /\ u[i] = s[i] BY <2>1
    <3>2. QED BY <2>1, <2>3, <3>1 DEF InLevel
  <2>4. ASSUME NEW i \in 1..n, \E e \in t[i] : e.at = q PROVE InLevel(u, q)
    <3>1. i + m \in 1..m + n /\ ~(i + m <= m) /\ (i + m) - m = i BY <2>1
    <3>2. u[i + m] = t[i] BY <2>1, <3>1
    <3>3. QED BY <2>1, <2>4, <3>1, <3>2 DEF InLevel
  <2>5. QED BY <2>1, <2>2, <2>3, <2>4 DEF InLevel, m, n, u
<1>3. ASSUME NEW S \in SUBSET T PROVE InLevel(AsSeq(S), q) <=> \E e \in S : e.at = q
  <2>1. CASE S = {}
    <3>1. AsSeq(S) = << >> /\ Len(<< >>) = 0 BY <2>1 DEF AsSeq
    <3>2. QED BY <2>1, <3>1 DEF InLevel
  <2>2. CASE S # {}
    <3> DEFINE level == <<S>>
    <3>1. AsSeq(S) = level /\ Len(level) = 1 /\ level[1] = S BY <2>2 DEF AsSeq
    <3> HIDE DEF level
    <3>2. 1..Len(level) = {1} BY <3>1
    <3>3. QED BY <3>1, <3>2 DEF InLevel
  <2>3. QED BY <2>1, <2>2
<1>4. ASSUME s # << >>
      PROVE  InLevel(s, q) <=> (\E e \in Head(s) : e.at = q) \/ InLevel(Tail(s), q)
  <2> DEFINE n == Len(s)
             u == Tail(s)
  <2>1. /\ n \in Nat \ {0} /\ Head(s) = s[1] /\ Len(u) = n - 1
        /\ \A i \in 1..Len(u) : u[i] = s[i + 1]
    BY <1>4, HeadTailProperties, EmptySeq
  <2> HIDE DEF n, u
  <2>2. ASSUME NEW i \in 1..n, \E e \in s[i] : e.at = q
        PROVE  (\E e \in s[1] : e.at = q) \/ InLevel(u, q)
    <3>1. CASE i = 1 BY <2>2, <3>1
    <3>2. CASE i # 1
      <4>1. i - 1 \in 1..Len(u) /\ (i - 1) + 1 = i BY <2>1, <3>2
      <4>2. u[i - 1] = s[i] BY <2>1, <4>1
      <4>3. QED BY <2>2, <4>1, <4>2 DEF InLevel
    <3>3. QED BY <3>1, <3>2
  <2>3. ASSUME NEW i \in 1..Len(u), \E e \in u[i] : e.at = q PROVE InLevel(s, q)
    <3>1. i + 1 \in 1..n /\ s[i + 1] = u[i] BY <2>1
    <3>2. QED BY <2>3, <3>1 DEF InLevel, n
  <2>4. ASSUME \E e \in s[1] : e.at = q PROVE InLevel(s, q)
    <3>1. 1 \in 1..n BY <2>1
    <3>2. QED BY <2>4, <3>1 DEF InLevel, n
  <2>5. QED BY <2>1, <2>2, <2>3, <2>4 DEF InLevel, n, u
<1>5. QED BY <1>2, <1>3, <1>4

LEMMA GroupBefore ==
  ASSUME NEW T, NEW S \in SUBSET T, AsSeq(S) \in Seq(SUBSET T), NEW t \in Seq(SUBSET T), NEW q
  PROVE  InLevel(AsSeq(S) \o t, q) <=> (\E e \in S : e.at = q) \/ InLevel(t, q)
<1> DEFINE s == AsSeq(S)
<1>1. InLevel(s, q) <=> \E e \in S : e.at = q BY InLevels
<1>2. s \in Seq(SUBSET T) OBVIOUS
<1> HIDE DEF s
<1>3. InLevel(s \o t, q) <=> InLevel(s, q) \/ InLevel(t, q) BY <1>2, InLevels
<1>4. QED BY <1>1, <1>3 DEF s

LEMMA TodoLists ==
  ASSUME NEW T, NEW s \in Seq(T), NEW q
  PROVE  /\ s # << >> => (InTodo(s, q) <=> InTodo(Pop(s), q) \/ InLevel(Top(s), q))
         /\ \A l \in T : InTodo(Append(s, l), q) <=> InTodo(s, q) \/ InLevel(l, q)
<1>1. ASSUME s # << >> PROVE InTodo(s, q) <=> InTodo(Pop(s), q) \/ InLevel(Top(s), q)
  <2> DEFINE n == Len(s)
             t == Pop(s)
  <2>1. n \in Nat \ {0} BY <1>1, EmptySeq
  <2>2. Len(t) = n - 1 /\ \A i \in 1..n - 1 : t[i] = s[i] BY <1>1, PopProperties
  <2>3. Top(s) = s[n] BY DEF Top
  <2> HIDE DEF n, t
  <2>4. n \in 1..n /\ 1..n = (1..n - 1) \cup {n} BY <2>1
  <2>5. InTodo(s, q) <=> InTodo(t, q) \/ InLevel(s[n], q) BY <2>2, <2>4 DEF InTodo, n
  <2>6. QED BY <2>3, <2>5 DEF t
<1>2. ASSUME NEW l \in T PROVE InTodo(Append(s, l), q) <=> InTodo(s, q) \/ InLevel(l, q)
  <2> DEFINE n == Len(s)
             t == Append(s, l)
  <2>1. n \in Nat /\ Len(t) = n + 1 /\ (\A i \in 1..n : t[i] = s[i]) /\ t[n + 1] = l
    BY AppendProperties
  <2> HIDE DEF n, t
  <2>2. 1..n + 1 = (1..n) \cup {n + 1} BY <2>1
  <2>3. InTodo(t, q) <=> InTodo(s, q) \/ InLevel(l, q) BY <2>1, <2>2 DEF InTodo, n
  <2>4. QED BY <2>3 DEF t
<1>3. QED BY <1>1, <1>2

\* Entering the next node takes it off the lists and puts new on them.
LEMMA LaterLists ==
  ASSUME IInv, Upcoming, NEW new \in SUBSET Entry, \A e \in new : EntryOK(e, iters), NEW q
  PROVE  /\ InTodo(todo, Node)
         /\ InTodo(Later(new), q) => InTodo(todo, q) \/ \E e \in new : e.at = q
         /\ InTodo(todo, q) /\ q # Node => InTodo(Later(new), q)
         /\ (\E e \in new : e.at = q) => InTodo(Later(new), q)
<1> DEFINE others == {e \in Group : e.at # Node}
           level == AsSeq(new) \o Rest
<1>1. todo \in Seq(Seq(SUBSET Entry)) /\ todo # << >> /\ Len(todo) \in Nat \ {0}
  <2>1. todo \in Seq(Seq(SUBSET Entry)) /\ Len(todo) = Len(stack) + 1 /\ Len(stack) \in Nat
    BY DEF IInv, WalkType
  <2>2. QED BY <2>1
<1>2. /\ Top(todo) \in Seq(SUBSET Entry) /\ Top(todo) # << >>
      /\ Group \in SUBSET Entry /\ Tail(Top(todo)) \in Seq(SUBSET Entry)
  BY LevelOK
<1>3. others \in SUBSET Entry BY <1>2
<1>4. AsSeq(new) \in Seq(SUBSET Entry) /\ AsSeq(others) \in Seq(SUBSET Entry)
  BY <1>2, AsSeqOK, LevelOK
<1>5. Rest \in Seq(SUBSET Entry) BY <1>2, <1>4, ConcatProperties DEF Rest
<1>6. level \in Seq(SUBSET Entry) BY <1>4, <1>5, ConcatProperties
<1>7. ASSUME NEW r PROVE InLevel(Rest, r) <=> (\E e \in others : e.at = r) \/ InLevel(Tail(Top(todo)), r)
  <2> DEFINE below == Tail(Top(todo))
  <2>1. below \in Seq(SUBSET Entry) /\ Rest = AsSeq(others) \o below BY <1>2 DEF Rest
  <2> HIDE DEF others, below
  <2>2. InLevel(AsSeq(others) \o below, r) <=> (\E e \in others : e.at = r) \/ InLevel(below, r)
    BY <1>3, <1>4, <2>1, GroupBefore
  <2>3. QED BY <2>1, <2>2 DEF below
<1>8. ASSUME NEW r PROVE InLevel(level, r) <=> (\E e \in new : e.at = r) \/ InLevel(Rest, r)
  <2> DEFINE below == Rest
  <2>1. below \in Seq(SUBSET Entry) BY <1>5
  <2> HIDE DEF below
  <2>2. InLevel(AsSeq(new) \o below, r) <=> (\E e \in new : e.at = r) \/ InLevel(below, r)
    BY <1>4, <2>1, GroupBefore
  <2>3. QED BY <2>2 DEF below, level
<1>9. ASSUME NEW r
      PROVE  InLevel(Top(todo), r) <=> (\E e \in Group : e.at = r) \/ InLevel(Tail(Top(todo)), r)
  BY <1>2, InLevels DEF Group
<1>10. ASSUME NEW r PROVE InTodo(todo, r) <=> InTodo(Pop(todo), r) \/ InLevel(Top(todo), r)
  BY <1>1, TodoLists
<1> HIDE DEF level
<1>11. ASSUME NEW r PROVE InTodo(Later(new), r) <=> InTodo(Pop(todo), r) \/ InLevel(level, r)
  <2>1. Pop(todo) \in Seq(Seq(SUBSET Entry)) BY <1>1, PopProperties
  <2>2. InTodo(Append(Pop(todo), level), r) <=> InTodo(Pop(todo), r) \/ InLevel(level, r)
    BY <1>6, <2>1, TodoLists
  <2>3. QED BY <2>2 DEF Later, level
<1>12. InTodo(todo, Node)
  <2> DEFINE ats == {e.at : e \in Group}
  <2>1. ats \subseteq DOMAIN tree /\ ats # {} BY LevelOK DEF Entry
  <2>2. ats \subseteq Seq(Nat) /\ << >> \notin ats BY <2>1 DEF IInv, WellFormed
  <2>3. Node \in ats BY <2>1, <2>2, FirstIn DEF Node
  <2>4. QED BY <1>9, <1>10, <2>3
<1>13. QED BY <1>7, <1>8, <1>9, <1>10, <1>11, <1>12

-----------------------------------------------------------------------------
(* What a step leaves as it was *)

\* Where a node stands, and what is expected of the walk, only depend on the tree.
LEMMA SameShape ==
  ASSUME tree' = tree
  PROVE  /\ \A a : Position(a, TRUE)' = Position(a, TRUE) /\ Declaration(a)' = Declaration(a)
                     /\ RefsOf(a)' = RefsOf(a)
         /\ \A p : UnderKey(p)' = UnderKey(p)
         /\ Expected(TRUE)' = Expected(TRUE)
<1>1. \A p : /\ \A kind : Is(p, kind)' = Is(p, kind)
             /\ Traversal(p)' = Traversal(p) /\ Root(p)' = Root(p) /\ Dynamic(p)' = Dynamic(p)
             /\ NodesIn(p)' = NodesIn(p)
  BY DEF Is, Traversal, Root, Dynamic, DynamicIn, NodesIn
<1>2. \A p, names : Bare(p, names)' = Bare(p, names)
  BY <1>1 DEF Bare
<1>3. /\ \A b, tolerant : Rooted(b, tolerant)' = Rooted(b, tolerant)
      /\ \A a, types, tolerant : Around(a, types, tolerant)' = Around(a, types, tolerant)
  <2>1. \A b, tolerant : Rooted(b, tolerant)' = Rooted(b, tolerant) BY <1>1 DEF Rooted
  <2>2. QED BY <2>1 DEF Around
<1>4. /\ \A a : InActionConfig(a, TRUE)' = InActionConfig(a, TRUE)
      /\ \A b : VariableLike(b)' = VariableLike(b) /\ LifecycleLike(b)' = LifecycleLike(b)
  BY <1>1, <1>3 DEF InActionConfig, VariableLike, LifecycleLike
<1>5. \A a : Position(a, TRUE)' = Position(a, TRUE)
  <2> SUFFICES ASSUME NEW a PROVE Position(a, TRUE)' = Position(a, TRUE)
    OBVIOUS
  <2>1. /\ VariableLike(Up(a))' = VariableLike(Up(a))
        /\ LifecycleLike(Up(a))' = LifecycleLike(Up(a))
        /\ Around(a, <<{"module"}>>, TRUE)' = Around(a, <<{"module"}>>, TRUE)
        /\ Around(a, <<WithProvider>>, TRUE)' = Around(a, <<WithProvider>>, TRUE)
    BY <1>3, <1>4, Zenon DEF Up
  <2>2. /\ Around(a, <<{"required_providers"}, {"terraform"}>>, TRUE)'
             = Around(a, <<{"required_providers"}, {"terraform"}>>, TRUE)
        /\ Around(a, <<{"provisioner"}, {"resource", "removed"}>>, TRUE)'
             = Around(a, <<{"provisioner"}, {"resource", "removed"}>>, TRUE)
        /\ Around(a, <<{"action_trigger"}, {"lifecycle"}, {"resource"}>>, TRUE)'
             = Around(a, <<{"action_trigger"}, {"lifecycle"}, {"resource"}>>, TRUE)
    BY <1>3, Zenon
  <2>3. /\ Around(a, <<{"state", "plan"}, {"encryption"}, {"terraform"}>>, TRUE)'
             = Around(a, <<{"state", "plan"}, {"encryption"}, {"terraform"}>>, TRUE)
        /\ Around(a, <<{"fallback"}, {"state", "plan"}, {"encryption"}, {"terraform"}>>, TRUE)'
             = Around(a, <<{"fallback"}, {"state", "plan"}, {"encryption"}, {"terraform"}>>, TRUE)
        /\ Around(a, <<{"default", "remote_state_data_source"},
                             {"remote_state_data_sources"}, {"encryption"}, {"terraform"}>>, TRUE)'
             = Around(a, <<{"default", "remote_state_data_source"},
                                {"remote_state_data_sources"}, {"encryption"}, {"terraform"}>>, TRUE)
    BY <1>3, Zenon
  <2>4. tree'[a].name = tree[a].name OBVIOUS
  <2>5. QED BY <1>4, <2>1, <2>2, <2>3, <2>4 DEF Position
<1>6. \A a : Declaration(a)' = Declaration(a)
  BY <1>1, <1>2, <1>3 DEF Declaration, ExprOf
<1>7. \A p, root, allow : ProviderTraversal(p, root, allow)' = ProviderTraversal(p, root, allow)
  BY <1>1 DEF ProviderTraversal
<1>8. \A p, root, allow : ProviderRef(p, root, allow)' = ProviderRef(p, root, allow)
  BY <1>1, <1>7 DEF ProviderRef
<1>9. \A e, anc, name : ProviderRefs(e, anc, name)' = ProviderRefs(e, anc, name)
  <2> SUFFICES ASSUME NEW e, NEW anc, NEW name
               PROVE  ProviderRefs(e, anc, name)' = ProviderRefs(e, anc, name)
    OBVIOUS
  <2> DEFINE values == {c \in NodesIn(e) : Is(e, "object")}
             tuples == {c \in NodesIn(e) :
                          /\ Is(e, "object") /\ Is(c, "tuple")
                          /\ tree[c].role = "value" /\ tree[c].name = "configuration_aliases"}
             members == UNION {NodesIn(t) : t \in tuples}
             inModule == UNION {ProviderRef(q, "", tree[q].role = "value") : q \in values}
             inAliases == UNION {ProviderRef(q, name, FALSE) : q \in members}
             single == ProviderRef(e, "", anc[1] # "action")
  <2>1. values' = values /\ tuples' = tuples BY <1>1
  <2>2. members' = members
    <3> HIDE DEF tuples
    <3>1. \A t : NodesIn(t)' = NodesIn(t) BY <1>1
    <3>2. QED BY <2>1, <3>1
  <2>3. inModule' = inModule
    <3> HIDE DEF values
    <3> DEFINE F(q) == ProviderRef(q, "", tree[q].role = "value")
    <3>1. \A q : F(q)' = F(q) BY <1>8, Zenon
    <3> HIDE DEF F
    <3>2. (UNION {F(q) : q \in values})' = UNION {F(q) : q \in values} BY <2>1, <3>1
    <3>3. QED BY <3>2 DEF F
  <2>4. inAliases' = inAliases
    <3> HIDE DEF members
    <3>1. \A q : ProviderRef(q, name, FALSE)' = ProviderRef(q, name, FALSE) BY <1>8
    <3>2. QED BY <2>2, <3>1
  <2>5. single' = single BY <1>8, Zenon
  <2>6. ProviderRefs(e, anc, name) =
          IF anc[1] = "module" /\ name = "providers" THEN inModule
          ELSE IF anc[1] = "required_providers" /\ anc[2] = "terraform" THEN inAliases ELSE single
    BY Zenon DEF ProviderRefs
  <2>7. ProviderRefs(e, anc, name)' =
          IF anc[1] = "module" /\ name = "providers" THEN inModule'
          ELSE IF anc[1] = "required_providers" /\ anc[2] = "terraform" THEN inAliases' ELSE single'
    BY Zenon DEF ProviderRefs
  <2> HIDE DEF inModule, inAliases, single
  <2>8. QED BY <2>3, <2>4, <2>5, <2>6, <2>7
<1>10. \A a : RefsOf(a)' = RefsOf(a)
  <2>1. \A a : RawAncestors(a)' = RawAncestors(a) BY DEF RawAncestors
  <2>2. ASSUME NEW a PROVE RefsOf(a)' = RefsOf(a)
    <3>1. ProviderRefs(ExprOf(a), RawAncestors(a), tree[a].name)'
            = ProviderRefs(ExprOf(a), RawAncestors(a), tree[a].name)
      BY <1>9, <2>1 DEF ExprOf
    <3>2. (Position(a, TRUE) = "provider")' <=> Position(a, TRUE) = "provider" BY <1>5, Zenon
    <3>3. QED BY <3>1, <3>2, Zenon DEF RefsOf
  <2>3. QED BY <2>2
<1>11. \A p : UnderKey(p)' = UnderKey(p) BY <1>1 DEF UnderKey, BareKey
<1>12. \A p, c : Skipped(p, c)' = Skipped(p, c) BY <1>1, <1>2 DEF Skipped
<1>13. \A p : AttributeOf(p)' = AttributeOf(p) BY <1>1 DEF AttributeOf
<1>14. \A p : NotAReference(p, TRUE)' = NotAReference(p, TRUE)
  <2> SUFFICES ASSUME NEW p PROVE NotAReference(p, TRUE)' = NotAReference(p, TRUE)
    OBVIOUS
  <2> DEFINE a == AttributeOf(p)
             kept == Skipped(p, Position(a, TRUE))
             provider == Position(a, TRUE) = "provider"
             anc == [i \in 1..4 |-> IF Len(a) - i >= 2 THEN tree[Prefix(a, Len(a) - i)].name ELSE ""]
             providers == ProviderRefs(ExprOf(a), anc, tree[a].name)
             key == \E i \in 1..Len(p) : BareKey(Prefix(p, i))
  <2>1. a' = a BY <1>13
  <2>2. Position(a, TRUE)' = Position(a, TRUE) BY <1>5, <2>1, Zenon
  <2>3. kept' = kept /\ provider' = provider BY <1>12, <2>2, Zenon
  <2>4. providers' = providers
    <3>1. anc' = anc /\ ExprOf(a)' = ExprOf(a) /\ (tree[a].name)' = tree[a].name BY <2>1 DEF ExprOf
    <3> HIDE DEF a, anc
    <3>2. QED BY <1>9, <3>1, Zenon
  <2>5. key' = key /\ Traversal(p)' = Traversal(p) /\ Declaration(a)' = Declaration(a)
    BY <1>1, <1>6, <2>1 DEF BareKey
  <2>6. NotAReference(p, TRUE) =
          (Declaration(a) \/ key \/ (Traversal(p) /\ (kept \/ (provider /\ p \in providers))))
    BY DEF NotAReference, BareKey
  <2>7. NotAReference(p, TRUE)' =
          (Declaration(a)' \/ key' \/ (Traversal(p)' /\ (kept' \/ (provider' /\ p \in providers'))))
    BY DEF NotAReference, BareKey
  <2> HIDE DEF a, kept, provider, providers, key
  <2>8. QED BY <2>3, <2>4, <2>5, <2>6, <2>7, Zenon
<1>15. Expected(TRUE)' = Expected(TRUE) BY <1>1, <1>14 DEF Expected
<1>16. QED BY <1>5, <1>6, <1>10, <1>11, <1>15

LEMMA SamePlaces ==
  ASSUME tree' = tree
  PROVE  /\ \A b : PlaceOK(b)' = PlaceOK(b)
         /\ \A s : AllPlaced(s)' = AllPlaced(s)
         /\ \A p, c, r : SetUp(p, c, r)' = SetUp(p, c, r)
<1>1. \A p : Dynamic(p)' = Dynamic(p) BY DEF Dynamic, DynamicIn
<1>2. \A q, top : TrackedType(q, top)' = TrackedType(q, top) BY DEF TrackedType
<1>3. \A p, k : AncestorType(p, k)' = AncestorType(p, k)
  BY <1>1, <1>2 DEF AncestorType, TypeOf
<1>4. \A p : Ancestors(p)' = Ancestors(p) BY <1>3 DEF Ancestors
<1>5. \A b : PlaceOK(b)' = PlaceOK(b)
  <2>1. \A q : ActionAt(q)' = ActionAt(q) /\ ConfigAt(q)' = ConfigAt(q)
    BY <1>1 DEF ActionAt, ConfigAt, Rooted
  <2>2. \A p : InConfig(p)' = InConfig(p) BY <2>1 DEF InConfig
  <2>3. QED BY <1>4, <2>2 DEF PlaceOK, InLanguage
<1>6. \A s : AllPlaced(s)' = AllPlaced(s) BY <1>5 DEF AllPlaced
<1>7. \A p, c, r : SetUp(p, c, r)' = SetUp(p, c, r)
  BY SameShape DEF SetUp, Is
<1>8. QED BY <1>5, <1>6, <1>7

-----------------------------------------------------------------------------
(* The steps keep everything within reach *)

\* What hangs from a node a step takes off the lists hangs from one it puts
\* there, or has been visited.
LEMMA CoverStep ==
  ASSUME Covered, tree' = tree, Visited \subseteq Visited',
         \A r \in DOMAIN tree : Pending(r) =>
           \/ Pending(r)'
           \/ \A p \in Expected(TRUE) : Above(r, p) =>
                \/ p \in Visited'
                \/ \E s \in DOMAIN tree : Pending(s)' /\ Above(s, p)
  PROVE  Covered'
<1>1. SUFFICES ASSUME NEW p \in Expected(TRUE), p \notin Visited'
               PROVE  \E s \in DOMAIN tree : Pending(s)' /\ Above(s, p)
  BY SameShape DEF Covered, Above, Prefix
<1>2. PICK r \in DOMAIN tree : Pending(r) /\ Above(r, p) BY <1>1 DEF Covered
<1>3. QED BY <1>1, <1>2

\* An expression below a body is below one of its attributes or blocks.
LEMMA BodyCovers ==
  ASSUME WellFormed(tree), NEW b \in DOMAIN tree, tree[b].kind \in {"file", "block"},
         NEW p \in Expected(TRUE), Above(b, p)
  PROVE  \E q \in NodesIn(b) : (Is(q, "attribute") \/ Is(q, "block")) /\ Above(q, p)
<1>1. p \in DOMAIN tree /\ p # b BY DEF Expected, Is
<1>2. PICK q \in NodesIn(b) : Above(q, p) BY <1>1, Fork
<1>3. q \in DOMAIN tree /\ Up(q) = b /\ Len(q) = Len(b) + 1 /\ b \in Seq(Nat) /\ b # << >>
  BY DEF NodesIn, WellFormed
<1>4. Len(q) > 1 BY <1>3, EmptySeq
<1>5. tree[q].kind \in Structure /\ tree[q].kind # "file" BY <1>3, <1>4 DEF WellFormed
<1>6. QED BY <1>2, <1>5 DEF Is, Structure

\* Taking the attributes or blocks of S off the current call
LEMMA Removed ==
  ASSUME IInv, bodies # << >>, NEW S, NEW s,
         \/ s = WithCurrent([Current EXCEPT !.attrs = @ \ S])
         \/ s = WithCurrent([Current EXCEPT !.blocks = @ \ S])
  PROVE  /\ PlacesOK => PlaceOK(Current) /\ AllPlaced(s)
         /\ \A q : InBodies(bodies, q) /\ q \notin S => InBodies(s, q)
         /\ IsSeq(s)
<1>1. BodyOK(Current) BY CurrentOK
<1>2. PICK c : /\ s = WithCurrent(c)
               /\ c.at = Current.at /\ c.dynamic = Current.dynamic /\ c.anc = Current.anc
               /\ c.action = Current.action /\ c.language = Current.language
               /\ (Current.attrs \cup Current.blocks) \ S \subseteq c.attrs \cup c.blocks
  <2>1. CASE s = WithCurrent([Current EXCEPT !.attrs = @ \ S])
    <3> DEFINE c == [Current EXCEPT !.attrs = @ \ S]
    <3>1. /\ c.at = Current.at /\ c.dynamic = Current.dynamic /\ c.anc = Current.anc
          /\ c.action = Current.action /\ c.language = Current.language
          /\ c.attrs = Current.attrs \ S /\ c.blocks = Current.blocks
      BY <1>1 DEF BodyOK
    <3> HIDE DEF c
    <3>2. (Current.attrs \cup Current.blocks) \ S \subseteq c.attrs \cup c.blocks BY <3>1
    <3>3. s = WithCurrent(c) BY <2>1 DEF c
    <3>4. QED BY <3>1, <3>2, <3>3
  <2>2. CASE s = WithCurrent([Current EXCEPT !.blocks = @ \ S])
    <3> DEFINE c == [Current EXCEPT !.blocks = @ \ S]
    <3>1. /\ c.at = Current.at /\ c.dynamic = Current.dynamic /\ c.anc = Current.anc
          /\ c.action = Current.action /\ c.language = Current.language
          /\ c.attrs = Current.attrs /\ c.blocks = Current.blocks \ S
      BY <1>1 DEF BodyOK
    <3> HIDE DEF c
    <3>2. (Current.attrs \cup Current.blocks) \ S \subseteq c.attrs \cup c.blocks BY <3>1
    <3>3. s = WithCurrent(c) BY <2>2 DEF c
    <3>4. QED BY <3>1, <3>2, <3>3
  <2>3. QED BY <2>1, <2>2
<1>3. s = Append(Pop(bodies), c) BY <1>2 DEF WithCurrent
<1>4. BodiesOK(Pop(bodies)) /\ BodiesOK(bodies) BY CallStack DEF IInv, BodiesInv
<1>5. IsSeq(Pop(bodies)) /\ IsSeq(bodies) BY <1>4 DEF BodiesOK
<1>6. /\ PlacesOK => PlaceOK(Current) /\ AllPlaced(Pop(bodies))
      /\ \A q : InBodies(bodies, q) <=> InBodies(Pop(bodies), q) \/ q \in Current.attrs \cup Current.blocks
  BY <1>5, CallLists DEF PlacesOK, Current
<1>7. /\ AllPlaced(Pop(bodies)) /\ PlaceOK(c) => AllPlaced(s)
      /\ \A q : InBodies(s, q) <=> InBodies(Pop(bodies), q) \/ q \in c.attrs \cup c.blocks
  BY <1>3, <1>5, CallLists
<1>8. PlaceOK(Current) => PlaceOK(c) BY <1>2 DEF PlaceOK
<1>9. IsSeq(s)
  <2>1. BodiesOK(s) BY Narrowed
  <2>2. QED BY <2>1 DEF BodiesOK
<1>10. QED BY <1>2, <1>6, <1>7, <1>8, <1>9

LEMMA NonEmpty ==
  ASSUME NEW s, IsSeq(s), NEW c
  PROVE  Append(s, c) # << >>
<1>1. PICK S : s \in Seq(S) BY DEF IsSeq
<1>2. s \in Seq(S \cup {c})
  <2>1. Len(s) \in Nat BY <1>1
  <2>2. \A i \in 1..Len(s) : s[i] \in S \cup {c} BY <1>1, ElementOfSeq
  <2>3. s = [i \in 1..Len(s) |-> s[i]] BY <1>1
  <2>4. QED BY <2>1, <2>2, <2>3
<1>3. QED BY <1>2, AppendProperties

\* A step that leaves the walker and the visits alone
LEMMA CallStep ==
  ASSUME Complete, tree' = tree, UNCHANGED <<todo, context, refs, seen>>, AllPlaced(bodies'), Phase',
         \A r \in DOMAIN tree : r \in files \/ InBodies(bodies, r) =>
           \/ r \in files' \/ InBodies(bodies', r)
           \/ \A p \in Expected(TRUE) : Above(r, p) =>
                \E s \in DOMAIN tree : InBodies(bodies', s) /\ Above(s, p)
  PROVE  Complete'
<1>1. PlacesOK' BY SamePlaces DEF PlacesOK
<1>2. WalkerSetUp' BY SamePlaces DEF Complete, WalkerSetUp
<1>3. SeenExpected' BY SameShape DEF Complete, SeenExpected, Visited
<1>4. Covered'
  <2>1. Visited' = Visited BY DEF Visited
  <2>2. \A r : Pending(r)' <=> r \in files' \/ InBodies(bodies', r) \/ InTodo(todo, r)
    BY DEF Pending
  <2>3. QED BY <2>1, <2>2, CoverStep DEF Complete, Pending
<1>5. QED BY <1>1, <1>2, <1>3, <1>4 DEF Complete

LEMMA OpenFileComplete ==
  ASSUME IInv, Complete, OpenFile
  PROVE  Complete'
<1> DEFINE f == First(files)
           b == Body(f, {}, FALSE, FALSE, FALSE, NoAncestry)
<1>1. f \in files
  <2>1. files \subseteq Seq(Nat) /\ << >> \notin files
    BY DEF IInv, FilesInv, WellFormed
  <2>2. QED BY <2>1, FirstIn DEF OpenFile
<1>2. f \in DOMAIN tree /\ Len(f) = 1 /\ tree[f].kind = "file"
  <2>1. f \in DOMAIN tree /\ Len(f) = 1 BY <1>1 DEF IInv, FilesInv
  <2>2. QED BY <2>1 DEF IInv, WellFormed
<1>3. bodies = << >> /\ IsSeq(bodies) BY EmptySeq DEF OpenFile, IsSeq
<1>4. bodies' = Append(bodies, b) /\ files' = files \ {f} BY <1>3 DEF OpenFile
<1>5. /\ b.at = f /\ ~b.dynamic /\ ~b.action /\ ~b.language /\ b.anc = NoAncestry
      /\ b.attrs = {q \in NodesIn(f) : Is(q, "attribute")}
      /\ b.blocks = {q \in NodesIn(f) : Is(q, "block")}
  BY DEF Body
<1> HIDE DEF f, b
<1>6. PlaceOK(b)
  <2>1. ASSUME NEW k \in 1..4 PROVE AncestorType(f, k) = ""
    <3>1. k > Len(f) - 1 BY <1>2
    <3>2. QED BY <3>1, Zenon DEF AncestorType
  <2>2. 1 \in 1..4 /\ 2 \in 1..4 /\ 3 \in 1..4 /\ 4 \in 1..4 OBVIOUS
  <2>3. /\ AncestorType(f, 1) = "" /\ AncestorType(f, 2) = ""
        /\ AncestorType(f, 3) = "" /\ AncestorType(f, 4) = ""
    BY <2>1, <2>2
  <2>4. Ancestors(f) = NoAncestry BY <2>3 DEF Ancestors, NoAncestry
  <2>5. ~InConfig(f) /\ ~InLanguage(f) BY <1>2 DEF InConfig, InLanguage
  <2>6. QED BY <1>5, <2>4, <2>5 DEF PlaceOK
<1>7. AllPlaced(bodies) /\ \A q : ~InBodies(bodies, q)
  <2>1. Len(bodies) = 0 BY <1>3
  <2>2. QED BY <2>1 DEF AllPlaced, InBodies
<1>8. /\ AllPlaced(bodies')
      /\ \A q : InBodies(bodies', q) <=> q \in b.attrs \cup b.blocks
  BY <1>3, <1>4, <1>6, <1>7, CallLists
<1>9. bodies' # << >> BY <1>3, <1>4, NonEmpty
<1>10. ~done /\ done' = done /\ tree' = tree /\ UNCHANGED <<todo, context, refs, seen>>
  BY DEF OpenFile, input, walker, output
<1>11. Phase' BY <1>9, <1>10 DEF Phase
<1>12. \A p \in Expected(TRUE) : Above(f, p) => \E s \in DOMAIN tree : InBodies(bodies', s) /\ Above(s, p)
  <2>1. SUFFICES ASSUME NEW p \in Expected(TRUE), Above(f, p)
                 PROVE  \E s \in DOMAIN tree : InBodies(bodies', s) /\ Above(s, p)
    OBVIOUS
  <2>2. PICK q \in NodesIn(f) : (Is(q, "attribute") \/ Is(q, "block")) /\ Above(q, p)
    BY <1>2, <2>1, BodyCovers DEF IInv
  <2>3. q \in DOMAIN tree /\ InBodies(bodies', q) BY <1>5, <1>8, <2>2 DEF NodesIn
  <2>4. QED BY <2>2, <2>3
<1>13. QED BY <1>4, <1>7, <1>8, <1>10, <1>11, <1>12, CallStep

\* The current call once one of its attributes is taken
LEMMA AttributeTaken ==
  ASSUME IInv, Complete, bodies # << >>, NEW a \in Current.attrs,
         bodies' = WithCurrent([Current EXCEPT !.attrs = @ \ {a}])
  PROVE  /\ BodyOK(Current) /\ PlaceOK(Current) /\ Current.at \in DOMAIN tree
         /\ a \in NodesIn(Current.at) /\ Is(a, "attribute") /\ a \in DOMAIN tree
         /\ AllPlaced(bodies') /\ bodies' # << >>
         /\ \A q : InBodies(bodies, q) /\ q # a => InBodies(bodies', q)
<1>1. BodyOK(Current) BY CurrentOK
<1>2. /\ Current.at \in DOMAIN tree /\ a \in NodesIn(Current.at) /\ Is(a, "attribute")
      /\ a \in DOMAIN tree
  BY <1>1 DEF BodyOK, NodesIn
<1>3. /\ PlaceOK(Current) /\ AllPlaced(bodies')
      /\ \A q : InBodies(bodies, q) /\ q # a => InBodies(bodies', q)
  <2> DEFINE S == {a}
  <2>1. bodies' = WithCurrent([Current EXCEPT !.attrs = @ \ S]) OBVIOUS
  <2> HIDE DEF S
  <2>2. /\ PlacesOK => PlaceOK(Current) /\ AllPlaced(bodies')
        /\ \A q : InBodies(bodies, q) /\ q \notin S => InBodies(bodies', q)
    BY <2>1, Removed
  <2>3. QED BY <2>2 DEF Complete, S
<1>4. bodies' # << >>
  <2>1. bodies' = Append(Pop(bodies), [Current EXCEPT !.attrs = @ \ {a}]) BY DEF WithCurrent
  <2>2. BodiesOK(Pop(bodies)) BY CallStack DEF IInv, BodiesInv
  <2>3. QED BY <2>1, <2>2, NonEmpty DEF BodiesOK
<1>5. QED BY <1>1, <1>2, <1>3, <1>4

\* An attribute that is a declaration has nothing to visit.
LEMMA SkipAttributeComplete ==
  ASSUME IInv, Complete, bodies # << >>, NEW a \in Current.attrs, SkipAttribute(a)
  PROVE  Complete'
<1>1. /\ BodyOK(Current) /\ PlaceOK(Current) /\ Current.at \in DOMAIN tree
      /\ a \in NodesIn(Current.at) /\ Is(a, "attribute") /\ a \in DOMAIN tree
      /\ AllPlaced(bodies') /\ bodies' # << >>
      /\ \A q : InBodies(bodies, q) /\ q # a => InBodies(bodies', q)
  BY AttributeTaken DEF SkipAttribute
<1>2. Declaration(a)
  BY <1>1, DeclarationOf DEF SkipAttribute, Declares, BodyOK, PlaceOK, IInv
<1>3. ASSUME NEW p \in Expected(TRUE) PROVE ~Above(a, p)
  <2>1. p \in DOMAIN tree /\ ~NotAReference(p, TRUE) BY DEF Expected
  <2>2. QED BY <1>1, <1>2, <2>1, LeftOut DEF IInv
<1>4. files' = files /\ done' = done /\ tree' = tree /\ UNCHANGED <<todo, context, refs, seen>>
  BY DEF SkipAttribute, input, walker, output
<1>5. Phase' BY <1>1, <1>4 DEF Phase, Complete
<1>6. QED BY <1>1, <1>3, <1>4, <1>5, CallStep

\* The expression of an attribute takes its place.
LEMMA StartWalkComplete ==
  ASSUME IInv, Complete, bodies # << >>, todo = Idle, NEW a \in Current.attrs,
         NEW names, NEW c, NEW r, StartWalk(a, names, c, r),
         ~Declaration(a), c = Position(a, TRUE), r = RefsOf(a)
  PROVE  Complete'
<1> DEFINE e == ExprOf(a)
           group == {[at |-> e, own |-> TRUE]}
           level == <<group>>
<1>1. /\ a \in NodesIn(Current.at) /\ Is(a, "attribute") /\ a \in DOMAIN tree
      /\ AllPlaced(bodies') /\ bodies' # << >>
      /\ \A q : InBodies(bodies, q) /\ q # a => InBodies(bodies', q)
  BY AttributeTaken DEF StartWalk
<1>2. todo' = <<level>> /\ context' = c /\ refs' = r BY DEF StartWalk
<1>3. files' = files /\ done' = done /\ tree' = tree /\ seen' = seen
  BY DEF StartWalk, input, output
<1>4. \A q : InTodo(todo', q) <=> q = e
  <2>1. Len(level) = 1 /\ level[1] = group /\ \A x \in group : x.at = e OBVIOUS
  <2>2. \E x \in group : x.at = e OBVIOUS
  <2> HIDE DEF group, level, e
  <2>3. \A q : InLevel(level, q) <=> q = e
    <3>1. 1..Len(level) = {1} BY <2>1
    <3>2. QED BY <2>1, <2>2, <3>1 DEF InLevel
  <2>4. Len(todo') = 1 /\ todo'[1] = level BY <1>2
  <2>5. 1..Len(todo') = {1} BY <2>4
  <2>6. QED BY <2>3, <2>4, <2>5 DEF InTodo
<1>5. \A q : ~InTodo(todo, q)
  <2>1. Len(todo) = 1 /\ todo[1] = << >> /\ Len(todo[1]) = 0 BY DEF Idle
  <2>2. 1..Len(todo) = {1} /\ 1..Len(todo[1]) = {} BY <2>1
  <2>3. QED BY <2>1, <2>2 DEF InTodo, InLevel
<1>6. /\ e \in DOMAIN tree /\ Above(a, e) /\ ~UnderKey(e)
  BY <1>1, ValueAbove DEF IInv
<1> HIDE DEF e, group, level
<1>7. WalkerSetUp'
  <2>1. SetUp(e, c, r) BY <1>1, <1>6 DEF SetUp
  <2>2. SetUp(e, context, refs)' BY <1>2, <1>3, <2>1, SamePlaces
  <2>3. QED BY <1>4, <2>2 DEF WalkerSetUp
<1>8. ASSUME NEW p \in Expected(TRUE), Above(a, p) PROVE Above(e, p)
  <2>1. p \in DOMAIN tree /\ p # a BY <1>1 DEF Expected, Is
  <2>2. QED BY <1>1, <1>8, <2>1, UnderAttribute DEF IInv, e
<1>9. Covered'
  <2>1. Visited' = Visited BY <1>3 DEF Visited
  <2>2. \A q : Pending(q)' <=> q \in files \/ InBodies(bodies', q) \/ q = e
    BY <1>3, <1>4 DEF Pending
  <2>3. ASSUME NEW q \in DOMAIN tree, Pending(q)
        PROVE  \/ Pending(q)'
               \/ \A p \in Expected(TRUE) : Above(q, p) => Pending(e)' /\ Above(e, p)
    <3>1. q \in files \/ InBodies(bodies, q) BY <1>5, <2>3 DEF Pending
    <3>2. CASE q = a BY <1>8, <2>2, <3>2
    <3>3. CASE q # a BY <1>1, <2>2, <3>1, <3>3
    <3>4. QED BY <3>2, <3>3
  <2>4. QED BY <1>3, <1>6, <2>1, <2>3, CoverStep DEF Complete
<1>10. PlacesOK' BY <1>1, <1>3, SamePlaces DEF PlacesOK
<1>11. SeenExpected' BY <1>3, SameShape DEF Complete, SeenExpected, Visited
<1>12. Phase' BY <1>1, <1>3 DEF Complete, Phase
<1>13. QED BY <1>7, <1>9, <1>10, <1>11, <1>12 DEF Complete

LEMMA AttributeComplete ==
  ASSUME IInv, Complete, Attribute
  PROVE  Complete'
<1>1. bodies # << >> /\ todo = Idle BY DEF Attribute
<1>2. PICK a \in Current.attrs : SkipAttribute(a) \/ WalkAttribute(a) \/ WalkDynamicAttribute(a)
  BY DEF Attribute
<1>3. CASE SkipAttribute(a) BY <1>1, <1>3, SkipAttributeComplete
<1>4. BodyOK(Current) BY <1>1, CurrentOK
<1>5. /\ Current.at \in DOMAIN tree /\ a \in NodesIn(Current.at) /\ Is(a, "attribute")
      /\ (Current.dynamic <=> Dynamic(Current.at)) /\ WellFormed(tree)
  BY <1>4 DEF BodyOK, IInv
<1>6. PlaceOK(Current)
  <2>1. BodiesOK(bodies) BY DEF IInv, BodiesInv
  <2>2. QED BY <1>1, <2>1, CallLists DEF BodiesOK, Complete, PlacesOK, Current
<1>7. Declares(a) <=> Declaration(a)
  <2>1. Declaration(a) <=>
          \/ Dynamic(Current.at) /\ tree[a].name = "iterator"
          \/ InLanguage(Current.at) /\ tree[a].name = "edition" /\ Bare(ExprOf(a), {"tofu2024"})
    BY <1>5, DeclarationOf
  <2>2. InLanguage(Current.at) => ~Dynamic(Current.at) BY DEF InLanguage, Dynamic, DynamicIn
  <2>3. Current.language <=> InLanguage(Current.at) BY <1>6 DEF PlaceOK
  <2>4. QED BY <1>5, <2>1, <2>2, <2>3 DEF Declares
<1> DEFINE name == tree[a].name
<1>8. CASE WalkAttribute(a)
  <2> DEFINE c == Classify(Current.action, Current.anc, name)
             r == IF c = "provider" THEN ProviderRefs(ExprOf(a), Current.anc, name) ELSE {}
  <2>1. ~Current.dynamic /\ ~Declares(a) /\ StartWalk(a, Current.iters, c, r)
    BY <1>8, Zenon DEF WalkAttribute
  <2>2. Current.anc = Ancestors(Current.at) /\ ~Dynamic(Current.at)
    BY <1>5, <1>6, <2>1 DEF PlaceOK
  <2>3. Classify(InConfig(Current.at), Ancestors(Current.at), name) = Position(a, TRUE)
    BY <1>5, <2>2, OrdinaryPosition
  <2>4. c = Position(a, TRUE)
    <3>1. CASE Current.action
      <4>1. Classify(TRUE, Ancestors(Current.at), name) = "action_config" BY DEF Classify
      <4>2. Classify(InConfig(Current.at), Ancestors(Current.at), name) = "action_config"
        BY <1>6, <3>1 DEF Classify, PlaceOK
      <4>3. c = "action_config" BY <3>1 DEF Classify
      <4>4. QED BY <2>3, <4>2, <4>3
    <3>2. CASE ~Current.action
      <4>1. ~InConfig(Current.at) BY <1>6, <3>2 DEF PlaceOK
      <4>2. Classify(InConfig(Current.at), Ancestors(Current.at), name)
              = Classify(Current.action, Ancestors(Current.at), name)
        BY <3>2, <4>1 DEF Classify
      <4>3. QED BY <2>2, <2>3, <4>2
    <3>3. QED BY <3>1, <3>2
  <2>5. r = RefsOf(a)
    <3>1. CASE c = "provider"
      <4>1. ProviderRefs(ExprOf(a), Ancestors(Current.at), name) = RefsOf(a)
        BY <1>5, <2>2, <2>4, <3>1, SameRefs
      <4>2. QED BY <2>2, <3>1, <4>1
    <3>2. CASE c # "provider" BY <2>4, <3>2 DEF RefsOf
    <3>3. QED BY <3>1, <3>2
  <2> HIDE DEF c, r
  <2>6. QED BY <1>1, <1>7, <2>1, <2>4, <2>5, StartWalkComplete
<1>9. CASE WalkDynamicAttribute(a)
  <2> DEFINE c == IF Current.action THEN "action_config" ELSE "default"
             r == {}
  <2>1. /\ Current.dynamic /\ ~Declares(a)
        /\ \E names : StartWalk(a, names, c, r)
    BY <1>9 DEF WalkDynamicAttribute
  <2>2. c = Position(a, TRUE) BY <1>5, <1>6, <2>1, DynamicPosition DEF PlaceOK
  <2>3. r = RefsOf(a) BY <2>2 DEF RefsOf
  <2> HIDE DEF c, r
  <2>4. QED BY <1>1, <1>7, <2>1, <2>2, <2>3, StartWalkComplete
<1>10. QED BY <1>2, <1>3, <1>8, <1>9

\* A config block directly in an action, and what it contains
LEMMA ConfigShifts ==
  ASSUME WellFormed(tree), NEW p \in DOMAIN tree, NEW b \in NodesIn(p)
  PROVE  InConfig(b) <=> InConfig(p) \/ (Len(p) > 1 /\ ActionAt(p) /\ ConfigAt(b))
<1>1. /\ Len(b) = Len(p) + 1 /\ Prefix(b, Len(b)) = b
      /\ \A i \in 1..Len(p) : Prefix(b, i) = Prefix(p, i)
  BY AboveSelf, AboveChild
<1>2. Len(p) \in Nat \ {0} /\ Prefix(p, Len(p)) = p
  <2>1. p \in Seq(Nat) /\ p # << >> BY DEF WellFormed
  <2>2. QED BY <2>1, EmptySeq, SubSeqFull DEF Prefix
<1>3. ASSUME NEW i \in 3..Len(p) PROVE Prefix(b, i) = Prefix(p, i) /\ Prefix(b, i - 1) = Prefix(p, i - 1)
  <2>1. i \in 1..Len(p) /\ i - 1 \in 1..Len(p) BY <1>2
  <2>2. QED BY <1>1, <2>1
<1>4. Len(b) - 1 = Len(p) /\ Prefix(b, Len(b) - 1) = p BY <1>1, <1>2
<1>5. \A i : i \in 3..Len(b) <=> i \in 3..Len(p) \/ (Len(p) > 1 /\ i = Len(b)) BY <1>1, <1>2
<1>6. QED BY <1>1, <1>3, <1>4, <1>5 DEF InConfig

\* The types and the flags a call is handed are those at its block.
LEMMA BlockPlaced ==
  ASSUME IInv, NEW b, NextBlock(b), PlaceOK(Current),
         OrdinaryBlock(b) \/ DynamicBlock(b) \/ InDynamic(b)
  PROVE  \E c : /\ Descend(b, c) /\ PlaceOK(c)
                /\ c.attrs = {q \in NodesIn(b) : Is(q, "attribute")}
                /\ c.blocks = {q \in NodesIn(b) : Is(q, "block")}
<1> DEFINE p == Current.at
<1>1. BodyOK(Current) /\ b \in NodesIn(p) /\ Is(b, "block") /\ b \in DOMAIN tree
  BY NextBlockOK
<1>2. /\ WellFormed(tree) /\ p \in DOMAIN tree /\ (Current.dynamic <=> Dynamic(p))
      /\ Len(b) = Len(p) + 1 /\ Len(p) \in Nat \ {0} /\ Up(b) = p
  <2>1. p \in DOMAIN tree /\ (Current.dynamic <=> Dynamic(p)) /\ WellFormed(tree)
    BY <1>1 DEF BodyOK, IInv
  <2>2. Len(b) = Len(p) + 1 /\ Up(b) = p BY <1>1 DEF NodesIn
  <2>3. p \in Seq(Nat) /\ p # << >> BY <2>1 DEF WellFormed
  <2>4. QED BY <2>1, <2>2, <2>3, EmptySeq
<1>3. InConfig(b) <=> InConfig(p) \/ (Len(p) > 1 /\ ActionAt(p) /\ ConfigAt(b))
  BY <1>1, <1>2, ConfigShifts
<1>4. /\ Current.action <=> InConfig(p)
      /\ ~Current.dynamic => Current.anc = Ancestors(p)
  BY DEF PlaceOK
<1>5. Len(b) = 2 <=> Len(p) = 1
  <2>1. \A n \in Nat : n + 1 = 2 <=> n = 1 OBVIOUS
  <2>2. QED BY <1>2, <2>1
<1>6. Dynamic(p) => Len(p) # 1
  <2>1. Len(p) = 1 <=> tree[p].kind = "file" BY <1>2 DEF WellFormed
  <2>2. QED BY <2>1 DEF Dynamic, DynamicIn
<1> HIDE DEF p
<1>7. CASE OrdinaryBlock(b)
  <2> DEFINE top == Len(p) = 1
             language == top /\ tree[b].name = "language" /\ tree[b].labels = 0
             action == \/ Current.action
                       \/ tree[b].name = "config" /\ tree[b].labels = 0 /\ Current.anc[1] = "action"
             anc == <<TrackedType(b, top)>> \o Pop(Current.anc)
             c == Body(b, Current.iters, FALSE, language, action, anc)
  <2>1. ~Current.dynamic /\ ~Dynamic(b) /\ Descend(b, c)
    BY <1>7, Zenon DEF OrdinaryBlock, p
  <2>2. /\ c.at = b /\ c.dynamic = FALSE /\ c.anc = anc
        /\ (c.action <=> action) /\ (c.language <=> language)
        /\ c.attrs = {q \in NodesIn(b) : Is(q, "attribute")}
        /\ c.blocks = {q \in NodesIn(b) : Is(q, "block")}
    BY DEF Body
  <2> HIDE DEF c
  <2>3. ~Dynamic(p) /\ Current.anc = Ancestors(p) BY <1>2, <1>4, <2>1
  <2>4. anc = Ancestors(b)
    <3>1. Ancestors(b) = <<TrackedType(b, Len(p) = 1)>> \o Pop(Ancestors(p))
      BY <1>1, <1>2, <2>1, <2>3, OrdinaryAncestors
    <3>2. QED BY <2>3, <3>1
  <2>5. action <=> InConfig(b)
    <3>1. Current.anc[1] = AncestorType(p, 1) BY <2>3 DEF Ancestors
    <3>2. AncestorType(p, 1) = IF Len(p) = 1 THEN "" ELSE TypeOf(p)
      BY <1>2, InnermostType
    <3>3. ASSUME Len(p) > 1 PROVE TypeOf(p) = "action" <=> ActionAt(p)
      <4> DEFINE T == {"action"}
      <4>1. T \in SUBSET TopOnly /\ \A x : x \in T <=> x = "action" BY DEF TopOnly
      <4> HIDE DEF T
      <4>2. TypeOf(p) \in T <=> tree[p].name \in T /\ Rooted(p, TRUE)
        BY <1>2, <2>3, <3>3, <4>1, OutermostType
      <4>3. QED BY <4>1, <4>2 DEF ActionAt
    <3>4. Current.anc[1] = "action" <=> Len(p) > 1 /\ ActionAt(p)
      <4>1. CASE Len(p) = 1
        <5>1. AncestorType(p, 1) = "" BY <3>2, <4>1, Zenon
        <5>2. Current.anc[1] # "action" BY <3>1, <5>1
        <5>3. ~(Len(p) > 1) BY <4>1
        <5>4. QED BY <5>2, <5>3
      <4>2. CASE Len(p) # 1
        <5>1. Len(p) > 1
          <6>1. \A n \in Nat \ {0} : n # 1 => n > 1 OBVIOUS
          <6>2. QED BY <1>2, <4>2, <6>1
        <5>2. AncestorType(p, 1) = TypeOf(p) BY <3>2, <4>2
        <5>3. Current.anc[1] = TypeOf(p) BY <3>1, <5>2, Zenon
        <5>4. QED BY <3>3, <5>1, <5>3
      <4>3. QED BY <4>1, <4>2
    <3>5. QED BY <1>3, <1>4, <3>4 DEF ConfigAt
  <2>6. language <=> InLanguage(b) BY <1>5 DEF InLanguage
  <2> HIDE DEF anc, action, language
  <2>7. PlaceOK(c) BY <2>2, <2>4, <2>5, <2>6 DEF PlaceOK
  <2>8. QED BY <2>1, <2>2, <2>7
<1>8. CASE DynamicBlock(b)
  <2> DEFINE c == Body(b, Current.iters, TRUE, FALSE, Current.action, NoAncestry)
  <2>1. Dynamic(b) /\ Descend(b, c) BY <1>8 DEF DynamicBlock
  <2>2. /\ c.at = b /\ c.dynamic = TRUE /\ c.action = Current.action /\ c.language = FALSE
        /\ c.attrs = {q \in NodesIn(b) : Is(q, "attribute")}
        /\ c.blocks = {q \in NodesIn(b) : Is(q, "block")}
    BY DEF Body
  <2> HIDE DEF c
  <2>3. tree[b].name = "dynamic" BY <2>1 DEF Dynamic, DynamicIn
  <2>4. ~InLanguage(b) /\ (InConfig(b) <=> InConfig(p)) BY <1>3, <2>3 DEF InLanguage, ConfigAt
  <2>5. PlaceOK(c) BY <1>4, <2>2, <2>4 DEF PlaceOK
  <2>6. QED BY <2>1, <2>2, <2>5
<1>9. CASE InDynamic(b)
  <2> DEFINE anc == <<tree[b].name, "dynamic", "", "">>
             names == IF tree[b].name = "content" THEN Augmented ELSE Current.iters
             c == Body(b, names, FALSE, FALSE, Current.action, anc)
  <2>1. Current.dynamic /\ Descend(b, c) BY <1>9 DEF InDynamic
  <2>2. /\ c.at = b /\ c.dynamic = FALSE /\ c.action = Current.action /\ c.language = FALSE
        /\ c.anc = anc
        /\ c.attrs = {q \in NodesIn(b) : Is(q, "attribute")}
        /\ c.blocks = {q \in NodesIn(b) : Is(q, "block")}
    BY DEF Body
  <2> HIDE DEF c
  <2>3. Dynamic(p) BY <1>2, <2>1
  <2>4. Len(p) # 1 BY <1>6, <2>3
  <2>5. Len(b) > 1 BY <1>2
  <2>6. ~Dynamic(b) BY <1>1, <1>2, <2>3, <2>5 DEF WellFormed, Dynamic
  <2>7. Ancestors(b) = anc BY <1>1, <1>2, <2>3, <2>6, DynamicAncestors
  <2>8. tree[p].name = "dynamic" BY <2>3 DEF Dynamic, DynamicIn
  <2>9. ~InLanguage(b) /\ (InConfig(b) <=> InConfig(p)) BY <1>3, <1>5, <2>4, <2>8 DEF InLanguage, ActionAt
  <2> HIDE DEF anc
  <2>10. PlaceOK(c) BY <1>4, <2>2, <2>7, <2>9 DEF PlaceOK
  <2>11. QED BY <2>1, <2>2, <2>10
<1>10. QED BY <1>7, <1>8, <1>9

\* The attributes and blocks of a block take its place.
LEMMA BlockComplete ==
  ASSUME IInv, Complete, NEW b,
         OrdinaryBlock(b) \/ DynamicBlock(b) \/ InDynamic(b)
  PROVE  Complete'
<1>1. NextBlock(b) /\ bodies # << >> BY DEF OrdinaryBlock, DynamicBlock, InDynamic, NextBlock
<1>2. b \in DOMAIN tree /\ Is(b, "block") /\ WellFormed(tree) BY <1>1, NextBlockOK DEF IInv
<1> DEFINE S == {b}
           s == WithCurrent([Current EXCEPT !.blocks = @ \ S])
<1>3. /\ PlaceOK(Current) /\ AllPlaced(s)
      /\ \A q : InBodies(bodies, q) /\ q \notin S => InBodies(s, q)
      /\ IsSeq(s)
  <2> HIDE DEF S
  <2>1. s = WithCurrent([Current EXCEPT !.blocks = @ \ S]) OBVIOUS
  <2> HIDE DEF s
  <2>2. /\ PlacesOK => PlaceOK(Current) /\ AllPlaced(s)
        /\ \A q : InBodies(bodies, q) /\ q \notin S => InBodies(s, q)
        /\ IsSeq(s)
    BY <1>1, <2>1, Removed
  <2>3. QED BY <2>2 DEF Complete
<1>4. PICK c : /\ Descend(b, c) /\ PlaceOK(c)
               /\ c.attrs = {q \in NodesIn(b) : Is(q, "attribute")}
               /\ c.blocks = {q \in NodesIn(b) : Is(q, "block")}
  BY <1>1, <1>3, BlockPlaced
<1>5. /\ bodies' = Append(s, c)
      /\ files' = files /\ done' = done /\ tree' = tree /\ UNCHANGED <<todo, context, refs, seen>>
  BY <1>4 DEF Descend, input, walker, output
<1> HIDE DEF s
<1>6. /\ AllPlaced(bodies')
      /\ \A q : InBodies(bodies', q) <=> InBodies(s, q) \/ q \in c.attrs \cup c.blocks
  BY <1>3, <1>4, <1>5, CallLists
<1>7. bodies' # << >> BY <1>3, <1>5, NonEmpty
<1>8. Phase' BY <1>1, <1>5, <1>7 DEF Complete, Phase
<1>9. \A p \in Expected(TRUE) : Above(b, p) => \E q \in DOMAIN tree : InBodies(bodies', q) /\ Above(q, p)
  <2>1. SUFFICES ASSUME NEW p \in Expected(TRUE), Above(b, p)
                 PROVE  \E q \in DOMAIN tree : InBodies(bodies', q) /\ Above(q, p)
    OBVIOUS
  <2>2. PICK q \in NodesIn(b) : (Is(q, "attribute") \/ Is(q, "block")) /\ Above(q, p)
    BY <1>2, <2>1, BodyCovers DEF Is
  <2>3. q \in DOMAIN tree /\ InBodies(bodies', q) BY <1>4, <1>6, <2>2 DEF NodesIn
  <2>4. QED BY <2>2, <2>3
<1>10. \A r : InBodies(bodies, r) => r = b \/ InBodies(bodies', r) BY <1>3, <1>6
<1>11. QED BY <1>5, <1>6, <1>8, <1>9, <1>10, CallStep

LEMMA ReturnComplete ==
  ASSUME IInv, Complete, Return
  PROVE  Complete'
<1>1. /\ bodies # << >> /\ todo = Idle /\ Current.attrs = {} /\ Current.blocks = {}
      /\ bodies' = Pop(bodies) /\ files' = files /\ done' = done /\ tree' = tree
      /\ UNCHANGED <<todo, context, refs, seen>>
  BY DEF Return, input, walker, output
<1>2. IsSeq(bodies) BY DEF IInv, BodiesInv, BodiesOK
<1>3. /\ AllPlaced(bodies')
      /\ \A q : InBodies(bodies, q) <=> InBodies(bodies', q) \/ q \in Current.attrs \cup Current.blocks
  BY <1>1, <1>2, CallLists DEF Complete, PlacesOK, Current
<1>4. Phase' BY <1>1 DEF Complete, Phase
<1>5. \A r : InBodies(bodies, r) => InBodies(bodies', r) BY <1>1, <1>3
<1>6. QED BY <1>1, <1>3, <1>4, <1>5, CallStep

\* A step of the walker: its lists lose at most what is visited or has nothing
\* to visit, and gain what is below the same attribute.
LEMMA WalkerStep ==
  ASSUME IInv, Complete, bodies # << >>, tree' = tree, SeenExpected', Visited \subseteq Visited',
         UNCHANGED <<files, bodies, context, refs, done>>,
         \A q \in DOMAIN tree : InTodo(todo', q) => InTodo(todo, q) \/ SetUp(q, context, refs),
         \A r \in DOMAIN tree : InTodo(todo, r) =>
           \/ InTodo(todo', r)
           \/ \A p \in Expected(TRUE) : Above(r, p) =>
                p \in Visited' \/ \E s \in DOMAIN tree : InTodo(todo', s) /\ Above(s, p)
  PROVE  Complete'
<1>1. PlacesOK' BY SamePlaces DEF Complete, PlacesOK
<1>2. WalkerSetUp' BY SamePlaces DEF Complete, WalkerSetUp
<1>3. Covered'
  <2>1. \A r : Pending(r)' <=> r \in files \/ InBodies(bodies, r) \/ InTodo(todo', r)
    BY DEF Pending
  <2>2. QED BY <2>1, CoverStep DEF Complete, Pending
<1>4. Phase' BY DEF Complete, Phase
<1>5. QED BY <1>1, <1>2, <1>3, <1>4 DEF Complete

\* The walker only walks within a call.
LEMMA Walking ==
  ASSUME Complete, Upcoming \/ Len(todo) > 1
  PROVE  bodies # << >>
<1>1. ASSUME todo = Idle PROVE FALSE
  <2>1. Len(todo) = 1 /\ todo[1] = << >> BY <1>1 DEF Idle
  <2>2. Top(todo) = << >> BY <2>1 DEF Top
  <2>3. QED BY <2>1, <2>2 DEF Upcoming
<1>2. QED BY <1>1 DEF Complete, Phase

\* A traversal has nothing below it.
LEMMA Leaf ==
  ASSUME WellFormed(tree), NEW q \in DOMAIN tree, Traversal(q), NEW p \in DOMAIN tree, Above(q, p)
  PROVE  p = q
<1>1. SUFFICES ASSUME p # q PROVE FALSE
  OBVIOUS
<1>2. PICK c \in NodesIn(q) : Above(c, p) BY <1>1, Fork
<1>3. c \in DOMAIN tree /\ Up(c) = q /\ Len(c) = Len(q) + 1 /\ q \in Seq(Nat) /\ q # << >>
  BY DEF NodesIn, WellFormed
<1>4. Len(c) > 1 BY <1>3, EmptySeq
<1>5. QED BY <1>3, <1>4 DEF WellFormed, Traversal, Is

LEMMA EnterScopeComplete ==
  ASSUME IInv, Complete, EnterScope
  PROVE  Complete'
<1> DEFINE lower == Later({})
           group == {[at |-> Node, own |-> TRUE]}
           upper == <<group>>
<1>1. /\ Upcoming /\ todo' = Append(lower, upper) /\ tree' = tree
      /\ UNCHANGED <<files, bodies, context, refs, done>> /\ seen' = seen
  BY DEF EnterScope, input, output
<1> DEFINE none == {}
<1>2. none \in SUBSET Entry /\ (\A e \in none : EntryOK(e, iters)) OBVIOUS
<1>3. /\ InTodo(todo, Node)
      /\ \A q : InTodo(lower, q) => InTodo(todo, q)
      /\ \A q : InTodo(todo, q) /\ q # Node => InTodo(lower, q)
  <2>1. lower = Later(none) OBVIOUS
  <2>2. \A e : e \notin none OBVIOUS
  <2> HIDE DEF none, lower
  <2>3. ASSUME NEW q
        PROVE  /\ InTodo(todo, Node)
               /\ InTodo(Later(none), q) => InTodo(todo, q) \/ \E e \in none : e.at = q
               /\ InTodo(todo, q) /\ q # Node => InTodo(Later(none), q)
    BY <1>1, <1>2, LaterLists
  <2>4. QED BY <2>1, <2>2, <2>3
<1>4. lower \in Seq(Seq(SUBSET Entry))
  <2>1. lower = Later(none) OBVIOUS
  <2> HIDE DEF none, lower
  <2>2. QED BY <1>1, <1>2, <2>1, LaterOK
<1>5. upper \in Seq(SUBSET Entry) /\ Len(upper) = 1 /\ upper[1] = group
      /\ (\A e \in group : e.at = Node) /\ (\E e \in group : e.at = Node)
  <2>1. group \in SUBSET Entry BY <1>1, NodeOK DEF Entry
  <2>2. (\A e \in group : e.at = Node) /\ (\E e \in group : e.at = Node) OBVIOUS
  <2> HIDE DEF group
  <2>3. QED BY <2>1, <2>2
<1> HIDE DEF lower, group, upper
<1>6. \A q : InLevel(upper, q) <=> q = Node
  <2>1. 1..Len(upper) = {1} BY <1>5
  <2>2. QED BY <1>5, <2>1 DEF InLevel
<1>7. \A q : InTodo(todo', q) <=> InTodo(lower, q) \/ q = Node
  <2>1. \A q : InTodo(Append(lower, upper), q) <=> InTodo(lower, q) \/ InLevel(upper, q)
    BY <1>4, <1>5, TodoLists
  <2>2. QED BY <1>1, <1>6, <2>1
<1>8. \A q : InTodo(todo', q) <=> InTodo(todo, q) BY <1>3, <1>7
<1>9. SeenExpected' /\ Visited' = Visited BY <1>1, SameShape DEF Complete, SeenExpected, Visited
<1>10. bodies # << >> BY <1>1, Walking
<1>11. QED BY <1>1, <1>8, <1>9, <1>10, WalkerStep

LEMMA ExitScopeComplete ==
  ASSUME IInv, Complete, ExitScope
  PROVE  Complete'
<1>1. /\ Top(todo) = << >> /\ Len(todo) > 1 /\ todo' = Pop(todo) /\ tree' = tree
      /\ UNCHANGED <<files, bodies, context, refs, done>> /\ seen' = seen
  BY DEF ExitScope, input, output
<1>2. todo \in Seq(Seq(SUBSET Entry)) /\ todo # << >> BY <1>1 DEF IInv, WalkType
<1>3. \A q : InTodo(todo, q) <=> InTodo(todo', q) \/ InLevel(Top(todo), q)
  BY <1>1, <1>2, TodoLists
<1>4. \A q : ~InLevel(Top(todo), q)
  <2>1. Len(Top(todo)) = 0 BY <1>1
  <2>2. QED BY <2>1 DEF InLevel
<1>5. \A q : InTodo(todo', q) <=> InTodo(todo, q) BY <1>3, <1>4
<1>6. SeenExpected' /\ Visited' = Visited BY <1>1, SameShape DEF Complete, SeenExpected, Visited
<1>7. bodies # << >> BY <1>1, Walking
<1>8. QED BY <1>1, <1>5, <1>6, <1>7, WalkerStep

\* Entering a node whose expressions below are new
LEMMA EnteredNode ==
  ASSUME IInv, Complete, Upcoming, NEW new \in SUBSET Entry, \A e \in new : EntryOK(e, iters),
         todo' = Later(new), tree' = tree, UNCHANGED <<files, bodies, context, refs, done>>,
         SeenExpected', Visited \subseteq Visited',
         \A e \in new : SetUp(e.at, context, refs),
         \A p \in Expected(TRUE) : Above(Node, p) => p \in Visited' \/ \E e \in new : Above(e.at, p)
  PROVE  Complete'
<1>1. bodies # << >> BY Walking
<1>2. ASSUME NEW q
      PROVE  /\ InTodo(todo', q) => InTodo(todo, q) \/ \E e \in new : e.at = q
             /\ InTodo(todo, q) /\ q # Node => InTodo(todo', q)
             /\ (\E e \in new : e.at = q) => InTodo(todo', q)
  <2>1. /\ InTodo(Later(new), q) => InTodo(todo, q) \/ \E e \in new : e.at = q
        /\ InTodo(todo, q) /\ q # Node => InTodo(Later(new), q)
        /\ (\E e \in new : e.at = q) => InTodo(Later(new), q)
    BY LaterLists
  <2>2. QED BY <2>1
<1>3. \A e \in new : e.at \in DOMAIN tree /\ InTodo(todo', e.at) BY <1>2 DEF Entry
<1>4. \A q \in DOMAIN tree : InTodo(todo', q) => InTodo(todo, q) \/ SetUp(q, context, refs)
  BY <1>2
<1>5. \A r \in DOMAIN tree : InTodo(todo, r) =>
        \/ InTodo(todo', r)
        \/ \A p \in Expected(TRUE) : Above(r, p) =>
             p \in Visited' \/ \E s \in DOMAIN tree : InTodo(todo', s) /\ Above(s, p)
  <2>1. SUFFICES ASSUME NEW p \in Expected(TRUE), Above(Node, p), p \notin Visited'
                 PROVE  \E s \in DOMAIN tree : InTodo(todo', s) /\ Above(s, p)
    BY <1>2
  <2>2. PICK e \in new : Above(e.at, p) BY <2>1
  <2>3. QED BY <1>3, <2>2
<1>6. QED BY <1>1, <1>4, <1>5, WalkerStep

\* The next node is below the attribute the walker was set up for.
LEMMA NodeSetUp ==
  ASSUME IInv, Complete, Upcoming
  PROVE  /\ Node \in DOMAIN tree /\ tree[Node].kind \notin Structure /\ WellFormed(tree)
         /\ SetUp(Node, context, refs)
         /\ Node \in Expected(TRUE) <=> ~(Traversal(Node) /\ (Skipped(Node, context) \/ Node \in refs))
<1>1. Node \in DOMAIN tree /\ tree[Node].kind \notin Structure /\ WellFormed(tree)
  BY NodeOK DEF IInv
<1>2. InTodo(todo, Node)
  <2> DEFINE none == {}
  <2>1. none \in SUBSET Entry /\ \A e \in none : EntryOK(e, iters) OBVIOUS
  <2> HIDE DEF none
  <2>2. QED BY <2>1, LaterLists
<1>3. SetUp(Node, context, refs) BY <1>1, <1>2 DEF Complete, WalkerSetUp
<1>4. QED BY <1>1, <1>3, InExpected

LEMMA OmitComplete ==
  ASSUME IInv, Complete, Omit
  PROVE  Complete'
<1> DEFINE none == {}
<1>1. /\ Upcoming /\ todo' = Later(none) /\ tree' = tree /\ Traversal(Node)
      /\ Node \in refs \/ Skipped(Node, context)
      /\ UNCHANGED <<files, bodies, context, refs, done>> /\ seen' = seen
  BY DEF Omit, input, output
<1>2. none \in SUBSET Entry /\ (\A e \in none : EntryOK(e, iters)) /\ \A e : e \notin none
  OBVIOUS
<1> HIDE DEF none
<1>3. SeenExpected' /\ Visited' = Visited BY <1>1, SameShape DEF Complete, SeenExpected, Visited
<1>4. Node \in DOMAIN tree /\ WellFormed(tree) /\ Node \notin Expected(TRUE) BY <1>1, NodeSetUp
<1>5. \A p \in Expected(TRUE) : ~Above(Node, p)
  <2>1. \A p \in Expected(TRUE) : p \in DOMAIN tree BY DEF Expected
  <2>2. QED BY <1>1, <1>4, <2>1, Leaf
<1>6. QED BY <1>1, <1>2, <1>3, <1>5, EnteredNode

LEMMA VisitTraversalComplete ==
  ASSUME IInv, Complete, VisitTraversal
  PROVE  Complete'
<1> DEFINE none == {}
<1>1. /\ Upcoming /\ todo' = Later(none) /\ tree' = tree /\ Traversal(Node)
      /\ Node \notin refs /\ ~Skipped(Node, context)
      /\ UNCHANGED <<files, bodies, context, refs, done>> /\ seen' = seen \cup {<<Node, iters>>}
  BY DEF VisitTraversal, input
<1>2. none \in SUBSET Entry /\ (\A e \in none : EntryOK(e, iters)) /\ \A e : e \notin none
  OBVIOUS
<1> HIDE DEF none
<1>3. Node \in DOMAIN tree /\ WellFormed(tree) /\ Node \in Expected(TRUE) BY <1>1, NodeSetUp
<1>4. Visited' = Visited \cup {Node}
  <2> DEFINE v == <<Node, iters>>
  <2>1. seen' = seen \cup {v} /\ v[1] = Node BY <1>1
  <2> HIDE DEF v
  <2>2. QED BY <2>1 DEF Visited
<1>5. SeenExpected' BY <1>1, <1>3, <1>4, SameShape DEF Complete, SeenExpected
<1>6. \A p \in Expected(TRUE) : Above(Node, p) => p \in Visited'
  <2>1. \A p \in Expected(TRUE) : p \in DOMAIN tree BY DEF Expected
  <2>2. QED BY <1>1, <1>3, <1>4, <2>1, Leaf
<1>7. QED BY <1>1, <1>2, <1>4, <1>5, <1>6, EnteredNode

LEMMA VisitOtherComplete ==
  ASSUME IInv, Complete, VisitOther
  PROVE  Complete'
<1> DEFINE new == Below(Node)
<1>1. /\ Upcoming /\ Own /\ todo' = Later(new) /\ tree' = tree /\ ~Traversal(Node)
      /\ UNCHANGED <<files, bodies, context, refs, done>> /\ seen' = seen \cup {<<Node, iters>>}
  BY DEF VisitOther, input
<1>2. new \in SUBSET Entry /\ \A e \in new : EntryOK(e, iters) BY <1>1, BelowOK
<1>3. /\ \A q \in Expressions(Node) : \E e \in new : e.at = q
      /\ \A e \in new : e.at \in Expressions(Node)
  <2> DEFINE entry(q) == [at |-> q, own |-> tree[q].role # "scoped"]
  <2>1. \A q : entry(q).at = q OBVIOUS
  <2>2. new = {entry(q) : q \in Expressions(Node)} BY DEF Below
  <2> HIDE DEF new, entry
  <2>3. QED BY <2>1, <2>2
<1> HIDE DEF new
<1>4. /\ Node \in DOMAIN tree /\ WellFormed(tree) /\ Node \in Expected(TRUE)
      /\ SetUp(Node, context, refs)
  BY <1>1, NodeSetUp
<1>5. Visited' = Visited \cup {Node}
  <2> DEFINE v == <<Node, iters>>
  <2>1. seen' = seen \cup {v} /\ v[1] = Node BY <1>1
  <2> HIDE DEF v
  <2>2. QED BY <2>1 DEF Visited
<1>6. SeenExpected' BY <1>1, <1>4, <1>5, SameShape DEF Complete, SeenExpected
<1>7. ASSUME NEW q \in Expressions(Node) PROVE SetUp(q, context, refs)
  <2>1. q \in NodesIn(Node) /\ ~BareKey(q) BY <1>7 DEF Expressions, BareKey
  <2>2. PICK a \in DOMAIN tree :
          /\ Is(a, "attribute") /\ Above(a, Node) /\ ~Declaration(a) /\ ~UnderKey(Node)
          /\ context = Position(a, TRUE) /\ refs = RefsOf(a)
    BY <1>4 DEF SetUp
  <2>3. /\ Above(a, q) /\ Len(q) = Len(Node) + 1 /\ Prefix(q, Len(q)) = q
        /\ \A i \in 1..Len(Node) : Prefix(q, i) = Prefix(Node, i)
    BY <1>4, <2>1, <2>2, AboveChild
  <2>4. Node \in Seq(Nat) /\ Len(Node) \in Nat BY <1>4 DEF WellFormed
  <2>5. ~UnderKey(q)
    <3>1. SUFFICES ASSUME NEW i \in 1..Len(q), BareKey(Prefix(q, i)) PROVE FALSE
      BY DEF UnderKey
    <3>2. i # Len(q) BY <2>1, <2>3, <3>1
    <3>3. i \in 1..Len(Node) BY <2>3, <2>4, <3>2
    <3>4. QED BY <2>2, <2>3, <3>1, <3>3 DEF UnderKey
  <2>6. QED BY <2>2, <2>3, <2>5 DEF SetUp
<1>8. ASSUME NEW p \in Expected(TRUE), Above(Node, p), p # Node PROVE \E e \in new : Above(e.at, p)
  <2>1. p \in DOMAIN tree /\ ~NotAReference(p, TRUE) BY DEF Expected
  <2>2. PICK q \in NodesIn(Node) : Above(q, p) BY <1>4, <1>8, <2>1, Fork
  <2>3. ~BareKey(q) BY <2>1, <2>2 DEF NotAReference, BareKey, Above
  <2>4. q \in Expressions(Node) BY <2>2, <2>3 DEF Expressions, BareKey
  <2>5. QED BY <1>3, <2>2, <2>4
<1>9. \A e \in new : SetUp(e.at, context, refs) BY <1>3, <1>7
<1>10. \A p \in Expected(TRUE) : Above(Node, p) => p \in Visited' \/ \E e \in new : Above(e.at, p)
  BY <1>5, <1>8
<1>11. QED BY <1>1, <1>2, <1>5, <1>6, <1>9, <1>10, EnteredNode

LEMMA ReportUnusedComplete ==
  ASSUME IInv, Complete, ReportUnused
  PROVE  Complete'
<1>1. /\ bodies = << >> /\ files = {} /\ files' = files /\ bodies' = bodies /\ tree' = tree
      /\ UNCHANGED <<todo, context, refs, seen>>
  BY DEF ReportUnused, input, walker
<1>2. AllPlaced(bodies') /\ Phase' BY <1>1 DEF Complete, PlacesOK, Phase
<1>3. QED BY <1>1, <1>2, CallStep

LEMMA CompleteInit ==
  ASSUME WalkInit
  PROVE  Complete
<1>1. /\ files = {p \in DOMAIN tree : Len(p) = 1} /\ bodies = << >> /\ todo = Idle /\ seen = {}
      /\ done = FALSE
  BY DEF WalkInit
<1>2. WellFormed(tree) BY InitOK DEF IInv
<1>3. PlacesOK BY <1>1 DEF PlacesOK, AllPlaced
<1>4. WalkerSetUp
  <2>1. Len(todo) = 1 /\ Len(todo[1]) = 0 BY <1>1 DEF Idle
  <2>2. 1..Len(todo) = {1} /\ 1..Len(todo[1]) = {} BY <2>1
  <2>3. QED BY <2>2 DEF WalkerSetUp, InTodo, InLevel
<1>5. SeenExpected BY <1>1 DEF SeenExpected, Visited
<1>6. Covered
  <2>1. SUFFICES ASSUME NEW p \in Expected(TRUE)
                 PROVE  \E r \in DOMAIN tree : Pending(r) /\ Above(r, p)
    BY DEF Covered
  <2>2. p \in DOMAIN tree /\ p \in Seq(Nat) /\ p # << >> BY <1>2 DEF Expected, WellFormed
  <2>3. Len(p) \in Nat \ {0} /\ 1 \in 1..Len(p) BY <2>2, EmptySeq
  <2>4. Prefix(p, 1) \in DOMAIN tree /\ Len(Prefix(p, 1)) = 1
    BY <1>2, <2>2, <2>3, PathIn, Prefixes
  <2>5. Above(Prefix(p, 1), p) BY <2>3, <2>4 DEF Above
  <2>6. QED BY <1>1, <2>4, <2>5 DEF Pending
<1>7. Phase BY <1>1 DEF Phase
<1>8. QED BY <1>3, <1>4, <1>5, <1>6, <1>7 DEF Complete

LEMMA CompleteStep ==
  ASSUME IInv, Complete, [WalkNext]_walkVars
  PROVE  Complete'
<1>1. CASE UNCHANGED walkVars
  <2>1. /\ files' = files /\ bodies' = bodies /\ tree' = tree /\ done' = done
        /\ UNCHANGED <<todo, context, refs, seen>>
    BY <1>1 DEF walkVars, input, walker, output
  <2>2. AllPlaced(bodies') /\ Phase' BY <2>1 DEF Complete, PlacesOK, Phase
  <2>3. QED BY <2>1, <2>2, CallStep
<1>2. ASSUME NEW b \in DOMAIN tree, OrdinaryBlock(b) \/ DynamicBlock(b) \/ InDynamic(b)
      PROVE  Complete'
  BY <1>2, BlockComplete
<1>3. QED
  BY <1>1, <1>2, OpenFileComplete, AttributeComplete, ReturnComplete, EnterScopeComplete,
     ExitScopeComplete, OmitComplete, VisitTraversalComplete, VisitOtherComplete,
     ReportUnusedComplete DEF WalkNext

LEMMA TreeKept == [WalkNext]_walkVars => tree' = tree /\ localKinds' = localKinds /\ checks' = checks
BY DEF WalkNext, walkVars, input, OpenFile, Attribute, SkipAttribute, WalkAttribute, WalkDynamicAttribute,
   StartWalk, OrdinaryBlock, DynamicBlock, InDynamic, Descend, Return, EnterScope, ExitScope,
   Omit, VisitTraversal, VisitOther, ReportUnused

\* Once the walk is over nothing is left to visit.
LEMMA AllVisited ==
  ASSUME IInv, Complete, done
  PROVE  Visited = Expected(TRUE)
<1>1. bodies = << >> /\ files = {} /\ todo = Idle BY DEF Complete, Phase
<1>2. \A q : ~Pending(q)
  <2>1. Len(todo) = 1 /\ Len(todo[1]) = 0 /\ Len(bodies) = 0 BY <1>1 DEF Idle
  <2>2. 1..Len(todo) = {1} /\ 1..Len(todo[1]) = {} /\ 1..Len(bodies) = {} BY <2>1
  <2>3. QED BY <1>1, <2>2 DEF Pending, InBodies, InTodo, InLevel
<1>3. QED BY <1>2 DEF Complete, Covered, SeenExpected

-----------------------------------------------------------------------------
(* What is reported *)

\* The three parts of a report on the visits of V
RootsOf(V) == UNION {RootViolation(p, InScope(p)) : p \in ReferencesIn(V)}
MissingAt(p) == Only("E003", {<<"E003", p>> : n \in LocalNamed(p, InScope(p)) \ DOMAIN localKinds})
MissingOf(V) == UNION {MissingAt(p) : p \in ReferencesIn(V)}
PartsOf(V) ==
  {q \in DOMAIN tree : /\ Len(q) > 1 /\ Is(Up(q), "template") /\ Up(q) \in V
                       /\ Interpolated(q, InScope(q))}
InTemplates(V) == Only("E004", {<<"E004", q>> : q \in PartsOf(V)})

LEMMA Parts == \A V : ReportedOf(V) = RootsOf(V) \cup MissingOf(V) \cup InTemplates(V)
BY Zenon DEF ReportedOf, RootsOf, MissingAt, MissingOf, PartsOf, InTemplates

LEMMA SameReport ==
  ASSUME tree' = tree, localKinds' = localKinds, checks' = checks
  PROVE  \A V : UsedBy(V)' = UsedBy(V) /\ ReportedOf(V)' = ReportedOf(V) /\ Unused(V)' = Unused(V)
<1>1. \A p : /\ InScope(p)' = InScope(p) /\ Traversal(p)' = Traversal(p) /\ Root(p)' = Root(p)
             /\ Is(p, "template")' = Is(p, "template")
  BY SameTree DEF Traversal, Is, Root
<1>2. \A code, S : Only(code, S)' = Only(code, S) BY DEF Only, Enabled
<1>3. \A p, names : LocalNamed(p, names)' = LocalNamed(p, names) BY <1>1 DEF LocalNamed
<1>4. \A p, names : Interpolated(p, names)' = Interpolated(p, names)
  BY <1>1, <1>3 DEF Interpolated
<1>5. \A p, names : RootViolation(p, names)' = RootViolation(p, names)
  BY <1>1, <1>2 DEF RootViolation
<1>6. \A V : ReferencesIn(V)' = ReferencesIn(V) BY <1>1 DEF ReferencesIn
<1>7. \A V : UsedBy(V)' = UsedBy(V) BY <1>1, <1>3, <1>6 DEF UsedBy
<1>8. \A V : RootsOf(V)' = RootsOf(V) BY <1>1, <1>5, <1>6 DEF RootsOf
<1>9. \A V : MissingOf(V)' = MissingOf(V)
  <2>1. \A p : MissingAt(p)' = MissingAt(p) BY <1>1, <1>2, <1>3 DEF MissingAt
  <2>2. QED BY <1>6, <2>1 DEF MissingOf
<1>10. \A V : InTemplates(V)' = InTemplates(V)
  <2>1. \A V : PartsOf(V)' = PartsOf(V) BY <1>1, <1>4 DEF PartsOf
  <2>2. QED BY <1>2, <2>1 DEF InTemplates
<1>11. \A V : ReportedOf(V)' = ReportedOf(V)
  <2>1. \A V : ReportedOf(V)' = RootsOf(V)' \cup MissingOf(V)' \cup InTemplates(V)'
    BY Zenon DEF ReportedOf, RootsOf, MissingAt, MissingOf, PartsOf, InTemplates
  <2>2. QED BY <1>8, <1>9, <1>10, <2>1, Parts
<1>12. \A V : Unused(V)' = Unused(V) BY <1>2 DEF Unused
<1>13. QED BY <1>7, <1>11, <1>12

LEMMA OnlyJoins ==
  ASSUME NEW code, NEW S, NEW T
  PROVE  Only(code, S \cup T) = Only(code, S) \cup Only(code, T)
BY DEF Only

\* The visit of a traversal adds what its names call for.
LEMMA ReferenceAdded ==
  ASSUME NEW V, NEW q, Traversal(q)
  PROVE  /\ UsedBy(V \cup {q}) = UsedBy(V) \cup LocalNamed(q, InScope(q))
         /\ ReportedOf(V \cup {q}) = ReportedOf(V) \cup RootViolation(q, InScope(q)) \cup MissingAt(q)
<1>1. ReferencesIn(V \cup {q}) = ReferencesIn(V) \cup {q} BY DEF ReferencesIn
<1>2. UsedBy(V \cup {q}) = UsedBy(V) \cup LocalNamed(q, InScope(q)) BY <1>1 DEF UsedBy
<1>3. RootsOf(V \cup {q}) = RootsOf(V) \cup RootViolation(q, InScope(q)) BY <1>1 DEF RootsOf
<1>4. MissingOf(V \cup {q}) = MissingOf(V) \cup MissingAt(q) BY <1>1 DEF MissingOf
<1>5. PartsOf(V \cup {q}) = PartsOf(V) BY DEF PartsOf, Traversal, Is
<1>6. InTemplates(V \cup {q}) = InTemplates(V) BY <1>5 DEF InTemplates
<1>7. QED BY <1>2, <1>3, <1>4, <1>6, Parts

\* The visit of another expression adds the collections a template names.
LEMMA OtherAdded ==
  ASSUME WellFormed(tree), NEW V, NEW q \in DOMAIN tree, tree[q].kind \notin Structure, ~Traversal(q),
         NEW parts,
         parts = IF Is(q, "template") THEN {c \in NodesIn(q) : Interpolated(c, InScope(q))} ELSE {}
  PROVE  /\ UsedBy(V \cup {q}) = UsedBy(V)
         /\ ReportedOf(V \cup {q}) = ReportedOf(V) \cup Only("E004", {<<"E004", c>> : c \in parts})
<1>1. ReferencesIn(V \cup {q}) = ReferencesIn(V) BY DEF ReferencesIn
<1>2. UsedBy(V \cup {q}) = UsedBy(V) BY <1>1 DEF UsedBy
<1>3. RootsOf(V \cup {q}) = RootsOf(V) BY <1>1 DEF RootsOf
<1>4. MissingOf(V \cup {q}) = MissingOf(V) BY <1>1 DEF MissingOf
<1>5. ASSUME NEW c \in DOMAIN tree, Len(c) > 1, Up(c) = q
      PROVE  c \in NodesIn(q) /\ (Is(q, "template") => InScope(c) = InScope(q))
  <2>1. c \in Seq(Nat) /\ c # << >> /\ q \in Seq(Nat) BY DEF WellFormed
  <2>2. Len(c) \in Nat BY <2>1
  <2>3. 1 \in 1..Len(c) + 1 /\ Len(c) - 1 \in 0..Len(c) BY <1>5, <2>2
  <2>4. Len(q) = Len(c) - 1
    <3>1. Len(c) - 1 \in 1..Len(c) BY <1>5, <2>2
    <3>2. Len(Prefix(c, Len(c) - 1)) = Len(c) - 1 BY <2>1, <3>1, Prefixes
    <3>3. QED BY <1>5, <3>2 DEF Up, Prefix
  <2>5. Len(c) = Len(q) + 1 BY <2>2, <2>4
  <2>6. c \in NodesIn(q) BY <1>5, <2>5 DEF NodesIn
  <2>7. ASSUME Is(q, "template") PROVE InScope(c) = InScope(q)
    <3>1. tree[c].role # "scoped" BY <1>5, <2>7 DEF WellFormed, Is
    <3>2. ~Dynamic(q) BY DEF Dynamic, DynamicIn, Structure
    <3>3. Bindings(c) = {} BY <1>5, <3>1, <3>2 DEF Bindings
    <3>4. InScope(c) = InScope(q) \cup Bindings(c) BY <1>5, <2>1, ScopeStep
    <3>5. QED BY <3>3, <3>4
  <2>8. QED BY <2>6, <2>7
<1>6. PartsOf(V \cup {q}) = PartsOf(V) \cup parts
  <2>1. ASSUME NEW c \in parts PROVE c \in PartsOf(V \cup {q})
    <3>1. Is(q, "template") /\ c \in NodesIn(q) /\ Interpolated(c, InScope(q)) BY <2>1
    <3>2. c \in DOMAIN tree /\ Up(c) = q /\ Len(c) = Len(q) + 1 /\ q \in Seq(Nat) /\ q # << >>
      BY <3>1 DEF NodesIn, WellFormed
    <3>3. Len(c) > 1 BY <3>2, EmptySeq
    <3>4. QED BY <1>5, <3>1, <3>2, <3>3 DEF PartsOf
  <2>2. ASSUME NEW c \in PartsOf(V \cup {q}) PROVE c \in PartsOf(V) \cup parts
    <3>1. c \in DOMAIN tree /\ Len(c) > 1 /\ Is(Up(c), "template") /\ Up(c) \in V \cup {q}
          /\ Interpolated(c, InScope(c))
      BY DEF PartsOf
    <3>2. CASE Up(c) \in V BY <3>1, <3>2 DEF PartsOf
    <3>3. CASE Up(c) = q
      <4>1. Is(q, "template") /\ c \in NodesIn(q) /\ Interpolated(c, InScope(q))
        BY <1>5, <3>1, <3>3
      <4>2. QED BY <4>1
    <3>4. QED BY <3>1, <3>2, <3>3
  <2>3. PartsOf(V) \subseteq PartsOf(V \cup {q}) BY DEF PartsOf
  <2>4. QED BY <2>1, <2>2, <2>3
<1>7. InTemplates(V \cup {q}) = InTemplates(V) \cup Only("E004", {<<"E004", c>> : c \in parts})
  <2> DEFINE A == {<<"E004", c>> : c \in PartsOf(V)}
             B == {<<"E004", c>> : c \in parts}
  <2>1. {<<"E004", c>> : c \in PartsOf(V) \cup parts} = A \cup B OBVIOUS
  <2>2. InTemplates(V) = Only("E004", A) BY DEF InTemplates
  <2>3. InTemplates(V \cup {q}) = Only("E004", A \cup B)
    <3>1. InTemplates(V \cup {q}) = Only("E004", {<<"E004", c>> : c \in PartsOf(V \cup {q})})
      BY DEF InTemplates
    <3>2. {<<"E004", c>> : c \in PartsOf(V \cup {q})} = A \cup B BY <1>6, <2>1
    <3> HIDE DEF A, B
    <3>3. QED BY <3>1, <3>2
  <2> HIDE DEF A, B
  <2>4. Only("E004", A \cup B) = Only("E004", A) \cup Only("E004", B) BY OnlyJoins
  <2>5. QED BY <2>2, <2>3, <2>4 DEF B
<1>8. QED BY <1>2, <1>3, <1>4, <1>7, Parts

\* A step that visits nothing and reports nothing
LEMMA QuietStep ==
  ASSUME Diagnosed, tree' = tree, localKinds' = localKinds, checks' = checks,
         UNCHANGED <<output, done>>
  PROVE  Diagnosed'
<1>1. Visited' = Visited /\ used' = used /\ found' = found /\ done' = done
  BY DEF output, Visited
<1>2. UsedBy(Visited)' = UsedBy(Visited) /\ ReportedOf(Visited)' = ReportedOf(Visited)
      /\ Unused(used)' = Unused(used)
  BY <1>1, SameReport
<1>3. QED BY <1>1, <1>2 DEF Diagnosed

\* A step that visits the next node
LEMMA ReportStep ==
  ASSUME Diagnosed, ~done, tree' = tree, localKinds' = localKinds, checks' = checks, done' = done,
         seen' = seen \cup {<<Node, iters>>}, NEW more, NEW names,
         UsedBy(Visited \cup {Node}) = UsedBy(Visited) \cup names,
         ReportedOf(Visited \cup {Node}) = ReportedOf(Visited) \cup more,
         used' = used \cup names, found' = found \cup more
  PROVE  Diagnosed'
<1>1. Visited' = Visited \cup {Node}
  <2> DEFINE v == <<Node, iters>>
  <2>1. seen' = seen \cup {v} /\ v[1] = Node OBVIOUS
  <2> HIDE DEF v
  <2>2. QED BY <2>1 DEF Visited
<1>2. /\ UsedBy(Visited)' = UsedBy(Visited \cup {Node})
      /\ ReportedOf(Visited)' = ReportedOf(Visited \cup {Node})
  BY <1>1, SameReport
<1>3. QED BY <1>2 DEF Diagnosed

LEMMA VisitTraversalReport ==
  ASSUME IInv, Complete, Diagnosed, VisitTraversal
  PROVE  Diagnosed'
<1> DEFINE names == LocalNamed(Node, iters)
           more == RootViolation(Node, iters)
                     \cup Only("E003", {<<"E003", Node>> : n \in names \ DOMAIN localKinds})
<1>1. /\ Upcoming /\ Own /\ Traversal(Node) /\ tree' = tree /\ localKinds' = localKinds /\ checks' = checks
      /\ done' = done /\ seen' = seen \cup {<<Node, iters>>}
  BY DEF VisitTraversal, input
<1>2. used' = used \cup names /\ found' = found \cup more
  BY DEF VisitTraversal
<1>3. InScope(Node) = iters BY <1>1, NodeOK
<1>4. ~done BY <1>1, Walking DEF Complete, Phase
<1>5. MissingAt(Node) = Only("E003", {<<"E003", Node>> : n \in names \ DOMAIN localKinds})
  BY <1>3 DEF MissingAt
<1>6. /\ UsedBy(Visited \cup {Node}) = UsedBy(Visited) \cup names
      /\ ReportedOf(Visited \cup {Node}) = ReportedOf(Visited) \cup more
  <2>1. /\ UsedBy(Visited \cup {Node}) = UsedBy(Visited) \cup LocalNamed(Node, InScope(Node))
        /\ ReportedOf(Visited \cup {Node}) =
             ReportedOf(Visited) \cup RootViolation(Node, InScope(Node)) \cup MissingAt(Node)
    BY <1>1, ReferenceAdded
  <2> DEFINE missing == Only("E003", {<<"E003", Node>> : n \in names \ DOMAIN localKinds})
  <2>2. MissingAt(Node) = missing /\ more = RootViolation(Node, iters) \cup missing BY <1>5
  <2> HIDE DEF missing, more
  <2>3. QED BY <1>3, <2>1, <2>2
<1> HIDE DEF names, more
<1>7. QED BY <1>1, <1>2, <1>4, <1>6, ReportStep

LEMMA VisitOtherReport ==
  ASSUME IInv, Complete, Diagnosed, VisitOther
  PROVE  Diagnosed'
<1> DEFINE parts == IF Is(Node, "template") THEN {c \in NodesIn(Node) : Interpolated(c, iters)} ELSE {}
           more == Only("E004", {<<"E004", c>> : c \in parts})
<1>1. /\ Upcoming /\ Own /\ ~Traversal(Node) /\ tree' = tree /\ localKinds' = localKinds /\ checks' = checks
      /\ done' = done /\ seen' = seen \cup {<<Node, iters>>} /\ used' = used
  BY DEF VisitOther, input
<1>2. found' = found \cup more BY DEF VisitOther
<1>3. /\ InScope(Node) = iters /\ Node \in DOMAIN tree /\ tree[Node].kind \notin Structure
      /\ WellFormed(tree)
  BY <1>1, NodeOK DEF IInv
<1>4. ~done BY <1>1, Walking DEF Complete, Phase
<1>5. parts = IF Is(Node, "template") THEN {c \in NodesIn(Node) : Interpolated(c, InScope(Node))} ELSE {}
  BY <1>3
<1> HIDE DEF parts
<1>6. /\ UsedBy(Visited \cup {Node}) = UsedBy(Visited)
      /\ ReportedOf(Visited \cup {Node}) = ReportedOf(Visited) \cup more
  BY <1>1, <1>3, <1>5, OtherAdded
<1> DEFINE names == {}
<1>7. used' = used \cup names /\ UsedBy(Visited \cup {Node}) = UsedBy(Visited) \cup names
  BY <1>1, <1>6
<1> HIDE DEF more, names
<1>8. QED BY <1>1, <1>2, <1>4, <1>6, <1>7, ReportStep

LEMMA ReportUnusedReport ==
  ASSUME Diagnosed, ReportUnused
  PROVE  Diagnosed'
<1>1. /\ ~done /\ done' = TRUE /\ tree' = tree /\ localKinds' = localKinds /\ checks' = checks
      /\ seen' = seen /\ used' = used /\ found' = found \cup Unused(used)
  BY DEF ReportUnused, input, Unused
<1>2. Visited' = Visited BY <1>1 DEF Visited
<1>3. UsedBy(Visited)' = UsedBy(Visited) /\ ReportedOf(Visited)' = ReportedOf(Visited)
      /\ Unused(used)' = Unused(used)
  BY <1>1, <1>2, SameReport
<1>4. QED BY <1>1, <1>3 DEF Diagnosed

LEMMA DiagnosedInit == WalkInit => Diagnosed
<1> SUFFICES ASSUME WalkInit PROVE Diagnosed
  OBVIOUS
<1>1. seen = {} /\ used = {} /\ found = {} /\ ~done BY DEF WalkInit
<1>2. Visited = {} BY <1>1 DEF Visited
<1>3. ReferencesIn({}) = {} BY DEF ReferencesIn
<1>4. UsedBy({}) = {} BY <1>3 DEF UsedBy
<1>5. RootsOf({}) = {} /\ MissingOf({}) = {} BY <1>3 DEF RootsOf, MissingOf
<1>6. InTemplates({}) = {}
  <2>1. PartsOf({}) = {} BY DEF PartsOf
  <2>2. QED BY <2>1 DEF InTemplates, Only
<1>7. QED BY <1>1, <1>2, <1>4, <1>5, <1>6, Parts DEF Diagnosed

LEMMA DiagnosedStep ==
  ASSUME IInv, Complete, Diagnosed, [WalkNext]_walkVars
  PROVE  Diagnosed'
<1>1. tree' = tree /\ localKinds' = localKinds /\ checks' = checks BY TreeKept
<1>2. ASSUME UNCHANGED <<output, done>> PROVE Diagnosed' BY <1>1, <1>2, QuietStep
<1>3. CASE VisitTraversal BY <1>3, VisitTraversalReport
<1>4. CASE VisitOther BY <1>4, VisitOtherReport
<1>5. CASE ReportUnused BY <1>5, ReportUnusedReport
<1>6. CASE UNCHANGED walkVars BY <1>2, <1>6 DEF walkVars
<1>7. CASE OpenFile \/ Return \/ EnterScope \/ ExitScope \/ Omit
  BY <1>2, <1>7 DEF OpenFile, Return, EnterScope, ExitScope, Omit
<1>8. CASE Attribute
  BY <1>2, <1>8 DEF Attribute, SkipAttribute, WalkAttribute, WalkDynamicAttribute, StartWalk
<1>9. CASE \E b \in DOMAIN tree : OrdinaryBlock(b) \/ DynamicBlock(b) \/ InDynamic(b)
  BY <1>2, <1>9 DEF OrdinaryBlock, DynamicBlock, InDynamic, Descend
<1>10. QED BY <1>3, <1>4, <1>5, <1>6, <1>7, <1>8, <1>9 DEF WalkNext

-----------------------------------------------------------------------------

WalkInvariant == IInv /\ Complete /\ Diagnosed

LEMMA WalkInvariantInit == WalkInit => WalkInvariant
BY InitOK, CompleteInit, DiagnosedInit DEF WalkInvariant

LEMMA WalkInvariantStep == WalkInvariant /\ [WalkNext]_walkVars => WalkInvariant'
BY Inductive, CompleteStep, DiagnosedStep DEF WalkInvariant

\* When Run returns it has visited every expression that is a reference where
\* it stands, and nothing else, for every tree: the four types, the flags and
\* the resets walkExpressionsAt and walkDynamicBlock hand on (checks.go 369-545)
\* amount to the whole path, and the lookalikes that are spared, against the
\* comment at 467-470, are those Expected(TRUE) names and no others.
THEOREM VisitsComplete == WalkSpec => []EverythingVisited
<1>1. WalkInvariant => EverythingVisited
  BY AllVisited DEF WalkInvariant, EverythingVisited, Visited
<1>2. QED BY <1>1, WalkInvariantInit, WalkInvariantStep, PTL DEF WalkSpec

\* The violations of E003, E004, E009, W001 and W009 are those the tree calls
\* for (checks.go 160-278), whatever --checks selects and in whatever order the
\* attributes of a body come.
THEOREM ReportsComplete == WalkSpec => []DiagnosticsExact
<1>1. ASSUME IInv, Complete, Diagnosed, done PROVE found = Violations
  <2>1. Visited = Expected(TRUE) BY <1>1, AllVisited
  <2>2. found = ReportedOf(Expected(TRUE)) \cup Unused(UsedBy(Expected(TRUE))) BY <1>1, <2>1 DEF Diagnosed
  <2>3. ReferencesIn(Expected(TRUE)) = References BY DEF ReferencesIn, References
  <2>4. Violations = ReportedOf(Expected(TRUE)) \cup Unused(UsedBy(Expected(TRUE)))
    BY <2>3, Zenon DEF Violations, ReportedOf, Unused, UsedBy
  <2>5. QED BY <2>2, <2>4
<1>2. WalkInvariant => DiagnosticsExact
  BY <1>1 DEF WalkInvariant, DiagnosticsExact
<1>3. QED BY <1>2, WalkInvariantInit, WalkInvariantStep, PTL DEF WalkSpec
=============================================================================
