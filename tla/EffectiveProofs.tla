-------------------------- MODULE EffectiveProofs --------------------------
(* What the merge does, for every set of parsed files.                     *)
(*                                                                         *)
(* ParsedIntact and PlacesHold: Good says what every state of the merge's  *)
(* memory is like, and each operation on the memory has a lemma: it keeps  *)
(* Good, every block stays at its place, and only the places it is given   *)
(* change their blocks, to what the lemma says.                            *)
(*                                                                         *)
(* LastOverrideWins, NestedTogether and VerdictsAsWritten: MergedOK says   *)
(* what the memory holds in terms of the files and of the blocks read so   *)
(* far, NestedOK and Made its part about nested blocks, and each turn has  *)
(* a lemma: if MergedOK holds of what was read before, it holds with the   *)
(* turn's block added to it.                                               *)
(*                                                                         *)
(* TerraformSelections: TInv adds what Settled says of the terraform       *)
(* blocks, the one selection of storage and each required provider.        *)
(*                                                                         *)
(* StickySettings: SInv adds that the terraform blocks have lists of       *)
(* lists. Parts says what became of the blocks of an encryption block, and *)
(* Guarded of the encryption blocks themselves; each merge of a block has  *)
(* a lemma that it keeps them, and Outlasts says so of a turn.             *)
EXTENDS Effective, WellFoundedInduction, SequenceTheorems, FiniteSetTheorems, TLAPS

IsBlock(b) == DOMAIN b = {"type", "label", "attrs", "nested"}
IsMem(m) == DOMAIN m = {"heap", "bodies", "effective", "own", "ownLocals"}

\* The parsed files are what ModulesAssumption says.
FilesOK ==
  /\ DOMAIN files \subseteq Nat \ {0}
  /\ \A i \in DOMAIN files :
       /\ files[i].name \in Nat
       /\ Len(files[i].blocks) \in Nat /\ DOMAIN files[i].blocks = 1..Len(files[i].blocks)
       /\ \A j \in DOMAIN files[i].blocks : IsBlock(files[i].blocks[j])

\* A file's body is its copy if it is owned, and a body holds no dangling
\* reference.
BodiesOK(m) ==
  /\ m.own \subseteq DOMAIN m.effective
  /\ DOMAIN m.effective \subseteq DOMAIN files
  /\ \A f \in DOMAIN m.effective : m.effective[f] = IF f \in m.own THEN Copy(f) ELSE Parsed(f)
  /\ \A f \in DOMAIN m.effective : f \in m.own \/ IsPrimary(f)
  /\ DOMAIN m.bodies = {Parsed(i) : i \in DOMAIN files} \cup {Copy(f) : f \in m.own}
  /\ \A o \in DOMAIN m.bodies : m.bodies[o] \in Seq(DOMAIN m.heap)

\* An object is the parser's or a clone, of no turn that is still to come.
HeapOK(m, coming) ==
  /\ Refs \subseteq DOMAIN m.heap
  /\ \A s \in DOMAIN m.heap : s \in Refs \/ (s[1] = 0 /\ s[2] \notin coming)
  /\ \A s \in DOMAIN m.heap : IsBlock(m.heap[s])

Intact(m) ==
  /\ \A r \in Refs : m.heap[r] = files[r[1]].blocks[r[2]]
  /\ \A i \in DOMAIN files : m.bodies[Parsed(i)] = RefsOf(i)

\* What the merge takes for its own is not the parser's.
OwnOK(m) ==
  \A p \in m.ownLocals : p \in Places(m) /\ p[1] \in m.own /\ RefAt(m, p)[1] = 0

Good(m, coming) ==
  IsMem(m) /\ BodiesOK(m) /\ HeapOK(m, coming) /\ Intact(m) /\ OwnOK(m)

\* A place recorded while indexing holds what it was recorded for.
IndexOK(m, x) ==
  /\ DOMAIN x = {"blocks", "terraform", "locals"}
  /\ \A id \in DOMAIN x.blocks :
       /\ id[1] # "locals"
       /\ x.blocks[id] \in Places(m)
       /\ Identity(At(m, x.blocks[id])) = id
  /\ \A p \in x.terraform : p \in Places(m) /\ IsTerraform(At(m, p))
  /\ \A n \in DOMAIN x.locals :
       /\ x.locals[n] \in Places(m)
       /\ At(m, x.locals[n]).type = "locals"
       /\ Has(At(m, x.locals[n]).attrs, n)

\* What a block may become at its place: another of its kind, and a locals
\* block may only gain names.
Same(b, c) ==
  /\ c.type = b.type /\ c.label = b.label /\ Identity(c) = Identity(b)
  /\ b.type = "locals" => DOMAIN b.attrs \subseteq DOMAIN c.attrs

\* A clone is where it was made for; a seeded terraform block is in an override
\* file's effective file.
HomeOK(m) ==
  \A p \in Places(m) :
    RefAt(m, p)[1] = 0 => \/ RefAt(m, p)[3] = p
                          \/ IsOverride(p[1]) /\ RefAt(m, p)[3] = << >>

\* What a turn may do to the places: blocks stay of their kind, and new ones
\* are no locals and in override files' effective files.
Grows(m, n) ==
  /\ \A p \in Places(m) : p \in Places(n) /\ Same(At(m, p), At(n, p))
  /\ \A p \in Places(n) \ Places(m) : IsOverride(p[1]) /\ At(n, p).type # "locals"
  /\ HomeOK(m) => HomeOK(n)

TodoOK == todo \subseteq {r \in Refs : IsOverride(r[1])}

IInv ==
  /\ FilesOK /\ TodoOK
  /\ Good(mem, todo)
  /\ pc # "index" => IndexOK(mem, index)
  /\ pc = "index" => /\ DOMAIN mem.effective = {} /\ mem.ownLocals = {} /\ todo = {}
                     /\ DOMAIN mem.heap = Refs /\ DOMAIN index.blocks = {} /\ DOMAIN index.locals = {}
                     /\ index.terraform = {} /\ DOMAIN index = {"blocks", "terraform", "locals"}

-----------------------------------------------------------------------------
(* Places *)

\* Earliest is one of the places it is given, and no other comes before it.
LEMMA LeastNatural ==
  ASSUME NEW X \in SUBSET Nat, X # {}
  PROVE  \E x \in X : \A y \in X : x <= y
<1>1. PICK x \in X : \A y \in X : ~(<<y, x>> \in OpToRel(<, Nat))
  BY WFMin, NatLessThanWellFounded
<1>2. ASSUME NEW y \in X PROVE x <= y
  <2>1. <<y, x>> \in Nat \X Nat OBVIOUS
  <2>2. ~(y < x) BY <1>1, <2>1 DEF OpToRel
  <2>3. QED BY <2>1, <2>2
<1>3. QED BY <1>2

LEMMA EarliestIn ==
  ASSUME NEW S \in SUBSET (Nat \X Nat), S # {}
  PROVE  /\ Earliest(S) \in S
         /\ \A q \in S : LET e == Earliest(S) IN e[1] < q[1] \/ (e[1] = q[1] /\ e[2] <= q[2])
<1>1. PICK x \in {p[1] : p \in S} : \A y \in {p[1] : p \in S} : x <= y
  <2>1. {p[1] : p \in S} \in SUBSET Nat /\ {p[1] : p \in S} # {} OBVIOUS
  <2>2. QED BY <2>1, LeastNatural
<1> DEFINE Y == {p[2] : p \in {q \in S : q[1] = x}}
<1>2. PICK y \in Y : \A z \in Y : y <= z
  <2>1. Y \in SUBSET Nat /\ Y # {} OBVIOUS
  <2>2. QED BY <2>1, LeastNatural
<1>3. PICK p \in S : p[1] = x /\ p[2] = y
  OBVIOUS
<1>4. \A q \in S : p[1] < q[1] \/ (p[1] = q[1] /\ p[2] <= q[2])
  <2> TAKE q \in S
  <2>1. x <= q[1] /\ x \in Nat /\ q[1] \in Nat BY <1>1
  <2>2. q[1] = x => y <= q[2] BY <1>2
  <2>3. QED BY <1>3, <2>1, <2>2
<1>5. QED BY <1>4 DEF Earliest

LEMMA PlaceParts ==
  ASSUME NEW m, NEW p
  PROVE  p \in Places(m) <=>
           /\ p = <<p[1], p[2]>>
           /\ p[1] \in DOMAIN m.effective
           /\ p[2] \in DOMAIN BodyOf(m, p[1])
BY DEF Places

\* A function from 1..n into S is a sequence over S.
LEMMA FunctionIsSeq ==
  ASSUME NEW S, NEW n \in Nat, NEW s, s = [i \in 1..n |-> s[i]], \A i \in 1..n : s[i] \in S
  PROVE  s \in Seq(S)
<1>1. s \in [1..n -> S] OBVIOUS
<1>2. QED BY <1>1, SeqDef

-----------------------------------------------------------------------------
(* OwnBodies *)

LEMMA OwnFields ==
  ASSUME NEW m, IsMem(m), NEW fs
  PROVE  LET o == OwnBodies(m, fs) IN
         /\ IsMem(o) /\ o.heap = m.heap /\ o.ownLocals = m.ownLocals /\ o.own = m.own \cup fs
         /\ o.effective = [f \in DOMAIN m.effective |->
                             IF f \in fs \ m.own THEN Copy(f) ELSE m.effective[f]]
         /\ o.bodies = Updated(m.bodies,
                               [c \in {Copy(f) : f \in fs \ m.own} |-> BodyOf(m, c[2])])
BY DEF OwnBodies, IsMem

LEMMA OwnKeeps ==
  ASSUME FilesOK, NEW m, NEW coming, Good(m, coming), NEW fs, fs \subseteq DOMAIN m.effective
  PROVE  LET o == OwnBodies(m, fs) IN
         /\ Good(o, coming)
         /\ \A f \in DOMAIN m.effective : BodyOf(o, f) = BodyOf(m, f)
         /\ Places(o) = Places(m)
<1> DEFINE o == OwnBodies(m, fs)
<1>1. /\ IsMem(o) /\ o.heap = m.heap /\ o.ownLocals = m.ownLocals /\ o.own = m.own \cup fs
      /\ o.effective = [f \in DOMAIN m.effective |->
                          IF f \in fs \ m.own THEN Copy(f) ELSE m.effective[f]]
      /\ o.bodies = Updated(m.bodies,
                            [c \in {Copy(f) : f \in fs \ m.own} |-> BodyOf(m, c[2])])
  BY OwnFields DEF Good
<1> HIDE DEF o
<1>2. /\ DOMAIN o.bodies = DOMAIN m.bodies \cup {Copy(f) : f \in fs \ m.own}
      /\ \A c \in DOMAIN m.bodies : o.bodies[c] = m.bodies[c]
      /\ \A f \in fs \ m.own : o.bodies[Copy(f)] = BodyOf(m, f)
  <2>1. \A c \in DOMAIN m.bodies : c \notin {Copy(f) : f \in fs \ m.own}
    BY DEF Good, BodiesOK, Parsed, Copy
  <2>2. \A f : Copy(f)[2] = f BY DEF Copy
  <2>3. QED BY <1>1, <2>1, <2>2 DEF Updated
<1>3. \A f \in DOMAIN m.effective : BodyOf(m, f) \in Seq(DOMAIN m.heap)
  BY DEF Good, BodiesOK, BodyOf
<1>4. BodiesOK(o)
  <2>1. /\ o.own \subseteq DOMAIN o.effective
        /\ DOMAIN o.effective = DOMAIN m.effective
        /\ \A f \in DOMAIN o.effective : o.effective[f] = IF f \in o.own THEN Copy(f) ELSE Parsed(f)
    BY <1>1 DEF Good, BodiesOK
  <2>2. \A c \in DOMAIN o.bodies : o.bodies[c] \in Seq(DOMAIN o.heap)
    <3> TAKE c \in DOMAIN o.bodies
    <3>1. CASE c \in DOMAIN m.bodies BY <1>1, <1>2, <3>1 DEF Good, BodiesOK
    <3>2. CASE c \in {Copy(f) : f \in fs \ m.own} 
      <4>1. PICK f \in fs \ m.own : c = Copy(f) BY <3>2
      <4>2. o.bodies[c] = BodyOf(m, f) BY <1>2, <4>1
      <4>3. BodyOf(m, f) \in Seq(DOMAIN m.heap) BY <1>3
      <4>4. o.heap = m.heap BY <1>1
      <4>5. QED BY <4>2, <4>3, <4>4
    <3>3. QED BY <1>2, <3>1, <3>2
  <2>3. \A f \in DOMAIN o.effective : f \in o.own \/ IsPrimary(f)
    BY <1>1, <2>1 DEF Good, BodiesOK
  <2>4. DOMAIN o.bodies = {Parsed(i) : i \in DOMAIN files} \cup {Copy(f) : f \in o.own}
    <3>1. {Copy(f) : f \in o.own} = {Copy(f) : f \in m.own} \cup {Copy(f) : f \in fs \ m.own}
      BY <1>1
    <3>2. QED BY <1>2, <3>1, SMTT(20) DEF Good, BodiesOK
  <2>5. QED BY <2>1, <2>2, <2>3, <2>4 DEF Good, BodiesOK
<1>5. \A f \in DOMAIN m.effective : BodyOf(o, f) = BodyOf(m, f)
  <2> TAKE f \in DOMAIN m.effective
  <2>1. CASE f \in fs \ m.own BY <1>1, <1>2, <2>1 DEF BodyOf
  <2>2. CASE f \notin fs \ m.own
    <3>1. o.effective[f] = m.effective[f] BY <1>1, <2>2
    <3>2. m.effective[f] \in DOMAIN m.bodies BY DEF Good, BodiesOK
    <3>3. QED BY <1>2, <3>1, <3>2 DEF BodyOf
  <2>3. QED BY <2>1, <2>2
<1>6. Places(o) = Places(m)
  BY <1>1, <1>5 DEF Places
<1>7. \A p \in Places(m) : RefAt(o, p) = RefAt(m, p)
  BY <1>5, PlaceParts DEF RefAt
<1>8. HeapOK(o, coming) /\ OwnOK(o) /\ Intact(o)
  BY <1>1, <1>2, <1>6, <1>7 DEF Good, HeapOK, OwnOK, Intact, BodiesOK
<1>9. QED BY <1>1, <1>4, <1>5, <1>6, <1>8 DEF o, Good

-----------------------------------------------------------------------------
(* Install *)

LEMMA InstallKeeps ==
  ASSUME FilesOK, NEW m, NEW coming, Good(m, coming), NEW by, by \notin coming,
         NEW new, DOMAIN new \subseteq Places(m),
         \A p \in DOMAIN new : IsBlock(new[p]) /\ Clone(by, p) \notin DOMAIN m.heap
  PROVE  LET n == Install(m, by, new) IN
         /\ Good(n, coming)
         /\ Places(n) = Places(m) /\ n.ownLocals = m.ownLocals /\ m.own \subseteq n.own
         /\ \A p \in DOMAIN new : p[1] \in n.own
         /\ \A p \in Places(m) :
              /\ RefAt(n, p) = IF p \in DOMAIN new THEN Clone(by, p) ELSE RefAt(m, p)
              /\ At(n, p) = IF p \in DOMAIN new THEN new[p] ELSE At(m, p)
<1> DEFINE fs == {p[1] : p \in DOMAIN new}
           o == OwnBodies(m, fs)
           n == Install(m, by, new)
           clones == {Clone(by, p) : p \in DOMAIN new}
<1>1. fs \subseteq DOMAIN m.effective
  BY PlaceParts
<1>2. /\ Good(o, coming)
      /\ \A f \in DOMAIN m.effective : BodyOf(o, f) = BodyOf(m, f)
      /\ Places(o) = Places(m)
      /\ o.heap = m.heap /\ o.own = m.own \cup fs /\ o.ownLocals = m.ownLocals
      /\ DOMAIN o.effective = DOMAIN m.effective
  <2>1. IsMem(m) BY DEF Good
  <2>2. /\ Good(o, coming) /\ Places(o) = Places(m)
        /\ \A f \in DOMAIN m.effective : BodyOf(o, f) = BodyOf(m, f)
    BY <1>1, OwnKeeps
  <2>3. /\ IsMem(o) /\ o.heap = m.heap /\ o.ownLocals = m.ownLocals /\ o.own = m.own \cup fs
        /\ o.effective = [f \in DOMAIN m.effective |->
                            IF f \in fs \ m.own THEN Copy(f) ELSE m.effective[f]]
        /\ o.bodies = Updated(m.bodies,
                              [c \in {Copy(f) : f \in fs \ m.own} |-> BodyOf(m, c[2])])
    BY <2>1, OwnFields
  <2> HIDE DEF fs, o
  <2>4. QED BY <2>2, <2>3
<1>3. /\ IsMem(n) /\ n.ownLocals = m.ownLocals
      /\ n.own = o.own /\ n.effective = o.effective
      /\ n.heap = Updated(m.heap, [r \in clones |-> new[r[3]]])
      /\ n.bodies = [b \in DOMAIN o.bodies |->
           [j \in DOMAIN o.bodies[b] |->
              IF b[1] = "copy" /\ <<b[2], j>> \in DOMAIN new
              THEN Clone(by, <<b[2], j>>) ELSE o.bodies[b][j]]]
  <2>1. IsMem(o) BY <1>2 DEF Good
  <2> HIDE DEF o
  <2>2. QED BY <1>2, <2>1 DEF Install, IsMem, o
<1> HIDE DEF fs, o, n, clones
<1>4. /\ DOMAIN n.heap = DOMAIN m.heap \cup clones
      /\ \A s \in DOMAIN m.heap : n.heap[s] = m.heap[s]
      /\ \A p \in DOMAIN new : n.heap[Clone(by, p)] = new[p]
  <2>1. \A p : Clone(by, p)[3] = p BY DEF Clone
  <2>2. \A s \in DOMAIN m.heap : s \notin clones BY DEF clones
  <2>3. \A p \in DOMAIN new : Clone(by, p) \in clones BY DEF clones
  <2>4. QED BY <1>3, <2>1, <2>2, <2>3 DEF Updated
<1>5. ASSUME NEW b \in DOMAIN o.bodies
      PROVE  /\ n.bodies[b] \in Seq(DOMAIN n.heap)
             /\ DOMAIN n.bodies[b] = DOMAIN o.bodies[b]
  <2> DEFINE s == n.bodies[b]
  <2>1. o.bodies[b] \in Seq(DOMAIN m.heap)
    BY <1>2 DEF Good, BodiesOK
  <2>2. PICK k \in Nat : DOMAIN o.bodies[b] = 1..k
    BY <2>1
  <2>3. s = [j \in 1..k |-> IF b[1] = "copy" /\ <<b[2], j>> \in DOMAIN new
                            THEN Clone(by, <<b[2], j>>) ELSE o.bodies[b][j]]
    BY <1>3, <2>2
  <2>4. \A j \in 1..k : o.bodies[b][j] \in DOMAIN m.heap
    BY <2>1, <2>2
  <2>5. \A j \in 1..k : s[j] \in DOMAIN n.heap
    BY <1>4, <2>3, <2>4 DEF clones
  <2> HIDE DEF s
  <2>6. s = [j \in 1..k |-> s[j]] BY <2>3
  <2>7. s \in Seq(DOMAIN n.heap) BY <2>5, <2>6, FunctionIsSeq
  <2>8. QED BY <2>2, <2>3, <2>7 DEF s
<1>6. DOMAIN n.bodies = DOMAIN o.bodies
  BY <1>3
<1>7. BodiesOK(n)
  BY <1>2, <1>3, <1>5, <1>6 DEF Good, BodiesOK
<1>8. HeapOK(n, coming)
  <2>1. \A p : Clone(by, p)[1] = 0 /\ Clone(by, p)[2] = by BY DEF Clone
  <2>2. \A s \in DOMAIN n.heap : s \in Refs \/ (s[1] = 0 /\ s[2] \notin coming)
    BY <1>4, <2>1 DEF Good, HeapOK, clones
  <2>3. \A s \in DOMAIN n.heap : IsBlock(n.heap[s])
    BY <1>4 DEF Good, HeapOK, clones
  <2>4. QED BY <1>4, <2>2, <2>3 DEF Good, HeapOK
<1>9. Intact(n)
  <2>1. \A r \in Refs : n.heap[r] = files[r[1]].blocks[r[2]]
    BY <1>4 DEF Good, Intact, HeapOK
  <2>2. ASSUME NEW i \in DOMAIN files PROVE n.bodies[Parsed(i)] = RefsOf(i)
    <3>1. Parsed(i) \in DOMAIN o.bodies /\ o.bodies[Parsed(i)] = RefsOf(i)
      BY <1>2 DEF Good, BodiesOK, Intact
    <3>2. Parsed(i)[1] # "copy" BY DEF Parsed
    <3>3. n.bodies[Parsed(i)] = [j \in DOMAIN RefsOf(i) |-> RefsOf(i)[j]]
      BY <1>3, <3>1, <3>2
    <3>4. QED BY <3>3 DEF RefsOf
  <2>3. QED BY <2>1, <2>2 DEF Intact
<1>10. \A f \in DOMAIN m.effective : n.effective[f] \in DOMAIN o.bodies
  BY <1>2, <1>3 DEF Good, BodiesOK
<1>11. Places(n) = Places(m)
  BY <1>2, <1>3, <1>5, <1>10 DEF Places, BodyOf
<1>12. ASSUME NEW p \in Places(m)
       PROVE  RefAt(n, p) = IF p \in DOMAIN new THEN Clone(by, p) ELSE RefAt(m, p)
  <2>1. p = <<p[1], p[2]>> /\ p[1] \in DOMAIN m.effective /\ p[2] \in DOMAIN BodyOf(m, p[1])
    BY PlaceParts
  <2> DEFINE b == o.effective[p[1]]
  <2>2. b = IF p[1] \in o.own THEN Copy(p[1]) ELSE Parsed(p[1])
    BY <1>2, <2>1 DEF Good, BodiesOK
  <2>3. o.bodies[b] = BodyOf(m, p[1]) /\ b \in DOMAIN o.bodies
    BY <1>2, <1>3, <1>10, <2>1 DEF BodyOf
  <2>4. RefAt(n, p) = IF b[1] = "copy" /\ <<b[2], p[2]>> \in DOMAIN new
                      THEN Clone(by, <<b[2], p[2]>>) ELSE RefAt(m, p)
    BY <1>3, <2>1, <2>3 DEF RefAt, BodyOf
  <2>5. CASE p[1] \in o.own
    <3>1. b[1] = "copy" /\ b[2] = p[1] BY <2>2, <2>5 DEF Copy
    <3>2. QED BY <2>1, <2>4, <3>1
  <2>6. CASE p[1] \notin o.own
    <3>1. b[1] # "copy" BY <2>2, <2>6 DEF Parsed
    <3>2. p \notin DOMAIN new BY <1>2, <2>6 DEF fs
    <3>3. QED BY <2>4, <3>1, <3>2
  <2>7. QED BY <2>5, <2>6
<1>13. \A p \in Places(m) : RefAt(m, p) \in DOMAIN m.heap
  <2> TAKE p \in Places(m)
  <2>1. BodyOf(m, p[1]) \in Seq(DOMAIN m.heap) BY PlaceParts DEF Good, BodiesOK, BodyOf
  <2>2. QED BY <2>1, PlaceParts DEF RefAt
<1>14. \A p \in Places(m) : At(n, p) = IF p \in DOMAIN new THEN new[p] ELSE At(m, p)
  BY <1>4, <1>12, <1>13 DEF At
<1>15. \A p \in DOMAIN new : p[1] \in n.own
  BY <1>2, <1>3 DEF fs
<1>16. OwnOK(n)
  <2>1. \A p \in m.ownLocals : RefAt(n, p)[1] = 0
    BY <1>12 DEF Good, OwnOK, Clone
  <2>2. QED BY <1>2, <1>3, <1>11, <2>1 DEF Good, OwnOK
<1>17. QED
  BY <1>2, <1>3, <1>7, <1>8, <1>9, <1>11, <1>12, <1>14, <1>15, <1>16 DEF Good, n

-----------------------------------------------------------------------------
(* Overwrite, and what lets an override file's effective file grow *)

LEMMA RefsInHeap ==
  ASSUME NEW m, NEW coming, Good(m, coming), NEW p \in Places(m)
  PROVE  RefAt(m, p) \in DOMAIN m.heap
<1>1. p[1] \in DOMAIN m.effective /\ p[2] \in DOMAIN BodyOf(m, p[1])
  BY PlaceParts
<1>2. m.effective[p[1]] \in DOMAIN m.bodies
  BY <1>1 DEF Good, BodiesOK
<1>3. BodyOf(m, p[1]) \in Seq(DOMAIN m.heap)
  BY <1>2 DEF Good, BodiesOK, BodyOf
<1>4. QED BY <1>1, <1>3 DEF RefAt

LEMMA OverwriteKeeps ==
  ASSUME FilesOK, NEW m, NEW coming, Good(m, coming), NEW new, DOMAIN new \subseteq Places(m),
         \A p \in DOMAIN new : RefAt(m, p)[1] = 0 /\ IsBlock(new[p])
  PROVE  LET w == Overwrite(m, new) IN
         /\ Good(w, coming)
         /\ Places(w) = Places(m) /\ w.ownLocals = m.ownLocals /\ w.own = m.own
         /\ \A p \in Places(m) :
              /\ RefAt(w, p) = RefAt(m, p)
              /\ \/ p \notin DOMAIN new /\ At(w, p) = At(m, p)
                 \/ \E q \in DOMAIN new : RefAt(m, q) = RefAt(m, p) /\ At(w, p) = new[q]
<1> DEFINE w == Overwrite(m, new)
           Here(r) == {p \in DOMAIN new : RefAt(m, p) = r}
<1>1. IsMem(m) BY DEF Good
<1>2. /\ IsMem(w) /\ w.own = m.own /\ w.ownLocals = m.ownLocals
      /\ w.effective = m.effective /\ w.bodies = m.bodies
      /\ w.heap = [r \in DOMAIN m.heap |-> IF Here(r) = {} THEN m.heap[r]
                                           ELSE new[CHOOSE p \in Here(r) : TRUE]]
  BY <1>1 DEF Overwrite, IsMem
<1> HIDE DEF w
<1>3. ASSUME NEW r \in DOMAIN m.heap
      PROVE  \/ w.heap[r] = m.heap[r] /\ Here(r) = {}
             \/ \E q \in DOMAIN new : RefAt(m, q) = r /\ w.heap[r] = new[q]
  <2>1. CASE Here(r) = {} BY <1>2, <2>1
  <2>2. CASE Here(r) # {}
    <3>1. (CHOOSE p \in Here(r) : TRUE) \in Here(r) BY <2>2
    <3>2. w.heap[r] = new[CHOOSE p \in Here(r) : TRUE] BY <1>2, <2>2
    <3>3. QED BY <3>1, <3>2
  <2>3. QED BY <2>1, <2>2
<1>4. \A f : BodyOf(w, f) = BodyOf(m, f)
  BY <1>2 DEF BodyOf
<1>5. Places(w) = Places(m) /\ \A p : RefAt(w, p) = RefAt(m, p)
  BY <1>2, <1>4 DEF Places, RefAt
<1>6. \A p \in Places(m) :
        \/ p \notin DOMAIN new /\ At(w, p) = At(m, p)
        \/ \E q \in DOMAIN new : RefAt(m, q) = RefAt(m, p) /\ At(w, p) = new[q]
  BY <1>3, <1>5, RefsInHeap DEF At
<1>7. DOMAIN w.heap = DOMAIN m.heap BY <1>2
<1>8. HeapOK(w, coming)
  BY <1>3, <1>7 DEF Good, HeapOK
<1>9. Intact(w)
  <2>1. \A r \in Refs : r[1] # 0 BY DEF Refs, FilesOK
  <2>2. \A r \in Refs : w.heap[r] = m.heap[r]
    BY <1>3, <2>1 DEF Good, HeapOK
  <2>3. QED BY <1>2, <2>2 DEF Good, Intact
<1>10. BodiesOK(w) /\ OwnOK(w)
  BY <1>2, <1>5, <1>7 DEF Good, BodiesOK, OwnOK
<1>11. QED BY <1>2, <1>5, <1>6, <1>8, <1>9, <1>10 DEF Good, w

LEMMA ExtraKeeps ==
  ASSUME FilesOK, NEW m, NEW coming, Good(m, coming), NEW i, IsOverride(i)
  PROVE  LET x == WithExtra(m, i) IN
         /\ Good(x, coming)
         /\ i \in x.own /\ x.heap = m.heap /\ x.ownLocals = m.ownLocals
         /\ Places(x) = Places(m)
         /\ \A p \in Places(m) : p \in Places(x) /\ RefAt(x, p) = RefAt(m, p)
<1> DEFINE x == WithExtra(m, i)
<1>1. CASE i \in DOMAIN m.effective
  BY <1>1 DEF WithExtra, Good, BodiesOK, IsPrimary, IsOverride
<1>2. CASE i \notin DOMAIN m.effective
  <2>1. IsMem(m) BY DEF Good
  <2>2. /\ IsMem(x) /\ x.heap = m.heap /\ x.ownLocals = m.ownLocals /\ x.own = m.own \cup {i}
        /\ x.bodies = Updated(m.bodies, [o \in {Copy(i)} |-> << >>])
        /\ x.effective = Updated(m.effective, [f \in {i} |-> Copy(i)])
    BY <1>2, <2>1 DEF WithExtra, IsMem
  <2> HIDE DEF x
  <2>3. /\ DOMAIN x.bodies = DOMAIN m.bodies \cup {Copy(i)}
        /\ x.bodies[Copy(i)] = << >>
        /\ \A o \in DOMAIN m.bodies : o # Copy(i) => x.bodies[o] = m.bodies[o]
    BY <2>2 DEF Updated
  <2>4. Copy(i) \notin DOMAIN m.bodies
    BY <1>2 DEF Good, BodiesOK, Copy, Parsed
  <2>5. /\ DOMAIN x.effective = DOMAIN m.effective \cup {i}
        /\ x.effective[i] = Copy(i)
        /\ \A f \in DOMAIN m.effective : x.effective[f] = m.effective[f]
    BY <1>2, <2>2 DEF Updated
  <2>6. \A f \in DOMAIN m.effective : BodyOf(x, f) = BodyOf(m, f)
    BY <2>3, <2>4, <2>5 DEF Good, BodiesOK, BodyOf
  <2>7. \A p \in Places(m) : p \in Places(x) /\ RefAt(x, p) = RefAt(m, p)
    BY <2>5, <2>6, PlaceParts DEF RefAt
  <2>8. BodiesOK(x)
    <3>1. \A o \in DOMAIN x.bodies : x.bodies[o] \in Seq(DOMAIN x.heap)
      <4> TAKE o \in DOMAIN x.bodies
      <4>1. CASE o = Copy(i)
        <5>1. << >> \in Seq(DOMAIN x.heap) OBVIOUS
        <5>2. QED BY <2>3, <4>1, <5>1
      <4>2. CASE o # Copy(i) BY <2>2, <2>3, <4>2 DEF Good, BodiesOK
      <4>3. QED BY <4>1, <4>2
    <3>2. DOMAIN x.bodies = {Parsed(k) : k \in DOMAIN files} \cup {Copy(f) : f \in x.own}
      BY <2>2, <2>3 DEF Good, BodiesOK
    <3>3. i \in DOMAIN files BY DEF IsOverride
    <3>4. QED BY <2>2, <2>5, <3>1, <3>2, <3>3 DEF Good, BodiesOK
  <2>9. HeapOK(x, coming) /\ Intact(x) /\ OwnOK(x)
    <3>1. \A k \in DOMAIN files : Parsed(k) \in DOMAIN m.bodies BY DEF Good, BodiesOK
    <3>2. QED BY <2>2, <2>3, <2>4, <2>7, <3>1 DEF Good, HeapOK, Intact, OwnOK
  <2>10. ASSUME NEW p \in Places(x) PROVE p \in Places(m)
    <3>1. p = <<p[1], p[2]>> /\ p[1] \in DOMAIN x.effective /\ p[2] \in DOMAIN BodyOf(x, p[1])
      BY PlaceParts
    <3>2. DOMAIN BodyOf(x, i) = {} BY <2>3, <2>5 DEF BodyOf
    <3>3. p[1] \in DOMAIN m.effective BY <2>5, <3>1, <3>2
    <3>4. QED BY <2>6, <3>1, <3>3, PlaceParts
  <2>11. Places(x) = Places(m) BY <2>7, <2>10
  <2>12. QED BY <2>2, <2>7, <2>8, <2>9, <2>11 DEF Good, x
<1>3. QED BY <1>1, <1>2

\* A new object, in no body yet.
Grown(m, ref, b) == [m EXCEPT !.heap = Updated(@, [s \in {ref} |-> b])]

LEMMA GrowKeeps ==
  ASSUME FilesOK, NEW m, NEW coming, Good(m, coming), NEW ref, ref \notin DOMAIN m.heap,
         ref[1] = 0, ref[2] \notin coming, NEW b, IsBlock(b)
  PROVE  LET g == Grown(m, ref, b) IN
         /\ Good(g, coming)
         /\ g.own = m.own /\ g.ownLocals = m.ownLocals /\ Places(g) = Places(m)
         /\ DOMAIN g.heap = DOMAIN m.heap \cup {ref} /\ g.heap[ref] = b
         /\ \A p \in Places(m) : p \in Places(g) /\ RefAt(g, p) = RefAt(m, p)
         /\ \A s \in DOMAIN m.heap : g.heap[s] = m.heap[s]
<1> DEFINE g == Grown(m, ref, b)
<1>1. IsMem(m) BY DEF Good
<1>2. /\ IsMem(g) /\ g.own = m.own /\ g.ownLocals = m.ownLocals
      /\ g.effective = m.effective /\ g.bodies = m.bodies
      /\ g.heap = Updated(m.heap, [s \in {ref} |-> b])
  BY <1>1 DEF IsMem, Grown
<1> HIDE DEF g
<1>3. /\ DOMAIN g.heap = DOMAIN m.heap \cup {ref} /\ g.heap[ref] = b
      /\ \A s \in DOMAIN m.heap : g.heap[s] = m.heap[s]
  BY <1>2 DEF Updated
<1>4. Places(g) = Places(m) /\ \A p : RefAt(g, p) = RefAt(m, p)
  BY <1>2 DEF Places, RefAt, BodyOf
<1>5. BodiesOK(g)
  <2>1. \A o \in DOMAIN g.bodies : g.bodies[o] \in Seq(DOMAIN g.heap)
    <3> TAKE o \in DOMAIN g.bodies
    <3>1. g.bodies[o] \in Seq(DOMAIN m.heap) BY <1>2 DEF Good, BodiesOK
    <3>2. QED BY <1>3, <3>1, SeqMonotonic
  <2>2. QED BY <1>2, <2>1 DEF Good, BodiesOK
<1>6. HeapOK(g, coming)
  BY <1>3 DEF Good, HeapOK
<1>7. Intact(g) /\ OwnOK(g)
  BY <1>2, <1>3, <1>4 DEF Good, HeapOK, Intact, OwnOK
<1>8. QED BY <1>2, <1>3, <1>4, <1>5, <1>6, <1>7 DEF Good, g

LEMMA AddKeeps ==
  ASSUME FilesOK, NEW m, NEW coming, Good(m, coming), NEW f \in m.own, NEW ref \in DOMAIN m.heap
  PROVE  LET a == AddRef(m, f, ref)
             place == <<f, Len(BodyOf(m, f)) + 1>>
         IN /\ Good(a, coming)
            /\ a.own = m.own /\ a.ownLocals = m.ownLocals /\ a.heap = m.heap
            /\ \A p \in Places(m) : p \in Places(a) /\ RefAt(a, p) = RefAt(m, p)
            /\ Places(a) = Places(m) \cup {place} /\ place \notin Places(m)
            /\ place \in Places(a) /\ RefAt(a, place) = ref
            /\ Len(BodyOf(a, f)) = Len(BodyOf(m, f)) + 1
<1> DEFINE a == AddRef(m, f, ref)
           old == BodyOf(m, f)
<1>1. IsMem(m) BY DEF Good
<1>2. m.effective[f] = Copy(f) /\ Copy(f) \in DOMAIN m.bodies /\ f \in DOMAIN m.effective
  BY DEF Good, BodiesOK
<1>3. /\ IsMem(a) /\ a.own = m.own /\ a.ownLocals = m.ownLocals
      /\ a.effective = m.effective /\ a.heap = m.heap
      /\ a.bodies = [m.bodies EXCEPT ![Copy(f)] = Append(old, ref)]
  BY <1>1, <1>2 DEF IsMem, AddRef, BodyOf
<1>4. old \in Seq(DOMAIN m.heap)
  BY <1>2 DEF Good, BodiesOK, BodyOf
<1> HIDE DEF a, old
<1>5. /\ Append(old, ref) \in Seq(DOMAIN m.heap)
      /\ Len(old) \in Nat /\ DOMAIN old = 1..Len(old)
      /\ Len(Append(old, ref)) = Len(old) + 1
      /\ DOMAIN Append(old, ref) = 1..Len(old) + 1
      /\ \A j \in DOMAIN old : Append(old, ref)[j] = old[j]
      /\ Append(old, ref)[Len(old) + 1] = ref
  BY <1>4
<1>6. BodyOf(a, f) = Append(old, ref)
  BY <1>2, <1>3 DEF BodyOf
<1>7. \A k \in DOMAIN m.effective : k # f => BodyOf(a, k) = BodyOf(m, k)
  <2>1. \A k \in DOMAIN m.effective : k # f => m.effective[k] # Copy(f)
    <3>1. \A k : Copy(k)[2] = k /\ Copy(k)[1] = "copy" /\ Parsed(k)[1] = "parsed"
      BY DEF Copy, Parsed
    <3>2. QED BY <3>1 DEF Good, BodiesOK
  <2>2. QED BY <1>3, <2>1 DEF Good, BodiesOK, BodyOf
<1>8. ASSUME NEW p \in Places(m) PROVE p \in Places(a) /\ RefAt(a, p) = RefAt(m, p)
  <2>1. p = <<p[1], p[2]>> /\ p[1] \in DOMAIN m.effective /\ p[2] \in DOMAIN BodyOf(m, p[1])
    BY PlaceParts
  <2>2. CASE p[1] = f
    <3>1. p[2] \in DOMAIN old BY <2>1, <2>2 DEF old
    <3>2. p[2] \in DOMAIN BodyOf(a, p[1]) /\ BodyOf(a, p[1])[p[2]] = old[p[2]]
      BY <1>5, <1>6, <2>2, <3>1
    <3>3. QED BY <1>3, <2>1, <2>2, <3>2, PlaceParts DEF RefAt, old
  <2>3. CASE p[1] # f
    BY <1>3, <1>7, <2>1, <2>3, PlaceParts DEF RefAt
  <2>4. QED BY <2>2, <2>3
<1>9. <<f, Len(old) + 1>> \in Places(a) /\ RefAt(a, <<f, Len(old) + 1>>) = ref
  BY <1>2, <1>3, <1>5, <1>6, PlaceParts DEF RefAt
<1>14. <<f, Len(old) + 1>> \notin Places(m)
  BY <1>5, PlaceParts DEF old
<1>15. ASSUME NEW p \in Places(a) PROVE p \in Places(m) \/ p = <<f, Len(old) + 1>>
  <2>1. p = <<p[1], p[2]>> /\ p[1] \in DOMAIN m.effective /\ p[2] \in DOMAIN BodyOf(a, p[1])
    BY <1>3, PlaceParts
  <2>2. CASE p[1] = f
    <3>1. p[2] \in 1..Len(old) + 1 BY <1>5, <1>6, <2>1, <2>2
    <3>2. p[2] \in DOMAIN old \/ p[2] = Len(old) + 1 BY <1>5, <3>1
    <3>3. QED BY <2>1, <2>2, <3>2, PlaceParts DEF old
  <2>3. CASE p[1] # f BY <1>7, <2>1, <2>3, PlaceParts
  <2>4. QED BY <2>2, <2>3
<1>16. Places(a) = Places(m) \cup {<<f, Len(old) + 1>>}
  BY <1>8, <1>9, <1>15
<1>10. BodiesOK(a)
  <2>1. \A o \in DOMAIN a.bodies : a.bodies[o] \in Seq(DOMAIN a.heap)
    BY <1>3, <1>5 DEF Good, BodiesOK
  <2>2. QED BY <1>3, <2>1 DEF Good, BodiesOK
<1>11. Intact(a)
  <2>1. \A i : Parsed(i) # Copy(f) BY DEF Parsed, Copy
  <2>2. QED BY <1>3, <2>1 DEF Good, Intact, BodiesOK
<1>12. HeapOK(a, coming) /\ OwnOK(a)
  BY <1>3, <1>8 DEF Good, HeapOK, OwnOK
<1>13. QED
  BY <1>3, <1>5, <1>6, <1>8, <1>9, <1>10, <1>11, <1>12, <1>14, <1>16 DEF Good, a, old

-----------------------------------------------------------------------------
(* Blocks *)

LEMMA IdentityParts ==
  ASSUME NEW b
  PROVE  /\ Identity(b) = <<b.type, b.label, Identity(b)[3]>>
         /\ b.type # "provider" => Identity(b)[3] = "none"
BY DEF Identity

LEMMA MergeKeeps ==
  ASSUME NEW base, IsBlock(base), NEW over, NEW tofu, Identity(over) = Identity(base),
         base.type # "locals"
  PROVE  LET c == MergeTopLevel(base, over, tofu) IN IsBlock(c) /\ Same(base, c)
<1> DEFINE merged == MergeBody(base, over, tofu)
           c == MergeTopLevel(base, over, tofu)
           args == FixedArgs(base.type)
<1>1. /\ IsBlock(merged) /\ merged.type = base.type /\ merged.label = base.label
      /\ merged.attrs = Updated(base.attrs, over.attrs)
  BY DEF MergeBody, IsBlock
<1> HIDE DEF merged
<1>2. /\ IsBlock(c) /\ c.type = base.type /\ c.label = base.label
      /\ c.attrs = Updated(Without(merged.attrs, args), Only(base.attrs, args))
  BY <1>1 DEF MergeTopLevel, IsBlock, merged
<1> HIDE DEF c
<1>3. Identity(c) = Identity(base)
  <2>1. CASE base.type = "provider"
    <3>1. args = {} BY <2>1 DEF FixedArgs
    <3>2. /\ DOMAIN c.attrs = DOMAIN base.attrs \cup DOMAIN over.attrs
          /\ \A n \in DOMAIN c.attrs :
               c.attrs[n] = IF n \in DOMAIN over.attrs THEN over.attrs[n] ELSE base.attrs[n]
      BY <1>1, <1>2, <3>1 DEF Updated, Without, Only
    <3>3. over.type = "provider" BY <2>1, IdentityParts
    <3>4. Identity(c)[3] = Identity(base)[3]
      BY <1>2, <2>1, <3>2, <3>3 DEF Identity, Has
    <3>5. QED BY <1>2, <3>4, IdentityParts
  <2>2. CASE base.type # "provider"
    BY <1>2, <2>2, IdentityParts
  <2>3. QED BY <2>1, <2>2
<1>4. QED BY <1>2, <1>3 DEF Same, c

LEMMA SameTransitive ==
  ASSUME NEW a, NEW b, NEW c, Same(a, b), Same(b, c) PROVE Same(a, c)
BY DEF Same

LEMMA SameReflexive == \A b : Same(b, b)
BY DEF Same

LEMMA BlocksAt ==
  ASSUME NEW m, NEW coming, Good(m, coming), NEW p \in Places(m)
  PROVE  IsBlock(At(m, p))
BY RefsInHeap DEF At, Good, HeapOK

LEMMA PlacesNatural ==
  ASSUME FilesOK, NEW m, NEW coming, Good(m, coming)
  PROVE  Places(m) \subseteq Nat \X Nat
<1> SUFFICES ASSUME NEW p \in Places(m) PROVE p \in Nat \X Nat
  OBVIOUS
<1>1. p = <<p[1], p[2]>> /\ p[1] \in DOMAIN m.effective /\ p[2] \in DOMAIN BodyOf(m, p[1])
  BY PlaceParts
<1>2. BodyOf(m, p[1]) \in Seq(DOMAIN m.heap)
  BY <1>1 DEF Good, BodiesOK, BodyOf
<1>3. p[2] \in Nat BY <1>1, <1>2
<1>4. p[1] \in Nat BY <1>1 DEF Good, BodiesOK, FilesOK
<1>5. QED BY <1>1, <1>3, <1>4

LEMMA Indexed ==
  ASSUME FilesOK, NEW m, NEW coming, Good(m, coming)
  PROVE  IndexOK(m, IndexOf(m))
<1> DEFINE locals == {p \in Places(m) : At(m, p).type = "locals"}
           plain == Places(m) \ locals
           x == IndexOf(m)
<1>1. /\ DOMAIN x = {"blocks", "terraform", "locals"}
      /\ x.blocks = [id \in {Identity(At(m, p)) : p \in plain} |->
                       Earliest({p \in plain : Identity(At(m, p)) = id})]
      /\ x.terraform = {p \in plain : IsTerraform(At(m, p))}
      /\ x.locals = [n \in UNION {DOMAIN At(m, p).attrs : p \in locals} |->
                       Earliest({p \in locals : Has(At(m, p).attrs, n)})]
  BY DEF IndexOf
<1> HIDE DEF x
<1>2. ASSUME NEW S, S \subseteq Places(m), S # {} PROVE Earliest(S) \in S
  <2>1. S \in SUBSET (Nat \X Nat) BY <1>2, PlacesNatural
  <2>2. QED BY <1>2, <2>1, EarliestIn
<1>3. ASSUME NEW id \in DOMAIN x.blocks
      PROVE  /\ id[1] # "locals" /\ x.blocks[id] \in Places(m)
             /\ Identity(At(m, x.blocks[id])) = id
  <2> DEFINE S == {p \in plain : Identity(At(m, p)) = id}
  <2>1. S # {} /\ S \subseteq Places(m) BY <1>1
  <2>2. x.blocks[id] \in S BY <1>1, <1>2, <2>1
  <2>3. id[1] = At(m, x.blocks[id]).type BY <2>2, IdentityParts
  <2>4. QED BY <2>2, <2>3
<1>4. ASSUME NEW n \in DOMAIN x.locals
      PROVE  /\ x.locals[n] \in Places(m) /\ At(m, x.locals[n]).type = "locals"
             /\ Has(At(m, x.locals[n]).attrs, n)
  <2> DEFINE S == {p \in locals : Has(At(m, p).attrs, n)}
  <2>1. S # {} /\ S \subseteq Places(m) BY <1>1 DEF Has
  <2>2. x.locals[n] \in S BY <1>1, <1>2, <2>1
  <2>3. QED BY <2>2
<1>5. QED BY <1>1, <1>3, <1>4 DEF IndexOK, x

\* The index stays right while blocks stay where and what they are.
LEMMA IndexStays ==
  ASSUME NEW m, NEW x, IndexOK(m, x), NEW n,
         \A p \in Places(m) : p \in Places(n) /\ Same(At(m, p), At(n, p))
  PROVE  IndexOK(n, x)
<1>1. \A p : IsTerraform(At(m, p)) /\ Same(At(m, p), At(n, p)) => IsTerraform(At(n, p))
  BY DEF IsTerraform, Same
<1>2. QED BY <1>1 DEF IndexOK, Same, Has

\* A turn that has passed is not to come.
LEMMA TurnPasses ==
  ASSUME NEW m, NEW coming, Good(m, coming), NEW r
  PROVE  Good(m, coming \ {r})
BY DEF Good, HeapOK

LEMMA ClonesAtHome ==
  ASSUME NEW m, NEW n, NEW by, NEW S, HomeOK(m), Places(n) = Places(m),
         \A p \in Places(m) : RefAt(n, p) = IF p \in S THEN Clone(by, p) ELSE RefAt(m, p)
  PROVE  HomeOK(n)
<1>1. \A p : Clone(by, p)[3] = p BY DEF Clone
<1>2. QED BY <1>1 DEF HomeOK

\* While an override block is to come, no clone was made for it.
LEMMA Fresh ==
  ASSUME FilesOK, NEW m, NEW coming, Good(m, coming), NEW r \in coming, NEW p
  PROVE  Clone(r, p) \notin DOMAIN m.heap
<1>1. \A s \in Refs : s[1] # 0 BY DEF Refs, FilesOK
<1>2. Clone(r, p)[1] = 0 /\ Clone(r, p)[2] = r BY DEF Clone
<1>3. QED BY <1>1, <1>2 DEF Good, HeapOK

-----------------------------------------------------------------------------
(* One turn each: the memory is good afterwards, blocks are still where    *)
(* and what they were, and the index is right.                             *)

LEMMA StartKeeps ==
  ASSUME IInv, pc = "index", NEW fs, \A i \in fs : IsPrimary(i), NEW coming
  PROVE  Good([mem EXCEPT !.effective = [i \in fs |-> Parsed(i)]], coming)
<1> DEFINE m == [mem EXCEPT !.effective = [i \in fs |-> Parsed(i)]]
<1>1. Good(mem, todo) /\ IsMem(mem) BY DEF IInv, Good
<1>2. mem.own = {} /\ mem.ownLocals = {} /\ DOMAIN mem.heap = Refs
  BY <1>1 DEF IInv, Good, BodiesOK
<1>3. /\ IsMem(m) /\ m.own = {} /\ m.ownLocals = {} /\ m.heap = mem.heap
      /\ m.bodies = mem.bodies /\ m.effective = [i \in fs |-> Parsed(i)]
  BY <1>1, <1>2 DEF IsMem
<1> HIDE DEF m
<1>4. BodiesOK(m)
  <2>1. fs \subseteq DOMAIN files BY DEF IsPrimary
  <2>2. QED BY <1>1, <1>2, <1>3, <2>1 DEF Good, BodiesOK
<1>5. HeapOK(m, coming) /\ Intact(m) /\ OwnOK(m)
  BY <1>1, <1>2, <1>3 DEF Good, HeapOK, Intact, OwnOK
<1>6. QED BY <1>3, <1>4, <1>5 DEF Good, m

LEMMA NoOverridesKeeps ==
  ASSUME IInv, NoOverrides
  PROVE  Good(mem', todo') /\ IndexOK(mem', index')
<1>1. \A i \in DOMAIN files : IsPrimary(i) BY DEF NoOverrides, IsPrimary, IsOverride
<1>2. Good(mem', todo') BY <1>1, StartKeeps DEF NoOverrides
<1>3. IndexOK(mem', index') BY DEF NoOverrides, IInv, IndexOK
<1>4. QED BY <1>2, <1>3

LEMMA IndexPrimaryKeeps ==
  ASSUME IInv, IndexPrimary
  PROVE  Good(mem', todo') /\ IndexOK(mem', index')
<1>1. Good(mem', todo')
  <2>1. \A i \in {k \in DOMAIN files : IsPrimary(k)} : IsPrimary(i) OBVIOUS
  <2>2. QED BY <2>1, StartKeeps DEF IndexPrimary
<1>2. IndexOK(mem', index') BY <1>1, Indexed DEF IndexPrimary, IInv
<1>3. QED BY <1>1, <1>2

\* What a turn finds.
LEMMA AtTurn ==
  ASSUME IInv, NEW r \in todo, Turn(r)
  PROVE  /\ FilesOK /\ Good(mem, todo) /\ Good(mem, todo') /\ IndexOK(mem, index)
         /\ r \notin todo' /\ r \in Refs /\ IsOverride(r[1])
         /\ IsBlock(Block(r))
         /\ \A p : Clone(r, p) \notin DOMAIN mem.heap
<1>1. FilesOK /\ Good(mem, todo) /\ IndexOK(mem, index) /\ r \in Refs /\ IsOverride(r[1])
  BY DEF IInv, TodoOK, Turn
<1>2. todo' = todo \ {r} BY DEF Turn
<1>3. Good(mem, todo') BY <1>1, <1>2, TurnPasses
<1>4. \A p : Clone(r, p) \notin DOMAIN mem.heap BY <1>1, Fresh
<1>5. IsBlock(Block(r)) BY <1>1 DEF Good, HeapOK, Block
<1>6. QED BY <1>1, <1>2, <1>3, <1>4, <1>5

LEMMA MergeBlockKeeps ==
  ASSUME IInv, NEW r \in todo, MergeBlock(r)
  PROVE  LET place == index.blocks[Identity(Block(r))]
         IN /\ Good(mem', todo') /\ IndexOK(mem', index')
            /\ Grows(mem, mem')
            /\ \A p \in Places(mem) :
                 At(mem', p) = IF p = place THEN MergeTopLevel(At(mem, p), Block(r), OpenTofu)
                               ELSE At(mem, p)
<1> DEFINE place == index.blocks[Identity(Block(r))]
           new == [p \in {place} |-> MergeTopLevel(At(mem, p), Block(r), OpenTofu)]
<1>1. Turn(r) BY DEF MergeBlock
<1>2. /\ FilesOK /\ Good(mem, todo') /\ IndexOK(mem, index) /\ r \notin todo'
      /\ \A p : Clone(r, p) \notin DOMAIN mem.heap
  BY <1>1, AtTurn
<1>3. /\ place \in Places(mem) /\ Identity(At(mem, place)) = Identity(Block(r))
      /\ At(mem, place).type # "locals"
  <2>1. Identity(Block(r)) \in DOMAIN index.blocks BY DEF MergeBlock, Matched
  <2>2. Identity(Block(r))[1] # "locals" /\ place \in Places(mem)
        /\ Identity(At(mem, place)) = Identity(Block(r))
    BY <1>2, <2>1 DEF IndexOK
  <2>3. QED BY <2>2, IdentityParts
<1>4. IsBlock(new[place]) /\ Same(At(mem, place), new[place])
  <2> DEFINE base == At(mem, place)
             c == MergeTopLevel(base, Block(r), OpenTofu)
  <2>1. IsBlock(base) BY <1>2, <1>3, BlocksAt
  <2>2. IsBlock(c) /\ Same(base, c) BY <1>3, <2>1, MergeKeeps
  <2>3. QED BY <2>2
<1>5. mem' = Install(mem, r, new) /\ index' = index BY DEF MergeBlock
<1>6. DOMAIN new = {place} /\ new[place] = MergeTopLevel(At(mem, place), Block(r), OpenTofu)
  OBVIOUS
<1> HIDE DEF new, place
<1>7. /\ Good(mem', todo') /\ Places(mem') = Places(mem)
      /\ \A p \in Places(mem) :
           /\ RefAt(mem', p) = IF p \in DOMAIN new THEN Clone(r, p) ELSE RefAt(mem, p)
           /\ At(mem', p) = IF p \in DOMAIN new THEN new[p] ELSE At(mem, p)
  BY <1>2, <1>3, <1>4, <1>5, <1>6, InstallKeeps
<1>8. \A p \in Places(mem) : p \in Places(mem') /\ Same(At(mem, p), At(mem', p))
  BY <1>4, <1>6, <1>7, SameReflexive
<1>9. Grows(mem, mem') BY <1>7, <1>8, ClonesAtHome DEF Grows
<1>10. \A p \in Places(mem) :
         At(mem', p) = IF p = place THEN MergeTopLevel(At(mem, p), Block(r), OpenTofu)
                       ELSE At(mem, p)
  BY <1>6, <1>7
<1>11. QED BY <1>2, <1>5, <1>7, <1>8, <1>9, <1>10, IndexStays DEF place

LEMMA AddBlockKeeps ==
  ASSUME IInv, NEW r \in todo, AddBlock(r)
  PROVE  /\ Good(mem', todo') /\ IndexOK(mem', index')
         /\ Grows(mem, mem')
         /\ \A p \in Places(mem) : At(mem', p) = At(mem, p)
         /\ \E place : /\ index'.blocks = Updated(index.blocks, [id \in {Identity(Block(r))} |-> place])
                       /\ index'.locals = index.locals
                       /\ At(mem', place) = Block(r)
<1> DEFINE x == WithExtra(mem, r[1])
           place == <<r[1], Len(BodyOf(x, r[1])) + 1>>
           id == Identity(Block(r))
<1>1. Turn(r) BY DEF AddBlock
<1>2. /\ FilesOK /\ Good(mem, todo') /\ IndexOK(mem, index) /\ r \in Refs /\ IsOverride(r[1])
  BY <1>1, AtTurn
<1>3. /\ mem' = AddRef(x, r[1], r)
      /\ index' = [index EXCEPT !.blocks = Updated(@, [d \in {id} |-> place])]
  BY DEF AddBlock
<1>4. /\ Good(x, todo') /\ r[1] \in x.own /\ x.heap = mem.heap /\ Places(x) = Places(mem)
      /\ \A p \in Places(mem) : p \in Places(x) /\ RefAt(x, p) = RefAt(mem, p)
  BY <1>2, ExtraKeeps
<1> HIDE DEF x
<1>5. r \in DOMAIN x.heap BY <1>2, <1>4 DEF Good, HeapOK
<1>6. /\ Good(mem', todo') /\ mem'.heap = x.heap
      /\ \A p \in Places(x) : p \in Places(mem') /\ RefAt(mem', p) = RefAt(x, p)
      /\ Places(mem') = Places(x) \cup {place}
      /\ place \in Places(mem') /\ RefAt(mem', place) = r
  BY <1>2, <1>3, <1>4, <1>5, AddKeeps
<1>7. \A p \in Places(mem) : p \in Places(mem') /\ Same(At(mem, p), At(mem', p))
  BY <1>4, <1>6, SameReflexive DEF At
<1>8. IndexOK(mem', index) BY <1>2, <1>7, IndexStays
<1>9. At(mem', place) = Block(r) BY <1>4, <1>6 DEF At, Block
<1>10. id[1] # "locals"
  <2>1. Block(r).type # "locals" BY DEF AddBlock, IsNamed
  <2>2. QED BY <2>1, IdentityParts
<1>15. Block(r).type # "locals" BY DEF AddBlock, IsNamed
<1>16. place[1] = r[1] OBVIOUS
<1> HIDE DEF place, id
<1>17. HomeOK(mem) => HomeOK(mem')
  <2>1. r[1] # 0 BY <1>2 DEF Refs, FilesOK
  <2>2. QED BY <1>4, <1>6, <2>1 DEF HomeOK
<1>18. Grows(mem, mem')
  BY <1>2, <1>4, <1>6, <1>7, <1>9, <1>15, <1>16, <1>17 DEF Grows
<1>19. \A p \in Places(mem) : At(mem', p) = At(mem, p)
  BY <1>4, <1>6 DEF At
<1>11. /\ DOMAIN index' = {"blocks", "terraform", "locals"}
       /\ index'.terraform = index.terraform /\ index'.locals = index.locals
       /\ index'.blocks = Updated(index.blocks, [d \in {id} |-> place])
  BY <1>3, <1>8 DEF IndexOK
<1>12. \A d \in DOMAIN index'.blocks :
         /\ d[1] # "locals" /\ index'.blocks[d] \in Places(mem')
         /\ Identity(At(mem', index'.blocks[d])) = d
  BY <1>6, <1>8, <1>9, <1>10, <1>11 DEF IndexOK, Updated, id
<1>13. IndexOK(mem', index') BY <1>8, <1>11, <1>12 DEF IndexOK
<1>14. QED BY <1>6, <1>9, <1>11, <1>13, <1>18, <1>19 DEF id

LEMMA SkipBlockKeeps ==
  ASSUME IInv, NEW r \in todo, SkipBlock(r)
  PROVE  Good(mem', todo') /\ IndexOK(mem', index') /\ Grows(mem, mem')
<1>1. Turn(r) /\ mem' = mem /\ index' = index BY DEF SkipBlock
<1>2. Grows(mem, mem') BY <1>1, SameReflexive DEF Grows
<1>3. QED BY <1>1, <1>2, AtTurn

\* Arguments are added to a locals block, or replaced.
LEMMA LocalsGain ==
  ASSUME NEW b, IsBlock(b), b.type = "locals", NEW values
  PROVE  LET c == [b EXCEPT !.attrs = Updated(@, values)] IN IsBlock(c) /\ Same(b, c)
<1> DEFINE c == [b EXCEPT !.attrs = Updated(@, values)]
<1>1. IsBlock(c) /\ c.type = b.type /\ c.label = b.label /\ c.attrs = Updated(b.attrs, values)
  BY DEF IsBlock
<1> HIDE DEF c
<1>2. DOMAIN b.attrs \subseteq DOMAIN c.attrs BY <1>1 DEF Updated
<1>3. Identity(c) = Identity(b) BY <1>1, IdentityParts
<1>4. QED BY <1>1, <1>2, <1>3 DEF Same, c

\* What ReplaceLocals makes of the block at a place.
Written(m, values, p) ==
  [At(m, p) EXCEPT !.attrs = Updated(@, Only(values, {n \in DOMAIN values : index.locals[n] = p}))]

\* ReplaceLocals clones the blocks it takes for its own, and writes to those
\* that are its own; no other place holds one of them.
LEMMA ReplaceLocalsKeeps ==
  ASSUME FilesOK, NEW m, NEW coming, Good(m, coming), IndexOK(m, index),
         NEW by, by \notin coming, \A p : Clone(by, p) \notin DOMAIN m.heap,
         NEW values, DOMAIN values \subseteq DOMAIN index.locals
  PROVE  LET n == ReplaceLocals(m, by, values) IN
         /\ Good(n, coming) /\ Places(n) = Places(m)
         /\ \A p \in Places(m) : p \in Places(n) /\ Same(At(m, p), At(n, p))
         /\ HomeOK(m) => HomeOK(n)
         /\ HomeOK(m) /\ (\A l \in DOMAIN values : IsPrimary(index.locals[l][1])) =>
              \A p \in Places(m) :
                At(n, p) = IF \E l \in DOMAIN values : index.locals[l] = p
                           THEN Written(m, values, p) ELSE At(m, p)
<1> DEFINE Here(place) == {n \in DOMAIN values : index.locals[n] = place}
           New(ps) == [p \in ps |->
                         [At(m, p) EXCEPT !.attrs = Updated(@, Only(values, Here(p)))]]
           places == {index.locals[n] : n \in DOMAIN values}
           first == New(places \ m.ownLocals)
           again == New(places \cap m.ownLocals)
           c == Install(m, by, first)
           w == Overwrite(c, again)
           n == ReplaceLocals(m, by, values)
<1>1. /\ places \subseteq Places(m)
      /\ \A p \in places : IsBlock(At(m, p)) /\ At(m, p).type = "locals"
  BY BlocksAt DEF IndexOK
<1>2. ASSUME NEW ps, NEW p \in ps, ps \subseteq places
      PROVE  IsBlock(New(ps)[p]) /\ Same(At(m, p), New(ps)[p])
  <2> DEFINE b == At(m, p)
             d == [b EXCEPT !.attrs = Updated(@, Only(values, Here(p)))]
  <2>1. IsBlock(b) /\ b.type = "locals" BY <1>1, <1>2
  <2>2. IsBlock(d) /\ Same(b, d)
    <3> HIDE DEF b
    <3>1. QED BY <2>1, LocalsGain
  <2>3. New(ps)[p] = d OBVIOUS
  <2>4. QED BY <2>2, <2>3
<1>3. /\ DOMAIN first = places \ m.ownLocals /\ DOMAIN again = places \cap m.ownLocals
      /\ \A p \in DOMAIN first : IsBlock(first[p]) /\ Same(At(m, p), first[p])
      /\ \A p \in DOMAIN again : IsBlock(again[p]) /\ Same(At(m, p), again[p])
  <2>1. DOMAIN first = places \ m.ownLocals /\ DOMAIN again = places \cap m.ownLocals
    OBVIOUS
  <2>2. \A p \in places \ m.ownLocals : IsBlock(first[p]) /\ Same(At(m, p), first[p])
    BY <1>2
  <2>3. \A p \in places \cap m.ownLocals : IsBlock(again[p]) /\ Same(At(m, p), again[p])
    BY <1>2
  <2> HIDE DEF first, again, places
  <2>4. QED BY <2>1, <2>2, <2>3
<1>18. /\ \A p \in DOMAIN first : first[p] = Written(m, values, p)
       /\ \A p \in DOMAIN again : again[p] = Written(m, values, p)
  BY DEF Written
<1>19. \A p : p \in places <=> \E l \in DOMAIN values : index.locals[l] = p
  OBVIOUS
<1>4. n = [w EXCEPT !.ownLocals = @ \cup places]
  BY DEF ReplaceLocals
<1> HIDE DEF New, first, again, c, w, n, places
<1>5. /\ Good(c, coming)
      /\ Places(c) = Places(m) /\ c.ownLocals = m.ownLocals /\ m.own \subseteq c.own
      /\ \A p \in DOMAIN first : p[1] \in c.own
      /\ \A p \in Places(m) :
           /\ RefAt(c, p) = IF p \in DOMAIN first THEN Clone(by, p) ELSE RefAt(m, p)
           /\ At(c, p) = IF p \in DOMAIN first THEN first[p] ELSE At(m, p)
  <2>1. DOMAIN first \subseteq Places(m) BY <1>1, <1>3
  <2>2. \A p \in DOMAIN first : IsBlock(first[p]) /\ Clone(by, p) \notin DOMAIN m.heap BY <1>3
  <2>3. QED BY <2>1, <2>2, InstallKeeps DEF c
<1>6. /\ Good(w, coming)
      /\ Places(w) = Places(c) /\ w.ownLocals = c.ownLocals /\ w.own = c.own
      /\ \A p \in Places(c) :
           /\ RefAt(w, p) = RefAt(c, p)
           /\ \/ p \notin DOMAIN again /\ At(w, p) = At(c, p)
              \/ \E q \in DOMAIN again : RefAt(c, q) = RefAt(c, p) /\ At(w, p) = again[q]
  <2>1. DOMAIN again \subseteq Places(c) BY <1>1, <1>3, <1>5
  <2>2. \A p \in DOMAIN again : RefAt(c, p)[1] = 0 BY <1>3, <1>5 DEF Good, OwnOK
  <2>3. \A p \in DOMAIN again : RefAt(c, p)[1] = 0 /\ IsBlock(again[p]) BY <1>3, <2>2
  <2>4. QED BY <1>5, <2>1, <2>3, OverwriteKeeps DEF w
<1>7. ASSUME NEW p \in Places(m) PROVE Same(At(m, p), At(w, p))
  <2>1. Same(At(m, p), At(c, p)) BY <1>3, <1>5, SameReflexive
  <2>2. Same(At(c, p), At(w, p))
    <3>1. CASE At(w, p) = At(c, p) BY <3>1, SameReflexive
    <3>2. ASSUME NEW q \in DOMAIN again, RefAt(c, q) = RefAt(c, p), At(w, p) = again[q]
          PROVE  Same(At(c, p), At(w, p))
      <4>1. q \in Places(m) /\ q \notin DOMAIN first BY <1>1, <1>3
      <4>2. At(c, p) = At(m, q) BY <1>5, <3>2, <4>1 DEF At
      <4>3. QED BY <1>3, <3>2, <4>2
    <3>3. QED BY <1>5, <1>6, <3>1, <3>2
  <2>3. QED BY <2>1, <2>2, SameTransitive
<1>8. /\ IsMem(n) /\ n.heap = w.heap /\ n.bodies = w.bodies /\ n.effective = w.effective
      /\ n.own = w.own /\ n.ownLocals = m.ownLocals \cup places
  <2>1. IsMem(w) BY <1>6 DEF Good
  <2>2. QED BY <1>4, <1>5, <1>6, <2>1 DEF IsMem
<1>9. /\ Places(n) = Places(w)
      /\ \A p : RefAt(n, p) = RefAt(w, p) /\ At(n, p) = At(w, p)
  BY <1>8 DEF Places, RefAt, At, BodyOf
<1>10. OwnOK(n)
  <2> SUFFICES ASSUME NEW p \in m.ownLocals \cup places
               PROVE  p \in Places(n) /\ p[1] \in n.own /\ RefAt(n, p)[1] = 0
    BY <1>8 DEF OwnOK
  <2>1. CASE p \in m.ownLocals
    BY <1>5, <1>6, <1>8, <1>9, <2>1 DEF Good, OwnOK
  <2>2. CASE p \in places \ m.ownLocals
    <3>1. RefAt(c, p) = Clone(by, p) /\ p \in Places(c) /\ p[1] \in c.own
      BY <1>1, <1>3, <1>5, <2>2
    <3>2. QED BY <1>6, <1>8, <1>9, <3>1 DEF Clone
  <2>3. QED BY <2>1, <2>2
<1>11. Good(n, coming)
  BY <1>6, <1>8, <1>10 DEF Good, BodiesOK, HeapOK, Intact
<1>12. \A p \in Places(m) : p \in Places(n) /\ Same(At(m, p), At(n, p))
  BY <1>5, <1>6, <1>7, <1>9
<1>13. HomeOK(m) => HomeOK(c) /\ HomeOK(n)
  <2> HAVE HomeOK(m)
  <2>1. HomeOK(c) BY <1>5, ClonesAtHome
  <2>2. Places(n) = Places(c) /\ \A p \in Places(c) : RefAt(n, p) = RefAt(c, p)
    BY <1>6, <1>9
  <2>3. HomeOK(n) BY <2>1, <2>2 DEF HomeOK
  <2>4. QED BY <2>1, <2>3
<1>14. ASSUME HomeOK(m), \A l \in DOMAIN values : IsPrimary(index.locals[l][1]),
              NEW p \in Places(m)
       PROVE  At(n, p) = IF p \in places THEN Written(m, values, p) ELSE At(m, p)
  <2>1. At(n, p) = At(w, p) /\ p \in Places(c) /\ HomeOK(c)
    BY <1>5, <1>9, <1>13, <1>14
  <2>2. ASSUME NEW q \in DOMAIN again, RefAt(c, q) = RefAt(c, p) PROVE q = p
    <3>1. q \in places /\ q \in m.ownLocals /\ q \in Places(c) BY <1>1, <1>3, <1>5
    <3>2. IsPrimary(q[1]) /\ q = <<q[1], q[2]>> BY <1>14, <1>19, <3>1, PlaceParts
    <3>3. RefAt(c, q)[1] = 0 BY <1>5, <3>1 DEF Good, OwnOK
    <3>4. ~IsOverride(q[1]) BY <3>2 DEF IsPrimary, IsOverride
    <3>5. RefAt(c, q)[3] = q BY <2>1, <3>1, <3>3, <3>4 DEF HomeOK
    <3>6. RefAt(c, p)[3] = p \/ RefAt(c, p)[3] = << >>
      BY <2>1, <2>2, <3>3 DEF HomeOK
    <3>7. q # << >> BY <3>2
    <3>8. QED BY <2>2, <3>5, <3>6, <3>7
  <2>3. At(w, p) = IF p \in DOMAIN again THEN again[p] ELSE At(c, p)
    BY <1>6, <2>1, <2>2
  <2>4. At(c, p) = IF p \in DOMAIN first THEN first[p] ELSE At(m, p) BY <1>5
  <2>5. p \in places <=> p \in DOMAIN first \/ p \in DOMAIN again BY <1>3
  <2>6. QED BY <1>18, <2>1, <2>3, <2>4, <2>5
<1>15. Places(n) = Places(m) BY <1>5, <1>6, <1>9
<1>16. HomeOK(m) /\ (\A l \in DOMAIN values : IsPrimary(index.locals[l][1])) =>
         \A p \in Places(m) :
           At(n, p) = IF \E l \in DOMAIN values : index.locals[l] = p
                      THEN Written(m, values, p) ELSE At(m, p)
  BY <1>14, <1>19
<1>17. QED BY <1>11, <1>12, <1>13, <1>15, <1>16 DEF n

LEMMA OverrideLocalsKeeps ==
  ASSUME IInv, NEW r \in todo, OverrideLocals(r)
  PROVE  LET values == Only(Block(r).attrs, DOMAIN index.locals)
         IN /\ Good(mem', todo') /\ IndexOK(mem', index')
            /\ Grows(mem, mem')
            /\ HomeOK(mem) /\ (\A l \in DOMAIN values : IsPrimary(index.locals[l][1])) =>
                 \A p \in Places(mem) :
                   At(mem', p) = IF \E l \in DOMAIN values : index.locals[l] = p
                                 THEN Written(mem, values, p) ELSE At(mem, p)
<1> DEFINE values == Only(Block(r).attrs, DOMAIN index.locals)
<1>1. Turn(r) /\ mem' = ReplaceLocals(mem, r, values) /\ index' = index
  BY DEF OverrideLocals
<1>2. /\ FilesOK /\ Good(mem, todo') /\ IndexOK(mem, index) /\ r \notin todo'
      /\ \A p : Clone(r, p) \notin DOMAIN mem.heap
  BY <1>1, AtTurn
<1>3. DOMAIN values \subseteq DOMAIN index.locals BY DEF Only
<1> HIDE DEF values
<1>4. /\ Good(mem', todo') /\ Places(mem') = Places(mem)
      /\ \A p \in Places(mem) : p \in Places(mem') /\ Same(At(mem, p), At(mem', p))
      /\ HomeOK(mem) => HomeOK(mem')
      /\ HomeOK(mem) /\ (\A l \in DOMAIN values : IsPrimary(index.locals[l][1])) =>
           \A p \in Places(mem) :
             At(mem', p) = IF \E l \in DOMAIN values : index.locals[l] = p
                           THEN Written(mem, values, p) ELSE At(mem, p)
  BY <1>1, <1>2, <1>3, ReplaceLocalsKeeps
<1>5. Grows(mem, mem') BY <1>4 DEF Grows
<1>6. IndexOK(mem', index') BY <1>1, <1>2, <1>4, IndexStays
<1>7. QED BY <1>4, <1>5, <1>6 DEF values

LEMMA SeedKeeps ==
  ASSUME FilesOK, NEW coming, Good(mem, coming), NEW r, r \notin coming, IsOverride(r[1]),
         Clone(r, << >>) \notin DOMAIN mem.heap, IsBlock(Block(r)), IsTerraform(Block(r))
  PROVE  LET n == Seed(mem, r)
             place == <<r[1], Len(BodyOf(n, r[1]))>>
         IN /\ Good(n, coming)
            /\ DOMAIN n.heap = DOMAIN mem.heap \cup {Clone(r, << >>)}
            /\ \A p \in Places(mem) : p \in Places(n) /\ At(n, p) = At(mem, p)
            /\ Places(n) = Places(mem) \cup {place} /\ (HomeOK(mem) => HomeOK(n))
            /\ place \in Places(n) /\ IsTerraform(At(n, place)) /\ At(n, place).nested = << >>
<1> DEFINE x == WithExtra(mem, r[1])
           ref == Clone(r, << >>)
           empty == [Block(r) EXCEPT !.attrs = << >>, !.nested = << >>]
           g == Grown(x, ref, empty)
           n == Seed(mem, r)
           place == <<r[1], Len(BodyOf(g, r[1])) + 1>>
<1>1. IsBlock(empty) /\ IsTerraform(empty) /\ empty.nested = << >> BY DEF IsBlock, IsTerraform
<1>2. ref[1] = 0 /\ ref[2] \notin coming
  <2>1. ref[1] = 0 /\ ref[2] = r BY DEF Clone
  <2>2. QED BY <2>1
<1>3. n = AddRef(g, r[1], ref) BY DEF Seed, Grown
<1> HIDE DEF ref, empty, n
<1>4. /\ Good(x, coming) /\ r[1] \in x.own /\ x.heap = mem.heap /\ Places(x) = Places(mem)
      /\ \A p \in Places(mem) : p \in Places(x) /\ RefAt(x, p) = RefAt(mem, p)
  BY ExtraKeeps
<1> HIDE DEF x
<1>5. /\ Good(g, coming) /\ g.own = x.own /\ Places(g) = Places(x)
      /\ DOMAIN g.heap = DOMAIN x.heap \cup {ref} /\ g.heap[ref] = empty
      /\ \A p \in Places(x) : p \in Places(g) /\ RefAt(g, p) = RefAt(x, p)
      /\ \A s \in DOMAIN x.heap : g.heap[s] = x.heap[s]
  <2>1. ref \notin DOMAIN x.heap BY <1>4 DEF ref
  <2>2. QED BY <1>1, <1>2, <1>4, <2>1, GrowKeeps
<1> HIDE DEF g
<1>6. /\ Good(n, coming) /\ n.heap = g.heap
      /\ \A p \in Places(g) : p \in Places(n) /\ RefAt(n, p) = RefAt(g, p)
      /\ Places(n) = Places(g) \cup {place}
      /\ place \in Places(n) /\ RefAt(n, place) = ref
      /\ Len(BodyOf(n, r[1])) = Len(BodyOf(g, r[1])) + 1
  <2>1. r[1] \in g.own /\ ref \in DOMAIN g.heap BY <1>4, <1>5
  <2>2. QED BY <1>3, <1>5, <2>1, AddKeeps
<1>7. \A p \in Places(mem) : p \in Places(n) /\ At(n, p) = At(mem, p)
  BY <1>4, <1>5, <1>6, RefsInHeap DEF At
<1>8. IsTerraform(At(n, place)) /\ At(n, place).nested = << >> BY <1>1, <1>5, <1>6 DEF At
<1>9. HomeOK(mem) => HomeOK(n)
  <2>1. ref[3] = << >> BY DEF ref, Clone
  <2>2. QED BY <1>4, <1>5, <1>6, <2>1 DEF HomeOK
<1>10. QED BY <1>4, <1>5, <1>6, <1>7, <1>8, <1>9 DEF n, ref

\* The terraform blocks an override r is applied to: the module's, at places,
\* or an empty one in a memory m that has it.
TerraformTurn(r, m, places) ==
  /\ IF index.terraform # {} THEN m = mem /\ places = index.terraform
     ELSE \E p : places = {p} /\ At(m, p).nested = << >>
  /\ index'.terraform = places
  /\ \A p \in places : /\ p \in Places(m) /\ p \in Places(mem') /\ IsBlock(At(m, p))
                       /\ At(mem', p) = TerraformsAfter(m, places, Block(r))[p]

LEMMA OverrideTerraformKeeps ==
  ASSUME IInv, NEW r \in todo, OverrideTerraform(r)
  PROVE  /\ Good(mem', todo') /\ IndexOK(mem', index')
         /\ Grows(mem, mem')
         /\ \A p \in Places(mem) : ~IsTerraform(At(mem, p)) => At(mem', p) = At(mem, p)
         /\ index'.blocks = index.blocks /\ index'.locals = index.locals
         /\ \E m, places : TerraformTurn(r, m, places)
<1> DEFINE none == index.terraform = {}
           m == IF none THEN Seed(mem, r) ELSE mem
           places == IF none THEN {<<r[1], Len(BodyOf(m, r[1]))>>} ELSE index.terraform
           after == TerraformsAfter(m, places, Block(r))
           new == Only(after, {p \in places : after[p] # At(m, p)})
<1>1. /\ Turn(r) /\ IsTerraform(Block(r))
      /\ mem' = Install(m, r, new) /\ index' = [index EXCEPT !.terraform = places]
  BY DEF OverrideTerraform
<1>2. /\ FilesOK /\ Good(mem, todo') /\ IndexOK(mem, index) /\ r \notin todo' /\ IsOverride(r[1])
      /\ IsBlock(Block(r)) /\ \A p : Clone(r, p) \notin DOMAIN mem.heap
  BY <1>1, AtTurn
<1>3. /\ Good(m, todo')
      /\ DOMAIN m.heap \subseteq DOMAIN mem.heap \cup {Clone(r, << >>)}
      /\ \A p \in Places(mem) : p \in Places(m) /\ At(m, p) = At(mem, p)
      /\ \A p \in Places(m) \ Places(mem) : p \in places /\ IsOverride(p[1])
      /\ HomeOK(mem) => HomeOK(m)
      /\ \A p \in places : p \in Places(m) /\ IsTerraform(At(m, p))
      /\ IF none THEN \E p : places = {p} /\ At(m, p).nested = << >>
         ELSE m = mem /\ places = index.terraform
  <2>1. CASE none
    <3> DEFINE n == Seed(mem, r)
               place == <<r[1], Len(BodyOf(n, r[1]))>>
    <3>1. /\ Good(n, todo')
          /\ DOMAIN n.heap = DOMAIN mem.heap \cup {Clone(r, << >>)}
          /\ \A p \in Places(mem) : p \in Places(n) /\ At(n, p) = At(mem, p)
          /\ Places(n) = Places(mem) \cup {place} /\ (HomeOK(mem) => HomeOK(n))
          /\ place \in Places(n) /\ IsTerraform(At(n, place)) /\ At(n, place).nested = << >>
      BY <1>1, <1>2, SeedKeeps
    <3>2. m = n /\ places = {place} /\ place[1] = r[1] BY <2>1
    <3> HIDE DEF n, m, places, place
    <3>3. QED BY <1>2, <2>1, <3>1, <3>2
  <2>2. CASE ~none
    <3>1. m = mem /\ places = index.terraform BY <2>2
    <3> HIDE DEF m, places
    <3>2. QED BY <1>2, <2>2, <3>1 DEF IndexOK
  <2>3. QED BY <2>1, <2>2
<1> HIDE DEF m, places
<1>4. ASSUME NEW p \in places
      PROVE  IsBlock(after[p]) /\ Same(At(m, p), after[p])
  <2>1. PICK a, d : after[p] = [At(m, p) EXCEPT !.attrs = a, !.nested = d]
    BY DEF TerraformsAfter
  <2>2. IsBlock(At(m, p)) /\ IsTerraform(At(m, p)) BY <1>3, BlocksAt
  <2> DEFINE b == At(m, p)
  <2> HIDE DEF after, b
  <2>3. IsBlock(after[p]) /\ after[p].type = b.type /\ after[p].label = b.label
    BY <2>1, <2>2 DEF IsBlock, b
  <2>4. Identity(after[p]) = Identity(b)
    BY <2>2, <2>3, IdentityParts DEF IsTerraform, b
  <2>5. QED BY <2>2, <2>3, <2>4 DEF Same, IsTerraform, b
<1>5. /\ DOMAIN new \subseteq places /\ \A p \in DOMAIN new : new[p] = after[p]
      /\ \A p \in places : p \in DOMAIN new \/ after[p] = At(m, p)
  <2>1. DOMAIN after = places BY DEF TerraformsAfter
  <2> HIDE DEF after
  <2>2. QED BY <2>1 DEF Only
<1> HIDE DEF after, new
<1>6. \A p \in Places(m) : Clone(r, p) \notin DOMAIN m.heap
  <2> SUFFICES ASSUME NEW p \in Places(m) PROVE Clone(r, p) # Clone(r, << >>)
    BY <1>2, <1>3
  <2>1. p = <<p[1], p[2]>> BY PlaceParts
  <2>2. \A a, b : <<a, b>> # << >> OBVIOUS
  <2>3. Clone(r, p)[3] = p /\ Clone(r, << >>)[3] = << >> BY DEF Clone
  <2>4. QED BY <2>1, <2>2, <2>3
<1>7. /\ Good(mem', todo') /\ Places(mem') = Places(m)
      /\ \A p \in Places(m) :
           /\ RefAt(mem', p) = IF p \in DOMAIN new THEN Clone(r, p) ELSE RefAt(m, p)
           /\ At(mem', p) = IF p \in DOMAIN new THEN new[p] ELSE At(m, p)
  <2>1. DOMAIN new \subseteq Places(m) BY <1>3, <1>5
  <2>2. \A p \in DOMAIN new : IsBlock(new[p]) /\ Clone(r, p) \notin DOMAIN m.heap
    BY <1>4, <1>5, <1>6, <2>1
  <2>3. QED BY <1>1, <1>2, <1>3, <2>1, <2>2, InstallKeeps
<1>8. \A p \in Places(m) : p \in Places(mem') /\ Same(At(m, p), At(mem', p))
  BY <1>4, <1>5, <1>7, SameReflexive
<1>9. IndexOK(m, index')
  <2>1. IndexOK(m, index) BY <1>2, <1>3, IndexStays, SameReflexive
  <2>2. /\ DOMAIN index' = {"blocks", "terraform", "locals"}
        /\ index'.blocks = index.blocks /\ index'.locals = index.locals
        /\ index'.terraform = places
    BY <1>1, <2>1 DEF IndexOK
  <2>3. QED BY <1>3, <2>1, <2>2 DEF IndexOK
<1>10. IndexOK(mem', index') BY <1>7, <1>8, <1>9, IndexStays
<1>11. HomeOK(mem) => HomeOK(mem') BY <1>3, <1>7, ClonesAtHome, SMTT(20)
<1>12. \A p \in Places(mem') \ Places(mem) : IsOverride(p[1]) /\ At(mem', p).type # "locals"
  <2> TAKE p \in Places(mem') \ Places(mem)
  <2>1. p \in Places(m) /\ IsOverride(p[1]) /\ IsTerraform(At(m, p)) BY <1>3, <1>7
  <2>2. Same(At(m, p), At(mem', p)) BY <1>8, <2>1
  <2>3. QED BY <2>1, <2>2 DEF Same, IsTerraform
<1>13. Grows(mem, mem') BY <1>3, <1>8, <1>11, <1>12 DEF Grows
<1>14. \A p \in Places(mem) : ~IsTerraform(At(mem, p)) => At(mem', p) = At(mem, p)
  BY <1>3, <1>5, <1>7
<1>15. index'.blocks = index.blocks /\ index'.locals = index.locals
  BY <1>1, <1>2 DEF IndexOK
<1>16. TerraformTurn(r, m, places)
  <2>1. index'.terraform = places BY <1>1, <1>2 DEF IndexOK
  <2>2. \A p \in places : /\ p \in Places(m) /\ p \in Places(mem') /\ IsBlock(At(m, p))
                          /\ At(mem', p) = after[p]
    BY <1>3, <1>5, <1>7, BlocksAt
  <2>3. IF index.terraform # {} THEN m = mem /\ places = index.terraform
        ELSE \E p : places = {p} /\ At(m, p).nested = << >>
    BY <1>3
  <2>4. QED BY <2>1, <2>2, <2>3 DEF TerraformTurn, after
<1>17. QED BY <1>7, <1>10, <1>13, <1>14, <1>15, <1>16

-----------------------------------------------------------------------------
(* The module's steps *)

LEMMA InitInv == ASSUME ModulesAssumption, Init PROVE IInv
<1>1. FilesOK BY DEF Init, ModulesAssumption, FilesOK, IsBlock
<1>2. /\ mem.heap = [r \in Refs |-> files[r[1]].blocks[r[2]]]
      /\ mem.bodies = [o \in {Parsed(i) : i \in DOMAIN files} |-> RefsOf(o[2])]
      /\ mem.effective = << >> /\ mem.own = {} /\ mem.ownLocals = {} /\ IsMem(mem)
  BY DEF Init, IsMem
<1>3. \A i : Parsed(i)[2] = i BY DEF Parsed
<1>4. ASSUME NEW i \in DOMAIN files PROVE mem.bodies[Parsed(i)] = RefsOf(i)
  BY <1>2, <1>3
<1>5. ASSUME NEW i \in DOMAIN files PROVE RefsOf(i) \in Seq(Refs)
  <2>1. Len(files[i].blocks) \in Nat /\ DOMAIN files[i].blocks = 1..Len(files[i].blocks)
    BY <1>1 DEF FilesOK
  <2>2. RefsOf(i) = [j \in 1..Len(files[i].blocks) |-> RefsOf(i)[j]]
        /\ \A j \in 1..Len(files[i].blocks) : RefsOf(i)[j] \in Refs
    BY <2>1 DEF RefsOf, Refs
  <2>3. QED BY <2>1, <2>2, FunctionIsSeq
<1>6. BodiesOK(mem)
  <2>1. ASSUME NEW o \in DOMAIN mem.bodies PROVE mem.bodies[o] \in Seq(DOMAIN mem.heap)
    <3>1. PICK i \in DOMAIN files : o = Parsed(i) BY <1>2
    <3>2. mem.bodies[o] \in Seq(Refs) BY <1>4, <1>5, <3>1
    <3>3. QED BY <1>2, <3>2
  <2>2. QED BY <1>2, <2>1 DEF BodiesOK
<1>7. \A s \in Refs : IsBlock(files[s[1]].blocks[s[2]])
  BY <1>1 DEF FilesOK, Refs
<1>8. HeapOK(mem, todo) /\ Intact(mem) /\ OwnOK(mem)
  BY <1>2, <1>4, <1>7 DEF HeapOK, Intact, OwnOK
<1>9. QED BY <1>1, <1>2, <1>6, <1>8 DEF Init, IInv, Good, TodoOK

\* files is never assigned, so what is said of it carries over.
LEMMA SameFiles ==
  ASSUME IInv, files' = files, todo' \subseteq {r \in Refs : IsOverride(r[1])}, pc' # "index",
         Good(mem', todo') /\ IndexOK(mem', index')
  PROVE  IInv'
<1>1. Refs' = Refs /\ \A i : (IsPrimary(i))' = IsPrimary(i) /\ (IsOverride(i))' = IsOverride(i)
                             /\ (RefsOf(i))' = RefsOf(i)
  BY DEF Refs, IsPrimary, IsOverride, RefsOf
<1>2. FilesOK' BY DEF IInv, FilesOK
<1>3. TodoOK' BY <1>1 DEF TodoOK
<1>4. Good(mem, todo)'
  BY <1>1 DEF Good, IsMem, BodiesOK, HeapOK, Intact, OwnOK, Places, RefAt, BodyOf
<1>5. IndexOK(mem, index)'
  BY DEF IndexOK, Places, RefAt, BodyOf, At
<1>6. QED BY <1>2, <1>3, <1>4, <1>5 DEF IInv

LEMMA NextInv == ASSUME IInv, Next PROVE IInv'
<1>1. CASE NoOverrides
  <2>1. todo' = todo BY <1>1 DEF NoOverrides
  <2>2. todo' \subseteq {r \in Refs : IsOverride(r[1])} BY <2>1 DEF IInv, TodoOK
  <2>3. files' = files /\ pc' # "index" BY <1>1 DEF NoOverrides
  <2>4. QED BY <1>1, <2>2, <2>3, NoOverridesKeeps, SameFiles
<1>2. CASE IndexPrimary
  <2>1. files' = files /\ pc' # "index" /\ todo' \subseteq {r \in Refs : IsOverride(r[1])}
    BY <1>2 DEF IndexPrimary
  <2>2. QED BY <1>2, <2>1, IndexPrimaryKeeps, SameFiles
<1>3. ASSUME NEW r \in todo,
             \/ OverrideLocals(r) \/ OverrideTerraform(r) \/ MergeBlock(r)
             \/ AddBlock(r) \/ SkipBlock(r)
      PROVE  IInv'
  <2>1. Turn(r)
    BY <1>3 DEF OverrideLocals, OverrideTerraform, MergeBlock, AddBlock, SkipBlock
  <2>2. files' = files /\ pc' # "index" /\ todo' \subseteq {q \in Refs : IsOverride(q[1])}
    BY <2>1 DEF Turn, IInv, TodoOK
  <2>3. Good(mem', todo') /\ IndexOK(mem', index')
    BY <1>3, OverrideLocalsKeeps, OverrideTerraformKeeps, MergeBlockKeeps, AddBlockKeeps,
       SkipBlockKeeps
  <2>4. QED BY <2>2, <2>3, SameFiles
<1>4. CASE Finish
  <2>1. files' = files /\ mem' = mem /\ index' = index /\ todo' = todo /\ pc' # "index"
        /\ pc # "index"
    BY <1>4 DEF Finish
  <2>2. Good(mem', todo') /\ IndexOK(mem', index') BY <2>1 DEF IInv
  <2>3. todo' \subseteq {r \in Refs : IsOverride(r[1])} BY <2>1 DEF IInv, TodoOK
  <2>4. QED BY <2>1, <2>2, <2>3, SameFiles
<1>5. QED BY <1>1, <1>2, <1>3, <1>4 DEF Next

LEMMA StutterInv == ASSUME IInv, UNCHANGED vars PROVE IInv'
<1>1. files' = files /\ pc' = pc /\ mem' = mem /\ index' = index /\ todo' = todo
  BY DEF vars
<1>2. Refs' = Refs /\ \A i : (IsPrimary(i))' = IsPrimary(i) /\ (IsOverride(i))' = IsOverride(i)
                             /\ (RefsOf(i))' = RefsOf(i)
  BY <1>1 DEF Refs, IsPrimary, IsOverride, RefsOf
<1>3. FilesOK' /\ TodoOK' BY <1>1, <1>2 DEF IInv, FilesOK, TodoOK
<1>4. Good(mem, todo)'
  BY <1>1, <1>2 DEF IInv, Good, IsMem, BodiesOK, HeapOK, Intact, OwnOK, Places, RefAt, BodyOf
<1>5. ASSUME pc # "index" PROVE IndexOK(mem, index)'
  <2>1. IndexOK(mem, index) BY <1>5 DEF IInv
  <2>2. IndexOK(mem', index') BY <1>1, <2>1
  <2>3. QED BY <2>2 DEF IndexOK, Places, RefAt, BodyOf, At
<1>6. QED BY <1>1, <1>2, <1>3, <1>4, <1>5 DEF IInv

LEMMA Invariant == Spec => []IInv
<1>1. Init => IInv BY ModulesAssumption, InitInv
<1>2. IInv /\ [Next]_vars => IInv' BY NextInv, StutterInv
<1>3. QED BY <1>1, <1>2, PTL DEF Spec

-----------------------------------------------------------------------------

\* No sequence of overrides writes to an object of the parser's: E008 and
\* --fix read the files as they were parsed, whatever the semantic checks did
\* before (ensureEffectiveFileBodyOwned and cloneBlock before every write).
THEOREM IntactCorrect == Spec => []ParsedIntact
<1>1. IInv => ParsedIntact BY DEF IInv, Good, Intact, ParsedIntact
<1>2. QED BY <1>1, Invariant, PTL

\* A place recorded while indexing still holds what it was recorded for after
\* any number of overrides: merging moves no block and turns none into another
\* (blocksByIdentity, terraformBlocks and localsByName stay valid without
\* being built anew, effective.go 68-99).
PlacesHold ==
  pc # "index" =>
    /\ \A id \in DOMAIN index.blocks :
         index.blocks[id] \in Places(mem) /\ Identity(EffectiveBlock(id)) = id
    /\ \A p \in index.terraform : p \in Places(mem) /\ IsTerraform(At(mem, p))
    /\ \A n \in DOMAIN index.locals :
         index.locals[n] \in Places(mem) /\ Has(At(mem, index.locals[n]).attrs, n)

THEOREM PlacesCorrect == Spec => []PlacesHold
<1>1. IInv => PlacesHold BY DEF IInv, IndexOK, PlacesHold, EffectiveBlock
<1>2. QED BY <1>1, Invariant, PTL

-----------------------------------------------------------------------------
(* Lists of lists, and the part of a list that is in a set *)

\* f[i] is what the first i sequences of ss come to, for i up to k.
Flattens(ss, f, k) ==
  /\ DOMAIN f = 0..k /\ f[0] = << >>
  /\ \A i \in 1..k : f[i] = f[i - 1] \o ss[i]

LEMMA SomeFlattens ==
  ASSUME NEW ss, NEW n \in Nat
  PROVE  \E f : Flattens(ss, f, n)
<1> DEFINE S == {k \in Nat : ~\E f : Flattens(ss, f, k)}
<1>1. S = {}
  <2> SUFFICES ASSUME S # {} PROVE FALSE OBVIOUS
  <2>1. PICK k \in S : \A j \in S : k <= j
    <3>1. S \in SUBSET Nat OBVIOUS
    <3> HIDE DEF S
    <3>2. QED BY <3>1, LeastNatural
  <2>2. k \in Nat /\ ~\E f : Flattens(ss, f, k) OBVIOUS
  <2>3. CASE k = 0
    <3> DEFINE f == [i \in 0..0 |-> << >>]
    <3>1. Flattens(ss, f, 0) BY DEF Flattens
    <3>2. QED BY <2>2, <2>3, <3>1
  <2>4. CASE k # 0
    <3>1. k - 1 \in Nat /\ ~(k <= k - 1) BY <2>2, <2>4
    <3>2. k - 1 \notin S BY <2>1, <3>1
    <3>3. PICK f : Flattens(ss, f, k - 1) BY <3>1, <3>2
    <3> DEFINE g == [i \in 0..k |-> IF i = k THEN f[k - 1] \o ss[k] ELSE f[i]]
    <3>4. DOMAIN g = 0..k /\ g[k] = f[k - 1] \o ss[k] /\ \A i \in 0..k - 1 : g[i] = f[i]
      <4>1. k \in 0..k /\ \A i \in 0..k - 1 : i \in 0..k /\ i # k BY <2>2, <2>4
      <4>2. QED BY <4>1
    <3> HIDE DEF g
    <3>5. \A i \in 1..k : i - 1 \in 0..k - 1 /\ (i # k => i \in 1..k - 1 /\ i \in 0..k - 1)
      BY <2>2, <2>4
    <3>6. \A i \in 1..k : g[i] = g[i - 1] \o ss[i] BY <3>3, <3>4, <3>5 DEF Flattens
    <3>7. g[0] = << >> BY <2>4, <3>1, <3>3, <3>4 DEF Flattens
    <3>8. Flattens(ss, g, k) BY <3>4, <3>6, <3>7 DEF Flattens
    <3>9. QED BY <2>2, <3>8
  <2>5. QED BY <2>3, <2>4
<1>2. QED BY <1>1

LEMMA FlattenTypes ==
  ASSUME NEW S, NEW n \in Nat, NEW ss \in [1..n -> Seq(S)], NEW f, Flattens(ss, f, n)
  PROVE  \A i \in 0..n : f[i] \in Seq(S)
<1> DEFINE B == {i \in 0..n : f[i] \notin Seq(S)}
<1>1. B = {}
  <2> SUFFICES ASSUME B # {} PROVE FALSE OBVIOUS
  <2>1. PICK k \in B : \A j \in B : k <= j
    <3>1. B \in SUBSET Nat OBVIOUS
    <3> HIDE DEF B
    <3>2. QED BY <3>1, LeastNatural
  <2>2. k \in 0..n /\ f[k] \notin Seq(S) OBVIOUS
  <2>3. k # 0
    <3>1. f[0] \in Seq(S) BY EmptySeq DEF Flattens
    <3>2. QED BY <2>2, <3>1
  <2>4. k - 1 \in 0..n /\ ~(k <= k - 1) /\ k \in 1..n BY <2>2, <2>3
  <2>5. f[k - 1] \in Seq(S) BY <2>1, <2>4
  <2>6. f[k] = f[k - 1] \o ss[k] /\ ss[k] \in Seq(S) BY <2>4 DEF Flattens
  <2>7. f[k] \in Seq(S) BY <2>5, <2>6, ConcatProperties
  <2>8. QED BY <2>2, <2>7
<1>2. QED BY <1>1

MeansFlatten(ss, h) ==
  h = [i \in 1..Len(ss) |-> IF i = 1 THEN ss[i] ELSE h[i - 1] \o ss[i]]

LEMMA FlattenIs ==
  ASSUME NEW S, NEW ss \in Seq(Seq(S)), NEW f, Flattens(ss, f, Len(ss))
  PROVE  FlattenSeq(ss) = f[Len(ss)]
<1> DEFINE n == Len(ss)
<1>1. n \in Nat /\ ss \in [1..n -> Seq(S)] OBVIOUS
<1>2. \A i \in 0..n : f[i] \in Seq(S) BY <1>1, FlattenTypes
<1>3. CASE n = 0
  <2>1. ss = << >> BY <1>3, EmptySeq
  <2>2. FlattenSeq(ss) = ss BY <1>3 DEF FlattenSeq
  <2>3. QED BY <1>3, <2>1, <2>2 DEF Flattens
<1>4. CASE n # 0
  <2> DEFINE h == CHOOSE g : MeansFlatten(ss, g)
  <2>1. FlattenSeq(ss) = h[n] BY <1>4 DEF FlattenSeq, MeansFlatten
  <2>2. MeansFlatten(ss, h)
    <3> DEFINE g == [i \in 1..n |-> f[i]]
    <3>1. \A i \in 1..n : g[i] = IF i = 1 THEN ss[i] ELSE g[i - 1] \o ss[i]
      <4> TAKE i \in 1..n
      <4>1. g[i] = f[i - 1] \o ss[i] BY DEF Flattens
      <4>2. CASE i = 1
        <5>1. i - 1 = 0 /\ ss[i] \in Seq(S) BY <1>1, <4>2
        <5>2. << >> \o ss[i] = ss[i] BY <5>1, ConcatEmptySeq
        <5>3. QED BY <4>1, <4>2, <5>1, <5>2 DEF Flattens
      <4>3. CASE i # 1
        <5>1. i - 1 \in 1..n BY <1>1, <4>3
        <5>2. g[i - 1] = f[i - 1] BY <5>1
        <5>3. QED BY <4>1, <4>3, <5>2
      <4>4. QED BY <4>2, <4>3
    <3>2. g = [i \in 1..n |-> g[i]] OBVIOUS
    <3> HIDE DEF g
    <3>3. g = [i \in 1..n |-> IF i = 1 THEN ss[i] ELSE g[i - 1] \o ss[i]] BY <3>1, <3>2
    <3>4. MeansFlatten(ss, g) BY <3>3 DEF MeansFlatten
    <3>5. QED BY <3>4
  <2> HIDE DEF h
  <2>3. \A i \in 1..n : h[i] = IF i = 1 THEN ss[i] ELSE h[i - 1] \o ss[i]
    <3>1. h = [i \in 1..n |-> IF i = 1 THEN ss[i] ELSE h[i - 1] \o ss[i]]
      BY <2>2 DEF MeansFlatten
    <3> HIDE DEF n
    <3>2. QED BY <3>1, Zenon
  <2> DEFINE B == {i \in 1..n : h[i] # f[i]}
  <2>4. B = {}
    <3> SUFFICES ASSUME B # {} PROVE FALSE OBVIOUS
    <3>1. PICK k \in B : \A j \in B : k <= j
      <4>1. B \in SUBSET Nat OBVIOUS
      <4> HIDE DEF B
      <4>2. QED BY <4>1, LeastNatural
    <3>2. k \in 1..n /\ h[k] # f[k] OBVIOUS
    <3>3. f[k] = f[k - 1] \o ss[k] BY <3>2 DEF Flattens
    <3>4. CASE k = 1
      <4>1. k - 1 = 0 /\ ss[k] \in Seq(S) BY <1>1, <3>2, <3>4
      <4>2. << >> \o ss[k] = ss[k] BY <4>1, ConcatEmptySeq
      <4>3. QED BY <2>3, <3>2, <3>3, <3>4, <4>1, <4>2 DEF Flattens
    <3>5. CASE k # 1
      <4>1. k - 1 \in 1..n /\ ~(k <= k - 1) BY <1>1, <3>2, <3>5
      <4>2. h[k - 1] = f[k - 1] BY <3>1, <4>1
      <4>3. QED BY <2>3, <3>2, <3>3, <3>5, <4>2
    <3>6. QED BY <3>4, <3>5
  <2>5. n \in 1..n BY <1>1, <1>4
  <2>6. QED BY <2>1, <2>4, <2>5
<1>5. QED BY <1>3, <1>4

\* What holds of the empty sequence and of each longer one.
LEMMA SequencesIn ==
  ASSUME NEW U, NEW X, << >> \in X, \A s \in Seq(U), u \in U : s \in X => Append(s, u) \in X
  PROVE  Seq(U) \subseteq X
<1> SUFFICES ASSUME NEW z \in Seq(U), z \notin X PROVE FALSE OBVIOUS
<1> DEFINE L == {Len(s) : s \in Seq(U) \ X}
<1>1. PICK n \in L : \A k \in L : n <= k
  <2>1. L \in SUBSET Nat /\ L # {} BY LenProperties
  <2> HIDE DEF L
  <2>2. QED BY <2>1, LeastNatural
<1>2. PICK s \in Seq(U) \ X : Len(s) = n OBVIOUS
<1>3. PICK r \in Seq(U), u \in U : s = Append(r, u) BY <1>2, SequenceEmptyOrAppend
<1>4. Len(r) \in Nat /\ n = Len(r) + 1 BY <1>2, <1>3, AppendProperties, LenProperties
<1>5. r \in X BY <1>1, <1>4
<1>6. QED BY <1>2, <1>3, <1>5

LEMMA FlattenEmpty == FlattenSeq(<< >>) = << >>
BY DEF FlattenSeq

LEMMA FlattenAppend ==
  ASSUME NEW U, NEW ss \in Seq(Seq(U)), NEW s \in Seq(U)
  PROVE  /\ FlattenSeq(Append(ss, s)) = FlattenSeq(ss) \o s
         /\ FlattenSeq(ss) \in Seq(U)
<1> DEFINE n == Len(ss)
           k == Len(Append(ss, s))
           tt == Append(ss, s)
<1>1. /\ n \in Nat /\ ss \in [1..n -> Seq(U)] /\ tt \in Seq(Seq(U)) /\ k = n + 1
      /\ tt[k] = s /\ \A i \in 1..n : tt[i] = ss[i]
  OBVIOUS
<1>2. k \in Nat /\ k \in 1..k /\ k - 1 = n /\ n \in 0..n BY <1>1
<1>3. Len(tt) = k OBVIOUS
<1> HIDE DEF n, tt, k
<1>4. PICK f : Flattens(tt, f, k) BY <1>2, SomeFlattens
<1> DEFINE g == [i \in 0..n |-> f[i]]
<1>5. Flattens(ss, g, n)
  <2>1. DOMAIN g = 0..n /\ \A i \in 0..n : g[i] = f[i] OBVIOUS
  <2>2. 0 \in 0..n /\ \A i \in 1..n : i \in 0..n /\ i - 1 \in 0..n /\ i \in 1..k BY <1>1
  <2> HIDE DEF g
  <2>3. QED BY <1>1, <1>4, <2>1, <2>2 DEF Flattens
<1>6. g[n] = f[n] BY <1>2
<1> HIDE DEF g
<1>7. FlattenSeq(ss) = f[n] BY <1>1, <1>5, <1>6, FlattenIs DEF n
<1>8. FlattenSeq(tt) = f[k] BY <1>1, <1>3, <1>4, FlattenIs
<1>9. f[k] = f[n] \o s BY <1>1, <1>2, <1>4 DEF Flattens
<1>10. FlattenSeq(ss) \in Seq(U)
  <2>1. \A i \in 0..n : g[i] \in Seq(U) BY <1>1, <1>5, FlattenTypes
  <2>2. QED BY <1>2, <1>6, <1>7, <2>1
<1>11. QED BY <1>7, <1>8, <1>9, <1>10 DEF tt

\* The elements of bs in S, in order; Where with a test of the same meaning.
Kept(bs, S) == Where(bs, LAMBDA b : b \in S)
Alone(bs, S) == [i \in DOMAIN bs |-> IF bs[i] \in S THEN <<bs[i]>> ELSE << >>]

LEMMA KeptEmpty == \A S : Kept(<< >>, S) = << >>
<1> TAKE S
<1>1. [i \in DOMAIN << >> |-> IF << >>[i] \in S THEN << <<>>[i]>> ELSE << >>] = << >> OBVIOUS
<1>2. QED BY <1>1, FlattenEmpty DEF Kept, Where

LEMMA AloneSeq ==
  ASSUME NEW U, NEW bs \in Seq(U), NEW S
  PROVE  Alone(bs, S) \in Seq(Seq(U)) /\ Len(Alone(bs, S)) = Len(bs)
<1> DEFINE n == Len(bs)
<1>1. n \in Nat /\ DOMAIN bs = 1..n /\ \A i \in 1..n : bs[i] \in U OBVIOUS
<1>2. \A i \in 1..n : (IF bs[i] \in S THEN <<bs[i]>> ELSE << >>) \in Seq(U) BY <1>1
<1> HIDE DEF n
<1>3. Alone(bs, S) \in [1..n -> Seq(U)] BY <1>1, <1>2 DEF Alone
<1>4. QED BY <1>1, <1>3, IsASeq DEF n

KeepsNext(bs, x, S) ==
  Kept(Append(bs, x), S) = IF x \in S THEN Append(Kept(bs, S), x) ELSE Kept(bs, S)

LEMMA KeptAppend ==
  ASSUME NEW U, NEW bs \in Seq(U), NEW x \in U, NEW S
  PROVE  KeepsNext(bs, x, S) /\ Kept(bs, S) \in Seq(U)
<1> DEFINE one == IF x \in S THEN <<x>> ELSE << >>
           cs == Append(bs, x)
           n == Len(bs)
<1>1. /\ n \in Nat /\ DOMAIN bs = 1..n /\ cs \in Seq(U) /\ DOMAIN cs = 1..(n + 1)
      /\ cs[n + 1] = x /\ \A i \in 1..n : cs[i] = bs[i]
  OBVIOUS
<1>2. one \in Seq(U) OBVIOUS
<1>3. Alone(bs, S) \in Seq(Seq(U)) /\ Len(Alone(bs, S)) = n BY AloneSeq
<1> HIDE DEF one, cs, n
<1>4. Alone(cs, S) = Append(Alone(bs, S), one)
  <2> DEFINE a == Alone(cs, S)
             b == Alone(bs, S)
             c == Append(b, one)
  <2>1. a \in Seq(Seq(U)) /\ Len(a) = Len(cs) BY <1>1, AloneSeq
  <2>2. c \in Seq(Seq(U)) /\ Len(c) = n + 1 /\ c[n + 1] = one /\ \A i \in 1..n : c[i] = b[i]
    BY <1>2, <1>3
  <2>3. Len(cs) = n + 1 BY <1>1, LenProperties
  <2>4. \A i \in 1..(n + 1) : a[i] = IF cs[i] \in S THEN <<cs[i]>> ELSE << >> BY <1>1 DEF Alone
  <2>5. \A i \in 1..n : b[i] = IF bs[i] \in S THEN <<bs[i]>> ELSE << >> BY <1>1 DEF Alone
  <2>6. \A i \in 1..(n + 1) : a[i] = c[i]
    <3> TAKE i \in 1..(n + 1)
    <3>1. CASE i = n + 1 BY <1>1, <2>2, <2>4, <3>1 DEF one
    <3>2. CASE i # n + 1
      <4>1. i \in 1..n BY <1>1, <3>2
      <4>2. QED BY <1>1, <2>2, <2>4, <2>5, <4>1
    <3>3. QED BY <3>1, <3>2
  <2> HIDE DEF a, c
  <2>7. a = c BY <2>1, <2>2, <2>3, <2>6, SeqEqual
  <2>8. QED BY <2>7 DEF a, c
<1>5. Kept(cs, S) = FlattenSeq(Alone(cs, S)) /\ Kept(bs, S) = FlattenSeq(Alone(bs, S))
  BY DEF Kept, Where, Alone
<1>6. Kept(cs, S) = Kept(bs, S) \o one /\ Kept(bs, S) \in Seq(U)
  BY <1>2, <1>3, <1>4, <1>5, FlattenAppend
<1>7. x \in S => Kept(bs, S) \o one = Append(Kept(bs, S), x)
  BY <1>6, AppendIsConcat DEF one
<1>8. x \notin S => Kept(bs, S) \o one = Kept(bs, S)
  BY <1>6, ConcatEmptySeq DEF one
<1>9. QED BY <1>6, <1>7, <1>8 DEF cs, KeepsNext

LEMMA AppendSet ==
  ASSUME NEW U, NEW s \in Seq(U), NEW u \in U
  PROVE  Append(s, u) \in Seq(U) /\ ToSet(Append(s, u)) = ToSet(s) \cup {u}
<1> DEFINE n == Len(s)
           t == Append(s, u)
<1>1. /\ n \in Nat /\ t \in Seq(U) /\ DOMAIN s = 1..n /\ DOMAIN t = 1..(n + 1)
      /\ t[n + 1] = u /\ \A i \in 1..n : t[i] = s[i]
  OBVIOUS
<1> HIDE DEF n, t
<1>2. 1..(n + 1) = 1..n \cup {n + 1} BY <1>1
<1>3. ToSet(t) = ToSet(s) \cup {u} BY <1>1, <1>2 DEF ToSet
<1>4. QED BY <1>1, <1>3 DEF t

\* What is kept are the elements in S.
LEMMA KeptRange ==
  ASSUME NEW U, NEW bs \in Seq(U), NEW S
  PROVE  /\ Kept(bs, S) \in Seq(U)
         /\ ToSet(Kept(bs, S)) = ToSet(bs) \cap S
<1> DEFINE X == {s \in Seq(U) : Kept(s, S) \in Seq(U) /\ ToSet(Kept(s, S)) = ToSet(s) \cap S}
<1>1. << >> \in X
  <2>1. << >> \in Seq(U) /\ ToSet(<< >>) = {} BY EmptySeq DEF ToSet
  <2>2. Kept(<< >>, S) = << >> BY KeptEmpty
  <2>3. QED BY <2>1, <2>2
<1>2. ASSUME NEW s \in Seq(U), NEW u \in U, s \in X PROVE Append(s, u) \in X
  <2>1. /\ Kept(s, S) \in Seq(U) /\ ToSet(Kept(s, S)) = ToSet(s) \cap S BY <1>2
  <2>2. Kept(Append(s, u), S) = IF u \in S THEN Append(Kept(s, S), u) ELSE Kept(s, S)
    BY KeptAppend DEF KeepsNext
  <2>3. Append(s, u) \in Seq(U) /\ ToSet(Append(s, u)) = ToSet(s) \cup {u} BY AppendSet
  <2>4. ToSet(Append(Kept(s, S), u)) = ToSet(Kept(s, S)) \cup {u} BY <2>1, AppendSet
  <2> DEFINE k == Kept(s, S)
             l == Kept(Append(s, u), S)
  <2>5. l \in Seq(U) BY <2>1, <2>2, AppendProperties
  <2> HIDE DEF k, l
  <2>6. ToSet(l) = ToSet(Append(s, u)) \cap S BY <2>1, <2>2, <2>3, <2>4 DEF k, l
  <2>7. QED BY <2>3, <2>5, <2>6 DEF l
<1> HIDE DEF X
<1>3. Seq(U) \subseteq X BY <1>1, <1>2, SequencesIn
<1>4. QED BY <1>3 DEF X

LEMMA JoinAppend ==
  ASSUME NEW U, NEW a \in Seq(U), NEW s \in Seq(U), NEW u \in U
  PROVE  a \o Append(s, u) = Append(a \o s, u)
<1>1. Append(s, u) = s \o <<u>> /\ Append(a \o s, u) = (a \o s) \o <<u>> /\ <<u>> \in Seq(U)
  BY AppendIsConcat, ConcatProperties
<1>2. QED BY <1>1, ConcatAssociative

LEMMA KeptJoin ==
  ASSUME NEW U, NEW a \in Seq(U), NEW b \in Seq(U), NEW S
  PROVE  Kept(a \o b, S) = Kept(a, S) \o Kept(b, S)
<1> DEFINE X == {s \in Seq(U) : Kept(a \o s, S) = Kept(a, S) \o Kept(s, S)}
<1>1. Kept(a, S) \in Seq(U) BY KeptRange
<1>2. << >> \in X
  <2>1. a \o << >> = a /\ Kept(a, S) \o << >> = Kept(a, S) /\ << >> \in Seq(U)
    BY <1>1, ConcatEmptySeq, EmptySeq
  <2>2. QED BY <2>1, KeptEmpty
<1>3. ASSUME NEW s \in Seq(U), NEW u \in U, s \in X PROVE Append(s, u) \in X
  <2>1. Kept(a \o s, S) = Kept(a, S) \o Kept(s, S) BY <1>3
  <2>2. Kept(Append(s, u), S) = IF u \in S THEN Append(Kept(s, S), u) ELSE Kept(s, S)
    BY KeptAppend DEF KeepsNext
  <2>3. a \o s \in Seq(U) /\ Kept(s, S) \in Seq(U) BY KeptRange, ConcatProperties
  <2> HIDE DEF X
  <2> DEFINE j == a \o s
  <2>4. Kept(Append(j, u), S) = IF u \in S THEN Append(Kept(j, S), u) ELSE Kept(j, S)
    <3>1. j \in Seq(U) BY <2>3
    <3> HIDE DEF j
    <3>2. KeepsNext(j, u, S) BY <3>1, KeptAppend
    <3>3. QED BY <3>2 DEF KeepsNext
  <2>5. a \o Append(s, u) = Append(a \o s, u) BY JoinAppend
  <2>6. Kept(a, S) \o Append(Kept(s, S), u) = Append(Kept(a, S) \o Kept(s, S), u)
    BY <1>1, <2>3, JoinAppend
  <2>7. Kept(a \o Append(s, u), S) = Kept(a, S) \o Kept(Append(s, u), S)
    BY <2>1, <2>2, <2>4, <2>5, <2>6
  <2>8. Append(s, u) \in Seq(U) BY AppendProperties
  <2>9. QED BY <2>7, <2>8 DEF X
<1> HIDE DEF X
<1>4. Seq(U) \subseteq X BY <1>2, <1>3, SequencesIn
<1>5. QED BY <1>4 DEF X

LEMMA KeptTwice ==
  ASSUME NEW U, NEW bs \in Seq(U), NEW S, NEW T
  PROVE  Kept(Kept(bs, T), S) = Kept(bs, T \cap S)
<1> DEFINE X == {s \in Seq(U) : Kept(Kept(s, T), S) = Kept(s, T \cap S)}
<1>1. << >> \in X
  <2>1. << >> \in Seq(U) BY EmptySeq
  <2>2. QED BY <2>1, KeptEmpty
<1>2. ASSUME NEW s \in Seq(U), NEW u \in U, s \in X PROVE Append(s, u) \in X
  <2>1. Kept(Kept(s, T), S) = Kept(s, T \cap S) BY <1>2
  <2>2. Kept(Append(s, u), T) = IF u \in T THEN Append(Kept(s, T), u) ELSE Kept(s, T)
    BY KeptAppend DEF KeepsNext
  <2> DEFINE W == T \cap S
  <2>3. Kept(Append(s, u), W) = IF u \in W THEN Append(Kept(s, W), u) ELSE Kept(s, W)
    <3> HIDE DEF W
    <3>1. QED BY KeptAppend DEF KeepsNext
  <2>4. Kept(s, T) \in Seq(U) BY KeptRange
  <2>5. Kept(Append(Kept(s, T), u), S)
          = IF u \in S THEN Append(Kept(Kept(s, T), S), u) ELSE Kept(Kept(s, T), S)
    BY <2>4, KeptAppend, SMTT(20) DEF KeepsNext
  <2>6. Kept(Kept(Append(s, u), T), S) = Kept(Append(s, u), T \cap S)
    <3>1. CASE u \in T
      <4>1. u \in S <=> u \in W BY <3>1
      <4>2. Kept(Append(s, u), T) = Append(Kept(s, T), u) BY <2>2, <3>1
      <4>3. QED BY <2>1, <2>3, <2>5, <4>1, <4>2
    <3>2. CASE u \notin T BY <2>1, <2>2, <2>3, <3>2
    <3>3. QED BY <3>1, <3>2
  <2>7. Append(s, u) \in Seq(U) BY AppendProperties
  <2>8. QED BY <2>6, <2>7
<1> HIDE DEF X
<1>3. Seq(U) \subseteq X BY <1>1, <1>2, SequencesIn
<1>4. QED BY <1>3 DEF X

\* Two sets with the same elements of the sequence in them keep the same.
LEMMA KeptSame ==
  ASSUME NEW bs, NEW S, NEW T, ToSet(bs) \cap S = ToSet(bs) \cap T
  PROVE  Kept(bs, S) = Kept(bs, T)
<1>1. \A i \in DOMAIN bs : bs[i] \in S <=> bs[i] \in T BY DEF ToSet
<1>2. Alone(bs, S) = Alone(bs, T) BY <1>1 DEF Alone
<1>3. QED BY <1>2 DEF Kept, Where, Alone

LEMMA KeptNone ==
  ASSUME NEW U, NEW bs \in Seq(U), NEW S
  PROVE  Kept(bs, S) = << >> <=> ToSet(bs) \cap S = {}
<1>1. Kept(bs, S) \in Seq(U) /\ ToSet(Kept(bs, S)) = ToSet(bs) \cap S BY KeptRange
<1>2. \A s \in Seq(U) : s = << >> <=> ToSet(s) = {}
  <2> TAKE s \in Seq(U)
  <2>1. s = << >> => ToSet(s) = {} BY DEF ToSet
  <2>2. s # << >> => Len(s) \in Nat /\ Len(s) # 0 /\ 1 \in DOMAIN s BY EmptySeq, LenProperties
  <2>3. 1 \in DOMAIN s => ToSet(s) # {} BY DEF ToSet
  <2>4. QED BY <2>1, <2>2, <2>3
<1>3. QED BY <1>1, <1>2

LEMMA KeptAll ==
  ASSUME NEW U, NEW bs \in Seq(U), NEW S, ToSet(bs) \subseteq S
  PROVE  Kept(bs, S) = bs
<1> DEFINE X == {s \in Seq(U) : ToSet(s) \subseteq S => Kept(s, S) = s}
<1>1. << >> \in X
  <2>1. << >> \in Seq(U) BY EmptySeq
  <2>2. QED BY <2>1, KeptEmpty
<1>2. ASSUME NEW s \in Seq(U), NEW u \in U, s \in X PROVE Append(s, u) \in X
  <2>1. Append(s, u) \in Seq(U) /\ ToSet(Append(s, u)) = ToSet(s) \cup {u} BY AppendSet
  <2>2. Kept(Append(s, u), S) = IF u \in S THEN Append(Kept(s, S), u) ELSE Kept(s, S)
    BY KeptAppend DEF KeepsNext
  <2>3. QED BY <1>2, <2>1, <2>2
<1> HIDE DEF X
<1>3. Seq(U) \subseteq X BY <1>1, <1>2, SequencesIn
<1>4. QED BY <1>3 DEF X

KeptEach(ss, S) == [i \in DOMAIN ss |-> Kept(ss[i], S)]

EachNext(ss, s, S) ==
  /\ KeptEach(Append(ss, s), S) = Append(KeptEach(ss, S), Kept(s, S))

LEMMA KeptEachAppend ==
  ASSUME NEW U, NEW ss \in Seq(Seq(U)), NEW s \in Seq(U), NEW S
  PROVE  /\ KeptEach(ss, S) \in Seq(Seq(U)) /\ Kept(s, S) \in Seq(U)
         /\ EachNext(ss, s, S)
<1> DEFINE n == Len(ss)
           k == n + 1
           tt == Append(ss, s)
           a == KeptEach(tt, S)
           b == KeptEach(ss, S)
           last == Kept(s, S)
           c == Append(b, last)
<1>1. /\ n \in Nat /\ DOMAIN ss = 1..n /\ DOMAIN tt = 1..k /\ tt[k] = s
      /\ \A i \in 1..n : tt[i] = ss[i] /\ ss[i] \in Seq(U)
  OBVIOUS
<1>2. last \in Seq(U) BY KeptRange
<1>3. \A i \in 1..n : Kept(ss[i], S) \in Seq(U) BY <1>1, KeptRange
<1>4. k \in Nat /\ k \in 1..k /\ \A i \in 1..k : i = k \/ i \in 1..n BY <1>1
<1> HIDE DEF n, tt, last
<1>5. b = [i \in 1..n |-> Kept(ss[i], S)] BY <1>1 DEF KeptEach
<1>6. b \in [1..n -> Seq(U)] BY <1>3, <1>5
<1>7. b \in Seq(Seq(U)) /\ Len(b) = n BY <1>1, <1>6, IsASeq
<1> HIDE DEF b
<1>8. c \in Seq(Seq(U)) /\ Len(c) = k /\ c[k] = last /\ \A i \in 1..n : c[i] = b[i]
  BY <1>1, <1>2, <1>7
<1> HIDE DEF c, k
<1>9. a = [i \in 1..k |-> Kept(tt[i], S)] BY <1>1 DEF KeptEach, k
<1> HIDE DEF a
<1>10. \A i \in 1..k : a[i] = c[i]
  <2> TAKE i \in 1..k
  <2>1. CASE i = k BY <1>1, <1>4, <1>8, <1>9, <2>1 DEF last
  <2>2. CASE i # k
    <3>1. i \in 1..n BY <1>4, <2>2
    <3>2. QED BY <1>1, <1>5, <1>8, <1>9, <3>1
  <2>3. QED BY <2>1, <2>2
<1>11. a \in Seq(Seq(U)) /\ Len(a) = k
  <2>1. a \in [1..k -> Seq(U)]
    <3>1. \A i \in 1..k : c[i] \in Seq(U) BY <1>8
    <3>2. \A i \in 1..k : Kept(tt[i], S) \in Seq(U) BY <1>9, <1>10, <3>1
    <3>3. QED BY <1>9, <3>2
  <2>2. QED BY <1>4, <2>1, IsASeq
<1>12. a = c BY <1>8, <1>10, <1>11, SeqEqual
<1>13. QED BY <1>2, <1>7, <1>12 DEF a, b, c, tt, last, EachNext

\* Keeping from a list of lists is keeping from each.
LEMMA KeptFlatten ==
  ASSUME NEW U, NEW ss \in Seq(Seq(U)), NEW S
  PROVE  Kept(FlattenSeq(ss), S) = FlattenSeq(KeptEach(ss, S))
<1> DEFINE X == {tt \in Seq(Seq(U)) : Kept(FlattenSeq(tt), S) = FlattenSeq(KeptEach(tt, S))}
<1>1. << >> \in X
  <2>1. << >> \in Seq(Seq(U)) BY EmptySeq
  <2>2. KeptEach(<< >>, S) = << >> BY DEF KeptEach
  <2>3. QED BY <2>1, <2>2, FlattenEmpty, KeptEmpty
<1>2. ASSUME NEW tt \in Seq(Seq(U)), NEW s \in Seq(U), tt \in X PROVE Append(tt, s) \in X
  <2> DEFINE f == FlattenSeq(tt)
  <2>1. Kept(f, S) = FlattenSeq(KeptEach(tt, S)) BY <1>2
  <2> HIDE DEF X
  <2>2. FlattenSeq(Append(tt, s)) = f \o s /\ f \in Seq(U) BY FlattenAppend
  <2> HIDE DEF f
  <2>3. Kept(f \o s, S) = Kept(f, S) \o Kept(s, S) BY <2>2, KeptJoin
  <2> DEFINE k == KeptEach(tt, S)
             l == Kept(s, S)
  <2>4. /\ k \in Seq(Seq(U)) /\ l \in Seq(U) /\ KeptEach(Append(tt, s), S) = Append(k, l)
    <3>1. EachNext(tt, s, S) BY KeptEachAppend
    <3>2. k \in Seq(Seq(U)) /\ l \in Seq(U) BY KeptEachAppend
    <3>3. QED BY <3>1, <3>2 DEF EachNext
  <2> HIDE DEF k, l
  <2>5. FlattenSeq(Append(k, l)) = FlattenSeq(k) \o l BY <2>4, FlattenAppend
  <2>6. Append(tt, s) \in Seq(Seq(U)) BY AppendProperties
  <2>7. QED BY <2>1, <2>2, <2>3, <2>4, <2>5, <2>6 DEF X, k, l
<1> HIDE DEF X
<1>3. Seq(Seq(U)) \subseteq X BY <1>1, <1>2, SequencesIn
<1>4. QED BY <1>3 DEF X

LEMMA FlattenTyped == ASSUME NEW U, NEW ss \in Seq(Seq(U)) PROVE FlattenSeq(ss) \in Seq(U)
<1>1. << >> \in Seq(U) BY EmptySeq
<1>2. QED BY <1>1, FlattenAppend

\* Where all lists but one are empty, that one is what they come to.
OneAt(ss, j) == \A i \in DOMAIN ss : i # j => ss[i] = << >>

LEMMA FlattenOne ==
  ASSUME NEW U, NEW ss \in Seq(Seq(U)), NEW j, OneAt(ss, j)
  PROVE  FlattenSeq(ss) = IF j \in DOMAIN ss THEN ss[j] ELSE << >>
<1> DEFINE At1(tt) == IF j \in DOMAIN tt THEN tt[j] ELSE << >>
           X == {tt \in Seq(Seq(U)) : OneAt(tt, j) => FlattenSeq(tt) = At1(tt)}
<1>1. << >> \in X
  <2>1. << >> \in Seq(Seq(U)) BY EmptySeq
  <2>2. QED BY <2>1, FlattenEmpty
<1>2. ASSUME NEW tt \in Seq(Seq(U)), NEW s \in Seq(U), tt \in X PROVE Append(tt, s) \in X
  <2> DEFINE n == Len(tt)
             k == n + 1
             uu == Append(tt, s)
  <2>1. /\ n \in Nat /\ DOMAIN tt = 1..n /\ DOMAIN uu = 1..k /\ uu[k] = s
        /\ \A i \in 1..n : uu[i] = tt[i] /\ tt[i] \in Seq(U)
        /\ uu \in Seq(Seq(U))
    OBVIOUS
  <2>2. k \in 1..k /\ k \notin 1..n /\ \A i \in 1..k : i = k \/ i \in 1..n
    BY <2>1
  <2>3. \A i \in 1..n : i \in 1..k /\ i # k BY <2>1
  <2>4. FlattenSeq(uu) = FlattenSeq(tt) \o s /\ FlattenSeq(tt) \in Seq(U)
    BY FlattenAppend
  <2> HIDE DEF n, k, uu
  <2>5. ASSUME OneAt(uu, j) PROVE FlattenSeq(uu) = At1(uu)
    <3>1. OneAt(tt, j) BY <2>1, <2>3, <2>5 DEF OneAt
    <3>2. FlattenSeq(tt) = At1(tt) BY <1>2, <3>1
    <3>3. CASE j = k
      <4>1. FlattenSeq(tt) = << >> BY <2>1, <2>2, <3>2, <3>3
      <4>2. << >> \o s = s BY ConcatEmptySeq
      <4>3. QED BY <2>1, <2>2, <2>4, <3>3, <4>1, <4>2
    <3>4. CASE j # k
      <4>1. s = << >> BY <2>1, <2>2, <2>5, <3>4 DEF OneAt
      <4>2. FlattenSeq(tt) \o << >> = FlattenSeq(tt) BY <2>4, ConcatEmptySeq
      <4>3. At1(uu) = At1(tt) BY <2>1, <2>2, <2>3, <3>4
      <4>4. QED BY <2>4, <3>2, <4>1, <4>2, <4>3
    <3>5. QED BY <3>3, <3>4
  <2>6. QED BY <2>1, <2>5 DEF uu
<1> HIDE DEF X
<1>3. Seq(Seq(U)) \subseteq X BY <1>1, <1>2, SequencesIn
<1>4. QED BY <1>3 DEF X

-----------------------------------------------------------------------------
(* What the merge selects of a body, and what merging two nested blocks    *)
(* keeps (mergeNestedBlock, mergeLifecycle)                                *)

OfKind(U, t) == {b \in U : NestedType(b) = t}
NotOfKinds(U, S) == {b \in U : NestedType(b) \notin S}
Typed(U, S) == {b \in U : b.type \in S}
NotTyped(U, S) == {b \in U : b.type \notin S}

LEMMA SelectionsKeep ==
  ASSUME NEW U, NEW bs \in Seq(U)
  PROVE  /\ \A t : Peers(bs, t) = Kept(bs, OfKind(U, t))
         /\ \A S : /\ NotPeers(bs, S) = Kept(bs, NotOfKinds(U, S))
                   /\ OfType(bs, S) = Kept(bs, Typed(U, S))
                   /\ NotOfType(bs, S) = Kept(bs, NotTyped(U, S))
<1>1. \A i \in DOMAIN bs : bs[i] \in U OBVIOUS
<1>2. ASSUME NEW t PROVE Peers(bs, t) = Kept(bs, OfKind(U, t))
  <2>1. [i \in DOMAIN bs |-> IF NestedType(bs[i]) = t THEN <<bs[i]>> ELSE << >>]
          = [i \in DOMAIN bs |-> IF bs[i] \in OfKind(U, t) THEN <<bs[i]>> ELSE << >>]
    BY <1>1 DEF OfKind
  <2>2. QED BY <2>1 DEF Peers, Kept, Where
<1>3. ASSUME NEW S PROVE NotPeers(bs, S) = Kept(bs, NotOfKinds(U, S))
  <2>1. [i \in DOMAIN bs |-> IF NestedType(bs[i]) \notin S THEN <<bs[i]>> ELSE << >>]
          = [i \in DOMAIN bs |-> IF bs[i] \in NotOfKinds(U, S) THEN <<bs[i]>> ELSE << >>]
    BY <1>1 DEF NotOfKinds
  <2>2. QED BY <2>1 DEF NotPeers, Kept, Where
<1>4. ASSUME NEW S PROVE OfType(bs, S) = Kept(bs, Typed(U, S))
  <2>1. [i \in DOMAIN bs |-> IF bs[i].type \in S THEN <<bs[i]>> ELSE << >>]
          = [i \in DOMAIN bs |-> IF bs[i] \in Typed(U, S) THEN <<bs[i]>> ELSE << >>]
    BY <1>1 DEF Typed
  <2>2. QED BY <2>1 DEF OfType, Kept, Where
<1>5. ASSUME NEW S PROVE NotOfType(bs, S) = Kept(bs, NotTyped(U, S))
  <2>1. [i \in DOMAIN bs |-> IF bs[i].type \notin S THEN <<bs[i]>> ELSE << >>]
          = [i \in DOMAIN bs |-> IF bs[i] \in NotTyped(U, S) THEN <<bs[i]>> ELSE << >>]
    BY <1>1 DEF NotTyped
  <2>2. QED BY <2>1 DEF NotOfType, Kept, Where
<1>6. QED BY <1>2, <1>3, <1>4, <1>5

LEMMA InOwnSet ==
  ASSUME NEW U, NEW bs \in Seq(U)
  PROVE  bs \in Seq(ToSet(bs)) /\ ToSet(bs) \subseteq U
<1> DEFINE n == Len(bs)
<1>1. n \in Nat /\ DOMAIN bs = 1..n /\ \A i \in 1..n : bs[i] \in U OBVIOUS
<1>2. bs = [i \in 1..n |-> bs[i]] OBVIOUS
<1> HIDE DEF n
<1>3. \A i \in 1..n : bs[i] \in ToSet(bs) BY <1>1 DEF ToSet
<1>4. bs \in [1..n -> ToSet(bs)] BY <1>2, <1>3
<1>5. bs \in Seq(ToSet(bs)) BY <1>1, <1>4, IsASeq
<1>6. QED BY <1>1, <1>5 DEF ToSet

LEMMA ListedIn ==
  ASSUME NEW U, \A u \in U : IsBlock(u), NEW bs \in Seq(U)
  PROVE  Listed(bs)
BY InOwnSet DEF Listed, IsBlock

\* The blocks of a body, and theirs, are lists.
Deep(bs) == Listed(bs) /\ \A b \in ToSet(bs) : Listed(b.nested)
Deeper(bs) == Listed(bs) /\ \A b \in ToSet(bs) : Deep(b.nested)

LEMMA DeepIn ==
  ASSUME NEW U, \A u \in U : IsBlock(u) /\ Listed(u.nested), NEW bs \in Seq(U)
  PROVE  Deep(bs)
<1>1. Listed(bs) BY ListedIn
<1>2. ToSet(bs) \subseteq U BY InOwnSet
<1>3. QED BY <1>1, <1>2 DEF Deep

\* The blocks of two bodies, which both are lists of.
LEMMA BothListed ==
  ASSUME NEW a, Listed(a), NEW b, Listed(b)
  PROVE  LET U == ToSet(a) \cup ToSet(b)
         IN a \in Seq(U) /\ b \in Seq(U) /\ \A u \in U : IsBlock(u)
<1> DEFINE U == ToSet(a) \cup ToSet(b)
<1>1. a \in Seq(U) BY SeqMonotonic DEF Listed
<1>2. b \in Seq(U) BY SeqMonotonic DEF Listed
<1>3. QED BY <1>1, <1>2 DEF Listed, IsBlock

Alike(b, m) == IsBlock(m) /\ m.type = b.type /\ m.label = b.label /\ Listed(m.nested)
Checks(bs) == NotOfType(bs, {"action_trigger"})

LEMMA MergeNestedKeeps ==
  ASSUME NEW b, IsBlock(b), Listed(b.nested), NEW o, Listed(o.nested)
  PROVE  Alike(b, MergeNested(b, o))
<1> DEFINE m == MergeNested(b, o)
           N == b.nested
           V == o.nested
           kept == NotPeers(N, TypesIn(V))
           U == ToSet(N) \cup ToSet(V)
<1>1. DOMAIN m = DOMAIN b /\ m.type = b.type /\ m.label = b.label /\ m.nested = kept \o V
  BY DEF MergeNested, IsBlock
<1>2. N \in Seq(U) /\ V \in Seq(U) /\ \A u \in U : IsBlock(u) BY BothListed
<1> HIDE DEF m, N, V, U
<1>3. kept = Kept(N, NotOfKinds(U, TypesIn(V))) BY <1>2, SelectionsKeep
<1>4. kept \in Seq(U) BY <1>2, <1>3, KeptRange
<1> HIDE DEF kept
<1>5. kept \o V \in Seq(U) BY <1>2, <1>4, ConcatProperties
<1>6. Listed(kept \o V) BY <1>2, <1>5, ListedIn
<1>7. QED BY <1>1, <1>6 DEF Alike, IsBlock, m

LEMMA LifecycleKeeps ==
  ASSUME NEW b, IsBlock(b), Listed(b.nested), NEW o, Listed(o.nested), NEW tofu
  PROVE  /\ Alike(b, MergeLifecycle(b, o, tofu))
         /\ Checks(MergeLifecycle(b, o, tofu).nested) = Checks(b.nested)
<1> DEFINE m == MergeLifecycle(b, o, tofu)
           N == b.nested
           V == o.nested
           triggers == OfType(V, {"action_trigger"})
           U == ToSet(N) \cup ToSet(V)
           T == Typed(U, {"action_trigger"})
           C == NotTyped(U, {"action_trigger"})
<1>1. /\ DOMAIN m = DOMAIN b /\ m.type = b.type /\ m.label = b.label
      /\ m.nested = IF triggers = << >> THEN N ELSE Checks(N) \o triggers
  BY DEF MergeLifecycle, IsBlock, Checks
<1>2. N \in Seq(U) /\ V \in Seq(U) /\ \A u \in U : IsBlock(u) BY BothListed
<1> HIDE DEF m, N, V, U
<1>3. triggers = Kept(V, T) BY <1>2, SelectionsKeep
<1>4. \A bs \in Seq(U) : Checks(bs) = Kept(bs, C) BY SelectionsKeep DEF Checks
<1> HIDE DEF triggers, T, C
<1>5. triggers \in Seq(U) /\ Checks(N) \in Seq(U) BY <1>2, <1>3, <1>4, KeptRange
<1>6. Checks(N) \o triggers \in Seq(U) BY <1>5, ConcatProperties
<1>7. Checks(Checks(N) \o triggers) = Checks(N)
  <2>1. Kept(Checks(N) \o triggers, C) = Kept(Checks(N), C) \o Kept(triggers, C) BY <1>5, KeptJoin
  <2>2. Kept(Checks(N), C) = Checks(N)
    <3>1. ToSet(Checks(N)) \subseteq C BY <1>2, <1>4, KeptRange
    <3>2. QED BY <1>5, <3>1, KeptAll
  <2>3. Kept(triggers, C) = << >>
    <3>1. ToSet(triggers) \subseteq T BY <1>2, <1>3, KeptRange
    <3>2. T \cap C = {} BY DEF T, C, Typed, NotTyped
    <3>3. ToSet(triggers) \cap C = {} BY <3>1, <3>2
    <3>4. QED BY <1>5, <3>3, KeptNone
  <2>4. Checks(N) \o << >> = Checks(N) BY <1>5, ConcatEmptySeq
  <2>5. QED BY <1>4, <1>6, <2>1, <2>2, <2>3, <2>4
<1>8. Listed(Checks(N) \o triggers) BY <1>2, <1>6, ListedIn
<1>9. Listed(N) BY DEF N
<1>10. QED BY <1>1, <1>7, <1>8, <1>9 DEF Alike, IsBlock, m, N

\* h[k] is f merged with the first k blocks of g.
Combines(f, g, tofu, h, n) ==
  /\ DOMAIN h = 0..n /\ h[0] = f
  /\ \A k \in 1..n : h[k] = Combine(h[k - 1], g[k], tofu)

LEMMA SomeCombines ==
  ASSUME NEW f, NEW g, NEW tofu, NEW n \in Nat
  PROVE  \E h : Combines(f, g, tofu, h, n)
<1> DEFINE S == {k \in Nat : ~\E h : Combines(f, g, tofu, h, k)}
<1>1. S = {}
  <2> SUFFICES ASSUME S # {} PROVE FALSE OBVIOUS
  <2>1. PICK k \in S : \A j \in S : k <= j
    <3>1. S \in SUBSET Nat OBVIOUS
    <3> HIDE DEF S
    <3>2. QED BY <3>1, LeastNatural
  <2>2. k \in Nat /\ ~\E h : Combines(f, g, tofu, h, k) OBVIOUS
  <2>3. CASE k = 0
    <3> DEFINE h == [i \in 0..0 |-> f]
    <3>1. Combines(f, g, tofu, h, 0) BY DEF Combines
    <3>2. QED BY <2>2, <2>3, <3>1
  <2>4. CASE k # 0
    <3>1. k - 1 \in Nat /\ ~(k <= k - 1) BY <2>2, <2>4
    <3>2. k - 1 \notin S BY <2>1, <3>1
    <3>3. PICK h : Combines(f, g, tofu, h, k - 1) BY <3>1, <3>2
    <3> DEFINE e == [i \in 0..k |-> IF i = k THEN Combine(h[k - 1], g[k], tofu) ELSE h[i]]
    <3>4. DOMAIN e = 0..k /\ e[k] = Combine(h[k - 1], g[k], tofu) /\ \A i \in 0..k - 1 : e[i] = h[i]
      <4>1. k \in 0..k /\ \A i \in 0..k - 1 : i \in 0..k /\ i # k BY <2>2, <2>4
      <4>2. QED BY <4>1
    <3> HIDE DEF e
    <3>5. \A i \in 1..k : i - 1 \in 0..k - 1 /\ (i # k => i \in 1..k - 1 /\ i \in 0..k - 1)
      BY <2>2, <2>4
    <3>6. \A i \in 1..k : e[i] = Combine(e[i - 1], g[i], tofu)
      BY <3>3, <3>4, <3>5 DEF Combines
    <3>7. e[0] = f BY <2>4, <3>1, <3>3, <3>4 DEF Combines
    <3>8. Combines(f, g, tofu, e, k) BY <3>4, <3>6, <3>7 DEF Combines
    <3>9. QED BY <2>2, <3>8
  <2>5. QED BY <2>3, <2>4
<1>2. QED BY <1>1

MeansCombined(f, g, tofu, n, h) ==
  h = [k \in 0..n |-> IF k = 0 THEN f ELSE Combine(h[k - 1], g[k], tofu)]

LEMMA CombinedIs ==
  ASSUME NEW bs, NEW os, NEW t, NEW tofu, Len(Peers(os, t)) \in Nat
  PROVE  \E h : /\ Combines(FirstOrEmpty(bs, os, t), Peers(os, t), tofu, h, Len(Peers(os, t)))
                /\ Combined(bs, os, t, tofu) = h[Len(Peers(os, t))]
<1> DEFINE f == FirstOrEmpty(bs, os, t)
           g == Peers(os, t)
           n == Len(g)
           h == CHOOSE x : MeansCombined(f, g, tofu, n, x)
<1>1. Combined(bs, os, t, tofu) = h[n] BY DEF Combined, MeansCombined
<1> HIDE DEF f, g, n
<1>2. n \in Nat BY DEF n, g
<1>3. MeansCombined(f, g, tofu, n, h)
  <2>1. PICK e : Combines(f, g, tofu, e, n) BY <1>2, SomeCombines
  <2> DEFINE x == [k \in 0..n |-> e[k]]
  <2>2. x = [k \in 0..n |-> x[k]] OBVIOUS
  <2>3. \A k \in 0..n : x[k] = IF k = 0 THEN f ELSE Combine(x[k - 1], g[k], tofu)
    <3> TAKE k \in 0..n
    <3>1. x[k] = e[k] OBVIOUS
    <3>2. CASE k = 0 BY <2>1, <3>1, <3>2 DEF Combines
    <3>3. CASE k # 0
      <4>1. k \in 1..n /\ k - 1 \in 0..n BY <1>2, <3>3
      <4>2. x[k - 1] = e[k - 1] BY <4>1
      <4>3. e[k] = Combine(e[k - 1], g[k], tofu) BY <2>1, <4>1 DEF Combines
      <4> HIDE DEF x
      <4>4. QED BY <3>1, <3>3, <4>2, <4>3
    <3>4. QED BY <3>2, <3>3
  <2> HIDE DEF x
  <2>4. x = [k \in 0..n |-> IF k = 0 THEN f ELSE Combine(x[k - 1], g[k], tofu)] BY <2>2, <2>3
  <2>5. MeansCombined(f, g, tofu, n, x) BY <2>4 DEF MeansCombined
  <2>6. QED BY <2>5
<1> HIDE DEF h
<1>4. h = [k \in 0..n |-> IF k = 0 THEN f ELSE Combine(h[k - 1], g[k], tofu)]
  BY <1>3 DEF MeansCombined
<1>5. DOMAIN h = 0..n /\ \A k \in 0..n : h[k] = IF k = 0 THEN f ELSE Combine(h[k - 1], g[k], tofu)
  BY <1>4, Zenon
<1>6. 0 \in 0..n /\ \A k \in 1..n : k \in 0..n /\ k # 0 BY <1>2
<1>7. Combines(f, g, tofu, h, n) BY <1>5, <1>6 DEF Combines
<1>8. QED BY <1>1, <1>7 DEF f, g, n

LEMMA CombineKeeps ==
  ASSUME NEW b, IsBlock(b), Listed(b.nested), NEW o, Listed(o.nested), NEW tofu
  PROVE  /\ Alike(b, Combine(b, o, tofu))
         /\ NestedType(o) = "lifecycle" => Checks(Combine(b, o, tofu).nested) = Checks(b.nested)
<1>1. CASE NestedType(o) = "lifecycle" BY <1>1, LifecycleKeeps DEF Combine
<1>2. CASE NestedType(o) # "lifecycle" BY <1>2, MergeNestedKeeps DEF Combine
<1>3. QED BY <1>1, <1>2

LEMMA PeersIn ==
  ASSUME NEW U, NEW bs \in Seq(U), NEW t
  PROVE  /\ Peers(bs, t) \in Seq(U) /\ Len(Peers(bs, t)) \in Nat
         /\ \A i \in 1..Len(Peers(bs, t)) : /\ Peers(bs, t)[i] \in ToSet(bs)
                                            /\ NestedType(Peers(bs, t)[i]) = t
         /\ Peers(bs, t) # << >> <=> t \in TypesIn(bs)
<1> DEFINE S == OfKind(U, t)
           p == Peers(bs, t)
<1>1. p = Kept(bs, S) BY SelectionsKeep
<1> HIDE DEF S, p
<1>2. p \in Seq(U) /\ ToSet(p) = ToSet(bs) \cap S BY <1>1, KeptRange
<1>3. Len(p) \in Nat /\ DOMAIN p = 1..Len(p) BY <1>2
<1>4. \A i \in 1..Len(p) : p[i] \in ToSet(p) BY <1>3 DEF ToSet
<1>5. p # << >> <=> ToSet(bs) \cap S # {} BY <1>1, KeptNone
<1>6. ToSet(bs) \cap S # {} <=> t \in TypesIn(bs)
  <2>1. ToSet(bs) \subseteq U BY InOwnSet
  <2>2. QED BY <2>1 DEF S, OfKind, TypesIn, ToSet
<1>7. QED BY <1>2, <1>3, <1>4, <1>5, <1>6 DEF p, S, OfKind

LEMMA FirstIsBlock ==
  ASSUME NEW bs, Deep(bs), NEW os, Deep(os), NEW t \in TypesIn(os)
  PROVE  LET f == FirstOrEmpty(bs, os, t)
         IN /\ IsBlock(f) /\ Listed(f.nested) /\ NestedType(f) = t
            /\ Peers(bs, t) # << >> => f = Peers(bs, t)[1]
            /\ Peers(bs, t) = << >> => f.nested = << >>
<1> DEFINE f == FirstOrEmpty(bs, os, t)
           p == Peers(bs, t)
           q == Peers(os, t)
           e == q[1]
<1>1. bs \in Seq(ToSet(bs)) /\ os \in Seq(ToSet(os)) BY DEF Deep, Listed
<1>2. CASE p # << >>
  <2>1. /\ p \in Seq(ToSet(bs)) /\ \A i \in 1..Len(p) : p[i] \in ToSet(bs) /\ NestedType(p[i]) = t
    BY <1>1, PeersIn
  <2>2. 1 \in 1..Len(p)
    <3> HIDE DEF p
    <3>1. QED BY <1>2, <2>1, EmptySeq, LenProperties
  <2>3. f = p[1] BY <1>2 DEF FirstOrEmpty
  <2>4. p[1] \in ToSet(bs) /\ NestedType(p[1]) = t BY <2>1, <2>2
  <2> HIDE DEF f, p
  <2>5. IsBlock(f) /\ Listed(f.nested) BY <2>3, <2>4 DEF Deep, Listed, IsBlock
  <2>6. QED BY <1>2, <2>3, <2>4, <2>5 DEF f, p
<1>3. CASE p = << >>
  <2>1. /\ q \in Seq(ToSet(os)) /\ \A i \in 1..Len(q) : q[i] \in ToSet(os) /\ NestedType(q[i]) = t
        /\ q # << >>
    BY <1>1, PeersIn
  <2>2. 1 \in 1..Len(q)
    <3> HIDE DEF q
    <3>1. QED BY <2>1, EmptySeq, LenProperties
  <2>3. e \in ToSet(os) /\ NestedType(e) = t BY <2>1, <2>2
  <2>4. f = [e EXCEPT !.attrs = << >>, !.nested = << >>] BY <1>3 DEF FirstOrEmpty
  <2> HIDE DEF f, p, q, e
  <2>5. IsBlock(e) BY <2>3 DEF Deep, Listed, IsBlock
  <2>6. DOMAIN f = DOMAIN e /\ f.type = e.type /\ f.label = e.label /\ f.nested = << >>
    BY <2>4, <2>5 DEF IsBlock
  <2>7. NestedType(f) = t BY <2>3, <2>6 DEF NestedType
  <2>8. Listed(<< >>) BY EmptySeq DEF Listed, ToSet
  <2>9. QED BY <1>3, <2>5, <2>6, <2>7, <2>8 DEF f, p, IsBlock
<1>4. QED BY <1>2, <1>3

LEMMA CombinedKeeps ==
  ASSUME NEW bs, Deep(bs), NEW os, Deep(os), NEW t \in TypesIn(os), NEW tofu
  PROVE  LET f == FirstOrEmpty(bs, os, t)
             x == Combined(bs, os, t, tofu)
         IN /\ Alike(f, x) /\ NestedType(x) = t
            /\ t = "lifecycle" => Checks(x.nested) = Checks(f.nested)
<1> DEFINE f == FirstOrEmpty(bs, os, t)
           g == Peers(os, t)
           n == Len(g)
<1>1. IsBlock(f) /\ Listed(f.nested) /\ NestedType(f) = t BY FirstIsBlock
<1>2. /\ n \in Nat /\ \A i \in 1..n : g[i] \in ToSet(os) /\ NestedType(g[i]) = t
  <2>1. os \in Seq(ToSet(os)) BY DEF Deep, Listed
  <2>2. QED BY <2>1, PeersIn
<1>3. PICK h : Combines(f, g, tofu, h, n) /\ Combined(bs, os, t, tofu) = h[n] BY <1>2, CombinedIs
<1> HIDE DEF f, g, n
<1> DEFINE Fine(b) == Alike(f, b) /\ (t = "lifecycle" => Checks(b.nested) = Checks(f.nested))
           B == {i \in 0..n : ~Fine(h[i])}
<1>4. B = {}
  <2> SUFFICES ASSUME B # {} PROVE FALSE OBVIOUS
  <2>1. PICK k \in B : \A j \in B : k <= j
    <3>1. B \in SUBSET Nat BY <1>2
    <3> HIDE DEF B
    <3>2. QED BY <3>1, LeastNatural
  <2>2. k \in 0..n /\ ~Fine(h[k]) OBVIOUS
  <2>3. Fine(h[0]) BY <1>1, <1>3 DEF Combines, Alike
  <2>4. k \in 1..n /\ k - 1 \in 0..n /\ ~(k <= k - 1) BY <1>2, <2>2, <2>3
  <2>5. Fine(h[k - 1]) BY <2>1, <2>4
  <2>6. h[k] = Combine(h[k - 1], g[k], tofu) BY <1>3, <2>4 DEF Combines
  <2>7. Listed(g[k].nested) /\ NestedType(g[k]) = t BY <1>2, <2>4 DEF Deep
  <2> DEFINE b == h[k - 1]
             o == g[k]
  <2>8. IsBlock(b) /\ Listed(b.nested) BY <2>5 DEF Alike
  <2> HIDE DEF b, o, Fine
  <2>9. /\ Alike(b, Combine(b, o, tofu))
        /\ NestedType(o) = "lifecycle" => Checks(Combine(b, o, tofu).nested) = Checks(b.nested)
    BY <2>7, <2>8, CombineKeeps DEF o
  <2>10. Fine(h[k]) BY <2>5, <2>6, <2>7, <2>9 DEF Fine, Alike, b, o
  <2>11. QED BY <2>2, <2>10
<1>5. n \in 0..n BY <1>2
<1>6. Fine(h[n]) BY <1>4, <1>5
<1>7. NestedType(h[n]) = t BY <1>1, <1>6 DEF Alike, NestedType
<1>8. QED BY <1>3, <1>6, <1>7 DEF f

-----------------------------------------------------------------------------
(* What overriding makes of a body (mergeBody, mergeTopLevelBlock) *)

\* mergeBody: the types it merges, and what each overriding block becomes.
MergedTypes(base, over) ==
  {t \in TypesIn(over.nested) \cap Special(base.type) :
     t = "lifecycle" \/ Peers(base.nested, t) # << >>}
ItemOf(base, over, tofu, j) ==
  LET t == NestedType(over.nested[j])
      first == \A i \in 1..(j-1) : NestedType(over.nested[i]) # t
      x == Combined(base.nested, over.nested, t, tofu)
  IN IF t \notin MergedTypes(base, over) THEN <<over.nested[j]>>
     ELSE IF first /\ ~IsEmpty(x) THEN <<x>> ELSE << >>
ItemsOf(base, over, tofu) == [j \in DOMAIN over.nested |-> ItemOf(base, over, tofu, j)]

LEMMA MergedBody ==
  ASSUME NEW base, IsBlock(base), NEW over, NEW tofu
  PROVE  LET m == MergeBody(base, over, tofu)
         IN /\ IsBlock(m) /\ m.type = base.type /\ m.label = base.label
            /\ m.nested = NotPeers(base.nested, TypesIn(over.nested))
                            \o FlattenSeq(ItemsOf(base, over, tofu))
BY DEF MergeBody, IsBlock, ItemsOf, ItemOf, MergedTypes

\* The blocks of either body, and what merging makes of them.
Around(base, over, tofu) ==
  ToSet(base.nested) \cup ToSet(over.nested)
    \cup {Combined(base.nested, over.nested, t, tofu) : t \in MergedTypes(base, over)}

LEMMA AroundBlocks ==
  ASSUME NEW base, Deep(base.nested), NEW over, Deep(over.nested), NEW tofu
  PROVE  LET U == Around(base, over, tofu)
         IN /\ base.nested \in Seq(U) /\ over.nested \in Seq(U)
            /\ \A u \in U : IsBlock(u) /\ Listed(u.nested)
            /\ ItemsOf(base, over, tofu) \in Seq(Seq(U))
<1> DEFINE N == base.nested
           V == over.nested
           M == MergedTypes(base, over)
           U == Around(base, over, tofu)
           items == ItemsOf(base, over, tofu)
           n == Len(V)
<1>1. Listed(N) /\ Listed(V) BY DEF Deep
<1>2. \A t \in M : IsBlock(Combined(N, V, t, tofu)) /\ Listed(Combined(N, V, t, tofu).nested)
  <2> TAKE t \in M
  <2>1. t \in TypesIn(V) BY DEF MergedTypes
  <2>2. Alike(FirstOrEmpty(N, V, t), Combined(N, V, t, tofu)) BY <2>1, CombinedKeeps
  <2>3. QED BY <2>2 DEF Alike
<1>3. \A u \in U : IsBlock(u) /\ Listed(u.nested)
  BY <1>2 DEF Deep, Listed, IsBlock, Around
<1>4. ToSet(N) \subseteq U /\ ToSet(V) \subseteq U BY DEF Around
<1>5. N \in Seq(U) /\ V \in Seq(U) BY <1>1, <1>4, SeqMonotonic DEF Listed
<1>6. \A j \in DOMAIN V : ItemOf(base, over, tofu, j) \in Seq(U)
  <2> TAKE j \in DOMAIN V
  <2> DEFINE t == NestedType(V[j])
             x == Combined(N, V, t, tofu)
             e == V[j]
  <2>1. e \in U BY <1>4 DEF ToSet
  <2>2. t \in M => x \in U BY DEF Around
  <2>3. ItemOf(base, over, tofu, j) \in {<<e>>, << >>} \cup (IF t \in M THEN {<<x>>} ELSE {})
    BY DEF ItemOf
  <2> HIDE DEF U, t, x, e, M
  <2>4. <<e>> \in Seq(U) /\ << >> \in Seq(U) /\ (t \in M => <<x>> \in Seq(U)) BY <2>1, <2>2
  <2>5. QED BY <2>3, <2>4
<1>7. items \in Seq(Seq(U))
  <2>1. n \in Nat /\ DOMAIN V = 1..n BY <1>5
  <2> HIDE DEF U, V, n
  <2>2. items = [j \in 1..n |-> ItemOf(base, over, tofu, j)] BY <2>1 DEF ItemsOf, V
  <2>3. items \in [1..n -> Seq(U)] BY <1>6, <2>1, <2>2
  <2>4. QED BY <2>1, <2>3, IsASeq
<1>8. QED BY <1>3, <1>5, <1>7

LEMMA BodyKeeps ==
  ASSUME NEW base, IsBlock(base), Deep(base.nested), NEW over, Deep(over.nested), NEW tofu
  PROVE  LET U == Around(base, over, tofu)
             m == MergeBody(base, over, tofu).nested
         IN /\ m \in Seq(U) /\ Deep(m)
            /\ \A S : Kept(m, S) = Kept(NotPeers(base.nested, TypesIn(over.nested)), S)
                                     \o FlattenSeq(KeptEach(ItemsOf(base, over, tofu), S))
<1> DEFINE U == Around(base, over, tofu)
           m == MergeBody(base, over, tofu).nested
           items == ItemsOf(base, over, tofu)
           kept == NotPeers(base.nested, TypesIn(over.nested))
           flat == FlattenSeq(items)
<1>1. /\ base.nested \in Seq(U) /\ items \in Seq(Seq(U))
      /\ \A u \in U : IsBlock(u) /\ Listed(u.nested)
  BY AroundBlocks
<1>2. m = kept \o flat BY MergedBody
<1> HIDE DEF U, m, items
<1>3. kept = Kept(base.nested, NotOfKinds(U, TypesIn(over.nested))) BY <1>1, SelectionsKeep
<1>4. kept \in Seq(U) /\ flat \in Seq(U) BY <1>1, <1>3, KeptRange, FlattenTyped
<1>5. m \in Seq(U) BY <1>2, <1>4, ConcatProperties
<1>6. Deep(m) BY <1>1, <1>5, DeepIn
<1> HIDE DEF kept
<1>7. ASSUME NEW S PROVE Kept(m, S) = Kept(kept, S) \o FlattenSeq(KeptEach(items, S))
  <2>1. Kept(flat, S) = FlattenSeq(KeptEach(items, S)) BY <1>1, KeptFlatten
  <2> HIDE DEF flat
  <2>2. Kept(kept \o flat, S) = Kept(kept, S) \o Kept(flat, S) BY <1>4, KeptJoin
  <2>3. QED BY <1>2, <2>1, <2>2
<1>8. QED BY <1>5, <1>6, <1>7 DEF U, m, items, kept

\* Where the override has a type, the base's blocks of it give way; where it
\* does not, they stay.
LEMMA KeptOfBase ==
  ASSUME NEW U, NEW N \in Seq(U), NEW T, NEW t
  PROVE  Kept(NotPeers(N, T), OfKind(U, t)) = IF t \in T THEN << >> ELSE Peers(N, t)
<1> DEFINE A == NotOfKinds(U, T)
           B == OfKind(U, t)
<1>1. NotPeers(N, T) = Kept(N, A) /\ Peers(N, t) = Kept(N, B) BY SelectionsKeep
<1>2. t \notin T => A \cap B = B BY DEF NotOfKinds, OfKind
<1>3. t \in T => A \cap B = {} BY DEF NotOfKinds, OfKind
<1> HIDE DEF A, B
<1>4. Kept(Kept(N, A), B) = Kept(N, A \cap B) BY KeptTwice
<1>5. Kept(N, {}) = << >> BY KeptNone
<1>6. QED BY <1>1, <1>2, <1>3, <1>4, <1>5 DEF B

LEMMA KeptSingle ==
  ASSUME NEW e, NEW S
  PROVE  Kept(<<e>>, S) = IF e \in S THEN <<e>> ELSE << >>
<1>1. << >> \in Seq({e}) /\ Append(<< >>, e) = <<e>> BY EmptySeq
<1>2. KeepsNext(<< >>, e, S) BY <1>1, KeptAppend
<1>3. Append(<< >>, e) = <<e>> OBVIOUS
<1>4. QED BY <1>1, <1>2, <1>3, KeptEmpty DEF KeepsNext

\* What is kept of an item by type.
LEMMA KeptItem ==
  ASSUME NEW base, Deep(base.nested), NEW over, Deep(over.nested), NEW tofu,
         NEW j \in DOMAIN over.nested, NEW t
  PROVE  LET U == Around(base, over, tofu)
             x == Combined(base.nested, over.nested, t, tofu)
             first == \A i \in 1..(j-1) : NestedType(over.nested[i]) # t
             own == NestedType(over.nested[j])
             k == Kept(ItemOf(base, over, tofu, j), OfKind(U, t))
         IN /\ own # t => k = << >>
            /\ own = t /\ t \notin MergedTypes(base, over) => k = <<over.nested[j]>>
            /\ own = t /\ t \in MergedTypes(base, over) =>
                 k = IF first /\ ~IsEmpty(x) THEN <<x>> ELSE << >>
<1> DEFINE U == Around(base, over, tofu)
           M == MergedTypes(base, over)
           e == over.nested[j]
           own == NestedType(e)
           x == Combined(base.nested, over.nested, own, tofu)
           first == \A i \in 1..(j-1) : NestedType(over.nested[i]) # own
           S == OfKind(U, t)
           item == ItemOf(base, over, tofu, j)
<1>1. item = IF own \notin M THEN <<e>> ELSE IF first /\ ~IsEmpty(x) THEN <<x>> ELSE << >>
  BY DEF ItemOf
<1>2. own \in TypesIn(over.nested) BY DEF TypesIn
<1>3. NestedType(x) = own BY <1>2, CombinedKeeps
<1>4. e \in U /\ (own \in M => x \in U) BY DEF Around, ToSet
<1>5. e \in S <=> own = t BY <1>4 DEF OfKind
<1>6. own \in M => (x \in S <=> own = t) BY <1>3, <1>4 DEF OfKind
<1> HIDE DEF U, M, e, own, x, first, S, item
<1>7. Kept(<<e>>, S) = IF e \in S THEN <<e>> ELSE << >> BY KeptSingle
<1>8. Kept(<<x>>, S) = IF x \in S THEN <<x>> ELSE << >> BY KeptSingle
<1>9. Kept(<< >>, S) = << >> BY KeptEmpty
<1>10. own # t => Kept(item, S) = << >> BY <1>1, <1>5, <1>6, <1>7, <1>8, <1>9
<1>11. own = t /\ own \notin M => Kept(item, S) = <<e>> BY <1>1, <1>5, <1>7
<1>12. own = t /\ own \in M => Kept(item, S) = IF first /\ ~IsEmpty(x) THEN <<x>> ELSE << >>
  BY <1>1, <1>6, <1>8, <1>9
<1>13. QED BY <1>10, <1>11, <1>12 DEF U, M, e, own, x, first, S, item

LEMMA PeersMerged ==
  ASSUME NEW base, IsBlock(base), Deep(base.nested), NEW over, Deep(over.nested), NEW tofu,
         NEW t, t \notin MergedTypes(base, over)
  PROVE  Peers(MergeBody(base, over, tofu).nested, t)
           = IF t \in TypesIn(over.nested) THEN Peers(over.nested, t) ELSE Peers(base.nested, t)
<1> DEFINE U == Around(base, over, tofu)
           N == base.nested
           V == over.nested
           S == OfKind(U, t)
           m == MergeBody(base, over, tofu).nested
           items == ItemsOf(base, over, tofu)
           kept == NotPeers(N, TypesIn(V))
<1>1. /\ N \in Seq(U) /\ V \in Seq(U) BY AroundBlocks
<1>2. m \in Seq(U) /\ Kept(m, S) = Kept(kept, S) \o FlattenSeq(KeptEach(items, S)) BY BodyKeeps
<1>3. DOMAIN items = DOMAIN V /\ \A j \in DOMAIN V : items[j] = ItemOf(base, over, tofu, j)
  BY DEF ItemsOf
<1>4. \A j \in DOMAIN V : V[j] \in U BY <1>1
<1>5. \A j \in DOMAIN V : Kept(items[j], S) = IF V[j] \in S THEN <<V[j]>> ELSE << >>
  <2> TAKE j \in DOMAIN V
  <2>1. V[j] \in S <=> NestedType(V[j]) = t BY <1>4 DEF OfKind
  <2>2. CASE NestedType(V[j]) # t
    <3>1. Kept(ItemOf(base, over, tofu, j), S) = << >> BY <2>2, KeptItem
    <3>2. QED BY <1>3, <2>1, <2>2, <3>1
  <2>3. CASE NestedType(V[j]) = t
    <3>1. Kept(ItemOf(base, over, tofu, j), S) = <<V[j]>> BY <2>3, KeptItem
    <3>2. QED BY <1>3, <2>1, <2>3, <3>1
  <2>4. QED BY <2>2, <2>3
<1> HIDE DEF items, m, kept, U, S
<1>6. KeptEach(items, S) = Alone(V, S) BY <1>3, <1>5 DEF KeptEach, Alone
<1>7. FlattenSeq(Alone(V, S)) = Kept(V, S) BY DEF Kept, Where, Alone
<1>8. /\ Peers(m, t) = Kept(m, S) /\ Peers(V, t) = Kept(V, S)
  BY <1>1, <1>2, SelectionsKeep DEF S
<1>9. Kept(kept, S) = IF t \in TypesIn(V) THEN << >> ELSE Peers(N, t)
  BY <1>1, KeptOfBase DEF S, kept
<1>10. Peers(V, t) \in Seq(U) /\ Peers(N, t) \in Seq(U) /\ (Peers(V, t) # << >> <=> t \in TypesIn(V))
  BY <1>1, PeersIn
<1>11. << >> \o Peers(V, t) = Peers(V, t) /\ Peers(N, t) \o << >> = Peers(N, t)
  BY <1>10, ConcatEmptySeq
<1>12. QED BY <1>2, <1>6, <1>7, <1>8, <1>9, <1>10, <1>11 DEF m

LEMMA PeersCombined ==
  ASSUME NEW base, IsBlock(base), Deep(base.nested), NEW over, Deep(over.nested), NEW tofu,
         NEW t \in MergedTypes(base, over)
  PROVE  LET x == Combined(base.nested, over.nested, t, tofu)
         IN Peers(MergeBody(base, over, tofu).nested, t) = IF IsEmpty(x) THEN << >> ELSE <<x>>
<1> DEFINE U == Around(base, over, tofu)
           N == base.nested
           V == over.nested
           S == OfKind(U, t)
           m == MergeBody(base, over, tofu).nested
           items == ItemsOf(base, over, tofu)
           kept == NotPeers(N, TypesIn(V))
           x == Combined(N, V, t, tofu)
           one == IF IsEmpty(x) THEN << >> ELSE <<x>>
           each == KeptEach(items, S)
           n == Len(V)
           Own(j) == NestedType(V[j])
<1>1. N \in Seq(U) /\ V \in Seq(U) /\ items \in Seq(Seq(U)) BY AroundBlocks
<1>2. m \in Seq(U) /\ Kept(m, S) = Kept(kept, S) \o FlattenSeq(each) BY BodyKeeps
<1>3. DOMAIN items = DOMAIN V /\ \A j \in DOMAIN V : items[j] = ItemOf(base, over, tofu, j)
  BY DEF ItemsOf
<1>4. n \in Nat /\ DOMAIN V = 1..n BY <1>1
<1>5. t \in TypesIn(V) BY DEF MergedTypes
<1>6. PICK k \in 1..n : Own(k) = t /\ \A j \in 1..n : Own(j) = t => k <= j
  <2> DEFINE J == {j \in 1..n : Own(j) = t}
  <2>1. J \in SUBSET Nat /\ J # {} BY <1>4, <1>5 DEF TypesIn
  <2>2. PICK k \in J : \A j \in J : k <= j
    <3> HIDE DEF J
    <3>1. QED BY <2>1, LeastNatural
  <2>3. QED BY <2>2
<1>7. DOMAIN each = 1..n /\ \A j \in 1..n : each[j] = Kept(ItemOf(base, over, tofu, j), S)
  <2> HIDE DEF items, S, V, n
  <2>1. QED BY <1>3, <1>4 DEF KeptEach
<1>8. each[k] = one
  <2>1. \A i \in 1..(k-1) : Own(i) # t BY <1>4, <1>6
  <2>2. Kept(ItemOf(base, over, tofu, k), S) = one BY <1>4, <1>6, <2>1, KeptItem
  <2>3. QED BY <1>7, <2>2
<1>9. \A j \in 1..n : j # k => each[j] = << >>
  <2> SUFFICES ASSUME NEW j \in 1..n, j # k PROVE each[j] = << >> OBVIOUS
  <2>1. CASE Own(j) # t
    <3>1. Kept(ItemOf(base, over, tofu, j), S) = << >> BY <1>4, <2>1, KeptItem
    <3>2. QED BY <1>7, <3>1
  <2>2. CASE Own(j) = t
    <3>1. k \in 1..(j-1) BY <1>4, <1>6, <2>2
    <3>2. ~\A i \in 1..(j-1) : Own(i) # t BY <1>6, <3>1
    <3>3. Kept(ItemOf(base, over, tofu, j), S) = << >> BY <1>4, <2>2, <3>2, KeptItem
    <3>4. QED BY <1>7, <3>3
  <2>3. QED BY <2>1, <2>2
<1>10. each \in Seq(Seq(U)) /\ \A j \in 1..n : each[j] \in Seq(U)
  <2> HIDE DEF items, S, U
  <2>1. \A j \in 1..n : items[j] \in Seq(U) BY <1>1, <1>3, <1>4
  <2>2. \A j \in 1..n : each[j] \in Seq(U) BY <1>3, <1>4, <1>7, <2>1, KeptRange
  <2>3. each = [j \in 1..n |-> each[j]] BY <1>7 DEF KeptEach
  <2> HIDE DEF each, n
  <2>4. each \in [1..n -> Seq(U)] BY <2>2, <2>3
  <2>5. QED BY <1>4, <2>2, <2>4, IsASeq
<1> HIDE DEF each, U, S, items, m, kept, x, one, n, Own
<1>11. FlattenSeq(each) = one
  <2>1. OneAt(each, k) BY <1>7, <1>9 DEF OneAt
  <2>2. QED BY <1>7, <1>8, <1>10, <2>1, FlattenOne
<1>12. Peers(m, t) = Kept(m, S) BY <1>2, SelectionsKeep DEF S
<1>13. Kept(kept, S) = << >> BY <1>1, <1>5, KeptOfBase DEF S, kept
<1>14. one \in Seq(U) /\ << >> \o one = one
  <2>1. one \in Seq(U) BY <1>6, <1>8, <1>10
  <2>2. QED BY <2>1, ConcatEmptySeq
<1>15. QED BY <1>2, <1>11, <1>12, <1>13, <1>14 DEF m, one, x

\* A body's check rules, by the lifecycle blocks it has.
LEMMA RulesOf ==
  ASSUME NEW bs, Deep(bs)
  PROVE  /\ Peers(bs, "lifecycle") = << >> => Rules(bs) = << >>
         /\ \A x \in ToSet(bs) : Peers(bs, "lifecycle") = <<x>> =>
              Rules(bs) = IF x.type = "lifecycle" THEN Checks(x.nested) ELSE << >>
<1> DEFINE U == ToSet(bs)
           A == OfKind(U, "lifecycle")
           B == Typed(U, {"lifecycle"})
           p == Peers(bs, "lifecycle")
           q == OfType(bs, {"lifecycle"})
<1>1. bs \in Seq(U) /\ \A u \in U : Listed(u.nested) BY DEF Deep, Listed
<1>2. p = Kept(bs, A) /\ q = Kept(bs, B) BY <1>1, SelectionsKeep
<1>3. A \cap B = B BY DEF OfKind, Typed, NestedType
<1>4. Kept(p, B) = q
  <2> HIDE DEF A, B, U, p, q
  <2>1. Kept(Kept(bs, A), B) = Kept(bs, A \cap B) BY <1>1, KeptTwice
  <2>2. QED BY <1>2, <1>3, <2>1
<1>5. Rules(bs) = Checks(NestedOf(q)) BY DEF Rules, Checks
<1>6. NestedOf(<< >>) = << >>
  <2>1. [i \in DOMAIN << >> |-> << >>[i].nested] = << >> OBVIOUS
  <2>2. QED BY <2>1, FlattenEmpty DEF NestedOf
<1>7. Checks(<< >>) = << >>
  <2>1. << >> \in Seq({}) OBVIOUS
  <2>2. Checks(<< >>) = Kept(<< >>, NotTyped({}, {"action_trigger"}))
    BY <2>1, SelectionsKeep DEF Checks
  <2>3. QED BY <2>2, KeptEmpty
<1>8. p = << >> => Rules(bs) = << >>
  <2>1. Kept(<< >>, B) = << >> BY KeptEmpty
  <2> HIDE DEF A, B, U, p, q
  <2>2. QED BY <1>4, <1>5, <1>6, <1>7, <2>1
<1>9. ASSUME NEW x \in U, p = <<x>>
      PROVE  Rules(bs) = IF x.type = "lifecycle" THEN Checks(x.nested) ELSE << >>
  <2>1. Kept(<<x>>, B) = IF x \in B THEN <<x>> ELSE << >> BY KeptSingle
  <2>2. x \in B <=> x.type = "lifecycle" BY DEF Typed
  <2>3. NestedOf(<<x>>) = x.nested
    <3> DEFINE W == ToSet(x.nested)
               ss == <<x.nested>>
    <3>1. [i \in DOMAIN <<x>> |-> <<x>>[i].nested] = ss OBVIOUS
    <3>2. x.nested \in Seq(W) BY <1>1 DEF Listed
    <3> HIDE DEF W
    <3>3. ss \in Seq(Seq(W)) BY <3>2
    <3>4. OneAt(ss, 1) /\ 1 \in DOMAIN ss /\ ss[1] = x.nested BY DEF OneAt
    <3> HIDE DEF ss
    <3>5. FlattenSeq(ss) = x.nested BY <3>3, <3>4, FlattenOne
    <3>6. QED BY <3>1, <3>5 DEF NestedOf
  <2> HIDE DEF A, B, U, p, q
  <2>4. QED BY <1>4, <1>5, <1>6, <1>7, <1>9, <2>1, <2>2, <2>3
<1>10. QED BY <1>8, <1>9

LEMMA OnlyOne ==
  ASSUME NEW U, NEW p \in Seq(U), p # << >>, Len(p) <= 1
  PROVE  Len(p) = 1 /\ 1 \in 1..Len(p) /\ p = <<p[1]>>
<1>1. Len(p) \in Nat /\ DOMAIN p = 1..Len(p) OBVIOUS
<1>2. Len(p) # 0 BY EmptySeq
<1>3. Len(p) = 1 BY <1>1, <1>2
<1>4. p = <<p[1]>> BY <1>1, <1>3
<1>5. QED BY <1>3, <1>4

\* Merging a resource's body leaves its check rules alone, if it has at most
\* one lifecycle block.
LEMMA BodyRules ==
  ASSUME NEW base, IsBlock(base), Deep(base.nested), base.type = "resource",
         NEW over, Deep(over.nested), NEW tofu, Len(Peers(base.nested, "lifecycle")) <= 1
  PROVE  LET m == MergeBody(base, over, tofu).nested
         IN Len(Peers(m, "lifecycle")) <= 1 /\ Rules(m) = Rules(base.nested)
<1> DEFINE t == "lifecycle"
           N == base.nested
           V == over.nested
           m == MergeBody(base, over, tofu).nested
           x == Combined(N, V, t, tofu)
           f == FirstOrEmpty(N, V, t)
           p == Peers(N, t)
           R(e) == IF e.type = t THEN Checks(e.nested) ELSE << >>
<1>1. Deep(m) BY BodyKeeps
<1>2. N \in Seq(ToSet(N)) BY DEF Deep, Listed
<1>3. Special(base.type) = {t} BY DEF Special
<1>4. CASE t \notin TypesIn(V)
  <2>1. t \notin MergedTypes(base, over) BY <1>4 DEF MergedTypes
  <2>2. Peers(m, t) = p BY <1>4, <2>1, PeersMerged
  <2>3. CASE p = << >> BY <1>1, <2>2, <2>3, RulesOf
  <2>4. CASE p # << >>
    <3>1. PICK y \in ToSet(N) : p = <<y>>
      <4>1. /\ Len(p) \in Nat /\ \A i \in 1..Len(p) : p[i] \in ToSet(N)
            /\ p \in Seq(ToSet(N))
        BY <1>2, PeersIn
      <4>2. Len(p) = 1 /\ p = <<p[1]>> /\ 1 \in 1..Len(p) BY <2>4, <4>1, OnlyOne
      <4>3. QED BY <4>1, <4>2
    <3>2. y \in ToSet(m)
      <4>1. m \in Seq(ToSet(m)) BY <1>1 DEF Deep, Listed
      <4>2. Len(Peers(m, t)) = 1 /\ Peers(m, t)[1] = y BY <2>2, <3>1
      <4>3. QED BY <4>1, <4>2, PeersIn
    <3>3. Rules(m) = R(y) BY <1>1, <2>2, <3>1, <3>2, RulesOf
    <3>4. Rules(N) = R(y) BY <3>1, RulesOf
    <3>5. QED BY <2>2, <3>3, <3>4
  <2>5. QED BY <2>3, <2>4
<1>5. CASE t \in TypesIn(V)
  <2>1. t \in MergedTypes(base, over) BY <1>3, <1>5 DEF MergedTypes
  <2>2. Peers(m, t) = IF IsEmpty(x) THEN << >> ELSE <<x>> BY <2>1, PeersCombined
  <2>3. Alike(f, x) /\ Checks(x.nested) = Checks(f.nested) BY <1>5, CombinedKeeps
  <2>4. (p # << >> => f = p[1]) /\ (p = << >> => f.nested = << >>) BY <1>5, FirstIsBlock
  <2>5. Checks(<< >>) = << >>
    <3>1. << >> \in Seq({}) OBVIOUS
    <3>2. Checks(<< >>) = Kept(<< >>, NotTyped({}, {"action_trigger"}))
      BY <3>1, SelectionsKeep DEF Checks
    <3>3. QED BY <3>2, KeptEmpty
  <2>6. x.type = f.type BY <2>3 DEF Alike
  <2>7. Rules(m) = R(x)
    <3>1. CASE IsEmpty(x)
      <4>1. Rules(m) = << >> BY <1>1, <2>2, <3>1, RulesOf
      <4>2. x.nested = << >> BY <3>1 DEF IsEmpty
      <4>3. QED BY <2>5, <4>1, <4>2
    <3>2. CASE ~IsEmpty(x)
      <4>1. m \in Seq(ToSet(m)) BY <1>1 DEF Deep, Listed
      <4>2. Len(Peers(m, t)) = 1 /\ Peers(m, t)[1] = x BY <2>2, <3>2
      <4>3. x \in ToSet(m) BY <4>1, <4>2, PeersIn
      <4>4. QED BY <1>1, <2>2, <3>2, <4>3, RulesOf
    <3>3. QED BY <3>1, <3>2
  <2>8. Rules(N) = R(f)
    <3>1. CASE p = << >>
      <4>1. Rules(N) = << >> BY <3>1, RulesOf
      <4>2. f.nested = << >> BY <2>4, <3>1
      <4>3. QED BY <2>5, <4>1, <4>2
    <3>2. CASE p # << >>
      <4>1. /\ Len(p) \in Nat /\ \A i \in 1..Len(p) : p[i] \in ToSet(N)
            /\ p \in Seq(ToSet(N))
        BY <1>2, PeersIn
      <4>2. Len(p) = 1 /\ p = <<p[1]>> /\ 1 \in 1..Len(p) BY <3>2, <4>1, OnlyOne
      <4>3. f \in ToSet(N) /\ p = <<f>> BY <2>4, <3>2, <4>1, <4>2
      <4>4. QED BY <4>3, RulesOf
    <3>3. QED BY <3>1, <3>2
  <2>9. Len(Peers(m, t)) <= 1
    <3> DEFINE q == Peers(m, t)
    <3>1. q = << >> \/ q = <<x>> BY <2>2
    <3> HIDE DEF q, x, m
    <3>2. Len(q) <= 1
      <4>1. CASE q = << >> BY <4>1
      <4>2. CASE q = <<x>> BY <4>2
      <4>3. QED BY <3>1, <4>1, <4>2
    <3>3. QED BY <3>2, Zenon DEF q
  <2> HIDE DEF m, N, x, f
  <2>10. QED BY <2>3, <2>6, <2>7, <2>8, <2>9 DEF m, N
<1>6. QED BY <1>4, <1>5

\* What overriding a top-level block other than a terraform block makes of its
\* nested blocks: every type the override has is the override's, every other
\* the base's; the types an override may not touch are the base's, and so are
\* a resource's check rules.
NestedMerges(type, T, N, V) ==
  LET fixed == FixedBlocks(type)
  IN /\ Deep(T)
     /\ \A t : t \notin Special(type) \cup fixed =>
          Peers(T, t) = IF t \in TypesIn(V) THEN Peers(V, t) ELSE Peers(N, t)
     /\ OfType(T, fixed) = OfType(N, fixed)
     /\ type = "resource" /\ Len(Peers(N, "lifecycle")) <= 1 =>
          Len(Peers(T, "lifecycle")) <= 1 /\ Rules(T) = Rules(N)

LEMMA TopLevelNested ==
  ASSUME NEW base, IsBlock(base), Deep(base.nested), base.type # "terraform",
         NEW over, Deep(over.nested), NEW tofu
  PROVE  NestedMerges(base.type, MergeTopLevel(base, over, tofu).nested, base.nested, over.nested)
<1> DEFINE type == base.type
           N == base.nested
           V == over.nested
           U == Around(base, over, tofu)
           m == MergeBody(base, over, tofu).nested
           T == MergeTopLevel(base, over, tofu).nested
           fixed == FixedBlocks(type)
           A == NotTyped(U, fixed)
           B == Typed(U, fixed)
           rest == NotOfType(m, fixed)
           own == OfType(N, fixed)
<1>1. /\ N \in Seq(U) /\ V \in Seq(U) /\ m \in Seq(U) /\ Deep(m)
      /\ \A u \in U : IsBlock(u) /\ Listed(u.nested)
  BY AroundBlocks, BodyKeeps
<1>2. T = IF fixed = {} THEN m ELSE rest \o own
  <2>1. /\ IsBlock(MergeBody(base, over, tofu)) /\ MergeBody(base, over, tofu).type = type
    BY MergedBody
  <2>2. QED BY <2>1 DEF MergeTopLevel, IsBlock
<1>3. rest = Kept(m, A) /\ own = Kept(N, B) BY <1>1, SelectionsKeep
<1>4. "dynamic" \notin fixed BY DEF FixedBlocks
<1>5. m \in Seq(U) /\ rest \in Seq(U) /\ own \in Seq(U) /\ rest \o own \in Seq(U)
  <2> HIDE DEF m, A, B, U, N, rest, own
  <2>1. rest \in Seq(U) /\ own \in Seq(U) BY <1>1, <1>3, KeptRange
  <2>2. QED BY <1>1, <2>1, ConcatProperties
<1>6. T \in Seq(U) BY <1>2, <1>5
<1>7. Deep(T) BY <1>1, <1>6, DeepIn
<1>8. ASSUME NEW t, t \notin Special(type) \cup fixed
      PROVE  Peers(T, t) = IF t \in TypesIn(V) THEN Peers(V, t) ELSE Peers(N, t)
  <2> DEFINE K == OfKind(U, t)
  <2>1. t \notin MergedTypes(base, over) BY <1>8 DEF MergedTypes
  <2>2. Peers(m, t) = IF t \in TypesIn(V) THEN Peers(V, t) ELSE Peers(N, t) BY <2>1, PeersMerged
  <2>3. A \cap K = K /\ B \cap K = {}
    BY <1>4, <1>8 DEF NotTyped, Typed, OfKind, NestedType
  <2>4. Peers(m, t) = Kept(m, K) /\ Peers(T, t) = Kept(T, K) BY <1>1, <1>6, SelectionsKeep
  <2> HIDE DEF m, A, B, U, N, V, K, T, rest, own, fixed, type
  <2>5. Kept(rest, K) = Kept(m, K)
    <3>1. Kept(Kept(m, A), K) = Kept(m, A \cap K) BY <1>1, KeptTwice
    <3>2. QED BY <1>3, <2>3, <3>1
  <2>6. Kept(own, K) = << >>
    <3>1. Kept(Kept(N, B), K) = Kept(N, B \cap K) BY <1>1, KeptTwice
    <3>2. Kept(N, {}) = << >> BY <1>1, KeptNone
    <3>3. QED BY <1>3, <2>3, <3>1, <3>2
  <2>7. Kept(rest \o own, K) = Kept(m, K)
    <3>1. Kept(rest \o own, K) = Kept(rest, K) \o Kept(own, K) BY <1>5, KeptJoin
    <3>2. Kept(m, K) \in Seq(U) BY <1>1, KeptRange
    <3>3. Kept(m, K) \o << >> = Kept(m, K) BY <3>2, ConcatEmptySeq
    <3>4. QED BY <2>5, <2>6, <3>1, <3>3
  <2>8. Kept(T, K) = Kept(m, K) BY <1>2, <2>7
  <2>9. QED BY <2>2, <2>4, <2>8
<1>9. OfType(T, fixed) = own
  <2>1. OfType(T, fixed) = Kept(T, B) BY <1>6, SelectionsKeep
  <2>2. A \cap B = {} /\ B \cap B = B BY DEF NotTyped, Typed
  <2>3. fixed = {} => B = {} BY DEF Typed
  <2> HIDE DEF m, A, B, U, N, T, rest, own, fixed, type
  <2>4. CASE fixed = {}
    <3>1. Kept(T, {}) = << >> /\ Kept(N, {}) = << >> BY <1>1, <1>6, KeptNone
    <3>2. QED BY <1>3, <2>1, <2>3, <2>4, <3>1
  <2>5. CASE fixed # {}
    <3>1. Kept(rest, B) = << >>
      <4>1. Kept(Kept(m, A), B) = Kept(m, A \cap B) BY <1>1, KeptTwice
      <4>2. Kept(m, {}) = << >> BY <1>1, KeptNone
      <4>3. QED BY <1>3, <2>2, <4>1, <4>2
    <3>2. Kept(own, B) = own
      <4>1. Kept(Kept(N, B), B) = Kept(N, B \cap B) BY <1>1, KeptTwice
      <4>2. QED BY <1>3, <2>2, <4>1
    <3>3. Kept(rest \o own, B) = Kept(rest, B) \o Kept(own, B) BY <1>5, KeptJoin
    <3>4. << >> \o own = own BY <1>5, ConcatEmptySeq
    <3>5. QED BY <1>2, <2>1, <2>5, <3>1, <3>2, <3>3, <3>4
  <2>6. QED BY <2>4, <2>5
<1>10. ASSUME type = "resource", Len(Peers(N, "lifecycle")) <= 1
       PROVE  Len(Peers(T, "lifecycle")) <= 1 /\ Rules(T) = Rules(N)
  <2>1. fixed = {} BY <1>10 DEF FixedBlocks
  <2>2. Len(Peers(m, "lifecycle")) <= 1 /\ Rules(m) = Rules(N) BY <1>10, BodyRules
  <2>3. T = m BY <1>2, <2>1
  <2> HIDE DEF T, m, N
  <2>4. QED BY <2>2, <2>3
<1> HIDE DEF T, N, V, type, fixed, own
<1>11. QED BY <1>7, <1>8, <1>9, <1>10 DEF NestedMerges, T, N, V, type, fixed, own

-----------------------------------------------------------------------------
(* What overriding the module's terraform blocks makes of them             *)
(* (applyTerraformOverride): the storage selections each of them is left   *)
(* with, and who requires a provider.                                      *)

\* h[k] is what Applied has made of f after the first k blocks of g.
Applies(f, g, h, n) ==
  /\ DOMAIN h = 0..n /\ h[0] = f
  /\ \A k \in 1..n : h[k] = Apply(h[k - 1], g[k])

LEMMA SomeApplies ==
  ASSUME NEW f, NEW g, NEW n \in Nat
  PROVE  \E h : Applies(f, g, h, n)
<1> DEFINE S == {k \in Nat : ~\E h : Applies(f, g, h, k)}
<1>1. S = {}
  <2> SUFFICES ASSUME S # {} PROVE FALSE OBVIOUS
  <2>1. PICK k \in S : \A j \in S : k <= j
    <3>1. S \in SUBSET Nat OBVIOUS
    <3> HIDE DEF S
    <3>2. QED BY <3>1, LeastNatural
  <2>2. k \in Nat /\ ~\E h : Applies(f, g, h, k) OBVIOUS
  <2>3. CASE k = 0
    <3> DEFINE h == [i \in 0..0 |-> f]
    <3>1. Applies(f, g, h, 0) BY DEF Applies
    <3>2. QED BY <2>2, <2>3, <3>1
  <2>4. CASE k # 0
    <3>1. k - 1 \in Nat /\ ~(k <= k - 1) BY <2>2, <2>4
    <3>2. k - 1 \notin S BY <2>1, <3>1
    <3>3. PICK h : Applies(f, g, h, k - 1) BY <3>1, <3>2
    <3> DEFINE e == [i \in 0..k |-> IF i = k THEN Apply(h[k - 1], g[k]) ELSE h[i]]
    <3>4. DOMAIN e = 0..k /\ e[k] = Apply(h[k - 1], g[k]) /\ \A i \in 0..k - 1 : e[i] = h[i]
      <4>1. k \in 0..k /\ \A i \in 0..k - 1 : i \in 0..k /\ i # k BY <2>2, <2>4
      <4>2. QED BY <4>1
    <3> HIDE DEF e
    <3>5. \A i \in 1..k : i - 1 \in 0..k - 1 /\ (i # k => i \in 1..k - 1 /\ i \in 0..k - 1)
      BY <2>2, <2>4
    <3>6. \A i \in 1..k : e[i] = Apply(e[i - 1], g[i])
      BY <3>3, <3>4, <3>5 DEF Applies
    <3>7. e[0] = f BY <2>4, <3>1, <3>3, <3>4 DEF Applies
    <3>8. Applies(f, g, e, k) BY <3>4, <3>6, <3>7 DEF Applies
    <3>9. QED BY <2>2, <3>8
  <2>5. QED BY <2>3, <2>4
<1>2. QED BY <1>1

LEMMA OneApplies ==
  ASSUME NEW f, NEW g, NEW d, NEW h, NEW n \in Nat, NEW m \in Nat, n <= m,
         Applies(f, g, d, n), Applies(f, g, h, m)
  PROVE  d[n] = h[n]
<1> DEFINE B == {k \in 0..n : d[k] # h[k]}
<1>1. B = {}
  <2> SUFFICES ASSUME B # {} PROVE FALSE OBVIOUS
  <2>1. PICK k \in B : \A j \in B : k <= j
    <3>1. B \in SUBSET Nat OBVIOUS
    <3> HIDE DEF B
    <3>2. QED BY <3>1, LeastNatural
  <2>2. k \in 0..n /\ d[k] # h[k] OBVIOUS
  <2>3. k # 0 BY <2>2 DEF Applies
  <2>4. k \in 1..n /\ k \in 1..m /\ k - 1 \in 0..n /\ ~(k <= k - 1) BY <2>2, <2>3
  <2>5. d[k - 1] = h[k - 1] BY <2>1, <2>4
  <2>6. d[k] = Apply(d[k - 1], g[k]) /\ h[k] = Apply(h[k - 1], g[k]) BY <2>4 DEF Applies
  <2>7. QED BY <2>2, <2>5, <2>6
<1>2. n \in 0..n OBVIOUS
<1>3. QED BY <1>1, <1>2

MeansApplied(f, g, n, h) ==
  h = [k \in 0..n |-> IF k = 0 THEN f ELSE Apply(h[k - 1], g[k])]

LEMMA AppliedIs ==
  ASSUME NEW f, NEW g, NEW n \in Nat, Len(g) = n, NEW e, Applies(f, g, e, n)
  PROVE  Applied(f, g) = e[n]
<1> DEFINE h == CHOOSE x : MeansApplied(f, g, n, x)
<1>1. Applied(f, g) = h[n] BY DEF Applied, MeansApplied
<1>2. MeansApplied(f, g, n, h)
  <2> DEFINE x == [k \in 0..n |-> e[k]]
  <2>1. x = [k \in 0..n |-> x[k]] OBVIOUS
  <2>2. \A k \in 0..n : x[k] = IF k = 0 THEN f ELSE Apply(x[k - 1], g[k])
    <3> TAKE k \in 0..n
    <3>1. x[k] = e[k] OBVIOUS
    <3>2. CASE k = 0 BY <3>1, <3>2 DEF Applies
    <3>3. CASE k # 0
      <4>1. k \in 1..n /\ k - 1 \in 0..n BY <3>3
      <4>2. x[k - 1] = e[k - 1] BY <4>1
      <4>3. e[k] = Apply(e[k - 1], g[k]) BY <4>1 DEF Applies
      <4> HIDE DEF x
      <4>4. QED BY <3>1, <3>3, <4>2, <4>3
    <3>4. QED BY <3>2, <3>3
  <2> HIDE DEF x
  <2>3. x = [k \in 0..n |-> IF k = 0 THEN f ELSE Apply(x[k - 1], g[k])] BY <2>1, <2>2
  <2>4. MeansApplied(f, g, n, x) BY <2>3 DEF MeansApplied
  <2>5. QED BY <2>4
<1> HIDE DEF h
<1>3. h = [k \in 0..n |-> IF k = 0 THEN f ELSE Apply(h[k - 1], g[k])]
  BY <1>2 DEF MeansApplied
<1>4. DOMAIN h = 0..n /\ \A k \in 0..n : h[k] = IF k = 0 THEN f ELSE Apply(h[k - 1], g[k])
  BY <1>3, Zenon
<1>5. 0 \in 0..n /\ \A k \in 1..n : k \in 0..n /\ k # 0 OBVIOUS
<1>6. Applies(f, g, h, n) BY <1>4, <1>5 DEF Applies
<1>7. h[n] = e[n] BY <1>6, OneApplies
<1>8. QED BY <1>1, <1>7

LEMMA AppliedNext ==
  ASSUME NEW f, NEW U, NEW ns \in Seq(U), NEW x \in U
  PROVE  Applied(f, << >>) = f /\ Applied(f, Append(ns, x)) = Apply(Applied(f, ns), x)
<1> DEFINE n == Len(ns)
           tt == Append(ns, x)
           k == n + 1
<1>1. n \in Nat /\ k \in Nat /\ Len(tt) = k /\ tt[k] = x /\ \A i \in 1..n : tt[i] = ns[i]
  OBVIOUS
<1>2. Len(ns) = n OBVIOUS
<1>3. Applied(f, << >>) = f
  <2>1. PICK e : Applies(f, << >>, e, 0) BY SomeApplies
  <2>2. Applied(f, << >>) = e[0] BY <2>1, AppliedIs
  <2>3. QED BY <2>1, <2>2 DEF Applies
<1> HIDE DEF tt
<1>4. PICK h : Applies(f, tt, h, k) BY <1>1, SomeApplies
<1>5. Applied(f, tt) = h[k] BY <1>1, <1>4, AppliedIs
<1> DEFINE d == [i \in 0..n |-> h[i]]
<1>6. Applies(f, ns, d, n)
  <2>1. DOMAIN d = 0..n /\ \A i \in 0..n : d[i] = h[i] OBVIOUS
  <2>2. 0 \in 0..n /\ \A i \in 1..n : i \in 0..n /\ i - 1 \in 0..n /\ i \in 1..k BY <1>1
  <2> HIDE DEF d, n, k
  <2>3. QED BY <1>1, <1>4, <2>1, <2>2 DEF Applies
<1>7. d[n] = h[n] BY <1>1
<1> HIDE DEF d
<1>8. Applied(f, ns) = h[n] BY <1>1, <1>2, <1>6, <1>7, AppliedIs
<1>9. h[k] = Apply(h[n], x)
  <2>1. k \in 1..k /\ k - 1 = n BY <1>1
  <2> HIDE DEF k, n
  <2>2. QED BY <1>1, <1>4, <2>1 DEF Applies
<1>10. QED BY <1>3, <1>5, <1>8, <1>9 DEF tt

-----------------------------------------------------------------------------
(* What a terraform block's override makes of the bodies it is applied to  *)
(* (applyTerraformOverride), block by block                                *)

Names(b, n) == b.type = "required_providers" /\ Has(b.attrs, n)
NamesIn(U, n) == {b \in U : Names(b, n)}

\* Lists that differ only in what is not selected are selected the same from.
LEMMA OthersDiffer ==
  ASSUME NEW N, NEW M, DOMAIN M = DOMAIN N
  PROVE  /\ \A S : (\A j \in DOMAIN N : M[j] = N[j] \/ (M[j].type \notin S /\ N[j].type \notin S)) =>
                     OfType(M, S) = OfType(N, S)
         /\ \A n : (\A j \in DOMAIN N : M[j] = N[j] \/ (~Names(M[j], n) /\ ~Names(N[j], n))) =>
                     Requiring(M, n) = Requiring(N, n)
<1>1. ASSUME NEW S, \A j \in DOMAIN N : M[j] = N[j] \/ (M[j].type \notin S /\ N[j].type \notin S)
      PROVE  OfType(M, S) = OfType(N, S)
  <2>1. [j \in DOMAIN M |-> IF M[j].type \in S THEN <<M[j]>> ELSE << >>]
          = [j \in DOMAIN N |-> IF N[j].type \in S THEN <<N[j]>> ELSE << >>]
    BY <1>1
  <2>2. QED BY <2>1 DEF OfType, Where
<1>2. ASSUME NEW n, \A j \in DOMAIN N : M[j] = N[j] \/ (~Names(M[j], n) /\ ~Names(N[j], n))
      PROVE  Requiring(M, n) = Requiring(N, n)
  <2>1. [j \in DOMAIN M |-> IF M[j].type = "required_providers" /\ Has(M[j].attrs, n)
                            THEN <<M[j]>> ELSE << >>]
          = [j \in DOMAIN N |-> IF N[j].type = "required_providers" /\ Has(N[j].attrs, n)
                            THEN <<N[j]>> ELSE << >>]
    BY <1>2 DEF Names
  <2>2. QED BY <2>1 DEF Requiring, Where
<1>3. QED BY <1>1, <1>2

LEMMA RequiringKept ==
  ASSUME NEW U, NEW bs \in Seq(U), NEW n
  PROVE  Requiring(bs, n) = Kept(bs, NamesIn(U, n))
<1>1. \A i \in DOMAIN bs : bs[i] \in U OBVIOUS
<1>2. [i \in DOMAIN bs |-> IF bs[i].type = "required_providers" /\ Has(bs[i].attrs, n)
                           THEN <<bs[i]>> ELSE << >>]
        = [i \in DOMAIN bs |-> IF bs[i] \in NamesIn(U, n) THEN <<bs[i]>> ELSE << >>]
  BY <1>1 DEF NamesIn, Names
<1>3. QED BY <1>2 DEF Requiring, Kept, Where

LEMMA RequiringNext ==
  ASSUME NEW U, NEW bs \in Seq(U), NEW x \in U, NEW n
  PROVE  /\ Requiring(bs, n) \in Seq(U)
         /\ Requiring(Append(bs, x), n) =
              IF Names(x, n) THEN Append(Requiring(bs, n), x) ELSE Requiring(bs, n)
<1>1. Append(bs, x) \in Seq(U) OBVIOUS
<1> DEFINE cs == Append(bs, x)
           S == NamesIn(U, n)
<1>2. x \in S <=> Names(x, n) BY DEF NamesIn
<1> HIDE DEF cs, S
<1>3. Requiring(cs, n) = Kept(cs, S) /\ Requiring(bs, n) = Kept(bs, S)
  BY <1>1, RequiringKept DEF cs, S
<1>4. KeepsNext(bs, x, S) /\ Kept(bs, S) \in Seq(U) BY KeptAppend
<1>5. QED BY <1>2, <1>3, <1>4 DEF KeepsNext, cs

\* One element is kept where just one is in the set.
Single(s, S, y) ==
  \E j \in DOMAIN s : s[j] = y /\ y \in S /\ \A k \in DOMAIN s : s[k] \in S => k = j

LEMMA KeptOne ==
  ASSUME NEW U, NEW bs \in Seq(U), NEW S, NEW y
  PROVE  Kept(bs, S) = <<y>> <=> Single(bs, S, y)
<1> DEFINE X == {s \in Seq(U) : Kept(s, S) = <<y>> => Single(s, S, y)}
<1>1. << >> \in X
  <2>1. << >> \in Seq(U) BY EmptySeq
  <2>2. << >> # <<y>> OBVIOUS
  <2>3. QED BY <2>1, <2>2, KeptEmpty
<1>2. ASSUME NEW s \in Seq(U), NEW u \in U, s \in X PROVE Append(s, u) \in X
  <2> DEFINE n == Len(s)
             k == n + 1
             t == Append(s, u)
  <2>1. /\ n \in Nat /\ DOMAIN s = 1..n /\ DOMAIN t = 1..k /\ t \in Seq(U) /\ t[k] = u
        /\ \A i \in 1..n : t[i] = s[i]
    OBVIOUS
  <2>2. k \in 1..k /\ k \notin 1..n /\ (\A i \in 1..k : i = k \/ i \in 1..n) /\ \A i \in 1..n : i \in 1..k
    BY <2>1
  <2>3. Kept(t, S) = IF u \in S THEN Append(Kept(s, S), u) ELSE Kept(s, S)
    BY KeptAppend DEF KeepsNext
  <2>4. Kept(s, S) \in Seq(U) /\ ToSet(Kept(s, S)) = ToSet(s) \cap S BY KeptRange
  <2> HIDE DEF n, k, t
  <2>5. ASSUME Kept(t, S) = <<y>> PROVE Single(t, S, y)
    <3>1. CASE u \in S
      <4> DEFINE l == Kept(s, S)
      <4>1. Append(l, u) = <<y>> BY <2>3, <2>5, <3>1
      <4>2. l \in Seq(U) BY <2>4
      <4> HIDE DEF l
      <4>3. l = << >> /\ u = y
        <5>1. Len(Append(l, u)) = Len(l) + 1 /\ Append(l, u)[Len(l) + 1] = u /\ Len(l) \in Nat
          BY <4>2
        <5>2. Len(<<y>>) = 1 /\ <<y>>[1] = y OBVIOUS
        <5>3. Len(l) = 0 BY <4>1, <5>1, <5>2
        <5>4. l = << >> BY <4>2, <5>3, EmptySeq
        <5>5. QED BY <4>1, <5>1, <5>2, <5>3, <5>4
      <4>4. ToSet(s) \cap S = {} BY <4>3, KeptNone DEF l
      <4>5. \A i \in 1..n : s[i] \notin S BY <2>1, <4>4 DEF ToSet
      <4>6. QED BY <2>1, <2>2, <3>1, <4>3, <4>5 DEF Single
    <3>2. CASE u \notin S
      <4>1. Single(s, S, y) BY <1>2, <2>3, <2>5, <3>2
      <4>2. QED BY <2>1, <2>2, <3>2, <4>1 DEF Single
    <3>3. QED BY <3>1, <3>2
  <2>6. QED BY <2>1, <2>5 DEF t
<1>3. Kept(bs, S) = <<y>> => Single(bs, S, y)
  <2> HIDE DEF X
  <2>1. Seq(U) \subseteq X BY <1>1, <1>2, SequencesIn
  <2>2. QED BY <2>1 DEF X
<1>4. ASSUME Single(bs, S, y) PROVE Kept(bs, S) = <<y>>
  <2>1. PICK j \in DOMAIN bs : bs[j] = y /\ y \in S /\ \A k \in DOMAIN bs : bs[k] \in S => k = j
    BY <1>4 DEF Single
  <2> DEFINE ss == Alone(bs, S)
  <2>2. ss \in Seq(Seq(U)) BY AloneSeq
  <2>3. DOMAIN ss = DOMAIN bs /\ ss[j] = <<y>> /\ OneAt(ss, j) BY <2>1 DEF Alone, OneAt
  <2>4. Kept(bs, S) = FlattenSeq(ss) BY DEF Kept, Where, Alone
  <2> HIDE DEF ss
  <2>5. FlattenSeq(ss) = ss[j] BY <2>1, <2>2, <2>3, FlattenOne
  <2>6. QED BY <2>3, <2>4, <2>5
<1>5. QED BY <1>3, <1>4

\* The n bodies the override is applied to.
Bodies(bs, n) ==
  /\ n \in Nat \ {0} /\ DOMAIN bs = 1..n
  /\ \A i \in 1..n : IsBlock(bs[i]) /\ Listed(bs[i].nested)

\* One more block in the first, or other blocks of type t at the same places.
Gains(bs, cs, x, n) ==
  /\ Bodies(cs, n)
  /\ cs[1].nested = Append(bs[1].nested, x)
  /\ \A i \in 1..n : i # 1 => cs[i].nested = bs[i].nested
Rewrites(bs, cs, t, n) ==
  /\ Bodies(cs, n)
  /\ \A i \in 1..n : /\ DOMAIN cs[i].nested = DOMAIN bs[i].nested
                     /\ \A j \in DOMAIN bs[i].nested :
                          \/ cs[i].nested[j] = bs[i].nested[j]
                          \/ cs[i].nested[j].type = t /\ bs[i].nested[j].type = t

LEMMA ListedAppend ==
  ASSUME NEW N, Listed(N), NEW x, IsBlock(x)
  PROVE  Listed(Append(N, x)) /\ N \in Seq(ToSet(N) \cup {x})
<1> DEFINE U == ToSet(N) \cup {x}
<1>1. N \in Seq(U) BY SeqMonotonic DEF Listed
<1>2. x \in U /\ \A u \in U : IsBlock(u) BY DEF Listed, IsBlock
<1> HIDE DEF U
<1>3. Append(N, x) \in Seq(U) BY <1>1, <1>2
<1>4. Listed(Append(N, x)) BY <1>2, <1>3, ListedIn
<1>5. QED BY <1>1, <1>4 DEF U

LEMMA ListedMap ==
  ASSUME NEW N, Listed(N), NEW M, M = [j \in DOMAIN N |-> M[j]], \A j \in DOMAIN N : IsBlock(M[j])
  PROVE  Listed(M)
<1> DEFINE U == {M[j] : j \in DOMAIN N}
           n == Len(N)
<1>1. n \in Nat /\ DOMAIN N = 1..n BY DEF Listed
<1>2. (\A u \in U : IsBlock(u)) /\ \A j \in DOMAIN N : M[j] \in U OBVIOUS
<1> HIDE DEF U, n
<1>3. M \in [1..n -> U] BY <1>1, <1>2
<1>4. M \in Seq(U) BY <1>1, <1>3, IsASeq
<1>5. QED BY <1>2, <1>4, ListedIn

LEMMA AddGains ==
  ASSUME NEW n, NEW bs, Bodies(bs, n), NEW x, IsBlock(x)
  PROVE  Gains(bs, AddToFirst(bs, x), x, n)
<1> DEFINE cs == AddToFirst(bs, x)
<1>1. DOMAIN cs = 1..n /\ cs[1] = [bs[1] EXCEPT !.nested = Append(@, x)]
      /\ \A i \in 1..n : i # 1 => cs[i] = bs[i]
  BY DEF AddToFirst, ReplaceAt, Bodies
<1>2. 1 \in 1..n BY DEF Bodies
<1>3. IsBlock(bs[1]) /\ Listed(bs[1].nested) BY <1>2 DEF Bodies
<1> HIDE DEF cs
<1>4. IsBlock(cs[1]) /\ cs[1].nested = Append(bs[1].nested, x) BY <1>1, <1>3 DEF IsBlock
<1>5. Listed(cs[1].nested) BY <1>3, <1>4, ListedAppend
<1>6. Bodies(cs, n) BY <1>1, <1>4, <1>5 DEF Bodies
<1>7. QED BY <1>1, <1>4, <1>6 DEF Gains, cs

\* The places of the blocks of type t.
LEMMA WithinIs ==
  ASSUME NEW n, NEW bs, Bodies(bs, n), NEW t
  PROVE  /\ Within(bs, t) \in SUBSET (Nat \X Nat)
         /\ \A i, j : <<i, j>> \in Within(bs, t) <=>
              i \in 1..n /\ j \in DOMAIN bs[i].nested /\ bs[i].nested[j].type = t
         /\ \A p \in Within(bs, t) : p = <<p[1], p[2]>>
<1>1. \A i \in 1..n : DOMAIN bs[i].nested \subseteq Nat
  <2> TAKE i \in 1..n
  <2>1. bs[i].nested \in Seq(ToSet(bs[i].nested)) BY DEF Bodies, Listed
  <2>2. QED BY <2>1
<1>2. DOMAIN bs = 1..n /\ n \in Nat BY DEF Bodies
<1>3. \A p : p \in Within(bs, t) <=>
        \E i \in 1..n : \E j \in DOMAIN bs[i].nested : bs[i].nested[j].type = t /\ p = <<i, j>>
  BY <1>2 DEF Within
<1>4. \A i, j, k, l : <<i, j>> = <<k, l>> <=> i = k /\ j = l OBVIOUS
<1>5. QED BY <1>1, <1>2, <1>3, <1>4

\* The first block of type t, of all the bodies.
LEMMA EarliestWithin ==
  ASSUME NEW n, NEW bs, Bodies(bs, n), NEW t, Within(bs, t) # {}
  PROVE  LET e == Earliest(Within(bs, t))
         IN /\ e = <<e[1], e[2]>> /\ e[1] \in 1..n /\ e[2] \in DOMAIN bs[e[1]].nested
            /\ bs[e[1]].nested[e[2]].type = t
<1> DEFINE W == Within(bs, t)
           e == Earliest(W)
<1>1. W \in SUBSET (Nat \X Nat) BY WithinIs
<1>2. e \in W
  <2> HIDE DEF W
  <2>1. W # {} BY DEF W
  <2>2. QED BY <1>1, <2>1, EarliestIn
<1> HIDE DEF e
<1>3. e = <<e[1], e[2]>> BY <1>2, WithinIs
<1>4. <<e[1], e[2]>> \in Within(bs, t) BY <1>2, <1>3
<1>5. QED BY <1>3, <1>4, WithinIs DEF e

LEMMA EncryptionRewrites ==
  ASSUME NEW n, NEW bs, Bodies(bs, n), NEW x, Within(bs, "encryption") # {}
  PROVE  Rewrites(bs, MergeEncryptions(bs, x), "encryption", n)
<1> DEFINE t == "encryption"
           e == Earliest(Within(bs, t))
           a == e[1]
           b == e[2]
           N == bs[a].nested
           new == MergeEncryption(N[b], x)
           cs == MergeEncryptions(bs, x)
           M == [N EXCEPT ![b] = new]
<1>1. a \in 1..n /\ b \in DOMAIN N /\ N[b].type = t BY EarliestWithin
<1>2. cs = [bs EXCEPT ![a] = [bs[a] EXCEPT !.nested = M]] BY DEF MergeEncryptions, ReplaceAt
<1>3. IsBlock(bs[a]) /\ Listed(N) /\ DOMAIN bs = 1..n BY <1>1 DEF Bodies
<1>4. IsBlock(N[b])
  <2>1. N[b] \in ToSet(N) BY <1>1 DEF ToSet
  <2>2. QED BY <1>3, <2>1 DEF Listed, IsBlock
<1>5. IsBlock(new) /\ new.type = t
  <2> DEFINE c == N[b]
  <2>1. IsBlock(c) /\ c.type = t BY <1>1, <1>4
  <2> HIDE DEF c
  <2>2. PICK u, v : MergeEncryption(c, x) = [c EXCEPT !.attrs = u, !.nested = v]
    BY DEF MergeEncryption
  <2>3. IsBlock(MergeEncryption(c, x)) /\ MergeEncryption(c, x).type = t BY <2>1, <2>2 DEF IsBlock
  <2>4. QED BY <2>3 DEF c
<1> HIDE DEF new, cs, a, b
<1>6. DOMAIN M = DOMAIN N /\ M[b] = new /\ \A j \in DOMAIN N : j # b => M[j] = N[j] BY <1>1
<1>7. \A j \in DOMAIN N : IsBlock(M[j])
  <2> TAKE j \in DOMAIN N
  <2>1. N[j] \in ToSet(N) BY DEF ToSet
  <2>2. IsBlock(N[j]) BY <1>3, <2>1 DEF Listed, IsBlock
  <2>3. QED BY <1>5, <1>6, <2>2
<1>8. M = [j \in DOMAIN N |-> M[j]] OBVIOUS
<1> HIDE DEF M
<1>9. Listed(M) BY <1>3, <1>7, <1>8, ListedMap DEF N
<1>10. /\ DOMAIN cs = 1..n /\ cs[a] = [bs[a] EXCEPT !.nested = M]
       /\ \A i \in 1..n : i # a => cs[i] = bs[i]
  BY <1>1, <1>2, <1>3
<1>11. IsBlock(cs[a]) /\ cs[a].nested = M BY <1>3, <1>10 DEF IsBlock
<1>12. Bodies(cs, n) BY <1>9, <1>10, <1>11 DEF Bodies
<1>13. \A i \in 1..n : /\ DOMAIN cs[i].nested = DOMAIN bs[i].nested
                       /\ \A j \in DOMAIN bs[i].nested :
                            \/ cs[i].nested[j] = bs[i].nested[j]
                            \/ cs[i].nested[j].type = t /\ bs[i].nested[j].type = t
  <2> TAKE i \in 1..n
  <2>1. CASE i = a BY <1>1, <1>5, <1>6, <1>11, <2>1 DEF N
  <2>2. CASE i # a BY <1>10, <2>2
  <2>3. QED BY <2>1, <2>2
<1>14. QED BY <1>12, <1>13 DEF Rewrites, cs

\* What the holder p of required providers becomes: the first gains those of
\* the override, the others lose them.
Provider(p, first, old, new, x) ==
  /\ new.type = "required_providers" /\ new.nested = old.nested
  /\ new.attrs = IF p = first THEN Updated(old.attrs, x.attrs) ELSE Without(old.attrs, DOMAIN x.attrs)

LEMMA WithinAt ==
  ASSUME NEW n, NEW bs, Bodies(bs, n), NEW t, NEW i, NEW j
  PROVE  <<i, j>> \in Within(bs, t) <=>
           i \in 1..n /\ j \in DOMAIN bs[i].nested /\ bs[i].nested[j].type = t
BY WithinIs

LEMMA ProvidersRewrite ==
  ASSUME NEW n, NEW bs, Bodies(bs, n), NEW x, x.attrs # << >>, Within(bs, "required_providers") # {}
  PROVE  LET W == Within(bs, "required_providers")
             cs == MergeProviders(bs, x)
         IN /\ Rewrites(bs, cs, "required_providers", n)
            /\ \A i, j : <<i, j>> \in W =>
                 Provider(<<i, j>>, Earliest(W), bs[i].nested[j], cs[i].nested[j], x)
<1> DEFINE t == "required_providers"
           W == Within(bs, t)
           first == Earliest(W)
           cs == MergeProviders(bs, x)
           New(p, b) == IF p \notin W THEN b
                        ELSE IF p = first THEN [b EXCEPT !.attrs = Updated(@, x.attrs)]
                        ELSE [b EXCEPT !.attrs = Without(@, DOMAIN x.attrs)]
           M(i) == [j \in DOMAIN bs[i].nested |-> New(<<i, j>>, bs[i].nested[j])]
<1>1. DOMAIN bs = 1..n BY DEF Bodies
<1>2. cs = [i \in 1..n |-> [bs[i] EXCEPT !.nested = M(i)]] BY <1>1 DEF MergeProviders
<1>3. \A i, j : <<i, j>> \in W <=>
        i \in 1..n /\ j \in DOMAIN bs[i].nested /\ bs[i].nested[j].type = t
  <2>1. ASSUME NEW i, NEW j
        PROVE  <<i, j>> \in W <=> i \in 1..n /\ j \in DOMAIN bs[i].nested /\ bs[i].nested[j].type = t
    <3> HIDE DEF first, cs, New, M
    <3>1. QED BY WithinAt
  <2>2. QED BY <2>1, Zenon
<1> HIDE DEF W, first, cs
<1>4. ASSUME NEW i \in 1..n
      PROVE  /\ IsBlock(cs[i]) /\ Listed(cs[i].nested) /\ DOMAIN cs[i].nested = DOMAIN bs[i].nested
             /\ \A j \in DOMAIN bs[i].nested :
                  /\ <<i, j>> \notin W => cs[i].nested[j] = bs[i].nested[j]
                  /\ <<i, j>> \in W =>
                       Provider(<<i, j>>, first, bs[i].nested[j], cs[i].nested[j], x)
  <2> DEFINE N == bs[i].nested
             V == M(i)
  <2>1. IsBlock(bs[i]) /\ Listed(N) BY DEF Bodies
  <2>2. cs[i] = [bs[i] EXCEPT !.nested = V] BY <1>2
  <2>3. ASSUME NEW j \in DOMAIN N
        PROVE  /\ IsBlock(V[j])
               /\ <<i, j>> \notin W => V[j] = N[j]
               /\ <<i, j>> \in W => Provider(<<i, j>>, first, N[j], V[j], x)
    <3>1. N[j] \in ToSet(N) BY DEF ToSet
    <3>2. IsBlock(N[j]) BY <2>1, <3>1 DEF Listed, IsBlock
    <3>3. V[j] = New(<<i, j>>, N[j]) OBVIOUS
    <3> DEFINE b == N[j]
               c == V[j]
               p == <<i, j>>
    <3>4. p \in W => b.type = t BY <1>3
    <3>5. c = New(p, b) /\ IsBlock(b) BY <3>2, <3>3
    <3> HIDE DEF b, c, p
    <3>6. IsBlock(c) /\ (p \notin W => c = b) /\ (p \in W => Provider(p, first, b, c, x))
      <4>1. CASE p \notin W
        <5>1. c = b BY <3>5, <4>1
        <5>2. QED BY <3>5, <4>1, <5>1
      <4>2. CASE p \in W /\ p = first
        <5>1. c = [b EXCEPT !.attrs = Updated(@, x.attrs)] BY <3>5, <4>2
        <5>2. IsBlock(c) /\ c.type = t /\ c.nested = b.nested /\ c.attrs = Updated(b.attrs, x.attrs)
          BY <3>4, <3>5, <4>2, <5>1 DEF IsBlock
        <5>3. QED BY <4>2, <5>2 DEF Provider
      <4>3. CASE p \in W /\ p # first
        <5>1. c = [b EXCEPT !.attrs = Without(@, DOMAIN x.attrs)] BY <3>5, <4>3
        <5>2. /\ IsBlock(c) /\ c.type = t /\ c.nested = b.nested
              /\ c.attrs = Without(b.attrs, DOMAIN x.attrs)
          BY <3>4, <3>5, <4>3, <5>1 DEF IsBlock
        <5>3. QED BY <4>3, <5>2 DEF Provider
      <4>4. QED BY <4>1, <4>2, <4>3
    <3>7. QED BY <3>6 DEF b, c, p
  <2>4. DOMAIN V = DOMAIN N /\ V = [j \in DOMAIN N |-> V[j]] OBVIOUS
  <2> HIDE DEF V
  <2>5. Listed(V) BY <2>1, <2>3, <2>4, ListedMap DEF N
  <2>6. IsBlock(cs[i]) /\ cs[i].nested = V BY <2>1, <2>2 DEF IsBlock
  <2>7. QED BY <2>3, <2>4, <2>5, <2>6
<1>5. DOMAIN cs = 1..n BY <1>2
<1>6. Bodies(cs, n) BY <1>4, <1>5 DEF Bodies
<1>7. \A i \in 1..n : \A j \in DOMAIN bs[i].nested :
        \/ cs[i].nested[j] = bs[i].nested[j]
        \/ cs[i].nested[j].type = t /\ bs[i].nested[j].type = t
  BY <1>3, <1>4 DEF Provider
<1>8. Rewrites(bs, cs, t, n) BY <1>4, <1>6, <1>7 DEF Rewrites
<1>9. \A i, j : <<i, j>> \in W => Provider(<<i, j>>, first, bs[i].nested[j], cs[i].nested[j], x)
  BY <1>3, <1>4
<1>10. QED BY <1>8, <1>9 DEF W, first, cs

Rewritable == {"required_providers", "encryption"}

\* One block of an override is added, or changes others of its type.
LEMMA ApplyDoes ==
  ASSUME NEW n, NEW bs, Bodies(bs, n), NEW x, IsBlock(x)
  PROVE  LET cs == Apply(bs, x)
         IN \/ x.type \notin Storage /\ x.type # "required_providers" /\ cs = bs
            \/ x.type \in Rewritable /\ Rewrites(bs, cs, x.type, n)
            \/ Gains(bs, cs, x, n)
            \/ x.type = "required_providers" /\ x.attrs = << >> /\ cs = bs
<1>1. CASE x.type = "provider_meta" BY <1>1 DEF Apply, Storage
<1>2. CASE x.type = "required_providers"
  <2>1. Apply(bs, x) = MergeProviders(bs, x) BY <1>2 DEF Apply
  <2>2. CASE x.attrs = << >> BY <1>2, <2>1, <2>2 DEF MergeProviders
  <2>3. CASE x.attrs # << >> /\ Within(bs, "required_providers") = {}
    <3>1. MergeProviders(bs, x) = AddToFirst(bs, x) BY <2>3 DEF MergeProviders
    <3>2. Gains(bs, AddToFirst(bs, x), x, n) BY AddGains
    <3>3. QED BY <2>1, <3>1, <3>2
  <2>4. CASE x.attrs # << >> /\ Within(bs, "required_providers") # {}
    <3>1. Rewrites(bs, MergeProviders(bs, x), "required_providers", n) BY <2>4, ProvidersRewrite
    <3>2. QED BY <1>2, <2>1, <3>1 DEF Rewritable
  <2>5. QED BY <2>2, <2>3, <2>4
<1>3. CASE x.type = "encryption"
  <2>1. Apply(bs, x) = MergeEncryptions(bs, x) BY <1>3 DEF Apply
  <2>2. CASE Within(bs, "encryption") = {}
    <3>1. MergeEncryptions(bs, x) = AddToFirst(bs, x) BY <2>2 DEF MergeEncryptions
    <3>2. Gains(bs, AddToFirst(bs, x), x, n) BY AddGains
    <3>3. QED BY <2>1, <3>1, <3>2
  <2>3. CASE Within(bs, "encryption") # {}
    <3>1. Rewrites(bs, MergeEncryptions(bs, x), "encryption", n) BY <2>3, EncryptionRewrites
    <3>2. QED BY <1>3, <2>1, <3>1 DEF Rewritable
  <2>4. QED BY <2>2, <2>3
<1>4. CASE x.type \notin {"provider_meta", "required_providers", "encryption"}
  <2>1. Apply(bs, x) = AddToFirst(bs, x) BY <1>4 DEF Apply
  <2>2. QED BY <2>1, AddGains
<1>5. QED BY <1>1, <1>2, <1>3, <1>4

\* A storage selection of the override joins the first body's.
LEMMA ApplyStorage ==
  ASSUME NEW n, NEW bs, Bodies(bs, n), NEW x, IsBlock(x)
  PROVE  LET cs == Apply(bs, x)
             Of1(ds, i) == OfType(ds[i].nested, Storage)
         IN /\ Bodies(cs, n)
            /\ Of1(cs, 1) = IF x.type \in Storage THEN Append(Of1(bs, 1), x) ELSE Of1(bs, 1)
            /\ \A i \in 1..n : i # 1 => Of1(cs, i) = Of1(bs, i)
<1> DEFINE cs == Apply(bs, x)
           Of1(ds, i) == OfType(ds[i].nested, Storage)
<1>0. 1 \in 1..n /\ \A i \in 1..n : Listed(bs[i].nested) BY DEF Bodies
<1>1. CASE x.type \notin Storage /\ cs = bs BY <1>1
<1>2. CASE x.type \in Rewritable /\ Rewrites(bs, cs, x.type, n)
  <2>1. x.type \notin Storage BY <1>2 DEF Rewritable, Storage
  <2> HIDE DEF cs
  <2>2. ASSUME NEW i \in 1..n PROVE Of1(cs, i) = Of1(bs, i)
    <3> DEFINE N == bs[i].nested
               M == cs[i].nested
    <3>1. DOMAIN M = DOMAIN N /\
            \A j \in DOMAIN N : M[j] = N[j] \/ (M[j].type \notin Storage /\ N[j].type \notin Storage)
      BY <1>2, <2>1 DEF Rewrites
    <3> HIDE DEF M, N
    <3>2. OfType(M, Storage) = OfType(N, Storage) BY <3>1, OthersDiffer
    <3>3. QED BY <3>2 DEF M, N
  <2>3. Bodies(cs, n) BY <1>2 DEF Rewrites
  <2> HIDE DEF Of1
  <2>4. QED BY <1>0, <2>1, <2>2, <2>3 DEF Of1, cs
<1>3. CASE Gains(bs, cs, x, n)
  <2> HIDE DEF cs
  <2> DEFINE N == bs[1].nested
             U == ToSet(N) \cup {x}
             S == Typed(U, Storage)
             M == Append(N, x)
  <2>1. N \in Seq(U) BY <1>0, ListedAppend
  <2>2. x \in U /\ (x \in S <=> x.type \in Storage) BY DEF Typed
  <2> HIDE DEF U, S, N
  <2>3. KeepsNext(N, x, S) BY <2>1, <2>2, KeptAppend
  <2>4. M \in Seq(U) BY <2>1, <2>2
  <2> HIDE DEF M
  <2>5. OfType(N, Storage) = Kept(N, S) /\ OfType(M, Storage) = Kept(M, S)
    BY <2>1, <2>4, SelectionsKeep DEF S
  <2>6. OfType(M, Storage) = IF x.type \in Storage THEN Append(OfType(N, Storage), x) ELSE OfType(N, Storage)
    BY <2>2, <2>3, <2>5 DEF KeepsNext, M
  <2>7. cs[1].nested = M BY <1>3 DEF Gains, M, N
  <2>8. Of1(cs, 1) = IF x.type \in Storage THEN Append(Of1(bs, 1), x) ELSE Of1(bs, 1)
    BY <2>6, <2>7 DEF N
  <2>9. \A i \in 1..n : i # 1 => Of1(cs, i) = Of1(bs, i) BY <1>3 DEF Gains
  <2>10. Bodies(cs, n) BY <1>3 DEF Gains
  <2> HIDE DEF Of1
  <2>11. QED BY <2>8, <2>9, <2>10 DEF cs, Of1
<1>4. CASE x.type = "required_providers" /\ cs = bs
  <2>1. x.type \notin Storage BY <1>4 DEF Storage
  <2>2. QED BY <1>4, <2>1
<1>5. QED BY <1>1, <1>2, <1>3, <1>4, ApplyDoes

-----------------------------------------------------------------------------
\* One block of all the bodies names n, and gives it v.
Once(bs, n, v) ==
  \E i \in DOMAIN bs : \E j \in DOMAIN bs[i].nested :
    /\ Names(bs[i].nested[j], n) /\ bs[i].nested[j].attrs[n] = v
    /\ \A k \in DOMAIN bs : \A l \in DOMAIN bs[k].nested :
         Names(bs[k].nested[l], n) => k = i /\ l = j

LEMMA ApplyNames ==
  ASSUME NEW m, NEW bs, Bodies(bs, m), NEW x, IsBlock(x), NEW n
  PROVE  IF Names(x, n) THEN Once(Apply(bs, x), n, x.attrs[n])
         ELSE \A v : Once(bs, n, v) => Once(Apply(bs, x), n, v)
<1> DEFINE cs == Apply(bs, x)
           t == "required_providers"
           W == Within(bs, t)
           first == Earliest(W)
<1>0. DOMAIN bs = 1..m /\ 1 \in 1..m /\ \A i \in 1..m : Listed(bs[i].nested) BY DEF Bodies
<1>w. ASSUME NEW i, NEW j
      PROVE  <<i, j>> \in W <=> i \in 1..m /\ j \in DOMAIN bs[i].nested /\ bs[i].nested[j].type = t
  BY WithinAt
<1>1. CASE ~Names(x, n) /\ cs = bs BY <1>1
<1>2. CASE x.type = "encryption" /\ Rewrites(bs, cs, x.type, m)
  <2>1. ~Names(x, n) BY <1>2 DEF Names
  <2> HIDE DEF cs
  <2>2. /\ DOMAIN cs = 1..m
        /\ \A i \in 1..m : /\ DOMAIN cs[i].nested = DOMAIN bs[i].nested
                           /\ \A j \in DOMAIN bs[i].nested :
                                \/ cs[i].nested[j] = bs[i].nested[j]
                                \/ ~Names(cs[i].nested[j], n) /\ ~Names(bs[i].nested[j], n)
    BY <1>2 DEF Rewrites, Names, Bodies
  <2>3. ASSUME NEW v, Once(bs, n, v) PROVE Once(cs, n, v)
    <3>1. PICK i \in 1..m : \E j \in DOMAIN bs[i].nested :
            /\ Names(bs[i].nested[j], n) /\ bs[i].nested[j].attrs[n] = v
            /\ \A k \in 1..m : \A l \in DOMAIN bs[k].nested :
                 Names(bs[k].nested[l], n) => k = i /\ l = j
      BY <1>0, <2>3 DEF Once
    <3>2. PICK j \in DOMAIN bs[i].nested :
            /\ Names(bs[i].nested[j], n) /\ bs[i].nested[j].attrs[n] = v
            /\ \A k \in 1..m : \A l \in DOMAIN bs[k].nested :
                 Names(bs[k].nested[l], n) => k = i /\ l = j
      BY <3>1
    <3>3. cs[i].nested[j] = bs[i].nested[j] BY <2>2, <3>2
    <3>4. \A k \in 1..m : \A l \in DOMAIN cs[k].nested : Names(cs[k].nested[l], n) => k = i /\ l = j
      BY <2>2, <3>2
    <3>5. QED BY <2>2, <3>2, <3>3, <3>4 DEF Once
  <2>4. QED BY <2>1, <2>3 DEF cs
<1>3. CASE Gains(bs, cs, x, m) /\ ~Names(x, n)
  <2> HIDE DEF cs
  <2> DEFINE N == bs[1].nested
             M == cs[1].nested
  <2>1. /\ DOMAIN cs = 1..m /\ M = Append(N, x)
        /\ \A i \in 1..m : i # 1 => cs[i].nested = bs[i].nested
    BY <1>3 DEF Gains, Bodies
  <2>2. N \in Seq(ToSet(N) \cup {x}) BY <1>0, ListedAppend
  <2>3. /\ DOMAIN N \subseteq DOMAIN M /\ \A j \in DOMAIN N : M[j] = N[j]
        /\ \A j \in DOMAIN M : j \notin DOMAIN N => M[j] = x
    <3> DEFINE U == ToSet(N) \cup {x}
    <3>1. x \in U OBVIOUS
    <3> HIDE DEF U, N, M
    <3>2. N \in Seq(U) BY <2>2 DEF U
    <3>3. QED BY <2>1, <3>1, <3>2
  <2> HIDE DEF N, M
  <2>4. \A i \in 1..m : /\ \A j \in DOMAIN bs[i].nested : /\ j \in DOMAIN cs[i].nested
                                                          /\ cs[i].nested[j] = bs[i].nested[j]
                        /\ \A j \in DOMAIN cs[i].nested : j \in DOMAIN bs[i].nested \/ cs[i].nested[j] = x
    BY <2>1, <2>3 DEF N, M
  <2>5. ASSUME NEW v, Once(bs, n, v) PROVE Once(cs, n, v)
    <3>1. PICK i \in 1..m : \E j \in DOMAIN bs[i].nested :
            /\ Names(bs[i].nested[j], n) /\ bs[i].nested[j].attrs[n] = v
            /\ \A k \in 1..m : \A l \in DOMAIN bs[k].nested :
                 Names(bs[k].nested[l], n) => k = i /\ l = j
      BY <1>0, <2>5 DEF Once
    <3>2. PICK j \in DOMAIN bs[i].nested :
            /\ Names(bs[i].nested[j], n) /\ bs[i].nested[j].attrs[n] = v
            /\ \A k \in 1..m : \A l \in DOMAIN bs[k].nested :
                 Names(bs[k].nested[l], n) => k = i /\ l = j
      BY <3>1
    <3>3. j \in DOMAIN cs[i].nested /\ cs[i].nested[j] = bs[i].nested[j] BY <2>4, <3>2
    <3>4. \A k \in 1..m : \A l \in DOMAIN cs[k].nested : Names(cs[k].nested[l], n) => k = i /\ l = j
      BY <1>3, <2>4, <3>2
    <3>5. QED BY <2>1, <3>2, <3>3, <3>4 DEF Once
  <2>6. QED BY <1>3, <2>5 DEF cs
<1>4. CASE x.type = t /\ x.attrs = << >>
  <2>1. cs = bs BY <1>4 DEF Apply, MergeProviders
  <2>2. DOMAIN << >> = {} OBVIOUS
  <2>3. ~Names(x, n) BY <1>4, <2>2 DEF Names, Has
  <2>4. QED BY <2>1, <2>3
<1>5. CASE x.type = t /\ x.attrs # << >> /\ W = {} /\ Names(x, n)
  <2>1. cs = AddToFirst(bs, x) BY <1>5 DEF Apply, MergeProviders
  <2>2. Gains(bs, cs, x, m) BY <2>1, AddGains
  <2>3. \A i \in 1..m : \A j \in DOMAIN bs[i].nested : ~Names(bs[i].nested[j], n)
    BY <1>5, <1>w DEF Names
  <2> HIDE DEF cs
  <2> DEFINE N == bs[1].nested
             M == cs[1].nested
             k == Len(N) + 1
  <2>4. /\ DOMAIN cs = 1..m /\ M = Append(N, x)
        /\ \A i \in 1..m : i # 1 => cs[i].nested = bs[i].nested
    BY <2>2 DEF Gains, Bodies
  <2>5. N \in Seq(ToSet(N) \cup {x}) BY <1>0, ListedAppend
  <2>6. /\ k \in DOMAIN M /\ M[k] = x
        /\ \A j \in DOMAIN M : j # k => j \in DOMAIN N /\ M[j] = N[j]
    <3> DEFINE U == ToSet(N) \cup {x}
    <3>1. x \in U OBVIOUS
    <3> HIDE DEF U, N, M
    <3>2. N \in Seq(U) BY <2>5 DEF U
    <3>3. QED BY <2>4, <3>1, <3>2
  <2> HIDE DEF N, M, k
  <2>7. \A i \in 1..m : \A j \in DOMAIN cs[i].nested : Names(cs[i].nested[j], n) => i = 1 /\ j = k
    BY <2>3, <2>4, <2>6 DEF N, M
  <2>8. k \in DOMAIN cs[1].nested /\ cs[1].nested[k] = x BY <2>6 DEF M
  <2>9. Once(cs, n, x.attrs[n]) BY <1>0, <1>5, <2>4, <2>7, <2>8 DEF Once
  <2>10. QED BY <1>5, <2>9 DEF cs
<1>6. CASE x.type = t /\ x.attrs # << >> /\ W # {}
  <2>1. cs = MergeProviders(bs, x) BY <1>6 DEF Apply
  <2>2. /\ Rewrites(bs, cs, t, m)
        /\ \A i, j : <<i, j>> \in W => Provider(<<i, j>>, first, bs[i].nested[j], cs[i].nested[j], x)
    BY <1>6, <2>1, ProvidersRewrite
  <2>3. first = <<first[1], first[2]>> /\ first[1] \in 1..m /\ first[2] \in DOMAIN bs[first[1]].nested
        /\ bs[first[1]].nested[first[2]].type = t
    BY <1>6, EarliestWithin
  <2> HIDE DEF cs, W, first
  <2> DEFINE a == first[1]
             b == first[2]
  <2>4. DOMAIN cs = 1..m /\ \A i \in 1..m : DOMAIN cs[i].nested = DOMAIN bs[i].nested
    BY <2>2 DEF Rewrites, Bodies
  <2>5. ASSUME NEW i \in 1..m, NEW j \in DOMAIN bs[i].nested, <<i, j>> \notin W
        PROVE  ~Names(cs[i].nested[j], n) /\ ~Names(bs[i].nested[j], n)
    <3>1. bs[i].nested[j].type # t BY <1>w, <2>5
    <3>2. cs[i].nested[j].type # t BY <2>2, <3>1 DEF Rewrites
    <3>3. QED BY <3>1, <3>2 DEF Names
  <2>6. ASSUME NEW i \in 1..m, NEW j \in DOMAIN bs[i].nested, <<i, j>> \in W
        PROVE  LET old == bs[i].nested[j]
                   new == cs[i].nested[j]
               IN /\ old.type = t /\ new.type = t
                  /\ Names(x, n) => /\ Names(new, n) <=> i = a /\ j = b
                                    /\ Names(new, n) => new.attrs[n] = x.attrs[n]
                  /\ ~Names(x, n) => /\ Names(new, n) <=> Names(old, n)
                                     /\ Names(new, n) => new.attrs[n] = old.attrs[n]
    <3> DEFINE old == bs[i].nested[j]
               new == cs[i].nested[j]
    <3>1. Provider(<<i, j>>, first, old, new, x) BY <2>2, <2>6
    <3>2. old.type = t /\ new.type = t BY <1>w, <2>6, <3>1 DEF Provider
    <3>3. <<i, j>> = first <=> i = a /\ j = b BY <2>3
    <3>4. Names(x, n) <=> n \in DOMAIN x.attrs BY <1>6 DEF Names, Has
    <3>5. Names(new, n) <=> n \in DOMAIN new.attrs BY <3>2 DEF Names, Has
    <3>6. Names(old, n) <=> n \in DOMAIN old.attrs BY <3>2 DEF Names, Has
    <3> HIDE DEF old, new, a, b
    <3>7. CASE <<i, j>> = first
      <4>1. new.attrs = Updated(old.attrs, x.attrs) BY <3>1, <3>7 DEF Provider
      <4>2. /\ DOMAIN new.attrs = DOMAIN old.attrs \cup DOMAIN x.attrs
            /\ \A l \in DOMAIN new.attrs :
                 new.attrs[l] = IF l \in DOMAIN x.attrs THEN x.attrs[l] ELSE old.attrs[l]
        BY <4>1 DEF Updated
      <4>3. QED BY <3>2, <3>3, <3>4, <3>5, <3>6, <3>7, <4>2 DEF old, new
    <3>8. CASE <<i, j>> # first
      <4>1. new.attrs = Without(old.attrs, DOMAIN x.attrs) BY <3>1, <3>8 DEF Provider
      <4>2. /\ DOMAIN new.attrs = DOMAIN old.attrs \ DOMAIN x.attrs
            /\ \A l \in DOMAIN new.attrs : new.attrs[l] = old.attrs[l]
        BY <4>1 DEF Without
      <4>3. QED BY <3>2, <3>3, <3>4, <3>5, <3>6, <3>8, <4>2 DEF old, new
    <3>9. QED BY <3>7, <3>8
  <2>7. CASE Names(x, n)
    <3>1. <<a, b>> \in W BY <1>w, <2>3
    <3>2. Names(cs[a].nested[b], n) /\ cs[a].nested[b].attrs[n] = x.attrs[n]
      BY <2>3, <2>6, <2>7, <3>1
    <3>3. \A i \in 1..m : \A j \in DOMAIN cs[i].nested : Names(cs[i].nested[j], n) => i = a /\ j = b
      BY <2>4, <2>5, <2>6, <2>7
    <3>4. b \in DOMAIN cs[a].nested BY <2>3, <2>4
    <3> HIDE DEF a, b
    <3>5. Once(cs, n, x.attrs[n]) BY <2>3, <2>4, <3>2, <3>3, <3>4 DEF Once, a
    <3>6. QED BY <2>7, <3>5 DEF cs
  <2>8. CASE ~Names(x, n)
    <3>1. ASSUME NEW i \in 1..m, NEW j \in DOMAIN bs[i].nested
          PROVE  /\ Names(cs[i].nested[j], n) <=> Names(bs[i].nested[j], n)
                 /\ Names(cs[i].nested[j], n) => cs[i].nested[j].attrs[n] = bs[i].nested[j].attrs[n]
      BY <2>5, <2>6, <2>8
    <3>2. ASSUME NEW v, Once(bs, n, v) PROVE Once(cs, n, v)
      BY <1>0, <2>4, <3>1, <3>2 DEF Once
    <3>3. QED BY <2>8, <3>2 DEF cs
  <2>9. QED BY <2>7, <2>8
<1>7. CASE x.type = t
  <2>1. CASE x.attrs = << >> BY <1>4, <1>7, <2>1
  <2>2. CASE x.attrs # << >> /\ W # {} BY <1>6, <1>7, <2>2
  <2>3. CASE x.attrs # << >> /\ W = {}
    <3>1. Gains(bs, cs, x, m)
      <4>1. cs = AddToFirst(bs, x) BY <1>7, <2>3 DEF Apply, MergeProviders
      <4>2. QED BY <4>1, AddGains
    <3>2. QED BY <1>3, <1>5, <1>7, <2>3, <3>1
  <2>4. QED BY <2>1, <2>2, <2>3
<1>8. CASE x.type # t
  <2>1. ~Names(x, n) BY <1>8 DEF Names
  <2>2. cs = bs \/ (x.type = "encryption" /\ Rewrites(bs, cs, x.type, m)) \/ Gains(bs, cs, x, m)
    BY <1>8, ApplyDoes DEF Rewritable
  <2>3. QED BY <1>1, <1>2, <1>3, <2>1, <2>2
<1>9. QED BY <1>7, <1>8

\* What the blocks ns of an override make cs of the bodies bs.
StorageAfter(bs, cs, ns, n) ==
  \A i \in 1..n : OfType(cs[i].nested, Storage) =
                    IF i = 1 THEN OfType(bs[i].nested, Storage) \o OfType(ns, Storage)
                    ELSE OfType(bs[i].nested, Storage)
NamesAfter(bs, cs, ns) ==
  \A n : IF Requiring(ns, n) # << >> THEN Once(cs, n, Last(Requiring(ns, n)).attrs[n])
         ELSE \A v : Once(bs, n, v) => Once(cs, n, v)

LEMMA AppliedDoes ==
  ASSUME NEW n, NEW bs, Bodies(bs, n), NEW U, \A u \in U : IsBlock(u), NEW ns \in Seq(U)
  PROVE  LET cs == Applied(bs, ns)
         IN Bodies(cs, n) /\ StorageAfter(bs, cs, ns, n) /\ NamesAfter(bs, cs, ns)
<1> DEFINE Done(s) == /\ Bodies(Applied(bs, s), n) /\ StorageAfter(bs, Applied(bs, s), s, n)
                      /\ NamesAfter(bs, Applied(bs, s), s)
           X == {s \in Seq(U) : Done(s)}
           V == U \cup ToSet(bs[1].nested)
           first == OfType(bs[1].nested, Storage)
<1>0. 1 \in 1..n /\ Listed(bs[1].nested) BY DEF Bodies
<1>a. first \in Seq(V) /\ \A s \in Seq(U) : OfType(s, Storage) \in Seq(U) /\ OfType(s, Storage) \in Seq(V)
  <2> DEFINE N == bs[1].nested
             W == ToSet(N)
  <2>1. N \in Seq(W) BY <1>0 DEF Listed
  <2> HIDE DEF N, W
  <2>2. OfType(N, Storage) \in Seq(W) BY <2>1, SelectionsKeep, KeptRange
  <2>3. Seq(W) \subseteq Seq(V) BY SeqMonotonic DEF W, N
  <2>4. Seq(U) \subseteq Seq(V) BY SeqMonotonic
  <2>5. ASSUME NEW s \in Seq(U) PROVE OfType(s, Storage) \in Seq(U) BY SelectionsKeep, KeptRange
  <2>6. QED BY <2>2, <2>3, <2>4, <2>5 DEF N
<1>1. << >> \in X
  <2>1. << >> \in Seq(U) BY EmptySeq
  <2>2. Applied(bs, << >>) = bs
    <3>1. << >> \in Seq({0}) BY EmptySeq
    <3>2. QED BY <3>1, AppliedNext
  <2>3. OfType(<< >>, Storage) = << >>
    <3>1. << >> \in Seq({}) BY EmptySeq
    <3>2. OfType(<< >>, Storage) = Kept(<< >>, Typed({}, Storage)) BY <3>1, SelectionsKeep
    <3>3. QED BY <3>2, KeptEmpty
  <2>4. \A m : Requiring(<< >>, m) = << >>
    <3>1. << >> \in Seq({}) BY EmptySeq
    <3>2. QED BY <3>1, RequiringKept, KeptEmpty
  <2>5. first \o << >> = first BY <1>a, ConcatEmptySeq
  <2>6. StorageAfter(bs, bs, << >>, n) BY <2>3, <2>5 DEF StorageAfter
  <2>7. NamesAfter(bs, bs, << >>) BY <2>4 DEF NamesAfter
  <2>8. QED BY <2>1, <2>2, <2>6, <2>7
<1>2. ASSUME NEW s \in Seq(U), NEW x \in U, s \in X PROVE Append(s, x) \in X
  <2> DEFINE t == Append(s, x)
             cs == Applied(bs, s)
             ds == Applied(bs, t)
             OfS(l) == OfType(l, Storage)
  <2>1. t \in Seq(U) OBVIOUS
  <2>2. ds = Apply(cs, x) BY AppliedNext
  <2>3. IsBlock(x) /\ Bodies(cs, n) /\ StorageAfter(bs, cs, s, n) /\ NamesAfter(bs, cs, s) BY <1>2
  <2> HIDE DEF t, cs, ds
  <2>4. /\ Bodies(ds, n)
        /\ OfS(ds[1].nested) = IF x.type \in Storage THEN Append(OfS(cs[1].nested), x) ELSE OfS(cs[1].nested)
        /\ \A i \in 1..n : i # 1 => OfS(ds[i].nested) = OfS(cs[i].nested)
    BY <2>2, <2>3, ApplyStorage
  <2>5. OfS(t) = IF x.type \in Storage THEN Append(OfS(s), x) ELSE OfS(s)
    <3> DEFINE S == Typed(U, Storage)
    <3>1. OfS(t) = Kept(t, S) /\ OfS(s) = Kept(s, S) BY <2>1, SelectionsKeep
    <3>2. x \in S <=> x.type \in Storage BY DEF Typed
    <3> HIDE DEF S
    <3>3. KeepsNext(s, x, S) BY KeptAppend
    <3>4. QED BY <3>1, <3>2, <3>3 DEF KeepsNext, t
  <2>6. OfS(cs[1].nested) = first \o OfS(s) BY <1>0, <2>3 DEF StorageAfter
  <2>7. OfS(ds[1].nested) = first \o OfS(t)
    <3> DEFINE l == OfS(s)
    <3>1. l \in Seq(V) /\ x \in V BY <1>a
    <3> HIDE DEF l, first, V
    <3>2. first \o Append(l, x) = Append(first \o l, x) BY <1>a, <3>1, JoinAppend
    <3> HIDE DEF OfS
    <3>3. QED BY <2>4, <2>5, <2>6, <3>2 DEF l
  <2>8. StorageAfter(bs, ds, t, n) BY <2>3, <2>4, <2>7 DEF StorageAfter
  <2>9. ASSUME NEW m
        PROVE  IF Requiring(t, m) # << >> THEN Once(ds, m, Last(Requiring(t, m)).attrs[m])
               ELSE \A v : Once(bs, m, v) => Once(ds, m, v)
    <3>1. /\ Requiring(s, m) \in Seq(U)
          /\ Requiring(t, m) = IF Names(x, m) THEN Append(Requiring(s, m), x) ELSE Requiring(s, m)
      BY RequiringNext, SMTT(20) DEF t
    <3>2. IF Names(x, m) THEN Once(ds, m, x.attrs[m]) ELSE \A v : Once(cs, m, v) => Once(ds, m, v)
      BY <2>2, <2>3, ApplyNames
    <3>3. CASE Names(x, m)
      <4> DEFINE l == Requiring(s, m)
      <4>1. l \in Seq(U) /\ Requiring(t, m) = Append(l, x) BY <3>1, <3>3
      <4> HIDE DEF l
      <4>2. Append(l, x) # << >> /\ Last(Append(l, x)) = x BY <4>1 DEF Last
      <4>3. QED BY <3>2, <3>3, <4>1, <4>2
    <3>4. CASE ~Names(x, m)
      <4>1. Requiring(t, m) = Requiring(s, m) BY <3>1, <3>4
      <4>2. QED BY <2>3, <3>2, <3>4, <4>1 DEF NamesAfter
    <3>5. QED BY <3>3, <3>4
  <2>10. NamesAfter(bs, ds, t) BY <2>9 DEF NamesAfter
  <2>11. QED BY <2>1, <2>4, <2>8, <2>10 DEF t, ds
<1> HIDE DEF X
<1>3. Seq(U) \subseteq X BY <1>1, <1>2, SequencesIn
<1>4. ns \in X BY <1>3
<1>5. QED BY <1>4 DEF X

\* No dynamic block of over stands for what is replaced or merged one by one.
StaticBody(bs) ==
  TypesIn(OfType(bs, {"dynamic"})) \cap (Storage \cup {"required_providers"}) = {}

RequiringStays(bs, cs, n) ==
  \A m : \A i \in 1..n : Requiring(cs[i].nested, m) = Requiring(bs[i].nested, m)

\* What the replaced types leave: storage selections if the override makes none,
\* and the required providers.
LEMMA ClearedKeeps ==
  ASSUME NEW n, NEW bs, Bodies(bs, n), NEW over, Listed(over.nested), StaticBody(over.nested)
  PROVE  LET cs == Cleared(bs, over)
         IN /\ Bodies(cs, n)
            /\ \A i \in 1..n : OfType(cs[i].nested, Storage) =
                                 IF OfType(over.nested, Storage) # << >> THEN << >>
                                 ELSE OfType(bs[i].nested, Storage)
            /\ RequiringStays(bs, cs, n)
<1> DEFINE cs == Cleared(bs, over)
           fieldwise == {"provider_meta", "required_providers", "encryption"}
           storage == OfType(over.nested, Storage) # << >>
           O == over.nested
           replaced == TypesIn(NotOfType(O, fieldwise \cup Storage))
           Stays(b) == ~(storage /\ b.type \in Storage) /\ NestedType(b) \notin replaced
<1>1. \A t \in Storage \cup {"required_providers"} : t \notin replaced
  <2> DEFINE A == NotOfType(O, fieldwise \cup Storage)
             D == OfType(O, {"dynamic"})
             W == ToSet(O)
  <2>1. O \in Seq(W) BY DEF Listed
  <2>2. A = Kept(O, NotTyped(W, fieldwise \cup Storage)) /\ D = Kept(O, Typed(W, {"dynamic"}))
    BY <2>1, SelectionsKeep
  <2> HIDE DEF A, D, O, W, fieldwise
  <2>3. ToSet(A) = W \cap NotTyped(W, fieldwise \cup Storage) /\ ToSet(D) = W \cap Typed(W, {"dynamic"})
    BY <2>1, <2>2, KeptRange DEF W
  <2>4. TypesIn(A) = {NestedType(b) : b \in ToSet(A)} /\ TypesIn(D) = {NestedType(b) : b \in ToSet(D)}
    BY DEF TypesIn, ToSet
  <2>5. \A t \in Storage \cup {"required_providers"} : t \notin TypesIn(D)
    BY DEF StaticBody, D, O
  <2>6. \A b \in ToSet(A) : b.type \notin fieldwise \cup Storage /\ b \in W BY <2>3 DEF NotTyped
  <2>7. \A b \in ToSet(A) : b.type = "dynamic" => b \in ToSet(D) BY <2>3, <2>6 DEF Typed
  <2>8. ASSUME NEW b \in ToSet(A), NestedType(b) \in Storage \cup {"required_providers"} PROVE FALSE
    <3>1. CASE b.type = "dynamic" BY <2>4, <2>5, <2>7, <2>8, <3>1
    <3>2. CASE b.type # "dynamic"
      <4>1. NestedType(b) = b.type BY <3>2 DEF NestedType
      <4>2. QED BY <2>6, <2>8, <4>1 DEF fieldwise
    <3>3. QED BY <3>1, <3>2
  <2>9. replaced = TypesIn(A) BY DEF A, O, fieldwise
  <2> HIDE DEF replaced
  <2>10. ASSUME NEW t \in Storage \cup {"required_providers"}, t \in TypesIn(A) PROVE FALSE
    <3>1. PICK b \in ToSet(A) : t = NestedType(b) BY <2>4, <2>10
    <3>2. QED BY <2>8, <2>10, <3>1
  <2>11. QED BY <2>9, <2>10
<1>2. /\ DOMAIN bs = 1..n /\ DOMAIN cs = 1..n
      /\ \A i \in 1..n : \E a : cs[i] = [bs[i] EXCEPT !.attrs = a, !.nested = Where(@, Stays)]
  <2>1. DOMAIN bs = 1..n BY DEF Bodies
  <2>2. DOMAIN cs = 1..n BY <2>1, ZenonT(30) DEF Cleared
  <2>3. \A i \in 1..n : \E a : cs[i] = [bs[i] EXCEPT !.attrs = a, !.nested = Where(@, Stays)]
    BY <2>1 DEF Cleared
  <2>4. QED BY <2>1, <2>2, <2>3
<1> HIDE DEF cs
<1>3. ASSUME NEW i \in 1..n
      PROVE  /\ IsBlock(cs[i]) /\ Listed(cs[i].nested)
             /\ OfType(cs[i].nested, Storage) = IF storage THEN << >> ELSE OfType(bs[i].nested, Storage)
             /\ \A m : Requiring(cs[i].nested, m) = Requiring(bs[i].nested, m)
  <2> DEFINE N == bs[i].nested
             U == ToSet(N)
             Q == {b \in U : Stays(b)}
             M == Where(N, Stays)
             S == Typed(U, Storage)
  <2>1. IsBlock(bs[i]) /\ N \in Seq(U) /\ \A u \in U : IsBlock(u) BY DEF Bodies, Listed, IsBlock
  <2>2. \E a : cs[i] = [bs[i] EXCEPT !.attrs = a, !.nested = M] BY <1>2
  <2>3. M = Kept(N, Q)
    <3>1. \A j \in DOMAIN N : Stays(N[j]) <=> N[j] \in Q BY DEF ToSet
    <3>2. [j \in DOMAIN N |-> IF Stays(N[j]) THEN <<N[j]>> ELSE << >>]
            = [j \in DOMAIN N |-> IF N[j] \in Q THEN <<N[j]>> ELSE << >>]
      BY <3>1
    <3>3. QED BY <3>2 DEF Kept, Where
  <2> HIDE DEF M
  <2>4. IsBlock(cs[i]) /\ cs[i].nested = M BY <2>1, <2>2 DEF IsBlock
  <2>5. \A u \in U : u \in Q <=> Stays(u) OBVIOUS
  <2> HIDE DEF Q, U, N
  <2>6. M \in Seq(U) BY <2>1, <2>3, KeptRange
  <2>7. Listed(M) BY <2>1, <2>6, ListedIn
  <2>8. /\ OfType(N, Storage) = Kept(N, S) /\ OfType(M, Storage) = Kept(M, S)
        /\ \A m : Requiring(N, m) = Kept(N, NamesIn(U, m)) /\ Requiring(M, m) = Kept(M, NamesIn(U, m))
    BY <2>1, <2>6, SelectionsKeep, RequiringKept
  <2>9. \A T : Kept(M, T) = Kept(N, Q \cap T) BY <2>1, <2>3, KeptTwice
  <2>10. "dynamic" \notin Storage /\ \A u : u.type \in Storage => NestedType(u) = u.type
    BY DEF Storage, NestedType
  <2>11. ASSUME storage PROVE OfType(M, Storage) = << >>
    <3>1. Q \cap S = {} BY <2>5, <2>11 DEF Typed
    <3> DEFINE T == Q \cap S
    <3>2. ToSet(N) \cap T = {} BY <3>1
    <3> HIDE DEF T
    <3>3. Kept(N, T) = << >> BY <2>1, <3>2, KeptNone
    <3>4. QED BY <2>8, <2>9, <2>11, <3>3 DEF T
  <2>12. ASSUME ~storage PROVE OfType(M, Storage) = OfType(N, Storage)
    <3> HIDE DEF replaced
    <3>1. Q \cap S = S BY <1>1, <2>5, <2>10, <2>12 DEF Typed
    <3>2. QED BY <2>8, <2>9, <2>12, <3>1
  <2>13. ASSUME NEW m PROVE Requiring(M, m) = Requiring(N, m)
    <3> DEFINE T == NamesIn(U, m)
    <3> HIDE DEF replaced
    <3>1. \A u \in T : u \in U /\ u.type = "required_providers" BY DEF NamesIn, Names
    <3>2. \A u \in T : u.type \notin Storage /\ NestedType(u) = "required_providers"
      BY <3>1 DEF NestedType, Storage
    <3>3. Q \cap T = T BY <1>1, <2>5, <3>1, <3>2
    <3>4. QED BY <2>8, <2>9, <3>3
  <2>14. OfType(M, Storage) = IF storage THEN << >> ELSE OfType(N, Storage) BY <2>11, <2>12
  <2> HIDE DEF storage
  <2>15. QED BY <2>4, <2>7, <2>13, <2>14 DEF N
<1>4. Bodies(cs, n) BY <1>2, <1>3 DEF Bodies
<1>5. RequiringStays(bs, cs, n) BY <1>3 DEF RequiringStays
<1>6. QED BY <1>3, <1>4, <1>5 DEF cs

\* Once, in terms of what each body requires.
OnceIn(bs, n, v) ==
  \E i \in DOMAIN bs : \E y : /\ Requiring(bs[i].nested, n) = <<y>> /\ y.attrs[n] = v
                              /\ \A k \in DOMAIN bs : k # i => Requiring(bs[k].nested, n) = << >>

LEMMA OnceIs ==
  ASSUME NEW m, NEW bs, Bodies(bs, m), NEW n, NEW v
  PROVE  Once(bs, n, v) <=> OnceIn(bs, n, v)
<1>1. DOMAIN bs = 1..m BY DEF Bodies
<1>2. ASSUME NEW i \in 1..m
      PROVE  LET N == bs[i].nested
             IN /\ Requiring(N, n) = << >> <=> \A j \in DOMAIN N : ~Names(N[j], n)
                /\ \A y : Requiring(N, n) = <<y>> <=>
                     \E j \in DOMAIN N : /\ N[j] = y /\ Names(y, n)
                                         /\ \A k \in DOMAIN N : Names(N[k], n) => k = j
  <2> DEFINE N == bs[i].nested
             U == ToSet(N)
             S == NamesIn(U, n)
  <2>1. N \in Seq(U) BY DEF Bodies, Listed
  <2>2. \A j \in DOMAIN N : N[j] \in U /\ (N[j] \in S <=> Names(N[j], n)) BY DEF ToSet, NamesIn
  <2>3. ToSet(N) \cap S = {} <=> \A j \in DOMAIN N : ~Names(N[j], n) BY <2>2 DEF ToSet
  <2>4. \A y \in S : Names(y, n) BY DEF NamesIn
  <2> HIDE DEF N, U, S
  <2>5. Requiring(N, n) = Kept(N, S) BY <2>1, RequiringKept DEF S
  <2>6. Requiring(N, n) = << >> <=> \A j \in DOMAIN N : ~Names(N[j], n)
    BY <2>1, <2>3, <2>5, KeptNone
  <2>7. ASSUME NEW y
        PROVE  Requiring(N, n) = <<y>> <=>
                 \E j \in DOMAIN N : /\ N[j] = y /\ Names(y, n)
                                     /\ \A k \in DOMAIN N : Names(N[k], n) => k = j
    <3>1. Requiring(N, n) = <<y>> <=> Single(N, S, y) BY <2>1, <2>5, KeptOne
    <3>2. Single(N, S, y) <=>
            \E j \in DOMAIN N : /\ N[j] = y /\ Names(y, n)
                                /\ \A k \in DOMAIN N : Names(N[k], n) => k = j
      BY <2>2, <2>4 DEF Single
    <3>3. QED BY <3>1, <3>2
  <2>8. QED BY <2>6, <2>7 DEF N
<1>3. ASSUME Once(bs, n, v) PROVE OnceIn(bs, n, v)
  <2>1. PICK i \in 1..m : \E j \in DOMAIN bs[i].nested :
          /\ Names(bs[i].nested[j], n) /\ bs[i].nested[j].attrs[n] = v
          /\ \A k \in 1..m : \A l \in DOMAIN bs[k].nested : Names(bs[k].nested[l], n) => k = i /\ l = j
    BY <1>1, <1>3 DEF Once
  <2>2. PICK j \in DOMAIN bs[i].nested :
          /\ Names(bs[i].nested[j], n) /\ bs[i].nested[j].attrs[n] = v
          /\ \A k \in 1..m : \A l \in DOMAIN bs[k].nested : Names(bs[k].nested[l], n) => k = i /\ l = j
    BY <2>1
  <2> DEFINE y == bs[i].nested[j]
  <2>3. Requiring(bs[i].nested, n) = <<y>> BY <1>2, <2>2
  <2>4. \A k \in 1..m : k # i => Requiring(bs[k].nested, n) = << >> BY <1>2, <2>2
  <2>5. y.attrs[n] = v BY <2>2
  <2> HIDE DEF y
  <2>6. QED BY <1>1, <2>3, <2>4, <2>5 DEF OnceIn
<1>4. ASSUME OnceIn(bs, n, v) PROVE Once(bs, n, v)
  <2>1. PICK i, y : /\ i \in 1..m /\ Requiring(bs[i].nested, n) = <<y>> /\ y.attrs[n] = v
                  /\ \A k \in 1..m : k # i => Requiring(bs[k].nested, n) = << >>
    BY <1>1, <1>4 DEF OnceIn
  <2>2. PICK j \in DOMAIN bs[i].nested :
          /\ bs[i].nested[j] = y /\ Names(y, n)
          /\ \A k \in DOMAIN bs[i].nested : Names(bs[i].nested[k], n) => k = j
    BY <1>2, <2>1
  <2>3. \A k \in 1..m : k # i => \A l \in DOMAIN bs[k].nested : ~Names(bs[k].nested[l], n)
    BY <1>2, <2>1
  <2>4. \A k \in 1..m : \A l \in DOMAIN bs[k].nested : Names(bs[k].nested[l], n) => k = i /\ l = j
    BY <2>2, <2>3
  <2>5. QED BY <1>1, <2>1, <2>2, <2>4 DEF Once
<1>5. QED BY <1>3, <1>4

\* What an override over of the bodies bs makes of them.
StorageOver(bs, cs, over, n) ==
  \A i \in 1..n : OfType(cs[i].nested, Storage) =
                    IF OfType(over.nested, Storage) = << >> THEN OfType(bs[i].nested, Storage)
                    ELSE IF i = 1 THEN OfType(over.nested, Storage) ELSE << >>
NamesOver(bs, cs, over) ==
  \A n : IF Requiring(over.nested, n) # << >>
         THEN OnceIn(cs, n, Last(Requiring(over.nested, n)).attrs[n])
         ELSE \A v : OnceIn(bs, n, v) => OnceIn(cs, n, v)

LEMMA OverrideDoes ==
  ASSUME NEW n, NEW bs, Bodies(bs, n), NEW over, Listed(over.nested), StaticBody(over.nested)
  PROVE  LET cs == TerraformOverride(bs, over)
         IN Bodies(cs, n) /\ StorageOver(bs, cs, over, n) /\ NamesOver(bs, cs, over)
<1> DEFINE cl == Cleared(bs, over)
           cs == TerraformOverride(bs, over)
           O == over.nested
           U == ToSet(O)
<1>1. /\ Bodies(cl, n)
      /\ \A i \in 1..n : /\ OfType(cl[i].nested, Storage) =
                              IF OfType(O, Storage) # << >> THEN << >> ELSE OfType(bs[i].nested, Storage)
                         /\ \A m : Requiring(cl[i].nested, m) = Requiring(bs[i].nested, m)
  <2> HIDE DEF cs, U
  <2>1. Bodies(cl, n) BY ClearedKeeps
  <2>2. \A i \in 1..n : OfType(cl[i].nested, Storage) =
                        IF OfType(over.nested, Storage) # << >> THEN << >> ELSE OfType(bs[i].nested, Storage)
    BY ClearedKeeps
  <2>3. ASSUME NEW i \in 1..n, NEW m PROVE Requiring(cl[i].nested, m) = Requiring(bs[i].nested, m)
    <3>1. RequiringStays(bs, cl, n) BY ClearedKeeps
    <3>2. QED BY <3>1 DEF RequiringStays
  <2>4. QED BY <2>1, <2>2, <2>3
<1>2. cs = Applied(cl, O) BY DEF TerraformOverride
<1>3. O \in Seq(U) /\ \A u \in U : IsBlock(u) BY DEF Listed, IsBlock
<1> HIDE DEF cl, cs, O, U
<1>4. Bodies(cs, n) /\ StorageAfter(cl, cs, O, n) /\ NamesAfter(cl, cs, O)
  BY <1>1, <1>2, <1>3, AppliedDoes
<1>5. ASSUME NEW i \in 1..n
      PROVE  OfType(cs[i].nested, Storage) =
               IF OfType(O, Storage) = << >> THEN OfType(bs[i].nested, Storage)
               ELSE IF i = 1 THEN OfType(O, Storage) ELSE << >>
  <2> DEFINE o == OfType(O, Storage)
             b == OfType(bs[i].nested, Storage)
  <2>1. OfType(cs[i].nested, Storage) =
          IF i = 1 THEN (IF o # << >> THEN << >> ELSE b) \o o ELSE IF o # << >> THEN << >> ELSE b
    BY <1>1, <1>4 DEF StorageAfter
  <2>2. o \in Seq(U) BY <1>3, SelectionsKeep, KeptRange
  <2>3. b \in Seq(ToSet(bs[i].nested))
    <3> DEFINE N == bs[i].nested
               W == ToSet(N)
    <3>1. N \in Seq(W) BY DEF Bodies, Listed
    <3> HIDE DEF N, W
    <3>2. OfType(N, Storage) \in Seq(W) BY <3>1, SelectionsKeep, KeptRange
    <3>3. QED BY <3>2 DEF N, W
  <2> HIDE DEF o, b
  <2>4. << >> \o o = o BY <2>2, ConcatEmptySeq
  <2>5. b \o << >> = b BY <2>3, ConcatEmptySeq
  <2>6. OfType(cs[i].nested, Storage) = IF o = << >> THEN b ELSE IF i = 1 THEN o ELSE << >>
    BY <2>1, <2>4, <2>5
  <2>7. QED BY <2>6 DEF o, b
<1>6. StorageOver(bs, cs, over, n) BY <1>5 DEF StorageOver, O
<1>7. ASSUME NEW m, NEW v PROVE OnceIn(bs, m, v) <=> OnceIn(cl, m, v)
  <2>1. DOMAIN bs = 1..n /\ DOMAIN cl = 1..n BY <1>1 DEF Bodies
  <2>2. \A i \in 1..n : Requiring(cl[i].nested, m) = Requiring(bs[i].nested, m) BY <1>1
  <2>3. QED BY <2>1, <2>2 DEF OnceIn
<1>8. NamesOver(bs, cs, over)
  <2> SUFFICES ASSUME NEW m
               PROVE  IF Requiring(O, m) # << >> THEN OnceIn(cs, m, Last(Requiring(O, m)).attrs[m])
                      ELSE \A v : OnceIn(bs, m, v) => OnceIn(cs, m, v)
    BY DEF NamesOver, O
  <2>1. IF Requiring(O, m) # << >> THEN Once(cs, m, Last(Requiring(O, m)).attrs[m])
        ELSE \A v : Once(cl, m, v) => Once(cs, m, v)
    BY <1>4 DEF NamesAfter
  <2>2. \A v : (Once(cs, m, v) <=> OnceIn(cs, m, v)) /\ (Once(cl, m, v) <=> OnceIn(cl, m, v))
    BY <1>1, <1>4, OnceIs
  <2>3. QED BY <1>7, <2>1, <2>2
<1>9. QED BY <1>4, <1>6, <1>8 DEF cs

SelectedEach(bs, n, S) == [i \in 1..n |-> OfType(bs[i].nested, S)]

\* What is selected of the blocks of n bodies together.
LEMMA TogetherSelected ==
  ASSUME NEW n \in Nat, NEW bs, DOMAIN bs = 1..n, \A i \in 1..n : Listed(bs[i].nested)
  PROVE  /\ \A S : /\ OfType(NestedOf(bs), S) = FlattenSeq(SelectedEach(bs, n, S))
                   /\ \E U : SelectedEach(bs, n, S) \in Seq(Seq(U))
         /\ \A m, v : OnceIn(bs, m, v) =>
              \E y : Requiring(NestedOf(bs), m) = <<y>> /\ y.attrs[m] = v
<1> DEFINE U == UNION {ToSet(bs[i].nested) : i \in 1..n}
           ss == [i \in 1..n |-> bs[i].nested]
<1>1. ASSUME NEW i \in 1..n PROVE bs[i].nested \in Seq(U)
  <2>1. bs[i].nested \in Seq(ToSet(bs[i].nested)) BY DEF Listed
  <2>2. ToSet(bs[i].nested) \subseteq U OBVIOUS
  <2>3. QED BY <2>1, <2>2, SeqMonotonic
<1> HIDE DEF U
<1>2. ss \in [1..n -> Seq(U)] BY <1>1
<1>3. ss \in Seq(Seq(U)) BY <1>2, IsASeq
<1>4. NestedOf(bs) = FlattenSeq(ss) BY DEF NestedOf
<1>5. DOMAIN ss = 1..n /\ \A i \in 1..n : ss[i] = bs[i].nested OBVIOUS
<1> HIDE DEF ss
<1>6. FlattenSeq(ss) \in Seq(U) BY <1>3, FlattenTyped
<1>7. ASSUME NEW S
      PROVE  Kept(FlattenSeq(ss), S) = FlattenSeq(KeptEach(ss, S)) /\ KeptEach(ss, S) \in Seq(Seq(U))
  <2>1. Kept(FlattenSeq(ss), S) = FlattenSeq(KeptEach(ss, S)) BY <1>3, KeptFlatten
  <2>2. KeptEach(ss, S) \in [1..n -> Seq(U)]
    <3>1. \A i \in 1..n : Kept(ss[i], S) \in Seq(U) BY <1>1, <1>5, KeptRange
    <3>2. QED BY <1>5, <3>1 DEF KeptEach
  <2>3. QED BY <2>1, <2>2, IsASeq
<1>8. ASSUME NEW S
      PROVE  /\ OfType(NestedOf(bs), S) = FlattenSeq(SelectedEach(bs, n, S))
             /\ SelectedEach(bs, n, S) \in Seq(Seq(U))
  <2> DEFINE T == Typed(U, S)
  <2>1. \A i \in 1..n : OfType(bs[i].nested, S) = Kept(ss[i], T) BY <1>1, <1>5, SelectionsKeep
  <2>2. OfType(FlattenSeq(ss), S) = Kept(FlattenSeq(ss), T) BY <1>6, SelectionsKeep
  <2> HIDE DEF T
  <2>3. KeptEach(ss, T) = SelectedEach(bs, n, S) BY <1>5, <2>1 DEF KeptEach, SelectedEach
  <2>4. QED BY <1>4, <1>7, <2>2, <2>3
<1>9. ASSUME NEW m, NEW v, OnceIn(bs, m, v)
      PROVE  \E y : Requiring(NestedOf(bs), m) = <<y>> /\ y.attrs[m] = v
  <2> DEFINE T == NamesIn(U, m)
             tt == KeptEach(ss, T)
  <2>1. \A i \in 1..n : Requiring(bs[i].nested, m) = Kept(ss[i], T) BY <1>1, <1>5, RequiringKept
  <2>2. Requiring(FlattenSeq(ss), m) = Kept(FlattenSeq(ss), T) BY <1>6, RequiringKept
  <2> HIDE DEF T
  <2>3. DOMAIN tt = 1..n /\ \A i \in 1..n : tt[i] = Requiring(bs[i].nested, m)
    BY <1>5, <2>1 DEF KeptEach
  <2>4. tt \in Seq(Seq(U)) /\ Requiring(NestedOf(bs), m) = FlattenSeq(tt) BY <1>4, <1>7, <2>2
  <2> HIDE DEF tt
  <2>5. PICK i, y : /\ i \in 1..n /\ Requiring(bs[i].nested, m) = <<y>> /\ y.attrs[m] = v
                  /\ \A k \in 1..n : k # i => Requiring(bs[k].nested, m) = << >>
    BY <1>9 DEF OnceIn
  <2>6. OneAt(tt, i) /\ i \in DOMAIN tt /\ tt[i] = <<y>> BY <2>3, <2>5 DEF OneAt
  <2>7. FlattenSeq(tt) = tt[i] BY <2>4, <2>6, FlattenOne
  <2>8. QED BY <2>4, <2>5, <2>6, <2>7
<1>10. QED BY <1>8, <1>9

-----------------------------------------------------------------------------
(* The order of the module's terraform blocks *)

Sorted(T, s) ==
  /\ s \in [1..Cardinality(T) -> T]
  /\ \A i, j \in DOMAIN s : i < j => s[i] # s[j] /\ Earliest({s[i], s[j]}) = s[i]

LEMMA EarlierOfTwo ==
  ASSUME NEW T \in SUBSET (Nat \X Nat), NEW q \in T, q # Earliest(T)
  PROVE  Earliest({Earliest(T), q}) = Earliest(T)
<1> DEFINE e == Earliest(T)
           x == Earliest({e, q})
<1>1. e \in T /\ \A p \in T : e[1] < p[1] \/ (e[1] = p[1] /\ e[2] <= p[2])
  BY EarliestIn
<1> HIDE DEF e
<1>2. {e, q} \in SUBSET (Nat \X Nat) /\ {e, q} # {} BY <1>1
<1>3. x \in {e, q} /\ \A p \in {e, q} : x[1] < p[1] \/ (x[1] = p[1] /\ x[2] <= p[2])
  BY <1>2, EarliestIn
<1> HIDE DEF x
<1>4. e \in Nat \X Nat /\ q \in Nat \X Nat BY <1>1
<1>5. x = q => e = q
  <2>1. q[1] \in Nat /\ q[2] \in Nat /\ e[1] \in Nat /\ e[2] \in Nat
        /\ q = <<q[1], q[2]>> /\ e = <<e[1], e[2]>>
    BY <1>4
  <2>2. x = q => (q[1] < e[1] \/ (q[1] = e[1] /\ q[2] <= e[2]))
    BY <1>3
  <2>3. e[1] < q[1] \/ (e[1] = q[1] /\ e[2] <= q[2]) BY <1>1
  <2>4. x = q => q[1] = e[1] /\ q[2] = e[2] BY <2>1, <2>2, <2>3
  <2>5. QED BY <2>1, <2>4
<1>6. QED BY <1>3, <1>5 DEF e, x

LEMMA SomeOrder ==
  ASSUME NEW T \in SUBSET (Nat \X Nat), IsFiniteSet(T)
  PROVE  \E s : Sorted(T, s)
<1> DEFINE Bad(A) == IsFiniteSet(A) /\ ~\E s : Sorted(A, s)
           S == {k \in Nat : \E A \in SUBSET (Nat \X Nat) : Bad(A) /\ Cardinality(A) = k}
<1>1. S = {}
  <2> SUFFICES ASSUME S # {} PROVE FALSE OBVIOUS
  <2>1. PICK k \in S : \A l \in S : k <= l BY LeastNatural
  <2>2. PICK A \in SUBSET (Nat \X Nat) : Bad(A) /\ Cardinality(A) = k BY <2>1
  <2>3. k \in Nat /\ IsFiniteSet(A) /\ \A s : ~Sorted(A, s) BY <2>1, <2>2
  <2>4. A # {}
    <3> SUFFICES ASSUME A = {} PROVE FALSE OBVIOUS
    <3> DEFINE s == [i \in 1..0 |-> 0]
    <3>1. Cardinality(A) = 0 BY FS_EmptySet
    <3>2. DOMAIN s = {} /\ 1..0 = {} OBVIOUS
    <3>3. s \in [1..0 -> A] BY <3>2
    <3> HIDE DEF s
    <3>4. Sorted(A, s) BY <3>1, <3>2, <3>3 DEF Sorted
    <3>5. QED BY <2>3, <3>4
  <2> DEFINE e == Earliest(A)
             B == A \ {e}
  <2>5. e \in A BY <2>4, EarliestIn
  <2> HIDE DEF e
  <2>6. IsFiniteSet(B) /\ Cardinality(B) = k - 1 /\ k - 1 \in Nat
    <3>1. IsFiniteSet(B) /\ Cardinality(B) = Cardinality(A) - 1
      BY <2>3, <2>5, FS_RemoveElement
    <3>2. Cardinality(B) \in Nat BY <3>1, FS_CardinalityType
    <3>3. QED BY <2>2, <3>1, <3>2
  <2>7. PICK t : Sorted(B, t)
    <3>1. B \in SUBSET (Nat \X Nat) OBVIOUS
    <3> HIDE DEF B
    <3>2. CASE Bad(B)
      <4>1. k - 1 \in S BY <2>6, <3>1, <3>2
      <4>2. QED BY <2>1, <2>3, <4>1
    <3>3. CASE ~Bad(B) BY <2>6, <3>3
    <3>4. QED BY <3>2, <3>3
  <2>8. /\ t \in [1..(k - 1) -> B]
        /\ \A i, j \in 1..(k - 1) : i < j => t[i] # t[j] /\ Earliest({t[i], t[j]}) = t[i]
    BY <2>6, <2>7 DEF Sorted
  <2>9. \A q \in B : q # e /\ Earliest({e, q}) = e
    <3> TAKE q \in B
    <3>1. q \in A /\ q # Earliest(A) BY DEF e
    <3>2. Earliest({Earliest(A), q}) = Earliest(A) BY <3>1, EarlierOfTwo
    <3>3. QED BY <3>1, <3>2 DEF e
  <2> DEFINE s == [i \in 1..k |-> IF i = 1 THEN e ELSE t[i - 1]]
  <2>10. DOMAIN s = 1..k /\ s \in [1..k -> A]
    BY <2>3, <2>5, <2>8
  <2>11. ASSUME NEW i \in 1..k, NEW j \in 1..k, i < j
         PROVE  s[i] # s[j] /\ Earliest({s[i], s[j]}) = s[i]
    <3>1. j - 1 \in 1..(k - 1) /\ s[j] = t[j - 1] BY <2>3, <2>11
    <3>2. CASE i = 1
      <4>1. s[i] = e BY <3>2
      <4>2. s[j] \in B BY <2>8, <3>1
      <4> HIDE DEF s, B
      <4>3. QED BY <2>9, <4>1, <4>2
    <3>3. CASE i # 1
      <4>1. i - 1 \in 1..(k - 1) /\ s[i] = t[i - 1] /\ i - 1 < j - 1 BY <2>3, <2>11, <3>3
      <4> HIDE DEF s
      <4>2. QED BY <2>8, <3>1, <4>1
    <3>4. QED BY <3>2, <3>3
  <2> HIDE DEF s
  <2>12. Sorted(A, s) BY <2>2, <2>10, <2>11 DEF Sorted
  <2>13. QED BY <2>3, <2>12
<1>2. Cardinality(T) \in Nat BY FS_CardinalityType
<1>3. QED BY <1>1, <1>2

\* The places of a finite set of them come in an order.
LEMMA OrderedPlaces ==
  ASSUME NEW T \in SUBSET (Nat \X Nat), IsFiniteSet(T)
  PROVE  LET s == InOrder(T)
         IN /\ Cardinality(T) \in Nat /\ (T # {} => Cardinality(T) # 0)
            /\ DOMAIN s = 1..Cardinality(T)
            /\ \A i \in DOMAIN s : s[i] \in T
            /\ \A i, j \in DOMAIN s : s[i] = s[j] => i = j
            /\ \A p \in T : \E i \in DOMAIN s : s[i] = p
<1> DEFINE s == InOrder(T)
<1>1. Cardinality(T) \in Nat /\ (T # {} => Cardinality(T) # 0)
  BY FS_CardinalityType, FS_EmptySet
<1>2. Sorted(T, s)
  <2>1. \E f \in [1..Cardinality(T) -> T] :
          \A i, j \in DOMAIN f : i < j => f[i] # f[j] /\ Earliest({f[i], f[j]}) = f[i]
    BY SomeOrder DEF Sorted
  <2>2. QED BY <2>1 DEF Sorted, InOrder
<1> HIDE DEF s
<1>3. DOMAIN s = 1..Cardinality(T) /\ \A i \in DOMAIN s : s[i] \in T BY <1>2 DEF Sorted
<1>4. ASSUME NEW i \in DOMAIN s, NEW j \in DOMAIN s, s[i] = s[j] PROVE i = j
  <2>1. i \in Nat /\ j \in Nat BY <1>1, <1>3
  <2>2. ~(i < j) /\ ~(j < i) BY <1>2, <1>4 DEF Sorted
  <2>3. QED BY <2>1, <2>2
<1>5. \A p \in T : \E i \in DOMAIN s : s[i] = p
  <2> DEFINE k == Cardinality(T)
  <2>1. s \in [1..k -> T] BY <1>2 DEF Sorted
  <2>2. s \in Injection(1..k, T) BY <1>4, <2>1 DEF Injection, IsInjective
  <2>3. Cardinality(1..k) = k BY <1>1, FS_Interval
  <2>4. s \in Surjection(1..k, T) BY <2>2, <2>3, FS_Injection
  <2>5. QED BY <2>1, <2>4 DEF Surjection
<1>6. QED BY <1>1, <1>3, <1>4, <1>5 DEF s

-----------------------------------------------------------------------------
(* The order of the blocks *)

\* What the parser says of names, positions and nested blocks.
ListingOK ==
  /\ IsFiniteSet(DOMAIN files)
  /\ \A i, k \in DOMAIN files : i < k => files[i].name < files[k].name
  /\ \A i \in DOMAIN files : \A j \in DOMAIN files[i].blocks :
       \A n \in DOMAIN files[i].blocks[j].attrs :
         InPlace(files[i].blocks, j, n, files[i].blocks[j].attrs[n], files[i].name)
  /\ \A i \in DOMAIN files : \A j \in DOMAIN files[i].blocks : Deeper(files[i].blocks[j].nested)

LEMMA FileOrder ==
  ASSUME FilesOK, ListingOK, NEW i \in DOMAIN files, NEW k \in DOMAIN files
  PROVE  /\ i = k \/ FilePrecedes(i, k) \/ FilePrecedes(k, i)
         /\ ~(FilePrecedes(i, k) /\ FilePrecedes(k, i))
         /\ \A l \in DOMAIN files : FilePrecedes(i, k) /\ FilePrecedes(k, l) => FilePrecedes(i, l)
<1>1. \A a \in DOMAIN files : a \in Nat /\ files[a].name \in Nat /\ (IsPrimary(a) <=> ~IsOverride(a))
  BY DEF FilesOK, IsPrimary, IsOverride
<1>2. \A a, b \in DOMAIN files : a < b => files[a].name < files[b].name
  BY DEF ListingOK
<1>3. i = k \/ FilePrecedes(i, k) \/ FilePrecedes(k, i)
  <2>1. i = k \/ i < k \/ k < i BY <1>1
  <2>2. QED BY <1>1, <1>2, <2>1 DEF FilePrecedes
<1>4. ~(FilePrecedes(i, k) /\ FilePrecedes(k, i))
  BY <1>1 DEF FilePrecedes
<1>5. ASSUME NEW l \in DOMAIN files, FilePrecedes(i, k), FilePrecedes(k, l)
      PROVE  FilePrecedes(i, l)
  BY <1>1, <1>5 DEF FilePrecedes
<1>6. QED BY <1>3, <1>4, <1>5

LEMMA RefParts ==
  ASSUME FilesOK, NEW r \in Refs
  PROVE  /\ r = <<r[1], r[2]>> /\ r[1] \in DOMAIN files
         /\ r[2] \in DOMAIN files[r[1]].blocks /\ r[2] \in Nat
BY DEF Refs, FilesOK

LEMMA BlockOrder ==
  ASSUME FilesOK, ListingOK, NEW r \in Refs, NEW q \in Refs
  PROVE  /\ r = q \/ Precedes(r, q) \/ Precedes(q, r)
         /\ ~(Precedes(r, q) /\ Precedes(q, r))
         /\ \A s \in Refs : Precedes(r, q) /\ Precedes(q, s) => Precedes(r, s)
<1>1. /\ r = <<r[1], r[2]>> /\ r[1] \in DOMAIN files /\ r[2] \in Nat
      /\ q = <<q[1], q[2]>> /\ q[1] \in DOMAIN files /\ q[2] \in Nat
  BY RefParts
<1>2. /\ r[1] = q[1] \/ FilePrecedes(r[1], q[1]) \/ FilePrecedes(q[1], r[1])
      /\ ~(FilePrecedes(r[1], q[1]) /\ FilePrecedes(q[1], r[1]))
      /\ r[1] = q[1] => ~FilePrecedes(r[1], q[1])
  BY <1>1, FileOrder
<1>3. r = q \/ Precedes(r, q) \/ Precedes(q, r)
  BY <1>1, <1>2 DEF Precedes
<1>4. ~(Precedes(r, q) /\ Precedes(q, r))
  BY <1>1, <1>2 DEF Precedes
<1>5. ASSUME NEW s \in Refs, Precedes(r, q), Precedes(q, s) PROVE Precedes(r, s)
  <2>1. s[1] \in DOMAIN files /\ s[2] \in Nat BY RefParts
  <2>2. FilePrecedes(r[1], q[1]) /\ FilePrecedes(q[1], s[1]) => FilePrecedes(r[1], s[1])
    BY <1>1, <2>1, FileOrder
  <2>3. QED BY <1>1, <1>5, <2>1, <2>2 DEF Precedes
<1>6. QED BY <1>3, <1>4, <1>5

IsFirst(r, S) == r \in S /\ \A q \in S \ {r} : Precedes(r, q)
IsLast(r, S) == r \in S /\ \A q \in S \ {r} : Precedes(q, r)

LEMMA FirstIs ==
  ASSUME FilesOK, ListingOK, NEW S, S \subseteq Refs, NEW r, IsFirst(r, S)
  PROVE  FirstOf(S) = r
<1> DEFINE f == FirstOf(S)
<1>1. IsFirst(f, S) BY DEF IsFirst, FirstOf
<1> HIDE DEF f
<1>2. r \in Refs /\ f \in Refs BY <1>1 DEF IsFirst
<1>3. ~(Precedes(r, f) /\ Precedes(f, r)) BY <1>2, BlockOrder
<1>4. f = r BY <1>1, <1>3 DEF IsFirst
<1>5. QED BY <1>4 DEF f

LEMMA LastIs ==
  ASSUME FilesOK, ListingOK, NEW S, S \subseteq Refs, NEW r, IsLast(r, S)
  PROVE  LastOf(S) = r
<1> DEFINE f == LastOf(S)
<1>1. IsLast(f, S) BY DEF IsLast, LastOf
<1> HIDE DEF f
<1>2. r \in Refs /\ f \in Refs BY <1>1 DEF IsLast
<1>3. ~(Precedes(r, f) /\ Precedes(f, r)) BY <1>2, BlockOrder
<1>4. f = r BY <1>1, <1>3 DEF IsLast
<1>5. QED BY <1>4 DEF f

-----------------------------------------------------------------------------
(* What the files read so far say.  Of, Founding, Setters and Defining are *)
(* said here of any set R of blocks read, and of any first block b.        *)

Primaries == {r \in Refs : IsPrimary(r[1])}

OfIn(R, id) == {r \in R : Source(r).type # "locals" /\ Identity(Source(r)) = id /\ IsRead(r)}
FoundingIn(R, id) == {r \in OfIn(R, id) : IsPrimary(r[1]) \/ AllowedAlone(Source(r))}
HeardIn(R, id, b) == {b} \cup {r \in OfIn(R, id) : IsOverride(r[1]) /\ Precedes(b, r)}
SettersIn(R, id, n, b) ==
  {r \in IF n \in FixedArgs(id[1]) THEN {b} ELSE HeardIn(R, id, b) : Has(Source(r).attrs, n)}
DefiningIn(R, n) == {r \in R : Source(r).type = "locals" /\ Has(Source(r).attrs, n)}
CountingIn(R, n, p) == {p} \cup {r \in DefiningIn(R, n) : IsOverride(r[1])}

\* The arguments a block has whose first block is b.
ArgsOK(R, id, attrs, b) ==
  /\ IsFirst(b, FoundingIn(R, id))
  /\ \A n : /\ Has(attrs, n) <=> SettersIn(R, id, n, b) # {}
            /\ Has(attrs, n) => \E l : /\ IsLast(l, SettersIn(R, id, n, b))
                                       /\ attrs[n] = Source(l).attrs[n]

\* The nested blocks a block has whose first block is b: of every type that is
\* replaced, those of the last block that has any; of the types an override may
\* not touch, b's; and a resource's check rules are b's.
SuppliersIn(R, id, t, b) == {r \in HeardIn(R, id, b) : t \in TypesIn(Source(r).nested)}
PeersOK(S, nested, t) ==
  IF S = {} THEN Peers(nested, t) = << >>
  ELSE \E l : IsLast(l, S) /\ Peers(nested, t) = Peers(Source(l).nested, t)
NestedOK(R, id, nested, b) ==
  LET fixed == FixedBlocks(id[1])
      own == Source(b).nested
  IN id[1] # "terraform" =>
       /\ Deep(nested)
       /\ \A t : t \notin Special(id[1]) \cup fixed => PeersOK(SuppliersIn(R, id, t, b), nested, t)
       /\ OfType(nested, fixed) = OfType(own, fixed)
       /\ id[1] = "resource" /\ Len(Peers(own, "lifecycle")) <= 1 =>
            Len(Peers(nested, "lifecycle")) <= 1 /\ Rules(nested) = Rules(own)

Made(R, id, block, b) == ArgsOK(R, id, block.attrs, b) /\ NestedOK(R, id, block.nested, b)

\* r is the next override block after those in R.
Follows(r, R) == R \subseteq Refs /\ r \in Refs /\ IsOverride(r[1]) /\ \A q \in R : Precedes(q, r)

LEMMA NotYetRead ==
  ASSUME FilesOK, ListingOK, NEW R, NEW r, Follows(r, R)
  PROVE  r \notin R /\ \A q \in R : ~Precedes(r, q)
BY BlockOrder DEF Follows

LEMMA MergedArgs ==
  ASSUME NEW c, IsBlock(c), NEW over, NEW tofu
  PROVE  LET new == MergeTopLevel(c, over, tofu).attrs
             fixed == FixedArgs(c.type)
         IN /\ \A n : Has(new, n) <=> Has(c.attrs, n) \/ (n \notin fixed /\ Has(over.attrs, n))
            /\ \A n : Has(new, n) =>
                 new[n] = IF n \notin fixed /\ Has(over.attrs, n) THEN over.attrs[n]
                          ELSE c.attrs[n]
<1> DEFINE merged == MergeBody(c, over, tofu)
           d == MergeTopLevel(c, over, tofu)
           fixed == FixedArgs(c.type)
<1>1. IsBlock(merged) /\ merged.attrs = Updated(c.attrs, over.attrs)
  BY DEF MergeBody, IsBlock
<1> HIDE DEF merged
<1>2. d.attrs = Updated(Without(merged.attrs, fixed), Only(c.attrs, fixed))
  BY <1>1 DEF MergeTopLevel, IsBlock, merged
<1> HIDE DEF d, fixed
<1>3. /\ DOMAIN merged.attrs = DOMAIN c.attrs \cup DOMAIN over.attrs
      /\ \A n \in DOMAIN merged.attrs :
           merged.attrs[n] = IF n \in DOMAIN over.attrs THEN over.attrs[n] ELSE c.attrs[n]
  BY <1>1 DEF Updated
<1>4. /\ DOMAIN d.attrs = (DOMAIN merged.attrs \ fixed) \cup (DOMAIN c.attrs \cap fixed)
      /\ \A n \in DOMAIN d.attrs :
           d.attrs[n] = IF n \in DOMAIN c.attrs \cap fixed THEN c.attrs[n] ELSE merged.attrs[n]
  BY <1>2 DEF Updated, Without, Only
<1>5. QED BY <1>3, <1>4 DEF Has, d, fixed

\* An override of the block: its arguments are the last ones now.
LEMMA ArgsMerge ==
  ASSUME FilesOK, ListingOK, NEW R, NEW r, Follows(r, R), NEW id, NEW b,
         NEW c, IsBlock(c), c.type = id[1], ArgsOK(R, id, c.attrs, b),
         Source(r).type # "locals", Identity(Source(r)) = id, IsRead(r), NEW tofu
  PROVE  ArgsOK(R \cup {r}, id, MergeTopLevel(c, Source(r), tofu).attrs, b)
<1> DEFINE new == MergeTopLevel(c, Source(r), tofu).attrs
           S(n) == SettersIn(R, id, n, b)
           T(n) == SettersIn(R \cup {r}, id, n, b)
           fixed == FixedArgs(id[1])
<1>1. b \in R /\ b # r /\ Precedes(b, r) /\ IsOverride(r[1])
  BY NotYetRead DEF ArgsOK, IsFirst, FoundingIn, OfIn, Follows
<1>2. IsFirst(b, FoundingIn(R \cup {r}, id))
  BY <1>1 DEF ArgsOK, IsFirst, FoundingIn, OfIn
<1>3. /\ \A n : Has(new, n) <=> Has(c.attrs, n) \/ (n \notin fixed /\ Has(Source(r).attrs, n))
      /\ \A n : Has(new, n) =>
           new[n] = IF n \notin fixed /\ Has(Source(r).attrs, n) THEN Source(r).attrs[n]
                    ELSE c.attrs[n]
  BY MergedArgs
<1>4. HeardIn(R \cup {r}, id, b) = HeardIn(R, id, b) \cup {r}
  BY <1>1 DEF HeardIn, OfIn
<1>5. HeardIn(R, id, b) \subseteq R BY <1>1 DEF HeardIn, OfIn
<1> HIDE DEF new
<1>6. ASSUME NEW n
      PROVE  /\ Has(new, n) <=> T(n) # {}
             /\ Has(new, n) => \E l : IsLast(l, T(n)) /\ new[n] = Source(l).attrs[n]
  <2>1. CASE n \notin fixed /\ Has(Source(r).attrs, n)
    <3>1. T(n) = S(n) \cup {r} BY <1>4, <2>1 DEF SettersIn
    <3>2. S(n) \subseteq R BY <1>5, <2>1 DEF SettersIn
    <3>3. IsLast(r, T(n)) BY <3>1, <3>2 DEF IsLast, Follows
    <3>4. QED BY <1>3, <2>1, <3>1, <3>3
  <2>2. CASE ~(n \notin fixed /\ Has(Source(r).attrs, n))
    <3>1. T(n) = S(n) BY <1>4, <2>2 DEF SettersIn
    <3>2. Has(new, n) <=> Has(c.attrs, n) BY <1>3, <2>2
    <3>3. Has(new, n) => new[n] = c.attrs[n] BY <1>3, <2>2
    <3>4. /\ Has(c.attrs, n) <=> S(n) # {}
          /\ Has(c.attrs, n) => \E l : IsLast(l, S(n)) /\ c.attrs[n] = Source(l).attrs[n]
      BY DEF ArgsOK
    <3> HIDE DEF S, T
    <3>5. QED BY <3>1, <3>2, <3>3, <3>4
  <2>3. QED BY <2>1, <2>2
<1>7. QED BY <1>2, <1>6 DEF ArgsOK, new

\* A block that is no override of it changes nothing.
LEMMA ArgsOther ==
  ASSUME FilesOK, ListingOK, NEW R, NEW r, Follows(r, R), NEW id, NEW b, NEW attrs,
         ArgsOK(R, id, attrs, b), r \notin OfIn(R \cup {r}, id)
  PROVE  ArgsOK(R \cup {r}, id, attrs, b)
<1>1. OfIn(R \cup {r}, id) = OfIn(R, id) BY DEF OfIn
<1>2. FoundingIn(R \cup {r}, id) = FoundingIn(R, id) BY <1>1 DEF FoundingIn
<1>3. HeardIn(R \cup {r}, id, b) = HeardIn(R, id, b) BY <1>1 DEF HeardIn
<1>4. \A n : SettersIn(R \cup {r}, id, n, b) = SettersIn(R, id, n, b) BY <1>3 DEF SettersIn
<1>5. QED BY <1>2, <1>4 DEF ArgsOK

\* A block that override files may add.
LEMMA ArgsNew ==
  ASSUME FilesOK, ListingOK, NEW R, NEW r, Follows(r, R), NEW id, FoundingIn(R, id) = {},
         r \in FoundingIn(R \cup {r}, id)
  PROVE  ArgsOK(R \cup {r}, id, Source(r).attrs, r)
<1>1. FoundingIn(R \cup {r}, id) = {r} BY DEF FoundingIn, OfIn
<1>2. HeardIn(R \cup {r}, id, r) = {r} BY NotYetRead DEF HeardIn, OfIn
<1>3. \A n : SettersIn(R \cup {r}, id, n, r) = {q \in {r} : Has(Source(q).attrs, n)}
  BY <1>2 DEF SettersIn
<1>4. \A n : Has(Source(r).attrs, n) => IsLast(r, SettersIn(R \cup {r}, id, n, r))
  BY <1>3 DEF IsLast
<1>5. QED BY <1>1, <1>3, <1>4 DEF ArgsOK, IsFirst

LEMMA SourceNested ==
  ASSUME ListingOK, NEW r \in Refs
  PROVE  Deep(Source(r).nested) /\ Deeper(Source(r).nested)
<1>1. Deeper(Source(r).nested) BY DEF ListingOK, Refs, Source
<1>2. QED BY <1>1 DEF Deep, Deeper

LEMMA NestedMerge ==
  ASSUME FilesOK, ListingOK, NEW R, NEW r, Follows(r, R), NEW id, NEW b, b \in R, b # r,
         Precedes(b, r), NEW c, IsBlock(c), c.type = id[1], NestedOK(R, id, c.nested, b),
         Source(r).type # "locals", Identity(Source(r)) = id, IsRead(r), NEW tofu
  PROVE  NestedOK(R \cup {r}, id, MergeTopLevel(c, Source(r), tofu).nested, b)
<1> DEFINE T == MergeTopLevel(c, Source(r), tofu).nested
           N == c.nested
           V == Source(r).nested
           own == Source(b).nested
           fixed == FixedBlocks(id[1])
           S(t) == SuppliersIn(R, id, t, b)
           S2(t) == SuppliersIn(R \cup {r}, id, t, b)
<1> SUFFICES ASSUME id[1] # "terraform" PROVE NestedOK(R \cup {r}, id, T, b)
  BY DEF NestedOK
<1>1. /\ Deep(N)
      /\ \A t : t \notin Special(id[1]) \cup fixed => PeersOK(S(t), N, t)
      /\ OfType(N, fixed) = OfType(own, fixed)
      /\ id[1] = "resource" /\ Len(Peers(own, "lifecycle")) <= 1 =>
           Len(Peers(N, "lifecycle")) <= 1 /\ Rules(N) = Rules(own)
  BY DEF NestedOK
<1>2. Deep(V) BY SourceNested DEF Follows
<1>3. NestedMerges(id[1], T, N, V) BY <1>1, <1>2, TopLevelNested
<1>4. /\ Deep(T)
      /\ \A t : t \notin Special(id[1]) \cup fixed =>
           Peers(T, t) = IF t \in TypesIn(V) THEN Peers(V, t) ELSE Peers(N, t)
      /\ OfType(T, fixed) = OfType(N, fixed)
      /\ id[1] = "resource" /\ Len(Peers(N, "lifecycle")) <= 1 =>
           Len(Peers(T, "lifecycle")) <= 1 /\ Rules(T) = Rules(N)
  BY <1>3 DEF NestedMerges
<1>5. HeardIn(R \cup {r}, id, b) = HeardIn(R, id, b) \cup {r}
  BY DEF HeardIn, OfIn, Follows
<1>6. HeardIn(R, id, b) \subseteq R BY DEF HeardIn, OfIn
<1> HIDE DEF T, N, own
<1>7. ASSUME NEW t, t \notin Special(id[1]) \cup fixed PROVE PeersOK(S2(t), T, t)
  <2>1. CASE t \in TypesIn(V)
    <3>1. S2(t) = S(t) \cup {r} BY <1>5, <2>1 DEF SuppliersIn
    <3>2. S(t) \subseteq R BY <1>6 DEF SuppliersIn
    <3>3. IsLast(r, S2(t)) BY <3>1, <3>2 DEF IsLast, Follows
    <3>4. Peers(T, t) = Peers(Source(r).nested, t) BY <1>4, <1>7, <2>1
    <3>5. QED BY <3>1, <3>3, <3>4 DEF PeersOK
  <2>2. CASE t \notin TypesIn(V)
    <3>1. S2(t) = S(t) BY <1>5, <2>2 DEF SuppliersIn
    <3>2. Peers(T, t) = Peers(N, t) BY <1>4, <1>7, <2>2
    <3>3. PeersOK(S(t), N, t) BY <1>1, <1>7
    <3> HIDE DEF S, S2
    <3>4. QED BY <3>1, <3>2, <3>3 DEF PeersOK
  <2>3. QED BY <2>1, <2>2
<1> HIDE DEF fixed
<1>8. QED BY <1>1, <1>4, <1>7 DEF NestedOK, own, fixed

LEMMA MadeMerge ==
  ASSUME FilesOK, ListingOK, NEW R, NEW r, Follows(r, R), NEW id, NEW b,
         NEW c, IsBlock(c), c.type = id[1], Made(R, id, c, b),
         Source(r).type # "locals", Identity(Source(r)) = id, IsRead(r), NEW tofu
  PROVE  Made(R \cup {r}, id, MergeTopLevel(c, Source(r), tofu), b)
<1>1. ArgsOK(R, id, c.attrs, b) /\ NestedOK(R, id, c.nested, b) BY DEF Made
<1>2. b \in R /\ b # r /\ Precedes(b, r)
  BY <1>1, NotYetRead DEF ArgsOK, IsFirst, FoundingIn, OfIn, Follows
<1>3. ArgsOK(R \cup {r}, id, MergeTopLevel(c, Source(r), tofu).attrs, b) BY <1>1, ArgsMerge
<1>4. NestedOK(R \cup {r}, id, MergeTopLevel(c, Source(r), tofu).nested, b)
  BY <1>1, <1>2, NestedMerge
<1>5. QED BY <1>3, <1>4 DEF Made

LEMMA MadeOther ==
  ASSUME FilesOK, ListingOK, NEW R, NEW r, Follows(r, R), NEW id, NEW b, NEW c,
         Made(R, id, c, b), r \notin OfIn(R \cup {r}, id)
  PROVE  Made(R \cup {r}, id, c, b)
<1>1. ArgsOK(R, id, c.attrs, b) /\ NestedOK(R, id, c.nested, b) BY DEF Made
<1>2. ArgsOK(R \cup {r}, id, c.attrs, b) BY <1>1, ArgsOther
<1>3. HeardIn(R \cup {r}, id, b) = HeardIn(R, id, b) BY DEF HeardIn, OfIn
<1>4. \A t : SuppliersIn(R \cup {r}, id, t, b) = SuppliersIn(R, id, t, b)
  BY <1>3 DEF SuppliersIn
<1>5. NestedOK(R \cup {r}, id, c.nested, b) BY <1>1, <1>4 DEF NestedOK
<1>6. QED BY <1>2, <1>5 DEF Made

\* A block that nothing has overridden yet has its own nested blocks.
LEMMA NestedAlone ==
  ASSUME ListingOK, NEW R, NEW id, NEW b \in Refs, HeardIn(R, id, b) = {b}
  PROVE  NestedOK(R, id, Source(b).nested, b)
<1> DEFINE own == Source(b).nested
<1>1. Deep(own) BY SourceNested
<1>2. own \in Seq(ToSet(own)) BY <1>1 DEF Deep, Listed
<1>3. ASSUME NEW t PROVE PeersOK(SuppliersIn(R, id, t, b), own, t)
  <2>1. SuppliersIn(R, id, t, b) = IF t \in TypesIn(own) THEN {b} ELSE {} BY DEF SuppliersIn
  <2>2. Peers(own, t) # << >> <=> t \in TypesIn(own) BY <1>2, PeersIn
  <2>3. IsLast(b, {b}) BY DEF IsLast
  <2>4. QED BY <2>1, <2>2, <2>3 DEF PeersOK
<1>4. QED BY <1>1, <1>3 DEF NestedOK

LEMMA MadeNew ==
  ASSUME FilesOK, ListingOK, NEW R, NEW r, Follows(r, R), NEW id, FoundingIn(R, id) = {},
         r \in FoundingIn(R \cup {r}, id)
  PROVE  Made(R \cup {r}, id, Source(r), r)
<1>1. ArgsOK(R \cup {r}, id, Source(r).attrs, r) BY ArgsNew
<1>2. HeardIn(R \cup {r}, id, r) = {r} BY NotYetRead DEF HeardIn, OfIn
<1>3. NestedOK(R \cup {r}, id, Source(r).nested, r) BY <1>2, NestedAlone DEF Follows
<1>4. QED BY <1>1, <1>3 DEF Made

-----------------------------------------------------------------------------
(* What the merge has made of the blocks in R *)

TerraformId == <<"terraform", "", "none">>

BlockOK(R, m, x, id) ==
  /\ id \in DOMAIN x.blocks <=> FoundingIn(R, id) # {}
  /\ id \in DOMAIN x.blocks => \E b : Made(R, id, At(m, x.blocks[id]), b)
BlocksOK(R, m, x) == \A id : id # TerraformId => BlockOK(R, m, x, id)

\* The first definition of a local gives way to its overrides, the others stay.
DefinitionsIn(R, n) == {q \in DefiningIn(R, n) : IsPrimary(q[1])}
LocalOK(R, p, n, value) ==
  IF IsFirst(p, DefinitionsIn(R, n))
  THEN \E l : IsLast(l, CountingIn(R, n, p)) /\ value = Source(l).attrs[n]
  ELSE value = Source(p).attrs[n]

LocalsOK(R, m) ==
  \A p \in Primaries : Source(p).type = "locals" =>
    /\ DOMAIN At(m, p).attrs = DOMAIN Source(p).attrs
    /\ \A n : Has(Source(p).attrs, n) => LocalOK(R, p, n, At(m, p).attrs[n])

LocalsIndex(R, x) ==
  \A n : /\ n \in DOMAIN x.locals <=> DefinitionsIn(R, n) # {}
         /\ n \in DOMAIN x.locals => IsFirst(x.locals[n], DefinitionsIn(R, n))

\* The blocks of the primary files are at places of the same numbers.
PlacesOK(m) ==
  /\ {p \in Places(m) : IsPrimary(p[1])} = Primaries
  /\ \A p \in Places(m) : IF IsPrimary(p[1]) THEN At(m, p).type = Source(p).type
                          ELSE At(m, p).type # "locals"
  /\ HomeOK(m)

Overriding == \E i \in DOMAIN files : IsOverride(i)

MergedOK(R, m, x) ==
  /\ Primaries \subseteq R /\ PlacesOK(m) /\ LocalsOK(R, m)
  /\ IF Overriding THEN BlocksOK(R, m, x) /\ LocalsIndex(R, x)
     ELSE DOMAIN x.blocks = {} /\ DOMAIN x.locals = {}

LEMMA PlacesStay ==
  ASSUME NEW m, PlacesOK(m), NEW n, Grows(m, n)
  PROVE  PlacesOK(n)
<1>1. \A p : IsOverride(p[1]) => ~IsPrimary(p[1]) BY DEF IsOverride, IsPrimary
<1>2. \A p \in Places(m) : p \in Places(n) /\ At(n, p).type = At(m, p).type
  BY DEF Grows, Same
<1>3. \A p \in Places(n) \ Places(m) : ~IsPrimary(p[1]) /\ At(n, p).type # "locals"
  BY <1>1 DEF Grows
<1>4. {p \in Places(n) : IsPrimary(p[1])} = {p \in Places(m) : IsPrimary(p[1])}
  BY <1>2, <1>3
<1>5. \A p \in Places(n) : IF IsPrimary(p[1]) THEN At(n, p).type = Source(p).type
                           ELSE At(n, p).type # "locals"
  BY <1>2, <1>3 DEF PlacesOK
<1>6. QED BY <1>4, <1>5 DEF PlacesOK, Grows

\* A block that is no locals block leaves the locals alone.
LEMMA LocalsStay ==
  ASSUME NEW R, NEW r, Source(r).type # "locals", NEW m, NEW n, LocalsOK(R, m),
         \A p \in Primaries : Source(p).type = "locals" => At(n, p) = At(m, p)
  PROVE  LocalsOK(R \cup {r}, n)
<1>1. \A l : DefiningIn(R \cup {r}, l) = DefiningIn(R, l) BY DEF DefiningIn
<1>2. \A l : DefinitionsIn(R \cup {r}, l) = DefinitionsIn(R, l) BY <1>1 DEF DefinitionsIn
<1>3. \A l, p : CountingIn(R \cup {r}, l, p) = CountingIn(R, l, p) BY <1>1 DEF CountingIn
<1>4. \A p, l, v : LocalOK(R \cup {r}, p, l, v) = LocalOK(R, p, l, v) BY <1>2, <1>3 DEF LocalOK
<1>5. QED BY <1>4 DEF LocalsOK

LEMMA LocalsIndexStays ==
  ASSUME NEW R, NEW r, IsOverride(r[1]), NEW x, NEW y, LocalsIndex(R, x), y.locals = x.locals
  PROVE  LocalsIndex(R \cup {r}, y)
<1>1. ~IsPrimary(r[1]) BY DEF IsOverride, IsPrimary
<1>2. \A l : DefinitionsIn(R \cup {r}, l) = DefinitionsIn(R, l)
  BY <1>1 DEF DefinitionsIn, DefiningIn
<1>3. QED BY <1>2 DEF LocalsIndex

\* A block that is no override of an indexed one, and founds none.
LEMMA BlocksStay ==
  ASSUME FilesOK, ListingOK, NEW R, NEW r, Follows(r, R), NEW m, NEW n, NEW x, NEW y,
         BlocksOK(R, m, x), y.blocks = x.blocks,
         \A id \in DOMAIN x.blocks \ {TerraformId} :
           r \notin OfIn(R \cup {r}, id) /\ At(n, x.blocks[id]) = At(m, x.blocks[id]),
         \A id : id # TerraformId /\ id \notin DOMAIN x.blocks => r \notin FoundingIn(R \cup {r}, id)
  PROVE  BlocksOK(R \cup {r}, n, y)
<1> SUFFICES ASSUME NEW id, id # TerraformId
             PROVE  /\ id \in DOMAIN x.blocks <=> FoundingIn(R \cup {r}, id) # {}
                    /\ id \in DOMAIN x.blocks =>
                         \E b : Made(R \cup {r}, id, At(n, x.blocks[id]), b)
  BY DEF BlocksOK, BlockOK
<1>1. CASE id \in DOMAIN x.blocks
  <2>1. PICK b : Made(R, id, At(m, x.blocks[id]), b) BY <1>1 DEF BlocksOK, BlockOK
  <2>2. Made(R \cup {r}, id, At(n, x.blocks[id]), b) BY <1>1, <2>1, MadeOther
  <2>3. FoundingIn(R \cup {r}, id) # {} BY <2>2 DEF Made, ArgsOK, IsFirst
  <2>4. QED BY <1>1, <2>2, <2>3
<1>2. CASE id \notin DOMAIN x.blocks
  <2>1. FoundingIn(R, id) = {} /\ r \notin FoundingIn(R \cup {r}, id) BY <1>2 DEF BlocksOK, BlockOK
  <2>2. FoundingIn(R \cup {r}, id) = {} BY <2>1 DEF FoundingIn, OfIn
  <2>3. QED BY <1>2, <2>2
<1>3. QED BY <1>1, <1>2

\* What a turn finds, of what it works on.
LEMMA AtMerge ==
  ASSUME IInv, ListingOK, MergedOK(Read, mem, index), NEW r \in todo, Turn(r),
         \A q \in Read : Precedes(q, r)
  PROVE  /\ Follows(r, Read) /\ Block(r) = Source(r) /\ ~IsPrimary(r[1]) /\ Overriding
         /\ BlocksOK(Read, mem, index) /\ LocalsIndex(Read, index)
         /\ LocalsOK(Read, mem) /\ PlacesOK(mem) /\ Primaries \subseteq Read
         /\ \A id \in DOMAIN index.blocks : /\ index.blocks[id] \in Places(mem)
                                            /\ Identity(At(mem, index.blocks[id])) = id
                                            /\ At(mem, index.blocks[id]).type = id[1]
                                            /\ id[1] # "locals"
         /\ \A p \in Primaries : p \in Places(mem) /\ At(mem, p).type = Source(p).type
<1>1. /\ FilesOK /\ Good(mem, todo) /\ IndexOK(mem, index) /\ r \in Refs /\ IsOverride(r[1])
  BY AtTurn
<1>2. Follows(r, Read) BY <1>1 DEF Follows, Read
<1>3. Block(r) = Source(r) BY <1>1 DEF Good, Intact, Block, Source
<1>4. Overriding /\ ~IsPrimary(r[1]) BY <1>1 DEF Overriding, IsOverride, IsPrimary
<1>5. \A id \in DOMAIN index.blocks : /\ index.blocks[id] \in Places(mem)
                                      /\ Identity(At(mem, index.blocks[id])) = id
                                      /\ id[1] # "locals"
  BY <1>1 DEF IndexOK
<1>6. \A id \in DOMAIN index.blocks : At(mem, index.blocks[id]).type = id[1]
  BY <1>5, IdentityParts
<1>7. \A p \in Primaries : p \in Places(mem) /\ At(mem, p).type = Source(p).type
  BY DEF MergedOK, PlacesOK
<1>8. QED BY <1>2, <1>3, <1>4, <1>5, <1>6, <1>7 DEF MergedOK

LEMMA TerraformIdentity == \A b : IsTerraform(b) <=> Identity(b) = TerraformId
<1> TAKE b
<1>1. PICK t : t = b.type OBVIOUS
<1>2. PICK l : l = b.label OBVIOUS
<1>3. PICK a : a = Identity(b)[3] /\ (t # "provider" => a = "none") BY <1>1, IdentityParts
<1>4. Identity(b) = <<t, l, a>> BY <1>1, <1>2, <1>3, IdentityParts
<1>5. IsTerraform(b) <=> t = "terraform" /\ l = "" BY <1>1, <1>2 DEF IsTerraform
<1>6. <<t, l, a>> = <<"terraform", "", "none">> <=> t = "terraform" /\ l = "" /\ a = "none"
  OBVIOUS
<1>7. QED BY <1>3, <1>4, <1>5, <1>6 DEF TerraformId

LEMMA SkipMerges ==
  ASSUME IInv, ListingOK, MergedOK(Read, mem, index), NEW r \in todo, SkipBlock(r),
         \A q \in Read : Precedes(q, r)
  PROVE  MergedOK(Read \cup {r}, mem', index')
<1>1. Turn(r) /\ mem' = mem /\ index' = index BY DEF SkipBlock
<1>2. /\ Follows(r, Read) /\ Block(r) = Source(r) /\ ~IsPrimary(r[1]) /\ Overriding
      /\ BlocksOK(Read, mem, index) /\ LocalsIndex(Read, index)
      /\ LocalsOK(Read, mem) /\ PlacesOK(mem) /\ Primaries \subseteq Read
  BY <1>1, AtMerge
<1>3. FilesOK BY DEF IInv
<1>4. Source(r).type # "locals"
  BY <1>2 DEF SkipBlock, IsNamed, Forbidden
<1>5. LocalsOK(Read \cup {r}, mem') BY <1>1, <1>2, <1>4, LocalsStay
<1>6. LocalsIndex(Read \cup {r}, index') BY <1>1, <1>2, LocalsIndexStays DEF Follows
<1>7. \A id \in DOMAIN index.blocks : r \notin OfIn(Read \cup {r}, id)
  BY <1>2 DEF SkipBlock, IsNamed, Matched, OfIn, IsRead
<1>8. \A id : r \notin FoundingIn(Read \cup {r}, id)
  BY <1>2 DEF SkipBlock, FoundingIn, OfIn, IsRead
<1>9. BlocksOK(Read \cup {r}, mem', index')
  BY <1>1, <1>2, <1>3, <1>7, <1>8, BlocksStay
<1>10. QED BY <1>1, <1>2, <1>5, <1>6, <1>9 DEF MergedOK

LEMMA TerraformMerges ==
  ASSUME IInv, ListingOK, MergedOK(Read, mem, index), NEW r \in todo, OverrideTerraform(r),
         \A q \in Read : Precedes(q, r)
  PROVE  MergedOK(Read \cup {r}, mem', index')
<1>1. Turn(r) /\ IsTerraform(Block(r)) BY DEF OverrideTerraform
<1>2. /\ Follows(r, Read) /\ Block(r) = Source(r) /\ ~IsPrimary(r[1]) /\ Overriding
      /\ BlocksOK(Read, mem, index) /\ LocalsIndex(Read, index)
      /\ LocalsOK(Read, mem) /\ PlacesOK(mem) /\ Primaries \subseteq Read
      /\ \A id \in DOMAIN index.blocks : /\ index.blocks[id] \in Places(mem)
                                         /\ Identity(At(mem, index.blocks[id])) = id
      /\ \A p \in Primaries : p \in Places(mem) /\ At(mem, p).type = Source(p).type
  BY <1>1, AtMerge
<1>3. FilesOK BY DEF IInv
<1>4. /\ Grows(mem, mem')
      /\ \A p \in Places(mem) : ~IsTerraform(At(mem, p)) => At(mem', p) = At(mem, p)
      /\ index'.blocks = index.blocks /\ index'.locals = index.locals
  BY OverrideTerraformKeeps
<1>5. Identity(Source(r)) = TerraformId BY <1>1, <1>2, TerraformIdentity
<1>6. Source(r).type # "locals" BY <1>1, <1>2 DEF IsTerraform
<1>7. \A p \in Primaries : Source(p).type = "locals" => At(mem', p) = At(mem, p)
  BY <1>2, <1>4 DEF IsTerraform
<1>8. LocalsOK(Read \cup {r}, mem') BY <1>2, <1>6, <1>7, LocalsStay
<1>9. LocalsIndex(Read \cup {r}, index') BY <1>2, <1>4, LocalsIndexStays DEF Follows
<1>10. \A id : id # TerraformId => r \notin OfIn(Read \cup {r}, id) BY <1>5 DEF OfIn
<1>11. \A id : id # TerraformId => r \notin FoundingIn(Read \cup {r}, id)
  BY <1>10 DEF FoundingIn
<1>12. \A id \in DOMAIN index.blocks \ {TerraformId} :
         At(mem', index.blocks[id]) = At(mem, index.blocks[id])
  BY <1>2, <1>4, TerraformIdentity
<1>13. BlocksOK(Read \cup {r}, mem', index')
  BY <1>2, <1>3, <1>4, <1>10, <1>11, <1>12, BlocksStay
<1>14. PlacesOK(mem') BY <1>2, <1>4, PlacesStay
<1>15. QED BY <1>2, <1>8, <1>9, <1>13, <1>14 DEF MergedOK

\* Overriding a local changes the value at its first definition, and nothing else.
LEMMA LocalsWritten ==
  ASSUME FilesOK, ListingOK, NEW R, NEW r, Follows(r, R), Source(r).type = "locals",
         NEW p \in R, p \in Primaries, NEW n, NEW old, LocalOK(R, p, n, old),
         NEW value, value = IF Has(Source(r).attrs, n) /\ IsFirst(p, DefinitionsIn(R, n))
                            THEN Source(r).attrs[n] ELSE old
  PROVE  LocalOK(R \cup {r}, p, n, value)
<1>1. ~IsPrimary(r[1]) BY DEF Follows, IsOverride, IsPrimary
<1>2. DefinitionsIn(R \cup {r}, n) = DefinitionsIn(R, n)
  BY <1>1 DEF DefinitionsIn, DefiningIn
<1>3. CASE IsFirst(p, DefinitionsIn(R, n)) /\ Has(Source(r).attrs, n)
  <2>1. CountingIn(R \cup {r}, n, p) = CountingIn(R, n, p) \cup {r}
    BY <1>3 DEF CountingIn, DefiningIn, Follows
  <2>2. CountingIn(R, n, p) \subseteq R BY DEF CountingIn, DefiningIn
  <2>3. IsLast(r, CountingIn(R \cup {r}, n, p)) BY <2>1, <2>2 DEF IsLast, Follows
  <2>4. QED BY <1>2, <1>3, <2>3 DEF LocalOK
<1>4. CASE ~(IsFirst(p, DefinitionsIn(R, n)) /\ Has(Source(r).attrs, n))
  <2>1. value = old BY <1>4
  <2>2. CASE Has(Source(r).attrs, n)
    BY <1>2, <1>4, <2>1, <2>2 DEF LocalOK
  <2>3. CASE ~Has(Source(r).attrs, n)
    <3>1. CountingIn(R \cup {r}, n, p) = CountingIn(R, n, p)
      BY <2>3 DEF CountingIn, DefiningIn
    <3>2. QED BY <1>2, <2>1, <3>1 DEF LocalOK
  <2>4. QED BY <2>2, <2>3
<1>5. QED BY <1>3, <1>4

LEMMA WrittenArgs ==
  ASSUME NEW m, NEW p, IsBlock(At(m, p)), NEW values
  PROVE  LET new == Written(m, values, p).attrs
             Here(n) == n \in DOMAIN values /\ index.locals[n] = p
         IN /\ DOMAIN new = DOMAIN At(m, p).attrs \cup {n \in DOMAIN values : index.locals[n] = p}
            /\ \A n \in DOMAIN new : new[n] = IF Here(n) THEN values[n] ELSE At(m, p).attrs[n]
<1> DEFINE b == At(m, p)
           here == {n \in DOMAIN values : index.locals[n] = p}
           only == Only(values, here)
           w == Written(m, values, p)
<1>1. w.attrs = Updated(b.attrs, only) BY DEF Written, IsBlock
<1>2. DOMAIN only = here /\ \A n \in here : only[n] = values[n] BY DEF Only
<1> HIDE DEF w, only, b
<1>3. /\ DOMAIN w.attrs = DOMAIN b.attrs \cup here
      /\ \A n \in DOMAIN w.attrs : w.attrs[n] = IF n \in here THEN values[n] ELSE b.attrs[n]
  BY <1>1, <1>2 DEF Updated
<1>4. QED BY <1>3 DEF w, b

LEMMA LocalsMerges ==
  ASSUME IInv, ListingOK, MergedOK(Read, mem, index), NEW r \in todo, OverrideLocals(r),
         \A q \in Read : Precedes(q, r)
  PROVE  MergedOK(Read \cup {r}, mem', index')
<1> DEFINE values == Only(Block(r).attrs, DOMAIN index.locals)
           First(n) == index.locals[n]
<1>1. Turn(r) /\ Block(r).type = "locals" /\ index' = index BY DEF OverrideLocals
<1>2. /\ Follows(r, Read) /\ Block(r) = Source(r) /\ ~IsPrimary(r[1]) /\ Overriding
      /\ BlocksOK(Read, mem, index) /\ LocalsIndex(Read, index)
      /\ LocalsOK(Read, mem) /\ PlacesOK(mem) /\ Primaries \subseteq Read
      /\ \A id \in DOMAIN index.blocks : /\ index.blocks[id] \in Places(mem)
                                         /\ At(mem, index.blocks[id]).type = id[1]
                                         /\ id[1] # "locals"
      /\ \A p \in Primaries : p \in Places(mem) /\ At(mem, p).type = Source(p).type
  BY <1>1, AtMerge
<1>3. FilesOK /\ Good(mem, todo) BY DEF IInv
<1>4. \A n \in DOMAIN index.locals :
        /\ First(n) \in Primaries /\ Source(First(n)).type = "locals"
        /\ Has(Source(First(n)).attrs, n)
  BY <1>2 DEF LocalsIndex, IsFirst, DefinitionsIn, DefiningIn, Primaries, Read
<1>5. /\ DOMAIN values = DOMAIN Source(r).attrs \cap DOMAIN index.locals
      /\ \A n \in DOMAIN values : values[n] = Source(r).attrs[n]
  BY <1>2 DEF Only
<1>6. \A n \in DOMAIN values : IsPrimary(First(n)[1]) BY <1>4, <1>5 DEF Primaries
<1>7. HomeOK(mem) BY <1>2 DEF PlacesOK
<1>8. /\ Grows(mem, mem')
      /\ \A p \in Places(mem) :
           At(mem', p) = IF \E n \in DOMAIN values : First(n) = p
                         THEN Written(mem, values, p) ELSE At(mem, p)
  BY <1>6, <1>7, OverrideLocalsKeeps
<1> HIDE DEF values
<1>9. \A id : r \notin OfIn(Read \cup {r}, id) /\ r \notin FoundingIn(Read \cup {r}, id)
  BY <1>1, <1>2 DEF OfIn, FoundingIn
<1>10. \A id \in DOMAIN index.blocks : At(mem', index.blocks[id]) = At(mem, index.blocks[id])
  BY <1>2, <1>4, <1>5, <1>8
<1>11. BlocksOK(Read \cup {r}, mem', index') BY <1>1, <1>2, <1>3, <1>9, <1>10, BlocksStay
<1>12. LocalsIndex(Read \cup {r}, index') BY <1>1, <1>2, LocalsIndexStays DEF Follows
<1>13. PlacesOK(mem') BY <1>2, <1>8, PlacesStay
<1>14. ASSUME NEW p \in Primaries, Source(p).type = "locals"
       PROVE  /\ DOMAIN At(mem', p).attrs = DOMAIN Source(p).attrs
              /\ \A n : Has(Source(p).attrs, n) => LocalOK(Read \cup {r}, p, n, At(mem', p).attrs[n])
  <2> DEFINE Here(n) == n \in DOMAIN values /\ First(n) = p
             old == At(mem, p).attrs
             new == At(mem', p).attrs
  <2>1. p \in Places(mem) /\ IsBlock(At(mem, p)) BY <1>2, <1>3, BlocksAt
  <2>2. DOMAIN old = DOMAIN Source(p).attrs BY <1>2, <1>14 DEF LocalsOK
  <2>3. \A n : Here(n) => n \in DOMAIN old BY <1>4, <1>5, <2>2 DEF Has
  <2>4. DOMAIN new = DOMAIN old /\ \A n \in DOMAIN new : new[n] = IF Here(n) THEN values[n] ELSE old[n]
    <3>1. CASE \E n \in DOMAIN values : First(n) = p
      <4>1. At(mem', p) = Written(mem, values, p) BY <1>8, <2>1, <3>1
      <4>2. /\ DOMAIN new = DOMAIN old \cup {n \in DOMAIN values : First(n) = p}
            /\ \A n \in DOMAIN new : new[n] = IF Here(n) THEN values[n] ELSE old[n]
        BY <2>1, <4>1, WrittenArgs
      <4>3. QED BY <2>3, <4>2
    <3>2. CASE ~\E n \in DOMAIN values : First(n) = p
      BY <1>8, <2>1, <3>2
    <3>3. QED BY <3>1, <3>2
  <2>5. ASSUME NEW n, Has(Source(p).attrs, n)
        PROVE  LocalOK(Read \cup {r}, p, n, new[n])
    <3>1. LocalOK(Read, p, n, old[n]) BY <1>2, <1>14, <2>5 DEF LocalsOK
    <3>2. Here(n) <=> Has(Source(r).attrs, n) /\ IsFirst(p, DefinitionsIn(Read, n))
      <4>1. p \in DefinitionsIn(Read, n)
        BY <1>2, <1>14, <2>5 DEF DefinitionsIn, DefiningIn, Primaries
      <4>2. n \in DOMAIN index.locals /\ IsFirst(First(n), DefinitionsIn(Read, n))
        BY <1>2, <4>1 DEF LocalsIndex
      <4>3. DefinitionsIn(Read, n) \subseteq Refs BY DEF DefinitionsIn, DefiningIn, Read
      <4>4. IsFirst(p, DefinitionsIn(Read, n)) => First(n) = p
        <5>1. FirstOf(DefinitionsIn(Read, n)) = First(n) BY <1>3, <4>2, <4>3, FirstIs
        <5>2. QED BY <1>3, <4>3, <5>1, FirstIs
      <4>5. QED BY <1>5, <4>2, <4>4 DEF Has
    <3>3. new[n] = IF Has(Source(r).attrs, n) /\ IsFirst(p, DefinitionsIn(Read, n))
                   THEN Source(r).attrs[n] ELSE old[n]
      BY <1>5, <2>2, <2>4, <2>5, <3>2 DEF Has
    <3>4. p \in Read BY <1>2
    <3> HIDE DEF new, old
    <3>5. QED BY <1>1, <1>2, <1>3, <3>1, <3>3, <3>4, LocalsWritten
  <2>6. QED BY <2>2, <2>4, <2>5
<1>15. LocalsOK(Read \cup {r}, mem') BY <1>14 DEF LocalsOK
<1>16. QED BY <1>2, <1>11, <1>12, <1>13, <1>15 DEF MergedOK

\* The turn of a named block: other blocks keep what they have.
StaysAt(m, n, x, y, id) ==
  /\ id \in DOMAIN y.blocks <=> id \in DOMAIN x.blocks
  /\ id \in DOMAIN x.blocks => /\ y.blocks[id] = x.blocks[id]
                                /\ At(n, x.blocks[id]) = At(m, x.blocks[id])

LEMMA OthersStay ==
  ASSUME FilesOK, ListingOK, NEW R, NEW r, Follows(r, R), NEW m, NEW n, NEW x, NEW y,
         BlocksOK(R, m, x), NEW id, id # TerraformId, id # Identity(Source(r)),
         StaysAt(m, n, x, y, id)
  PROVE  BlockOK(R \cup {r}, n, y, id)
<1>1. r \notin OfIn(R \cup {r}, id) BY DEF OfIn
<1>2. FoundingIn(R \cup {r}, id) = FoundingIn(R, id) BY <1>1 DEF FoundingIn, OfIn
<1>3. id \in DOMAIN y.blocks <=> FoundingIn(R \cup {r}, id) # {}
  BY <1>2 DEF BlocksOK, BlockOK, StaysAt
<1>4. ASSUME id \in DOMAIN y.blocks
      PROVE  \E b : Made(R \cup {r}, id, At(n, y.blocks[id]), b)
  <2>1. PICK b : Made(R, id, At(m, x.blocks[id]), b)
    BY <1>4 DEF BlocksOK, BlockOK, StaysAt
  <2>2. Made(R \cup {r}, id, At(m, x.blocks[id]), b) BY <1>1, <2>1, MadeOther
  <2>3. QED BY <1>4, <2>2 DEF StaysAt
<1>5. QED BY <1>3, <1>4 DEF BlockOK

LEMMA MergeMerges ==
  ASSUME IInv, ListingOK, MergedOK(Read, mem, index), NEW r \in todo, MergeBlock(r),
         \A q \in Read : Precedes(q, r)
  PROVE  MergedOK(Read \cup {r}, mem', index')
<1> DEFINE own == Identity(Source(r))
           place == index.blocks[own]
<1>1. Turn(r) /\ IsNamed(Block(r)) /\ index' = index BY DEF MergeBlock
<1>2. /\ Follows(r, Read) /\ Block(r) = Source(r) /\ ~IsPrimary(r[1]) /\ Overriding
      /\ BlocksOK(Read, mem, index) /\ LocalsIndex(Read, index)
      /\ LocalsOK(Read, mem) /\ PlacesOK(mem) /\ Primaries \subseteq Read
      /\ \A id \in DOMAIN index.blocks : /\ index.blocks[id] \in Places(mem)
                                         /\ Identity(At(mem, index.blocks[id])) = id
                                         /\ At(mem, index.blocks[id]).type = id[1]
                                         /\ id[1] # "locals"
      /\ \A p \in Primaries : p \in Places(mem) /\ At(mem, p).type = Source(p).type
  BY <1>1, AtMerge
<1>3. FilesOK /\ Good(mem, todo) BY DEF IInv
<1>4. /\ Source(r).type # "locals" /\ IsRead(r) /\ own # TerraformId
  <2>1. ~IsTerraform(Source(r)) BY <1>1, <1>2 DEF IsNamed
  <2>2. QED BY <1>1, <1>2, <2>1, TerraformIdentity DEF IsNamed, IsRead
<1>5. own \in DOMAIN index.blocks BY <1>2 DEF MergeBlock, Matched
<1>6. /\ Grows(mem, mem')
      /\ \A p \in Places(mem) :
           At(mem', p) = IF p = place THEN MergeTopLevel(At(mem, p), Source(r), OpenTofu)
                         ELSE At(mem, p)
  BY <1>2, MergeBlockKeeps
<1>7. /\ place \in Places(mem) /\ At(mem, place).type = own[1] /\ own[1] # "locals"
      /\ Identity(At(mem, place)) = own
  BY <1>2, <1>5
<1>8. IsBlock(At(mem, place)) BY <1>3, <1>7, BlocksAt
<1>9. At(mem', place) = MergeTopLevel(At(mem, place), Source(r), OpenTofu)
  BY <1>6, <1>7
<1> HIDE DEF own, place
<1>10. BlocksOK(Read \cup {r}, mem', index')
  <2> SUFFICES ASSUME NEW id, id # TerraformId
               PROVE  BlockOK(Read \cup {r}, mem', index', id)
    BY DEF BlocksOK
  <2>1. CASE id = own
    <3>1. PICK b : Made(Read, own, At(mem, place), b)
      BY <1>2, <1>4, <1>5 DEF BlocksOK, BlockOK, place
    <3>2. Identity(Source(r)) = own BY DEF own
    <3>3. Made(Read \cup {r}, own, MergeTopLevel(At(mem, place), Source(r), OpenTofu), b)
      BY <1>2, <1>3, <1>4, <1>7, <1>8, <3>1, <3>2, MadeMerge
    <3>4. Made(Read \cup {r}, own, At(mem', place), b) BY <1>9, <3>3
    <3>5. FoundingIn(Read \cup {r}, own) # {} BY <3>4 DEF Made, ArgsOK, IsFirst
    <3>6. QED BY <1>1, <1>5, <2>1, <3>4, <3>5 DEF place, BlockOK
  <2>2. CASE id # own
    <3>1. id \in DOMAIN index.blocks => At(mem', index.blocks[id]) = At(mem, index.blocks[id])
      BY <1>2, <1>6, <1>7, <2>2
    <3>2. id # Identity(Source(r)) BY <2>2 DEF own
    <3>3. index'.blocks = index.blocks /\ BlocksOK(Read, mem, index) /\ Follows(r, Read)
      BY <1>1, <1>2
    <3>4. StaysAt(mem, mem', index, index', id) BY <3>1, <3>3 DEF StaysAt
    <3>5. QED BY <1>3, <3>2, <3>3, <3>4, OthersStay
  <2>3. QED BY <2>1, <2>2
<1>11. \A p \in Primaries : Source(p).type = "locals" => At(mem', p) = At(mem, p)
  BY <1>2, <1>6, <1>7
<1>12. LocalsOK(Read \cup {r}, mem') BY <1>2, <1>4, <1>11, LocalsStay
<1>13. LocalsIndex(Read \cup {r}, index') BY <1>1, <1>2, LocalsIndexStays DEF Follows
<1>14. PlacesOK(mem') BY <1>2, <1>6, PlacesStay
<1>15. QED BY <1>2, <1>10, <1>12, <1>13, <1>14 DEF MergedOK

LEMMA AddMerges ==
  ASSUME IInv, ListingOK, MergedOK(Read, mem, index), NEW r \in todo, AddBlock(r),
         \A q \in Read : Precedes(q, r)
  PROVE  MergedOK(Read \cup {r}, mem', index')
<1> DEFINE own == Identity(Source(r))
<1>1. Turn(r) /\ IsNamed(Block(r)) BY DEF AddBlock
<1>2. /\ Follows(r, Read) /\ Block(r) = Source(r) /\ ~IsPrimary(r[1]) /\ Overriding
      /\ BlocksOK(Read, mem, index) /\ LocalsIndex(Read, index)
      /\ LocalsOK(Read, mem) /\ PlacesOK(mem) /\ Primaries \subseteq Read
      /\ \A id \in DOMAIN index.blocks : index.blocks[id] \in Places(mem)
      /\ \A p \in Primaries : p \in Places(mem) /\ At(mem, p).type = Source(p).type
  BY <1>1, AtMerge
<1>3. FilesOK BY DEF IInv
<1>4. /\ Source(r).type # "locals" /\ IsRead(r) /\ own # TerraformId
      /\ AllowedAlone(Source(r)) /\ own \notin DOMAIN index.blocks
  <2>1. ~IsTerraform(Source(r)) BY <1>1, <1>2 DEF IsNamed
  <2>2. AllowedAlone(Source(r)) /\ own \notin DOMAIN index.blocks
    BY <1>2 DEF AddBlock, Matched
  <2>3. QED BY <1>1, <1>2, <2>1, <2>2, TerraformIdentity DEF IsNamed, IsRead
<1>5. /\ Grows(mem, mem') /\ \A p \in Places(mem) : At(mem', p) = At(mem, p)
      /\ \E place : /\ index'.blocks = Updated(index.blocks, [id \in {own} |-> place])
                    /\ index'.locals = index.locals
                    /\ At(mem', place) = Source(r)
  BY <1>2, AddBlockKeeps
<1>6. PICK place : /\ index'.blocks = Updated(index.blocks, [id \in {own} |-> place])
                   /\ index'.locals = index.locals
                   /\ At(mem', place) = Source(r)
  BY <1>5
<1>7. Identity(Source(r)) = own OBVIOUS
<1> HIDE DEF own
<1>8. /\ DOMAIN index'.blocks = DOMAIN index.blocks \cup {own} /\ index'.blocks[own] = place
      /\ \A id \in DOMAIN index.blocks : index'.blocks[id] = index.blocks[id]
  BY <1>4, <1>6 DEF Updated
<1>9. BlocksOK(Read \cup {r}, mem', index')
  <2> SUFFICES ASSUME NEW id, id # TerraformId
               PROVE  BlockOK(Read \cup {r}, mem', index', id)
    BY DEF BlocksOK
  <2>1. CASE id = own
    <3>1. FoundingIn(Read, own) = {} BY <1>2, <1>4 DEF BlocksOK, BlockOK
    <3>2. r \in FoundingIn(Read \cup {r}, own)
      BY <1>4, <1>7 DEF FoundingIn, OfIn
    <3>3. Made(Read \cup {r}, own, Source(r), r) BY <1>2, <1>3, <3>1, <3>2, MadeNew
    <3>4. QED BY <1>6, <1>8, <2>1, <3>2, <3>3 DEF BlockOK
  <2>2. CASE id # own
    <3>1. id \in DOMAIN index.blocks => At(mem', index.blocks[id]) = At(mem, index.blocks[id])
      BY <1>2, <1>5
    <3>2. id # Identity(Source(r)) BY <1>7, <2>2
    <3>3. BlocksOK(Read, mem, index) /\ Follows(r, Read) BY <1>2
    <3>4. StaysAt(mem, mem', index, index', id) BY <1>8, <2>2, <3>1 DEF StaysAt
    <3>5. QED BY <1>3, <3>2, <3>3, <3>4, OthersStay
  <2>3. QED BY <2>1, <2>2
<1>10. \A p \in Primaries : Source(p).type = "locals" => At(mem', p) = At(mem, p)
  BY <1>2, <1>5
<1>11. LocalsOK(Read \cup {r}, mem') BY <1>2, <1>4, <1>10, LocalsStay
<1>12. LocalsIndex(Read \cup {r}, index') BY <1>2, <1>6, LocalsIndexStays DEF Follows
<1>13. PlacesOK(mem') BY <1>2, <1>5, PlacesStay
<1>14. QED BY <1>2, <1>9, <1>11, <1>12, <1>13 DEF MergedOK

\* When the primary files are indexed, each block is where it was parsed.
LEMMA StartPlaces ==
  ASSUME IInv, pc = "index", NEW m,
         m = [mem EXCEPT !.effective = [i \in {k \in DOMAIN files : IsPrimary(k)} |-> Parsed(i)]]
  PROVE  /\ Places(m) = Primaries
         /\ \A p \in Primaries : RefAt(m, p) = p /\ At(m, p) = Source(p)
<1> DEFINE fs == {k \in DOMAIN files : IsPrimary(k)}
<1>1. Good(mem, todo) /\ IsMem(mem) /\ FilesOK BY DEF IInv, Good
<1>2. m.heap = mem.heap /\ m.bodies = mem.bodies /\ m.effective = [i \in fs |-> Parsed(i)]
  BY <1>1 DEF IsMem
<1>3. \A i \in fs : BodyOf(m, i) = RefsOf(i)
  BY <1>1, <1>2 DEF Good, Intact, BodyOf
<1>4. DOMAIN m.effective = fs BY <1>2
<1>5. \A i \in fs : /\ DOMAIN RefsOf(i) = DOMAIN files[i].blocks
                    /\ \A j \in DOMAIN files[i].blocks : RefsOf(i)[j] = <<i, j>>
  BY DEF RefsOf
<1>6. \A p \in Places(m) : p \in Primaries
  <2> TAKE p \in Places(m)
  <2>1. p = <<p[1], p[2]>> /\ p[1] \in fs /\ p[2] \in DOMAIN BodyOf(m, p[1])
    BY <1>4, PlaceParts
  <2>2. p[2] \in DOMAIN files[p[1]].blocks BY <1>3, <1>5, <2>1
  <2>3. QED BY <2>1, <2>2 DEF Primaries, Refs
<1>7. ASSUME NEW p \in Primaries PROVE p \in Places(m) /\ RefAt(m, p) = p /\ At(m, p) = Source(p)
  <2>1. /\ p \in Refs /\ p = <<p[1], p[2]>> /\ p[1] \in fs
        /\ p[2] \in DOMAIN files[p[1]].blocks
    BY <1>1, RefParts DEF Primaries
  <2>2. p \in Places(m) BY <1>3, <1>4, <1>5, <2>1, PlaceParts
  <2>3. RefAt(m, p) = p BY <1>3, <1>5, <2>1 DEF RefAt
  <2>4. QED BY <1>1, <1>2, <2>1, <2>2, <2>3 DEF At, Good, Intact, Source
<1>8. QED BY <1>6, <1>7

\* Before any override, a block's arguments are its own.
LEMMA StartArgs ==
  ASSUME NEW id, NEW b, IsFirst(b, FoundingIn(Primaries, id))
  PROVE  ArgsOK(Primaries, id, Source(b).attrs, b)
<1>1. \A r \in Primaries : ~IsOverride(r[1]) BY DEF Primaries, IsPrimary, IsOverride
<1>2. HeardIn(Primaries, id, b) = {b} BY <1>1 DEF HeardIn, OfIn
<1>3. \A n : SettersIn(Primaries, id, n, b) = {q \in {b} : Has(Source(q).attrs, n)}
  BY <1>2 DEF SettersIn
<1>4. \A n : Has(Source(b).attrs, n) => IsLast(b, SettersIn(Primaries, id, n, b))
  BY <1>3 DEF IsLast
<1>5. QED BY <1>3, <1>4 DEF ArgsOK

LEMMA StartMade ==
  ASSUME ListingOK, NEW id, NEW b, IsFirst(b, FoundingIn(Primaries, id))
  PROVE  Made(Primaries, id, Source(b), b)
<1>1. b \in Refs BY DEF IsFirst, FoundingIn, OfIn, Primaries
<1>2. \A r \in Primaries : ~IsOverride(r[1]) BY DEF Primaries, IsPrimary, IsOverride
<1>3. HeardIn(Primaries, id, b) = {b} BY <1>2 DEF HeardIn, OfIn
<1>4. QED BY <1>1, <1>3, StartArgs, NestedAlone DEF Made

LEMMA StartLocals ==
  ASSUME NEW m, \A p \in Primaries : At(m, p) = Source(p)
  PROVE  LocalsOK(Primaries, m)
<1>1. \A r \in Primaries : ~IsOverride(r[1]) BY DEF Primaries, IsPrimary, IsOverride
<1>2. \A n, p : CountingIn(Primaries, n, p) = {p} BY <1>1 DEF CountingIn, DefiningIn
<1>3. \A n, p : IsLast(p, CountingIn(Primaries, n, p)) BY <1>2 DEF IsLast
<1>4. \A p, n : LocalOK(Primaries, p, n, Source(p).attrs[n]) BY <1>3 DEF LocalOK
<1>5. QED BY <1>4 DEF LocalsOK

LEMMA StartPlacesOK ==
  ASSUME FilesOK, NEW m, Places(m) = Primaries,
         \A p \in Primaries : RefAt(m, p) = p /\ At(m, p) = Source(p)
  PROVE  PlacesOK(m)
<1>1. \A p \in Primaries : IsPrimary(p[1]) /\ p[1] # 0
  BY RefParts DEF Primaries, FilesOK
<1>2. HomeOK(m) BY <1>1 DEF HomeOK
<1>3. QED BY <1>1, <1>2 DEF PlacesOK

\* Of blocks of the primary files, the one at the earliest place is the first.
LEMMA EarliestIsFirst ==
  ASSUME FilesOK, NEW S, S \subseteq Primaries, S # {}
  PROVE  IsFirst(Earliest(S), S)
<1>1. \A p \in Primaries : p = <<p[1], p[2]>> /\ p[1] \in Nat /\ p[2] \in Nat /\ IsPrimary(p[1])
  BY RefParts DEF Primaries, FilesOK
<1>2. S \in SUBSET (Nat \X Nat) BY <1>1
<1>3. PICK e : e = Earliest(S) OBVIOUS
<1>4. e \in S /\ \A q \in S : e[1] < q[1] \/ (e[1] = q[1] /\ e[2] <= q[2])
  BY <1>2, <1>3, EarliestIn
<1>5. ASSUME NEW q \in S \ {e} PROVE Precedes(e, q)
  BY <1>1, <1>4 DEF Precedes, FilePrecedes
<1>6. QED BY <1>3, <1>4, <1>5 DEF IsFirst

LEMMA IndexMerges ==
  ASSUME FilesOK, ListingOK, NEW m, Places(m) = Primaries,
         \A p \in Primaries : At(m, p) = Source(p)
  PROVE  BlocksOK(Primaries, m, IndexOf(m)) /\ LocalsIndex(Primaries, IndexOf(m))
<1> DEFINE locals == {p \in Primaries : Source(p).type = "locals"}
           plain == Primaries \ locals
           x == IndexOf(m)
<1>1. /\ x.blocks = [id \in {Identity(At(m, p)) : p \in plain} |->
                       Earliest({p \in plain : Identity(At(m, p)) = id})]
      /\ x.locals = [n \in UNION {DOMAIN At(m, p).attrs : p \in locals} |->
                       Earliest({p \in locals : Has(At(m, p).attrs, n)})]
  <2>1. {p \in Places(m) : At(m, p).type = "locals"} = locals OBVIOUS
  <2>2. QED BY <2>1 DEF IndexOf
<1> HIDE DEF x
<1>2. ASSUME NEW id PROVE FoundingIn(Primaries, id) = {p \in plain : Identity(At(m, p)) = id}
  BY DEF FoundingIn, OfIn, IsRead, Primaries
<1>3. ASSUME NEW id PROVE BlockOK(Primaries, m, x, id)
  <2> DEFINE S == {p \in plain : Identity(At(m, p)) = id}
  <2>1. S = FoundingIn(Primaries, id) BY <1>2
  <2>2. id \in DOMAIN x.blocks <=> S # {} BY <1>1
  <2>3. ASSUME id \in DOMAIN x.blocks
        PROVE  \E b : Made(Primaries, id, At(m, x.blocks[id]), b)
    <3>1. x.blocks[id] = Earliest(S) BY <1>1, <2>3
    <3>2. S # {} /\ S \subseteq Primaries BY <2>2, <2>3
    <3>3. IsFirst(x.blocks[id], S) BY <3>1, <3>2, EarliestIsFirst
    <3>4. At(m, x.blocks[id]) = Source(x.blocks[id]) BY <3>2, <3>3 DEF IsFirst
    <3>5. QED BY <2>1, <3>3, <3>4, StartMade
  <2> HIDE DEF S
  <2>4. QED BY <2>1, <2>2, <2>3 DEF BlockOK
<1>4. ASSUME NEW n
      PROVE  /\ n \in DOMAIN x.locals <=> DefinitionsIn(Primaries, n) # {}
             /\ n \in DOMAIN x.locals => IsFirst(x.locals[n], DefinitionsIn(Primaries, n))
  <2> DEFINE S == {p \in locals : Has(At(m, p).attrs, n)}
  <2>1. S = DefinitionsIn(Primaries, n) BY DEF DefinitionsIn, DefiningIn, Primaries
  <2>2. n \in DOMAIN x.locals <=> S # {} BY <1>1 DEF Has
  <2>3. ASSUME n \in DOMAIN x.locals PROVE IsFirst(x.locals[n], S)
    <3>1. x.locals[n] = Earliest(S) BY <1>1, <2>3
    <3>2. S # {} /\ S \subseteq Primaries BY <2>2, <2>3
    <3>3. QED BY <3>1, <3>2, EarliestIsFirst
  <2> HIDE DEF S
  <2>4. QED BY <2>1, <2>2, <2>3
<1>5. QED BY <1>3, <1>4 DEF BlocksOK, LocalsIndex, x

LEMMA IndexPrimaryMerges ==
  ASSUME IInv, ListingOK, IndexPrimary
  PROVE  MergedOK(Primaries, mem', index')
<1>1. PICK m : m = [mem EXCEPT !.effective =
                      [i \in {k \in DOMAIN files : IsPrimary(k)} |-> Parsed(i)]]
  OBVIOUS
<1>2. /\ Places(m) = Primaries
      /\ \A p \in Primaries : RefAt(m, p) = p /\ At(m, p) = Source(p)
  BY <1>1, StartPlaces DEF IndexPrimary
<1>3. FilesOK BY DEF IInv
<1>4. LocalsOK(Primaries, m) /\ PlacesOK(m) BY <1>2, <1>3, StartLocals, StartPlacesOK
<1>5. BlocksOK(Primaries, m, IndexOf(m)) /\ LocalsIndex(Primaries, IndexOf(m))
  BY <1>2, <1>3, IndexMerges
<1>6. MergedOK(Primaries, m, IndexOf(m)) BY <1>4, <1>5 DEF MergedOK, IndexPrimary, Overriding
<1>7. mem' = m BY <1>1 DEF IndexPrimary
<1>8. index' = IndexOf(mem') BY DEF IndexPrimary
<1>9. QED BY <1>6, <1>7, <1>8

LEMMA NoOverridesMerges ==
  ASSUME IInv, NoOverrides
  PROVE  MergedOK(Primaries, mem', index')
<1>1. \A i \in DOMAIN files : IsPrimary(i) BY DEF NoOverrides, IsPrimary, IsOverride
<1>2. {k \in DOMAIN files : IsPrimary(k)} = DOMAIN files BY <1>1
<1>3. PICK m : m = [mem EXCEPT !.effective =
                      [i \in {k \in DOMAIN files : IsPrimary(k)} |-> Parsed(i)]]
  OBVIOUS
<1>4. mem' = m BY <1>2, <1>3 DEF NoOverrides
<1>5. /\ Places(m) = Primaries
      /\ \A p \in Primaries : RefAt(m, p) = p /\ At(m, p) = Source(p)
  BY <1>3, StartPlaces DEF NoOverrides
<1>6. FilesOK BY DEF IInv
<1>7. LocalsOK(Primaries, m) /\ PlacesOK(m) BY <1>5, <1>6, StartLocals, StartPlacesOK
<1>8. ~Overriding BY DEF NoOverrides, Overriding
<1>9. index' = index /\ DOMAIN index.blocks = {} /\ DOMAIN index.locals = {}
  BY DEF NoOverrides, IInv
<1>10. MergedOK(Primaries, m, index) BY <1>7, <1>8, <1>9 DEF MergedOK
<1>11. QED BY <1>4, <1>9, <1>10

-----------------------------------------------------------------------------
(* The invariant: what has been merged is what has been read, and what is  *)
(* still to be read comes after it.                                        *)

MInv ==
  /\ IInv /\ ListingOK
  /\ pc # "index" => /\ MergedOK(Read, mem, index)
                     /\ \A q \in Read, r \in todo : Precedes(q, r)
  /\ pc = "done" => todo = {}

\* files is never assigned, so what is said of it carries over.
LEMMA SameOrder ==
  ASSUME files' = files
  PROVE  /\ Refs' = Refs /\ Primaries' = Primaries /\ (Overriding' <=> Overriding)
         /\ \A i : (IsPrimary(i)' <=> IsPrimary(i)) /\ (IsOverride(i)' <=> IsOverride(i))
         /\ \A r : Source(r)' = Source(r) /\ (IsRead(r)' <=> IsRead(r))
         /\ \A r, q : Precedes(r, q)' <=> Precedes(r, q)
         /\ ListingOK => ListingOK'
<1>1. Refs' = Refs BY DEF Refs
<1>2. \A i : (IsPrimary(i)' <=> IsPrimary(i)) /\ (IsOverride(i)' <=> IsOverride(i))
  BY DEF IsPrimary, IsOverride
<1>3. \A r : Source(r)' = Source(r) BY DEF Source
<1>4. \A r : IsRead(r)' <=> IsRead(r) BY <1>2, <1>3 DEF IsRead
<1>5. \A i, k : FilePrecedes(i, k)' <=> FilePrecedes(i, k) BY <1>2 DEF FilePrecedes
<1>6. \A r, q : Precedes(r, q)' <=> Precedes(r, q) BY <1>5 DEF Precedes
<1>7. Primaries' = Primaries BY <1>1, <1>2 DEF Primaries
<1>8. Overriding' <=> Overriding BY <1>2 DEF Overriding
<1>9. ListingOK => ListingOK' BY DEF ListingOK
<1>10. QED BY <1>1, <1>2, <1>3, <1>4, <1>6, <1>7, <1>8, <1>9

LEMMA SameMerged ==
  ASSUME files' = files, NEW R, Read' = R, MergedOK(R, mem', index')
  PROVE  MergedOK(Read, mem, index)'
<1>1. /\ Primaries' = Primaries /\ (Overriding' <=> Overriding)
      /\ \A i : (IsPrimary(i)' <=> IsPrimary(i)) /\ (IsOverride(i)' <=> IsOverride(i))
      /\ \A r : Source(r)' = Source(r) /\ (IsRead(r)' <=> IsRead(r))
      /\ \A r, q : Precedes(r, q)' <=> Precedes(r, q)
  BY SameOrder
<1>2. \A r, S : (IsFirst(r, S)' <=> IsFirst(r, S)) /\ (IsLast(r, S)' <=> IsLast(r, S))
  BY <1>1 DEF IsFirst, IsLast
<1>3. \A S, id : OfIn(S, id)' = OfIn(S, id) BY <1>1 DEF OfIn
<1>4. \A S, id : FoundingIn(S, id)' = FoundingIn(S, id) BY <1>1, <1>3 DEF FoundingIn
<1>5. \A S, id, b : HeardIn(S, id, b)' = HeardIn(S, id, b) BY <1>1, <1>3 DEF HeardIn
<1>6. \A S, id, n, b : SettersIn(S, id, n, b)' = SettersIn(S, id, n, b)
  BY <1>1, <1>5 DEF SettersIn
<1>7. \A S, id, attrs, b : ArgsOK(S, id, attrs, b)' <=> ArgsOK(S, id, attrs, b)
  BY <1>1, <1>2, <1>4, <1>6 DEF ArgsOK
<1>19. \A S, id, t, b : SuppliersIn(S, id, t, b)' = SuppliersIn(S, id, t, b)
  BY <1>1, <1>5 DEF SuppliersIn
<1>20. \A S, nested, t : PeersOK(S, nested, t)' <=> PeersOK(S, nested, t)
  BY <1>1, <1>2 DEF PeersOK
<1>21. \A S, id, nested, b : NestedOK(S, id, nested, b)' <=> NestedOK(S, id, nested, b)
  BY <1>1, <1>19, <1>20 DEF NestedOK
<1>22. \A S, id, block, b : Made(S, id, block, b)' <=> Made(S, id, block, b)
  BY <1>7, <1>21 DEF Made
<1>8. \A S, n : DefiningIn(S, n)' = DefiningIn(S, n) BY <1>1 DEF DefiningIn
<1>9. \A S, n : DefinitionsIn(S, n)' = DefinitionsIn(S, n) BY <1>1, <1>8 DEF DefinitionsIn
<1>10. \A S, n, p : CountingIn(S, n, p)' = CountingIn(S, n, p) BY <1>1, <1>8 DEF CountingIn
<1>11. \A S, p, n, v : LocalOK(S, p, n, v)' <=> LocalOK(S, p, n, v)
  BY <1>1, <1>2, <1>9, <1>10 DEF LocalOK
<1>12. Overriding => BlocksOK(Read, mem, index)'
  <2>1. ASSUME Overriding PROVE \A id : id # TerraformId => BlockOK(R, mem', index', id)
    BY <2>1 DEF MergedOK, BlocksOK
  <2>2. \A id : BlockOK(R, mem', index', id) => BlockOK(Read, mem, index, id)'
    BY <1>4, <1>22 DEF BlockOK, At, RefAt, BodyOf
  <2>3. QED BY <2>1, <2>2 DEF BlocksOK
<1>13. Overriding => LocalsIndex(Read, index)'
  BY <1>2, <1>9 DEF MergedOK, LocalsIndex
<1>14. LocalsOK(Read, mem)'
  <2>1. LocalsOK(R, mem') BY DEF MergedOK
  <2>2. QED BY <1>1, <1>11, <2>1 DEF LocalsOK, At, RefAt, BodyOf
<1>15. PlacesOK(mem)'
  BY <1>1 DEF MergedOK, PlacesOK, HomeOK, Places, At, RefAt, BodyOf
<1>16. (Primaries \subseteq Read)' BY <1>1 DEF MergedOK
<1>17. ~Overriding => (DOMAIN index.blocks = {} /\ DOMAIN index.locals = {})' BY DEF MergedOK
<1>18. QED BY <1>1, <1>12, <1>13, <1>14, <1>15, <1>16, <1>17 DEF MergedOK

LEMMA TurnMerges ==
  ASSUME MInv, pc = "apply", NEW r \in todo,
         OverrideLocals(r) \/ OverrideTerraform(r) \/ MergeBlock(r) \/ AddBlock(r) \/ SkipBlock(r)
  PROVE  MergedOK(Read \cup {r}, mem', index')
<1>1. /\ IInv /\ ListingOK /\ MergedOK(Read, mem, index) /\ \A q \in Read : Precedes(q, r)
  BY DEF MInv
<1>2. QED BY <1>1, LocalsMerges, TerraformMerges, MergeMerges, AddMerges, SkipMerges

LEMMA MergeInit == ASSUME ModulesAssumption, Init PROVE MInv
<1>1. IInv BY InitInv
<1>2. ListingOK
  <2>1. \A i \in DOMAIN files : \A j \in DOMAIN files[i].blocks : Deeper(files[i].blocks[j].nested)
    BY DEF Init, ModulesAssumption, Deep, Deeper
  <2>2. QED BY <2>1 DEF Init, ModulesAssumption, ListingOK
<1>3. pc = "index" BY DEF Init
<1>4. QED BY <1>1, <1>2, <1>3 DEF MInv

LEMMA MergeNext == ASSUME MInv, Next PROVE MInv'
<1>1. IInv' BY NextInv DEF MInv
<1>2. files' = files
  BY DEF Next, NoOverrides, IndexPrimary, OverrideLocals, OverrideTerraform, MergeBlock,
         AddBlock, SkipBlock, Turn, Finish
<1>3. ListingOK' BY <1>2, SameOrder DEF MInv
<1>4. /\ Refs' = Refs /\ \A r, q : Precedes(r, q)' <=> Precedes(r, q)
  BY <1>2, SameOrder
<1>5. Read' = Refs \ todo' BY <1>4 DEF Read
<1>6. \A i : IsPrimary(i) => ~IsOverride(i) BY DEF IsPrimary, IsOverride
<1>7. CASE NoOverrides
  <2>1. todo' = {} /\ IInv BY <1>7 DEF NoOverrides, MInv, IInv
  <2>2. Read' = Primaries
    BY <1>5, <1>7, <2>1, RefParts DEF NoOverrides, Primaries, IsPrimary, IsOverride, IInv
  <2>3. MergedOK(Read, mem, index)' BY <1>2, <1>7, <2>1, <2>2, NoOverridesMerges, SameMerged
  <2>4. QED BY <1>1, <1>3, <2>1, <2>3 DEF MInv
<1>8. CASE IndexPrimary
  <2>1. todo' = {r \in Refs : IsOverride(r[1])} /\ pc' = "apply" /\ IInv /\ ListingOK
    BY <1>8 DEF IndexPrimary, MInv
  <2>2. Read' = Primaries
    BY <1>5, <2>1, RefParts DEF Primaries, IsPrimary, IsOverride, IInv
  <2>3. MergedOK(Read, mem, index)' BY <1>2, <1>8, <2>1, <2>2, IndexPrimaryMerges, SameMerged
  <2>4. \A q \in Primaries, r \in todo' : Precedes(q, r)
    BY <1>6, <2>1 DEF Primaries, Precedes, FilePrecedes
  <2>5. (\A q \in Read, r \in todo : Precedes(q, r))' BY <1>4, <2>2, <2>4
  <2>6. QED BY <1>1, <1>3, <2>1, <2>3, <2>5 DEF MInv
<1>9. ASSUME NEW r \in todo,
             \/ OverrideLocals(r) \/ OverrideTerraform(r) \/ MergeBlock(r)
             \/ AddBlock(r) \/ SkipBlock(r)
      PROVE  MInv'
  <2>1. Turn(r)
    BY <1>9 DEF OverrideLocals, OverrideTerraform, MergeBlock, AddBlock, SkipBlock
  <2>2. pc = "apply" /\ pc' = "apply" /\ todo' = todo \ {r} /\ \A q \in todo' : Before(r, q)
    BY <2>1 DEF Turn
  <2>3. todo \subseteq {q \in Refs : IsOverride(q[1])} /\ FilesOK BY DEF MInv, IInv, TodoOK
  <2>4. Read' = Read \cup {r} BY <1>5, <2>2, <2>3 DEF Read
  <2>5. MergedOK(Read \cup {r}, mem', index') BY <1>9, <2>2, TurnMerges
  <2>6. MergedOK(Read, mem, index)' BY <1>2, <2>4, <2>5, SameMerged
  <2>7. \A q \in todo' : Precedes(r, q)
    BY <1>6, <2>2, <2>3 DEF Before, Precedes, FilePrecedes
  <2>8. \A p \in Read \cup {r}, q \in todo' : Precedes(p, q)
    BY <2>2, <2>7 DEF MInv
  <2>9. (\A p \in Read, q \in todo : Precedes(p, q))' BY <1>4, <2>4, <2>8
  <2>10. QED BY <1>1, <1>3, <2>2, <2>6, <2>9 DEF MInv
<1>10. CASE Finish
  <2>1. /\ mem' = mem /\ index' = index /\ todo' = todo /\ todo = {} /\ pc = "apply"
    BY <1>10 DEF Finish
  <2>2. Read' = Read BY <1>5, <2>1 DEF Read
  <2>3. MergedOK(Read, mem, index) BY <2>1 DEF MInv
  <2>4. MergedOK(Read, mem', index') BY <2>1, <2>3
  <2>5. MergedOK(Read, mem, index)' BY <1>2, <2>2, <2>4, SameMerged
  <2>6. QED BY <1>1, <1>3, <2>1, <2>5 DEF MInv
<1>11. QED BY <1>7, <1>8, <1>9, <1>10 DEF Next

LEMMA MergeStutters == ASSUME MInv, UNCHANGED vars PROVE MInv'
<1>1. files' = files /\ pc' = pc /\ mem' = mem /\ index' = index /\ todo' = todo
  BY DEF vars
<1>2. IInv' BY StutterInv DEF MInv
<1>3. ListingOK' /\ Refs' = Refs /\ \A r, q : Precedes(r, q)' <=> Precedes(r, q)
  BY <1>1, SameOrder DEF MInv
<1>4. Read' = Read BY <1>1, <1>3 DEF Read
<1>5. ASSUME pc # "index" PROVE MergedOK(Read, mem, index)'
  <2>1. MergedOK(Read, mem, index) BY <1>5 DEF MInv
  <2>2. MergedOK(Read, mem', index') BY <1>1, <2>1
  <2>3. QED BY <1>1, <1>4, <2>2, SameMerged
<1>6. pc # "index" => (\A q \in Read, r \in todo : Precedes(q, r))'
  BY <1>1, <1>3, <1>4 DEF MInv
<1>7. QED BY <1>1, <1>2, <1>3, <1>5, <1>6 DEF MInv

LEMMA MergeInvariant == Spec => []MInv
<1>1. Init => MInv BY ModulesAssumption, MergeInit
<1>2. MInv /\ [Next]_vars => MInv' BY MergeNext, MergeStutters
<1>3. QED BY <1>1, <1>2, PTL DEF Spec

-----------------------------------------------------------------------------
(* What the invariant says, in the words of the properties *)

\* The effective block of an identity is what its first block and the overrides
\* read so far make of it.
LEMMA MergedBlock ==
  ASSUME MInv, pc # "index", NEW id \in Merged
  PROVE  LET attrs == EffectiveBlock(id).attrs
         IN /\ Overriding /\ EffectiveBlock(id).type = id[1]
            /\ \A n : Setters(id, n) \subseteq Refs
            /\ \A n : Setters(id, n) # {} => \E r \in Contributors(id) : Has(Source(r).attrs, n)
            /\ \A n : Has(attrs, n) <=> Setters(id, n) # {}
            /\ \A n : Has(attrs, n) => /\ IsLast(LastOf(Setters(id, n)), Setters(id, n))
                                       /\ attrs[n] = Source(LastOf(Setters(id, n))).attrs[n]
<1> DEFINE attrs == EffectiveBlock(id).attrs
<1>1. FilesOK /\ ListingOK /\ MergedOK(Read, mem, index) /\ Read \subseteq Refs
      /\ IndexOK(mem, index)
  BY DEF MInv, IInv, Read
<1>2. id \in DOMAIN index.blocks /\ id # TerraformId BY DEF Merged, TerraformId
<1>3. Overriding /\ BlockOK(Read, mem, index, id) BY <1>1, <1>2 DEF MergedOK, BlocksOK
<1>4. PICK b : ArgsOK(Read, id, attrs, b) BY <1>2, <1>3 DEF BlockOK, Made, EffectiveBlock
<1>5. OfIn(Read, id) = Of(id) BY DEF OfIn, Of
<1>6. FoundingIn(Read, id) = Founding(id) BY <1>5 DEF FoundingIn, Founding
<1>7. Founding(id) \subseteq Refs BY <1>1 DEF Founding, Of
<1>8. Base(id) = b BY <1>1, <1>4, <1>6, <1>7, FirstIs DEF Base, ArgsOK
<1>9. HeardIn(Read, id, b) = Contributors(id) BY <1>5, <1>8 DEF HeardIn, Contributors
<1>10. \A n : SettersIn(Read, id, n, b) = Setters(id, n) BY <1>8, <1>9 DEF SettersIn, Setters
<1>11. b \in Contributors(id) /\ Contributors(id) \subseteq Refs
  BY <1>1, <1>4, <1>6, <1>7, <1>8 DEF Contributors, Of, ArgsOK, IsFirst
<1>12. \A n : Setters(id, n) \subseteq Contributors(id) BY <1>8, <1>11 DEF Setters
<1>13. \A n : Setters(id, n) # {} => \E r \in Contributors(id) : Has(Source(r).attrs, n)
  BY <1>12 DEF Setters
<1>14. EffectiveBlock(id).type = id[1]
  BY <1>1, <1>2, IdentityParts DEF IndexOK, EffectiveBlock
<1> HIDE DEF attrs
<1>15. ASSUME NEW n
       PROVE  /\ Has(attrs, n) <=> Setters(id, n) # {}
              /\ Has(attrs, n) => /\ IsLast(LastOf(Setters(id, n)), Setters(id, n))
                                  /\ attrs[n] = Source(LastOf(Setters(id, n))).attrs[n]
  <2>1. Has(attrs, n) <=> Setters(id, n) # {} BY <1>4, <1>10 DEF ArgsOK
  <2>2. ASSUME Has(attrs, n)
        PROVE  /\ IsLast(LastOf(Setters(id, n)), Setters(id, n))
               /\ attrs[n] = Source(LastOf(Setters(id, n))).attrs[n]
    <3>1. PICK l : IsLast(l, Setters(id, n)) /\ attrs[n] = Source(l).attrs[n]
      BY <1>4, <1>10, <2>2 DEF ArgsOK
    <3>2. LastOf(Setters(id, n)) = l BY <1>1, <1>11, <1>12, <3>1, LastIs
    <3>3. QED BY <3>1, <3>2
  <2>3. QED BY <2>1, <2>2
<1>16. QED BY <1>3, <1>11, <1>12, <1>13, <1>14, <1>15 DEF attrs

\* The effective value of a local.
LEMMA MergedLocal ==
  ASSUME MInv, pc # "index", NEW n, NEW p, IsFirst(p, Definitions(n))
  PROVE  /\ p \in Places(mem) /\ Has(At(mem, p).attrs, n)
         /\ At(mem, p).attrs[n] = LocalValue(n)
<1>1. FilesOK /\ ListingOK /\ MergedOK(Read, mem, index) /\ Read \subseteq Refs
  BY DEF MInv, IInv, Read
<1>2. Defining(n) = DefiningIn(Read, n) BY DEF Defining, DefiningIn
<1>3. Definitions(n) = DefinitionsIn(Read, n) BY <1>2 DEF Definitions, DefinitionsIn
<1>4. Defining(n) \subseteq Refs /\ Definitions(n) \subseteq Refs
  BY <1>1 DEF Defining, Definitions
<1>5. FirstOf(Definitions(n)) = p BY <1>1, <1>4, FirstIs
<1>6. p \in Primaries /\ Source(p).type = "locals" /\ Has(Source(p).attrs, n) /\ p \in Defining(n)
  BY <1>4 DEF IsFirst, Definitions, Defining, Primaries
<1>7. p \in Places(mem) BY <1>1, <1>6 DEF MergedOK, PlacesOK
<1>8. Has(At(mem, p).attrs, n) /\ LocalOK(Read, p, n, At(mem, p).attrs[n])
  BY <1>1, <1>6 DEF MergedOK, LocalsOK, Has
<1>9. PICK l : IsLast(l, CountingIn(Read, n, p)) /\ At(mem, p).attrs[n] = Source(l).attrs[n]
  BY <1>3, <1>8 DEF LocalOK
<1>10. CountingIn(Read, n, p) = {FirstOf(Definitions(n))} \cup {r \in Defining(n) : IsOverride(r[1])}
  BY <1>2, <1>5 DEF CountingIn
<1>11. CountingIn(Read, n, p) \subseteq Refs BY <1>4, <1>5, <1>6, <1>10
<1>12. LastOf(CountingIn(Read, n, p)) = l BY <1>1, <1>9, <1>11, LastIs
<1>13. At(mem, p).attrs[n] = LocalValue(n) BY <1>9, <1>10, <1>12 DEF LocalValue
<1>14. QED BY <1>7, <1>8, <1>13

\* After every turn, an argument of a merged block has the value of the last
\* block read that sets it (of the first block alone, for depends_on), and a
\* local that of its last override read, whatever the number of files, their
\* names and what they override (mergeEffectiveBlock and the loop over the
\* override blocks, effective.go 100-166).
THEOREM ArgumentsCorrect == Spec => []LastOverrideWins
<1>1. MInv => LastOverrideWins
  <2> SUFFICES ASSUME MInv, pc # "index" PROVE LastOverrideWins
    BY DEF LastOverrideWins
  <2>1. ASSUME NEW id \in Merged
        PROVE  LET attrs == EffectiveBlock(id).attrs
                   names == UNION {DOMAIN Source(r).attrs : r \in Contributors(id)}
               IN /\ DOMAIN attrs = {n \in names : Setters(id, n) # {}}
                  /\ \A n \in DOMAIN attrs : attrs[n] = Source(LastOf(Setters(id, n))).attrs[n]
    <3> DEFINE attrs == EffectiveBlock(id).attrs
               names == UNION {DOMAIN Source(r).attrs : r \in Contributors(id)}
    <3>1. /\ \A n : Has(attrs, n) <=> Setters(id, n) # {}
          /\ \A n : Setters(id, n) # {} => \E r \in Contributors(id) : Has(Source(r).attrs, n)
          /\ \A n : Has(attrs, n) => attrs[n] = Source(LastOf(Setters(id, n))).attrs[n]
      BY MergedBlock
    <3>2. \A n : Setters(id, n) # {} => n \in names BY <3>1 DEF Has
    <3> HIDE DEF attrs, names
    <3>3. DOMAIN attrs = {n \in names : Setters(id, n) # {}} BY <3>1, <3>2 DEF Has
    <3>4. QED BY <3>1, <3>3 DEF Has, attrs, names
  <2>2. ASSUME NEW n \in DOMAIN index.locals
        PROVE  At(mem, index.locals[n]).attrs[n] = LocalValue(n)
    <3>1. LocalsIndex(Read, index) BY <2>2 DEF MInv, MergedOK
    <3>2. DefinitionsIn(Read, n) = Definitions(n)
      BY DEF DefinitionsIn, DefiningIn, Definitions, Defining
    <3>3. IsFirst(index.locals[n], Definitions(n)) BY <2>2, <3>1, <3>2 DEF LocalsIndex
    <3>4. QED BY <3>3, MergedLocal
  <2>3. pc = "done" => Read = Refs BY DEF MInv, Read
  <2>4. QED BY <2>1, <2>2, <2>3 DEF LastOverrideWins
<1>2. QED BY <1>1, MergeInvariant, PTL

\* The nested blocks of an effective block, by the last that supplies each type.
LEMMA MergedNested ==
  ASSUME MInv, pc # "index", NEW id \in Merged, id[1] # "terraform"
  PROVE  LET nested == EffectiveBlock(id).nested
             own == Source(Base(id)).nested
             fixed == FixedBlocks(id[1])
         IN /\ Deep(nested) /\ Contributors(id) \subseteq Refs
            /\ \A t : t \notin Special(id[1]) \cup fixed =>
                 IF Suppliers(id, t) = {} THEN Peers(nested, t) = << >>
                 ELSE /\ LastOf(Suppliers(id, t)) \in Suppliers(id, t)
                      /\ Peers(nested, t) = Peers(Source(LastOf(Suppliers(id, t))).nested, t)
            /\ OfType(nested, fixed) = OfType(own, fixed)
            /\ id[1] = "resource" /\ Len(Peers(own, "lifecycle")) <= 1 =>
                 Rules(nested) = Rules(own)
<1> DEFINE nested == EffectiveBlock(id).nested
           fixed == FixedBlocks(id[1])
<1>1. FilesOK /\ ListingOK /\ MergedOK(Read, mem, index) /\ Read \subseteq Refs
  BY DEF MInv, IInv, Read
<1>2. id \in DOMAIN index.blocks /\ id # TerraformId BY DEF Merged, TerraformId
<1>3. Overriding /\ BlockOK(Read, mem, index, id) BY <1>1, <1>2 DEF MergedOK, BlocksOK
<1>4. PICK b : Made(Read, id, EffectiveBlock(id), b)
  BY <1>2, <1>3 DEF BlockOK, EffectiveBlock
<1>5. OfIn(Read, id) = Of(id) BY DEF OfIn, Of
<1>6. FoundingIn(Read, id) = Founding(id) BY <1>5 DEF FoundingIn, Founding
<1>7. Founding(id) \subseteq Refs BY <1>1 DEF Founding, Of
<1>8. IsFirst(b, Founding(id)) BY <1>4, <1>6 DEF Made, ArgsOK
<1>9. Base(id) = b BY <1>1, <1>7, <1>8, FirstIs DEF Base
<1>10. HeardIn(Read, id, b) = Contributors(id) BY <1>5, <1>9 DEF HeardIn, Contributors
<1>11. Contributors(id) \subseteq Refs
  BY <1>1, <1>7, <1>8, <1>9 DEF Contributors, Of, IsFirst
<1>12. \A t : SuppliersIn(Read, id, t, b) = Suppliers(id, t)
  BY <1>10 DEF SuppliersIn, Suppliers
<1> HIDE DEF nested
<1>13. NestedOK(Read, id, nested, b) BY <1>4 DEF Made, nested
<1>14. ASSUME NEW t, t \notin Special(id[1]) \cup fixed, Suppliers(id, t) # {}
       PROVE  /\ LastOf(Suppliers(id, t)) \in Suppliers(id, t)
              /\ Peers(nested, t) = Peers(Source(LastOf(Suppliers(id, t))).nested, t)
  <2>1. PICK l : IsLast(l, Suppliers(id, t)) /\ Peers(nested, t) = Peers(Source(l).nested, t)
    BY <1>12, <1>13, <1>14 DEF NestedOK, PeersOK
  <2>2. Suppliers(id, t) \subseteq Refs BY <1>11 DEF Suppliers
  <2>3. LastOf(Suppliers(id, t)) = l BY <1>1, <2>1, <2>2, LastIs
  <2>4. QED BY <2>1, <2>3 DEF IsLast
<1>15. ASSUME NEW t, t \notin Special(id[1]) \cup fixed, Suppliers(id, t) = {}
       PROVE  Peers(nested, t) = << >>
  BY <1>12, <1>13, <1>15 DEF NestedOK, PeersOK
<1>16. Deep(nested) /\ OfType(nested, fixed) = OfType(Source(b).nested, fixed)
  BY <1>13 DEF NestedOK
<1>17. id[1] = "resource" /\ Len(Peers(Source(b).nested, "lifecycle")) <= 1 =>
         Rules(nested) = Rules(Source(b).nested)
  BY <1>13 DEF NestedOK
<1>18. QED BY <1>9, <1>11, <1>14, <1>15, <1>16, <1>17 DEF nested

\* After every turn, the nested blocks of a type are together those of the last
\* block read that supplies any of it, a dynamic block counting as the type it
\* generates, the types an override may not touch are the first block's, and a
\* resource's check rules are its first block's (mergeBody, mergeLifecycle and
\* restoreForbiddenNestedBlocks, effective.go 528-705), whatever the blocks.
THEOREM NestedCorrect == Spec => []NestedTogether
<1>1. MInv => NestedTogether
  <2> SUFFICES ASSUME MInv, pc # "index", NEW id \in {x \in Merged : x[1] # "terraform"}
               PROVE  LET fixed == FixedBlocks(id[1])
                          apart == Special(id[1]) \cup fixed
                          nested == EffectiveBlock(id).nested
                          base == Source(Base(id)).nested
                          types == UNION {TypesIn(Source(r).nested) : r \in Contributors(id)}
                      IN /\ TypesIn(nested) \ apart = types \ apart
                         /\ \A t \in types \ apart :
                              Peers(nested, t) = Peers(Source(LastOf(Suppliers(id, t))).nested, t)
                         /\ OfType(nested, fixed) = OfType(base, fixed)
                         /\ id[1] = "resource" /\ Len(Peers(base, "lifecycle")) <= 1 =>
                              Rules(nested) = Rules(base)
    BY DEF NestedTogether
  <2> DEFINE fixed == FixedBlocks(id[1])
             apart == Special(id[1]) \cup fixed
             nested == EffectiveBlock(id).nested
             types == UNION {TypesIn(Source(r).nested) : r \in Contributors(id)}
             Latest(t) == LastOf(Suppliers(id, t))
  <2>1. ListingOK BY DEF MInv
  <2>2. /\ Deep(nested) /\ Contributors(id) \subseteq Refs
        /\ \A t : t \notin apart =>
             IF Suppliers(id, t) = {} THEN Peers(nested, t) = << >>
             ELSE Latest(t) \in Suppliers(id, t) /\ Peers(nested, t) = Peers(Source(Latest(t)).nested, t)
    BY MergedNested
  <2>3. \A t : Suppliers(id, t) # {} <=> t \in types BY DEF Suppliers
  <2> HIDE DEF nested
  <2>4. ASSUME NEW t, t \notin apart PROVE t \in TypesIn(nested) <=> t \in types
    <3>1. nested \in Seq(ToSet(nested)) BY <2>2 DEF Deep, Listed
    <3>2. Peers(nested, t) # << >> <=> t \in TypesIn(nested) BY <3>1, PeersIn
    <3>3. CASE Suppliers(id, t) = {} BY <2>2, <2>3, <2>4, <3>2, <3>3
    <3>4. CASE Suppliers(id, t) # {}
      <4> DEFINE l == Latest(t)
                 own == Source(l).nested
      <4>1. l \in Suppliers(id, t) /\ Peers(nested, t) = Peers(own, t) BY <2>2, <2>4, <3>4
      <4>2. l \in Refs /\ t \in TypesIn(own) BY <2>2, <4>1 DEF Suppliers
      <4>3. own \in Seq(ToSet(own)) BY <2>1, <4>2, SourceNested DEF Deep, Listed
      <4> HIDE DEF own
      <4>4. Peers(own, t) # << >> BY <4>2, <4>3, PeersIn
      <4>5. QED BY <2>3, <3>2, <3>4, <4>1, <4>4
    <3>5. QED BY <3>3, <3>4
  <2> HIDE DEF types, apart
  <2>5. TypesIn(nested) \ apart = types \ apart BY <2>4
  <2>6. \A t \in types \ apart : Peers(nested, t) = Peers(Source(Latest(t)).nested, t)
    BY <2>2, <2>3
  <2>7. QED BY <2>5, <2>6, MergedNested DEF nested, types, apart
<1>2. QED BY <1>1, MergeInvariant, PTL

-----------------------------------------------------------------------------
(* What the module's terraform blocks are after the overrides in R.        *)

TerraformsIn(R) == {r \in R : IsOverride(r[1]) /\ IsTerraform(Source(r))}
SelectingIn(R) == {r \in TerraformsIn(R) : OfType(Source(r).nested, Storage) # << >>}
NamingIn(R, n) == {r \in TerraformsIn(R) : Requiring(Source(r).nested, n) # << >>}
StaticIn(R) == \A r \in TerraformsIn(R) : StaticBody(Source(r).nested)

BodiesAt(m, s) == [i \in DOMAIN s |-> At(m, s[i])]

\* The selections as they were written, or the last override's that makes any,
\* in the first block.
AsWritten(p) == IF PrimaryTerraforms = {} THEN << >> ELSE OfType(Source(p).nested, Storage)
SelectionIn(R, bs, s) ==
  IF SelectingIn(R) = {} THEN \A i \in DOMAIN s : OfType(bs[i].nested, Storage) = AsWritten(s[i])
  ELSE \E l : /\ IsLast(l, SelectingIn(R))
              /\ \A i \in DOMAIN s : OfType(bs[i].nested, Storage) =
                                       IF i = 1 THEN OfType(Source(l).nested, Storage) ELSE << >>
ProvidersIn(R, bs) ==
  \A n : NamingIn(R, n) # {} =>
    \E l : IsLast(l, NamingIn(R, n)) /\ OnceIn(bs, n, Last(Requiring(Source(l).nested, n)).attrs[n])

Settled(R, bs, s) ==
  /\ DOMAIN s = DOMAIN bs /\ \E n : Bodies(bs, n)
  /\ SelectionIn(R, bs, s) /\ ProvidersIn(R, bs)

TerraformOK(R, m, T) ==
  /\ IsFiniteSet(T)
  /\ IF ~Overriding THEN T = {} ELSE PrimaryTerraforms # {} => T = PrimaryTerraforms
  /\ T = {} => TerraformsIn(R) = {}
  /\ T # {} /\ StaticIn(R) => Settled(R, BodiesAt(m, InOrder(T)), InOrder(T))

LEMMA LastAdded ==
  ASSUME NEW R, NEW r, Follows(r, R), NEW S, S \subseteq R
  PROVE  IsLast(r, S \cup {r})
BY DEF IsLast, Follows

\* Bodies that have the same blocks are settled the same way.
LEMMA SettledSame ==
  ASSUME NEW R, NEW bs, NEW cs, NEW s, Settled(R, bs, s), DOMAIN cs = DOMAIN bs,
         \A i \in DOMAIN bs : IsBlock(cs[i]) /\ cs[i].nested = bs[i].nested
  PROVE  Settled(R, cs, s)
<1>1. PICK n : Bodies(bs, n) BY DEF Settled
<1>2. Bodies(cs, n) BY <1>1 DEF Bodies
<1>3. SelectionIn(R, cs, s) BY DEF Settled, SelectionIn
<1>4. \A m, v : OnceIn(bs, m, v) => OnceIn(cs, m, v) BY DEF OnceIn
<1>5. ProvidersIn(R, cs) BY <1>4 DEF Settled, ProvidersIn
<1>6. QED BY <1>2, <1>3, <1>5 DEF Settled

\* One more override.
LEMMA SettledNext ==
  ASSUME FilesOK, ListingOK, NEW R, NEW r, Follows(r, R), IsTerraform(Source(r)),
         StaticBody(Source(r).nested), NEW bs, NEW s, Settled(R, bs, s)
  PROVE  Settled(R \cup {r}, TerraformOverride(bs, Source(r)), s)
<1> DEFINE over == Source(r)
           cs == TerraformOverride(bs, over)
           Q == R \cup {r}
           o == OfType(over.nested, Storage)
<1>1. IsOverride(r[1]) /\ r \in Refs /\ r \notin R
  BY NotYetRead DEF Follows
<1>2. Listed(over.nested) BY <1>1, SourceNested DEF Deep
<1>3. PICK n : Bodies(bs, n) BY DEF Settled
<1>4. DOMAIN bs = 1..n /\ DOMAIN s = 1..n BY <1>3 DEF Bodies, Settled
<1>5. Bodies(cs, n) /\ StorageOver(bs, cs, over, n) /\ NamesOver(bs, cs, over)
  BY <1>2, <1>3, OverrideDoes
<1>6. DOMAIN cs = 1..n BY <1>5 DEF Bodies
<1>7. TerraformsIn(Q) = TerraformsIn(R) \cup {r} /\ TerraformsIn(R) \subseteq R
  BY <1>1 DEF TerraformsIn
<1> HIDE DEF cs, Q
<1>8. SelectionIn(Q, cs, s)
  <2>1. \A i \in 1..n : OfType(cs[i].nested, Storage) =
           IF o = << >> THEN OfType(bs[i].nested, Storage) ELSE IF i = 1 THEN o ELSE << >>
    BY <1>5 DEF StorageOver
  <2>2. CASE o = << >>
    <3>1. SelectingIn(Q) = SelectingIn(R) BY <1>7, <2>2 DEF SelectingIn
    <3>2. SelectionIn(R, bs, s) BY DEF Settled
    <3>3. \A i \in 1..n : OfType(cs[i].nested, Storage) = OfType(bs[i].nested, Storage)
      BY <2>1, <2>2
    <3> HIDE DEF o, over
    <3>4. QED BY <1>4, <3>1, <3>2, <3>3 DEF SelectionIn
  <2>3. CASE o # << >>
    <3>1. SelectingIn(Q) = SelectingIn(R) \cup {r} /\ SelectingIn(R) \subseteq R
      BY <1>7, <2>3 DEF SelectingIn
    <3>2. IsLast(r, SelectingIn(Q)) BY <3>1, LastAdded
    <3>3. SelectingIn(Q) # {} BY <3>1
    <3>4. \A i \in 1..n : OfType(cs[i].nested, Storage) = IF i = 1 THEN o ELSE << >>
      BY <2>1, <2>3
    <3>5. \A i \in DOMAIN s : OfType(cs[i].nested, Storage) =
                                IF i = 1 THEN OfType(Source(r).nested, Storage) ELSE << >>
      BY <1>4, <3>4
    <3>6. QED BY <3>2, <3>3, <3>5 DEF SelectionIn
  <2>4. QED BY <2>2, <2>3
<1>9. ASSUME NEW m, NamingIn(Q, m) # {}
      PROVE  \E l : /\ IsLast(l, NamingIn(Q, m))
                    /\ OnceIn(cs, m, Last(Requiring(Source(l).nested, m)).attrs[m])
  <2> DEFINE q == Requiring(over.nested, m)
  <2>1. IF q # << >> THEN OnceIn(cs, m, Last(q).attrs[m])
        ELSE \A v : OnceIn(bs, m, v) => OnceIn(cs, m, v)
    BY <1>5 DEF NamesOver
  <2>2. CASE q = << >>
    <3>1. NamingIn(Q, m) = NamingIn(R, m) BY <1>7, <2>2 DEF NamingIn
    <3>2. PICK l : /\ IsLast(l, NamingIn(R, m))
                   /\ OnceIn(bs, m, Last(Requiring(Source(l).nested, m)).attrs[m])
      BY <1>9, <3>1 DEF Settled, ProvidersIn
    <3>3. \A v : OnceIn(bs, m, v) => OnceIn(cs, m, v) BY <2>1, <2>2
    <3>4. OnceIn(cs, m, Last(Requiring(Source(l).nested, m)).attrs[m]) BY <3>2, <3>3
    <3>5. QED BY <3>1, <3>2, <3>4
  <2>3. CASE q # << >>
    <3>1. NamingIn(Q, m) = NamingIn(R, m) \cup {r} /\ NamingIn(R, m) \subseteq R
      BY <1>7, <2>3 DEF NamingIn
    <3>2. IsLast(r, NamingIn(Q, m)) BY <3>1, LastAdded
    <3>3. OnceIn(cs, m, Last(Requiring(Source(r).nested, m)).attrs[m]) BY <2>1, <2>3
    <3>4. QED BY <3>2, <3>3
  <2>4. QED BY <2>2, <2>3
<1>10. ProvidersIn(Q, cs) BY <1>9 DEF ProvidersIn
<1>11. QED BY <1>4, <1>5, <1>6, <1>8, <1>10 DEF Settled, cs, Q

\* A turn of another block changes none of the terraform blocks.
LEMMA TerraformsStay ==
  ASSUME NEW R, NEW r, ~IsTerraform(Source(r)), NEW m, NEW n, NEW T, TerraformOK(R, m, T),
         IsFiniteSet(T) => \A i \in DOMAIN InOrder(T) : At(n, InOrder(T)[i]) = At(m, InOrder(T)[i])
  PROVE  TerraformOK(R \cup {r}, n, T)
<1> DEFINE Q == R \cup {r}
<1>1. TerraformsIn(Q) = TerraformsIn(R) BY DEF TerraformsIn
<1>2. SelectingIn(Q) = SelectingIn(R) BY <1>1 DEF SelectingIn
<1>3. \A l : NamingIn(Q, l) = NamingIn(R, l) BY <1>1 DEF NamingIn
<1>4. StaticIn(Q) <=> StaticIn(R) BY <1>1 DEF StaticIn
<1>5. BodiesAt(n, InOrder(T)) = BodiesAt(m, InOrder(T)) BY DEF TerraformOK, BodiesAt
<1> HIDE DEF Q
<1>6. \A bs, s : SelectionIn(Q, bs, s) <=> SelectionIn(R, bs, s) BY <1>2 DEF SelectionIn
<1>7. \A bs : ProvidersIn(Q, bs) <=> ProvidersIn(R, bs) BY <1>3 DEF ProvidersIn
<1>8. \A bs, s : Settled(Q, bs, s) <=> Settled(R, bs, s) BY <1>6, <1>7 DEF Settled
<1>9. QED BY <1>1, <1>4, <1>5, <1>8 DEF TerraformOK, Q

\* An empty block to apply the first override to.
LEMMA SettledSeed ==
  ASSUME NEW R, TerraformsIn(R) = {}, PrimaryTerraforms = {},
         NEW bs, NEW s, DOMAIN s = 1..1, DOMAIN bs = 1..1, IsBlock(bs[1]), bs[1].nested = << >>
  PROVE  Settled(R, bs, s)
<1>1. SelectingIn(R) = {} /\ \A n : NamingIn(R, n) = {} BY DEF SelectingIn, NamingIn
<1>2. Listed(<< >>)
  <2>1. << >> \in Seq(ToSet(<< >>)) OBVIOUS
  <2>2. ToSet(<< >>) = {} BY DEF ToSet
  <2>3. QED BY <2>1, <2>2 DEF Listed
<1>3. \A i \in 1..1 : i = 1 OBVIOUS
<1>4. Bodies(bs, 1) BY <1>2, <1>3 DEF Bodies
<1>5. OfType(<< >>, Storage) = << >>
  <2>1. << >> \in Seq({}) OBVIOUS
  <2>2. OfType(<< >>, Storage) = Kept(<< >>, Typed({}, Storage)) BY <2>1, SelectionsKeep
  <2>3. QED BY <2>2, KeptEmpty
<1>6. SelectionIn(R, bs, s) BY <1>1, <1>3, <1>5 DEF SelectionIn, AsWritten
<1>7. ProvidersIn(R, bs) BY <1>1 DEF ProvidersIn
<1>8. QED BY <1>4, <1>6, <1>7 DEF Settled

\* What is where after the turn of an override.
LEMMA AfterTurn ==
  ASSUME NEW m, NEW places \in SUBSET (Nat \X Nat), IsFiniteSet(places), NEW over,
         NEW i \in DOMAIN InOrder(places), IsBlock(At(m, InOrder(places)[i]))
  PROVE  LET s == InOrder(places)
             b == TerraformsAfter(m, places, over)[s[i]]
         IN IsBlock(b) /\ b.nested = TerraformOverride(BodiesAt(m, s), over)[i].nested
<1> DEFINE s == InOrder(places)
           new == TerraformOverride(BodiesAt(m, s), over)
           Nth(p) == CHOOSE k \in DOMAIN s : s[k] = p
           b == TerraformsAfter(m, places, over)[s[i]]
<1>1. s[i] \in places /\ \A k, j \in DOMAIN s : s[k] = s[j] => k = j BY OrderedPlaces
<1>2. Nth(s[i]) = i BY <1>1
<1>3. new = TerraformOverride([k \in DOMAIN s |-> At(m, s[k])], over) BY DEF BodiesAt
<1>4. b = [At(m, s[i]) EXCEPT !.attrs = new[Nth(s[i])].attrs, !.nested = new[Nth(s[i])].nested]
  BY <1>1, <1>3 DEF TerraformsAfter
<1> HIDE DEF s, new, Nth, b
<1>5. b = [At(m, s[i]) EXCEPT !.attrs = new[i].attrs, !.nested = new[i].nested] BY <1>2, <1>4
<1>6. IsBlock(At(m, s[i])) BY DEF s
<1> DEFINE c == At(m, s[i])
<1> HIDE DEF c
<1>7. IsBlock(b) /\ b.nested = new[i].nested
  <2>1. IsBlock(c) /\ b = [c EXCEPT !.attrs = new[i].attrs, !.nested = new[i].nested]
    BY <1>5, <1>6 DEF c
  <2>2. QED BY <2>1 DEF IsBlock
<1>8. QED BY <1>7 DEF s, new, b

LEMMA TerraformTurns ==
  ASSUME IInv, ListingOK, NEW R, NEW r \in todo, OverrideTerraform(r), Follows(r, R),
         Block(r) = Source(r), Overriding, TerraformOK(R, mem, index.terraform)
  PROVE  TerraformOK(R \cup {r}, mem', index'.terraform)
<1> DEFINE Q == R \cup {r}
<1>1. /\ FilesOK /\ IsTerraform(Source(r)) /\ IsOverride(r[1]) /\ r \notin R
      /\ Good(mem', todo') /\ \E m, places : TerraformTurn(r, m, places)
  BY OverrideTerraformKeeps, NotYetRead DEF OverrideTerraform, IInv, Follows
<1>2. PICK m, places : TerraformTurn(r, m, places) BY <1>1
<1> DEFINE s == InOrder(places)
           bs == BodiesAt(m, s)
           cs == TerraformOverride(bs, Source(r))
           new == BodiesAt(mem', s)
<1>3. /\ index'.terraform = places
      /\ \A p \in places : /\ p \in Places(m) /\ p \in Places(mem') /\ IsBlock(At(m, p))
                           /\ At(mem', p) = TerraformsAfter(m, places, Source(r))[p]
  BY <1>2 DEF TerraformTurn
<1>4. places \in SUBSET (Nat \X Nat)
  <2>1. Places(mem') \subseteq Nat \X Nat BY <1>1, PlacesNatural
  <2>2. QED BY <1>3, <2>1
<1>5. /\ IsFiniteSet(places) /\ places # {}
      /\ PrimaryTerraforms # {} => places = PrimaryTerraforms
  <2>1. CASE index.terraform = {}
    <3>1. PrimaryTerraforms = {} BY <2>1 DEF TerraformOK
    <3>2. PICK p : places = {p} BY <1>2, <2>1 DEF TerraformTurn
    <3>3. QED BY <3>1, <3>2, FS_Singleton
  <2>2. CASE index.terraform # {}
    <3>1. places = index.terraform BY <1>2, <2>2 DEF TerraformTurn
    <3>2. QED BY <2>2, <3>1 DEF TerraformOK
  <2>3. QED BY <2>1, <2>2
<1>6. /\ DOMAIN s = 1..Cardinality(places)
      /\ \A i \in DOMAIN s : s[i] \in places
  BY <1>4, <1>5, OrderedPlaces
<1>7. TerraformsIn(Q) = TerraformsIn(R) \cup {r} BY <1>1 DEF TerraformsIn
<1>8. ASSUME StaticIn(Q) PROVE Settled(Q, new, s)
  <2>1. StaticIn(R) /\ StaticBody(Source(r).nested) BY <1>7, <1>8 DEF StaticIn
  <2>2. Settled(R, bs, s)
    <3>1. CASE index.terraform # {}
      <4>1. m = mem /\ places = index.terraform BY <1>2, <3>1 DEF TerraformTurn
      <4>2. QED BY <2>1, <3>1, <4>1 DEF TerraformOK
    <3>2. CASE index.terraform = {}
      <4>1. PICK p : places = {p} /\ At(m, p).nested = << >>
        BY <1>2, <3>2 DEF TerraformTurn
      <4>2. Cardinality(places) = 1 BY <4>1, FS_Singleton
      <4>3. DOMAIN s = 1..1 /\ s[1] = p
        <5> HIDE DEF s
        <5>1. DOMAIN s = 1..1 BY <1>6, <4>2
        <5>2. 1 \in DOMAIN s BY <5>1
        <5>3. QED BY <1>6, <4>1, <5>1, <5>2
      <4>4. DOMAIN bs = 1..1 /\ bs[1] = At(m, p) BY <4>3 DEF BodiesAt
      <4>5. TerraformsIn(R) = {} /\ PrimaryTerraforms = {} BY <3>2 DEF TerraformOK
      <4>6. IsBlock(bs[1]) /\ bs[1].nested = << >> BY <1>3, <4>1, <4>4
      <4> HIDE DEF s, bs
      <4>7. QED BY <4>3, <4>4, <4>5, <4>6, SettledSeed
    <3>3. QED BY <3>1, <3>2
  <2>3. Settled(Q, cs, s)
    <3> HIDE DEF bs, s
    <3>1. QED BY <1>1, <2>1, <2>2, SettledNext
  <2>4. DOMAIN cs = DOMAIN s BY <2>3 DEF Settled
  <2>5. ASSUME NEW i \in DOMAIN s PROVE IsBlock(new[i]) /\ new[i].nested = cs[i].nested
    <3>1. IsBlock(At(m, s[i])) /\ At(mem', s[i]) = TerraformsAfter(m, places, Source(r))[s[i]]
      BY <1>3, <1>6
    <3> DEFINE b == TerraformsAfter(m, places, Source(r))[s[i]]
    <3>2. IsBlock(b) /\ b.nested = cs[i].nested BY <1>4, <1>5, <3>1, AfterTurn
    <3>3. new[i] = b BY <3>1 DEF BodiesAt
    <3> HIDE DEF b, new, cs
    <3>4. QED BY <3>2, <3>3
  <2>6. DOMAIN new = DOMAIN s BY DEF BodiesAt
  <2> HIDE DEF new, cs, s
  <2>7. QED BY <2>3, <2>4, <2>5, <2>6, SettledSame
<1>9. QED BY <1>3, <1>5, <1>8 DEF TerraformOK

\* A turn that overrides no terraform block leaves them where and what they are.
LEMMA TerraformsLeft ==
  ASSUME MInv, pc = "apply", NEW r \in todo,
         OverrideLocals(r) \/ MergeBlock(r) \/ AddBlock(r) \/ SkipBlock(r)
  PROVE  /\ ~IsTerraform(Source(r)) /\ index'.terraform = index.terraform
         /\ \A p \in index.terraform : At(mem', p) = At(mem, p)
<1>1. Turn(r) BY DEF OverrideLocals, MergeBlock, AddBlock, SkipBlock
<1>2. /\ IInv /\ ListingOK /\ MergedOK(Read, mem, index) /\ \A q \in Read : Precedes(q, r)
  BY DEF MInv
<1>3. /\ Block(r) = Source(r) /\ Overriding /\ LocalsIndex(Read, index) /\ PlacesOK(mem)
      /\ \A id \in DOMAIN index.blocks : Identity(At(mem, index.blocks[id])) = id
  BY <1>1, <1>2, AtMerge
<1>4. /\ DOMAIN index = {"blocks", "terraform", "locals"}
      /\ \A p \in index.terraform : p \in Places(mem) /\ IsTerraform(At(mem, p))
      /\ \A n \in DOMAIN index.locals : At(mem, index.locals[n]).type = "locals"
  BY <1>1, <1>2, AtTurn DEF IndexOK
<1>5. CASE OverrideLocals(r)
  <2> DEFINE values == Only(Block(r).attrs, DOMAIN index.locals)
  <2>1. Source(r).type = "locals" /\ index' = index BY <1>3, <1>5 DEF OverrideLocals
  <2>2. DOMAIN values \subseteq DOMAIN index.locals BY DEF Only
  <2>3. \A n \in DOMAIN index.locals : IsPrimary(index.locals[n][1])
    BY <1>3 DEF LocalsIndex, IsFirst, DefinitionsIn
  <2>4. \A n \in DOMAIN values : IsPrimary(index.locals[n][1]) BY <2>2, <2>3
  <2>5. HomeOK(mem) BY <1>3 DEF PlacesOK
  <2>6. \A p \in Places(mem) : At(mem', p) = IF \E n \in DOMAIN values : index.locals[n] = p
                                             THEN Written(mem, values, p) ELSE At(mem, p)
    BY <1>2, <1>5, <2>4, <2>5, OverrideLocalsKeeps
  <2> HIDE DEF values
  <2>7. \A p \in index.terraform : p \in Places(mem) /\ \A n \in DOMAIN values : index.locals[n] # p
    BY <1>4, <2>2 DEF IsTerraform
  <2>8. \A p \in index.terraform : At(mem', p) = At(mem, p) BY <2>6, <2>7
  <2>9. QED BY <2>1, <2>8 DEF IsTerraform
<1>6. CASE MergeBlock(r)
  <2> DEFINE place == index.blocks[Identity(Block(r))]
  <2>1. ~IsTerraform(Source(r)) /\ index' = index /\ Identity(Block(r)) \in DOMAIN index.blocks
    BY <1>3, <1>6 DEF MergeBlock, IsNamed, Matched
  <2>2. ~IsTerraform(At(mem, place)) BY <1>3, <2>1, TerraformIdentity
  <2>3. \A p \in Places(mem) :
          At(mem', p) = IF p = place THEN MergeTopLevel(At(mem, p), Block(r), OpenTofu)
                        ELSE At(mem, p)
    BY <1>2, <1>6, MergeBlockKeeps
  <2> HIDE DEF place
  <2>4. QED BY <1>4, <2>1, <2>2, <2>3
<1>7. CASE AddBlock(r)
  <2>1. ~IsTerraform(Source(r)) BY <1>3, <1>7 DEF AddBlock, IsNamed
  <2>2. \A p \in Places(mem) : At(mem', p) = At(mem, p) BY <1>2, <1>7, AddBlockKeeps
  <2>3. \E b : index' = [index EXCEPT !.blocks = b] BY <1>7 DEF AddBlock
  <2>4. index'.terraform = index.terraform BY <1>4, <2>3
  <2>5. QED BY <1>4, <2>1, <2>2, <2>4
<1>8. CASE SkipBlock(r)
  <2>1. mem' = mem /\ index' = index BY <1>8 DEF SkipBlock
  <2>2. ~IsTerraform(Source(r))
    BY <1>3, <1>8 DEF SkipBlock, IsNamed, Forbidden, IsTerraform
  <2>3. QED BY <2>1, <2>2
<1>9. QED BY <1>5, <1>6, <1>7, <1>8

LEMMA TurnSettles ==
  ASSUME MInv, pc = "apply", NEW r \in todo, TerraformOK(Read, mem, index.terraform),
         OverrideLocals(r) \/ OverrideTerraform(r) \/ MergeBlock(r) \/ AddBlock(r) \/ SkipBlock(r)
  PROVE  TerraformOK(Read \cup {r}, mem', index'.terraform)
<1>1. Turn(r) BY DEF OverrideLocals, OverrideTerraform, MergeBlock, AddBlock, SkipBlock
<1>2. /\ IInv /\ ListingOK /\ MergedOK(Read, mem, index) /\ \A q \in Read : Precedes(q, r)
  BY DEF MInv
<1>3. Follows(r, Read) /\ Block(r) = Source(r) /\ Overriding BY <1>1, <1>2, AtMerge
<1>4. CASE OverrideTerraform(r) BY <1>2, <1>3, <1>4, TerraformTurns
<1>5. CASE OverrideLocals(r) \/ MergeBlock(r) \/ AddBlock(r) \/ SkipBlock(r)
  <2> DEFINE T == index.terraform
             s == InOrder(T)
  <2>1. /\ ~IsTerraform(Source(r)) /\ index'.terraform = T
        /\ \A p \in T : At(mem', p) = At(mem, p)
    BY <1>5, TerraformsLeft
  <2>2. T \in SUBSET (Nat \X Nat)
    <3>1. FilesOK /\ Good(mem, todo) /\ IndexOK(mem, index) BY <1>2 DEF IInv
    <3>2. Places(mem) \subseteq Nat \X Nat BY <3>1, PlacesNatural
    <3>3. QED BY <3>1, <3>2 DEF IndexOK
  <2>3. TerraformOK(Read, mem, T) OBVIOUS
  <2> HIDE DEF T
  <2>4. IsFiniteSet(T) => \A i \in DOMAIN s : s[i] \in T BY <2>2, OrderedPlaces
  <2>5. IsFiniteSet(T) => \A i \in DOMAIN s : At(mem', s[i]) = At(mem, s[i]) BY <2>1, <2>4
  <2>6. TerraformOK(Read \cup {r}, mem', T) BY <2>1, <2>3, <2>5, TerraformsStay
  <2>7. QED BY <2>1, <2>6
<1>6. QED BY <1>4, <1>5

LEMMA RefsFinite ==
  ASSUME FilesOK, ListingOK
  PROVE  IsFiniteSet(Refs)
<1> DEFINE f == [i \in DOMAIN files |-> {<<i, j>> : j \in DOMAIN files[i].blocks}]
           S == {{<<i, j>> : j \in DOMAIN files[i].blocks} : i \in DOMAIN files}
<1>1. IsFiniteSet(DOMAIN files) BY DEF ListingOK
<1>2. f \in Surjection(DOMAIN files, S) BY DEF Surjection
<1>3. IsFiniteSet(S)
  <2> HIDE DEF f, S
  <2>1. QED BY <1>1, <1>2, FS_Surjection
<1>4. ASSUME NEW A \in S PROVE IsFiniteSet(A)
  <2>1. PICK i \in DOMAIN files : A = {<<i, j>> : j \in DOMAIN files[i].blocks} OBVIOUS
  <2> DEFINE n == Len(files[i].blocks)
  <2>2. n \in Nat /\ DOMAIN files[i].blocks = 1..n BY DEF FilesOK
  <2>3. A \subseteq {i} \X (1..n) BY <2>1, <2>2
  <2> HIDE DEF n, S
  <2>4. IsFiniteSet(1..n) BY <2>2, FS_Interval
  <2>5. IsFiniteSet({i}) BY FS_Singleton
  <2>6. IsFiniteSet({i} \X (1..n)) BY <2>4, <2>5, FS_Product
  <2>7. QED BY <2>3, <2>6, FS_Subset
<1>5. Refs = UNION S BY DEF Refs
<1> HIDE DEF S
<1>6. QED BY <1>3, <1>4, <1>5, FS_UNION

\* Before any override, the terraform blocks are as they were written.
LEMMA SettledStart ==
  ASSUME FilesOK, ListingOK, Overriding, NEW m, \A p \in Primaries : At(m, p) = Source(p)
  PROVE  TerraformOK(Primaries, m, PrimaryTerraforms)
<1> DEFINE T == PrimaryTerraforms
           s == InOrder(T)
           bs == BodiesAt(m, s)
           k == Cardinality(T)
<1>1. T \subseteq Refs /\ T \subseteq Primaries BY DEF PrimaryTerraforms, Primaries
<1>2. IsFiniteSet(T) BY <1>1, RefsFinite, FS_Subset
<1>3. TerraformsIn(Primaries) = {}
  BY DEF TerraformsIn, Primaries, IsPrimary, IsOverride
<1>4. T \in SUBSET (Nat \X Nat)
  <2>1. \A r \in Refs : r = <<r[1], r[2]>> /\ r[1] \in Nat /\ r[2] \in Nat
    BY RefParts DEF FilesOK
  <2> HIDE DEF T
  <2>2. QED BY <1>1, <2>1
<1>5. ASSUME T # {} PROVE Settled(Primaries, bs, s)
  <2> HIDE DEF T
  <2>1. /\ k \in Nat \ {0} /\ DOMAIN s = 1..k
        /\ \A i \in 1..k : s[i] \in T
    BY <1>2, <1>4, <1>5, OrderedPlaces
  <2>2. DOMAIN bs = DOMAIN s /\ \A i \in DOMAIN s : bs[i] = At(m, s[i]) BY DEF BodiesAt
  <2> HIDE DEF s, bs, k
  <2>3. ASSUME NEW i \in 1..k
        PROVE  bs[i] = Source(s[i]) /\ IsBlock(bs[i]) /\ Listed(bs[i].nested)
    <3>1. s[i] \in Refs /\ s[i] \in Primaries BY <1>1, <2>1
    <3>2. bs[i] = Source(s[i]) BY <2>1, <2>2, <3>1
    <3>3. IsBlock(Source(s[i])) BY <3>1, RefParts DEF FilesOK, Source
    <3>4. Listed(Source(s[i]).nested) BY <3>1, SourceNested DEF Deep
    <3>5. QED BY <3>2, <3>3, <3>4
  <2>4. Bodies(bs, k) BY <2>1, <2>2, <2>3 DEF Bodies
  <2>5. SelectingIn(Primaries) = {} /\ \A n : NamingIn(Primaries, n) = {}
    BY <1>3 DEF SelectingIn, NamingIn
  <2>6. PrimaryTerraforms # {} BY <1>5 DEF T
  <2>7. SelectionIn(Primaries, bs, s) BY <2>1, <2>3, <2>5, <2>6 DEF SelectionIn, AsWritten
  <2>8. ProvidersIn(Primaries, bs) BY <2>5 DEF ProvidersIn
  <2>9. QED BY <2>2, <2>4, <2>7, <2>8 DEF Settled
<1>6. QED BY <1>2, <1>3, <1>5 DEF TerraformOK

\* Before any override, the terraform blocks are the primary files'.
LEMMA TerraformsStart ==
  ASSUME IInv, IndexPrimary
  PROVE  index'.terraform = PrimaryTerraforms /\ \A p \in Primaries : At(mem', p) = Source(p)
<1>1. PICK m : m = [mem EXCEPT !.effective =
                      [i \in {k \in DOMAIN files : IsPrimary(k)} |-> Parsed(i)]]
  OBVIOUS
<1>2. Places(m) = Primaries /\ \A p \in Primaries : At(m, p) = Source(p)
  BY <1>1, StartPlaces DEF IndexPrimary
<1>3. mem' = m /\ index' = IndexOf(m) BY <1>1 DEF IndexPrimary
<1>4. IndexOf(m).terraform =
        {p \in Places(m) \ {q \in Places(m) : At(m, q).type = "locals"} : IsTerraform(At(m, p))}
  BY DEF IndexOf
<1>5. IndexOf(m).terraform = {p \in Primaries : IsTerraform(At(m, p))}
  BY <1>2, <1>4 DEF IsTerraform
<1>6. {p \in Primaries : IsTerraform(At(m, p))} = {p \in Primaries : IsTerraform(Source(p))}
  BY <1>2
<1>7. {p \in Primaries : IsTerraform(Source(p))} = PrimaryTerraforms
  BY DEF PrimaryTerraforms, Primaries
<1>8. QED BY <1>2, <1>3, <1>5, <1>6, <1>7

LEMMA IndexSettles ==
  ASSUME IInv, ListingOK, IndexPrimary
  PROVE  TerraformOK(Primaries, mem', index'.terraform)
<1>1. index'.terraform = PrimaryTerraforms /\ \A p \in Primaries : At(mem', p) = Source(p)
  BY TerraformsStart
<1>2. Overriding BY DEF IndexPrimary, Overriding
<1>3. QED BY <1>1, <1>2, SettledStart DEF IInv

LEMMA NoneSettles ==
  ASSUME IInv, NoOverrides
  PROVE  TerraformOK(Primaries, mem', index'.terraform)
<1>1. ~Overriding /\ index'.terraform = {} BY DEF NoOverrides, Overriding, IInv
<1>2. TerraformsIn(Primaries) = {} BY DEF TerraformsIn, Primaries, IsPrimary, IsOverride
<1>3. IsFiniteSet({}) BY FS_EmptySet
<1>4. TerraformOK(Primaries, mem', {}) BY <1>1, <1>2, <1>3, Zenon DEF TerraformOK
<1>5. QED BY <1>1, <1>4

\* The invariant: what has been made of the module's terraform blocks.
TInv == MInv /\ (pc # "index" => TerraformOK(Read, mem, index.terraform))

LEMMA SameTerraforms ==
  ASSUME files' = files, NEW R, Read' = R, TerraformOK(R, mem', index'.terraform)
  PROVE  TerraformOK(Read, mem, index.terraform)'
<1>1. /\ Refs' = Refs /\ (Overriding' <=> Overriding)
      /\ \A i : (IsPrimary(i)' <=> IsPrimary(i)) /\ (IsOverride(i)' <=> IsOverride(i))
      /\ \A r : Source(r)' = Source(r)
      /\ \A r, q : Precedes(r, q)' <=> Precedes(r, q)
  BY SameOrder
<1>2. \A r, S : IsLast(r, S)' <=> IsLast(r, S) BY <1>1 DEF IsLast
<1>3. \A S : TerraformsIn(S)' = TerraformsIn(S) BY <1>1 DEF TerraformsIn
<1>4. \A S : SelectingIn(S)' = SelectingIn(S) BY <1>1, <1>3 DEF SelectingIn
<1>5. \A S, n : NamingIn(S, n)' = NamingIn(S, n) BY <1>1, <1>3 DEF NamingIn
<1>6. \A S : StaticIn(S)' <=> StaticIn(S) BY <1>1, <1>3 DEF StaticIn
<1>7. PrimaryTerraforms' = PrimaryTerraforms BY <1>1 DEF PrimaryTerraforms
<1>8. \A p : AsWritten(p)' = AsWritten(p) BY <1>1, <1>7 DEF AsWritten
<1>9. \A S, bs, s : SelectionIn(S, bs, s)' <=> SelectionIn(S, bs, s)
  BY <1>1, <1>2, <1>4, <1>8 DEF SelectionIn
<1>10. \A S, bs : ProvidersIn(S, bs)' <=> ProvidersIn(S, bs)
  BY <1>1, <1>2, <1>5 DEF ProvidersIn
<1>11. \A S, bs, s : Settled(S, bs, s)' <=> Settled(S, bs, s) BY <1>9, <1>10 DEF Settled
<1>12. QED BY <1>1, <1>3, <1>6, <1>7, <1>11 DEF TerraformOK, BodiesAt, At, RefAt, BodyOf, InOrder

LEMMA SettledNow ==
  ASSUME TInv, Next
  PROVE  TInv'
<1>1. MInv' /\ MInv BY MergeNext DEF TInv
<1>2. IInv /\ ListingOK BY <1>1 DEF MInv
<1>3. files' = files
  BY DEF Next, NoOverrides, IndexPrimary, OverrideLocals, OverrideTerraform, MergeBlock,
         AddBlock, SkipBlock, Turn, Finish
<1>4. Read' = Refs \ todo' BY <1>3, SameOrder DEF Read
<1>5. \A i : IsPrimary(i) => ~IsOverride(i) BY DEF IsPrimary, IsOverride
<1>6. \A r \in Refs : IsPrimary(r[1]) <=> ~IsOverride(r[1])
  BY <1>2, RefParts DEF IInv, IsPrimary, IsOverride
<1>7. CASE NoOverrides
  <2>1. todo' = {} BY <1>2, <1>7 DEF NoOverrides, IInv
  <2>2. Read' = Primaries BY <1>4, <1>6, <1>7, <2>1, RefParts DEF NoOverrides, Primaries, IsOverride
  <2>3. TerraformOK(Read, mem, index.terraform)'
    BY <1>2, <1>3, <1>7, <2>2, NoneSettles, SameTerraforms
  <2>4. QED BY <1>1, <2>3 DEF TInv
<1>8. CASE IndexPrimary
  <2>1. todo' = {r \in Refs : IsOverride(r[1])} BY <1>8 DEF IndexPrimary
  <2>2. Read' = Primaries BY <1>4, <1>6, <2>1 DEF Primaries
  <2>3. TerraformOK(Read, mem, index.terraform)'
    BY <1>2, <1>3, <1>8, <2>2, IndexSettles, SameTerraforms
  <2>4. QED BY <1>1, <2>3 DEF TInv
<1>9. ASSUME NEW r \in todo,
             \/ OverrideLocals(r) \/ OverrideTerraform(r) \/ MergeBlock(r)
             \/ AddBlock(r) \/ SkipBlock(r)
      PROVE  TInv'
  <2>1. pc = "apply" /\ todo' = todo \ {r}
    BY <1>9 DEF OverrideLocals, OverrideTerraform, MergeBlock, AddBlock, SkipBlock, Turn
  <2>2. TerraformOK(Read, mem, index.terraform) BY <2>1 DEF TInv
  <2>3. TerraformOK(Read \cup {r}, mem', index'.terraform) BY <1>1, <1>9, <2>1, <2>2, TurnSettles
  <2>4. Read' = Read \cup {r} BY <1>2, <1>4, <2>1 DEF Read, IInv, TodoOK
  <2>5. TerraformOK(Read, mem, index.terraform)' BY <1>3, <2>3, <2>4, SameTerraforms
  <2>6. QED BY <1>1, <2>5 DEF TInv
<1>10. CASE Finish
  <2>1. mem' = mem /\ index' = index /\ todo' = todo /\ pc = "apply" BY <1>10 DEF Finish
  <2>2. Read' = Read BY <1>4, <2>1 DEF Read
  <2>3. TerraformOK(Read, mem, index.terraform) BY <2>1 DEF TInv
  <2>4. TerraformOK(Read, mem', index'.terraform) BY <2>1, <2>3
  <2>5. TerraformOK(Read, mem, index.terraform)' BY <1>3, <2>2, <2>4, SameTerraforms
  <2>6. QED BY <1>1, <2>5 DEF TInv
<1>11. QED BY <1>7, <1>8, <1>9, <1>10 DEF Next

LEMMA SettledStutters == ASSUME TInv, UNCHANGED vars PROVE TInv'
<1>1. files' = files /\ pc' = pc /\ mem' = mem /\ index' = index /\ todo' = todo
  BY DEF vars
<1>2. MInv' BY MergeStutters DEF TInv
<1>3. Read' = Read BY <1>1, SameOrder DEF Read
<1>4. ASSUME pc # "index" PROVE TerraformOK(Read, mem, index.terraform)'
  <2>1. TerraformOK(Read, mem, index.terraform) BY <1>4 DEF TInv
  <2>2. TerraformOK(Read, mem', index'.terraform) BY <1>1, <2>1
  <2>3. QED BY <1>1, <1>3, <2>2, SameTerraforms
<1>5. QED BY <1>1, <1>2, <1>4 DEF TInv

LEMMA SettledInvariant == Spec => []TInv
<1>1. Init => TInv BY ModulesAssumption, MergeInit DEF Init, TInv
<1>2. TInv /\ [Next]_vars => TInv' BY SettledNow, SettledStutters
<1>3. QED BY <1>1, <1>2, PTL DEF Spec

\* The one list that is not empty, or none.
LEMMA FlattenNone ==
  ASSUME NEW U, NEW ss \in Seq(Seq(U)), \A i \in DOMAIN ss : ss[i] = << >>
  PROVE  FlattenSeq(ss) = << >>
<1>1. CASE ss = << >> BY <1>1, FlattenEmpty
<1>2. CASE ss # << >>
  <2>1. 1 \in DOMAIN ss BY <1>2
  <2>2. OneAt(ss, 1) /\ ss[1] = << >> BY <2>1 DEF OneAt
  <2>3. QED BY <2>1, <2>2, FlattenOne
<1>3. QED BY <1>1, <1>2

\* What was written in the terraform blocks of the primary files.
LEMMA WrittenSelections ==
  ASSUME FilesOK, ListingOK, NEW k \in Nat, NEW s, DOMAIN s = 1..k, \A i \in 1..k : s[i] \in Refs
  PROVE  OfType(NestedOf([i \in DOMAIN s |-> Source(s[i])]), Storage)
           = FlattenSeq([i \in 1..k |-> OfType(Source(s[i]).nested, Storage)])
<1> DEFINE bs == [i \in DOMAIN s |-> Source(s[i])]
           ss == SelectedEach(bs, k, Storage)
<1>1. DOMAIN bs = 1..k /\ \A i \in 1..k : bs[i] = Source(s[i]) OBVIOUS
<1>2. ss = [i \in 1..k |-> OfType(Source(s[i]).nested, Storage)] BY <1>1 DEF SelectedEach
<1> HIDE DEF bs
<1>3. \A i \in 1..k : Listed(bs[i].nested) BY <1>1, SourceNested DEF Deep
<1>4. OfType(NestedOf(bs), Storage) = FlattenSeq(ss) BY <1>1, <1>3, TogetherSelected
<1>5. QED BY <1>2, <1>4 DEF bs

\* What is selected of all the module's terraform blocks.
LEMMA SelectedNow ==
  ASSUME TInv, pc # "index", index.terraform # {}, StaticIn(Read)
  PROVE  LET p == InOrder(PrimaryTerraforms)
             e == InOrder(index.terraform)
             written == NestedOf([i \in DOMAIN p |-> Source(p[i])])
             all == NestedOf([i \in DOMAIN e |-> At(mem, e[i])])
             S == SelectingIn(Read)
         IN /\ OfType(all, Storage) =
                 OfType(IF S = {} THEN written ELSE Source(LastOf(S)).nested, Storage)
            /\ \A n : NamingIn(Read, n) # {} =>
                 \E y : /\ Requiring(all, n) = <<y>>
                        /\ y.attrs[n] =
                             Last(Requiring(Source(LastOf(NamingIn(Read, n))).nested, n)).attrs[n]
<1> DEFINE P == PrimaryTerraforms
           T == index.terraform
           p == InOrder(P)
           e == InOrder(T)
           bs == BodiesAt(mem, e)
           written == NestedOf([i \in DOMAIN p |-> Source(p[i])])
           all == NestedOf(bs)
           S == SelectingIn(Read)
           k == Cardinality(T)
           ss == SelectedEach(bs, k, Storage)
<1>1. FilesOK /\ ListingOK /\ Good(mem, todo) /\ IndexOK(mem, index) BY DEF TInv, MInv, IInv
<1>2. TerraformOK(Read, mem, T) BY DEF TInv
<1>3. Settled(Read, bs, e) /\ IsFiniteSet(T) BY <1>2 DEF TerraformOK
<1>4. T \in SUBSET (Nat \X Nat)
  <2>1. Places(mem) \subseteq Nat \X Nat BY <1>1, PlacesNatural
  <2>2. QED BY <1>1, <2>1 DEF IndexOK
<1>5. T # {} /\ (P # {} => T = P) BY <1>2 DEF TerraformOK
<1>6. all = NestedOf([i \in DOMAIN e |-> At(mem, e[i])]) BY DEF BodiesAt
<1>7. Read \subseteq Refs /\ S \subseteq Read /\ \A n : NamingIn(Read, n) \subseteq Read
  BY DEF Read, SelectingIn, NamingIn, TerraformsIn
<1>8. P \subseteq Refs /\ (P = {} => DOMAIN p = 1..0)
  <2>1. ASSUME P = {} PROVE DOMAIN p = 1..0
    <3>1. IsFiniteSet({}) /\ Cardinality({}) = 0 /\ {} \in SUBSET (Nat \X Nat) BY FS_EmptySet
    <3>2. DOMAIN InOrder({}) = 1..Cardinality({}) BY <3>1, OrderedPlaces
    <3>3. QED BY <2>1, <3>1, <3>2
  <2>2. QED BY <2>1 DEF PrimaryTerraforms
<1> HIDE DEF T, P
<1>9. k \in Nat /\ k # 0 /\ DOMAIN e = 1..k /\ \A i \in 1..k : e[i] \in T
  BY <1>3, <1>4, <1>5, OrderedPlaces
<1>10. DOMAIN bs = 1..k BY <1>9 DEF BodiesAt
<1>11. \A i \in 1..k : Listed(bs[i].nested)
  <2>1. PICK n : Bodies(bs, n) BY <1>3 DEF Settled
  <2>2. QED BY <1>10, <2>1 DEF Bodies
<1>12. p = e \/ P = {} BY <1>5
<1> HIDE DEF bs, e, k, p
<1>13. OfType(all, Storage) = FlattenSeq(ss) /\ \E U : ss \in Seq(Seq(U))
  BY <1>9, <1>10, <1>11, TogetherSelected
<1>14. PICK U : ss \in Seq(Seq(U)) BY <1>13
<1>15. DOMAIN ss = 1..k /\ \A i \in 1..k : ss[i] = OfType(bs[i].nested, Storage)
  BY DEF SelectedEach
<1> HIDE DEF ss, all
<1>16. OfType(all, Storage) = OfType(IF S = {} THEN written ELSE Source(LastOf(S)).nested, Storage)
  <2>1. CASE S # {}
    <3>1. PICK l : /\ IsLast(l, S)
                   /\ \A i \in 1..k : OfType(bs[i].nested, Storage) =
                                        IF i = 1 THEN OfType(Source(l).nested, Storage) ELSE << >>
      BY <1>3, <1>9, <2>1 DEF Settled, SelectionIn
    <3>2. LastOf(S) = l BY <1>1, <1>7, <3>1, LastIs
    <3>3. 1 \in DOMAIN ss /\ OneAt(ss, 1) /\ ss[1] = OfType(Source(l).nested, Storage)
      BY <1>9, <1>15, <3>1 DEF OneAt
    <3>4. FlattenSeq(ss) = ss[1] BY <1>14, <3>3, FlattenOne
    <3> HIDE DEF S, written
    <3>5. QED BY <1>13, <2>1, <3>2, <3>3, <3>4
  <2>2. CASE S = {}
    <3>1. \A i \in 1..k : ss[i] = AsWritten(e[i])
      BY <1>3, <1>9, <1>15, <2>2 DEF Settled, SelectionIn
    <3>2. ASSUME P # {} PROVE OfType(all, Storage) = OfType(written, Storage)
      <4>1. p = e /\ T = P BY <1>5, <1>12, <3>2
      <4> DEFINE tt == [i \in 1..k |-> OfType(Source(p[i]).nested, Storage)]
      <4>2. \A i \in 1..k : ss[i] = tt[i] BY <3>1, <3>2, <4>1 DEF AsWritten, P
      <4>3. DOMAIN ss = 1..k /\ ss = [i \in 1..k |-> ss[i]]
        <5>1. DOMAIN ss = 1..k BY <1>15
        <5>2. ss = [i \in DOMAIN ss |-> ss[i]] BY <1>14
        <5>3. QED BY <5>1, <5>2
      <4>4. ss = tt BY <4>2, <4>3
      <4>5. DOMAIN p = 1..k /\ \A i \in 1..k : p[i] \in Refs BY <1>8, <1>9, <4>1
      <4>6. OfType(NestedOf([i \in DOMAIN p |-> Source(p[i])]), Storage) = FlattenSeq(tt)
        BY <1>1, <1>9, <4>5, WrittenSelections
      <4>7. QED BY <1>13, <4>4, <4>6
    <3>3. ASSUME P = {} PROVE OfType(all, Storage) = OfType(written, Storage)
      <4>1. \A i \in DOMAIN ss : ss[i] = << >> BY <1>15, <3>1, <3>3 DEF AsWritten, P
      <4>2. FlattenSeq(ss) = << >> BY <1>14, <4>1, FlattenNone
      <4> DEFINE tt == [i \in 1..0 |-> OfType(Source(p[i]).nested, Storage)]
      <4>3. DOMAIN p = 1..0 /\ (\A i \in 1..0 : p[i] \in Refs) BY <1>8, <3>3
      <4>4. OfType(NestedOf([i \in DOMAIN p |-> Source(p[i])]), Storage) = FlattenSeq(tt)
        BY <1>1, <4>3, WrittenSelections
      <4>5. tt = << >> OBVIOUS
      <4>6. QED BY <1>13, <4>2, <4>4, <4>5, FlattenEmpty
    <3>4. OfType(all, Storage) = OfType(written, Storage) BY <3>2, <3>3
    <3> HIDE DEF S, written
    <3>5. QED BY <2>2, <3>4
  <2>3. QED BY <2>1, <2>2
<1>17. ASSUME NEW n, NamingIn(Read, n) # {}
       PROVE  \E y : /\ Requiring(all, n) = <<y>>
                     /\ y.attrs[n] =
                          Last(Requiring(Source(LastOf(NamingIn(Read, n))).nested, n)).attrs[n]
  <2>1. PICK l : /\ IsLast(l, NamingIn(Read, n))
                 /\ OnceIn(bs, n, Last(Requiring(Source(l).nested, n)).attrs[n])
    BY <1>3, <1>17 DEF Settled, ProvidersIn
  <2>2. LastOf(NamingIn(Read, n)) = l
    <3> DEFINE N == NamingIn(Read, n)
    <3>1. N \subseteq Refs /\ IsLast(l, N) BY <1>7, <2>1
    <3> HIDE DEF N
    <3>2. LastOf(N) = l BY <1>1, <3>1, LastIs
    <3>3. QED BY <3>2 DEF N
  <2>3. \A v : OnceIn(bs, n, v) => \E y : Requiring(all, n) = <<y>> /\ y.attrs[n] = v
    BY <1>9, <1>10, <1>11, TogetherSelected DEF all
  <2>4. QED BY <2>1, <2>2, <2>3
<1>18. QED BY <1>6, <1>16, <1>17 DEF e, p, P, T

\* After every turn there is one storage selection over all the module's
\* terraform blocks, the last read override's that makes any, and a required
\* provider an override names is required once, as the last one says; whatever
\* the number of terraform blocks and of overrides (applyTerraformOverride and
\* mergeRequiredProviders).
THEOREM SelectionsCorrect == Spec => []TerraformSelections
<1>1. TInv => TerraformSelections
  <2> SUFFICES ASSUME TInv, pc # "index", index.terraform # {}, Static
               PROVE  TerraformSelections
    BY DEF TerraformSelections
  <2>1. TerraformsIn(Read) = TerraformOverrides BY DEF TerraformsIn, TerraformOverrides
  <2>2. StaticIn(Read)
    <3>1. \A r \in TerraformOverrides :
            TypesIn(OfType(Source(r).nested, {"dynamic"})) \subseteq Generated
      BY DEF Generated
    <3>2. QED BY <2>1, <3>1 DEF StaticIn, Static, StaticBody
  <2> DEFINE p == InOrder(PrimaryTerraforms)
             e == InOrder(index.terraform)
             written == NestedOf([i \in DOMAIN p |-> Source(p[i])])
             all == NestedOf([i \in DOMAIN e |-> At(mem, e[i])])
             selecting == {r \in TerraformOverrides : OfType(Source(r).nested, Storage) # << >>}
             Naming(n) == {r \in TerraformOverrides : Requiring(Source(r).nested, n) # << >>}
             V(n) == Last(Requiring(Source(LastOf(Naming(n))).nested, n)).attrs[n]
  <2>3. SelectingIn(Read) = selecting /\ \A n : NamingIn(Read, n) = Naming(n)
    BY <2>1 DEF SelectingIn, NamingIn
  <2>4. OfType(all, Storage) =
          OfType(IF selecting = {} THEN written ELSE Source(LastOf(selecting)).nested, Storage)
    BY <2>2, <2>3, SelectedNow
  <2>5. ASSUME NEW n, Naming(n) # {}
        PROVE  LET here == Requiring(all, n) IN Len(here) = 1 /\ here[1].attrs[n] = V(n)
    <3>1. PICK y : Requiring(all, n) = <<y>> /\ y.attrs[n] = V(n) BY <2>2, <2>3, <2>5, SelectedNow
    <3> HIDE DEF all, V
    <3>2. QED BY <3>1
  <2>6. QED BY <2>4, <2>5 DEF TerraformSelections
<1>2. QED BY <1>1, SettledInvariant, PTL

-----------------------------------------------------------------------------
(* What an encryption block keeps when an override is merged into it, and  *)
(* into the terraform blocks it is in (mergeEncryptionOverride)            *)

\* y is what became of x: an enforced target is enforced still, a key provider
\* has its metadata alias, and the same is true of the targets of remote state.
Stands(x, y) ==
  /\ y.type = x.type /\ y.label = x.label
  /\ x.type \notin Keyed /\ Enforced(x) => Enforced(y)
Targets(bs, cs) == \A x \in ToSet(bs) : \E y \in ToSet(cs) : Stands(x, y)

\* The arguments that name the metadata of a key provider.
Alias(b) == Only(b.attrs, {"encrypted_metadata_alias"})
Part(x, y) ==
  /\ Stands(x, y)
  /\ x.type = "key_provider" => Alias(y) = Alias(x)
  /\ x.type = "remote_state_data_sources" => Targets(x.nested, y.nested)
Parts(bs, cs) == \A x \in ToSet(bs) : \E y \in ToSet(cs) : Part(x, y)

\* These hold of a block and itself, and of two changes one after the other.
LEMMA StandsTwice ==
  /\ \A x : Stands(x, x)
  /\ \A x, y, z : Stands(x, y) /\ Stands(y, z) => Stands(x, z)
BY DEF Stands

LEMMA TargetsTwice ==
  /\ \A a : Targets(a, a)
  /\ \A a, b, c : Targets(a, b) /\ Targets(b, c) => Targets(a, c)
BY StandsTwice DEF Targets

LEMMA PartTwice ==
  /\ \A x : Part(x, x)
  /\ \A x, y, z : Part(x, y) /\ Part(y, z) => Part(x, z)
<1>1. ASSUME NEW x PROVE Part(x, x) BY StandsTwice, TargetsTwice DEF Part
<1>2. ASSUME NEW x, NEW y, NEW z, Part(x, y), Part(y, z) PROVE Part(x, z)
  <2>1. Stands(x, z) /\ y.type = x.type BY <1>2, StandsTwice DEF Part, Stands
  <2>2. x.type = "remote_state_data_sources" => Targets(x.nested, z.nested)
    BY <1>2, <2>1, TargetsTwice DEF Part
  <2>3. QED BY <1>2, <2>1, <2>2 DEF Part
<1>3. QED BY <1>1, <1>2

LEMMA PartsTwice ==
  /\ \A a : Parts(a, a)
  /\ \A a, b, c : Parts(a, b) /\ Parts(b, c) => Parts(a, c)
BY PartTwice DEF Parts

\* Merging a target leaves an enforced one enforced (mergeEncryptionTarget).
LEMMA TargetStands ==
  ASSUME NEW b, IsBlock(b), NEW o
  PROVE  LET t == MergeTarget(b, o)
         IN IsBlock(t) /\ Stands(b, t) /\ t.nested = MergeNested(b, o).nested
<1> DEFINE m == MergeNested(b, o)
           t == MergeTarget(b, o)
<1>1. IsBlock(m) /\ m.type = b.type /\ m.label = b.label /\ m.attrs = Updated(b.attrs, o.attrs)
  BY DEF MergeNested, IsBlock
<1>2. t = IF Enforced(b) /\ ~Enforced(o) THEN [m EXCEPT !.attrs["enforced"] = b.attrs["enforced"]] ELSE m
  BY DEF MergeTarget
<1> HIDE DEF m, t
<1>3. CASE Enforced(b) /\ ~Enforced(o)
  <2>1. t = [m EXCEPT !.attrs = [m.attrs EXCEPT !["enforced"] = b.attrs["enforced"]]] BY <1>2, <1>3
  <2>2. IsBlock(t) /\ t.type = m.type /\ t.label = m.label /\ t.nested = m.nested
        /\ t.attrs = [m.attrs EXCEPT !["enforced"] = b.attrs["enforced"]]
    BY <1>1, <2>1 DEF IsBlock
  <2>3. "enforced" \in DOMAIN m.attrs BY <1>1, <1>3 DEF Enforced, Has, Updated
  <2>4. Enforced(t) BY <1>3, <2>2, <2>3 DEF Enforced, Has
  <2>5. QED BY <1>1, <2>2, <2>4 DEF Stands, t, m
<1>4. CASE ~(Enforced(b) /\ ~Enforced(o))
  <2>1. t = m BY <1>2, <1>4
  <2>2. Enforced(b) => Enforced(m) BY <1>1, <1>4 DEF Enforced, Has, Updated
  <2>3. QED BY <1>1, <2>1, <2>2 DEF Stands, t, m
<1>5. QED BY <1>3, <1>4

\* Merging a key provider or a method leaves the metadata alias as it was
\* (mergeNamedEncryptionBlock).
LEMMA KeyedStands ==
  ASSUME NEW b, IsBlock(b), Listed(b.nested), b.type \in Keyed, NEW o, Listed(o.nested)
  PROVE  Alike(b, MergeKeyed(b, o)) /\ Part(b, MergeKeyed(b, o))
<1> DEFINE m == MergeNested(b, o)
           t == MergeKeyed(b, o)
           alias == {"encrypted_metadata_alias"}
           new == Updated(Without(m.attrs, alias), Only(b.attrs, alias))
<1>1. Alike(b, m) BY MergeNestedKeeps
<1>2. t = IF b.type = "key_provider" THEN [m EXCEPT !.attrs = new] ELSE m BY DEF MergeKeyed
<1>3. Only(new, alias) = Only(b.attrs, alias)
  <2> DEFINE A == b.attrs
             B == m.attrs
  <2> HIDE DEF A, B
  <2> DEFINE w == Without(B, alias)
             k == Only(A, alias)
             u == Updated(w, k)
  <2>1. DOMAIN w = DOMAIN B \ alias BY DEF Without
  <2>2. DOMAIN k = DOMAIN A \cap alias /\ \A n \in DOMAIN k : k[n] = A[n] BY DEF Only
  <2> HIDE DEF w, k
  <2>3. DOMAIN u = DOMAIN w \cup DOMAIN k /\ \A n \in DOMAIN k : u[n] = k[n] BY DEF Updated
  <2> HIDE DEF u
  <2>4. DOMAIN u \cap alias = DOMAIN k BY <2>1, <2>2, <2>3
  <2>5. Only(u, alias) = [n \in DOMAIN k |-> u[n]] BY <2>4 DEF Only
  <2>6. [n \in DOMAIN k |-> u[n]] = [n \in DOMAIN k |-> A[n]] BY <2>2, <2>3
  <2>7. k = [n \in DOMAIN k |-> A[n]] BY <2>2 DEF k, Only
  <2>8. Only(u, alias) = k BY <2>5, <2>6, <2>7
  <2>9. QED BY <2>8 DEF u, k, w, A, B
<1> HIDE DEF m, t, new
<1>4. CASE b.type = "key_provider"
  <2>1. t = [m EXCEPT !.attrs = new] BY <1>2, <1>4
  <2>2. IsBlock(t) /\ t.type = m.type /\ t.label = m.label /\ t.nested = m.nested /\ t.attrs = new
    BY <1>1, <2>1 DEF Alike, IsBlock
  <2>3. Alias(t) = Alias(b) BY <1>3, <2>2 DEF Alias
  <2>4. QED BY <1>1, <1>4, <2>2, <2>3 DEF Alike, Part, Stands, Keyed, t
<1>5. CASE b.type # "key_provider"
  <2>1. t = m BY <1>2, <1>5
  <2>2. b.type = "method" BY <1>5 DEF Keyed
  <2>3. QED BY <1>1, <2>1, <2>2 DEF Alike, Part, Stands, Keyed, t
<1>6. QED BY <1>4, <1>5

\* What one more block, or another in the place of an i-th, makes of a list.
LEMMA PutListed ==
  ASSUME NEW bs, Listed(bs), NEW i \in DOMAIN bs, NEW y, IsBlock(y)
  PROVE  LET cs == [bs EXCEPT ![i] = y]
         IN /\ Listed(cs) /\ y \in ToSet(cs) /\ ToSet(cs) \subseteq ToSet(bs) \cup {y}
            /\ \A x \in ToSet(bs) : x = bs[i] \/ x \in ToSet(cs)
<1> DEFINE cs == [bs EXCEPT ![i] = y]
<1>1. DOMAIN cs = DOMAIN bs /\ cs[i] = y /\ \A j \in DOMAIN bs : j # i => cs[j] = bs[j]
  OBVIOUS
<1>2. \A j \in DOMAIN bs : IsBlock(cs[j])
  <2> TAKE j \in DOMAIN bs
  <2>1. bs[j] \in ToSet(bs) BY DEF ToSet
  <2>2. IsBlock(bs[j]) BY <2>1 DEF Listed, IsBlock
  <2>3. QED BY <1>1, <2>2
<1>3. cs = [j \in DOMAIN bs |-> cs[j]] OBVIOUS
<1> HIDE DEF cs
<1>4. Listed(cs) BY <1>2, <1>3, ListedMap
<1>5. y \in ToSet(cs) /\ ToSet(cs) \subseteq ToSet(bs) \cup {y} BY <1>1 DEF ToSet
<1>6. \A x \in ToSet(bs) : x = bs[i] \/ x \in ToSet(cs) BY <1>1 DEF ToSet
<1>7. QED BY <1>4, <1>5, <1>6 DEF cs

LEMMA AddListed ==
  ASSUME NEW bs, Listed(bs), NEW y, IsBlock(y)
  PROVE  Listed(Append(bs, y)) /\ ToSet(Append(bs, y)) = ToSet(bs) \cup {y}
<1>1. Listed(Append(bs, y)) BY ListedAppend
<1>2. ToSet(Append(bs, y)) = ToSet(bs) \cup {y}
  <2> DEFINE U == ToSet(bs) \cup {y}
  <2>1. bs \in Seq(U) /\ y \in U BY ListedAppend
  <2> HIDE DEF U
  <2>2. QED BY <2>1, AppendSet
<1>3. QED BY <1>1, <1>2

LEMMA LeastIn == ASSUME NEW S \in SUBSET Nat, S # {} PROVE Min(S) \in S
<1>1. PICK k \in S : \A j \in S : k <= j BY LeastNatural
<1>2. QED BY <1>1 DEF Min

\* What Upsert does: it adds n, or puts y where one like n is.
Added(bs, n, cs) == cs = Append(bs, n)
Put(bs, i, y, cs) == i \in DOMAIN bs /\ cs = [bs EXCEPT ![i] = y]

\* The two ways Upsert is used, without the operators it is given.
LEMMA UpsertType ==
  ASSUME NEW bs, Listed(bs), NEW n
  PROVE  /\ LET cs == Upsert(bs, n, SameType, MergeTarget)
            IN \/ Added(bs, n, cs)
               \/ \E i \in DOMAIN bs : bs[i].type = n.type /\ Put(bs, i, MergeTarget(bs[i], n), cs)
         /\ LET cs == Upsert(bs, n, SameType, MergeRemote)
            IN \/ Added(bs, n, cs)
               \/ \E i \in DOMAIN bs : bs[i].type = n.type /\ Put(bs, i, MergeRemote(bs[i], n), cs)
<1> DEFINE hits == {i \in DOMAIN bs : SameType(bs[i], n)}
           k == Min(hits)
<1>1. hits \in SUBSET Nat BY DEF Listed
<1>2. CASE hits = {} BY <1>2 DEF Upsert, Added
<1>3. CASE hits # {}
  <2>1. k \in hits
    <3> HIDE DEF hits
    <3>1. QED BY <1>1, <1>3, LeastIn
  <2>2. /\ Upsert(bs, n, SameType, MergeTarget) = [bs EXCEPT ![k] = MergeTarget(bs[k], n)]
        /\ Upsert(bs, n, SameType, MergeRemote) = [bs EXCEPT ![k] = MergeRemote(bs[k], n)]
    BY <1>3, Zenon DEF Upsert
  <2>3. k \in DOMAIN bs /\ bs[k].type = n.type BY <2>1 DEF SameType
  <2> HIDE DEF k, hits
  <2>4. QED BY <2>2, <2>3 DEF Put
<1>4. QED BY <1>2, <1>3

LEMMA UpsertSame ==
  ASSUME NEW bs, Listed(bs), NEW n
  PROVE  /\ LET cs == Upsert(bs, n, SameBlock, MergeTarget)
            IN \/ Added(bs, n, cs)
               \/ \E i \in DOMAIN bs : bs[i].type = n.type /\ Put(bs, i, MergeTarget(bs[i], n), cs)
         /\ LET cs == Upsert(bs, n, SameBlock, MergeKeyed)
            IN \/ Added(bs, n, cs)
               \/ \E i \in DOMAIN bs : bs[i].type = n.type /\ Put(bs, i, MergeKeyed(bs[i], n), cs)
<1> DEFINE hits == {i \in DOMAIN bs : SameBlock(bs[i], n)}
           k == Min(hits)
<1>1. hits \in SUBSET Nat BY DEF Listed
<1>2. CASE hits = {} BY <1>2 DEF Upsert, Added
<1>3. CASE hits # {}
  <2>1. k \in hits
    <3> HIDE DEF hits
    <3>1. QED BY <1>1, <1>3, LeastIn
  <2>2. /\ Upsert(bs, n, SameBlock, MergeTarget) = [bs EXCEPT ![k] = MergeTarget(bs[k], n)]
        /\ Upsert(bs, n, SameBlock, MergeKeyed) = [bs EXCEPT ![k] = MergeKeyed(bs[k], n)]
    BY <1>3, Zenon DEF Upsert
  <2>3. k \in DOMAIN bs /\ bs[k].type = n.type BY <2>1 DEF SameBlock
  <2> HIDE DEF k, hits
  <2>4. QED BY <2>2, <2>3 DEF Put
<1>4. QED BY <1>2, <1>3

\* Targets stand as blocks are added, and merged.
LEMMA PutTargets ==
  ASSUME NEW bs, Listed(bs), NEW n, IsBlock(n), NEW cs,
         \/ Added(bs, n, cs)
         \/ \E i, y : Put(bs, i, y, cs) /\ IsBlock(y) /\ Stands(bs[i], y)
  PROVE  Listed(cs) /\ Targets(bs, cs)
<1>1. CASE Added(bs, n, cs)
  <2>1. Listed(cs) /\ ToSet(cs) = ToSet(bs) \cup {n} BY <1>1, AddListed DEF Added
  <2>2. QED BY <2>1, StandsTwice DEF Targets
<1>2. CASE \E i, y : Put(bs, i, y, cs) /\ IsBlock(y) /\ Stands(bs[i], y)
  <2>1. PICK i, y : Put(bs, i, y, cs) /\ IsBlock(y) /\ Stands(bs[i], y) BY <1>2
  <2>2. i \in DOMAIN bs /\ cs = [bs EXCEPT ![i] = y] BY <2>1 DEF Put
  <2>3. Listed(cs) /\ y \in ToSet(cs) /\ \A x \in ToSet(bs) : x = bs[i] \/ x \in ToSet(cs)
    BY <2>1, <2>2, PutListed
  <2>4. QED BY <2>1, <2>3, StandsTwice DEF Targets
<1>3. QED BY <1>1, <1>2

LEMMA PutParts ==
  ASSUME NEW bs, Deep(bs), NEW n, IsBlock(n), Listed(n.nested), NEW cs,
         \/ Added(bs, n, cs)
         \/ \E i, y : Put(bs, i, y, cs) /\ IsBlock(y) /\ Listed(y.nested) /\ Part(bs[i], y)
  PROVE  Deep(cs) /\ Parts(bs, cs)
<1>0. Listed(bs) BY DEF Deep
<1>1. CASE Added(bs, n, cs)
  <2>1. Listed(cs) /\ ToSet(cs) = ToSet(bs) \cup {n} BY <1>0, <1>1, AddListed DEF Added
  <2>2. QED BY <2>1, PartTwice DEF Parts, Deep
<1>2. CASE \E i, y : Put(bs, i, y, cs) /\ IsBlock(y) /\ Listed(y.nested) /\ Part(bs[i], y)
  <2>1. PICK i, y : Put(bs, i, y, cs) /\ IsBlock(y) /\ Listed(y.nested) /\ Part(bs[i], y) BY <1>2
  <2>2. i \in DOMAIN bs /\ cs = [bs EXCEPT ![i] = y] BY <2>1 DEF Put
  <2>3. /\ Listed(cs) /\ y \in ToSet(cs) /\ ToSet(cs) \subseteq ToSet(bs) \cup {y}
        /\ \A x \in ToSet(bs) : x = bs[i] \/ x \in ToSet(cs)
    BY <1>0, <2>1, <2>2, PutListed
  <2>4. QED BY <2>1, <2>3, PartTwice DEF Parts, Deep
<1>3. QED BY <1>1, <1>2

\* One block of an override, applied to the targets of remote state.
LEMMA RemoteAdds ==
  ASSUME NEW bs, Listed(bs), NEW n, IsBlock(n)
  PROVE  Listed(AddRemote(bs, n)) /\ Targets(bs, AddRemote(bs, n))
<1> DEFINE cs == AddRemote(bs, n)
<1>1. CASE n.type \in {"default", "remote_state_data_source"}
  <2>1. \/ cs = Upsert(bs, n, SameType, MergeTarget)
        \/ cs = Upsert(bs, n, SameBlock, MergeTarget)
    BY <1>1 DEF AddRemote
  <2>2. \/ Added(bs, n, cs)
        \/ \E i \in DOMAIN bs : Put(bs, i, MergeTarget(bs[i], n), cs)
    BY <2>1, UpsertType, UpsertSame
  <2>3. ASSUME NEW i \in DOMAIN bs
        PROVE  IsBlock(MergeTarget(bs[i], n)) /\ Stands(bs[i], MergeTarget(bs[i], n))
    <3> DEFINE b == bs[i]
    <3>1. b \in ToSet(bs) BY DEF ToSet
    <3>2. IsBlock(b) BY <3>1 DEF Listed, IsBlock
    <3> HIDE DEF b
    <3>3. IsBlock(MergeTarget(b, n)) /\ Stands(b, MergeTarget(b, n)) BY <3>2, TargetStands
    <3>4. QED BY <3>3 DEF b
  <2>4. \/ Added(bs, n, cs)
        \/ \E i, y : Put(bs, i, y, cs) /\ IsBlock(y) /\ Stands(bs[i], y)
    BY <2>2, <2>3
  <2> HIDE DEF cs
  <2>5. Listed(cs) /\ Targets(bs, cs) BY <2>4, PutTargets
  <2>6. QED BY <2>5 DEF cs
<1>2. CASE n.type \notin {"default", "remote_state_data_source"}
  <2>1. cs = bs BY <1>2 DEF AddRemote
  <2>2. QED BY <2>1, TargetsTwice
<1>3. QED BY <1>1, <1>2

\* h[k] is what the first k blocks of g make of f.
Remotes(f, g, h, n) ==
  /\ DOMAIN h = 0..n /\ h[0] = f
  /\ \A k \in 1..n : h[k] = AddRemote(h[k - 1], g[k])

\* There are such h, and MergeRemote is the last value of one.
LEMMA SomeRemotes ==
  ASSUME NEW f, NEW g, NEW n \in Nat
  PROVE  \E h : Remotes(f, g, h, n)
<1> DEFINE S == {k \in Nat : ~\E h : Remotes(f, g, h, k)}
<1>1. S = {}
  <2> SUFFICES ASSUME S # {} PROVE FALSE OBVIOUS
  <2>1. PICK k \in S : \A j \in S : k <= j
    <3>1. S \in SUBSET Nat OBVIOUS
    <3> HIDE DEF S
    <3>2. QED BY <3>1, LeastNatural
  <2>2. k \in Nat /\ ~\E h : Remotes(f, g, h, k) OBVIOUS
  <2>3. CASE k = 0
    <3> DEFINE h == [i \in 0..0 |-> f]
    <3>1. Remotes(f, g, h, 0) BY DEF Remotes
    <3>2. QED BY <2>2, <2>3, <3>1
  <2>4. CASE k # 0
    <3>1. k - 1 \in Nat /\ ~(k <= k - 1) BY <2>2, <2>4
    <3>2. k - 1 \notin S BY <2>1, <3>1
    <3>3. PICK h : Remotes(f, g, h, k - 1) BY <3>1, <3>2
    <3> DEFINE e == [i \in 0..k |-> IF i = k THEN AddRemote(h[k - 1], g[k]) ELSE h[i]]
    <3>4. DOMAIN e = 0..k /\ e[k] = AddRemote(h[k - 1], g[k]) /\ \A i \in 0..k - 1 : e[i] = h[i]
      <4>1. k \in 0..k /\ \A i \in 0..k - 1 : i \in 0..k /\ i # k BY <2>2, <2>4
      <4>2. QED BY <4>1
    <3> HIDE DEF e
    <3>5. \A i \in 1..k : i - 1 \in 0..k - 1 /\ (i # k => i \in 1..k - 1 /\ i \in 0..k - 1)
      BY <2>2, <2>4
    <3>6. \A i \in 1..k : e[i] = AddRemote(e[i - 1], g[i])
      BY <3>3, <3>4, <3>5 DEF Remotes
    <3>7. e[0] = f BY <2>4, <3>1, <3>3, <3>4 DEF Remotes
    <3>8. Remotes(f, g, e, k) BY <3>4, <3>6, <3>7 DEF Remotes
    <3>9. QED BY <2>2, <3>8
  <2>5. QED BY <2>3, <2>4
<1>2. QED BY <1>1

MeansRemote(f, g, n, h) ==
  h = [k \in 0..n |-> IF k = 0 THEN f ELSE AddRemote(h[k - 1], g[k])]

LEMMA RemoteIs ==
  ASSUME NEW b, IsBlock(b), NEW o, Len(o.nested) \in Nat
  PROVE  \E h : /\ Remotes(b.nested, o.nested, h, Len(o.nested))
                /\ MergeRemote(b, o) = [b EXCEPT !.nested = h[Len(o.nested)]]
<1> DEFINE f == b.nested
           g == o.nested
           n == Len(g)
           h == CHOOSE x : MeansRemote(f, g, n, x)
<1>1. MergeRemote(b, o) = [b EXCEPT !.nested = h[n]] BY DEF MergeRemote, MeansRemote, IsBlock
<1> HIDE DEF f, g, n
<1>2. n \in Nat BY DEF n, g
<1>3. MeansRemote(f, g, n, h)
  <2>1. PICK e : Remotes(f, g, e, n) BY <1>2, SomeRemotes
  <2> DEFINE x == [k \in 0..n |-> e[k]]
  <2>2. x = [k \in 0..n |-> x[k]] OBVIOUS
  <2>3. \A k \in 0..n : x[k] = IF k = 0 THEN f ELSE AddRemote(x[k - 1], g[k])
    <3> TAKE k \in 0..n
    <3>1. x[k] = e[k] OBVIOUS
    <3>2. CASE k = 0 BY <2>1, <3>1, <3>2 DEF Remotes
    <3>3. CASE k # 0
      <4>1. k \in 1..n /\ k - 1 \in 0..n BY <1>2, <3>3
      <4>2. x[k - 1] = e[k - 1] BY <4>1
      <4>3. e[k] = AddRemote(e[k - 1], g[k]) BY <2>1, <4>1 DEF Remotes
      <4> HIDE DEF x
      <4>4. QED BY <3>1, <3>3, <4>2, <4>3
    <3>4. QED BY <3>2, <3>3
  <2> HIDE DEF x
  <2>4. x = [k \in 0..n |-> IF k = 0 THEN f ELSE AddRemote(x[k - 1], g[k])] BY <2>2, <2>3
  <2>5. MeansRemote(f, g, n, x) BY <2>4 DEF MeansRemote
  <2>6. QED BY <2>5
<1> HIDE DEF h
<1>4. h = [k \in 0..n |-> IF k = 0 THEN f ELSE AddRemote(h[k - 1], g[k])]
  BY <1>3 DEF MeansRemote
<1>5. DOMAIN h = 0..n /\ \A k \in 0..n : h[k] = IF k = 0 THEN f ELSE AddRemote(h[k - 1], g[k])
  BY <1>4, Zenon
<1>6. 0 \in 0..n /\ \A k \in 1..n : k \in 0..n /\ k # 0 BY <1>2
<1>7. Remotes(f, g, h, n) BY <1>5, <1>6 DEF Remotes
<1>8. QED BY <1>1, <1>7 DEF f, g, n

\* By the least step that loses a target: there is none.
LEMMA RemoteKeeps ==
  ASSUME NEW f, Listed(f), NEW g, Listed(g), NEW n \in Nat, DOMAIN g = 1..n, NEW h,
         Remotes(f, g, h, n)
  PROVE  Listed(h[n]) /\ Targets(f, h[n])
<1> DEFINE Fine(b) == Listed(b) /\ Targets(f, b)
           B == {i \in 0..n : ~Fine(h[i])}
<1>1. B = {}
  <2> SUFFICES ASSUME B # {} PROVE FALSE OBVIOUS
  <2>1. PICK k \in B : \A j \in B : k <= j
    <3>1. B \in SUBSET Nat OBVIOUS
    <3> HIDE DEF B
    <3>2. QED BY <3>1, LeastNatural
  <2>2. k \in 0..n /\ ~Fine(h[k]) OBVIOUS
  <2>3. Fine(h[0])
    <3>1. h[0] = f BY DEF Remotes
    <3>2. QED BY <3>1, TargetsTwice
  <2>4. k \in 1..n /\ k - 1 \in 0..n /\ ~(k <= k - 1) BY <2>2, <2>3
  <2>5. Fine(h[k - 1]) BY <2>1, <2>4
  <2> DEFINE b == h[k - 1]
             o == g[k]
  <2>6. h[k] = AddRemote(b, o) BY <2>4 DEF Remotes
  <2>7. o \in ToSet(g) BY <2>4 DEF ToSet
  <2>8. IsBlock(o) BY <2>7 DEF Listed, IsBlock
  <2>9. Listed(b) /\ Targets(f, b) BY <2>5
  <2> HIDE DEF b, o, Fine
  <2>10. Listed(AddRemote(b, o)) /\ Targets(b, AddRemote(b, o)) BY <2>8, <2>9, RemoteAdds
  <2>11. Fine(h[k]) BY <2>6, <2>9, <2>10, TargetsTwice DEF Fine
  <2>12. QED BY <2>2, <2>11
<1>2. n \in 0..n OBVIOUS
<1>3. QED BY <1>1, <1>2

\* Merging the targets of remote state keeps every one (mergeRemoteEncryptionBlock).
LEMMA RemotePart ==
  ASSUME NEW b, IsBlock(b), Listed(b.nested), b.type = "remote_state_data_sources",
         NEW o, Listed(o.nested)
  PROVE  LET y == MergeRemote(b, o) IN IsBlock(y) /\ Listed(y.nested) /\ Part(b, y)
<1> DEFINE g == o.nested
           n == Len(g)
           f == b.nested
           y == MergeRemote(b, o)
<1>1. n \in Nat /\ DOMAIN g = 1..n BY DEF Listed
<1>2. PICK h : Remotes(f, g, h, n) /\ y = [b EXCEPT !.nested = h[n]] BY <1>1, RemoteIs
<1>3. Listed(f) /\ Listed(g) OBVIOUS
<1> HIDE DEF g, n, f, y
<1>4. Listed(h[n]) /\ Targets(f, h[n]) BY <1>1, <1>2, <1>3, RemoteKeeps
<1>5. IsBlock(y) /\ y.type = b.type /\ y.label = b.label /\ y.attrs = b.attrs /\ y.nested = h[n]
  BY <1>2 DEF IsBlock
<1>6. Stands(b, y) BY <1>5 DEF Stands, Enforced
<1>7. Part(b, y) BY <1>4, <1>5, <1>6 DEF Part, f
<1>8. QED BY <1>4, <1>5, <1>7 DEF y

\* One block of an override, applied to the blocks of an encryption block.
LEMMA EncryptionAdds ==
  ASSUME NEW bs, Deep(bs), NEW n, IsBlock(n), Listed(n.nested)
  PROVE  Deep(AddEncryption(bs, n)) /\ Parts(bs, AddEncryption(bs, n))
<1> DEFINE cs == AddEncryption(bs, n)
           Merges(y, i) == y \in {MergeTarget(bs[i], n), MergeKeyed(bs[i], n), MergeRemote(bs[i], n)}
<1>0. Listed(bs) BY DEF Deep
<1>1. ASSUME NEW i \in DOMAIN bs
      PROVE  IsBlock(bs[i]) /\ Listed(bs[i].nested)
  <2>1. bs[i] \in ToSet(bs) BY DEF ToSet
  <2>2. QED BY <2>1 DEF Deep, Listed, IsBlock
<1>2. CASE n.type \in Keyed
  <2>1. cs = Upsert(bs, n, SameBlock, MergeKeyed) BY <1>2 DEF AddEncryption, Keyed
  <2>2. Added(bs, n, cs) \/ \E i \in DOMAIN bs : bs[i].type = n.type /\ Put(bs, i, MergeKeyed(bs[i], n), cs)
    BY <1>0, <2>1, UpsertSame
  <2>3. ASSUME NEW i \in DOMAIN bs, bs[i].type = n.type
        PROVE  LET y == MergeKeyed(bs[i], n) IN IsBlock(y) /\ Listed(y.nested) /\ Part(bs[i], y)
    <3> DEFINE b == bs[i]
    <3>1. IsBlock(b) /\ Listed(b.nested) /\ b.type \in Keyed BY <1>1, <1>2, <2>3
    <3> HIDE DEF b
    <3>2. Alike(b, MergeKeyed(b, n)) /\ Part(b, MergeKeyed(b, n)) BY <3>1, KeyedStands
    <3>3. QED BY <3>2 DEF Alike, b
  <2>4. Added(bs, n, cs) \/ \E i, y : Put(bs, i, y, cs) /\ IsBlock(y) /\ Listed(y.nested) /\ Part(bs[i], y)
    BY <2>2, <2>3
  <2> HIDE DEF cs
  <2>5. Deep(cs) /\ Parts(bs, cs) BY <2>4, PutParts
  <2>6. QED BY <2>5 DEF cs
<1>3. CASE n.type \in {"state", "plan"}
  <2>1. cs = Upsert(bs, n, SameType, MergeTarget) BY <1>3 DEF AddEncryption, Keyed
  <2>2. Added(bs, n, cs) \/ \E i \in DOMAIN bs : bs[i].type = n.type /\ Put(bs, i, MergeTarget(bs[i], n), cs)
    BY <1>0, <2>1, UpsertType
  <2>3. ASSUME NEW i \in DOMAIN bs, bs[i].type = n.type
        PROVE  LET y == MergeTarget(bs[i], n) IN IsBlock(y) /\ Listed(y.nested) /\ Part(bs[i], y)
    <3> DEFINE b == bs[i]
               y == MergeTarget(b, n)
    <3>1. IsBlock(b) /\ Listed(b.nested) /\ b.type \in {"state", "plan"} BY <1>1, <1>3, <2>3
    <3> HIDE DEF b
    <3>2. IsBlock(y) /\ Stands(b, y) /\ y.nested = MergeNested(b, n).nested BY <3>1, TargetStands
    <3>3. Listed(y.nested) BY <3>1, <3>2, MergeNestedKeeps DEF Alike
    <3> HIDE DEF y
    <3>4. Part(b, y) BY <3>1, <3>2 DEF Part
    <3>5. QED BY <3>2, <3>3, <3>4 DEF b, y
  <2>4. Added(bs, n, cs) \/ \E i, y : Put(bs, i, y, cs) /\ IsBlock(y) /\ Listed(y.nested) /\ Part(bs[i], y)
    BY <2>2, <2>3
  <2> HIDE DEF cs
  <2>5. Deep(cs) /\ Parts(bs, cs) BY <2>4, PutParts
  <2>6. QED BY <2>5 DEF cs
<1>4. CASE n.type = "remote_state_data_sources"
  <2>1. cs = Upsert(bs, n, SameType, MergeRemote) BY <1>4 DEF AddEncryption, Keyed
  <2>2. Added(bs, n, cs) \/ \E i \in DOMAIN bs : bs[i].type = n.type /\ Put(bs, i, MergeRemote(bs[i], n), cs)
    BY <1>0, <2>1, UpsertType
  <2>3. ASSUME NEW i \in DOMAIN bs, bs[i].type = n.type
        PROVE  LET y == MergeRemote(bs[i], n) IN IsBlock(y) /\ Listed(y.nested) /\ Part(bs[i], y)
    BY <1>1, <1>4, <2>3, RemotePart
  <2>4. Added(bs, n, cs) \/ \E i, y : Put(bs, i, y, cs) /\ IsBlock(y) /\ Listed(y.nested) /\ Part(bs[i], y)
    BY <2>2, <2>3
  <2> HIDE DEF cs
  <2>5. Deep(cs) /\ Parts(bs, cs) BY <2>4, PutParts
  <2>6. QED BY <2>5 DEF cs
<1>5. CASE n.type \notin Keyed \cup {"state", "plan", "remote_state_data_sources"}
  <2>1. cs = bs BY <1>5 DEF AddEncryption
  <2>2. QED BY <2>1, PartsTwice
<1>6. QED BY <1>2, <1>3, <1>4, <1>5

\* h[k] is what the first k blocks of g make of f.
Encrypts(f, g, h, n) ==
  /\ DOMAIN h = 0..n /\ h[0] = f
  /\ \A k \in 1..n : h[k] = AddEncryption(h[k - 1], g[k])

\* There are such h, and MergeEncryption is the last value of one.
LEMMA SomeEncrypts ==
  ASSUME NEW f, NEW g, NEW n \in Nat
  PROVE  \E h : Encrypts(f, g, h, n)
<1> DEFINE S == {k \in Nat : ~\E h : Encrypts(f, g, h, k)}
<1>1. S = {}
  <2> SUFFICES ASSUME S # {} PROVE FALSE OBVIOUS
  <2>1. PICK k \in S : \A j \in S : k <= j
    <3>1. S \in SUBSET Nat OBVIOUS
    <3> HIDE DEF S
    <3>2. QED BY <3>1, LeastNatural
  <2>2. k \in Nat /\ ~\E h : Encrypts(f, g, h, k) OBVIOUS
  <2>3. CASE k = 0
    <3> DEFINE h == [i \in 0..0 |-> f]
    <3>1. Encrypts(f, g, h, 0) BY DEF Encrypts
    <3>2. QED BY <2>2, <2>3, <3>1
  <2>4. CASE k # 0
    <3>1. k - 1 \in Nat /\ ~(k <= k - 1) BY <2>2, <2>4
    <3>2. k - 1 \notin S BY <2>1, <3>1
    <3>3. PICK h : Encrypts(f, g, h, k - 1) BY <3>1, <3>2
    <3> DEFINE e == [i \in 0..k |-> IF i = k THEN AddEncryption(h[k - 1], g[k]) ELSE h[i]]
    <3>4. DOMAIN e = 0..k /\ e[k] = AddEncryption(h[k - 1], g[k]) /\ \A i \in 0..k - 1 : e[i] = h[i]
      <4>1. k \in 0..k /\ \A i \in 0..k - 1 : i \in 0..k /\ i # k BY <2>2, <2>4
      <4>2. QED BY <4>1
    <3> HIDE DEF e
    <3>5. \A i \in 1..k : i - 1 \in 0..k - 1 /\ (i # k => i \in 1..k - 1 /\ i \in 0..k - 1)
      BY <2>2, <2>4
    <3>6. \A i \in 1..k : e[i] = AddEncryption(e[i - 1], g[i])
      BY <3>3, <3>4, <3>5 DEF Encrypts
    <3>7. e[0] = f BY <2>4, <3>1, <3>3, <3>4 DEF Encrypts
    <3>8. Encrypts(f, g, e, k) BY <3>4, <3>6, <3>7 DEF Encrypts
    <3>9. QED BY <2>2, <3>8
  <2>5. QED BY <2>3, <2>4
<1>2. QED BY <1>1

MeansEncryption(f, g, n, h) ==
  h = [k \in 0..n |-> IF k = 0 THEN f ELSE AddEncryption(h[k - 1], g[k])]

LEMMA EncryptionIs ==
  ASSUME NEW b, IsBlock(b), NEW o, Len(o.nested) \in Nat
  PROVE  \E h : /\ Encrypts(b.nested, o.nested, h, Len(o.nested))
                /\ MergeEncryption(b, o) = [b EXCEPT !.attrs = Updated(@, o.attrs), !.nested = h[Len(o.nested)]]
<1> DEFINE f == b.nested
           g == o.nested
           n == Len(g)
           h == CHOOSE x : MeansEncryption(f, g, n, x)
<1>1. MergeEncryption(b, o) = [b EXCEPT !.attrs = Updated(@, o.attrs), !.nested = h[n]] BY DEF MergeEncryption, MeansEncryption, IsBlock
<1> HIDE DEF f, g, n
<1>2. n \in Nat BY DEF n, g
<1>3. MeansEncryption(f, g, n, h)
  <2>1. PICK e : Encrypts(f, g, e, n) BY <1>2, SomeEncrypts
  <2> DEFINE x == [k \in 0..n |-> e[k]]
  <2>2. x = [k \in 0..n |-> x[k]] OBVIOUS
  <2>3. \A k \in 0..n : x[k] = IF k = 0 THEN f ELSE AddEncryption(x[k - 1], g[k])
    <3> TAKE k \in 0..n
    <3>1. x[k] = e[k] OBVIOUS
    <3>2. CASE k = 0 BY <2>1, <3>1, <3>2 DEF Encrypts
    <3>3. CASE k # 0
      <4>1. k \in 1..n /\ k - 1 \in 0..n BY <1>2, <3>3
      <4>2. x[k - 1] = e[k - 1] BY <4>1
      <4>3. e[k] = AddEncryption(e[k - 1], g[k]) BY <2>1, <4>1 DEF Encrypts
      <4> HIDE DEF x
      <4>4. QED BY <3>1, <3>3, <4>2, <4>3
    <3>4. QED BY <3>2, <3>3
  <2> HIDE DEF x
  <2>4. x = [k \in 0..n |-> IF k = 0 THEN f ELSE AddEncryption(x[k - 1], g[k])] BY <2>2, <2>3
  <2>5. MeansEncryption(f, g, n, x) BY <2>4 DEF MeansEncryption
  <2>6. QED BY <2>5
<1> HIDE DEF h
<1>4. h = [k \in 0..n |-> IF k = 0 THEN f ELSE AddEncryption(h[k - 1], g[k])]
  BY <1>3 DEF MeansEncryption
<1>5. DOMAIN h = 0..n /\ \A k \in 0..n : h[k] = IF k = 0 THEN f ELSE AddEncryption(h[k - 1], g[k])
  BY <1>4, Zenon
<1>6. 0 \in 0..n /\ \A k \in 1..n : k \in 0..n /\ k # 0 BY <1>2
<1>7. Encrypts(f, g, h, n) BY <1>5, <1>6 DEF Encrypts
<1>8. QED BY <1>1, <1>7 DEF f, g, n

\* By the least step that loses a part: there is none.
LEMMA EncryptionsKeep ==
  ASSUME NEW f, Deep(f), NEW g, Deep(g), NEW n \in Nat, DOMAIN g = 1..n, NEW h,
         Encrypts(f, g, h, n)
  PROVE  Deep(h[n]) /\ Parts(f, h[n])
<1> DEFINE Fine(b) == Deep(b) /\ Parts(f, b)
           B == {i \in 0..n : ~Fine(h[i])}
<1>1. B = {}
  <2> SUFFICES ASSUME B # {} PROVE FALSE OBVIOUS
  <2>1. PICK k \in B : \A j \in B : k <= j
    <3>1. B \in SUBSET Nat OBVIOUS
    <3> HIDE DEF B
    <3>2. QED BY <3>1, LeastNatural
  <2>2. k \in 0..n /\ ~Fine(h[k]) OBVIOUS
  <2>3. Fine(h[0])
    <3>1. h[0] = f BY DEF Encrypts
    <3>2. QED BY <3>1, PartsTwice
  <2>4. k \in 1..n /\ k - 1 \in 0..n /\ ~(k <= k - 1) BY <2>2, <2>3
  <2>5. Fine(h[k - 1]) BY <2>1, <2>4
  <2> DEFINE b == h[k - 1]
             o == g[k]
  <2>6. h[k] = AddEncryption(b, o) BY <2>4 DEF Encrypts
  <2>7. o \in ToSet(g) BY <2>4 DEF ToSet
  <2>8. IsBlock(o) /\ Listed(o.nested) BY <2>7 DEF Deep, Listed, IsBlock
  <2>9. Deep(b) /\ Parts(f, b) BY <2>5
  <2> HIDE DEF b, o, Fine
  <2>10. Deep(AddEncryption(b, o)) /\ Parts(b, AddEncryption(b, o)) BY <2>8, <2>9, EncryptionAdds
  <2>11. Fine(h[k]) BY <2>6, <2>9, <2>10, PartsTwice DEF Fine
  <2>12. QED BY <2>2, <2>11
<1>2. n \in 0..n OBVIOUS
<1>3. QED BY <1>1, <1>2

\* Merging two encryption blocks keeps every part of the first (mergeEncryptionBlock).
LEMMA EncryptionParts ==
  ASSUME NEW b, IsBlock(b), Deep(b.nested), NEW o, Deep(o.nested)
  PROVE  LET y == MergeEncryption(b, o)
         IN IsBlock(y) /\ y.type = b.type /\ Deep(y.nested) /\ Parts(b.nested, y.nested)
<1> DEFINE g == o.nested
           n == Len(g)
           f == b.nested
           y == MergeEncryption(b, o)
<1>1. n \in Nat /\ DOMAIN g = 1..n BY DEF Deep, Listed
<1>2. PICK h : /\ Encrypts(f, g, h, n)
               /\ y = [b EXCEPT !.attrs = Updated(@, o.attrs), !.nested = h[n]]
  BY <1>1, EncryptionIs
<1>3. Deep(f) /\ Deep(g) OBVIOUS
<1> HIDE DEF g, n, f, y
<1>4. Deep(h[n]) /\ Parts(f, h[n]) BY <1>1, <1>2, <1>3, EncryptionsKeep
<1>5. IsBlock(y) /\ y.type = b.type /\ y.nested = h[n] BY <1>2 DEF IsBlock
<1>6. QED BY <1>4, <1>5 DEF y, f

\* The bodies an override is applied to, with what an encryption block has.
Layered(bs, n) == Bodies(bs, n) /\ \A i \in 1..n : Deeper(bs[i].nested)

\* Every encryption block of bs is one of cs still, with its parts.
Guards(N, cs, n) ==
  \A x \in ToSet(N) : x.type = "encryption" =>
    \E k \in 1..n : \E y \in ToSet(cs[k].nested) : y.type = "encryption" /\ Parts(x.nested, y.nested)
Guarded(bs, cs, n) == \A i \in 1..n : Guards(bs[i].nested, cs, n)

\* Guarded holds of the bodies themselves, and of two changes one after the other.
LEMMA GuardedTwice ==
  ASSUME NEW n
  PROVE  /\ \A a : Guarded(a, a, n)
         /\ \A a, b, c : Guarded(a, b, n) /\ Guarded(b, c, n) => Guarded(a, c, n)
<1>1. \A a : Guarded(a, a, n) BY PartsTwice DEF Guarded, Guards
<1>2. ASSUME NEW a, NEW b, NEW c, Guarded(a, b, n), Guarded(b, c, n) PROVE Guarded(a, c, n)
  <2> SUFFICES ASSUME NEW i \in 1..n, NEW x \in ToSet(a[i].nested), x.type = "encryption"
               PROVE  \E k \in 1..n : \E z \in ToSet(c[k].nested) :
                        z.type = "encryption" /\ Parts(x.nested, z.nested)
    BY DEF Guarded, Guards
  <2>1. PICK j \in 1..n : \E y \in ToSet(b[j].nested) : y.type = "encryption" /\ Parts(x.nested, y.nested)
    BY <1>2 DEF Guarded, Guards
  <2>2. PICK y \in ToSet(b[j].nested) : y.type = "encryption" /\ Parts(x.nested, y.nested) BY <2>1
  <2>3. \E k \in 1..n : \E z \in ToSet(c[k].nested) : z.type = "encryption" /\ Parts(y.nested, z.nested)
    BY <1>2, <2>2 DEF Guarded, Guards
  <2>4. QED BY <2>2, <2>3, PartsTwice
<1>3. QED BY <1>1, <1>2

\* The ways one block of an override is applied: it is added to the first body,
LEMMA AddGuards ==
  ASSUME NEW n, NEW bs, Layered(bs, n), NEW x, IsBlock(x), Deep(x.nested)
  PROVE  Layered(AddToFirst(bs, x), n) /\ Guarded(bs, AddToFirst(bs, x), n)
<1> DEFINE cs == AddToFirst(bs, x)
<1>1. Gains(bs, cs, x, n) BY AddGains DEF Layered
<1> HIDE DEF cs
<1>2. 1 \in 1..n /\ \A i \in 1..n : Deeper(bs[i].nested) BY DEF Layered, Bodies
<1>3. cs[1].nested = Append(bs[1].nested, x) /\ \A i \in 1..n : i # 1 => cs[i].nested = bs[i].nested
  BY <1>1 DEF Gains
<1>4. Listed(bs[1].nested) BY <1>2 DEF Deeper
<1>5. Listed(cs[1].nested) /\ ToSet(cs[1].nested) = ToSet(bs[1].nested) \cup {x}
  BY <1>3, <1>4, AddListed
<1>6. ASSUME NEW i \in 1..n
      PROVE  Deeper(cs[i].nested) /\ ToSet(bs[i].nested) \subseteq ToSet(cs[i].nested)
  <2>1. CASE i = 1 BY <1>2, <1>5, <2>1 DEF Deeper
  <2>2. CASE i # 1 BY <1>2, <1>3, <2>2
  <2>3. QED BY <2>1, <2>2
<1>7. Layered(cs, n) BY <1>1, <1>6 DEF Layered, Gains
<1>8. Guarded(bs, cs, n) BY <1>6, PartsTwice DEF Guarded, Guards
<1>9. QED BY <1>7, <1>8 DEF cs

\* it is merged into the earliest encryption block,
LEMMA EncryptionGuards ==
  ASSUME NEW n, NEW bs, Layered(bs, n), NEW x, Deep(x.nested), Within(bs, "encryption") # {}
  PROVE  Layered(MergeEncryptions(bs, x), n) /\ Guarded(bs, MergeEncryptions(bs, x), n)
<1> DEFINE t == "encryption"
           e == Earliest(Within(bs, t))
           a == e[1]
           b == e[2]
           N == bs[a].nested
           c == N[b]
           new == MergeEncryption(c, x)
           cs == MergeEncryptions(bs, x)
           M == [N EXCEPT ![b] = new]
<1>0. Bodies(bs, n) /\ \A i \in 1..n : Deeper(bs[i].nested) BY DEF Layered
<1>1. a \in 1..n /\ b \in DOMAIN N /\ c.type = t BY <1>0, EarliestWithin
<1>2. cs = [bs EXCEPT ![a] = [bs[a] EXCEPT !.nested = M]] BY DEF MergeEncryptions, ReplaceAt
<1>3. IsBlock(bs[a]) /\ Listed(N) /\ Deeper(N) /\ DOMAIN bs = 1..n BY <1>0, <1>1 DEF Bodies
<1>4. c \in ToSet(N) BY <1>1 DEF ToSet
<1>5. IsBlock(c) /\ Deep(c.nested) BY <1>3, <1>4 DEF Deeper, Listed, IsBlock
<1>6. Bodies(cs, n) BY <1>0, EncryptionRewrites DEF Rewrites
<1> HIDE DEF cs, a, b, N, c
<1>7. IsBlock(new) /\ new.type = t /\ Deep(new.nested) /\ Parts(c.nested, new.nested)
  BY <1>1, <1>5, EncryptionParts
<1> HIDE DEF new
<1>8. /\ Listed(M) /\ new \in ToSet(M) /\ ToSet(M) \subseteq ToSet(N) \cup {new}
      /\ \A y \in ToSet(N) : y = c \/ y \in ToSet(M)
  BY <1>1, <1>3, <1>7, PutListed DEF c
<1> HIDE DEF M
<1>9. cs[a].nested = M /\ \A i \in 1..n : i # a => cs[i] = bs[i]
  BY <1>1, <1>2, <1>3 DEF IsBlock
<1>10. ASSUME NEW i \in 1..n PROVE Deeper(cs[i].nested) /\ Guards(bs[i].nested, cs, n)
  <2>1. CASE i = a
    <3>1. Deeper(M) BY <1>3, <1>7, <1>8 DEF Deeper
    <3>2. ASSUME NEW y \in ToSet(N), y.type = t
          PROVE  \E z \in ToSet(M) : z.type = t /\ Parts(y.nested, z.nested)
      BY <1>7, <1>8, <3>2, PartsTwice
    <3>3. Guards(N, cs, n) BY <1>1, <1>9, <3>2 DEF Guards
    <3>4. QED BY <1>9, <2>1, <3>1, <3>3 DEF N
  <2>2. CASE i # a
    <3>1. cs[i] = bs[i] BY <1>9, <2>2
    <3>2. QED BY <1>0, <3>1, PartsTwice DEF Guards
  <2>3. QED BY <2>1, <2>2
<1>11. QED BY <1>6, <1>10 DEF Layered, Guarded, cs

\* or its providers are, into the required_providers blocks.
LEMMA ProvidersGuard ==
  ASSUME NEW n, NEW bs, Layered(bs, n), NEW x, x.attrs # << >>, Within(bs, "required_providers") # {}
  PROVE  Layered(MergeProviders(bs, x), n) /\ Guarded(bs, MergeProviders(bs, x), n)
<1> DEFINE t == "required_providers"
           W == Within(bs, t)
           first == Earliest(W)
           cs == MergeProviders(bs, x)
<1>0. Bodies(bs, n) /\ \A i \in 1..n : Deeper(bs[i].nested) BY DEF Layered
<1>1. /\ Rewrites(bs, cs, t, n)
      /\ \A i, j : <<i, j>> \in W => Provider(<<i, j>>, first, bs[i].nested[j], cs[i].nested[j], x)
  BY <1>0, ProvidersRewrite
<1> HIDE DEF cs, first
<1>2. ASSUME NEW i \in 1..n PROVE Deeper(cs[i].nested) /\ Guards(bs[i].nested, cs, n)
  <2> DEFINE N == bs[i].nested
             M == cs[i].nested
  <2>1. Deeper(N) /\ Listed(M) /\ DOMAIN M = DOMAIN N BY <1>0, <1>1 DEF Rewrites, Bodies
  <2>2. ASSUME NEW j \in DOMAIN N
        PROVE  M[j].nested = N[j].nested /\ (N[j].type # t => M[j] = N[j])
    <3>1. CASE N[j].type = t
      <4>1. <<i, j>> \in W BY <1>0, <3>1, WithinAt
      <4>2. Provider(<<i, j>>, first, N[j], M[j], x) BY <1>1, <4>1
      <4>3. QED BY <3>1, <4>2 DEF Provider
    <3>2. CASE N[j].type # t
      <4>1. M[j] = N[j] BY <1>1, <3>2 DEF Rewrites
      <4>2. QED BY <4>1
    <3>3. QED BY <3>1, <3>2
  <2> HIDE DEF N, M
  <2>3. \A j \in DOMAIN N : N[j] \in ToSet(N) /\ M[j] \in ToSet(M) BY <2>1 DEF ToSet
  <2>4. \A y \in ToSet(M) : \E j \in DOMAIN N : y = M[j] BY <2>1 DEF ToSet
  <2>5. \A y \in ToSet(N) : \E j \in DOMAIN N : y = N[j] BY DEF ToSet
  <2>6. Deeper(M) BY <2>1, <2>2, <2>3, <2>4 DEF Deeper
  <2>7. ASSUME NEW y \in ToSet(N), y.type = "encryption" PROVE y \in ToSet(M)
    BY <2>2, <2>3, <2>5, <2>7
  <2>8. Guards(N, cs, n) BY <2>7, PartsTwice DEF Guards, M
  <2>9. QED BY <2>6, <2>8 DEF N, M
<1>3. QED BY <1>1, <1>2 DEF Layered, Guarded, Rewrites, cs

\* One block of an override, and all of them (applyTerraformOverride).
LEMMA ApplyGuards ==
  ASSUME NEW n, NEW bs, Layered(bs, n), NEW x, IsBlock(x), Deep(x.nested)
  PROVE  Layered(Apply(bs, x), n) /\ Guarded(bs, Apply(bs, x), n)
<1>1. CASE x.type = "provider_meta"
  <2>1. Apply(bs, x) = bs BY <1>1 DEF Apply
  <2>2. QED BY <2>1, GuardedTwice
<1>2. CASE x.type = "required_providers"
  <2>1. Apply(bs, x) = MergeProviders(bs, x) BY <1>2 DEF Apply
  <2>2. CASE x.attrs = << >>
    <3>1. MergeProviders(bs, x) = bs BY <2>2 DEF MergeProviders
    <3>2. QED BY <2>1, <3>1, GuardedTwice
  <2>3. CASE x.attrs # << >> /\ Within(bs, "required_providers") = {}
    <3>1. MergeProviders(bs, x) = AddToFirst(bs, x) BY <2>3 DEF MergeProviders
    <3>2. QED BY <2>1, <3>1, AddGuards
  <2>4. CASE x.attrs # << >> /\ Within(bs, "required_providers") # {}
    BY <2>1, <2>4, ProvidersGuard
  <2>5. QED BY <2>2, <2>3, <2>4
<1>3. CASE x.type = "encryption"
  <2>1. Apply(bs, x) = MergeEncryptions(bs, x) BY <1>3 DEF Apply
  <2>2. CASE Within(bs, "encryption") = {}
    <3>1. MergeEncryptions(bs, x) = AddToFirst(bs, x) BY <2>2 DEF MergeEncryptions
    <3>2. QED BY <2>1, <3>1, AddGuards
  <2>3. CASE Within(bs, "encryption") # {} BY <2>1, <2>3, EncryptionGuards
  <2>4. QED BY <2>2, <2>3
<1>4. CASE x.type \notin {"provider_meta", "required_providers", "encryption"}
  <2>1. Apply(bs, x) = AddToFirst(bs, x) BY <1>4 DEF Apply
  <2>2. QED BY <2>1, AddGuards
<1>5. QED BY <1>1, <1>2, <1>3, <1>4

LEMMA AppliedGuards ==
  ASSUME NEW n, NEW bs, Layered(bs, n), NEW U, \A u \in U : IsBlock(u) /\ Deep(u.nested), NEW ns \in Seq(U)
  PROVE  Layered(Applied(bs, ns), n) /\ Guarded(bs, Applied(bs, ns), n)
<1> DEFINE Done(s) == Layered(Applied(bs, s), n) /\ Guarded(bs, Applied(bs, s), n)
           X == {s \in Seq(U) : Done(s)}
<1>1. << >> \in X
  <2>1. << >> \in Seq(U) BY EmptySeq
  <2>2. Applied(bs, << >>) = bs
    <3>1. << >> \in Seq({0}) BY EmptySeq
    <3>2. QED BY <3>1, AppliedNext
  <2>3. QED BY <2>1, <2>2, GuardedTwice
<1>2. ASSUME NEW s \in Seq(U), NEW x \in U, s \in X PROVE Append(s, x) \in X
  <2> DEFINE cs == Applied(bs, s)
             ds == Applied(bs, Append(s, x))
  <2>1. Append(s, x) \in Seq(U) OBVIOUS
  <2>2. ds = Apply(cs, x) BY AppliedNext
  <2>3. Layered(cs, n) /\ Guarded(bs, cs, n) BY <1>2
  <2> HIDE DEF cs, ds
  <2>4. Layered(ds, n) /\ Guarded(cs, ds, n) BY <2>2, <2>3, ApplyGuards
  <2>5. Guarded(bs, ds, n) BY <2>3, <2>4, GuardedTwice
  <2>6. QED BY <2>1, <2>4, <2>5 DEF ds
<1> HIDE DEF X
<1>3. Seq(U) \subseteq X BY <1>1, <1>2, SequencesIn
<1>4. QED BY <1>3 DEF X

\* No dynamic block of bs stands for an encryption block.
NoEncryption(bs) == "encryption" \notin TypesIn(OfType(bs, {"dynamic"}))

\* What an override replaces is never an encryption block, unless it has a
\* dynamic block that generates one.
LEMMA ClearedGuards ==
  ASSUME NEW n, NEW bs, Layered(bs, n), NEW over, Listed(over.nested)
  PROVE  /\ Layered(Cleared(bs, over), n)
         /\ NoEncryption(over.nested) => Guarded(bs, Cleared(bs, over), n)
<1> DEFINE t == "encryption"
           cs == Cleared(bs, over)
           fieldwise == {"provider_meta", "required_providers", "encryption"}
           storage == OfType(over.nested, Storage) # << >>
           O == over.nested
           replaced == TypesIn(NotOfType(O, fieldwise \cup Storage))
           Stays(b) == ~(storage /\ b.type \in Storage) /\ NestedType(b) \notin replaced
<1>1. ASSUME NoEncryption(O) PROVE t \notin replaced
  <2> DEFINE A == NotOfType(O, fieldwise \cup Storage)
             D == OfType(O, {"dynamic"})
             W == ToSet(O)
             T == NotTyped(W, fieldwise \cup Storage)
             R == Typed(W, {"dynamic"})
  <2>1. O \in Seq(W) BY DEF Listed
  <2>2. A = Kept(O, T) /\ D = Kept(O, R) BY <2>1, SelectionsKeep
  <2> HIDE DEF A, D, O, W
  <2>3. ToSet(A) = W \cap T /\ ToSet(D) = W \cap R
    <3> HIDE DEF T, R
    <3>1. QED BY <2>1, <2>2, KeptRange DEF W
  <2>4. TypesIn(A) = {NestedType(b) : b \in ToSet(A)} /\ TypesIn(D) = {NestedType(b) : b \in ToSet(D)}
    BY DEF TypesIn, ToSet
  <2>5. t \notin TypesIn(D) BY <1>1 DEF NoEncryption, D, O
  <2>6. \A b \in ToSet(A) : b.type # t /\ b \in W BY <2>3 DEF NotTyped
  <2>7. \A b \in ToSet(A) : b.type = "dynamic" => b \in ToSet(D) BY <2>3, <2>6 DEF Typed
  <2>8. ASSUME NEW b \in ToSet(A), NestedType(b) = t PROVE FALSE
    <3>1. CASE b.type = "dynamic" BY <2>4, <2>5, <2>7, <2>8, <3>1
    <3>2. CASE b.type # "dynamic" BY <2>6, <2>8, <3>2 DEF NestedType
    <3>3. QED BY <3>1, <3>2
  <2>9. replaced = TypesIn(A) BY DEF A, O
  <2> HIDE DEF replaced
  <2>10. QED BY <2>4, <2>8, <2>9
<1>2. /\ DOMAIN bs = 1..n /\ DOMAIN cs = 1..n
      /\ \A i \in 1..n : \E a : cs[i] = [bs[i] EXCEPT !.attrs = a, !.nested = Where(@, Stays)]
  <2>1. DOMAIN bs = 1..n BY DEF Layered, Bodies
  <2>2. DOMAIN cs = 1..n BY <2>1, ZenonT(30) DEF Cleared
  <2>3. \A i \in 1..n : \E a : cs[i] = [bs[i] EXCEPT !.attrs = a, !.nested = Where(@, Stays)]
    BY <2>1 DEF Cleared
  <2>4. QED BY <2>1, <2>2, <2>3
<1> HIDE DEF cs
<1>3. ASSUME NEW i \in 1..n
      PROVE  /\ IsBlock(cs[i]) /\ Deeper(cs[i].nested)
             /\ t \notin replaced => \A x \in ToSet(bs[i].nested) : x.type = t => x \in ToSet(cs[i].nested)
  <2> DEFINE N == bs[i].nested
             U == ToSet(N)
             Q == {b \in U : Stays(b)}
             M == Where(N, Stays)
  <2>1. IsBlock(bs[i]) /\ Deeper(N) BY DEF Layered, Bodies
  <2>2. N \in Seq(U) /\ \A u \in U : IsBlock(u) /\ Deep(u.nested) BY <2>1 DEF Deeper, Listed, IsBlock
  <2>3. \E a : cs[i] = [bs[i] EXCEPT !.attrs = a, !.nested = M] BY <1>2
  <2>4. M = Kept(N, Q)
    <3>1. \A j \in DOMAIN N : Stays(N[j]) <=> N[j] \in Q BY DEF ToSet
    <3>2. [j \in DOMAIN N |-> IF Stays(N[j]) THEN <<N[j]>> ELSE << >>]
            = [j \in DOMAIN N |-> IF N[j] \in Q THEN <<N[j]>> ELSE << >>]
      BY <3>1
    <3>3. QED BY <3>2 DEF Kept, Where
  <2> HIDE DEF M
  <2>5. IsBlock(cs[i]) /\ cs[i].nested = M BY <2>1, <2>3 DEF IsBlock
  <2> HIDE DEF replaced, storage
  <2>6. t \notin replaced => \A u \in U : u.type = t => u \in Q BY DEF NestedType, Storage
  <2> HIDE DEF Q, U, N
  <2>7. M \in Seq(U) /\ ToSet(M) = ToSet(N) \cap Q BY <2>2, <2>4, KeptRange
  <2>8. Listed(M) BY <2>2, <2>7, ListedIn
  <2>9. ToSet(M) \subseteq U BY <2>7, InOwnSet
  <2>10. Deeper(M) BY <2>2, <2>8, <2>9 DEF Deeper
  <2>11. t \notin replaced => \A x \in ToSet(N) : x.type = t => x \in ToSet(M) BY <2>6, <2>7 DEF U
  <2>12. QED BY <2>5, <2>10, <2>11 DEF N
<1>4. Layered(cs, n) BY <1>2, <1>3 DEF Layered, Bodies, Deeper
<1>5. NoEncryption(O) => Guarded(bs, cs, n) BY <1>1, <1>3, PartsTwice DEF Guarded, Guards
<1>6. QED BY <1>4, <1>5 DEF cs

\* A whole override of the terraform block.
LEMMA OverrideGuards ==
  ASSUME NEW n, NEW bs, Layered(bs, n), NEW over, Deeper(over.nested)
  PROVE  /\ Layered(TerraformOverride(bs, over), n)
         /\ NoEncryption(over.nested) => Guarded(bs, TerraformOverride(bs, over), n)
<1> DEFINE cl == Cleared(bs, over)
           O == over.nested
           U == ToSet(O)
<1>1. Layered(cl, n) /\ (NoEncryption(O) => Guarded(bs, cl, n)) BY ClearedGuards DEF Deeper
<1>2. O \in Seq(U) /\ \A u \in U : IsBlock(u) /\ Deep(u.nested) BY DEF Deeper, Listed, IsBlock
<1>3. TerraformOverride(bs, over) = Applied(cl, O) BY DEF TerraformOverride
<1> HIDE DEF cl, O, U
<1>4. Layered(Applied(cl, O), n) /\ Guarded(cl, Applied(cl, O), n) BY <1>1, <1>2, AppliedGuards
<1>5. QED BY <1>1, <1>3, <1>4, GuardedTwice DEF O

-----------------------------------------------------------------------------
(* What no later override takes back                                       *)

\* What an encryption block of the blocks at T has in the memory m, one of those
\* at V has in n.
DeepAt(m, T) == \A p \in T : Deeper(At(m, p).nested)
Outlasts(m, T, n, V) ==
  \A p \in T : \A x \in ToSet(At(m, p).nested) : x.type = "encryption" =>
    \E q \in V : \E y \in ToSet(At(n, q).nested) : y.type = "encryption" /\ Parts(x.nested, y.nested)

LEMMA OutlastsSame ==
  ASSUME NEW m, NEW n, NEW T, \A p \in T : At(n, p) = At(m, p), DeepAt(m, T)
  PROVE  DeepAt(n, T) /\ Outlasts(m, T, n, T)
BY PartsTwice DEF DeepAt, Outlasts

\* The turn of a terraform block.
LEMMA EncryptionTurns ==
  ASSUME IInv, ListingOK, NEW r \in todo, OverrideTerraform(r), Block(r) = Source(r),
         IsFiniteSet(index.terraform), DeepAt(mem, index.terraform)
  PROVE  /\ DeepAt(mem', index'.terraform)
         /\ NoEncryption(Source(r).nested) => Outlasts(mem, index.terraform, mem', index'.terraform)
<1> DEFINE over == Source(r)
           O == over.nested
<1>1. /\ FilesOK /\ r \in Refs /\ Good(mem', todo') /\ \E m, places : TerraformTurn(r, m, places)
  BY OverrideTerraformKeeps DEF IInv, TodoOK
<1>2. Deeper(O) BY <1>1, SourceNested
<1>3. PICK m, places : TerraformTurn(r, m, places) BY <1>1
<1> DEFINE s == InOrder(places)
           k == Cardinality(places)
           bs == BodiesAt(m, s)
           cs == TerraformOverride(bs, over)
<1>4. /\ index'.terraform = places
      /\ \A p \in places : /\ p \in Places(m) /\ p \in Places(mem') /\ IsBlock(At(m, p))
                           /\ At(mem', p) = TerraformsAfter(m, places, over)[p]
  BY <1>3 DEF TerraformTurn
<1>5. places \in SUBSET (Nat \X Nat)
  <2>1. Places(mem') \subseteq Nat \X Nat BY <1>1, PlacesNatural
  <2>2. QED BY <1>4, <2>1
<1>6. /\ IsFiniteSet(places) /\ places # {} /\ DeepAt(m, places)
      /\ index.terraform # {} => m = mem /\ places = index.terraform
  <2>1. CASE index.terraform = {}
    <3>1. PICK p : places = {p} /\ At(m, p).nested = << >> BY <1>3, <2>1 DEF TerraformTurn
    <3>2. Deeper(<< >>)
      <4>1. << >> \in Seq(ToSet(<< >>)) OBVIOUS
      <4>2. ToSet(<< >>) = {} BY DEF ToSet
      <4>3. QED BY <4>1, <4>2 DEF Deeper, Listed
    <3>3. DeepAt(m, places) BY <3>1, <3>2 DEF DeepAt
    <3>4. QED BY <2>1, <3>1, <3>3, FS_Singleton
  <2>2. CASE index.terraform # {}
    <3>1. m = mem /\ places = index.terraform BY <1>3, <2>2 DEF TerraformTurn
    <3>2. QED BY <2>2, <3>1
  <2>3. QED BY <2>1, <2>2
<1>7. /\ k \in Nat \ {0} /\ DOMAIN s = 1..k
      /\ \A i \in DOMAIN s : s[i] \in places
      /\ \A p \in places : \E i \in DOMAIN s : s[i] = p
  BY <1>5, <1>6, OrderedPlaces
<1>8. DOMAIN bs = DOMAIN s /\ \A i \in DOMAIN s : bs[i] = At(m, s[i]) BY DEF BodiesAt
<1> HIDE DEF k, bs
<1>9. Layered(bs, k)
  <2> HIDE DEF s
  <2>1. \A i \in 1..k : IsBlock(bs[i]) /\ Deeper(bs[i].nested) BY <1>4, <1>6, <1>7, <1>8 DEF DeepAt
  <2>2. QED BY <1>7, <1>8, <2>1 DEF Layered, Bodies, Deeper
<1>10. Layered(cs, k) /\ (NoEncryption(O) => Guarded(bs, cs, k))
  <2> HIDE DEF over, s
  <2>1. QED BY <1>2, <1>7, <1>9, OverrideGuards
<1>11. ASSUME NEW i \in 1..k PROVE At(mem', s[i]).nested = cs[i].nested
  <2>1. i \in DOMAIN s /\ s[i] \in places BY <1>7
  <2>2. IsBlock(At(m, s[i])) /\ At(mem', s[i]) = TerraformsAfter(m, places, over)[s[i]] BY <1>4, <2>1
  <2> DEFINE b == TerraformsAfter(m, places, over)[s[i]]
  <2>3. b.nested = TerraformOverride(BodiesAt(m, s), over)[i].nested
    BY <1>5, <1>6, <2>1, <2>2, AfterTurn
  <2>4. At(mem', s[i]) = b BY <2>2
  <2>5. cs = TerraformOverride(BodiesAt(m, s), over) BY DEF bs
  <2> HIDE DEF b, cs, s
  <2>6. QED BY <2>3, <2>4, <2>5
<1> HIDE DEF cs, s, over, O
<1>12. DeepAt(mem', places)
  <2> SUFFICES ASSUME NEW p \in places PROVE Deeper(At(mem', p).nested) BY DEF DeepAt
  <2>1. PICK i \in 1..k : s[i] = p BY <1>7
  <2>2. QED BY <1>10, <1>11, <2>1 DEF Layered
<1>13. ASSUME NoEncryption(O) PROVE Outlasts(mem, index.terraform, mem', places)
  <2> SUFFICES ASSUME NEW p \in index.terraform, NEW x \in ToSet(At(mem, p).nested), x.type = "encryption"
               PROVE  \E q \in places : \E y \in ToSet(At(mem', q).nested) :
                        y.type = "encryption" /\ Parts(x.nested, y.nested)
    BY DEF Outlasts
  <2>1. m = mem /\ p \in places BY <1>6
  <2>2. PICK i \in 1..k : s[i] = p BY <1>7, <2>1
  <2>3. x \in ToSet(bs[i].nested) BY <1>7, <1>8, <2>1, <2>2
  <2>4. Guards(bs[i].nested, cs, k) BY <1>10, <1>13 DEF Guarded
  <2>5. PICK j \in 1..k : \E y \in ToSet(cs[j].nested) : y.type = "encryption" /\ Parts(x.nested, y.nested)
    BY <2>3, <2>4 DEF Guards
  <2>6. At(mem', s[j]).nested = cs[j].nested /\ s[j] \in places BY <1>7, <1>11
  <2>7. QED BY <2>5, <2>6
<1>14. QED BY <1>4, <1>12, <1>13 DEF O, over

LEMMA EncryptionStart ==
  ASSUME IInv, ListingOK, IndexPrimary
  PROVE  DeepAt(mem', index'.terraform)
<1>1. index'.terraform = PrimaryTerraforms /\ \A p \in Primaries : At(mem', p) = Source(p)
  BY TerraformsStart
<1>2. \A p \in PrimaryTerraforms : p \in Primaries /\ Deeper(Source(p).nested)
  BY SourceNested DEF PrimaryTerraforms, Primaries
<1>3. QED BY <1>1, <1>2 DEF DeepAt

\* The invariant: the encryption blocks have lists of lists.
SInv == TInv /\ (pc # "index" => DeepAt(mem, index.terraform))

\* The turn of a block: the encryption blocks have all they had.
LEMMA TurnEncrypts ==
  ASSUME SInv, pc = "apply", NEW r \in todo,
         OverrideLocals(r) \/ OverrideTerraform(r) \/ MergeBlock(r) \/ AddBlock(r) \/ SkipBlock(r)
  PROVE  /\ DeepAt(mem', index'.terraform)
         /\ (IsTerraform(Source(r)) => NoEncryption(Source(r).nested)) =>
              Outlasts(mem, index.terraform, mem', index'.terraform)
<1>1. Turn(r) BY DEF OverrideLocals, OverrideTerraform, MergeBlock, AddBlock, SkipBlock
<1>2. /\ MInv /\ IInv /\ ListingOK /\ MergedOK(Read, mem, index) /\ \A q \in Read : Precedes(q, r)
      /\ DeepAt(mem, index.terraform) /\ TerraformOK(Read, mem, index.terraform)
  BY DEF SInv, TInv, MInv
<1>3. Block(r) = Source(r) BY <1>1, <1>2, AtMerge
<1>4. CASE OverrideTerraform(r)
  <2>1. IsTerraform(Source(r)) BY <1>3, <1>4 DEF OverrideTerraform
  <2>2. IsFiniteSet(index.terraform) BY <1>2 DEF TerraformOK
  <2>3. QED BY <1>2, <1>3, <1>4, <2>1, <2>2, EncryptionTurns
<1>5. CASE OverrideLocals(r) \/ MergeBlock(r) \/ AddBlock(r) \/ SkipBlock(r)
  <2>1. index'.terraform = index.terraform /\ \A p \in index.terraform : At(mem', p) = At(mem, p)
    BY <1>2, <1>5, TerraformsLeft
  <2> DEFINE T == index.terraform
  <2> HIDE DEF T
  <2>2. \A p \in T : At(mem', p) = At(mem, p) BY <2>1 DEF T
  <2>3. DeepAt(mem, T) BY <1>2 DEF T
  <2>4. DeepAt(mem', T) /\ Outlasts(mem, T, mem', T) BY <2>2, <2>3, OutlastsSame
  <2>5. QED BY <2>1, <2>4 DEF T
<1>6. QED BY <1>4, <1>5

LEMMA EncryptedNow == ASSUME SInv, Next PROVE SInv'
<1>1. TInv' /\ IInv /\ ListingOK BY SettledNow DEF SInv, TInv, MInv
<1>2. DeepAt(mem', index'.terraform) => DeepAt(mem, index.terraform)'
  BY DEF DeepAt, At, RefAt, BodyOf
<1>3. CASE NoOverrides
  <2>1. index'.terraform = {} BY <1>1, <1>3 DEF NoOverrides, IInv
  <2>2. QED BY <1>1, <1>2, <2>1 DEF SInv, DeepAt
<1>4. CASE IndexPrimary BY <1>1, <1>2, <1>4, EncryptionStart DEF SInv
<1>5. ASSUME NEW r \in todo,
             \/ OverrideLocals(r) \/ OverrideTerraform(r) \/ MergeBlock(r)
             \/ AddBlock(r) \/ SkipBlock(r)
      PROVE  SInv'
  <2>1. pc = "apply" BY <1>5 DEF OverrideLocals, OverrideTerraform, MergeBlock, AddBlock, SkipBlock, Turn
  <2>2. DeepAt(mem', index'.terraform) BY <1>5, <2>1, TurnEncrypts
  <2>3. QED BY <1>1, <1>2, <2>2 DEF SInv
<1>6. CASE Finish
  <2>1. mem' = mem /\ index' = index /\ pc = "apply" BY <1>6 DEF Finish
  <2>2. DeepAt(mem', index'.terraform) BY <2>1 DEF SInv
  <2>3. QED BY <1>1, <1>2, <2>2 DEF SInv
<1>7. QED BY <1>3, <1>4, <1>5, <1>6 DEF Next

LEMMA EncryptedInvariant == Spec => []SInv
<1>1. Init => SInv BY ModulesAssumption, MergeInit DEF Init, TInv, SInv
<1>2. SInv /\ [Next]_vars => SInv'
  <2>1. ASSUME SInv, UNCHANGED vars PROVE SInv'
    <3>1. TInv' /\ pc' = pc /\ mem' = mem /\ index' = index BY <2>1, SettledStutters DEF SInv, vars
    <3>2. DeepAt(mem, index.terraform) => DeepAt(mem, index.terraform)'
      BY <3>1 DEF DeepAt, At, RefAt, BodyOf
    <3>3. QED BY <2>1, <3>1, <3>2 DEF SInv
  <2>2. QED BY <2>1, EncryptedNow
<1>3. QED BY <1>1, <1>2, PTL DEF Spec

\* The lifecycle block b has its resource ignore every change.
AllIgnored(b) == Has(b.attrs, "ignore_changes") /\ b.attrs["ignore_changes"].lit = "all"

\* Merging lifecycle blocks keeps that (mergeManagedLifecycleBlock), however many
\* an override has.
LEMMA LifecycleIgnores ==
  ASSUME NEW b, IsBlock(b), AllIgnored(b), NEW o, NEW tofu
  PROVE  AllIgnored(MergeLifecycle(b, o, tofu))
<1> DEFINE m == MergeLifecycle(b, o, tofu)
           Lit(c) == IF Has(c.attrs, "ignore_changes") THEN c.attrs["ignore_changes"].lit ELSE "none"
           settings == {"create_before_destroy", "prevent_destroy"}
                         \cup (IF tofu THEN {"destroy"} ELSE {})
                         \cup (IF Lit(b) = "all" \/ Lit(o) = "empty" THEN {} ELSE {"ignore_changes"})
           new == Only(o.attrs, settings)
<1>1. m.attrs = Updated(b.attrs, new) BY DEF MergeLifecycle, IsBlock
<1>2. Lit(b) = "all" BY DEF AllIgnored
<1>3. "ignore_changes" \notin settings BY <1>2
<1>4. "ignore_changes" \notin DOMAIN new BY <1>3 DEF Only
<1> HIDE DEF new, m
<1>5. AllIgnored(m) BY <1>1, <1>4 DEF AllIgnored, Updated, Has
<1>6. QED BY <1>5 DEF m

LEMMA CombinedIgnores ==
  ASSUME NEW bs, Deep(bs), NEW os, Deep(os), NEW tofu, "lifecycle" \in TypesIn(os),
         AllIgnored(FirstOrEmpty(bs, os, "lifecycle"))
  PROVE  AllIgnored(Combined(bs, os, "lifecycle", tofu))
<1> DEFINE t == "lifecycle"
           f == FirstOrEmpty(bs, os, t)
           g == Peers(os, t)
           n == Len(g)
<1>1. IsBlock(f) /\ Listed(f.nested) BY FirstIsBlock
<1>2. /\ n \in Nat /\ \A i \in 1..n : g[i] \in ToSet(os) /\ NestedType(g[i]) = t
  <2>1. os \in Seq(ToSet(os)) BY DEF Deep, Listed
  <2>2. QED BY <2>1, PeersIn
<1>3. PICK h : Combines(f, g, tofu, h, n) /\ Combined(bs, os, t, tofu) = h[n] BY <1>2, CombinedIs
<1>4. AllIgnored(f) OBVIOUS
<1> HIDE DEF f, g, n
<1> DEFINE Fine(b) == IsBlock(b) /\ Listed(b.nested) /\ AllIgnored(b)
           B == {i \in 0..n : ~Fine(h[i])}
<1>5. B = {}
  <2> SUFFICES ASSUME B # {} PROVE FALSE OBVIOUS
  <2>1. PICK k \in B : \A j \in B : k <= j
    <3>1. B \in SUBSET Nat BY <1>2
    <3> HIDE DEF B
    <3>2. QED BY <3>1, LeastNatural
  <2>2. k \in 0..n /\ ~Fine(h[k]) OBVIOUS
  <2>3. Fine(h[0]) BY <1>1, <1>3, <1>4 DEF Combines
  <2>4. k \in 1..n /\ k - 1 \in 0..n /\ ~(k <= k - 1) BY <1>2, <2>2, <2>3
  <2>5. Fine(h[k - 1]) BY <2>1, <2>4
  <2>6. Listed(g[k].nested) /\ NestedType(g[k]) = t BY <1>2, <2>4 DEF Deep
  <2>7. h[k] = Combine(h[k - 1], g[k], tofu) BY <1>3, <2>4 DEF Combines
  <2>8. h[k] = MergeLifecycle(h[k - 1], g[k], tofu) BY <2>6, <2>7 DEF Combine
  <2> DEFINE b == h[k - 1]
             o == g[k]
  <2>9. IsBlock(b) /\ Listed(b.nested) /\ AllIgnored(b) BY <2>5
  <2> HIDE DEF b, o, Fine
  <2>10. AllIgnored(MergeLifecycle(b, o, tofu)) BY <2>9, LifecycleIgnores
  <2>11. Alike(b, MergeLifecycle(b, o, tofu)) BY <2>6, <2>9, LifecycleKeeps DEF o
  <2>12. Fine(h[k]) BY <2>8, <2>10, <2>11 DEF Fine, Alike, b, o
  <2>13. QED BY <2>2, <2>12
<1>6. n \in 0..n BY <1>2
<1>7. QED BY <1>3, <1>5, <1>6

\* A resource that ignores all changes does so after an override.
LEMMA IgnoringMerges ==
  ASSUME NEW base, IsBlock(base), Deep(base.nested), base.type = "resource", Ignoring(base),
         NEW over, Deep(over.nested), NEW tofu
  PROVE  Ignoring(MergeTopLevel(base, over, tofu))
<1> DEFINE t == "lifecycle"
           N == base.nested
           V == over.nested
           m == MergeBody(base, over, tofu).nested
           T == MergeTopLevel(base, over, tofu)
           x == Combined(N, V, t, tofu)
           f == FirstOrEmpty(N, V, t)
           p == Peers(N, t)
<1>1. T.nested = m
  <2>1. /\ IsBlock(MergeBody(base, over, tofu)) /\ MergeBody(base, over, tofu).type = "resource"
    BY MergedBody
  <2>2. FixedBlocks("resource") = {} BY DEF FixedBlocks
  <2>3. QED BY <2>1, <2>2 DEF MergeTopLevel, IsBlock
<1>2. Len(p) = 1 /\ AllIgnored(p[1]) BY DEF Ignoring, AllIgnored
<1> HIDE DEF T, m, N, V, p, f, x
<1>3. CASE t \notin TypesIn(V)
  <2>1. t \notin MergedTypes(base, over) BY <1>3 DEF MergedTypes, V
  <2>2. Peers(m, t) = p BY <1>3, <2>1, PeersMerged DEF m, N, V, p
  <2>3. QED BY <1>1, <1>2, <2>2 DEF Ignoring, AllIgnored, T
<1>4. CASE t \in TypesIn(V)
  <2>1. Special("resource") = {t} BY DEF Special
  <2>2. t \in MergedTypes(base, over) BY <1>4, <2>1 DEF MergedTypes, V
  <2>3. Peers(m, t) = IF IsEmpty(x) THEN << >> ELSE <<x>> BY <2>2, PeersCombined DEF m, N, V, x
  <2>4. p # << >>
    <3>1. Len(<< >>) = 0 OBVIOUS
    <3>2. p = << >> => Len(p) = 0 BY <3>1, Zenon
    <3>3. 1 # 0 OBVIOUS
    <3>4. QED BY <1>2, <3>2, <3>3, Zenon
  <2>5. f = p[1] BY <1>4, <2>4, FirstIsBlock DEF f, p, N, V
  <2>6. AllIgnored(f) BY <1>2, <2>5
  <2>7. AllIgnored(x) BY <1>4, <2>6, CombinedIgnores DEF x, f, N, V
  <2>8. ~IsEmpty(x)
    <3>1. "ignore_changes" \in DOMAIN x.attrs BY <2>7 DEF AllIgnored, Has
    <3>2. DOMAIN << >> = {} OBVIOUS
    <3>3. QED BY <3>1, <3>2 DEF IsEmpty
  <2>9. Peers(m, t) = <<x>> BY <2>3, <2>8
  <2>10. Len(<<x>>) = 1 /\ <<x>>[1] = x OBVIOUS
  <2>11. QED BY <1>1, <2>7, <2>9, <2>10 DEF Ignoring, AllIgnored, T
<1>5. QED BY <1>3, <1>4

\* The turn of any block leaves a resource that ignores all changes in the index.
LEMMA TurnIgnores ==
  ASSUME MInv, pc = "apply", NEW r \in todo,
         OverrideLocals(r) \/ OverrideTerraform(r) \/ MergeBlock(r) \/ AddBlock(r) \/ SkipBlock(r),
         NEW id \in DOMAIN index.blocks, id[1] = "resource", Ignoring(At(mem, index.blocks[id]))
  PROVE  id \in DOMAIN index'.blocks /\ Ignoring(At(mem', index'.blocks[id]))
<1> DEFINE place == index.blocks[id]
           base == At(mem, place)
<1>1. Turn(r) BY DEF OverrideLocals, OverrideTerraform, MergeBlock, AddBlock, SkipBlock
<1>2. /\ IInv /\ ListingOK /\ MergedOK(Read, mem, index) /\ \A q \in Read : Precedes(q, r)
  BY DEF MInv
<1>3. /\ Block(r) = Source(r) /\ BlocksOK(Read, mem, index) /\ LocalsIndex(Read, index) /\ PlacesOK(mem)
      /\ place \in Places(mem) /\ base.type = "resource" /\ r \in Refs
  BY <1>1, <1>2, AtMerge DEF Follows
<1>4. FilesOK /\ Good(mem, todo) /\ IndexOK(mem, index) BY <1>1, <1>2, AtTurn
<1>5. IsBlock(base) BY <1>3, <1>4, BlocksAt
<1>6. Deep(base.nested)
  <2>1. id # TerraformId
    <3>1. TerraformId[1] = "terraform" BY DEF TerraformId
    <3>2. QED BY <3>1
  <2>2. PICK b : Made(Read, id, base, b) BY <1>3, <2>1 DEF BlocksOK, BlockOK
  <2>3. QED BY <2>2 DEF Made, NestedOK
<1>7. ASSUME index'.blocks = index.blocks, At(mem', place) = base
      PROVE  id \in DOMAIN index'.blocks /\ Ignoring(At(mem', index'.blocks[id]))
  BY <1>7
<1>8. CASE OverrideLocals(r)
  <2> DEFINE values == Only(Block(r).attrs, DOMAIN index.locals)
  <2>1. index' = index BY <1>8 DEF OverrideLocals
  <2>2. DOMAIN values \subseteq DOMAIN index.locals BY DEF Only
  <2>3. \A n \in DOMAIN index.locals : IsPrimary(index.locals[n][1])
    BY <1>3 DEF LocalsIndex, IsFirst, DefinitionsIn
  <2>4. \A n \in DOMAIN values : IsPrimary(index.locals[n][1]) BY <2>2, <2>3
  <2>5. HomeOK(mem) BY <1>3 DEF PlacesOK
  <2>6. \A p \in Places(mem) : At(mem', p) = IF \E n \in DOMAIN values : index.locals[n] = p
                                             THEN Written(mem, values, p) ELSE At(mem, p)
    BY <1>2, <1>8, <2>4, <2>5, OverrideLocalsKeeps
  <2> HIDE DEF values
  <2>7. \A n \in DOMAIN values : At(mem, index.locals[n]).type = "locals"
    BY <1>4, <2>2 DEF IndexOK
  <2>8. \A n \in DOMAIN values : index.locals[n] # place BY <1>3, <2>7
  <2>9. At(mem', place) = base BY <1>3, <2>6, <2>8
  <2>10. QED BY <1>7, <2>1, <2>9
<1>9. CASE OverrideTerraform(r)
  <2>1. ~IsTerraform(base) BY <1>3 DEF IsTerraform
  <2>2. index'.blocks = index.blocks /\ At(mem', place) = base
    BY <1>2, <1>3, <1>9, <2>1, OverrideTerraformKeeps
  <2>3. QED BY <1>7, <2>2
<1>10. CASE MergeBlock(r)
  <2> DEFINE own == index.blocks[Identity(Block(r))]
  <2>1. index' = index BY <1>10 DEF MergeBlock
  <2>2. \A p \in Places(mem) :
          At(mem', p) = IF p = own THEN MergeTopLevel(At(mem, p), Block(r), OpenTofu)
                        ELSE At(mem, p)
    BY <1>2, <1>10, MergeBlockKeeps
  <2> DEFINE over == Source(r)
             c == MergeTopLevel(base, over, OpenTofu)
  <2>3. Deep(over.nested) BY <1>2, <1>3, SourceNested
  <2>4. Ignoring(base) OBVIOUS
  <2>5. Ignoring(c)
    <3> HIDE DEF base, over
    <3>1. QED BY <1>3, <1>5, <1>6, <2>3, <2>4, IgnoringMerges
  <2>6. At(mem', place) = c \/ At(mem', place) = base BY <1>3, <2>2
  <2> HIDE DEF c, base, own
  <2>7. Ignoring(At(mem', place)) BY <2>4, <2>5, <2>6
  <2>8. QED BY <2>1, <2>7
<1>11. CASE AddBlock(r)
  <2>1. At(mem', place) = base BY <1>2, <1>3, <1>11, AddBlockKeeps
  <2>2. PICK new, q : /\ new = Identity(Block(r)) /\ new \notin DOMAIN index.blocks
                      /\ index' = [index EXCEPT !.blocks = Updated(@, [i \in {new} |-> q])]
    BY <1>11 DEF AddBlock, Matched
  <2>3. index'.blocks = Updated(index.blocks, [i \in {new} |-> q]) BY <1>4, <2>2 DEF IndexOK
  <2>4. id # new BY <2>2
  <2>5. id \in DOMAIN index'.blocks /\ index'.blocks[id] = place BY <2>3, <2>4 DEF Updated
  <2>6. QED BY <2>1, <2>5
<1>12. CASE SkipBlock(r) BY <1>7, <1>12 DEF SkipBlock
<1>13. QED BY <1>8, <1>9, <1>10, <1>11, <1>12

\* Sticky, by what it is read off: the parts of the encryption blocks at T, and
\* the blocks.
PartsAt(m, T) == Inside({b \in Inside({At(m, p) : p \in T}) : b.type = "encryption"})
TargetsIn(P) ==
  {b \in P \cup Inside({x \in P : x.type = "remote_state_data_sources"}) : b.type \notin Keyed}
EnforcedIn(P) == {<<"enforced", b.type, b.label>> : b \in {x \in TargetsIn(P) : Enforced(x)}}
KeysIn(P) == {<<b.type, b.label, Alias(b)>> : b \in {x \in P : x.type = "key_provider"}}
IgnoringAt(m, x) ==
  {<<"ignores", id>> : id \in {i \in DOMAIN x.blocks \ {TerraformId} :
                                 i[1] = "resource" /\ Ignoring(At(m, x.blocks[i]))}}

\* That Sticky is read off so, before a step and after it.
LEMMA StickyIs ==
  /\ Sticky = EnforcedIn(PartsAt(mem, index.terraform)) \cup KeysIn(PartsAt(mem, index.terraform))
                \cup IgnoringAt(mem, index)
  /\ Sticky' = EnforcedIn(PartsAt(mem', index'.terraform)) \cup KeysIn(PartsAt(mem', index'.terraform))
                 \cup IgnoringAt(mem', index')
<1>1. Merged = DOMAIN index.blocks \ {TerraformId} /\ Merged' = DOMAIN index'.blocks \ {TerraformId}
  BY DEF Merged, TerraformId
<1>2. /\ \A id : EffectiveBlock(id) = At(mem, index.blocks[id])
      /\ \A id : EffectiveBlock(id)' = At(mem', index'.blocks[id])
  BY DEF EffectiveBlock, At, RefAt, BodyOf
<1>3. /\ {<<"ignores", id>> : id \in {x \in Merged : x[1] = "resource" /\ Ignoring(EffectiveBlock(x))}}
           = IgnoringAt(mem, index)
      /\ {<<"ignores", id>> : id \in {x \in Merged : x[1] = "resource" /\ Ignoring(EffectiveBlock(x))}}'
           = IgnoringAt(mem', index')
  BY <1>1, <1>2 DEF IgnoringAt
<1>4. /\ Inside(Encryptions) = PartsAt(mem, index.terraform)
      /\ Inside(Encryptions)' = PartsAt(mem', index'.terraform)
  BY DEF Encryptions, PartsAt, Inside, At, RefAt, BodyOf
<1>5. QED BY <1>3, <1>4 DEF Sticky, EnforcedIn, KeysIn, TargetsIn, Alias, Inside

\* What outlasts a turn keeps its parts, and so what Sticky reads off them.
LEMMA PartsOutlast ==
  ASSUME NEW m, NEW T, NEW n, NEW V, Outlasts(m, T, n, V)
  PROVE  \A b \in PartsAt(m, T) : \E c \in PartsAt(n, V) : Part(b, c)
<1> TAKE b \in PartsAt(m, T)
<1>1. PICK p, x : /\ p \in T /\ x \in ToSet(At(m, p).nested) /\ x.type = "encryption"
                  /\ b \in ToSet(x.nested)
  BY DEF PartsAt, Inside
<1>2. PICK q, y : /\ q \in V /\ y \in ToSet(At(n, q).nested) /\ y.type = "encryption"
                  /\ Parts(x.nested, y.nested)
  BY <1>1 DEF Outlasts
<1>3. PICK c \in ToSet(y.nested) : Part(b, c) BY <1>1, <1>2 DEF Parts
<1>4. c \in PartsAt(n, V) BY <1>2 DEF PartsAt, Inside
<1>5. QED BY <1>3, <1>4

LEMMA PartsStick ==
  ASSUME NEW P, NEW Q, \A b \in P : \E c \in Q : Part(b, c)
  PROVE  EnforcedIn(P) \subseteq EnforcedIn(Q) /\ KeysIn(P) \subseteq KeysIn(Q)
<1> DEFINE remote == "remote_state_data_sources"
<1>1. ASSUME NEW b \in TargetsIn(P), Enforced(b)
      PROVE  \E c \in TargetsIn(Q) : Stands(b, c)
  <2>1. CASE b \in P
    <3>1. PICK c \in Q : Part(b, c) BY <2>1
    <3>2. Stands(b, c) BY <3>1 DEF Part
    <3>3. c \in TargetsIn(Q) BY <3>2 DEF TargetsIn, Stands
    <3>4. QED BY <3>2, <3>3
  <2>2. CASE b \notin P
    <3>1. PICK x \in P : x.type = remote /\ b \in ToSet(x.nested) BY <2>2 DEF TargetsIn, Inside
    <3>2. PICK y \in Q : Part(x, y) BY <3>1
    <3>3. y.type = remote /\ Targets(x.nested, y.nested) BY <3>1, <3>2 DEF Part, Stands
    <3>4. PICK c \in ToSet(y.nested) : Stands(b, c) BY <3>1, <3>3 DEF Targets
    <3>5. c \in Inside({z \in Q : z.type = remote}) BY <3>3 DEF Inside
    <3>6. c \in TargetsIn(Q) BY <3>4, <3>5 DEF TargetsIn, Stands
    <3>7. QED BY <3>4, <3>6
  <2>3. QED BY <2>1, <2>2
<1>2. EnforcedIn(P) \subseteq EnforcedIn(Q)
  <2> SUFFICES ASSUME NEW b \in TargetsIn(P), Enforced(b)
               PROVE  <<"enforced", b.type, b.label>> \in EnforcedIn(Q)
    BY DEF EnforcedIn
  <2>1. PICK c \in TargetsIn(Q) : Stands(b, c) BY <1>1
  <2>2. c.type = b.type /\ c.label = b.label /\ Enforced(c) BY <2>1 DEF Stands, TargetsIn
  <2>3. <<"enforced", c.type, c.label>> \in EnforcedIn(Q) BY <2>2 DEF EnforcedIn
  <2>4. QED BY <2>2, <2>3
<1>3. KeysIn(P) \subseteq KeysIn(Q)
  <2> SUFFICES ASSUME NEW b \in P, b.type = "key_provider"
               PROVE  <<b.type, b.label, Alias(b)>> \in KeysIn(Q)
    BY DEF KeysIn
  <2>1. PICK c \in Q : Part(b, c) OBVIOUS
  <2>2. c.type = b.type /\ c.label = b.label /\ Alias(c) = Alias(b) BY <2>1 DEF Part, Stands
  <2>3. <<c.type, c.label, Alias(c)>> \in KeysIn(Q) BY <2>2 DEF KeysIn
  <2>4. QED BY <2>2, <2>3
<1>4. QED BY <1>2, <1>3

\* The step the theorem is about: a turn, or the end of the merge.
LEMMA StickyTurns ==
  ASSUME SInv, Next, pc = "apply", "encryption" \notin Generated'
  PROVE  Sticky \subseteq Sticky'
<1>1. /\ MInv /\ IInv BY DEF SInv, TInv, MInv
<1>2. files' = files
  BY DEF Next, NoOverrides, IndexPrimary, OverrideLocals, OverrideTerraform, MergeBlock,
         AddBlock, SkipBlock, Turn, Finish
<1>3. CASE Finish
  <2>1. mem' = mem /\ index' = index BY <1>3 DEF Finish
  <2>2. QED BY <2>1, StickyIs
<1>4. ASSUME NEW r \in todo,
             \/ OverrideLocals(r) \/ OverrideTerraform(r) \/ MergeBlock(r)
             \/ AddBlock(r) \/ SkipBlock(r)
      PROVE  Sticky \subseteq Sticky'
  <2> DEFINE P == PartsAt(mem, index.terraform)
             Q == PartsAt(mem', index'.terraform)
  <2>1. r \in Refs /\ IsOverride(r[1]) /\ todo' = todo \ {r}
    BY <1>1, <1>4 DEF IInv, TodoOK, OverrideLocals, OverrideTerraform, MergeBlock, AddBlock,
                     SkipBlock, Turn
  <2>2. IsTerraform(Source(r)) => NoEncryption(Source(r).nested)
    <3> SUFFICES ASSUME IsTerraform(Source(r)) PROVE NoEncryption(Source(r).nested) OBVIOUS
    <3>1. /\ Refs' = Refs /\ Source(r)' = Source(r) /\ (IsOverride(r[1]) => IsOverride(r[1])')
      BY <1>2, SameOrder
    <3>2. r \in TerraformOverrides' BY <2>1, <3>1 DEF TerraformOverrides, Read, IsTerraform
    <3>3. TypesIn(OfType(Source(r)'.nested, {"dynamic"})) \subseteq Generated' BY <3>2 DEF Generated
    <3>4. QED BY <3>1, <3>3 DEF NoEncryption
  <2>3. Outlasts(mem, index.terraform, mem', index'.terraform) BY <1>4, <2>2, TurnEncrypts
  <2>4. \A b \in P : \E c \in Q : Part(b, c) BY <2>3, PartsOutlast
  <2>5. IgnoringAt(mem, index) \subseteq IgnoringAt(mem', index')
    <3> SUFFICES ASSUME NEW id \in DOMAIN index.blocks \ {TerraformId}, id[1] = "resource",
                        Ignoring(At(mem, index.blocks[id]))
                 PROVE  <<"ignores", id>> \in IgnoringAt(mem', index')
      BY DEF IgnoringAt
    <3>1. id \in DOMAIN index'.blocks /\ Ignoring(At(mem', index'.blocks[id]))
      BY <1>1, <1>4, TurnIgnores
    <3>2. QED BY <3>1 DEF IgnoringAt
  <2> HIDE DEF P, Q
  <2>6. EnforcedIn(P) \subseteq EnforcedIn(Q) /\ KeysIn(P) \subseteq KeysIn(Q) BY <2>4, PartsStick
  <2>7. QED BY <2>5, <2>6, StickyIs DEF P, Q
<1>5. QED BY <1>3, <1>4 DEF Next, NoOverrides, IndexPrimary

\* No turn of an override takes back what must not be loosened: an encryption
\* target that is enforced, wherever it stands (mergeEncryptionTarget), a key
\* provider with its metadata alias (mergeNamedEncryptionBlock), a resource that
\* ignores all changes (mergeManagedLifecycleBlock); unless an override has a
\* dynamic block that generates encryption, whatever the number of overrides and
\* of terraform blocks.
THEOREM StickyCorrect == Spec => StickySettings
<1>1. SInv /\ [Next]_vars => [pc = "apply" /\ "encryption" \notin Generated' => Sticky \subseteq Sticky']_vars
  BY StickyTurns
<1>2. QED BY <1>1, EncryptedInvariant, PTL DEF Spec, StickySettings

-----------------------------------------------------------------------------
(* The order in which Terraform meets arguments *)

\* The table of names gives a later file a greater number.
LEMMA OrderOfNames ==
  ASSUME FilesOK, ListingOK, Overriding, NEW i \in DOMAIN files, NEW k \in DOMAIN files,
         FilePrecedes(i, k)
  PROVE  /\ SourceOrder(files[i].name) \in Nat /\ SourceOrder(files[k].name) \in Nat
         /\ SourceOrder(files[i].name) < SourceOrder(files[k].name)
<1> DEFINE B(f) == {j \in DOMAIN files : FilePrecedes(j, f)}
<1>1. \A a \in DOMAIN files : a \in Nat /\ files[a].name \in Nat BY DEF FilesOK
<1>2. \A a, b \in DOMAIN files : files[a].name = files[b].name => a = b
  <2> SUFFICES ASSUME NEW a \in DOMAIN files, NEW b \in DOMAIN files,
                      files[a].name = files[b].name
               PROVE  a = b
    OBVIOUS
  <2>1. ~(files[a].name < files[b].name) /\ ~(files[b].name < files[a].name) BY <1>1
  <2>2. ~(a < b) /\ ~(b < a) BY <2>1 DEF ListingOK
  <2>3. QED BY <1>1, <2>2
<1>3. ~\A a \in DOMAIN files : IsPrimary(a) BY DEF Overriding, IsPrimary, IsOverride
<1>4. ASSUME NEW f \in DOMAIN files PROVE SourceOrder(files[f].name) = Cardinality(B(f))
  <2>1. PICK g : g = CHOOSE a \in DOMAIN files : files[a].name = files[f].name
    OBVIOUS
  <2>2. g \in DOMAIN files /\ files[g].name = files[f].name BY <2>1
  <2>3. g = f BY <1>2, <2>2
  <2>4. SourceOrder(files[f].name) = Cardinality(B(g)) BY <1>3, <2>1 DEF SourceOrder
  <2>5. QED BY <2>3, <2>4
<1>5. \A j \in B(i) : j \in B(k) BY FileOrder
<1>6. i \in B(k) /\ i \notin B(i) BY FileOrder
<1>7. IsFiniteSet(B(k)) /\ IsFiniteSet(B(i)) BY FS_Subset DEF ListingOK
<1> HIDE DEF B
<1>8. B(i) \subseteq B(k) /\ B(i) # B(k) BY <1>5, <1>6
<1>9. Cardinality(B(i)) <= Cardinality(B(k)) /\ Cardinality(B(i)) # Cardinality(B(k))
  BY <1>7, <1>8, FS_Subset
<1>10. Cardinality(B(i)) \in Nat /\ Cardinality(B(k)) \in Nat BY <1>7, FS_CardinalityType
<1>11. QED BY <1>4, <1>9, <1>10

\* laterAttribute goes by the order of the blocks.
LEMMA LaterIs ==
  ASSUME FilesOK, ListingOK, Overriding, NEW c \in Refs, NEW f \in Refs, Precedes(c, f),
         NEW x \in DOMAIN Source(c).attrs, NEW y \in DOMAIN Source(f).attrs
  PROVE  /\ Later(Source(c).attrs[x], Source(f).attrs[y]) = Source(f).attrs[y]
         /\ Later(Source(f).attrs[y], Source(c).attrs[x]) = Source(f).attrs[y]
<1> DEFINE a == Source(c).attrs[x]
           b == Source(f).attrs[y]
<1>1. /\ c[1] \in DOMAIN files /\ c[2] \in DOMAIN files[c[1]].blocks
      /\ f[1] \in DOMAIN files /\ f[2] \in DOMAIN files[f[1]].blocks
  BY RefParts
<1>2. /\ InPlace(files[c[1]].blocks, c[2], x, a, files[c[1]].name)
      /\ InPlace(files[f[1]].blocks, f[2], y, b, files[f[1]].name)
  BY <1>1 DEF ListingOK, Source
<1>3. a.file = files[c[1]].name /\ b.file = files[f[1]].name /\ a.pos \in Nat /\ b.pos \in Nat
  BY <1>2 DEF InPlace
<1>4. CASE c[1] = f[1]
  <2>1. c[2] < f[2] BY <1>1, <1>4, FileOrder DEF Precedes
  <2>2. f[2] > c[2]
    <3>1. c[2] \in Nat /\ f[2] \in Nat BY RefParts
    <3>2. QED BY <2>1, <3>1
  <2>3. b.pos > a.pos BY <1>1, <1>2, <1>4, <2>2 DEF InPlace, Source
  <2>4. a.file = b.file BY <1>3, <1>4
  <2>5. ~(a.pos > b.pos) BY <1>3, <2>3
  <2> HIDE DEF a, b
  <2>6. Later(a, b) = b /\ Later(b, a) = b BY <2>3, <2>4, <2>5 DEF Later
  <2>7. QED BY <2>6 DEF a, b
<1>5. CASE c[1] # f[1]
  <2>1. FilePrecedes(c[1], f[1]) BY <1>5 DEF Precedes
  <2>2. /\ SourceOrder(a.file) \in Nat /\ SourceOrder(b.file) \in Nat
        /\ SourceOrder(a.file) < SourceOrder(b.file)
    BY <1>1, <1>3, <2>1, OrderOfNames
  <2>3. a.file # b.file
    <3>1. c[1] \in Nat /\ f[1] \in Nat /\ (c[1] < f[1] \/ f[1] < c[1])
      BY <1>1, <1>5 DEF FilesOK
    <3>2. files[c[1]].name < files[f[1]].name \/ files[f[1]].name < files[c[1]].name
      BY <1>1, <3>1 DEF ListingOK
    <3>3. files[c[1]].name \in Nat /\ files[f[1]].name \in Nat BY <1>1 DEF FilesOK
    <3>4. QED BY <1>3, <3>2, <3>3
  <2>4. SourceOrder(b.file) > SourceOrder(a.file) BY <2>2
  <2>5. ~(SourceOrder(a.file) > SourceOrder(b.file)) BY <2>2
  <2> HIDE DEF a, b
  <2>6. Later(a, b) = b /\ Later(b, a) = b BY <2>3, <2>4, <2>5 DEF Later
  <2>7. QED BY <2>6 DEF a, b
<1>6. QED BY <1>4, <1>5

\* The last of two sets of blocks, and the later of two arguments.
LEMMA LastOfBoth ==
  ASSUME FilesOK, ListingOK, NEW S, NEW T, S \subseteq Refs, T \subseteq Refs,
         NEW c, IsLast(c, S), NEW f, IsLast(f, T)
  PROVE  /\ c = f => LastOf(S \cup T) = f
         /\ Precedes(c, f) => LastOf(S \cup T) = f /\ f \notin S
         /\ Precedes(f, c) => LastOf(S \cup T) = c /\ c \notin T
         /\ c = f \/ Precedes(c, f) \/ Precedes(f, c)
<1>1. c \in Refs /\ f \in Refs /\ S \cup T \subseteq Refs BY DEF IsLast
<1>2. c = f \/ Precedes(c, f) \/ Precedes(f, c) BY <1>1, BlockOrder
<1>3. ASSUME c = f PROVE LastOf(S \cup T) = f
  <2>1. IsLast(f, S \cup T) BY <1>3 DEF IsLast
  <2>2. QED BY <1>1, <2>1, LastIs
<1>4. ASSUME Precedes(c, f) PROVE LastOf(S \cup T) = f /\ f \notin S
  <2>1. \A q \in Refs : Precedes(q, c) => Precedes(q, f) BY <1>1, <1>4, BlockOrder
  <2>2. IsLast(f, S \cup T) BY <1>4, <2>1 DEF IsLast
  <2>3. ~Precedes(f, c) /\ c # f BY <1>1, <1>4, BlockOrder
  <2>4. QED BY <1>1, <2>2, <2>3, LastIs DEF IsLast
<1>5. ASSUME Precedes(f, c) PROVE LastOf(S \cup T) = c /\ c \notin T
  <2>1. \A q \in Refs : Precedes(q, f) => Precedes(q, c) BY <1>1, <1>5, BlockOrder
  <2>2. IsLast(c, S \cup T) BY <1>5, <2>1 DEF IsLast
  <2>3. ~Precedes(c, f) /\ c # f BY <1>1, <1>5, BlockOrder
  <2>4. QED BY <1>1, <2>2, <2>3, LastIs DEF IsLast
<1>6. QED BY <1>2, <1>3, <1>4, <1>5

\* E005 is at the argument of the two that Terraform meets last.
LEMMA CulpritIsLatest ==
  ASSUME MInv, pc = "done", NEW id \in Merged, id[1] \in Counted,
         Setters(id, "count") # {}, Setters(id, "for_each") # {}
  PROVE  LET both == {"count", "for_each"}
             latest == Source(LastOf(Setters(id, "count") \cup Setters(id, "for_each"))).attrs
             n == CHOOSE x \in both \cap DOMAIN latest :
                    \A y \in both \cap DOMAIN latest : latest[x].pos >= latest[y].pos
         IN Culprit(EffectiveBlock(id)) = latest[n]
<1> DEFINE both == {"count", "for_each"}
           latest == Source(LastOf(Setters(id, "count") \cup Setters(id, "for_each"))).attrs
           here == both \cap DOMAIN latest
           n == CHOOSE x \in here : \A y \in here : latest[x].pos >= latest[y].pos
           attrs == EffectiveBlock(id).attrs
           c == LastOf(Setters(id, "count"))
           f == LastOf(Setters(id, "for_each"))
           counted == Setters(id, "count")
           each == Setters(id, "for_each")
<1>1. FilesOK /\ ListingOK BY DEF MInv, IInv
<1>2. /\ Overriding /\ counted \subseteq Refs /\ each \subseteq Refs
      /\ IsLast(c, counted) /\ attrs["count"] = Source(c).attrs["count"]
      /\ IsLast(f, each) /\ attrs["for_each"] = Source(f).attrs["for_each"]
  BY MergedBlock
<1>3. /\ counted = {r \in Contributors(id) : Has(Source(r).attrs, "count")}
      /\ each = {r \in Contributors(id) : Has(Source(r).attrs, "for_each")}
  BY DEF Setters, FixedArgs
<1>4. /\ c \in Refs /\ "count" \in DOMAIN Source(c).attrs
      /\ f \in Refs /\ "for_each" \in DOMAIN Source(f).attrs
  BY <1>2, <1>3 DEF IsLast, Has
<1>5. Culprit(EffectiveBlock(id)) = Later(attrs["count"], attrs["for_each"])
  BY DEF Culprit
<1>6. latest = Source(LastOf(counted \cup each)).attrs OBVIOUS
<1>7. ASSUME NEW x \in here, \A y \in here \ {x} : latest[x].pos > latest[y].pos,
             \A y \in here : latest[y].pos \in Nat
      PROVE  n = x
  <2>1. n \in here /\ \A y \in here : latest[n].pos >= latest[y].pos
    <3> HIDE DEF here, latest
    <3>1. ASSUME NEW y \in here PROVE latest[x].pos >= latest[y].pos
      <4>1. latest[x].pos \in Nat /\ latest[y].pos \in Nat BY <1>7
      <4>2. y = x \/ latest[x].pos > latest[y].pos BY <1>7
      <4>3. QED BY <4>1, <4>2
    <3>2. QED BY <1>7, <3>1
  <2> HIDE DEF n, here, latest
  <2>2. CASE n # x
    <3>1. latest[x].pos > latest[n].pos /\ latest[n].pos >= latest[x].pos
      <4>1. n \in here \ {x} /\ x \in here BY <1>7, <2>1, <2>2
      <4>2. QED BY <1>7, <2>1, <4>1
    <3>2. latest[x].pos \in Nat /\ latest[n].pos \in Nat BY <1>7, <2>1, SMTT(20)
    <3>3. QED BY <3>1, <3>2
  <2>3. QED BY <2>2
<1>8. ASSUME NEW r \in Refs, NEW x \in DOMAIN Source(r).attrs
      PROVE  /\ Source(r).attrs[x].pos \in Nat
             /\ \A y \in DOMAIN Source(r).attrs \ {x} :
                  /\ Source(r).attrs[y].pos # Source(r).attrs[x].pos
                  /\ Source(r).attrs[y].file = Source(r).attrs[x].file
  BY <1>1, RefParts DEF ListingOK, InPlace, Source
<1> HIDE DEF attrs, c, f, counted, each, latest, n
<1>9. ASSUME c = f PROVE Culprit(EffectiveBlock(id)) = latest[n]
  <2>1. latest = Source(f).attrs BY <1>1, <1>2, <1>6, <1>9, LastOfBoth
  <2>2. here = both BY <1>4, <1>9, <2>1
  <2>3. /\ latest["count"].pos \in Nat /\ latest["for_each"].pos \in Nat
        /\ latest["count"].pos # latest["for_each"].pos
        /\ latest["count"].file = latest["for_each"].file
    BY <1>4, <1>8, <1>9, <2>1
  <2>4. attrs["count"] = latest["count"] /\ attrs["for_each"] = latest["for_each"]
    BY <1>2, <1>9, <2>1
  <2>5. CASE latest["for_each"].pos > latest["count"].pos
    <3>1. n = "for_each" BY <1>7, <2>2, <2>3, <2>5
    <3>2. Later(latest["count"], latest["for_each"]) = latest["for_each"]
      BY <2>3, <2>5 DEF Later
    <3>3. QED BY <1>5, <2>4, <3>1, <3>2
  <2>6. CASE ~(latest["for_each"].pos > latest["count"].pos)
    <3>1. latest["count"].pos > latest["for_each"].pos BY <2>3, <2>6
    <3>2. n = "count" BY <1>7, <2>2, <2>3, <3>1
    <3>3. Later(latest["count"], latest["for_each"]) = latest["count"]
      BY <2>3, <2>6 DEF Later
    <3>4. QED BY <1>5, <2>4, <3>2, <3>3
  <2>7. QED BY <2>5, <2>6
<1>10. ASSUME Precedes(c, f) PROVE Culprit(EffectiveBlock(id)) = latest[n]
  <2>1. latest = Source(f).attrs /\ f \notin counted BY <1>1, <1>2, <1>6, <1>10, LastOfBoth
  <2>2. here = {"for_each"} BY <1>2, <1>3, <1>4, <2>1 DEF IsLast, Has
  <2>3. latest["for_each"].pos \in Nat BY <1>4, <1>8, <2>1
  <2>4. n = "for_each" BY <1>7, <2>2, <2>3
  <2>5. Later(attrs["count"], attrs["for_each"]) = attrs["for_each"]
    BY <1>1, <1>2, <1>4, <1>10, LaterIs
  <2>6. QED BY <1>2, <1>5, <2>1, <2>4, <2>5
<1>11. ASSUME Precedes(f, c) PROVE Culprit(EffectiveBlock(id)) = latest[n]
  <2>1. latest = Source(c).attrs /\ c \notin each BY <1>1, <1>2, <1>6, <1>11, LastOfBoth
  <2>2. here = {"count"} BY <1>2, <1>3, <1>4, <2>1 DEF IsLast, Has
  <2>3. latest["count"].pos \in Nat BY <1>4, <1>8, <2>1
  <2>4. n = "count" BY <1>7, <2>2, <2>3
  <2>5. Later(attrs["count"], attrs["for_each"]) = attrs["count"]
    BY <1>1, <1>2, <1>4, <1>11, LaterIs
  <2>6. QED BY <1>2, <1>5, <2>1, <2>4, <2>5
<1>12. Culprit(EffectiveBlock(id)) = latest[n]
  <2>1. c = f \/ Precedes(c, f) \/ Precedes(f, c) BY <1>1, <1>2, LastOfBoth
  <2>2. QED BY <1>9, <1>10, <1>11, <2>1
<1>13. QED BY <1>12 DEF n, latest

\* The definitions of a local that the checks find are those of the primary
\* files, and only the first has another value than it was written with.
LEMMA DefinitionsStay ==
  ASSUME MInv, pc = "done", NEW n, NEW D,
         D = {p \in Places(mem) : At(mem, p).type = "locals" /\ Has(At(mem, p).attrs, n)}
  PROVE  /\ D = {r \in Primaries : Source(r).type = "locals" /\ Has(Source(r).attrs, n)}
         /\ \A p \in D : /\ Earliest(D) = FirstOf(Definitions(n))
                         /\ At(mem, Earliest(D)).attrs[n] = LocalValue(n)
                         /\ p # Earliest(D) => At(mem, p).attrs[n] = Source(p).attrs[n]
<1>1. FilesOK /\ ListingOK /\ MergedOK(Read, mem, index) /\ Read = Refs
  BY DEF MInv, IInv, Read
<1>2. PlacesOK(mem) /\ LocalsOK(Read, mem) BY <1>1 DEF MergedOK
<1>3. \A p \in Places(mem) : At(mem, p).type = "locals" => p \in Primaries /\ Source(p).type = "locals"
  BY <1>2 DEF PlacesOK
<1>4. \A p \in Primaries : p \in Places(mem) /\ At(mem, p).type = Source(p).type
  BY <1>2 DEF PlacesOK, Primaries
<1>5. \A p \in Primaries : Source(p).type = "locals" =>
        (Has(At(mem, p).attrs, n) <=> Has(Source(p).attrs, n))
  BY <1>2 DEF LocalsOK, Has
<1>6. D = {r \in Primaries : Source(r).type = "locals" /\ Has(Source(r).attrs, n)}
  BY <1>3, <1>4, <1>5
<1>7. D = Definitions(n) BY <1>1, <1>6 DEF Definitions, Defining, Primaries
<1>8. Definitions(n) = DefinitionsIn(Read, n)
  BY DEF Definitions, Defining, DefinitionsIn, DefiningIn
<1>9. ASSUME NEW p \in D
      PROVE  /\ Earliest(D) = FirstOf(Definitions(n))
             /\ At(mem, Earliest(D)).attrs[n] = LocalValue(n)
             /\ p # Earliest(D) => At(mem, p).attrs[n] = Source(p).attrs[n]
  <2>1. PICK e : e = Earliest(D) OBVIOUS
  <2>2. D \subseteq Primaries /\ D # {} /\ D \subseteq Refs BY <1>6, <1>9 DEF Primaries
  <2>3. IsFirst(e, D) BY <1>1, <2>1, <2>2, EarliestIsFirst
  <2>4. FirstOf(Definitions(n)) = e BY <1>1, <1>7, <2>2, <2>3, FirstIs
  <2>5. At(mem, e).attrs[n] = LocalValue(n) BY <1>7, <2>3, MergedLocal
  <2>6. p # e => ~IsFirst(p, D) BY <1>1, <1>7, <2>2, <2>4, FirstIs
  <2>7. LocalOK(Read, p, n, At(mem, p).attrs[n]) BY <1>2, <1>6, <1>9 DEF LocalsOK
  <2>8. p # e => At(mem, p).attrs[n] = Source(p).attrs[n]
    BY <1>7, <1>8, <2>6, <2>7 DEF LocalOK
  <2>9. QED BY <2>1, <2>4, <2>5, <2>8
<1>10. QED BY <1>6, <1>9

LEMMA DuplicatesAsWritten ==
  ASSUME MInv, pc = "done"
  PROVE  Duplicates(mem) =
           LET Again(r) == {n \in DOMAIN Source(r).attrs : r # FirstOf(Definitions(n))}
           IN UNION {{<<Source(r).attrs[n], LocalValue(n)>> : n \in Again(r)} :
                       r \in {q \in Refs : IsPrimary(q[1]) /\ Source(q).type = "locals"}}
<1> DEFINE D(n) == {p \in Places(mem) : At(mem, p).type = "locals" /\ Has(At(mem, p).attrs, n)}
           E(n) == Earliest(D(n))
           Fst(n) == At(mem, E(n)).attrs[n]
           names == UNION {DOMAIN At(mem, p).attrs :
                             p \in {q \in Places(mem) : At(mem, q).type = "locals"}}
           found == UNION {{<<At(mem, p).attrs[n], Fst(n)>> : p \in D(n) \ {E(n)}} : n \in names}
           Again(r) == {n \in DOMAIN Source(r).attrs : r # FirstOf(Definitions(n))}
           all == {q \in Refs : IsPrimary(q[1]) /\ Source(q).type = "locals"}
           written == UNION {{<<Source(r).attrs[n], LocalValue(n)>> : n \in Again(r)} : r \in all}
<1>1. Duplicates(mem) = found BY DEF Duplicates
<1>2. \A n : /\ D(n) = {r \in Primaries : Source(r).type = "locals" /\ Has(Source(r).attrs, n)}
             /\ \A p \in D(n) : /\ E(n) = FirstOf(Definitions(n))
                                /\ Fst(n) = LocalValue(n)
                                /\ p # E(n) => At(mem, p).attrs[n] = Source(p).attrs[n]
  BY DefinitionsStay
<1>3. \A n, p : p \in D(n) => n \in names BY DEF Has
<1>4. \A n, p : p \in D(n) <=> p \in all /\ n \in DOMAIN Source(p).attrs
  BY <1>2 DEF Primaries, Has
<1> HIDE DEF D, Fst, names, E
<1>5. \A e : e \in found <=>
        \E n \in names : \E p \in D(n) \ {E(n)} : e = <<At(mem, p).attrs[n], Fst(n)>>
  OBVIOUS
<1>6. \A e : e \in written <=>
        \E r \in all : \E n \in Again(r) : e = <<Source(r).attrs[n], LocalValue(n)>>
  OBVIOUS
<1>7. \A r \in all : \A n : n \in Again(r) <=> r \in D(n) \ {E(n)}
  BY <1>2, <1>4
<1> HIDE DEF found, Again, all, written
<1>8. ASSUME NEW e, e \in found PROVE e \in written
  <2>1. PICK n \in names : \E p \in D(n) \ {E(n)} : e = <<At(mem, p).attrs[n], Fst(n)>>
    BY <1>5, <1>8
  <2>2. PICK p \in D(n) \ {E(n)} : e = <<At(mem, p).attrs[n], Fst(n)>> BY <2>1
  <2>3. p \in all BY <1>4, <2>2
  <2>4. n \in Again(p) BY <1>7, <2>2, <2>3
  <2>5. At(mem, p).attrs[n] = Source(p).attrs[n] /\ Fst(n) = LocalValue(n) BY <1>2, <2>2
  <2>6. QED BY <1>6, <2>2, <2>3, <2>4, <2>5
<1>9. ASSUME NEW e, e \in written PROVE e \in found
  <2>1. PICK r \in all : \E n \in Again(r) : e = <<Source(r).attrs[n], LocalValue(n)>>
    BY <1>6, <1>9
  <2>2. PICK n \in Again(r) : e = <<Source(r).attrs[n], LocalValue(n)>> BY <2>1
  <2>3. r \in D(n) \ {E(n)} BY <1>7, <2>2
  <2>4. n \in names BY <1>3, <2>3
  <2>5. At(mem, r).attrs[n] = Source(r).attrs[n] /\ Fst(n) = LocalValue(n) BY <1>2, <2>3
  <2>6. QED BY <1>5, <2>2, <2>3, <2>4, <2>5
<1>10. found = written BY <1>8, <1>9
<1>11. QED BY <1>1, <1>10 DEF written, Again, all

\* The verdicts on merged blocks are about what the files say, for every module:
\* E005 is at the argument of count and for_each that Terraform meets last, and
\* E002 at each definition of a local after the first (checkCountForEach,
\* laterAttribute and sourceOrder, effective.go 46-63; buildLocalsMap).
THEOREM VerdictsCorrect == Spec => []VerdictsAsWritten
<1>1. MInv => VerdictsAsWritten
  <2> SUFFICES ASSUME MInv, pc = "done" PROVE VerdictsAsWritten
    BY DEF VerdictsAsWritten
  <2>1. ASSUME NEW id \in {x \in Merged : x[1] \in Counted}
        PROVE  LET both == {"count", "for_each"}
                   set == {n \in both : Setters(id, n) # {}}
                   latest == Source(LastOf(Setters(id, "count") \cup Setters(id, "for_each"))).attrs
                   n == CHOOSE x \in both \cap DOMAIN latest :
                          \A y \in both \cap DOMAIN latest : latest[x].pos >= latest[y].pos
               IN /\ BothSet(EffectiveBlock(id)) <=> set = both
                  /\ set = both => Culprit(EffectiveBlock(id)) = latest[n]
    <3> DEFINE both == {"count", "for_each"}
               set == {n \in both : Setters(id, n) # {}}
    <3>1. id \in Merged /\ id[1] \in Counted OBVIOUS
    <3>2. /\ EffectiveBlock(id).type = id[1]
          /\ Has(EffectiveBlock(id).attrs, "count") <=> Setters(id, "count") # {}
          /\ Has(EffectiveBlock(id).attrs, "for_each") <=> Setters(id, "for_each") # {}
      BY <3>1, MergedBlock
    <3>3. set = both <=> Setters(id, "count") # {} /\ Setters(id, "for_each") # {}
      OBVIOUS
    <3>4. BothSet(EffectiveBlock(id)) <=> set = both BY <3>1, <3>2, <3>3 DEF BothSet
    <3>5. CASE set = both
      <4>1. Setters(id, "count") # {} /\ Setters(id, "for_each") # {} BY <3>3, <3>5
      <4>2. QED BY <3>1, <3>4, <4>1, CulpritIsLatest
    <3>6. CASE set # both BY <3>4, <3>6
    <3>7. QED BY <3>5, <3>6
  <2>2. QED BY <2>1, DuplicatesAsWritten DEF VerdictsAsWritten
<1>2. QED BY <1>1, MergeInvariant, PTL

=============================================================================
