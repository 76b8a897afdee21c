---------------------------- MODULE FamilyProofs ----------------------------
(* ReportsExact, for every file, every filter and every grammar of names.  *)
(* What was reported is called for by the checks that have begun, and what *)
(* the check under way has not reported yet is below a body in its list;   *)
(* the flag a body carries is what the blocks around it decide.            *)
(* ReportedNeverValid, for every text an interpolation may stand for: from *)
(* the text with a placeholder in each hole to the text with the values,   *)
(* the places of the literal parts move and keep their order.              *)
EXTENDS FamilyChecks, WellFoundedInduction, SequenceTheorems, FiniteSetTheorems, TLAPS

LEMMA TextIs == \A s \in Text : s \in Seq(STRING)
<1>1. STRING \ {""} \subseteq STRING OBVIOUS
<1>2. QED BY <1>1, SeqMonotonic DEF Text

-----------------------------------------------------------------------------
(* Positions *)

LEMMA Least ==
  ASSUME NEW S \in SUBSET Nat, S # {}
  PROVE  \E m \in S : \A n \in S : m <= n
<1>1. PICK m \in S : \A n \in S : ~(<<n, m>> \in OpToRel(<, Nat))
  BY NatLessThanWellFounded, WFMin
<1>2. \A n \in S : m <= n
  <2> TAKE n \in S
  <2>1. <<n, m>> \in Nat \X Nat OBVIOUS
  <2>2. ~(n < m) BY <1>1, <2>1 DEF OpToRel
  <2>3. QED BY <2>1, <2>2
<1>3. QED BY <1>2

Prefix(p, i) == SubSeq(p, 1, i)

LEMMA PrefixOf ==
  ASSUME NEW p \in Seq(Nat), NEW i \in 0..Len(p)
  PROVE  /\ Prefix(p, i) \in Seq(Nat) /\ Len(Prefix(p, i)) = i
         /\ \A j \in 1..i : Prefix(p, i)[j] = p[j]
<1>1. Len(p) \in Nat /\ i \in Int OBVIOUS
<1>2. \A j \in 1..i : p[j] \in Nat BY <1>1
<1>3. /\ SubSeq(p, 1, i) \in Seq(Nat)
      /\ Len(SubSeq(p, 1, i)) = IF 1 <= i THEN i - 1 + 1 ELSE 0
      /\ \A j \in 1..i - 1 + 1 : SubSeq(p, 1, i)[j] = p[1 + j - 1]
  BY <1>1, <1>2, SubSeqProperties
<1>4. Len(SubSeq(p, 1, i)) = i BY <1>1, <1>3
<1>5. \A j \in 1..i : SubSeq(p, 1, i)[j] = p[j]
  <2> TAKE j \in 1..i
  <2>1. j \in 1..i - 1 + 1 /\ 1 + j - 1 = j BY <1>1
  <2>2. QED BY <1>3, <2>1
<1>6. QED BY <1>3, <1>4, <1>5 DEF Prefix

\* Positions with the same numbers are the same.
LEMMA SamePosition ==
  ASSUME NEW p \in Seq(Nat), NEW q \in Seq(Nat), Len(p) = Len(q),
         \A j \in 1..Len(p) : p[j] = q[j]
  PROVE  p = q
BY SeqEqual

LEMMA PrefixOfPrefix ==
  ASSUME NEW p \in Seq(Nat), NEW j \in 0..Len(p), NEW i \in 0..j
  PROVE  Prefix(Prefix(p, j), i) = Prefix(p, i)
<1>1. Len(p) \in Nat /\ i \in 0..Len(p) /\ i \in Nat /\ j \in Nat OBVIOUS
<1>2. /\ Prefix(p, j) \in Seq(Nat) /\ Len(Prefix(p, j)) = j
      /\ \A k \in 1..j : Prefix(p, j)[k] = p[k]
  BY PrefixOf
<1>3. /\ Prefix(p, i) \in Seq(Nat) /\ Len(Prefix(p, i)) = i
      /\ \A k \in 1..i : Prefix(p, i)[k] = p[k]
  BY <1>1, PrefixOf
<1> DEFINE q == Prefix(p, j)
<1>4. q \in Seq(Nat) /\ i \in 0..Len(q) BY <1>2
<1> HIDE DEF q
<1>5. /\ Prefix(q, i) \in Seq(Nat) /\ Len(Prefix(q, i)) = i
      /\ \A k \in 1..i : Prefix(q, i)[k] = q[k]
  BY <1>4, PrefixOf
<1>6. \A k \in 1..i : Prefix(q, i)[k] = Prefix(p, i)[k]
  <2> TAKE k \in 1..i
  <2>1. k \in 1..j BY <1>1
  <2>2. QED BY <1>2, <1>3, <1>5, <2>1 DEF q
<1>7. Prefix(q, i) = Prefix(p, i) BY <1>3, <1>5, <1>6, SamePosition
<1>8. QED BY <1>7 DEF q

LEMMA WholePrefix ==
  ASSUME NEW p \in Seq(Nat)
  PROVE  Prefix(p, Len(p)) = p
<1>1. Len(p) \in 0..Len(p) OBVIOUS
<1>2. /\ Prefix(p, Len(p)) \in Seq(Nat) /\ Len(Prefix(p, Len(p))) = Len(p)
      /\ \A j \in 1..Len(p) : Prefix(p, Len(p))[j] = p[j]
  BY <1>1, PrefixOf
<1>3. QED BY <1>2, SamePosition

LEMMA NoPrefix ==
  ASSUME NEW p \in Seq(Nat)
  PROVE  Prefix(p, 0) = << >>
<1>1. 0 \in 0..Len(p) OBVIOUS
<1>2. Prefix(p, 0) \in Seq(Nat) /\ Len(Prefix(p, 0)) = 0 BY <1>1, PrefixOf
<1>3. QED BY <1>2, EmptySeq

\* What a position adds to the one around it
LEMMA AppendPosition ==
  ASSUME NEW p \in Seq(Nat), NEW k \in Nat
  PROVE  /\ Append(p, k) \in Seq(Nat) /\ Len(Append(p, k)) = Len(p) + 1
         /\ Append(p, k)[Len(p) + 1] = k
         /\ \A i \in 0..Len(p) : Prefix(Append(p, k), i) = Prefix(p, i)
         /\ Prefix(Append(p, k), Len(p) + 1) = Append(p, k)
<1> DEFINE q == Append(p, k)
<1>1. /\ Len(p) \in Nat /\ q \in Seq(Nat) /\ Len(q) = Len(p) + 1 /\ q[Len(p) + 1] = k
      /\ \A i \in 1..Len(p) : q[i] = p[i]
  BY AppendProperties
<1> HIDE DEF q
<1>2. \A i \in 0..Len(p) : Prefix(q, i) = Prefix(p, i)
  <2> TAKE i \in 0..Len(p)
  <2>1. i \in 0..Len(q) BY <1>1
  <2>2. /\ Prefix(q, i) \in Seq(Nat) /\ Len(Prefix(q, i)) = i
        /\ \A j \in 1..i : Prefix(q, i)[j] = q[j]
    BY <1>1, <2>1, PrefixOf
  <2>3. /\ Prefix(p, i) \in Seq(Nat) /\ Len(Prefix(p, i)) = i
        /\ \A j \in 1..i : Prefix(p, i)[j] = p[j]
    BY PrefixOf
  <2>4. \A j \in 1..i : j \in 1..Len(p) BY <1>1
  <2>5. \A j \in 1..i : Prefix(q, i)[j] = Prefix(p, i)[j] BY <1>1, <2>2, <2>3, <2>4
  <2>6. QED BY <2>2, <2>3, <2>5, SamePosition
<1>3. Prefix(q, Len(p) + 1) = q BY <1>1, WholePrefix
<1>4. QED BY <1>1, <1>2, <1>3 DEF q

\* What ConfigsAssumption says of the file
FileOK == IsFiniteSet(DOMAIN file) /\ WellFormedConfig(file)

Under(p, r) == Len(r) <= Len(p) /\ Prefix(p, Len(r)) = r

LEMMA PositionsOK ==
  ASSUME FileOK
  PROVE  << >> \in DOMAIN file /\ \A p \in DOMAIN file : p \in Seq(Nat)
BY DEF FileOK, WellFormedConfig

LEMMA InnerIs ==
  ASSUME FileOK, NEW p \in DOMAIN file
  PROVE  /\ Inner(file, p) = {q \in DOMAIN file : Len(q) = Len(p) + 1 /\ Prefix(q, Len(p)) = p}
         /\ Cardinality(Inner(file, p)) \in Nat
         /\ Inner(file, p) = {Append(p, i) : i \in 1..Cardinality(Inner(file, p))}
<1>1. Inner(file, p) = {q \in DOMAIN file : Len(q) = Len(p) + 1 /\ Prefix(q, Len(p)) = p}
  BY DEF Inner, Prefix
<1>2. IsFiniteSet(Inner(file, p))
  <2>1. Inner(file, p) \subseteq DOMAIN file BY <1>1
  <2>2. QED BY <2>1, FS_Subset DEF FileOK
<1>3. Cardinality(Inner(file, p)) \in Nat BY <1>2, FS_CardinalityType
<1>4. Inner(file, p) = {Append(p, i) : i \in 1..Cardinality(Inner(file, p))}
  BY DEF FileOK, WellFormedConfig
<1>5. QED BY <1>1, <1>3, <1>4

LEMMA BlocksIs ==
  ASSUME FileOK, NEW p \in DOMAIN file
  PROVE  Range(Blocks(p)) = Inner(file, p)
<1>1. Inner(file, p) = {Append(p, i) : i \in 1..Cardinality(Inner(file, p))} BY InnerIs
<1> DEFINE n == Cardinality(Inner(file, p))
<1>2. Blocks(p) = [i \in 1..n |-> Append(p, i)] BY DEF Blocks
<1>3. Range(Blocks(p)) = {Append(p, i) : i \in 1..n} BY <1>2 DEF Range
<1>4. QED BY <1>1, <1>3

\* The file holds the blocks around each of its blocks.
LEMMA PrefixIn ==
  ASSUME FileOK, NEW p \in DOMAIN file, NEW i \in 0..Len(p)
  PROVE  Prefix(p, i) \in DOMAIN file
<1>1. p \in Seq(Nat) /\ Len(p) \in Nat BY PositionsOK
<1> DEFINE S == {k \in Nat : k <= Len(p) /\ Prefix(p, Len(p) - k) \in DOMAIN file}
           T == {k \in 0..Len(p) : Prefix(p, Len(p) - k) \notin DOMAIN file}
<1>2. T = {}
  <2> SUFFICES ASSUME T # {} PROVE FALSE OBVIOUS
  <2>1. PICK k \in T : \A j \in T : k <= j
    <3>1. T \in SUBSET Nat BY <1>1
    <3> HIDE DEF T
    <3>2. QED BY <3>1, Least
  <2>2. k \in 0..Len(p) /\ Prefix(p, Len(p) - k) \notin DOMAIN file OBVIOUS
  <2>3. k # 0
    <3>1. Len(p) - 0 = Len(p) BY <1>1
    <3>2. QED BY <1>1, <2>2, <3>1, WholePrefix
  <2>4. k - 1 \in 0..Len(p) /\ ~(k <= k - 1) BY <1>1, <2>2, <2>3
  <2>5. Prefix(p, Len(p) - (k - 1)) \in DOMAIN file BY <2>1, <2>4
  <2> DEFINE m == Len(p) - (k - 1)
             q == Prefix(p, m)
  <2>6. m \in 0..Len(p) /\ m # 0 /\ m - 1 = Len(p) - k /\ m - 1 \in 0..m /\ m \in Nat
    BY <1>1, <2>2, <2>3
  <2>7. q \in DOMAIN file BY <2>5
  <2> HIDE DEF m
  <2>8. q \in Seq(Nat) /\ Len(q) = m BY <1>1, <2>6, PrefixOf
  <2> HIDE DEF q
  <2>9. q # << >> BY <2>6, <2>8
  <2>10. Front(q) \in DOMAIN file BY <2>7, <2>9 DEF FileOK, WellFormedConfig
  <2>11. Front(q) = Prefix(q, m - 1) BY <2>8 DEF Front, Prefix
  <2>12. Prefix(q, m - 1) = Prefix(p, m - 1) BY <1>1, <2>6, PrefixOfPrefix DEF q
  <2>13. QED BY <2>2, <2>6, <2>10, <2>11, <2>12
<1>3. Len(p) - i \in 0..Len(p) /\ Len(p) - (Len(p) - i) = i BY <1>1
<1>4. Prefix(p, Len(p) - (Len(p) - i)) \in DOMAIN file BY <1>2, <1>3
<1>5. QED BY <1>3, <1>4

\* Below a block lies one of the blocks in it, or the block itself.
LEMMA NextBelow ==
  ASSUME FileOK, NEW p \in DOMAIN file, NEW r \in DOMAIN file, Under(p, r), p # r
  PROVE  /\ Len(r) + 1 \in 1..Len(p)
         /\ Prefix(p, Len(r) + 1) \in Inner(file, r)
         /\ Under(p, Prefix(p, Len(r) + 1))
<1>1. p \in Seq(Nat) /\ Len(p) \in Nat /\ r \in Seq(Nat) /\ Len(r) \in Nat BY PositionsOK
<1>2. Len(r) <= Len(p) /\ Prefix(p, Len(r)) = r BY DEF Under
<1>3. Len(r) # Len(p) BY <1>1, <1>2, WholePrefix
<1> DEFINE n == Len(r) + 1
           q == Prefix(p, n)
<1>4. n \in 0..Len(p) /\ n \in 1..Len(p) /\ n \in Nat /\ Len(r) \in 0..n BY <1>1, <1>2, <1>3
<1> HIDE DEF n
<1>5. q \in DOMAIN file BY <1>4, PrefixIn
<1>6. Len(q) = n /\ q \in Seq(Nat) BY <1>1, <1>4, PrefixOf
<1>7. Prefix(q, Len(r)) = r BY <1>1, <1>2, <1>4, PrefixOfPrefix
<1> HIDE DEF q
<1>8. q \in Inner(file, r) BY <1>5, <1>6, <1>7, InnerIs DEF n
<1>9. Under(p, q) BY <1>4, <1>6 DEF Under, q
<1>10. QED BY <1>4, <1>8, <1>9 DEF q, n

-----------------------------------------------------------------------------
(* The blocks a rule does not pass over *)

Passed(p, types, f, i) ==
  IF i = 0 THEN << >>
  ELSE IF file[Append(p, i)].type \in types THEN f[i - 1]
  ELSE Append(f[i - 1], Append(p, i))

\* f lists the first k blocks in p but those of these types.
Lists(p, types, f, k) ==
  /\ DOMAIN f = 0..k
  /\ \A i \in 0..k : f[i] = Passed(p, types, f, i)

LEMMA ListsOneMore ==
  ASSUME NEW p, NEW types, NEW k \in Nat, NEW f, Lists(p, types, f, k)
  PROVE  \E g : Lists(p, types, g, k + 1)
<1> DEFINE g == [i \in 0..k + 1 |-> IF i = k + 1 THEN Passed(p, types, f, k + 1) ELSE f[i]]
<1>1. DOMAIN g = 0..k + 1 OBVIOUS
<1>2. g[k + 1] = Passed(p, types, f, k + 1) OBVIOUS
<1>3. \A i \in 0..k : g[i] = f[i] OBVIOUS
<1> HIDE DEF g
<1>4. ASSUME NEW i \in 0..k + 1 PROVE Passed(p, types, g, i) = Passed(p, types, f, i)
  <2>1. CASE i = 0 BY <2>1 DEF Passed
  <2>2. CASE i # 0
    <3>1. i - 1 \in 0..k BY <2>2
    <3>2. QED BY <1>3, <3>1 DEF Passed
  <2>3. QED BY <2>1, <2>2
<1>5. ASSUME NEW i \in 0..k + 1 PROVE g[i] = Passed(p, types, g, i)
  <2>1. CASE i = k + 1 BY <1>2, <1>4, <2>1
  <2>2. CASE i # k + 1
    <3>1. i \in 0..k BY <2>2
    <3>2. QED BY <1>3, <1>4, <3>1 DEF Lists
  <2>3. QED BY <2>1, <2>2
<1>6. QED BY <1>1, <1>5 DEF Lists

LEMMA SomeLists ==
  ASSUME NEW p, NEW types, NEW n \in Nat
  PROVE  \E f : Lists(p, types, f, n)
<1> DEFINE S == {k \in Nat : ~\E f : Lists(p, types, f, k)}
<1>1. S = {}
  <2> SUFFICES ASSUME S # {} PROVE FALSE OBVIOUS
  <2>1. PICK k \in S : \A j \in S : k <= j
    <3>1. S \in SUBSET Nat OBVIOUS
    <3> HIDE DEF S
    <3>2. QED BY <3>1, Least
  <2>2. k \in Nat /\ ~\E f : Lists(p, types, f, k) OBVIOUS
  <2>3. CASE k = 0
    <3> DEFINE f == [i \in 0..0 |-> << >>]
    <3>1. Lists(p, types, f, 0) BY DEF Lists, Passed
    <3>2. QED BY <2>2, <2>3, <3>1
  <2>4. CASE k # 0
    <3>1. k - 1 \in Nat /\ (k - 1) + 1 = k /\ ~(k <= k - 1) BY <2>2, <2>4
    <3>2. k - 1 \notin S BY <2>1, <3>1
    <3>3. PICK f : Lists(p, types, f, k - 1) BY <3>1, <3>2
    <3>4. \E g : Lists(p, types, g, (k - 1) + 1) BY <3>1, <3>3, ListsOneMore
    <3>5. QED BY <2>2, <3>1, <3>4
  <2>5. QED BY <2>3, <2>4
<1>2. QED BY <1>1

MeansPassing(p, types, f) ==
  f = [i \in 0..Cardinality(Inner(file, p)) |->
        IF i = 0 THEN << >>
        ELSE IF file[Append(p, i)].type \in types THEN f[i - 1]
        ELSE Append(f[i - 1], Append(p, i))]

\* What is passed on are the blocks in p of any other type.
LEMMA PassingIs ==
  ASSUME FileOK, NEW p \in DOMAIN file, NEW types
  PROVE  /\ Passing(p, types) \in Seq(DOMAIN file)
         /\ Range(Passing(p, types)) = {q \in Inner(file, p) : file[q].type \notin types}
<1> DEFINE n == Cardinality(Inner(file, p))
<1>1. n \in Nat /\ Inner(file, p) = {Append(p, i) : i \in 1..n} /\ Inner(file, p) \subseteq DOMAIN file
  BY InnerIs
<1> DEFINE pass == CHOOSE f : MeansPassing(p, types, f)
<1>2. Passing(p, types) = pass[n] BY DEF Passing, MeansPassing
<1>3. MeansPassing(p, types, pass)
  <2>1. PICK f : Lists(p, types, f, n) BY <1>1, SomeLists
  <2> DEFINE g == [i \in 0..n |-> f[i]]
  <2>2. DOMAIN g = 0..n /\ g = [i \in 0..n |-> g[i]] /\ \A i \in 0..n : g[i] = f[i] OBVIOUS
  <2>3. \A i \in 0..n : i # 0 => i - 1 \in 0..n BY <1>1
  <2> HIDE DEF g, n
  <2>4. \A i \in 0..n : g[i] = Passed(p, types, g, i)
    BY <2>1, <2>2, <2>3 DEF Lists, Passed
  <2>5. g = [i \in 0..n |-> Passed(p, types, g, i)] BY <2>2, <2>4
  <2>6. MeansPassing(p, types, g) BY <2>5 DEF MeansPassing, Passed, n
  <2>7. QED BY <2>6
<1> HIDE DEF pass
<1>4. \A i \in 0..n : pass[i] = Passed(p, types, pass, i)
  <2>1. pass = [i \in 0..n |-> Passed(p, types, pass, i)] BY <1>3 DEF MeansPassing, Passed
  <2> HIDE DEF n
  <2>2. QED BY <2>1, Zenon
<1> DEFINE Kept(k) == {Append(p, i) : i \in {j \in 1..k : file[Append(p, j)].type \notin types}}
           Right(k) == pass[k] \in Seq(DOMAIN file) /\ Range(pass[k]) = Kept(k)
           S == {k \in 0..n : ~Right(k)}
<1> HIDE DEF n
<1>5. S = {}
  <2> SUFFICES ASSUME S # {} PROVE FALSE OBVIOUS
  <2>1. PICK k \in S : \A j \in S : k <= j
    <3>1. S \in SUBSET Nat BY <1>1
    <3> HIDE DEF S
    <3>2. QED BY <3>1, Least
  <2>2. k \in 0..n /\ ~Right(k) OBVIOUS
  <2> SUFFICES Right(k) BY <2>2
  <2>3. CASE k = 0
    <3>1. pass[k] = << >> BY <1>4, <2>2, <2>3 DEF Passed
    <3>2. Kept(k) = {} BY <2>3
    <3>3. Range(<< >>) = {} BY DEF Range
    <3>4. QED BY <3>1, <3>2, <3>3
  <2>4. CASE k # 0
    <3>1. k - 1 \in 0..n /\ ~(k <= k - 1) /\ k \in 1..n BY <1>1, <2>2, <2>4
    <3>2. k - 1 \notin S BY <2>1, <3>1
    <3>3. pass[k - 1] \in Seq(DOMAIN file) /\ Range(pass[k - 1]) = Kept(k - 1) BY <3>1, <3>2
    <3>4. \A j : j \in 1..k <=> j \in 1..k - 1 \/ j = k BY <1>1, <3>1
    <3>5. CASE file[Append(p, k)].type \in types
      <4>1. pass[k] = pass[k - 1] BY <1>4, <2>2, <2>4, <3>5 DEF Passed
      <4>2. Kept(k) = Kept(k - 1) BY <3>4, <3>5
      <4>3. QED BY <3>3, <4>1, <4>2
    <3>6. CASE file[Append(p, k)].type \notin types
      <4> DEFINE s == pass[k - 1]
                 q == Append(p, k)
      <4>1. pass[k] = Append(s, q) BY <1>4, <2>2, <2>4, <3>6 DEF Passed
      <4>2. Kept(k) = Kept(k - 1) \cup {q} BY <3>4, <3>6
      <4>3. q \in DOMAIN file /\ s \in Seq(DOMAIN file) BY <1>1, <3>1, <3>3
      <4> HIDE DEF q, s
      <4>4. /\ Append(s, q) \in Seq(DOMAIN file) /\ Len(Append(s, q)) = Len(s) + 1
            /\ \A i \in 1..Len(s) : Append(s, q)[i] = s[i]
            /\ Append(s, q)[Len(s) + 1] = q
        BY <4>3, AppendProperties
      <4>5. Range(Append(s, q)) = Range(s) \cup {q}
        <5>1. /\ Len(s) \in Nat /\ DOMAIN s = 1..Len(s)
              /\ DOMAIN Append(s, q) = 1..Len(s) + 1
          BY <4>3, <4>4
        <5>2. \A i : i \in 1..Len(s) + 1 <=> i \in 1..Len(s) \/ i = Len(s) + 1 BY <5>1
        <5>3. QED BY <4>4, <5>1, <5>2 DEF Range
      <4>6. Range(s) = Kept(k - 1) BY <3>3 DEF s
      <4>7. QED BY <4>1, <4>2, <4>4, <4>5, <4>6
    <3>7. QED BY <3>5, <3>6
  <2>5. QED BY <2>3, <2>4
<1>6. Right(n)
  <2>1. n \in 0..n BY <1>1
  <2>2. QED BY <1>5, <2>1
<1>7. Kept(n) = {q \in Inner(file, p) : file[q].type \notin types} BY <1>1
<1>8. QED BY <1>2, <1>6, <1>7

-----------------------------------------------------------------------------
(* What a body's position says of it *)

LEMMA WithinNext ==
  ASSUME FileOK, NEW q \in DOMAIN file, NEW p \in DOMAIN file, q \in Inner(file, p), NEW types
  PROVE  Within(q, types) <=> Within(p, types) \/ file[q].type \in types
<1>1. p \in Seq(Nat) /\ q \in Seq(Nat) /\ Len(p) \in Nat BY PositionsOK
<1>2. Len(q) = Len(p) + 1 /\ Prefix(q, Len(p)) = p BY InnerIs
<1>3. Prefix(q, Len(q)) = q BY <1>1, WholePrefix
<1>4. \A i \in 1..Len(p) : Prefix(q, i) = Prefix(p, i)
  <2> TAKE i \in 1..Len(p)
  <2>1. Len(p) \in 0..Len(q) /\ i \in 0..Len(p) BY <1>1, <1>2
  <2>2. Prefix(Prefix(q, Len(p)), i) = Prefix(q, i) BY <1>1, <2>1, PrefixOfPrefix
  <2>3. QED BY <1>2, <2>2
<1>5. \A i : i \in 1..Len(q) <=> i \in 1..Len(p) \/ i = Len(q) BY <1>1, <1>2
<1>6. QED BY <1>3, <1>4, <1>5 DEF Within, Prefix

\* The flag that is passed on is what the blocks around the next body decide.
LEMMA ScopeNext ==
  ASSUME FileOK, NEW q \in DOMAIN file, NEW p \in DOMAIN file, q \in Inner(file, p)
  PROVE  AwsScope(q) <=> IF file[q].type \in Owners THEN IsAWSBlock(file[q]) ELSE AwsScope(p)
<1>1. p \in Seq(Nat) /\ q \in Seq(Nat) /\ Len(p) \in Nat BY PositionsOK
<1>2. Len(q) = Len(p) + 1 /\ Prefix(q, Len(p)) = p BY InnerIs
<1>3. Prefix(q, Len(q)) = q BY <1>1, WholePrefix
<1>4. \A i \in 1..Len(p) : Prefix(q, i) = Prefix(p, i)
  <2> TAKE i \in 1..Len(p)
  <2>1. Len(p) \in 0..Len(q) /\ i \in 0..Len(p) BY <1>1, <1>2
  <2>2. Prefix(Prefix(q, Len(p)), i) = Prefix(q, i) BY <1>1, <2>1, PrefixOfPrefix
  <2>3. QED BY <1>2, <2>2
<1>5. \A i : i \in 1..Len(q) <=> i \in 1..Len(p) \/ i = Len(q) BY <1>1, <1>2
<1>6. \A i \in 1..Len(p) : \A j :
        j \in i + 1..Len(q) <=> j \in i + 1..Len(p) \/ j = Len(q)
  <2>1. \A m \in Nat : \A i \in 1..m : \A j :
          j \in i + 1..m + 1 <=> j \in i + 1..m \/ j = m + 1
    OBVIOUS
  <2>2. QED BY <1>1, <1>2, <2>1
<1>7. \A i \in 1..Len(p) : \A j \in i + 1..Len(p) : j \in 1..Len(p) BY <1>1
<1>8. AwsScope(q) <=> \E i \in 1..Len(q) : /\ IsAWSBlock(file[Prefix(q, i)])
                                          /\ \A j \in i + 1..Len(q) : file[Prefix(q, j)].type \notin Owners
  BY DEF AwsScope, Prefix
<1>9. AwsScope(p) <=> \E i \in 1..Len(p) : /\ IsAWSBlock(file[Prefix(p, i)])
                                          /\ \A j \in i + 1..Len(p) : file[Prefix(p, j)].type \notin Owners
  BY DEF AwsScope, Prefix
<1>10. IsAWSBlock(file[q]) => file[q].type \in Owners BY DEF IsAWSBlock, Owners
<1>11. Len(q) \in 1..Len(q) /\ \A j \in Len(q) + 1..Len(q) : FALSE BY <1>1, <1>2
<1>12. CASE file[q].type \in Owners
  <2>1. ASSUME AwsScope(q) PROVE IsAWSBlock(file[q])
    <3>1. PICK i \in 1..Len(q) : /\ IsAWSBlock(file[Prefix(q, i)])
                                 /\ \A j \in i + 1..Len(q) : file[Prefix(q, j)].type \notin Owners
      BY <1>8, <2>1
    <3>2. i \notin 1..Len(p) BY <1>3, <1>6, <1>12, <3>1
    <3>3. QED BY <1>3, <1>5, <3>1, <3>2
  <2>2. ASSUME IsAWSBlock(file[q]) PROVE AwsScope(q) BY <1>3, <1>8, <1>11, <2>2
  <2>3. QED BY <1>12, <2>1, <2>2
<1>13. CASE file[q].type \notin Owners
  <2>1. ASSUME AwsScope(q) PROVE AwsScope(p)
    <3>1. PICK i \in 1..Len(q) : /\ IsAWSBlock(file[Prefix(q, i)])
                                 /\ \A j \in i + 1..Len(q) : file[Prefix(q, j)].type \notin Owners
      BY <1>8, <2>1
    <3>2. i \in 1..Len(p) BY <1>3, <1>5, <1>10, <1>13, <3>1
    <3>3. \A j \in i + 1..Len(p) : file[Prefix(p, j)].type \notin Owners
      BY <1>4, <1>6, <1>7, <3>1, <3>2
    <3>4. IsAWSBlock(file[Prefix(p, i)]) BY <1>4, <3>1, <3>2
    <3>5. QED BY <1>9, <3>2, <3>3, <3>4
  <2>2. ASSUME AwsScope(p) PROVE AwsScope(q)
    <3>1. PICK i \in 1..Len(p) : /\ IsAWSBlock(file[Prefix(p, i)])
                                 /\ \A j \in i + 1..Len(p) : file[Prefix(p, j)].type \notin Owners
      BY <1>9, <2>2
    <3>2. i \in 1..Len(q) /\ IsAWSBlock(file[Prefix(q, i)]) BY <1>4, <1>5, <3>1
    <3>3. \A j \in i + 1..Len(q) : file[Prefix(q, j)].type \notin Owners
      BY <1>3, <1>4, <1>6, <1>7, <1>13, <3>1
    <3>4. QED BY <1>8, <3>2, <3>3
  <2>3. QED BY <1>13, <2>1, <2>2
<1>14. QED BY <1>12, <1>13

\* The file's body is in nothing.
LEMMA AtTheTop ==
  /\ \A types : ~Within(<< >>, types)
  /\ ~AwsScope(<< >>)
  /\ \A p \in Seq(Nat) : Under(p, << >>)
<1>1. Len(<< >>) = 0 /\ 1..0 = {} OBVIOUS
<1>2. (\A types : ~Within(<< >>, types)) /\ ~AwsScope(<< >>) BY <1>1 DEF Within, AwsScope
<1>3. \A p \in Seq(Nat) : Under(p, << >>) BY <1>1, NoPrefix DEF Under
<1>4. QED BY <1>2, <1>3

-----------------------------------------------------------------------------
(* The walk *)

WalkCodes == {"E101", "E201", "E202", "E203"}
AwsCodes == {"E201", "E202"}

\* What a body in the list of check c is
ItemOK(c, w) ==
  /\ DOMAIN w = {"at", "aws"} /\ w.at \in DOMAIN file /\ w.aws \in BOOLEAN
  /\ c \in WalkCodes => ~Within(w.at, {"variable"})
  /\ c \in AwsCodes => ~Within(w.at, {"module"}) /\ (w.aws <=> AwsScope(w.at))
  /\ c \notin WalkCodes => w.at = << >>

Pending(p) == \E i \in DOMAIN work : Under(p, work[i].at)

\* The check under way has reported all it should but what is below its list.
WorkOK ==
  /\ work \in Seq([at : DOMAIN file, aws : BOOLEAN])
  /\ \A i \in DOMAIN work : ItemOK(Code, work[i])
  /\ work # << >> => next > 1 /\ FilterAllows(Code)

Sound == \A v \in violations : \E i \in 1..next - 1 : FilterAllows(Codes[i]) /\ v \in Called(Codes[i])

Complete ==
  \A i \in 1..next - 1 : FilterAllows(Codes[i]) =>
    \A v \in Called(Codes[i]) : v \in violations \/ (i = next - 1 /\ Pending(v[2]))

FamilyInv == FileOK /\ next \in 1..Len(Codes) + 1 /\ WorkOK /\ Sound /\ Complete

\* What is called for is at a position of the file.
LEMMA CalledAt ==
  ASSUME NEW c \in Range(Codes), NEW v \in Called(c)
  PROVE  v[2] \in DOMAIN file /\ (c \in WalkCodes => Applies(c, v[2]) /\ v \in Reports(c, v[2]))
<1>1. c \in {"E101", "E201", "E202", "E203", "E204", "E210"} BY DEF Range, Codes
<1>2. CASE c = "E204"
  <2>1. Called(c) = {<<c, p, "bucket", 0>> : p \in WrongBuckets} BY <1>2 DEF Called
  <2>2. PICK p \in WrongBuckets : v = <<c, p, "bucket", 0>> BY <2>1
  <2>3. p \in DOMAIN file BY DEF WrongBuckets
  <2>4. QED BY <1>2, <2>2, <2>3 DEF WalkCodes
<1>3. CASE c = "E210"
  <2>1. Called(c) = {<<c, p, "", 0>> : p \in {p \in DOMAIN file : Len(p) = 2 /\ Typo(file[Front(p)], file[p])}}
    BY <1>3 DEF Called
  <2>2. PICK p \in DOMAIN file : v = <<c, p, "", 0>> BY <2>1
  <2>3. QED BY <1>3, <2>2 DEF WalkCodes
<1>4. CASE c \notin {"E204", "E210"}
  <2>1. Called(c) = UNION {Reports(c, p) : p \in {p \in DOMAIN file : Applies(c, p)}}
    BY <1>4 DEF Called
  <2>2. PICK p \in DOMAIN file : Applies(c, p) /\ v \in Reports(c, p) BY <2>1
  <2>3. v[2] = p BY <2>2 DEF Reports
  <2>4. QED BY <2>2, <2>3
<1>5. QED BY <1>2, <1>3, <1>4

LEMMA CalledFor ==
  ASSUME NEW c \in WalkCodes, NEW p \in DOMAIN file, Applies(c, p)
  PROVE  Reports(c, p) \subseteq Called(c)
<1>1. c \notin {"E204", "E210"} BY DEF WalkCodes
<1>2. Called(c) = UNION {Reports(c, q) : q \in {q \in DOMAIN file : Applies(c, q)}}
  BY <1>1 DEF Called
<1>3. QED BY <1>2

\* The list w is t, whose first body has made way for those of s.
Replaces(w, s, t) ==
  /\ \A j \in DOMAIN w : (\E i \in DOMAIN s : w[j] = s[i]) \/ (\E i \in DOMAIN t : w[j] = t[i])
  /\ \A i \in DOMAIN s : \E j \in DOMAIN w : w[j] = s[i]
  /\ \A i \in DOMAIN t : i # 1 => \E j \in DOMAIN w : w[j] = t[i]

LEMMA ListAfter ==
  ASSUME NEW S, NEW s \in Seq(S), NEW t \in Seq(S), t # << >>
  PROVE  s \o Tail(t) \in Seq(S) /\ Replaces(s \o Tail(t), s, t)
<1> DEFINE u == Tail(t)
           w == s \o u
           m == Len(s)
           n == Len(t)
<1>1. /\ u \in Seq(S) /\ Len(u) = n - 1 /\ n \in Nat /\ m \in Nat /\ n >= 1
      /\ \A i \in 1..Len(u) : u[i] = t[i + 1]
  BY HeadTailProperties
<1> HIDE DEF u
<1>2. /\ w \in Seq(S) /\ Len(w) = m + Len(u)
      /\ \A i \in 1..m + Len(u) : w[i] = IF i <= m THEN s[i] ELSE u[i - m]
  BY <1>1, ConcatProperties
<1>3. DOMAIN s = 1..m /\ DOMAIN t = 1..n /\ DOMAIN u = 1..n - 1 /\ DOMAIN w = 1..m + n - 1
  BY <1>1, <1>2
<1> HIDE DEF w, m, n
<1>4. \A j \in 1..m + n - 1 : j <= m => j \in 1..m /\ w[j] = s[j] BY <1>1, <1>2
<1>5. \A j \in 1..m + n - 1 : ~(j <= m) => j - m + 1 \in 1..n /\ w[j] = t[j - m + 1]
  BY <1>1, <1>2
<1>6. \A i \in 1..m : i \in 1..m + n - 1 BY <1>1
<1>7. \A i \in 1..n : i # 1 => m + i - 1 \in 1..m + n - 1 /\ ~(m + i - 1 <= m) /\ m + i - 1 - m + 1 = i
  BY <1>1
<1>8. \A j \in 1..m + n - 1 : (\E i \in 1..m : w[j] = s[i]) \/ (\E i \in 1..n : w[j] = t[i])
  BY <1>4, <1>5
<1>9. \A i \in 1..m : \E j \in 1..m + n - 1 : w[j] = s[i]
  <2> TAKE i \in 1..m
  <2>1. i \in 1..m + n - 1 /\ i <= m BY <1>1, <1>6
  <2>2. w[i] = s[i] BY <1>4, <2>1
  <2>3. QED BY <2>1, <2>2
<1>10. \A i \in 1..n : i # 1 => \E j \in 1..m + n - 1 : w[j] = t[i]
  <2> SUFFICES ASSUME NEW i \in 1..n, i # 1 PROVE \E j \in 1..m + n - 1 : w[j] = t[i]
    OBVIOUS
  <2> DEFINE j == m + i - 1
  <2>1. j \in 1..m + n - 1 /\ ~(j <= m) /\ j - m + 1 = i BY <1>1, <1>7
  <2> HIDE DEF j
  <2>2. w[j] = t[i] BY <1>5, <2>1
  <2>3. QED BY <2>1, <2>2
<1>11. Replaces(w, s, t) BY <1>3, <1>8, <1>9, <1>10 DEF Replaces
<1>12. QED BY <1>2, <1>11 DEF w, u

LEMMA CodeIs ==
  ASSUME FamilyInv, work # << >>
  PROVE  /\ next - 1 \in 1..next - 1 /\ next - 1 \in 1..Len(Codes)
         /\ Code = Codes[next - 1] /\ Code \in Range(Codes) /\ FilterAllows(Code)
         /\ Head(work) = work[1] /\ 1 \in DOMAIN work /\ ItemOK(Code, Head(work)) /\ At \in DOMAIN file
<1>1. next \in 1..Len(Codes) + 1 /\ next > 1 /\ FilterAllows(Code) BY DEF FamilyInv, WorkOK
<1>2. Len(Codes) = 6 /\ DOMAIN Codes = 1..6 BY DEF Codes
<1>3. next - 1 \in 1..next - 1 /\ next - 1 \in 1..Len(Codes) BY <1>1, <1>2
<1>4. Codes[next - 1] \in Range(Codes) BY <1>2, <1>3 DEF Range
<1>5. work \in Seq([at : DOMAIN file, aws : BOOLEAN]) BY DEF FamilyInv, WorkOK
<1>6. Head(work) = work[1] /\ 1 \in DOMAIN work BY <1>5
<1>7. ItemOK(Code, Head(work)) BY <1>6 DEF FamilyInv, WorkOK
<1>8. At \in DOMAIN file BY <1>7 DEF ItemOK, At
<1>9. QED BY <1>1, <1>3, <1>4, <1>6, <1>7, <1>8 DEF Code

\* new is what takes the place of the body at the head of the list.
Follows(new, types) ==
  /\ types = IF Code \in AwsCodes THEN {"variable", "module"} ELSE {"variable"}
  /\ new = [i \in DOMAIN Passing(At, types) |->
              Visit(Passing(At, types)[i],
                    IF Code \in AwsCodes THEN Scope(Passing(At, types)[i]) ELSE FALSE)]

\* The blocks in a body that its rule does not pass over are what they should
\* be, and none is missing.
LEMMA NewItems ==
  ASSUME FamilyInv, work # << >>, Code \in WalkCodes, NEW types, NEW new, Follows(new, types)
  PROVE  /\ new \in Seq([at : DOMAIN file, aws : BOOLEAN])
         /\ \A i \in DOMAIN new : ItemOK(Code, new[i])
         /\ \A q \in Inner(file, At) : file[q].type \notin types => \E i \in DOMAIN new : new[i].at = q
<1> DEFINE c == Code
           r == At
           below == Passing(At, types)
           flag(q) == IF c \in AwsCodes THEN Scope(q) ELSE FALSE
<1>1. /\ c \in Range(Codes) /\ ItemOK(c, Head(work)) /\ r \in DOMAIN file
  BY CodeIs
<1>2. FileOK BY DEF FamilyInv
<1>3. below \in Seq(DOMAIN file) /\ Range(below) = {q \in Inner(file, r) : file[q].type \notin types}
  BY <1>1, <1>2, PassingIs
<1>4. c \in WalkCodes /\ r = Head(work).at BY DEF At
<1>5. types = IF c \in AwsCodes THEN {"variable", "module"} ELSE {"variable"} BY DEF Follows
<1>6. new = [i \in DOMAIN below |-> Visit(below[i], flag(below[i]))] BY DEF Follows
<1>7. \A i \in DOMAIN below : below[i] \in Range(below) BY DEF Range
<1>8. /\ ~Within(r, {"variable"})
      /\ c \in AwsCodes => ~Within(r, {"module"}) /\ (Head(work).aws <=> AwsScope(r))
      /\ Head(work).aws \in BOOLEAN
  BY <1>1, <1>4 DEF ItemOK
<1>9. \A q : /\ Scope(q) = IF file[q].type \in Owners THEN IsAWSBlock(file[q]) ELSE Head(work).aws
             /\ Scope(q) \in BOOLEAN
  <2> TAKE q
  <2>1. Scope(q) = IF file[q].type \in Owners THEN IsAWSBlock(file[q]) ELSE Head(work).aws
    BY Zenon DEF Scope
  <2>2. IsAWSBlock(file[q]) \in BOOLEAN BY DEF IsAWSBlock
  <2>3. QED BY <1>8, <2>1, <2>2
<1> HIDE DEF c, r, below
<1>10. ASSUME NEW q \in Range(below) PROVE ItemOK(c, Visit(q, flag(q))) /\ q \in DOMAIN file
  <2>1. q \in Inner(file, r) /\ file[q].type \notin types BY <1>3
  <2>2. q \in DOMAIN file BY <1>1, <1>2, <2>1, InnerIs
  <2>3. /\ DOMAIN Visit(q, flag(q)) = {"at", "aws"}
        /\ Visit(q, flag(q)).at = q /\ Visit(q, flag(q)).aws = flag(q)
    BY DEF Visit
  <2>4. ~Within(q, {"variable"})
    <3>1. "variable" \in types BY <1>5
    <3>2. file[q].type \notin {"variable"} BY <2>1, <3>1
    <3>3. QED BY <1>1, <1>2, <1>8, <2>1, <2>2, <3>2, WithinNext
  <2>5. CASE c \in AwsCodes
    <3>1. "module" \in types BY <1>5, <2>5
    <3>2. file[q].type \notin {"module"} BY <2>1, <3>1
    <3>3. ~Within(q, {"module"}) BY <1>1, <1>2, <1>8, <2>1, <2>2, <2>5, <3>2, WithinNext
    <3>4. AwsScope(q) <=> IF file[q].type \in Owners THEN IsAWSBlock(file[q]) ELSE AwsScope(r)
      BY <1>1, <1>2, <2>1, <2>2, ScopeNext
    <3>5. Scope(q) <=> AwsScope(q) BY <1>8, <1>9, <2>5, <3>4
    <3>6. flag(q) = Scope(q) BY <2>5
    <3> HIDE DEF flag
    <3>7. flag(q) \in BOOLEAN /\ (flag(q) <=> AwsScope(q)) BY <1>9, <3>5, <3>6
    <3>8. QED BY <1>4, <2>2, <2>3, <2>4, <3>3, <3>7 DEF ItemOK
  <2>6. CASE c \notin AwsCodes
    <3>1. flag(q) = FALSE BY <2>6
    <3> HIDE DEF flag
    <3>2. QED BY <1>4, <2>2, <2>3, <2>4, <2>6, <3>1 DEF ItemOK
  <2>7. QED BY <2>5, <2>6
<1>11. \A q \in Range(below) : Visit(q, flag(q)) \in [at : DOMAIN file, aws : BOOLEAN]
  <2> TAKE q \in Range(below)
  <2>1. q \in DOMAIN file BY <1>10
  <2>2. flag(q) \in BOOLEAN BY <1>9
  <2> HIDE DEF flag
  <2>3. QED BY <2>1, <2>2 DEF Visit
<1> HIDE DEF flag
<1>12. new \in Seq([at : DOMAIN file, aws : BOOLEAN])
  <2>1. DOMAIN below = 1..Len(below) /\ Len(below) \in Nat BY <1>3
  <2>2. \A i \in DOMAIN below : Visit(below[i], flag(below[i])) \in [at : DOMAIN file, aws : BOOLEAN]
    BY <1>7, <1>11
  <2> DEFINE W == [at : DOMAIN file, aws : BOOLEAN]
  <2>3. new \in [1..Len(below) -> W] BY <1>6, <2>1, <2>2
  <2> HIDE DEF W
  <2>4. new \in Seq(W) BY <2>1, <2>3
  <2>5. QED BY <2>4 DEF W
<1>13. \A i \in DOMAIN new : ItemOK(c, new[i])
  <2> TAKE i \in DOMAIN new
  <2>1. i \in DOMAIN below /\ new[i] = Visit(below[i], flag(below[i])) BY <1>6
  <2>2. QED BY <1>7, <1>10, <2>1
<1>14. \A q \in Inner(file, r) : file[q].type \notin types => \E i \in DOMAIN new : new[i].at = q
  <2> SUFFICES ASSUME NEW q \in Inner(file, r), file[q].type \notin types
               PROVE  \E i \in DOMAIN new : new[i].at = q
    OBVIOUS
  <2>1. q \in Range(below) BY <1>3
  <2>2. PICK i \in DOMAIN below : below[i] = q BY <2>1 DEF Range
  <2>3. i \in DOMAIN new /\ new[i] = Visit(below[i], flag(below[i])) BY <1>6
  <2>4. QED BY <2>2, <2>3 DEF Visit
<1>15. QED BY <1>12, <1>13, <1>14 DEF c, r

\* Nothing below a body is lost when the blocks in it take its place, except
\* what its rule passes over.
LEMMA StillPending ==
  ASSUME FamilyInv, work # << >>, Code \in WalkCodes, NEW types, NEW new, Follows(new, types),
         NEW p \in DOMAIN file, Applies(Code, p), Under(p, At), p # At
  PROVE  \E i \in DOMAIN new : Under(p, new[i].at)
<1>1. FileOK BY DEF FamilyInv
<1>2. At \in DOMAIN file BY CodeIs
<1> DEFINE q == Prefix(p, Len(At) + 1)
<1>3. q \in Inner(file, At) /\ Under(p, q) /\ Len(At) + 1 \in 1..Len(p) BY <1>1, <1>2, NextBelow
<1>4. file[q].type \notin types
  <2>1. \A S : file[q].type \in S => Within(p, S) BY <1>3 DEF Within, Prefix
  <2>2. ~Within(p, {"variable"}) /\ (Code \in AwsCodes => ~Within(p, {"module"}))
    BY DEF Applies, AwsCodes
  <2> HIDE DEF q
  <2>3. file[q].type \notin {"variable"} BY <2>1, <2>2
  <2>4. Code \in AwsCodes => file[q].type \notin {"module"} BY <2>1, <2>2
  <2>5. QED BY <2>3, <2>4 DEF Follows
<1> HIDE DEF q
<1>5. QED BY <1>3, <1>4, NewItems

-----------------------------------------------------------------------------
(* The steps *)

LEMMA SameFile ==
  ASSUME UNCHANGED <<file, filter>>
  PROVE  /\ FileOK' <=> FileOK
         /\ \A c : Called(c)' = Called(c) /\ (FilterAllows(c)' <=> FilterAllows(c))
         /\ \A c, w : ItemOK(c, w)' <=> ItemOK(c, w)
<1>1. file' = file /\ filter' = filter OBVIOUS
<1>2. FileOK' <=> FileOK BY <1>1 DEF FileOK, WellFormedConfig
<1>3. \A c : FilterAllows(c)' <=> FilterAllows(c) BY <1>1 DEF FilterAllows
<1>4. \A p, types : Within(p, types)' <=> Within(p, types) BY <1>1 DEF Within
<1>5. \A p : AwsScope(p)' <=> AwsScope(p) BY <1>1 DEF AwsScope
<1>6. \A c, p : Applies(c, p)' <=> Applies(c, p) BY <1>4, <1>5, Zenon DEF Applies
<1>7. \A c, p : Reports(c, p)' = Reports(c, p) BY <1>1 DEF Reports
<1>8. WrongBuckets' = WrongBuckets BY <1>1 DEF WrongBuckets
<1>9. \A c : Called(c)' = Called(c)
  <2> TAKE c
  <2>1. (UNION {Reports(c, p) : p \in {p \in DOMAIN file : Applies(c, p)}})'
          = UNION {Reports(c, p) : p \in {p \in DOMAIN file : Applies(c, p)}}
    <3>1. {p \in DOMAIN file : Applies(c, p)}' = {p \in DOMAIN file : Applies(c, p)}
      BY <1>1, <1>6
    <3>2. QED BY <1>7, <3>1
  <2>2. {<<c, p, "", 0>> : p \in {p \in DOMAIN file : Len(p) = 2 /\ Typo(file[Front(p)], file[p])}}'
          = {<<c, p, "", 0>> : p \in {p \in DOMAIN file : Len(p) = 2 /\ Typo(file[Front(p)], file[p])}}
    BY <1>1
  <2>3. CASE c = "E204" BY <1>8, <2>3 DEF Called
  <2>4. CASE c = "E210" BY <2>2, <2>4 DEF Called
  <2>5. CASE c \notin {"E204", "E210"} BY <2>1, <2>5 DEF Called
  <2>6. QED BY <2>3, <2>4, <2>5
<1>10. \A c, w : ItemOK(c, w)' <=> ItemOK(c, w) BY <1>1, <1>4, <1>5 DEF ItemOK
<1>11. QED BY <1>2, <1>3, <1>9, <1>10

\* A check reports what the body at the head of its list calls for, and the
\* blocks in it take its place.
LEMMA WalkKeeps ==
  ASSUME FamilyInv, work # << >>, Code \in WalkCodes, NEW types, NEW new, Follows(new, types),
         violations' = violations \cup (IF Code \in AwsCodes /\ ~Head(work).aws THEN {} ELSE Reports(Code, At)),
         work' = new \o Tail(work),
         UNCHANGED <<file, filter, next>>
  PROVE  FamilyInv'
<1> DEFINE W == [at : DOMAIN file, aws : BOOLEAN]
           here == IF Code \in AwsCodes /\ ~Head(work).aws THEN {} ELSE Reports(Code, At)
<1>0. PICK c, n, r : c = Code /\ n = next - 1 /\ r = At OBVIOUS
<1>1. /\ n \in 1..n /\ n \in 1..Len(Codes)
      /\ c = Codes[n] /\ c \in Range(Codes) /\ FilterAllows(c)
      /\ Head(work) = work[1] /\ 1 \in DOMAIN work /\ ItemOK(c, Head(work)) /\ r \in DOMAIN file
  BY <1>0, CodeIs
<1>2. FileOK /\ WorkOK /\ Sound /\ Complete /\ next \in 1..Len(Codes) + 1 BY DEF FamilyInv
<1>3. Code' = c /\ (next - 1)' = n BY <1>0 DEF Code
<1>4. c \in WalkCodes /\ r = Head(work).at BY <1>0 DEF At
<1>5. /\ FileOK' /\ (next \in 1..Len(Codes) + 1)'
      /\ \A d : Called(d)' = Called(d) /\ (FilterAllows(d)' <=> FilterAllows(d))
      /\ \A d, w : ItemOK(d, w)' <=> ItemOK(d, w)
  BY <1>2, SameFile
<1>6. /\ new \in Seq(W) /\ \A i \in DOMAIN new : ItemOK(c, new[i])
  BY <1>0, NewItems
<1>7. work \in Seq(W) BY <1>2 DEF WorkOK
<1>8. /\ work' \in Seq(W)
      /\ \A j \in DOMAIN work' : \/ \E i \in DOMAIN new : work'[j] = new[i]
                                 \/ \E i \in DOMAIN work : work'[j] = work[i]
      /\ \A i \in DOMAIN new : \E j \in DOMAIN work' : work'[j] = new[i]
      /\ \A i \in DOMAIN work : i # 1 => \E j \in DOMAIN work' : work'[j] = work[i]
  <2> HIDE DEF W
  <2>1. new \o Tail(work) \in Seq(W) /\ Replaces(new \o Tail(work), new, work)
    BY <1>6, <1>7, ListAfter
  <2>2. work' \in Seq(W) /\ Replaces(work', new, work) BY <2>1
  <2>3. QED BY <2>2 DEF Replaces
<1>9. WorkOK'
  <2>1. \A j \in DOMAIN work' : ItemOK(c, work'[j]) BY <1>0, <1>2, <1>6, <1>8 DEF WorkOK
  <2>2. \A j \in DOMAIN work' : ItemOK(Code, work[j])'
    <3> TAKE j \in DOMAIN work'
    <3>1. PICK w : w = work'[j] OBVIOUS
    <3>2. ItemOK(c, w)' BY <1>5, <2>1, <3>1
    <3>3. QED BY <1>3, <3>1, <3>2
  <2>3. (next > 1 /\ FilterAllows(Code))'
    <3>1. FilterAllows(c)' BY <1>1, <1>5
    <3>2. next > 1 BY <1>0, <1>1, <1>2
    <3>3. QED BY <1>3, <3>1, <3>2
  <2>4. (work \in Seq([at : DOMAIN file, aws : BOOLEAN]))' BY <1>8
  <2>5. QED BY <2>2, <2>3, <2>4 DEF WorkOK
<1>10. here \subseteq Called(c)
  <2>1. CASE c \in AwsCodes /\ ~Head(work).aws BY <1>0, <2>1
  <2>2. CASE ~(c \in AwsCodes /\ ~Head(work).aws)
    <3>1. /\ ~Within(r, {"variable"})
          /\ c \in AwsCodes => ~Within(r, {"module"}) /\ AwsScope(r)
      BY <1>1, <1>4, <2>2 DEF ItemOK
    <3>2. Applies(c, r) BY <3>1 DEF Applies, AwsCodes
    <3>3. Reports(c, r) \subseteq Called(c) BY <1>1, <1>4, <3>2, CalledFor
    <3>4. QED BY <1>0, <2>2, <3>3
  <2>3. QED BY <2>1, <2>2
<1>11. Sound'
  <2>1. \A v \in violations' : \E i \in 1..n : FilterAllows(Codes[i]) /\ v \in Called(Codes[i])
    <3> TAKE v \in violations'
    <3>1. CASE v \in violations BY <1>0, <1>2, <3>1 DEF Sound
    <3>2. CASE v \in here BY <1>1, <1>10, <3>2
    <3>3. QED BY <3>1, <3>2
  <2>2. \A v \in violations' : \E i \in 1..n : FilterAllows(Codes[i])' /\ v \in Called(Codes[i])'
    BY <1>5, <2>1
  <2>3. QED BY <1>3, <2>2 DEF Sound
<1>12. \A v \in Called(c) : Pending(v[2]) => v \in violations' \/ Pending(v[2])'
  <2> SUFFICES ASSUME NEW v \in Called(c), Pending(v[2]) PROVE v \in violations' \/ Pending(v[2])'
    OBVIOUS
  <2> DEFINE p == v[2]
  <2>1. p \in DOMAIN file /\ Applies(c, p) /\ v \in Reports(c, p) BY <1>1, <1>4, CalledAt
  <2>2. PICK i \in DOMAIN work : Under(p, work[i].at) BY DEF Pending
  <2> HIDE DEF p
  <2>3. CASE i # 1
    <3>1. PICK j \in DOMAIN work' : work'[j] = work[i] BY <1>8, <2>3
    <3>2. Pending(p)' BY <2>2, <3>1 DEF Pending
    <3>3. QED BY <3>2 DEF p
  <2>4. CASE i = 1 /\ p # r
    <3>1. Under(p, r) BY <1>1, <1>4, <2>2, <2>4
    <3>2. PICK k \in DOMAIN new : Under(p, new[k].at) BY <1>0, <2>1, <2>4, <3>1, StillPending
    <3>3. PICK j \in DOMAIN work' : work'[j] = new[k] BY <1>8
    <3>4. Pending(p)' BY <3>2, <3>3 DEF Pending
    <3>5. QED BY <3>4 DEF p
  <2>5. CASE p = r
    <3>1. c \in AwsCodes => AwsScope(r) BY <2>1, <2>5 DEF Applies, AwsCodes
    <3>2. c \in AwsCodes => Head(work).aws BY <1>1, <1>4, <3>1 DEF ItemOK
    <3>3. here = Reports(c, r) BY <1>0, <3>2
    <3>4. QED BY <2>1, <2>5, <3>3
  <2>6. QED BY <2>3, <2>4, <2>5
<1>13. Complete'
  <2>1. \A i \in 1..n : FilterAllows(Codes[i]) =>
          \A v \in Called(Codes[i]) : v \in violations' \/ (i = n /\ Pending(v[2])')
    <3> SUFFICES ASSUME NEW i \in 1..n, FilterAllows(Codes[i]), NEW v \in Called(Codes[i])
                 PROVE  v \in violations' \/ (i = n /\ Pending(v[2])')
      OBVIOUS
    <3>1. v \in violations \/ (i = n /\ Pending(v[2])) BY <1>0, <1>2 DEF Complete
    <3>2. QED BY <1>1, <1>12, <3>1
  <2>2. \A i \in 1..n : FilterAllows(Codes[i])' =>
          \A v \in Called(Codes[i])' : v \in violations' \/ (i = n /\ Pending(v[2])')
    BY <1>5, <2>1
  <2>3. QED BY <1>3, <2>2 DEF Complete
<1>14. QED BY <1>5, <1>9, <1>11, <1>13 DEF FamilyInv

-----------------------------------------------------------------------------
(* Bucket names: the scans accept the documented grammars. *)

LEMMA ThreeInOrder ==
  ASSUME NEW D \in SUBSET Nat, Cardinality(D) = 3, IsFiniteSet(D)
  PROVE  \E i, j, k \in D : i < j /\ j < k /\ D = {i, j, k}
<1>1. PICK f : f \in Bijection(1..3, D) BY FS_CardinalityType DEF ExistsBijection
<1>2. /\ f \in [1..3 -> D] /\ \A a, b \in 1..3 : a # b => f[a] # f[b]
      /\ \A y \in D : \E x \in 1..3 : f[x] = y
  BY <1>1 DEF Bijection, Injection, Surjection, IsInjective
<1>3. 1 \in 1..3 /\ 2 \in 1..3 /\ 3 \in 1..3 /\ \A x \in 1..3 : x = 1 \/ x = 2 \/ x = 3 OBVIOUS
<1>4. PICK a, b, c \in D : a # b /\ a # c /\ b # c /\ D = {a, b, c}
  <2>1. f[1] \in D /\ f[2] \in D /\ f[3] \in D BY <1>2, <1>3
  <2>2. f[1] # f[2] /\ f[1] # f[3] /\ f[2] # f[3] BY <1>2, <1>3
  <2>3. D = {f[1], f[2], f[3]}
    <3>1. \A y \in D : y = f[1] \/ y = f[2] \/ y = f[3] BY <1>2, <1>3
    <3>2. QED BY <2>1, <3>1
  <2>4. QED BY <2>1, <2>2, <2>3
<1>5. a \in Nat /\ b \in Nat /\ c \in Nat OBVIOUS
<1>6. \/ (a < b /\ b < c) \/ (a < c /\ c < b) \/ (b < a /\ a < c)
      \/ (b < c /\ c < a) \/ (c < a /\ a < b) \/ (c < b /\ b < a)
  BY <1>4, <1>5
<1>7. D = {a, c, b} /\ D = {b, a, c} /\ D = {b, c, a} /\ D = {c, a, b} /\ D = {c, b, a} BY <1>4
<1>8. QED BY <1>4, <1>6, <1>7

LEMMA ThreeAre ==
  ASSUME NEW i \in Nat, NEW j \in Nat, NEW k \in Nat, i < j, j < k
  PROVE  Cardinality({i, j, k}) = 3
<1>1. i # j /\ i # k /\ j # k OBVIOUS
<1> DEFINE A == {i}
           B == A \cup {j}
<1>2. IsFiniteSet(A) /\ Cardinality(A) = 1 BY FS_Singleton
<1>3. j \notin A /\ k \notin B /\ {i, j, k} = B \cup {k} BY <1>1
<1> HIDE DEF A
<1>4. IsFiniteSet(B) /\ Cardinality(B) = 1 + 1 BY <1>2, <1>3, FS_AddElement
<1> HIDE DEF B
<1>5. Cardinality(B \cup {k}) = 1 + 1 + 1 BY <1>3, <1>4, FS_AddElement
<1>6. {i, j, k} = B \cup {k} BY <1>3
<1>7. 1 + 1 + 1 = 3 OBVIOUS
<1>8. QED BY <1>5, <1>6, <1>7, Zenon

LEMMA BucketNames ==
  ASSUME NEW s \in Seq(STRING)
  PROVE  ValidBucketName(s) <=> TrueBucketName(s)
<1> DEFINE dots == {i \in DOMAIN s : s[i] = "."}
           IP == AllIn(s, Digits \cup {"."}) /\ Cardinality(dots) = 3
           TrueIP == \E i, j, k \in DOMAIN s :
                       /\ i < j /\ j < k /\ \A n \in {i, j, k} : s[n] = "."
                       /\ \A n \in DOMAIN s \ {i, j, k} : s[n] \in Digits
<1>1. Len(s) \in Nat /\ DOMAIN s = 1..Len(s) OBVIOUS
<1>2. dots \in SUBSET Nat /\ IsFiniteSet(dots)
  <2>1. IsFiniteSet(1..Len(s)) BY <1>1, FS_Interval
  <2>2. dots \subseteq 1..Len(s) BY <1>1
  <2>3. QED BY <1>1, <2>1, <2>2, FS_Subset
<1>3. ASSUME IP PROVE TrueIP
  <2>1. PICK i, j, k \in dots : i < j /\ j < k /\ dots = {i, j, k}
    <3>1. Cardinality(dots) = 3 BY <1>3
    <3> HIDE DEF dots
    <3>2. QED BY <1>2, <3>1, ThreeInOrder
  <2>2. \A n \in DOMAIN s \ {i, j, k} : s[n] \in Digits
    <3> TAKE n \in DOMAIN s \ {i, j, k}
    <3>1. s[n] # "." BY <2>1
    <3>2. s[n] \in Digits \cup {"."} BY <1>3 DEF AllIn
    <3>3. QED BY <3>1, <3>2
  <2>3. \A n \in {i, j, k} : s[n] = "." OBVIOUS
  <2>4. i \in DOMAIN s /\ j \in DOMAIN s /\ k \in DOMAIN s OBVIOUS
  <2>5. QED BY <2>1, <2>2, <2>3, <2>4
<1>4. ASSUME TrueIP PROVE IP
  <2>1. PICK i, j, k \in DOMAIN s :
          /\ i < j /\ j < k /\ \A n \in {i, j, k} : s[n] = "."
          /\ \A n \in DOMAIN s \ {i, j, k} : s[n] \in Digits
    BY <1>4
  <2>2. "." \notin Digits BY DEF Digits
  <2>3. dots = {i, j, k} BY <2>1, <2>2
  <2>4. Cardinality({i, j, k}) = 3
    <3>1. i \in Nat /\ j \in Nat /\ k \in Nat BY <1>1
    <3>2. QED BY <2>1, <3>1, ThreeAre
  <2>5. AllIn(s, Digits \cup {"."})
    <3>1. \A n \in DOMAIN s : s[n] \in Digits \/ s[n] = "." BY <2>1
    <3>2. QED BY <3>1 DEF AllIn
  <2>6. QED BY <2>3, <2>4, <2>5
<1>5. (\A i \in 1..Len(s) - 1 : ~(s[i] = "." /\ s[i + 1] = "."))
        <=> ~\E i \in DOMAIN s : i + 1 \in DOMAIN s /\ {s[i], s[i + 1]} = {"."}
  <2>1. \A i : i \in 1..Len(s) - 1 <=> i \in 1..Len(s) /\ i + 1 \in 1..Len(s)
    <3>1. \A i : i \in 1..Len(s) => i \in Int OBVIOUS
    <3>2. QED BY <1>1, <3>1
  <2>2. \A x, y : {x, y} = {"."} <=> x = "." /\ y = "." OBVIOUS
  <2>3. (\E i \in DOMAIN s : i + 1 \in DOMAIN s /\ {s[i], s[i + 1]} = {"."})
          <=> \E i \in 1..Len(s) - 1 : s[i] = "." /\ s[i + 1] = "."
    <3>1. ASSUME NEW i \in DOMAIN s, i + 1 \in DOMAIN s, {s[i], s[i + 1]} = {"."}
          PROVE  i \in 1..Len(s) - 1 /\ s[i] = "." /\ s[i + 1] = "."
      BY <1>1, <2>1, <2>2, <3>1
    <3>2. ASSUME NEW i \in 1..Len(s) - 1, s[i] = ".", s[i + 1] = "."
          PROVE  i \in DOMAIN s /\ i + 1 \in DOMAIN s /\ {s[i], s[i + 1]} = {"."}
      BY <1>1, <2>1, <2>2, <3>2
    <3>3. QED BY <3>1, <3>2, Zenon
  <2>4. QED BY <2>3, Zenon
<1>6. ValidBucketName(s) <=>
        /\ Bounded(s) /\ AllIn(s, Alnum \cup {".", "-"})
        /\ \A i \in 1..Len(s) - 1 : ~(s[i] = "." /\ s[i + 1] = ".")
        /\ ~IP
  BY DEF ValidBucketName
<1>7. TrueBucketName(s) <=>
        /\ Bounded(s) /\ AllIn(s, Alnum \cup {".", "-"})
        /\ ~\E i \in DOMAIN s : i + 1 \in DOMAIN s /\ {s[i], s[i + 1]} = {"."}
        /\ ~TrueIP
  BY Zenon DEF TrueBucketName
<1> HIDE DEF IP, TrueIP
<1>8. QED BY <1>3, <1>4, <1>5, <1>6, <1>7, Zenon

\* The end of s is the suffix, at the places after the first m.
EndsWith(s, m) == m >= 0 /\ \A j \in 1..Len(DirectorySuffix) : s[m + j] = DirectorySuffix[j]

LEMMA SuffixIs ==
  ASSUME NEW s \in Seq(STRING)
  PROVE  IsSuffix(DirectorySuffix, s) <=> EndsWith(s, Len(s) - Len(DirectorySuffix))
<1> DEFINE t == DirectorySuffix
           d == Len(t)
           n == Len(s)
           m == n - d
           R == Reverse(s)
           T == Reverse(t)
<1>1. t \in Seq(STRING) /\ d \in Nat /\ n \in Nat BY LiteralsAssumption DEF LiteralsAssumption
<1>2. R = [i \in 1..n |-> s[n - i + 1]] /\ T = [i \in 1..d |-> t[d - i + 1]] BY DEF Reverse
<1>3. R \in Seq(STRING) /\ T \in Seq(STRING) /\ Len(R) = n /\ Len(T) = d
  <2>1. \A i \in 1..n : s[n - i + 1] \in STRING
    <3>1. \A i \in 1..n : n - i + 1 \in 1..n BY <1>1
    <3>2. QED BY <3>1
  <2>2. \A i \in 1..d : t[d - i + 1] \in STRING
    <3>1. \A i \in 1..d : d - i + 1 \in 1..d BY <1>1
    <3>2. QED BY <1>1, <3>1
  <2>3. R \in [1..n -> STRING] /\ T \in [1..d -> STRING] BY <1>2, <2>1, <2>2
  <2> HIDE DEF R, T, t
  <2>4. QED BY <1>1, <2>3
<1>4. IsSuffix(t, s) <=> d <= n /\ SubSeq(T, 1, d) = SubSeq(R, 1, d)
  BY <1>3 DEF IsSuffix, IsPrefix
<1>5. CASE d <= n
  <2>1. /\ SubSeq(T, 1, d) \in Seq(STRING) /\ Len(SubSeq(T, 1, d)) = d
        /\ \A i \in 1..d : SubSeq(T, 1, d)[i] = t[d - i + 1]
    <3> HIDE DEF t, R
    <3>1. \A i \in 1..d : T[i] \in STRING BY <1>1, <1>3
    <3> HIDE DEF T
    <3>2. /\ SubSeq(T, 1, d) \in Seq(STRING)
          /\ Len(SubSeq(T, 1, d)) = (IF 1 <= d THEN d - 1 + 1 ELSE 0)
          /\ \A i \in 1..d - 1 + 1 : SubSeq(T, 1, d)[i] = T[1 + i - 1]
      BY <1>1, <3>1, SubSeqProperties
    <3>3. \A i \in 1..d : i \in 1..d - 1 + 1 /\ 1 + i - 1 = i BY <1>1
    <3>4. \A i \in 1..d : SubSeq(T, 1, d)[i] = T[i] BY <3>2, <3>3
    <3>5. \A i \in 1..d : T[i] = t[d - i + 1] BY <1>2
    <3>6. Len(SubSeq(T, 1, d)) = d BY <1>1, <3>2
    <3>7. QED BY <3>2, <3>4, <3>5, <3>6
  <2>2. /\ SubSeq(R, 1, d) \in Seq(STRING) /\ Len(SubSeq(R, 1, d)) = d
        /\ \A i \in 1..d : SubSeq(R, 1, d)[i] = s[n - i + 1]
    <3> HIDE DEF t, T
    <3>0. \A i \in 1..d : i \in 1..n BY <1>1, <1>5
    <3>1. \A i \in 1..d : R[i] \in STRING BY <1>1, <1>3, <3>0
    <3>5. \A i \in 1..d : R[i] = s[n - i + 1] BY <1>2, <3>0
    <3> HIDE DEF R
    <3>2. /\ SubSeq(R, 1, d) \in Seq(STRING)
          /\ Len(SubSeq(R, 1, d)) = (IF 1 <= d THEN d - 1 + 1 ELSE 0)
          /\ \A i \in 1..d - 1 + 1 : SubSeq(R, 1, d)[i] = R[1 + i - 1]
      BY <1>1, <3>1, SubSeqProperties
    <3>3. \A i \in 1..d : i \in 1..d - 1 + 1 /\ 1 + i - 1 = i BY <1>1
    <3>4. \A i \in 1..d : SubSeq(R, 1, d)[i] = R[i] BY <3>2, <3>3
    <3>6. Len(SubSeq(R, 1, d)) = d BY <1>1, <3>2
    <3>7. QED BY <3>2, <3>4, <3>5, <3>6
  <2> DEFINE A == SubSeq(T, 1, d)
             B == SubSeq(R, 1, d)
  <2>3. A = B <=> \A i \in 1..d : t[d - i + 1] = s[n - i + 1]
    <3>1. A \in Seq(STRING) /\ Len(A) = d /\ \A i \in 1..d : A[i] = t[d - i + 1] BY <2>1
    <3>2. B \in Seq(STRING) /\ Len(B) = d /\ \A i \in 1..d : B[i] = s[n - i + 1] BY <2>2
    <3> HIDE DEF A, B, t
    <3>3. A = B <=> \A i \in 1..d : A[i] = B[i] BY <3>1, <3>2, SeqEqual
    <3>4. QED BY <3>1, <3>2, <3>3
  <2>4. (\A i \in 1..d : t[d - i + 1] = s[n - i + 1]) <=> \A j \in 1..d : s[m + j] = t[j]
    <3> HIDE DEF t
    <3>1. \A i \in 1..d : d - i + 1 \in 1..d /\ m + (d - i + 1) = n - i + 1 BY <1>1
    <3>2. \A j \in 1..d : d - j + 1 \in 1..d /\ d - (d - j + 1) + 1 = j /\ n - (d - j + 1) + 1 = m + j
      BY <1>1
    <3>3. ASSUME \A i \in 1..d : t[d - i + 1] = s[n - i + 1] PROVE \A j \in 1..d : s[m + j] = t[j]
      <4> TAKE j \in 1..d
      <4>1. d - j + 1 \in 1..d BY <3>2
      <4>2. t[d - (d - j + 1) + 1] = s[n - (d - j + 1) + 1] BY <3>3, <4>1
      <4>3. QED BY <3>2, <4>2
    <3>4. ASSUME \A j \in 1..d : s[m + j] = t[j] PROVE \A i \in 1..d : t[d - i + 1] = s[n - i + 1]
      <4> TAKE i \in 1..d
      <4>1. d - i + 1 \in 1..d /\ m + (d - i + 1) = n - i + 1 BY <3>1
      <4>2. s[m + (d - i + 1)] = t[d - i + 1] BY <3>4, <4>1
      <4>3. QED BY <4>1, <4>2
    <3>5. QED BY <3>3, <3>4
  <2>5. m >= 0 BY <1>1, <1>5
  <2> HIDE DEF A, B, T, R, d, n
  <2>6. QED BY <1>4, <1>5, <2>3, <2>4, <2>5 DEF EndsWith, A, B, T, R, d, n
<1>6. CASE ~(d <= n)
  <2>1. ~(m >= 0) BY <1>1, <1>6
  <2>2. QED BY <1>4, <1>6, <2>1 DEF EndsWith
<1>7. QED BY <1>5, <1>6

\* w is a and then b.
IsJoin(w, a, b) ==
  /\ Len(w) = Len(a) + Len(b)
  /\ \A k \in 1..Len(a) + Len(b) : w[k] = IF k <= Len(a) THEN a[k] ELSE b[k - Len(a)]

LEMMA Joined ==
  ASSUME NEW S, NEW a \in Seq(S), NEW b \in Seq(S)
  PROVE  a \o b \in Seq(S) /\ IsJoin(a \o b, a, b)
BY ConcatProperties DEF IsJoin

\* A base name, two hyphens, a zone and the suffix
Composed(s, i, m) == s = SubSeq(s, 1, i) \o <<"-", "-">> \o SubSeq(s, i + 3, m) \o DirectorySuffix

LEMMA NameIs ==
  ASSUME NEW S, "-" \in S, DirectorySuffix \in Seq(S), NEW s \in Seq(S), NEW i \in 1..Len(s), NEW m \in Int,
         m = Len(s) - Len(DirectorySuffix), i + 3 <= m
  PROVE  Composed(s, i, m)
           <=> s[i + 1] = "-" /\ s[i + 2] = "-" /\ EndsWith(s, m)
<1> DEFINE t == DirectorySuffix
           d == Len(t)
           n == Len(s)
           A == SubSeq(s, 1, i)
           H == <<"-", "-">>
           Z == SubSeq(s, i + 3, m)
           A2 == A \o H
           A3 == A2 \o Z
           A4 == A3 \o t
<1>1. t \in Seq(S) /\ d \in Nat /\ n \in Nat /\ i \in Nat /\ m \in Nat /\ m + d = n
  OBVIOUS
<1>2. A \in Seq(S) /\ Len(A) = i /\ \A k \in 1..i : A[k] = s[k]
  <2>1. \A k \in 1..i : s[k] \in S BY <1>1
  <2>2. /\ SubSeq(s, 1, i) \in Seq(S)
        /\ Len(SubSeq(s, 1, i)) = (IF 1 <= i THEN i - 1 + 1 ELSE 0)
        /\ \A k \in 1..i - 1 + 1 : SubSeq(s, 1, i)[k] = s[1 + k - 1]
    BY <1>1, <2>1, SubSeqProperties
  <2>3. \A k \in 1..i : k \in 1..i - 1 + 1 /\ 1 + k - 1 = k BY <1>1
  <2>4. \A k \in 1..i : SubSeq(s, 1, i)[k] = s[k] BY <2>2, <2>3
  <2>5. Len(SubSeq(s, 1, i)) = i BY <1>1, <2>2
  <2>6. QED BY <2>2, <2>4, <2>5
<1>3. Z \in Seq(S) /\ Len(Z) = m - i - 2 /\ \A k \in 1..m - i - 2 : Z[k] = s[i + 2 + k]
  <2>1. \A k \in i + 3..m : k \in 1..n BY <1>1
  <2>2. \A k \in i + 3..m : s[k] \in S BY <2>1
  <2>3. i + 3 \in Int /\ m \in Int BY <1>1
  <2>4. /\ SubSeq(s, i + 3, m) \in Seq(S)
        /\ Len(SubSeq(s, i + 3, m)) = (IF i + 3 <= m THEN m - (i + 3) + 1 ELSE 0)
        /\ \A k \in 1..m - (i + 3) + 1 : SubSeq(s, i + 3, m)[k] = s[(i + 3) + k - 1]
    BY <2>2, <2>3, SubSeqProperties
  <2>5. m - (i + 3) + 1 = m - i - 2 BY <1>1
  <2>6. \A k \in 1..m - i - 2 : (i + 3) + k - 1 = i + 2 + k BY <1>1
  <2>7. Len(SubSeq(s, i + 3, m)) = m - i - 2 BY <2>4, <2>5
  <2>8. \A k \in 1..m - i - 2 : SubSeq(s, i + 3, m)[k] = s[i + 2 + k] BY <2>4, <2>5, <2>6
  <2>9. QED BY <2>4, <2>7, <2>8
<1>4. H \in Seq(S) /\ Len(H) = 2 /\ H[1] = "-" /\ H[2] = "-"
  OBVIOUS
<1> HIDE DEF t, A, Z, H
<1>5. /\ A2 \in Seq(S) /\ Len(A2) = i + 2
      /\ \A k \in 1..i + 2 : A2[k] = IF k <= i THEN A[k] ELSE H[k - i]
  <2>1. A2 \in Seq(S) /\ IsJoin(A2, A, H) BY <1>2, <1>4, Joined
  <2> HIDE DEF A2
  <2>2. QED BY <1>2, <1>4, <2>1 DEF IsJoin
<1> HIDE DEF A2
<1>6. /\ A3 \in Seq(S) /\ Len(A3) = m
      /\ \A k \in 1..m : A3[k] = IF k <= i + 2 THEN A2[k] ELSE Z[k - (i + 2)]
  <2>1. /\ A3 \in Seq(S) /\ Len(A3) = (i + 2) + (m - i - 2)
        /\ \A k \in 1..(i + 2) + (m - i - 2) : A3[k] = IF k <= i + 2 THEN A2[k] ELSE Z[k - (i + 2)]
    <3>1. A3 \in Seq(S) /\ IsJoin(A3, A2, Z) BY <1>3, <1>5, Joined
    <3> HIDE DEF A3
    <3>2. QED BY <1>3, <1>5, <3>1 DEF IsJoin
  <2>2. (i + 2) + (m - i - 2) = m BY <1>1
  <2> HIDE DEF A3
  <2>3. QED BY <2>1, <2>2
<1> HIDE DEF A3
<1>7. /\ A4 \in Seq(S) /\ Len(A4) = n
      /\ \A k \in 1..n : A4[k] = IF k <= m THEN A3[k] ELSE t[k - m]
  <2>1. /\ A4 \in Seq(S) /\ Len(A4) = m + d
        /\ \A k \in 1..m + d : A4[k] = IF k <= m THEN A3[k] ELSE t[k - m]
    <3>1. A4 \in Seq(S) /\ IsJoin(A4, A3, t) BY <1>1, <1>6, Joined
    <3> HIDE DEF A4
    <3>2. QED BY <1>1, <1>6, <3>1 DEF IsJoin
  <2> HIDE DEF A4, d, n
  <2>2. QED BY <1>1, <2>1
<1> HIDE DEF A4
<1>8. /\ \A k \in 1..i : A4[k] = s[k]
      /\ A4[i + 1] = "-" /\ A4[i + 2] = "-"
      /\ \A k \in i + 3..m : A4[k] = s[k]
      /\ \A k \in m + 1..n : A4[k] = t[k - m]
  <2>1. \A k \in 1..i : k \in 1..n /\ k <= m /\ k \in 1..m /\ k <= i + 2 /\ k \in 1..i + 2 BY <1>1
  <2>2. \A k \in 1..i : A4[k] = s[k]
    <3> TAKE k \in 1..i
    <3>1. A4[k] = A3[k] BY <1>7, <2>1
    <3>2. A3[k] = A2[k] BY <1>6, <2>1
    <3>3. A2[k] = A[k] BY <1>1, <1>5, <2>1
    <3>4. QED BY <1>2, <3>1, <3>2, <3>3
  <2>3. \A k \in {i + 1, i + 2} : /\ k \in 1..n /\ k <= m /\ k \in 1..m /\ k <= i + 2
                                  /\ k \in 1..i + 2 /\ ~(k <= i)
    BY <1>1
  <2>4. \A k \in {i + 1, i + 2} : A4[k] = H[k - i]
    <3> TAKE k \in {i + 1, i + 2}
    <3>1. A4[k] = A3[k] BY <1>7, <2>3
    <3>2. A3[k] = A2[k] BY <1>6, <2>3
    <3>3. A2[k] = H[k - i] BY <1>5, <2>3
    <3>4. QED BY <3>1, <3>2, <3>3
  <2>5. i + 1 - i = 1 /\ i + 2 - i = 2 BY <1>1
  <2>6. A4[i + 1] = "-" /\ A4[i + 2] = "-" BY <1>4, <2>4, <2>5
  <2>7. \A k \in i + 3..m : /\ k \in 1..n /\ k <= m /\ k \in 1..m /\ ~(k <= i + 2)
                            /\ k - (i + 2) \in 1..m - i - 2 /\ i + 2 + (k - (i + 2)) = k
    BY <1>1
  <2>8. \A k \in i + 3..m : A4[k] = s[k]
    <3> TAKE k \in i + 3..m
    <3>1. A4[k] = A3[k] BY <1>7, <2>7
    <3>2. A3[k] = Z[k - (i + 2)] BY <1>6, <2>7
    <3>3. Z[k - (i + 2)] = s[i + 2 + (k - (i + 2))] BY <1>3, <2>7
    <3>4. QED BY <2>7, <3>1, <3>2, <3>3
  <2>9. \A k \in m + 1..n : k \in 1..n /\ ~(k <= m) BY <1>1
  <2>10. \A k \in m + 1..n : A4[k] = t[k - m] BY <1>7, <2>9
  <2>11. QED BY <2>2, <2>6, <2>8, <2>10
<1>9. s = A4 <=> \A k \in 1..n : s[k] = A4[k]
  <2>1. ASSUME \A k \in 1..n : s[k] = A4[k] PROVE s = A4 BY <1>7, <2>1, SeqEqual
  <2>2. QED BY <2>1
<1>10. (\A k \in 1..n : s[k] = A4[k])
         <=> s[i + 1] = "-" /\ s[i + 2] = "-" /\ \A k \in m + 1..n : s[k] = t[k - m]
  <2>1. \A k \in 1..n : k \in 1..i \/ k = i + 1 \/ k = i + 2 \/ k \in i + 3..m \/ k \in m + 1..n
    BY <1>1
  <2>2. i + 1 \in 1..n /\ i + 2 \in 1..n /\ \A k \in m + 1..n : k \in 1..n BY <1>1
  <2> HIDE DEF n
  <2>3. QED BY <1>8, <2>1, <2>2
<1>11. (\A k \in m + 1..n : s[k] = t[k - m]) <=> \A j \in 1..d : s[m + j] = t[j]
  <2>1. \A k \in m + 1..n : k - m \in 1..d /\ m + (k - m) = k BY <1>1
  <2>2. \A j \in 1..d : m + j \in m + 1..n /\ (m + j) - m = j BY <1>1
  <2>3. ASSUME \A k \in m + 1..n : s[k] = t[k - m] PROVE \A j \in 1..d : s[m + j] = t[j]
    <3> TAKE j \in 1..d
    <3>1. s[m + j] = t[(m + j) - m] BY <2>2, <2>3
    <3>2. QED BY <2>2, <3>1
  <2>4. ASSUME \A j \in 1..d : s[m + j] = t[j] PROVE \A k \in m + 1..n : s[k] = t[k - m]
    <3> TAKE k \in m + 1..n
    <3>1. s[m + (k - m)] = t[k - m] BY <2>1, <2>4
    <3>2. QED BY <2>1, <3>1
  <2>5. QED BY <2>3, <2>4
<1>12. m >= 0 BY <1>1
<1>13. EndsWith(s, m) <=> \A j \in 1..d : s[m + j] = t[j] BY <1>12 DEF EndsWith, t
<1>14. s = A4 <=> s[i + 1] = "-" /\ s[i + 2] = "-" /\ EndsWith(s, m)
  BY <1>9, <1>10, <1>11, <1>13
<1>15. A4 = SubSeq(s, 1, i) \o <<"-", "-">> \o SubSeq(s, i + 3, m) \o DirectorySuffix
  BY DEF A4, A3, A2, A, H, Z, t
<1>16. QED BY <1>14, <1>15 DEF Composed

\* The hyphen pairs in the first m places
Pairs(s, m) == {k \in 1..m - 1 : s[k] = "-" /\ s[k + 1] = "-"}

\* After the first i come two hyphens and a zone, up to m.
ZoneAt(s, m, i) ==
  /\ i + 3 <= m /\ s[i + 1] = "-" /\ s[i + 2] = "-" /\ s[i + 3] # "-"
  /\ \A k \in Pairs(s, m) : k <= i + 1

LEMMA ZoneIs ==
  ASSUME NEW s \in Seq(STRING), NEW i \in 1..Len(s), NEW m \in Int, m <= Len(s), i + 3 <= m
  PROVE  /\ SubSeq(s, i + 3, m) # << >> /\ Head(SubSeq(s, i + 3, m)) = s[i + 3]
         /\ Hyphens(SubSeq(s, i + 3, m)) = {} <=> ~\E k \in i + 3..m - 1 : s[k] = "-" /\ s[k + 1] = "-"
<1> DEFINE Z == SubSeq(s, i + 3, m)
           z == m - i - 2
<1>1. Len(s) \in Nat /\ i \in Nat /\ z \in Nat /\ z >= 1 /\ \A k \in i + 3..m : k \in 1..Len(s) OBVIOUS
<1>2. Z \in Seq(STRING) /\ Len(Z) = z /\ \A k \in 1..z : Z[k] = s[i + 2 + k]
  <2>1. \A k \in i + 3..m : s[k] \in STRING BY <1>1
  <2>2. i + 3 \in Int /\ m \in Int BY <1>1
  <2>3. /\ SubSeq(s, i + 3, m) \in Seq(STRING)
        /\ Len(SubSeq(s, i + 3, m)) = (IF i + 3 <= m THEN m - (i + 3) + 1 ELSE 0)
        /\ \A k \in 1..m - (i + 3) + 1 : SubSeq(s, i + 3, m)[k] = s[(i + 3) + k - 1]
    BY <2>1, <2>2, SubSeqProperties
  <2>4. m - (i + 3) + 1 = z /\ \A k \in 1..z : (i + 3) + k - 1 = i + 2 + k BY <1>1
  <2>5. QED BY <2>3, <2>4
<1> HIDE DEF Z
<1>3. Z # << >> BY <1>1, <1>2
<1>4. Head(Z) = Z[1] BY <1>2, <1>3
<1>5. Z[1] = s[i + 3]
  <2>1. 1 \in 1..z /\ i + 2 + 1 = i + 3 BY <1>1
  <2> HIDE DEF z
  <2>2. QED BY <1>2, <2>1
<1>6. \A k \in 1..z - 1 : Z[k] = s[i + 2 + k] /\ Z[k + 1] = s[i + 2 + k + 1]
  <2> TAKE k \in 1..z - 1
  <2>1. k \in 1..z /\ k + 1 \in 1..z /\ i + 2 + (k + 1) = i + 2 + k + 1 BY <1>1
  <2>2. Z[k + 1] = s[i + 2 + (k + 1)] BY <1>2, <2>1
  <2>3. QED BY <1>2, <2>1, <2>2
<1>7. Hyphens(Z) = {} <=> \A k \in 1..z - 1 : ~(s[i + 2 + k] = "-" /\ s[i + 2 + k + 1] = "-")
  <2>1. Hyphens(Z) = {k \in 1..z - 1 : Z[k] = "-" /\ Z[k + 1] = "-"} BY <1>2 DEF Hyphens
  <2> HIDE DEF z
  <2>2. QED BY <1>6, <2>1
<1>8. (\A k \in 1..z - 1 : ~(s[i + 2 + k] = "-" /\ s[i + 2 + k + 1] = "-"))
        <=> ~\E k \in i + 3..m - 1 : s[k] = "-" /\ s[k + 1] = "-"
  <2>1. \A k \in 1..z - 1 : i + 2 + k \in i + 3..m - 1 BY <1>1
  <2>2. \A k \in i + 3..m - 1 : k - i - 2 \in 1..z - 1 /\ i + 2 + (k - i - 2) = k BY <1>1
  <2> HIDE DEF z
  <2>3. ASSUME NEW k \in 1..z - 1, s[i + 2 + k] = "-" /\ s[i + 2 + k + 1] = "-"
        PROVE  \E j \in i + 3..m - 1 : s[j] = "-" /\ s[j + 1] = "-"
    BY <2>1, <2>3
  <2>4. ASSUME NEW j \in i + 3..m - 1, s[j] = "-" /\ s[j + 1] = "-"
        PROVE  \E k \in 1..z - 1 : s[i + 2 + k] = "-" /\ s[i + 2 + k + 1] = "-"
    BY <2>2, <2>4
  <2>5. QED BY <2>3, <2>4
<1>9. QED BY <1>3, <1>4, <1>5, <1>7, <1>8 DEF Z

\* The grammar's condition at one place
LEMMA ZoneAtIs ==
  ASSUME NEW s \in Seq(STRING), NEW i \in 1..Len(s), NEW m \in Int, m = Len(s) - Len(DirectorySuffix)
  PROVE  (/\ Composed(s, i, m)
          /\ SubSeq(s, i + 3, m) # << >> /\ Head(SubSeq(s, i + 3, m)) # "-"
          /\ Hyphens(SubSeq(s, i + 3, m)) = {})
           <=> EndsWith(s, m) /\ ZoneAt(s, m, i)
<1> DEFINE S == STRING \cup {"-"}
           Z == SubSeq(s, i + 3, m)
<1>1. s \in Seq(S) /\ DirectorySuffix \in Seq(S) /\ "-" \in S
  <2>1. STRING \subseteq S /\ "-" \in S OBVIOUS
  <2>2. DirectorySuffix \in Seq(STRING) BY LiteralsAssumption DEF LiteralsAssumption
  <2> HIDE DEF S
  <2>3. QED BY <2>1, <2>2, SeqMonotonic
<1>2. Len(DirectorySuffix) \in Nat /\ Len(s) \in Nat /\ m <= Len(s)
  BY LiteralsAssumption DEF LiteralsAssumption
<1>3. CASE i + 3 <= m
  <2>1. Composed(s, i, m) <=> s[i + 1] = "-" /\ s[i + 2] = "-" /\ EndsWith(s, m)
    <3> HIDE DEF S, Z
    <3>1. QED BY <1>1, <1>3, NameIs
  <2>2. /\ Z # << >> /\ Head(Z) = s[i + 3]
        /\ Hyphens(Z) = {} <=> ~\E k \in i + 3..m - 1 : s[k] = "-" /\ s[k + 1] = "-"
    BY <1>2, <1>3, ZoneIs
  <2> HIDE DEF Z
  <2>3. (s[i + 3] # "-" /\ ~\E k \in i + 3..m - 1 : s[k] = "-" /\ s[k + 1] = "-")
          <=> s[i + 3] # "-" /\ \A k \in Pairs(s, m) : k <= i + 1
    <3>1. ASSUME s[i + 3] # "-", ~\E k \in i + 3..m - 1 : s[k] = "-" /\ s[k + 1] = "-"
          PROVE  \A k \in Pairs(s, m) : k <= i + 1
      <4> SUFFICES ASSUME NEW k \in Pairs(s, m), ~(k <= i + 1) PROVE FALSE OBVIOUS
      <4>1. k \in 1..m - 1 /\ s[k] = "-" /\ s[k + 1] = "-" BY DEF Pairs
      <4>2. k = i + 2 \/ k \in i + 3..m - 1 BY <1>2, <4>1
      <4>3. k = i + 2 => k + 1 = i + 3 BY <1>2
      <4>4. QED BY <3>1, <4>1, <4>2, <4>3
    <3>2. ASSUME \A k \in Pairs(s, m) : k <= i + 1, NEW k \in i + 3..m - 1, s[k] = "-", s[k + 1] = "-"
          PROVE  FALSE
      <4>1. k \in 1..m - 1 /\ ~(k <= i + 1) BY <1>2
      <4>2. k \in Pairs(s, m) BY <3>2, <4>1 DEF Pairs
      <4>3. QED BY <3>2, <4>1, <4>2
    <3>3. QED BY <3>1, <3>2
  <2>4. QED BY <1>3, <2>1, <2>2, <2>3 DEF ZoneAt, Z
<1>4. CASE ~(i + 3 <= m)
  <2>1. i + 3 \in Int /\ m < i + 3 BY <1>2, <1>4
  <2>2. Z = << >> BY <2>1, SubSeqEmpty
  <2>3. QED BY <1>4, <2>2 DEF ZoneAt
<1>5. QED BY <1>3, <1>4

LEMMA Largest ==
  ASSUME NEW m \in Int, NEW S \in SUBSET (1..m), S # {}
  PROVE  Max(S) \in S /\ \A y \in S : y <= Max(S)
<1> DEFINE T == {m - k : k \in S}
<1>1. T \in SUBSET Nat /\ T # {}
  <2>1. \A k \in S : m - k \in Nat OBVIOUS
  <2>2. QED BY <2>1
<1>2. PICK a \in T : \A b \in T : a <= b
  <2> HIDE DEF T
  <2>1. QED BY <1>1, Least
<1>3. PICK x \in S : a = m - x OBVIOUS
<1>4. \A y \in S : x >= y
  <2> TAKE y \in S
  <2>1. m - x <= m - y BY <1>2, <1>3
  <2>2. x \in Int /\ y \in Int OBVIOUS
  <2>3. QED BY <2>1, <2>2
<1>5. Max(S) \in S /\ \A y \in S : Max(S) >= y
  <2>1. Max(S) = CHOOSE z \in S : \A y \in S : z >= y BY DEF Max
  <2> HIDE DEF T
  <2>2. QED BY <1>4, <2>1
<1>6. \A y \in S : y \in Int OBVIOUS
<1> HIDE DEF T
<1>7. QED BY <1>5, <1>6

\* The last pair of hyphens in the name without its suffix is neither at the
\* start nor at the end just when a zone follows some pair.
LEMMA LastPair ==
  ASSUME NEW s \in Seq(STRING), NEW m \in Int, m <= Len(s)
  PROVE  (Pairs(s, m) # {} /\ Max(Pairs(s, m)) > 1 /\ Max(Pairs(s, m)) + 1 # m)
           <=> \E i \in 1..Len(s) : ZoneAt(s, m, i)
<1> DEFINE P == Pairs(s, m)
           k == Max(P)
<1>1. P \in SUBSET (1..m - 1) /\ m - 1 \in Int /\ Len(s) \in Nat BY DEF Pairs
<1>2. P # {} => k \in P /\ \A y \in P : y <= k
  <2> HIDE DEF P
  <2>1. QED BY <1>1, Largest
<1>3. ASSUME P # {}, k > 1, k + 1 # m PROVE \E i \in 1..Len(s) : ZoneAt(s, m, i)
  <2>1. k \in 1..m - 1 /\ s[k] = "-" /\ s[k + 1] = "-" BY <1>2, <1>3 DEF Pairs
  <2>2. PICK j : j = k OBVIOUS
  <2> HIDE DEF k, P
  <2>3. /\ j \in 1..m - 1 /\ s[j] = "-" /\ s[j + 1] = "-" /\ j > 1 /\ j + 1 # m
        /\ \A y \in P : y <= j
    BY <1>2, <1>3, <2>1, <2>2
  <2> DEFINE i == j - 1
  <2>4. i \in 1..Len(s) /\ i + 3 <= m /\ i + 1 = j /\ i + 2 = j + 1 /\ i + 3 = j + 2 BY <1>1, <2>3
  <2>5. s[j + 2] # "-"
    <3> SUFFICES ASSUME s[j + 2] = "-" PROVE FALSE OBVIOUS
    <3>1. j + 1 \in 1..m - 1 /\ j + 1 + 1 = j + 2 /\ ~(j + 1 <= j) BY <2>3, <2>4
    <3>2. j + 1 \in P BY <2>3, <3>1 DEF P, Pairs
    <3>3. QED BY <2>3, <3>1, <3>2
  <2> HIDE DEF i
  <2>6. ZoneAt(s, m, i) BY <2>3, <2>4, <2>5 DEF ZoneAt, P
  <2>7. QED BY <2>4, <2>6
<1>4. ASSUME NEW i \in 1..Len(s), ZoneAt(s, m, i) PROVE P # {} /\ k > 1 /\ k + 1 # m
  <2>1. /\ i + 3 <= m /\ s[i + 1] = "-" /\ s[i + 2] = "-"
        /\ \A y \in P : y <= i + 1
    BY <1>4 DEF ZoneAt
  <2>2. i + 1 \in 1..m - 1 /\ i + 1 + 1 = i + 2 BY <1>1, <2>1
  <2>3. i + 1 \in P BY <2>1, <2>2 DEF Pairs
  <2> HIDE DEF k, P
  <2>4. k \in P /\ i + 1 <= k /\ k <= i + 1 BY <1>2, <2>1, <2>3
  <2>5. k \in Int BY <1>1, <2>4
  <2>6. k = i + 1 BY <2>4, <2>5
  <2>7. QED BY <2>1, <2>3, <2>6
<1>5. QED BY <1>3, <1>4

LEMMA DirectoryNames ==
  ASSUME NEW s \in Seq(STRING)
  PROVE  ValidDirectoryName(s) <=> TrueDirectoryName(s)
<1> DEFINE m == Len(s) - Len(DirectorySuffix)
           rest == SubSeq(s, 1, m)
           separator == IF Hyphens(rest) = {} THEN 0 ELSE Max(Hyphens(rest))
           Zone(i) == /\ Composed(s, i, m)
                      /\ SubSeq(s, i + 3, m) # << >> /\ Head(SubSeq(s, i + 3, m)) # "-"
                      /\ Hyphens(SubSeq(s, i + 3, m)) = {}
<1>1. Len(DirectorySuffix) \in Nat /\ Len(s) \in Nat /\ m \in Int /\ m <= Len(s)
  BY LiteralsAssumption DEF LiteralsAssumption
<1>2. IsSuffix(DirectorySuffix, s) <=> EndsWith(s, m) BY SuffixIs
<1>3. EndsWith(s, m) => Len(rest) = m /\ Hyphens(rest) = Pairs(s, m)
  <2> SUFFICES ASSUME EndsWith(s, m) PROVE Len(rest) = m /\ Hyphens(rest) = Pairs(s, m) OBVIOUS
  <2>1. m >= 0 BY DEF EndsWith
  <2>2. \A k \in 1..m : k \in 1..Len(s) BY <1>1
  <2>3. \A k \in 1..m : s[k] \in STRING BY <2>2
  <2> HIDE DEF m
  <2>4. /\ Len(rest) = (IF 1 <= m THEN m - 1 + 1 ELSE 0)
        /\ \A k \in 1..m - 1 + 1 : rest[k] = s[1 + k - 1]
    BY <1>1, <2>3, SubSeqProperties
  <2>5. Len(rest) = m BY <1>1, <2>1, <2>4
  <2>6. \A k \in 1..m - 1 : k \in 1..m - 1 + 1 /\ k + 1 \in 1..m - 1 + 1 /\ 1 + k - 1 = k /\ 1 + (k + 1) - 1 = k + 1
    BY <1>1
  <2>7. \A k \in 1..m - 1 : rest[k] = s[k] /\ rest[k + 1] = s[k + 1] BY <2>4, <2>6
  <2> HIDE DEF rest
  <2>8. QED BY <2>5, <2>7 DEF Hyphens, Pairs
<1>4. ValidDirectoryName(s) <=>
        /\ Bounded(s) /\ AllIn(s, Alnum \cup {"-"}) /\ EndsWith(s, m)
        /\ separator > 1 /\ separator + 1 # Len(rest)
  <2>1. ValidDirectoryName(s) <=>
          /\ Bounded(s) /\ AllIn(s, Alnum \cup {"-"}) /\ IsSuffix(DirectorySuffix, s)
          /\ separator > 1 /\ separator + 1 # Len(rest)
    BY Zenon DEF ValidDirectoryName
  <2> HIDE DEF separator, rest, m
  <2>2. QED BY <1>2, <2>1, Zenon
<1>5. EndsWith(s, m) =>
        ((separator > 1 /\ separator + 1 # Len(rest)) <=> \E i \in 1..Len(s) : ZoneAt(s, m, i))
  <2> SUFFICES ASSUME EndsWith(s, m)
               PROVE  (separator > 1 /\ separator + 1 # Len(rest)) <=> \E i \in 1..Len(s) : ZoneAt(s, m, i)
    OBVIOUS
  <2>1. Len(rest) = m /\ separator = IF Pairs(s, m) = {} THEN 0 ELSE Max(Pairs(s, m)) BY <1>3
  <2> HIDE DEF separator, rest, m
  <2>2. (Pairs(s, m) # {} /\ Max(Pairs(s, m)) > 1 /\ Max(Pairs(s, m)) + 1 # m)
           <=> \E i \in 1..Len(s) : ZoneAt(s, m, i)
    BY <1>1, LastPair
  <2>3. ~(0 > 1) OBVIOUS
  <2>4. CASE Pairs(s, m) = {}
    <3>1. separator = 0 BY <2>1, <2>4
    <3>2. QED BY <2>2, <2>3, <2>4, <3>1
  <2>5. CASE Pairs(s, m) # {}
    <3>1. separator = Max(Pairs(s, m)) BY <2>1, <2>5
    <3>2. QED BY <2>1, <2>2, <2>5, <3>1
  <2>6. QED BY <2>4, <2>5
<1>6. TrueDirectoryName(s) <=>
        /\ Bounded(s) /\ AllIn(s, Alnum \cup {"-"}) /\ \E i \in 1..Len(s) : Zone(i)
  BY Zenon DEF TrueDirectoryName, Composed
<1>7. \A i \in 1..Len(s) : Zone(i) <=> EndsWith(s, m) /\ ZoneAt(s, m, i)
  <2> TAKE i \in 1..Len(s)
  <2> HIDE DEF m
  <2>1. m = Len(s) - Len(DirectorySuffix) BY DEF m
  <2>2. QED BY <1>1, <2>1, ZoneAtIs
<1> HIDE DEF m, rest, separator, Zone
<1>8. (\E i \in 1..Len(s) : Zone(i)) <=> EndsWith(s, m) /\ \E i \in 1..Len(s) : ZoneAt(s, m, i)
  BY <1>7, Zenon
<1>9. QED BY <1>4, <1>5, <1>6, <1>8, Zenon

-----------------------------------------------------------------------------
(* The checks that look at blocks at the top only *)

LEMMA TopBlocks ==
  ASSUME FileOK
  PROVE  Range(Blocks(<< >>)) = {q \in DOMAIN file : Len(q) = 1}
<1>1. << >> \in DOMAIN file /\ \A p \in DOMAIN file : p \in Seq(Nat) BY PositionsOK
<1>2. Len(<< >>) = 0 /\ 0 + 1 = 1 OBVIOUS
<1>3. Inner(file, << >>) = {q \in DOMAIN file : Len(q) = 1 /\ Prefix(q, 0) = << >>}
  BY <1>1, <1>2, InnerIs
<1>4. \A q \in DOMAIN file : Prefix(q, 0) = << >> BY <1>1, NoPrefix
<1>5. Range(Blocks(<< >>)) = Inner(file, << >>) BY <1>1, BlocksIs
<1>6. QED BY <1>3, <1>4, <1>5

LEMMA Buckets ==
  ASSUME FileOK
  PROVE  {q \in Range(Blocks(<< >>)) : /\ "bucket" \in DOMAIN file[q].attrs
                                       /\ BadBucket(file[q].attrs["bucket"], BucketKind(file[q]))}
           = WrongBuckets
<1>1. Range(Blocks(<< >>)) = {q \in DOMAIN file : Len(q) = 1} BY TopBlocks
<1>2. ASSUME NEW q \in DOMAIN file, "bucket" \in DOMAIN file[q].attrs
      PROVE  BadBucket(file[q].attrs["bucket"], BucketKind(file[q]))
               <=> /\ file[q].type = "resource"
                   /\ LET e == file[q].attrs["bucket"]
                      IN /\ Pure(e)
                         /\ \/ file[q].label = "aws_s3_bucket" /\ ~TrueBucketName(TextOf(e))
                            \/ file[q].label = "aws_s3_directory_bucket" /\ ~TrueDirectoryName(TextOf(e))
  <2> DEFINE e == file[q].attrs["bucket"]
             b == file[q]
  <2>1. IsExpression(e) BY <1>2 DEF FileOK, WellFormedConfig
  <2>2. Pure(e) => TextOf(e) \in Seq(STRING)
    <3> SUFFICES ASSUME Pure(e) PROVE TextOf(e) \in Seq(STRING) OBVIOUS
    <3>1. e.parts \in Seq(Part) /\ Len(e.parts) = 1
      BY <2>1 DEF Pure, IsExpression, IsParsed
    <3> DEFINE ps == e.parts
    <3>2. ps \in Seq(Part) /\ Len(ps) = 1 BY <3>1
    <3> HIDE DEF ps
    <3>3. ps[1] \in Part BY <3>2
    <3>4. ps[1].text \in Seq(STRING) BY <3>3, TextIs DEF Part
    <3>5. QED BY <3>4 DEF ps, TextOf
  <2>3. Pure(e) => /\ ValidBucketName(TextOf(e)) <=> TrueBucketName(TextOf(e))
                   /\ ValidDirectoryName(TextOf(e)) <=> TrueDirectoryName(TextOf(e))
    BY <2>2, BucketNames, DirectoryNames
  <2> HIDE DEF e, b
  <2>4. /\ BucketKind(b) = "general" <=> b.type = "resource" /\ b.label = "aws_s3_bucket"
        /\ BucketKind(b) = "directory" <=> b.type = "resource" /\ b.label = "aws_s3_directory_bucket"
    BY DEF BucketKind
  <2>5. BadBucket(e, BucketKind(b))
          <=> /\ b.type = "resource" /\ Pure(e)
              /\ \/ b.label = "aws_s3_bucket" /\ ~TrueBucketName(TextOf(e))
                 \/ b.label = "aws_s3_directory_bucket" /\ ~TrueDirectoryName(TextOf(e))
    BY <2>3, <2>4 DEF BadBucket
  <2>6. QED BY <2>5 DEF e, b
<1> DEFINE Wrong(q) == LET e == file[q].attrs["bucket"]
                       IN /\ Pure(e)
                          /\ \/ file[q].label = "aws_s3_bucket" /\ ~TrueBucketName(TextOf(e))
                             \/ file[q].label = "aws_s3_directory_bucket" /\ ~TrueDirectoryName(TextOf(e))
           Bads(q) == BadBucket(file[q].attrs["bucket"], BucketKind(file[q]))
<1>3. WrongBuckets = {q \in DOMAIN file : /\ Len(q) = 1 /\ file[q].type = "resource"
                                          /\ "bucket" \in DOMAIN file[q].attrs /\ Wrong(q)}
  BY Zenon DEF WrongBuckets
<1>4. \A q \in DOMAIN file : "bucket" \in DOMAIN file[q].attrs =>
        (Bads(q) <=> file[q].type = "resource" /\ Wrong(q))
  BY <1>2
<1>5. {q \in Range(Blocks(<< >>)) : "bucket" \in DOMAIN file[q].attrs /\ Bads(q)}
        = {q \in DOMAIN file : /\ Len(q) = 1 /\ file[q].type = "resource"
                               /\ "bucket" \in DOMAIN file[q].attrs /\ Wrong(q)}
  <2> HIDE DEF Wrong, Bads
  <2>1. QED BY <1>1, <1>4
<1>6. QED BY <1>3, <1>5

LEMMA Typos ==
  ASSUME FileOK
  PROVE  UNION {{<<"E210", q, "", 0>> : q \in {q \in Range(Blocks(b)) : Typo(file[b], file[q])}} :
                  b \in Range(Blocks(<< >>))}
           = Called("E210")
<1> DEFINE Top == {b \in DOMAIN file : Len(b) = 1}
           Misspelt(b) == {q \in Inner(file, b) : Typo(file[b], file[q])}
           All == {p \in DOMAIN file : Len(p) = 2 /\ Typo(file[Front(p)], file[p])}
<1>1. Range(Blocks(<< >>)) = Top BY TopBlocks
<1>2. \A b \in Top : Range(Blocks(b)) = Inner(file, b) BY BlocksIs
<1>3. Called("E210") = {<<"E210", p, "", 0>> : p \in All} BY DEF Called
<1>4. UNION {{<<"E210", q, "", 0>> : q \in {q \in Range(Blocks(b)) : Typo(file[b], file[q])}} :
               b \in Range(Blocks(<< >>))}
        = UNION {{<<"E210", q, "", 0>> : q \in Misspelt(b)} : b \in Top}
  BY <1>1, <1>2
<1>5. \A q : q \in All <=> \E b \in Top : q \in Misspelt(b)
  <2>1. ASSUME NEW q \in DOMAIN file, Len(q) = 2
        PROVE  Front(q) \in Top /\ q \in Inner(file, Front(q))
    <3>1. Front(q) = Prefix(q, 1) BY <2>1 DEF Front, Prefix
    <3>2. q \in Seq(Nat) /\ 1 \in 0..Len(q) BY <2>1, PositionsOK
    <3>3. Prefix(q, 1) \in DOMAIN file BY <3>2, PrefixIn
    <3>4. Len(Prefix(q, 1)) = 1 BY <3>2, PrefixOf
    <3> DEFINE b == Prefix(q, 1)
    <3>5. b \in DOMAIN file /\ Len(b) = 1 /\ Prefix(q, 1) = b BY <3>3, <3>4
    <3> HIDE DEF b
    <3>6. Inner(file, b) = {r \in DOMAIN file : Len(r) = Len(b) + 1 /\ Prefix(r, Len(b)) = b}
      BY <3>5, InnerIs
    <3>8. Len(q) = Len(b) + 1 /\ Prefix(q, Len(b)) = b BY <2>1, <3>5
    <3>7. QED BY <3>1, <3>5, <3>6, <3>8, <2>1
  <2>2. ASSUME NEW b \in Top, NEW q \in Inner(file, b)
        PROVE  q \in DOMAIN file /\ Len(q) = 2 /\ Front(q) = b
    <3>1. q \in DOMAIN file /\ Len(q) = 1 + 1 /\ Prefix(q, 1) = b BY <2>2, InnerIs
    <3>2. Front(q) = Prefix(q, 1) BY <3>1 DEF Front, Prefix
    <3>3. QED BY <3>1, <3>2
  <2> HIDE DEF Top
  <2>3. QED BY <2>1, <2>2
<1> HIDE DEF Top, Misspelt, All
<1>6. UNION {{<<"E210", q, "", 0>> : q \in Misspelt(b)} : b \in Top} = {<<"E210", p, "", 0>> : p \in All}
  <2> DEFINE R(b) == {<<"E210", q, "", 0>> : q \in Misspelt(b)}
  <2>1. ASSUME NEW v \in UNION {R(b) : b \in Top} PROVE v \in {<<"E210", p, "", 0>> : p \in All}
    <3>1. PICK b \in Top : v \in R(b) BY <2>1
    <3>2. PICK q \in Misspelt(b) : v = <<"E210", q, "", 0>> BY <3>1
    <3>3. q \in All BY <1>5
    <3>4. QED BY <3>2, <3>3
  <2>2. ASSUME NEW p \in All PROVE <<"E210", p, "", 0>> \in UNION {R(b) : b \in Top}
    <3>1. PICK b \in Top : p \in Misspelt(b) BY <1>5
    <3>2. <<"E210", p, "", 0>> \in R(b) BY <3>1
    <3>3. QED BY <3>2
  <2>3. QED BY <2>1, <2>2
<1>7. QED BY <1>3, <1>4, <1>6

LEMMA TopKeeps ==
  ASSUME FamilyInv, work # << >>, Code \notin WalkCodes, violations' = violations \cup Called(Code),
         work' = << >>, UNCHANGED <<file, filter, next>>
  PROVE  FamilyInv'
<1>0. PICK c, n : c = Code /\ n = next - 1 OBVIOUS
<1>1. n \in 1..n /\ n \in 1..Len(Codes) /\ c = Codes[n] /\ FilterAllows(c) BY <1>0, CodeIs
<1>2. FileOK /\ Sound /\ Complete /\ next \in 1..Len(Codes) + 1 BY DEF FamilyInv
<1>3. Code' = c /\ (next - 1)' = n BY <1>0 DEF Code
<1>4. /\ FileOK' /\ (next \in 1..Len(Codes) + 1)'
      /\ \A d : Called(d)' = Called(d) /\ (FilterAllows(d)' <=> FilterAllows(d))
  BY <1>2, SameFile
<1>5. WorkOK'
  <2>1. (work \in Seq([at : DOMAIN file, aws : BOOLEAN]))' BY EmptySeq
  <2>2. (DOMAIN work)' = {} OBVIOUS
  <2>3. QED BY <2>1, <2>2 DEF WorkOK
<1>6. Sound'
  <2>1. \A v \in violations' : \E i \in 1..n : FilterAllows(Codes[i]) /\ v \in Called(Codes[i])
    BY <1>0, <1>1, <1>2 DEF Sound
  <2>2. \A v \in violations' : \E i \in 1..n : FilterAllows(Codes[i])' /\ v \in Called(Codes[i])'
    BY <1>4, <2>1
  <2>3. QED BY <1>3, <2>2 DEF Sound
<1>7. Complete'
  <2>1. \A i \in 1..n : FilterAllows(Codes[i]) => \A v \in Called(Codes[i]) : v \in violations'
    BY <1>0, <1>1, <1>2 DEF Complete
  <2>2. \A i \in 1..n : FilterAllows(Codes[i])' => \A v \in Called(Codes[i])' : v \in violations'
    BY <1>4, <2>1
  <2>3. QED BY <1>3, <2>2 DEF Complete
<1>8. QED BY <1>4, <1>5, <1>6, <1>7 DEF FamilyInv

-----------------------------------------------------------------------------
(* The invariant *)

LEMMA FamilyStarts == FamilyInit => FamilyInv
<1> SUFFICES ASSUME FamilyInit PROVE FamilyInv OBVIOUS
<1>1. PICK c \in Configs : file \in c.files BY DEF FamilyInit
<1>2. FileOK BY <1>1, ConfigsAssumption DEF ConfigsAssumption, FileOK
<1>3. next = 1 /\ work = << >> /\ violations = {} BY DEF FamilyInit, FamilyStart
<1>4. next \in 1..Len(Codes) + 1 /\ 1..next - 1 = {} BY <1>3 DEF Codes
<1>5. WorkOK
  <2>1. DOMAIN work = {} BY <1>3
  <2>2. work \in Seq([at : DOMAIN file, aws : BOOLEAN]) BY <1>3, EmptySeq
  <2>3. QED BY <1>3, <2>1, <2>2 DEF WorkOK
<1>6. Sound /\ Complete BY <1>3, <1>4 DEF Sound, Complete
<1>7. QED BY <1>2, <1>4, <1>5, <1>6 DEF FamilyInv

LEMMA BeginKeeps ==
  ASSUME FamilyInv, BeginCheck
  PROVE  FamilyInv'
<1>0. PICK n, c : n = next /\ c = Codes[n] OBVIOUS
<1>1. /\ work = << >> /\ next <= Len(Codes) /\ next' = next + 1
      /\ work' = IF FilterAllows(Codes[next]) THEN <<Visit(<< >>, FALSE)>> ELSE << >>
      /\ violations' = violations
      /\ UNCHANGED <<file, filter>>
  BY DEF BeginCheck
<1>2. FileOK /\ Sound /\ Complete /\ next \in 1..Len(Codes) + 1 BY DEF FamilyInv
<1>3. Len(Codes) = 6 /\ DOMAIN Codes = 1..6 BY DEF Codes
<1>4. n \in 1..6 /\ next' = n + 1 /\ (next - 1)' = n BY <1>0, <1>1, <1>2, <1>3
<1>5. Code' = c BY <1>0, <1>4 DEF Code
<1>6. /\ FileOK'
      /\ \A d : Called(d)' = Called(d) /\ (FilterAllows(d)' <=> FilterAllows(d))
      /\ \A d, w : ItemOK(d, w)' <=> ItemOK(d, w)
  BY <1>1, <1>2, SameFile
<1>7. (next \in 1..Len(Codes) + 1)' BY <1>3, <1>4 DEF Codes
<1>8. << >> \in DOMAIN file /\ \A p \in DOMAIN file : p \in Seq(Nat) BY <1>2, PositionsOK
<1> DEFINE top == Visit(<< >>, FALSE)
<1>9. DOMAIN top = {"at", "aws"} /\ top.at = << >> /\ top.aws = FALSE BY DEF Visit
<1>10. top \in [at : DOMAIN file, aws : BOOLEAN] BY <1>8 DEF Visit
<1> HIDE DEF top
<1>11. ItemOK(c, top)
  <2>1. \A types : ~Within(<< >>, types) BY AtTheTop
  <2>2. ~AwsScope(<< >>) BY AtTheTop
  <2>3. QED BY <1>8, <1>9, <2>1, <2>2 DEF ItemOK
<1>12. /\ FilterAllows(c) => work' = <<top>>
       /\ ~FilterAllows(c) => work' = << >>
  BY <1>0, <1>1 DEF top
<1>13. WorkOK'
  <2>1. CASE FilterAllows(c)
    <3>1. work' = <<top>> /\ DOMAIN <<top>> = {1} /\ <<top>>[1] = top BY <1>12, <2>1
    <3>2. (work \in Seq([at : DOMAIN file, aws : BOOLEAN]))'
      <4> DEFINE W == [at : DOMAIN file, aws : BOOLEAN]
      <4>1. W' = W BY <1>1
      <4>2. top \in W BY <1>10
      <4> HIDE DEF W
      <4>3. <<top>> \in Seq(W) BY <4>2
      <4>4. work' \in Seq(W') BY <3>1, <4>1, <4>3
      <4>5. QED BY <4>4 DEF W
    <3>3. \A i \in DOMAIN work' : ItemOK(Code, work[i])'
      <4> TAKE i \in DOMAIN work'
      <4>1. work'[i] = top BY <3>1
      <4>2. PICK w : w = top OBVIOUS
      <4>3. ItemOK(c, w)' BY <1>6, <1>11, <4>2
      <4>4. QED BY <1>5, <4>1, <4>2, <4>3
    <3>4. FilterAllows(c)' BY <1>6, <2>1
    <3>5. (next > 1 /\ FilterAllows(Code))' BY <1>4, <1>5, <3>4
    <3>6. QED BY <3>2, <3>3, <3>5 DEF WorkOK
  <2>2. CASE ~FilterAllows(c)
    <3>1. work' = << >> /\ DOMAIN work' = {} BY <1>12, <2>2
    <3>2. (work \in Seq([at : DOMAIN file, aws : BOOLEAN]))' BY <3>1, EmptySeq
    <3>3. QED BY <3>1, <3>2 DEF WorkOK
  <2>3. QED BY <2>1, <2>2
<1>14. \A i : i \in 1..n <=> i \in 1..next - 1 \/ i = n BY <1>0, <1>4
<1>15. Sound'
  <2>1. \A v \in violations' : \E i \in 1..n : FilterAllows(Codes[i]) /\ v \in Called(Codes[i])
    BY <1>1, <1>2, <1>14 DEF Sound
  <2>2. \A v \in violations' : \E i \in 1..n : FilterAllows(Codes[i])' /\ v \in Called(Codes[i])'
    BY <1>6, <2>1
  <2>3. QED BY <1>4, <2>2 DEF Sound
<1>16. \A p : ~Pending(p)
  <2>1. DOMAIN work = {} BY <1>1
  <2>2. QED BY <2>1 DEF Pending
<1>17. FilterAllows(c) => \A v \in Called(c) : Pending(v[2])'
  <2> SUFFICES ASSUME FilterAllows(c), NEW v \in Called(c) PROVE Pending(v[2])' OBVIOUS
  <2>1. c \in Range(Codes) BY <1>0, <1>3, <1>4 DEF Range
  <2>2. v[2] \in Seq(Nat) BY <1>8, <2>1, CalledAt
  <2>3. Under(v[2], top.at) BY <1>9, <2>2, AtTheTop
  <2>4. 1 \in DOMAIN work' /\ work'[1] = top BY <1>12
  <2>5. QED BY <2>3, <2>4 DEF Pending
<1>18. Complete'
  <2>1. \A i \in 1..n : FilterAllows(Codes[i]) =>
          \A v \in Called(Codes[i]) : v \in violations' \/ (i = n /\ Pending(v[2])')
    <3> SUFFICES ASSUME NEW i \in 1..n, FilterAllows(Codes[i]), NEW v \in Called(Codes[i])
                 PROVE  v \in violations' \/ (i = n /\ Pending(v[2])')
      OBVIOUS
    <3>1. CASE i \in 1..next - 1 BY <1>1, <1>2, <1>16, <3>1 DEF Complete
    <3>2. CASE i = n BY <1>0, <1>17, <3>2
    <3>3. QED BY <1>14, <3>1, <3>2
  <2>2. \A i \in 1..n : FilterAllows(Codes[i])' =>
          \A v \in Called(Codes[i])' : v \in violations' \/ (i = n /\ Pending(v[2])')
    BY <1>6, <2>1
  <2>3. QED BY <1>4, <2>2 DEF Complete
<1>19. QED BY <1>6, <1>7, <1>13, <1>15, <1>18 DEF FamilyInv

LEMMA FamilyNextKeeps == FamilyInv /\ [FamilyNext]_familyVars => FamilyInv'
<1> SUFFICES ASSUME FamilyInv, [FamilyNext]_familyVars PROVE FamilyInv' OBVIOUS
<1>1. CASE BeginCheck BY <1>1, BeginKeeps
<1>2. CASE WalkValues
  <2>1. work # << >> /\ Code \in {"E101", "E203"} BY <1>2 DEF WalkValues, Checking
  <2> DEFINE types == {"variable"}
             below == Passing(At, types)
             new == [i \in DOMAIN below |-> Visit(below[i], FALSE)]
  <2>2. Code \in WalkCodes /\ Code \notin AwsCodes BY <2>1 DEF WalkCodes, AwsCodes
  <2>3. /\ violations' = violations \cup Reports(Code, At)
        /\ work' = new \o Tail(work)
        /\ UNCHANGED <<file, filter, next>>
    BY <1>2 DEF WalkValues
  <2>4. Follows(new, types)
    <3>1. types = IF Code \in AwsCodes THEN {"variable", "module"} ELSE {"variable"} BY <2>2
    <3>2. new = [i \in DOMAIN below |-> Visit(below[i], IF Code \in AwsCodes THEN Scope(below[i]) ELSE FALSE)]
      BY <2>2, Zenon
    <3>3. QED BY <3>1, <3>2, Zenon DEF Follows
  <2> HIDE DEF new, types, below
  <2>5. violations' = violations \cup (IF Code \in AwsCodes /\ ~Head(work).aws THEN {} ELSE Reports(Code, At))
    BY <2>2, <2>3
  <2>6. QED BY <2>1, <2>2, <2>3, <2>4, <2>5, WalkKeeps
<1>3. CASE WalkAws
  <2>1. work # << >> /\ Code \in {"E201", "E202"} BY <1>3 DEF WalkAws, Checking
  <2> DEFINE types == {"variable", "module"}
             below == Passing(At, types)
             new == [i \in DOMAIN below |-> Visit(below[i], Scope(below[i]))]
  <2>2. Code \in WalkCodes /\ Code \in AwsCodes BY <2>1 DEF WalkCodes, AwsCodes
  <2>3. /\ violations' = violations \cup (IF Head(work).aws THEN Reports(Code, At) ELSE {})
        /\ work' = new \o Tail(work)
        /\ UNCHANGED <<file, filter, next>>
    BY <1>3 DEF WalkAws
  <2>4. Follows(new, types)
    <3>1. types = IF Code \in AwsCodes THEN {"variable", "module"} ELSE {"variable"} BY <2>2
    <3>2. new = [i \in DOMAIN below |-> Visit(below[i], IF Code \in AwsCodes THEN Scope(below[i]) ELSE FALSE)]
      BY <2>2, Zenon
    <3>3. QED BY <3>1, <3>2, Zenon DEF Follows
  <2> HIDE DEF new, types, below
  <2>5. violations' = violations \cup (IF Code \in AwsCodes /\ ~Head(work).aws THEN {} ELSE Reports(Code, At))
    BY <2>2, <2>3
  <2>6. QED BY <2>1, <2>2, <2>3, <2>4, <2>5, WalkKeeps
<1>4. ASSUME work # << >>, Code \in {"E204", "E210"} PROVE At = << >> /\ Code \notin WalkCodes /\ FileOK
  <2>1. Code \notin WalkCodes BY <1>4 DEF WalkCodes
  <2>2. ItemOK(Code, Head(work)) BY <1>4, CodeIs
  <2>3. QED BY <2>1, <2>2 DEF ItemOK, At, FamilyInv
<1>5. CASE CheckBuckets
  <2>1. work # << >> /\ Code = "E204" BY <1>5 DEF CheckBuckets, Checking
  <2>2. At = << >> /\ Code \notin WalkCodes /\ FileOK BY <1>4, <2>1
  <2>3. Called(Code) = {<<"E204", p, "bucket", 0>> : p \in WrongBuckets} BY <2>1 DEF Called
  <2>4. violations' = violations \cup {<<"E204", q, "bucket", 0>> : q \in WrongBuckets}
    <3>1. violations' = violations \cup
             {<<"E204", q, "bucket", 0>> : q \in
                {q \in Range(Blocks(At)) : /\ "bucket" \in DOMAIN file[q].attrs
                                           /\ BadBucket(file[q].attrs["bucket"], BucketKind(file[q]))}}
      BY <1>5 DEF CheckBuckets
    <3>2. {q \in Range(Blocks(At)) : /\ "bucket" \in DOMAIN file[q].attrs
                                     /\ BadBucket(file[q].attrs["bucket"], BucketKind(file[q]))} = WrongBuckets
      BY <2>2, Buckets
    <3>3. QED BY <3>1, <3>2, Zenon
  <2>5. work' = << >> /\ UNCHANGED <<file, filter, next>> BY <1>5 DEF CheckBuckets
  <2>6. QED BY <2>1, <2>2, <2>3, <2>4, <2>5, TopKeeps
<1>6. CASE CheckBlockTypos
  <2>1. work # << >> /\ Code = "E210" BY <1>6 DEF CheckBlockTypos, Checking
  <2>2. At = << >> /\ Code \notin WalkCodes /\ FileOK BY <1>4, <2>1
  <2>3. violations' = violations \cup Called(Code)
    <3>1. violations' = violations \cup
             UNION {{<<"E210", q, "", 0>> : q \in {q \in Range(Blocks(b)) : Typo(file[b], file[q])}} :
                      b \in Range(Blocks(At))}
      BY <1>6 DEF CheckBlockTypos
    <3>2. UNION {{<<"E210", q, "", 0>> : q \in {q \in Range(Blocks(b)) : Typo(file[b], file[q])}} :
                   b \in Range(Blocks(At))} = Called("E210")
      BY <2>2, Typos
    <3>3. QED BY <2>1, <3>1, <3>2, Zenon
  <2>4. work' = << >> /\ UNCHANGED <<file, filter, next>> BY <1>6 DEF CheckBlockTypos
  <2>5. QED BY <2>1, <2>2, <2>3, <2>4, TopKeeps
<1>7. CASE UNCHANGED familyVars
  <2>1. /\ file' = file /\ filter' = filter /\ next' = next /\ work' = work /\ violations' = violations
    BY <1>7 DEF familyVars
  <2>2. /\ FileOK' <=> FileOK
        /\ \A c : Called(c)' = Called(c) /\ (FilterAllows(c)' <=> FilterAllows(c))
        /\ \A c, w : ItemOK(c, w)' <=> ItemOK(c, w)
    BY <2>1, SameFile
  <2>3. PICK c, u : c = Code /\ u = work OBVIOUS
  <2>4. Code' = c /\ work' = u BY <2>1, <2>3 DEF Code
  <2>5. FileOK' /\ (next \in 1..Len(Codes) + 1)' BY <2>1, <2>2 DEF FamilyInv
  <2>6. WorkOK'
    <3>1. \A i \in DOMAIN u : ItemOK(c, u[i]) BY <2>3 DEF FamilyInv, WorkOK
    <3>2. \A i \in DOMAIN u : ItemOK(c, u[i])' BY <2>2, <3>1
    <3>3. \A i \in DOMAIN work' : ItemOK(Code, work[i])' BY <2>4, <3>2
    <3>4. work # << >> => next > 1 /\ FilterAllows(c) BY <2>3 DEF FamilyInv, WorkOK
    <3>5. (work # << >> => next > 1 /\ FilterAllows(Code))' BY <2>1, <2>2, <2>4, <3>4
    <3>6. (work \in Seq([at : DOMAIN file, aws : BOOLEAN]))' BY <2>1 DEF FamilyInv, WorkOK
    <3>7. QED BY <3>3, <3>5, <3>6 DEF WorkOK
  <2>7. Sound' BY <2>1, <2>2 DEF FamilyInv, Sound
  <2>8. \A p : Pending(p)' <=> Pending(p) BY <2>1 DEF Pending
  <2>9. Complete' BY <2>1, <2>2, <2>8 DEF FamilyInv, Complete
  <2>10. QED BY <2>5, <2>6, <2>7, <2>9 DEF FamilyInv
<1>8. QED BY <1>1, <1>2, <1>3, <1>5, <1>6, <1>7 DEF FamilyNext

LEMMA WhenFinished == FamilyInv => ReportsExact
<1> SUFFICES ASSUME FamilyInv, Finished
             PROVE  violations = UNION {Called(code) : code \in {c \in Range(Codes) : FilterAllows(c)}}
  BY DEF ReportsExact
<1>1. Len(Codes) = 6 /\ DOMAIN Codes = 1..6 BY DEF Codes
<1>2. work = << >> /\ next - 1 = 6 BY <1>1 DEF Finished, FamilyInv
<1>3. \A p : ~Pending(p)
  <2>1. DOMAIN work = {} BY <1>2
  <2>2. QED BY <2>1 DEF Pending
<1>4. \A c : c \in Range(Codes) <=> \E i \in 1..6 : c = Codes[i] BY <1>1 DEF Range
<1>5. \A v \in violations : \E i \in 1..6 : FilterAllows(Codes[i]) /\ v \in Called(Codes[i])
  BY <1>2 DEF FamilyInv, Sound
<1>6. \A i \in 1..6 : FilterAllows(Codes[i]) => \A v \in Called(Codes[i]) : v \in violations
  BY <1>2, <1>3 DEF FamilyInv, Complete
<1>7. \A v \in violations : v \in UNION {Called(c) : c \in {c \in Range(Codes) : FilterAllows(c)}}
  BY <1>4, <1>5
<1>8. \A v \in UNION {Called(c) : c \in {c \in Range(Codes) : FilterAllows(c)}} : v \in violations
  BY <1>4, <1>6
<1>9. QED BY <1>7, <1>8

\* When Run is through with a file, what its checks of values have reported is
\* what the codes of the filter call for, each in its places and no other: for
\* every file, however deep, every filter, and every name of a bucket
\* (checker/checks.go 229-246, cidr.go, arn.go, region.go, account_id.go,
\* s3_bucket.go).
THEOREM ReportsCorrect == FamilySpec => []ReportsExact
<1>1. FamilySpec => []FamilyInv BY FamilyStarts, FamilyNextKeeps, PTL DEF FamilySpec
<1>2. QED BY <1>1, WhenFinished, PTL

-----------------------------------------------------------------------------
(* Templates: what a text looks like for every value of its holes. *)

\* f[i] is what the first i sequences of ss come to, for i up to k.
Flattens(ss, f, k) ==
  /\ DOMAIN f = 0..k /\ f[0] = << >>
  /\ \A i \in 1..k : f[i] = f[i - 1] \o ss[i]

LEMMA SomeFlattens ==
  ASSUME NEW ss, NEW n \in Nat
  PROVE  \E f : Flattens(ss, f, n)
<1> DEFINE S == {k \in Nat : ~\E f : Flattens(ss, f, k)}
<1>1. S = {}
  <2> SUFFICES ASSUME S # {} PROVE FALSE OBVIOUS
  <2>1. PICK k \in S : \A j \in S : k <= j
    <3>1. S \in SUBSET Nat OBVIOUS
    <3> HIDE DEF S
    <3>2. QED BY <3>1, Least
  <2>2. k \in Nat /\ ~\E f : Flattens(ss, f, k) OBVIOUS
  <2>3. CASE k = 0
    <3> DEFINE f == [i \in 0..0 |-> << >>]
    <3>1. Flattens(ss, f, 0) BY DEF Flattens
    <3>2. QED BY <2>2, <2>3, <3>1
  <2>4. CASE k # 0
    <3>1. k - 1 \in Nat /\ ~(k <= k - 1) BY <2>2, <2>4
    <3>2. k - 1 \notin S BY <2>1, <3>1
    <3>3. PICK f : Flattens(ss, f, k - 1) BY <3>1, <3>2
    <3> DEFINE g == [i \in 0..k |-> IF i = k THEN f[k - 1] \o ss[k] ELSE f[i]]
    <3>4. DOMAIN g = 0..k /\ g[k] = f[k - 1] \o ss[k] /\ \A i \in 0..k - 1 : g[i] = f[i]
      <4>1. k \in 0..k /\ \A i \in 0..k - 1 : i \in 0..k /\ i # k BY <2>2, <2>4
      <4>2. QED BY <4>1
    <3> HIDE DEF g
    <3>5. \A i \in 1..k : i - 1 \in 0..k - 1 /\ (i # k => i \in 1..k - 1 /\ i \in 0..k - 1)
      BY <2>2, <2>4
    <3>6. \A i \in 1..k : g[i] = g[i - 1] \o ss[i] BY <3>3, <3>4, <3>5 DEF Flattens
    <3>7. g[0] = << >> BY <2>4, <3>1, <3>3, <3>4 DEF Flattens
    <3>8. Flattens(ss, g, k) BY <3>4, <3>6, <3>7 DEF Flattens
    <3>9. QED BY <2>2, <3>8
  <2>5. QED BY <2>3, <2>4
<1>2. QED BY <1>1

LEMMA FlattenTypes ==
  ASSUME NEW S, NEW n \in Nat, NEW ss \in [1..n -> Seq(S)], NEW f, Flattens(ss, f, n)
  PROVE  \A i \in 0..n : f[i] \in Seq(S)
<1> DEFINE B == {i \in 0..n : f[i] \notin Seq(S)}
<1>1. B = {}
  <2> SUFFICES ASSUME B # {} PROVE FALSE OBVIOUS
  <2>1. PICK k \in B : \A j \in B : k <= j
    <3>1. B \in SUBSET Nat OBVIOUS
    <3> HIDE DEF B
    <3>2. QED BY <3>1, Least
  <2>2. k \in 0..n /\ f[k] \notin Seq(S) OBVIOUS
  <2>3. k # 0
    <3>1. f[0] \in Seq(S) BY EmptySeq DEF Flattens
    <3>2. QED BY <2>2, <3>1
  <2>4. k - 1 \in 0..n /\ ~(k <= k - 1) /\ k \in 1..n BY <2>2, <2>3
  <2>5. f[k - 1] \in Seq(S) BY <2>1, <2>4
  <2>6. f[k] = f[k - 1] \o ss[k] /\ ss[k] \in Seq(S) BY <2>4 DEF Flattens
  <2>7. f[k] \in Seq(S) BY <2>5, <2>6, ConcatProperties
  <2>8. QED BY <2>2, <2>7
<1>2. QED BY <1>1

MeansFlatten(ss, h) ==
  h = [i \in 1..Len(ss) |-> IF i = 1 THEN ss[i] ELSE h[i - 1] \o ss[i]]

LEMMA FlattenIs ==
  ASSUME NEW S, NEW ss \in Seq(Seq(S)), NEW f, Flattens(ss, f, Len(ss))
  PROVE  FlattenSeq(ss) = f[Len(ss)]
<1> DEFINE n == Len(ss)
<1>1. n \in Nat /\ ss \in [1..n -> Seq(S)] OBVIOUS
<1>2. \A i \in 0..n : f[i] \in Seq(S) BY <1>1, FlattenTypes
<1>3. CASE n = 0
  <2>1. ss = << >> BY <1>3, EmptySeq
  <2>2. FlattenSeq(ss) = ss BY <1>3 DEF FlattenSeq
  <2>3. QED BY <1>3, <2>1, <2>2 DEF Flattens
<1>4. CASE n # 0
  <2> DEFINE h == CHOOSE g : MeansFlatten(ss, g)
  <2>1. FlattenSeq(ss) = h[n] BY <1>4 DEF FlattenSeq, MeansFlatten
  <2>2. MeansFlatten(ss, h)
    <3> DEFINE g == [i \in 1..n |-> f[i]]
    <3>1. \A i \in 1..n : g[i] = IF i = 1 THEN ss[i] ELSE g[i - 1] \o ss[i]
      <4> TAKE i \in 1..n
      <4>1. g[i] = f[i - 1] \o ss[i] BY DEF Flattens
      <4>2. CASE i = 1
        <5>1. i - 1 = 0 /\ ss[i] \in Seq(S) BY <1>1, <4>2
        <5>2. << >> \o ss[i] = ss[i] BY <5>1, ConcatEmptySeq
        <5>3. QED BY <4>1, <4>2, <5>1, <5>2 DEF Flattens
      <4>3. CASE i # 1
        <5>1. i - 1 \in 1..n BY <1>1, <4>3
        <5>2. g[i - 1] = f[i - 1] BY <5>1
        <5>3. QED BY <4>1, <4>3, <5>2
      <4>4. QED BY <4>2, <4>3
    <3>2. g = [i \in 1..n |-> g[i]] OBVIOUS
    <3> HIDE DEF g
    <3>3. g = [i \in 1..n |-> IF i = 1 THEN ss[i] ELSE g[i - 1] \o ss[i]] BY <3>1, <3>2
    <3>4. MeansFlatten(ss, g) BY <3>3 DEF MeansFlatten
    <3>5. QED BY <3>4
  <2> HIDE DEF h
  <2>3. \A i \in 1..n : h[i] = IF i = 1 THEN ss[i] ELSE h[i - 1] \o ss[i]
    <3>1. h = [i \in 1..n |-> IF i = 1 THEN ss[i] ELSE h[i - 1] \o ss[i]]
      BY <2>2 DEF MeansFlatten
    <3> HIDE DEF n
    <3>2. QED BY <3>1, Zenon
  <2> DEFINE B == {i \in 1..n : h[i] # f[i]}
  <2>4. B = {}
    <3> SUFFICES ASSUME B # {} PROVE FALSE OBVIOUS
    <3>1. PICK k \in B : \A j \in B : k <= j
      <4>1. B \in SUBSET Nat OBVIOUS
      <4> HIDE DEF B
      <4>2. QED BY <4>1, Least
    <3>2. k \in 1..n /\ h[k] # f[k] OBVIOUS
    <3>3. f[k] = f[k - 1] \o ss[k] BY <3>2 DEF Flattens
    <3>4. CASE k = 1
      <4>1. k - 1 = 0 /\ ss[k] \in Seq(S) BY <1>1, <3>2, <3>4
      <4>2. << >> \o ss[k] = ss[k] BY <4>1, ConcatEmptySeq
      <4>3. QED BY <2>3, <3>2, <3>3, <3>4, <4>1, <4>2 DEF Flattens
    <3>5. CASE k # 1
      <4>1. k - 1 \in 1..n /\ ~(k <= k - 1) BY <1>1, <3>2, <3>5
      <4>2. h[k - 1] = f[k - 1] BY <3>1, <4>1
      <4>3. QED BY <2>3, <3>2, <3>3, <3>5, <4>2
    <3>6. QED BY <3>4, <3>5
  <2>5. n \in 1..n BY <1>1, <1>4
  <2>6. QED BY <2>1, <2>4, <2>5
<1>5. QED BY <1>3, <1>4

\* What texts are made of; the provers know of no literal that it is a STRING.
Atoms == STRING \cup {Placeholder, "0"}

LEMMA AtomsAre ==
  /\ Placeholder \in Atoms /\ "0" \in Atoms /\ Placeholder # ":" /\ "0" # ":"
  /\ \A s \in Seq(STRING) : s \in Seq(Atoms)
<1>1. STRING \subseteq Atoms BY DEF Atoms
<1>2. \A s \in Seq(STRING) : s \in Seq(Atoms) BY <1>1, SeqMonotonic
<1>3. Placeholder # ":" BY DEF Placeholder
<1>4. QED BY <1>2, <1>3 DEF Atoms

\* In t the holes of c, which hold the placeholder x, have been filled with
\* atoms of A: o[p] is where the first p places of c end in t.
Copied(c, t, o, p) == o[p] = o[p - 1] + 1 /\ t[o[p]] = c[p]
Filled(t, o, p, A) == o[p - 1] <= o[p] /\ \A q \in o[p - 1] + 1..o[p] : t[q] \in A

Matches(c, t, H, x, o, A) ==
  /\ c \in Seq(Atoms) /\ t \in Seq(Atoms) /\ H \subseteq 1..Len(c)
  /\ o \in [0..Len(c) -> 0..Len(t)] /\ o[0] = 0 /\ o[Len(c)] = Len(t)
  /\ \A p \in 1..Len(c) \ H : Copied(c, t, o, p)
  /\ \A p \in H : c[p] = x /\ Filled(t, o, p, A)

LEMMA SingleIs ==
  ASSUME NEW S, NEW x \in S
  PROVE  <<x>> \in Seq(S) /\ Len(<<x>>) = 1 /\ <<x>>[1] = x
OBVIOUS

Agree(o, o2, n) == \A p \in 0..n : o2[p] = o[p]
MatchesIn(c, t, H, x, o, A, n) ==
  /\ \A p \in 1..n \ H : Copied(c, t, o, p)
  /\ \A p \in H : c[p] = x /\ Filled(t, o, p, A)

\* A longer text of which the first places are as they were.
LEMMA StillMatches ==
  ASSUME NEW c \in Seq(Atoms), NEW t \in Seq(Atoms), NEW H, NEW x, NEW o, NEW A, Matches(c, t, H, x, o, A),
         NEW v \in Seq(Atoms), NEW w \in Seq(Atoms), NEW o2,
         Agree(o, o2, Len(c))
  PROVE  MatchesIn(c \o v, t \o w, H, x, o2, A, Len(c))
<1>1. Len(c) \in Nat /\ Len(t) \in Nat /\ Len(v) \in Nat /\ Len(w) \in Nat OBVIOUS
<1>2. /\ \A p \in 1..Len(c) : (c \o v)[p] = c[p]
      /\ \A q \in 1..Len(t) : (t \o w)[q] = t[q]
  <2>1. IsJoin(c \o v, c, v) /\ IsJoin(t \o w, t, w) BY Joined
  <2>2. /\ \A p \in 1..Len(c) : p \in 1..Len(c) + Len(v) /\ p <= Len(c)
        /\ \A q \in 1..Len(t) : q \in 1..Len(t) + Len(w) /\ q <= Len(t)
    BY <1>1
  <2>3. QED BY <2>1, <2>2 DEF IsJoin
<1>3. \A p \in 1..Len(c) : /\ p \in 0..Len(c) /\ p - 1 \in 0..Len(c)
                           /\ o[p] \in 0..Len(t) /\ o[p - 1] \in 0..Len(t)
                           /\ o2[p] = o[p] /\ o2[p - 1] = o[p - 1]
  <2>1. \A p \in 1..Len(c) : p \in 0..Len(c) /\ p - 1 \in 0..Len(c) BY <1>1
  <2>2. QED BY <2>1 DEF Matches, Agree
<1>4. ASSUME NEW p \in 1..Len(c) \ H PROVE Copied(c \o v, t \o w, o2, p)
  <2>1. o[p] = o[p - 1] + 1 /\ t[o[p]] = c[p] BY DEF Matches, Copied
  <2>2. o[p] \in 1..Len(t) BY <1>1, <1>3, <2>1
  <2>3. QED BY <1>2, <1>3, <2>1, <2>2 DEF Copied
<1>5. ASSUME NEW p \in H PROVE (c \o v)[p] = x /\ Filled(t \o w, o2, p, A)
  <2>0. p \in 1..Len(c) BY DEF Matches
  <2>1. c[p] = x /\ o[p - 1] <= o[p] /\ \A q \in o[p - 1] + 1..o[p] : t[q] \in A
    BY DEF Matches, Filled
  <2>2. \A q \in o[p - 1] + 1..o[p] : q \in 1..Len(t) BY <1>1, <1>3, <2>0
  <2>3. \A q \in o[p - 1] + 1..o[p] : (t \o w)[q] \in A BY <1>2, <2>1, <2>2
  <2>4. QED BY <1>2, <1>3, <2>0, <2>1, <2>3 DEF Filled
<1>6. QED BY <1>4, <1>5 DEF MatchesIn

LEMMA MatchText ==
  ASSUME NEW c, NEW t, NEW H, NEW x, NEW o, NEW A, Matches(c, t, H, x, o, A), NEW w \in Seq(Atoms)
  PROVE  \E o2 : Matches(c \o w, t \o w, H, x, o2, A)
<1> DEFINE n == Len(c)
           m == Len(t)
           d == Len(w)
           o2 == [p \in 0..n + d |-> IF p <= n THEN o[p] ELSE m + (p - n)]
<1>1. /\ c \in Seq(Atoms) /\ t \in Seq(Atoms) /\ H \subseteq 1..n
      /\ o \in [0..n -> 0..m] /\ o[0] = 0 /\ o[n] = m
  BY DEF Matches
<1>2. n \in Nat /\ m \in Nat /\ d \in Nat BY <1>1
<1>3. /\ c \o w \in Seq(Atoms) /\ Len(c \o w) = n + d
      /\ t \o w \in Seq(Atoms) /\ Len(t \o w) = m + d
      /\ \A k \in 1..n + d : (c \o w)[k] = IF k <= n THEN c[k] ELSE w[k - n]
      /\ \A k \in 1..m + d : (t \o w)[k] = IF k <= m THEN t[k] ELSE w[k - m]
  <2>1. /\ c \o w \in Seq(Atoms) /\ IsJoin(c \o w, c, w)
        /\ t \o w \in Seq(Atoms) /\ IsJoin(t \o w, t, w)
    BY <1>1, Joined
  <2>2. QED BY <2>1 DEF IsJoin
<1>4. /\ \A p \in 0..n : p \in 0..n + d /\ p <= n
      /\ \A p \in n + 1..n + d : p \in 0..n + d /\ ~(p <= n)
  BY <1>2
<1>5. \A p \in 0..n : o2[p] = o[p] BY <1>4
<1>6. \A p \in n + 1..n + d : o2[p] = m + (p - n) BY <1>4
<1>7. DOMAIN o2 = 0..n + d OBVIOUS
<1>8. o2 = [p \in 0..n + d |-> o2[p]] OBVIOUS
<1> HIDE DEF o2
<1>9. o2 \in [0..n + d -> 0..m + d]
  <2>1. ASSUME NEW p \in 0..n + d PROVE o2[p] \in 0..m + d
    <3>1. CASE p \in 0..n
      <4>1. o[p] \in 0..m BY <1>1, <3>1
      <4>2. QED BY <1>2, <1>5, <3>1, <4>1
    <3>2. CASE p \notin 0..n
      <4>1. p \in n + 1..n + d BY <1>2, <3>2
      <4>2. m + (p - n) \in 0..m + d BY <1>2, <4>1
      <4>3. QED BY <1>6, <4>1, <4>2
    <3>3. QED BY <3>1, <3>2
  <2>2. QED BY <1>8, <2>1
<1>10. o2[0] = 0 /\ o2[n + d] = m + d
  <2>1. o2[0] = 0 BY <1>1, <1>2, <1>5
  <2>2. CASE d = 0 BY <1>1, <1>2, <1>5, <2>1, <2>2
  <2>3. CASE d # 0
    <3>1. n + d \in n + 1..n + d /\ m + (n + d - n) = m + d BY <1>2, <2>3
    <3>2. QED BY <1>6, <2>1, <3>1
  <2>4. QED BY <2>2, <2>3
<1>11. /\ \A p \in 1..n \ H : Copied(c \o w, t \o w, o2, p)
       /\ \A p \in H : (c \o w)[p] = x /\ Filled(t \o w, o2, p, A)
  <2> HIDE DEF n, m, d
  <2>1. Agree(o, o2, Len(c)) BY <1>5 DEF n, Agree
  <2>2. MatchesIn(c \o w, t \o w, H, x, o2, A, Len(c))
    BY <1>1, <2>1, StillMatches
  <2>3. QED BY <2>2 DEF n, MatchesIn
<1>12. ASSUME NEW p \in n + 1..n + d PROVE Copied(c \o w, t \o w, o2, p)
  <2>1. o2[p] = m + (p - n) BY <1>6
  <2>2. o2[p - 1] = m + (p - 1 - n)
    <3>1. CASE p = n + 1
      <4>1. p - 1 = n /\ m + (p - 1 - n) = m /\ n \in 0..n BY <1>2, <3>1
      <4>2. QED BY <1>1, <1>5, <4>1
    <3>2. CASE p # n + 1
      <4>1. p - 1 \in n + 1..n + d BY <1>2, <3>2
      <4>2. QED BY <1>6, <4>1
    <3>3. QED BY <3>1, <3>2
  <2>3. o2[p] = o2[p - 1] + 1 BY <1>2, <2>1, <2>2
  <2>4. m + (p - n) \in 1..m + d /\ ~(m + (p - n) <= m) /\ m + (p - n) - m = p - n BY <1>2
  <2>5. (t \o w)[m + (p - n)] = w[p - n] BY <1>3, <2>4
  <2>6. p \in 1..n + d /\ ~(p <= n) BY <1>2
  <2>7. (c \o w)[p] = w[p - n] BY <1>3, <2>6
  <2>8. QED BY <2>1, <2>3, <2>5, <2>7 DEF Copied
<1>13. H \subseteq 1..n + d BY <1>1, <1>2
<1>14. \A p \in 1..n + d \ H : p \in 1..n \ H \/ p \in n + 1..n + d BY <1>2
<1>15. Matches(c \o w, t \o w, H, x, o2, A)
  BY <1>3, <1>9, <1>10, <1>11, <1>12, <1>13, <1>14 DEF Matches
<1>16. QED BY <1>15

LEMMA MatchHole ==
  ASSUME NEW c, NEW t, NEW H, NEW x \in Atoms, NEW o, NEW A, A \subseteq Atoms, Matches(c, t, H, x, o, A),
         NEW w \in Seq(A)
  PROVE  \E o2 : Matches(c \o <<x>>, t \o w, H \cup {Len(c) + 1}, x, o2, A)
<1> DEFINE n == Len(c)
           m == Len(t)
           d == Len(w)
           o2 == [p \in 0..n + 1 |-> IF p <= n THEN o[p] ELSE m + d]
           K == H \cup {n + 1}
<1>1. /\ c \in Seq(Atoms) /\ t \in Seq(Atoms) /\ H \subseteq 1..n
      /\ o \in [0..n -> 0..m] /\ o[0] = 0 /\ o[n] = m
  BY DEF Matches
<1>2. n \in Nat /\ m \in Nat /\ d \in Nat BY <1>1
<1>3. /\ c \o <<x>> \in Seq(Atoms) /\ Len(c \o <<x>>) = n + 1
      /\ t \o w \in Seq(Atoms) /\ Len(t \o w) = m + d
      /\ (c \o <<x>>)[n + 1] = x
      /\ \A k \in 1..m + d : (t \o w)[k] = IF k <= m THEN t[k] ELSE w[k - m]
  <2>1. <<x>> \in Seq(Atoms) /\ Len(<<x>>) = 1 /\ <<x>>[1] = x BY SingleIs
  <2>2. w \in Seq(Atoms) BY SeqMonotonic
  <2>3. /\ c \o <<x>> \in Seq(Atoms) /\ IsJoin(c \o <<x>>, c, <<x>>)
        /\ t \o w \in Seq(Atoms) /\ IsJoin(t \o w, t, w)
    BY <1>1, <2>1, <2>2, Joined
  <2>4. n + 1 \in 1..n + 1 /\ ~(n + 1 <= n) /\ n + 1 - n = 1 BY <1>2
  <2>5. (c \o <<x>>)[n + 1] = <<x>>[n + 1 - n] BY <2>1, <2>3, <2>4 DEF IsJoin
  <2>6. QED BY <2>1, <2>3, <2>4, <2>5 DEF IsJoin
<1>4. /\ \A p \in 0..n : p \in 0..n + 1 /\ p <= n
      /\ n + 1 \in 0..n + 1 /\ ~(n + 1 <= n)
  BY <1>2
<1>5. \A p \in 0..n : o2[p] = o[p] BY <1>4
<1>6. o2[n + 1] = m + d BY <1>4
<1>8. o2 = [p \in 0..n + 1 |-> o2[p]] OBVIOUS
<1> HIDE DEF o2
<1>9. o2 \in [0..n + 1 -> 0..m + d]
  <2>1. ASSUME NEW p \in 0..n + 1 PROVE o2[p] \in 0..m + d
    <3>1. CASE p \in 0..n
      <4>1. o[p] \in 0..m BY <1>1, <3>1
      <4>2. QED BY <1>2, <1>5, <3>1, <4>1
    <3>2. CASE p \notin 0..n
      <4>1. p = n + 1 BY <1>2, <3>2
      <4>2. QED BY <1>2, <1>6, <4>1
    <3>3. QED BY <3>1, <3>2
  <2>2. QED BY <1>8, <2>1
<1>10. o2[0] = 0 BY <1>1, <1>2, <1>5
<1>11. /\ \A p \in 1..n \ H : Copied(c \o <<x>>, t \o w, o2, p)
       /\ \A p \in H : (c \o <<x>>)[p] = x /\ Filled(t \o w, o2, p, A)
  <2>1. <<x>> \in Seq(Atoms) BY SingleIs
  <2>2. w \in Seq(Atoms) BY SeqMonotonic
  <2> HIDE DEF n, m, d
  <2>3. Agree(o, o2, Len(c)) BY <1>5 DEF n, Agree
  <2>4. MatchesIn(c \o <<x>>, t \o w, H, x, o2, A, Len(c))
    BY <1>1, <2>1, <2>2, <2>3, StillMatches
  <2>5. QED BY <2>4 DEF n, MatchesIn
<1>12. Filled(t \o w, o2, n + 1, A)
  <2>1. n + 1 - 1 = n /\ n \in 0..n BY <1>2
  <2>2. o2[n + 1 - 1] = m /\ o2[n + 1] = m + d BY <1>1, <1>5, <1>6, <2>1
  <2>3. ASSUME NEW q \in m + 1..m + d PROVE (t \o w)[q] \in A
    <3>1. q \in 1..m + d /\ ~(q <= m) /\ q - m \in 1..d BY <1>2
    <3>2. w[q - m] \in A BY <3>1
    <3>3. QED BY <1>3, <3>1, <3>2
  <2>4. m <= m + d BY <1>2
  <2>5. QED BY <2>2, <2>3, <2>4 DEF Filled
<1>13. K \subseteq 1..n + 1
  <2>1. \A p \in 1..n : p \in 1..n + 1 BY <1>2
  <2>2. n + 1 \in 1..n + 1 BY <1>2
  <2>3. QED BY <1>1, <2>1, <2>2
<1>14. \A p \in 1..n + 1 \ K : p \in 1..n \ H BY <1>2
<1>15. \A p \in K : p \in H \/ p = n + 1 OBVIOUS
<1>16. \A p \in K : (c \o <<x>>)[p] = x /\ Filled(t \o w, o2, p, A)
  BY <1>3, <1>11, <1>12, <1>15
<1>17. Matches(c \o <<x>>, t \o w, K, x, o2, A)
  <2> HIDE DEF K
  <2>1. QED BY <1>3, <1>6, <1>9, <1>10, <1>11, <1>13, <1>14, <1>16 DEF Matches
<1>18. QED BY <1>17

Texts(parts, v) ==
  [i \in DOMAIN parts |-> IF Interpolation(parts, i) THEN v[i] ELSE parts[i].text]
Same(parts, w) == [i \in Interpolations(parts) |-> w]

LEMMA PartsAre ==
  ASSUME NEW parts \in Seq(Part)
  PROVE  /\ Len(parts) \in Nat /\ DOMAIN parts = 1..Len(parts)
         /\ \A i \in 1..Len(parts) : parts[i].text \in Seq(Atoms)
         /\ Interpolations(parts) = {i \in 1..Len(parts) : Interpolation(parts, i)}
<1>1. Len(parts) \in Nat /\ DOMAIN parts = 1..Len(parts) OBVIOUS
<1>2. \A i \in 1..Len(parts) : parts[i].text \in Seq(Atoms)
  <2> TAKE i \in 1..Len(parts)
  <2>1. parts[i] \in Part BY ElementOfSeq
  <2>2. parts[i].text \in Seq(STRING) BY <2>1, TextIs DEF Part
  <2>3. QED BY <2>2, AtomsAre
<1>3. QED BY <1>1, <1>2 DEF Interpolations

LEMMA TextsAre ==
  ASSUME NEW parts \in Seq(Part), NEW v, \A i \in Interpolations(parts) : v[i] \in Seq(Atoms)
  PROVE  /\ Texts(parts, v) \in Seq(Seq(Atoms)) /\ Len(Texts(parts, v)) = Len(parts)
         /\ Texts(parts, v) \in [1..Len(parts) -> Seq(Atoms)]
<1> DEFINE n == Len(parts)
           T == Texts(parts, v)
<1>1. /\ n \in Nat /\ DOMAIN parts = 1..n /\ \A i \in 1..n : parts[i].text \in Seq(Atoms)
      /\ \A i \in 1..n : Interpolation(parts, i) => i \in Interpolations(parts)
  BY PartsAre
<1>2. \A i \in 1..n : (IF Interpolation(parts, i) THEN v[i] ELSE parts[i].text) \in Seq(Atoms)
  BY <1>1
<1>3. T = [i \in 1..n |-> IF Interpolation(parts, i) THEN v[i] ELSE parts[i].text]
  BY <1>1 DEF Texts
<1> HIDE DEF T, n
<1>4. T \in [1..n -> Seq(Atoms)] BY <1>2, <1>3
<1>5. T \in Seq(Seq(Atoms)) /\ Len(T) = n
  <2> DEFINE S == Seq(Atoms)
  <2>1. T \in [1..n -> S] BY <1>4
  <2> HIDE DEF S
  <2>2. T \in Seq(S) /\ Len(T) = n BY <1>1, <2>1
  <2>3. QED BY <2>2 DEF S
<1>6. QED BY <1>4, <1>5 DEF T, n

LEMMA ComposeFills ==
  ASSUME NEW parts, NEW w
  PROVE  Compose(parts, w) = Fill(parts, Same(parts, w))
<1>1. [i \in DOMAIN parts |-> IF Interpolation(parts, i) THEN w ELSE parts[i].text]
        = [i \in DOMAIN parts |-> IF Interpolation(parts, i) THEN Same(parts, w)[i] ELSE parts[i].text]
  BY DEF Same, Interpolations
<1>2. QED BY <1>1 DEF Compose, Fill

LEMMA FillIs ==
  ASSUME NEW parts \in Seq(Part), NEW v, \A i \in Interpolations(parts) : v[i] \in Seq(Atoms),
         NEW f, Flattens(Texts(parts, v), f, Len(parts))
  PROVE  /\ Fill(parts, v) = f[Len(parts)]
         /\ \A i \in 0..Len(parts) : f[i] \in Seq(Atoms)
<1> DEFINE T == Texts(parts, v)
<1>1. T \in Seq(Seq(Atoms)) /\ Len(T) = Len(parts) /\ T \in [1..Len(parts) -> Seq(Atoms)]
  BY TextsAre
<1>2. Flattens(T, f, Len(T)) BY <1>1
<1>3. Fill(parts, v) = FlattenSeq(T) BY DEF Fill, Texts
<1>4. Len(parts) \in Nat BY PartsAre
<1> HIDE DEF T
<1>5. FlattenSeq(T) = f[Len(T)] BY <1>1, <1>2, FlattenIs
<1>6. Flattens(T, f, Len(parts)) BY <1>1, <1>2
<1>7. \A i \in 0..Len(parts) : f[i] \in Seq(Atoms) BY <1>1, <1>4, <1>6, FlattenTypes
<1>8. QED BY <1>1, <1>3, <1>5, <1>7

\* Where the placeholders are, f being what the first parts compose to
HolesIn(parts, f, k) == {Len(f[i]) : i \in {j \in Interpolations(parts) : j <= k}}
Holes(parts, f) == HolesIn(parts, f, Len(parts))

LEMMA Substituted ==
  ASSUME NEW parts \in Seq(Part), NEW x \in Atoms, NEW A, A \subseteq Atoms,
         NEW v, \A i \in Interpolations(parts) : v[i] \in Seq(A),
         NEW f, Flattens(Texts(parts, Same(parts, <<x>>)), f, Len(parts))
  PROVE  \E o : Matches(f[Len(parts)], Fill(parts, v), Holes(parts, f), x, o, A)
<1> DEFINE n == Len(parts)
           C == Texts(parts, Same(parts, <<x>>))
           T == Texts(parts, v)
           I == Interpolations(parts)
<1>1. n \in Nat /\ I = {i \in 1..n : Interpolation(parts, i)} /\ DOMAIN parts = 1..n
  BY PartsAre
<1>2. \A i \in I : v[i] \in Seq(Atoms)
  <2> TAKE i \in I
  <2>1. v[i] \in Seq(A) OBVIOUS
  <2>2. QED BY <2>1, SeqMonotonic
<1>3. \A i \in I : Same(parts, <<x>>)[i] = <<x>> BY DEF Same
<1>4. <<x>> \in Seq(Atoms) BY SingleIs
<1>5. \A i \in 0..n : f[i] \in Seq(Atoms) BY <1>3, <1>4, FillIs
<1>6. PICK g : Flattens(T, g, n) BY <1>1, SomeFlattens
<1>7. Fill(parts, v) = g[n] /\ \A i \in 0..n : g[i] \in Seq(Atoms) BY <1>2, <1>6, FillIs
<1>8. /\ \A i \in 1..n : i \in I => C[i] = <<x>> /\ T[i] = v[i]
      /\ \A i \in 1..n : i \notin I => C[i] = parts[i].text /\ T[i] = parts[i].text
  BY <1>1, <1>3 DEF Texts
<1>9. \A i \in 1..n : parts[i].text \in Seq(Atoms) BY PartsAre
<1>10. f[0] = << >> /\ g[0] = << >> /\ \A i \in 1..n : f[i] = f[i - 1] \o C[i] /\ g[i] = g[i - 1] \o T[i]
  BY <1>6 DEF Flattens
<1> DEFINE Right(k) == \E o : Matches(f[k], g[k], HolesIn(parts, f, k), x, o, A)
           B == {k \in 0..n : ~Right(k)}
<1> HIDE DEF C, T, n, Right, I
<1>11. B = {}
  <2> SUFFICES ASSUME B # {} PROVE FALSE OBVIOUS
  <2>1. PICK k \in B : \A j \in B : k <= j
    <3>1. B \in SUBSET Nat OBVIOUS
    <3> HIDE DEF B
    <3>2. QED BY <3>1, Least
  <2>2. k \in 0..n /\ ~Right(k) OBVIOUS
  <2>3. CASE k = 0
    <3> DEFINE o == [p \in 0..0 |-> 0]
    <3>1. HolesIn(parts, f, 0) = {} BY <1>1 DEF HolesIn, I
    <3>2. << >> \in Seq(Atoms) /\ Len(<< >>) = 0 BY EmptySeq
    <3>3. o \in [0..0 -> 0..0] /\ o[0] = 0 OBVIOUS
    <3> HIDE DEF o
    <3>4. Matches(<< >>, << >>, {}, x, o, A) BY <3>2, <3>3 DEF Matches
    <3>5. QED BY <1>10, <2>2, <2>3, <3>1, <3>4 DEF Right
  <2>4. CASE k # 0
    <3>1. k - 1 \in 0..n /\ ~(k <= k - 1) /\ k \in 1..n BY <1>1, <2>2, <2>4
    <3>2. Right(k - 1) BY <2>1, <3>1
    <3>3. PICK o : Matches(f[k - 1], g[k - 1], HolesIn(parts, f, k - 1), x, o, A)
      BY <3>2 DEF Right
    <3>4. f[k] = f[k - 1] \o C[k] /\ g[k] = g[k - 1] \o T[k] BY <1>10, <3>1
    <3>5. \A i \in I : i \in Nat BY <1>1
    <3>6. CASE k \in I
      <4>1. C[k] = <<x>> /\ T[k] = v[k] /\ v[k] \in Seq(A) BY <1>8, <3>1, <3>6 DEF I
      <4>2. PICK o2 : Matches(f[k - 1] \o <<x>>, g[k - 1] \o v[k],
                              HolesIn(parts, f, k - 1) \cup {Len(f[k - 1]) + 1}, x, o2, A)
        BY <3>3, <4>1, MatchHole
      <4>3. Len(f[k]) = Len(f[k - 1]) + 1
        <5>1. f[k - 1] \in Seq(Atoms) /\ <<x>> \in Seq(Atoms) /\ Len(<<x>>) = 1 BY <1>5, <3>1, SingleIs
        <5>2. Len(f[k - 1] \o <<x>>) = Len(f[k - 1]) + 1 BY <5>1, ConcatProperties
        <5>3. QED BY <3>4, <4>1, <5>2
      <4>4. \A i \in I : i <= k <=> i <= k - 1 \/ i = k BY <3>1, <3>5
      <4>5. HolesIn(parts, f, k) = HolesIn(parts, f, k - 1) \cup {Len(f[k])}
        BY <3>1, <3>6, <4>4 DEF HolesIn, I
      <4>6. Matches(f[k], g[k], HolesIn(parts, f, k), x, o2, A) BY <3>4, <4>1, <4>2, <4>3, <4>5
      <4>7. QED BY <2>2, <4>6 DEF Right
    <3>7. CASE k \notin I
      <4>1. C[k] = parts[k].text /\ T[k] = parts[k].text /\ parts[k].text \in Seq(Atoms)
        BY <1>8, <1>9, <3>1, <3>7
      <4>2. PICK o2 : Matches(f[k - 1] \o parts[k].text, g[k - 1] \o parts[k].text,
                              HolesIn(parts, f, k - 1), x, o2, A)
        BY <3>3, <4>1, MatchText
      <4>3. \A i \in I : i <= k <=> i <= k - 1 BY <3>1, <3>5, <3>7
      <4>4. HolesIn(parts, f, k) = HolesIn(parts, f, k - 1) BY <4>3 DEF HolesIn, I
      <4>5. Matches(f[k], g[k], HolesIn(parts, f, k), x, o2, A) BY <3>4, <4>1, <4>2, <4>4
      <4>6. QED BY <2>2, <4>5 DEF Right
    <3>8. QED BY <3>6, <3>7
  <2>5. QED BY <2>3, <2>4
<1>12. Right(n)
  <2>1. n \in 0..n BY <1>1
  <2>2. QED BY <1>11, <2>1
<1>13. QED BY <1>7, <1>12 DEF Right, Holes, n

LEMMA MatchTypes ==
  ASSUME NEW c, NEW t, NEW H, NEW x, NEW o, NEW A, Matches(c, t, H, x, o, A)
  PROVE  /\ Len(c) \in Nat /\ Len(t) \in Nat /\ DOMAIN c = 1..Len(c) /\ DOMAIN t = 1..Len(t)
         /\ \A p \in 0..Len(c) : o[p] \in 0..Len(t)
         /\ \A p \in 1..Len(c) : p \in 0..Len(c) /\ p - 1 \in 0..Len(c)
         /\ \A p \in 1..Len(c) \ H : o[p] = o[p - 1] + 1 /\ t[o[p]] = c[p] /\ o[p] \in 1..Len(t)
<1>1. c \in Seq(Atoms) /\ t \in Seq(Atoms) /\ o \in [0..Len(c) -> 0..Len(t)] BY DEF Matches
<1>2. Len(c) \in Nat /\ Len(t) \in Nat /\ DOMAIN c = 1..Len(c) /\ DOMAIN t = 1..Len(t) BY <1>1
<1>3. \A p \in 0..Len(c) : o[p] \in 0..Len(t) BY <1>1
<1>4. \A p \in 1..Len(c) : p \in 0..Len(c) /\ p - 1 \in 0..Len(c) BY <1>2
<1>5. ASSUME NEW p \in 1..Len(c) \ H
      PROVE  o[p] = o[p - 1] + 1 /\ t[o[p]] = c[p] /\ o[p] \in 1..Len(t)
  <2>1. o[p] = o[p - 1] + 1 /\ t[o[p]] = c[p] BY DEF Matches, Copied
  <2>2. o[p] \in 0..Len(t) /\ o[p - 1] \in 0..Len(t) BY <1>3, <1>4
  <2>3. QED BY <1>2, <2>1, <2>2
<1>6. QED BY <1>2, <1>3, <1>4, <1>5

LEMMA Ascends ==
  ASSUME NEW c, NEW t, NEW H, NEW x, NEW o, NEW A, Matches(c, t, H, x, o, A),
         NEW p \in 0..Len(c), NEW q \in 0..Len(c), p <= q
  PROVE  o[p] <= o[q]
<1> DEFINE n == Len(c)
           B == {k \in p..n : ~(o[p] <= o[k])}
<1>1. n \in Nat /\ Len(t) \in Nat /\ \A k \in 0..n : o[k] \in 0..Len(t) BY MatchTypes
<1>2. p \in Nat /\ q \in p..n BY <1>1
<1>3. B = {}
  <2> SUFFICES ASSUME B # {} PROVE FALSE OBVIOUS
  <2>1. PICK k \in B : \A j \in B : k <= j
    <3>1. B \in SUBSET Nat BY <1>1, <1>2
    <3> HIDE DEF B
    <3>2. QED BY <3>1, Least
  <2>2. k \in p..n /\ ~(o[p] <= o[k]) OBVIOUS
  <2>3. k # p BY <1>1, <1>2, <2>2
  <2>4. k - 1 \in p..n /\ ~(k <= k - 1) /\ k \in 1..n /\ k \in 0..n /\ k - 1 \in 0..n BY <1>1, <1>2, <2>2, <2>3
  <2>5. o[p] <= o[k - 1] BY <2>1, <2>4
  <2>6. o[k - 1] <= o[k]
    <3>1. CASE k \in H BY <3>1 DEF Matches, Filled
    <3>2. CASE k \notin H
      <4>1. o[k] = o[k - 1] + 1 BY <2>4, <3>2, MatchTypes
      <4>2. QED BY <1>1, <2>4, <4>1
    <3>3. QED BY <3>1, <3>2
  <2>7. o[p] \in Nat /\ o[k] \in Nat /\ o[k - 1] \in Nat BY <1>1, <2>4
  <2>8. QED BY <2>2, <2>5, <2>6, <2>7
<1>4. QED BY <1>2, <1>3

LEMMA Climbs ==
  ASSUME NEW c, NEW t, NEW H, NEW x, NEW o, NEW A, Matches(c, t, H, x, o, A),
         NEW p \in 0..Len(c), NEW q \in 1..Len(c) \ H, p < q
  PROVE  o[p] < o[q]
<1>1. Len(c) \in Nat /\ Len(t) \in Nat /\ \A k \in 0..Len(c) : o[k] \in 0..Len(t) BY MatchTypes
<1>2. q - 1 \in 0..Len(c) /\ p <= q - 1 BY <1>1
<1>3. o[p] <= o[q - 1] BY <1>2, Ascends
<1>4. o[q] = o[q - 1] + 1 BY MatchTypes
<1>5. o[p] \in Nat /\ o[q - 1] \in Nat BY <1>1, <1>2
<1>6. QED BY <1>3, <1>4, <1>5

\* An atom that no value has is one of the literal parts.
LEMMA CameFrom ==
  ASSUME NEW c, NEW t, NEW H, NEW x, NEW o, NEW A, Matches(c, t, H, x, o, A),
         NEW y \in 1..Len(t), t[y] \notin A
  PROVE  \E p \in 1..Len(c) \ H : o[p] = y
<1> DEFINE n == Len(c)
           S == {p \in 0..n : y <= o[p]}
<1>1. n \in Nat /\ Len(t) \in Nat /\ \A k \in 0..n : o[k] \in 0..Len(t) BY MatchTypes
<1>2. n \in S
  <2>1. o[n] = Len(t) BY DEF Matches
  <2>2. QED BY <1>1, <2>1
<1>3. PICK p \in S : \A j \in S : p <= j
  <2>1. S \in SUBSET Nat BY <1>1
  <2> HIDE DEF S
  <2>2. QED BY <1>2, <2>1, Least
<1>4. p \in 0..n /\ y <= o[p] OBVIOUS
<1>5. p # 0
  <2>1. o[0] = 0 BY DEF Matches
  <2>2. QED BY <1>1, <1>4, <2>1
<1>6. p \in 1..n /\ p - 1 \in 0..n /\ ~(p <= p - 1) BY <1>1, <1>4, <1>5
<1>7. ~(y <= o[p - 1]) BY <1>3, <1>6
<1>8. o[p] \in Nat /\ o[p - 1] \in Nat /\ y \in Nat BY <1>1, <1>6
<1>9. p \notin H
  <2> SUFFICES ASSUME p \in H PROVE FALSE OBVIOUS
  <2>1. \A q \in o[p - 1] + 1..o[p] : t[q] \in A BY DEF Matches, Filled
  <2>2. y \in o[p - 1] + 1..o[p] BY <1>4, <1>7, <1>8
  <2>3. QED BY <2>1, <2>2
<1>10. o[p] = o[p - 1] + 1 BY <1>6, <1>9, MatchTypes
<1>11. o[p] = y BY <1>4, <1>7, <1>8, <1>10
<1>12. QED BY <1>6, <1>9, <1>11

\* Between two places, without a hole
Run(s, a, e) == SubSeq(s, a + 1, e)
NoHole(H, a, e) == \A p \in a + 1..e : p \notin H

LEMMA CopiedRun ==
  ASSUME NEW c, NEW t, NEW H, NEW x, NEW o, NEW A, Matches(c, t, H, x, o, A),
         NEW a \in 0..Len(c), NEW e \in 0..Len(c), a <= e, NoHole(H, a, e)
  PROVE  Run(c, a, e) = Run(t, o[a], o[e])
<1> DEFINE n == Len(c)
           m == Len(t)
           B == {k \in a..e : o[k] # o[a] + (k - a)}
<1>1. n \in Nat /\ m \in Nat /\ \A k \in 0..n : o[k] \in 0..m BY MatchTypes
<1>2. a \in Nat /\ e \in Nat /\ o[a] \in 0..m /\ o[e] \in 0..m BY <1>1
<1>3. \A p \in a + 1..e : p \in 1..n /\ o[p] = o[p - 1] + 1 /\ t[o[p]] = c[p]
  <2> TAKE p \in a + 1..e
  <2>1. p \in 1..n /\ p \notin H BY <1>1, <1>2 DEF NoHole
  <2>2. QED BY <2>1, MatchTypes
<1>4. B = {}
  <2> SUFFICES ASSUME B # {} PROVE FALSE OBVIOUS
  <2>1. PICK k \in B : \A j \in B : k <= j
    <3>1. B \in SUBSET Nat BY <1>2
    <3> HIDE DEF B
    <3>2. QED BY <3>1, Least
  <2>2. k \in a..e /\ o[k] # o[a] + (k - a) OBVIOUS
  <2>3. k # a BY <1>2, <2>2
  <2>4. k - 1 \in a..e /\ ~(k <= k - 1) /\ k \in a + 1..e BY <1>2, <2>2, <2>3
  <2>5. o[k - 1] = o[a] + (k - 1 - a) BY <2>1, <2>4
  <2>6. o[k] = o[k - 1] + 1 BY <1>3, <2>4
  <2>7. QED BY <1>2, <2>2, <2>5, <2>6
<1>5. \A k \in a..e : o[k] = o[a] + (k - a) BY <1>4
<1> HIDE DEF B, n, m
<1>6. o[e] = o[a] + (e - a) BY <1>2, <1>5
<1>7. c \in Seq(Atoms) /\ t \in Seq(Atoms) BY DEF Matches
<1>8. /\ SubSeq(c, a + 1, e) \in Seq(Atoms) /\ Len(SubSeq(c, a + 1, e)) = e - a
      /\ \A k \in 1..e - a : SubSeq(c, a + 1, e)[k] = c[a + k]
  <2>1. \A k \in a + 1..e : c[k] \in Atoms BY <1>3, <1>7 DEF n
  <2>2. a + 1 \in Int /\ e \in Int BY <1>2
  <2>3. /\ SubSeq(c, a + 1, e) \in Seq(Atoms)
        /\ Len(SubSeq(c, a + 1, e)) = (IF a + 1 <= e THEN e - (a + 1) + 1 ELSE 0)
        /\ \A k \in 1..e - (a + 1) + 1 : SubSeq(c, a + 1, e)[k] = c[(a + 1) + k - 1]
    BY <2>1, <2>2, SubSeqProperties
  <2>4. e - (a + 1) + 1 = e - a /\ (~(a + 1 <= e) => e - a = 0) BY <1>2
  <2>5. \A k \in 1..e - a : (a + 1) + k - 1 = a + k BY <1>2
  <2>6. QED BY <2>3, <2>4, <2>5
<1>9. /\ SubSeq(t, o[a] + 1, o[e]) \in Seq(Atoms) /\ Len(SubSeq(t, o[a] + 1, o[e])) = e - a
      /\ \A k \in 1..e - a : SubSeq(t, o[a] + 1, o[e])[k] = t[o[a] + k]
  <2> DEFINE b == o[a]
             d == o[e]
  <2>0. b \in 0..m /\ d \in 0..m /\ d = b + (e - a) BY <1>2, <1>6
  <2> HIDE DEF b, d
  <2>1. \A k \in b + 1..d : t[k] \in Atoms
    <3>1. \A k \in b + 1..d : k \in 1..m BY <1>1, <2>0
    <3>2. QED BY <1>7, <3>1 DEF m
  <2>2. b + 1 \in Int /\ d \in Int BY <2>0
  <2>3. /\ SubSeq(t, b + 1, d) \in Seq(Atoms)
        /\ Len(SubSeq(t, b + 1, d)) = (IF b + 1 <= d THEN d - (b + 1) + 1 ELSE 0)
        /\ \A k \in 1..d - (b + 1) + 1 : SubSeq(t, b + 1, d)[k] = t[(b + 1) + k - 1]
    BY <2>1, <2>2, SubSeqProperties
  <2>4. d - (b + 1) + 1 = e - a /\ (~(b + 1 <= d) => e - a = 0) BY <1>2, <2>0
  <2>5. \A k \in 1..e - a : (b + 1) + k - 1 = b + k BY <2>0
  <2>6. /\ SubSeq(t, b + 1, d) \in Seq(Atoms) /\ Len(SubSeq(t, b + 1, d)) = e - a
        /\ \A k \in 1..e - a : SubSeq(t, b + 1, d)[k] = t[b + k]
    BY <2>3, <2>4, <2>5
  <2>7. QED BY <2>6 DEF b, d
<1>10. \A k \in 1..e - a : c[a + k] = t[o[a] + k]
  <2> TAKE k \in 1..e - a
  <2>1. a + k \in a + 1..e /\ a + k \in a..e /\ a + k - a = k BY <1>2
  <2>2. o[a + k] = o[a] + k BY <1>5, <2>1
  <2>3. QED BY <1>3, <2>1, <2>2
<1> DEFINE X == SubSeq(c, a + 1, e)
           Y == SubSeq(t, o[a] + 1, o[e])
<1>11. X \in Seq(Atoms) /\ Len(X) = e - a /\ \A k \in 1..e - a : X[k] = c[a + k] BY <1>8
<1>12. Y \in Seq(Atoms) /\ Len(Y) = e - a /\ \A k \in 1..e - a : Y[k] = t[o[a] + k] BY <1>9
<1> HIDE DEF X, Y
<1>13. X = Y BY <1>10, <1>11, <1>12, SeqEqual
<1>14. QED BY <1>13 DEF X, Y, Run

-----------------------------------------------------------------------------
(* The n-th of a finite set of numbers *)

Below(D, i) == {j \in D : j < i}

LEMMA BelowIs ==
  ASSUME NEW D \in SUBSET Nat, IsFiniteSet(D), NEW i
  PROVE  IsFiniteSet(Below(D, i)) /\ Cardinality(Below(D, i)) \in Nat
<1>1. Below(D, i) \subseteq D BY DEF Below
<1>2. IsFiniteSet(Below(D, i)) BY <1>1, FS_Subset
<1>3. QED BY <1>2, FS_CardinalityType

\* What is below the next one
LEMMA BelowNext ==
  ASSUME NEW D \in SUBSET Nat, IsFiniteSet(D), NEW i \in D, NEW j \in D, i < j
  PROVE  Cardinality(Below(D, i)) < Cardinality(Below(D, j))
<1> DEFINE b == Below(D, i)
           d == Below(D, j)
<1>1. IsFiniteSet(b) /\ IsFiniteSet(d) /\ Cardinality(b) \in Nat /\ Cardinality(d) \in Nat BY BelowIs
<1>2. b \subseteq d /\ i \in d /\ i \notin b
  <2>1. \A k \in D : k \in Nat /\ (k < i => k < j) /\ ~(i < i) OBVIOUS
  <2>2. QED BY <2>1 DEF Below
<1> HIDE DEF b, d
<1>3. Cardinality(b) <= Cardinality(d) /\ (Cardinality(d) = Cardinality(b) => d = b)
  BY <1>1, <1>2, FS_Subset
<1>4. Cardinality(b) # Cardinality(d) BY <1>2, <1>3
<1>5. Cardinality(b) < Cardinality(d) BY <1>1, <1>3, <1>4
<1>6. QED BY <1>5 DEF b, d

LEMMA OneOnly ==
  ASSUME NEW D \in SUBSET Nat, IsFiniteSet(D), NEW i \in D, NEW j \in D,
         Cardinality(Below(D, i)) = Cardinality(Below(D, j))
  PROVE  i = j
<1>1. Cardinality(Below(D, i)) \in Nat /\ Cardinality(Below(D, j)) \in Nat BY BelowIs
<1>2. CASE i < j
  <2>1. Cardinality(Below(D, i)) < Cardinality(Below(D, j)) BY <1>2, BelowNext
  <2>2. QED BY <1>1, <2>1
<1>3. CASE j < i
  <2>1. Cardinality(Below(D, j)) < Cardinality(Below(D, i)) BY <1>3, BelowNext
  <2>2. QED BY <1>1, <2>1
<1>4. i \in Nat /\ j \in Nat OBVIOUS
<1>5. QED BY <1>2, <1>3, <1>4

LEMMA FirstOne ==
  ASSUME NEW D \in SUBSET Nat, D # {}
  PROVE  \E i \in D : Cardinality(Below(D, i)) = 0
<1>1. PICK i \in D : \A j \in D : i <= j BY Least
<1>2. Below(D, i) = {}
  <2>1. \A j \in D : i \in Nat /\ j \in Nat /\ ~(j < i) BY <1>1
  <2>2. QED BY <2>1 DEF Below
<1>3. QED BY <1>2, FS_EmptySet

LEMMA NextOne ==
  ASSUME NEW D \in SUBSET Nat, IsFiniteSet(D), NEW i \in D,
         Cardinality(Below(D, i)) + 1 < Cardinality(D)
  PROVE  \E j \in D : Cardinality(Below(D, j)) = Cardinality(Below(D, i)) + 1
<1> DEFINE b == Below(D, i)
           R == {j \in D : i < j}
<1>1. IsFiniteSet(b) /\ Cardinality(b) \in Nat BY BelowIs
<1>2. b \subseteq D /\ i \notin b BY DEF Below
<1>3. IsFiniteSet(b \cup {i}) /\ Cardinality(b \cup {i}) = Cardinality(b) + 1
  <2> HIDE DEF b
  <2>1. QED BY <1>1, <1>2, FS_AddElement
<1>4. R # {}
  <2> SUFFICES ASSUME R = {} PROVE FALSE OBVIOUS
  <2>1. \A j \in D : j \in Nat /\ i \in Nat /\ ~(i < j) OBVIOUS
  <2>2. \A j \in D : j < i \/ j = i BY <2>1
  <2>3. D = b \cup {i} BY <2>2 DEF Below
  <2>4. Cardinality(b) + 1 < Cardinality(D) OBVIOUS
  <2> HIDE DEF b
  <2>5. Cardinality(D) = Cardinality(b) + 1 BY <1>3, <2>3
  <2>6. QED BY <1>1, <2>4, <2>5
<1>5. PICK j \in R : \A k \in R : j <= k
  <2>1. R \in SUBSET Nat OBVIOUS
  <2> HIDE DEF R
  <2>2. QED BY <1>4, <2>1, Least
<1>6. j \in D /\ i < j OBVIOUS
<1>7. Below(D, j) = b \cup {i}
  <2>1. ASSUME NEW k \in D PROVE k < j <=> k < i \/ k = i
    <3>1. i < k => j <= k BY <1>5
    <3>2. i \in Nat /\ j \in Nat /\ k \in Nat OBVIOUS
    <3>3. QED BY <1>6, <3>1, <3>2
  <2>2. QED BY <2>1 DEF Below
<1>8. Cardinality(Below(D, j)) = Cardinality(b) + 1 BY <1>3, <1>7
<1>9. QED BY <1>6, <1>8

Begins(u, w) == Len(u) <= Len(w) /\ \A k \in 1..Len(u) : w[k] = u[k]

LEMMA FlattenBegins ==
  ASSUME NEW S, NEW n \in Nat, NEW ss \in [1..n -> Seq(S)], NEW f, Flattens(ss, f, n),
         NEW i \in 0..n, NEW j \in 0..n, i <= j
  PROVE  Begins(f[i], f[j])
<1> DEFINE B == {k \in i..n : ~Begins(f[i], f[k])}
<1>1. \A k \in 0..n : f[k] \in Seq(S) BY FlattenTypes
<1>2. i \in Nat /\ j \in i..n OBVIOUS
<1>3. B = {}
  <2> SUFFICES ASSUME B # {} PROVE FALSE OBVIOUS
  <2>1. PICK k \in B : \A m \in B : k <= m
    <3>1. B \in SUBSET Nat BY <1>2
    <3> HIDE DEF B
    <3>2. QED BY <3>1, Least
  <2>2. k \in i..n /\ ~Begins(f[i], f[k]) OBVIOUS
  <2>3. k # i
    <3>1. f[i] \in Seq(S) BY <1>1
    <3>2. Begins(f[i], f[i]) BY <3>1 DEF Begins
    <3>3. QED BY <2>2, <3>2
  <2>4. k - 1 \in i..n /\ ~(k <= k - 1) /\ k \in 1..n /\ k - 1 \in 0..n /\ k \in 0..n BY <1>2, <2>2, <2>3
  <2>5. Begins(f[i], f[k - 1]) BY <2>1, <2>4
  <2> DEFINE u == f[i]
             w == f[k - 1]
             y == ss[k]
  <2>6. f[k] = w \o y BY <2>4 DEF Flattens
  <2>7. u \in Seq(S) /\ w \in Seq(S) /\ y \in Seq(S) BY <1>1, <2>4
  <2>8. Begins(u, w) BY <2>5
  <2> HIDE DEF u, w, y
  <2>9. Len(w \o y) = Len(w) + Len(y) /\ \A m \in 1..Len(w) : (w \o y)[m] = w[m]
    <3>1. Len(w) \in Nat /\ Len(y) \in Nat BY <2>7
    <3>2. Len(w \o y) = Len(w) + Len(y) /\ \A m \in 1..Len(w) + Len(y) : (w \o y)[m] = IF m <= Len(w) THEN w[m] ELSE y[m - Len(w)]
      BY <2>7, ConcatProperties
    <3>3. \A m \in 1..Len(w) : m \in 1..Len(w) + Len(y) /\ m <= Len(w) BY <3>1
    <3>4. QED BY <3>2, <3>3
  <2>10. Len(u) \in Nat /\ Len(w) \in Nat /\ Len(y) \in Nat BY <2>7
  <2>11. Begins(u, w \o y)
    <3>1. Len(u) <= Len(w \o y) BY <2>8, <2>9, <2>10 DEF Begins
    <3>2. \A m \in 1..Len(u) : m \in 1..Len(w) BY <2>8, <2>10 DEF Begins
    <3>3. QED BY <2>8, <2>9, <3>1, <3>2 DEF Begins
  <2>12. QED BY <2>2, <2>6, <2>11 DEF u
<1>4. QED BY <1>2, <1>3

LEMMA JoinedIs ==
  ASSUME NEW S, NEW u \in Seq(S), NEW w \in Seq(S)
  PROVE  /\ Len(u \o w) = Len(u) + Len(w) /\ Len(u) \in Nat /\ Len(w) \in Nat
         /\ \A k \in 1..Len(w) : (u \o w)[Len(u) + k] = w[k]
<1>1. Len(u) \in Nat /\ Len(w) \in Nat OBVIOUS
<1>2. /\ Len(u \o w) = Len(u) + Len(w)
      /\ \A k \in 1..Len(u) + Len(w) : (u \o w)[k] = IF k <= Len(u) THEN u[k] ELSE w[k - Len(u)]
  BY ConcatProperties
<1>3. \A k \in 1..Len(w) : (u \o w)[Len(u) + k] = w[k]
  <2> TAKE k \in 1..Len(w)
  <2>1. Len(u) + k \in 1..Len(u) + Len(w) /\ ~(Len(u) + k <= Len(u)) /\ Len(u) + k - Len(u) = k BY <1>1
  <2>2. QED BY <1>2, <2>1
<1>4. QED BY <1>1, <1>2, <1>3

-----------------------------------------------------------------------------
(* ARNs *)

LEMMA ColonsOK ==
  ASSUME NEW s \in Seq(Atoms)
  PROVE  /\ Colons(s) \in SUBSET Nat /\ IsFiniteSet(Colons(s)) /\ Cardinality(Colons(s)) \in Nat
         /\ \A i \in Colons(s) : i \in 1..Len(s) /\ s[i] = ":"
<1>1. Len(s) \in Nat /\ DOMAIN s = 1..Len(s) OBVIOUS
<1>2. Colons(s) \subseteq 1..Len(s) BY <1>1 DEF Colons
<1>3. IsFiniteSet(1..Len(s)) BY <1>1, FS_Interval
<1>4. IsFiniteSet(Colons(s)) BY <1>2, <1>3, FS_Subset
<1>5. Cardinality(Colons(s)) \in Nat BY <1>4, FS_CardinalityType
<1>6. QED BY <1>1, <1>2, <1>4, <1>5 DEF Colons

LEMMA ColonIs ==
  ASSUME NEW s \in Seq(Atoms), HasFields(s), NEW n \in 1..5
  PROVE  Colon(s, n) \in Colons(s) /\ Cardinality(Below(Colons(s), Colon(s, n))) = n - 1
<1> DEFINE D == Colons(s)
           Nth(k) == \E i \in D : Cardinality(Below(D, i)) = k
<1>1. D \in SUBSET Nat /\ IsFiniteSet(D) /\ Cardinality(D) \in Nat /\ Cardinality(D) >= 5
  BY ColonsOK DEF HasFields
<1>2. Colon(s, n) = CHOOSE i \in D : Cardinality(Below(D, i)) = n - 1 BY DEF Colon, Below
<1> HIDE DEF D
<1>3. Nth(0)
  <2>1. D # {} BY <1>1, FS_EmptySet
  <2>2. QED BY <1>1, <2>1, FirstOne
<1>4. ASSUME NEW k \in Nat, k + 1 < 5, Nth(k) PROVE Nth(k + 1)
  <2>1. PICK i \in D : Cardinality(Below(D, i)) = k BY <1>4
  <2>2. Cardinality(Below(D, i)) + 1 < Cardinality(D) BY <1>1, <1>4, <2>1
  <2>3. QED BY <1>1, <2>1, <2>2, NextOne
<1> HIDE DEF Nth
<1>5. Nth(1) /\ Nth(2) /\ Nth(3) /\ Nth(4)
  <2>1. 0 + 1 = 1 /\ 1 + 1 = 2 /\ 2 + 1 = 3 /\ 3 + 1 = 4 OBVIOUS
  <2>2. Nth(1) BY <1>3, <1>4, <2>1
  <2>3. Nth(2) BY <1>4, <2>1, <2>2
  <2>4. Nth(3) BY <1>4, <2>1, <2>3
  <2>5. Nth(4) BY <1>4, <2>1, <2>4
  <2>6. QED BY <2>2, <2>3, <2>4, <2>5
<1>6. n - 1 \in {0, 1, 2, 3, 4} OBVIOUS
<1>7. Nth(n - 1) BY <1>3, <1>5, <1>6
<1>8. QED BY <1>2, <1>7 DEF Nth, D

LEMMA ColonsInOrder ==
  ASSUME NEW s \in Seq(Atoms), HasFields(s), NEW n \in 1..4
  PROVE  Colon(s, n) < Colon(s, n + 1)
<1> DEFINE D == Colons(s)
           i == Colon(s, n)
           j == Colon(s, n + 1)
<1>1. n \in 1..5 /\ n + 1 \in 1..5 /\ n + 1 - 1 = n OBVIOUS
<1>2. i \in D /\ j \in D /\ Cardinality(Below(D, i)) = n - 1 /\ Cardinality(Below(D, j)) = n
  BY <1>1, ColonIs
<1>3. D \in SUBSET Nat /\ IsFiniteSet(D) BY ColonsOK
<1> HIDE DEF D, i, j
<1>4. i \in Nat /\ j \in Nat BY <1>2, <1>3
<1>5. i # j BY <1>2
<1>6. ~(j < i)
  <2> SUFFICES ASSUME j < i PROVE FALSE OBVIOUS
  <2>1. Cardinality(Below(D, j)) < Cardinality(Below(D, i)) BY <1>2, <1>3, BelowNext
  <2>2. QED BY <1>2, <2>1
<1>7. i < j BY <1>4, <1>5, <1>6
<1>8. QED BY <1>7 DEF i, j

\* No value has a colon, so that the colons of t are those of c.
LEMMA ColonsMatch ==
  ASSUME NEW c, NEW t, NEW H, NEW x, NEW o, NEW A, Matches(c, t, H, x, o, A),
         x # ":", ":" \notin A, HasFields(c), HasFields(t), NEW n \in 1..5
  PROVE  Colon(t, n) = o[Colon(c, n)] /\ Colon(c, n) \in 1..Len(c) \ H
<1> DEFINE C == Colons(c)
           T == Colons(t)
           p == Colon(c, n)
           b == Below(C, p)
           d == Below(T, o[p])
<1>1. c \in Seq(Atoms) /\ t \in Seq(Atoms) BY DEF Matches
<1>2. /\ Len(c) \in Nat /\ Len(t) \in Nat /\ DOMAIN c = 1..Len(c) /\ DOMAIN t = 1..Len(t)
      /\ \A q \in 1..Len(c) \ H : t[o[q]] = c[q] /\ o[q] \in 1..Len(t)
  BY MatchTypes
<1>3. \A q \in C : q \in 1..Len(c) \ H /\ q \in 0..Len(c) /\ q \in Nat
  <2> TAKE q \in C
  <2>1. q \in 1..Len(c) /\ c[q] = ":" BY <1>1, ColonsOK
  <2>2. q \notin H BY <2>1 DEF Matches
  <2>3. QED BY <1>2, <2>1, <2>2
<1>4. \A q \in C : o[q] \in T
  <2> TAKE q \in C
  <2>1. c[q] = ":" BY <1>1, ColonsOK
  <2>2. QED BY <1>2, <1>3, <2>1 DEF Colons
<1>5. \A y \in T : \E q \in C : o[q] = y
  <2> TAKE y \in T
  <2>1. y \in 1..Len(t) /\ t[y] = ":" BY <1>1, ColonsOK
  <2>2. PICK q \in 1..Len(c) \ H : o[q] = y BY <2>1, CameFrom
  <2>3. c[q] = ":" BY <1>2, <2>1, <2>2
  <2>4. QED BY <1>2, <2>2, <2>3 DEF Colons
<1>6. \A q, r \in C : q < r => o[q] < o[r]
  <2> SUFFICES ASSUME NEW q \in C, NEW r \in C, q < r PROVE o[q] < o[r] OBVIOUS
  <2>1. q \in 0..Len(c) /\ r \in 1..Len(c) \ H BY <1>3
  <2>2. QED BY <2>1, Climbs
<1>7. \A q \in C : o[q] \in Nat
  <2> TAKE q \in C
  <2>1. o[q] \in 1..Len(t) BY <1>2, <1>3
  <2>2. QED BY <2>1
<1>8. p \in C /\ Cardinality(b) = n - 1 BY <1>1, ColonIs
<1>9. C \in SUBSET Nat /\ IsFiniteSet(C) /\ T \in SUBSET Nat /\ IsFiniteSet(T) BY <1>1, ColonsOK
<1>10. Colon(t, n) \in T /\ Cardinality(Below(T, Colon(t, n))) = n - 1 BY <1>1, ColonIs
<1> HIDE DEF C, T, p
<1>11. \A q, r \in C : o[q] < o[r] => q < r
  <2> SUFFICES ASSUME NEW q \in C, NEW r \in C, o[q] < o[r] PROVE q < r OBVIOUS
  <2>1. q \in Nat /\ r \in Nat /\ o[q] \in Nat /\ o[r] \in Nat BY <1>3, <1>7
  <2>2. q # r BY <2>1
  <2>3. ~(r < q)
    <3> SUFFICES ASSUME r < q PROVE FALSE OBVIOUS
    <3>1. o[r] < o[q] BY <1>6
    <3>2. QED BY <2>1, <3>1
  <2>4. QED BY <2>1, <2>2, <2>3
<1> DEFINE g == [q \in b |-> o[q]]
<1>12. g \in Bijection(b, d)
  <2>1. \A q \in b : q \in C /\ o[q] \in d BY <1>4, <1>6, <1>8 DEF Below
  <2>2. g \in [b -> d] /\ \A q \in b : g[q] = o[q] BY <2>1
  <2>3. \A q, r \in b : g[q] = g[r] => q = r
    <3> SUFFICES ASSUME NEW q \in b, NEW r \in b, q # r PROVE o[q] # o[r] BY <2>2
    <3>1. q \in C /\ r \in C /\ q \in Nat /\ r \in Nat /\ o[q] \in Nat /\ o[r] \in Nat BY <1>3, <1>7, <2>1
    <3>2. q < r \/ r < q BY <3>1
    <3>3. o[q] < o[r] \/ o[r] < o[q] BY <1>6, <3>1, <3>2
    <3>4. QED BY <3>1, <3>3
  <2>4. \A y \in d : \E q \in b : g[q] = y
    <3> TAKE y \in d
    <3>1. y \in T /\ y < o[p] BY DEF Below
    <3>2. PICK q \in C : o[q] = y BY <1>5, <3>1
    <3>3. q < p BY <1>8, <1>11, <3>1, <3>2
    <3>4. q \in b BY <3>3 DEF Below
    <3>5. QED BY <2>2, <3>2, <3>4
  <2> HIDE DEF g, b, d
  <2>5. QED BY <2>2, <2>3, <2>4 DEF Bijection, Injection, Surjection, IsInjective
<1>13. Cardinality(d) = n - 1
  <2>1. ExistsBijection(b, d) BY <1>12 DEF ExistsBijection
  <2>2. IsFiniteSet(b) BY <1>9, BelowIs
  <2> HIDE DEF b, d
  <2>3. Cardinality(d) = Cardinality(b) BY <2>1, <2>2, FS_Bijection
  <2>4. QED BY <1>8, <2>3
<1>14. o[p] \in T BY <1>4, <1>8
<1>15. Colon(t, n) = o[p]
  <2> DEFINE y == Colon(t, n)
             z == o[p]
  <2>1. y \in T /\ z \in T /\ Cardinality(Below(T, y)) = Cardinality(Below(T, z))
    BY <1>10, <1>13, <1>14
  <2> HIDE DEF y, z
  <2>2. y = z BY <1>9, <2>1, OneOnly
  <2>3. QED BY <2>2 DEF y, z
<1>16. QED BY <1>3, <1>8, <1>15 DEF p

FieldEnd(s, n) == IF n = 5 THEN Len(s) ELSE Colon(s, n + 1) - 1

\* A field without a placeholder is what the values leave it.
LEMMA FieldKept ==
  ASSUME NEW c, NEW t, NEW H, NEW o, NEW A, Matches(c, t, H, Placeholder, o, A),
         ":" \notin A, HasFields(c), HasFields(t), NEW n \in 1..5,
         Placeholder \notin Range(Fields5(c)[n])
  PROVE  Fields5(t)[n] = Fields5(c)[n]
<1> DEFINE a == Colon(c, n)
           e == FieldEnd(c, n)
<1>0. Placeholder # ":" BY AtomsAre
<1>1. c \in Seq(Atoms) /\ t \in Seq(Atoms) /\ o[Len(c)] = Len(t) BY DEF Matches
<1>2. Fields5(c)[n] = SubSeq(c, a + 1, e) BY DEF Fields5, FieldEnd
<1>3. Fields5(t)[n] = SubSeq(t, Colon(t, n) + 1, FieldEnd(t, n)) BY DEF Fields5, FieldEnd
<1>4. Colon(t, n) = o[a] /\ a \in 1..Len(c) \ H BY <1>0, ColonsMatch
<1>5. /\ Len(c) \in Nat /\ Len(t) \in Nat
      /\ \A p \in 1..Len(c) : p \in 0..Len(c) /\ p - 1 \in 0..Len(c)
      /\ \A p \in 0..Len(c) : o[p] \in 0..Len(t)
      /\ \A p \in 1..Len(c) \ H : o[p] = o[p - 1] + 1
  BY MatchTypes
<1>6. e \in 0..Len(c) /\ a <= e /\ o[e] = FieldEnd(t, n)
  <2>1. CASE n = 5
    <3>1. e = Len(c) /\ FieldEnd(t, n) = Len(t) BY <2>1 DEF FieldEnd
    <3> HIDE DEF a, e
    <3>2. QED BY <1>1, <1>4, <1>5, <3>1
  <2>2. CASE n # 5
    <3> DEFINE b == Colon(c, n + 1)
    <3>1. n \in 1..4 /\ n + 1 \in 1..5 BY <2>2
    <3>2. a < b BY <1>1, <3>1, ColonsInOrder
    <3>3. Colon(t, n + 1) = o[b] /\ b \in 1..Len(c) \ H BY <1>0, <3>1, ColonsMatch
    <3>4. e = b - 1 /\ FieldEnd(t, n) = o[b] - 1 BY <2>2, <3>3 DEF FieldEnd
    <3> HIDE DEF a, b, e
    <3>5. o[b] = o[b - 1] + 1 /\ b - 1 \in 0..Len(c) /\ o[b - 1] \in 0..Len(t) BY <1>5, <3>3
    <3>6. QED BY <1>4, <1>5, <3>2, <3>3, <3>4, <3>5
  <2>3. QED BY <2>1, <2>2
<1> HIDE DEF a, e
<1>7. \A p \in a + 1..e : p \notin H
  <2> SUFFICES ASSUME NEW p \in a + 1..e, p \in H PROVE FALSE OBVIOUS
  <2>1. c[p] = Placeholder BY DEF Matches
  <2>2. a \in Nat /\ e \in Nat /\ p \in 1..Len(c) BY <1>4, <1>5, <1>6
  <2> DEFINE F == SubSeq(c, a + 1, e)
  <2>3. \A k \in a + 1..e : c[k] \in Atoms
    <3>1. \A k \in a + 1..e : k \in 1..Len(c) BY <1>5, <1>6, <2>2
    <3>2. QED BY <1>1, <3>1
  <2>4. /\ F \in Seq(Atoms) /\ Len(F) = (IF a + 1 <= e THEN e - (a + 1) + 1 ELSE 0)
        /\ \A k \in 1..e - (a + 1) + 1 : F[k] = c[(a + 1) + k - 1]
    <3>1. a + 1 \in Int /\ e \in Int BY <2>2
    <3>2. QED BY <2>3, <3>1, SubSeqProperties
  <2>5. p - a \in 1..e - (a + 1) + 1 /\ (a + 1) + (p - a) - 1 = p /\ a + 1 <= e BY <2>2
  <2> HIDE DEF F
  <2>6. F[p - a] = Placeholder /\ p - a \in DOMAIN F
    <3>1. F[p - a] = c[(a + 1) + (p - a) - 1] BY <2>4, <2>5
    <3>2. DOMAIN F = 1..Len(F) BY <2>4
    <3>3. QED BY <2>1, <2>4, <2>5, <3>1, <3>2
  <2>7. Placeholder \in Range(F) BY <2>6 DEF Range
  <2>8. QED BY <1>2, <2>7 DEF F
<1>8. Run(c, a, e) = Run(t, o[a], o[e])
  <2>1. a \in 0..Len(c) BY <1>4, <1>5
  <2>2. NoHole(H, a, e) BY <1>7 DEF NoHole
  <2>3. a <= e /\ e \in 0..Len(c) BY <1>6
  <2>4. QED BY <2>1, <2>2, <2>3, CopiedRun
<1>9. QED BY <1>2, <1>3, <1>4, <1>6, <1>8 DEF Run

\* The permissive check finds nothing in a template that an ARN can come from.
LEMMA FieldsPermitted ==
  ASSUME NEW c, NEW t, NEW H, NEW o, NEW A, Matches(c, t, H, Placeholder, o, A),
         ":" \notin A, HasFields(c), TrueARN(t)
  PROVE  ValidARNFields(Fields5(c), TRUE)
<1> DEFINE f == Fields5(c)
           g == Fields5(t)
           Hidden(n) == Placeholder \in Range(f[n])
<1>1. HasFields(t) BY DEF TrueARN
<1>2. \A n \in 1..5 : Hidden(n) \/ f[n] = g[n] BY <1>1, FieldKept
<1>3. /\ Word(g[1]) \in Partitions /\ Word(g[2]) \in Services
      /\ Word(g[3]) \in {"", "*"} \cup IF Word(g[1]) \in IsoPartitions THEN IsoRegions ELSE Regions
      /\ Word(g[4]) \in AccountIDs \cup {"", "*", "aws"}
      /\ g[5] # << >>
  BY DEF TrueARN
<1>4. ValidARNFields(f, TRUE) <=>
        /\ Hidden(1) \/ Word(f[1]) \in Partitions
        /\ Hidden(2) \/ Word(f[2]) \in Services
        /\ \/ Hidden(3) \/ Word(f[3]) \in Regions \cup {"", "*"}
           \/ Word(f[1]) \in IsoPartitions
           \/ Hidden(1) /\ Word(f[3]) \in IsoRegions
        /\ Hidden(4) \/ Word(f[4]) \in AccountIDs \cup {"", "*", "aws"}
        /\ f[5] # << >>
  BY Zenon DEF ValidARNFields
<1>5. Hidden(5) => f[5] # << >>
  <2>1. Range(<< >>) = {} BY DEF Range
  <2>2. QED BY <2>1
<1>6. 1 \in 1..5 /\ 2 \in 1..5 /\ 3 \in 1..5 /\ 4 \in 1..5 /\ 5 \in 1..5 OBVIOUS
<1>7. /\ Hidden(1) \/ f[1] = g[1]
      /\ Hidden(2) \/ f[2] = g[2]
      /\ Hidden(3) \/ f[3] = g[3]
      /\ Hidden(4) \/ f[4] = g[4]
      /\ Hidden(5) \/ f[5] = g[5]
  BY <1>2, <1>6
<1> HIDE DEF f, g, Hidden
<1>8. ValidARNFields(f, TRUE) BY <1>3, <1>4, <1>5, <1>7
<1>9. QED BY <1>8 DEF f

LEMMA LiteralARN ==
  ASSUME NEW s, TrueARN(s), Len(Word(s)) >= ArnMinLength
  PROVE  ValidARN(s)
<1> DEFINE f == Fields5(s)
<1>1. Prefixed(s) /\ HasFields(s) BY DEF TrueARN
<1>2. Len(Word(s)) >= ArnMinLength OBVIOUS
<1>3. /\ Word(f[1]) \in Partitions /\ Word(f[2]) \in Services
      /\ Word(f[3]) \in {"", "*"} \cup IF Word(f[1]) \in IsoPartitions THEN IsoRegions ELSE Regions
      /\ Word(f[4]) \in AccountIDs \cup {"", "*", "aws"}
      /\ f[5] # << >>
  BY DEF TrueARN
<1>4. ValidARNFields(f, FALSE) <=>
        /\ Word(f[1]) \in Partitions
        /\ Word(f[2]) \in Services
        /\ Word(f[3]) \in Regions \cup {"", "*"} \/ Word(f[1]) \in IsoPartitions
        /\ Word(f[4]) \in AccountIDs \cup {"", "*", "aws"}
        /\ f[5] # << >>
  BY Zenon DEF ValidARNFields
<1> HIDE DEF f
<1>5. ValidARNFields(f, FALSE) BY <1>3, <1>4
<1>6. QED BY <1>1, <1>2, <1>5 DEF ValidARN, f

LEMMA PureFill ==
  ASSUME NEW e, Pure(e), e.parts \in Seq(Part), NEW v
  PROVE  TextOf(e) \in Text /\ Fill(e.parts, v) = TextOf(e) /\ Interpolations(e.parts) = {}
<1> DEFINE parts == e.parts
<1>1. parts \in Seq(Part) /\ Len(parts) = 1 /\ parts[1].kind = "literal" /\ TextOf(e) = parts[1].text
  BY DEF Pure, TextOf
<1> HIDE DEF parts
<1>2. 1 \in 1..Len(parts) /\ \A i \in 1..Len(parts) : i = 1 BY <1>1
<1>3. parts[1].text \in Text /\ parts[1].text \in Seq(STRING)
  <2>1. parts[1] \in Part BY <1>1, <1>2, ElementOfSeq
  <2>2. QED BY <2>1, TextIs DEF Part
<1>4. ~Interpolation(parts, 1) BY <1>1 DEF Interpolation
<1>5. Interpolations(parts) = {} /\ Len(parts) \in Nat BY <1>1, <1>2, <1>4, PartsAre
<1>6. PICK f : Flattens(Texts(parts, v), f, Len(parts))
  <2>1. Len(parts) \in Nat BY <1>1
  <2>2. QED BY <2>1, SomeFlattens
<1>7. Fill(parts, v) = f[1] BY <1>1, <1>5, <1>6, FillIs
<1>8. f[1] = f[1 - 1] \o Texts(parts, v)[1] /\ f[0] = << >> BY <1>2, <1>6 DEF Flattens
<1>9. Texts(parts, v)[1] = parts[1].text
  <2>1. DOMAIN parts = 1..Len(parts) BY <1>1, PartsAre
  <2>2. QED BY <1>2, <1>4, <2>1 DEF Texts
<1>10. << >> \o parts[1].text = parts[1].text BY <1>3, ConcatEmptySeq
<1>11. Fill(parts, v) = parts[1].text 
  <2>1. 1 - 1 = 0 OBVIOUS
  <2>2. QED BY <1>7, <1>8, <1>9, <1>10, <2>1
<1>12. QED BY <1>1, <1>3, <1>5, <1>11 DEF parts

\* The colons of a beginning that has them all are those of the text.
LEMMA ColonsBegin ==
  ASSUME NEW u \in Seq(Atoms), NEW w \in Seq(Atoms), Begins(u, w), HasFields(u)
  PROVE  HasFields(w) /\ \A n \in 1..5 : Colon(w, n) = Colon(u, n) /\ Colon(u, n) \in 1..Len(u)
<1> DEFINE U == Colons(u)
           W == Colons(w)
<1>1. /\ U \in SUBSET Nat /\ IsFiniteSet(U) /\ W \in SUBSET Nat /\ IsFiniteSet(W)
      /\ Cardinality(U) \in Nat /\ Cardinality(W) \in Nat /\ \A i \in U : i \in 1..Len(u)
  BY ColonsOK
<1>2. Len(u) \in Nat /\ Len(w) \in Nat /\ DOMAIN u = 1..Len(u) /\ DOMAIN w = 1..Len(w) OBVIOUS
<1>3. \A k \in 1..Len(u) : k \in 1..Len(w) /\ w[k] = u[k] BY <1>2 DEF Begins
<1>4. \A k \in 1..Len(u) : k \in U <=> k \in W BY <1>2, <1>3 DEF Colons
<1> HIDE DEF U, W
<1>5. U \subseteq W BY <1>1, <1>4
<1>6. HasFields(w)
  <2>1. Cardinality(U) <= Cardinality(W) BY <1>1, <1>5, FS_Subset
  <2>2. Cardinality(U) >= 5 BY DEF HasFields, U
  <2>3. Cardinality(W) >= 5 BY <1>1, <2>1, <2>2
  <2>4. QED BY <2>3 DEF HasFields, W
<1>7. ASSUME NEW n \in 1..5 PROVE Colon(w, n) = Colon(u, n) /\ Colon(u, n) \in 1..Len(u)
  <2> DEFINE p == Colon(u, n)
             q == Colon(w, n)
  <2>1. p \in U /\ Cardinality(Below(U, p)) = n - 1 BY ColonIs DEF U
  <2>2. q \in W /\ Cardinality(Below(W, q)) = n - 1 BY <1>6, ColonIs DEF W
  <2> HIDE DEF p, q
  <2>3. p \in 1..Len(u) BY <1>1, <2>1
  <2>4. Below(W, p) = Below(U, p)
    <3>1. \A k \in W : k < p => k \in 1..Len(u)
      <4> SUFFICES ASSUME NEW k \in W, k < p PROVE k \in 1..Len(u) OBVIOUS
      <4>1. k \in 1..Len(w) BY ColonsOK DEF W
      <4>2. QED BY <1>2, <2>3, <4>1
    <3>2. \A k \in W : k < p => k \in U BY <1>4, <3>1
    <3>3. QED BY <1>5, <3>2 DEF Below
  <2>5. p \in W BY <1>5, <2>1
  <2>6. p = q BY <1>1, <2>1, <2>2, <2>4, <2>5, OneOnly
  <2>7. QED BY <2>3, <2>6 DEF p, q
<1>8. QED BY <1>6, <1>7

LEMMA SameRun ==
  ASSUME NEW u \in Seq(Atoms), NEW w \in Seq(Atoms), Begins(u, w),
         NEW a \in 1..Len(u), NEW b \in 0..Len(u)
  PROVE  SubSeq(w, a + 1, b) = SubSeq(u, a + 1, b)
<1>1. Len(u) \in Nat /\ Len(w) \in Nat /\ Len(u) <= Len(w) BY DEF Begins
<1>2. a + 1 \in Int /\ b \in Int OBVIOUS
<1>3. \A k \in a + 1..b : k \in 1..Len(u) /\ k \in 1..Len(w) BY <1>1
<1>4. \A k \in a + 1..b : u[k] \in Atoms /\ w[k] \in Atoms /\ w[k] = u[k]
  BY <1>3 DEF Begins
<1> DEFINE l == IF a + 1 <= b THEN b - (a + 1) + 1 ELSE 0
           y == SubSeq(u, a + 1, b)
           z == SubSeq(w, a + 1, b)
<1>5. /\ y \in Seq(Atoms) /\ Len(y) = l
      /\ \A k \in 1..b - (a + 1) + 1 : y[k] = u[(a + 1) + k - 1]
  BY <1>2, <1>4, SubSeqProperties
<1>6. /\ z \in Seq(Atoms) /\ Len(z) = l
      /\ \A k \in 1..b - (a + 1) + 1 : z[k] = w[(a + 1) + k - 1]
  BY <1>2, <1>4, SubSeqProperties
<1>7. \A k \in 1..l : k \in 1..b - (a + 1) + 1 /\ (a + 1) + k - 1 \in a + 1..b BY <1>2
<1> HIDE DEF l, y, z
<1>8. \A k \in 1..Len(y) : y[k] = z[k] BY <1>4, <1>5, <1>6, <1>7
<1>9. y = z BY <1>5, <1>6, <1>8, SeqEqual
<1>10. QED BY <1>9 DEF y, z

\* Beyond the fifth colon an ARN may go on as it likes.
LEMMA ResourceAtWill ==
  ASSUME NEW u \in Seq(Atoms), HasFields(u), NEW t \in Seq(Atoms), Begins(u, t),
         NEW w \in Seq(Atoms), Begins(u, w), Len(u) < Len(w), TrueARN(t)
  PROVE  TrueARN(w)
<1> DEFINE C(n) == Colon(u, n)
           f == Fields5(t)
           g == Fields5(w)
<1>1. /\ HasFields(t) /\ \A n \in 1..5 : Colon(t, n) = C(n) /\ C(n) \in 1..Len(u)
      /\ HasFields(w) /\ \A n \in 1..5 : Colon(w, n) = C(n)
  BY ColonsBegin
<1>2. \A n \in 1..4 : g[n] = f[n]
  <2> TAKE n \in 1..4
  <2>1. n \in 1..5 /\ n + 1 \in 1..5 /\ n # 5 OBVIOUS
  <2>2. /\ f[n] = SubSeq(t, C(n) + 1, C(n + 1) - 1) /\ g[n] = SubSeq(w, C(n) + 1, C(n + 1) - 1)
    BY <1>1, <2>1 DEF Fields5
  <2> DEFINE a == C(n)
             b == C(n + 1) - 1
  <2>3. a \in 1..Len(u) /\ b \in 0..Len(u)
    <3>1. C(n) \in 1..Len(u) /\ C(n + 1) \in 1..Len(u) BY <1>1, <2>1
    <3> HIDE DEF C
    <3>2. Len(u) \in Nat OBVIOUS
    <3>3. QED BY <3>1, <3>2
  <2> HIDE DEF a, b
  <2>4. SubSeq(t, a + 1, b) = SubSeq(u, a + 1, b) /\ SubSeq(w, a + 1, b) = SubSeq(u, a + 1, b)
    BY <2>3, SameRun
  <2>5. QED BY <2>2, <2>4 DEF a, b
<1>3. g[5] # << >>
  <2> DEFINE a == C(5)
             l == Len(w)
  <2>1. a \in 1..Len(u) BY <1>1
  <2>2. g[5] = SubSeq(w, a + 1, l)
    <3>1. 5 \in 1..5 OBVIOUS
    <3>2. Fields5(w)[5] = SubSeq(w, Colon(w, 5) + 1, Len(w)) BY <3>1 DEF Fields5
    <3>3. Colon(w, 5) = Colon(u, 5) BY <1>1, <3>1
    <3>4. QED BY <3>2, <3>3
  <2>3. l \in Nat /\ Len(u) \in Nat /\ a + 1 <= l
    <3> HIDE DEF C
    <3>1. QED BY <2>1
  <2> HIDE DEF a
  <2>4. \A k \in a + 1..l : w[k] \in Atoms
    <3>1. \A k \in a + 1..l : k \in 1..Len(w) BY <2>1, <2>3
    <3>2. QED BY <3>1
  <2>5. Len(SubSeq(w, a + 1, l)) = l - (a + 1) + 1
    <3>1. a + 1 \in Int /\ l \in Int BY <2>1, <2>3
    <3> HIDE DEF l
    <3>2. QED BY <2>3, <2>4, <3>1, SubSeqProperties
  <2>6. l - (a + 1) + 1 # 0 BY <2>1, <2>3
  <2> HIDE DEF l, g
  <2>7. Len(g[5]) # 0 BY <2>2, <2>5, <2>6
  <2>8. Len(<< >>) = 0 OBVIOUS
  <2>9. QED BY <2>7, <2>8
<1>4. Prefixed(w)
  <2>1. 2 <= Len(u)
    <3>1. Len(u) \in Nat /\ IsFiniteSet(1..Len(u)) /\ Cardinality(1..Len(u)) = Len(u)
      <4> DEFINE l == Len(u)
      <4>1. l \in Nat OBVIOUS
      <4> HIDE DEF l
      <4>2. IsFiniteSet(1..l) /\ Cardinality(1..l) = (IF 1 > l THEN 0 ELSE l - 1 + 1)
        <5>1. 1 \in Int /\ l \in Int BY <4>1
        <5>2. QED BY <5>1, FS_Interval
      <4>3. (IF 1 > l THEN 0 ELSE l - 1 + 1) = l BY <4>1
      <4>4. QED BY <4>1, <4>2, <4>3 DEF l
    <3>2. Colons(u) \subseteq 1..Len(u) /\ Cardinality(Colons(u)) \in Nat BY ColonsOK
    <3>3. Cardinality(Colons(u)) <= Cardinality(1..Len(u)) BY <3>1, <3>2, FS_Subset
    <3>4. Cardinality(Colons(u)) >= 5 BY DEF HasFields
    <3>5. QED BY <3>1, <3>2, <3>3, <3>4
  <2>2. Len(u) \in Nat /\ Len(w) \in Nat OBVIOUS
  <2>3. 1 \in 1..Len(u) /\ 2 \in 1..Len(u) /\ 2 <= Len(w) BY <2>1, <2>2
  <2>4. w[1] = t[1] /\ w[2] = t[2] BY <2>3 DEF Begins
  <2>5. t[1] = "arn" /\ t[2] = ":" BY DEF TrueARN, Prefixed
  <2>6. QED BY <2>3, <2>4, <2>5 DEF Prefixed
<1>5. /\ Word(f[1]) \in Partitions /\ Word(f[2]) \in Services
      /\ Word(f[3]) \in {"", "*"} \cup IF Word(f[1]) \in IsoPartitions THEN IsoRegions ELSE Regions
      /\ Word(f[4]) \in AccountIDs \cup {"", "*", "aws"}
  BY DEF TrueARN
<1>6. g[1] = f[1] /\ g[2] = f[2] /\ g[3] = f[3] /\ g[4] = f[4] BY <1>2
<1>7. TrueARN(w) <=>
        /\ Prefixed(w) /\ HasFields(w)
        /\ Word(g[1]) \in Partitions /\ Word(g[2]) \in Services
        /\ Word(g[3]) \in {"", "*"} \cup IF Word(g[1]) \in IsoPartitions THEN IsoRegions ELSE Regions
        /\ Word(g[4]) \in AccountIDs \cup {"", "*", "aws"}
        /\ g[5] # << >>
  BY Zenon DEF TrueARN
<1> HIDE DEF f, g
<1>8. QED BY <1>1, <1>3, <1>4, <1>5, <1>6, <1>7

LEMMA FilledBefore ==
  ASSUME NEW parts \in Seq(Part), NEW v, \A i \in Interpolations(parts) : v[i] \in Seq(Atoms),
         NEW f, Flattens(Texts(parts, v), f, Len(parts)), NEW i \in 1..Len(parts)
  PROVE  Fill(SubSeq(parts, 1, i - 1), v) = f[i - 1]
<1> DEFINE first == SubSeq(parts, 1, i - 1)
           k == i - 1
           g == [j \in 0..k |-> f[j]]
<1>1. Len(parts) \in Nat /\ DOMAIN parts = 1..Len(parts) /\ k \in Nat /\ k <= Len(parts) BY PartsAre
<1>2. first \in Seq(Part) /\ Len(first) = k /\ \A j \in 1..k : first[j] = parts[j] /\ j \in 1..Len(parts)
  <2>1. \A j \in 1..k : j \in 1..Len(parts) BY <1>1
  <2>2. \A j \in 1..k : parts[j] \in Part BY <2>1, ElementOfSeq
  <2>3. 1 \in Int /\ k \in Int BY <1>1
  <2> HIDE DEF k
  <2>4. /\ SubSeq(parts, 1, k) \in Seq(Part)
        /\ Len(SubSeq(parts, 1, k)) = (IF 1 <= k THEN k - 1 + 1 ELSE 0)
        /\ \A j \in 1..k - 1 + 1 : SubSeq(parts, 1, k)[j] = parts[1 + j - 1]
    BY <2>2, <2>3, SubSeqProperties
  <2>5. (IF 1 <= k THEN k - 1 + 1 ELSE 0) = k /\ \A j \in 1..k : j \in 1..k - 1 + 1 /\ 1 + j - 1 = j BY <1>1
  <2>6. QED BY <2>1, <2>4, <2>5 DEF k
<1> HIDE DEF first, k
<1>3. /\ DOMAIN first = 1..k
      /\ \A j \in Interpolations(first) : j \in Interpolations(parts)
      /\ \A j \in 1..k : Interpolation(first, j) <=> Interpolation(parts, j)
  <2>1. DOMAIN first = 1..k BY <1>2
  <2>2. \A j \in 1..k : Interpolation(first, j) <=> Interpolation(parts, j) BY <1>2 DEF Interpolation
  <2>3. \A j \in Interpolations(first) : j \in Interpolations(parts)
    BY <1>1, <1>2, <2>1, <2>2 DEF Interpolations
  <2>4. QED BY <2>1, <2>2, <2>3
<1>4. \A j \in 1..k : Texts(first, v)[j] = Texts(parts, v)[j]
  <2> TAKE j \in 1..k
  <2>1. j \in DOMAIN first /\ j \in DOMAIN parts /\ first[j] = parts[j] BY <1>1, <1>2, <1>3
  <2>2. QED BY <1>3, <2>1 DEF Texts
<1>5. Flattens(Texts(first, v), g, k)
  <2>1. 0 \in 0..k /\ \A j \in 1..k : j \in 0..k /\ j - 1 \in 0..k /\ j \in 1..Len(parts) BY <1>1
  <2>2. \A j \in 1..k : f[j] = f[j - 1] \o Texts(parts, v)[j] BY <2>1 DEF Flattens
  <2>3. f[0] = << >> BY DEF Flattens
  <2>4. DOMAIN g = 0..k /\ \A j \in 0..k : g[j] = f[j] OBVIOUS
  <2> HIDE DEF g
  <2>5. g[0] = << >> BY <2>1, <2>3, <2>4
  <2>6. \A j \in 1..k : g[j] = g[j - 1] \o Texts(first, v)[j] BY <1>4, <2>1, <2>2, <2>4
  <2>7. QED BY <2>4, <2>5, <2>6 DEF Flattens
<1>6. \A j \in Interpolations(first) : v[j] \in Seq(Atoms) BY <1>3
<1>7. Fill(first, v) = g[k]
  <2>1. Flattens(Texts(first, v), g, Len(first)) BY <1>2, <1>5
  <2> HIDE DEF g
  <2>2. Fill(first, v) = g[Len(first)] BY <1>2, <1>6, <2>1, FillIs
  <2>3. QED BY <1>2, <2>2
<1>8. g[k] = f[k] BY <1>1
<1>9. QED BY <1>7, <1>8 DEF first, k

\* A placeholder for every value with a colon: what comes of it has the same
\* first four fields, and a resource.
Masked(parts, v) ==
  [i \in Interpolations(parts) |-> IF Colons(v[i]) = {} THEN v[i] ELSE <<Placeholder>>]

LEMMA MaskedIsARN ==
  ASSUME NEW parts \in Seq(Part), NEW v, \A i \in Interpolations(parts) : v[i] \in Seq(Atoms),
         WithinFields(parts, v), TrueARN(Fill(parts, v))
  PROVE  TrueARN(Fill(parts, Masked(parts, v)))
<1> DEFINE m == Masked(parts, v)
           n == Len(parts)
           T == Texts(parts, v)
           U == Texts(parts, m)
<1>1. n \in Nat /\ DOMAIN parts = 1..n /\ Interpolations(parts) = {i \in 1..n : Interpolation(parts, i)}
  BY PartsAre
<1>2. \A i \in Interpolations(parts) : m[i] = IF Colons(v[i]) = {} THEN v[i] ELSE <<Placeholder>>
  BY DEF Masked
<1>3. <<Placeholder>> \in Seq(Atoms) /\ Len(<<Placeholder>>) = 1
  <2>1. Placeholder \in Atoms BY AtomsAre
  <2>2. QED BY <2>1, SingleIs
<1>4. \A i \in Interpolations(parts) : m[i] \in Seq(Atoms) BY <1>2, <1>3
<1> HIDE DEF m
<1>5. T \in [1..n -> Seq(Atoms)] BY TextsAre
<1>6. U \in [1..n -> Seq(Atoms)] BY <1>4, TextsAre
<1>7. \A i \in 1..n : /\ T[i] = IF Interpolation(parts, i) THEN v[i] ELSE parts[i].text
                      /\ U[i] = IF Interpolation(parts, i) THEN m[i] ELSE parts[i].text
  BY <1>1 DEF Texts
<1> HIDE DEF T, U, n
<1>8. PICK f : Flattens(T, f, n) BY <1>1, SomeFlattens
<1>9. PICK g : Flattens(U, g, n) BY <1>1, SomeFlattens
<1>10. Fill(parts, v) = f[n] BY <1>8, FillIs DEF T, n
<1>11. Fill(parts, m) = g[n] BY <1>4, <1>9, FillIs DEF U, n
<1>12. \A i \in 0..n : f[i] \in Seq(Atoms) /\ g[i] \in Seq(Atoms)
  <2>1. \A i \in 0..n : f[i] \in Seq(Atoms) BY <1>1, <1>5, <1>8, FlattenTypes
  <2>2. \A i \in 0..n : g[i] \in Seq(Atoms) BY <1>1, <1>6, <1>9, FlattenTypes
  <2>3. QED BY <2>1, <2>2
<1> DEFINE D == {i \in 1..n : f[i] # g[i]}
<1>13. CASE n \notin D
  <2>1. f[n] = g[n]
    <3>1. CASE n = 0 BY <3>1, <1>8, <1>9 DEF Flattens
    <3>2. CASE n # 0
      <4>1. n \in 1..n BY <1>1, <3>2
      <4>2. QED BY <1>13, <4>1
    <3>3. QED BY <3>1, <3>2
  <2>2. QED BY <1>10, <1>11, <2>1 DEF m
<1>14. CASE n \in D
  <2>1. PICK i \in D : \A j \in D : i <= j
    <3>1. D \in SUBSET Nat /\ D # {} BY <1>1, <1>14
    <3> HIDE DEF D
    <3>2. QED BY <3>1, Least
  <2> DEFINE k == i - 1
             u == f[k]
  <2>2. i \in 1..n /\ f[i] # g[i] /\ k \in 0..n /\ k < i /\ i \in 0..n /\ n \in 0..n /\ i <= n BY <1>1, <2>1
  <2>3. f[k] = g[k]
    <3>1. CASE k = 0 BY <3>1, <1>8, <1>9 DEF Flattens
    <3>2. CASE k # 0
      <4>1. k \in 1..n /\ ~(i <= k) BY <1>1, <2>2, <3>2
      <4>2. k \notin D BY <2>1, <4>1
      <4> HIDE DEF k
      <4>3. QED BY <4>1, <4>2
    <3>3. QED BY <3>1, <3>2
  <2>4. f[i] = u \o T[i] /\ g[i] = u \o U[i] BY <1>8, <1>9, <2>2, <2>3 DEF Flattens
  <2>5. Interpolation(parts, i) /\ i \in Interpolations(parts)
    <3>1. T[i] # U[i] BY <2>2, <2>4
    <3>2. Interpolation(parts, i) BY <1>7, <2>2, <3>1
    <3>3. QED BY <1>1, <2>2, <3>2
  <2>6. Colons(v[i]) # {} /\ U[i] = <<Placeholder>>
    <3>1. T[i] = v[i] /\ U[i] = m[i] BY <1>7, <2>2, <2>5
    <3>2. v[i] # m[i] BY <2>2, <2>4, <3>1
    <3>3. QED BY <1>2, <2>5, <3>1, <3>2
  <2>7. HasFields(u)
    <3>1. HasFields(Fill(SubSeq(parts, 1, i - 1), v)) BY <2>5, <2>6 DEF WithinFields
    <3>2. Fill(SubSeq(parts, 1, i - 1), v) = f[i - 1] BY <1>8, <2>2, FilledBefore DEF T, n
    <3>3. QED BY <3>1, <3>2
  <2>8. u \in Seq(Atoms) BY <1>12, <2>2
  <2>9. k <= n BY <1>1, <2>2
  <2>10. Begins(f[k], f[n]) BY <1>1, <1>5, <1>8, <2>2, <2>9, FlattenBegins
  <2>11. Begins(g[k], g[n]) /\ Begins(g[i], g[n])
    <3>1. Begins(g[k], g[n]) BY <1>1, <1>6, <1>9, <2>2, <2>9, FlattenBegins
    <3>2. Begins(g[i], g[n]) BY <1>1, <1>6, <1>9, <2>2, FlattenBegins
    <3>3. QED BY <3>1, <3>2
  <2>12. Len(u) < Len(g[n])
    <3>1. Len(u \o <<Placeholder>>) = Len(u) + 1 /\ Len(u) \in Nat
      <4> HIDE DEF u
      <4>1. Len(u \o <<Placeholder>>) = Len(u) + Len(<<Placeholder>>) /\ Len(u) \in Nat
        BY <1>3, <2>8, JoinedIs
      <4>2. QED BY <1>3, <4>1
    <3>2. Len(g[i]) = Len(u) + 1 BY <2>4, <2>6, <3>1
    <3>3. Len(g[i]) <= Len(g[n]) BY <2>11 DEF Begins
    <3>4. Len(g[n]) \in Nat BY <1>12, <2>2
    <3> HIDE DEF u
    <3>5. QED BY <3>1, <3>2, <3>3, <3>4
  <2>13. TrueARN(f[n]) BY <1>10
  <2>14. f[n] \in Seq(Atoms) /\ g[n] \in Seq(Atoms) BY <1>12, <2>2
  <2>15. Begins(u, f[n]) /\ Begins(u, g[n]) BY <2>3, <2>10, <2>11
  <2> DEFINE a == f[n]
             b == g[n]
  <2>16. TrueARN(b)
    <3>1. TrueARN(a) /\ a \in Seq(Atoms) /\ b \in Seq(Atoms) /\ Begins(u, a) /\ Begins(u, b) /\ Len(u) < Len(b)
      BY <2>12, <2>13, <2>14, <2>15
    <3> HIDE DEF a, b, u
    <3>2. QED BY <2>7, <2>8, <3>1, ResourceAtWill
  <2>17. QED BY <1>11, <2>16 DEF m
<1>15. QED BY <1>13, <1>14

LEMMA BadARNStays ==
  ASSUME NEW e, e.parts \in Seq(Part), BadARN(e), ~RefusedForLength(e),
         NEW values \in [Interpolations(e.parts) -> ArnValues], WithinFields(e.parts, values)
  PROVE  ~TrueARN(Fill(e.parts, values))
<1> SUFFICES ASSUME TrueARN(Fill(e.parts, values)) PROVE FALSE OBVIOUS
<1> DEFINE v == Masked(e.parts, values)
<1>0. TrueARN(Fill(e.parts, v)) /\ \A i \in Interpolations(e.parts) : values[i] \in Seq(Atoms)
  <2>1. \A i \in Interpolations(e.parts) : values[i] \in Seq(Atoms)
    <3>1. \A i \in Interpolations(e.parts) : values[i] \in Seq(STRING)
      BY ValuesAssumption DEF ValuesAssumption
    <3>2. QED BY <3>1, AtomsAre
  <2>2. QED BY <2>1, MaskedIsARN
<1>1. CASE Pure(e)
  <2>1. TextOf(e) \in Text /\ Fill(e.parts, v) = TextOf(e) BY <1>1, PureFill
  <2>2. TrueARN(TextOf(e)) BY <1>0, <2>1
  <2>3. Len(Word(TextOf(e))) >= ArnMinLength BY <1>1 DEF RefusedForLength
  <2>4. ValidARN(TextOf(e)) BY <2>2, <2>3, LiteralARN
  <2>5. QED BY <1>1, <2>4 DEF BadARN
<1>2. CASE ~Pure(e)
  <2> DEFINE parts == e.parts
             n == Len(parts)
             x == Placeholder
             A == Atoms \ {":"}
             c == Compose(parts, <<x>>)
             t == Fill(parts, v)
  <2>1. HasFields(c) /\ ~ValidARNFields(Fields5(c), TRUE) BY <1>2 DEF BadARN
  <2>2. x \in Atoms /\ n \in Nat /\ parts \in Seq(Part)
    <3>1. x \in Atoms BY AtomsAre
    <3>2. n \in Nat BY PartsAre
    <3>3. QED BY <3>1, <3>2
  <2>3. \A i \in Interpolations(parts) : v[i] \in Seq(A)
    <3> TAKE i \in Interpolations(parts)
    <3> DEFINE w == values[i]
    <3>1. v[i] = (IF Colons(w) = {} THEN w ELSE <<x>>) /\ w \in Seq(Atoms) BY <1>0 DEF Masked
    <3>2. CASE Colons(w) = {}
      <4> HIDE DEF w
      <4>1. Len(w) \in Nat /\ DOMAIN w = 1..Len(w) /\ w \in [1..Len(w) -> Atoms] BY <3>1
      <4>2. \A k \in 1..Len(w) : w[k] \in Atoms \ {":"} BY <3>2, <4>1 DEF Colons
      <4>3. w \in [1..Len(w) -> A] BY <4>1, <4>2
      <4> HIDE DEF A
      <4>4. w \in Seq(A) BY <4>1, <4>3
      <4>5. QED BY <3>1, <3>2, <4>4
    <3>3. CASE Colons(w) # {}
      <4>1. x \in A BY <2>2, AtomsAre
      <4> HIDE DEF A, x
      <4>2. <<x>> \in Seq(A) BY <4>1, SingleIs
      <4>3. QED BY <3>1, <3>3, <4>2
    <3>4. QED BY <3>2, <3>3
  <2> HIDE DEF parts, n, A, c, t, v
  <2>4. PICK f : Flattens(Texts(parts, Same(parts, <<x>>)), f, Len(parts))
    BY <2>2, SomeFlattens DEF n
  <2>5. \A i \in Interpolations(parts) : Same(parts, <<x>>)[i] \in Seq(Atoms)
    <3>1. <<x>> \in Seq(Atoms) BY <2>2, SingleIs
    <3>2. QED BY <3>1 DEF Same
  <2>6. c = f[Len(parts)] BY <2>2, <2>4, <2>5, ComposeFills, FillIs DEF c
  <2>7. A \subseteq Atoms /\ ":" \notin A BY DEF A
  <2>8. PICK o : Matches(f[Len(parts)], Fill(parts, v), Holes(parts, f), x, o, A)
    BY <2>2, <2>3, <2>4, <2>7, Substituted
  <2>9. TrueARN(t) BY <1>0 DEF t, parts, v
  <2>10. Matches(c, t, Holes(parts, f), Placeholder, o, A) BY <2>6, <2>8 DEF t
  <2>11. ValidARNFields(Fields5(c), TRUE) BY <2>1, <2>7, <2>9, <2>10, FieldsPermitted
  <2>12. QED BY <2>1, <2>11
<1>3. QED BY <1>1, <1>2

-----------------------------------------------------------------------------
(* CIDR blocks *)

MeansSum(s, h) ==
  h = [D \in SUBSET DOMAIN s |-> IF D = {} THEN 0 ELSE 10 * h[D \ {Max(D)}] + DigitValue(s[Max(D)])]

LEMMA ZeroIs ==
  ASSUME NEW bound \in Nat
  PROVE  Decimal(<<"0">>, bound)
<1> DEFINE s == <<"0">>
           h == CHOOSE g : MeansSum(s, g)
<1>1. DOMAIN s = {1} /\ Len(s) = 1 /\ s[1] = "0" OBVIOUS
<1>2. DigitValue("0") = 0
  <2>1. \A n \in 0..9 : <<"0", "1", "2", "3", "4", "5", "6", "7", "8", "9">>[n + 1] = "0" => n = 0
    OBVIOUS
  <2>2. <<"0", "1", "2", "3", "4", "5", "6", "7", "8", "9">>[0 + 1] = "0" /\ 0 \in 0..9 OBVIOUS
  <2>3. QED BY <2>1, <2>2 DEF DigitValue
<1>3. FoldLeft(LAMBDA n, c : 10 * n + DigitValue(c), 0, s) = h[{1}]
  BY <1>1 DEF FoldLeft, MapThenFoldSet, MeansSum
<1>4. MeansSum(s, h)
  <2> DEFINE g == [D \in SUBSET DOMAIN s |-> 0]
  <2>1. Max({1}) = 1 BY DEF Max
  <2>2. \A D \in SUBSET DOMAIN s :
          g[D] = IF D = {} THEN 0 ELSE 10 * g[D \ {Max(D)}] + DigitValue(s[Max(D)])
    <3> TAKE D \in SUBSET DOMAIN s
    <3>1. g[D] = 0 OBVIOUS
    <3>2. CASE D # {}
      <4>1. D = {1} BY <1>1, <3>2
      <4>2. D \ {Max(D)} \in SUBSET DOMAIN s OBVIOUS
      <4>3. g[D \ {Max(D)}] = 0 BY <4>2
      <4>4. DigitValue(s[Max(D)]) = 0 BY <1>1, <1>2, <2>1, <4>1
      <4> HIDE DEF g, s
      <4>5. QED BY <3>1, <3>2, <4>3, <4>4
    <3>3. QED BY <3>1, <3>2
  <2>3. g = [D \in SUBSET DOMAIN s |-> g[D]] OBVIOUS
  <2> HIDE DEF g, s
  <2>4. g = [D \in SUBSET DOMAIN s |->
               IF D = {} THEN 0 ELSE 10 * g[D \ {Max(D)}] + DigitValue(s[Max(D)])]
    BY <2>2, <2>3
  <2>5. MeansSum(s, g) BY <2>4 DEF MeansSum
  <2>6. QED BY <2>5
<1> HIDE DEF h
<1>5. \A D \in SUBSET DOMAIN s :
        h[D] = IF D = {} THEN 0 ELSE 10 * h[D \ {Max(D)}] + DigitValue(s[Max(D)])
  <2>1. h = [D \in SUBSET DOMAIN s |->
               IF D = {} THEN 0 ELSE 10 * h[D \ {Max(D)}] + DigitValue(s[Max(D)])]
    BY <1>4 DEF MeansSum
  <2> HIDE DEF s
  <2>2. QED BY <2>1, Zenon
<1>6. h[{1}] = 0
  <2>1. Max({1}) = 1 BY DEF Max
  <2>2. {1} \in SUBSET DOMAIN s /\ {} \in SUBSET DOMAIN s BY <1>1
  <2>3. {1} \ {1} = {} /\ {1} # {} OBVIOUS
  <2> HIDE DEF s
  <2>4. h[{1}] = 10 * h[{}] + DigitValue(s[1]) BY <1>5, <2>1, <2>2, <2>3
  <2>5. h[{}] = 0 BY <1>5, <2>2
  <2>6. QED BY <1>1, <1>2, <2>4, <2>5
<1> DEFINE total == FoldLeft(LAMBDA n, c : 10 * n + DigitValue(c), 0, s)
<1>7. total <= bound
  <2>1. total = 0 BY <1>3, <1>6
  <2> HIDE DEF total
  <2>2. QED BY <2>1
<1>8. Len(s) \in 1..3 /\ AllIn(s, Digits) /\ (Len(s) > 1 => s[1] # "0")
  BY <1>1 DEF AllIn, Digits
<1>9. QED BY <1>7, <1>8 DEF Decimal

LEMMA RunIs ==
  ASSUME NEW t \in Seq(Atoms), NEW a \in Nat, NEW e \in 0..Len(t), a <= e
  PROVE  /\ Run(t, a, e) \in Seq(Atoms) /\ Len(Run(t, a, e)) = e - a
         /\ \A q \in a + 1..e : Run(t, a, e)[q - a] = t[q] /\ q - a \in DOMAIN Run(t, a, e)
<1>1. \A q \in a + 1..e : q \in 1..Len(t) OBVIOUS
<1>2. \A q \in a + 1..e : t[q] \in Atoms BY <1>1
<1>3. a + 1 \in Int /\ e \in Int OBVIOUS
<1> DEFINE R == SubSeq(t, a + 1, e)
<1>4. /\ R \in Seq(Atoms)
      /\ Len(R) = (IF a + 1 <= e THEN e - (a + 1) + 1 ELSE 0)
      /\ \A k \in 1..e - (a + 1) + 1 : R[k] = t[(a + 1) + k - 1]
  BY <1>2, <1>3, SubSeqProperties
<1> HIDE DEF R
<1>5. Len(R) = e - a BY <1>4
<1>6. \A q \in a + 1..e : R[q - a] = t[q] /\ q - a \in DOMAIN R
  <2> TAKE q \in a + 1..e
  <2>1. q - a \in 1..e - (a + 1) + 1 /\ (a + 1) + (q - a) - 1 = q /\ q - a \in 1..e - a OBVIOUS
  <2>2. R[q - a] = t[(a + 1) + (q - a) - 1] BY <1>4, <2>1
  <2>3. DOMAIN R = 1..e - a BY <1>4, <1>5
  <2>4. QED BY <2>1, <2>2, <2>3
<1>7. QED BY <1>4, <1>5, <1>6 DEF R, Run

\* Four octets and a prefix length, with the places of what separates them
Octets(t, i, j, k, s) ==
  /\ i < j /\ j < k /\ k < s
  /\ t[i] = "." /\ t[j] = "." /\ t[k] = "." /\ t[s] = "/"
  /\ Decimal(Run(t, 0, i - 1), 255) /\ Decimal(Run(t, i, j - 1), 255)
  /\ Decimal(Run(t, j, k - 1), 255) /\ Decimal(Run(t, k, s - 1), 255)
  /\ Decimal(Run(t, s, Len(t)), 32)

LEMMA RunDigits ==
  ASSUME NEW t \in Seq(Atoms), NEW a \in Nat, NEW e \in 0..Len(t), NEW q \in a + 1..e,
         NEW bound, Decimal(Run(t, a, e), bound)
  PROVE  t[q] \notin Boundary
<1>1. a <= e OBVIOUS
<1>2. Run(t, a, e)[q - a] = t[q] /\ q - a \in DOMAIN Run(t, a, e) BY <1>1, RunIs
<1>3. Run(t, a, e)[q - a] \in Digits BY <1>2 DEF Decimal, AllIn
<1>4. \A x \in Digits : x \notin Boundary BY DEF Digits, Boundary
<1>5. QED BY <1>2, <1>3, <1>4

LEMMA NoOther ==
  ASSUME NEW t \in Seq(Atoms), NEW i \in 1..Len(t), NEW j \in 1..Len(t), NEW k \in 1..Len(t),
         NEW s \in 1..Len(t), Octets(t, i, j, k, s), NEW q \in 1..Len(t), t[q] \in Boundary
  PROVE  q \in {i, j, k, s}
<1> SUFFICES ASSUME q \notin {i, j, k, s} PROVE FALSE OBVIOUS
<1>1. Len(t) \in Nat /\ i < j /\ j < k /\ k < s BY DEF Octets
<1>2. /\ Decimal(Run(t, 0, i - 1), 255) /\ Decimal(Run(t, i, j - 1), 255)
      /\ Decimal(Run(t, j, k - 1), 255) /\ Decimal(Run(t, k, s - 1), 255)
      /\ Decimal(Run(t, s, Len(t)), 32)
  BY DEF Octets
<1>3. /\ i - 1 \in 0..Len(t) /\ j - 1 \in 0..Len(t) /\ k - 1 \in 0..Len(t) /\ s - 1 \in 0..Len(t)
      /\ Len(t) \in 0..Len(t) /\ 0 \in Nat /\ i \in Nat /\ j \in Nat /\ k \in Nat /\ s \in Nat
  BY <1>1
<1>4. \/ q \in 0 + 1..i - 1 \/ q \in i + 1..j - 1 \/ q \in j + 1..k - 1
      \/ q \in k + 1..s - 1 \/ q \in s + 1..Len(t)
  BY <1>1
<1>5. CASE q \in 0 + 1..i - 1 BY <1>2, <1>3, <1>5, RunDigits
<1>6. CASE q \in i + 1..j - 1 BY <1>2, <1>3, <1>6, RunDigits
<1>7. CASE q \in j + 1..k - 1 BY <1>2, <1>3, <1>7, RunDigits
<1>8. CASE q \in k + 1..s - 1 BY <1>2, <1>3, <1>8, RunDigits
<1>9. CASE q \in s + 1..Len(t) BY <1>2, <1>3, <1>9, RunDigits
<1>10. QED BY <1>4, <1>5, <1>6, <1>7, <1>8, <1>9

AddressOf(t, s) == SubSeq(t, 1, s - 1)
DotsOf(t, s) == {i \in DOMAIN AddressOf(t, s) : AddressOf(t, s)[i] = "."}

LEMMA AddressIs ==
  ASSUME NEW t \in Seq(Atoms), NEW s \in 1..Len(t)
  PROVE  DotsOf(t, s) = {i \in 1..s - 1 : t[i] = "."}
<1>1. s - 1 \in 0..Len(t) /\ 0 <= s - 1 /\ 0 \in Nat /\ s - 1 \in Nat OBVIOUS
<1>2. AddressOf(t, s) = Run(t, 0, s - 1)
  <2>1. 0 + 1 = 1 OBVIOUS
  <2>2. QED BY <2>1 DEF AddressOf, Run
<1> DEFINE R == Run(t, 0, s - 1)
<1>3. /\ R \in Seq(Atoms) /\ Len(R) = (s - 1) - 0
      /\ \A q \in 0 + 1..s - 1 : R[q - 0] = t[q] /\ q - 0 \in DOMAIN R
  BY <1>1, RunIs
<1> HIDE DEF R
<1>4. DOMAIN R = 1..s - 1 BY <1>1, <1>3
<1>5. \A q \in 1..s - 1 : R[q] = t[q]
  <2> TAKE q \in 1..s - 1
  <2>1. q \in 0 + 1..s - 1 /\ q - 0 = q OBVIOUS
  <2>2. QED BY <1>3, <2>1
<1>6. QED BY <1>2, <1>4, <1>5 DEF DotsOf, R

LEMMA CidrIs ==
  ASSUME NEW t \in Seq(Atoms)
  PROVE  ValidCIDR(t) <=> \E i, j, k, s \in 1..Len(t) : Octets(t, i, j, k, s)
<1> DEFINE Valid(s) ==
             /\ t[s] = "/"
             /\ Decimal(SubSeq(t, s + 1, Len(t)), 32)
             /\ Cardinality(DotsOf(t, s)) = 3
             /\ \E i, j, k \in DotsOf(t, s) :
                  /\ i < j /\ j < k
                  /\ Decimal(SubSeq(t, 1, i - 1), 255) /\ Decimal(SubSeq(t, i + 1, j - 1), 255)
                  /\ Decimal(SubSeq(t, j + 1, k - 1), 255) /\ Decimal(SubSeq(t, k + 1, s - 1), 255)
<1>1. Len(t) \in Nat /\ DOMAIN t = 1..Len(t) OBVIOUS
<1>2. ValidCIDR(t) <=> \E s \in 1..Len(t) : Valid(s)
  <2>1. ValidCIDR(t) <=> \E s \in DOMAIN t : Valid(s) BY DEF ValidCIDR, DotsOf, AddressOf
  <2> HIDE DEF Valid
  <2>2. QED BY <1>1, <2>1
<1>3. 0 + 1 = 1 OBVIOUS
<1>4. ASSUME NEW s \in 1..Len(t), Valid(s)
      PROVE  \E i, j, k \in 1..Len(t) : Octets(t, i, j, k, s)
  <2>1. PICK i, j, k \in DotsOf(t, s) :
          /\ i < j /\ j < k
          /\ Decimal(SubSeq(t, 1, i - 1), 255) /\ Decimal(SubSeq(t, i + 1, j - 1), 255)
          /\ Decimal(SubSeq(t, j + 1, k - 1), 255) /\ Decimal(SubSeq(t, k + 1, s - 1), 255)
    BY <1>4
  <2>2. /\ i \in 1..s - 1 /\ j \in 1..s - 1 /\ k \in 1..s - 1
        /\ t[i] = "." /\ t[j] = "." /\ t[k] = "."
    BY AddressIs
  <2>3. i \in 1..Len(t) /\ j \in 1..Len(t) /\ k \in 1..Len(t) /\ k < s BY <1>1, <2>2
  <2>4. t[s] = "/" /\ Decimal(SubSeq(t, s + 1, Len(t)), 32) BY <1>4
  <2>5. Octets(t, i, j, k, s) BY <1>3, <2>1, <2>2, <2>3, <2>4 DEF Octets, Run
  <2>6. QED BY <2>3, <2>5
<1>5. ASSUME NEW i \in 1..Len(t), NEW j \in 1..Len(t), NEW k \in 1..Len(t), NEW s \in 1..Len(t),
             Octets(t, i, j, k, s)
      PROVE  Valid(s)
  <2>1. i < j /\ j < k /\ k < s /\ t[i] = "." /\ t[j] = "." /\ t[k] = "." /\ t[s] = "/"
    BY <1>5 DEF Octets
  <2>2. /\ Decimal(SubSeq(t, 1, i - 1), 255) /\ Decimal(SubSeq(t, i + 1, j - 1), 255)
        /\ Decimal(SubSeq(t, j + 1, k - 1), 255) /\ Decimal(SubSeq(t, k + 1, s - 1), 255)
        /\ Decimal(SubSeq(t, s + 1, Len(t)), 32)
    BY <1>3, <1>5 DEF Octets, Run
  <2>3. i \in 1..s - 1 /\ j \in 1..s - 1 /\ k \in 1..s - 1 /\ s \notin 1..s - 1 BY <1>1, <2>1
  <2>4. DotsOf(t, s) = {i, j, k}
    <3>1. DotsOf(t, s) = {q \in 1..s - 1 : t[q] = "."} BY AddressIs
    <3>2. \A q \in 1..s - 1 : t[q] = "." => q \in {i, j, k}
      <4> SUFFICES ASSUME NEW q \in 1..s - 1, t[q] = "." PROVE q \in {i, j, k} OBVIOUS
      <4>1. q \in 1..Len(t) /\ q # s BY <1>1
      <4>2. t[q] \in Boundary BY DEF Boundary
      <4>3. q \in {i, j, k, s} BY <1>5, <4>1, <4>2, NoOther
      <4>4. QED BY <4>1, <4>3
    <3>3. QED BY <2>1, <2>3, <3>1, <3>2
  <2>5. Cardinality({i, j, k}) = 3 BY <2>1, ThreeAre
  <2>6. i \in DotsOf(t, s) /\ j \in DotsOf(t, s) /\ k \in DotsOf(t, s) BY <2>4
  <2>7. Cardinality(DotsOf(t, s)) = 3 BY <2>4, <2>5
  <2>8. QED BY <2>1, <2>2, <2>6, <2>7
<1> HIDE DEF Valid
<1>6. QED BY <1>2, <1>4, <1>5

\* No atom but a boundary is beside a hole.
Apart(c, H) ==
  \A p \in H : /\ p > 1 => c[p - 1] \in Boundary
               /\ p < Len(c) => c[p + 1] \in Boundary

LEMMA HolesApart ==
  ASSUME NEW parts \in Seq(Part), NEW x \in Atoms, CidrHasEnoughShape(parts),
         NEW f, Flattens(Texts(parts, Same(parts, <<x>>)), f, Len(parts))
  PROVE  Apart(f[Len(parts)], Holes(parts, f))
<1> DEFINE n == Len(parts)
           ss == Texts(parts, Same(parts, <<x>>))
           c == f[n]
<1>1. /\ n \in Nat /\ DOMAIN parts = 1..n /\ \A i \in 1..n : parts[i].text \in Seq(Atoms)
      /\ Interpolations(parts) = {i \in 1..n : Interpolation(parts, i)}
  BY PartsAre
<1>2. <<x>> \in Seq(Atoms) /\ Len(<<x>>) = 1 /\ <<x>>[1] = x BY SingleIs
<1>3. ss \in [1..n -> Seq(Atoms)]
  <2>1. \A i \in Interpolations(parts) : Same(parts, <<x>>)[i] \in Seq(Atoms) BY <1>2 DEF Same
  <2>2. QED BY <2>1, TextsAre
<1>4. \A i \in 1..n : ss[i] = IF Interpolation(parts, i) THEN <<x>> ELSE parts[i].text
  BY <1>1 DEF Texts, Same
<1>5. Flattens(ss, f, n) OBVIOUS
<1> HIDE DEF ss, c, n
<1>6. \A i \in 0..n : f[i] \in Seq(Atoms) BY <1>1, <1>3, <1>5, FlattenTypes
<1>7. \A i \in 1..n : f[i] = f[i - 1] \o ss[i] BY <1>5 DEF Flattens
<1>8. \A i \in 0..n : Begins(f[i], c)
  <2> TAKE i \in 0..n
  <2>1. n \in 0..n /\ i <= n BY <1>1
  <2>2. QED BY <1>1, <1>3, <1>5, <2>1, FlattenBegins DEF c
<1>9. ASSUME NEW i \in 1..n, Interpolation(parts, i)
      PROVE  /\ Len(f[i]) > 1 => c[Len(f[i]) - 1] \in Boundary
             /\ Len(f[i]) < Len(c) => c[Len(f[i]) + 1] \in Boundary
  <2> DEFINE p == Len(f[i])
             u == f[i - 1]
  <2>1. i - 1 \in 0..n /\ i \in 0..n BY <1>1
  <2>2. u \in Seq(Atoms) /\ f[i] = u \o <<x>> BY <1>4, <1>6, <1>7, <1>9, <2>1
  <2>3. p = Len(u) + 1 /\ Len(u) \in Nat BY <1>2, <2>2, JoinedIs
  <2>4. /\ i > 1 => ~Interpolation(parts, i - 1) /\ EndsIn(parts[i - 1].text, Boundary)
        /\ i < n => ~Interpolation(parts, i + 1) /\ StartsIn(parts[i + 1].text, Boundary)
    BY <1>1, <1>9 DEF CidrHasEnoughShape, n
  <2>5. ASSUME p > 1 PROVE c[p - 1] \in Boundary
    <3>1. i # 1
      <4>1. f[0] = << >> BY <1>5 DEF Flattens
      <4>2. Len(u) # 0 BY <2>3, <2>5
      <4>3. QED BY <4>1, <4>2
    <3>2. i > 1 /\ i - 1 \in 1..n /\ i - 1 - 1 \in 0..n BY <1>1, <3>1
    <3> DEFINE y == f[i - 1 - 1]
               w == parts[i - 1].text
    <3>3. u = y \o w /\ y \in Seq(Atoms) /\ w \in Seq(Atoms) BY <1>1, <1>4, <1>6, <1>7, <2>4, <3>2
    <3>4. w # << >> /\ Last(w) \in Boundary BY <2>4, <3>2 DEF EndsIn
    <3> HIDE DEF y, w, u, p
    <3>5. Len(w) \in 1..Len(w) /\ w[Len(w)] \in Boundary
      <4>1. Len(w) \in Nat /\ Len(w) # 0 BY <3>3, <3>4, EmptySeq
      <4>2. QED BY <3>4, <4>1 DEF Last
    <3>6. Len(u) = Len(y) + Len(w) /\ (y \o w)[Len(y) + Len(w)] = w[Len(w)] /\ Len(y) \in Nat
      BY <3>3, <3>5, JoinedIs
    <3>7. u[Len(u)] \in Boundary BY <3>3, <3>5, <3>6
    <3>8. Len(u) \in 1..Len(u) BY <3>5, <3>6
    <3>9. c[Len(u)] = u[Len(u)]
      <4>1. Begins(u, c) BY <1>8, <2>1 DEF u
      <4>2. QED BY <3>8, <4>1 DEF Begins
    <3>10. p - 1 = Len(u) BY <2>3
    <3>11. QED BY <3>7, <3>9, <3>10
  <2>6. ASSUME p < Len(c) PROVE c[p + 1] \in Boundary
    <3>1. i < n
      <4>1. CASE i = n BY <2>3, <2>6, <4>1 DEF c
      <4>2. QED BY <1>1, <4>1
    <3>2. i + 1 \in 1..n /\ i + 1 \in 0..n /\ i + 1 - 1 = i BY <1>1, <3>1
    <3> DEFINE y == f[i]
               w == parts[i + 1].text
    <3>3. f[i + 1] = y \o w /\ y \in Seq(Atoms) /\ w \in Seq(Atoms)
      <4>1. ss[i + 1] = w BY <1>4, <2>4, <3>1, <3>2
      <4>2. f[i + 1] = f[i] \o ss[i + 1]
        <5>1. \A m \in 1..n, k \in 0..n : k = m - 1 => f[m] = f[k] \o ss[m] BY <1>7
        <5>2. i + 1 \in 1..n /\ i \in 0..n /\ i = i + 1 - 1 BY <2>1, <3>2
        <5> DEFINE m == i + 1
        <5>3. m \in 1..n /\ i = m - 1 BY <5>2
        <5> HIDE DEF m, y, w, p, u
        <5>4. f[m] = f[i] \o ss[m] BY <5>1, <5>2, <5>3
        <5>5. QED BY <5>4 DEF m
      <4>3. y \in Seq(Atoms) /\ w \in Seq(Atoms) BY <1>1, <1>6, <2>1, <3>2
      <4>4. QED BY <3>2, <4>1, <4>2, <4>3
    <3>4. w # << >> /\ Head(w) \in Boundary BY <2>4, <3>1 DEF StartsIn
    <3>5. p = Len(y) OBVIOUS
    <3> HIDE DEF y, w, u, p
    <3>6. 1 \in 1..Len(w) /\ w[1] \in Boundary
      <4>1. Len(w) \in Nat /\ Len(w) # 0 BY <3>3, <3>4, EmptySeq
      <4>2. QED BY <3>3, <3>4, <4>1
    <3>7. Len(y \o w) = Len(y) + Len(w) /\ (y \o w)[Len(y) + 1] = w[1] /\ Len(y) \in Nat /\ Len(w) \in Nat
      BY <3>3, <3>6, JoinedIs
    <3>8. p + 1 \in 1..Len(y \o w) BY <3>5, <3>6, <3>7
    <3>9. c[p + 1] = (y \o w)[p + 1]
      <4>1. Begins(y \o w, c) BY <1>8, <3>2, <3>3
      <4>2. QED BY <3>8, <4>1 DEF Begins
    <3>10. QED BY <3>5, <3>6, <3>7, <3>9
  <2>7. QED BY <2>5, <2>6
<1>10. \A p \in Holes(parts, f) : \E i \in 1..n : Interpolation(parts, i) /\ p = Len(f[i])
  BY <1>1 DEF Holes, HolesIn
<1>11. QED BY <1>9, <1>10 DEF Apart, c, n

Separated(t, i, j, k, s) ==
  /\ i < j /\ j < k /\ k < s
  /\ t[i] = "." /\ t[j] = "." /\ t[k] = "." /\ t[s] = "/"

LEMMA Pinned ==
  ASSUME NEW parts, ShapePinned(parts), LiteralString(parts) \in Seq(Atoms)
  PROVE  \E i, j, k, s \in 1..Len(LiteralString(parts)) : Separated(LiteralString(parts), i, j, k, s)
<1> DEFINE t == LiteralString(parts)
           I == {i \in 1..Len(t) : t[i] = "/"}
           s == IF I # {} THEN Min(I) ELSE 0
           D == {i \in 1..s - 1 : t[i] = "."}
<1>1. s # 0 /\ Cardinality(D) = 3 BY DEF ShapePinned, SelectInSeq
<1>2. Len(t) \in Nat OBVIOUS
<1>3. s \in I
  <2>1. I # {} /\ s = Min(I) BY <1>1
  <2>2. \E m \in I : \A n \in I : m <= n
    <3>1. I \in SUBSET Nat OBVIOUS
    <3> HIDE DEF I
    <3>2. QED BY <2>1, <3>1, Least
  <2>3. Min(I) = CHOOSE m \in I : \A n \in I : m <= n BY DEF Min
  <2> HIDE DEF I, s
  <2>4. QED BY <2>1, <2>2, <2>3
<1>4. s \in 1..Len(t) /\ t[s] = "/"
  <2> HIDE DEF s, t
  <2>1. QED BY <1>3
<1> HIDE DEF s, t, I
<1>5. D \in SUBSET Nat /\ IsFiniteSet(D)
  <2>1. D \subseteq 1..s - 1 /\ s - 1 \in Int BY <1>4
  <2>2. IsFiniteSet(1..s - 1) BY <2>1, FS_Interval
  <2>3. \A q \in 1..s - 1 : q \in Nat BY <2>1
  <2>4. QED BY <2>1, <2>2, <2>3, FS_Subset
<1>6. PICK i, j, k \in D : i < j /\ j < k
  <2> HIDE DEF D
  <2>1. QED BY <1>1, <1>5, ThreeInOrder
<1>7. /\ i \in 1..s - 1 /\ j \in 1..s - 1 /\ k \in 1..s - 1
      /\ t[i] = "." /\ t[j] = "." /\ t[k] = "."
  OBVIOUS
<1>8. i \in 1..Len(t) /\ j \in 1..Len(t) /\ k \in 1..Len(t) /\ k < s BY <1>2, <1>4, <1>7
<1>9. Separated(t, i, j, k, s) BY <1>4, <1>6, <1>7, <1>8 DEF Separated
<1>10. QED BY <1>4, <1>8, <1>9 DEF t

\* What separates the octets is in the literal parts.
LEMMA SeparatedIn ==
  ASSUME NEW c, NEW t, NEW H, NEW x, NEW o, Matches(c, t, H, x, o, {}),
         NEW i \in 1..Len(t), NEW j \in 1..Len(t), NEW k \in 1..Len(t), NEW s \in 1..Len(t),
         Separated(t, i, j, k, s)
  PROVE  \E a, b, d, e \in 1..Len(c) \ H : Separated(c, a, b, d, e)
<1>1. \A y \in 1..Len(t) : \E p \in 1..Len(c) \ H : o[p] = y
  <2> TAKE y \in 1..Len(t)
  <2>1. t[y] \notin {} OBVIOUS
  <2>2. QED BY <2>1, CameFrom
<1>2. PICK a \in 1..Len(c) \ H : o[a] = i BY <1>1
<1>3. PICK b \in 1..Len(c) \ H : o[b] = j BY <1>1
<1>4. PICK d \in 1..Len(c) \ H : o[d] = k BY <1>1
<1>5. PICK e \in 1..Len(c) \ H : o[e] = s BY <1>1
<1>6. /\ Len(c) \in Nat /\ Len(t) \in Nat
      /\ \A p \in 1..Len(c) \ H : t[o[p]] = c[p] /\ p \in 0..Len(c)
  BY MatchTypes
<1>7. i < j /\ j < k /\ k < s /\ t[i] = "." /\ t[j] = "." /\ t[k] = "." /\ t[s] = "/" BY DEF Separated
<1>8. ASSUME NEW p \in 1..Len(c) \ H, NEW q \in 1..Len(c) \ H,
             o[p] \in Nat, o[q] \in Nat, o[p] < o[q]
      PROVE  p < q
  <2> SUFFICES ASSUME ~(p < q) PROVE FALSE OBVIOUS
  <2>1. q <= p /\ p \in 0..Len(c) /\ q \in 0..Len(c) BY <1>6
  <2>2. o[q] <= o[p] BY <2>1, Ascends
  <2>3. QED BY <1>8, <2>2
<1>9. a < b /\ b < d /\ d < e
  <2>1. i \in Nat /\ j \in Nat /\ k \in Nat /\ s \in Nat OBVIOUS
  <2>2. o[a] \in Nat /\ o[b] \in Nat /\ o[d] \in Nat /\ o[e] \in Nat BY <1>2, <1>3, <1>4, <1>5, <2>1
  <2>3. o[a] < o[b] /\ o[b] < o[d] /\ o[d] < o[e] BY <1>2, <1>3, <1>4, <1>5, <1>7
  <2>4. QED BY <1>8, <2>2, <2>3
<1>10. c[a] = "." /\ c[b] = "." /\ c[d] = "." /\ c[e] = "/" BY <1>2, <1>3, <1>4, <1>5, <1>6, <1>7
<1>11. Separated(c, a, b, d, e) BY <1>9, <1>10 DEF Separated
<1>12. QED BY <1>11

Clear(c, a, e) == \A p \in a + 1..e : c[p] \notin Boundary

\* Where t has a number, c has it too, or a hole that stands for one.
LEMMA SameNumber ==
  ASSUME NEW c, NEW t, NEW H, NEW o, NEW A, Matches(c, t, H, "0", o, A), Apart(c, H),
         NEW a \in 0..Len(c), NEW e \in 0..Len(c), a <= e, Clear(c, a, e),
         NEW bound \in Nat, Decimal(Run(t, o[a], o[e]), bound)
  PROVE  Decimal(Run(c, a, e), bound)
<1>1. CASE NoHole(H, a, e)
  <2>1. Run(c, a, e) = Run(t, o[a], o[e]) BY <1>1, CopiedRun
  <2>2. QED BY <2>1
<1>2. CASE ~NoHole(H, a, e)
  <2>1. PICK p \in a + 1..e : p \in H BY <1>2 DEF NoHole
  <2>2. c \in Seq(Atoms) /\ Len(c) \in Nat /\ c[p] = "0" BY <2>1, MatchTypes DEF Matches
  <2>3. p = a + 1
    <3> SUFFICES ASSUME p # a + 1 PROVE FALSE OBVIOUS
    <3>1. p > 1 /\ p - 1 \in a + 1..e BY <2>1, <2>2
    <3>2. c[p - 1] \in Boundary BY <2>1, <3>1 DEF Apart
    <3>3. QED BY <3>1, <3>2 DEF Clear
  <2>4. p = e
    <3> SUFFICES ASSUME p # e PROVE FALSE OBVIOUS
    <3>1. p < Len(c) /\ p + 1 \in a + 1..e BY <2>1, <2>2
    <3>2. c[p + 1] \in Boundary BY <2>1, <3>1 DEF Apart
    <3>3. QED BY <3>1, <3>2 DEF Clear
  <2> DEFINE R == Run(c, a, e)
  <2>5. /\ R \in Seq(Atoms) /\ Len(R) = e - a
        /\ \A q \in a + 1..e : R[q - a] = c[q]
    <3>1. a \in Nat OBVIOUS
    <3>2. QED BY <2>2, <3>1, RunIs
  <2> HIDE DEF R
  <2>6. Len(R) = 1 /\ R[1] = "0"
    <3>1. a \in Nat /\ e - a = 1 /\ p - a = 1 BY <2>2, <2>3, <2>4
    <3>2. R[p - a] = c[p] BY <2>1, <2>5
    <3>3. QED BY <2>2, <2>5, <3>1, <3>2
  <2>7. R = <<"0">>
    <3>1. "0" \in Atoms BY AtomsAre
    <3>2. <<"0">> \in Seq(Atoms) /\ Len(<<"0">>) = 1 /\ <<"0">>[1] = "0" BY <3>1, SingleIs
    <3>3. \A q \in 1..1 : q = 1 OBVIOUS
    <3>4. QED BY <2>5, <2>6, <3>2, <3>3, SeqEqual
  <2>8. Decimal(<<"0">>, bound) BY ZeroIs
  <2>9. QED BY <2>7, <2>8 DEF R
<1>3. QED BY <1>1, <1>2

\* A block that its template could not come from, with a number for every hole.
LEMMA BlockFrom ==
  ASSUME NEW c, NEW t, NEW H, NEW o, NEW A, Matches(c, t, H, "0", o, A), Apart(c, H),
         NEW a \in 1..Len(c) \ H, NEW b \in 1..Len(c) \ H, NEW d \in 1..Len(c) \ H,
         NEW e \in 1..Len(c) \ H, Separated(c, a, b, d, e), ValidCIDR(t)
  PROVE  ValidCIDR(c)
<1>1. /\ c \in Seq(Atoms) /\ t \in Seq(Atoms) /\ o[0] = 0 /\ o[Len(c)] = Len(t)
      /\ \A p \in H : c[p] = "0"
  BY DEF Matches
<1>2. PICK i, j, k, s \in 1..Len(t) : Octets(t, i, j, k, s) BY <1>1, CidrIs
<1>3. /\ Len(c) \in Nat /\ Len(t) \in Nat
      /\ \A p \in 1..Len(c) \ H : o[p] = o[p - 1] + 1 /\ t[o[p]] = c[p] /\ o[p] \in 1..Len(t)
      /\ \A p \in 0..Len(c) : o[p] \in 0..Len(t)
  BY MatchTypes
<1>4. /\ a < b /\ b < d /\ d < e
      /\ c[a] = "." /\ c[b] = "." /\ c[d] = "." /\ c[e] = "/"
  BY DEF Separated
<1>5. i < j /\ j < k /\ k < s BY <1>2 DEF Octets
<1>6. ASSUME NEW p \in 1..Len(c), c[p] \in Boundary
      PROVE  p \in 1..Len(c) \ H /\ o[p] \in {i, j, k, s}
  <2>1. p \notin H
    <3>1. "0" \notin Boundary BY DEF Boundary
    <3>2. QED BY <1>1, <1>6, <3>1
  <2>2. o[p] \in 1..Len(t) /\ t[o[p]] \in Boundary BY <1>3, <1>6, <2>1
  <2>3. o[p] \in {i, j, k, s} BY <1>1, <1>2, <2>2, NoOther
  <2>4. QED BY <2>1, <2>3
<1>7. \A p \in 0..Len(c), q \in 1..Len(c) \ H : p < q => o[p] < o[q] BY Climbs
<1>8. /\ a \in 0..Len(c) /\ b \in 0..Len(c) /\ d \in 0..Len(c) /\ e \in 0..Len(c)
      /\ 0 \in 0..Len(c) /\ Len(c) \in 0..Len(c)
      /\ a - 1 \in 0..Len(c) /\ b - 1 \in 0..Len(c) /\ d - 1 \in 0..Len(c) /\ e - 1 \in 0..Len(c)
      /\ 0 <= a - 1 /\ a <= b - 1 /\ b <= d - 1 /\ d <= e - 1 /\ e <= Len(c)
  <2> DEFINE n == Len(c)
  <2>1. n \in Nat /\ a \in 1..n /\ b \in 1..n /\ d \in 1..n /\ e \in 1..n /\ a < b /\ b < d /\ d < e
    BY <1>3, <1>4
  <2> HIDE DEF n
  <2>2. a \in 0..n /\ b \in 0..n /\ d \in 0..n /\ e \in 0..n /\ 0 \in 0..n /\ n \in 0..n BY <2>1
  <2>3. a - 1 \in 0..n /\ b - 1 \in 0..n /\ d - 1 \in 0..n /\ e - 1 \in 0..n BY <2>1
  <2>4. 0 <= a - 1 /\ a <= b - 1 /\ b <= d - 1 /\ d <= e - 1 /\ e <= n BY <2>1
  <2>5. QED BY <2>2, <2>3, <2>4 DEF n
<1>9. o[a] = i /\ o[b] = j /\ o[d] = k /\ o[e] = s
  <2>1. c[a] \in Boundary /\ c[b] \in Boundary /\ c[d] \in Boundary /\ c[e] \in Boundary
    BY <1>4 DEF Boundary
  <2>2. o[a] \in {i, j, k, s} /\ o[b] \in {i, j, k, s} /\ o[d] \in {i, j, k, s} /\ o[e] \in {i, j, k, s}
    BY <1>6, <2>1
  <2>3. o[a] < o[b] /\ o[b] < o[d] /\ o[d] < o[e] BY <1>4, <1>7, <1>8
  <2>4. i \in Nat /\ j \in Nat /\ k \in Nat /\ s \in Nat OBVIOUS
  <2>5. QED BY <1>5, <2>2, <2>3, <2>4
<1>10. o[a - 1] = i - 1 /\ o[b - 1] = j - 1 /\ o[d - 1] = k - 1 /\ o[e - 1] = s - 1
  <2>1. ASSUME NEW p \in 1..Len(c) \ H, NEW y \in Nat, o[p] = y PROVE o[p - 1] = y - 1
    <3>1. p - 1 \in 0..Len(c) BY <1>3
    <3>2. o[p - 1] \in Nat BY <1>3, <3>1
    <3>3. y = o[p - 1] + 1 BY <1>3, <2>1
    <3>4. \A m, l \in Nat : l = m + 1 => m = l - 1 OBVIOUS
    <3>5. QED BY <3>2, <3>3, <3>4
  <2>2. i \in Nat /\ j \in Nat /\ k \in Nat /\ s \in Nat OBVIOUS
  <2>3. QED BY <1>9, <2>1, <2>2
\* No place between two of the four is a boundary.
<1>11. /\ Clear(c, 0, a - 1) /\ Clear(c, a, b - 1) /\ Clear(c, b, d - 1)
       /\ Clear(c, d, e - 1) /\ Clear(c, e, Len(c))
  <2> DEFINE Between(p) ==
               \/ p < a \/ (a < p /\ p < b) \/ (b < p /\ p < d) \/ (d < p /\ p < e) \/ e < p
  <2>1. ASSUME NEW p \in 1..Len(c), Between(p), c[p] \in Boundary PROVE FALSE
    <3>1. p \in 1..Len(c) \ H /\ o[p] \in {i, j, k, s} /\ p \in 0..Len(c) BY <1>3, <1>6, <2>1
    <3>2. /\ p < a => o[p] < i
          /\ (a < p => i < o[p]) /\ (p < b => o[p] < j)
          /\ (b < p => j < o[p]) /\ (p < d => o[p] < k)
          /\ (d < p => k < o[p]) /\ (p < e => o[p] < s)
          /\ (e < p => s < o[p])
      BY <1>7, <1>8, <1>9, <3>1
    <3>3. i \in Nat /\ j \in Nat /\ k \in Nat /\ s \in Nat OBVIOUS
    <3>4. QED BY <1>5, <2>1, <3>1, <3>2, <3>3
  <2>2. /\ \A p \in 0 + 1..a - 1 : p \in 1..Len(c) /\ Between(p)
        /\ \A p \in a + 1..b - 1 : p \in 1..Len(c) /\ Between(p)
        /\ \A p \in b + 1..d - 1 : p \in 1..Len(c) /\ Between(p)
        /\ \A p \in d + 1..e - 1 : p \in 1..Len(c) /\ Between(p)
        /\ \A p \in e + 1..Len(c) : p \in 1..Len(c) /\ Between(p)
    <3> DEFINE n == Len(c)
    <3>1. n \in Nat /\ a \in 1..n /\ b \in 1..n /\ d \in 1..n /\ e \in 1..n BY <1>3
    <3> HIDE DEF n
    <3>2. \A p \in 0 + 1..a - 1 : p \in 1..n /\ Between(p) BY <3>1
    <3>3. \A p \in a + 1..b - 1 : p \in 1..n /\ Between(p) BY <3>1
    <3>4. \A p \in b + 1..d - 1 : p \in 1..n /\ Between(p) BY <3>1
    <3>5. \A p \in d + 1..e - 1 : p \in 1..n /\ Between(p) BY <3>1
    <3>6. \A p \in e + 1..n : p \in 1..n /\ Between(p) BY <3>1
    <3> HIDE DEF Between
    <3>7. QED BY <3>2, <3>3, <3>4, <3>5, <3>6 DEF n
  <2> HIDE DEF Between
  <2>3. QED BY <2>1, <2>2 DEF Clear
<1>12. /\ Decimal(Run(t, o[0], o[a - 1]), 255) /\ Decimal(Run(t, o[a], o[b - 1]), 255)
       /\ Decimal(Run(t, o[b], o[d - 1]), 255) /\ Decimal(Run(t, o[d], o[e - 1]), 255)
       /\ Decimal(Run(t, o[e], o[Len(c)]), 32)
  BY <1>1, <1>2, <1>9, <1>10 DEF Octets
<1>13. 255 \in Nat /\ 32 \in Nat OBVIOUS
<1>14. Decimal(Run(c, 0, a - 1), 255)
  <2> DEFINE y == 0
             z == a - 1
  <2>1. y \in 0..Len(c) /\ z \in 0..Len(c) /\ y <= z BY <1>8
  <2>2. Clear(c, y, z) /\ Decimal(Run(t, o[y], o[z]), 255) BY <1>11, <1>12
  <2> HIDE DEF y, z
  <2>3. Decimal(Run(c, y, z), 255) BY <1>13, <2>1, <2>2, SameNumber
  <2>4. QED BY <2>3 DEF y, z
<1>15. Decimal(Run(c, a, b - 1), 255) BY <1>8, <1>11, <1>12, <1>13, SameNumber
<1>16. Decimal(Run(c, b, d - 1), 255) BY <1>8, <1>11, <1>12, <1>13, SameNumber
<1>17. Decimal(Run(c, d, e - 1), 255) BY <1>8, <1>11, <1>12, <1>13, SameNumber
<1>18. Decimal(Run(c, e, Len(c)), 32) BY <1>8, <1>11, <1>12, <1>13, SameNumber
<1>19. Octets(c, a, b, d, e) BY <1>4, <1>14, <1>15, <1>16, <1>17, <1>18 DEF Octets
<1>20. QED BY <1>1, <1>19, CidrIs

LEMMA BadCIDRStays ==
  ASSUME NEW e, e.parts \in Seq(Part), BadCIDR(e),
         NEW v \in [Interpolations(e.parts) -> CidrValues]
  PROVE  ~ValidCIDR(Fill(e.parts, v))
<1> DEFINE parts == e.parts
           n == Len(parts)
<1>1. CASE IsAllLiteral(parts)
  <2>1. \A i \in DOMAIN parts : ~Interpolation(parts, i) BY <1>1 DEF IsAllLiteral
  <2>2. [i \in DOMAIN parts |-> IF Interpolation(parts, i) THEN << >> ELSE parts[i].text]
          = [i \in DOMAIN parts |-> IF Interpolation(parts, i) THEN v[i] ELSE parts[i].text]
    BY <2>1
  <2>3. LiteralString(parts) = Fill(parts, v) BY <2>2 DEF LiteralString, Compose, Fill
  <2>4. ~ValidCIDR(LiteralString(parts)) BY <1>1 DEF BadCIDR
  <2>5. QED BY <2>3, <2>4
<1>2. CASE ~IsAllLiteral(parts)
  <2> SUFFICES ASSUME ValidCIDR(Fill(parts, v)) PROVE FALSE OBVIOUS
  <2>1. CidrHasEnoughShape(parts) /\ ~ValidCIDR(Compose(parts, <<"0">>)) BY <1>2 DEF BadCIDR
  <2>2. "0" \in Atoms /\ parts \in Seq(Part) /\ n \in Nat
    <3>1. "0" \in Atoms BY AtomsAre
    <3>2. n \in Nat BY PartsAre
    <3>3. QED BY <3>1, <3>2
  <2>3. \A i \in Interpolations(parts) : v[i] \in Seq(Atoms)
    <3>1. \A i \in Interpolations(parts) : v[i] \in Seq(STRING) BY ValuesAssumption DEF ValuesAssumption
    <3>2. QED BY <3>1, AtomsAre
  <2> HIDE DEF parts, n
  <2>4. PICK f : Flattens(Texts(parts, Same(parts, <<"0">>)), f, Len(parts))
    BY <2>2, SomeFlattens DEF n
  <2> DEFINE c == f[Len(parts)]
             t == Fill(parts, v)
             H == Holes(parts, f)
             text == LiteralString(parts)
  <2>5. c = Compose(parts, <<"0">>)
    <3>1. \A i \in Interpolations(parts) : Same(parts, <<"0">>)[i] \in Seq(Atoms)
      <4>1. <<"0">> \in Seq(Atoms) BY <2>2, SingleIs
      <4>2. QED BY <4>1 DEF Same
    <3>2. QED BY <2>2, <2>4, <3>1, ComposeFills, FillIs
  <2>6. PICK o : Matches(c, t, H, "0", o, Atoms) BY <2>2, <2>3, <2>4, Substituted
  <2>7. PICK o2 : Matches(c, text, H, "0", o2, {})
    <3>1. \A i \in Interpolations(parts) : Same(parts, << >>)[i] \in Seq({})
      <4>1. << >> \in Seq({}) OBVIOUS
      <4>2. QED BY <4>1 DEF Same
    <3>2. {} \subseteq Atoms OBVIOUS
    <3>3. \E p : Matches(f[Len(parts)], Fill(parts, Same(parts, << >>)), Holes(parts, f), "0", p, {})
      BY <2>2, <2>4, <3>1, <3>2, Substituted
    <3>4. text = Fill(parts, Same(parts, << >>)) BY ComposeFills DEF LiteralString
    <3>5. QED BY <3>3, <3>4
  <2>8. Apart(c, H) BY <2>1, <2>2, <2>4, HolesApart
  <2>9. PICK i, j, k, s \in 1..Len(text) : Separated(text, i, j, k, s)
    <3>1. text \in Seq(Atoms) BY <2>7 DEF Matches
    <3>2. ShapePinned(parts) BY <2>1 DEF CidrHasEnoughShape
    <3>3. QED BY <3>1, <3>2, Pinned
  <2> HIDE DEF c, H, text, t
  <2>10. PICK a, b, d, g \in 1..Len(c) \ H : Separated(c, a, b, d, g) BY <2>7, <2>9, SeparatedIn
  <2>11. ValidCIDR(t) BY DEF t
  <2>12. ValidCIDR(c) BY <2>6, <2>8, <2>10, <2>11, BlockFrom
  <2>13. QED BY <2>1, <2>5, <2>12
<1>3. QED BY <1>1, <1>2

\* What a violation of E101 or E203 is about
LEMMA Reported ==
  ASSUME FamilyInv, NEW v \in violations, v[1] \in {"E101", "E203"}
  PROVE  Bad(v[1], ExprAt(v)) /\ ExprAt(v).parts \in Seq(Part)
<1>1. PICK m \in 1..next - 1 : v \in Called(Codes[m]) BY DEF FamilyInv, Sound
<1> DEFINE c == Codes[m]
           p == v[2]
           attrs == file[p].attrs
           e == ExprAt(v)
<1>2. c \in Range(Codes)
  <2>1. Len(Codes) = 6 /\ DOMAIN Codes = 1..6 BY DEF Codes
  <2>2. m \in 1..6 BY <2>1 DEF FamilyInv
  <2>3. QED BY <2>1, <2>2 DEF Range
<1>3. v[1] = c
  <2>1. c \in {"E101", "E201", "E202", "E203", "E204", "E210"} BY <1>2 DEF Range, Codes
  <2>2. CASE c = "E204"
    <3>1. Called(c) = {<<c, q, "bucket", 0>> : q \in WrongBuckets} BY <2>2 DEF Called
    <3>2. QED BY <1>1, <3>1
  <2>3. CASE c = "E210"
    <3>1. Called(c) = {<<c, q, "", 0>> : q \in
                         {q \in DOMAIN file : Len(q) = 2 /\ Typo(file[Front(q)], file[q])}}
      BY <2>3 DEF Called
    <3>2. PICK q \in DOMAIN file : v = <<c, q, "", 0>> BY <1>1, <3>1
    <3>3. QED BY <3>2
  <2>4. CASE c \notin {"E204", "E210"}
    <3>1. Called(c) = UNION {Reports(c, q) : q \in {q \in DOMAIN file : Applies(c, q)}}
      BY <2>4 DEF Called
    <3>2. QED BY <1>1, <3>1 DEF Reports
  <2>5. QED BY <2>1, <2>2, <2>3, <2>4
<1>4. p \in DOMAIN file /\ v \in Reports(c, p)
  <2>1. c \in WalkCodes BY <1>3 DEF WalkCodes
  <2>2. QED BY <1>1, <1>2, <2>1, CalledAt
<1>5. \A a \in DOMAIN attrs : IsExpression(attrs[a]) BY <1>4 DEF FamilyInv, FileOK, WellFormedConfig
<1>6. IsParsed(e) /\ Bad(c, e)
  <2>1. CASE v \in {<<c, p, a, 0>> : a \in {a \in DOMAIN attrs \cap ScalarTriggers[c] : Bad(c, attrs[a])}}
    <3>1. PICK a \in DOMAIN attrs : v = <<c, p, a, 0>> /\ Bad(c, attrs[a]) BY <2>1
    <3>2. v[3] = a /\ v[4] = 0 BY <3>1
    <3>3. e = attrs[a] BY <3>2 DEF ExprAt
    <3>4. QED BY <1>5, <3>1, <3>3 DEF IsExpression
  <2>2. CASE v \notin {<<c, p, a, 0>> : a \in {a \in DOMAIN attrs \cap ScalarTriggers[c] : Bad(c, attrs[a])}}
    <3> DEFINE Elements(a) == IF attrs[a].k = "tuple"
                              THEN {i \in DOMAIN attrs[a].elems : Bad(c, attrs[a].elems[i])} ELSE {}
    <3>1. PICK a \in DOMAIN attrs : v \in {<<c, p, a, i>> : i \in Elements(a)} BY <1>4, <2>2 DEF Reports
    <3>2. PICK i \in Elements(a) : v = <<c, p, a, i>> BY <3>1
    <3>3. /\ attrs[a].k = "tuple" /\ i \in DOMAIN attrs[a].elems /\ Bad(c, attrs[a].elems[i])
      BY <3>2
    <3>4. i # 0 /\ IsParsed(attrs[a].elems[i]) BY <1>5, <3>3 DEF IsExpression
    <3>5. v[3] = a /\ v[4] = i BY <3>2
    <3>6. e = attrs[a].elems[i] BY <3>4, <3>5 DEF ExprAt
    <3>7. QED BY <3>3, <3>4, <3>6
  <2>3. QED BY <2>1, <2>2
<1>7. Template(e)
  <2> HIDE DEF e
  <2>1. CASE c = "E101" BY <1>6, <2>1 DEF Bad, BadCIDR, Splits
  <2>2. CASE c = "E203" BY <1>6, <2>2 DEF Bad, BadARN, Splits, Pure
  <2>3. QED BY <1>3, <2>1, <2>2
<1>8. e.parts \in Seq(Part) BY <1>6, <1>7 DEF IsParsed, Part
<1>9. QED BY <1>3, <1>6, <1>8

LEMMA NeverValid == ASSUME FamilyInv PROVE ReportedNeverValid
<1> SUFFICES ASSUME NEW v \in violations, NEW e, e = ExprAt(v)
             PROVE  /\ v[1] = "E101" => CidrNeverValid(e.parts)
                    /\ v[1] = "E203" => ArnNeverValid(e.parts) \/ RefusedForLength(e)
  BY DEF ReportedNeverValid
<1>1. ASSUME v[1] = "E101" PROVE CidrNeverValid(e.parts)
  <2>1. v[1] \in {"E101", "E203"} BY <1>1
  <2>2. BadCIDR(e) /\ e.parts \in Seq(Part) BY <1>1, <2>1, Reported DEF Bad
  <2>3. ASSUME NEW x \in [Interpolations(e.parts) -> CidrValues] PROVE ~ValidCIDR(Fill(e.parts, x))
    BY <2>2, BadCIDRStays
  <2>4. QED BY <2>3 DEF CidrNeverValid
<1>2. ASSUME v[1] = "E203", ~RefusedForLength(e) PROVE ArnNeverValid(e.parts)
  <2>1. v[1] \in {"E101", "E203"} /\ v[1] # "E101" BY <1>2
  <2>2. BadARN(e) /\ e.parts \in Seq(Part) BY <1>2, <2>1, Reported DEF Bad
  <2>3. ASSUME NEW x \in [Interpolations(e.parts) -> ArnValues], WithinFields(e.parts, x)
        PROVE  ~TrueARN(Fill(e.parts, x))
    BY <1>2, <2>2, <2>3, BadARNStays
  <2>4. QED BY <2>3 DEF ArnNeverValid
<1>3. QED BY <1>1, <1>2

\* For every file and every filter: no values of its interpolations make an IPv4
\* block of what E101 has reported (cidr.go 252-283) or, within its fields, an
\* ARN of what E203 has reported (arn.go 397-408), but of literals refused for
\* their length alone.
THEOREM ReportedStaysInvalid == FamilySpec => []ReportedNeverValid
<1>1. FamilySpec => []FamilyInv BY FamilyStarts, FamilyNextKeeps, PTL DEF FamilySpec
<1>2. FamilyInv => ReportedNeverValid BY NeverValid
<1>3. QED BY <1>1, <1>2, PTL
=============================================================================
