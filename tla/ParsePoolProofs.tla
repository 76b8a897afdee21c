-------------------------- MODULE ParsePoolProofs --------------------------
(***************************************************************************)
(* Proofs about ParsePool for every directory size, threshold and limit.   *)
(*                                                                         *)
(* The inductive invariant says, per branch, which slots are filled: the   *)
(* sequential branch fills exactly the slots before the loop index; in the *)
(* concurrent one a goroutine exists exactly for the entries before the    *)
(* loop index, a goroutine that ended has filled its slot or has made the  *)
(* group keep an error, and an error or an early break means that ctx was  *)
(* cancelled - which is what makes the check after g.Wait sufficient.      *)
(***************************************************************************)
EXTENDS ParsePool, TLAPS, FiniteSetTheorems

Active == {i \in Slots : Running(i)}

SeqInv ==
  n <= Threshold =>
    /\ pc \in {"enter", "readdir", "seq", "seqparse", "done"}
    /\ pc \in {"enter", "readdir"} <=> (n = Unlisted /\ pc # "done")
    /\ n = Unlisted => next = 1
    /\ pc = "seqparse" => next <= n
    /\ n # Unlisted => next <= n + 1
    /\ \A i \in Slots : worker[i] = "none"
    /\ \A i \in Slots : results[i] = IF i < next THEN i ELSE Empty
    /\ ~gctxDone
    /\ ~gErr
    /\ pc = "done" => next - 1 <= retLen

SlotInv(i) ==
  /\ worker[i] \in {"none", "ready", "parsing", "failed"} => results[i] = Empty
  /\ worker[i] = "parsed" => results[i] = i
  /\ worker[i] = "exited" => results[i] = i \/ (results[i] = Empty /\ gErr)
  /\ worker[i] = "failed" => gErr

ParInv ==
  n > Threshold =>
    /\ pc \in {"loop", "go", "wait", "post", "done"}
    /\ next <= n + 1
    /\ pc = "go" => next <= n
    /\ pc = "done" => retLen = n
    /\ \A i \in Slots : worker[i] = "none" <=> next <= i
    /\ \A i \in Slots : SlotInv(i)
    /\ gErr => gctxDone /\ ctxDone
    /\ gctxDone => ctxDone \/ pc \in {"post", "done"}
    /\ pc \in {"wait", "post"} => next > n \/ ctxDone
    /\ pc \in {"post", "done"} => \A i \in Slots : ~Running(i)
    /\ pc = "post" => ~gErr

RetInv ==
  /\ pc = "done" <=> retErr # "none"
  /\ retErr = "cancelled" => ctxDone
  /\ retErr = "nil" => \A i \in 1..n : results[i] = i

SemInv == sem = Cardinality(Active)

\* Once gctx is cancelled no goroutine starts to parse, so the entries that
\* are parsed late are among those being parsed at that moment.
LateInv ==
  /\ n <= Threshold =>
       \/ late = {}
       \/ /\ late = {next - 1}
          /\ ctxDone
          /\ pc \in {"seq", "done"}
  /\ n > Threshold =>
       /\ ~gctxDone => late = {}
       /\ gctxDone => Cardinality(late \cup Parsing) <= Limit

IInv == TypeOK /\ SeqInv /\ ParInv /\ RetInv /\ SemInv

-----------------------------------------------------------------------------
(* Counting the tokens.                                                    *)

\* g.Go is called for an entry that has no goroutine yet.
LEMMA GoSlot ==
  ASSUME TypeOK, SeqInv, ParInv, Go
  PROVE  /\ n > Threshold
         /\ next \in Slots
         /\ next <= n
         /\ worker[next] = "none"
<1>1. n > Threshold
  BY PoolAssumption DEF TypeOK, SeqInv, Go, Unlisted
<1>2. next <= n /\ n <= MaxEntries
  BY <1>1, PoolAssumption DEF TypeOK, ParInv, Go, Unlisted
<1>3. next \in Slots
  BY <1>2, PoolAssumption DEF TypeOK, Slots, Unlisted
<1>. QED
  BY <1>1, <1>2, <1>3 DEF ParInv, TypeOK

\* The listing is read once, and from then on its size decides the branch.
LEMMA SizeFixed ==
  ASSUME IInv, [Next]_vars
  PROVE  /\ n' = n \/ (n <= Threshold /\ late' = late /\ pc = "readdir")
         /\ gctxDone => gctxDone'
<1>. USE PoolAssumption DEF IInv, TypeOK, SeqInv, ParInv, Unlisted
<1>1. CASE ReadDir
  BY <1>1 DEF ReadDir
<1>2. CASE \/ Enter \/ ReadDirFails \/ SeqCheck \/ SeqParse \/ SeqReturn
           \/ LoopCheck \/ Go \/ LoopEnd \/ Wait \/ PostCheck \/ Cancel
           \/ Propagate \/ UNCHANGED vars
  BY <1>2 DEF Enter, ReadDirFails, SeqCheck, SeqParse, SeqReturn, LoopCheck,
              Go, LoopEnd, Wait, PostCheck, Cancel, Propagate, vars, group
<1>3. ASSUME NEW j \in Slots, Worker(j)
      PROVE  n' = n /\ gctxDone' = gctxDone
  BY <1>3 DEF Worker, WorkerCheck, WorkerParse, WorkerExit
<1>. QED
  BY <1>1, <1>2, <1>3 DEF Next, Caller

\* There are finitely many slots, so the goroutines can be counted.
LEMMA SlotsFinite == IsFiniteSet(Slots)
  BY PoolAssumption, FS_Interval DEF Slots

\* The started goroutines that still hold a token are finitely many.
LEMMA ActiveFinite == IsFiniteSet(Active) /\ Cardinality(Active) \in Nat
  BY SlotsFinite, FS_Subset, FS_CardinalityType DEF Active

\* A step that starts or ends no goroutine leaves the tokens alone.
LEMMA SameActive ==
  ASSUME SemInv, sem' = sem, \A i \in Slots : Running(i)' = Running(i)
  PROVE  SemInv'
<1>1. Active' = Active
  BY DEF Active
<1>. QED
  BY <1>1 DEF SemInv

(* Every started goroutine holds exactly one token until it has ended.     *)
LEMMA SemStep ==
  ASSUME IInv, [Next]_vars
  PROVE  SemInv'
<1>. USE DEF IInv
<1>1. CASE Go
  <2>1. next \in Slots /\ next \notin Active
    BY <1>1, GoSlot DEF Active, Running
  <2>2. Active' = Active \cup {next}
    BY <1>1, <2>1 DEF Go, Active, Running, TypeOK
  <2>3. Cardinality(Active') = Cardinality(Active) + 1
    BY <2>1, <2>2, ActiveFinite, FS_AddElement
  <2>. QED
    BY <1>1, <2>3 DEF Go, SemInv
<1>2. ASSUME NEW j \in Slots, WorkerExit(j) PROVE SemInv'
  <2>1. j \in Active
    BY <1>2 DEF WorkerExit, Active, Running
  <2>2. Active' = Active \ {j}
    BY <1>2 DEF WorkerExit, Active, Running, TypeOK
  <2>3. Cardinality(Active') = Cardinality(Active) - 1
    BY <2>1, <2>2, ActiveFinite, FS_RemoveElement
  <2>. QED
    BY <1>2, <2>3 DEF WorkerExit, SemInv
<1>3. ASSUME NEW j \in Slots, WorkerCheck(j) \/ WorkerParse(j) PROVE SemInv'
  <2>1. sem' = sem /\ \A i \in Slots : Running(i)' = Running(i)
    BY <1>3 DEF WorkerCheck, WorkerParse, Running, TypeOK
  <2>. QED
    BY <2>1, SameActive
<1>4. CASE \/ Enter \/ ReadDirFails \/ ReadDir \/ SeqCheck \/ SeqParse
           \/ SeqReturn \/ LoopCheck \/ LoopEnd \/ Wait \/ PostCheck
           \/ Cancel \/ Propagate \/ UNCHANGED vars
  <2>1. sem' = sem /\ worker' = worker
    BY <1>4 DEF Enter, ReadDirFails, ReadDir, SeqCheck, SeqParse, SeqReturn,
                LoopCheck, LoopEnd, Wait, PostCheck, Cancel, Propagate, vars, group
  <2>2. \A i \in Slots : Running(i)' = Running(i)
    BY <2>1 DEF Running
  <2>. QED
    BY <2>1, <2>2, SameActive
<1>. QED
  BY <1>1, <1>2, <1>3, <1>4 DEF Next, Caller, Worker

-----------------------------------------------------------------------------
(* The parts of the invariant are preserved.                               *)

\* Every step of the caller, of a goroutine and of the context keeps the types.
LEMMA TypeStep ==
  ASSUME IInv, [Next]_vars
  PROVE  TypeOK'
<1>. USE PoolAssumption DEF IInv, TypeOK, SeqInv, ParInv, Slots, Unlisted, Empty, group
<1>1. CASE Enter
  BY <1>1 DEF Enter, Return
<1>2. CASE ReadDirFails
  BY <1>2 DEF ReadDirFails, Return
<1>3. CASE ReadDir
  BY <1>3 DEF ReadDir
<1>4. CASE SeqCheck
  BY <1>4 DEF SeqCheck, Return
<1>5. CASE SeqParse
  BY <1>5 DEF SeqParse
<1>6. CASE SeqReturn
  BY <1>6 DEF SeqReturn, Return, ErrOf
<1>7. CASE LoopCheck
  BY <1>7 DEF LoopCheck
<1>8. CASE Go
  BY <1>8, GoSlot DEF Go
<1>9. CASE LoopEnd
  BY <1>9 DEF LoopEnd
<1>10. CASE Wait
  BY <1>10 DEF Wait, Return
<1>11. CASE PostCheck
  BY <1>11 DEF PostCheck, Return, ErrOf
<1>12. ASSUME NEW j \in Slots, WorkerCheck(j) PROVE TypeOK'
  BY <1>12 DEF WorkerCheck
<1>13. ASSUME NEW j \in Slots, WorkerParse(j) PROVE TypeOK'
  BY <1>13 DEF WorkerParse
<1>14. ASSUME NEW j \in Slots, WorkerExit(j) PROVE TypeOK'
  <2>1. j \in Active /\ Active # {}
    BY <1>14 DEF WorkerExit, Active, Running
  <2>2. sem # 0
    BY <2>1, ActiveFinite, FS_EmptySet DEF SemInv
  <2>. QED
    BY <1>14, <2>2 DEF WorkerExit
<1>15. CASE Cancel
  BY <1>15 DEF Cancel
<1>16. CASE Propagate
  BY <1>16 DEF Propagate
<1>17. CASE UNCHANGED vars
  BY <1>17 DEF vars
<1>. QED
  BY <1>1, <1>2, <1>3, <1>4, <1>5, <1>6, <1>7, <1>8, <1>9, <1>10, <1>11, <1>12, <1>13, <1>14, <1>15, <1>16, <1>17 DEF Next, Caller, Worker

\* The slots before the loop index of the sequential branch stay filled.
LEMMA SeqStep ==
  ASSUME IInv, [Next]_vars
  PROVE  SeqInv'
<1>. USE PoolAssumption DEF IInv, TypeOK, SeqInv, ParInv, RetInv, Slots, Unlisted, Empty, group
<1>1. CASE Enter
  BY <1>1 DEF Enter, Return
<1>2. CASE ReadDirFails
  BY <1>2 DEF ReadDirFails, Return
<1>3. CASE ReadDir
  BY <1>3 DEF ReadDir
<1>4. CASE SeqCheck
  BY <1>4 DEF SeqCheck, Return
<1>5. CASE SeqParse
  BY <1>5 DEF SeqParse
<1>6. CASE SeqReturn
  BY <1>6 DEF SeqReturn, Return, ErrOf
<1>7. CASE LoopCheck
  BY <1>7 DEF LoopCheck
<1>8. CASE Go
  BY <1>8, GoSlot DEF Go
<1>9. CASE LoopEnd
  BY <1>9 DEF LoopEnd
<1>10. CASE Wait
  BY <1>10 DEF Wait, Return
<1>11. CASE PostCheck
  BY <1>11 DEF PostCheck, Return, ErrOf
<1>12. ASSUME NEW j \in Slots, WorkerCheck(j) PROVE SeqInv'
  BY <1>12 DEF WorkerCheck
<1>13. ASSUME NEW j \in Slots, WorkerParse(j) PROVE SeqInv'
  BY <1>13 DEF WorkerParse
<1>14. ASSUME NEW j \in Slots, WorkerExit(j) PROVE SeqInv'
  BY <1>14 DEF WorkerExit
<1>15. CASE Cancel
  BY <1>15 DEF Cancel
<1>16. CASE Propagate
  BY <1>16 DEF Propagate
<1>17. CASE UNCHANGED vars
  BY <1>17 DEF vars
<1>. QED
  BY <1>1, <1>2, <1>3, <1>4, <1>5, <1>6, <1>7, <1>8, <1>9, <1>10, <1>11, <1>12, <1>13, <1>14, <1>15, <1>16, <1>17 DEF Next, Caller, Worker

\* What the concurrent branch knows of its goroutines and of gctx.
LEMMA ParStep ==
  ASSUME IInv, [Next]_vars
  PROVE  ParInv'
<1>. USE PoolAssumption DEF IInv, TypeOK, SeqInv, ParInv, SlotInv, Running, Slots, Unlisted, Empty, group
<1>1. CASE Enter
  BY <1>1 DEF Enter, Return
<1>2. CASE ReadDirFails
  BY <1>2 DEF ReadDirFails, Return
<1>3. CASE ReadDir
  <2>1. n <= Threshold /\ next = 1 /\ ~gErr
    BY <1>3 DEF ReadDir
  <2>2. \A i \in Slots : results[i] = Empty /\ worker[i] = "none"
    BY <2>1, <1>3 DEF ReadDir
  <2>3. PICK k \in 0..MaxEntries : n' = k /\ (k > Threshold => pc' = "loop" /\ gctxDone' = ctxDone)
    BY <1>3 DEF ReadDir
  <2>. QED
    BY <1>3, <2>1, <2>2, <2>3 DEF ReadDir
<1>4. CASE SeqCheck
  BY <1>4 DEF SeqCheck, Return
<1>5. CASE SeqParse
  BY <1>5 DEF SeqParse
<1>6. CASE SeqReturn
  BY <1>6 DEF SeqReturn, Return, ErrOf
<1>7. CASE LoopCheck
  BY <1>7 DEF LoopCheck
<1>8. CASE Go
  BY <1>8, GoSlot DEF Go
<1>9. CASE LoopEnd
  BY <1>9 DEF LoopEnd
<1>10. CASE Wait
  BY <1>10 DEF Wait, Return
<1>11. CASE PostCheck
  BY <1>11 DEF PostCheck, Return, ErrOf
<1>12. ASSUME NEW j \in Slots, WorkerCheck(j) PROVE ParInv'
  BY <1>12 DEF WorkerCheck
<1>13. ASSUME NEW j \in Slots, WorkerParse(j) PROVE ParInv'
  BY <1>13 DEF WorkerParse
<1>14. ASSUME NEW j \in Slots, WorkerExit(j) PROVE ParInv'
  BY <1>14 DEF WorkerExit
<1>15. CASE Cancel
  BY <1>15 DEF Cancel
<1>16. CASE Propagate
  BY <1>16 DEF Propagate
<1>17. CASE UNCHANGED vars
  BY <1>17 DEF vars
<1>. QED
  BY <1>1, <1>2, <1>3, <1>4, <1>5, <1>6, <1>7, <1>8, <1>9, <1>10, <1>11, <1>12, <1>13, <1>14, <1>15, <1>16, <1>17 DEF Next, Caller, Worker

\* A returned value stays what it was, and the slice behind it is quiet.
LEMMA RetStep ==
  ASSUME IInv, [Next]_vars
  PROVE  RetInv'
<1>. USE PoolAssumption DEF IInv, TypeOK, SeqInv, ParInv, SlotInv, RetInv, Running, Slots, Unlisted, Empty, group
<1>1. CASE Enter
  BY <1>1 DEF Enter, Return
<1>2. CASE ReadDirFails
  BY <1>2 DEF ReadDirFails, Return
<1>3. CASE ReadDir
  BY <1>3 DEF ReadDir
<1>4. CASE SeqCheck
  BY <1>4 DEF SeqCheck, Return
<1>5. CASE SeqParse
  BY <1>5 DEF SeqParse
<1>6. CASE SeqReturn
  BY <1>6 DEF SeqReturn, Return, ErrOf
<1>7. CASE LoopCheck
  BY <1>7 DEF LoopCheck
<1>8. CASE Go
  BY <1>8, GoSlot DEF Go
<1>9. CASE LoopEnd
  BY <1>9 DEF LoopEnd
<1>10. CASE Wait
  BY <1>10 DEF Wait, Return
<1>11. CASE PostCheck
  BY <1>11 DEF PostCheck, Return, ErrOf
<1>12. ASSUME NEW j \in Slots, WorkerCheck(j) PROVE RetInv'
  BY <1>12 DEF WorkerCheck
<1>13. ASSUME NEW j \in Slots, WorkerParse(j) PROVE RetInv'
  BY <1>13 DEF WorkerParse
<1>14. ASSUME NEW j \in Slots, WorkerExit(j) PROVE RetInv'
  BY <1>14 DEF WorkerExit
<1>15. CASE Cancel
  BY <1>15 DEF Cancel
<1>16. CASE Propagate
  BY <1>16 DEF Propagate
<1>17. CASE UNCHANGED vars
  BY <1>17 DEF vars
<1>. QED
  BY <1>1, <1>2, <1>3, <1>4, <1>5, <1>6, <1>7, <1>8, <1>9, <1>10, <1>11, <1>12, <1>13, <1>14, <1>15, <1>16, <1>17 DEF Next, Caller, Worker

-----------------------------------------------------------------------------
(* The theorems.                                                           *)

\* The invariant holds before the first step.
LEMMA InitInv == Init => IInv
<1>. SUFFICES ASSUME Init PROVE IInv
  OBVIOUS
<1>1. TypeOK
  <2>1. results \in [Slots -> 0..MaxEntries] /\ next \in 1..(MaxEntries + 1)
    BY PoolAssumption DEF Init, Empty
  <2>2. sem \in 0..Limit /\ retLen \in 0..MaxEntries
    BY PoolAssumption DEF Init
  <2>. QED
    BY <2>1, <2>2 DEF Init, TypeOK
<1>2. SeqInv /\ ParInv
  BY PoolAssumption DEF Init, SeqInv, ParInv, Slots, Unlisted, Empty
<1>3. RetInv
  BY PoolAssumption DEF Init, RetInv, Unlisted
<1>4. Active = {}
  BY DEF Init, Active, Running
<1>. QED
  BY <1>1, <1>2, <1>3, <1>4, FS_EmptySet DEF Init, IInv, SemInv

(* The strengthened invariant, from which the properties of the pool follow.*)
THEOREM Invariance == Spec => []IInv
<1>1. IInv /\ [Next]_vars => IInv'
  BY TypeStep, SeqStep, ParStep, RetStep, SemStep DEF IInv
<1>. QED
  BY InitInv, <1>1, PTL DEF Spec

(* Every variable keeps its type; in particular the tokens never exceed    *)
(* Limit and never go below zero.                                          *)
THEOREM TypeCorrect == Spec => []TypeOK
  BY Invariance, PTL DEF IInv

(* A load that returns nil has parsed every listed entry into its own slot.*)
THEOREM Completeness == Spec => []NilMeansComplete
<1>1. IInv => NilMeansComplete
  BY DEF IInv, RetInv, NilMeansComplete
<1>. QED
  BY Invariance, <1>1, PTL

(* No result that was stored before a cancellation is cut off the returned *)
(* slice.                                                                  *)
THEOREM PartialResults == Spec => []PartialResultsKept
<1>1. ASSUME IInv PROVE PartialResultsKept
  <2>. SUFFICES ASSUME pc = "done", NEW i \in Slots, results[i] # Empty
                PROVE  i <= retLen
    BY DEF PartialResultsKept
  <2>. USE DEF IInv, TypeOK, Slots, Unlisted, Empty
  <2>1. CASE n <= Threshold
    BY <1>1, <2>1, PoolAssumption DEF SeqInv
  <2>2. CASE n > Threshold
    BY <1>1, <2>2, PoolAssumption DEF ParInv, SlotInv
  <2>. QED
    BY <1>1, <2>1, <2>2, PoolAssumption
<1>. QED
  BY Invariance, <1>1, PTL

(* Once the call has returned no goroutine writes the slice.               *)
THEOREM QuietAfterReturn == Spec => NoWriteAfterReturn
<1>1. ASSUME IInv, [Next]_vars, pc = "done" PROVE UNCHANGED results
  <2>1. ASSUME NEW j \in Slots PROVE worker[j] # "parsing"
    BY <1>1, <2>1, PoolAssumption
       DEF IInv, TypeOK, SeqInv, ParInv, Running, Unlisted
  <2>. QED
    BY <1>1, <2>1 DEF Next, Caller, Worker, Enter, ReadDirFails, ReadDir,
       SeqCheck, SeqParse, SeqReturn, LoopCheck, Go, LoopEnd, Wait, PostCheck,
       WorkerCheck, WorkerParse, WorkerExit, Cancel, Propagate, vars
<1>2. IInv /\ [Next]_vars => [pc = "done" => UNCHANGED results]_vars
  BY <1>1
<1>. QED
  BY Invariance, <1>2, PTL DEF Spec, NoWriteAfterReturn

-----------------------------------------------------------------------------
(* Promptness: the late entries.                                           *)

\* Nothing is late before the first step.
LEMMA InitLate == Init => LateInv
  BY DEF Init, LateInv

\* The sequential branch parses at most one entry after the cancellation.
LEMMA LateSeqStep ==
  ASSUME IInv, LateInv, [Next]_vars, n' <= Threshold
  PROVE  \/ late' = {}
         \/ late' = {next' - 1} /\ ctxDone' /\ pc' \in {"seq", "done"}
<1>. USE PoolAssumption DEF IInv, TypeOK, SeqInv, Slots, Unlisted
<1>1. n <= Threshold
  BY SizeFixed
<1>2. CASE SeqParse
  <2>1. late = {} /\ next' - 1 = next
    BY <1>1, <1>2 DEF SeqParse, LateInv
  <2>2. late' = {} \/ (late' = {next} /\ ctxDone')
    BY <2>1, <1>2 DEF SeqParse
  <2>. QED
    BY <2>1, <2>2, <1>2 DEF SeqParse
<1>3. CASE SeqCheck \/ SeqReturn \/ Enter \/ ReadDirFails \/ ReadDir
  BY <1>1, <1>3 DEF SeqCheck, SeqReturn, Enter, ReadDirFails, ReadDir, Return,
                    LateInv
<1>4. CASE LoopCheck \/ Go \/ LoopEnd \/ Wait \/ PostCheck \/ Propagate
  BY <1>1, <1>4 DEF LoopCheck, Go, LoopEnd, Wait, PostCheck, Propagate
<1>5. ASSUME NEW j \in Slots, Worker(j) PROVE FALSE
  BY <1>1, <1>5 DEF Worker, WorkerCheck, WorkerParse, WorkerExit
<1>6. CASE Cancel \/ UNCHANGED vars
  BY <1>1, <1>6 DEF Cancel, vars, LateInv
<1>. QED
  BY <1>2, <1>3, <1>4, <1>5, <1>6 DEF Next, Caller

\* After the cancellation no entry joins the late and the parsing ones.
LEMMA LateFrozen ==
  ASSUME IInv, [Next]_vars, n > Threshold, gctxDone
  PROVE  late' \cup Parsing' \subseteq late \cup Parsing
<1>. USE PoolAssumption DEF IInv, TypeOK, Parsing
<1>1. ASSUME NEW j \in Slots, WorkerParse(j)
      PROVE  late' \cup Parsing' \subseteq late \cup Parsing
  BY <1>1 DEF WorkerParse
<1>2. ASSUME NEW j \in Slots, WorkerCheck(j) \/ WorkerExit(j)
      PROVE  late' \cup Parsing' \subseteq late \cup Parsing
  BY <1>2 DEF WorkerCheck, WorkerExit
<1>3. CASE Go
  BY <1>3 DEF Go
<1>4. CASE SeqParse
  BY <1>4 DEF SeqParse, ParInv
<1>5. CASE \/ Enter \/ ReadDirFails \/ ReadDir \/ SeqCheck \/ SeqReturn
           \/ LoopCheck \/ LoopEnd \/ Wait \/ PostCheck \/ Cancel \/ Propagate
           \/ UNCHANGED vars
  BY <1>5 DEF Enter, ReadDirFails, ReadDir, SeqCheck, SeqReturn, LoopCheck,
              LoopEnd, Wait, PostCheck, Cancel, Propagate, vars, group
<1>. QED
  BY <1>1, <1>2, <1>3, <1>4, <1>5 DEF Next, Caller, Worker

\* Until the cancellation nothing is late; the step that makes it visible
\* neither parses nor starts anything.
LEMMA LateArises ==
  ASSUME IInv, LateInv, [Next]_vars, n' > Threshold, ~gctxDone
  PROVE  late' = {} /\ (gctxDone' => worker' = worker)
<1>. USE PoolAssumption DEF IInv, TypeOK, SeqInv, ParInv, LateInv, Unlisted
<1>1. ASSUME NEW j \in Slots, Worker(j)
      PROVE  late' = {} /\ ~gctxDone'
  BY <1>1 DEF Worker, WorkerCheck, WorkerParse, WorkerExit
<1>2. CASE Enter \/ ReadDirFails \/ SeqCheck \/ SeqParse \/ SeqReturn
  BY <1>2 DEF Enter, ReadDirFails, SeqCheck, SeqParse, SeqReturn, group
<1>3. CASE ReadDir
  BY <1>3 DEF ReadDir
<1>4. CASE LoopCheck \/ Go \/ LoopEnd \/ Wait \/ PostCheck
  BY <1>4 DEF LoopCheck, Go, LoopEnd, Wait, PostCheck, group
<1>5. CASE Cancel \/ Propagate \/ UNCHANGED vars
  BY <1>5 DEF Cancel, Propagate, vars, group
<1>. QED
  BY <1>1, <1>2, <1>3, <1>4, <1>5 DEF Next, Caller

\* The bound on the late entries survives every step.
LEMMA LateStep ==
  ASSUME IInv, IInv', LateInv, [Next]_vars
  PROVE  LateInv'
<1>1. ASSUME n' > Threshold, gctxDone'
      PROVE  Cardinality(late' \cup Parsing') <= Limit
  <2>1. CASE gctxDone
    <3>1. n > Threshold
      BY <2>1, PoolAssumption DEF IInv, TypeOK, SeqInv, Unlisted
    <3>2. late \cup Parsing \subseteq Slots /\ IsFiniteSet(late \cup Parsing)
      BY SlotsFinite, FS_Subset DEF IInv, TypeOK, Parsing
    <3>3. late' \cup Parsing' \in SUBSET (late \cup Parsing)
      BY <2>1, <3>1, LateFrozen
    <3>4. Cardinality(late' \cup Parsing') <= Cardinality(late \cup Parsing)
      BY <3>2, <3>3, FS_Subset
    <3>5. IsFiniteSet(late' \cup Parsing')
      BY <3>2, <3>3, FS_Subset
    <3>6. /\ Cardinality(late \cup Parsing) \in Nat
          /\ Cardinality(late' \cup Parsing') \in Nat
      BY <3>2, <3>5, FS_CardinalityType
    <3>7. Cardinality(late \cup Parsing) <= Limit
      BY <2>1, <3>1 DEF LateInv
    <3>. QED
      BY <3>4, <3>6, <3>7, PoolAssumption
  <2>2. CASE ~gctxDone
    <3>1. late' = {} /\ worker' = worker
      BY <1>1, <2>2, LateArises
    <3>2. late' \cup Parsing' \in SUBSET Active
      BY <3>1 DEF Parsing, Active, Running
    <3>3. Cardinality(late' \cup Parsing') <= Cardinality(Active)
      BY <3>2, ActiveFinite, FS_Subset
    <3>4. Cardinality(late' \cup Parsing') \in Nat
      BY <3>2, ActiveFinite, FS_Subset, FS_CardinalityType
    <3>. QED
      BY <3>3, <3>4, ActiveFinite, PoolAssumption DEF IInv, TypeOK, SemInv
  <2>. QED
    BY <2>1, <2>2
<1>2. ASSUME n' > Threshold, ~gctxDone' PROVE late' = {}
  <2>1. ~gctxDone
    BY <1>2, SizeFixed
  <2>. QED
    BY <1>2, <2>1, LateArises
<1>. QED
  BY <1>1, <1>2, LateSeqStep DEF LateInv

(* A cancelled load parses at most one more file, or Limit in the pool.    *)
THEOREM Promptness == Spec => []PromptCancel
<1>1. IInv /\ IInv' /\ LateInv /\ [Next]_vars => LateInv'
  BY LateStep
<1>2. ASSUME IInv, LateInv PROVE PromptCancel
  <2>1. CASE n <= Threshold
    <3>1. Cardinality(late) \in {0, 1}
      BY <1>2, <2>1, FS_EmptySet, FS_Singleton DEF LateInv
    <3>. QED
      BY <2>1, <3>1 DEF PromptCancel
  <2>2. CASE ~(n <= Threshold)
    <3>1. n > Threshold
      BY <1>2, <2>2, PoolAssumption DEF IInv, TypeOK, Unlisted
    <3>2. CASE ~gctxDone
      BY <1>2, <2>2, <3>1, <3>2, FS_EmptySet, PoolAssumption DEF LateInv, PromptCancel
    <3>3. CASE gctxDone
      <4>1. late \cup Parsing \subseteq Slots /\ IsFiniteSet(late \cup Parsing)
        BY <1>2, SlotsFinite, FS_Subset DEF IInv, TypeOK, Parsing
      <4>2. Cardinality(late) <= Cardinality(late \cup Parsing)
        BY <4>1, FS_Subset
      <4>3. IsFiniteSet(late)
        BY <4>1, FS_Subset
      <4>4. Cardinality(late) \in Nat /\ Cardinality(late \cup Parsing) \in Nat
        BY <4>1, <4>3, FS_CardinalityType
      <4>5. Cardinality(late \cup Parsing) <= Limit
        BY <1>2, <3>1, <3>3 DEF LateInv
      <4>. QED
        BY <2>2, <4>2, <4>4, <4>5, PoolAssumption DEF PromptCancel
    <3>. QED
      BY <3>2, <3>3
  <2>. QED
    BY <2>1, <2>2
<1>. QED
  BY Invariance, InitLate, <1>1, <1>2, PTL DEF Spec

-----------------------------------------------------------------------------
(* ParsePool implements DirLoad.                                           *)

Loaded == {i \in Slots : results[i] = i}

\* A step that fills one more slot is the abstract Load of that entry.
LEMMA FillsSlot ==
  ASSUME IInv, NEW i \in Slots, i <= n, retErr = "none", results[i] = Empty,
         results' = [results EXCEPT ![i] = i],
         UNCHANGED <<n, ctxDone, retErr>>
  PROVE  Promise!Load(i)
<1>1. Loaded' = Loaded \cup {i}
  BY DEF Loaded, IInv, TypeOK
<1>2. i \notin Loaded /\ i \in 1..n
  BY PoolAssumption DEF Loaded, Slots, Empty, IInv, TypeOK, Unlisted
<1>. QED
  BY <1>1, <1>2 DEF Promise!Load, Loaded, Outcome

\* Every step of the pool is a step of DirLoad or leaves its state alone.
LEMMA StepSimulation ==
  ASSUME IInv, [Next]_vars
  PROVE  [Promise!Next]_(Promise!vars)
<1>. USE PoolAssumption DEF IInv, TypeOK, RetInv, Slots, Unlisted, Empty
<1>1. CASE Enter
  BY <1>1 DEF Enter, Return, Outcome, Promise!Next, Promise!GiveUp, Promise!vars
<1>2. CASE ReadDirFails
  <2>1. Promise!Complete
    BY <1>2 DEF ReadDirFails, Return, Outcome, SeqInv, ParInv, Promise!Complete
  <2>. QED
    BY <2>1 DEF Promise!Next
<1>3. CASE ReadDir
  <2>1. Promise!List
    BY <1>3 DEF ReadDir, Outcome, SeqInv, ParInv, Promise!List, Promise!Unlisted
  <2>. QED
    BY <2>1 DEF Promise!Next
<1>4. CASE SeqCheck
  BY <1>4 DEF SeqCheck, Return, Outcome, Promise!Next, Promise!GiveUp, Promise!vars
<1>5. CASE SeqParse
  <2>1. next \in Slots /\ next <= n /\ results[next] = Empty /\ retErr = "none"
    BY <1>5 DEF SeqParse, SeqInv, ParInv
  <2>2. PICK j \in Slots : j = next
    BY <2>1
  <2>3. Promise!Load(j)
    BY <1>5, <2>1, <2>2, FillsSlot DEF SeqParse
  <2>. QED
    BY <2>3 DEF Promise!Next, Promise!Slots
<1>6. CASE SeqReturn \/ PostCheck
  <2>1. IInv'
    BY InitInv, TypeStep, SeqStep, ParStep, RetStep, SemStep
  <2>2. Promise!Complete \/ Promise!GiveUp
    BY <1>6, <2>1 DEF SeqReturn, PostCheck, Return, ErrOf, Outcome,
                      Promise!Complete, Promise!GiveUp
  <2>. QED
    BY <2>2 DEF Promise!Next
<1>7. CASE Wait
  BY <1>7 DEF Wait, Return, Outcome, ParInv, SeqInv, Promise!Next, Promise!GiveUp,
              Promise!vars
<1>8. ASSUME NEW j \in Slots, WorkerParse(j) PROVE [Promise!Next]_(Promise!vars)
  <2>1. n > Threshold /\ pc # "done" /\ j <= n /\ results[j] = Empty
    BY <1>8 DEF WorkerParse, SeqInv, ParInv, SlotInv, Running
  <2>2. Promise!Load(j)
    BY <1>8, <2>1, FillsSlot DEF WorkerParse
  <2>. QED
    BY <2>2 DEF Promise!Next, Promise!Slots
<1>9. CASE Cancel
  BY <1>9 DEF Cancel, Outcome, Promise!Next, Promise!Cancel
<1>10. ASSUME NEW j \in Slots, WorkerCheck(j) \/ WorkerExit(j)
       PROVE  UNCHANGED Promise!vars
  BY <1>10 DEF WorkerCheck, WorkerExit, Outcome, Promise!vars
<1>11. CASE LoopCheck \/ Go \/ LoopEnd \/ Propagate \/ UNCHANGED vars
  BY <1>11 DEF LoopCheck, Go, LoopEnd, Propagate, vars, Outcome, Promise!vars
<1>. QED
  BY <1>1, <1>2, <1>3, <1>4, <1>5, <1>6, <1>7, <1>8, <1>9, <1>10, <1>11
     DEF Next, Caller, Worker

(* Every behaviour of the pool is one that DirLoad allows.                 *)
THEOREM Refinement == Spec => LoadsDirectory
<1>1. Init => Promise!Init
  BY DEF Init, Outcome, Promise!Init, Promise!Unlisted, Unlisted, Slots, Empty
<1>2. IInv /\ [Next]_vars => [Promise!Next]_(Promise!vars)
  BY StepSimulation
<1>. QED
  BY Invariance, <1>1, <1>2, PTL DEF Spec, LoadsDirectory, Promise!Spec
=============================================================================
