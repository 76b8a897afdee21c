---------------------------- MODULE FmtRunProofs ----------------------------
(***************************************************************************)
(* What fmt's exit code, its list of paths and the files on disk say of    *)
(* each other, for any tree of directories and files.  The invariant says  *)
(* of every file asked for that the loops are past it or it is still to    *)
(* come; of the first, that it is printed if it was dirty, and formatted,  *)
(* failed or, with -check, remembered.                                     *)
(***************************************************************************)
EXTENDS FmtRun, TLAPS, FiniteSetTheorems

Coll == CollectDirs(recursive, unreadable)

\* The loops have still to come to file f.
Pending(f) == DirOf[f] \in dirs \/ (pc = "load" /\ DirOf[f] = d) \/ f \in files

ModeInv ==
  /\ exit = Running <=> pc # "exited"
  /\ pc = "single" => SingleMode
  /\ pc \in {"dirs", "load", "file", "print"} => path = "dir"
  /\ pc \in {"write", "rename"} => ~check /\ (path = "dir" \/ SingleMode)
  /\ SingleMode => files \subseteq {Single}
  /\ pc \in {"start", "single"} => printed = {} /\ files = {} /\ failed = {} /\ tree = tree0
  /\ pc = "start" => ~anyDirty /\ ~anyError

ChangeInv ==
  /\ printed \subseteq {f \in Wanted : Dirty0(f)}
  /\ \A f \in Files : tree[f] # tree0[f] =>
       f \in printed /\ ~check /\ tree[f] = Reformatted(tree0[f])

TurnInv ==
  \A f \in files : First(f, files) =>
    /\ pc \in {"print", "write", "rename"} => Dirty(f)
    /\ pc \in {"write", "rename"} => f \in printed
    /\ SingleMode => Readable(f)

Passed(f) ==
  /\ ~Readable(f) => anyError
  /\ Readable(f) /\ Dirty(f) => f \in printed /\ (f \in failed \/ (check /\ anyDirty))

WorkInv ==
  path = "dir" /\ pc \in {"dirs", "load", "file", "print", "write", "rename"} =>
    /\ dirs \subseteq Coll
    /\ pc # "dirs" => d \in Coll /\ d \notin dirs
    /\ pc \in {"dirs", "load"} => files = {}
    /\ pc \in {"print", "write", "rename"} => anyDirty
    /\ \A f \in files : DirOf[f] = d /\ d \notin unreadable /\ Parsed(tree[f])
    /\ failed # {} => anyError
    /\ anyDirty => \E f \in Wanted : Dirty0(f)
    /\ \A x \in Coll : x \in unreadable /\ x \notin dirs => anyError \/ (pc = "load" /\ x = d)
    /\ \A f \in Wanted : Pending(f) \/ Passed(f)

EndInv ==
  /\ ZeroMeansFormatted
  /\ ThreeMeansDirt
  /\ exit \in {0, 3} => printed = {f \in Wanted : Dirty0(f)}

LateInv ==
  /\ late # {} => /\ ctxDone /\ cancelledAt = "rename" /\ pc \in {"file", "dirs", "exited"}
                  /\ \E f \in Files : late = {f}
  /\ pc = "rename" /\ ctxDone => cancelledAt = "rename"

IInv == TypeOK /\ ModeInv /\ ChangeInv /\ TurnInv /\ WorkInv /\ EndInv /\ LateInv

LEMMA Constants ==
  /\ Single \in Files /\ Root \in Dirs
  /\ Files \subseteq Nat /\ IsFiniteSet(Files) /\ DirOf \in [Files -> Dirs]
  /\ Trees \subseteq [Files -> FileState] /\ Unreadables \subseteq SUBSET Dirs
BY FmtAssumption, WorkspaceAssumption

(* Two first elements of a set of files are one. *)
LEMMA FirstUnique ==
  ASSUME NEW S \in SUBSET Files, NEW f \in S, NEW g \in S, First(f, S), First(g, S)
  PROVE  f = g
BY Constants DEF First

LEMMA InitInv == ASSUME Init PROVE IInv
<1>. USE DEF Init
<1>1. TypeOK
  BY Constants DEF TypeOK, PCs, Paths, Running
<1>2. ModeInv /\ ChangeInv /\ TurnInv /\ WorkInv /\ LateInv
  BY DEF ModeInv, ChangeInv, TurnInv, WorkInv, LateInv, SingleMode
<1>3. EndInv
  BY DEF EndInv, ZeroMeansFormatted, ThreeMeansDirt, Running
<1>. QED  BY <1>1, <1>2, <1>3 DEF IInv

-----------------------------------------------------------------------------
(* The type invariant.                                                     *)

LEMMA TypeStep == ASSUME TypeOK, [Next]_vars PROVE TypeOK'
<1>. USE DEF TypeOK, PCs, Exit, Goto, input, loop, cancel
<1>1. CASE Start
  BY <1>1, Constants DEF Start, CollectDirs
<1>2. CASE End
  BY <1>2 DEF End
<1>3. CASE NextDir
  BY <1>3 DEF NextDir, First
<1>4. CASE Load
  <2>1. files' \subseteq Files /\ anyError' \in BOOLEAN /\ exit' \in {exit, 130}
        /\ pc' \in {"file", "exited"}
    BY <1>4 DEF Load, Physical
  <2>2. UNCHANGED <<input, tree, cancel, dirs, d, anyDirty, printed, failed, late>>
    BY <1>4 DEF Load
  <2>. QED  BY <2>1, <2>2
<1>5. CASE NextFile
  <2>1. files' \subseteq files /\ anyDirty' \in BOOLEAN /\ exit' \in {exit, 130}
        /\ pc' \in {"dirs", "file", "print", "exited"}
    BY <1>5 DEF NextFile
  <2>2. UNCHANGED <<input, tree, cancel, dirs, d, anyError, printed, failed, late>>
    BY <1>5 DEF NextFile
  <2>. QED  BY <2>1, <2>2
<1>6. CASE PrintPath
  BY <1>6 DEF PrintPath
<1>7. CASE WriteCheck
  BY <1>7 DEF WriteCheck
<1>8. CASE Rewritten
  <2>1. PICK f \in files : /\ tree' = [tree EXCEPT ![f] = Reformatted(tree[f])]
                           /\ late' = IF ctxDone THEN late \cup {f} ELSE late
                           /\ files' = files \ {f}
    BY <1>8 DEF Rewritten
  <2>2. Reformatted(tree[f]) \in FileState
    BY DEF Reformatted, FileState
  <2>. QED  BY <1>8, <2>1, <2>2 DEF Rewritten
<1>9. CASE RewriteFails
  BY <1>9 DEF RewriteFails
<1>10. CASE SingleFile
  <2>1. files' \subseteq Files /\ printed' \subseteq Files /\ exit' \in {exit, 0, 2, 3, 130}
        /\ pc' \in {"write", "exited"}
    BY <1>10, Constants DEF SingleFile
  <2>2. UNCHANGED <<input, tree, cancel, dirs, d, anyDirty, anyError, failed, late>>
    BY <1>10 DEF SingleFile
  <2>. QED  BY <2>1, <2>2
<1>11. CASE Cancel
  BY <1>11 DEF Cancel
<1>12. CASE UNCHANGED vars
  BY <1>12 DEF vars
<1>. QED  BY <1>1, <1>2, <1>3, <1>4, <1>5, <1>6, <1>7, <1>8, <1>9, <1>10, <1>11, <1>12
           DEF Next, Step

-----------------------------------------------------------------------------
(* What an iteration leaves alone.                                         *)

(* Only the rewrite of the first file changes the tree, from dirty to      *)
(* formatted, so the files asked for and those that can be read stay the   *)
(* same.                                                                   *)
LEMMA TreeStep ==
  ASSUME IInv, [Next]_vars
  PROVE  /\ UNCHANGED input
         /\ tree' = tree \/ \E f \in files : /\ pc = "rename" /\ Rewritten /\ First(f, files)
                                             /\ tree' = [tree EXCEPT ![f] = Reformatted(tree[f])]
                                             /\ files' = files \ {f}
<1>. USE DEF input
<1>1. CASE Rewritten
  BY <1>1 DEF Rewritten
<1>2. CASE Start \/ End \/ NextDir \/ Load \/ NextFile
  BY <1>2 DEF Start, End, NextDir, Load, NextFile
<1>3. CASE PrintPath \/ WriteCheck \/ RewriteFails \/ SingleFile \/ Cancel
  BY <1>3 DEF PrintPath, WriteCheck, RewriteFails, SingleFile, Cancel
<1>4. CASE UNCHANGED vars
  BY <1>4 DEF vars
<1>. QED  BY <1>1, <1>2, <1>3, <1>4 DEF Next, Step

LEMMA Reforms ==
  ASSUME NEW s \in FileState
  PROVE  /\ Reformatted(s) \in FileState /\ Reformatted(s).form = "clean"
         /\ s.form = "dirty" => Reformatted(s) # s /\ Parsed(Reformatted(s)) = Parsed(s)
BY DEF Reformatted, FileState, Parsed

LEMMA SameFiles ==
  ASSUME IInv, [Next]_vars
  PROVE  /\ Wanted' = Wanted
         /\ \A f \in Files : /\ Dirty0(f)' = Dirty0(f)
                             /\ Readable(f)' = Readable(f)
                             /\ Dirty(f)' => Dirty(f)
<1>. DEFINE LikeBefore(g) ==
       /\ tree'[g].form = "absent" <=> tree[g].form = "absent"
       /\ tree'[g].form \in {"broken", "syntax"} <=> tree[g].form \in {"broken", "syntax"}
       /\ Parsed(tree'[g]) = Parsed(tree[g])
       /\ tree'[g].form = "dirty" => tree[g].form = "dirty"
<1>. USE DEF input, SingleMode, Wanted, Dirty0, Readable, Malformable, Dirty
<1>1. CASE tree' = tree
  BY <1>1, TreeStep
<1>2. ASSUME NEW f \in files, pc = "rename", First(f, files),
             tree' = [tree EXCEPT ![f] = Reformatted(tree[f])]
      PROVE  \A g \in Files : LikeBefore(g)
  <2>1. f \in Files /\ tree[f] \in FileState /\ tree[f].form = "dirty" /\ tree \in [Files -> FileState]
    BY <1>2 DEF IInv, TypeOK, TurnInv
  <2>2. Reformatted(tree[f]).form = "clean" /\ Parsed(Reformatted(tree[f])) = Parsed(tree[f])
    BY <2>1, Reforms
  <2>3. TAKE g \in Files
  <2>4. CASE g = f
    BY <1>2, <2>1, <2>2, <2>4
  <2>5. CASE g # f
    BY <1>2, <2>1, <2>5
  <2>. QED  BY <2>4, <2>5
<1>3. CASE tree' # tree
  <2>1. \A g \in Files : LikeBefore(g)
    BY <1>2, <1>3, TreeStep
  <2>2. UNCHANGED <<check, recursive, path, unreadable, tree0>>
    BY TreeStep
  <2>. QED  BY <2>1, <2>2, Constants
<1>. QED  BY <1>1, <1>3

-----------------------------------------------------------------------------
(* Each part of the invariant is preserved.                                *)

LEMMA ModeStep == ASSUME IInv, [Next]_vars PROVE ModeInv'
<1>. USE DEF IInv, ModeInv, SingleMode, Exit, Goto, input, loop, cancel, Running
<1>1. CASE Start
  BY <1>1 DEF Start, Refused, TypeOK, Paths
<1>2. CASE End
  BY <1>2 DEF End
<1>3. CASE NextDir
  BY <1>3 DEF NextDir
<1>4. CASE Load
  BY <1>4 DEF Load
<1>5. CASE NextFile
  BY <1>5 DEF NextFile
<1>6. CASE PrintPath
  BY <1>6 DEF PrintPath
<1>7. CASE WriteCheck
  BY <1>7 DEF WriteCheck
<1>8. CASE Rewritten
  BY <1>8 DEF Rewritten
<1>9. CASE RewriteFails
  BY <1>9 DEF RewriteFails
<1>10. CASE SingleFile
  BY <1>10 DEF SingleFile
<1>11. CASE Cancel
  BY <1>11 DEF Cancel
<1>12. CASE UNCHANGED vars
  BY <1>12 DEF vars
<1>. QED  BY <1>1, <1>2, <1>3, <1>4, <1>5, <1>6, <1>7, <1>8, <1>9, <1>10, <1>11, <1>12
           DEF Next, Step

LEMMA ChangeStep == ASSUME IInv, [Next]_vars PROVE ChangeInv'
<1>. USE DEF IInv, ModeInv, ChangeInv, input, loop, cancel
<1>1. /\ UNCHANGED <<check, tree0>> /\ Wanted' = Wanted /\ Wanted \subseteq Files
      /\ \A f \in Files : Dirty0(f)' = Dirty0(f)
  BY TreeStep, SameFiles, Constants DEF Wanted
<1>2. CASE PrintPath
  <2>1. PICK f \in files : First(f, files) /\ printed' = printed \cup {f} /\ tree' = tree
    BY <1>2 DEF PrintPath
  <2>2. f \in Files /\ Dirty(f) /\ path = "dir" /\ pc = "print"
    BY <1>2, <2>1 DEF PrintPath, TurnInv, TypeOK
  <2>3. DirOf[f] \in Coll /\ Parsed(tree[f])
    BY <2>1, <2>2 DEF WorkInv
  <2>4. f \in Wanted
    BY <2>2, <2>3 DEF Wanted, Coll, Parsed, SingleMode
  <2>5. Dirty0(f)
    BY <2>2, <2>1, Reforms DEF Dirty, Dirty0, TypeOK
  <2>. QED  BY <1>1, <2>1, <2>4, <2>5
<1>3. CASE SingleFile
  <2>1. tree' = tree /\ tree = tree0 /\ printed = {} /\ SingleMode
    BY <1>3 DEF SingleFile
  <2>2. printed' = {} \/ (printed' = {Single} /\ Dirty(Single))
    BY <1>3, <2>1 DEF SingleFile
  <2>. QED  BY <1>1, <2>1, <2>2, Constants DEF Wanted, Dirty, Dirty0
<1>4. CASE Rewritten
  <2>1. PICK f \in files : First(f, files) /\ tree' = [tree EXCEPT ![f] = Reformatted(tree[f])]
    BY <1>4 DEF Rewritten
  <2>2. f \in Files /\ Dirty(f) /\ f \in printed /\ ~check /\ printed' = printed
    BY <1>4, <2>1 DEF Rewritten, TurnInv, TypeOK
  <2>3. tree[f] = tree0[f]
    BY <2>2, Reforms DEF Dirty, TypeOK
  <2>4. ASSUME NEW g \in Files, tree'[g] # tree0[g]
        PROVE  g \in printed /\ tree'[g] = Reformatted(tree0[g])
    BY <2>1, <2>2, <2>3, <2>4 DEF TypeOK
  <2>. QED  BY <1>1, <2>2, <2>4
<1>5. CASE UNCHANGED <<printed, tree>>
  BY <1>1, <1>5
<1>6. CASE Start \/ End \/ NextDir \/ Load \/ NextFile \/ WriteCheck \/ RewriteFails \/ Cancel
  BY <1>5, <1>6 DEF Start, End, NextDir, Load, NextFile, WriteCheck, RewriteFails, Cancel
<1>7. CASE UNCHANGED vars
  BY <1>5, <1>7 DEF vars
<1>. QED  BY <1>2, <1>3, <1>4, <1>6, <1>7 DEF Next, Step

LEMMA TurnStep == ASSUME IInv, [Next]_vars PROVE TurnInv'
<1>. USE DEF IInv, TurnInv, input, loop, cancel, Exit, Goto
<1>1. CASE NextFile
  <2>1. CASE pc' \in {"dirs", "file", "exited"}
    BY <1>1, <2>1 DEF NextFile, ModeInv, SingleMode
  <2>2. CASE pc' = "print"
    <3>1. PICK f \in files : First(f, files) /\ Dirty(f) /\ files' = files /\ tree' = tree
      BY <1>1, <2>2 DEF NextFile
    <3>2. path' = path /\ path = "dir"
      BY <1>1 DEF NextFile, ModeInv
    <3>. QED  BY <2>2, <3>1, <3>2, FirstUnique DEF TypeOK, SingleMode, Dirty
  <2>. QED  BY <1>1, <2>1, <2>2 DEF NextFile
<1>2. CASE PrintPath
  <2>1. PICK f \in files : /\ First(f, files) /\ printed' = printed \cup {f}
                           /\ (pc' = "write" /\ files' = files) \/ pc' = "file"
    BY <1>2 DEF PrintPath
  <2>2. path = "dir" /\ UNCHANGED <<tree, path>>
    BY <1>2 DEF PrintPath, ModeInv
  <2>. QED  BY <1>2, <2>1, <2>2, FirstUnique DEF PrintPath, TypeOK, Dirty, SingleMode
<1>3. CASE WriteCheck
  BY <1>3 DEF WriteCheck, Dirty, SingleMode, Readable, Malformable
<1>4. CASE SingleFile
  BY <1>4 DEF SingleFile, Dirty, SingleMode, Readable, Malformable, ModeInv
<1>5. CASE Rewritten \/ RewriteFails
  BY <1>5 DEF Rewritten, RewriteFails, ModeInv, SingleMode
<1>6. CASE Start \/ End \/ NextDir \/ Load
  BY <1>6 DEF Start, End, NextDir, Load, ModeInv, SingleMode, WorkInv
<1>7. CASE Cancel \/ UNCHANGED vars
  BY <1>7 DEF Cancel, vars, Dirty, SingleMode, Readable, Malformable
<1>. QED  BY <1>1, <1>2, <1>3, <1>4, <1>5, <1>6, <1>7 DEF Next, Step

(* What the loops remember is not forgotten, and a file passed stays so.   *)
LEMMA PassedStays ==
  ASSUME IInv, [Next]_vars, NEW f \in Files, Passed(f)
  PROVE  Passed(f)'
<1>1. /\ anyError => anyError'
      /\ anyDirty => anyDirty'
      /\ printed \subseteq printed' /\ failed \subseteq failed'
  <2>. USE DEF input, loop, cancel
  <2>1. CASE Start \/ End \/ NextDir \/ Load \/ NextFile
    BY <2>1 DEF Start, End, NextDir, Load, NextFile, IInv, TypeOK
  <2>2. CASE PrintPath \/ WriteCheck \/ Cancel
    BY <2>2 DEF PrintPath, WriteCheck, Cancel
  <2>5. CASE Rewritten
    BY <2>5 DEF Rewritten
  <2>6. CASE RewriteFails
    BY <2>6 DEF RewriteFails
  <2>3. CASE SingleFile
    BY <2>3 DEF SingleFile, IInv, ModeInv
  <2>4. CASE UNCHANGED vars
    BY <2>4 DEF vars
  <2>. QED  BY <2>1, <2>2, <2>3, <2>4, <2>5, <2>6 DEF Next, Step
<1>2. check' = check /\ Readable(f)' = Readable(f) /\ (Dirty(f)' => Dirty(f))
  BY SameFiles, TreeStep DEF input
<1>. QED  BY <1>1, <1>2 DEF Passed

(* A file in the loop is one of those asked for, dirty from the start if   *)
(* it is dirty.                                                            *)
LEMMA InLoop ==
  ASSUME IInv, path = "dir", pc \in {"file", "print", "write", "rename"}, NEW f \in files
  PROVE  /\ f \in Wanted /\ Readable(f)
         /\ Dirty(f) => Dirty0(f)
<1>1. f \in Files /\ DirOf[f] = d /\ d \in Coll /\ d \notin unreadable /\ Parsed(tree[f])
  BY DEF IInv, TypeOK, WorkInv
<1>2. Dirty(f) => Dirty0(f)
  BY <1>1, Reforms DEF IInv, TypeOK, ChangeInv, Dirty, Dirty0
<1>. QED  BY <1>1, <1>2 DEF Wanted, Coll, Parsed, SingleMode, Readable

LEMMA WorkStep == ASSUME IInv, [Next]_vars PROVE WorkInv'
<1>. USE DEF input, loop, cancel, Exit, Goto
<1>1. /\ UNCHANGED <<check, path, unreadable, recursive>> /\ Coll' = Coll
      /\ Wanted' = Wanted /\ Wanted \subseteq Files
      /\ \A f \in Files : Dirty0(f)' = Dirty0(f) /\ Readable(f)' = Readable(f)
  BY TreeStep, SameFiles, Constants DEF Wanted, Coll
<1>2. \A f \in Wanted : Passed(f) => Passed(f)'
  BY <1>1, PassedStays
<1>3. CASE Start
  <2>1. CASE pc' = "dirs"
    <3>1. path = "dir" /\ dirs' = Coll /\ UNCHANGED <<files, failed, anyDirty>>
      BY <1>3, <2>1 DEF Start, Coll
    <3>2. files = {} /\ failed = {} /\ ~anyDirty
      BY <1>3 DEF Start, IInv, ModeInv
    <3>3. \A f \in Wanted : DirOf[f] \in Coll
      BY <3>1 DEF Wanted, Coll, SingleMode
    <3>. QED  BY <1>1, <2>1, <3>1, <3>2, <3>3 DEF WorkInv, Pending
  <2>2. CASE pc' \in {"single", "exited"}
    BY <2>2 DEF WorkInv
  <2>. QED  BY <1>3, <2>1, <2>2 DEF Start
<1>4. CASE End \/ SingleFile
  BY <1>1, <1>4 DEF End, SingleFile, IInv, ModeInv, SingleMode, WorkInv
<1>5. CASE NextDir
  <2>1. CASE pc' = "exited"
    BY <2>1 DEF WorkInv
  <2>2. CASE pc' = "load"
    <3>1. path = "dir" /\ files = {} /\ dirs \subseteq Coll
      BY <1>5 DEF NextDir, IInv, ModeInv, WorkInv
    <3>2. /\ d' \in dirs /\ dirs' = dirs \ {d'} /\ pc = "dirs"
          /\ UNCHANGED <<files, anyDirty, anyError, printed, failed>>
      BY <1>5, <2>2 DEF NextDir, First
    <3>3. \A f \in Wanted : Pending(f)' \/ Passed(f)'
      BY <1>1, <1>2, <2>2, <3>1, <3>2 DEF IInv, WorkInv, Pending
    <3>. QED  BY <1>1, <2>2, <3>1, <3>2, <3>3 DEF IInv, WorkInv
  <2>. QED  BY <1>5, <2>1, <2>2 DEF NextDir
<1>6. CASE Load
  <2>1. CASE pc' = "exited"
    BY <2>1 DEF WorkInv
  <2>2. CASE pc' = "file"
    <3>1. /\ path = "dir" /\ pc = "load" /\ files = {} /\ d \in Coll /\ d \notin dirs
          /\ dirs \subseteq Coll
      BY <1>6 DEF Load, IInv, ModeInv, WorkInv
    <3>2. UNCHANGED <<tree, dirs, d, anyDirty, printed, failed>>
      BY <1>6 DEF Load
    <3>3. CASE d \in unreadable
      <4>1. files' = {} /\ anyError'
        BY <1>6, <2>2, <3>3 DEF Load
      <4>2. \A f \in Wanted : DirOf[f] = d => ~Readable(f)
        BY <3>1, <3>3 DEF Readable, SingleMode
      <4>3. \A f \in Wanted : Pending(f)' \/ Passed(f)'
        BY <1>1, <1>2, <2>2, <3>1, <3>2, <4>1, <4>2 DEF IInv, WorkInv, Pending, Passed
      <4>. QED  BY <1>1, <2>2, <3>1, <3>2, <4>1, <4>3 DEF IInv, WorkInv
    <3>4. CASE d \notin unreadable
      <4>1. /\ files' = {f \in Physical(tree, d) : Parsed(tree[f])}
            /\ anyError' = (anyError \/ files' # Physical(tree, d))
        BY <1>6, <2>2, <3>4 DEF Load
      <4>2. \A f \in Wanted : DirOf[f] = d => f \in Physical(tree, d)
        BY <3>1 DEF Wanted, Physical, SingleMode
      <4>3. \A f \in Wanted : DirOf[f] = d => f \in files' \/ (~Readable(f) /\ anyError')
        BY <3>1, <3>4, <4>1, <4>2 DEF Readable, SingleMode
      <4>4. \A f \in files' : DirOf[f] = d /\ Parsed(tree[f])
        BY <4>1 DEF Physical
      <4>5. \A f \in Wanted : Pending(f)' \/ Passed(f)'
        BY <1>1, <1>2, <2>2, <3>1, <3>2, <4>3 DEF IInv, WorkInv, Pending, Passed
      <4>. QED  BY <1>1, <2>2, <3>1, <3>2, <3>4, <4>1, <4>4, <4>5 DEF IInv, WorkInv
    <3>. QED  BY <3>3, <3>4
  <2>. QED  BY <1>6, <2>1, <2>2 DEF Load
<1>7. CASE NextFile
  <2>. USE DEF IInv, WorkInv
  <2>1. path = "dir" /\ pc = "file"
    BY <1>7 DEF NextFile, ModeInv
  <2>2. CASE pc' = "exited"
    BY <2>2
  <2>3. CASE files = {} /\ pc' = "dirs"
    <3>1. UNCHANGED <<tree, dirs, d, files, anyDirty, anyError, printed, failed>>
      BY <1>7, <2>3 DEF NextFile
    <3>2. \A f \in Wanted : Pending(f)' \/ Passed(f)'
      BY <1>1, <1>2, <2>1, <2>3, <3>1 DEF Pending
    <3>. QED  BY <1>1, <2>1, <2>3, <3>1, <3>2
  <2>4. ASSUME NEW f \in files, ~Dirty(f), files' = files \ {f}, pc' = "file",
               UNCHANGED <<tree, dirs, d, anyDirty, anyError, printed, failed>>
        PROVE  WorkInv'
    <3>1. Passed(f)'
      BY <1>1, <2>1, <2>4, InLoop, SameFiles DEF Passed
    <3>2. \A g \in Wanted : Pending(g)' \/ Passed(g)'
      BY <1>1, <1>2, <2>1, <2>4, <3>1 DEF Pending
    <3>. QED  BY <1>1, <2>1, <2>4, <3>2
  <2>5. ASSUME NEW f \in files, Dirty(f), anyDirty', pc' = "print",
               UNCHANGED <<tree, dirs, d, files, anyError, printed, failed>>
        PROVE  WorkInv'
    <3>1. f \in Wanted /\ Dirty0(f)
      BY <2>1, <2>5, InLoop
    <3>2. \A g \in Wanted : Pending(g)' \/ Passed(g)'
      BY <1>1, <1>2, <2>1, <2>5 DEF Pending
    <3>. QED  BY <1>1, <2>1, <2>5, <3>1, <3>2
  <2>6. CASE files # {} /\ ~ctxDone
    <3>1. PICK f \in files :
            \/ ~Dirty(f) /\ files' = files \ {f} /\ pc' = "file" /\ UNCHANGED anyDirty
            \/ Dirty(f) /\ anyDirty' /\ pc' = "print" /\ UNCHANGED files
      BY <1>7, <2>6 DEF NextFile
    <3>2. UNCHANGED <<tree, dirs, d, anyError, printed, failed>>
      BY <1>7 DEF NextFile
    <3>. QED  BY <2>4, <2>5, <3>1, <3>2
  <2>. QED  BY <1>7, <2>2, <2>3, <2>6 DEF NextFile
<1>8. CASE PrintPath
  <2>. USE DEF IInv, WorkInv
  <2>1. PICK f \in files : /\ First(f, files) /\ printed' = printed \cup {f}
                           /\ \/ pc' = "write" /\ files' = files
                              \/ check /\ files' = files \ {f} /\ pc' = "file"
    BY <1>8 DEF PrintPath
  <2>2. path = "dir" /\ pc = "print" /\ UNCHANGED <<tree, dirs, d, anyDirty, anyError, failed>>
    BY <1>8 DEF PrintPath, ModeInv
  <2>3. check => Passed(f)'
    BY <1>1, <2>1, <2>2, InLoop, SameFiles DEF Passed
  <2>4. \A g \in Wanted : Pending(g)' \/ Passed(g)'
    BY <1>1, <1>2, <2>1, <2>2, <2>3 DEF Pending
  <2>. QED  BY <1>1, <2>1, <2>2, <2>4
<1>9. CASE WriteCheck
  <2>. USE DEF IInv, WorkInv
  <2>1. pc = "write" /\ pc' \in {"exited", "rename"}
        /\ UNCHANGED <<tree, dirs, d, files, anyDirty, anyError, printed, failed>>
    BY <1>9 DEF WriteCheck
  <2>2. \A g \in Wanted : path = "dir" => Pending(g)' \/ Passed(g)'
    BY <1>1, <1>2, <2>1 DEF Pending
  <2>. QED  BY <1>1, <2>1, <2>2
<1>10. CASE Rewritten \/ RewriteFails
  <2>. USE DEF IInv, WorkInv
  <2>1. PICK f \in files : /\ First(f, files) /\ files' = files \ {f}
                           /\ \/ /\ tree' = [tree EXCEPT ![f] = Reformatted(tree[f])]
                                 /\ UNCHANGED <<anyError, failed>>
                              \/ tree' = tree /\ failed' = failed \cup {f} /\ (path = "dir" => anyError')
    BY <1>10 DEF Rewritten, RewriteFails, SingleMode
  <2>2. pc = "rename" /\ UNCHANGED <<dirs, d, anyDirty, printed>>
        /\ (path = "dir" => pc' = "file")
    BY <1>10 DEF Rewritten, RewriteFails, SingleMode
  <2>3. f \in Files /\ tree \in [Files -> FileState] /\ tree[f] \in FileState /\ Dirty(f) /\ f \in printed
    BY <2>1, <2>2 DEF TypeOK, TurnInv
  <2>4. path = "dir" => Passed(f)'
    <3>1. CASE tree' = [tree EXCEPT ![f] = Reformatted(tree[f])]
      BY <1>1, <2>2, <2>3, <3>1, InLoop, Reforms DEF Passed, Dirty
    <3>2. CASE f \in failed' /\ (path = "dir" => anyError')
      BY <2>2, <2>3, <3>2 DEF Passed
    <3>. QED  BY <2>1, <3>1, <3>2
  <2>5. \A g \in Wanted : path = "dir" => Pending(g)' \/ Passed(g)'
    BY <1>1, <1>2, <2>1, <2>2, <2>4 DEF Pending
  <2>6. path = "dir" => \A g \in files' : Parsed(tree'[g])
    <3>1. \A g \in files' : g \in files /\ tree'[g] = tree[g]
      BY <2>1, <2>3 DEF TypeOK
    <3>. QED  BY <2>2, <3>1
  <2>7. path = "dir" => (failed' # {} => anyError') /\ (anyError => anyError')
    BY <2>1, <2>2
  <2>8. SingleMode' \/ path = "dir"
    BY <1>1, <2>2 DEF ModeInv, SingleMode
  <2>. QED  BY <1>1, <2>1, <2>2, <2>5, <2>6, <2>7, <2>8 DEF SingleMode
<1>11. CASE Cancel \/ UNCHANGED vars
  <2>1. UNCHANGED <<tree, pc, dirs, d, files, anyDirty, anyError, printed, failed>>
    BY <1>11 DEF Cancel, vars
  <2>. QED  BY <1>1, <1>2, <2>1 DEF IInv, WorkInv, Pending
<1>. QED  BY <1>3, <1>4, <1>5, <1>6, <1>7, <1>8, <1>9, <1>10, <1>11 DEF Next, Step

LEMMA EndStep == ASSUME IInv, [Next]_vars PROVE EndInv'
<1>. USE DEF input, loop, cancel, Exit, Goto, Running
<1>1. /\ UNCHANGED <<check, path, unreadable, recursive, tree0>>
      /\ Wanted' = Wanted /\ Wanted \subseteq Files
      /\ \A f \in Files : /\ Dirty0(f)' = Dirty0(f) /\ Readable(f)' = Readable(f)
                          /\ Dirty(f)' => Dirty(f)
  BY TreeStep, SameFiles, Constants DEF Wanted
<1>2. /\ printed \subseteq {f \in Wanted : Dirty0(f)}
      /\ \A f \in Files : Dirty0(f) => Dirty(f) \/ f \in printed
      /\ check => \A f \in Files : Dirty0(f) => Dirty(f)
  BY DEF IInv, ChangeInv, Dirty, Dirty0
<1>3. CASE exit' \notin {0, 3}
  BY <1>3 DEF EndInv, ZeroMeansFormatted, ThreeMeansDirt
<1>4. CASE End /\ exit' \in {0, 3}
  <2>1. /\ path = "dir" /\ dirs = {} /\ files = {} /\ ~anyError /\ failed = {}
        /\ exit' = (IF check /\ anyDirty THEN 3 ELSE 0)
        /\ UNCHANGED <<tree, printed>>
    BY <1>4 DEF End, IInv, ModeInv, WorkInv
  <2>2. \A f \in Wanted : Readable(f) /\ (Dirty(f) => f \in printed /\ check /\ anyDirty)
    BY <1>4, <2>1 DEF End, IInv, WorkInv, Pending, Passed
  <2>3. (anyDirty => \E f \in Wanted : Dirty0(f)) /\ Coll \cap unreadable = {}
    BY <1>4, <2>1 DEF End, IInv, WorkInv
  <2>4. printed' = {f \in Wanted : Dirty0(f)}'
    <3>1. printed = {f \in Wanted : Dirty0(f)}
      <4>1. \A f \in Wanted : Dirty0(f) => f \in printed
        BY <1>1, <1>2, <2>2
      <4>. QED  BY <1>2, <4>1
    <3>2. {f \in Wanted : Dirty0(f)}' = {f \in Wanted : Dirty0(f)}
      BY <1>1
    <3>. QED  BY <2>1, <3>1, <3>2
  <2>5. \A f \in Wanted : Dirty(f)' = Dirty(f)
    BY <2>1 DEF Dirty
  <2>. QED  BY <1>1, <1>2, <2>1, <2>2, <2>3, <2>4, <2>5
             DEF EndInv, ZeroMeansFormatted, ThreeMeansDirt, Coll
<1>5. CASE SingleFile /\ exit' \in {0, 3}
  <2>1. SingleMode /\ Wanted = {Single} /\ printed = {} /\ tree = tree0 /\ tree' = tree
        /\ exit \notin {0, 3}
    BY <1>5 DEF SingleFile, IInv, ModeInv, Wanted
  <2>2. /\ Readable(Single)
        /\ \/ exit' = 0 /\ ~Dirty(Single) /\ printed' = {}
           \/ exit' = 3 /\ check /\ Dirty(Single) /\ printed' = {Single}
    BY <1>5, <2>1 DEF SingleFile, Readable
  <2>3. (Dirty(Single) <=> Dirty0(Single)) /\ Dirty(Single)' = Dirty(Single) /\ SingleMode'
    BY <1>1, <2>1 DEF Dirty, Dirty0, SingleMode
  <2>. QED  BY <1>1, <2>1, <2>2, <2>3, Constants DEF EndInv, ZeroMeansFormatted, ThreeMeansDirt
<1>6. CASE Rewritten /\ exit' \in {0, 3}
  <2>1. PICK f \in files : First(f, files) /\ tree' = [tree EXCEPT ![f] = Reformatted(tree[f])]
    BY <1>6 DEF Rewritten
  <2>2. SingleMode /\ f = Single /\ Wanted = {Single} /\ exit' = 0 /\ printed' = printed
        /\ pc = "rename"
    BY <1>6, <2>1 DEF Rewritten, IInv, ModeInv, Wanted
  <2>3. Readable(Single) /\ Single \in printed /\ Single \in Files /\ tree \in [Files -> FileState]
    BY <2>1, <2>2, Constants DEF IInv, TurnInv, TypeOK
  <2>4. ~Dirty(Single)' /\ SingleMode'
    BY <1>1, <2>1, <2>2, <2>3, Reforms DEF Dirty, SingleMode
  <2>. QED  BY <1>1, <1>2, <2>2, <2>3, <2>4 DEF EndInv, ZeroMeansFormatted, ThreeMeansDirt
<1>7. CASE UNCHANGED vars
  <2>1. UNCHANGED <<tree, printed, exit, SingleMode>>
        /\ \A f \in Wanted : Dirty(f)' = Dirty(f)
    BY <1>7 DEF vars, SingleMode, Dirty
  <2>. QED  BY <1>1, <2>1 DEF IInv, EndInv, ZeroMeansFormatted, ThreeMeansDirt
<1>8. ASSUME exit' \in {0, 3}, Next
      PROVE  End \/ SingleFile \/ Rewritten
  <2>1. exit \notin {0, 3}
    BY <1>8 DEF Next, Step, Start, End, NextDir, Load, NextFile, PrintPath, WriteCheck, Rewritten,
                RewriteFails, SingleFile, Cancel, IInv, ModeInv
  <2>. QED  BY <1>8, <2>1 DEF Next, Step, Start, NextDir, Load, NextFile, PrintPath, WriteCheck,
                RewriteFails, Cancel
<1>. QED  BY <1>3, <1>4, <1>5, <1>6, <1>7, <1>8

LEMMA LateStep == ASSUME IInv, [Next]_vars PROVE LateInv'
<1>. USE DEF IInv, LateInv, input, loop, cancel, Exit, Goto
<1>1. CASE Rewritten
  <2>1. late = {} /\ pc = "rename" /\ UNCHANGED <<ctxDone, cancelledAt>> /\ pc' \in {"file", "exited"}
    BY <1>1 DEF Rewritten
  <2>2. PICK f \in files : late' = IF ctxDone THEN late \cup {f} ELSE late
    BY <1>1 DEF Rewritten
  <2>. QED  BY <2>1, <2>2 DEF TypeOK
<1>2. CASE NextFile
  BY <1>2 DEF NextFile
<1>3. CASE End \/ NextDir
  BY <1>3 DEF End, NextDir
<1>4. CASE Start \/ Load \/ PrintPath \/ WriteCheck \/ RewriteFails \/ SingleFile
  BY <1>4 DEF Start, Load, PrintPath, WriteCheck, RewriteFails, SingleFile
<1>5. CASE Cancel \/ UNCHANGED vars
  BY <1>5 DEF Cancel, vars
<1>. QED  BY <1>1, <1>2, <1>3, <1>4, <1>5 DEF Next, Step

LEMMA Invariance == Spec => []IInv
<1>1. Init => IInv
  BY InitInv
<1>2. IInv /\ [Next]_vars => IInv'
  <2>. SUFFICES ASSUME IInv, [Next]_vars PROVE IInv'
    OBVIOUS
  <2>1. TypeOK
    BY DEF IInv
  <2>. QED  BY <2>1, TypeStep, ModeStep, ChangeStep, TurnStep, WorkStep, EndStep, LateStep DEF IInv
<1>. QED  BY <1>1, <1>2, PTL DEF Spec

-----------------------------------------------------------------------------
(* The properties.                                                         *)

(* Every variable of runFmt keeps its type.                                *)
THEOREM TypeCorrect == Spec => []TypeOK
BY Invariance, PTL DEF IInv

(* Exit 0 of fmt: every file asked for, shadowed ones included, was read,  *)
(* parsed and is formatted, however many directories there are.            *)
THEOREM ZeroCorrect == Spec => []ZeroMeansFormatted
BY Invariance, PTL DEF IInv, EndInv

(* Exit 3 of fmt -check: some file is unformatted and all could be read.   *)
THEOREM ThreeCorrect == Spec => []ThreeMeansDirt
BY Invariance, PTL DEF IInv, EndInv

(* Whatever fmt rewrites it has printed before, and a finished run has     *)
(* printed exactly the unformatted files.                                  *)
THEOREM PrintedCorrect == Spec => []RewritesArePrinted
<1>1. IInv => RewritesArePrinted
  BY DEF IInv, ChangeInv, EndInv, RewritesArePrinted
<1>. QED  BY <1>1, Invariance, PTL

(* After a signal WriteFormatted completes the rewrite under way and none  *)
(* is begun.                                                               *)
THEOREM LateCorrect == Spec => []OneLateWrite
<1>1. IInv => OneLateWrite
  <2>. SUFFICES ASSUME IInv PROVE OneLateWrite
    OBVIOUS
  <2>1. CASE late = {}
    BY <2>1, FS_EmptySet DEF OneLateWrite
  <2>2. CASE late # {}
    BY <2>2, FS_Singleton DEF OneLateWrite, IInv, LateInv
  <2>. QED  BY <2>1, <2>2
<1>. QED  BY <1>1, Invariance, PTL

(* When the work on directories ends with exit 2, only files that cannot   *)
(* be read or whose rewrite failed are unformatted: runFmt goes on after   *)
(* each failure.                                                           *)
THEOREM IsolationCorrect == Spec => FailuresIsolated
<1>1. ASSUME IInv, [Next]_vars
      PROVE  [exit = Running /\ exit' = 2 /\ pc # "start" /\ path = "dir" /\ ~check
                => \A f \in Wanted : Readable(f) /\ Dirty(f) => f \in failed']_vars
  <2>. SUFFICES ASSUME exit = Running, exit' = 2, pc # "start", path = "dir", ~check
                PROVE  \A f \in Wanted : Readable(f) /\ Dirty(f) => f \in failed'
    OBVIOUS
  <2>. USE DEF Exit, Goto, Running, SingleMode
  <2>1. End
    BY <1>1 DEF Next, Step, Start, NextDir, Load, NextFile, PrintPath, WriteCheck, Rewritten,
                RewriteFails, SingleFile, Cancel, IInv, ModeInv, vars
  <2>2. dirs = {} /\ files = {} /\ pc = "dirs" /\ failed' = failed
    BY <1>1, <2>1 DEF End, IInv, WorkInv
  <2>. QED  BY <1>1, <2>2 DEF IInv, WorkInv, Pending, Passed
<1>. QED  BY <1>1, Invariance, PTL DEF Spec, FailuresIsolated
=============================================================================
