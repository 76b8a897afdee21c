--------------------------- MODULE RewriteProofs ---------------------------
(***************************************************************************)
(* Proofs about Rewrite for any number of processes, temporary names,      *)
(* modes and user edits.                                                   *)
(*                                                                         *)
(* The inductive invariant has four parts.  TempInv: processes at work own *)
(* different temporary files, and what is in them.  VersionInv: a raw file *)
(* is the newest version any process has seen, so a process that read it   *)
(* after the last edit cannot be behind.  PermInv and SwapInv: what the    *)
(* handle and the last Lstat showed still holds while no user interferes.  *)
(***************************************************************************)
EXTENDS Rewrite, TLAPS

Early(p) == pc[p] \in {"read", "lstat", "open", "create"}
Owns(p) == pc[p] \in {"write", "chmod", "check", "rename", "cleanup"}
Opened(p) == pc[p] \in {"create", "write", "chmod", "check", "rename"}

TempInv ==
  /\ \A p \in Procs : Early(p) => name[p] = NoName
  /\ \A p \in Procs : Owns(p) => name[p] \in Names /\ temps[name[p]] # NoTemp
  /\ \A p, q \in Procs : p # q /\ Owns(p) /\ Owns(q) => name[p] # name[q]
  /\ \A p \in Procs :
       pc[p] \in {"chmod", "check", "rename"}
         => temps[name[p]] = Formatted(src[p])
  /\ \A p \in Procs :
       pc[p] \in {"check", "rename"} => tempMode[name[p]] = perm[p]
  /\ \A p \in Procs : pc[p] = "cleanup" => result[p] = "error"

VersionInv ==
  /\ data.ver <= edits
  /\ \A p \in Procs :
       src[p].ver <= edits /\ readAt[p] <= edits /\ checkedAt[p] <= edits
  /\ data.form = "raw" => \A p \in Procs : src[p].ver <= data.ver
  /\ \A p \in Procs :
       pc[p] \notin {"read", "done", "killed"} /\ readAt[p] = edits
         => data.ver <= src[p].ver /\ \A q \in Procs : src[q].ver <= src[p].ver

PermInv ==
  (\A q \in Procs : name[q] # NoName => readAt[q] = edits)
    => \A p \in Procs : Opened(p) /\ readAt[p] = edits => perm[p] = mode

SwapInv ==
  \A p \in Procs :
    pc[p] = "rename" /\ checkedAt[p] = edits /\ p \notin blind
      => kind \in {"file", "absent"}

IInv == TypeOK /\ WholeFile /\ TempInv /\ VersionInv /\ PermInv /\ SwapInv

-----------------------------------------------------------------------------
(* The bytes: types and temporary files.                                   *)

\* The invariant holds before the first step.
LEMMA InitInv == Init => IInv
<1>. SUFFICES ASSUME Init PROVE IInv
  OBVIOUS
<1>. USE RewriteAssumption DEF Init
<1>1. TypeOK
  BY DEF TypeOK, Content, Versions, Raw, NoTemp, Partial, PCs, NoName
<1>2. WholeFile /\ VersionInv
  BY DEF WholeFile, VersionInv, Content, Versions, Raw
<1>3. TempInv /\ PermInv /\ SwapInv
  BY DEF TempInv, PermInv, SwapInv, Early, Owns, Opened
<1>. QED
  BY <1>1, <1>2, <1>3 DEF IInv

\* Every step keeps the types and shows a whole file at the path.
LEMMA TypeStep ==
  ASSUME IInv, [Next]_vars
  PROVE  TypeOK' /\ WholeFile'
<1>. USE RewriteAssumption DEF IInv, TypeOK, WholeFile, PCs, Goto, Finish, Fail,
       disk, temp, history
<1>1. ASSUME NEW p \in Procs, Read(p) PROVE TypeOK' /\ WholeFile'
  BY <1>1 DEF Read
<1>2. ASSUME NEW p \in Procs, Interrupted(p) PROVE TypeOK' /\ WholeFile'
  BY <1>2 DEF Interrupted
<1>3. ASSUME NEW p \in Procs, Lstat(p) PROVE TypeOK' /\ WholeFile'
  BY <1>3 DEF Lstat
<1>4. ASSUME NEW p \in Procs, Open(p) PROVE TypeOK' /\ WholeFile'
  BY <1>4 DEF Open
<1>5. ASSUME NEW p \in Procs, CreateTemp(p) PROVE TypeOK' /\ WholeFile'
  BY <1>5 DEF CreateTemp
<1>6. ASSUME NEW p \in Procs, Write(p) PROVE TypeOK' /\ WholeFile'
  <2>1. Formatted(src[p]) \in Content
    BY DEF Content, Formatted
  <2>. QED
    BY <1>6, <2>1 DEF Write
<1>7. ASSUME NEW p \in Procs, Chmod(p) PROVE TypeOK' /\ WholeFile'
  BY <1>7 DEF Chmod
<1>8. ASSUME NEW p \in Procs, Recheck(p) PROVE TypeOK' /\ WholeFile'
  BY <1>8 DEF Recheck
<1>9. ASSUME NEW p \in Procs, Rename(p) PROVE TypeOK' /\ WholeFile'
  <2>1. /\ name[p] \in Names
        /\ temps[name[p]] = Formatted(src[p])
        /\ tempMode[name[p]] = perm[p]
    BY <1>9 DEF Rename, TempInv, Owns
  <2>2. Formatted(src[p]) \in Content
    BY DEF Content, Formatted
  <2>. QED
    BY <1>9, <2>1, <2>2 DEF Rename
<1>10. ASSUME NEW p \in Procs, CallFails(p) PROVE TypeOK' /\ WholeFile'
  BY <1>10 DEF CallFails
<1>11. ASSUME NEW p \in Procs, Cleanup(p) PROVE TypeOK' /\ WholeFile'
  BY <1>11 DEF Cleanup
<1>12. ASSUME NEW p \in Procs, Kill(p) PROVE TypeOK' /\ WholeFile'
  BY <1>12 DEF Kill
<1>13. CASE UserSaves
  <2>1. Raw(edits') \in Content
    BY <1>13 DEF UserSaves, Raw, Content, Versions
  <2>. QED
    BY <1>13, <2>1 DEF UserSaves
<1>14. CASE UserReplaces
  BY <1>14 DEF UserReplaces
<1>15. CASE UNCHANGED vars
  BY <1>15 DEF vars
<1>. QED
  BY <1>1, <1>2, <1>3, <1>4, <1>5, <1>6, <1>7, <1>8, <1>9, <1>10, <1>11, <1>12,
     <1>13, <1>14, <1>15 DEF Next, Step

\* Temporary files stay apart and keep what their owner put there.
LEMMA TempStep ==
  ASSUME IInv, [Next]_vars
  PROVE  TempInv'
<1>. USE RewriteAssumption DEF IInv, TypeOK, TempInv, Early, Owns, Goto, Finish,
       Fail, disk, temp, history
<1>1. ASSUME NEW p \in Procs, Read(p) PROVE TempInv'
  BY <1>1 DEF Read
<1>2. ASSUME NEW p \in Procs, Interrupted(p) PROVE TempInv'
  BY <1>2 DEF Interrupted
<1>3. ASSUME NEW p \in Procs, Lstat(p) PROVE TempInv'
  BY <1>3 DEF Lstat
<1>4. ASSUME NEW p \in Procs, Open(p) PROVE TempInv'
  BY <1>4 DEF Open
<1>5. ASSUME NEW p \in Procs, CreateTemp(p) PROVE TempInv'
  <2>1. PICK x \in Names :
          /\ temps[x] = NoTemp
          /\ name' = [name EXCEPT ![p] = x]
          /\ temps' = [temps EXCEPT ![x] = Partial]
          /\ tempMode' = [tempMode EXCEPT ![x] = TempMode]
    BY <1>5 DEF CreateTemp
  <2>2. Partial # NoTemp
    BY DEF Partial, NoTemp
  <2>3. \A q \in Procs : Owns(q) => name[q] # x
    BY <2>1
  <2>. QED
    BY <1>5, <2>1, <2>2, <2>3 DEF CreateTemp
<1>6. ASSUME NEW p \in Procs, Write(p) PROVE TempInv'
  <2>1. Formatted(src[p]) # NoTemp
    BY DEF Formatted, NoTemp
  <2>. QED
    BY <1>6, <2>1 DEF Write
<1>7. ASSUME NEW p \in Procs, Chmod(p) PROVE TempInv'
  BY <1>7 DEF Chmod
<1>8. ASSUME NEW p \in Procs, Recheck(p) PROVE TempInv'
  BY <1>8 DEF Recheck
<1>9. ASSUME NEW p \in Procs, Rename(p) PROVE TempInv'
  BY <1>9 DEF Rename
<1>10. ASSUME NEW p \in Procs, CallFails(p) PROVE TempInv'
  BY <1>10 DEF CallFails
<1>11. ASSUME NEW p \in Procs, Cleanup(p) PROVE TempInv'
  BY <1>11 DEF Cleanup
<1>12. ASSUME NEW p \in Procs, Kill(p) PROVE TempInv'
  BY <1>12 DEF Kill
<1>13. CASE UserSaves
  BY <1>13 DEF UserSaves
<1>14. CASE UserReplaces
  BY <1>14 DEF UserReplaces
<1>15. CASE UNCHANGED vars
  BY <1>15 DEF vars
<1>. QED
  BY <1>1, <1>2, <1>3, <1>4, <1>5, <1>6, <1>7, <1>8, <1>9, <1>10, <1>11, <1>12,
     <1>13, <1>14, <1>15 DEF Next, Step

-----------------------------------------------------------------------------
(* Versions, permission bits and the last look at the path.                *)

\* No process that read the path after the last edit is behind another one
\* or behind the path.
LEMMA VersionStep ==
  ASSUME IInv, [Next]_vars
  PROVE  VersionInv'
<1>. USE RewriteAssumption DEF IInv, TypeOK, WholeFile, VersionInv, Content, Versions,
       Goto, Finish, Fail, disk, temp, history
<1>1. ASSUME NEW p \in Procs, Read(p) PROVE VersionInv'
  BY <1>1 DEF Read
<1>2. ASSUME NEW p \in Procs, Interrupted(p) PROVE VersionInv'
  BY <1>2 DEF Interrupted
<1>3. ASSUME NEW p \in Procs, Lstat(p) PROVE VersionInv'
  BY <1>3 DEF Lstat
<1>4. ASSUME NEW p \in Procs, Open(p) PROVE VersionInv'
  BY <1>4 DEF Open
<1>5. ASSUME NEW p \in Procs, CreateTemp(p) PROVE VersionInv'
  BY <1>5 DEF CreateTemp
<1>6. ASSUME NEW p \in Procs, Write(p) PROVE VersionInv'
  BY <1>6 DEF Write
<1>7. ASSUME NEW p \in Procs, Chmod(p) PROVE VersionInv'
  BY <1>7 DEF Chmod
<1>8. ASSUME NEW p \in Procs, Recheck(p) PROVE VersionInv'
  <2>1. /\ UNCHANGED <<data, edits, src, readAt>>
        /\ checkedAt' \in [Procs -> 0..MaxEdits]
        /\ \A q \in Procs : checkedAt'[q] <= edits
        /\ \A q \in Procs : pc'[q] = pc[q] \/ pc[q] = "check"
    BY <1>8 DEF Recheck
  <2>. QED
    BY <2>1
<1>9. ASSUME NEW p \in Procs, Rename(p) PROVE VersionInv'
  <2>1. temps[name[p]] = Formatted(src[p])
    BY <1>9 DEF Rename, TempInv
  <2>2. data'.ver = src[p].ver /\ data'.form = "formatted"
    BY <1>9, <2>1 DEF Rename, Formatted
  <2>. QED
    BY <1>9, <2>2 DEF Rename
<1>10. ASSUME NEW p \in Procs, CallFails(p) PROVE VersionInv'
  BY <1>10 DEF CallFails
<1>11. ASSUME NEW p \in Procs, Cleanup(p) PROVE VersionInv'
  BY <1>11 DEF Cleanup
<1>12. ASSUME NEW p \in Procs, Kill(p) PROVE VersionInv'
  BY <1>12 DEF Kill
<1>13. CASE UserSaves
  BY <1>13 DEF UserSaves, Raw
<1>14. CASE UserReplaces
  BY <1>14 DEF UserReplaces
<1>15. CASE UNCHANGED vars
  BY <1>15 DEF vars
<1>. QED
  BY <1>1, <1>2, <1>3, <1>4, <1>5, <1>6, <1>7, <1>8, <1>9, <1>10, <1>11, <1>12,
     <1>13, <1>14, <1>15 DEF Next, Step

\* While no user interferes, the bits seen on the handle are those of the path.
LEMMA PermStep ==
  ASSUME IInv, [Next]_vars
  PROVE  PermInv'
<1>. USE RewriteAssumption DEF IInv, TypeOK, VersionInv, PermInv, Opened, Goto,
       Finish, Fail, disk, temp, history
<1>1. ASSUME NEW p \in Procs, Read(p) PROVE PermInv'
  <2>1. name[p] = NoName /\ ~Opened(p)'
    BY <1>1 DEF Read, TempInv, Early
  <2>2. (\A q \in Procs : name'[q] # NoName => readAt'[q] = edits')
          => \A q \in Procs : name[q] # NoName => readAt[q] = edits
    BY <1>1, <2>1 DEF Read
  <2>. QED
    BY <1>1, <2>1, <2>2 DEF Read
<1>2. ASSUME NEW p \in Procs, Interrupted(p) PROVE PermInv'
  BY <1>2 DEF Interrupted
<1>3. ASSUME NEW p \in Procs, Lstat(p) PROVE PermInv'
  BY <1>3 DEF Lstat
<1>4. ASSUME NEW p \in Procs, Open(p) PROVE PermInv'
  BY <1>4 DEF Open
<1>5. ASSUME NEW p \in Procs, CreateTemp(p) PROVE PermInv'
  <2>1. name[p] = NoName
    BY <1>5 DEF CreateTemp, TempInv, Early
  <2>2. (\A q \in Procs : name'[q] # NoName => readAt'[q] = edits')
          => \A q \in Procs : name[q] # NoName => readAt[q] = edits
    BY <1>5, <2>1 DEF CreateTemp
  <2>. QED
    BY <1>5, <2>2 DEF CreateTemp
<1>6. ASSUME NEW p \in Procs, Write(p) PROVE PermInv'
  BY <1>6 DEF Write
<1>7. ASSUME NEW p \in Procs, Chmod(p) PROVE PermInv'
  BY <1>7 DEF Chmod
<1>8. ASSUME NEW p \in Procs, Recheck(p) PROVE PermInv'
  BY <1>8 DEF Recheck
<1>9. ASSUME NEW p \in Procs, Rename(p) PROVE PermInv'
  <2>1. name[p] \in Names /\ tempMode[name[p]] = perm[p] /\ Opened(p)
    BY <1>9 DEF Rename, TempInv, Owns
  <2>2. name[p] # NoName
    BY <2>1 DEF NoName
  <2>3. mode' = perm[p]
    BY <1>9, <2>1 DEF Rename
  <2>. QED
    BY <1>9, <2>1, <2>2, <2>3 DEF Rename
<1>10. ASSUME NEW p \in Procs, CallFails(p) PROVE PermInv'
  BY <1>10 DEF CallFails
<1>11. ASSUME NEW p \in Procs, Cleanup(p) PROVE PermInv'
  BY <1>11 DEF Cleanup
<1>12. ASSUME NEW p \in Procs, Kill(p) PROVE PermInv'
  BY <1>12 DEF Kill
<1>13. CASE UserSaves
  BY <1>13 DEF UserSaves, Raw
<1>14. CASE UserReplaces
  BY <1>14 DEF UserReplaces
<1>15. CASE UNCHANGED vars
  BY <1>15 DEF vars
<1>. QED
  BY <1>1, <1>2, <1>3, <1>4, <1>5, <1>6, <1>7, <1>8, <1>9, <1>10, <1>11, <1>12,
     <1>13, <1>14, <1>15 DEF Next, Step

\* What the last Lstat saw stands there until a user interferes.
LEMMA SwapStep ==
  ASSUME IInv, [Next]_vars
  PROVE  SwapInv'
<1>. USE RewriteAssumption DEF IInv, TypeOK, VersionInv, SwapInv, Goto, Finish,
       Fail, disk, temp, history
<1>1. ASSUME NEW p \in Procs, Read(p) PROVE SwapInv'
  BY <1>1 DEF Read
<1>2. ASSUME NEW p \in Procs, Interrupted(p) PROVE SwapInv'
  BY <1>2 DEF Interrupted
<1>3. ASSUME NEW p \in Procs, Lstat(p) PROVE SwapInv'
  BY <1>3 DEF Lstat
<1>4. ASSUME NEW p \in Procs, Open(p) PROVE SwapInv'
  BY <1>4 DEF Open
<1>5. ASSUME NEW p \in Procs, CreateTemp(p) PROVE SwapInv'
  BY <1>5 DEF CreateTemp
<1>6. ASSUME NEW p \in Procs, Write(p) PROVE SwapInv'
  BY <1>6 DEF Write
<1>7. ASSUME NEW p \in Procs, Chmod(p) PROVE SwapInv'
  BY <1>7 DEF Chmod
<1>8. ASSUME NEW p \in Procs, Recheck(p) PROVE SwapInv'
  BY <1>8 DEF Recheck
<1>9. ASSUME NEW p \in Procs, Rename(p) PROVE SwapInv'
  BY <1>9 DEF Rename
<1>10. ASSUME NEW p \in Procs, CallFails(p) PROVE SwapInv'
  BY <1>10 DEF CallFails
<1>11. ASSUME NEW p \in Procs, Cleanup(p) PROVE SwapInv'
  BY <1>11 DEF Cleanup
<1>12. ASSUME NEW p \in Procs, Kill(p) PROVE SwapInv'
  BY <1>12 DEF Kill
<1>13. CASE UserSaves
  BY <1>13 DEF UserSaves, Raw
<1>14. CASE UserReplaces
  BY <1>14 DEF UserReplaces
<1>15. CASE UNCHANGED vars
  BY <1>15 DEF vars
<1>. QED
  BY <1>1, <1>2, <1>3, <1>4, <1>5, <1>6, <1>7, <1>8, <1>9, <1>10, <1>11, <1>12,
     <1>13, <1>14, <1>15 DEF Next, Step

-----------------------------------------------------------------------------
(* The theorems.                                                           *)

(* The invariant holds in every reachable state.                           *)
THEOREM Invariance == Spec => []IInv
<1>1. IInv /\ [Next]_vars => IInv'
  BY TypeStep, TempStep, VersionStep, PermStep, SwapStep DEF IInv
<1>. QED
  BY InitInv, <1>1, PTL DEF Spec

(* Every variable keeps its type.                                          *)
THEOREM TypeCorrect == Spec => []TypeOK
  BY Invariance, PTL DEF IInv

(* A reader of the path never sees an empty or half-written file.          *)
THEOREM NeverTorn == Spec => []WholeFile
  BY Invariance, PTL DEF IInv

\* Only Rename puts a process's file at the path.
LEMMA InstallIsRename ==
  ASSUME IInv, [Next]_vars, NEW p \in Procs, Installs(p)
  PROVE  Rename(p)
<1>. USE DEF IInv, TypeOK, Installs, Goto, Finish, Fail
<1>1. ASSUME NEW q \in Procs, Step(q), q # p PROVE FALSE
  BY <1>1 DEF Step, Read, Interrupted, Lstat, Open, CreateTemp, Write, Chmod,
              Recheck, Rename, CallFails, Cleanup, Kill
<1>2. ASSUME Step(p) PROVE Rename(p)
  BY <1>2 DEF Step, Read, Interrupted, Lstat, Open, CreateTemp, Write, Chmod,
              Recheck, CallFails, Cleanup, Kill
<1>3. ~(UserSaves \/ UserReplaces \/ UNCHANGED vars)
  BY DEF UserSaves, UserReplaces, vars
<1>. QED
  BY <1>1, <1>2, <1>3 DEF Next

(* Only a swap after the last Lstat, or one that a failed Lstat did not    *)
(* show, is overwritten.                                                   *)
THEOREM SwapRefused == Spec => SeenSwapRefused
<1>1. ASSUME IInv, [Next]_vars, NEW p \in Procs, Installs(p),
             kind \in {"link", "other"}
      PROVE  checkedAt[p] < edits \/ p \in blind
  BY <1>1 DEF IInv, TypeOK, VersionInv, SwapInv, Installs
<1>2. IInv /\ [Next]_vars
        => [\A p \in Procs :
              Installs(p) /\ kind \in {"link", "other"}
                => checkedAt[p] < edits \/ p \in blind]_vars
  BY <1>1
<1>. QED
  BY Invariance, <1>2, PTL DEF Spec, SeenSwapRefused

(* Two processes lose no edit between them: only one made after a process  *)
(* read the file can be overwritten by its rename.                         *)
THEOREM EditsSurvive == Spec => OnlyRacedEditsLost
<1>1. ASSUME IInv, [Next]_vars, NEW p \in Procs, Installs(p)
      PROVE  readAt[p] < edits \/ data.ver <= data'.ver
  <2>1. Rename(p)
    BY <1>1, InstallIsRename
  <2>2. temps[name[p]] = Formatted(src[p])
    BY <1>1, <2>1 DEF Rename, IInv, TempInv
  <2>3. data'.ver = src[p].ver
    BY <2>1, <2>2 DEF Rename, Formatted
  <2>4. readAt[p] = edits => data.ver <= src[p].ver
    BY <1>1 DEF IInv, VersionInv, Installs
  <2>5. readAt[p] \in Nat /\ edits \in Nat /\ readAt[p] <= edits
    BY <1>1, RewriteAssumption DEF IInv, TypeOK, VersionInv
  <2>. QED
    BY <2>3, <2>4, <2>5
<1>2. IInv /\ [Next]_vars
        => [\A p \in Procs :
              Installs(p) => readAt[p] < edits \/ data.ver <= data'.ver]_vars
  BY <1>1
<1>. QED
  BY Invariance, <1>2, PTL DEF Spec, OnlyRacedEditsLost

(* A rewrite keeps the permission bits while no user interferes.           *)
THEOREM KeepsMode == Spec => ModeKept
<1>1. ASSUME IInv, [Next]_vars, NEW p \in Procs, Installs(p)
      PROVE  \/ mode' = mode
             \/ \E q \in Procs : name[q] # NoName /\ readAt[q] < edits
  <2>1. Rename(p)
    BY <1>1, InstallIsRename
  <2>2. mode' = perm[p] /\ name[p] \in Names
    BY <1>1, <2>1 DEF Rename, IInv, TypeOK, TempInv, Owns
  <2>3. name[p] # NoName /\ Opened(p)
    BY <1>1, <2>2, RewriteAssumption DEF NoName, Installs, Opened
  <2>4. SUFFICES ASSUME \A q \in Procs : name[q] # NoName => ~(readAt[q] < edits)
                 PROVE  mode' = mode
    OBVIOUS
  <2>5. ASSUME NEW q \in Procs, name[q] # NoName PROVE readAt[q] = edits
    <3>1. readAt \in [Procs -> 0..MaxEdits] /\ edits \in 0..MaxEdits
      BY <1>1 DEF IInv, TypeOK
    <3>2. readAt[q] <= edits /\ ~(readAt[q] < edits)
      BY <1>1, <2>4, <2>5 DEF IInv, VersionInv
    <3>. QED
      BY <3>1, <3>2, RewriteAssumption
  <2>. QED
    BY <1>1, <2>2, <2>3, <2>5 DEF IInv, PermInv
<1>2. IInv /\ [Next]_vars
        => [\A p \in Procs :
              Installs(p) =>
                \/ mode' = mode
                \/ \E q \in Procs : name[q] # NoName /\ readAt[q] < edits]_vars
  BY <1>1
<1>. QED
  BY Invariance, <1>2, PTL DEF Spec, ModeKept

\* TempReaped survives every step.
LEMMA ReapStep ==
  ASSUME IInv, IInv', TempReaped, [Next]_vars
  PROVE  TempReaped'
<1>. USE RewriteAssumption DEF IInv, TypeOK, TempReaped, Goto, Finish, Fail, disk,
       temp, history
<1>1. ASSUME NEW p \in Procs, Read(p) PROVE TempReaped'
  BY <1>1 DEF Read, TempInv, Early, Owns
<1>2. ASSUME NEW p \in Procs, Interrupted(p) PROVE TempReaped'
  BY <1>2 DEF Interrupted, TempInv, Early, Owns
<1>3. ASSUME NEW p \in Procs, Lstat(p) PROVE TempReaped'
  BY <1>3 DEF Lstat, TempInv, Early, Owns
<1>4. ASSUME NEW p \in Procs, Open(p) PROVE TempReaped'
  BY <1>4 DEF Open, TempInv, Early, Owns
<1>5. ASSUME NEW p \in Procs, CreateTemp(p) PROVE TempReaped'
  BY <1>5 DEF CreateTemp, TempInv, Early, Owns
<1>6. ASSUME NEW p \in Procs, Write(p) PROVE TempReaped'
  BY <1>6 DEF Write, TempInv, Early, Owns
<1>7. ASSUME NEW p \in Procs, Chmod(p) PROVE TempReaped'
  BY <1>7 DEF Chmod, TempInv, Early, Owns
<1>8. ASSUME NEW p \in Procs, Recheck(p) PROVE TempReaped'
  BY <1>8 DEF Recheck, TempInv, Early, Owns
<1>9. ASSUME NEW p \in Procs, Rename(p) PROVE TempReaped'
  BY <1>9 DEF Rename, TempInv, Early, Owns
<1>10. ASSUME NEW p \in Procs, CallFails(p) PROVE TempReaped'
  BY <1>10 DEF CallFails, TempInv, Early, Owns
<1>11. ASSUME NEW p \in Procs, Cleanup(p) PROVE TempReaped'
  BY <1>11 DEF Cleanup, TempInv, Early, Owns
<1>12. ASSUME NEW p \in Procs, Kill(p) PROVE TempReaped'
  BY <1>12 DEF Kill, TempInv, Early, Owns
<1>13. CASE UserSaves
  BY <1>13 DEF UserSaves
<1>14. CASE UserReplaces
  BY <1>14 DEF UserReplaces
<1>15. CASE UNCHANGED vars
  BY <1>15 DEF vars
<1>. QED
  BY <1>1, <1>2, <1>3, <1>4, <1>5, <1>6, <1>7, <1>8, <1>9, <1>10, <1>11, <1>12,
     <1>13, <1>14, <1>15 DEF Next, Step

(* A process that ends leaves no temporary file unless removing it failed. *)
THEOREM Reaped == Spec => []TempReaped
<1>1. Init => TempReaped
  BY DEF Init, TempReaped
<1>2. IInv /\ IInv' /\ TempReaped /\ [Next]_vars => TempReaped'
  BY ReapStep
<1>. QED
  BY Invariance, <1>1, <1>2, PTL DEF Spec

-----------------------------------------------------------------------------
(* Rewrite implements AtomicReplace.                                       *)

\* Every system call is a step of AtomicReplace or leaves its state alone.
LEMMA StepSimulation ==
  ASSUME IInv, [Next]_vars
  PROVE  [Promise!Next]_(Promise!vars)
<1>. USE DEF IInv, TypeOK, Goto, Finish, Fail, disk, temp, history
<1>. DEFINE Same == UNCHANGED Promise!vars
<1>1. ASSUME NEW p \in Procs, Read(p) PROVE Promise!Read(p)
  BY <1>1 DEF Read, Promise!Read, Stage
<1>2. ASSUME NEW p \in Procs, Rename(p) PROVE Promise!Commit(p)
  <2>1. /\ data' = Promise!Formatted(src[p])
        /\ mode' \in Modes
    BY <1>2 DEF Rename, TempInv, Owns, Formatted, Promise!Formatted
  <2>. QED
    BY <1>2, <2>1 DEF Rename, Promise!Commit, Stage
<1>3. ASSUME NEW p \in Procs, Interrupted(p) PROVE Promise!Abort(p)
  BY <1>3 DEF Interrupted, Promise!Abort, Stage
<1>4. ASSUME NEW p \in Procs, CallFails(p) PROVE Promise!Abort(p)
  BY <1>4 DEF CallFails, Promise!Abort, Stage
<1>5. ASSUME NEW p \in Procs, Lstat(p) PROVE Promise!Abort(p) \/ Same
  BY <1>5 DEF Lstat, Promise!Abort, Promise!vars, Stage
<1>6. ASSUME NEW p \in Procs, Open(p) PROVE Promise!Abort(p) \/ Same
  BY <1>6 DEF Open, Promise!Abort, Promise!vars, Stage
<1>7. ASSUME NEW p \in Procs, Recheck(p) PROVE Promise!Abort(p) \/ Same
  BY <1>7 DEF Recheck, Promise!Abort, Promise!vars, Stage
<1>8. ASSUME NEW p \in Procs, CreateTemp(p) \/ Write(p) \/ Chmod(p) PROVE Same
  BY <1>8 DEF CreateTemp, Write, Chmod, Promise!vars, Stage
<1>9. ASSUME NEW p \in Procs, Cleanup(p) PROVE Same
  BY <1>9 DEF Cleanup, TempInv, Promise!vars, Stage
<1>10. ASSUME NEW p \in Procs, Kill(p) PROVE Promise!Kill(p)
  BY <1>10 DEF Kill, Promise!Kill, Stage
<1>11. CASE UserSaves
  BY <1>11 DEF UserSaves, Promise!Next, Promise!Edit, Stage, Raw, Promise!Raw
<1>12. CASE UserReplaces
  BY <1>12 DEF UserReplaces, Promise!Next, Promise!Edit, Stage
<1>13. CASE UNCHANGED vars
  BY <1>13 DEF vars, Promise!vars, Stage
<1>. QED
  BY <1>1, <1>2, <1>3, <1>4, <1>5, <1>6, <1>7, <1>8, <1>9, <1>10, <1>11, <1>12,
     <1>13 DEF Next, Step, Promise!Next

(* writeFormatted, system call by system call and under every interference,*)
(* is an atomic replacement.                                               *)
THEOREM Refinement == Spec => ReplacesAtomically
<1>1. Init => Promise!Init
  BY DEF Init, Promise!Init, Stage, Raw, Promise!Raw
<1>2. IInv /\ [Next]_vars => [Promise!Next]_(Promise!vars)
  BY StepSimulation
<1>. QED
  BY Invariance, <1>1, <1>2, PTL DEF Spec, ReplacesAtomically, Promise!Spec
=============================================================================
