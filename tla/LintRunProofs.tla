--------------------------- MODULE LintRunProofs ---------------------------
(***************************************************************************)
(* What the lint command's report, its exit code and the files on disk say *)
(* of each other, for any tree of directories and files and any filter.    *)
(* The invariant says of every triple of directory, file and code when it  *)
(* is among the violations: of the directories done all that is to be      *)
(* found there, of the current one what the steps so far find.             *)
(***************************************************************************)
EXTENDS LintRun, TLAPS, FiniteSetTheorems

Says(V, x, f, c) == \E v \in V : v.dir = x /\ v.file = f /\ v.code = c

\* What the three phases have to say of a file.
ParseDue(f, c) ==
  \/ c = "E000" /\ Unusable(tree[f])
  \/ c = "E001" /\ Malformed(tree[f])
RunDue(f, c) ==
  /\ c \in tree[f].issues /\ Selected(c)
  /\ Parsed(tree[f]) /\ f \in Semantic(tree, DirOf[f]) /\ Complete(DirOf[f])
FormatDue(f, c) ==
  \/ c = "E000" /\ f \in failed
  \/ c = "E008" /\ Selected(c) /\ Parsed(tree[f]) /\ tree[f].form = "dirty"
Due(f, c) == ParseDue(f, c) \/ RunDue(f, c) \/ FormatDue(f, c)

Found(x, f, c) ==
  \/ f = NoFile /\ c = "E000" /\ ~Listable(x)
  \/ f \in Wanted /\ DirOf[f] = x /\ Listable(x) /\ Due(f, c)

\* The directories whose violations are still to be appended.
Working == pc \in {"load", "run", "format", "fix", "write", "append"}
Left == CASE pc = "start" -> Visited
          [] Working -> dirs \cup {d}
          [] OTHER -> dirs

Fixing == pc \in {"fix", "write"}
FormatDone(f) == pc = "append" \/ (Fixing /\ f \notin todo)

ModeInv ==
  /\ exit = Running <=> pc # "exited"
  /\ written => pc = "exited"
  /\ pc = "start" => violations = {} /\ failed = {} /\ fixedFiles = {} /\ tree = tree0
  /\ dirs \subseteq Visited
  /\ Working => d \in Visited /\ d \notin dirs
  /\ pc = "report" => dirs = {}

ViewInv ==
  /\ pc \in {"run", "format", "fix", "write"} =>
       formatFiles = {f \in Wanted : DirOf[f] = d /\ Listable(d) /\ Parsed(tree[f])}
  /\ pc = "run" =>
       /\ semanticFiles = {f \in Semantic(tree, d) : Listable(d) /\ Parsed(tree[f])}
       /\ semanticOk <=> Listable(d) /\ Complete(d)
  /\ Fixing => ShouldFix /\ todo \subseteq formatFiles
  /\ pc = "write" => \E f \in todo : First(f, todo) /\ tree[f].form = "dirty"

FixInv ==
  /\ \A f \in Files : tree[f] # tree0[f] =>
       f \in Wanted /\ fix /\ Selected("E008") /\ tree[f] = Reformatted(tree0[f])
  /\ pc # "exited" => Changed = fixedFiles \cup (IF Fixing THEN fixed ELSE {})
  /\ written => fixedFiles = Changed

FailedInv ==
  pc # "exited" => \A f \in failed :
    /\ f \in Wanted /\ Listable(DirOf[f])
    /\ DirOf[f] \notin Left \/ (DirOf[f] = d /\ FormatDone(f))

\* What the steps so far find in the current directory.
SoFar(f, c) ==
  \/ f = NoFile /\ c = "E000" /\ ~Listable(d)
  \/ /\ f \in Wanted /\ DirOf[f] = d /\ Listable(d)
     /\ \/ ParseDue(f, c)
        \/ pc # "run" /\ RunDue(f, c)
        \/ FormatDone(f) /\ FormatDue(f, c)

AnyFile == Files \cup {NoFile}
AnyCode == Codes \cup {"E000"}

DirInv ==
  Working /\ pc # "load" =>
    \A x \in Dirs, f \in AnyFile, c \in AnyCode :
      Says(dirViolations, x, f, c) <=> x = d /\ SoFar(f, c)

ListInv ==
  pc # "exited" =>
    \A x \in Dirs, f \in AnyFile, c \in AnyCode :
      Says(violations, x, f, c) <=> x \in Visited \ Left /\ Found(x, f, c)

EndInv == ReportExact /\ NoFalseClean /\ ToolTroubleIsLoud

LateInv ==
  /\ cancelledAt # "never" => ctxDone
  /\ late # {} => /\ ctxDone /\ cancelledAt = "write" /\ pc \in {"fix", "exited"}
                  /\ \E f \in Files : late = {f}
  /\ pc = "write" /\ ctxDone => cancelledAt = "write"
  /\ cancelledAt \in {"fix", "write"} => Fixing \/ exit = 130

IInv == /\ TypeOK /\ ModeInv /\ ViewInv /\ FixInv /\ FailedInv
        /\ DirInv /\ ListInv /\ EndInv /\ LateInv

LEMMA Constants ==
  /\ Root \in Dirs /\ Files \subseteq Nat /\ NoFile \notin Files /\ IsFiniteSet(Files)
  /\ DirOf \in [Files -> Dirs]
  /\ Trees \subseteq [Files -> FileState] /\ Unreadables \subseteq SUBSET Dirs
  /\ Filters \subseteq SUBSET Codes
  /\ {"E001", "E008"} \subseteq Codes /\ "E000" \notin Codes
  /\ Warnings \subseteq SemanticCodes
BY LintAssumption, WorkspaceAssumption

LEMMA FirstUnique ==
  ASSUME NEW S \in SUBSET Files, NEW f \in S, NEW g \in S, First(f, S), First(g, S)
  PROVE  f = g
BY Constants DEF First

(* The filter selects a code, as run enables it for each of its passes.    *)
LEMMA FilterMeaning ==
  ASSUME filter \in SUBSET Codes
  PROVE  /\ ShouldFormat <=> Selected("E008")
         /\ SkipRun => \A c \in SemanticCodes : ~Selected(c)
         /\ ~SkipRun => \A c \in SemanticCodes : Enabled(RunFilter, c) <=> Selected(c)
         /\ ~SkipRun => ~Enabled(RunFilter, "E008")
<1>1. ShouldFormat <=> Selected("E008")
  BY DEF ShouldFormat, Enabled, Selected
<1>2. CASE filter = {}
  BY <1>1, <1>2, Constants
     DEF ShouldFormat, SkipRun, RunFilter, ChecksFilterWithout, Enabled, Selected, SemanticCodes
<1>3. CASE filter # {}
  BY <1>1, <1>3, Constants
     DEF ShouldFormat, SkipRun, RunFilter, ChecksFilterWithout, Enabled, Selected, SemanticCodes
<1>. QED  BY <1>2, <1>3

(* A file is asked for where the directory's load looks for it.            *)
LEMMA WantedView ==
  ASSUME NEW x \in Visited
  PROVE  {f \in Wanted : DirOf[f] = x}
           = IF ShouldFormat THEN Physical(tree, x) ELSE Semantic(tree, x)
BY DEF Wanted, ShouldFormat, Enabled, Physical, Semantic

LEMMA SemanticWanted ==
  ASSUME NEW x \in Visited
  PROVE  \A f \in Semantic(tree, x) : f \in Wanted /\ DirOf[f] = x
BY DEF Wanted, Physical, Semantic

LEMMA VisitedDirs == Visited \subseteq Dirs
BY Constants DEF Visited, CollectDirs

LEMMA InitInv == ASSUME Init PROVE IInv
<1>. USE DEF Init
<1>1. TypeOK
  BY Constants DEF TypeOK, PCs, Running
<1>2. ModeInv /\ ViewInv /\ FailedInv
  BY DEF ModeInv, ViewInv, FailedInv, Working, Fixing, Running
<1>3. FixInv
  BY DEF FixInv, Fixing, Changed
<1>4. DirInv /\ LateInv
  BY DEF DirInv, LateInv, Working, Fixing
<1>5. ListInv
  BY DEF ListInv, Left, Says, Working
<1>6. EndInv
  BY DEF EndInv, ReportExact, NoFalseClean, ToolTroubleIsLoud, Running
<1>. QED  BY <1>1, <1>2, <1>3, <1>4, <1>5, <1>6 DEF IInv

-----------------------------------------------------------------------------
(* The type invariant.                                                     *)

LEMMA ViolationTypes ==
  ASSUME TypeOK
  PROVE  /\ \A S \in SUBSET Files : ParseViolations(S) \subseteq Violation
         /\ Unlistable(d) \subseteq Violation
         /\ \A f \in Files, c \in {"E000", "E008"} : Unformatted(f, c) \in Violation
         /\ \A S \in SUBSET Files : \A checks : RunViolations(S, checks) \subseteq Violation
<1>1. \A S \in SUBSET Files : \A checks : RunViolations(S, checks) \subseteq Violation
  <2>. SUFFICES ASSUME NEW S \in SUBSET Files, NEW checks, NEW v \in RunViolations(S, checks)
                PROVE  v \in Violation
    OBVIOUS
  <2>1. v \in [dir : {d}, phase : {2}, file : S, line : {1}, code : Codes] /\ d \in Dirs
    BY DEF RunViolations, TypeOK
  <2>2. PICK f \in S, c \in Codes : v = [dir |-> d, phase |-> 2, file |-> f, line |-> 1, code |-> c]
    BY <2>1
  <2>. QED  BY <2>1, <2>2 DEF Violation, Phases
<1>. USE Constants DEF TypeOK, Violation, Phases
<1>2. \A S \in SUBSET Files : ParseViolations(S) \subseteq Violation
  BY DEF ParseViolations
<1>3. Unlistable(d) \subseteq Violation
  BY DEF Unlistable
<1>4. \A f \in Files, c \in {"E000", "E008"} : Unformatted(f, c) \in Violation
  BY DEF Unformatted
<1>. QED  BY <1>1, <1>2, <1>3, <1>4

LEMMA TypeStep == ASSUME TypeOK, [Next]_vars PROVE TypeOK'
<1>. DEFINE World == <<tree, failed, late>>
<1>. USE DEF PCs, Exit, Goto, Interrupted, input, views, pass, result, cancel
<1>1. CASE Start
  <2>1. dirs' \subseteq Dirs /\ exit' \in {exit, 2} /\ pc' \in {"dirs", "exited"}
    BY <1>1, Constants DEF Start, CollectDirs, TypeOK
  <2>2. UNCHANGED <<input, World, cancel, d, views, dirViolations, pass, result>>
    BY <1>1 DEF Start
  <2>. QED  BY <2>1, <2>2 DEF TypeOK
<1>2. CASE NextDir
  <2>1. dirs' \subseteq Dirs /\ d' \in Dirs /\ exit' \in {exit, 130}
        /\ pc' \in {"load", "report", "exited"}
    BY <1>2 DEF NextDir, TypeOK
  <2>2. UNCHANGED <<input, World, cancel, views, dirViolations, pass, result>>
    BY <1>2 DEF NextDir
  <2>. QED  BY <2>1, <2>2 DEF TypeOK
<1>3. CASE Load
  <2>1. UNCHANGED <<input, World, cancel, dirs, d, pass, result>>
    BY <1>3 DEF Load
  <2>2. exit' \in {exit, 130} /\ pc' \in {"run", "exited"}
    BY <1>3 DEF Load
  <2>3. \/ UNCHANGED <<views, dirViolations>>
        \/ /\ dirViolations' = Unlistable(d) /\ formatFiles' = {} /\ semanticFiles' = {}
           /\ semanticOk' = FALSE
        \/ \E view \in SUBSET Files :
             /\ dirViolations' = ParseViolations(view) /\ formatFiles' \subseteq view
             /\ semanticFiles' \subseteq Files /\ semanticOk' \in BOOLEAN
    <3>1. Physical(tree, d) \subseteq Files /\ Semantic(tree, d) \subseteq Files
      BY DEF Physical, Semantic
    <3>. QED  BY <1>3, <3>1 DEF Load
  <2>4. dirViolations' \subseteq Violation /\ formatFiles' \subseteq Files
        /\ semanticFiles' \subseteq Files /\ semanticOk' \in BOOLEAN
    BY <2>3, ViolationTypes DEF TypeOK
  <2>. QED  BY <2>1, <2>2, <2>4 DEF TypeOK
<1>4. CASE RunChecks
  <2>1. UNCHANGED <<input, World, cancel, dirs, d, views, pass, result>>
    BY <1>4 DEF RunChecks
  <2>2. dirViolations' \subseteq Violation /\ exit' \in {exit, 130}
        /\ pc' \in {"format", "exited"}
    BY <1>4, ViolationTypes DEF RunChecks, TypeOK
  <2>. QED  BY <2>1, <2>2 DEF TypeOK
<1>5. CASE Format
  <2>1. UNCHANGED <<input, World, cancel, dirs, d, views, result>>
    BY <1>5 DEF Format
  <2>2. exit' \in {exit, 130} /\ pc' \in {"fix", "append", "exited"}
        /\ todo' \subseteq Files /\ fixed' \subseteq Files
    BY <1>5 DEF Format, TypeOK
  <2>3. \/ dirViolations' = dirViolations
        \/ dirViolations' = dirViolations \cup
             {Unformatted(f, "E008") : f \in {g \in formatFiles : tree[g].form = "dirty"}}
    BY <1>5 DEF Format
  <2>4. dirViolations' \subseteq Violation
    BY <2>3, ViolationTypes DEF TypeOK
  <2>. QED  BY <2>1, <2>2, <2>4 DEF TypeOK
<1>6. CASE FixNext
  <2>1. UNCHANGED <<input, World, cancel, dirs, d, views, dirViolations, fixed, result>>
    BY <1>6 DEF FixNext
  <2>2. exit' \in {exit, 130} /\ pc' \in {"fix", "write", "exited"} /\ todo' \subseteq todo
    BY <1>6 DEF FixNext
  <2>. QED  BY <2>1, <2>2 DEF TypeOK
<1>7. CASE WriteOk
  <2>1. PICK f \in Files : /\ tree' = [tree EXCEPT ![f] = Reformatted(tree[f])]
                           /\ fixed' = fixed \cup {f} /\ todo' = todo \ {f}
                           /\ late' = IF ctxDone THEN late \cup {f} ELSE late
    BY <1>7 DEF WriteOk
  <2>2. UNCHANGED <<input, cancel, dirs, d, views, dirViolations, result, failed, exit>>
        /\ pc' = "fix"
    BY <1>7 DEF WriteOk
  <2>3. tree' \in [Files -> FileState]
    <3>1. Reformatted(tree[f]) \in FileState
      BY DEF Reformatted, FileState, TypeOK
    <3>. QED  BY <2>1, <3>1 DEF TypeOK
  <2>4. fixed' \subseteq Files /\ todo' \subseteq Files /\ late' \subseteq Files
    BY <2>1 DEF TypeOK
  <2>. QED  BY <2>2, <2>3, <2>4 DEF TypeOK
<1>8. CASE WriteFails
  <2>1. PICK f \in Files :
          /\ dirViolations' =
               dirViolations \cup {Unformatted(f, "E000"), Unformatted(f, "E008")}
          /\ failed' = failed \cup {f} /\ todo' = todo \ {f}
    BY <1>8 DEF WriteFails
  <2>2. UNCHANGED <<input, tree, cancel, dirs, d, views, fixed, result, late, exit>>
        /\ pc' = "fix"
    BY <1>8 DEF WriteFails
  <2>3. dirViolations' \subseteq Violation
    BY <2>1, ViolationTypes DEF TypeOK
  <2>. QED  BY <2>1, <2>2, <2>3 DEF TypeOK
<1>9. CASE FixEnd
  <2>1. UNCHANGED <<input, World, cancel, dirs, d, views, dirViolations, pass, violations, written>>
    BY <1>9 DEF FixEnd
  <2>2. exit' \in {exit, 130} /\ pc' \in {"append", "exited"}
        /\ fixedFiles' \subseteq fixedFiles \cup fixed
    BY <1>9 DEF FixEnd
  <2>. QED  BY <2>1, <2>2 DEF TypeOK
<1>10. CASE Append
  <2>1. UNCHANGED <<input, World, cancel, dirs, d, views, dirViolations, pass, fixedFiles, written>>
    BY <1>10 DEF Append
  <2>2. exit' = exit /\ pc' = "dirs" /\ violations' = violations \cup dirViolations
    BY <1>10 DEF Append
  <2>. QED  BY <2>1, <2>2 DEF TypeOK
<1>11. CASE Report
  <2>1. UNCHANGED <<input, World, cancel, dirs, d, views, dirViolations, pass, violations, fixedFiles>>
    BY <1>11 DEF Report
  <2>2. exit' \in {0, 1, 2} /\ pc' = "exited" /\ written' \in BOOLEAN
    BY <1>11 DEF Report, ExitCode
  <2>. QED  BY <2>1, <2>2 DEF TypeOK
<1>12. CASE Cancel
  <2>1. UNCHANGED <<input, World, pc, dirs, d, views, dirViolations, pass, result, exit>>
        /\ ctxDone' = TRUE /\ cancelledAt' = pc
    BY <1>12 DEF Cancel
  <2>. QED  BY <2>1 DEF TypeOK
<1>13. CASE UNCHANGED vars
  BY <1>13 DEF vars, TypeOK
<1>. QED  BY <1>1, <1>2, <1>3, <1>4, <1>5, <1>6, <1>7, <1>8, <1>9, <1>10, <1>11, <1>12, <1>13
           DEF Next, Step

-----------------------------------------------------------------------------
(* What a rewrite leaves as it was.                                        *)

LEMMA TreeStep ==
  ASSUME IInv, [Next]_vars
  PROVE  /\ UNCHANGED input
         /\ \/ tree' = tree
            \/ \E f \in todo : /\ WriteOk /\ First(f, todo) /\ tree[f].form = "dirty"
                               /\ tree' = [tree EXCEPT ![f] = Reformatted(tree[f])]
                               /\ fixed' = fixed \cup {f} /\ todo' = todo \ {f}
                               /\ late' = IF ctxDone THEN late \cup {f} ELSE late
<1>. USE DEF input
<1>1. CASE WriteOk
  <2>1. PICK f \in Files : /\ First(f, todo)
                           /\ tree' = [tree EXCEPT ![f] = Reformatted(tree[f])]
                           /\ fixed' = fixed \cup {f} /\ todo' = todo \ {f}
                           /\ late' = IF ctxDone THEN late \cup {f} ELSE late
    BY <1>1 DEF WriteOk
  <2>2. PICK g \in todo : First(g, todo) /\ tree[g].form = "dirty"
    BY <1>1 DEF WriteOk, IInv, ViewInv
  <2>3. f = g
    BY <2>1, <2>2, FirstUnique DEF First, IInv, TypeOK
  <2>. QED  BY <1>1, <2>1, <2>2, <2>3 DEF WriteOk
<1>2. CASE Start \/ NextDir \/ Load \/ RunChecks \/ Format \/ FixNext
  BY <1>2 DEF Start, NextDir, Load, RunChecks, Format, FixNext
<1>3. CASE WriteFails \/ FixEnd \/ Append \/ Report \/ Cancel
  BY <1>3 DEF WriteFails, FixEnd, Append, Report, Cancel
<1>4. CASE UNCHANGED vars
  BY <1>4 DEF vars
<1>. QED  BY <1>1, <1>2, <1>3, <1>4 DEF Next, Step

LEMMA Reforms ==
  ASSUME NEW s \in FileState, s.form = "dirty"
  PROVE  /\ Reformatted(s) \in FileState /\ Reformatted(s).form = "clean"
         /\ Reformatted(s) # s /\ Reformatted(s).issues = s.issues
         /\ Parsed(Reformatted(s)) = Parsed(s)
         /\ Unusable(Reformatted(s)) = Unusable(s)
         /\ Malformed(Reformatted(s)) = Malformed(s)
BY DEF Reformatted, FileState, Parsed, Unusable, Malformed

LikeBefore(g) ==
  /\ tree'[g].form = "absent" <=> tree[g].form = "absent"
  /\ tree'[g].issues = tree[g].issues
  /\ Parsed(tree'[g]) <=> Parsed(tree[g])
  /\ Unusable(tree'[g]) <=> Unusable(tree[g])
  /\ Malformed(tree'[g]) <=> Malformed(tree[g])
  /\ tree'[g].form = "dirty" => tree[g].form = "dirty"

LEMMA FilesAlike ==
  ASSUME IInv, [Next]_vars
  PROVE  \A g \in Files : LikeBefore(g)
<1>1. CASE tree' = tree
  BY <1>1 DEF LikeBefore
<1>2. ASSUME NEW f \in todo, tree[f].form = "dirty",
             tree' = [tree EXCEPT ![f] = Reformatted(tree[f])]
      PROVE  \A g \in Files : LikeBefore(g)
  <2>1. f \in Files /\ tree[f] \in FileState /\ tree \in [Files -> FileState]
    BY DEF IInv, TypeOK
  <2>2. TAKE g \in Files
  <2>3. CASE g = f
    <3>1. tree'[f] = Reformatted(tree[f])
      BY <1>2, <2>1
    <3>2. Reformatted(tree[f]).form = "clean" /\ tree[f].form = "dirty"
          /\ Reformatted(tree[f]).issues = tree[f].issues
          /\ Parsed(Reformatted(tree[f])) = Parsed(tree[f])
          /\ Unusable(Reformatted(tree[f])) = Unusable(tree[f])
          /\ Malformed(Reformatted(tree[f])) = Malformed(tree[f])
      BY <1>2, <2>1, Reforms
    <3>. QED  BY <2>3, <3>1, <3>2 DEF LikeBefore
  <2>4. CASE g # f
    BY <1>2, <2>1, <2>4 DEF LikeBefore
  <2>. QED  BY <2>3, <2>4
<1>. QED  BY <1>1, <1>2, TreeStep

(* The files asked for and what their parsing and the semantic checks have *)
(* to say stay the same.                                                   *)
LEMMA SameFiles ==
  ASSUME IInv, [Next]_vars
  PROVE  /\ Visited' = Visited /\ Wanted' = Wanted
         /\ \A x \in Dirs : /\ Listable(x)' = Listable(x)
                            /\ Complete(x)' = Complete(x)
                            /\ Semantic(tree, x)' = Semantic(tree, x)
         /\ \A f \in Files, c \in AnyCode : /\ ParseDue(f, c)' <=> ParseDue(f, c)
                                            /\ RunDue(f, c)' <=> RunDue(f, c)
         /\ \A c \in AnyCode : Selected(c)' <=> Selected(c)
<1>1. \A g \in Files : LikeBefore(g)
  BY FilesAlike
<1>2. UNCHANGED <<fix, recursive, filter, tree0, root, unreadable>>
  BY TreeStep DEF input
<1>3. \A x \in Dirs : Physical(tree', x) = Physical(tree, x)
  BY <1>1 DEF Physical, LikeBefore
<1>4. \A x \in Dirs : Semantic(tree', x) = Semantic(tree, x)
  BY <1>3 DEF Semantic
<1>5. /\ \A x \in Dirs : Listable(x)' = Listable(x)
      /\ \A c \in AnyCode : Selected(c)' <=> Selected(c)
      /\ Visited' = Visited
  BY <1>2 DEF Listable, Selected, Visited
<1>6. \A x \in Dirs : Complete(x)' = Complete(x)
  <2>1. TAKE x \in Dirs
  <2>2. Semantic(tree, x) \subseteq Files /\ \A f \in Files : Parsed(tree'[f]) <=> Parsed(tree[f])
    BY <1>1 DEF Semantic, Physical, LikeBefore
  <2>. QED  BY <1>4, <2>2 DEF Complete
<1>7. Wanted' = Wanted
  <2>1. \A f \in Files : /\ DirOf[f] \in Dirs
                         /\ f \in Physical(tree', DirOf[f]) <=> f \in Physical(tree, DirOf[f])
                         /\ f \in Semantic(tree', DirOf[f]) <=> f \in Semantic(tree, DirOf[f])
    BY <1>3, <1>4, Constants
  <2>. QED  BY <1>2, <1>5, <2>1 DEF Wanted
<1>8. \A f \in Files, c \in AnyCode : ParseDue(f, c)' <=> ParseDue(f, c)
  BY <1>1 DEF ParseDue, LikeBefore
<1>9. \A f \in Files, c \in AnyCode : RunDue(f, c)' <=> RunDue(f, c)
  <2>1. TAKE f \in Files, c \in AnyCode
  <2>2. DirOf[f] \in Dirs
    BY Constants
  <2>. QED  BY <1>1, <1>4, <1>5, <1>6, <2>2 DEF RunDue, LikeBefore
<1>. QED  BY <1>4, <1>5, <1>6, <1>7, <1>8, <1>9

-----------------------------------------------------------------------------
(* Each part of the invariant is preserved.                                *)

LEMMA ModeStep == ASSUME IInv, [Next]_vars PROVE ModeInv'
<1>. USE DEF IInv, ModeInv, Working, Exit, Goto, Interrupted, input, views, pass, result, cancel
<1>0. Visited' = Visited
  BY SameFiles
<1>1. CASE Start
  BY <1>0, <1>1 DEF Start, Visited, Running
<1>2. CASE NextDir
  BY <1>0, <1>2 DEF NextDir, First, Running
<1>3. CASE Load
  BY <1>0, <1>3 DEF Load, Running
<1>4. CASE RunChecks
  BY <1>0, <1>4 DEF RunChecks, Running
<1>5. CASE Format
  BY <1>0, <1>5 DEF Format, Running
<1>6. CASE FixNext
  BY <1>0, <1>6 DEF FixNext, Running
<1>7. CASE WriteOk
  BY <1>0, <1>7 DEF WriteOk
<1>8. CASE WriteFails
  BY <1>0, <1>8 DEF WriteFails
<1>9. CASE FixEnd
  BY <1>0, <1>9 DEF FixEnd, Running
<1>10. CASE Append
  BY <1>0, <1>10 DEF Append
<1>11. CASE Report
  BY <1>0, <1>11 DEF Report, ExitCode, Running
<1>12. CASE Cancel
  BY <1>0, <1>12 DEF Cancel
<1>13. CASE UNCHANGED vars
  BY <1>0, <1>13 DEF vars
<1>. QED  BY <1>1, <1>2, <1>3, <1>4, <1>5, <1>6, <1>7, <1>8, <1>9, <1>10, <1>11, <1>12, <1>13
           DEF Next, Step

(* The load's two views are what is asked for and the module.              *)
LEMMA LoadView ==
  ASSUME IInv, pc = "load"
  PROVE  /\ d \in Visited /\ d \in Dirs
         /\ {f \in Wanted : DirOf[f] = d}
              = IF ShouldFormat THEN Physical(tree, d) ELSE Semantic(tree, d)
         /\ (ParseViolations(Semantic(tree, d)) = {}) <=> Complete(d)
<1>1. d \in Visited /\ d \in Dirs
  BY VisitedDirs DEF IInv, ModeInv, Working
<1>2. \A f \in Semantic(tree, d) : f \in Files /\ tree[f].form # "absent" /\ tree[f] \in FileState
  BY DEF Semantic, Physical, IInv, TypeOK
<1>3. \A f \in Semantic(tree, d) : Parsed(tree[f]) <=> ~Unusable(tree[f]) /\ ~Malformed(tree[f])
  BY <1>2 DEF Parsed, Unusable, Malformed, FileState
<1>4. (ParseViolations(Semantic(tree, d)) = {})
        <=> \A f \in Semantic(tree, d) : ~Unusable(tree[f]) /\ ~Malformed(tree[f])
  BY DEF ParseViolations
<1>. QED  BY <1>1, <1>3, <1>4, WantedView DEF Complete

LEMMA ViewStep == ASSUME IInv, [Next]_vars PROVE ViewInv'
<1>. USE DEF ViewInv, Fixing, Exit, Goto, Interrupted, input, views, pass, result, cancel
<1>1. /\ UNCHANGED <<fix, filter>> /\ Wanted' = Wanted /\ ShouldFix' = ShouldFix
      /\ \A x \in Dirs : Listable(x)' = Listable(x) /\ Complete(x)' = Complete(x)
      /\ \A f \in Files : Parsed(tree'[f]) <=> Parsed(tree[f])
      /\ Wanted \subseteq Files /\ d \in Dirs
  BY TreeStep, SameFiles, FilesAlike
     DEF input, LikeBefore, Wanted, ShouldFix, ShouldFormat, IInv, TypeOK
<1>2. ViewInv
  BY DEF IInv
<1>3. CASE Load
  <2>1. CASE pc' = "exited"
    BY <2>1
  <2>2. CASE pc' = "run" /\ Listable(d)
    <3>1. LET view == IF ShouldFormat THEN Physical(tree, d) ELSE Semantic(tree, d) IN
            /\ formatFiles' = {f \in view : Parsed(tree[f])}
            /\ semanticFiles' = {f \in Semantic(tree, d) : Parsed(tree[f])}
            /\ semanticOk' = (ParseViolations(Semantic(tree, d)) = {})
      BY <1>3, <2>2 DEF Load
    <3>2. pc = "load" /\ d' = d /\ tree' = tree
      BY <1>3 DEF Load
    <3>. QED  BY <1>1, <2>2, <3>1, <3>2, LoadView
  <2>3. CASE pc' = "run" /\ ~Listable(d)
    BY <1>1, <1>3, <2>3 DEF Load
  <2>. QED  BY <1>3, <2>1, <2>2, <2>3 DEF Load
<1>4. CASE RunChecks
  BY <1>1, <1>2, <1>4 DEF RunChecks
<1>5. CASE Format
  BY <1>1, <1>2, <1>5 DEF Format
<1>6. CASE FixNext
  <2>1. UNCHANGED <<tree, d, views>> /\ pc = "fix" /\ pc' \in {"fix", "write", "exited"}
        /\ todo' \subseteq todo
    BY <1>6 DEF FixNext
  <2>2. pc' = "write" => \E f \in todo : /\ First(f, todo) /\ tree[f].form = "dirty"
                                         /\ todo' = todo
    BY <1>6 DEF FixNext, First
  <2>. QED  BY <1>1, <1>2, <2>1, <2>2
<1>7. CASE WriteOk \/ WriteFails
  <2>1. UNCHANGED <<d, views>> /\ pc = "write" /\ pc' = "fix" /\ todo' \subseteq todo
    BY <1>7 DEF WriteOk, WriteFails
  <2>. QED  BY <1>1, <1>2, <2>1
<1>8. CASE Start \/ NextDir \/ FixEnd \/ Append \/ Report
  BY <1>8 DEF Start, NextDir, FixEnd, Append, Report
<1>9. CASE Cancel \/ UNCHANGED vars
  BY <1>1, <1>2, <1>9 DEF Cancel, vars
<1>. QED  BY <1>3, <1>4, <1>5, <1>6, <1>7, <1>8, <1>9 DEF Next, Step

LEMMA FixStep == ASSUME IInv, [Next]_vars PROVE FixInv'
<1>. USE DEF FixInv, Fixing, Exit, Goto, Interrupted, input, views, pass, result, cancel
<1>1. /\ UNCHANGED <<fix, filter, tree0>> /\ Wanted' = Wanted
      /\ Selected("E008")' <=> Selected("E008")
  BY TreeStep, SameFiles, Constants DEF input, AnyCode
<1>2. FixInv /\ ModeInv /\ ViewInv /\ TypeOK
  BY DEF IInv
<1>3. ASSUME UNCHANGED <<tree, fixedFiles>>, ~written' \/ written,
             Fixing' => Fixing /\ fixed' = fixed, Fixing => Fixing' \/ pc' = "exited",
             pc' # "exited" => pc # "exited"
      PROVE  FixInv'
  BY <1>1, <1>2, <1>3 DEF ModeInv, Changed
<1>4. CASE WriteOk
  <2>1. PICK f \in Files : /\ First(f, todo)
                           /\ tree' = [tree EXCEPT ![f] = Reformatted(tree[f])]
                           /\ fixed' = fixed \cup {f}
    BY <1>4 DEF WriteOk
  <2>2. pc = "write" /\ pc' = "fix" /\ UNCHANGED <<fixedFiles, written>>
    BY <1>4 DEF WriteOk
  <2>3. tree[f].form = "dirty" /\ f \in todo
    BY <1>2, <2>1, <2>2, FirstUnique DEF ViewInv, First, TypeOK
  <2>4. /\ f \in Wanted /\ fix /\ Selected("E008") /\ tree[f] \in FileState
        /\ tree0[f] \in FileState
    BY <1>2, <2>1, <2>2, <2>3, FilterMeaning DEF ViewInv, ShouldFix, TypeOK
  <2>5. tree[f] = tree0[f]
    <3>1. tree[f] = Reformatted(tree0[f]) => tree[f].form = "clean"
      BY <2>4 DEF Reformatted, FileState
    <3>. QED  BY <1>2, <2>3, <3>1
  <2>6. tree'[f] = Reformatted(tree0[f]) /\ tree'[f] # tree0[f]
    BY <1>2, <2>1, <2>3, <2>4, <2>5, Reforms DEF TypeOK
  <2>7. \A g \in Files \ {f} : tree'[g] = tree[g]
    BY <1>2, <2>1 DEF TypeOK
  <2>8. Changed' = Changed \cup {f}
    BY <1>1, <2>6, <2>7 DEF Changed
  <2>9. \A g \in Files : tree'[g] # tree0[g] =>
          g \in Wanted /\ fix /\ Selected("E008") /\ tree'[g] = Reformatted(tree0[g])
    BY <1>2, <2>4, <2>6, <2>7
  <2>. QED  BY <1>1, <1>2, <2>1, <2>2, <2>8, <2>9 DEF ModeInv
<1>5. CASE Format
  <2>1. UNCHANGED <<tree, fixedFiles, written>> /\ ~Fixing /\ pc = "format"
        /\ (Fixing' => fixed' = {})
    BY <1>5 DEF Format
  <2>. QED  BY <1>1, <1>2, <2>1 DEF ModeInv, Changed
<1>6. CASE FixEnd
  <2>1. UNCHANGED <<tree, fixed, written>> /\ pc = "fix"
        /\ \/ pc' = "exited"
           \/ pc' = "append" /\ fixedFiles' = fixedFiles \cup fixed
    BY <1>6 DEF FixEnd
  <2>. QED  BY <1>1, <1>2, <2>1 DEF ModeInv, Changed
<1>7. CASE Report
  <2>1. UNCHANGED <<tree, fixedFiles>> /\ pc = "report" /\ pc' = "exited"
    BY <1>7 DEF Report
  <2>. QED  BY <1>1, <1>2, <2>1 DEF Changed
<1>8. CASE Start \/ NextDir \/ Load \/ RunChecks
  BY <1>3, <1>8 DEF Start, NextDir, Load, RunChecks
<1>9. CASE FixNext \/ WriteFails
  BY <1>3, <1>9 DEF FixNext, WriteFails
<1>10. CASE Append \/ Cancel
  BY <1>3, <1>10 DEF Append, Cancel
<1>11. CASE UNCHANGED vars
  BY <1>3, <1>11 DEF vars
<1>. QED  BY <1>4, <1>5, <1>6, <1>7, <1>8, <1>9, <1>10, <1>11 DEF Next, Step

(* Which directories are still to be done changes at the head of the loop  *)
(* not at all, and loses the current one when its violations are appended. *)
LEMMA LeftStep ==
  ASSUME IInv, [Next]_vars, pc' # "exited"
  PROVE  /\ Append => Left' = Left \ {d} /\ d \in Left /\ Working
         /\ ~Append => Left' = Left
<1>. USE DEF Left, Working, Exit, Goto, Interrupted, input, views, pass, result, cancel
<1>1. Visited' = Visited /\ ModeInv
  BY SameFiles DEF IInv
<1>2. ASSUME Append
      PROVE  Left' = Left \ {d} /\ d \in Left /\ Working
  BY <1>1, <1>2 DEF Append, ModeInv
<1>3. CASE Start
  BY <1>1, <1>3 DEF Start, Append, Visited
<1>4. CASE NextDir
  BY <1>1, <1>4 DEF NextDir, Append, First
<1>5. CASE Load \/ RunChecks \/ Format \/ FixNext
  BY <1>5 DEF Load, RunChecks, Format, FixNext, Append
<1>6. CASE WriteOk \/ WriteFails \/ FixEnd \/ Report
  BY <1>6 DEF WriteOk, WriteFails, FixEnd, Report, Append
<1>7. CASE Cancel \/ UNCHANGED vars
  <2>1. UNCHANGED <<pc, dirs, d, Visited>>
    BY <1>1, <1>7 DEF Cancel, vars
  <2>2. Append => pc' # pc
    BY DEF Append
  <2>. QED  BY <2>1, <2>2
<1>. QED  BY <1>2, <1>3, <1>4, <1>5, <1>6, <1>7 DEF Next, Step

LEMMA FailedStep == ASSUME IInv, [Next]_vars PROVE FailedInv'
<1>. USE DEF FailedInv, FormatDone, Fixing, Working, Exit, Goto, Interrupted, input, views,
             pass, result, cancel
<1>. SUFFICES ASSUME pc' # "exited" PROVE FailedInv'
  OBVIOUS
<1>1. /\ Wanted' = Wanted /\ Wanted \subseteq Files
      /\ \A x \in Dirs : Listable(x)' = Listable(x)
      /\ \A f \in Files : DirOf[f] \in Dirs
  BY SameFiles, Constants DEF Wanted
<1>2. FailedInv /\ ViewInv /\ TypeOK
  BY DEF IInv
<1>3. ASSUME failed' = failed, pc # "exited", ~Append,
             \A f \in failed : DirOf[f] = d /\ FormatDone(f) => d' = d /\ FormatDone(f)'
      PROVE  FailedInv'
  BY <1>1, <1>2, <1>3, LeftStep
<1>4. CASE WriteFails
  <2>1. PICK f \in Files : First(f, todo) /\ failed' = failed \cup {f} /\ todo' = todo \ {f}
    BY <1>4 DEF WriteFails
  <2>2. pc = "write" /\ pc' = "fix" /\ d' = d /\ ~Append
    BY <1>4 DEF WriteFails, Append
  <2>3. f \in Wanted /\ DirOf[f] = d /\ Listable(d)
    BY <1>2, <2>1, <2>2 DEF ViewInv, First
  <2>. QED  BY <1>1, <1>2, <2>1, <2>2, <2>3, LeftStep
<1>5. CASE Append
  <2>1. failed' = failed /\ pc = "append"
    BY <1>5 DEF Append
  <2>. QED  BY <1>1, <1>2, <1>5, <2>1, LeftStep
<1>6. CASE Start \/ NextDir \/ Load \/ RunChecks
  BY <1>3, <1>6 DEF Start, NextDir, Load, RunChecks, Append
<1>7. CASE Format \/ FixNext
  BY <1>3, <1>7 DEF Format, FixNext, Append
<1>8. CASE WriteOk \/ FixEnd \/ Report
  BY <1>3, <1>8 DEF WriteOk, FixEnd, Report, Append
<1>9. CASE Cancel \/ UNCHANGED vars
  <2>1. UNCHANGED <<pc, d, failed, todo>>
    BY <1>9 DEF Cancel, vars
  <2>. QED  BY <1>3, <2>1 DEF Append
<1>. QED  BY <1>4, <1>5, <1>6, <1>7, <1>8, <1>9 DEF Next, Step

-----------------------------------------------------------------------------
(* What the steps find in the current directory.                           *)

LEMMA ParseSays ==
  ASSUME NEW S \in SUBSET Files, NEW x, NEW f, NEW c
  PROVE  Says(ParseViolations(S), x, f, c) <=> f \in S /\ x = DirOf[f] /\ ParseDue(f, c)
<1>1. ASSUME Says(ParseViolations(S), x, f, c)
      PROVE  f \in S /\ x = DirOf[f] /\ ParseDue(f, c)
  BY <1>1 DEF Says, ParseViolations, ParseDue
<1>2. ASSUME f \in S, x = DirOf[f], c = "E000", Unusable(tree[f])
      PROVE  Says(ParseViolations(S), x, f, c)
  <2>1. [dir |-> DirOf[f], phase |-> 1, file |-> f, line |-> 0, code |-> "E000"]
          \in ParseViolations(S)
    BY <1>2 DEF ParseViolations
  <2>. QED  BY <1>2, <2>1 DEF Says
<1>3. ASSUME f \in S, x = DirOf[f], c = "E001", Malformed(tree[f])
      PROVE  Says(ParseViolations(S), x, f, c)
  <2>1. [dir |-> DirOf[f], phase |-> 1, file |-> f, line |-> 1, code |-> "E001"]
          \in ParseViolations(S)
    BY <1>3 DEF ParseViolations
  <2>. QED  BY <1>3, <2>1 DEF Says
<1>. QED  BY <1>1, <1>2, <1>3 DEF ParseDue

LEMMA RunSays ==
  ASSUME NEW S \in SUBSET Files, NEW checks, NEW x, NEW f, NEW c
  PROVE  Says(RunViolations(S, checks), x, f, c)
           <=> x = d /\ f \in S /\ c \in Codes \cap tree[f].issues /\ Enabled(checks, c)
<1>1. ASSUME Says(RunViolations(S, checks), x, f, c)
      PROVE  x = d /\ f \in S /\ c \in Codes \cap tree[f].issues /\ Enabled(checks, c)
  BY <1>1 DEF Says, RunViolations
<1>2. ASSUME x = d, f \in S, c \in Codes \cap tree[f].issues, Enabled(checks, c)
      PROVE  Says(RunViolations(S, checks), x, f, c)
  <2>. DEFINE v == [dir |-> d, phase |-> 2, file |-> f, line |-> 1, code |-> c]
  <2>1. v \in RunViolations(S, checks)
    BY <1>2 DEF RunViolations
  <2>. QED  BY <1>2, <2>1 DEF Says
<1>. QED  BY <1>1, <1>2

LEMMA SaysUnion ==
  ASSUME NEW V, NEW W, NEW x, NEW f, NEW c
  PROVE  Says(V \cup W, x, f, c) <=> Says(V, x, f, c) \/ Says(W, x, f, c)
BY DEF Says

LEMMA SoFarStep ==
  ASSUME IInv, [Next]_vars, d' = d, NEW f \in AnyFile, NEW c \in AnyCode
  PROVE  SoFar(f, c)' <=>
           \/ f = NoFile /\ c = "E000" /\ ~Listable(d)
           \/ /\ f \in Wanted /\ DirOf[f] = d /\ Listable(d)
              /\ \/ ParseDue(f, c)
                 \/ pc' # "run" /\ RunDue(f, c)
                 \/ FormatDone(f)' /\ FormatDue(f, c)'
<1>1. Listable(d)' <=> Listable(d)
  BY TreeStep DEF Listable, input
<1>2. Wanted' = Wanted /\ Wanted \subseteq Files
  BY SameFiles DEF Wanted
<1>3. f \in Wanted => (ParseDue(f, c)' <=> ParseDue(f, c)) /\ (RunDue(f, c)' <=> RunDue(f, c))
  BY <1>2, SameFiles
<1>. QED  BY <1>1, <1>2, <1>3 DEF SoFar

(* Nothing but a rewrite or its failure changes what E008 and the failures *)
(* have to say.                                                            *)
LEMMA FormatDueStep ==
  ASSUME IInv, [Next]_vars, NEW f \in Files, NEW c \in AnyCode,
         f \in failed' <=> f \in failed, tree'[f] = tree[f]
  PROVE  FormatDue(f, c)' <=> FormatDue(f, c)
<1>1. filter' = filter
  BY TreeStep DEF input
<1>. QED  BY <1>1 DEF FormatDue, Selected

LEMMA DirStep == ASSUME IInv, [Next]_vars PROVE DirInv'
<1>. USE DEF Exit, Goto, Interrupted, input, views, pass, result, cancel
<1>. SUFFICES ASSUME Working', pc' # "load"
              PROVE  \A x \in Dirs, f \in AnyFile, c \in AnyCode :
                       Says(dirViolations', x, f, c) <=> x = d' /\ SoFar(f, c)'
  BY DEF DirInv
<1>. SUFFICES ASSUME NEW x \in Dirs, NEW f \in AnyFile, NEW c \in AnyCode
              PROVE  Says(dirViolations', x, f, c) <=> x = d' /\ SoFar(f, c)'
  OBVIOUS
<1>1. /\ TypeOK /\ ViewInv /\ Wanted \subseteq Files /\ d \in Dirs
      /\ pc' \in {"run", "format", "fix", "write", "append"}
  BY DEF IInv, TypeOK, Wanted, Working
<1>2. Working /\ pc # "load" => (Says(dirViolations, x, f, c) <=> x = d /\ SoFar(f, c))
  BY DEF IInv, DirInv
<1>3. ASSUME d' = d, dirViolations' = dirViolations, Working, pc # "load",
             pc = "run" <=> pc' = "run",
             f \in Files /\ DirOf[f] = d =>
               (FormatDone(f)' /\ FormatDue(f, c)' <=> FormatDone(f) /\ FormatDue(f, c))
      PROVE  Says(dirViolations', x, f, c) <=> x = d' /\ SoFar(f, c)'
  BY <1>1, <1>2, <1>3, SoFarStep DEF SoFar
<1>4. CASE Load
  <2>1. pc = "load" /\ pc' = "run" /\ UNCHANGED <<d, tree, failed>>
    BY <1>1, <1>4 DEF Load
  <2>2. ~FormatDone(f)'
    BY <2>1 DEF FormatDone, Fixing
  <2>3. CASE Listable(d)
    <3>1. dirViolations' = ParseViolations({g \in Wanted : DirOf[g] = d})
      BY <1>4, <2>1, <2>3, LoadView DEF Load
    <3>. QED  BY <1>1, <2>1, <2>2, <2>3, <3>1, ParseSays, SoFarStep
  <2>4. CASE ~Listable(d)
    <3>1. dirViolations' = Unlistable(d)
      BY <1>4, <2>1, <2>4 DEF Load
    <3>2. Says(dirViolations', x, f, c) <=> x = d /\ f = NoFile /\ c = "E000"
      BY <3>1 DEF Says, Unlistable
    <3>. QED  BY <2>1, <2>2, <2>4, <3>2, SoFarStep
  <2>. QED  BY <2>3, <2>4
<1>5. CASE RunChecks
  <2>1. pc = "run" /\ pc' = "format" /\ UNCHANGED <<d, tree, failed>>
    BY <1>1, <1>5 DEF RunChecks
  <2>2. ~FormatDone(f)' /\ ~FormatDone(f)
    BY <2>1 DEF FormatDone, Fixing
  <2>3. Says(dirViolations, x, f, c) <=>
          /\ x = d
          /\ \/ f = NoFile /\ c = "E000" /\ ~Listable(d)
             \/ f \in Wanted /\ DirOf[f] = d /\ Listable(d) /\ ParseDue(f, c)
    BY <1>2, <2>1, <2>2 DEF SoFar, Working
  <2>4. f \in Files => tree[f].issues \subseteq SemanticCodes
    BY <1>1 DEF TypeOK, FileState
  <2>5. CASE semanticFiles = {} \/ SkipRun \/ ~semanticOk
    <3>1. dirViolations' = dirViolations
      BY <1>5, <2>5 DEF RunChecks
    <3>2. f \in Wanted /\ DirOf[f] = d /\ Listable(d) => ~RunDue(f, c)
      BY <1>1, <2>1, <2>4, <2>5, FilterMeaning DEF RunDue, ViewInv, TypeOK
    <3>. QED  BY <2>1, <2>2, <2>3, <3>1, <3>2, SoFarStep
  <2>6. CASE semanticFiles # {} /\ ~SkipRun /\ semanticOk
    <3>1. dirViolations' = dirViolations \cup RunViolations(semanticFiles, RunFilter)
      BY <1>5, <2>1, <2>6 DEF RunChecks
    <3>2. Listable(d) /\ Complete(d) /\ d \in Visited
          /\ semanticFiles = {g \in Semantic(tree, d) : Parsed(tree[g])}
      BY <1>1, <2>1, <2>6 DEF ViewInv, IInv, ModeInv, Working
    <3>3. Says(RunViolations(semanticFiles, RunFilter), x, f, c)
            <=> x = d /\ f \in Wanted /\ DirOf[f] = d /\ RunDue(f, c)
      <4>1. semanticFiles \subseteq Files
        BY <1>1 DEF TypeOK
      <4>2. f \in semanticFiles => f \in Wanted /\ DirOf[f] = d
        BY <3>2, SemanticWanted
      <4>3. f \in Files => (c \in tree[f].issues =>
              c \in Codes /\ (Enabled(RunFilter, c) <=> Selected(c)))
        BY <1>1, <2>4, <2>6, FilterMeaning DEF TypeOK, SemanticCodes
      <4>. QED  BY <1>1, <3>2, <4>1, <4>2, <4>3, RunSays DEF RunDue
    <3>. QED  BY <2>1, <2>2, <2>3, <3>1, <3>2, <3>3, SaysUnion, SoFarStep
  <2>. QED  BY <2>5, <2>6
<1>6. CASE Format
  <2>1. pc = "format" /\ UNCHANGED <<d, tree, failed>> /\ pc' \in {"fix", "append"}
    BY <1>1, <1>6 DEF Format
  <2>2. ~FormatDone(f)
    BY <2>1 DEF FormatDone, Fixing
  <2>3. Says(dirViolations, x, f, c) <=>
          /\ x = d
          /\ \/ f = NoFile /\ c = "E000" /\ ~Listable(d)
             \/ f \in Wanted /\ DirOf[f] = d /\ Listable(d) /\ (ParseDue(f, c) \/ RunDue(f, c))
    BY <1>2, <2>1, <2>2 DEF SoFar, Working
  <2>4. f \in Files => (FormatDue(f, c)' <=> FormatDue(f, c))
    BY <2>1, FormatDueStep
  \* No file of this directory has failed so far.
  <2>5. f \in Files /\ DirOf[f] = d => f \notin failed
    BY <2>1, <2>2 DEF IInv, FailedInv, Left, Working
  <2>6. f \in Wanted /\ DirOf[f] = d /\ Listable(d) =>
          (FormatDue(f, c) <=> /\ c = "E008" /\ ShouldFormat
                               /\ f \in formatFiles /\ tree[f].form = "dirty")
    BY <1>1, <2>1, <2>5, FilterMeaning DEF FormatDue, ViewInv, TypeOK
  <2>7. CASE ~ShouldFormat \/ formatFiles = {}
    <3>1. dirViolations' = dirViolations
      BY <1>6, <2>1, <2>7 DEF Format
    <3>. QED  BY <1>1, <2>1, <2>3, <2>4, <2>6, <2>7, <3>1, SoFarStep
  <2>8. CASE pc' = "fix"
    <3>1. dirViolations' = dirViolations /\ todo' = formatFiles
      BY <1>6, <2>8 DEF Format
    <3>2. FormatDone(f)' <=> f \notin formatFiles
      BY <2>8, <3>1 DEF FormatDone, Fixing
    <3>. QED  BY <1>1, <2>1, <2>3, <2>4, <2>6, <3>1, <3>2, SoFarStep
  <2>9. CASE ShouldFormat /\ pc' = "append" /\ formatFiles # {}
    <3>. DEFINE W == {Unformatted(g, "E008") :
                        g \in {h \in formatFiles : tree[h].form = "dirty"}}
    <3>1. dirViolations' = dirViolations \cup W
      BY <1>6, <2>1, <2>9 DEF Format
    <3>2. \A g \in formatFiles : DirOf[g] = d /\ g \in Wanted /\ Listable(d)
      BY <1>1, <2>1 DEF ViewInv
    <3>3. Says(W, x, f, c)
            <=> x = d /\ c = "E008" /\ f \in formatFiles /\ tree[f].form = "dirty"
      <4>1. ASSUME Says(W, x, f, c)
            PROVE  x = d /\ c = "E008" /\ f \in formatFiles /\ tree[f].form = "dirty"
        BY <3>2, <4>1 DEF Says, Unformatted
      <4>2. ASSUME x = d, c = "E008", f \in formatFiles, tree[f].form = "dirty"
            PROVE  Says(W, x, f, c)
        <5>1. Unformatted(f, "E008") \in W
          BY <4>2
        <5>. QED  BY <3>2, <4>2, <5>1 DEF Says, Unformatted
      <4>. QED  BY <4>1, <4>2
    <3>4. FormatDone(f)'
      BY <2>9 DEF FormatDone
    <3>. HIDE DEF W
    <3>5. Says(dirViolations', x, f, c) <=> Says(dirViolations, x, f, c) \/ Says(W, x, f, c)
      BY <3>1, SaysUnion
    <3>. QED  BY <1>1, <2>1, <2>3, <2>4, <2>6, <2>9, <3>2, <3>3, <3>4, <3>5, SoFarStep
  <2>. QED  BY <2>1, <2>7, <2>8, <2>9
<1>7. CASE FixNext
  <2>1. pc = "fix" /\ UNCHANGED <<d, tree, failed, dirViolations>> /\ pc' \in {"fix", "write"}
    BY <1>1, <1>7 DEF FixNext
  <2>2. PICK g \in Files : /\ g \in todo
                           /\ \/ todo' = todo
                              \/ todo' = todo \ {g} /\ tree[g].form = "clean"
    BY <1>1, <1>7, <2>1 DEF FixNext, First
  <2>3. f \in Files => (FormatDue(f, c)' <=> FormatDue(f, c))
    BY <2>1, FormatDueStep
  <2>4. tree[g].form = "clean" => ~FormatDue(g, c)
    <3>1. DirOf[g] = d /\ ~FormatDone(g)
      BY <1>1, <2>1, <2>2 DEF ViewInv, Fixing, FormatDone
    <3>2. g \notin failed
      BY <2>1, <3>1 DEF IInv, FailedInv, Left, Working
    <3>. QED  BY <3>2 DEF FormatDue
  <2>5. FormatDone(f)' <=> f \notin todo'
    BY <2>1 DEF FormatDone, Fixing
  <2>6. FormatDone(f) <=> f \notin todo
    BY <2>1 DEF FormatDone, Fixing
  <2>. QED  BY <1>3, <2>1, <2>2, <2>3, <2>4, <2>5, <2>6 DEF Working
<1>8. CASE WriteOk
  <2>1. pc = "write" /\ pc' = "fix" /\ UNCHANGED <<d, dirViolations, failed>>
    BY <1>8 DEF WriteOk
  <2>2. PICK g \in Files : /\ First(g, todo) /\ todo' = todo \ {g}
                           /\ tree' = [tree EXCEPT ![g] = Reformatted(tree[g])]
    BY <1>8 DEF WriteOk
  <2>3. g \in todo /\ DirOf[g] = d /\ ~FormatDone(g)
    BY <1>1, <2>1, <2>2 DEF ViewInv, Fixing, FormatDone, First
  <2>4. ~FormatDue(g, c)'
    <3>1. g \notin failed
      BY <2>1, <2>3 DEF IInv, FailedInv, Left, Working
    <3>2. tree[g] \in FileState /\ tree'[g] = Reformatted(tree[g])
      BY <1>1, <2>2 DEF TypeOK
    <3>3. tree'[g].form = "clean"
      BY <3>2 DEF Reformatted, FileState
    <3>. QED  BY <2>1, <3>1, <3>3 DEF FormatDue
  <2>5. f \in Files \ {g} => (FormatDue(f, c)' <=> FormatDue(f, c))
    <3>1. f \in Files \ {g} => tree'[f] = tree[f]
      BY <1>1, <2>2 DEF TypeOK
    <3>. QED  BY <2>1, <3>1, FormatDueStep
  <2>6. /\ FormatDone(f)' <=> f \notin todo'
        /\ FormatDone(f) <=> f \notin todo
    BY <2>1 DEF FormatDone, Fixing
  <2>. QED  BY <1>3, <2>1, <2>2, <2>3, <2>4, <2>5, <2>6 DEF Working
<1>9. CASE WriteFails
  <2>1. pc = "write" /\ pc' = "fix" /\ UNCHANGED <<d, tree>>
    BY <1>9 DEF WriteFails
  <2>2. PICK g \in Files : /\ First(g, todo) /\ todo' = todo \ {g} /\ failed' = failed \cup {g}
                           /\ dirViolations' = dirViolations \cup
                                {Unformatted(g, "E000"), Unformatted(g, "E008")}
    BY <1>9 DEF WriteFails
  <2>3. g \in todo /\ g \in Wanted /\ DirOf[g] = d /\ Listable(d) /\ ~FormatDone(g)
        /\ ShouldFix /\ Parsed(tree[g]) /\ tree[g].form = "dirty"
    BY <1>1, <2>1, <2>2, FirstUnique DEF ViewInv, Fixing, FormatDone, First
  <2>4. FormatDue(g, c)' <=> c \in {"E000", "E008"}
    BY <1>1, <2>1, <2>2, <2>3, FilterMeaning, TreeStep
       DEF FormatDue, ShouldFix, Selected, TypeOK, input
  <2>5. f \in Files \ {g} => (FormatDue(f, c)' <=> FormatDue(f, c))
    BY <2>1, <2>2, FormatDueStep
  <2>6. /\ FormatDone(f)' <=> f \notin todo'
        /\ FormatDone(f) <=> f \notin todo
    BY <2>1 DEF FormatDone, Fixing
  <2>7. Says({Unformatted(g, "E000"), Unformatted(g, "E008")}, x, f, c)
          <=> x = d /\ f = g /\ c \in {"E000", "E008"}
    BY <2>3 DEF Says, Unformatted
  <2>8. Says(dirViolations', x, f, c)
          <=> (x = d /\ SoFar(f, c)) \/ (x = d /\ f = g /\ c \in {"E000", "E008"})
    BY <1>2, <2>1, <2>2, <2>7, SaysUnion DEF Working
  <2>. QED  BY <1>1, <2>1, <2>2, <2>3, <2>4, <2>5, <2>6, <2>8, SoFarStep DEF SoFar
<1>10. CASE FixEnd
  <2>1. pc = "fix" /\ pc' = "append" /\ UNCHANGED <<d, tree, failed, dirViolations>> /\ todo = {}
    BY <1>1, <1>10 DEF FixEnd
  <2>2. f \in Files => (FormatDue(f, c)' <=> FormatDue(f, c))
    BY <2>1, FormatDueStep
  <2>3. FormatDone(f)' /\ FormatDone(f)
    BY <2>1 DEF FormatDone, Fixing
  <2>. QED  BY <1>3, <2>1, <2>2, <2>3 DEF Working
<1>11. CASE Cancel \/ UNCHANGED vars
  <2>1. UNCHANGED <<pc, d, tree, failed, dirViolations, todo>>
    BY <1>11 DEF Cancel, vars
  <2>2. f \in Files => (FormatDue(f, c)' <=> FormatDue(f, c))
    BY <2>1, FormatDueStep
  <2>3. FormatDone(f)' <=> FormatDone(f)
    BY <2>1 DEF FormatDone, Fixing
  <2>. QED  BY <1>1, <1>3, <2>1, <2>2, <2>3 DEF Working
<1>12. CASE Start \/ NextDir \/ Append \/ Report
  BY <1>1, <1>12 DEF Start, NextDir, Append, Report
<1>. QED  BY <1>4, <1>5, <1>6, <1>7, <1>8, <1>9, <1>10, <1>11, <1>12 DEF Next, Step

-----------------------------------------------------------------------------
(* The violations of the directories done.                                 *)

LEMMA FoundStep ==
  ASSUME IInv, [Next]_vars, NEW x \in Dirs, NEW f \in AnyFile, NEW c \in AnyCode,
         x \notin Left, pc # "exited"
  PROVE  Found(x, f, c)' <=> Found(x, f, c)
<1>1. /\ Wanted' = Wanted /\ Wanted \subseteq Files /\ Listable(x)' = Listable(x)
      /\ f \in Files => (ParseDue(f, c)' <=> ParseDue(f, c)) /\ (RunDue(f, c)' <=> RunDue(f, c))
  BY SameFiles DEF Wanted
<1>2. ASSUME f \in Files, DirOf[f] = x
      PROVE  tree'[f] = tree[f] /\ (f \in failed' <=> f \in failed)
  <2>1. \A g \in todo : Fixing => DirOf[g] \in Left
    BY DEF IInv, ViewInv, Left, Working, Fixing
  <2>2. tree'[f] = tree[f]
    <3>1. CASE tree' = tree
      BY <3>1
    <3>2. ASSUME NEW g \in todo, WriteOk, tree' = [tree EXCEPT ![g] = Reformatted(tree[g])]
          PROVE  tree'[f] = tree[f]
      BY <1>2, <2>1, <3>2 DEF IInv, TypeOK, WriteOk, Fixing
    <3>. QED  BY <3>1, <3>2, TreeStep
  <2>3. f \in failed' <=> f \in failed
    <3>1. CASE WriteFails
      BY <1>2, <2>1, <3>1 DEF WriteFails, Fixing, First
    <3>2. CASE UNCHANGED failed
      BY <3>2
    <3>3. CASE Start \/ NextDir \/ Load \/ RunChecks \/ Format \/ FixNext
      BY <3>2, <3>3 DEF Start, NextDir, Load, RunChecks, Format, FixNext
    <3>4. CASE WriteOk \/ FixEnd \/ Append \/ Report \/ Cancel \/ UNCHANGED vars
      BY <3>2, <3>4 DEF WriteOk, FixEnd, Append, Report, Cancel, vars
    <3>. QED  BY <3>1, <3>3, <3>4 DEF Next, Step
  <2>. QED  BY <2>2, <2>3
<1>3. f \in Files /\ DirOf[f] = x => (FormatDue(f, c)' <=> FormatDue(f, c))
  BY <1>2, FormatDueStep
<1>. QED  BY <1>1, <1>3 DEF Found, Due

LEMMA ListStep == ASSUME IInv, [Next]_vars PROVE ListInv'
<1>. USE DEF Exit, Goto, Interrupted, input, views, pass, result, cancel
<1>. SUFFICES ASSUME pc' # "exited", NEW x \in Dirs, NEW f \in AnyFile, NEW c \in AnyCode
              PROVE  Says(violations', x, f, c) <=> x \in Visited' \ Left' /\ Found(x, f, c)'
  BY DEF ListInv
<1>1. Visited' = Visited
  BY SameFiles
<1>2. pc # "exited" => (Says(violations, x, f, c) <=> x \in Visited \ Left /\ Found(x, f, c))
  BY DEF IInv, ListInv
<1>3. CASE Append
  <2>1. violations' = violations \cup dirViolations /\ pc = "append"
        /\ UNCHANGED <<tree, failed, d>>
    BY <1>3 DEF Append
  <2>2. Left' = Left \ {d} /\ d \in Left /\ d \in Visited
    BY <1>3, LeftStep DEF IInv, ModeInv, Working
  <2>3. Says(dirViolations, x, f, c) <=> x = d /\ Found(d, f, c)
    <3>1. Says(dirViolations, x, f, c) <=> x = d /\ SoFar(f, c)
      BY <2>1 DEF IInv, DirInv, Working
    <3>2. SoFar(f, c) <=> Found(d, f, c)
      BY <2>1 DEF SoFar, Found, Due, FormatDone
    <3>. QED  BY <3>1, <3>2
  <2>4. Found(x, f, c)' <=> Found(x, f, c)
    <3>1. filter' = filter /\ Wanted' = Wanted /\ Wanted \subseteq Files
          /\ Listable(x)' = Listable(x)
      BY TreeStep, SameFiles DEF input, Wanted
    <3>2. f \in Files => /\ ParseDue(f, c)' <=> ParseDue(f, c)
                         /\ RunDue(f, c)' <=> RunDue(f, c)
                         /\ FormatDue(f, c)' <=> FormatDue(f, c)
      BY <2>1, SameFiles, FormatDueStep
    <3>. QED  BY <3>1, <3>2 DEF Found, Due
  <2>. QED  BY <1>1, <1>2, <2>1, <2>2, <2>3, <2>4, SaysUnion
<1>4. CASE ~Append
  <2>1. Left' = Left
    BY <1>4, LeftStep
  <2>2. violations' = violations /\ pc # "exited"
    <3>1. CASE Start \/ NextDir \/ Load \/ RunChecks \/ Format \/ FixNext
      BY <3>1 DEF Start, NextDir, Load, RunChecks, Format, FixNext
    <3>2. CASE WriteOk \/ WriteFails \/ FixEnd \/ Report
      BY <3>2 DEF WriteOk, WriteFails, FixEnd, Report
    <3>3. CASE Cancel \/ UNCHANGED vars
      BY <3>3 DEF Cancel, vars
    <3>. QED  BY <1>4, <3>1, <3>2, <3>3 DEF Next, Step
  <2>. QED  BY <1>1, <1>2, <2>1, <2>2, FoundStep
<1>. QED  BY <1>3, <1>4

-----------------------------------------------------------------------------
(* The end of the run.                                                     *)

\* The report as ReportExact wants it.
Wanting ==
  {<<dir, NoFile, "E000">> : dir \in {x \in Visited : ~Listable(x)}}
  \cup
  UNION {{<<DirOf[f], f, c>> : c \in
            {x \in AnyCode :
               \/ x = "E000" /\ (Unusable(tree[f]) \/ f \in failed)
               \/ x = "E001" /\ Malformed(tree[f])
               \/ x = "E008" /\ Selected(x) /\ Parsed(tree[f])
                  /\ tree[f].form = "dirty"
               \/ /\ x \in tree[f].issues /\ Selected(x) /\ Parsed(tree[f])
                  /\ f \in Semantic(tree, DirOf[f]) /\ Complete(DirOf[f])}} :
         f \in {g \in Wanted : Listable(DirOf[g])}}

LEMMA WantingFound ==
  /\ \A x \in Dirs, f \in AnyFile, c \in AnyCode :
       <<x, f, c>> \in Wanting <=> x \in Visited /\ Found(x, f, c)
  /\ \A t \in Wanting : \E x \in Dirs, f \in AnyFile, c \in AnyCode : t = <<x, f, c>>
<1>1. Visited \subseteq Dirs /\ Wanted \subseteq Files /\ \A f \in Files : DirOf[f] \in Dirs
  BY VisitedDirs, Constants DEF Wanted
<1>2. \A f \in Wanted : DirOf[f] \in Visited
  BY DEF Wanted
<1>. DEFINE Codes1(f) == {x \in AnyCode : Due(f, x)}
<1>3. Wanting = {<<dir, NoFile, "E000">> : dir \in {x \in Visited : ~Listable(x)}}
                \cup UNION {{<<DirOf[f], f, c>> : c \in Codes1(f)} :
                            f \in {g \in Wanted : Listable(DirOf[g])}}
  <2>1. \A f, x : Due(f, x) <=>
               \/ x = "E000" /\ (Unusable(tree[f]) \/ f \in failed)
               \/ x = "E001" /\ Malformed(tree[f])
               \/ x = "E008" /\ Selected(x) /\ Parsed(tree[f])
                  /\ tree[f].form = "dirty"
               \/ /\ x \in tree[f].issues /\ Selected(x) /\ Parsed(tree[f])
                  /\ f \in Semantic(tree, DirOf[f]) /\ Complete(DirOf[f])
    BY DEF Due, ParseDue, RunDue, FormatDue
  <2>. QED  BY <2>1 DEF Wanting
<1>4. ASSUME NEW x \in Dirs, NEW f \in AnyFile, NEW c \in AnyCode
      PROVE  <<x, f, c>> \in Wanting <=> x \in Visited /\ Found(x, f, c)
  BY <1>1, <1>2, <1>3, <1>4 DEF Found
<1>5. ASSUME NEW t \in Wanting
      PROVE  \E x \in Dirs, f \in AnyFile, c \in AnyCode : t = <<x, f, c>>
  <2>1. CASE \E x \in Visited : t = <<x, NoFile, "E000">>
    BY <1>1, <2>1 DEF AnyFile, AnyCode
  <2>2. CASE \E f \in Wanted, c \in AnyCode : t = <<DirOf[f], f, c>>
    BY <1>1, <2>2 DEF AnyFile
  <2>. QED  BY <1>3, <1>5, <2>1, <2>2
<1>. QED  BY <1>4, <1>5

LEMMA EndStep == ASSUME IInv, [Next]_vars PROVE EndInv'
<1>. USE DEF Exit, Goto, Interrupted, input, views, pass, result, cancel
<1>1. CASE exit' \notin {0, 1} /\ ~written'
  BY <1>1 DEF EndInv, ReportExact, NoFalseClean, ToolTroubleIsLoud
<1>2. CASE Report /\ written'
  <2>1. UNCHANGED <<tree, failed, violations, filter, recursive, unreadable, root>>
        /\ pc = "report" /\ exit' = ExitCode(violations)
    BY <1>2 DEF Report
  <2>2. \A x \in Dirs, f \in AnyFile, c \in AnyCode :
          Says(violations, x, f, c) <=> x \in Visited /\ Found(x, f, c)
    BY <2>1 DEF IInv, ListInv, Left, Working, ModeInv
  <2>3. /\ Visited' = Visited /\ Wanted' = Wanted
        /\ \A x : Listable(x)' = Listable(x) /\ Complete(x)' = Complete(x)
        /\ \A c : Selected(c)' = Selected(c)
    BY <2>1, SameFiles DEF Listable, Complete, Selected
  <2>4. \A v \in violations : v.dir \in Dirs /\ v.file \in AnyFile /\ v.code \in AnyCode
    BY DEF IInv, TypeOK, Violation, AnyFile, AnyCode
  <2>5. {<<v.dir, v.file, v.code>> : v \in violations} = Wanting
    <3>1. ASSUME NEW v \in violations PROVE <<v.dir, v.file, v.code>> \in Wanting
      BY <2>2, <2>4, WantingFound DEF Says
    <3>2. ASSUME NEW t \in Wanting
          PROVE  t \in {<<v.dir, v.file, v.code>> : v \in violations}
      BY <2>2, WantingFound DEF Says
    <3>. QED  BY <3>1, <3>2
  <2>6. ReportExact'
    <3>1. Wanting' = Wanting
      BY <2>1, <2>3 DEF Wanting
    <3>2. ReportExact' <=>
            (written' => {<<v.dir, v.file, v.code>> : v \in violations'} = Wanting')
      BY DEF ReportExact, Wanting, AnyCode
    <3>. QED  BY <2>1, <2>5, <3>1, <3>2
  \* A violation for every trouble, so no trouble if there is no violation.
  <2>7. exit' \in {0, 1} =>
          /\ \A x \in Visited : Listable(x)
          /\ \A f \in Wanted : ~Unusable(tree[f])
          /\ failed = {}
    <3>. SUFFICES ASSUME exit' \in {0, 1}
                  PROVE  /\ \A x \in Visited : Listable(x)
                         /\ \A f \in Wanted : ~Unusable(tree[f])
                         /\ failed = {}
      OBVIOUS
    <3>1. \A v \in violations : v.code # "E000"
      BY <2>1 DEF ExitCode
    <3>2. \A x \in Dirs, f \in AnyFile : ~(x \in Visited /\ Found(x, f, "E000"))
      BY <2>2, <3>1 DEF Says, AnyCode
    <3>3. /\ Visited \subseteq Dirs /\ Wanted \subseteq Files
          /\ \A f \in Wanted : DirOf[f] \in Visited
      BY VisitedDirs DEF Wanted
    <3>4. \A x \in Visited : Listable(x)
      BY <3>2, <3>3 DEF Found, AnyFile
    <3>5. \A f \in Wanted : ~Unusable(tree[f]) /\ f \notin failed
      BY <3>2, <3>3, <3>4 DEF Found, Due, ParseDue, FormatDue, AnyFile
    <3>6. \A f \in failed : f \in Wanted
      BY <2>1 DEF IInv, FailedInv
    <3>. QED  BY <3>4, <3>5, <3>6
  <2>8. exit' = 0 =>
          \A f \in Wanted :
            /\ Parsed(tree[f])
            /\ f \in Semantic(tree, DirOf[f])
                 => \A c \in tree[f].issues \ Warnings : ~Selected(c)
            /\ Selected("E008") => tree[f].form = "clean"
    <3>. SUFFICES ASSUME exit' = 0
                  PROVE  \A f \in Wanted :
            /\ Parsed(tree[f])
            /\ f \in Semantic(tree, DirOf[f])
                 => \A c \in tree[f].issues \ Warnings : ~Selected(c)
            /\ Selected("E008") => tree[f].form = "clean"
      OBVIOUS
    <3>1. \A v \in violations : v.code \in Warnings
      BY <2>1 DEF ExitCode
    <3>2. \A f \in Wanted, c \in AnyCode \ Warnings : ~Due(f, c)
      <4>1. Wanted \subseteq Files /\ \A f \in Wanted : DirOf[f] \in Visited /\ DirOf[f] \in Dirs
        BY VisitedDirs DEF Wanted
      <4>. QED  BY <2>2, <2>7, <3>1, <4>1 DEF Says, Found, AnyFile
    <3>3. {"E000", "E001", "E008"} \subseteq AnyCode \ Warnings
      BY Constants DEF AnyCode, SemanticCodes
    <3>4. \A f \in Wanted : f \in Files /\ tree[f] \in FileState /\ tree[f].form # "absent"
      BY DEF Wanted, Physical, IInv, TypeOK
    <3>5. \A f \in Wanted : Parsed(tree[f])
      BY <3>2, <3>3, <3>4 DEF Due, ParseDue, Parsed, Unusable, Malformed, FileState
    <3>6. \A f \in Wanted : Complete(DirOf[f])
      <4>1. \A f \in Wanted : DirOf[f] \in Visited
        BY DEF Wanted
      <4>. QED  BY <3>5, <4>1, SemanticWanted DEF Complete
    <3>7. \A f \in Wanted : tree[f].issues \subseteq AnyCode
      BY <3>4 DEF FileState, SemanticCodes, AnyCode
    <3>8. \A f \in Wanted : f \in Semantic(tree, DirOf[f])
                 => \A c \in tree[f].issues \ Warnings : ~Selected(c)
      BY <3>2, <3>5, <3>6, <3>7 DEF Due, RunDue
    <3>9. \A f \in Wanted : Selected("E008") => tree[f].form = "clean"
      BY <3>2, <3>3, <3>5 DEF Due, FormatDue, Parsed
    <3>. QED  BY <3>5, <3>8, <3>9
  <2>9. NoFalseClean'
    BY <2>1, <2>3, <2>7, <2>8 DEF NoFalseClean
  <2>10. ToolTroubleIsLoud'
    BY <2>1, <2>3, <2>7 DEF ToolTroubleIsLoud
  <2>. QED  BY <2>6, <2>9, <2>10 DEF EndInv
<1>3. CASE UNCHANGED vars
  <2>1. UNCHANGED <<tree, failed, violations, filter, recursive, unreadable, root, written, exit>>
    BY <1>3 DEF vars
  <2>2. /\ Visited' = Visited /\ Wanted' = Wanted
        /\ \A x : Listable(x)' = Listable(x) /\ Complete(x)' = Complete(x)
        /\ \A c : Selected(c)' = Selected(c)
    BY <2>1, SameFiles DEF Listable, Complete, Selected
  <2>. QED  BY <2>1, <2>2 DEF IInv, EndInv, ReportExact, NoFalseClean, ToolTroubleIsLoud
<1>4. ASSUME Next, ~(Report /\ written')
      PROVE  exit' \notin {0, 1} /\ ~written'
  <2>1. pc # "exited" /\ exit = Running /\ ~written
    BY <1>4 DEF Next, Step, Start, NextDir, Load, RunChecks, Format, FixNext, WriteOk, WriteFails,
                FixEnd, Append, Report, Cancel, IInv, ModeInv
  <2>2. CASE Start \/ NextDir \/ Load \/ RunChecks \/ Format \/ FixNext
    BY <2>1, <2>2 DEF Start, NextDir, Load, RunChecks, Format, FixNext, Running
  <2>3. CASE WriteOk \/ WriteFails \/ FixEnd \/ Append \/ Report \/ Cancel
    BY <1>4, <2>1, <2>3 DEF WriteOk, WriteFails, FixEnd, Append, Report, Cancel, Running
  <2>. QED  BY <1>4, <2>2, <2>3 DEF Next, Step
<1>. QED  BY <1>1, <1>2, <1>3, <1>4

LEMMA LateStep == ASSUME IInv, [Next]_vars PROVE LateInv'
<1>. USE DEF IInv, LateInv, Fixing, Exit, Goto, Interrupted, input, views, pass, result, cancel
<1>1. CASE WriteOk
  <2>1. late = {} /\ pc = "write" /\ UNCHANGED <<ctxDone, cancelledAt, exit>> /\ pc' = "fix"
    BY <1>1 DEF WriteOk
  <2>2. PICK f \in Files : late' = IF ctxDone THEN late \cup {f} ELSE late
    BY <1>1 DEF WriteOk
  <2>. QED  BY <2>1, <2>2
<1>2. CASE WriteFails
  BY <1>2 DEF WriteFails
<1>3. CASE FixNext
  BY <1>3 DEF FixNext
<1>4. CASE FixEnd
  BY <1>4 DEF FixEnd
<1>5. CASE Format
  BY <1>5 DEF Format, ModeInv, Running
<1>6. CASE Start \/ NextDir \/ Load \/ RunChecks \/ Append \/ Report
  BY <1>6 DEF Start, NextDir, Load, RunChecks, Append, Report, ModeInv, Running
<1>7. CASE Cancel \/ UNCHANGED vars
  BY <1>7 DEF Cancel, vars
<1>. QED  BY <1>1, <1>2, <1>3, <1>4, <1>5, <1>6, <1>7 DEF Next, Step

LEMMA Invariance == Spec => []IInv
<1>1. Init => IInv
  BY InitInv
<1>2. IInv /\ [Next]_vars => IInv'
  <2>. SUFFICES ASSUME IInv, [Next]_vars PROVE IInv'
    OBVIOUS
  <2>1. TypeOK'
    BY TypeStep DEF IInv
  <2>2. ModeInv' /\ ViewInv' /\ FixInv' /\ FailedInv'
    BY ModeStep, ViewStep, FixStep, FailedStep
  <2>3. DirInv' /\ ListInv' /\ EndInv' /\ LateInv'
    BY DirStep, ListStep, EndStep, LateStep
  <2>. QED  BY <2>1, <2>2, <2>3 DEF IInv
<1>. QED  BY <1>1, <1>2, PTL DEF Spec

-----------------------------------------------------------------------------
(* The properties.                                                         *)

(* Every variable of run keeps its type.                                   *)
THEOREM TypeCorrect == Spec => []TypeOK
BY Invariance, PTL DEF IInv

(* A written report of run lists exactly what the selected checks find in  *)
(* the directories visited, whatever fails on the way.                     *)
THEOREM ReportCorrect == Spec => []ReportExact
BY Invariance, PTL DEF IInv, EndInv

(* Exit 0 of run is never a false all-clear: it follows from the report,   *)
(* which has a violation for every trouble.                                *)
THEOREM CleanCorrect == Spec => []NoFalseClean
BY Invariance, PTL DEF IInv, EndInv

(* With exit 1 nothing of run's own work has failed.                       *)
THEOREM TroubleCorrect == Spec => []ToolTroubleIsLoud
BY Invariance, PTL DEF IInv, EndInv

(* run changes nothing but unformatted files under --fix, and fixed_files  *)
(* lists exactly those.                                                    *)
THEOREM FixedCorrect == Spec => []FixedFilesExact
<1>1. IInv => FixedFilesExact
  BY DEF IInv, FixInv, FixedFilesExact, Changed
<1>. QED  BY <1>1, Invariance, PTL

(* After a signal FixFormat completes at most the rewrite under way.       *)
THEOREM LateCorrect == Spec => []OneLateWrite
<1>1. IInv => OneLateWrite
  <2>. SUFFICES ASSUME IInv PROVE OneLateWrite
    OBVIOUS
  <2>1. CASE late = {}
    BY <2>1, FS_EmptySet DEF OneLateWrite
  <2>2. CASE late # {}
    <3>1. PICK f \in Files : late = {f}
      BY <2>2 DEF IInv, LateInv
    <3>2. Cardinality(late) = 1
      BY <3>1, FS_Singleton
    <3>. QED  BY <2>2, <3>2 DEF OneLateWrite, IInv, LateInv
  <2>. QED  BY <2>1, <2>2
<1>. QED  BY <1>1, Invariance, PTL

(* A signal during FixFormat is never swallowed.                           *)
THEOREM SignalCorrect == Spec => []FixCancelSeen
<1>1. IInv => FixCancelSeen
  BY DEF IInv, LateInv, ModeInv, FixCancelSeen, Fixing
<1>. QED  BY <1>1, Invariance, PTL
=============================================================================
