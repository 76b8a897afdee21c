------------------------------ MODULE LintRun ------------------------------
(***************************************************************************)
(* The lint path of run (main.go): which directories are visited, the two  *)
(* views of each directory's files, when the semantic checks run and with  *)
(* which filter, the E008 pass that reports or rewrites, the cancellation  *)
(* checks between these steps, the report and the exit code.               *)
(*                                                                         *)
(* A directory load (module ParsePool) is one step here: it returns an     *)
(* error exactly if the context is cancelled, otherwise every listed file  *)
(* parsed.  So are Run and CheckFormat, whose own context checks only make *)
(* a cancellation act as if it had come before them.  A rewrite (module    *)
(* Rewrite) either installs the formatted bytes or fails.                  *)
(*                                                                         *)
(* What the semantic checks find in a file is an input, its "issues".      *)
(***************************************************************************)
EXTENDS Workspace

CONSTANTS
  Warnings,     \* the codes of severity "warning"
  Filters       \* the --checks= sets a run may get; {} for none

ASSUME LintAssumption ==
  /\ Warnings \subseteq SemanticCodes
  /\ Filters \subseteq SUBSET Codes

VARIABLES
  \* The command line, fixed in Init.
  fix, recursive, filter,
  \* The world; only a rewrite changes it.
  tree,         \* tree[f]: the state of file f
  tree0,        \* history: the tree the run started with
  root,         \* what Root is: "dir", "link" (to a directory) or "other"
  unreadable,   \* the directories ReadDir fails on
  ctxDone,      \* ctx.Err() # nil
  \* The locals of run.
  pc,
  dirs,         \* directories still to visit
  d,            \* the directory of this iteration
  semanticFiles, formatFiles,
  semanticOk,   \* len(semanticParseViolations) = 0
  dirViolations, violations,
  todo,         \* FixFormat: the files still to come
  fixed,        \* FixFormat: its result
  fixedFiles,
  written,      \* the report has been written to stdout
  exit,         \* the exit code, or Running
  \* History.
  failed,       \* files whose rewrite failed
  late,         \* files rewritten after the cancellation
  cancelledAt   \* pc when the cancellation came

input == <<fix, recursive, filter, tree0, root, unreadable>>
views == <<semanticFiles, formatFiles, semanticOk>>
pass == <<todo, fixed>>
result == <<violations, fixedFiles, written>>
cancel == <<ctxDone, cancelledAt>>
vars == <<input, tree, cancel, pc, dirs, d, views, dirViolations, pass, result,
          exit, failed, late>>

Running == 1000
Phases == 1..3   \* parse violations, Run, the E008 pass: the order of append
Violation == [dir : Dirs, phase : Phases, file : Files \cup {NoFile},
              line : {0, 1}, code : Codes \cup {"E000"}]

PCs == {"start", "dirs", "load", "run", "format", "fix", "write", "append",
        "report", "exited"}

TypeOK ==
  /\ fix \in BOOLEAN /\ recursive \in BOOLEAN /\ filter \in SUBSET Codes
  /\ tree \in [Files -> FileState] /\ tree0 \in [Files -> FileState]
  /\ root \in {"dir", "link", "other"}
  /\ unreadable \in SUBSET Dirs
  /\ ctxDone \in BOOLEAN /\ pc \in PCs
  /\ dirs \in SUBSET Dirs /\ d \in Dirs
  /\ semanticFiles \in SUBSET Files /\ formatFiles \in SUBSET Files
  /\ semanticOk \in BOOLEAN
  /\ dirViolations \in SUBSET Violation /\ violations \in SUBSET Violation
  /\ todo \in SUBSET Files /\ fixed \in SUBSET Files
  /\ fixedFiles \in SUBSET Files /\ written \in BOOLEAN
  /\ exit \in {0, 1, 2, 130, Running}
  /\ failed \in SUBSET Files /\ late \in SUBSET Files
  /\ cancelledAt \in PCs \cup {"never"}

Init ==
  /\ fix \in BOOLEAN /\ recursive \in BOOLEAN /\ filter \in Filters
  /\ tree \in Trees /\ tree0 = tree
  /\ root \in {"dir", "link", "other"}
  /\ unreadable \in Unreadables
  /\ ctxDone = FALSE /\ cancelledAt = "never"
  /\ pc = "start"
  /\ dirs = {} /\ d = Root
  /\ semanticFiles = {} /\ formatFiles = {} /\ semanticOk = FALSE
  /\ dirViolations = {} /\ violations = {}
  /\ todo = {} /\ fixed = {} /\ fixedFiles = {}
  /\ written = FALSE /\ exit = Running
  /\ failed = {} /\ late = {}

-----------------------------------------------------------------------------
(* The filter.  CheckSet takes the empty set as "all checks".              *)

Enabled(set, code) == set = {} \/ code \in set

ShouldFormat == Enabled(filter, "E008")
ShouldFix == fix /\ ShouldFormat

ChecksFilterWithout(set, code) == (IF set = {} THEN Codes ELSE set) \ {code}

RunFilter == IF ShouldFormat THEN ChecksFilterWithout(filter, "E008")
                             ELSE filter

\* Mutant: the empty set that remains of --checks=E008 means "all checks".
NeverSkip == FALSE

SkipRun == ShouldFormat /\ filter # {} /\ RunFilter = {}

-----------------------------------------------------------------------------
(* What a directory's files give.                                          *)

ParseViolations(set) ==
  {[dir |-> DirOf[f], phase |-> 1, file |-> f, line |-> 0, code |-> "E000"] :
     f \in {g \in set : Unusable(tree[g])}}
  \cup
  {[dir |-> DirOf[f], phase |-> 1, file |-> f, line |-> 1, code |-> "E001"] :
     f \in {g \in set : Malformed(tree[g])}}

\* ReadDir fails: a directory-level E000.
Unlistable(dir) ==
  {[dir |-> dir, phase |-> 1, file |-> NoFile, line |-> 0, code |-> "E000"]}

Unformatted(f, code) ==
  [dir |-> DirOf[f], phase |-> 3, file |-> f, line |-> 0, code |-> code]

RunViolations(set, checks) ==
  {v \in [dir : {d}, phase : {2}, file : set, line : {1}, code : Codes] :
     v.code \in tree[v.file].issues /\ Enabled(checks, v.code)}

\* A link to a directory is listed; anything else at Root is not.
Listable(dir) == dir \notin unreadable /\ (dir = Root => root # "other")

Exit(code) == pc' = "exited" /\ exit' = code
Interrupted == ctxDone /\ Exit(130)
Goto(to) == pc' = to /\ UNCHANGED exit

-----------------------------------------------------------------------------
(* The steps of run.                                                       *)

\* With --recursive the root must be a directory, not a link to one; the walk
\* itself fails only if the root disappears after that test.
Start ==
  /\ pc = "start"
  /\ \/ /\ recursive
        /\ Exit(2)
        /\ UNCHANGED dirs
     \/ /\ recursive => root = "dir"
        /\ dirs' = CollectDirs(recursive, unreadable)
        /\ Goto("dirs")
  /\ UNCHANGED <<input, tree, cancel, d, views, dirViolations, pass, result,
                 failed, late>>

\* Mutant: the directory is visited again.
VisitAgain ==
  /\ pc = "dirs"
  /\ \/ /\ dirs # {} /\ Interrupted
        /\ UNCHANGED d
     \/ /\ ~ctxDone
        /\ \E x \in Dirs : First(x, dirs) /\ d' = x
        /\ Goto("load")
     \/ /\ dirs = {}
        /\ Goto("report")
        /\ UNCHANGED d
  /\ UNCHANGED <<input, tree, cancel, dirs, views, dirViolations, pass, result,
                 failed, late>>

\* The head of the loop.  The context is not looked at again after the last
\* directory.
NextDir ==
  /\ pc = "dirs"
  /\ \/ /\ dirs # {} /\ Interrupted
        /\ UNCHANGED <<dirs, d>>
     \/ /\ ~ctxDone
        /\ \E x \in Dirs : First(x, dirs) /\ d' = x /\ dirs' = dirs \ {x}
        /\ Goto("load")
     \/ /\ dirs = {}
        /\ Goto("report")
        /\ UNCHANGED <<dirs, d>>
  /\ UNCHANGED <<input, tree, cancel, views, dirViolations, pass, result,
                 failed, late>>

\* ParseDirViews, or ParseDir if E008 is not selected.
Load ==
  /\ pc = "load"
  /\ \/ /\ Interrupted
        /\ UNCHANGED <<views, dirViolations>>
     \/ /\ ~ctxDone
        /\ Goto("run")
        /\ Listable(d)
        /\ LET view == IF ShouldFormat THEN Physical(tree, d) ELSE Semantic(tree, d) IN
             /\ dirViolations' = ParseViolations(view)
             /\ formatFiles' = {f \in view : Parsed(tree[f])}
             /\ semanticFiles' = {f \in Semantic(tree, d) : Parsed(tree[f])}
             /\ semanticOk' = (ParseViolations(Semantic(tree, d)) = {})
     \/ /\ ~ctxDone
        /\ Goto("run")
        /\ ~Listable(d)
        /\ dirViolations' = Unlistable(d)
        /\ formatFiles' = {} /\ semanticFiles' = {} /\ semanticOk' = FALSE
  /\ UNCHANGED <<input, tree, cancel, dirs, d, pass, result, failed, late>>

\* Run sees the whole module or does not run: one unparsed semantic file is
\* enough to leave it out.
RunChecks ==
  /\ pc = "run"
  /\ \/ /\ semanticFiles = {} \/ SkipRun \/ ~semanticOk
        /\ Goto("format")
        /\ UNCHANGED dirViolations
     \/ /\ semanticFiles # {} /\ ~SkipRun /\ semanticOk
        /\ \/ Interrupted /\ UNCHANGED dirViolations
           \/ /\ ~ctxDone
              /\ dirViolations' =
                   dirViolations \cup RunViolations(semanticFiles, RunFilter)
              /\ Goto("format")
  /\ UNCHANGED <<input, tree, cancel, dirs, d, views, pass, result, failed, late>>

\* CheckFormat, or the start of FixFormat.
Format ==
  /\ pc = "format"
  /\ \/ /\ ~ShouldFormat \/ formatFiles = {}
        /\ Goto("append")
        /\ UNCHANGED <<dirViolations, pass>>
     \/ /\ ShouldFormat /\ formatFiles # {}
        /\ Interrupted
        /\ UNCHANGED <<dirViolations, pass>>
     \/ /\ ShouldFormat /\ formatFiles # {}
        /\ ~ctxDone /\ ShouldFix
        /\ todo' = formatFiles /\ fixed' = {}
        /\ Goto("fix")
        /\ UNCHANGED dirViolations
     \/ /\ ShouldFormat /\ formatFiles # {}
        /\ ~ctxDone /\ ~ShouldFix
        /\ dirViolations' = dirViolations \cup
             {Unformatted(f, "E008") :
                f \in {g \in formatFiles : tree[g].form = "dirty"}}
        /\ Goto("append")
        /\ UNCHANGED pass
  /\ UNCHANGED <<input, tree, cancel, dirs, d, views, result, failed, late>>

\* Mutant: FixFormat looks at the context only when it starts and ends.
NoFileCheck ==
  /\ pc = "fix" /\ todo # {}
  /\ \E f \in Files :
       /\ First(f, todo)
       /\ \/ tree[f].form = "dirty" /\ Goto("write") /\ UNCHANGED todo
          \/ tree[f].form = "clean" /\ todo' = todo \ {f} /\ Goto("fix")
  /\ UNCHANGED <<input, tree, cancel, dirs, d, views, dirViolations, fixed,
                 result, failed, late>>

\* The head of FixFormat's loop: a formatted file is skipped.
FixNext ==
  /\ pc = "fix" /\ todo # {}
  /\ \/ Interrupted /\ UNCHANGED todo
     \/ /\ ~ctxDone
        /\ \E f \in Files :
             /\ First(f, todo)
             /\ \/ tree[f].form = "dirty" /\ Goto("write") /\ UNCHANGED todo
                \/ tree[f].form = "clean" /\ todo' = todo \ {f} /\ Goto("fix")
  /\ UNCHANGED <<input, tree, cancel, dirs, d, views, dirViolations, fixed,
                 result, failed, late>>

WriteOk ==
  /\ pc = "write"
  /\ \E f \in Files :
       /\ First(f, todo)
       /\ tree' = [tree EXCEPT ![f] = Reformatted(tree[f])]
       /\ fixed' = fixed \cup {f}
       /\ late' = IF ctxDone THEN late \cup {f} ELSE late
       /\ todo' = todo \ {f}
  /\ Goto("fix")
  /\ UNCHANGED <<input, cancel, dirs, d, views, dirViolations, result, failed>>

\* Mutant: a failed rewrite is only a tool error that nobody records.
FailQuietly ==
  /\ pc = "write"
  /\ \E f \in Files :
       /\ First(f, todo)
       /\ failed' = failed \cup {f}
       /\ todo' = todo \ {f}
  /\ Goto("fix")
  /\ UNCHANGED <<input, tree, cancel, dirs, d, views, dirViolations, fixed,
                 result, late>>

\* writeFormatted failed: the file stays as it was, E000 and E008.
WriteFails ==
  /\ pc = "write"
  /\ \E f \in Files :
       /\ First(f, todo)
       /\ dirViolations' =
            dirViolations \cup {Unformatted(f, "E000"), Unformatted(f, "E008")}
       /\ failed' = failed \cup {f}
       /\ todo' = todo \ {f}
  /\ Goto("fix")
  /\ UNCHANGED <<input, tree, cancel, dirs, d, views, fixed, result, late>>

\* Mutant: FixFormat returns a nil error after its loop.
NoFinalCheck ==
  /\ pc = "fix" /\ todo = {}
  /\ fixedFiles' = fixedFiles \cup fixed
  /\ Goto("append")
  /\ UNCHANGED <<input, tree, cancel, dirs, d, views, dirViolations, pass,
                 violations, written, failed, late>>

\* Mutant: the files fixed in earlier directories are forgotten.
LastFixed ==
  /\ pc = "fix" /\ todo = {}
  /\ \/ Interrupted /\ UNCHANGED fixedFiles
     \/ ~ctxDone /\ fixedFiles' = fixed /\ Goto("append")
  /\ UNCHANGED <<input, tree, cancel, dirs, d, views, dirViolations, pass,
                 violations, written, failed, late>>

\* FixFormat returns ctx.Err(); with an error run gives up its results.
FixEnd ==
  /\ pc = "fix" /\ todo = {}
  /\ \/ Interrupted /\ UNCHANGED fixedFiles
     \/ ~ctxDone /\ fixedFiles' = fixedFiles \cup fixed /\ Goto("append")
  /\ UNCHANGED <<input, tree, cancel, dirs, d, views, dirViolations, pass,
                 violations, written, failed, late>>

Append ==
  /\ pc = "append"
  /\ violations' = violations \cup dirViolations
  /\ Goto("dirs")
  /\ UNCHANGED <<input, tree, cancel, dirs, d, views, dirViolations, pass,
                 fixedFiles, written, failed, late>>

\* Mutant: an error in the user's code hides a tool error.
ErrorsFirst(vs) ==
  IF \E v \in vs : v.code \notin Warnings \cup {"E000"} THEN 1
  ELSE IF \E v \in vs : v.code = "E000" THEN 2
  ELSE 0

\* The summary of NewReportWithFixedFiles and the routing at the end of run.
ExitCode(vs) ==
  IF \E v \in vs : v.code = "E000" THEN 2
  ELSE IF \E v \in vs : v.code \notin Warnings THEN 1
  ELSE 0

\* Writing to stdout may fail.
Report ==
  /\ pc = "report"
  /\ \/ written' = TRUE /\ Exit(ExitCode(violations))
     \/ written' = FALSE /\ Exit(2)
  /\ UNCHANGED <<input, tree, cancel, dirs, d, views, dirViolations, pass,
                 violations, fixedFiles, failed, late>>

\* SIGINT, SIGTERM or a deadline.
Cancel ==
  /\ ~ctxDone /\ pc # "exited"
  /\ ctxDone' = TRUE
  /\ cancelledAt' = pc
  /\ UNCHANGED <<input, tree, pc, dirs, d, views, dirViolations, pass, result,
                 exit, failed, late>>

Step ==
  \/ Start \/ NextDir \/ Load \/ RunChecks \/ Format \/ FixNext \/ WriteOk
  \/ WriteFails \/ FixEnd \/ Append \/ Report

Next == Step \/ Cancel

Spec == Init /\ [][Next]_vars

\* run is sequential code without waiting: it goes on until it returns.
FairSpec == Spec /\ WF_vars(Step)

-----------------------------------------------------------------------------
(* What the user is promised.                                              *)

Visited == CollectDirs(recursive, unreadable)
Selected(code) == filter = {} \/ code \in filter

\* The files the run had to look at: shadowed ones only for formatting.
Wanted == {f \in Files : /\ DirOf[f] \in Visited
                         /\ f \in Physical(tree, DirOf[f])
                         /\ "E008" \notin filter /\ filter # {}
                              => f \in Semantic(tree, DirOf[f])}

\* The module of a directory is complete: all its semantic files were parsed.
Complete(dir) == \A f \in Semantic(tree, dir) : Parsed(tree[f])

(* A run that exits 0 means it: every directory was listed, every wanted   *)
(* file parsed, no selected error left in any module and, with E008        *)
(* selected, every file formatted on disk, by this run or before it.       *)
NoFalseClean ==
  exit = 0 =>
    /\ \A dir \in Visited : Listable(dir)
    /\ \A f \in Wanted :
         /\ Parsed(tree[f])
         /\ f \in Semantic(tree, DirOf[f])
              => \A c \in tree[f].issues \ Warnings : ~Selected(c)
         /\ Selected("E008") => tree[f].form = "clean"

(* Exit 1 says that only the user's code is at fault: with an unlisted     *)
(* directory, an oversize file or a failed rewrite it would be 2.          *)
ToolTroubleIsLoud ==
  exit = 1 =>
    /\ \A dir \in Visited : Listable(dir)
    /\ \A f \in Wanted : ~Unusable(tree[f])
    /\ failed = {}

(* The written report lists, without gap or addition, what the selected    *)
(* checks find: parse failures of the wanted files whatever the filter,    *)
(* the selected issues of complete modules, and E008 for every file that   *)
(* is still unformatted when the run ends.                                 *)
ReportExact ==
  written =>
    {<<v.dir, v.file, v.code>> : v \in violations} =
       {<<dir, NoFile, "E000">> : dir \in {x \in Visited : ~Listable(x)}}
       \cup
       UNION {{<<DirOf[f], f, c>> : c \in
                 {x \in Codes \cup {"E000"} :
                    \/ x = "E000" /\ (Unusable(tree[f]) \/ f \in failed)
                    \/ x = "E001" /\ Malformed(tree[f])
                    \/ x = "E008" /\ Selected(x) /\ Parsed(tree[f])
                       /\ tree[f].form = "dirty"
                    \/ /\ x \in tree[f].issues /\ Selected(x) /\ Parsed(tree[f])
                       /\ f \in Semantic(tree, DirOf[f]) /\ Complete(DirOf[f])}} :
              f \in {g \in Wanted : Listable(DirOf[g])}}

(* tfdry changes nothing on disk unless --fix is given and E008 selected,  *)
(* and then only turns a file it had to look at into its formatted form;   *)
(* fixed_files of a written report is exactly the set of files changed.    *)
Changed == {f \in Files : tree[f] # tree0[f]}
FixedFilesExact ==
  /\ Changed # {} => fix /\ Selected("E008")
  /\ \A f \in Changed : f \in Wanted /\ tree[f] = Reformatted(tree0[f])
  /\ written => fixedFiles = Changed

(* After the cancellation at most the rewrite under way is completed; none *)
(* is begun.                                                               *)
OneLateWrite ==
  Cardinality(late) <= 1 /\ (late # {} => cancelledAt = "write")

(* A signal that arrives while FixFormat is at work is never swallowed,    *)
(* not even during its last file: the run does not end as if finished.     *)
FixCancelSeen ==
  cancelledAt \in {"fix", "write"} => exit \in {Running, 130}

(* Every run ends, whatever fails and whenever it is interrupted.          *)
Terminates == <>(pc = "exited")

(* README: "violations[] ... One object per violation, ordered by file     *)
(* then line."  The list is in order of directory, phase, file and line.   *)
ReportOrdered ==
  written =>
    \A v, w \in violations :
      v.dir = w.dir /\ v.phase < w.phase
        => \/ v.file < w.file
           \/ v.file = w.file /\ v.line <= w.line
=============================================================================
