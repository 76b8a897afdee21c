------------------------------ MODULE FmtRun -------------------------------
(***************************************************************************)
(* The fmt subcommand: runFmt and runFmtFile (main.go).  A directory's     *)
(* files are loaded in one step (module ParsePool), every file is formatted*)
(* whatever shadows it, its path is printed before it is rewritten, and a  *)
(* failed rewrite does not stop the others.  A rewrite (module Rewrite)    *)
(* either installs the formatted bytes or fails.                           *)
(***************************************************************************)
EXTENDS Workspace

CONSTANT Single   \* the file the path names, if it does not name Root

ASSUME FmtAssumption == Single \in Files

VARIABLES
  \* The command line and what its path names, fixed in Init.
  check, recursive, path,
  unreadable,   \* the directories ReadDir fails on
  tree, tree0,  \* the tree now and, history, at the start
  ctxDone,
  \* The locals of runFmt.
  pc, dirs, d, files, anyDirty, anyError,
  printed,      \* the paths printed to stdout
  exit,
  \* History.
  failed,       \* files whose rewrite failed
  late,         \* files rewritten after the cancellation
  cancelledAt   \* pc when the cancellation came

input == <<check, recursive, path, unreadable, tree0>>
loop == <<dirs, d, files>>
cancel == <<ctxDone, cancelledAt>>
vars == <<input, tree, cancel, pc, loop, anyDirty, anyError, printed, exit,
          failed, late>>

Running == 1000
Paths == {"dir", "file", "linkdir", "linkfile", "special", "missing"}
PCs == {"start", "dirs", "load", "file", "print", "write", "rename",
        "single", "exited"}

TypeOK ==
  /\ check \in BOOLEAN /\ recursive \in BOOLEAN /\ path \in Paths
  /\ unreadable \in SUBSET Dirs
  /\ tree \in [Files -> FileState] /\ tree0 \in [Files -> FileState]
  /\ ctxDone \in BOOLEAN /\ pc \in PCs
  /\ dirs \in SUBSET Dirs /\ d \in Dirs /\ files \in SUBSET Files
  /\ anyDirty \in BOOLEAN /\ anyError \in BOOLEAN
  /\ printed \in SUBSET Files
  /\ exit \in {0, 2, 3, 130, Running}
  /\ failed \in SUBSET Files /\ late \in SUBSET Files
  /\ cancelledAt \in PCs \cup {"never", "before"}

Init ==
  /\ check \in BOOLEAN /\ recursive \in BOOLEAN /\ path \in Paths
  /\ unreadable \in Unreadables
  /\ tree \in Trees /\ tree0 = tree
  /\ path \in {"file", "linkfile"} => tree[Single].form # "absent"
  /\ ctxDone \in BOOLEAN
  /\ cancelledAt = IF ctxDone THEN "before" ELSE "never"
  /\ pc = "start"
  /\ dirs = {} /\ d = Root /\ files = {}
  /\ anyDirty = FALSE /\ anyError = FALSE
  /\ printed = {} /\ exit = Running
  /\ failed = {} /\ late = {}

Exit(code) == pc' = "exited" /\ exit' = code
Goto(to) == pc' = to /\ UNCHANGED exit
Dirty(f) == tree[f].form = "dirty"

-----------------------------------------------------------------------------
(* The path.                                                               *)

SingleMode == path \in {"file", "linkfile", "special"}

\* Only a check may follow a link, and only to a regular file.
Refused ==
  \/ path = "missing"
  \/ path = "linkdir"
  \/ path = "linkfile" /\ ~check
  \/ SingleMode /\ recursive

\* The walk itself fails only if the root disappears.
Start ==
  /\ pc = "start"
  /\ \/ ctxDone /\ Exit(130) /\ UNCHANGED dirs
     \/ ~ctxDone /\ Refused /\ Exit(2) /\ UNCHANGED dirs
     \/ ~ctxDone /\ ~Refused /\ SingleMode /\ Goto("single") /\ UNCHANGED dirs
     \/ ~ctxDone /\ path = "dir" /\ recursive /\ Exit(2) /\ UNCHANGED dirs
     \/ /\ ~ctxDone /\ path = "dir"
        /\ dirs' = CollectDirs(recursive, unreadable)
        /\ Goto("dirs")
  /\ UNCHANGED <<input, tree, cancel, d, files, anyDirty, anyError, printed,
                 failed, late>>

-----------------------------------------------------------------------------
(* runFmt on directories.                                                  *)

\* Mutant: exit 3 whenever -check finds dirt, errors or not.
DirtFirst ==
  /\ pc = "dirs" /\ dirs = {}
  /\ Exit(IF check /\ anyDirty THEN 3 ELSE IF anyError THEN 2 ELSE 0)
  /\ UNCHANGED <<input, tree, cancel, loop, anyDirty, anyError, printed,
                 failed, late>>

\* The end of runFmt: the context is not looked at again.
End ==
  /\ pc = "dirs" /\ dirs = {}
  /\ Exit(IF anyError THEN 2 ELSE IF check /\ anyDirty THEN 3 ELSE 0)
  /\ UNCHANGED <<input, tree, cancel, loop, anyDirty, anyError, printed,
                 failed, late>>

NextDir ==
  /\ pc = "dirs" /\ dirs # {}
  /\ \/ ctxDone /\ Exit(130) /\ UNCHANGED <<dirs, d>>
     \/ /\ ~ctxDone
        /\ \E x \in Dirs : First(x, dirs) /\ d' = x /\ dirs' = dirs \ {x}
        /\ Goto("load")
  /\ UNCHANGED <<input, tree, cancel, files, anyDirty, anyError, printed,
                 failed, late>>

\* Mutant: a file that does not parse is left out and forgotten.
IgnoreUnparsed ==
  /\ pc = "load" /\ ~ctxDone
  /\ files' = {f \in Physical(tree, d) : d \notin unreadable /\ Parsed(tree[f])}
  /\ anyError' = (anyError \/ d \in unreadable)
  /\ Goto("file")
  /\ UNCHANGED <<input, tree, cancel, dirs, d, anyDirty, printed, failed, late>>

\* ParseDirForFormat: any parse violation makes the exit code 2.
Load ==
  /\ pc = "load"
  /\ \/ ctxDone /\ Exit(130) /\ UNCHANGED <<files, anyError>>
     \/ /\ ~ctxDone /\ d \in unreadable
        /\ files' = {} /\ anyError' = TRUE
        /\ Goto("file")
     \/ /\ ~ctxDone /\ d \notin unreadable
        /\ files' = {f \in Physical(tree, d) : Parsed(tree[f])}
        /\ anyError' = (anyError \/ files' # Physical(tree, d))
        /\ Goto("file")
  /\ UNCHANGED <<input, tree, cancel, dirs, d, anyDirty, printed, failed, late>>

NextFile ==
  /\ pc = "file"
  /\ \/ /\ files = {}
        /\ Goto("dirs")
        /\ UNCHANGED <<files, anyDirty>>
     \/ /\ files # {} /\ ctxDone
        /\ Exit(130)
        /\ UNCHANGED <<files, anyDirty>>
     \/ /\ files # {} /\ ~ctxDone
        /\ \E f \in files :
             /\ First(f, files)
             /\ \/ ~Dirty(f) /\ files' = files \ {f} /\ Goto("file")
                   /\ UNCHANGED anyDirty
                \/ Dirty(f) /\ anyDirty' = TRUE /\ Goto("print")
                   /\ UNCHANGED files
  /\ UNCHANGED <<input, tree, cancel, dirs, d, anyError, printed, failed, late>>

\* Mutant: without -check only failures are printed.
QuietWrite ==
  /\ pc = "print"
  /\ \E f \in files :
       /\ First(f, files)
       /\ \/ ~check /\ Goto("write") /\ UNCHANGED <<files, printed>>
          \/ /\ check /\ files' = files \ {f} /\ Goto("file")
             /\ printed' = printed \cup {f}
  /\ UNCHANGED <<input, tree, cancel, dirs, d, anyDirty, anyError, failed, late>>

\* The path goes to stdout before WriteFormatted is called.
PrintPath ==
  /\ pc = "print"
  /\ \E f \in files :
       /\ First(f, files)
       /\ printed' = printed \cup {f}
       /\ \/ ~check /\ Goto("write") /\ UNCHANGED files
          \/ check /\ files' = files \ {f} /\ Goto("file")
  /\ UNCHANGED <<input, tree, cancel, dirs, d, anyDirty, anyError, failed, late>>

-----------------------------------------------------------------------------
(* WriteFormatted, called by both.                                         *)

\* The context is looked at once more, then the rewrite is completed.
WriteCheck ==
  /\ pc = "write"
  /\ \/ ctxDone /\ Exit(130)
     \/ ~ctxDone /\ Goto("rename")
  /\ UNCHANGED <<input, tree, cancel, loop, anyDirty, anyError, printed,
                 failed, late>>

Rewritten ==
  /\ pc = "rename"
  /\ \E f \in files :
       /\ First(f, files)
       /\ tree' = [tree EXCEPT ![f] = Reformatted(tree[f])]
       /\ late' = IF ctxDone THEN late \cup {f} ELSE late
       /\ files' = files \ {f}
  /\ IF SingleMode THEN Exit(0) ELSE Goto("file")
  /\ UNCHANGED <<input, cancel, dirs, d, anyDirty, anyError, printed, failed>>

\* Mutant: the first failed rewrite ends the run.
StopAtFailure ==
  /\ pc = "rename"
  /\ \E f \in files :
       /\ First(f, files)
       /\ failed' = failed \cup {f}
       /\ files' = files \ {f}
  /\ anyError' = TRUE
  /\ Exit(2)
  /\ UNCHANGED <<input, tree, cancel, dirs, d, anyDirty, printed, late>>

RewriteFails ==
  /\ pc = "rename"
  /\ \E f \in files :
       /\ First(f, files)
       /\ failed' = failed \cup {f}
       /\ files' = files \ {f}
  /\ anyError' = (anyError \/ ~SingleMode)
  /\ IF SingleMode THEN Exit(2) ELSE Goto("file")
  /\ UNCHANGED <<input, tree, cancel, dirs, d, anyDirty, printed, late>>

-----------------------------------------------------------------------------
(* runFmtFile: one file, of any size.                                      *)

Malformable == tree[Single].form \in {"broken", "syntax"} \/ path = "special"

\* Entry check, the link again, read, parse, compare; with -check the path is
\* printed and the exit code is 3.
SingleFile ==
  /\ pc = "single"
  /\ \/ ctxDone /\ Exit(130) /\ UNCHANGED <<files, printed>>
     \/ ~ctxDone /\ Malformable /\ Exit(2) /\ UNCHANGED <<files, printed>>
     \/ /\ ~ctxDone /\ ~Malformable /\ ~Dirty(Single)
        /\ Exit(0)
        /\ UNCHANGED <<files, printed>>
     \/ /\ ~ctxDone /\ ~Malformable /\ Dirty(Single)
        /\ printed' = {Single}
        /\ \/ check /\ Exit(3) /\ UNCHANGED files
           \/ ~check /\ files' = {Single} /\ Goto("write")
  /\ UNCHANGED <<input, tree, cancel, dirs, d, anyDirty, anyError, failed, late>>

Cancel ==
  /\ ~ctxDone /\ pc # "exited"
  /\ ctxDone' = TRUE
  /\ cancelledAt' = pc
  /\ UNCHANGED <<input, tree, pc, loop, anyDirty, anyError, printed, exit,
                 failed, late>>

Step ==
  \/ Start \/ End \/ NextDir \/ Load \/ NextFile \/ PrintPath \/ WriteCheck
  \/ Rewritten \/ RewriteFails \/ SingleFile

Next == Step \/ Cancel

Spec == Init /\ [][Next]_vars

-----------------------------------------------------------------------------
\* The files the command is asked to format, and whether it can read them.
Wanted ==
  IF SingleMode THEN {Single}
  ELSE {f \in Files : /\ DirOf[f] \in CollectDirs(recursive, unreadable)
                      /\ tree[f].form # "absent"}
Dirty0(f) == tree0[f].form = "dirty"
Readable(f) ==
  IF SingleMode THEN ~Malformable
  ELSE DirOf[f] \notin unreadable /\ Parsed(tree[f])

(* Exit 0 means that every file asked for was read and parsed and is       *)
(* formatted on disk, shadowed ones included, with -check or without.      *)
ZeroMeansFormatted ==
  exit = 0 =>
    /\ \A f \in Wanted : Readable(f) /\ ~Dirty(f)
    /\ ~SingleMode => CollectDirs(recursive, unreadable) \cap unreadable = {}

(* Exit 3 comes only from -check, only when some file is unformatted, and  *)
(* never while another could not be read: that is exit 2.                  *)
ThreeMeansDirt ==
  exit = 3 =>
    /\ check
    /\ \E f \in Wanted : Dirty(f)
    /\ \A f \in Wanted : Readable(f)

(* Only without -check is a file changed on disk, and only from one that   *)
(* was unformatted to its formatted form; it has been named on stdout, at  *)
(* every moment, so also when the run is interrupted.  A finished run      *)
(* without errors has named exactly the files that were unformatted.       *)
RewritesArePrinted ==
  /\ \A f \in Files : tree[f] # tree0[f] =>
       /\ f \in Wanted \cap printed /\ ~check /\ Dirty0(f)
       /\ tree[f] = Reformatted(tree0[f])
  /\ exit \in {0, 3} => printed = {f \in Wanted : Dirty0(f)}

(* One file that cannot be read or rewritten does not keep the others from *)
(* being formatted: when the work on a directory tree ends with exit 2,    *)
(* only files that cannot be read or whose rewrite failed are unformatted. *)
FailuresIsolated ==
  [][exit = Running /\ exit' = 2 /\ pc # "start" /\ path = "dir" /\ ~check
       => \A f \in Wanted : Readable(f) /\ Dirty(f) => f \in failed']_vars

(* After the cancellation at most the rewrite under way is completed: none *)
(* is begun, not even that of a file already printed.                      *)
OneLateWrite ==
  Cardinality(late) <= 1 /\ (late # {} => cancelledAt = "rename")

=============================================================================
