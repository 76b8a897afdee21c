------------------------------ MODULE Rewrite ------------------------------
(***************************************************************************)
(* Rewriting one dirty file, system call by system call: the read of       *)
(* parseOne (checker/hcl.go) or readRegularFile (main.go), the dirtiness   *)
(* test of FixFormat and runFmt, and writeFormatted (checker/format.go).   *)
(* Several tfdry processes work on the same path, users change the path    *)
(* between any two system calls, any call may fail, and a process may be   *)
(* killed at any point.                                                    *)
(*                                                                         *)
(* The file system is outside src/ and appears as its calls behave: rename *)
(* replaces the directory entry atomically and never follows a link;       *)
(* CreateTemp picks a name nobody uses and gives it mode 0600; a handle    *)
(* opened O_NOFOLLOW is never a link.  Bytes are abstracted to the version *)
(* a user wrote and whether it is formatted; formatting loses nothing else.*)
(***************************************************************************)
EXTENDS Naturals, FiniteSets

CONSTANTS
  Procs,      \* tfdry processes that rewrite the path
  Names,      \* names CreateTemp can draw
  Modes,      \* permission bits users give the file
  MaxEdits    \* how often users change the path

ASSUME RewriteAssumption ==
  /\ IsFiniteSet(Procs) /\ IsFiniteSet(Names)
  /\ Cardinality(Procs) <= Cardinality(Names)
  /\ "none" \notin Names
  /\ Modes # {}
  /\ MaxEdits \in Nat

Versions == 0..MaxEdits
Content == [ver : Versions, form : {"raw", "formatted"}]
Raw(v) == [ver |-> v, form |-> "raw"]
Formatted(c) == [ver |-> c.ver, form |-> "formatted"]

NoTemp == [ver |-> 0, form |-> "absent"]    \* no file under this name
Partial == [ver |-> 0, form |-> "partial"]  \* empty or half-written
TempMode == "0600"                          \* as CreateTemp makes it
NoName == "none"

VARIABLES
  kind,      \* the entry at the path: "file", "link", "other" or "absent"
  data,      \* what reading the path returns: its bytes, or the link target's
  mode,      \* the permission bits of the file
  edits,     \* how often users have changed the path
  temps,     \* temps[x]: the bytes of the temporary file named x, or NoTemp
  tempMode,  \* its permission bits
  pc,        \* pc[p]: the next system call of process p
  src,       \* src[p]: the bytes p read
  perm,      \* perm[p]: the permission bits p saw on the open handle
  name,      \* name[p]: p's temporary file
  result,    \* result[p]: "none", "clean", "ok", "error"
  stuck,     \* the processes whose os.Remove of their temporary file failed
  readAt,    \* history: the value of edits when p read the file
  checkedAt, \* history: the value of edits at p's last Lstat
  blind      \* history: the processes whose last Lstat failed

disk == <<kind, data, mode, edits>>
temp == <<temps, tempMode>>
history == <<readAt, checkedAt, blind>>
vars == <<disk, temp, pc, src, perm, name, result, stuck, history>>

PCs == {"read", "lstat", "open", "create", "write", "chmod", "check",
        "rename", "cleanup", "done", "killed"}

TypeOK ==
  /\ kind \in {"file", "link", "other", "absent"}
  /\ data \in Content \cup {NoTemp, Partial}
  /\ mode \in Modes
  /\ edits \in 0..MaxEdits
  /\ temps \in [Names -> Content \cup {NoTemp, Partial}]
  /\ tempMode \in [Names -> Modes \cup {TempMode}]
  /\ pc \in [Procs -> PCs]
  /\ src \in [Procs -> Content]
  /\ perm \in [Procs -> Modes]
  /\ name \in [Procs -> Names \cup {NoName}]
  /\ result \in [Procs -> {"none", "clean", "ok", "error"}]
  /\ stuck \in SUBSET Procs
  /\ readAt \in [Procs -> 0..MaxEdits]
  /\ checkedAt \in [Procs -> 0..MaxEdits]
  /\ blind \in SUBSET Procs

Init ==
  /\ kind \in {"file", "link"}
  /\ data = Raw(0)
  /\ mode \in Modes
  /\ edits = 0
  /\ temps = [x \in Names |-> NoTemp]
  /\ tempMode = [x \in Names |-> TempMode]
  /\ pc = [p \in Procs |-> "read"]
  /\ src = [p \in Procs |-> Raw(0)]
  /\ perm = [p \in Procs |-> mode]
  /\ name = [p \in Procs |-> NoName]
  /\ result = [p \in Procs |-> "none"]
  /\ stuck = {}
  /\ readAt = [p \in Procs |-> 0]
  /\ checkedAt = [p \in Procs |-> 0]
  /\ blind = {}

Goto(p, to) == pc' = [pc EXCEPT ![p] = to]
Finish(p, r) == Goto(p, "done") /\ result' = [result EXCEPT ![p] = r]
Fail(p) == Goto(p, "cleanup") /\ result' = [result EXCEPT ![p] = "error"]

-----------------------------------------------------------------------------
(* The callers: read the bytes, keep them, find them dirty.                *)

\* Reading follows a link to a regular file; a clean file is left alone.
Read(p) ==
  /\ pc[p] = "read"
  /\ kind \in {"file", "link"}
  /\ src' = [src EXCEPT ![p] = data]
  /\ readAt' = [readAt EXCEPT ![p] = edits]
  /\ IF data.form = "formatted"
     THEN Finish(p, "clean")
     ELSE Goto(p, "lstat") /\ UNCHANGED result
  /\ UNCHANGED <<disk, temp, perm, name, stuck, checkedAt, blind>>

\* The context is cancelled: WriteFormatted and FixFormat look at it before
\* they begin, and no later.
Interrupted(p) ==
  /\ pc[p] = "lstat"
  /\ Finish(p, "error")
  /\ UNCHANGED <<disk, temp, src, perm, name, stuck, history>>

-----------------------------------------------------------------------------
(* writeFormatted.                                                         *)

Lstat(p) ==
  /\ pc[p] = "lstat"
  /\ IF kind = "file"
     THEN Goto(p, "open") /\ UNCHANGED result
     ELSE Finish(p, "error")
  /\ UNCHANGED <<disk, temp, src, perm, name, stuck, history>>

\* OpenFile with O_NOFOLLOW, then Stat on the handle: both see one inode.
Open(p) ==
  /\ pc[p] = "open"
  /\ \/ /\ kind = "file"
        /\ perm' = [perm EXCEPT ![p] = mode]
        /\ Goto(p, "create")
        /\ UNCHANGED result
     \/ /\ kind # "file"
        /\ Finish(p, "error")
        /\ UNCHANGED perm
  /\ UNCHANGED <<disk, temp, src, name, stuck, history>>

\* Mutant: a fixed temporary name, truncated if it exists.
FixedName(p) ==
  /\ pc[p] = "create"
  /\ LET x == CHOOSE y \in Names : TRUE IN
       /\ name' = [name EXCEPT ![p] = x]
       /\ temps' = [temps EXCEPT ![x] = Partial]
       /\ tempMode' = [tempMode EXCEPT ![x] = TempMode]
  /\ Goto(p, "write")
  /\ UNCHANGED <<disk, src, perm, result, stuck, history>>

CreateTemp(p) ==
  /\ pc[p] = "create"
  /\ \E x \in Names :
       /\ temps[x] = NoTemp
       /\ name' = [name EXCEPT ![p] = x]
       /\ temps' = [temps EXCEPT ![x] = Partial]
       /\ tempMode' = [tempMode EXCEPT ![x] = TempMode]
  /\ Goto(p, "write")
  /\ UNCHANGED <<disk, src, perm, result, stuck, history>>

\* Mutant: the bytes written are those at the path now, formatted, not those
\* that were read and parsed.
WriteCurrent(p) ==
  /\ pc[p] = "write"
  /\ temps' = [temps EXCEPT ![name[p]] = Formatted(data)]
  /\ Goto(p, "chmod")
  /\ UNCHANGED <<disk, tempMode, src, perm, name, result, stuck, history>>

Write(p) ==
  /\ pc[p] = "write"
  /\ temps' = [temps EXCEPT ![name[p]] = Formatted(src[p])]
  /\ Goto(p, "chmod")
  /\ UNCHANGED <<disk, tempMode, src, perm, name, result, stuck, history>>

\* Mutant: the temporary file keeps the mode CreateTemp gave it.
NoChmod(p) ==
  /\ pc[p] = "chmod"
  /\ Goto(p, "check")
  /\ UNCHANGED <<disk, temp, src, perm, name, result, stuck, history>>

\* Close, then Chmod to the bits seen on the handle.
Chmod(p) ==
  /\ pc[p] = "chmod"
  /\ tempMode' = [tempMode EXCEPT ![name[p]] = perm[p]]
  /\ Goto(p, "check")
  /\ UNCHANGED <<disk, temps, src, perm, name, result, stuck, history>>

\* Mutant: no second look at the path.
NoRecheck(p) ==
  /\ pc[p] = "check"
  /\ checkedAt' = [checkedAt EXCEPT ![p] = edits]
  /\ Goto(p, "rename")
  /\ UNCHANGED <<disk, temp, src, perm, name, result, stuck, readAt, blind>>

\* The final Lstat.  Only an answer that shows something else than a regular
\* file stops the rewrite.  Every error of the call is ignored: the path may
\* have been deleted (Rename creates it again), or the call failed for a
\* reason of its own and Rename replaces whatever stands there.
Recheck(p) ==
  /\ pc[p] = "check"
  /\ checkedAt' = [checkedAt EXCEPT ![p] = edits]
  /\ \/ kind \in {"link", "other"} /\ Fail(p) /\ UNCHANGED blind
     \/ /\ \/ kind \in {"file", "absent"} /\ UNCHANGED blind
           \/ blind' = blind \cup {p}
        /\ Goto(p, "rename")
        /\ UNCHANGED result
  /\ UNCHANGED <<disk, temp, src, perm, name, stuck, readAt>>

Rename(p) ==
  /\ pc[p] = "rename"
  /\ temps[name[p]] # NoTemp
  /\ kind' = "file"
  /\ data' = temps[name[p]]
  /\ mode' = tempMode[name[p]]
  /\ temps' = [temps EXCEPT ![name[p]] = NoTemp]
  /\ Finish(p, "ok")
  /\ UNCHANGED <<edits, tempMode, src, perm, name, stuck, history>>

\* Mutant: only a failed write reaps the temporary file.
ForgetTemp(p) ==
  /\ \/ /\ pc[p] \in {"read", "lstat", "open", "create", "chmod", "rename"}
        /\ Finish(p, "error")
     \/ /\ pc[p] = "write"
        /\ Fail(p)
  /\ UNCHANGED <<disk, temp, src, perm, name, stuck, history>>

\* A system call fails (the final Lstat: see Recheck; Remove: see Cleanup).
\* Once the temporary file exists the deferred function closes and removes it.
CallFails(p) ==
  /\ \/ /\ pc[p] \in {"read", "lstat", "open", "create"}
        /\ Finish(p, "error")
     \/ /\ pc[p] \in {"write", "chmod", "rename"}
        /\ Fail(p)
  /\ UNCHANGED <<disk, temp, src, perm, name, stuck, history>>

\* The error of os.Remove is ignored.
Cleanup(p) ==
  /\ pc[p] = "cleanup"
  /\ Goto(p, "done")
  /\ \/ /\ temps' = [temps EXCEPT ![name[p]] = NoTemp]
        /\ UNCHANGED stuck
     \/ /\ stuck' = stuck \cup {p}
        /\ UNCHANGED temps
  /\ UNCHANGED <<disk, tempMode, src, perm, name, result, history>>

-----------------------------------------------------------------------------
(* The rest of the world.                                                  *)

\* SIGKILL: the process stops between two calls and its files stay.
Kill(p) ==
  /\ pc[p] \notin {"read", "done", "killed"}
  /\ Goto(p, "killed")
  /\ UNCHANGED <<disk, temp, src, perm, name, result, stuck, history>>

\* A user saves the file, creates it again or replaces a link by a file.
UserSaves ==
  /\ edits < MaxEdits
  /\ edits' = edits + 1
  /\ kind' = "file"
  /\ data' = Raw(edits')
  /\ mode' \in Modes
  /\ UNCHANGED <<temp, pc, src, perm, name, result, stuck, history>>

\* A user deletes the path or puts a link, a directory or a FIFO there.
UserReplaces ==
  /\ edits < MaxEdits
  /\ edits' = edits + 1
  /\ kind' \in {"link", "other", "absent"}
  /\ UNCHANGED <<data, mode, temp, pc, src, perm, name, result, stuck, history>>

Step(p) ==
  \/ Read(p) \/ Interrupted(p) \/ Lstat(p) \/ Open(p) \/ CreateTemp(p)
  \/ Write(p) \/ Chmod(p) \/ Recheck(p) \/ Rename(p) \/ CallFails(p)
  \/ Cleanup(p) \/ Kill(p)

Next ==
  \/ \E p \in Procs : Step(p)
  \/ UserSaves
  \/ UserReplaces

Spec == Init /\ [][Next]_vars

-----------------------------------------------------------------------------
\* The step in which p's file appears at the path.
Installs(p) == pc[p] = "rename" /\ pc'[p] = "done"

(* What a reader of the path sees is never an empty or half-written file,  *)
(* whoever else works on it and wherever a process fails or is killed.     *)
WholeFile == data \in Content

(* No process that ran to its end leaves its temporary file behind, on any *)
(* error path, unless removing it failed.                                  *)
TempReaped ==
  \A p \in Procs :
    pc[p] = "done" /\ name[p] # NoName /\ p \notin stuck
      => temps[name[p]] = NoTemp \/ \E q \in Procs \ {p} : name[q] = name[p]

(* A link, directory or FIFO that stood at the path when writeFormatted    *)
(* looked at it for the last time is never replaced, wherever a user put   *)
(* it there and whatever other processes did: only a swap between that     *)
(* Lstat and the Rename can be lost, or one which that Lstat did not see   *)
(* because it failed (format.go:251 goes on to Rename on every error).     *)
SeenSwapRefused ==
  [][\A p \in Procs :
       Installs(p) /\ kind \in {"link", "other"}
         => checkedAt[p] < edits \/ p \in blind]_vars

(* Two tfdry processes never lose a user's edit between them: a Rename     *)
(* puts an older version at the path only if a user saved it again after   *)
(* that process had read it (such an edit is lost: the code has no guard). *)
OnlyRacedEditsLost ==
  [][\A p \in Procs :
       Installs(p) => readAt[p] < edits \/ data.ver <= data'.ver]_vars

(* A rewrite keeps the permission bits of the file, whatever mode the      *)
(* temporary file was created with and however two rewrites overlap,       *)
(* unless a user changed the path after one of them had read it.           *)
ModeKept ==
  [][\A p \in Procs :
       Installs(p) =>
         \/ mode' = mode
         \/ \E q \in Procs : name[q] # NoName /\ readAt[q] < edits]_vars

(* writeFormatted is an atomic replacement.                                *)
Stage == [p \in Procs |->
  CASE pc[p] = "read" -> "idle"
    [] pc[p] = "killed" -> "dead"
    [] pc[p] = "cleanup" -> "error"
    [] pc[p] = "done" -> result[p]
    [] OTHER -> "busy"]

Promise == INSTANCE AtomicReplace WITH stage <- Stage

ReplacesAtomically == Promise!Spec
=============================================================================
