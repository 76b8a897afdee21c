--------------------------- MODULE AtomicReplace ---------------------------
(***************************************************************************)
(* What rewriting a file promises (the comments above writeFormatted and   *)
(* WriteFormatted in checker/format.go): a process that read a dirty file  *)
(* either replaces the directory entry at its path, in one step, by the    *)
(* formatted form of exactly what it read, under a mode some user gave the *)
(* file, and reports success; or it leaves the path alone and reports an   *)
(* error.  Meanwhile users edit, delete and replace the path as they like. *)
(***************************************************************************)
EXTENDS Naturals

CONSTANTS
  Procs,      \* tfdry processes that rewrite the path
  Modes,      \* permission bits users give the file
  MaxEdits    \* how often users change the path

Versions == 0..MaxEdits
Content == [ver : Versions, form : {"raw", "formatted"}]
Raw(v) == [ver |-> v, form |-> "raw"]
Formatted(c) == [ver |-> c.ver, form |-> "formatted"]

VARIABLES
  kind,    \* the entry at the path: "file", "link", "other" or "absent"
  data,    \* what reading the path returns: its bytes, or the link target's
  mode,    \* the permission bits of the file
  edits,   \* how often users have changed the path
  stage,   \* stage[p]: "idle", "busy", "ok", "error", "clean" or "dead"
  src      \* src[p]: the bytes process p read

vars == <<kind, data, mode, edits, stage, src>>

Init ==
  /\ kind \in {"file", "link"}
  /\ data = Raw(0)
  /\ mode \in Modes
  /\ edits = 0
  /\ stage = [p \in Procs |-> "idle"]
  /\ src = [p \in Procs |-> Raw(0)]

Read(p) ==
  /\ stage[p] = "idle"
  /\ src' = [src EXCEPT ![p] = data]
  /\ stage' = [stage EXCEPT ![p] =
                  IF data.form = "formatted" THEN "clean" ELSE "busy"]
  /\ UNCHANGED <<kind, data, mode, edits>>

Commit(p) ==
  /\ stage[p] = "busy"
  /\ stage' = [stage EXCEPT ![p] = "ok"]
  /\ kind' = "file"
  /\ data' = Formatted(src[p])
  /\ mode' \in Modes
  /\ UNCHANGED <<edits, src>>

Abort(p) ==
  /\ stage[p] \in {"idle", "busy"}
  /\ stage' = [stage EXCEPT ![p] = "error"]
  /\ UNCHANGED <<kind, data, mode, edits, src>>

Kill(p) ==
  /\ stage[p] \in {"busy", "error"}
  /\ stage' = [stage EXCEPT ![p] = "dead"]
  /\ UNCHANGED <<kind, data, mode, edits, src>>

Edit ==
  /\ edits < MaxEdits
  /\ edits' = edits + 1
  /\ kind' \in {"file", "link", "other", "absent"}
  /\ data' \in {data, Raw(edits')}
  /\ mode' \in Modes
  /\ UNCHANGED <<stage, src>>

Next ==
  \/ \E p \in Procs : Read(p) \/ Commit(p) \/ Abort(p) \/ Kill(p)
  \/ Edit

Spec == Init /\ [][Next]_vars
=============================================================================
