----------------------------- MODULE PowerLoss -----------------------------
(***************************************************************************)
(* Rewrite on a machine that can lose power.  The bytes of a write reach   *)
(* the disk some time later, and the directory entry a rename changes may  *)
(* reach it first: POSIX orders the two only when the program calls fsync, *)
(* and writeFormatted does not.  Users' own saves are taken to be durable. *)
(***************************************************************************)
EXTENDS Rewrite

VARIABLES
  volatile,      \* the temporary files whose bytes are not on disk yet
  pathVolatile   \* are the bytes at the path only in memory?

powerVars == <<vars, volatile, pathVolatile>>

PowerInit == Init /\ volatile = {} /\ pathVolatile = FALSE

BufferedWrite(p) ==
  /\ Write(p)
  /\ volatile' = volatile \cup {name[p]}
  /\ UNCHANGED pathVolatile

JournalledRename(p) ==
  /\ Rename(p)
  /\ pathVolatile' = (name[p] \in volatile)
  /\ volatile' = volatile \ {name[p]}

NoDiskWrite(p) ==
  /\ \/ Read(p) \/ Interrupted(p) \/ Lstat(p) \/ Open(p) \/ CreateTemp(p)
     \/ Chmod(p) \/ Recheck(p) \/ CallFails(p) \/ Cleanup(p) \/ Kill(p)
  /\ UNCHANGED <<volatile, pathVolatile>>

\* The kernel writes its buffers back.
Flush ==
  /\ volatile # {} \/ pathVolatile
  /\ volatile' = {}
  /\ pathVolatile' = FALSE
  /\ UNCHANGED vars

\* Every process dies, and bytes that were only in memory are gone.
PowerFail ==
  /\ pc' = [p \in Procs |-> "killed"]
  /\ data' = IF pathVolatile THEN Partial ELSE data
  /\ temps' = [x \in Names |-> IF x \in volatile THEN Partial ELSE temps[x]]
  /\ volatile' = {}
  /\ pathVolatile' = FALSE
  /\ UNCHANGED <<kind, mode, edits, tempMode, src, perm, name, result, stuck,
                 history>>

Save ==
  /\ UserSaves \/ UserReplaces
  /\ pathVolatile' = FALSE
  /\ UNCHANGED volatile

PowerNext ==
  \/ \E p \in Procs : BufferedWrite(p) \/ JournalledRename(p) \/ NoDiskWrite(p)
  \/ Flush \/ PowerFail \/ Save

PowerSpec == PowerInit /\ [][PowerNext]_powerVars

(* The comment above writeFormatted: "a power loss or SIGKILL mid-write    *)
(* leaves either the original content or the formatted content, never a    *)
(* truncated-and-empty .tf file".                                          *)
WholeAfterPowerLoss == kind = "file" => data \in Content
=============================================================================
