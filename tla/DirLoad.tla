------------------------------ MODULE DirLoad ------------------------------
(***************************************************************************)
(* What a directory load promises its caller (checker/hcl.go, the contract *)
(* written above ParseDir): the entries of one directory are listed, each  *)
(* is parsed at most once, and the call ends in one of two ways.  It ends  *)
(* "complete", and then every listed entry has its own result (or the      *)
(* directory could not be listed at all); or it ends "cancelled", and then *)
(* the caller's context really was cancelled.  Nothing is added to the     *)
(* results once the call has ended.                                        *)
(***************************************************************************)
EXTENDS Integers

CONSTANT MaxEntries   \* most native-HCL entries one directory holds

Slots == 1..MaxEntries
Unlisted == -1        \* the directory has not been read yet

VARIABLES
  cancelled,   \* the caller's context
  size,        \* how many entries the listing selected, or Unlisted
  loaded,      \* the entries whose result is in their own slot
  outcome      \* "pending", "complete" or "cancelled"

vars == <<cancelled, size, loaded, outcome>>

Init ==
  /\ cancelled \in BOOLEAN
  /\ size = Unlisted
  /\ loaded = {}
  /\ outcome = "pending"

Cancel ==
  /\ ~cancelled
  /\ cancelled' = TRUE
  /\ UNCHANGED <<size, loaded, outcome>>

List ==
  /\ outcome = "pending"
  /\ size = Unlisted
  /\ size' \in 0..MaxEntries
  /\ UNCHANGED <<cancelled, loaded, outcome>>

Load(i) ==
  /\ outcome = "pending"
  /\ i \in 1..size
  /\ i \notin loaded
  /\ loaded' = loaded \cup {i}
  /\ UNCHANGED <<cancelled, size, outcome>>

Complete ==
  /\ outcome = "pending"
  /\ \A i \in 1..size : i \in loaded
  /\ outcome' = "complete"
  /\ UNCHANGED <<cancelled, size, loaded>>

GiveUp ==
  /\ outcome = "pending"
  /\ cancelled
  /\ outcome' = "cancelled"
  /\ UNCHANGED <<cancelled, size, loaded>>

Next ==
  \/ Cancel
  \/ List
  \/ \E i \in Slots : Load(i)
  \/ Complete
  \/ GiveUp

Spec == Init /\ [][Next]_vars
=============================================================================
