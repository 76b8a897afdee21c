------------------------------ MODULE MCFmtRun -----------------------------
(* A root with main.tf (1), main.tofu (2) and other.tf (3), a subdirectory  *)
(* with one file (4) and a hidden one with a file no run may touch (5).     *)
(* The path may also name other.tf alone.  Two rewrites that fail or are    *)
(* interrupted fit into the root, a third file follows in another directory.*)
EXTENDS FmtRun

MCFiles == 1..5
MCDirs == 1..3
MCDirOf == <<1, 1, 1, 2, 3>>
MCAbove == <<{}, {1}, {1}>>
MCPeerOf == <<2, 0, 0, 0, 0>>

File(form) == [form |-> form, big |-> FALSE, issues |-> {}]
Big(form) == [form |-> form, big |-> TRUE, issues |-> {}]

MCTrees ==
  {<<a, b, c, e, File("dirty")>> :
     a \in {File("absent"), File("syntax"), File("dirty")},
     b \in {File("absent"), File("broken"), File("dirty"), File("clean")},
     c \in {File("absent"), File("clean"), File("syntax"), File("dirty"),
            Big("dirty"), File("broken")},
     e \in {File("clean"), File("dirty")}}
=============================================================================
