----------------------------- MODULE MCLintRun -----------------------------
(* A root with main.tf (1), main.tofu (2) and other.tf (3), a subdirectory  *)
(* with one file (4) and a hidden one with a file no run may touch (5).     *)
(* Each file takes the forms that matter where it is: a broken or an        *)
(* unformatted file under a shadow, an oversize or broken authoritative     *)
(* one, errors and warnings next to formatting.  The filters are no         *)
(* --checks, one without E008, only E008, both, and a parse code alone.     *)
EXTENDS LintRun

MCFiles == 1..5
MCDirs == 1..3
MCDirOf == <<1, 1, 1, 2, 3>>
MCAbove == <<{}, {1}, {1}>>
MCPeerOf == <<2, 0, 0, 0, 0>>

File(form, issues) == [form |-> form, big |-> FALSE, issues |-> issues]
Absent == File("absent", {})

MCTrees ==
  {<<a, b, c, e, File("dirty", {"E003"})>> :
     a \in {Absent, File("syntax", {}), File("dirty", {"E003"})},
     b \in {Absent, [File("dirty", {}) EXCEPT !.big = TRUE], File("dirty", {}),
            File("clean", {"W001"})},
     c \in {File("broken", {}), File("syntax", {}), File("dirty", {"E003"}),
            File("dirty", {"W001"})},
     e \in {File("clean", {"E003"}), File("dirty", {})}}

MCFilters == {{}, {"E003"}, {"E008"}, {"E003", "E008"}, {"E001"}}

\* For the order of the report: one directory, two files.
OrderTrees ==
  {<<Absent, Absent, File("dirty", {"E003"}),
     Absent, Absent>>}
=============================================================================
