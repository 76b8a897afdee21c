----------------------------- MODULE Workspace -----------------------------
(***************************************************************************)
(* The tree of directories and files a command works on, and how the code  *)
(* selects and reads its files: collectDirs (main.go), nativeConfigEntries *)
(* and parseOne (checker/hcl.go).                                          *)
(*                                                                         *)
(* Files are numbers in the order of their names, directories numbers in   *)
(* the order WalkDir visits them.  A file's state is what reading, parsing *)
(* and formatting it would show, and what the semantic checks find in it.  *)
(***************************************************************************)
EXTENDS Naturals, FiniteSets

CONSTANTS
  Files, Dirs,  \* the files and directories that may exist
  Root,         \* the directory named on the command line
  DirOf,        \* DirOf[f]: the directory of file f
  PeerOf,       \* PeerOf[f]: the .tofu file whose base name the .tf file f has
  Above,        \* Above[d]: the directories above d, up to Root
  Hidden,       \* dot-directories and node_modules
  Codes,        \* the codes of AllChecks
  Trees,        \* the contents of the tree a command may find
  Unreadables   \* the sets of directories that may be unreadable

NoFile == 0
SemanticCodes == Codes \ {"E001", "E008"}

FileState ==
  [form : {"absent", "broken", "syntax", "clean", "dirty"},
   big : BOOLEAN,                    \* over maxFileSize
   issues : SUBSET SemanticCodes]

ASSUME WorkspaceAssumption ==
  /\ Files \subseteq Nat \ {NoFile} /\ IsFiniteSet(Files)
  /\ Dirs \subseteq Nat /\ IsFiniteSet(Dirs) /\ Root \in Dirs
  /\ DirOf \in [Files -> Dirs]
  /\ PeerOf \in [Files -> Files \cup {NoFile}]
  /\ Above \in [Dirs -> SUBSET Dirs] /\ Above[Root] = {}
  /\ Hidden \subseteq Dirs \ {Root}
  /\ {"E001", "E008"} \subseteq Codes /\ "E000" \notin Codes
  /\ Trees \subseteq [Files -> FileState]
  /\ Unreadables \subseteq SUBSET Dirs

\* collectDirs: hidden directories and what is below them are skipped; a
\* directory that cannot be read is kept, for the load to report, but what is
\* below it is never found.
CollectDirs(recursive, unreadable) ==
  IF recursive
  THEN {d \in Dirs : /\ ({d} \cup Above[d]) \cap Hidden = {}
                     /\ Above[d] \cap unreadable = {}}
  ELSE {Root}

\* allNativeConfigEntries: every .tf and .tofu file.
Physical(tree, dir) ==
  {f \in Files : DirOf[f] = dir /\ tree[f].form # "absent"}

\* nativeConfigEntries: main.tofu shadows main.tf, whatever is in it.
Semantic(tree, dir) ==
  {f \in Physical(tree, dir) : PeerOf[f] \notin Physical(tree, dir)}

\* parseOne: E000 for a file that cannot be opened, is not regular or is over
\* the limit, E001 for one that does not parse.
Unusable(s) == s.big \/ s.form = "broken"
Malformed(s) == ~s.big /\ s.form = "syntax"
Parsed(s) == ~s.big /\ s.form \in {"clean", "dirty"}

\* What a rewrite installs.
Reformatted(s) == [s EXCEPT !.form = "clean"]

\* The range loops take directories and files in order.
First(x, set) == x \in set /\ \A y \in set : x <= y
=============================================================================
