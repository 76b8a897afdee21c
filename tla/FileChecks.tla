----------------------------- MODULE FileChecks -----------------------------
(* The checks of Run (checker/checks.go 160-255): the expression walk, the *)
(* module blocks' inputs, the values.  Run goes from one to the next file  *)
(* by file; here the walk has all files and the others one, after it, for  *)
(* nothing but the table of locals passes between them, and their          *)
(* violations go to one list.                                              *)
EXTENDS ModuleInputs, FamilyChecks, ScopeWalk

InputsChecked == at > Len(blocks)

FileInit == WalkInit /\ Init /\ FamilyInit
FileNext ==
  \/ WalkNext /\ UNCHANGED <<vars, familyVars>>
  \/ done /\ Next /\ UNCHANGED <<walkVars, familyVars>>
  \/ done /\ InputsChecked /\ FamilyNext /\ UNCHANGED <<walkVars, vars>>
FileSpec == FileInit /\ [][FileNext]_<<walkVars, vars, familyVars>>
=============================================================================
