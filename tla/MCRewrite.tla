----------------------------- MODULE MCRewrite -----------------------------
(* Two tfdry processes (say, a pre-commit hook and an editor) and two       *)
(* changes by users: enough for an edit and a swap, for one before and one  *)
(* after each check, and for a temporary file left by a killed process next *)
(* to one in use.                                                           *)
EXTENDS Rewrite
=============================================================================
