---------------------------- MODULE MCParsePool ----------------------------
(* ParsePool under the code's own threshold of four files: listings of zero *)
(* to six entries reach both branches, and Limit = 2 (one processor) makes  *)
(* g.Go block with entries still to come.                                   *)
EXTENDS ParsePool
=============================================================================
