----------------------------- MODULE MCCommand -----------------------------
(* Every list of up to four arguments, the texts of a report rune by rune, *)
(* and an 8-bit int.                                                       *)
EXTENDS Command

MCCodesOf ==
  [a \in {"--checks=", "--checks=E001", "--checks=E003,E008", "--checks=E100"} |->
     CASE a = "--checks=" -> {}
       [] a = "--checks=E001" -> {"E001"}
       [] a = "--checks=E003,E008" -> {"E003", "E008"}
       [] a = "--checks=E100" -> {"E100"}]

MCArgs == Subcommands \cup DOMAIN MCCodesOf
            \cup {"--json", "--fix", "-check", "-r", "--help", "-v", "-x", "infra", "modules"}
MCCommandLines == UNION {[1..n -> MCArgs] : n \in 0..4}
MCCounts == 0..Half - 1

\* For the runs of a comment's claim: no more than one argument
MCShortLines == {<< >>} \cup {<<a>> : a \in MCArgs}
=============================================================================
