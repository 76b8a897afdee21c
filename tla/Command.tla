------------------------------ MODULE Command ------------------------------
(***************************************************************************)
(* run from the command line to the exit code: the arguments are read      *)
(* (CliArgs), the command writes its output, and the exit code tells       *)
(* whether it could.  What lint and fmt do in between is in LintRun and    *)
(* FmtRun; here a lint ends with texts of any kind for its report, any     *)
(* number of violations of any severities, and fmt with any of its codes.  *)
(***************************************************************************)
EXTENDS CliArgs, Report

CONSTANT Counts   \* the numbers of violations a run may find

CommandAssumption == Counts \subseteq 0..Half - 1
ASSUME CommandAssumption

VARIABLES
  pc,     \* "read", "report", "write", "check", "exited"
  json,   \* jsonFlag, once the arguments have been read
  fixed,  \* the report has fixed files
  severities,   \* of the violations; E000 is apart
  writer,       \* through what the output went to stdout
  wrote,        \* what came of it
  exit

outcome == <<writer, wrote, exit>>
vars == <<cli, report, pc, json, fixed, severities, outcome>>

Severities == {"error", "warning", "E000", "unknown"}
None == 1000

\* A write takes everything, takes less without an error, as "real
\* implementations sometimes" do (format.go 173-177), or fails.
Outcomes == {"whole", "short", "failed"}

\* The error a write reports: bytes.Buffer.WriteTo compares the count,
\* json.Encoder.Encode and io.WriteString leave that to their caller.
WriteErr(through, came) ==
  \/ came = "failed"
  \/ came = "short" /\ through = "buffer"

ReadArgs == pc = "read" /\ CliNext /\ UNCHANGED <<report, pc, json, fixed, severities, outcome>>

UsageError ==
  /\ pc = "read" /\ decision = Usage
  /\ pc' = "exited" /\ exit' = 2
  /\ UNCHANGED <<cli, report, json, fixed, severities, writer, wrote>>

WriteThrough(through) ==
  /\ writer' = through /\ wrote' \in Outcomes
  /\ pc' = "check" /\ UNCHANGED exit

\* mutant: stdout.Write(b.Bytes()), as runDescribe once had it
WriteBytes ==
  /\ pc = "read" /\ decision.kind \in {"version", "help", "describe"}
  /\ WriteThrough(IF decision.kind = "describe" /\ decision.json THEN "encoder" ELSE "bytes")
  /\ UNCHANGED <<cli, report, json, fixed, severities>>

\* printVersion, printUsage, runDescribe
WriteOut ==
  /\ pc = "read" /\ decision.kind \in {"version", "help", "describe"}
  /\ WriteThrough(IF decision.kind = "describe" /\ decision.json THEN "encoder" ELSE "buffer")
  /\ UNCHANGED <<cli, report, json, fixed, severities>>

\* fmt prints paths line by line, if any, without looking what came of it; with
\* -check, exit code 3 means that there was one.
RunFmt ==
  /\ pc = "read" /\ decision.kind = "fmt"
  /\ pc' = "exited"
  /\ exit' \in {0, 2, 130} \cup (IF decision.check THEN {3} ELSE {})
  /\ \/ exit' # 3 /\ UNCHANGED <<writer, wrote>>
     \/ writer' = "lines" /\ wrote' \in Outcomes
  /\ UNCHANGED <<cli, report, json, fixed, severities>>

\* A lint that a fatal error or a signal stops writes no report.
LintStops ==
  /\ pc = "read" /\ decision.kind = "lint"
  /\ pc' = "exited" /\ exit' \in {2, 130}
  /\ UNCHANGED <<cli, report, json, fixed, severities, writer, wrote>>

\* NewReportWithFixedFiles; files are fixed only where E008 is enabled
\* (main.go 291-292), and the arguments are no longer needed.
BeginReport ==
  /\ pc = "read" /\ decision.kind = "lint"
  /\ pc' = "report" /\ json' = decision.json /\ decision' = Begun
  /\ fixed' \in (IF decision.fix /\ (decision.codes = {} \/ "E008" \in decision.codes)
                 THEN BOOLEAN ELSE {FALSE})
  /\ args' = << >> /\ at' = 1
  /\ flags' = {} /\ checksFilter' = {} /\ dir' = "." /\ dirSet' = FALSE /\ subcmd' = ""
  /\ UNCHANGED <<report, severities, outcome>>

Sanitize ==
  /\ pc = "report"
  /\ EndText \/ \E r \in Runes : Read(r)
  /\ UNCHANGED <<cli, pc, json, fixed, severities, outcome>>

EndReport ==
  /\ pc = "report" /\ raw = << >>
  /\ pc' = "write"
  /\ UNCHANGED <<cli, report, json, fixed, severities, outcome>>

\* WriteJSON or WriteHuman, which needs no buffer if it has nothing to list
WriteReport ==
  /\ pc = "write"
  /\ \E n \in Counts, found \in SUBSET Severities :
       /\ n = 0 <=> found = {}
       /\ severities' = found
       /\ \/ json /\ WriteThrough("encoder") /\ UNCHANGED report
          \/ ~json /\ ~(n > 0 \/ fixed) /\ WriteThrough("string") /\ UNCHANGED report
          \/ ~json /\ (n > 0 \/ fixed) /\ WriteThrough("buffer") /\ Grow(n)
  /\ UNCHANGED <<cli, json, fixed>>

\* The summary and the routing at the end of run
ExitCode(found) ==
  IF "E000" \in found THEN 2 ELSE IF found \cap {"error", "unknown"} # {} THEN 1 ELSE 0

CheckWrite ==
  /\ pc = "check"
  /\ pc' = "exited"
  /\ exit' = IF WriteErr(writer, wrote) THEN 2
             ELSE IF decision = Begun THEN ExitCode(severities) ELSE 0
  /\ UNCHANGED <<cli, report, json, fixed, severities, writer, wrote>>

Init ==
  /\ CliInit /\ ReportInit
  /\ pc = "read" /\ json = FALSE /\ fixed = FALSE /\ severities = {}
  /\ writer = "none" /\ wrote = "none" /\ exit = None

Next ==
  \/ ReadArgs \/ UsageError \/ WriteOut \/ RunFmt \/ LintStops
  \/ BeginReport \/ Sanitize \/ EndReport \/ WriteReport \/ CheckWrite

Spec == Init /\ [][Next]_vars

\* The outputs whose length nobody checks: JSON, and the one line of a lint
\* that found nothing and fixed nothing.
Unguarded ==
  \/ decision.kind = "describe" /\ decision.json
  \/ decision = Begun /\ json
  \/ decision = Begun /\ severities = {} /\ ~fixed

\* A verdict is given only with its output (main.go 122-140): exit codes 0 and 1
\* mean that stdout took the output in full, whatever came of each write on any
\* path, that no E000 is in it, and for 0 that nothing but warnings is, a
\* severity nobody knows counting as an error.  Excepted are fmt's paths, and
\* an unguarded output that is cut short without an error.
VerdictDelivered ==
  exit \in {0, 1} =>
    /\ decision # Usage /\ "E000" \notin severities
    /\ exit = 0 => severities \subseteq {"warning"}
    /\ \/ wrote = "whole" \/ decision.kind = "fmt"
       \/ wrote = "short" /\ Unguarded

\* What run's comment says without exception (main.go 122-140): stdout
\* failures, short writes included, are tool errors, so no other exit code
\* follows one.
FailedWritesReported == exit \in {0, 1, 3} => wrote \notin {"short", "failed"}
=============================================================================
