------------------------------ MODULE CliArgs ------------------------------
(***************************************************************************)
(* The command line as run reads it (main.go 148-285): a first look for    *)
(* --help and --version, then one argument after the other, then the       *)
(* guards that refuse flags a subcommand does not know, then the command.  *)
(*                                                                         *)
(* --checks=CODES stands for its codes after splitting and trimming.       *)
(***************************************************************************)
EXTENDS Naturals, Sequences

CONSTANTS
  Arguments,      \* what a user may type
  CommandLines,   \* lists of arguments
  CodesOf,        \* for each --checks= argument, its codes
  KnownCodes,     \* the codes of AllChecks
  UnknownFlags    \* other arguments that start with "-"

VersionArgs == {"--version", "-v"}
HelpArgs == {"--help", "-h"}
CheckArgs == {"-check", "--check"}
RecursiveArgs == {"-recursive", "--recursive", "-r"}
Flags == {"--json", "--fix"} \cup CheckArgs \cup RecursiveArgs
Subcommands == {"describe", "version", "fmt", "help"}
Known == Flags \cup Subcommands \cup DOMAIN CodesOf \cup UnknownFlags
Positional(a) == a \notin Known

\* The kinds of argument exclude each other.
CliAssumption ==
  /\ CommandLines \subseteq Seq(Arguments)
  /\ DOMAIN CodesOf \cap (Flags \cup Subcommands) = {}
  /\ UnknownFlags \cap (Flags \cup Subcommands \cup DOMAIN CodesOf) = {}
ASSUME CliAssumption

VARIABLES
  args,      \* what was typed
  at,        \* the position of the next argument to read
  flags,     \* jsonFlag, fixFlag, fmtCheck, recursive: those that are set
  checksFilter,   \* {} is nil
  dir, dirSet,
  subcmd,    \* "" until a subcommand is read
  decision   \* what run does after all

accumulated == <<flags, checksFilter, dir, dirSet, subcmd>>
cli == <<args, at, accumulated, decision>>

Undecided == [kind |-> "undecided"]
Begun == [kind |-> "begun"]   \* a lint has begun, its arguments are forgotten
Usage == [kind |-> "usage"]   \* an error on stderr, exit code 2
Version == [kind |-> "version"]
Help == [kind |-> "help"]
Describe(json) == [kind |-> "describe", json |-> json]
Fmt(path, check, recursive) ==
  [kind |-> "fmt", path |-> path, check |-> check, recursive |-> recursive]
Lint(path, json, fix, recursive, codes) ==
  [kind |-> "lint", path |-> path, json |-> json, fix |-> fix, recursive |-> recursive,
   codes |-> codes]

Early(a) == a \in VersionArgs \cup HelpArgs
EarlyIn(s) == \E i \in DOMAIN s : Early(s[i])
FirstEarly(s) == s[CHOOSE i \in DOMAIN s : Early(s[i]) /\ \A j \in 1..i - 1 : ~Early(s[j])]

Decide(d) == decision' = d /\ UNCHANGED <<args, at, accumulated>>

\* The pre-scan: help and version win over any other argument.
PreScan ==
  /\ decision = Undecided /\ EarlyIn(args)
  /\ Decide(IF FirstEarly(args) \in VersionArgs THEN Version ELSE Help)

Reading == decision = Undecided /\ ~EarlyIn(args) /\ at <= Len(args)
Arg == args[at]
Continue == at' = at + 1 /\ UNCHANGED <<args, decision>>

ReadFlag ==
  /\ Reading /\ Arg \in Flags
  /\ flags' = flags \cup {Arg}
  /\ Continue /\ UNCHANGED <<checksFilter, dir, dirSet, subcmd>>

\* ValidateCheckCodes; --checks= without a code is refused too.
BadCodes(a) == a \in DOMAIN CodesOf /\ (CodesOf[a] = {} \/ ~(CodesOf[a] \subseteq KnownCodes))

ReadChecks ==
  /\ Reading /\ Arg \in DOMAIN CodesOf
  /\ \/ BadCodes(Arg) /\ Decide(Usage)
     \/ /\ ~BadCodes(Arg)
        /\ checksFilter' = checksFilter \cup CodesOf[Arg]
        /\ Continue /\ UNCHANGED <<flags, dir, dirSet, subcmd>>

\* mutant: a later subcommand replaces an earlier one
LastSubcommand ==
  /\ Reading /\ Arg \in Subcommands
  /\ subcmd' = Arg /\ Continue /\ UNCHANGED <<flags, checksFilter, dir, dirSet>>

ReadSubcommand ==
  /\ Reading /\ Arg \in Subcommands
  /\ \/ subcmd # "" /\ Decide(Usage)
     \/ subcmd = "" /\ subcmd' = Arg /\ Continue /\ UNCHANGED <<flags, checksFilter, dir, dirSet>>

ReadUnknown == Reading /\ Arg \in UnknownFlags /\ Decide(Usage)

ReadPath ==
  /\ Reading /\ Positional(Arg)
  /\ \/ dirSet /\ Decide(Usage)
     \/ /\ ~dirSet /\ dir' = Arg /\ dirSet' = TRUE
        /\ Continue /\ UNCHANGED <<flags, checksFilter, subcmd>>

Given(names) == flags \cap names # {}
Json == "--json" \in flags
Fix == "--fix" \in flags

\* The guards after the loop
Misused ==
  \/ subcmd \in {"describe", "version", "help"} /\ dirSet
  \/ Given(CheckArgs) /\ subcmd # "fmt"
  \/ Given(RecursiveArgs) /\ subcmd \notin {"", "fmt"}
  \/ subcmd = "fmt" /\ (Json \/ Fix \/ checksFilter # {})

Dispatch ==
  /\ decision = Undecided /\ ~EarlyIn(args) /\ at > Len(args)
  /\ Decide(CASE Misused -> Usage
              [] ~Misused /\ subcmd = "describe" -> Describe(Json)
              [] ~Misused /\ subcmd = "version" -> Version
              [] ~Misused /\ subcmd = "help" -> Help
              [] ~Misused /\ subcmd = "fmt" -> Fmt(dir, Given(CheckArgs), Given(RecursiveArgs))
              [] OTHER -> Lint(dir, Json, Fix, Given(RecursiveArgs), checksFilter))

CliInit ==
  /\ args \in CommandLines /\ at = 1
  /\ flags = {} /\ checksFilter = {} /\ dir = "." /\ dirSet = FALSE /\ subcmd = ""
  /\ decision = Undecided

CliNext ==
  PreScan \/ ReadFlag \/ ReadChecks \/ ReadSubcommand \/ ReadUnknown \/ ReadPath \/ Dispatch

(* The command line as a whole ******************************************* *)

Typed == {args[i] : i \in DOMAIN args}
Twice(Test(_)) == \E i, j \in DOMAIN args : i # j /\ Test(args[i]) /\ Test(args[j])

\* No order: what counts is which arguments there are, and that no subcommand
\* and no path is one of two.
Malformed ==
  LET IsSubcommand(a) == a \in Subcommands
  IN \/ Twice(IsSubcommand) \/ Twice(Positional)
     \/ \E a \in Typed : BadCodes(a) \/ a \in UnknownFlags

Paths == {a \in Typed : Positional(a)}
Codes == UNION {CodesOf[a] : a \in Typed \cap DOMAIN CodesOf}
Typing(names) == Typed \cap names # {}

Refused ==
  \/ Typing({"describe", "version", "help"}) /\ Paths # {}
  \/ Typing(CheckArgs) /\ ~Typing({"fmt"})
  \/ Typing(RecursiveArgs) /\ Typing(Subcommands \ {"fmt"})
  \/ Typing({"fmt"}) /\ (Typing({"--json", "--fix"}) \/ Codes # {})

Meaning ==
  LET path == IF Paths = {} THEN "." ELSE CHOOSE p \in Paths : TRUE
  IN IF Malformed \/ Refused THEN Usage
     ELSE IF Typing({"describe"}) THEN Describe(Typing({"--json"}))
     ELSE IF Typing({"version"}) THEN Version
     ELSE IF Typing({"help"}) THEN Help
     ELSE IF Typing({"fmt"}) THEN Fmt(path, Typing(CheckArgs), Typing(RecursiveArgs))
     ELSE Lint(path, Typing({"--json"}), Typing({"--fix"}), Typing(RecursiveArgs), Codes)

\* The order of the arguments is of no consequence (main.go 165-167), save that
\* the first of --help and --version decides between the two, and those win
\* over every mistake elsewhere (main.go 149-155).
OrderIrrelevant ==
  decision \notin {Undecided, Begun} =>
    decision = IF EarlyIn(args)
               THEN IF FirstEarly(args) \in VersionArgs THEN Version ELSE Help
               ELSE Meaning
=============================================================================
