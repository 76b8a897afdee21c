--------------------------- MODULE CommandProofs ---------------------------
(* What Command promises for every command line, every text, every int     *)
(* width and every number of violations.                                   *)
EXTENDS Command, WellFoundedInduction, SequenceTheorems, TLAPS

-----------------------------------------------------------------------------
(* humanPreGrow *)

LEMMA Remainder ==
  ASSUME NEW y \in Nat, NEW m \in Nat, m > 0
  PROVE  /\ y % m \in 0..m - 1 /\ y \div m \in Nat /\ y = m * (y \div m) + (y % m)
         /\ y < m => y % m = y
OBVIOUS

LEMMA WrapBelow ==
  ASSUME ReportAssumption, NEW x \in Nat
  PROVE  /\ Wrap(x) \in Int /\ -Half <= Wrap(x) /\ Wrap(x) < Half
         /\ x < Half => Wrap(x) = x
         /\ x >= Half => Wrap(x) < x
<1> DEFINE y == x + Half
           m == 2 * Half
<1>1. Half \in Nat /\ Half > 0 BY DEF ReportAssumption
<1>2. y \in Nat /\ m \in Nat /\ m > 0 BY <1>1
<1>3. y % m \in 0..m - 1 /\ (y < m => y % m = y)
  <2> HIDE DEF y, m
  <2>1. QED BY <1>2, Remainder
<1>4. Wrap(x) = (y % m) - Half BY DEF Wrap
<1>5. (x < Half => y < m) /\ m = Half + Half /\ y = x + Half BY <1>1
<1> HIDE DEF y, m
<1>6. QED BY <1>1, <1>2, <1>3, <1>4, <1>5

\* humanPreGrow is min(128n + 64, 16 MiB) for every int n > 0, in spite of the
\* multiplication that wraps (format.go 227-252).
LEMMA PreGrowExact ==
  ASSUME ReportAssumption, NEW n \in Nat \ {0}, n < Half
  PROVE  HumanPreGrow(n) = Smaller(n * PerViolation + SummaryBytes, MaxPreGrow)
<1> DEFINE x == n * PerViolation
           mul == Wrap(x)
           want == Wrap(mul + SummaryBytes)
<1>1. /\ Half \in Nat /\ SummaryBytes \in Nat /\ MaxPreGrow \in Nat /\ PerViolation \in Nat \ {0}
      /\ SummaryBytes <= MaxPreGrow /\ MaxPreGrow < Half
  BY DEF ReportAssumption
<1>2. x \in Nat BY <1>1
<1>3. /\ mul \in Int /\ -Half <= mul /\ mul < Half
      /\ (x < Half => mul = x) /\ (x >= Half => mul < x)
  <2> HIDE DEF x
  <2>1. QED BY <1>2, WrapBelow
<1>4. HumanPreGrow(n) =
        IF Quotient(mul, n) # PerViolation \/ want < 0 \/ want > MaxPreGrow THEN MaxPreGrow ELSE want
  BY DEF HumanPreGrow
<1>5. CASE x < Half
  <2>1. Quotient(mul, n) = PerViolation
    <3>1. mul = x /\ mul >= 0 BY <1>2, <1>3, <1>5
    <3>2. x \div n = PerViolation BY <1>1
    <3>3. QED BY <3>1, <3>2 DEF Quotient
  <2>2. mul = x /\ mul + SummaryBytes \in Nat BY <1>1, <1>2, <1>3, <1>5
  <2>3. /\ want \in Int /\ want < Half
        /\ (mul + SummaryBytes < Half => want = mul + SummaryBytes)
    <3> HIDE DEF mul, x
    <3>1. QED BY <2>2, WrapBelow
  <2>4. CASE mul + SummaryBytes < Half
    <3> HIDE DEF mul, want, x
    <3>1. want = x + SummaryBytes /\ want >= 0 BY <1>1, <2>2, <2>3, <2>4
    <3>2. HumanPreGrow(n) = Smaller(x + SummaryBytes, MaxPreGrow)
      BY <1>1, <1>2, <1>4, <2>1, <3>1 DEF Smaller
    <3>3. QED BY <3>2 DEF x
  <2>5. CASE mul + SummaryBytes >= Half
    <3>1. want < 0
      <4>1. mul + SummaryBytes < 2 * Half BY <1>1, <1>2, <1>5, <2>2
      <4> DEFINE z == mul + SummaryBytes
      <4>2. want = ((z + Half) % (2 * Half)) - Half BY DEF Wrap
      <4>3. (z + Half) % (2 * Half) = z - Half
        <5>1. \A w, h \in Nat : w < h /\ h > 0 => (w + h) % h = w BY SMT
        <5>2. z - Half \in Nat /\ z - Half < 2 * Half /\ 2 * Half \in Nat /\ 2 * Half > 0
          BY <1>1, <2>2, <2>5, <4>1
        <5>3. (z - Half) + 2 * Half = z + Half BY <1>1, <2>2
        <5> HIDE DEF z
        <5>4. ((z - Half) + 2 * Half) % (2 * Half) = z - Half BY <5>1, <5>2
        <5>5. QED BY <5>3, <5>4
      <4>4. z < 2 * Half /\ z \in Nat BY <2>2, <4>1
      <4> HIDE DEF z, want
      <4>5. QED BY <1>1, <4>2, <4>3, <4>4
    <3> HIDE DEF mul, want, x
    <3>2. HumanPreGrow(n) = MaxPreGrow BY <1>4, <3>1
    <3>3. Smaller(x + SummaryBytes, MaxPreGrow) = MaxPreGrow
      BY <1>1, <1>2, <2>2, <2>5 DEF Smaller
    <3>4. QED BY <3>2, <3>3 DEF x
  <2>6. QED BY <1>1, <2>2, <2>4, <2>5
<1>6. CASE x >= Half
  <2>1. Quotient(mul, n) # PerViolation
    <3>1. CASE mul >= 0
      <4>1. mul \in Nat /\ n \in Nat /\ n > 0 BY <1>3, <3>1
      <4>2. mul = n * (mul \div n) + (mul % n) /\ mul % n >= 0 /\ mul \div n \in Nat
        <5> HIDE DEF mul
        <5>1. QED BY <4>1, Remainder
      <4>3. mul < n * PerViolation BY <1>3, <1>6
      <4>4. mul \div n # PerViolation
        <5> HIDE DEF mul
        <5>1. QED BY <1>1, <4>1, <4>2, <4>3
      <4>5. QED BY <3>1, <4>4 DEF Quotient
    <3>2. CASE mul < 0
      <4>1. -mul \in Nat BY <1>3, <3>2
      <4>2. (-mul) \div n \in Nat
        <5> HIDE DEF mul
        <5>1. QED BY <4>1, Remainder
      <4>3. QED BY <1>1, <1>3, <3>2, <4>2 DEF Quotient
    <3>3. QED BY <1>3, <3>1, <3>2
  <2> HIDE DEF mul, want, x
  <2>2. HumanPreGrow(n) = MaxPreGrow BY <1>4, <2>1
  <2>3. Smaller(x + SummaryBytes, MaxPreGrow) = MaxPreGrow
    BY <1>1, <1>2, <1>6 DEF Smaller
  <2>4. QED BY <2>2, <2>3 DEF x
<1>7. QED BY <1>1, <1>2, <1>5, <1>6

\* CapacityExact holds whatever the texts, the arguments and the count.
THEOREM CapacityCorrect == Spec => []CapacityExact
<1>1. Init => CapacityExact
  BY DEF Init, ReportInit, CapacityExact
<1>2. CapacityExact /\ [Next]_vars => CapacityExact'
  <2> SUFFICES ASSUME CapacityExact, [Next]_vars PROVE CapacityExact'
    OBVIOUS
  <2>1. CASE UNCHANGED <<count, capacity>>
    BY <2>1 DEF CapacityExact, Smaller
  <2>2. CASE \E n \in Counts : Grow(n)
    <3>1. PICK n \in Counts : Grow(n) BY <2>2
    <3>2. n \in Nat /\ n < Half BY CommandAssumption, ReportAssumption DEF CommandAssumption, ReportAssumption
    <3>3. count' = n /\ capacity' = HumanPreGrow(n) BY <3>1 DEF Grow
    <3>4. CASE n = 0 BY <3>3, <3>4 DEF CapacityExact, HumanPreGrow
    <3>5. CASE n # 0
      <4>1. n \in Nat \ {0} BY <3>2, <3>5
      <4>2. HumanPreGrow(n) = Smaller(n * PerViolation + SummaryBytes, MaxPreGrow)
        BY <3>2, <4>1, PreGrowExact, ReportAssumption DEF ReportAssumption
      <4>3. ~(n <= 0) BY <4>1
      <4>4. QED BY <3>3, <4>2, <4>3 DEF CapacityExact, Smaller
    <3>6. QED BY <3>4, <3>5
  <2>3. QED
    BY <2>1, <2>2 DEF Next, vars, report, ReadArgs, UsageError, WriteOut, RunFmt, LintStops, BeginReport,
       Sanitize, EndText, Read, EndReport, WriteReport, CheckWrite
<1>3. QED BY <1>1, <1>2, PTL DEF Spec

-----------------------------------------------------------------------------
(* sanitize *)

\* No text of any length leaves an escape or a control character in the report.
THEOREM TerminalCorrect == Spec => []TerminalSafe
<1> DEFINE Inv == clean \in Seq(Visible)
<1>1. Init => Inv
  BY DEF Init, ReportInit
<1>2. Inv /\ [Next]_vars => Inv'
  <2> SUFFICES ASSUME Inv, [Next]_vars PROVE Inv'
    OBVIOUS
  <2>1. CASE UNCHANGED clean BY <2>1
  <2>2. ASSUME NEW r \in Runes, Read(r) PROVE Inv'
    <3>1. Written(state, r) \in Seq(Visible) BY DEF Written
    <3>2. clean' = clean \o Written(state, r) BY <2>2 DEF Read
    <3>3. QED BY <3>1, <3>2
  <2>3. CASE EndText BY <2>3 DEF EndText
  <2>4. QED
    BY <2>1, <2>2, <2>3 DEF Next, vars, report, ReadArgs, UsageError, WriteOut, RunFmt, LintStops,
       BeginReport, Sanitize, EndReport, WriteReport, Grow, CheckWrite
<1>3. Inv => TerminalSafe BY DEF TerminalSafe
<1>4. QED BY <1>1, <1>2, <1>3, PTL DEF Spec

-----------------------------------------------------------------------------
(* Exit codes *)

\* Until the end there is no exit code, before the write no outcome of one, and
\* after a lint's write it went through the writer that its report calls for.
ExitInv ==
  /\ pc # "exited" => exit = None
  /\ pc \in {"read", "report", "write"} => severities = {} /\ wrote = "none"
  /\ pc \in {"report", "write"} => decision = Begun
  /\ pc = "check" =>
       /\ decision # Usage /\ wrote \in Outcomes
       /\ Unguarded \/ writer = "buffer"
       /\ decision # Begun => severities = {}
  /\ severities \subseteq Severities
  /\ VerdictDelivered

LEMMA DecisionKinds ==
  /\ Usage.kind = "usage" /\ Begun.kind = "begun"
  /\ \A j : Describe(j).kind = "describe"
BY DEF Usage, Begun, Describe

\* CheckWrite gives no verdict that it may not give.
LEMMA CheckGives ==
  ASSUME ExitInv, CheckWrite
  PROVE  ExitInv'
<1>1. /\ pc = "check" /\ pc' = "exited" /\ UNCHANGED <<decision, json, fixed, severities, wrote>>
      /\ exit' = IF WriteErr(writer, wrote) THEN 2
                 ELSE IF decision = Begun THEN ExitCode(severities) ELSE 0
  BY DEF CheckWrite, cli
<1>2. /\ decision # Usage /\ wrote \in Outcomes /\ (Unguarded \/ writer = "buffer")
      /\ severities \subseteq Severities
  BY <1>1 DEF ExitInv
<1>3. decision # Begun => severities = {} BY <1>1 DEF ExitInv
<1>4. exit' \in {0, 1} => ~WriteErr(writer, wrote) BY <1>1
<1>5. exit' \in {0, 1} => wrote = "whole" \/ (wrote = "short" /\ Unguarded)
  <2>1. CASE wrote = "whole" BY <2>1
  <2>2. CASE wrote = "failed" BY <1>4, <2>2 DEF WriteErr
  <2>3. CASE wrote = "short"
    <3>1. exit' \in {0, 1} => writer # "buffer" BY <1>4, <2>3 DEF WriteErr
    <3>2. QED BY <1>2, <2>3, <3>1
  <2>4. QED BY <1>2, <2>1, <2>2, <2>3 DEF Outcomes
<1>6. exit' \in {0, 1} =>
        "E000" \notin severities /\ (exit' = 0 => severities \subseteq {"warning"})
  <2>1. CASE decision = Begun BY <1>1, <1>2, <2>1 DEF ExitCode, Severities
  <2>2. CASE decision # Begun BY <1>3, <2>2
  <2>3. QED BY <2>1, <2>2
<1>7. Unguarded' <=> Unguarded BY <1>1 DEF Unguarded
<1>8. VerdictDelivered' BY <1>1, <1>2, <1>5, <1>6, <1>7 DEF VerdictDelivered
<1>9. QED BY <1>1, <1>2, <1>8 DEF ExitInv

\* VerdictDelivered holds whatever the arguments, the violations and the
\* outcome of the write.
THEOREM ExitCorrect == Spec => []VerdictDelivered
<1>1. Init => ExitInv
  BY DEF Init, ExitInv, VerdictDelivered, None
<1>2. ExitInv /\ [Next]_vars => ExitInv'
  <2> SUFFICES ASSUME ExitInv, [Next]_vars PROVE ExitInv'
    OBVIOUS
  <2> DEFINE NoVerdict == exit' \notin {0, 1} => VerdictDelivered'
  <2>0. NoVerdict BY DEF VerdictDelivered
  <2>1. CASE ReadArgs
    <3>1. pc = "read" /\ exit' = None /\ UNCHANGED <<pc, severities, wrote>>
      BY <2>1 DEF ReadArgs, ExitInv, outcome
    <3>2. QED BY <2>0, <3>1 DEF ExitInv, None
  <2>2. CASE UsageError
    <3>1. pc = "read" /\ pc' = "exited" /\ exit' = 2 /\ UNCHANGED severities
      BY <2>2 DEF UsageError
    <3>2. QED BY <2>0, <3>1 DEF ExitInv
  <2>3. CASE WriteOut
    <3>1. /\ pc = "read" /\ pc' = "check" /\ exit' = exit
          /\ UNCHANGED <<decision, severities>> /\ wrote' \in Outcomes
      BY <2>3 DEF WriteOut, WriteThrough, cli
    <3>2. decision.kind \in {"version", "help", "describe"} BY <2>3 DEF WriteOut
    <3>3. decision # Usage /\ decision # Begun BY <3>2, DecisionKinds
    <3>4. Unguarded' \/ writer' = "buffer"
      BY <2>3, <3>1 DEF WriteOut, WriteThrough, Unguarded
    <3>5. exit' = None /\ severities = {} BY <3>1 DEF ExitInv
    <3>6. QED BY <2>0, <3>1, <3>3, <3>4, <3>5 DEF ExitInv, None
  <2>4. CASE RunFmt
    <3>1. decision.kind = "fmt" /\ pc = "read" /\ pc' = "exited" /\ UNCHANGED <<decision, severities>>
      BY <2>4 DEF RunFmt, cli
    <3>2. decision # Usage /\ severities = {} BY <3>1, DecisionKinds DEF ExitInv
    <3>3. VerdictDelivered' BY <3>1, <3>2 DEF VerdictDelivered
    <3>4. QED BY <3>1, <3>2, <3>3 DEF ExitInv
  <2>5. CASE LintStops
    <3>1. pc = "read" /\ pc' = "exited" /\ exit' \notin {0, 1} /\ UNCHANGED severities
      BY <2>5 DEF LintStops
    <3>2. QED BY <2>0, <3>1 DEF ExitInv
  <2>6. CASE BeginReport
    <3>1. pc = "read" /\ pc' = "report" /\ decision' = Begun /\ UNCHANGED <<severities, wrote, exit>>
      BY <2>6 DEF BeginReport, outcome
    <3>2. exit' = None BY <3>1 DEF ExitInv
    <3>3. QED BY <2>0, <3>1, <3>2 DEF ExitInv, None
  <2>7. CASE Sanitize
    <3>1. pc = "report" /\ UNCHANGED <<pc, decision, severities, wrote, exit>>
      BY <2>7 DEF Sanitize, cli, outcome
    <3>2. exit' = None BY <3>1 DEF ExitInv
    <3>3. QED BY <2>0, <3>1, <3>2 DEF ExitInv, None
  <2>8. CASE EndReport
    <3>1. pc = "report" /\ pc' = "write" /\ UNCHANGED <<decision, severities, wrote, exit>>
      BY <2>8 DEF EndReport, cli, outcome
    <3>2. exit' = None BY <3>1 DEF ExitInv
    <3>3. QED BY <2>0, <3>1, <3>2 DEF ExitInv, None
  <2>9. CASE WriteReport
    <3>1. PICK n \in Counts, found \in SUBSET Severities :
             /\ n = 0 <=> found = {}
             /\ severities' = found
             /\ \/ json /\ WriteThrough("encoder") /\ UNCHANGED report
                \/ ~json /\ ~(n > 0 \/ fixed) /\ WriteThrough("string") /\ UNCHANGED report
                \/ ~json /\ (n > 0 \/ fixed) /\ WriteThrough("buffer") /\ Grow(n)
      BY <2>9 DEF WriteReport
    <3>2. pc = "write" /\ UNCHANGED <<decision, json, fixed>> BY <2>9 DEF WriteReport, cli
    <3>3. pc' = "check" /\ exit' = exit /\ wrote' \in Outcomes BY <3>1 DEF WriteThrough
    <3>4. decision' = Begun /\ exit' = None BY <3>2, <3>3 DEF ExitInv
    <3>5. n \in Nat BY CommandAssumption, ReportAssumption DEF CommandAssumption, ReportAssumption
    <3>6. Unguarded' \/ writer' = "buffer"
      <4>1. CASE json BY <3>2, <3>4, <4>1 DEF Unguarded
      <4>2. CASE ~json /\ (n > 0 \/ fixed) BY <3>1, <4>2 DEF WriteThrough
      <4>3. CASE ~json /\ ~(n > 0 \/ fixed)
        <5>1. severities' = {} /\ ~fixed' BY <3>1, <3>2, <3>5, <4>3
        <5>2. QED BY <3>4, <5>1 DEF Unguarded
      <4>4. QED BY <4>1, <4>2, <4>3
    <3>7. Begun # Usage BY DecisionKinds
    <3>8. QED BY <2>0, <3>1, <3>3, <3>4, <3>6, <3>7 DEF ExitInv, None
  <2>10. CASE CheckWrite BY <2>10, CheckGives
  <2>11. CASE UNCHANGED vars
    <3>1. UNCHANGED <<pc, decision, json, fixed, severities, writer, wrote, exit>>
      BY <2>11 DEF vars, cli, outcome
    <3>2. VerdictDelivered' BY <3>1 DEF VerdictDelivered, Unguarded, ExitInv
    <3>3. QED BY <3>1, <3>2 DEF ExitInv, Unguarded
  <2>12. QED
    BY <2>1, <2>2, <2>3, <2>4, <2>5, <2>6, <2>7, <2>8, <2>9, <2>10, <2>11 DEF Next
<1>3. ExitInv => VerdictDelivered BY DEF ExitInv
<1>4. QED BY <1>1, <1>2, <1>3, PTL DEF Spec

-----------------------------------------------------------------------------
(* The command line *)

Done == {args[i] : i \in 1..at - 1}
Once(S) == \A i, j \in 1..at - 1 : args[i] \in S /\ args[j] \in S => i = j
PositionalDone == {a \in Done : Positional(a)}

\* What has been accumulated is a set: of the arguments read so far, in no order.
ReadInv ==
  /\ flags = Done \cap Flags
  /\ \A a \in Done : ~BadCodes(a) /\ a \notin UnknownFlags
  /\ checksFilter = UNION {CodesOf[a] : a \in Done \cap DOMAIN CodesOf}
  /\ Done \cap Subcommands = IF subcmd = "" THEN {} ELSE {subcmd}
  /\ PositionalDone = IF dirSet THEN {dir} ELSE {}
  /\ dirSet \in BOOLEAN /\ (~dirSet => dir = ".")
  /\ Once(Subcommands)
  /\ \A i, j \in 1..at - 1 : Positional(args[i]) /\ Positional(args[j]) => i = j

OrderInv ==
  /\ args \in Seq(Arguments) /\ at \in 1..Len(args) + 1
  /\ decision = Undecided => ReadInv
  /\ OrderIrrelevant

LEMMA Decisions ==
  /\ Usage # Undecided /\ Version # Undecided /\ Help # Undecided /\ Begun # Undecided
  /\ \A j : Describe(j) # Undecided
  /\ \A p, c, r : Fmt(p, c, r) # Undecided
  /\ \A p, j, f, r, c : Lint(p, j, f, r, c) # Undecided
<1>1. Usage.kind = "usage" /\ Version.kind = "version" /\ Help.kind = "help" /\ Begun.kind = "begun"
  BY DEF Usage, Version, Help, Begun
<1>2. \A j : Describe(j).kind = "describe" BY DEF Describe
<1>3. \A p, c, r : Fmt(p, c, r).kind = "fmt" BY DEF Fmt
<1>4. \A p, j, f, r, c : Lint(p, j, f, r, c).kind = "lint" BY DEF Lint
<1>5. Undecided.kind = "undecided" BY DEF Undecided
<1>6. QED BY <1>1, <1>2, <1>3, <1>4, <1>5

\* One more argument is read.
LEMMA DoneGrows ==
  ASSUME OrderInv, Reading, Continue
  PROVE  /\ Done' = Done \cup {Arg} /\ args' = args /\ decision' = decision
         /\ at' \in 1..Len(args) + 1 /\ 1..at' - 1 = 1..at - 1 \cup {at} /\ at \in DOMAIN args
<1> DEFINE n == Len(args)
<1>1. n \in Nat /\ DOMAIN args = 1..n BY DEF OrderInv
<1>2. at \in 1..n + 1 /\ at <= n /\ at' = at + 1 BY DEF OrderInv, Reading, Continue
<1>3. at' \in 1..n + 1 /\ 1..at' - 1 = 1..at - 1 \cup {at} /\ at \in DOMAIN args
  <2> HIDE DEF n
  <2>1. QED BY <1>1, <1>2
<1>4. args' = args /\ decision' = decision BY DEF Continue
<1>5. Done' = {args[i] : i \in 1..at' - 1} BY <1>4 DEF Done
<1>6. QED BY <1>3, <1>4, <1>5 DEF Done, Arg

\* An argument of Typed, and two of them
LEMMA BadArgument ==
  ASSUME OrderInv, Reading, BadCodes(Arg) \/ Arg \in UnknownFlags
  PROVE  Malformed
<1>1. at \in DOMAIN args BY DEF OrderInv, Reading
<1>2. Arg \in Typed BY <1>1 DEF Typed, Arg
<1>3. QED BY <1>2 DEF Malformed

LEMMA SecondArgument ==
  ASSUME OrderInv, Reading, NEW S, Arg \in S, Done \cap S # {}
  PROVE  \E i, j \in DOMAIN args : i # j /\ args[i] \in S /\ args[j] \in S
<1> DEFINE n == Len(args)
<1>1. n \in Nat /\ DOMAIN args = 1..n BY DEF OrderInv
<1>2. PICK i \in 1..at - 1 : args[i] \in S BY DEF Done
<1>3. at \in 1..n + 1 /\ at <= n BY DEF OrderInv, Reading
<1>4. i \in DOMAIN args /\ at \in DOMAIN args /\ i # at
  <2> HIDE DEF n
  <2>1. QED BY <1>1, <1>2, <1>3
<1>5. QED BY <1>2, <1>4 DEF Arg

LEMMA KindsApart ==
  ASSUME NEW a
  PROVE  /\ a \in Flags => a \notin Subcommands /\ a \notin DOMAIN CodesOf /\ a \notin UnknownFlags
                             /\ ~Positional(a)
         /\ a \in Subcommands => a # "" /\ a \notin DOMAIN CodesOf /\ a \notin UnknownFlags
                             /\ ~Positional(a)
         /\ a \in DOMAIN CodesOf => a \notin UnknownFlags /\ ~Positional(a)
         /\ Positional(a) => a \notin UnknownFlags
<1>1. Flags \cap Subcommands = {} /\ "" \notin Subcommands
  BY DEF Flags, Subcommands, CheckArgs, RecursiveArgs
<1>2. QED BY <1>1, CliAssumption DEF CliAssumption, Positional, Known

LEMMA ReadsKeepOrder ==
  ASSUME OrderInv, CliNext
  PROVE  OrderInv'
<1>1. ASSUME Continue, Reading, ReadInv' PROVE OrderInv'
  <2>1. args' = args /\ decision' = decision /\ at' \in 1..Len(args) + 1 BY <1>1, DoneGrows
  <2>2. decision = Undecided BY <1>1 DEF Reading
  <2>3. QED BY <1>1, <2>1, <2>2 DEF OrderInv, OrderIrrelevant
<1>2. ASSUME Decide(Usage), Reading, Malformed PROVE OrderInv'
  <2>1. args' = args /\ at' = at /\ decision' = Usage BY <1>2 DEF Decide, accumulated
  <2>2. ~EarlyIn(args) BY <1>2 DEF Reading
  <2>3. Meaning = Usage BY <1>2 DEF Meaning
  <2>4. ~EarlyIn(args') /\ Meaning' = Usage
    BY <2>1, <2>2, <2>3
       DEF Meaning, Malformed, Refused, Typed, Twice, Paths, Codes, Typing, EarlyIn
  <2>5. OrderIrrelevant' BY <2>1, <2>4 DEF OrderIrrelevant
  <2>6. QED BY <2>1, <2>5, Decisions DEF OrderInv
<1>3. ASSUME Reading, Continue
      PROVE  /\ Done' = Done \cup {Arg} /\ ReadInv
             /\ \A i \in 1..at' - 1 : i = at \/ i \in 1..at - 1
             /\ \A i \in 1..at - 1 : args[i] \in Done
             /\ args' = args
  <2>1. Done' = Done \cup {Arg} /\ 1..at' - 1 = 1..at - 1 \cup {at} /\ args' = args BY <1>3, DoneGrows
  <2>2. ReadInv BY <1>3 DEF OrderInv, Reading
  <2>3. QED BY <2>1, <2>2 DEF Done
<1>4. ASSUME Reading, Continue, Arg \notin Subcommands \/ Done \cap Subcommands = {}
      PROVE  Once(Subcommands)'
  BY <1>3, <1>4 DEF Once, ReadInv, Arg
<1>5. ASSUME Reading, Continue, ~Positional(Arg) \/ PositionalDone = {}
      PROVE  (\A i, j \in 1..at - 1 : Positional(args[i]) /\ Positional(args[j]) => i = j)'
  BY <1>3, <1>5 DEF ReadInv, Arg, PositionalDone, Positional
<1>6. CASE ReadFlag
  <2>1. /\ Reading /\ Continue /\ Arg \in Flags /\ flags' = flags \cup {Arg}
        /\ UNCHANGED <<checksFilter, dir, dirSet, subcmd>>
    BY <1>6 DEF ReadFlag
  <2>2. Arg \notin DOMAIN CodesOf /\ Arg \notin UnknownFlags BY <2>1, KindsApart
  <2>3. ReadInv'
    <3>1. flags' = (Done \cap Flags)' BY <1>3, <2>1 DEF ReadInv
    <3>2. (\A a \in Done : ~BadCodes(a) /\ a \notin UnknownFlags)'
      BY <1>3, <2>1, <2>2, KindsApart DEF ReadInv, BadCodes
    <3>3. (Done \cap DOMAIN CodesOf)' = Done \cap DOMAIN CodesOf
      BY <1>3, <2>1, KindsApart
    <3>4. (Done \cap Subcommands)' = Done \cap Subcommands BY <1>3, <2>1, KindsApart
    <3>5. PositionalDone' = PositionalDone
      BY <1>3, <2>1, KindsApart DEF PositionalDone, Positional
    <3>6. QED BY <1>3, <1>4, <1>5, <2>1, <3>1, <3>2, <3>3, <3>4, <3>5, KindsApart DEF ReadInv
  <2>4. QED BY <1>1, <2>1, <2>3
<1>7. CASE ReadChecks
  <2>1. Reading /\ Arg \in DOMAIN CodesOf BY <1>7 DEF ReadChecks
  <2>2. CASE BadCodes(Arg)
    <3>1. Decide(Usage) BY <1>7, <2>2 DEF ReadChecks
    <3>2. QED BY <1>2, <2>1, <2>2, <3>1, BadArgument
  <2>3. CASE ~BadCodes(Arg)
    <3>1. /\ Continue /\ checksFilter' = checksFilter \cup CodesOf[Arg]
          /\ UNCHANGED <<flags, dir, dirSet, subcmd>>
      BY <1>7, <2>3 DEF ReadChecks
    <3>2. (Done \cap Flags)' = Done \cap Flags BY <1>3, <2>1, <3>1, KindsApart
    <3>3. (\A a \in Done : ~BadCodes(a) /\ a \notin UnknownFlags)'
      BY <1>3, <2>1, <2>3, <3>1, KindsApart DEF ReadInv, BadCodes
    <3>4. checksFilter' = (UNION {CodesOf[a] : a \in Done \cap DOMAIN CodesOf})'
      <4>1. (Done \cap DOMAIN CodesOf)' = (Done \cap DOMAIN CodesOf) \cup {Arg}
        BY <1>3, <2>1, <3>1
      <4>2. UNION {CodesOf[a] : a \in (Done \cap DOMAIN CodesOf) \cup {Arg}}
              = (UNION {CodesOf[a] : a \in Done \cap DOMAIN CodesOf}) \cup CodesOf[Arg]
        OBVIOUS
      <4>3. QED BY <1>3, <2>1, <3>1, <4>1, <4>2 DEF ReadInv
    <3>5. (Done \cap Subcommands)' = Done \cap Subcommands BY <1>3, <2>1, <3>1, KindsApart
    <3>6. PositionalDone' = PositionalDone
      BY <1>3, <2>1, <3>1, KindsApart DEF PositionalDone, Positional
    <3>7. ReadInv'
      BY <1>3, <1>4, <1>5, <2>1, <3>1, <3>2, <3>3, <3>4, <3>5, <3>6, KindsApart DEF ReadInv
    <3>8. QED BY <1>1, <2>1, <3>1, <3>7
  <2>4. QED BY <2>2, <2>3
<1>8. CASE ReadSubcommand
  <2>1. Reading /\ Arg \in Subcommands BY <1>8 DEF ReadSubcommand
  <2>2. ReadInv BY <2>1 DEF OrderInv, Reading
  <2>3. CASE subcmd # ""
    <3>1. Decide(Usage) BY <1>8, <2>3 DEF ReadSubcommand
    <3>2. Done \cap Subcommands # {} BY <2>2, <2>3 DEF ReadInv
    <3>3. Malformed
      <4>1. \E i, j \in DOMAIN args : i # j /\ args[i] \in Subcommands /\ args[j] \in Subcommands
        BY <2>1, <3>2, SecondArgument
      <4>2. QED BY <4>1 DEF Malformed, Twice
    <3>4. QED BY <1>2, <2>1, <3>1, <3>3
  <2>4. CASE subcmd = ""
    <3>1. Continue /\ subcmd' = Arg /\ UNCHANGED <<flags, checksFilter, dir, dirSet>>
      BY <1>8, <2>4 DEF ReadSubcommand
    <3>2. (Done \cap Flags)' = Done \cap Flags BY <1>3, <2>1, <3>1, KindsApart
    <3>3. (\A a \in Done : ~BadCodes(a) /\ a \notin UnknownFlags)'
      BY <1>3, <2>1, <3>1, KindsApart DEF ReadInv, BadCodes
    <3>4. (Done \cap DOMAIN CodesOf)' = Done \cap DOMAIN CodesOf BY <1>3, <2>1, <3>1, KindsApart
    <3>5. Done \cap Subcommands = {} /\ (Done \cap Subcommands)' = {Arg}
      BY <1>3, <2>1, <2>2, <2>4, <3>1 DEF ReadInv
    <3>6. PositionalDone' = PositionalDone
      BY <1>3, <2>1, <3>1, KindsApart DEF PositionalDone, Positional
    <3>7. ReadInv'
      BY <1>3, <1>4, <1>5, <2>1, <3>1, <3>2, <3>3, <3>4, <3>5, <3>6, KindsApart DEF ReadInv
    <3>8. QED BY <1>1, <2>1, <3>1, <3>7
  <2>5. QED BY <2>3, <2>4
<1>9. CASE ReadUnknown
  BY <1>2, <1>9, BadArgument DEF ReadUnknown
<1>10. CASE ReadPath
  <2>1. Reading /\ Positional(Arg) BY <1>10 DEF ReadPath
  <2>2. ReadInv BY <2>1 DEF OrderInv, Reading
  <2>3. CASE dirSet
    <3>1. Decide(Usage) BY <1>10, <2>3 DEF ReadPath
    <3>2. PositionalDone # {} BY <2>2, <2>3 DEF ReadInv
    <3>3. Malformed
      <4> DEFINE S == {a \in Typed : Positional(a)}
      <4>1. Done \subseteq Typed /\ Arg \in Typed
        BY <2>1 DEF OrderInv, Reading, Done, Typed, Arg
      <4>2. Arg \in S /\ Done \cap S # {} BY <2>1, <3>2, <4>1 DEF PositionalDone
      <4>3. \E i, j \in DOMAIN args : i # j /\ args[i] \in S /\ args[j] \in S
        <5> HIDE DEF S
        <5>1. QED BY <2>1, <4>2, SecondArgument
      <4>4. QED BY <4>3 DEF Malformed, Twice
    <3>4. QED BY <1>2, <2>1, <3>1, <3>3
  <2>4. CASE ~dirSet
    <3>1. Continue /\ dir' = Arg /\ dirSet' = TRUE /\ UNCHANGED <<flags, checksFilter, subcmd>>
      BY <1>10, <2>4 DEF ReadPath
    <3>2. Arg \notin Flags /\ Arg \notin Subcommands /\ Arg \notin DOMAIN CodesOf
          /\ Arg \notin UnknownFlags
      BY <2>1 DEF Positional, Known
    <3>3. (Done \cap Flags)' = Done \cap Flags BY <1>3, <2>1, <3>1, <3>2
    <3>4. (\A a \in Done : ~BadCodes(a) /\ a \notin UnknownFlags)'
      BY <1>3, <2>1, <3>1, <3>2 DEF ReadInv, BadCodes
    <3>5. (Done \cap DOMAIN CodesOf)' = Done \cap DOMAIN CodesOf BY <1>3, <2>1, <3>1, <3>2
    <3>6. (Done \cap Subcommands)' = Done \cap Subcommands BY <1>3, <2>1, <3>1, <3>2
    <3>7. PositionalDone = {} /\ PositionalDone' = {Arg}
      BY <1>3, <2>1, <2>2, <2>4, <3>1 DEF ReadInv, PositionalDone, Positional
    <3>8. ReadInv'
      BY <1>3, <1>4, <1>5, <2>1, <3>1, <3>2, <3>3, <3>4, <3>5, <3>6, <3>7 DEF ReadInv
    <3>9. QED BY <1>1, <2>1, <3>1, <3>8
  <2>5. QED BY <2>2, <2>3, <2>4 DEF ReadInv
<1>11. CASE PreScan
  <2>1. /\ args' = args /\ at' = at /\ EarlyIn(args) /\ decision \in {Undecided}
        /\ decision' = IF FirstEarly(args) \in VersionArgs THEN Version ELSE Help
    BY <1>11 DEF PreScan, Decide, accumulated
  <2>2. EarlyIn(args') /\ FirstEarly(args') = FirstEarly(args) BY <2>1
  <2>3. OrderIrrelevant' BY <2>1, <2>2 DEF OrderIrrelevant
  <2>4. QED BY <2>1, <2>3, Decisions DEF OrderInv
<1>12. CASE Dispatch
  <2>1. decision = Undecided /\ ~EarlyIn(args) /\ at > Len(args) /\ args' = args /\ at' = at
    BY <1>12 DEF Dispatch, Decide, accumulated
  <2>2. ReadInv BY <2>1 DEF OrderInv
  <2>3. DOMAIN args = 1..at - 1 /\ Done = Typed
    <3> DEFINE n == Len(args)
    <3>1. n \in Nat /\ DOMAIN args = 1..n BY DEF OrderInv
    <3>2. at \in 1..n + 1 /\ at > n BY <2>1 DEF OrderInv
    <3>3. at - 1 = n
      <4> HIDE DEF n
      <4>1. QED BY <3>1, <3>2
    <3>4. QED BY <3>1, <3>3 DEF Done, Typed
  <2>4. ~Malformed
    BY <2>2, <2>3 DEF Malformed, Twice, ReadInv, Once
  <2>5. decision' = Meaning
    <3>1. \A names \in SUBSET Flags : Given(names) <=> Typing(names)
      BY <2>2, <2>3 DEF ReadInv, Given, Typing
    <3>2. /\ Given(CheckArgs) <=> Typing(CheckArgs)
          /\ Given(RecursiveArgs) <=> Typing(RecursiveArgs)
          /\ Json = Typing({"--json"}) /\ Fix = Typing({"--fix"})
          /\ Json \/ Fix <=> Typing({"--json", "--fix"})
      <4>1. CheckArgs \in SUBSET Flags /\ RecursiveArgs \in SUBSET Flags
            /\ {"--json"} \in SUBSET Flags /\ {"--fix"} \in SUBSET Flags
        BY DEF Flags
      <4>2. Json <=> Typing({"--json"}) BY <3>1, <4>1 DEF Given, Json
      <4>3. Fix <=> Typing({"--fix"}) BY <3>1, <4>1 DEF Given, Fix
      <4>4. QED BY <3>1, <4>1, <4>2, <4>3 DEF Typing, Json, Fix
    <3>3. \A c \in Subcommands : subcmd = c <=> Typing({c})
      BY <2>2, <2>3, KindsApart DEF ReadInv, Typing
    <3>4. subcmd = "" \/ subcmd \in Subcommands BY <2>2 DEF ReadInv
    <3>5. Codes = checksFilter BY <2>2, <2>3 DEF ReadInv, Codes
    <3>6. Paths = (IF dirSet THEN {dir} ELSE {}) BY <2>2, <2>3 DEF ReadInv, Paths, PositionalDone
    <3>7. Misused <=> Refused
      <4>1. subcmd \in {"describe", "version", "help"} <=> Typing({"describe", "version", "help"})
        BY <3>3, <3>4 DEF Typing, Subcommands
      <4>2. subcmd = "fmt" <=> Typing({"fmt"}) BY <3>3 DEF Subcommands
      <4>3. subcmd \notin {"", "fmt"} <=> Typing(Subcommands \ {"fmt"})
        BY <3>3, <3>4 DEF Typing, Subcommands
      <4>4. dirSet <=> Paths # {} BY <3>6
      <4>5. QED BY <3>2, <3>5, <4>1, <4>2, <4>3, <4>4 DEF Misused, Refused
    <3>8. (IF Paths = {} THEN "." ELSE CHOOSE p \in Paths : TRUE) = dir
      BY <2>2, <3>6 DEF ReadInv
    <3>9. decision' = CASE Misused -> Usage
              [] ~Misused /\ subcmd = "describe" -> Describe(Json)
              [] ~Misused /\ subcmd = "version" -> Version
              [] ~Misused /\ subcmd = "help" -> Help
              [] ~Misused /\ subcmd = "fmt" -> Fmt(dir, Given(CheckArgs), Given(RecursiveArgs))
              [] OTHER -> Lint(dir, Json, Fix, Given(RecursiveArgs), checksFilter)
      BY <1>12 DEF Dispatch, Decide
    <3>10. Meaning = IF Refused THEN Usage
              ELSE IF subcmd = "describe" THEN Describe(Json)
              ELSE IF subcmd = "version" THEN Version
              ELSE IF subcmd = "help" THEN Help
              ELSE IF subcmd = "fmt" THEN Fmt(dir, Typing(CheckArgs), Typing(RecursiveArgs))
              ELSE Lint(dir, Json, Fix, Typing(RecursiveArgs), checksFilter)
      <4>1. /\ Typing({"describe"}) <=> subcmd = "describe"
            /\ Typing({"version"}) <=> subcmd = "version"
            /\ Typing({"help"}) <=> subcmd = "help"
            /\ Typing({"fmt"}) <=> subcmd = "fmt"
        BY <3>3 DEF Subcommands
      <4>2. Malformed \/ Refused <=> Refused BY <2>4
      <4>3. Json = Typing({"--json"}) /\ Fix = Typing({"--fix"}) BY <3>2
      <4> DEFINE path == IF Paths = {} THEN "." ELSE CHOOSE p \in Paths : TRUE
      <4>4. Meaning =
              IF Malformed \/ Refused THEN Usage
              ELSE IF Typing({"describe"}) THEN Describe(Typing({"--json"}))
              ELSE IF Typing({"version"}) THEN Version
              ELSE IF Typing({"help"}) THEN Help
              ELSE IF Typing({"fmt"}) THEN Fmt(path, Typing(CheckArgs), Typing(RecursiveArgs))
              ELSE Lint(path, Typing({"--json"}), Typing({"--fix"}), Typing(RecursiveArgs), Codes)
        BY DEF Meaning
      <4>5. path = dir BY <3>8
      <4> HIDE DEF path
      <4>6. QED BY <3>5, <4>1, <4>2, <4>3, <4>4, <4>5
    <3>11. (Given(CheckArgs) = Typing(CheckArgs)) /\ (Given(RecursiveArgs) = Typing(RecursiveArgs))
      BY <3>2 DEF Given, Typing
    <3>12. QED BY <3>7, <3>9, <3>10, <3>11
  <2>6. Meaning' = Meaning /\ ~EarlyIn(args')
    BY <2>1 DEF Meaning, Malformed, Refused, Typed, Twice, Paths, Codes, Typing
  <2>7. Meaning # Undecided
    BY Decisions DEF Meaning
  <2>8. OrderIrrelevant' BY <2>5, <2>6 DEF OrderIrrelevant
  <2>9. QED BY <2>1, <2>5, <2>7, <2>8 DEF OrderInv
<1>13. QED BY <1>6, <1>7, <1>8, <1>9, <1>10, <1>11, <1>12 DEF CliNext

\* What run decides depends only on which arguments there are (main.go 148-285).
THEOREM OrderCorrect == Spec => []OrderIrrelevant
<1>1. Init => OrderInv
  <2> SUFFICES ASSUME Init PROVE OrderInv
    OBVIOUS
  <2>1. args \in Seq(Arguments) /\ at = 1 /\ decision = Undecided
    BY CliAssumption DEF Init, CliInit, CliAssumption
  <2>2. Done = {} /\ 1..at - 1 = {} BY <2>1 DEF Done
  <2>3. ReadInv
    BY <2>2 DEF Init, CliInit, ReadInv, Once, PositionalDone
  <2>4. QED BY <2>1, <2>3 DEF OrderInv, OrderIrrelevant
<1>2. OrderInv /\ [Next]_vars => OrderInv'
  <2> SUFFICES ASSUME OrderInv, [Next]_vars PROVE OrderInv'
    OBVIOUS
  <2>1. CASE CliNext BY <2>1, ReadsKeepOrder
  <2>2. CASE UNCHANGED cli
    <3>1. UNCHANGED <<args, at, flags, checksFilter, dir, dirSet, subcmd, decision>>
      BY <2>2 DEF cli, accumulated
    <3>2. ReadInv => ReadInv'
      <4>1. Done' = Done /\ PositionalDone' = PositionalDone BY <3>1 DEF Done, PositionalDone, Positional
      <4>2. Once(Subcommands) => Once(Subcommands)' BY <3>1 DEF Once
      <4>3. QED BY <3>1, <4>1, <4>2 DEF ReadInv, BadCodes, Positional
    <3>3. Meaning' = Meaning /\ (EarlyIn(args)) ' = EarlyIn(args) /\ FirstEarly(args)' = FirstEarly(args)
      BY <3>1 DEF Meaning, Malformed, Refused, Typed, Twice, Paths, Codes, Typing, EarlyIn, FirstEarly
    <3>4. OrderIrrelevant' BY <3>1, <3>3 DEF OrderInv, OrderIrrelevant
    <3>5. QED BY <3>1, <3>2, <3>4 DEF OrderInv
  <2>3. CASE BeginReport
    <3>1. args' = << >> /\ at' = 1 /\ decision' = Begun BY <2>3 DEF BeginReport
    <3>2. OrderIrrelevant' BY <3>1 DEF OrderIrrelevant
    <3>3. args' \in Seq(Arguments) /\ Len(args') = 0 BY <3>1
    <3>4. QED BY <3>1, <3>2, <3>3, Decisions DEF OrderInv
  <2>4. QED
    BY <2>1, <2>2, <2>3
    DEF Next, ReadArgs, UsageError, WriteOut, RunFmt, LintStops, Sanitize, EndReport, WriteReport,
        CheckWrite, vars
<1>3. OrderInv => OrderIrrelevant BY DEF OrderInv
<1>4. QED BY <1>1, <1>2, <1>3, PTL DEF Spec

-----------------------------------------------------------------------------
(* sanitize *)

LEMMA Least ==
  ASSUME NEW S \in SUBSET Nat, S # {}
  PROVE  \E m \in S : \A n \in S : m <= n
<1>1. PICK m \in S : \A n \in S : ~(<<n, m>> \in OpToRel(<, Nat))
  BY NatLessThanWellFounded, WFMin
<1>2. \A n \in S : m <= n
  <2> TAKE n \in S
  <2>1. <<n, m>> \in Nat \X Nat OBVIOUS
  <2>2. ~(n < m) BY <1>1, <2>1 DEF OpToRel
  <2>3. QED BY <2>1, <2>2
<1>3. QED BY <1>2

\* A sequence of several bytes ends behind the first of its ends.
LEMMA FirstEndIs ==
  ASSUME NEW t \in Seq(Runes), NEW ends \in SUBSET Nat
  PROVE  /\ ends = {} => FirstEnd(t, ends) = Len(t) + 1
         /\ \A m \in ends : (\A k \in ends : m <= k) => FirstEnd(t, ends) = m + 1
         /\ ends # {} => \E m \in ends : FirstEnd(t, ends) = m + 1
<1>1. \A m \in ends : (\A k \in ends : m <= k) => FirstEnd(t, ends) = m + 1
  <2> SUFFICES ASSUME NEW m \in ends, \A k \in ends : m <= k
               PROVE  FirstEnd(t, ends) = m + 1
    OBVIOUS
  <2> DEFINE c == CHOOSE j \in ends : \A k \in ends : j <= k
  <2>1. c \in ends /\ \A k \in ends : c <= k OBVIOUS
  <2>2. FirstEnd(t, ends) = 1 + c BY DEF FirstEnd
  <2> HIDE DEF c
  <2>3. c <= m /\ m <= c /\ c \in Nat /\ m \in Nat BY <2>1
  <2>4. QED BY <2>2, <2>3
<1>2. ends # {} => \E m \in ends : FirstEnd(t, ends) = m + 1
  BY <1>1, Least
<1>3. QED BY <1>1, <1>2 DEF FirstEnd

\* Every sequence ends behind its start and within the text.
LEMMA EndWithin ==
  ASSUME NEW t \in Seq(Runes), NEW i \in 1..Len(t)
  PROVE  SequenceEnd(t, i, Strings) \in i + 1..Len(t) + 1
<1>1. Len(t) \in Nat OBVIOUS
<1>2. ASSUME NEW ends \in SUBSET (i + 2..Len(t))
      PROVE  FirstEnd(t, ends) \in i + 1..Len(t) + 1
  <2>1. ends \in SUBSET Nat BY <1>1
  <2>2. CASE ends = {}
    <3>1. FirstEnd(t, ends) = Len(t) + 1 BY <2>1, <2>2, FirstEndIs
    <3>2. QED BY <1>1, <3>1
  <2>3. CASE ends # {}
    <3>1. PICK m \in ends : FirstEnd(t, ends) = m + 1 BY <2>1, <2>3, FirstEndIs
    <3>2. m \in i + 2..Len(t) OBVIOUS
    <3>3. QED BY <1>1, <3>1, <3>2
  <2>4. QED BY <2>2, <2>3
<1> DEFINE F == {j \in i + 2..Len(t) : FinalByte(t, j)}
           E == {j \in i + 2..Len(t) : Terminator(t, i, j, Strings)}
<1>3. F \in SUBSET (i + 2..Len(t)) /\ E \in SUBSET (i + 2..Len(t)) OBVIOUS
<1>4. CASE i = Len(t)
  <2>1. SequenceEnd(t, i, Strings) = i + 1 BY <1>4 DEF SequenceEnd, Strings
  <2>2. QED BY <1>1, <2>1
<1>5. CASE i # Len(t) /\ t[i + 1] = "["
  <2>1. i < Len(t) BY <1>1, <1>5
  <2>2. SequenceEnd(t, i, Strings) = FirstEnd(t, F) BY <1>5, <2>1 DEF SequenceEnd, Strings
  <2> HIDE DEF F
  <2>3. QED BY <1>2, <1>3, <2>2
<1>6. CASE i # Len(t) /\ t[i + 1] \in Strings
  <2>1. i < Len(t) BY <1>1, <1>6
  <2>2. SequenceEnd(t, i, Strings) = FirstEnd(t, E) BY <1>6, <2>1 DEF SequenceEnd, Strings
  <2> HIDE DEF E
  <2>3. QED BY <1>2, <1>3, <2>2
<1>7. CASE i # Len(t) /\ t[i + 1] \notin Strings \cup {"["}
  <2>1. i < Len(t) BY <1>1, <1>7
  <2>2. SequenceEnd(t, i, Strings) = i + 2 BY <1>7, <2>1 DEF SequenceEnd, Strings
  <2>3. QED BY <1>1, <2>1, <2>2
<1>8. QED BY <1>4, <1>5, <1>6, <1>7

\* What is visible of t from i on, if f says it for the later positions
Shown(t, f, i) ==
  IF i = Len(t) + 1 THEN << >>
  ELSE IF t[i] = "ESC" THEN f[SequenceEnd(t, i, Strings)]
  ELSE IF t[i] \in Visible THEN <<t[i]>> \o f[i + 1]
  ELSE f[i + 1]

LEMMA ShownOf ==
  ASSUME NEW t \in Seq(Runes), NEW i \in 1..Len(t) + 1, NEW f,
         \A j \in i + 1..Len(t) + 1 : f[j] \in Seq(Visible)
  PROVE  Shown(t, f, i) \in Seq(Visible)
<1>1. Len(t) \in Nat OBVIOUS
<1>2. CASE i = Len(t) + 1 BY <1>2 DEF Shown
<1>3. CASE i # Len(t) + 1
  <2>1. i \in 1..Len(t) /\ i + 1 \in i + 1..Len(t) + 1 BY <1>1, <1>3
  <2>2. SequenceEnd(t, i, Strings) \in i + 1..Len(t) + 1 BY <2>1, EndWithin
  <2>3. CASE t[i] = "ESC" BY <1>3, <2>2, <2>3 DEF Shown
  <2>4. CASE t[i] # "ESC" /\ t[i] \in Visible
    <3>1. f[i + 1] \in Seq(Visible) /\ <<t[i]>> \in Seq(Visible) BY <2>1, <2>4
    <3>2. <<t[i]>> \o f[i + 1] \in Seq(Visible) BY <3>1, ConcatProperties
    <3>3. QED BY <1>3, <2>4, <3>2 DEF Shown
  <2>5. CASE t[i] # "ESC" /\ t[i] \notin Visible BY <1>3, <2>1, <2>5 DEF Shown
  <2>6. QED BY <2>3, <2>4, <2>5
<1>4. QED BY <1>2, <1>3

\* f says what is visible of t from k on.
Tells(t, f, k) ==
  /\ f \in [k..Len(t) + 1 -> Seq(Visible)]
  /\ \A i \in k..Len(t) + 1 : f[i] = Shown(t, f, i)

LEMMA TellsOneMore ==
  ASSUME NEW t \in Seq(Runes), NEW k \in 1..Len(t), NEW f, Tells(t, f, k + 1)
  PROVE  \E g : Tells(t, g, k)
<1>1. Len(t) \in Nat /\ f \in [k + 1..Len(t) + 1 -> Seq(Visible)] BY DEF Tells
<1> DEFINE g == [i \in k..Len(t) + 1 |-> IF i = k THEN Shown(t, f, k) ELSE f[i]]
<1>2. \A j \in k + 1..Len(t) + 1 : f[j] \in Seq(Visible) BY <1>1
<1>3. k \in 1..Len(t) + 1 BY <1>1
<1>4. Shown(t, f, k) \in Seq(Visible) BY <1>2, <1>3, ShownOf
<1>5. g \in [k..Len(t) + 1 -> Seq(Visible)] BY <1>1, <1>4
<1>6. \A j \in k + 1..Len(t) + 1 : g[j] = f[j] BY <1>1
<1>7. g[k] = Shown(t, f, k) BY <1>3
<1> HIDE DEF g
<1>8. ASSUME NEW i \in k..Len(t) + 1 PROVE Shown(t, g, i) = Shown(t, f, i)
  <2>1. CASE i = Len(t) + 1 BY <2>1 DEF Shown
  <2>2. CASE i # Len(t) + 1
    <3>1. i \in 1..Len(t) /\ i + 1 \in k + 1..Len(t) + 1 BY <1>1, <2>2
    <3>2. SequenceEnd(t, i, Strings) \in i + 1..Len(t) + 1 BY <3>1, EndWithin
    <3>3. SequenceEnd(t, i, Strings) \in k + 1..Len(t) + 1 BY <1>1, <3>2
    <3>4. QED BY <1>6, <3>1, <3>3 DEF Shown
  <2>3. QED BY <2>1, <2>2
<1>9. ASSUME NEW i \in k..Len(t) + 1 PROVE g[i] = Shown(t, g, i)
  <2>1. CASE i = k BY <1>7, <1>8, <2>1
  <2>2. CASE i # k
    <3>1. i \in k + 1..Len(t) + 1 BY <1>1, <2>2
    <3>2. f[i] = Shown(t, f, i) BY <3>1 DEF Tells
    <3>3. QED BY <1>6, <1>8, <3>1, <3>2
  <2>3. QED BY <2>1, <2>2
<1>10. Tells(t, g, k) BY <1>5, <1>9 DEF Tells
<1>11. QED BY <1>10

LEMMA SomeTells ==
  ASSUME NEW t \in Seq(Runes)
  PROVE  \E f : Tells(t, f, 1)
<1>1. Len(t) \in Nat OBVIOUS
<1> DEFINE S == {k \in 1..Len(t) + 1 : \E f : Tells(t, f, k)}
<1>2. Len(t) + 1 \in S
  <2> DEFINE f == [i \in Len(t) + 1..Len(t) + 1 |-> << >>]
  <2>1. f \in [Len(t) + 1..Len(t) + 1 -> Seq(Visible)] OBVIOUS
  <2>2. \A i \in Len(t) + 1..Len(t) + 1 : i = Len(t) + 1 BY <1>1
  <2>3. \A i \in Len(t) + 1..Len(t) + 1 : f[i] = << >> OBVIOUS
  <2> HIDE DEF f
  <2>4. \A i \in Len(t) + 1..Len(t) + 1 : f[i] = Shown(t, f, i) BY <2>2, <2>3 DEF Shown
  <2>5. Tells(t, f, Len(t) + 1) BY <2>1, <2>4 DEF Tells
  <2>6. QED BY <1>1, <2>5
<1>3. PICK m \in S : \A k \in S : m <= k
  <2>1. S \in SUBSET Nat /\ S # {} BY <1>1, <1>2
  <2> HIDE DEF S
  <2>2. QED BY <2>1, Least
<1>4. m \in 1..Len(t) + 1 /\ \E f : Tells(t, f, m) OBVIOUS
<1>5. CASE m = 1 BY <1>4, <1>5
<1>6. CASE m # 1
  <2>1. m - 1 \in 1..Len(t) /\ (m - 1) + 1 = m BY <1>1, <1>4, <1>6
  <2>2. PICK f : Tells(t, f, m) BY <1>4
  <2>3. Tells(t, f, (m - 1) + 1) BY <2>1, <2>2
  <2>4. \E g : Tells(t, g, m - 1) BY <2>1, <2>3, TellsOneMore
  <2>5. m - 1 \in S BY <1>1, <2>1, <2>4
  <2>6. m <= m - 1 BY <1>3, <2>5
  <2>7. QED BY <1>4, <2>6
<1>7. QED BY <1>5, <1>6

Means(t, f) ==
  f = [i \in 1..Len(t) + 1 |->
        IF i = Len(t) + 1 THEN << >>
        ELSE IF t[i] = "ESC" THEN f[SequenceEnd(t, i, Strings)]
        ELSE IF t[i] \in Visible THEN <<t[i]>> \o f[i + 1]
        ELSE f[i + 1]]

\* VisibleFrom says what is visible from every position on.
LEMMA VisibleTells ==
  ASSUME NEW t \in Seq(Runes)
  PROVE  /\ \A i \in 1..Len(t) + 1 : VisibleFrom(t, Strings)[i] \in Seq(Visible)
         /\ \A i \in 1..Len(t) + 1 : VisibleFrom(t, Strings)[i] = Shown(t, VisibleFrom(t, Strings), i)
<1>0. Len(t) \in Nat OBVIOUS
<1>1. PICK f : Tells(t, f, 1) BY SomeTells
<1>2. Means(t, f)
  <2>1. DOMAIN f = 1..Len(t) + 1 /\ f = [i \in DOMAIN f |-> f[i]] BY <1>1 DEF Tells
  <2>2. \A i \in 1..Len(t) + 1 : f[i] = Shown(t, f, i) BY <1>1 DEF Tells
  <2>3. f = [i \in 1..Len(t) + 1 |-> Shown(t, f, i)] BY <2>1, <2>2
  <2>4. QED BY <2>3 DEF Means, Shown
<1>3. VisibleFrom(t, Strings) = CHOOSE g : Means(t, g) BY DEF VisibleFrom, Means
<1>4. Means(t, VisibleFrom(t, Strings)) BY <1>2, <1>3
<1> DEFINE v == VisibleFrom(t, Strings)
<1>5. Means(t, v) BY <1>4
<1> HIDE DEF v
<1>6. \A i \in 1..Len(t) + 1 : v[i] = Shown(t, v, i)
  <2>1. v = [i \in 1..Len(t) + 1 |-> Shown(t, v, i)] BY <1>5 DEF Means, Shown
  <2>2. QED BY <2>1, Zenon
<1> DEFINE S == {i \in 1..Len(t) + 1 : ~\A j \in i..Len(t) + 1 : v[j] \in Seq(Visible)}
           T == {Len(t) + 1 - i : i \in S}
<1>7. S = {}
  <2> SUFFICES ASSUME S # {} PROVE FALSE OBVIOUS
  <2>1. T \in SUBSET Nat /\ T # {} BY <1>0
  <2>2. PICK d \in T : \A e \in T : d <= e
    <3> HIDE DEF T
    <3>1. QED BY <2>1, Least
  <2>3. PICK i \in S : d = Len(t) + 1 - i OBVIOUS
  <2>4. i \in 1..Len(t) + 1 OBVIOUS
  <2>5. \A j \in i + 1..Len(t) + 1 : v[j] \in Seq(Visible)
    <3>1. CASE i = Len(t) + 1 BY <1>0, <3>1
    <3>2. CASE i # Len(t) + 1
      <4>1. i + 1 \in 1..Len(t) + 1 BY <1>0, <2>4, <3>2
      <4>2. i + 1 \notin S
        <5> SUFFICES ASSUME i + 1 \in S PROVE FALSE OBVIOUS
        <5>1. Len(t) + 1 - (i + 1) \in T OBVIOUS
        <5>2. d <= Len(t) + 1 - (i + 1) BY <2>2, <5>1
        <5>3. QED BY <1>0, <2>3, <2>4, <5>2
      <4>3. QED BY <4>1, <4>2
    <3>3. QED BY <3>1, <3>2
  <2>6. v[i] \in Seq(Visible) BY <1>6, <2>4, <2>5, ShownOf
  <2>7. \A j \in i..Len(t) + 1 : j = i \/ j \in i + 1..Len(t) + 1 BY <1>0, <2>4
  <2>8. QED BY <2>5, <2>6, <2>7
<1>8. \A i \in 1..Len(t) + 1 : v[i] \in Seq(Visible)
  <2> TAKE i \in 1..Len(t) + 1
  <2>1. i \in i..Len(t) + 1 BY <1>0
  <2>2. QED BY <1>7, <2>1
<1>9. QED BY <1>6, <1>8 DEF v

\* Where a text that begins with r stands after r: all before b is settled, and
\* from b on r is an escape sequence that sanitize has not seen the end of.
Settled(r, c, b) ==
  \A u \in Seq(Runes) :
    Len(u) >= Len(r) /\ (\A i \in 1..Len(r) : u[i] = r[i])
      => VisibleFrom(u, Strings)[1] = c \o VisibleFrom(u, Strings)[b]

Unfinished(r, s, b) ==
  \/ s = "normal" /\ b = Len(r) + 1
  \/ s = "esc" /\ b = Len(r) /\ r[b] = "ESC"
  \/ /\ s = "csi" /\ b + 1 <= Len(r) /\ r[b] = "ESC" /\ r[b + 1] = "["
     /\ \A j \in b + 2..Len(r) : ~FinalByte(r, j)
  \/ /\ s \in {"string", "stringEsc"} /\ b + 1 <= Len(r) /\ r[b] = "ESC" /\ r[b + 1] \in Strings
     /\ \A j \in b + 2..Len(r) : ~Terminator(r, b, j, Strings)
     /\ s = "stringEsc" <=> r[Len(r)] = "ESC"

TextOK(r, s, c) ==
  /\ r \in Seq(Runes) /\ c \in Seq(Visible)
  /\ \E b \in 1..Len(r) + 1 : Settled(r, c, b) /\ Unfinished(r, s, b)

\* u reads r up to its length.
Extends(u, r) == Len(u) >= Len(r) /\ \A i \in 1..Len(r) : u[i] = r[i]

LEMMA AppendIs ==
  ASSUME NEW r \in Seq(Runes), NEW x \in Runes
  PROVE  /\ Append(r, x) \in Seq(Runes) /\ Len(Append(r, x)) = Len(r) + 1
         /\ \A i \in 1..Len(r) : Append(r, x)[i] = r[i]
         /\ Append(r, x)[Len(r) + 1] = x
BY AppendProperties

LEMMA Associative ==
  ASSUME NEW s1 \in Seq(Visible), NEW s2 \in Seq(Visible), NEW s3 \in Seq(Visible)
  PROVE  (s1 \o s2) \o s3 = s1 \o (s2 \o s3)
BY ConcatAssociative

\* What is settled stays settled, and more of it is when a step of the
\* recursion is known.
LEMMA SettledOn ==
  ASSUME NEW r \in Seq(Runes), NEW x \in Runes, NEW c \in Seq(Visible), NEW w \in Seq(Visible),
         NEW b \in 1..Len(r) + 1, NEW e \in 1..Len(r) + 2,
         Settled(r, c, b),
         \A u \in Seq(Runes) : Extends(u, Append(r, x)) =>
           VisibleFrom(u, Strings)[b] = w \o VisibleFrom(u, Strings)[e]
  PROVE  Settled(Append(r, x), c \o w, e)
<1> DEFINE q == Append(r, x)
<1>1. /\ Len(r) \in Nat /\ q \in Seq(Runes) /\ Len(q) = Len(r) + 1
      /\ \A i \in 1..Len(r) : q[i] = r[i]
  BY AppendIs
<1> HIDE DEF q
<1>2. ASSUME NEW u \in Seq(Runes), Len(u) >= Len(q), \A i \in 1..Len(q) : u[i] = q[i]
      PROVE  VisibleFrom(u, Strings)[1] = (c \o w) \o VisibleFrom(u, Strings)[e]
  <2>1. Len(u) \in Nat /\ Len(u) >= Len(r) BY <1>1, <1>2
  <2>2. \A i \in 1..Len(r) : i \in 1..Len(q) BY <1>1
  <2>3. \A i \in 1..Len(r) : u[i] = r[i] BY <1>1, <1>2, <2>2
  <2>4. VisibleFrom(u, Strings)[1] = c \o VisibleFrom(u, Strings)[b] BY <2>1, <2>3 DEF Settled
  <2>5. VisibleFrom(u, Strings)[b] = w \o VisibleFrom(u, Strings)[e] BY <1>2 DEF Extends, q
  <2>6. e \in 1..Len(u) + 1 BY <1>1, <1>2, <2>1
  <2>7. VisibleFrom(u, Strings)[e] \in Seq(Visible) BY <2>6, VisibleTells
  <2>8. (c \o w) \o VisibleFrom(u, Strings)[e] = c \o (w \o VisibleFrom(u, Strings)[e])
    BY <2>7, Associative
  <2>9. QED BY <2>4, <2>5, <2>8
<1>3. QED BY <1>2 DEF Settled, q

LEMMA SettledStill ==
  ASSUME NEW r \in Seq(Runes), NEW x \in Runes, NEW c \in Seq(Visible),
         NEW b \in 1..Len(r) + 1, Settled(r, c, b)
  PROVE  Settled(Append(r, x), c \o << >>, b)
<1>1. b \in 1..Len(r) + 2 /\ Len(r) \in Nat OBVIOUS
<1>2. \A u \in Seq(Runes) : Extends(u, Append(r, x)) =>
           VisibleFrom(u, Strings)[b] = << >> \o VisibleFrom(u, Strings)[b]
  <2> TAKE u \in Seq(Runes)
  <2> HAVE Extends(u, Append(r, x))
  <2>1. Len(u) \in Nat /\ Len(u) >= Len(r) + 1 BY <1>1, AppendIs DEF Extends
  <2>2. b \in 1..Len(u) + 1 BY <1>1, <2>1
  <2>3. VisibleFrom(u, Strings)[b] \in Seq(Visible) BY <2>2, VisibleTells
  <2>4. QED BY <2>3, ConcatEmptySeq
<1>3. << >> \in Seq(Visible) OBVIOUS
<1>4. QED BY <1>1, <1>2, <1>3, SettledOn

\* What is visible from b on once it is known where the sequence at b ends
LEMMA ShownSequence ==
  ASSUME NEW u \in Seq(Runes), NEW b \in 1..Len(u), u[b] = "ESC"
  PROVE  /\ VisibleFrom(u, Strings)[b] = VisibleFrom(u, Strings)[SequenceEnd(u, b, Strings)]
         /\ VisibleFrom(u, Strings)[b] = << >> \o VisibleFrom(u, Strings)[SequenceEnd(u, b, Strings)]
<1>1. Len(u) \in Nat /\ b \in 1..Len(u) + 1 /\ b # Len(u) + 1 OBVIOUS
<1>2. VisibleFrom(u, Strings)[b] = Shown(u, VisibleFrom(u, Strings), b) BY <1>1, VisibleTells
<1>3. VisibleFrom(u, Strings)[b] = VisibleFrom(u, Strings)[SequenceEnd(u, b, Strings)] BY <1>1, <1>2 DEF Shown
<1>4. VisibleFrom(u, Strings)[b] \in Seq(Visible) BY <1>1, VisibleTells
<1>5. QED BY <1>3, <1>4, ConcatEmptySeq

\* The first end of the sequence at b is the last rune read.
LEMMA EndsNow ==
  ASSUME NEW u \in Seq(Runes), NEW m \in Nat, m <= Len(u), NEW b \in 1..Len(u), b + 2 <= m,
         \/ /\ u[b + 1] = "[" /\ FinalByte(u, m)
            /\ \A j \in b + 2..m - 1 : ~FinalByte(u, j)
         \/ /\ u[b + 1] \in Strings /\ Terminator(u, b, m, Strings)
            /\ \A j \in b + 2..m - 1 : ~Terminator(u, b, j, Strings)
  PROVE  SequenceEnd(u, b, Strings) = m + 1
<1>0. Len(u) \in Nat /\ b < Len(u) /\ b # Len(u) OBVIOUS
<1> DEFINE F == {j \in b + 2..Len(u) : FinalByte(u, j)}
           E == {j \in b + 2..Len(u) : Terminator(u, b, j, Strings)}
<1>1. F \in SUBSET Nat /\ E \in SUBSET Nat BY <1>0
<1>2. \A j \in b + 2..Len(u) : j <= m - 1 => j \in b + 2..m - 1 BY <1>0
<1>3. \A j \in b + 2..Len(u) : ~(j <= m - 1) => m <= j BY <1>0
<1>4. CASE u[b + 1] = "[" /\ FinalByte(u, m) /\ \A j \in b + 2..m - 1 : ~FinalByte(u, j)
  <2>1. SequenceEnd(u, b, Strings) = FirstEnd(u, F) BY <1>0, <1>4 DEF SequenceEnd, Strings
  <2>2. m \in F BY <1>0, <1>4
  <2>3. \A k \in F : m <= k BY <1>2, <1>3, <1>4
  <2> HIDE DEF F
  <2>4. QED BY <1>1, <2>1, <2>2, <2>3, FirstEndIs
<1>5. CASE u[b + 1] \in Strings /\ Terminator(u, b, m, Strings) /\ \A j \in b + 2..m - 1 : ~Terminator(u, b, j, Strings)
  <2>1. SequenceEnd(u, b, Strings) = FirstEnd(u, E) BY <1>0, <1>5 DEF SequenceEnd, Strings
  <2>2. m \in E BY <1>0, <1>5
  <2>3. \A k \in E : m <= k BY <1>2, <1>3, <1>5
  <2> HIDE DEF E
  <2>4. QED BY <1>1, <2>1, <2>2, <2>3, FirstEndIs
<1>6. QED BY <1>4, <1>5

\* A text that stops in a sequence has nothing more to show.
LEMMA StopsThere ==
  ASSUME NEW r \in Seq(Runes), NEW s, NEW b \in 1..Len(r) + 1, Unfinished(r, s, b)
  PROVE  VisibleFrom(r, Strings)[b] = << >>
<1>0. Len(r) \in Nat OBVIOUS
<1>1. VisibleFrom(r, Strings)[Len(r) + 1] = << >>
  <2>1. Len(r) + 1 \in 1..Len(r) + 1 BY <1>0
  <2>2. VisibleFrom(r, Strings)[Len(r) + 1] = Shown(r, VisibleFrom(r, Strings), Len(r) + 1) BY <2>1, VisibleTells
  <2>3. QED BY <2>2 DEF Shown
<1>2. CASE s = "normal" /\ b = Len(r) + 1 BY <1>1, <1>2
<1>3. ASSUME b <= Len(r), r[b] = "ESC", SequenceEnd(r, b, Strings) = Len(r) + 1
      PROVE  VisibleFrom(r, Strings)[b] = << >>
  <2>1. b \in 1..Len(r) BY <1>0, <1>3
  <2>2. QED BY <1>1, <1>3, <2>1, ShownSequence
<1>4. CASE s = "esc" /\ b = Len(r) /\ r[b] = "ESC"
  <2>1. SequenceEnd(r, b, Strings) = Len(r) + 1 BY <1>4 DEF SequenceEnd, Strings
  <2>2. QED BY <1>0, <1>3, <1>4, <2>1
<1> DEFINE F == {j \in b + 2..Len(r) : FinalByte(r, j)}
           E == {j \in b + 2..Len(r) : Terminator(r, b, j, Strings)}
<1>5. CASE /\ s = "csi" /\ b + 1 <= Len(r) /\ r[b] = "ESC" /\ r[b + 1] = "["
           /\ \A j \in b + 2..Len(r) : ~FinalByte(r, j)
  <2>1. b <= Len(r) /\ b < Len(r) /\ b # Len(r) BY <1>0, <1>5
  <2>2. SequenceEnd(r, b, Strings) = FirstEnd(r, F) BY <1>5, <2>1 DEF SequenceEnd, Strings
  <2>3. F = {} BY <1>5
  <2> HIDE DEF F
  <2>4. SequenceEnd(r, b, Strings) = Len(r) + 1 BY <2>2, <2>3 DEF FirstEnd
  <2>5. QED BY <1>3, <1>5, <2>1, <2>4
<1>6. CASE /\ s \in {"string", "stringEsc"} /\ b + 1 <= Len(r) /\ r[b] = "ESC" /\ r[b + 1] \in Strings
           /\ \A j \in b + 2..Len(r) : ~Terminator(r, b, j, Strings)
  <2>1. b <= Len(r) /\ b < Len(r) /\ b # Len(r) BY <1>0, <1>6
  <2>2. SequenceEnd(r, b, Strings) = FirstEnd(r, E) BY <1>6, <2>1 DEF SequenceEnd, Strings
  <2>3. E = {} BY <1>6
  <2> HIDE DEF E
  <2>4. SequenceEnd(r, b, Strings) = Len(r) + 1 BY <2>2, <2>3 DEF FirstEnd
  <2>5. QED BY <1>3, <1>6, <2>1, <2>4
<1>7. QED BY <1>2, <1>4, <1>5, <1>6 DEF Unfinished

LEMMA TextOKExact ==
  ASSUME NEW r, NEW s, NEW c, TextOK(r, s, c)
  PROVE  c = VisibleText(r, Strings)
<1>1. r \in Seq(Runes) /\ c \in Seq(Visible) BY DEF TextOK
<1>2. PICK b \in 1..Len(r) + 1 : Settled(r, c, b) /\ Unfinished(r, s, b) BY DEF TextOK
<1>3. VisibleFrom(r, Strings)[1] = c \o VisibleFrom(r, Strings)[b]
  <2>1. Len(r) >= Len(r) BY <1>1
  <2>2. QED BY <1>1, <1>2, <2>1 DEF Settled
<1>4. VisibleFrom(r, Strings)[b] = << >> BY <1>1, <1>2, StopsThere
<1>5. c \o << >> = c BY <1>1, ConcatEmptySeq
<1>6. QED BY <1>3, <1>4, <1>5 DEF VisibleText

\* A rune that sanitize swallows without leaving what it is in
LEMMA StaysInside ==
  ASSUME NEW r \in Seq(Runes), NEW x \in Runes, NEW s, NEW c \in Seq(Visible),
         NEW b \in 1..Len(r) + 1, Settled(r, c, b),
         Unfinished(Append(r, x), s, b)
  PROVE  TextOK(Append(r, x), s, c \o << >>)
<1>1. Append(r, x) \in Seq(Runes) /\ Len(Append(r, x)) = Len(r) + 1 BY AppendIs
<1>2. b \in 1..Len(Append(r, x)) + 1 BY <1>1
<1>3. c \o << >> \in Seq(Visible) BY ConcatEmptySeq
<1>4. Settled(Append(r, x), c \o << >>, b) BY SettledStill
<1>5. QED BY <1>1, <1>2, <1>3, <1>4 DEF TextOK

\* A rune that ends what sanitize is in: the next one is a fresh start.
LEMMA StartsAfresh ==
  ASSUME NEW r \in Seq(Runes), NEW x \in Runes, NEW c \in Seq(Visible), NEW w \in Seq(Visible),
         NEW b \in 1..Len(r) + 1, Settled(r, c, b),
         \A u \in Seq(Runes) : Extends(u, Append(r, x)) =>
           VisibleFrom(u, Strings)[b] = w \o VisibleFrom(u, Strings)[Len(r) + 2]
  PROVE  TextOK(Append(r, x), "normal", c \o w)
<1>1. Append(r, x) \in Seq(Runes) /\ Len(Append(r, x)) = Len(r) + 1 /\ Len(r) \in Nat BY AppendIs
<1>2. Len(r) + 2 \in 1..Len(r) + 2 /\ Len(r) + 2 \in 1..Len(Append(r, x)) + 1 BY <1>1
<1>3. c \o w \in Seq(Visible) BY ConcatProperties
<1>4. Settled(Append(r, x), c \o w, Len(r) + 2) BY <1>2, SettledOn
<1>5. Len(Append(r, x)) + 1 = Len(r) + 2 BY <1>1
<1>6. Unfinished(Append(r, x), "normal", Len(r) + 2) BY <1>5 DEF Unfinished
<1>7. QED BY <1>1, <1>2, <1>3, <1>4, <1>6 DEF TextOK

LEMMA ReadNormal ==
  ASSUME NEW r \in Seq(Runes), NEW x \in Runes, NEW c, TextOK(r, "normal", c)
  PROVE  TextOK(Append(r, x), After("normal", x), c \o Written("normal", x))
<1>1. c \in Seq(Visible) BY DEF TextOK
<1>2. PICK b \in 1..Len(r) + 1 : Settled(r, c, b) /\ Unfinished(r, "normal", b) BY DEF TextOK
<1>3. b = Len(r) + 1 /\ Len(r) \in Nat BY <1>2 DEF Unfinished
<1> DEFINE q == Append(r, x)
<1>4. q \in Seq(Runes) /\ Len(q) = Len(r) + 1 /\ q[Len(r) + 1] = x BY AppendIs
<1>5. CASE x = "ESC"
  <2>1. After("normal", x) = "esc" /\ Written("normal", x) = << >>
    BY <1>5 DEF After, Written, Visible
  <2>2. Unfinished(q, "esc", b)
    <3> HIDE DEF q
    <3>1. QED BY <1>3, <1>4, <1>5 DEF Unfinished
  <2>3. TextOK(q, "esc", c \o << >>) BY <1>1, <1>2, <2>2, StaysInside
  <2>4. QED BY <2>1, <2>3
<1>6. CASE x # "ESC"
  <2> DEFINE w == Written("normal", x)
  <2>1. After("normal", x) = "normal" BY <1>6 DEF After
  <2>2. w \in Seq(Visible) BY DEF Written
  <2>3. \A u \in Seq(Runes) : Extends(u, q) => VisibleFrom(u, Strings)[b] = w \o VisibleFrom(u, Strings)[Len(r) + 2]
    <3> TAKE u \in Seq(Runes)
    <3> HAVE Extends(u, q)
    <3>1. /\ Len(u) \in Nat /\ Len(u) >= Len(r) + 1 /\ u[Len(r) + 1] = x
          /\ Len(r) + 1 # Len(u) + 1 /\ Len(r) + 1 \in 1..Len(u) + 1 /\ Len(r) + 2 \in 1..Len(u) + 1
      <4> HIDE DEF q
      <4>1. Len(r) + 1 \in 1..Len(q) BY <1>3, <1>4
      <4>2. u[Len(r) + 1] = x BY <1>4, <4>1 DEF Extends
      <4>3. Len(u) \in Nat /\ Len(u) >= Len(r) + 1 BY <1>4 DEF Extends
      <4>4. QED BY <1>3, <4>2, <4>3
    <3>2. VisibleFrom(u, Strings)[Len(r) + 1] = Shown(u, VisibleFrom(u, Strings), Len(r) + 1) BY <3>1, VisibleTells
    <3>3. VisibleFrom(u, Strings)[Len(r) + 2] \in Seq(Visible) BY <3>1, VisibleTells
    <3>4. (Len(r) + 1) + 1 = Len(r) + 2 BY <1>3
    <3>5. CASE x \in Visible
      <4>1. w = <<x>> BY <3>5 DEF Written
      <4>2. VisibleFrom(u, Strings)[Len(r) + 1] = <<x>> \o VisibleFrom(u, Strings)[Len(r) + 2]
        BY <1>6, <3>1, <3>2, <3>4, <3>5 DEF Shown
      <4>3. QED BY <1>3, <4>1, <4>2
    <3>6. CASE x \notin Visible
      <4>1. w = << >> BY <3>6 DEF Written
      <4>2. VisibleFrom(u, Strings)[Len(r) + 1] = VisibleFrom(u, Strings)[Len(r) + 2]
        BY <1>6, <3>1, <3>2, <3>4, <3>6 DEF Shown
      <4>3. << >> \o VisibleFrom(u, Strings)[Len(r) + 2] = VisibleFrom(u, Strings)[Len(r) + 2]
        BY <3>3, ConcatEmptySeq
      <4>4. QED BY <1>3, <4>1, <4>2, <4>3
    <3>7. QED BY <3>5, <3>6
  <2> HIDE DEF w, q
  <2>4. TextOK(Append(r, x), "normal", c \o w) BY <1>1, <1>2, <2>2, <2>3, StartsAfresh DEF q
  <2>5. QED BY <2>1, <2>4 DEF w
<1>7. QED BY <1>5, <1>6

LEMMA ReadEsc ==
  ASSUME NEW r \in Seq(Runes), NEW x \in Runes, NEW c, TextOK(r, "esc", c)
  PROVE  TextOK(Append(r, x), After("esc", x), c \o Written("esc", x))
<1>1. c \in Seq(Visible) BY DEF TextOK
<1>2. PICK b \in 1..Len(r) + 1 : Settled(r, c, b) /\ Unfinished(r, "esc", b) BY DEF TextOK
<1>3. b = Len(r) /\ Len(r) \in Nat /\ r[b] = "ESC" BY <1>2 DEF Unfinished
<1> DEFINE q == Append(r, x)
<1>4. /\ q \in Seq(Runes) /\ Len(q) = Len(r) + 1 /\ q[Len(r) + 1] = x
      /\ \A i \in 1..Len(r) : q[i] = r[i]
  BY AppendIs
<1>5. Written("esc", x) = << >> BY DEF Written
<1>6. b \in 1..Len(r) BY <1>2, <1>3
<1>7. q[b] = "ESC" /\ q[b + 1] = x /\ b + 1 = Len(q)
  <2> HIDE DEF q
  <2>1. QED BY <1>3, <1>4, <1>6
<1>8. \A j \in b + 2..Len(q) : FALSE
  <2> HIDE DEF q
  <2>1. QED BY <1>3, <1>7
<1>9. CASE x = "["
  <2>1. After("esc", x) = "csi" BY <1>9 DEF After, Strings
  <2>2. Unfinished(q, "csi", b)
    <3> HIDE DEF q
    <3>1. b + 1 <= Len(q) BY <1>3, <1>7
    <3>2. QED BY <1>7, <1>8, <1>9, <3>1 DEF Unfinished
  <2>3. TextOK(q, "csi", c \o << >>) BY <1>1, <1>2, <2>2, StaysInside
  <2>4. QED BY <1>5, <2>1, <2>3
<1>10. CASE x \in Strings
  <2>1. After("esc", x) = "string" BY <1>10 DEF After, Strings
  <2>2. Unfinished(q, "string", b)
    <3> HIDE DEF q
    <3>1. b + 1 <= Len(q) /\ q[Len(q)] # "ESC" BY <1>3, <1>7, <1>10 DEF Strings
    <3>2. QED BY <1>7, <1>8, <1>10, <3>1 DEF Unfinished
  <2>3. TextOK(q, "string", c \o << >>) BY <1>1, <1>2, <2>2, StaysInside
  <2>4. QED BY <1>5, <2>1, <2>3
<1>11. CASE x \notin Strings \cup {"["}
  <2>1. After("esc", x) = "normal" BY <1>11 DEF After, Strings
  <2>2. \A u \in Seq(Runes) : Extends(u, q) => VisibleFrom(u, Strings)[b] = << >> \o VisibleFrom(u, Strings)[Len(r) + 2]
    <3> TAKE u \in Seq(Runes)
    <3> HAVE Extends(u, q)
    <3>1. Len(u) \in Nat /\ Len(u) >= Len(q) /\ \A i \in 1..Len(q) : u[i] = q[i] BY DEF Extends
    <3> HIDE DEF q
    <3>2. b \in 1..Len(q) /\ b + 1 \in 1..Len(q) BY <1>3, <1>4, <1>6
    <3>3. u[b] = "ESC" /\ u[b + 1] = x BY <1>7, <3>1, <3>2
    <3>4. b \in 1..Len(u) /\ b < Len(u) /\ b # Len(u) BY <1>3, <1>4, <1>6, <3>1
    <3>5. SequenceEnd(u, b, Strings) = b + 2 BY <1>11, <3>3, <3>4 DEF SequenceEnd, Strings
    <3>6. QED BY <1>3, <3>3, <3>4, <3>5, ShownSequence
  <2>3. << >> \in Seq(Visible) OBVIOUS
  <2>4. TextOK(Append(r, x), "normal", c \o << >>) BY <1>1, <1>2, <2>2, <2>3, StartsAfresh
  <2>5. QED BY <1>5, <2>1, <2>4
<1>12. QED BY <1>9, <1>10, <1>11

LEMMA ReadCsi ==
  ASSUME NEW r \in Seq(Runes), NEW x \in Runes, NEW c, TextOK(r, "csi", c)
  PROVE  TextOK(Append(r, x), After("csi", x), c \o Written("csi", x))
<1>1. c \in Seq(Visible) BY DEF TextOK
<1>2. PICK b \in 1..Len(r) + 1 : Settled(r, c, b) /\ Unfinished(r, "csi", b) BY DEF TextOK
<1>3. /\ b + 1 <= Len(r) /\ Len(r) \in Nat /\ r[b] = "ESC" /\ r[b + 1] = "["
      /\ \A j \in b + 2..Len(r) : ~FinalByte(r, j)
  BY <1>2 DEF Unfinished
<1> DEFINE q == Append(r, x)
<1>4. /\ q \in Seq(Runes) /\ Len(q) = Len(r) + 1 /\ q[Len(r) + 1] = x
      /\ \A i \in 1..Len(r) : q[i] = r[i]
  BY AppendIs
<1>5. Written("csi", x) = << >> BY DEF Written
<1> HIDE DEF q
<1>6. b \in 1..Len(r) /\ b + 1 \in 1..Len(r) BY <1>3
<1>7. q[b] = "ESC" /\ q[b + 1] = "[" BY <1>3, <1>4, <1>6
<1>8. \A j \in b + 2..Len(r) : ~FinalByte(q, j)
  <2> TAKE j \in b + 2..Len(r)
  <2>1. j \in 1..Len(r) BY <1>3
  <2>2. q[j] = r[j] BY <1>4, <2>1
  <2>3. QED BY <1>3, <2>2 DEF FinalByte
<1>9. CASE x \notin Final
  <2>1. After("csi", x) = "csi" BY <1>9 DEF After
  <2>2. \A j \in b + 2..Len(q) : ~FinalByte(q, j)
    <3> TAKE j \in b + 2..Len(q)
    <3>1. CASE j = Len(r) + 1 BY <1>4, <1>9, <3>1 DEF FinalByte
    <3>2. CASE j # Len(r) + 1
      <4>1. j \in b + 2..Len(r) BY <1>3, <1>4, <3>2
      <4>2. QED BY <1>8, <4>1
    <3>3. QED BY <3>1, <3>2
  <2>3. b + 1 <= Len(q) BY <1>3, <1>4
  <2>4. Unfinished(q, "csi", b) BY <1>7, <2>2, <2>3 DEF Unfinished
  <2>5. TextOK(q, "csi", c \o << >>) BY <1>1, <1>2, <2>4, StaysInside DEF q
  <2>6. QED BY <1>5, <2>1, <2>5 DEF q
<1>10. CASE x \in Final
  <2>1. After("csi", x) = "normal" BY <1>10 DEF After
  <2>2. \A u \in Seq(Runes) : Extends(u, q) => VisibleFrom(u, Strings)[b] = << >> \o VisibleFrom(u, Strings)[Len(r) + 2]
    <3> TAKE u \in Seq(Runes)
    <3> HAVE Extends(u, q)
    <3>1. Len(u) \in Nat /\ Len(u) >= Len(q) /\ \A i \in 1..Len(q) : u[i] = q[i] BY DEF Extends
    <3>2. b \in 1..Len(q) /\ b + 1 \in 1..Len(q) /\ Len(q) \in 1..Len(q) BY <1>3, <1>4, <1>6
    <3>3. u[b] = "ESC" /\ u[b + 1] = "[" /\ u[Len(q)] = x BY <1>4, <1>7, <3>1, <3>2
    <3>4. \A j \in b + 2..Len(q) - 1 : ~FinalByte(u, j)
      <4> TAKE j \in b + 2..Len(q) - 1
      <4>1. j \in b + 2..Len(r) /\ j \in 1..Len(q) BY <1>3, <1>4
      <4>2. QED BY <1>8, <3>1, <4>1 DEF FinalByte
    <3>5. FinalByte(u, Len(q)) BY <1>10, <3>3 DEF FinalByte
    <3>6. b \in 1..Len(u) /\ b + 2 <= Len(q) /\ Len(q) \in Nat BY <1>3, <1>4, <1>6, <3>1
    <3>7. SequenceEnd(u, b, Strings) = Len(q) + 1 BY <3>1, <3>3, <3>4, <3>5, <3>6, EndsNow
    <3>8. Len(q) + 1 = Len(r) + 2 BY <1>3, <1>4
    <3>9. QED BY <3>3, <3>6, <3>7, <3>8, ShownSequence
  <2>3. << >> \in Seq(Visible) OBVIOUS
  <2>4. TextOK(Append(r, x), "normal", c \o << >>) BY <1>1, <1>2, <2>2, <2>3, StartsAfresh DEF q
  <2>5. QED BY <1>5, <2>1, <2>4
<1>11. QED BY <1>9, <1>10

LEMMA ReadString ==
  ASSUME NEW r \in Seq(Runes), NEW x \in Runes, NEW s \in {"string", "stringEsc"}, NEW c,
         TextOK(r, s, c)
  PROVE  TextOK(Append(r, x), After(s, x), c \o Written(s, x))
<1>1. c \in Seq(Visible) BY DEF TextOK
<1>2. PICK b \in 1..Len(r) + 1 : Settled(r, c, b) /\ Unfinished(r, s, b) BY DEF TextOK
<1>3. /\ b + 1 <= Len(r) /\ Len(r) \in Nat /\ r[b] = "ESC" /\ r[b + 1] \in Strings
      /\ \A j \in b + 2..Len(r) : ~Terminator(r, b, j, Strings)
      /\ s = "stringEsc" <=> r[Len(r)] = "ESC"
  BY <1>2 DEF Unfinished
<1> DEFINE q == Append(r, x)
<1>4. /\ q \in Seq(Runes) /\ Len(q) = Len(r) + 1 /\ q[Len(r) + 1] = x
      /\ \A i \in 1..Len(r) : q[i] = r[i]
  BY AppendIs
<1>5. Written(s, x) = << >> BY DEF Written
<1> HIDE DEF q
<1>6. b \in 1..Len(r) /\ b + 1 \in 1..Len(r) BY <1>3
<1>7. q[b] = "ESC" /\ q[b + 1] \in Strings BY <1>3, <1>4, <1>6
<1>8. \A j \in b + 2..Len(r) : ~Terminator(q, b, j, Strings)
  <2> TAKE j \in b + 2..Len(r)
  <2>1. j \in 1..Len(r) /\ j - 1 \in 1..Len(r) BY <1>3
  <2>2. q[j] = r[j] /\ q[j - 1] = r[j - 1] BY <1>4, <2>1
  <2>3. QED BY <1>3, <2>2 DEF Terminator
<1> DEFINE ends == IF s = "stringEsc" THEN x = "\\" ELSE x = "BEL"
<1>9. Terminator(q, b, Len(q), Strings) <=> ends
  <2>1. Len(q) - 1 = Len(r) /\ Len(r) \in 1..Len(r) BY <1>3, <1>4
  <2>2. q[Len(q) - 1] = r[Len(r)] /\ q[Len(q)] = x BY <1>4, <2>1
  <2>3. QED BY <1>3, <1>7, <2>2 DEF Terminator
<1>10. CASE ~ends
  <2> DEFINE a == IF x = "ESC" THEN "stringEsc" ELSE "string"
  <2>1. After(s, x) = a BY <1>10 DEF After
  <2>2. \A j \in b + 2..Len(q) : ~Terminator(q, b, j, Strings)
    <3> TAKE j \in b + 2..Len(q)
    <3>1. CASE j = Len(q) BY <1>9, <1>10, <3>1
    <3>2. CASE j # Len(q)
      <4>1. j \in b + 2..Len(r) BY <1>3, <1>4, <3>2
      <4>2. QED BY <1>8, <4>1
    <3>3. QED BY <3>1, <3>2
  <2>3. b + 1 <= Len(q) BY <1>3, <1>4
  <2>4. a = "stringEsc" <=> q[Len(q)] = "ESC" BY <1>4
  <2>5. a \in {"string", "stringEsc"} OBVIOUS
  <2> HIDE DEF a
  <2>6. Unfinished(q, a, b) BY <1>7, <2>2, <2>3, <2>4, <2>5 DEF Unfinished
  <2>7. TextOK(q, a, c \o << >>) BY <1>1, <1>2, <2>6, StaysInside DEF q
  <2>8. QED BY <1>5, <2>1, <2>7 DEF q
<1>11. CASE ends
  <2>1. After(s, x) = "normal" BY <1>11 DEF After
  <2>2. \A u \in Seq(Runes) : Extends(u, q) => VisibleFrom(u, Strings)[b] = << >> \o VisibleFrom(u, Strings)[Len(r) + 2]
    <3> TAKE u \in Seq(Runes)
    <3> HAVE Extends(u, q)
    <3>1. Len(u) \in Nat /\ Len(u) >= Len(q) /\ \A i \in 1..Len(q) : u[i] = q[i] BY DEF Extends
    <3>2. b \in 1..Len(q) /\ b + 1 \in 1..Len(q) /\ Len(q) \in 1..Len(q) BY <1>3, <1>4, <1>6
    <3>3. u[b] = "ESC" /\ u[b + 1] \in Strings BY <1>7, <3>1, <3>2
    <3>4. \A j \in b + 2..Len(q) : Terminator(u, b, j, Strings) <=> Terminator(q, b, j, Strings)
      <4> TAKE j \in b + 2..Len(q)
      <4>1. j \in 1..Len(q) /\ j - 1 \in 1..Len(q) BY <1>3, <1>4
      <4>2. u[j] = q[j] /\ u[j - 1] = q[j - 1] BY <3>1, <4>1
      <4>3. QED BY <1>7, <3>3, <4>2 DEF Terminator
    <3>5. b + 2 <= Len(q)
      <4>1. CASE s = "stringEsc"
        <5>1. b + 1 # Len(r) BY <1>3, <4>1 DEF Strings
        <5>2. QED BY <1>3, <1>4, <5>1
      <4>2. CASE s = "string" BY <1>3, <1>4
      <4>3. QED BY <4>1, <4>2
    <3>6. Len(q) \in b + 2..Len(q) BY <1>3, <1>4, <3>5
    <3>7. Terminator(u, b, Len(q), Strings) BY <1>9, <1>11, <3>4, <3>6
    <3>8. \A j \in b + 2..Len(q) - 1 : ~Terminator(u, b, j, Strings)
      <4> TAKE j \in b + 2..Len(q) - 1
      <4>1. j \in b + 2..Len(r) /\ j \in b + 2..Len(q) BY <1>3, <1>4
      <4>2. QED BY <1>8, <3>4, <4>1
    <3>9. b \in 1..Len(u) /\ Len(q) \in Nat BY <1>3, <1>4, <1>6, <3>1
    <3>10. SequenceEnd(u, b, Strings) = Len(q) + 1 BY <3>1, <3>3, <3>5, <3>7, <3>8, <3>9, EndsNow
    <3>11. Len(q) + 1 = Len(r) + 2 BY <1>3, <1>4
    <3>12. QED BY <3>3, <3>9, <3>10, <3>11, ShownSequence
  <2>3. << >> \in Seq(Visible) OBVIOUS
  <2>4. TextOK(Append(r, x), "normal", c \o << >>) BY <1>1, <1>2, <2>2, <2>3, StartsAfresh DEF q
  <2>5. QED BY <1>5, <2>1, <2>4
<1>12. QED BY <1>10, <1>11

TextInv == state \in States /\ TextOK(raw, state, clean)

LEMMA NoTextYet == TextOK(<< >>, "normal", << >>)
<1>1. << >> \in Seq(Runes) /\ << >> \in Seq(Visible) /\ Len(<< >>) = 0 /\ 1 \in 1..0 + 1 OBVIOUS
<1>2. Settled(<< >>, << >>, 1)
  <2>1. ASSUME NEW u \in Seq(Runes) PROVE VisibleFrom(u, Strings)[1] = << >> \o VisibleFrom(u, Strings)[1]
    <3>1. 1 \in 1..Len(u) + 1 OBVIOUS
    <3>2. VisibleFrom(u, Strings)[1] \in Seq(Visible) BY <3>1, VisibleTells
    <3>3. QED BY <3>2, ConcatEmptySeq
  <2>2. QED BY <2>1 DEF Settled
<1>3. Unfinished(<< >>, "normal", 1) BY <1>1 DEF Unfinished
<1>4. QED BY <1>1, <1>2, <1>3 DEF TextOK

LEMMA ReadKeeps ==
  ASSUME TextInv, NEW x \in Runes, Read(x)
  PROVE  TextInv'
<1>1. raw' = Append(raw, x) /\ state' = After(state, x) /\ clean' = clean \o Written(state, x)
  BY DEF Read
<1>2. raw \in Seq(Runes) BY DEF TextInv, TextOK
<1>3. TextOK(Append(raw, x), After(state, x), clean \o Written(state, x))
  <2>1. CASE state = "normal" BY <1>2, <2>1, ReadNormal DEF TextInv
  <2>2. CASE state = "esc" BY <1>2, <2>2, ReadEsc DEF TextInv
  <2>3. CASE state = "csi" BY <1>2, <2>3, ReadCsi DEF TextInv
  <2>4. CASE state \in {"string", "stringEsc"} BY <1>2, <2>4, ReadString DEF TextInv
  <2>5. QED BY <2>1, <2>2, <2>3, <2>4 DEF TextInv, States
<1>4. After(state, x) \in States BY DEF TextInv, States, After
<1>5. QED BY <1>1, <1>3, <1>4 DEF TextInv

\* TextsExact holds for texts of any length: what sanitize has written of a
\* text is exactly what is visible of it (format.go 296-369).
THEOREM TextsCorrect == Spec => []TextsExact
<1>1. Init => TextInv BY NoTextYet DEF Init, ReportInit, TextInv, States
<1>2. TextInv /\ [Next]_vars => TextInv'
  <2> SUFFICES ASSUME TextInv, [Next]_vars PROVE TextInv'
    OBVIOUS
  <2>1. CASE UNCHANGED <<raw, state, clean>>
    BY <2>1, Zenon DEF TextInv
  <2>2. CASE EndText
    <3>1. raw' = << >> /\ state' = "normal" /\ clean' = << >> BY <2>2 DEF EndText
    <3>2. QED BY <3>1, NoTextYet DEF TextInv, States
  <2>3. CASE \E x \in Runes : Read(x) BY <2>3, ReadKeeps
  <2>4. QED
    BY <2>1, <2>2, <2>3 DEF Next, vars, report, ReadArgs, UsageError, WriteOut, RunFmt, LintStops,
       BeginReport, Sanitize, EndReport, WriteReport, Grow, CheckWrite
<1>3. TextInv => TextsExact BY TextOKExact DEF TextInv, TextsExact
<1>4. QED BY <1>1, <1>2, <1>3, PTL DEF Spec
=============================================================================
