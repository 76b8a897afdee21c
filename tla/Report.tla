------------------------------- MODULE Report -------------------------------
(***************************************************************************)
(* The report of a run (output/format.go): every text in it goes through   *)
(* sanitize rune by rune, and the human writer first sizes its buffer.     *)
(*                                                                         *)
(* A rune stands for its class: "[", "]" and "\" for themselves, "P" for   *)
(* P, X, ^ and _, "m" for the other final bytes 0x40-0x7E, "1" for any     *)
(* other visible rune, "HIDDEN" for the other control characters and the   *)
(* bidirectional overrides and isolates.  int has 2 * Half values.         *)
(***************************************************************************)
EXTENDS Integers, Sequences

CONSTANTS
  PerViolation, SummaryBytes, MaxPreGrow,   \* the constants of humanPreGrow
  Half,       \* 2^(w-1) for a w-bit int
  MaxRunes    \* bound: the runes of a text

Runes == {"ESC", "BEL", "[", "]", "P", "\\", "m", "1", "HIDDEN"}
Visible == {"[", "]", "P", "\\", "m", "1"}
Final == {"[", "]", "P", "\\", "m"}
Strings == {"]", "P"}   \* behind ESC: OSC, and DCS, SOS, PM and APC

\* The cap and the summary are far below the range of an int.
ReportAssumption ==
  /\ PerViolation \in Nat \ {0} /\ SummaryBytes \in Nat /\ MaxPreGrow \in Nat /\ Half \in Nat
  /\ SummaryBytes <= MaxPreGrow /\ MaxPreGrow < Half
  /\ MaxRunes \in Nat
ASSUME ReportAssumption

VARIABLES
  raw,     \* the text under way, as far as read
  state,   \* sanitize's state
  clean,   \* sanitize's builder
  count, capacity   \* len(r.Violations) and the bytes reserved for them

report == <<raw, state, clean, count, capacity>>

(* sanitize ************************************************************** *)

\* One rune: the next state, and what is written of it
States == {"normal", "esc", "csi", "string", "stringEsc"}

\* mutant: ESC in a string is taken for the start of its end only once
AfterOneEsc(s, r) ==
  CASE s = "normal" -> IF r = "ESC" THEN "esc" ELSE "normal"
    [] s = "esc" -> IF r = "[" THEN "csi" ELSE IF r \in Strings THEN "string" ELSE "normal"
    [] s = "csi" -> IF r \in Final THEN "normal" ELSE "csi"
    [] s = "string" -> IF r = "BEL" THEN "normal" ELSE IF r = "ESC" THEN "stringEsc" ELSE "string"
    [] s = "stringEsc" -> IF r = "\\" THEN "normal" ELSE "string"

After(s, r) ==
  CASE s = "normal" -> IF r = "ESC" THEN "esc" ELSE "normal"
    [] s = "esc" -> IF r = "[" THEN "csi" ELSE IF r \in Strings THEN "string" ELSE "normal"
    [] s = "csi" -> IF r \in Final THEN "normal" ELSE "csi"
    [] s = "string" -> IF r = "BEL" THEN "normal" ELSE IF r = "ESC" THEN "stringEsc" ELSE "string"
    [] s = "stringEsc" -> IF r = "\\" THEN "normal" ELSE IF r = "ESC" THEN "stringEsc" ELSE "string"

Written(s, r) == IF s = "normal" /\ r \in Visible THEN <<r>> ELSE << >>

Read(r) ==
  /\ Len(raw) < MaxRunes
  /\ raw' = Append(raw, r)
  /\ state' = After(state, r)
  /\ clean' = clean \o Written(state, r)
  /\ UNCHANGED <<count, capacity>>

\* The end of a File, Message, fixed file or Directory: the next starts afresh.
EndText ==
  /\ raw' = << >> /\ state' = "normal" /\ clean' = << >>
  /\ UNCHANGED <<count, capacity>>

(* humanPreGrow ********************************************************** *)

GoInt == -Half..Half - 1
Wrap(x) == ((x + Half) % (2 * Half)) - Half   \* w-bit arithmetic
Quotient(a, b) == IF a >= 0 THEN a \div b ELSE -((-a) \div b)   \* Go's a / b, b > 0

\* mutant: the sign alone shows an overflow
SignOnly(n) ==
  LET want == Wrap(Wrap(n * PerViolation) + SummaryBytes)
  IN IF n <= 0 THEN SummaryBytes
     ELSE IF want < 0 \/ want > MaxPreGrow THEN MaxPreGrow ELSE want

HumanPreGrow(n) ==
  LET mul == Wrap(n * PerViolation)
      want == Wrap(mul + SummaryBytes)
  IN IF n <= 0 THEN SummaryBytes
     ELSE IF Quotient(mul, n) # PerViolation \/ want < 0 \/ want > MaxPreGrow THEN MaxPreGrow
     ELSE want

Grow(n) ==
  /\ count' = n /\ capacity' = HumanPreGrow(n)
  /\ UNCHANGED <<raw, state, clean>>

ReportInit ==
  /\ raw = << >> /\ state = "normal" /\ clean = << >>
  /\ count = 0 /\ capacity = 0

(* What the report should hold ******************************************* *)

\* The position after the escape sequence that starts at i; one of several
\* bytes ends with the first of ends, if any.  A string ends with ESC \, and
\* with BEL if its opener is one of bel.
FirstEnd(t, ends) ==
  IF ends = {} THEN Len(t) + 1
  ELSE 1 + CHOOSE j \in ends : \A k \in ends : j <= k

FinalByte(t, j) == t[j] \in Final
Terminator(t, i, j, bel) ==
  IF t[j - 1] = "ESC" THEN t[j] = "\\" ELSE t[j] = "BEL" /\ t[i + 1] \in bel

SequenceEnd(t, i, bel) ==
  CASE i = Len(t) -> i + 1
    [] i < Len(t) /\ t[i + 1] = "[" -> FirstEnd(t, {j \in i + 2..Len(t) : FinalByte(t, j)})
    [] i < Len(t) /\ t[i + 1] \in Strings ->
         FirstEnd(t, {j \in i + 2..Len(t) : Terminator(t, i, j, bel)})
    [] OTHER -> i + 2

\* What is visible of t from each position on: its visible runes outside
\* escape sequences
VisibleFrom(t, bel) ==
  LET from[i \in 1..Len(t) + 1] ==
        IF i = Len(t) + 1 THEN << >>
        ELSE IF t[i] = "ESC" THEN from[SequenceEnd(t, i, bel)]
        ELSE IF t[i] \in Visible THEN <<t[i]>> \o from[i + 1]
        ELSE from[i + 1]
  IN from
VisibleText(t, bel) == VisibleFrom(t, bel)[1]

\* What a text of the report holds is what is visible of the original: at
\* whatever rune a sequence is cut off, it swallows what belongs to it, lets
\* nothing of it through, and leaves the next text alone.  BEL ends a string
\* of any kind (format.go 347-353).
TextsExact == clean = VisibleText(raw, Strings)

\* What sanitize's comment says instead (format.go 279-286): BEL ends an OSC
\* string, and only ESC \ the other four.
EndsAsDocumented == clean = VisibleText(raw, {"]"})

\* No escape, control character or override reaches the terminal.
TerminalSafe == \A i \in DOMAIN clean : clean[i] \in Visible

\* The buffer is sized for all lines, up to the cap: no count, however large,
\* makes the estimate small or negative.
Smaller(a, b) == IF a <= b THEN a ELSE b
CapacityExact ==
  capacity # 0 =>
    capacity = IF count <= 0 THEN SummaryBytes
               ELSE Smaller(count * PerViolation + SummaryBytes, MaxPreGrow)
=============================================================================
