------------------------------ MODULE Literals ------------------------------
(***************************************************************************)
(* What the value checks make of one string of a configuration: a template *)
(* is split and composed again (checker/template.go), and judged as a CIDR *)
(* block, an ARN, a region, an account or a bucket name (cidr.go, arn.go,  *)
(* region.go, account_id.go, s3_bucket.go).                                *)
(*                                                                         *)
(* A text is a sequence of atoms: characters where a grammar looks at them,*)
(* words where it looks a word up; atoms side by side make a longer word.  *)
(* A part of a template is a literal with its text, an interpolation, or a *)
(* %{for} directive.                                                       *)
(***************************************************************************)
EXTENDS Naturals, SequencesExt

CONSTANTS
  Partitions, IsoPartitions, Services,   \* words the fields of an ARN accept
  Regions, IsoRegions, AccountIDs,
  Letters,            \* the lowercase letters
  MaxName, DirectorySuffix   \* s3BucketNameMaxLength, s3DirectorySuffix

LiteralsAssumption == DirectorySuffix \in Seq(STRING)
ASSUME LiteralsAssumption

Word(s) == IF s = << >> THEN "" ELSE FlattenSeq(s)
AllIn(s, S) == \A i \in DOMAIN s : s[i] \in S

(* Templates ************************************************************* *)

Template(e) == e.k = "template"

\* What the parser makes of a template, by itself or in a list, whose elements
\* are numbered from 1; no atom is empty.
Text == Seq(STRING \ {""})
Part == [kind : {"literal", "interp", "for"}, text : Text]
IsParsed(e) == Template(e) => e.parts \in Seq(Part)
IsExpression(e) ==
  /\ IsParsed(e)
  /\ e.k = "tuple" => \A i \in DOMAIN e.elems : i \in Nat \ {0} /\ IsParsed(e.elems[i])

\* TryLiteralString
Pure(e) == Template(e) /\ Len(e.parts) = 1 /\ e.parts[1].kind = "literal"
TextOf(e) == e.parts[1].text

\* SplitTemplate does not return nil.
Splits(e) == Template(e) /\ \A i \in DOMAIN e.parts : e.parts[i].kind # "for"

Interpolation(parts, i) == parts[i].kind = "interp"
IsAllLiteral(parts) == \A i \in DOMAIN parts : ~Interpolation(parts, i)

Compose(parts, placeholder) ==
  FlattenSeq([i \in DOMAIN parts |->
                IF Interpolation(parts, i) THEN placeholder ELSE parts[i].text])
LiteralString(parts) == Compose(parts, << >>)

(* E101 ****************************************************************** *)

Digits == {"0", "1", "2", "3", "4", "5", "6", "7", "8", "9"}
DigitValue(c) ==
  CHOOSE n \in 0..9 : c = <<"0", "1", "2", "3", "4", "5", "6", "7", "8", "9">>[n + 1]

\* A decimal number up to a bound, without leading zeros
Decimal(s, bound) ==
  /\ Len(s) \in 1..3 /\ AllIn(s, Digits)
  /\ Len(s) > 1 => s[1] # "0"
  /\ FoldLeft(LAMBDA n, c : 10 * n + DigitValue(c), 0, s) <= bound

\* netip.ParsePrefix on a text without colons
ValidCIDR(s) ==
  \E slash \in DOMAIN s :
    LET address == SubSeq(s, 1, slash - 1)
        dots == {i \in DOMAIN address : address[i] = "."}
    IN /\ s[slash] = "/"
       /\ Decimal(SubSeq(s, slash + 1, Len(s)), 32)
       /\ Cardinality(dots) = 3
       /\ \E i, j, k \in dots :
            /\ i < j /\ j < k
            /\ Decimal(SubSeq(s, 1, i - 1), 255) /\ Decimal(SubSeq(s, i + 1, j - 1), 255)
            /\ Decimal(SubSeq(s, j + 1, k - 1), 255) /\ Decimal(SubSeq(s, k + 1, slash - 1), 255)

Boundary == {".", "/"}
EndsIn(s, S) == s # << >> /\ Last(s) \in S
StartsIn(s, S) == s # << >> /\ Head(s) \in S

\* Four octets, a slash, and every interpolation alone between boundaries
ShapePinned(parts) ==
  LET text == LiteralString(parts)
      slash == SelectInSeq(text, LAMBDA c : c = "/")
  IN slash # 0 /\ Cardinality({i \in 1..slash - 1 : text[i] = "."}) = 3

\* mutant: dots and slash will do, wherever the interpolations are
ShapeAnywhere(parts) == ShapePinned(parts)

CidrHasEnoughShape(parts) ==
  /\ ShapePinned(parts)
  /\ \A i \in DOMAIN parts : Interpolation(parts, i) =>
       /\ i > 1 => ~Interpolation(parts, i - 1) /\ EndsIn(parts[i - 1].text, Boundary)
       /\ i < Len(parts) => ~Interpolation(parts, i + 1) /\ StartsIn(parts[i + 1].text, Boundary)

\* checkCIDRScalar and one turn of checkCIDRList
BadCIDR(e) ==
  /\ Splits(e)
  /\ IF IsAllLiteral(e.parts)
     THEN LiteralString(e.parts) # << >> /\ ~ValidCIDR(LiteralString(e.parts))
     ELSE CidrHasEnoughShape(e.parts) /\ ~ValidCIDR(Compose(e.parts, <<"0">>))

(* E203 ****************************************************************** *)

Colons(s) == {i \in DOMAIN s : s[i] = ":"}
Colon(s, n) == CHOOSE i \in Colons(s) : Cardinality({j \in Colons(s) : j < i}) = n - 1

Prefixed(s) == Len(s) >= 2 /\ s[1] = "arn" /\ s[2] = ":"
HasFields(s) == Cardinality(Colons(s)) >= 5

\* Partition, service, region, account, and the resource with its own colons
Fields5(s) ==
  [n \in 1..5 |-> SubSeq(s, Colon(s, n) + 1, IF n = 5 THEN Len(s) ELSE Colon(s, n + 1) - 1)]

Placeholder == "<INTERP>"

\* validateARNFields
ValidARNFields(f, permissive) ==
  LET Skip(n) == permissive /\ Placeholder \in Range(f[n])
  IN /\ Skip(1) \/ Word(f[1]) \in Partitions
     /\ Skip(2) \/ Word(f[2]) \in Services
     /\ \/ Skip(3) \/ Word(f[3]) \in Regions \cup {"", "*"}
        \/ Word(f[1]) \in IsoPartitions
        \/ Skip(1) /\ Word(f[3]) \in IsoRegions
     /\ Skip(4) \/ Word(f[4]) \in AccountIDs \cup {"", "*", "aws"}
     /\ f[5] # << >>

ArnMinLength == Len("arn:aws:s3:::b")
ValidARN(s) ==
  Prefixed(s) /\ Len(Word(s)) >= ArnMinLength /\ HasFields(s) /\ ValidARNFields(Fields5(s), FALSE)

\* checkARNScalar and one turn of checkARNList: a template in which fields are
\* missing may have them in an interpolation.
BadARN(e) ==
  IF Pure(e) THEN TextOf(e) # << >> /\ ~ValidARN(TextOf(e))
  ELSE /\ Splits(e)
       /\ LET composed == Compose(e.parts, <<Placeholder>>)
          IN Prefixed(composed) /\ HasFields(composed) /\ ~ValidARNFields(Fields5(composed), TRUE)

(* E201, E202 ************************************************************ *)

BadWord(e, words) == Pure(e) /\ TextOf(e) # << >> /\ Word(TextOf(e)) \notin words

(* E204 ****************************************************************** *)

Alnum == Letters \cup Digits
Bounded(s) == Len(s) \in 3..MaxName /\ Head(s) \in Alnum /\ Last(s) \in Alnum

\* validateS3BucketName
ValidBucketName(s) ==
  /\ Bounded(s) /\ AllIn(s, Alnum \cup {".", "-"})
  /\ \A i \in 1..Len(s) - 1 : ~(s[i] = "." /\ s[i + 1] = ".")
  /\ AllIn(s, Digits \cup {"."}) => Cardinality({i \in DOMAIN s : s[i] = "."}) # 3

Hyphens(s) == {i \in 1..Len(s) - 1 : s[i] = "-" /\ s[i + 1] = "-"}

\* validateS3DirectoryBucketName
ValidDirectoryName(s) ==
  /\ Bounded(s) /\ AllIn(s, Alnum \cup {"-"})
  /\ IsSuffix(DirectorySuffix, s)
  /\ LET rest == SubSeq(s, 1, Len(s) - Len(DirectorySuffix))
         separator == IF Hyphens(rest) = {} THEN 0 ELSE Max(Hyphens(rest))
     IN separator > 1 /\ separator + 1 # Len(rest)

\* checkS3BucketAttr; a reference to an existing bucket is not judged.
BadBucket(e, kind) ==
  /\ Pure(e)
  /\ \/ kind = "general" /\ ~ValidBucketName(TextOf(e))
     \/ kind = "directory" /\ ~ValidDirectoryName(TextOf(e))

(* What the values stand for ********************************************* *)

\* A value of the template for every value of its interpolations
Interpolations(parts) == {i \in DOMAIN parts : Interpolation(parts, i)}
Fill(parts, values) ==
  FlattenSeq([i \in DOMAIN parts |->
                IF Interpolation(parts, i) THEN values[i] ELSE parts[i].text])

\* No value has a colon where one would end a field of an ARN: the resource, and
\* so a value after the fifth colon, may have its own.
WithinFields(parts, values) ==
  \A i \in Interpolations(parts) :
    Colons(values[i]) = {} \/ HasFields(Fill(SubSeq(parts, 1, i - 1), values))

\* The grammar of ARNs (arn.go 21-42), ISO regions only in ISO partitions
TrueARN(s) ==
  /\ Prefixed(s) /\ HasFields(s)
  /\ LET f == Fields5(s)
     IN /\ Word(f[1]) \in Partitions /\ Word(f[2]) \in Services
        /\ Word(f[3]) \in {"", "*"} \cup IF Word(f[1]) \in IsoPartitions THEN IsoRegions ELSE Regions
        /\ Word(f[4]) \in AccountIDs \cup {"", "*", "aws"}
        /\ f[5] # << >>

\* The bucket grammars (s3_bucket.go 20-31): an IP address is four numbers
\* between periods; a zone is words joined by hyphens.
TrueBucketName(s) ==
  /\ Bounded(s) /\ AllIn(s, Alnum \cup {".", "-"})
  /\ ~\E i \in DOMAIN s : i + 1 \in DOMAIN s /\ {s[i], s[i + 1]} = {"."}
  /\ ~\E i, j, k \in DOMAIN s :
       /\ i < j /\ j < k /\ \A n \in {i, j, k} : s[n] = "."
       /\ \A n \in DOMAIN s \ {i, j, k} : s[n] \in Digits

TrueDirectoryName(s) ==
  /\ Bounded(s) /\ AllIn(s, Alnum \cup {"-"})
  /\ \E i \in 1..Len(s) :
       LET base == SubSeq(s, 1, i)
           zone == SubSeq(s, i + 3, Len(s) - Len(DirectorySuffix))
       IN /\ s = base \o <<"-", "-">> \o zone \o DirectorySuffix
          /\ zone # << >> /\ Head(zone) # "-" /\ Hyphens(zone) = {}
=============================================================================
