---------------------------- MODULE FamilyChecks ----------------------------
(***************************************************************************)
(* The checks of values in one file, as Run calls them one after the other *)
(* (checker/checks.go 229-246): CIDR blocks, regions, accounts, ARNs,      *)
(* bucket names and misspelt blocks.  The first four walk the whole body   *)
(* with a rule of their own for what to pass over; regions and accounts    *)
(* carry along whether they are inside an AWS block.                       *)
(*                                                                         *)
(* A file maps positions to blocks: << >> is the file's body, <<1, 2>> the *)
(* second block in the first.  A block has a type, its first label or "",  *)
(* and attributes.  A name of an attribute stands for its class of names.  *)
(***************************************************************************)
EXTENDS Literals

CONSTANTS
  Configs,    \* sets of files and of --checks filters to combine; {} enables all
  AwsTypes,   \* the resource types that start with "aws_"
  CidrValues, ArnValues   \* what an interpolation may stand for

\* Positions are prefix-closed, and blocks are numbered from 1.
Inner(f, p) == {q \in DOMAIN f : Len(q) = Len(p) + 1 /\ SubSeq(q, 1, Len(p)) = p}
WellFormedConfig(f) ==
  /\ DOMAIN f \subseteq Seq(Nat) /\ << >> \in DOMAIN f
  /\ \A p \in DOMAIN f :
       /\ p # << >> => Front(p) \in DOMAIN f
       /\ Inner(f, p) = {Append(p, i) : i \in 1..Cardinality(Inner(f, p))}
       /\ \A a \in DOMAIN f[p].attrs : IsExpression(f[p].attrs[a])

ConfigsAssumption ==
  \A c \in Configs : \A f \in c.files : IsFiniteSet(DOMAIN f) /\ WellFormedConfig(f)
ASSUME ConfigsAssumption

ValuesAssumption == CidrValues \cup ArnValues \subseteq Seq(STRING)
ASSUME ValuesAssumption

VARIABLES
  file,
  filter,   \* the CheckSet
  next,     \* the position in Codes of the next check
  work,     \* the bodies still to walk, in order, with the AWS flag passed to each
  violations   \* code, block, attribute, and 0 or the number of the element

familyVars == <<file, filter, next, work, violations>>

Codes == <<"E101", "E201", "E202", "E203", "E204", "E210">>
FilterAllows(code) == filter = {} \/ code \in filter

Blocks(p) == [i \in 1..Cardinality(Inner(file, p)) |-> Append(p, i)]

\* The blocks in p but those of these types, in order
Passing(p, types) ==
  LET pass[i \in 0..Cardinality(Inner(file, p))] ==
        IF i = 0 THEN << >>
        ELSE IF file[Append(p, i)].type \in types THEN pass[i - 1]
        ELSE Append(pass[i - 1], Append(p, i))
  IN pass[Cardinality(Inner(file, p))]

\* arnAttributeShape and the tables of triggers
ScalarTriggers ==
  [E101 |-> {"cidr_block"}, E201 |-> {"region"}, E202 |-> {"account_id"}, E203 |-> {"role_arn"}]
ListTriggers ==
  [E101 |-> {"cidr_blocks"}, E201 |-> {}, E202 |-> {}, E203 |-> {"policy_arns"}]

Bad(code, e) ==
  CASE code = "E101" -> BadCIDR(e)
    [] code = "E201" -> BadWord(e, Regions)
    [] code = "E202" -> BadWord(e, AccountIDs)
    [] code = "E203" -> BadARN(e)

\* The attributes of one body
Reports(code, p) ==
  LET attrs == file[p].attrs
      Elements(a) == IF attrs[a].k = "tuple"
                     THEN {i \in DOMAIN attrs[a].elems : Bad(code, attrs[a].elems[i])} ELSE {}
  IN {<<code, p, a, 0>> : a \in {a \in DOMAIN attrs \cap ScalarTriggers[code] : Bad(code, attrs[a])}}
     \cup UNION {{<<code, p, a, i>> : i \in Elements(a)} : a \in DOMAIN attrs \cap ListTriggers[code]}

(* The checks ************************************************************ *)

Visit(p, aws) == [at |-> p, aws |-> aws]

\* Run: the next check, if it is enabled
BeginCheck ==
  /\ work = << >> /\ next <= Len(Codes)
  /\ next' = next + 1
  /\ work' = IF FilterAllows(Codes[next]) THEN <<Visit(<< >>, FALSE)>> ELSE << >>
  /\ UNCHANGED <<file, filter, violations>>

Code == Codes[next - 1]
At == Head(work).at
Checking(codes) == work # << >> /\ Code \in codes

\* walkCIDRBlocks, walkARNBlocks: the body, then its blocks, depth first
WalkValues ==
  /\ Checking({"E101", "E203"})
  /\ violations' = violations \cup Reports(Code, At)
  /\ LET below == Passing(At, {"variable"})
     IN work' = [i \in DOMAIN below |-> Visit(below[i], FALSE)] \o Tail(work)
  /\ UNCHANGED <<file, filter, next>>

IsAWSBlock(b) ==
  \/ b.type = "provider" /\ b.label = "aws"
  \/ b.type \in {"resource", "data"} /\ b.label \in AwsTypes

Owners == {"provider", "resource", "data"}

\* mutant: once in an AWS block, always in one
StickyScope(q) == Head(work).aws \/ IsAWSBlock(file[q])

\* Only these blocks decide; all others inherit.
Scope(q) == IF file[q].type \in Owners THEN IsAWSBlock(file[q]) ELSE Head(work).aws

\* walkRegionBlocks, walkAccountIDBlocks
WalkAws ==
  /\ Checking({"E201", "E202"})
  /\ violations' = violations \cup IF Head(work).aws THEN Reports(Code, At) ELSE {}
  /\ LET below == Passing(At, {"variable", "module"})
     IN work' = [i \in DOMAIN below |-> Visit(below[i], Scope(below[i]))] \o Tail(work)
  /\ UNCHANGED <<file, filter, next>>

\* s3Contexts: access points and existing buckets are not judged.
BucketKind(b) ==
  CASE b.type = "resource" /\ b.label = "aws_s3_bucket" -> "general"
    [] b.type = "resource" /\ b.label = "aws_s3_directory_bucket" -> "directory"
    [] OTHER -> "reference"

\* checkS3BucketName
CheckBuckets ==
  /\ Checking({"E204"})
  /\ violations' = violations \cup
       {<<"E204", q, "bucket", 0>> : q \in
          {q \in Range(Blocks(At)) : /\ "bucket" \in DOMAIN file[q].attrs
                                     /\ BadBucket(file[q].attrs["bucket"], BucketKind(file[q]))}}
  /\ work' = << >>
  /\ UNCHANGED <<file, filter, next>>

\* blockTypos: plural in all QuickSight resources but one, singular elsewhere
Typo(b, child) ==
  /\ b.type \in {"resource", "data"}
  /\ child.type =
       CASE b.label = "aws_quicksight_data_set" -> "permission"
         [] b.label = "aws_quicksight_data_source" -> "permissions"
         [] b.label = "aws_lb_listener_rule" -> "conditions"
         [] b.label = "aws_wafv2_web_acl" -> "rules"
         [] b.label = "aws_iam_policy_document" -> "statements"
         [] OTHER -> ""

\* checkBlockTypo: the direct children of top-level blocks
CheckBlockTypos ==
  /\ Checking({"E210"})
  /\ violations' = violations \cup
       UNION {{<<"E210", q, "", 0>> : q \in {q \in Range(Blocks(b)) : Typo(file[b], file[q])}} :
                b \in Range(Blocks(At))}
  /\ work' = << >>
  /\ UNCHANGED <<file, filter, next>>

FamilyStart == next = 1 /\ work = << >> /\ violations = {}

FamilyInit ==
  /\ \E c \in Configs : file \in c.files /\ filter \in c.filters
  /\ FamilyStart

FamilyNext == BeginCheck \/ WalkValues \/ WalkAws \/ CheckBuckets \/ CheckBlockTypos

FamilySpec == FamilyInit /\ [][FamilyNext]_familyVars

Finished == next > Len(Codes) /\ work = << >>

(* What the checks should report ***************************************** *)

Within(p, types) == \E i \in 1..Len(p) : file[SubSeq(p, 1, i)].type \in types

\* The innermost provider, resource or data block around p is AWS's.
AwsScope(p) ==
  \E i \in 1..Len(p) :
    /\ IsAWSBlock(file[SubSeq(p, 1, i)])
    /\ \A j \in i + 1..Len(p) : file[SubSeq(p, 1, j)].type \notin Owners

Applies(code, p) ==
  /\ ~Within(p, {"variable"})
  /\ code \in {"E201", "E202"} => ~Within(p, {"module"}) /\ AwsScope(p)

WrongBuckets ==
  {p \in DOMAIN file :
     /\ Len(p) = 1 /\ file[p].type = "resource" /\ "bucket" \in DOMAIN file[p].attrs
     /\ LET e == file[p].attrs["bucket"]
        IN /\ Pure(e)
           /\ \/ file[p].label = "aws_s3_bucket" /\ ~TrueBucketName(TextOf(e))
              \/ file[p].label = "aws_s3_directory_bucket" /\ ~TrueDirectoryName(TextOf(e))}

Called(code) ==
  CASE code = "E204" -> {<<code, p, "bucket", 0>> : p \in WrongBuckets}
    [] code = "E210" -> {<<code, p, "", 0>> : p \in
                           {p \in DOMAIN file : Len(p) = 2 /\ Typo(file[Front(p)], file[p])}}
    [] OTHER -> UNION {Reports(code, p) : p \in {p \in DOMAIN file : Applies(code, p)}}

\* When Run is through with a file, it has reported what is wrong in each place
\* the codes are meant for and nothing elsewhere, however deep: the flag passed
\* down says whether the innermost provider, resource or data block is AWS's, a
\* variable hides what is in it from every code and a module from those two, a
\* bad element does not silence its neighbours, and the scans for separators in
\* bucket names accept the documented grammar (s3_bucket.go 14-35).
ReportsExact ==
  Finished => violations = UNION {Called(code) : code \in {c \in Range(Codes) : FilterAllows(c)}}

\* The expression a violation of attribute values is about
ExprAt(v) ==
  LET e == file[v[2]].attrs[v[3]] IN IF v[4] = 0 THEN e ELSE e.elems[v[4]]

\* No value of its interpolations makes an IPv4 block of what E101 reports: an
\* octet, several, part of one, a prefix length, a whole block, an IPv6 address,
\* nothing (cidr.go 252-283).
CidrNeverValid(parts) ==
  \A x \in [Interpolations(parts) -> CidrValues] : ~ValidCIDR(Fill(parts, x))

\* Nor an ARN of what E203 reports, if they stay within their fields
\* (arn.go 397-408).
ArnNeverValid(parts) ==
  \A x \in [Interpolations(parts) -> ArnValues] :
    WithinFields(parts, x) => ~TrueARN(Fill(parts, x))

\* arnMinLength allows for services of two letters, isValidARNService has those
\* of one: `arn:aws:a:::b` is refused for its length alone.
RefusedForLength(e) == Pure(e) /\ ~(Len(Word(TextOf(e))) >= ArnMinLength)

\* A value reported by E101 or E203 cannot become valid whatever its
\* interpolations stand for; only a literal ARN shorter than the least length
\* may be reported and well formed.
ReportedNeverValid ==
  \A v \in violations :
    LET e == ExprAt(v)
    IN /\ v[1] = "E101" => CidrNeverValid(e.parts)
       /\ v[1] = "E203" => ArnNeverValid(e.parts) \/ RefusedForLength(e)
=============================================================================
