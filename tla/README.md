# A TLA+ verification project for tfdry

tfdry (Go, `main.go`, `checker/`, `output/`) is an offline linter and formatter
for Terraform and OpenTofu configurations. It reads the `.tf` and `.tofu` files
of a directory (or of a tree), checks them, and with `--fix` or `tfdry fmt`
rewrites unformatted ones. It keeps no state between runs; what is hard about it
is what happens between its steps: goroutines that share a slice, signals that
arrive anywhere, files that other programs change, system calls that fail after
others have succeeded, and two commands whose exit codes, printed paths, reports
and changes on disk must tell the same story.

Paths below are relative to the repository. Everything here is checked with TLC
(`tlc -config X.cfg M`) and, for the modules named `*Proofs`, with TLAPS
(`tlapm M.tla`).

## Inventory

| Component | Code | State | Operations | What makes it correct |
|---|---|---|---|---|
| Directory loading | `checker/hcl.go` | results slice, errgroup, two contexts | list, choose branch, parse sequentially or in goroutines, cancel, collect, project two views | a nil error means every file was parsed; no result lost, misplaced or written late; prompt cancellation; always returns |
| File rewriting | `checker/format.go`, `checker/nofollow_unix.go` | the path, the temporary file, an open handle | read, lstat, open, create, write, chmod, lstat, rename, remove | atomic replacement; mode kept; nothing left behind; no newer bytes replaced by older ones; links never replaced knowingly |
| Lint command | `run` in `main.go`, `Run` in `checker/checks.go`, `output/format.go` | filter, directory list, two views, violations, fixed files | per directory: load, check, check format or fix, append; report; exit | report, `fixed_files`, exit code and disk agree, also after failures and signals |
| fmt command | `runFmt`, `runFmtFile` in `main.go` | dirty and error flags | refuse a path, load, compare, print, rewrite, exit | exit codes 0/2/3/130 mean what they say; `-check` writes nothing; failures stay isolated |
| Override merging | `checker/effective.go`, E005 and E002 in `checker/checks.go`, `checker/locals.go` | cloned bodies and blocks, index of places, ownership sets | index the primary files, apply each override block, judge the merged blocks | originals untouched; the index stays right; the result is what the files say, setting by setting; messages point at the right file |
| Local values, module inputs | `checker/modules.go`, `checker/locals.go`, `checker/vartype.go` | locals map, schema cache | load a child's declarations, resolve constants and types, compare inputs to schemas | terminates on cycles; reports only provable mismatches; misses no literal one |
| Expression walk | `checker/checks.go`, `checker/tfsyntax.go` | iterators, scope stack, language position, used locals | enter and exit nodes, open dynamic blocks, skip keywords, report | every expression is seen with exactly the iterators in scope; only keywords are skipped; E003, E004, E009, W001 and W009 follow from what is seen |
| Value grammars | `checker/cidr.go`, `arn.go`, `account_id.go`, `region.go`, `s3_bucket.go`, `template.go`, `aws_block_typo.go` | a flag handed down each walk | walk a body, split and compose a template, recognise a text | each check reports what its rules call for; no template is reported that some value makes valid |
| Command line | `run`, `runDescribe`, `runWrite` in `main.go`, `checker/families.go` | flags, filter, path, subcommand | scan for help and version, read the arguments, refuse combinations, dispatch | the order of the arguments does not matter; a verdict is given only with its output |
| Report writing | `output/format.go` | the sanitiser's state, the buffer | sanitise, size the buffer, write | nothing of a file's text controls the terminal, nothing visible is lost; the size does not overflow |
| Windows flags, benchmark corpus | `checker/*_windows.go`, `bench/` | | | not modelled |

How they interact: `main` makes a context that SIGINT and SIGTERM cancel and
passes it to `run`. `run` (lint) or `runFmt` loops over the directories of
`collectDirs`, calls the loader for each, hands the parsed files to `Run`,
`CheckFormat` or `FixFormat`, and turns errors into exit codes with
`handleFatalErr` (any error ends the run) or `handleCtxErr` (only a cancellation
does). `FixFormat` and `fmt` rewrite through the same `writeFormatted`. The
bytes written are those read when the directory was parsed.

The behaviours that make this hard are listed, each at its line, under
`hazards` in `PROJECT.json`: races of the loader's goroutines with the
cancellation, a process killed or powered off between two calls of a rewrite,
other processes and users on the same path, one rewrite of several failing, a
signal during the last file, filters whose empty set means everything, and two
views of the same files.

## The modules

| Module | Models | Kind |
|---|---|---|
| `DirLoad` | what a directory load promises its caller | abstract specification |
| `ParsePool` | `parseDir`, `parseDirViewsWith`, `parseConfigEntries` | detailed; implements `DirLoad` |
| `AtomicReplace` | what rewriting one file promises | abstract specification |
| `Rewrite` | `writeFormatted` and its callers' read and dirtiness test, call by call | detailed; implements `AtomicReplace` |
| `PowerLoss` | `Rewrite` with write-back caching and power failures | extends `Rewrite` |
| `Workspace` | the tree, `collectDirs`, entry selection, what `parseOne` makes of a file | shared operators |
| `LintRun` | `run` from the filters to the exit code, `FixFormat` file by file | uses loads and rewrites as single steps |
| `FmtRun` | `runFmt`, `runFmtFile`, `WriteFormatted`'s context check | uses loads and rewrites as single steps |
| `OverrideMerge` | how one block overrides another, `effective.go` below the top level | pure operators |
| `Effective` | `buildEffectiveConfig` on a heap of bodies and blocks, E005 and E002 | extends `OverrideMerge` |
| `ModuleInputs` | `parseModuleVarSchemas`, `checkModuleInputs` and the resolvers of `modules.go` | recursive operators, TLC only |
| `Literals` | templates, and the recognisers of CIDR blocks, ARNs, regions, accounts, bucket names | pure operators |
| `FamilyChecks` | the walks of E101, E201, E202, E203, E204 and E210 over a file | extends `Literals` |
| `FileChecks` | `Run`: the expression walk, the module inputs, the values | composes `ScopeWalk`, `ModuleInputs` and `FamilyChecks` |
| `ScopeWalk` | `walkExpressions` with its walker, `walkDynamicBlock`, `Run`'s callback | state machine |
| `CliArgs` | the argument loop, the guards and the dispatch of `run` | state machine |
| `Report` | `sanitize`, `humanPreGrow`, the summary | state machine |
| `Command` | `run` from the command line to the exit code | composes `CliArgs` and `Report` |
| `ParsePoolProofs`, `RewriteProofs`, `LintRunProofs`, `FmtRunProofs`, `EffectiveProofs`, `ScopeWalkProofs`, `FamilyProofs`, `CommandProofs` | | proofs for all values of the constants |
| `MC*` | instances for TLC | |

The composition is by abstraction: `LintRun` and `FmtRun` take a load and a
rewrite as one step each, with exactly the outcomes that `DirLoad` and
`AtomicReplace` allow, and the refinements `LoadsDirectory` and
`ReplacesAtomically` (checked and proved) say that the detailed code has no
others. A module shows its mutants next to the actions they change: each is a
plausible slip in the code (a forgotten check, a shared loop variable, a swapped
precedence) that makes one of the properties fail.

### ParsePool

`pc` is the caller's position in `parseConfigEntries`, `next` the loop index,
`results[i]` the entry whose parse is stored in slot `i` (0 for the zero value),
`worker[i]` the goroutine of entry `i`, `sem` the errgroup's semaphore. `ctx`
and the derived `gctx` are two variables, because a cancellation reaches the
second a moment later (`Propagate`) and the code looks at both: the loop and the
goroutines at `gctx`, the end at `ctx`. A goroutine starts, looks at `gctx`,
parses (a step of its own, during which anything may happen) and gives its token
back. Fairness: the caller and each goroutine are scheduled (`WF` on each); the
signal and its propagation get none. `late` remembers what was parsed after the
cancellation was visible.

### Rewrite

One action per system call, for each of several processes on one path. The path
has a kind, bytes and a mode; bytes are the version a user saved, raw or
formatted, or `Partial` while a write is under way. Users save, delete or
replace the path between any two calls (`MaxEdits` times). Any call may fail
(`CallFails`), a process may be killed after any call (`Kill`), and removing
the temporary file may fail (`Cleanup`; `stuck` remembers it). One call's
failure the code does not see: the last Lstat's (`format.go:251`). `Recheck` then
goes on to the rename not knowing what stands at the path, be it a link or a FIFO.
`readAt`, `checkedAt` and `blind` are history: how many user changes there had
been when the process read the file and when it looked at the path for the last
time, and which processes could not look.

The Unix build is modelled (O_NOFOLLOW is effective). No `fsync` appears because
the code has none; what that means is the subject of `PowerLoss`, where bytes
reach the disk later than they are written and a rename may overtake them.

### LintRun and FmtRun

Both are sequential programs with one other actor, the signal, which may come
before any step (`Cancel`); code between two looks at the context is one step.
The command line and the tree are chosen in `Init`. A file's state says whether
it exists, cannot be read, does not parse, or is formatted or not, whether it is
over the size limit, and which codes the semantic checks would report in it; so
`Run` is one step whose result is a set. Violations are records of directory,
phase (parse, semantic, formatting), file, line (0 for file-level codes) and
code. Fairness is `WF` on the program's own steps: sequential code that waits
for nothing goes on until it returns.

### Effective and OverrideMerge

The parse tree is shared: the effective files, the formatter and `--fix` all
hold pointers into it. So bodies and top-level blocks are explicit objects. A
file body is a list of references, `mem.heap` maps a reference to its block's
value. The parser's objects are the bodies `Parsed(i)` and the references
`<<file, block>>`; the merge allocates the body `Copy(i)`, and for a clone
`<<0, turn, place>>`: which override block was applied, and for which place the
clone was made. `own` and `ownLocals` are the code's ownership sets. An
effective file goes by the number of the file it is made from, which is how
`extraFiles` finds the one of an override file. `index` holds the places
(`effectiveBlockLocation`) found before the loop, which the code goes on using
while it appends blocks and files. One action is one turn of the loop over the
override blocks, named for the branch it takes; `Before` is the order of the
turns.

The operations on the memory are named: `OwnBodies`
(`ensureEffectiveFileBodyOwned`), `Install` (put clones with new values at
places), `Overwrite` (write to the objects there), `WithExtra`, `AddRef`. Below
the top level every merge in the code builds a fresh block before it writes, so
values do, and `OverrideMerge` is their algebra: nested blocks replaced by type
(`dynamic` standing for what it generates), lifecycle merged setting by setting,
arguments and check rules an override may not touch, the terraform block's
storage selection, required providers and encryption. An argument's value is
where it was written and the little the merge can see of its expression. A clone
whose value is equal to the original's is not kept apart from it where the code
clones without writing.

`BothSet`, `Culprit` and `Duplicates` are the checks that read nothing but
merged blocks: E005 names the later of `count` and `for_each`, by the table
`sourceOrder` if they come from different files, and E002 each definition of a
local after the first.

The properties do not use the merge: they are read off the parsed files. `Read`
is what has been read so far, the primary files and the override blocks whose
turn is over; of these `Base(id)` is the first block of an identity,
`Contributors(id)` it and the overrides after it, `Setters(id, n)` those that have
a say in argument `n`, and `LocalValue(n)` a local's first definition or its last
override. `Precedes` is the order in which Terraform reads blocks. So
`LastOverrideWins` speaks of every state after the indexing and not only of the
end. `NestedTogether` and `TerraformSelections` are read off in the same way, from
`Suppliers(id, t)`, those that supply a nested block of a type, and
`TerraformOverrides`. `StickySettings` is about one turn: what must not be loosened
before it is not loosened by it.

Three properties have a premise, each leaving out modules that Terraform itself
refuses. `NestedTogether` says nothing of the check rules of a
resource written with two lifecycle blocks, of which an override keeps one.
`TerraformSelections` assumes that no override's terraform block has a dynamic
block for a storage selection or `required_providers`, `StickySettings` that none
has one for `encryption`: `applyTerraformOverride` would take its label for a type
to be replaced as a whole (`Static`, `Generated`). The merge is modelled for such
modules as well; the run's have none, the theorems are about all.

### ModuleInputs

`at` walks the module blocks, `left` the arguments of the current one (a Go map,
so in any order), `cache` is `parseModuleVarSchemas`'s, a child that is a link or
has a file that does not parse is cached as nothing. Type expressions,
argument expressions and local values are small trees; a constant carries the
set of types its text converts to, which is all `convert.Convert` decides here.
The three resolvers keep the code's `seen` set. The reference, `Value` and
`Accepts`, says what Terraform would make of the argument: locals substituted,
values only a run knows left unknown, a broken type accepting everything.

The module uses RECURSIVE operators, because its inputs are trees; nothing about
it is proved.

### Literals, FamilyChecks and FileChecks

A text is a sequence of atoms: characters where a grammar looks at them, words
where a table is looked up. A template is its literal parts and interpolations;
`Compose` puts a placeholder for each interpolation, as the code does, and the
recognisers of each code work on the result. `FamilyChecks` walks a file's
bodies with the rule of each check for what to pass over (`walkCIDRBlocks`,
`walkRegionBlocks`, `walkAccountBlocks`, `walkARNBlocks`): regions and accounts
carry along whether they are inside an AWS block, which provider, resource and
data blocks recompute. `FileChecks` is `Run`: the walk of `ScopeWalk`, then a
file's module inputs and its values. The code goes file by file; here the walk has
all files and the others one, since only the table of locals passes between them.

`ReportsExact` says which of the values of a file are reported, from the chain
of blocks around each and without a walk. `ReportedNeverValid` replaces the
interpolations of a reported template by every text they may stand for, and
finds none that makes it an IPv4 CIDR block, or an ARN. The values have colons,
slashes, dots and whole blocks and ARNs among them. `TrueARN`, the reference, has
no least length, so the property excepts by name what is refused for its length
alone (`RefusedForLength`: the comment of `arnMinLength` overlooks services of one
letter). For ARNs it says nothing of values with a colon where one would end a
field (`WithinFields`), as the comment in `validateARNTemplate` does not (`arn.go:397-408`):
`arn:aws:${x}:123456789012:x:y` is reported, and would be an ARN if `x` were
`s3:`. A value behind the fifth colon may hold what it likes.

### ScopeWalk

A module is a tree of files, blocks, attributes and expressions, a node named by
its path. `bodies` is the stack of `walkExpressionsAt` and `walkDynamicBlock`
calls, with the iterators, the chain of enclosing blocks and the two flags each
was given. `todo` is `hclsyntax.Walk`: per `ChildScope` the nodes that are left
in order. `iters`, `stack`, `context` and `refs` are the walker's fields, assigned
as `Enter` and `Exit` do; `refs` hands what a provider reference's tuple or
object item is to the nodes below it. A visit (`Run`'s callback) adds to
`used`, `found` and `seen`; `seen` is history. `InScope(p)`, the iterators bound
by the ancestors of `p`, is the reference; it is defined on paths and knows no
stack.

`Position(a, tolerant)` is the reference for the special positions, read off the
whole path of an attribute. `Position(a, FALSE)` is the grammar of Terraform and
OpenTofu: every block of the chain with its labels, the outermost at the top
level. The code takes more than that for the real thing, and `Position(a, TRUE)`
names each of these lookalikes: any block directly in a dynamic block (`Rooted`),
a variable block of any labels anywhere (`VariableLike`), a lifecycle block
anywhere (`LifecycleLike`). `EverythingVisited` says that those, and no others,
are tolerated; `LookalikesOrdinary` says what the code's comment does, that none
is, and fails.

A traversal's path is its root, attribute names and `[]` for an index. Resource
type names are a constant. Files are walked in some order, which nothing reads.

### CliArgs, Report and Command

`CliArgs` reads one argument per step into `flags`, `checksFilter`, `dir` and
`subcmd`, after the scan for help and version; `decision` is what `run` does.
`Report` reads the texts of a report rune by rune through `sanitize`'s five
states and sizes the buffer in w-bit arithmetic that wraps. In `Command` a
decision becomes output: version, help and describe are written at once, a lint
ends with a report of any texts and any number of violations of any severity,
or with none, and fmt with any of its codes. A write goes through a buffer's
`WriteTo`, a JSON encoder, `io.WriteString` or `fmt.Fprintln`, and takes
everything, takes less without an error (which `format.go:173-177` says some
writers do), or fails, whichever way it is done. `WriteErr` is what each of the four
lets the code see of that, and `CheckWrite` makes the exit code of it. `fmt` does
not look. When a lint begins its arguments are forgotten (`Begun`), since nothing
reads them again.

A rune stands for its class; the openers of the escape strings are two, OSC (`]`)
and the other four (`P`), because `sanitize`'s comment tells them apart. Control
characters other than ESC and BEL and the bidirectional overrides are dropped alike
and share one class, `HIDDEN`.

## What the runs check

| Run | Instance | Properties |
|---|---|---|
| `parse_pool` | 0..6 entries, the code's threshold 4, limit 2 | `NilMeansComplete`, `PartialResultsKept`, `PromptCancel`, `NoWriteAfterReturn`, `Returns`, implements `DirLoad` |
| `rewrite` | 2 processes, 2 temporary names, 2 modes, 2 user changes | `WholeFile`, `TempReaped`, `ModeKept`, `SeenSwapRefused`, `OnlyRacedEditsLost`, implements `AtomicReplace` |
| `power_loss` | 1 process | `WholeAfterPowerLoss` fails, see Findings |
| `lint` | 5 files in 3 directories, 5 filters | `NoFalseClean`, `ToolTroubleIsLoud`, `ReportExact`, `FixedFilesExact`, `OneLateWrite`, `FixCancelSeen`, `Terminates` |
| `lint_order` | the same | `ReportOrdered` fails, see Findings |
| `fmt` | the same tree, and single paths of six kinds | `ZeroMeansFormatted`, `ThreeMeansDirt`, `RewritesArePrinted`, `FailuresIsolated` |
| `effective` | 2 primary files with one block each of 7 kinds, override blocks of 13 kinds in one file or in two (one a `.tofu`) | `ParsedIntact`, `LastOverrideWins`, `VerdictsAsWritten`, `NestedTogether`, `TerraformSelections`, `StickySettings` |
| `file_checks` | the walk: nested for expressions and dynamic blocks around one reference, each special position with every chain of blocks that differs from its own in one place, provider references of every shape, 3 filters; inputs: one block with 62 arguments, 16 types, 37 tables of locals, or two blocks with 6 children, 5 argument lists; values: nests of blocks three deep, templates, ARNs and bucket names over small alphabets | `ScopesLexical`, `EverythingVisited`, `DiagnosticsExact`, `NoFalseAlarm`, `LiteralsCaught`, `ReportsExact`, `ReportedNeverValid` |
| `scope_lookalikes` | the special positions of the walk | `LookalikesOrdinary` fails, see Findings |
| `command` | every list of up to 4 of 17 arguments, texts of up to 6 runes, an 8-bit int, three outcomes of a write | `OrderIrrelevant`, `TextsExact`, `CapacityExact`, `VerdictDelivered` |
| `command_strings`, `command_writes` | short command lines; texts of up to 5 runes, the three outcomes | `EndsAsDocumented` and `FailedWritesReported` fail, see Findings |

The largest passing runs are `command` (3 million distinct states), `file_checks`
(920 thousand), `rewrite` (885 thousand) and `lint` (636 thousand). Why the bounds are
enough:

- *parse_pool*: five and six entries reach the concurrent branch; with a limit
  of two, `g.Go` blocks while more entries wait, which is the only effect of the
  limit. Sizes beyond that add entries that behave like these; the proofs cover
  all sizes.
- *rewrite*: two processes give every kind of overlap of two; two user changes
  allow one before and one after any check, or a swap and a swap back. The
  proofs cover all numbers.
- *lint* and *fmt*: a root with a shadowed pair and a third file, a second
  directory (so that what is carried across iterations shows), a hidden one.
  Two or three files of one directory suffice for "one fails, another succeeds".
  Filters: none, one without E008, only E008 (the empty-set case), both, and a
  parse code alone. Unreadable: nothing, the root, the subdirectory. The
  proofs cover all trees; `Terminates` is checked on this one.
- *effective*: two primary files and two override blocks reach every branch
  twice, in both orders, on the same block and on different ones, with a later
  turn working on what an earlier one merged, seeded or added. A third override
  block would meet a block that has been merged before, as the second does.
  An override file's name sorts before a primary's in some modules, so that
  the order of names and the order of application differ. Providers have no
  alias, a literal one, or one that is empty or no literal, which
  `topLevelBlockIdentity` does not tell from none but `allowOverrideOnlyBlock`
  does. The proofs cover any number of files, blocks and overrides.
- *file_checks*, inputs and values: two locals give chains and every cycle of one and two; types
  and arguments nest twice, so that each recursive call is reached from another
  one; two blocks meet the cache empty, filled with an answer, and filled with
  nothing. Three levels of blocks reach a flag recomputed below one inherited.
  Names of up to nine characters stand on both sides of the bounds 3 and
  `MaxName`. The values of interpolations include a whole CIDR block, an IPv6
  address and a service with its colon; there is a service of one letter, so that
  both exceptions of `ReportedNeverValid` bite. Trees, module blocks and values
  never meet in one file: nothing passes between the checks.
- *file_checks*, the walk: scopes nest twice, with a sibling after each, so a scope left
  too early or too late shows. A language position is a chain of at most four
  blocks; every chain one insertion, removal, replacement or dynamic block away
  from it is there, lookalikes with labels of their own and blocks directly in a
  dynamic one among them.
- *command*: four arguments hold every pair of flags with a subcommand and a
  path, twice over; six runes hold a string that is opened, left by ESC and
  closed, with a rune on either side. Every count of an 8-bit int is tried, and
  the constants of `humanPreGrow` are scaled so that the product wraps once and
  several times. The proofs cover every width.

Deadlock checking is off where the system stops by design: a load returns, a
process exits.

## What is proved

`ParsePoolProofs`, from `PoolAssumption` (sizes are natural numbers, the limit
is positive):

- `Invariance`. The inductive invariant joins the type invariant with one part
  for the sequential branch (slots below the index are filled, the rest empty, no
  goroutine), one for the concurrent branch (which goroutine may exist where the
  loop is; each slot is filled exactly when its goroutine has parsed; a loop that
  ended early, or a goroutine that failed, implies a cancelled context), one for
  the return value and one for the semaphore, which holds one token per running
  goroutine. `NilMeansComplete` alone is not inductive: it needs all of them.
- `Completeness`, `PartialResults`, `QuietAfterReturn` follow from it.
- `Promptness` needs a second invariant: from the moment `gctx` is cancelled the
  set of late and parsing entries no longer grows, and it starts inside the set
  of token holders.
- `Refinement`: every step fills a slot, ends the load, or changes nothing that
  `DirLoad` can see.

`RewriteProofs`, from `RewriteAssumption` (finitely many processes and names,
at least one mode):

- `Invariance`. `TempInv`: processes between CreateTemp and the end own
  different existing names, with the formatted bytes of what each read and, after
  Chmod, the mode each saw. `VersionInv`: a raw file at the path is the newest
  version any process has seen, and a process that read after the last user
  change is ahead of the path and of all others. `PermInv`: while no user
  interferes, everybody saw the mode the path still has, even across other
  processes' renames. `SwapInv`: what the last Lstat saw stands until a user
  interferes.
- `NeverTorn`, `SwapRefused` (of every process whose last Lstat answered),
  `EditsSurvive`, `KeepsMode`: a rename installs
  the formatted form of what was read, and these parts say how that relates to
  the path now. `Reaped` is preserved by itself, given `TempInv`.
- `Refinement`: only `Rename` is an abstract commit.

`LintRunProofs` and `FmtRunProofs`, from `LintAssumption`, `FmtAssumption` and
`WorkspaceAssumption` (finitely many directories and files):

- `LintRunProofs`: the invariant says of every directory whether its turn is over,
  and of every file and code of one that is, that a violation is in the list
  exactly if the filter, the view and the file's state call for it (`ListInv`,
  a biconditional, so that nothing is lost and nothing is added while
  directories are appended). `FixInv` and `FailedInv` do the same for the files
  `FixFormat` has passed, `LateInv` counts what was begun after the signal.
  `ReportExact`, `NoFalseClean`, `ToolTroubleIsLoud`, `FixedFilesExact`,
  `OneLateWrite` and `FixCancelSeen` follow.
- `FmtRunProofs`: every file asked for is pending or has been passed, and one
  that was passed is formatted, or was dirty and printed, or has set the error
  flag. Besides the run's properties, `LateCorrect`: after a signal at most the
  rewrite under way is completed.

`EffectiveProofs`, from `ModulesAssumption` (what the parser and the directory
listing give: finitely many files, names distinct and in order, a file's blocks a
sequence of block records whose nested blocks are a list, as are theirs and those
one level further down, each argument with its file's name and a position of its
own, later blocks at later positions):

- `Good` says what every state of the memory is like: a file's body is its copy
  exactly if it is owned, no reference dangles, every object is the parser's or
  a clone of an earlier turn, the parser's objects are as parsed, and what is in
  `ownLocals` is a clone. Each operation on the memory has a lemma: it keeps
  `Good` and every block's place, and changes what it is given and nothing else.
  That a clone's reference is new needs the turn in it: a turn comes once.
- `IntactCorrect`. `ParsedIntact` is not inductive: `Overwrite` would break it
  if `ownLocals` held a place of the parser's.
- `PlacesCorrect`: a place recorded in the index keeps the kind of block it was
  recorded for, because a merge changes no type, label or alias (`MergeKeeps`,
  for every merge rule of `OverrideMerge`) and a locals block only gains names.
- `ArgumentsCorrect` and `VerdictsCorrect`, any number of files, names, blocks and
  overrides. `MergedOK(R, m, x)` says what memory `m` and index `x` are when the
  blocks of `R` have been read: an identity is indexed exactly if a block of `R`
  founds it; each argument of the block there is that of the last of `R` that has
  a say in it (`ArgsOK`); a local's first definition has the value of its last
  override and the other definitions the values they were written with
  (`LocalsOK`). It holds of the primary files when they are indexed
  (`IndexPrimaryMerges`: the earliest place is the first block), and each kind of
  turn has a lemma that carries it from `Read` to `Read` with the turn's block
  added (`MergeMerges`, `AddMerges`, `LocalsMerges`, `TerraformMerges`,
  `SkipMerges`), which needs that the block comes after everything read: the loop
  takes the blocks in their order. Two parts of `MergedOK` are there for the
  locals: a primary block's place has its own numbers and no other place holds
  a locals block, and a clone is at the place it was made for (`HomeOK`), without
  which writing to a block the merge owns could change a second place.
  For E005, `OrderOfNames` shows that the table `sourceOrder` orders names as
  Terraform reads the files (by counting the files before each), and `LaterIs`
  that `laterAttribute` goes by the order of blocks, in one file by position.
- `NestedCorrect`. `MergedOK` says the same of nested blocks (`NestedOK`): of a type
  that is replaced, the block at an identity's place has those of the last of `R`
  that supplies any; of a type an override may not touch, and of a resource's check
  rules, the first block's. It is stronger than `NestedTogether` in that a resource
  written with one lifecycle block still has at most one, without which the next
  merge could find its rules in another. The lemmas it rests on say what selecting
  from a list (`Where`) makes of joined and flattened lists, so that the blocks of a
  type after `MergeBody` are those of one of its two arguments.
- `SelectionsCorrect`, with the invariant `TInv`. `Settled(R, bs, s)` says of the
  terraform blocks `bs`, at the places `s`, that the storage selections are as
  written or, once a block of `R` makes one, its own in the first of them and none
  in the others, and that a provider named by a block of `R` is required in exactly
  one place with that block's argument. Where the selection stands is not part of
  `TerraformSelections`, but needed for it: what an override replaces it must find
  in all the blocks. `Earliest` and `InOrder` are shown to exist for any number of
  places.
- `StickyCorrect`, an action property, with the invariant `SInv` (the blocks in an
  encryption block have lists of blocks). `Part(x, y)` says that `y` is what became of
  the block `x` of an encryption block: enforced if it was, with its metadata
  alias, and the same of the targets of remote state. It holds across
  `MergeTarget`, `MergeKeyed` and `MergeRemote`, so `Parts` does across
  `MergeEncryption`, and is transitive. `Guarded` says that each encryption block of
  the terraform blocks is still there with its parts, first of what an override
  replaces, then of each block it applies, then of a whole override
  (`OverrideGuards`). A turn's step is then `Outlasts`, from which what `Sticky`
  reads off follows. For `ignore_changes = all`, `LifecycleIgnores` goes with the
  merge of lifecycle blocks, `IgnoringMerges` with the whole block.

  The merges that go through a list of blocks (`Combined`, `Applied`, `MergeRemote`,
  `MergeEncryption`) are recursive functions on the length of the list, and what
  they keep is proved by the least length at which it is lost.

`ScopeWalkProofs`, from `ModulesAssumption` (the parser's trees are
well-formed), for trees of any depth:

- `ScopesCorrect`. The invariant pairs each pending node with the
  iterators the walk will have when it gets there: those of its level of the
  scope stack. The alternation of pushes and pops with the levels of `todo` makes
  it inductive.
- `VisitsComplete`: what has been visited at the end is what the tree calls for.
  The reference looks at the whole path of a reference, the walk at four types,
  two flags and the walker's fields; `PlaceOK` says for each open body that what
  it was given is what its path amounts to, `WalkerSetUp` the same of the pending
  nodes, and `Covered` that every reference is visited, pending, or below a
  body that is open or still to be opened.
- `ReportsComplete`: the violations are a function of what has been visited
  (`Diagnosed`), so they are those of the tree in the end.

Both hold of all well-formed trees. What the code tolerates is part of the
reference (`Position(a, TRUE)`), lookalike by lookalike; that no other is tolerated
is what the two say beyond the grammar.

`FamilyProofs`, from `ConfigsAssumption` (a file is a finite tree of bodies, its
values are the parser's) and `LiteralsAssumption`: `ReportsCorrect`, for files of
any depth, any filter and any text of a name. Of every check that has begun, what
was reported is called for (`Sound`), and what is called for has been reported or
is below a body in the list of the check under way (`Complete`); each body in the
list carries the AWS flag that the blocks around it decide (`WorkOK`). The
grammars of names are proved equal to their references by `BucketNames` (an
address is four numbers between three dots) and `DirectoryNames` (the last two
hyphens before the suffix).

`ReportedStaysInvalid`, for templates of any parts and any values (`ValuesAssumption`
says only that a value is a text). `Matches` relates the text the code composes, with
a placeholder in each hole, to the text with the values: the places of the literal
parts move but keep their order and their atoms (`Substituted`, `Climbs`), and what
no value contains comes from a literal part (`CameFrom`). So in an ARN whose values
have no colon the n-th colon is the same one in both (`ColonsMatch`), and a field
without a placeholder is the same text (`FieldKept`). Values within their fields come
down to that: five colons that stand before a value are those of the whole text
(`ColonsBegin`), so the fields are the same (`SameRun`) and the rest may be anything
(`ResourceAtWill`); with a placeholder for each value that has a colon, an ARN is
still one (`MaskedIsARN`). In a CIDR block the three dots and the slash of the
literal parts are those of any valid value (`SeparatedIn`, `NoOther`), each segment is
either without a hole, and the same, or a hole by itself (`HolesApart`), which the
code's `0` stands for (`SameNumber`); with numbers for its holes the template would
be valid. The code looks at the length of literals only, which is where the exception
is.

`CommandProofs`, from `CliAssumption`, `ReportAssumption` and
`CommandAssumption` (the kinds of argument exclude each other; the cap is in the
range of an int):

- `CapacityCorrect`: the estimate is exact up to its cap for every width of int,
  in spite of the product that wraps. The division recovers the factor only if
  nothing wrapped.
- `TextsCorrect`: what `sanitize` writes of a text is exactly what is visible of
  it, by a grammar that reads the text as a whole. Of what has been read, all
  before some point is settled (however the text goes on, its visible part
  begins with what has been written), and from there on it is an escape
  sequence whose end has not come, of the kind the state names (`TextOK`).
- `TerminalCorrect`: what is written of a text has no control character, escape
  or bidirectional override. `ExitCorrect`: whatever came of every write,
  exit codes 0 and 1 mean that the output was taken in full, but for fmt's paths and
  the outputs that are `Unguarded`, and 0 that no error was found. It rests on what
  the code is told of each write (`WriteErr`) and on which writer each command uses.
- `OrderCorrect`, for command lines of any length: what has been read so far is
  a set, and the decision a function of that set.

Model-checked only:

- liveness (`Returns`, `Terminates`): fairness is out of the prover's reach;
- `NoFalseAlarm` and `LiteralsCaught`: `ModuleInputs` resolves expressions and
  compares them with types by recursion over trees. What such a definition says of
  every tree is an induction over data, which the installed provers cannot do, and
  a module that declares it loses the SMT backend.

## Findings

- `power_loss`: the comment above `writeFormatted` (`checker/format.go:148-152`)
  promises that a power loss leaves the original or the formatted content. There
  is no sync between the write and the rename, so a rename that reaches the disk
  first leaves a truncated file. For SIGKILL the promise holds.
- `lint_order`: the README (line 323) says `violations[]` is ordered by file and
  line; the list is a concatenation, per directory, of three lists.
- `scope_lookalikes`: `scopeTraversalBlockType` keeps a block's type, and with it
  the allowances of its position, "only when the relevant Terraform/OpenTofu grammar
  permits its position and label count", says its comment (`checker/checks.go:467-470`).
  It does not ask a variable block anything, nor a lifecycle block where it stands,
  and `walkDynamicBlock` hands on the type of each block in a dynamic one as it is
  written (`checker/checks.go:807-809`). A misspelt root in `ignore_changes` of a
  lifecycle block at the top level goes unreported.
- `command_strings`: `sanitize`'s comment (`output/format.go:281-285`) ends OSC
  strings with BEL or `ESC \` and the other four with `ESC \` only. The code has one
  state for all five, and BEL ends each.
- `command_writes`: `run`'s comment (`main.go:128-131`) promises exit code 2 for
  broken pipes and short writes on stdout. `fmt` prints its paths without a look at
  the error (`main.go:734, 846`). The JSON writers and the line of a lint that found
  nothing look at the error but not at the count (`output/format.go:117-121, 128-130,
  228-230`), though `format.go:173-177` says why the others use `WriteTo`, and a
  comment in `main_test.go:1614-1616` takes the JSON path to do so too.

Disagreements without a run of their own: the README calls every code of its table
toggleable by `--checks=` (lines 147 and 157), E001 among them, but parse violations
are always reported (`main.go:394`). `checkModuleInputs` compares an argument with its
type only if E006 is enabled (`checker/modules.go:356`), although the comparison also
reports E007, so `--checks=E007` loses the unknown fields of objects; SKILL.md (line
41) says that filters are additive. The comment of `arnMinLength` calls it tight
because services have two characters (`checker/arn.go:156-161`), but
`isValidARNService` accepts one, so that `arn:aws:a:::b` is refused for its length
alone; `RefusedForLength` is the exception for it.

Other behaviour the models show, and which no document contradicts: an
interrupted `--fix` exits with 130 and no report although it may have rewritten
files; `fmt` does not look at the context after its last file; a path deleted
between the read and the rename is created again, and whatever stands there is
replaced if the last Lstat fails, since its error is ignored; an edit made after the
read is overwritten; a killed process leaves its temporary file; a file that grows
past the limit between Stat and the read is refused by a second look at its size.
`describe`, `version` and `help` accept `--fix` and `--checks=` without a word. An
interpolation that contains colons can shift the fields of an ARN, or make an
IPv4-mapped IPv6 prefix of a template that was reported as no IPv4 one. An ARN in an
ISO partition with a literal region accepts any region. A `data` block in a
check block, which Terraform permits, is a lookalike to the code and to the reference
alike: its `provider` is walked as an ordinary expression. `LintRun`'s violations are a
set: that none is listed twice is not shown.

## Not modelled

The HCL parser and formatter (external: a file parses or not, is formatted or
not), the text of messages and the layout of output, JSON encoding, the tables
that `describe` prints, the Windows build's flags (zero there, so opens may follow
links), the benchmark corpus tool. Of the walk: a dynamic block directly inside
another one's body, which the grammar forbids. Of the module checks: how a source
string resolves to a directory, the table of functions with a known result type.
Of the values: IPv6 prefixes; account IDs, services and regions are members of
sets rather than texts; each class of entries of the QuickSight table has one
member. `LintRun` takes the results of the semantic checks as a set per file:
the other modules are about what is in it.

## Plan

Done: all components but the two listed as not modelled. What is left, in order:

1. Where a module source leads (`checker/modules.go:303-335`), with links and
   unreadable directories.
2. The Windows build: `Rewrite` without `O_NOFOLLOW`, to say what its last Lstat
   is worth there.
