----------------------------- MODULE ParsePool -----------------------------
(***************************************************************************)
(* One directory load of checker/hcl.go: parseDir (parseDirViewsWith runs  *)
(* the same steps) and parseConfigEntries.  A small directory is parsed by *)
(* the calling goroutine; a larger one by an errgroup of at most Limit     *)
(* goroutines, each writing one slot of a results slice shared with the    *)
(* caller.  A signal may cancel the context before, between and during any *)
(* of these steps.                                                         *)
(*                                                                         *)
(* The errgroup and the context package are outside src/; they appear here *)
(* as the code uses them: Go blocks while Limit goroutines run, the first  *)
(* error is kept and cancels gctx, Wait blocks until every goroutine has   *)
(* returned and then cancels gctx, and cancelling ctx cancels gctx a       *)
(* moment later (the parent's error is set before its children's).         *)
(***************************************************************************)
EXTENDS Integers, FiniteSets

CONSTANTS
  MaxEntries,  \* most native-HCL entries one directory holds
  Threshold,   \* parallelThreshold
  Limit        \* runtime.NumCPU() * 2

ASSUME PoolAssumption ==
  /\ MaxEntries \in Nat
  /\ Threshold \in Nat
  /\ Limit \in Nat \ {0}

Slots == 1..MaxEntries
Unlisted == -1
Empty == 0     \* the zero parseResult: parse never ran for this slot

VARIABLES
  pc,        \* where the calling goroutine is
  n,         \* len(entries), or Unlisted before ReadDir
  next,      \* the loop index of the caller
  results,   \* results[i]: Empty, or the entry whose parse is stored in slot i
  worker,    \* worker[i]: the goroutine started for entry i
  sem,       \* tokens held in the errgroup's semaphore
  gErr,      \* the errgroup recorded an error
  ctxDone,   \* ctx.Err() # nil
  gctxDone,  \* gctx.Err() # nil
  retErr,    \* the returned error: "none" while running, "nil", "cancelled"
  retLen,    \* the length of the returned slice
  late       \* history: entries parsed after the cancellation was visible

vars == <<pc, n, next, results, worker, sem, gErr, ctxDone, gctxDone,
          retErr, retLen, late>>
group == <<worker, sem, gErr, gctxDone>>

Running(i) == worker[i] \in {"ready", "parsing", "parsed", "failed"}
Parsing == {i \in Slots : worker[i] = "parsing"}

TypeOK ==
  /\ pc \in {"enter", "readdir", "seq", "seqparse", "loop", "go", "wait",
             "post", "done"}
  /\ n \in {Unlisted} \cup (0..MaxEntries)
  /\ next \in 1..(MaxEntries + 1)
  /\ results \in [Slots -> 0..MaxEntries]
  /\ worker \in [Slots -> {"none", "ready", "parsing", "parsed", "failed",
                           "exited"}]
  /\ sem \in 0..Limit
  /\ gErr \in BOOLEAN
  /\ ctxDone \in BOOLEAN
  /\ gctxDone \in BOOLEAN
  /\ retErr \in {"none", "nil", "cancelled"}
  /\ retLen \in 0..MaxEntries
  /\ late \in SUBSET Slots

\* The context may already be cancelled when the load is called.
Init ==
  /\ pc = "enter"
  /\ n = Unlisted
  /\ next = 1
  /\ results = [i \in Slots |-> Empty]
  /\ worker = [i \in Slots |-> "none"]
  /\ sem = 0
  /\ gErr = FALSE
  /\ ctxDone \in BOOLEAN
  /\ gctxDone = FALSE
  /\ retErr = "none"
  /\ retLen = 0
  /\ late = {}

Return(err, len) ==
  /\ pc' = "done"
  /\ retErr' = err
  /\ retLen' = len

ErrOf(done) == IF done THEN "cancelled" ELSE "nil"

-----------------------------------------------------------------------------
(* parseDir: the entry check, the listing and the choice of branch.        *)

Enter ==
  /\ pc = "enter"
  /\ \/ /\ ctxDone
        /\ Return("cancelled", 0)
     \/ /\ ~ctxDone
        /\ pc' = "readdir"
        /\ UNCHANGED <<retErr, retLen>>
  /\ UNCHANGED <<n, next, results, group, ctxDone, late>>

\* An unreadable directory is one E000 violation and no error.
ReadDirFails ==
  /\ pc = "readdir"
  /\ Return("nil", 0)
  /\ UNCHANGED <<n, next, results, group, ctxDone, late>>

\* errgroup.WithContext under a cancelled parent returns a cancelled gctx.
ReadDir ==
  /\ pc = "readdir"
  /\ \E k \in 0..MaxEntries :
       /\ n' = k
       /\ \/ /\ k <= Threshold
             /\ pc' = "seq"
             /\ UNCHANGED gctxDone
          \/ /\ k > Threshold
             /\ pc' = "loop"
             /\ gctxDone' = ctxDone
  /\ UNCHANGED <<next, results, worker, sem, gErr, ctxDone, retErr, retLen,
                 late>>

-----------------------------------------------------------------------------
(* The sequential branch.                                                  *)

\* Mutant: a cancelled load returns no results instead of the parsed prefix.
DropPrefix ==
  /\ pc = "seq"
  /\ next <= n
  /\ \/ /\ ctxDone
        /\ Return("cancelled", 0)
     \/ /\ ~ctxDone
        /\ pc' = "seqparse"
        /\ UNCHANGED <<retErr, retLen>>
  /\ UNCHANGED <<n, next, results, group, ctxDone, late>>

SeqCheck ==
  /\ pc = "seq"
  /\ next <= n
  /\ \/ /\ ctxDone
        /\ Return("cancelled", next - 1)
     \/ /\ ~ctxDone
        /\ pc' = "seqparse"
        /\ UNCHANGED <<retErr, retLen>>
  /\ UNCHANGED <<n, next, results, group, ctxDone, late>>

SeqParse ==
  /\ pc = "seqparse"
  /\ results' = [results EXCEPT ![next] = next]
  /\ late' = IF ctxDone THEN late \cup {next} ELSE late
  /\ next' = next + 1
  /\ pc' = "seq"
  /\ UNCHANGED <<n, group, ctxDone, retErr, retLen>>

SeqReturn ==
  /\ pc = "seq"
  /\ next > n
  /\ Return(ErrOf(ctxDone), n)
  /\ UNCHANGED <<n, next, results, group, ctxDone, late>>

-----------------------------------------------------------------------------
(* The concurrent branch: the caller.                                      *)

LoopCheck ==
  /\ pc = "loop"
  /\ next <= n
  /\ pc' = IF gctxDone THEN "wait" ELSE "go"
  /\ UNCHANGED <<n, next, results, group, ctxDone, retErr, retLen, late>>

\* g.Go blocks here while Limit goroutines hold a token.
Go ==
  /\ pc = "go"
  /\ sem < Limit
  /\ sem' = sem + 1
  /\ worker' = [worker EXCEPT ![next] = "ready"]
  /\ next' = next + 1
  /\ pc' = "loop"
  /\ UNCHANGED <<n, results, gErr, ctxDone, gctxDone, retErr, retLen, late>>

LoopEnd ==
  /\ pc = "loop"
  /\ next > n
  /\ pc' = "wait"
  /\ UNCHANGED <<n, next, results, group, ctxDone, retErr, retLen, late>>

\* Mutant: the caller does not wait for the goroutines it started.
NoWait ==
  /\ pc = "wait"
  /\ pc' = "post"
  /\ UNCHANGED <<n, next, results, group, ctxDone, retErr, retLen, late>>

Wait ==
  /\ pc = "wait"
  /\ \A i \in Slots : ~Running(i)
  /\ gctxDone' = TRUE
  /\ \/ /\ gErr
        /\ Return("cancelled", n)
     \/ /\ ~gErr
        /\ pc' = "post"
        /\ UNCHANGED <<retErr, retLen>>
  /\ UNCHANGED <<n, next, results, worker, sem, gErr, ctxDone, late>>

\* Mutant: g.Wait's nil error is returned without looking at ctx again.
TrustWait ==
  /\ pc = "post"
  /\ Return("nil", n)
  /\ UNCHANGED <<n, next, results, group, ctxDone, late>>

\* The loop may have stopped early although no goroutine saw gctx cancelled:
\* only ctx itself says so.
PostCheck ==
  /\ pc = "post"
  /\ Return(ErrOf(ctxDone), n)
  /\ UNCHANGED <<n, next, results, group, ctxDone, late>>

-----------------------------------------------------------------------------
(* The concurrent branch: the goroutine of entry i.                        *)

\* Mutant: the goroutine does not look at gctx before it parses.
StartBlindly(i) ==
  /\ worker[i] = "ready"
  /\ worker' = [worker EXCEPT ![i] = "parsing"]
  /\ UNCHANGED <<pc, n, next, results, sem, gErr, ctxDone, gctxDone, retErr,
                 retLen, late>>

\* Returning gctx.Err() makes the group keep it and cancel gctx.
WorkerCheck(i) ==
  /\ worker[i] = "ready"
  /\ \/ /\ gctxDone
        /\ worker' = [worker EXCEPT ![i] = "failed"]
        /\ gErr' = TRUE
     \/ /\ ~gctxDone
        /\ worker' = [worker EXCEPT ![i] = "parsing"]
        /\ UNCHANGED gErr
  /\ UNCHANGED <<pc, n, next, results, sem, ctxDone, gctxDone, retErr,
                 retLen, late>>

\* Mutant: the closure uses the loop's own index, not a copy per iteration.
SharedLoopVariable(i) ==
  /\ worker[i] = "parsing"
  /\ results' = [results EXCEPT ![next - 1] = next - 1]
  /\ worker' = [worker EXCEPT ![i] = "parsed"]
  /\ late' = IF gctxDone THEN late \cup {i} ELSE late
  /\ UNCHANGED <<pc, n, next, sem, gErr, ctxDone, gctxDone, retErr, retLen>>

WorkerParse(i) ==
  /\ worker[i] = "parsing"
  /\ results' = [results EXCEPT ![i] = i]
  /\ worker' = [worker EXCEPT ![i] = "parsed"]
  /\ late' = IF gctxDone THEN late \cup {i} ELSE late
  /\ UNCHANGED <<pc, n, next, sem, gErr, ctxDone, gctxDone, retErr, retLen>>

\* Mutant: a goroutine that returns an error keeps its token.
LeakToken(i) ==
  /\ worker[i] \in {"parsed", "failed"}
  /\ worker' = [worker EXCEPT ![i] = "exited"]
  /\ sem' = IF worker[i] = "parsed" THEN sem ELSE sem - 1
  /\ UNCHANGED <<pc, n, next, results, gErr, ctxDone, gctxDone, retErr,
                 retLen, late>>

WorkerExit(i) ==
  /\ worker[i] \in {"parsed", "failed"}
  /\ worker' = [worker EXCEPT ![i] = "exited"]
  /\ sem' = sem - 1
  /\ UNCHANGED <<pc, n, next, results, gErr, ctxDone, gctxDone, retErr,
                 retLen, late>>

-----------------------------------------------------------------------------
(* The signal handler's context.                                           *)

Cancel ==
  /\ ~ctxDone
  /\ ctxDone' = TRUE
  /\ UNCHANGED <<pc, n, next, results, group, retErr, retLen, late>>

\* The cancellation reaches the derived context.
Propagate ==
  /\ n > Threshold
  /\ ctxDone
  /\ ~gctxDone
  /\ gctxDone' = TRUE
  /\ UNCHANGED <<pc, n, next, results, worker, sem, gErr, ctxDone, retErr,
                 retLen, late>>

-----------------------------------------------------------------------------
Caller ==
  \/ Enter \/ ReadDirFails \/ ReadDir
  \/ SeqCheck \/ SeqParse \/ SeqReturn
  \/ LoopCheck \/ Go \/ LoopEnd \/ Wait \/ PostCheck

Worker(i) == WorkerCheck(i) \/ WorkerParse(i) \/ WorkerExit(i)

Next ==
  \/ Caller
  \/ \E i \in Slots : Worker(i)
  \/ Cancel
  \/ Propagate

Spec == Init /\ [][Next]_vars

(***************************************************************************)
(* Goroutines that can run are scheduled, and one parse ends; nothing says *)
(* that a signal ever arrives or how soon it reaches gctx.                 *)
(***************************************************************************)
Fairness == WF_vars(Caller) /\ \A i \in Slots : WF_vars(Worker(i))

FairSpec == Spec /\ Fairness

-----------------------------------------------------------------------------
(* A nil error means the whole directory was parsed: each of the n slots   *)
(* holds the result of its own entry.  Three places cooperate here - the   *)
(* early break of the loop, the workers' own check and the check of ctx    *)
(* after g.Wait - and losing any one of them returns nil with a hole that  *)
(* collectResults would silently skip, so a file would go unchecked.       *)
NilMeansComplete ==
  retErr = "nil" => \A i \in 1..n : results[i] = i

(* Whatever was parsed before a cancellation is in the slice the caller    *)
(* gets: the sequential branch cuts the slice at the loop index, and no    *)
(* stored result may lie behind the cut.                                   *)
PartialResultsKept ==
  pc = "done" => \A i \in Slots : results[i] # Empty => i <= retLen

(* The results slice is handed to the caller: no goroutine may write it    *)
(* after parseConfigEntries has returned.                                  *)
NoWriteAfterReturn == [][pc = "done" => UNCHANGED results]_vars

(* An interrupt is honoured promptly: once the cancellation is visible to  *)
(* the loop, at most one more file is parsed by the sequential branch and  *)
(* at most Limit more by the concurrent one.                               *)
PromptCancel ==
  Cardinality(late) <= IF n <= Threshold THEN 1 ELSE Limit

(* Every load returns, cancelled or not: no goroutine is left waiting for  *)
(* a token or for g.Wait.                                                  *)
Returns == <>(pc = "done")

(* The load is what DirLoad promises.                                      *)
Outcome ==
  CASE retErr = "none" -> "pending"
    [] retErr = "nil" -> "complete"
    [] retErr = "cancelled" -> "cancelled"

Promise == INSTANCE DirLoad WITH
  cancelled <- ctxDone,
  size <- n,
  loaded <- {i \in Slots : results[i] = i},
  outcome <- Outcome

LoadsDirectory == Promise!Spec
=============================================================================
