# A verification development for arsh

arsh is a shell with a statically typed scripting language. This directory holds
TLA+ models of the parts of it that are hardest to test: job control, the
delivery of signals to a script, the code generated for `try`, `defer` and
`with` and its interpreter, the ordered map, the line editor, and the two
threads of the language server. Small instances are checked with TLC; the safety
properties of job control, of the job vector, of signals and of the ordered map,
and those of the line editor about its history, are proved with TLAPS for every
value of the constants.

    tlc -workers 2 -config JobControlSafety.cfg MCJobControl    # one run
    tlapm JobControl_proofs.tla                                 # one proof module

## 1. The system and its models

| part | source | modules |
|---|---|---|
| job objects, pid index, list of jobs | `job.h`, `job.cpp` | `JobTable`, `JobControl` |
| forking, job builtins, `Job` methods | `vm.cpp`, `redir.cpp`, `cmd_job.cpp`, `builtin.h` | `JobControl` |
| layout of the list of jobs | `job.cpp` | `JobVector` implements `JobIds` |
| signals, handlers, termination | `signals.*`, `core.cpp`, `vm.cpp` | `SignalDispatch` |
| code of control flow | `codegen.*`, `type_checker.*` | `ByteCode` |
| interpreter, exceptions, redirections | `vm.cpp`, `state.*`, `redir.*` | `VirtualMachine` against `Meaning` |
| ordered map and its methods | `ordered_map.*`, `builtin.h` | `OrderedMap`; `OrderedMapDict` (implements `OrderedDict`) |
| line buffer, undo, kill ring | `line_buffer.*`, `token_edit.cpp` | `LineBuffer`; `LineUndo` (implements `UndoHistory`) |
| line editor, history, pager | `line_editor.cpp`, `pager.cpp`, `candidates.cpp` | `LineEditor` |
| analysis worker of the language server | `tools/analyzer/analyzer_worker.*`, `archive.cpp`, `source.cpp`, `analyzer.cpp` | `AnalyzerWorker` |

How the parts interact. A command forks processes and hands them to the job
table; children report to the table through `waitpid`, either in the wait loop
of the running command or in `waitForAny`, which the main loop calls when it
finds SIGCHLD pending; the signal machinery decides when that happens. Handlers
and exceptions share the frames of the interpreter, which runs what the code
generator wrote. The line editor reads the commands, and the language server
is a program of its own. `PROJECT.json` lists the hazards of the code with the
lines where they bite and the properties that would notice.

## 2. Modules and their correspondence with the code

`JobTable` is `JobObject`, `ProcTable` and `JobTable`. The table is a record;
each method is an operator from records to records, so a handler that calls
several methods is their composition. The two sorted vectors are functions from
job id to job and from pid to entry. `findProc` is modelled as it is written: it
returns what `std::lower_bound` finds, without comparing the pid.

`JobControl` is the shell process that uses the table. `tbl` is the table, `todo`
the calls that remain of the handler being executed, `pipes` the last-pipe jobs
whose `PipelineObject` is on the stack, `level` the subshell level. The kernel is
`kst`, `rep`, `kpg` (state, unreported change and group of each child) and `tty`
(foreground group). A command or builtin is one action up to its first wait;
each `waitpid` is one action, followed by everything the code does with its
result (including `removeTerminatedJobs` and its `tcsetpgrp`). Between two of them
the kernel may take any step. A failed assertion leaves `todo = Abort`.
`HangupTargets` is what `JobTable::send` reaches when the shell ends in this
state. `BuiltinKill`, `BuiltinBg` and `CallSendMore` model SIGCONT; other signals
only allow a process what `Stop` and `Exit` let it do anyway. `FreeJob` says which
model value may stand for a new job object, and a pid is free when no child has
it as pid or group.

`JobVector` is the layout that `JobTable` abstracts from: `findEmptyEntry` and the
compaction of `removeTerminatedJobs`, one action per round of a loop. `JobIds` is
what they promise: the smallest free id is handed out, and purging removes
exactly the ids of jobs that have left.

`SignalDispatch` is the way of a signal: `signalHandler` adds it to `pending` (or
the kernel keeps it in `kpend` under a `SignalGuard`), an instruction ends in
`CHECK_SIGNAL`, the SIGNAL label reaps children and pops one signal, a trampoline
frame saves the exit status and calls the handler. The script is any sequence of
commands, calls, returns, exceptions, changes of handlers and forks. `ForkChild`
goes on in the child. `lost` and `was` are history variables.

`ByteCode` is the generator for blocks, loops, `if`, `try`, `defer`, `with`, `break`,
`continue`, `return` and `throw`, one operator per visit method, with what the
type checker computes for them (types, depth of try, places of local variables).
Labels are named by the place of the node in the program and become addresses in
`Assemble`, where the exception entries get their order. `VirtualMachine` runs the
code: one action per kind of instruction, with operands, stack guards, local
variables and `finallyEntries`; destroying a `RedirObject` restores the file.
Commands are values that are written, conditions are chosen freely. `Meaning` is
the reference: an evaluator of the source in which a jump or an exception is a
result that each construct passes on.

`OrderedMap` has the buckets with their distances, the entry array with holes,
growth, compaction and iterator locks; one action per method that changes a map.
The hash function (the seed) is chosen at the beginning and by a copy. Each loop is
an operator: `Probe` is the first bucket where `probeBuckets` leaves its loop, `Turn` a
round of `insertEntryIndex`, `Vacate` the backward shift of `remove`, `Place` a round of
`rehash`, and a loop that carries state from round to round is a recursive function
of the number of rounds.
`OrderedDict` is a sequence of pairs with iterator positions; `ret` is what a
method answers, in both, so the refinement also says which calls are refused.
`OrderedMapDict` has the mapping: the entries without holes, and how many of them
an iterator is past.

`LineBuffer` has the operations on the text, the cursor, the newline positions and
the ring of changes; `LineEditor` is `editLine`, one action per edit action, with
the history rotator, the kill ring, custom actions and `completeLine` with its
pager. What the completer answers, what is pasted and what a callback does are
inputs. `UndoHistory` is what undo means: stacks of past and future texts, and
`LineUndo` says that the editor implements it. The state of the history is computed
from the ring of changes by undoing and redoing all of it (`texts`), so the
refinement says that every key is an edit, or a number of undos or redos, of that
history, up to dropping the oldest texts. A character that triggers an abbreviation
(`Space`, `Triggers`) may be merged with the change before it and then be followed by
the change of the expansion: the text between the two, which was on no screen, is
then a past text too (`Typed` in `UndoHistory`).

`AnalyzerWorker` has the server thread, which opens, changes, closes and queries
documents, and the worker thread. A section under the mutex is one step, a run of
the worker is one step per analysed module, so requests come in between; waking up
and preparing the task are two sections. An archive is the text it was built from
with the digests of its imports. `Disk` gives the outcomes of reading a file, which
may be opened or not, and be read or not; `unordered_set` gives ids in any order,
so unused ids and modified sources are taken in any. A module that cannot be read
keeps the empty source it was registered with and has no archive: it is not tried
again until a module that imports it is analysed, and then as an empty text. An
empty document opened over such a source is no change and is not analysed either.
An open that the limit of ids refuses is not counted as open.

`MC*` modules hold model values and inputs for TLC. `*_proofs` hold the theorems.
Definitions marked "Variant" are plausible bugs; no specification uses them. They
show that each checked property depends on the code it is about.

## 3. Runs

| run | what it checks | states | time |
|---|---|---|---|
| `job_control` | the safety properties of job control; interactive, two pipelines of up to two processes, one last-pipe | 1,477,774 | 3 min |
| `job_control_wait` | `WaitEnds` (liveness), and the table in a forked child | 311,356 | 3 min |
| `job_vector` | both loops, refinement of `JobIds`, termination; six jobs | 23,699 | seconds |
| `signal` | handlers, exceptions, fork, termination hook, `TakenEventually` (liveness) | 393,600 | 2 min |
| `program` | 4,425 programs compiled, run and compared with their meaning | 164,960 | 1 min |
| `ordered_map` | refinement of `OrderedDict`; five keys, every hash function into two places | 9,518 | 2 min |
| `line_editor` | every sequence of five keys | 675,287 | 3 min |
| `analyzer` | four documents, two texts, four requests; liveness | 601,834 | 2 min |

The properties, in words:

- `NoAssertFailure`, `IndexExact`, `NoLostChild`: a wait result always reaches the
  process it is about; the pid index knows exactly the children that have not
  been reaped, whatever interrupts a wait.
- `CurPrevOK`, `CurPrevComplete`: the current and previous job are distinct,
  attached and alive, and exist whenever a job can be named. In a subshell they
  may still be jobs of the parent, which are no longer controlled.
- `NoLeftover`, `TerminalReturned`, `NotifiedOnce`: between two commands nothing
  dead is in the table, the terminal is where it belongs, and each job has been
  announced at most once.
- `SignalOwn`, `HangupReaches`: a job object, however old or inherited, only signals
  children of this shell; the SIGHUP of an ending shell reaches every live process
  of the jobs that are not disowned.
- `WaitEnds`: a wait for a job that has ended returns.
- `Sorted`, `CompactAssertions`, `Implements`, `LoopsEnd`: the job vector.
- `OneTrampoline`, `StatusRestored`, `PopNonEmpty`, `NoLostExit`, `TakenEventually`:
  handlers do not nest, restore the exit status, and are only looked for when a
  signal is pending; `waitForAny` misses no exit; no signal starves.
- `SameAsSource`, `FinallyBalanced`, `StackFits`, `Halts`: a compiled program writes
  what its source means, to the file it means, and ends with the same exception;
  `finallyEntries` is balanced, operands fit in the room computed for them, and the
  interpreter comes to an end.
- `RobinHood`, `LookupExact`, `ImplementsDict`: the distances in the buckets are right
  and ordered as probing needs, every key is found, and the map is a dictionary in
  insertion order that refuses modification while it is iterated.
- `ImplementsUndo`, `HistoryKept`, `RotatingUndoable`, `YankPopReplaces`,
  `PagerShowsCandidate`: undo and redo give back texts the line had; the history is
  as before when a line is accepted or given up; and the three places where the
  editor undoes a change of its own undo the right one.
- `UpToDate`, `OpenedKnown`, `RequestsServed`, `WorkerJoined`: a finished analysis is
  that of the current documents, open documents stay known, requests and callbacks
  are served, and shutdown ends.

Bounds, and why they are enough. Two jobs and two pids let a pid be recycled
while another job is attached, let reports of one job arrive in the wait for
the other, and give pipelines whose processes are in different states. The same
instance with a subshell (`MaxLevel = 1`) has 9,825,190 states and passes in 8
minutes; it is too long to run every time, and `job_control_wait` has the subshell
instead, with waits only. With two jobs `syncAndGetCurPrevJobs` never needs the last
attached job for `%-`; theorem `NamesComplete` covers more jobs. Both runs have job
control on; the same instance without it, with a subshell, has 5,003,564 states
and passes in 4 minutes. Six jobs give the binary search three rounds and the compaction
several holes. Three frames are a trampoline, its handler and a call; four
pass too (838,592 states, 8 minutes). `MaxSize = 4` in a table of four buckets makes the map
grow, compact and reach its limit; two values instead of one give 29,244 states,
and pass in 14 minutes. A buffer of four characters, three changes, two killed
texts and a history of three make each of these overflow within five keys. In
`analyzer`, three documents form a chain of imports, of which the last may be missing
or unreadable, so that reverting is indirect; a fourth document and three ids
(`ModLimit = 4`, as an id must be smaller) make opens and imports be refused; one
pending callback is the limit, so that the waiting path of `asyncStateWith` is taken. The programs of
`program` are a core statement in two constructs of any kind or three of the main
ones; three conditions are free and later ones are false, so every loop ends.
`MaxChild`, `MaxPipes`, `MaxLevel`, `MaxKeys`, `MaxRequests` and `MaxChoices` bound what
would otherwise grow without end.

Deadlock is checked in the job-control, vector and map runs. In the others it is
not: the process, the program, the line or the server may have ended.

Fairness. `WaitSpec`: the shell thread goes on when it can, and `waitpid(-1)` does
not pass over a child that has exited for ever; nothing is assumed of the
children or of the user. `FairSpec` of `JobVector`: loops run. `FairSpec` of
`SignalDispatch`: the shell's own steps run, a raised exception is handled, and the
script reaches a command or branch again and again and returns from its
functions; a script that loops without either never reaches `CHECK_SIGNAL`, in the
code as in the model. `FairSpec` of `VirtualMachine`: the interpreter goes on.
`AnalyzerWorker`: the worker thread runs unless it has nothing to do, and the
server thread runs when what it waits for has come; requests need not come.

### Where the code and what it says of itself differ

- `job_control_fork_failure` (`NoAssertFailure`): when a fork fails in the middle of a
  pipeline the processes forked so far are killed and forgotten; reaping one of
  them later violates the assertion at `job.cpp:223`.
- `signal_reap` (`AutoReap`): a SIGCHLD that arrives between the test at `vm.cpp:2442`
  and the guard at `vm.cpp:2446` is popped and dropped; the child stays a zombie
  until another wait.
- `program_defer` (`DefersEvaluated`): a `break` or `continue` out of a block with several
  `defer` statements evaluates only the last of them.
- `line_revert` (`RevertRestores`): a completion that replaces text and has no common
  prefix tracks one change more than it counts; leaving the pager with revert
  does not give the text back.

### What the passing runs leave out

The following cases are excluded by a named condition. What is shown holds of
executions in which they do not happen.

- `JobControl`: a fork that fails half way through a pipeline (`PartialFork`, above),
  and `wait` with the pid of a process of a disowned job (`WaitPid`): there `find`
  returns no job and the assertion at `cmd_job.cpp:322` does not hold.
  `wait` with a pid that has no entry is left out too: `findProc` may then return the
  entry of the next larger pid.
  `HangupReaches` says who is reached, not who is spared: the signal to a group that
  a last-pipe shares also reaches processes of disowned jobs in that group.
- `program` runs the programs that satisfy `Regular`. `OneDefer`: see `program_defer`.
  `Guarded`: the handler of a second `defer`, or of the `finally` of a try with catch
  blocks, has no guard of its level on the stack when it is entered from a place
  the guard was already popped, and then all pending operands of an enclosing
  expression are cleared. `LocalsKept`: `break` and `continue` out of a `try` reclaim
  the variables of the loop, redirections included, before the `finally` and the
  defers around the `try` run. `Restored`: a `defer` entered from inside a `with`, and a
  `finally` entered by a `return` from inside one, runs while the redirection is
  still in place. `StackFits` leaves out tries with several catch blocks, for which
  the computed depth is too small by one for each block after the first.
- `LineEditor`: history entries that do not fit in the buffer (`RotateFits`), and a
  completion that trims text but has no candidate. Both are in `SpecAny`.
- `AnalyzerWorker`: closing a document while the worker runs whose id in the task
  is not its id in the server (`CloseKnown`), and opening one while the worker runs
  for which the copy of the worker may have no id left (`OpenFits`): the assertion
  at `analyzer_worker.cpp:298` would not hold. While a run is repeated the two
  threads use one source manager without a lock (`shared`); the model lets them
  interleave between steps, not inside one.

## 4. Proofs

The theorems hold for any sets of jobs and pids, any limits and both options.

- `JobTable_proofs`: what each method preserves of the table (`TableInv`), and of the
  table together with the kernel's processes: when every child is in it (`Settled`) and
  when a job is forked and not attached yet (`Forked`). `JobControl_proofs`: the inductive
  invariant `IInv`, that the kernel, the wait loops, the builtins and the
  forks preserve it, `Invariance` (`Spec => []IInv`), and from it `TypeOK`, `NoAssertFailure`,
  `NoLostChild`, `IndexExact`, `CurPrevOK`, `CurPrevComplete`, `HangupReaches`, `NoLeftover`
  and `SignalOwn`. None of these is inductive alone. `IInv` adds the shape of `todo`
  (which calls can follow which), that the job of the running handler is either
  settled in the table or just forked (`Settled`, `Forked`), that deleted entries
  exist only inside the wait loops, and that the kernel has reports only of
  children. `NoAssertFailure` is the core: since `findProc` does not compare pids, it
  needs that every child that can be reported has its own entry.
  `AnnouncedOnce` (`NotifiedOnce`) is inductive relative to `IInv`: a report reaches a
  job with a live process, which was not announced before, and processes of a job
  only die.
- `JobControlTerminal_proofs`: `TerminalBack` (`TerminalReturned`). While a handler runs the terminal may be with a job; `TermInv` says that
  it is then with its owner (the outermost last-pipe, or the shell), or one of the
  calls that remain of the handler gives it back (`Restoring`). That also needs that
  `toplevel` is an attached job that leads a group (`TopOK`), and that a job attached after
  a wait is no last-pipe (`AttachOK`).
- `JobVector_proofs`: `TypeOK`, `Sorted`, `CompactAssertions` and `Refinement`
  (`Spec => Implements`). Sortedness is not inductive: the search compares ids with
  indexes, so ids must grow at least as fast as indexes (`GapOK`), and during the
  compaction this is stated for prefix, tail and across the two (`CompactOK`).
- `SignalDispatch_proofs`: `TypeOK`, `OneTrampoline`, `PopNonEmpty`, `NoLostExit` and the
  action property `StatusRestored`. `IInv` says that `canHandleSignal` agrees with the
  trampolines above the innermost subshell guard, and that what they saved is
  `was`.
- `LineEditor_proofs`: `HistoryRestored` (`HistoryKept`), `RotationUndoable`
  (`RotatingUndoable`) and `RingsInBounds`, all for `SpecAny`, so with entries that do not
  fit the buffer; the first two are stated for `Spec` as well. `HistInv` says that the
  entries the rotator has saved, put back at their places, make the list readline
  found. `RotateInv` adds to `RotatingUndoable` that the list of changes is well formed
  and within its capacity, and that an empty or full ring has its index inside:
  otherwise the change that the next rotation undoes could have been evicted, or be
  merged with a later one. Loops over a text or a count (`InsertEach`, `UndoTimes`,
  `RedoTimes`) are recursive functions; that one exists, and that the buffer stays well
  formed in all of its rounds, is shown by looking at the first round where it
  would not.
- `OrderedTable_proofs` and `OrderedMap_proofs`: `MapWellFormed` (`Spec => []Inv`), and from it
  `TypeOK`, `RobinHood` and `LookupExact`. `LookupExact` says nothing of the buckets and
  `RobinHood` nothing of the keys, so neither is inductive. `Inv` (`MapOK`) joins them: the
  buckets are a table of the entries (`Table`: each entry in one bucket, at the
  distance the bucket says, distances growing by at most one along a cluster), the
  keys of the entries differ and carry their hashes (`ValsOK`), and the counts, the
  capacity and the load factor are within their limits (`CountsOK`). The first module
  is about the loops. `probeBuckets` may stop at an entry nearer to its own bucket,
  because going back from a key along its cluster the distance drops by at most one
  for each bucket, so no such entry lies between its own bucket and the key.
  `insertEntryIndex` carries one entry past all buckets that are not nearer, and ends
  since the load factor leaves one bucket empty; the table with one bucket less
  that it leaves in every round is again a table but for the entry it carries.
  `remove` shifts back a run that ends before an entry in its own bucket, so the
  entries behind it keep their place. The second module composes them to the
  methods, with the loops of `map_putAll` and `map_copy`. Lookup then follows: a bucket
  with the key is found, and keys differ.

The assumptions are those named in the modules: `NoJob` is not a job, pids are
positive, limits are natural numbers, SIGINT, SIGCHLD and SIGWINCH are signals, the
capacities of the rings and of the history are positive (they are constants of
`line_buffer.h` and `constant.h`), and the history and pasted texts are sequences;
the empty key is not a key, hashes are natural numbers, and the first numbers of
buckets and of entries are at least two (both are 4 in `ordered_map`).
The exclusions of `JobControl` above are part of `Spec` and so of the theorems.

Only model-checked: the liveness properties (`WaitEnds`, `LoopsEnd`,
`TakenEventually`, `Halts`, `RequestsServed`, `WorkerJoined`), which are outside the
prover; the other properties of `LineEditor` (`TypeOK`, `PagerShowsCandidate`,
`YankPopReplaces`, `ImplementsUndo`), which need what a fold over a list of changes
makes of the text; `ImplementsDict`, that the map implements the dictionary; and
everything about `ByteCode`, `VirtualMachine` and `AnalyzerWorker`. These three use RECURSIVE
operators, which the prover's SMT backend does not accept; for `ByteCode`, `Meaning` and
`VirtualMachine` the theorem would be one by induction over all programs.

## 5. Not modelled

Inside the modelled parts: wait status values, job descriptions and output; the
file descriptors of pipes; the helper process of a long here document; the
dup2 that fails in `restoreFDs`; instructions other than those of control flow;
reading methods of a map; rendering, key decoding, grapheme and word boundaries,
and the filter of the pager; `requestForceRebuild`, circular imports and the
contents of an analysis.

Whole parts: the lexer and parser, types and the rest of the compiler,
expansion, glob and the completer, other builtin methods and commands, the regex
engine and the JSON-RPC transport. They are sequential functions from text or
trees to text or trees, without state that several actors share; a bounded
instance would say little more of them than their tests do. They are most of the
code (with the bundled libraries and the tables of Unicode properties), so the models cover about 5 % of the lines of the repository;
`PROJECT.json` names each covered line range.
