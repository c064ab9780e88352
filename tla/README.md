# A TLA+ model of mlboard

mlboard is a header-only C++ library that writes TensorBoard event files. A program creates a
`FileWriter` for a log directory; `SummaryWriter` and `MlboardLogger` build summaries and hand them
to `FileWriter::CreateEvent`; a thread of the `FileWriter` takes them from a `SharedQueue` and
appends them to the event file. The repository's CI runs a linter over the sources, `.ci/cpplint.py`,
which the repository carries and which is by far its longest program. This directory models both: the
concurrent core of the library, the summaries built on it, and the stateful parts of the linter. TLC checks
the models on small instances; TLAPS proves the main results about the core, what is logged of every kind of summary, what the
linter prints of each of its files and counts, and what it says of the includes, the functions, the conditionals, the path and
the guard of a file.

Paths below are relative to the repository; `FI` is `include/filewriter/filewriter_impl.hpp`,
`SQ` is `include/filewriter/sharedqueue_impl.hpp`, `SW` is `include/filewriter/summarywriter_impl.hpp`,
`CL` is `.ci/cpplint.py`.

## 1. Inventory

| component | state | operations | used by | what makes it correct |
|---|---|---|---|---|
| `SharedQueue` (`SQ`, `sharedqueue.hpp`) | `queue_`, `mutex_`, two condition variables, `maxSize` | `Push`, `Pop`, `Size`, `Empty`, `MaxSize` | `FileWriter` from several threads | first-in first-out; bounded; no lost wakeup; `Size()` is read without the mutex |
| `FileWriter` (`FI`, `filewriter.hpp`) | `close_`, `flushmilis`, `nexttime`, `outfile`, the thread | constructor, `WriteSummary` (thread), `CreateEvent`, `Flush`, `Close`, destructor, `MaxSize()`, `FlushMilis()` | everything that logs | the file is at any time a prefix of the pushed events; Close loses nothing and returns; constructor race is harmless |
| flush interval (`FI` 46-48, 66-68) | `nexttime` in whole seconds | compare, reset | `WriteSummary` | rounding, a clock set back |
| `SummaryWriter` Scalar, Text (`SW` 14-51) | none | one `CreateEvent` each | user, `MlboardLogger` | nothing beyond `CreateEvent` |
| `SummaryWriter` Image (`SW` 54-151) | files in `_preprocess_` | save, encode, remove | user | two threads share one directory and file name; the destructor of a `FileWriter` removes the directory |
| `SummaryWriter` Histogram (`SW` 154-228) | none | bucket counts, min, max, sums | user | every value is counted in its bucket; min and max are those of the data |
| `SummaryWriter` Embedding (`SW` 243-361) | `projector_config.pbtxt`, `tensor.tsv`, `meta.tsv` | read, add, write back | user | entries are not lost and name files that hold their own data |
| `SummaryWriter` PRCurve (`SW` 364-468) | none | counts per threshold | user | one column per threshold, cumulative counts |
| `MlboardLogger` (`include/mlboard_logger.hpp`) | counters, tags | `EndEpoch` | ensmallen's optimizers | which epochs are logged, and with which step |
| Util, CRC (`util_impl.hpp`, `crc_impl.hpp`) | none | encode, edges, checksums | the above | a table-driven CRC agrees with its polynomial |
| linter: driver (`CL` 571-642, 850-932, 1161-1221, 5818-6147) | filters and their backup, settings, NOLINT suppressions, counters | arguments, `CPPLINT.cfg` files, one file after another, `Error` | `.ci/lint.sh` | nothing said of a file depends on the files before it; the counts agree with what is printed |
| linter: includes (`CL` 685-847, 4362-4519, 5339-5517) | `_IncludeState` | one line, a conditional, the end of the file | `ProcessLine` | the order complaints are the documented ones; duplicates and missing headers are real |
| linter: nesting (`CL` 2109-2681, 5641-5700) | `NestingState`: stack, `pp_stack` | `Update` | every check | blocks are those of matching braces, whatever conditionals do |
| linter: cleansing (`CL` 1244-1489) | none | passes over the whole file | `ProcessFileData` | what is left is the code |
| linter: brackets (`CL` 1492-1726, 2377-2427) | none | forward and backward search | many checks | brackets match; both directions agree |
| linter: function lengths (`CL` 1009-1062, 2929-3015) | `_FunctionState` | one line | `ProcessLine` | no line is counted for another function |
| linter: guards (`CL` 1065-1128, 1742-1884) | none | search for the top of the checkout, three lines of the header | `ProcessFileData` | the same guard in every checkout; the body does not matter |
| linter: single-line checks; conversion to XML | none | regular expressions on one line | `ProcessLine`; CI | not modelled, section 6 |

Interaction: logging threads and the writer thread share `queue_` under `mutex_`, except for
`Size()`; `close_`, `nexttime`, `flushmilis` and `maxSize` are shared without any lock; `outfile` is
opened by the constructor's thread and written by the writer's. The hard behaviours are all there:
interleavings around the two condition variables, unlocked reads, the order of construction and of
closing, stream errors and the end of the process in the middle of a record.

The summaries meet in the `FileWriter` and, where they keep files, in the log directory, which nothing locks.
The linter is one thread, but nearly everything it knows is global and lives on from line to line and from
file to file: what is hard there is state that is stale, saved and restored in the wrong order, or reset too late.

## 2. Plan

In this order, each a module with its runs, and proofs where noted.

1. `BlockingFifo`, `SharedQueue`: done.
2. `EventLog`, `FileWriter`, `FileWriterProofs`, which holds the theorems of the queue and of the timer, too: done.
3. `ProjectorConfig`, `ImageStore`, `Histogram`, `PRCurve`, `MlboardLogger`: done, checked together (`Summaries`), with
   `ProjectorConfigProofs`, `ImageStoreProofs`, `MlboardLoggerProofs` and, for the other two and for what the run checks,
   `SummariesProofs`.
4. `FlushTimer`: done.
5. The linter, `LintDriver`, `LintIncludes`, `LintNesting`, `LintCleanse`, `LintExpressions`, `LintFunctions`,
   `LintPaths`, `LintGuard`: done, all but the driver checked together (`LintText`, `MCLintText`); `LintDriverProofs`
   and `LintTextProofs`.
6. `FoldFacts`, the lemmas on folds that the last two and `SummariesProofs` need: done.

Left, theorems: for `LintNesting`, that blocks are closed by matching braces (`BlocksMatch`), which compares the stack with a
definition over all braces of the file.

## 3. Modules

**`BlockingFifo`** is what `SharedQueue` promises: `Push` and `Pop` take effect at one instant between
call and return; no mutex, no condition variable.

**`SharedQueue`** is the class step by step. `qpc[t]` says where a thread is in `Push` or `Pop`
(`push_lock`, `push_test`, `push_store`, `push_notify`, and likewise for `Pop`); each action is the code
between two of these places, so that every interleaving that the mutex allows is there. A thread that
calls `wait` releases the mutex and enters `queueempty` or `queueFull` in one step, as the standard
says; `notify_all` empties the set, and the thread then competes for the mutex again; a spurious
wakeup removes one thread. The notification is a step after the unlock, as in `SQ` 22-23 and 36-37.
`MaxSize() = n` is a step that nothing guards. `Size()` is not a step: `SizeIsZero(t)` is the set of answers
a thread may get, both answers while another thread is inside `queue_.push`, which is a data race.
`item[t]` is the argument of `Push` or the local that `Pop` returns.

**`EventLog`** is what a `FileWriter` promises: the file grows by the logged events in order, and the
log closes only with everything in the file or after writing has failed for good.

**`FileWriter`** extends `SharedQueue` (the consumer is the writer thread, the producers are the threads
that call `CreateEvent`) and adds the owner (`opc`: constructor in its three steps, `Close`, `Flush`,
destructor), `WriteSummary` (`wpc`: one step per read of a shared variable), the stream and the file.
A record is four writes and a `flush`: any number of its fields may reach the file before `flush`
(`torn`), and an error sets the stream's badbit, after which writes do nothing. Time is the number of
seconds left until `nexttime`; an interval of m milliseconds becomes m div 1000 seconds or one more,
depending on the fraction of the second at which it starts. `ProcessExit` ends everything where it is; a reader of the
file then sees `Decodable`. `sent` is a history variable: the events in the order of `queue_.push`.
`JoinBeforeClose` chooses between programs that join their logging threads before `Close` or the
destructor, as `examples/getting-started.md` does with its single thread, and programs that do not.

**`FlushTimer`** is the pacing of `WriteSummary` in time smaller than a second (`FI` 46-48, 66-68). The clock
has a phase within its second; `lead` is how many whole seconds `nexttime` is ahead of it. `RoundEnd` cuts the time
plus the interval to whole seconds as `to_time_t` does; the program may change the interval and the system clock be
set back at any instant. `FileWriter` uses only the outcome, a choice of two countdowns; `TTypeOK` in `FileWriterProofs`
bounds `lead` by those two. `interval` is `flushmilis`.

**`ProjectorConfig`** is `SummaryWriter::Embedding` (`SW` 243-361): the tensor file, the metadata file, then the config read,
extended and written back, a step per open, write and close of a stream, by any number of threads, with files
that cannot be opened, metadata of the wrong size and the end of the process between any two steps.

**`ImageStore`** is `SummaryWriter::Image` for a matrix (`SW` 117-151) with `EncodeImage` and the end of `~FileWriter`
(`FI` 100-128): directory, one file per column, encoding, the event, removal of the files.

**`Histogram`, `PRCurve`** are the loops of `SW` 154-228 and `SW` 364-468, a step per value or sample, against the
definition of what the messages mean. Doubles are integers, of which floats are every `Grain`-th; the rounding of the
last edge of a curve is a choice, and so is what is read behind the end of a vector. The default edges double from 1 in place of
growing by a tenth from 1e-12. `InOrder` lists a set of numbers from the least on.

**`MlboardLogger`** is `EndEpoch` for loggers of each kind, each in a training of its own, on one `FileWriter` given as
the log that `EventLog` promises. The remainder by `epochCount` is that of a `size_t` of `Width` bits.

**`LintDriver`** is the linter from the command line to the exit status. A file is data: its directories, its lines, and
what each check finds on each of them; the module decides what is printed. All globals of the program are variables.
`report` is a history variable: for each call of a check, the errors that were printed, at the places they had among those found.
The guard of a header is looked at in steps, since each of its two lines is searched for NOLINT before it is judged.
`Expected` says what should be printed of a file from the file itself, its configs, the flags and its comments: the filters and the
suppressions in force play no part in it.

**`LintIncludes`, `LintNesting`, `LintFunctions`** follow `_IncludeState`, `NestingState` and `_FunctionState` line by line;
a line is what the code's regular expressions tell apart. History variables (`branch`, `seen`, `since`; `closed`, `stray`) hold
what the properties compare the state with.

**`LintCleanse`, `LintExpressions`, `LintGuard`** are functions of a text. Their state is the text, which grows by a line or a
symbol, so that a run goes through every text up to the bound; the properties compare the passes of the code with a lexer,
with balanced brackets, and with the outer lines of the guard.

**`LintPaths`** is the climb from a header to the top of its checkout, and the path below it that names the guard.

**`FoldFacts`** holds no model: it is about the folds of the library, over sets of numbers and over sequences.

Definitions whose comment begins with "Slip" are plausible mistakes; each is used to confirm that a
property fails when the code is changed that way. They are not part of any specification.

**`Summaries`**, **`LintText`** and **`MCLintText`** each hold several instances of components that share no state: the
variable `what` is chosen at the start and says which instance this behaviour is one of, and `v1`, `v2`, ... are its variables.
A property of such a module is the property of the component under that choice. `Summaries` is parametrised like its
components; those it has theorems about are instantiated from their proof modules, so that `SummariesProofs` carries the theorems over.
`LintText` is parametrised, too, and holds the checks that `LintTextProofs` is about: includes twice (for their order, and for what
is remembered of them), functions, paths, guards and blocks within conditionals. `MCLintText` extends it by blocks without conditionals,
comments and brackets and gives all of them their menus of lines.

**`MCSharedQueue`, `MCFileWriter`, `MCHistogram`, `MCLintDriver`, `MCSummaries`** and, for the rest, `MCLintText` name the model values, the inputs of an
instance and the symmetry sets.

## 4. Runs

| run | instance | shows |
|---|---|---|
| `queue_resize` (`SharedQueue_resize.cfg`) | 2 producers, 2 consumers, 2 items, bounds 1 and 2 changed at any instant, 2 spurious wakeups; symmetry | `QTypeOK`; `NeverOverfull`; `NoLostWakeupEmpty`, `NoLostWakeupFull`; the queue implements `BlockingFifo` (`FifoSpec`) |
| `queue_fixed` (`SharedQueue_fixed.cfg`) | the same threads, bound 2, 1 item, 1 spurious wakeup, fairness | `NotFullIsNotified`; `KeepsMoving` |
| `queue_raise` (`SharedQueue_raise.cfg`) | as `queue_resize` | a counterexample to `NotFullIsNotified`, finding 1 |
| `writer_any` (`FileWriter_any.cfg`) | 2 producers with 2 events each, bounds 1 and 2, interval 1500 ms, 1 spurious wakeup, no discipline; symmetry | `TypeOK`, `Accounting`, `ReadablePrefix`, `ProducerOrder`, `PopNeverWaits`, `NoWriteBeforeOpen` |
| `writer_joined` (`FileWriter_joined.cfg`) | 2 producers with 2 events each, bound 1, intervals 0 and 1000 ms, fairness, logging threads joined before Close | `CloseDrains`, `LogSpec`, `EventuallyWritten`, `CloseReturns`, `PushReturns` |
| `writer_flush` (`FileWriter_flush.cfg`) | 1 producer, fairness | a counterexample to `FlushReturns`, finding 2 |
| `summaries` (`Summaries.cfg`) | embeddings: 5 calls in a row with every failure but that of the config, 4 calls on 2 threads with failures and a crash; images: 3 calls of up to 2 columns, with failing saves and a destructor, on one thread and on 2; histograms of up to 4 of 10 values and 4 sets of edges; curves of up to 3 samples, 4 numbers of thresholds; 2 scalar loggers used twice, 5 of other kinds with intervals 2, 1, 0, -1 | `ReturnedListed`, `EntriesAppended`, `EntryNamesOwnFiles`; `ImagesOwnAndGone`; `SummaryOfValues`; `CurveOfSamples`; `StepsLogged`, `CompleteWhenClosed` |
| `timer` (`FlushTimer.cfg`) | 3 ticks to a second, intervals 0, 2, 3 and 7 ticks, the clock set back by 2 seconds, 3 missed ticks, a queue of 2; fairness | `Paced`, `RoomAgain`, no deadlock |
| `lint_files` (`LintDriver.cfg`) | 5 files in 3 directories, in 5 orders, with 3 command lines and every choice of 5 configs; fairness | `PrintedAlone`, `CountsAgree`, `Ends` |
| `lint_text` (`LintText.cfg`) | every sequence of up to 5 of 8 headers with `#if`; up to 7 lines of 2 headers and all conditionals, not nested; files of 4 lines of 11 and of 10 kinds of declarations; 6 lines of nested conditionals and classes; one line of 5 of 9 tokens, 3 of 14 lines; texts of 5 symbols (4 of 8 for angle brackets) over 2 lines; files of 5 lines of functions; every path of 3 directories with every choice of repositories; headers of 4 lines | `OrderJudged`, `HeadersKnown`, `BlocksMatch`, `PreprocessorTransparent`, `CodeElided`, `EndsFound`, `SizesReported`, `SameInEveryCheckout`, `GuardVerdict` |
| `image_threads` (`ImageStore_threads.cfg`) | 2 threads, 2 calls | a counterexample to `OwnImages`, finding 3 |
| `histogram_min` (`Histogram_min.cfg`) | as in `summaries`, values that are floats | a counterexample to `MinIsMinimum`, finding 4 |

Bounds. Two threads of each kind give every pair of roles on each condition variable, and with bound 1
both producers can sleep while both consumers run; a second bound lets `maxSize` be raised and
lowered under a waiting `Push`. Two events per producer are needed for order within a producer and for
a queue that is full when the third `Push` starts. An interval above zero makes the writer
skip its batch at least once; 1500 ms is rounded both ways. The number of spurious wakeups is bounded
because any number of them only repeats the loop's test. The queue's theorems (section 5) do not
depend on any of these bounds, nor do those of the other modules with proofs.

Of the summaries: two threads already interleave every pair of steps, and a third call makes one of them come a second
time; two columns are the least of which one may be missing. With four values a histogram can have a bucket
below, between and above others and a value in none. Two trainings of two epochs give a step that is not the epoch
and an interval left unfinished. Of the timer: an interval below a second, one of a
whole second and one that is neither, and a clock whose phase takes three values, are all ways the sum can be cut.

Of the linter: five headers are enough to leave each of the four sections and come back; seven lines hold an
`#if`, an `#elif`, an `#else` and an `#endif` with a header repeated in three of them; two levels of conditionals around a class
need six lines. Five tokens hold a comment within a string or a string within a comment, with code or another comment behind
it, and a number with two separators. Triggers of one and
two lines take the place of 250 and 400: the code only compares with them and doubles them. Five files suffice for
one that is skipped, one that is excluded, one twice in a row and one whose suppressions match lines of the next.

No symmetry is used in runs with liveness properties. Deadlock is checked for `FlushTimer`, which never stops. The summaries and the linter
end, or their texts are complete. It is not reported for
`FileWriter` because the program ends (after `ProcessExit`, or when all is closed); in `SharedQueue`
`SetMaxSize` is always possible, so deadlock checking says nothing there, and `KeepsMoving` is the
property that would catch threads waiting for each other.

Fairness. Weak fairness only: the operating system runs every thread that can run, and the clock
advances. For the queue, every thread keeps calling. Nothing is assumed about which of several threads
gets the mutex, so no individual `Push` of the endlessly running queue is claimed to return
(`KeepsMoving` speaks of the queue as a whole); in `FileWriter` the number of events is bounded and
`PushReturns` holds for each. Nobody has to call `Close`, change a setting or exit, and
neither a write error nor a spurious wakeup has to happen. In `FlushTimer` time passes and the writer's thread is
scheduled, but nobody has to push, to change the interval or to set the clock back. The linter is a single thread
that waits for nothing, so `LintDriver` assumes weak fairness of its next step; the other modules of the linter and of the
summaries claim safety only.

### Findings

1. `include/filewriter/sharedqueue.hpp:52-53` says `queueFull` blocks a thread "and later notify other
   threads when queue is not full". Raising `MaxSize()` makes a full queue not full and
   notifies nobody (`queue_raise`). In a `FileWriter` the next `Pop` notifies, so the consequence is a delay of
   up to one flush interval.
2. `include/filewriter/filewriter.hpp:57` describes `Flush` as "A function to flush everything
   successfully and close the thread". `Flush` only joins the thread; unless `Close` has cleared `close_`
   it never returns (`writer_flush`). The alternative of `Join` that returns from `Flush` is therefore the one
   part of the next-state relation that no run takes.

3. `include/filewriter/summarywriter.hpp:146-147` says of `Image` that it "has to be run in seperate thread so that this
   function doesn't hinder any other operation". Two threads that do so save to the same file names of one directory, and one
   logs the image of the other (`image_threads`). The files are removed all the same (`ImagesOwnAndGone`).
4. `SW` 174-181 compares a value with the minimum only if it is not a new maximum. For a single value, or ascending ones, the
   minimum stays the largest double (`histogram_min`); `SummaryOfValues` claims the minimum only when a later value sets it.

### Other places where the models restrict what they claim

The code differs from its documentation, or gives no meaning to its inputs, in the places below. They are not runs of
their own; each is the reason for a restriction that a property or an instance states.

- FileWriter: a thread that is blocked in `Push` when `Close` is called may stay blocked once the writer has drained the queue and
  gone (`filewriter_impl.hpp:80`). `CloseDrains`, `LogSpec` and the liveness properties are about programs that join their logging
  threads before `Close`; a second join raises an exception, and the destructor after it does not join again (`JoinAgain`, `Destroy`).
- Flush interval: it is given in milliseconds (`filewriter.hpp:29`) but cut to whole seconds, so a round may begin up to a second
  early. `Paced` says exactly that much.
- Embeddings: two threads lose an entry of the config, a crash while it is open empties it (`SW` 260, 283); without
  paths, every entry names the same two files, and without metadata a `meta.tsv` that was not written (`SW` 309, 357);
  a mismatch of the metadata's size is found when the tensors have already been written over those of an earlier call (`SW` 337).
  `ReturnedListed` is about calls one after another, `EntryNamesOwnFiles` about embeddings with paths of their own.
- Histogram: values are cut to floats before they are compared with edges that are doubles (`SW` 169), and one above the last
  edge is counted behind the end (`SW` 170-171). PRCurve: one column more than `num_thresholds` unless the last edge is
  lost to rounding, in which case a prediction of 1 reads behind the end (`SW` 399-412).
- MlboardLogger: an interval of 0 is a division by zero, a negative one becomes a huge `size_t` (`mlboard_logger.hpp:128`).
- Linter, settings: `linelength`, `extensions`, `headers` and `root` of a `CPPLINT.cfg` stay in force for the files of other
  directories, and of two nested files the outer one wins (`CL` 5922), against the usage text; `--extensions` after
  `--headers` takes the headers away again (`CL` 6103); a filter without a sign ends the linter (`CL` 908). The configs of
  the instance therefore only filter and exclude.
- Linter, NOLINT: checks of the whole file report before the comments have been read (`CL` 5725); `Expected` reads them in the
  same order.
- Linter, includes: with nested conditionals, headers of an earlier branch are still remembered (`CL` 739), so `HeadersKnown` is
  checked without nesting.
- Linter, nesting: `Update` goes on to count the braces and parentheses of a line that is a directive, so the condition of an `#if` that spreads
  over lines counts as code. `PreprocessorTransparent` is about directives that open and close nothing (`DirectivesAlone`).
- Linter, cleansing: a comment that contains `//` leaves its beginning behind (`CL` 1389). So does one that is directly followed by
  another: `CleanseComments` looks for `//` before it removes `/*...*/`, and finds one where `*/` meets the `/` of the next mark, so
  that of `/*a*//*b*/` or `/*a*///b` it leaves `/*a*`. In `LintCleanse` `CutLine` does the same (`Slashes`, `Star`), and the lexer does
  not call such a file `tame`. An unterminated comment is reported one line too low (`CL` 1374). In the lines that keep their strings a
  `/*` within a string is taken for the beginning of a comment (`CL` 1394): of `"/*" /* b */` a lone quote is left, and `StringsKept`
  excludes it (`unmarked`). Multi-line comments have to start their line and end it. `CodeElided` is about files for which the
  passes are made. The alphabet has no `#include`, whose quotes `_CollapseStrings` leaves alone (`CL` 1436).
- Linter, brackets: the forward search takes the `>` of `operator>` for a bracket (`CL` 1547); the alphabet for angle brackets
  leaves `operator` out, that for other brackets has it.
- Linter, paths: of nested checkouts the outermost names the guard (`CL` 1114), and a `.svn` in `/` makes the climb endless
  (`CL` 1104).

## 5. Proofs

Everything here is proved for every value of the constants that satisfies the assumption of the component (`QueueAssumption`,
`WriterAssumption`, `TimerAssumption`, `ProjectorAssumption`, ...), which is about types unless something else is said below, and that
TLC evaluates on each run.

`FileWriterProofs`, first of `SharedQueue`. The inductive invariant `QInv` adds to `QTypeOK` that the mutex is held exactly by the
thread between lock and unlock (`LockProtocol`), that a sleeping thread is inside the call's `wait`
(`SleepersParked`) and that a `Push` carries an item (`Carrying`). Without `LockProtocol` the bound is not inductive: two threads
could be past the test of `SQ` 31 at once. From it follow

- `QueueTypeOK`, `QueueNeverOverfull`, `QueueNoLostWakeupEmpty`;
- `QueueNoLostWakeupFull`, for programs that never set the bound to 0: with a bound of 0 a `Push` sleeps
  on an empty queue for good;
- `QueueNotFullIsNotified`, for programs that never change the bound (finding 1 is what happens when they do);
- `QueueIsFifo`: every step of the queue is a step of `BlockingFifo` or leaves it unchanged. A step that moves
  one thread from place to place moves its abstract call accordingly (`CallMap_Move`); the linearization points are
  `queue_.push` and `queue_.pop`.

Then of `FileWriter`. Every step of `FileWriter` is a step of `SharedQueue` or leaves it alone (`Next_QNext`), hence
`WriterUsesQueue`, and the queue's theorems hold inside the writer. The inductive invariant `FInv` is `QInv` with

- `Wiring`: the writer is inside `Pop` exactly when `WriteSummary` waits for its result, and holds an event when it writes;
- `Construction`: before the constructor is through, nothing is queued and the writer is not past its `Size()` test;
- `ItemReady`: when the writer calls `Pop`, an item is in the queue or another thread is inside `queue_.push`
  and holds the mutex, so that by the time the writer has the mutex the item is there. This is the argument why the
  unlocked `Size()` does no harm, and it needs the single consumer;
- `Closing`: what `close_` says of the owner, the writer and the logging threads;
- `Accounting`, `FilePrefix`, `Spilled`: where every pushed event is, that the file holds the first of them also
  after a write error, and that a completely spilled record is the one in the writer's hands.

From it follow `WriterTypeOK`, `WriterPopNeverWaits`, `WriterNoWriteBeforeOpen`, `WriterAccounting`, `WriterReadablePrefix`,
`WriterCloseDrains`, and `WriterIsLog`: under `JoinBeforeClose`, `FileWriter` implements `EventLog`.

`ProducerOrder` is about the file, but what makes it so are calls that have not returned: `InTurn` says that a producer's events
in `sent` are numbered without a gap up to the event it may still be pushing (`Pushing`), which is its next one. With `InTurn`,
`FilePrefix` gives `WriterProducerOrder`.

At the end, of `FlushTimer`. `NotTooSoon` and `NotTooLate` speak of one instant each; what holds them up between two rounds is
`OnCourse`: the ticks since `nexttime` was computed and those still to go (`Ahead`, which is `Second * lead - phase`) are together
more than the interval less a second, and at most the interval, what the clock was set back and what the thread has missed.
A tick moves one from the second part of the sum to the first, `SetBack` adds a second to both sides, and `RoundEnd` starts anew, where the
lemmas `Cut` and `CutSum` say what cutting a sum to whole seconds leaves of it. `TimerInv` is `TTypeOK`, `OnCourse` and
`NotTooSoon`; from it follow `TimerTypeOK` and `TimerPaced`. The only assumption beyond types is that the
intervals have a largest, which those of an `int` have.

`ProjectorConfigProofs`. For calls that keep out of each other's way (`PathsApart`: paths of their own, below the log directory),
`FilesInv` says where each thread is (`Calling`), what it has made of its files at that place (`Writing`), and that not only
the config but also what any thread has read of it lists only calls that are done with their files (`ListsFinished`): a thread writes
back what it read long before, so the config alone is not inductive. It gives `ConfigNamesOwnFiles`, for any number of threads, failures
and crashes. For calls one after the other (`OneAtATime`: one thread and no crash) with a config that can be opened, `SerialInv` adds that
what was read is the config while the call holds it, and that the config lists the calls that returned (`AllListed`). It gives
`ConfigListsReturned` and the action property `ConfigAppended`.

`ImageStoreProofs`. For any number of threads, `EachPending`: every file in the directory is one that some call has still to remove,
although another call may have written it. It gives `ImagesRemoved`. For one thread, `OwnFiles` says which files are there while the call
saves and encodes, and that each holds the call's own column. It gives `ImagesOwn`, which two threads violate (finding 3).

`MlboardLoggerProofs`. `LoggedInPairs` and `NoLossAlone` rest on `LossesAnswered`: a loss without its accuracy is the last event of
its training, and the logger is between its two calls. `StepsWhenDue` rests on `Counted`: a training has logged as many steps as
its interval goes into the epochs that are over, and the i-th has the number i; `NextQuotient` and `IntervalOf` are the arithmetic,
also of an interval that is negative as an `int`. `LoggerAssumption` demands that a `size_t` holds the intervals, and that a negative
one becomes more than the number of epochs.

`LintDriverProofs`. `CountersOfPrinted` says that the total, the counts by category and the exit status are those of the printed errors,
for every set of files and configs, whatever the checks find and suppress. `Tallied` is that claim at any instant, with the set of the
printed errors finite; it is inductive because `Error` adds the same errors to the report and to the counters, which `ErrorTallied` shows
from the cardinalities of disjoint sets. `Reading` keeps the file at hand one of those that were given.

`FilesJudgedAlone` says that what is printed of a file is `Expected` of it, whatever was linted before, for configs that filter and exclude
(`FilteringConfigs`; section 4 has what the others do). The program keeps the filters, the suppressions and the search for configs in globals, so
`AloneInv` says of each of them what it is at every step of a file: `InForce`, the filters are those of the command line between files and
those of the file while it is read, and the backup always those of the command line; `Climb`, how far the search for `CPPLINT.cfg` files has come
and that it has collected the filters of the configs below; `Heeding`, the suppressions are those of the lines of this file that have been read
(`Heeded`) and of no others; `Output`, what is printed of the files that are done is what is expected of them, and of the file at hand
the errors raised so far that are to be printed (`Shows`). A leaf where this could fail is an early return (`AloneSkipped`) or the start of
a file (`AloneData`), where the suppressions must be empty. `FilteredByLast` is the fold of `_ShouldPrintError`: the last filter that matches
decides, which is why nested configs are applied from the outermost inward.

`LintTextProofs` is about the checks of `LintText`, for files of any length and any menu of lines. A file is looked
at by one of the checks (`OneCheck`), so each theorem is one about a behaviour of that check.

- `HeadersOrdered`. The code keeps a single number of the headers it has seen, while `LateIffUnordered` asks whether any assignment of
  sections to all of them is in order. `Greedy` connects the two: the sections the code assigned never go down, each suits
  its header unless that was reported as late, and no assignment in order is lower anywhere (`Fits`). The last part is what the single
  number needs: what does not fit above the least sections fits above no others. `GreedyNext` is the step, from `NextPlace`, which says
  that `CheckNextIncludeOrder` moves to the least section that suits the header and is not below the current one.
- `HeadersRemembered`. `Recalled` says that what is in `include_list` was read, and that it and the line at hand can be compiled together
  (`Together`): it lies outside the conditional, or in the same branch of it, and then in the last list. `NotForgotten` says that what was
  read outside conditionals is in a list that the end of a branch does not empty. The theorem is about conditionals that are
  not nested, since nested ones refute it (section 4), and about required headers of the standard library (`RequiredAssumption`), as the
  code's table of them has it.
- `LongFunctions`. One `_FunctionState` serves the file. `Counted` says that it holds the head of the function the next line stands in
  (`Within`) and the number of that function's own lines, and that it holds nothing between functions; with it the reports
  are those of the functions that have ended (`Reports`). The logarithm in `Check` picks the confidence: `ConfidenceEnough` shows that it
  is one that is printed. The provers know nothing of powers, so `PowersGrow`, a fact about numbers, is an assumption that TLC
  evaluates.
- `GuardOfCheckout`. `PathInv`: within a single checkout with top `d`, the climb for Subversion is at or below `d`, and the search for
  another repository has noted `d` just when it is above it (`TopFound`).
- `GuardFound`. The state is the header itself, so the invariant is only its type; what is proved is about the function
  `CheckForHeaderGuard`. `FirstLine` and `LastLine` describe its searches. `BodyDoesNotMatter` compares a header with the three lines of it
  that are the guard, and `AdviceHelps` a header with the one mended as the messages say.
- `StackOfFirstBranches`. `UpdatePreprocessor` keeps copies of the stack of blocks, one pair for each open conditional; `PreprocessorTransparent` reads the
  file once more, from its end, and leaves out the lines that do not count. `ReplayInv` says that the stacks so far are those
  that reading the lines in turn gives (`ReadAs`), and the rest is about such a replay, for any step of a line and any directives
  (`ReplayCounts`). `SavedOpen` says what the copies are: the stacks before the `#if` and before the first `#else` of each conditional that is open, in their order.
  Hence the stack on which a line builds was there before its own line, before an `#if` or before an `#else` (`ComesFrom`),
  and up to that place the lines that count now are those that counted then (`CountsAtElse`, `CountsAtEndif`, `CountsKept`), with none that counts in between.
  A line counts from the moment it is read, and an `#else` takes back the `#if` and what followed, where the `#if` as a line
  may only have ended an asm block, which the `#else` does, too (`LoneTwice`). `BlocksSteps` makes a step for each token of `FoldLeft` over a line, `BalanceIs` and
  `CountsIs` show that the balance of `#if` and `#endif`, by which the property finds the conditionals, is the number that are open.

`SummariesProofs` carries the theorems on embeddings, images and loggers over to what the run `summaries` checks, for every value of the
constants: a behaviour that chose a component is a behaviour of that component. It also proves the theorems on the two summaries that
count, which compare counts made one value at a time with a definition that looks at all values at once.

- `ValuesCounted`, for any edges in order, any vector and any distance of floats. `CountInv` says that a count is the
  number of values whose `lower_bound` is its edge (`Tallied`) and what the extremes know of the values so far (`Bounds`: a value that is not
  above all before it is no less than `min`). `LowerBoundIs` says that a `lower_bound` divides the edges into those below the value and
  the others; it needs the edges to be in order, which `EdgesInOrder` shows of the default ones. In `BucketsCount` the buckets that are logged leave out the
  empty ones, so the range of one begins at the edge of another that may be far below: a value in that range has its `lower_bound`
  among the edges that are logged, because the bucket it was counted in is not empty, and can only be that of this bucket. `InOrderLists`
  is what compacting the counts amounts to.
- `CurveCounted`, for any number of thresholds, weights and samples. A sample adds its weight to one bucket, and what is logged for a threshold is the
  sum of the buckets from it on. `CurveInv` is the property itself with the types: `SampleCounted` is the step, where `BucketOf` says that the sample's bucket
  is at or above exactly the thresholds that accept the sample, whichever way the edges were rounded, `CumulativeAdd` what one more weight in
  a bucket does to the sums, and `WeighedMore` what one more sample does to the definition.

`FoldFacts`. The folds of the library are recursive functions, chosen to satisfy an equation; that some function satisfies it has to be
proved before anything is known of the one chosen. `FoldExists` and `SumsExist` do that, by counting up to the size of the set (`Inductively`, which
rests on the well-founded order of the numbers and takes a set instead of a predicate). The other lemmas say what follows for the folds: their
value is reached step by step (`StepsExist`, `FlattenSteps`), and a sum over a set grows by what is added to it (`SumAdd`, `SumGrow`).

Only model-checked:

- the liveness properties (`KeepsMoving`, `EventuallyWritten`, `CloseReturns`, `PushReturns`, `RoomAgain`, `Ends`), since liveness under
  fairness is beyond the prover;
- `BlocksMatch`, `CodeElided`, `EndsFound`: `LintCleanse` and `LintExpressions` use recursive operators,
  about which nothing can be proved here, and `MCLintText`, in which these three properties are stated, uses them. `BlocksMatch` is about
  `LintNesting` alone; what it compares the blocks with, the pairs of matching braces, is counted over all braces of the file.

## 6. Not modelled

- What an event contains, and its serialization: an event is the pair of its producer and a number. The checksums
  of a record are part of the two writes that carry them.
- The name of an event file, made of the second in which its `FileWriter` was created: two created in one second
  share it, and the second truncates the first. The FAQ tells callers to use one `FileWriter` for a directory.
- A maximum queue size of 0, with which every `Push` waits for ever; no document says what it should do.
- `Crc`: a pure function on unsigned 32-bit words, beyond the integers TLC computes with; a narrower word would be another
  polynomial.
- What a summary carries besides: sums of a histogram, precision and recall of a curve, the tags, and the protocol buffers that
  wrap them. `Text` and the overloads of `Image` for encoded images build one `Summary` and call `CreateEvent`.
- Some fifty checks of the linter that match regular expressions against one line or its neighbours and keep no state; to `LintDriver`
  they are what they find. `.ci/cpplint_cppcheckxml.py` rewrites one line at a time.
- In the linter: the wording of messages, access keywords inside a class, and the spelling of a guard
  from its path.
- Calls on an object that is being destroyed, and `join` on a thread that another thread is joining: undefined behaviour
  of the caller. Exceptions out of `std::thread`, `new` or `queue_.push` for lack of memory.
- The components of section 1 not named in section 3, for the reasons given in `PROJECT.json`; protocol buffers,
  build files and tests have no behaviour of their own.
- Without `JoinBeforeClose`, an event whose `Push` overlaps or follows `Close` may stay in the queue after the writer has
  exited, and a `Push` on a full queue then waits for ever. No document of the repository promises otherwise; `Accounting`
  is what is claimed for such programs.
