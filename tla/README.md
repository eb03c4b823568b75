# TLA+ models of tracy-query

tracy-query is two programs built on the profiler Tracy. The command `tracy-query`
loads `.tracy` captures and answers queries about them. The library
`tracy_embedded_capture` lets a process record *itself*: Tracy's client and Tracy's
receiving `Worker` run in one process, joined by an in-memory transport, and a
coordinator writes the capture at the end. A Rust crate wraps the library for tests
under cargo-nextest.

The modules here model the parts with state and order in them. TLC checks every module
on small instances, and TLAPS proves the theorems for all values of the constants.
`PROJECT.json` lists the parts, the runs, the mutants that show each property can fail,
the lines each definition models, the hazards the properties are for, and the theorems.

    tlc -config MCEmbeddedPipe.cfg MCEmbeddedPipe         one run
    tlapm EmbeddedPipeProofs.tla                          the proofs of one component

## The system

### Embedded capture

| part | state | operations |
| --- | --- | --- |
| memory pipe, `TracyEmbeddedTransport.cpp` | ring, two end flags, statistics, a mutex, two condition variables | `writePipe`, `readPipe` (with or without deadline), `closePipeWriter`, `closePipeReader`, `cancelPipe` |
| session and endpoints, same file | five flags, two endpoints with a closed flag, two pipes | `Configure`, `Listen`, `Connect`, `Accept`, `Send`, `Read`, `CloseEndpoint`, `DestroyEndpoint`, `Cancel`, `GetStats`, `GetError` |
| socket, `TracyEmbeddedSocket.cpp` | a buffer, an endpoint | `Send`, `Recv`, `ReadUpTo`, `Read`, `ReadRaw`, which loop over the transport |
| coordinator, `embedded_capture.cpp` | a state of seven, the Worker, the diagnostic, counters | `configure`, `get_state`, `finish_with_disposition` |
| nextest helper, `rust/tracy-nextest-capture` | policy, output path, the body's outcome | `run`, `run_result`; the process's exit status |

Tracy's client and Worker each own an endpoint: the client listens and accepts, the Worker
connects. Each sends from one thread and receives on another; any thread may close or cancel.
The coordinator configures the session, creates the Worker, and at the end shuts the client
down, waits for the Worker to notice, writes to a partial file and publishes that file at the
output path. The Rust helper calls the coordinator from the test's thread and turns
what it says into the exit status of the process.

What makes this part hard: threads that sleep on two condition variables and are
woken one at a time; ends that are closed under different locks; deadlines that race with
the events they wait for; a coordinator that lets its mutex go in the middle of `finish`;
a file system in which others act too; a process that may be killed at any time.

### Queries

| part | state | operations |
| --- | --- | --- |
| command line, `cli.cpp`, `time.cpp` | the options so far | `parse_cli` and its checks, `parse_time` |
| visitors, `query.cpp` | a running number, a recursion | one visitor for each of the fifteen kinds of record |
| matcher, `query.cpp` | the options and their compiled expressions | the constructor's checks, the tests of a record |
| `sources`, `commands.cpp` | the list of sources | `discover_sources`, `source_selected` |
| range query, `query.cpp` | a chunk, temporary files, a heap | `ExternalSorter::add`, `flush_chunk`, `finish`, `read_node` |
| point query, `query.cpp` | two maps, a set of identities, a vector | the lambda in `run_query` and what follows it |
| counts, `query.cpp` | a map from groups to numbers | `--count` with `--group-by`, of a range and of a point |
| `main.cpp` | the exit status | the handlers of three exceptions |

A query is sequential: options are parsed, traces are loaded, every visitor presents its records,
a matcher drops some of them, and the rest go to the sorter or to the maps of a point
query. What makes it hard: records come in an order that is not the order of the output;
they move through a chunk, files and a heap, ordered by two comparison functions that are written
out separately; identities are put together from numbers that other code
hands out, in recursions that share a counter; `sources` counts, times and selects with loops and tests of
its own, which have to agree with those of the queries; sums and products of 64-bit words; options that may be
repeated and combined in any order; and failures halfway through, of which only the exit status tells.

## The modules

| module | models | role |
| --- | --- | --- |
| `ByteChannel` | | abstract: a byte stream with two ends |
| `EmbeddedPipe` | the pipe, with its critical sections and wait sets | implements `ByteChannel` |
| `EmbeddedTransport` | session, endpoints, socket | two pipes by their amounts |
| `EmbeddedCapture` | the coordinator with Worker, client and file system | |
| `NextestCapture` | the Rust helper | extends `EmbeddedCapture` |
| `OrderedOutput` | | abstract: a stream shown smallest first |
| `QuerySort` | range query from loading to exit status | implements `OrderedOutput` |
| `PointQuery` | `--at` with `--latest`, `--next`, `--active`; `--count`, `--group-by` | |
| `Visitors` | the trace, and the visitors of all kinds | |
| `Sources` | what `sources` lists, counts and times | extends `Visitors` |
| `Matcher` | what selects records, and what selects sources | extends `Sources` |
| `CommandLine` | `parse_cli` and the checks of the matcher's constructor | |
| `TimeValue` | the arithmetic of `parse_time` | operators only |
| `TimeRange` | range options, and the records they select | extends `TimeValue` |
| `EmbeddedPipeProofs`, `EmbeddedTransportProofs`, `QuerySortProofs`, `PointQueryProofs`, `CommandLineProofs`, `TimeRangeProofs` | | theorems about the modules they are named after |
| `CaptureProofs` | | theorems about `EmbeddedCapture` and `NextestCapture` |
| `InventoryProofs` | | theorems about `Visitors`, `Sources` and `Matcher` |
| `MC...` | values of constants for TLC; `MCInventory` is for `Visitors`, `Sources` and `Matcher` together | |

Definitions named `Slip...` are plausible mistakes in the definition that comes after them.
No specification uses them; put in the place of that definition, each makes a property fail.

### EmbeddedPipe

`storage`, `head` and `size` are the ring; `writerClosed` and `readerClosed` its ends;
`transferred` and `highWater` the statistics. `pc` says where a thread is: in no call, about to take
the mutex, asleep, or woken by its deadline. An action is one critical section: it
evaluates the predicate of the wait (`Writable`, `Readable`) and then sleeps, fails, or
moves a chunk. `notify_one` is a choice among the sleepers of the other kind, which may be
none; `notify_all` wakes all. Wake-ups without a reason are an action of their own
(`Spurious`), and so is the deadline (`Expire`). A write longer than the free space is a
sequence of sections, as in the code, which lets the lock go between two chunks. `sent`,
`received` and `eof` are history.

### EmbeddedTransport

`session` is the set of the flags of `Session` that are set. Of a pipe it keeps `size` and
the two flags: what the pipe carries, and how its threads sleep, is the business of
`EmbeddedPipe`. `sender` and `receiver` are the calls in progress. `CloseEndpoint` and `Cancel`
take several locks one after the other, so each is several actions (`closing`,
`cancelling`). A receiving call of the socket is a loop whose reads may time out. Whether the
loop goes on after that depends on the call: `Read` repeats, `ReadRaw` gives up.

### EmbeddedCapture

`pc` follows each caller through `finishImpl` and its handlers; each action is a
critical section of the coordinator's mutex or one thing done between two of them. The Worker, the client
and other processes in the file system are in `Surroundings`, modelled as the
coordinator uses them. Each call of the file system may fail: `Throw` leads to the handler
of `finishImpl`, `FinishThrows` to the outer one, from every point outside of the inner `try`: the locks, `Cancel`,
`Disconnect`, the shutdown, a `setFailure` for some other failure. What an exception from `setFailure` inside one of the two
handlers, or inside that of `configure`, would do is not modelled. The content of a file is `empty`,
`growing` (being written), `whole`, or `short`: `Worker::Write` has come to its end, but the file system took only the first
part. The coordinator gets no result of the write and looks only at the size of the file, so for it `short` and `whole` are
one. Whether a short write throws is up to Tracy's `FileWrite`, which is not in this repository; the model has both.

### NextestCapture

The helper's `step` on top of the coordinator's own variables and actions, which the module takes over from
`EmbeddedCapture`: whatever a step of the helper does to the coordinator is one of them. `Killed` may come at any step: a
signal, an abort, nextest's own timeout.

### QuerySort and OrderedOutput

`Add` is `add` with `flush_chunk` if the chunk is full; `BeginMerge` is the last flush and the
filling of the heap; `Emit` is one turn of the loop of `finish`. A run is the part of its file that
has not been read. `std::sort` may leave records that compare equal in either order
(`Sorted` is a set). Where the code calls the file system or writes output there is an action that
fails, and `MainStatus` is what the handlers of `main` make of it. `content` stands for
all fields that do not order.

### PointQuery

`Visit` takes the records one by one in any order and keeps the two maps as functions
from keys; `Gather` is what happens between the last record and the output, `Emit` a line of it. With
`--count` the records of a range are counted as they come (`CountRecord`), those of a point query after
they have been gathered, in their order (`CountGathered`), and `EmitCount` writes a group. `NoPoint` stands for a query without `--at`.
`visited` is history.

### Visitors, Sources, Matcher

The collections of a trace are Tracy's, and external: `kindOf` and `above` say what each item is and where it
lies, at a place (a thread, a plot, a CPU, a timeline) or below another zone; `marked` is the second of two cases an item
may be in, such as a released allocation, a frame with an image, an interval whose end is missing; `shift` puts the
zones of a GPU out of order. `Init` chooses every such trace of one kind of item, or of two
kinds of a thread. `Ancestors` is the least set that has the zone an item is in and is closed under going up: a definition
without recursion, so that the provers can take part. `NextKind` is one turn of the loop over the kinds, in any order, and
gives the `vectors` that the visitor of that kind walks, `NextVector` begins the loop over the first of them
that is left, with or without starting its numbers again (`CountsOn`). The recursion of the zone visitors is a `stack` of
activations: `Visit` presents an item (`Presents`, none, one or two records) and enters its children
(`Descend`, which is where depth and ancestors are handed down); `Return` leaves a loop, the shared counter as it is.

`Sources` states `discover_sources` as a function of the same trace: it reads the collections by itself, and not
through the visitors. `Matcher` has the tests that a record has to pass (`Matches`) and those of a source
(`SourceSelected`). A regular expression is the set of the texts that it is found in. The texts are those that the code hands to an
expression: the id or the name of a source, a number, the name of a zone or context, or the empty text of a field
that is not there.

### CommandLine

An action is one argument: a word, which is the command, a path or an unexpected option, or an option with its
value. `Check` is what `parse_cli` checks after the loop, and ends in `answer`. `Throws` is what the
constructor of `Matcher` refuses later. `given` is history. Any argument comes at most once, but an option
may come with several values.

### TimeValue and TimeRange

`TimeValue` has the word size as a constant and no variables: a text
is what its digits say, and each check of `parse_time` is an operator. `TimeRange` takes any
sequence of range options, each with a text that `TimeValue` accepts or refuses, validates them,
and compares the records that are selected with those of the range that was asked for.

## What the runs check

All runs check for deadlock except `transport`, where everything may be
closed and the system stops, as the code does.

| run | bounds | what it shows |
| --- | --- | --- |
| `pipe` | two writers, one reader, 2 slots, payloads of 1 and 3 bytes, 4 bytes in all | the stream; no lost wake-up, and writers never all asleep on an empty open pipe; the abstract channel with its end; closing releases calls; a deadline always ends a read; with a peer that reads, sends return |
| `transport` | both sides send messages of 2 into pipes of 1, one side receives with every kind of call | endpoints are made once and in order; short only at the end; nobody is cut off; cancelling and closing release calls |
| `capture` | two callers, publishing by link and unlink or by a move | one finisher, with a live Worker; only a drained Worker is written, and only a file written to its end is published; files, lifecycle; `finish` returns |
| `capture_unlink` | the same, one caller | *violation*: a failed finish may have published |
| `nextest` | one attempt, every policy and outcome, a kill at any step | files against verdicts; the helper ends |
| `query_sort` | five records, chunks of 2, limits 0, 3 and none | the abstract stream, which is in order and loses nothing; completeness at the end |
| `query_status` | the same | *violation*: failures of temporary files exit with 0 |
| `point_query` | six intervals of two sources, three points or none, two limits, every selector, three groupings | what was asked for, once, and nothing else; counts of every group, and only of groups there are |
| `point_samples` | four samples of two addresses | *violation*: two samples share an identity |
| `inventory` | every trace of four items at three places, one of them a thread of another program; 24 sets of options | numbers identify; parents, depth, ancestors; `sources` against the visitors; selectors of the one against those of the other; structure options against the trace |
| `command_line` | up to six of 29 arguments, in every order | accepted as documented, whatever the order; the matcher takes what the parser has accepted; labels |
| `time_range` | three options; words of six bits; 144 texts with up to 2 digits, of which 1 is allowed; a trace of 5 instants | bounds are exact; the records of the range that was asked for; refused for a reason |

The type invariants, which the proofs need, are proved and no run checks them; so are `SortedOutput`, `NothingLost`,
`EofMeansDrained`, `NothingAfterEof` and `Accounting`, of which the runs have the stronger refinements.

Why the bounds are enough. In the pipe, payloads are shorter and longer than the ring, so that chunks
wrap and calls block in the middle; two writers are the fewest for which `notify_one` has
a choice. More slots and payloads, other threads: the theorems. In the transport, messages are longer than the pipe, so that
calls are in progress when an end goes away. The coordinator has no data besides its states; two
callers are enough for one to come in between the steps of the other, and its `configure` is one
critical section. The sorter has more than two files, a chunk that is not
full, files that run dry before others, and records that compare equal or differ in one field only.
Point queries have equal times, intervals that touch the point and one record that is wanted for
three reasons; groups of one field, of two and of none, and groups that no selected record is in. Four items make every
shape of the recursion up to depth four, with siblings below siblings and timelines that are empty; three places
are two with data and one of which only context switches are known; a vector has its first, a middle and its last item. Each
check of `parse_cli` compares at most three options, with the command and a path; the arguments have, for each, values
that pass and values that fail. Words of six bits have
the boundaries that 64 bits have: integer parts and fractions whose product with the unit just fits or just
does not, sums that pass the signed maximum, numbers that are no word at all, a decimal unit and one that is
not. A trace of five instants has times before, at, between and after its ends; three options are two bounds and
a mode, or an option given twice.

## Fairness

- `EmbeddedPipe`: a thread inside a call that can take a step does (`WriterStep`,
  `ReaderStep`), and a deadline passes. Mutexes and the scheduler justify both.
  `OpenSendsReturn` has the fairness of new reads as its antecedent (`Served`): readers call again, as the
  loops of the Worker and the client do. Nobody has to write, close or cancel.
- `EmbeddedTransport`: a call, a close and a cancellation that have begun go on.
- `EmbeddedCapture`: the caller's thread goes on, and the profiler's shutdown comes to an end:
  the code waits for it without a deadline. The Worker does not have to stop: `finish`
  has a deadline for that.
- `NextestCapture`: the same, the test's body ends, and the ten seconds of the readiness wait pass.

## What is proved

`EmbeddedPipeProofs`, from the assumptions on the constants only:

- `TypeCorrect`: `TypeOK`, which is inductive and has the ring's arithmetic in it: the buffer is a
  function on the slots, `head` is a slot and `size` at most the capacity.
- `StreamIsIntact`: what readers were given followed by what the ring holds is what writers
  handed over. `StreamIntact` is inductive next to `TypeOK`; the lemmas are about a chunk that is cut at
  the end of the ring (`OneWrap`, `SlotOf`, `Cut`) and about its effect on both histories
  (`ChunkEffect`, `ReadEffect`).
- `EofIsReliable`, `EofIsFinal`: nothing is left behind the end of the stream and nothing follows it. An end
  that was reported means a closed end and an empty ring, and a closed pipe accepts nothing
  (no run checks `EofMeansDrained` and `NothingAfterEof` separately; the abstract channel has them).
- `NoWakeupIsLost`: a single writer, or a single reader, however many threads the other end has. A step that makes a
  predicate true wakes the only thread that can wait for it (`WakeOne`).
- `NoWriterDeadlock`: for any number of writers. `WritersNeverStranded` is not inductive: when a writer leaves, the ones
  asleep must not be on a pipe whose reader has gone. `NotStranded` adds that nobody
  sleeps there.
- `StatisticsAreRight`: totals and high-water mark (`Accounting`, which no run checks separately).
- `PipeImplementsChannel`: every step of the pipe is a step of `ByteChannel` or a stutter.

`QuerySortProofs`, from the assumptions that records are a finite set, a chunk holds at least one and limits are
numbers. The run has five records; the theorems hold for any finite number of them.

- `OutputIsSorted`, `NoRecordIsLost` and `CompleteWhenDone` are parts of one inductive invariant, `IInv`. Alone none of them
  is inductive: that the next record comes after all of the output needs `OutputSound` (everything not yet written
  comes after everything that is), and that the top of the heap is the smallest record left
  (`TopIsFirst`) needs `FilesSound`: each file is sorted, no record is in two
  places, a node of the heap is before what is left of its file (`HeapSound`), and every file that is not empty has a node
  (`HeapFull`). `PhaseSound` says what is still empty in which phase.
- The lemmas follow the code: `LaterIsConverse` says that the comparison of the heap is the converse of
  that of the chunks, which are written out separately; `OneMoreFile` is about `flush_chunk`,
  `FirstAndRest` about the filling of the heap, `RefillKeeps` about `read_node` after a record was taken, and
  `EmitEffect` about a line of output. `EmittedCount` compares the length of the output with
  `record_count_`.
- `TypeCorrect`: `TypeOK`, which is a part of `IInv`.
- `SorterImplementsStream`: a step of the sorter takes a record, ends the taking, shows the smallest that is left, or
  does nothing that the abstract stream can see. A failure stops the stream; it never skips a record.

`TimeRangeProofs`, for every word size, list of units and number of digits. Its assumptions say that the largest `int64_t` is
less than the largest `uint64_t`, that units are positive and `int64_t`, and that the powers of ten
start with 1 and are words for as many digits as `parse_time` takes.

- `AcceptedIsExact`: no sum, product or difference of `parse_time` wraps unnoticed. The test by a quotient is exact
  (`QuotientBound`); the fractional part is shorter than the unit (`FractionBelowUnit`), so the difference in
  the last check never wraps; then both parts add up to what the text means (`Distribute`).
- `BoundsExact`: after any sequence of options the bounds are those of the last ones. `FromIsLast` and `ToIsLast` tell for
  each bound which words and times it may come from, and are inductive.
- `RangeIsSelected`: the comparisons with the bounds are the comparisons with the range that was asked for. In the mode
  `overlap` the code compares four ends; that the record and the range then share an instant needs that the range is
  not empty, which is what the validation is for (`Validated`).
- `RefusalHasReason`: no sequence of options is refused without a reason. It needs the other half of `AcceptedIsExact`,
  `RepresentableIsAccepted`: a text whose value is an `int64_t` fails no check, unless its fraction has more digits than are taken
  or its product with the unit is no word.

`EmbeddedTransportProofs`, for pipes of every capacity and messages of every length.

- `TypeCorrect`: `TypeOK` in five parts. It has the amounts in it: a chunk fits into the free space and into what is left of the
  message, a loop that is not over has something left to ask for.
- `EndpointsAreMadeOnce`: the flags of the rendezvous and how far each side's close has got tell together whether an endpoint is
  there, was there, or is still to come (`EndpointsKept`).
- `CallsFailOnlyAtTheEnd`: nobody is cut off. It rests on `EndpointsKept`: an endpoint is made once in the
  life of a session, so that a call works on the endpoint it has found, and finds an end closed only by someone who is closing,
  or by `Cancel`.
- `MessagesAreWhole`: a short read means that the stream of its side is over, and it stays so, since
  nothing is put into a pipe of which an end is closed.

`CaptureProofs`, for any number of threads that call the coordinator at any time.

- `OneIsLetIn`: `Unbegun` says that nobody is inside of `finish` as long as the state is one of the first three; the section that
  lets a caller in leaves them for good.
- `WritesOnlyDrained`: `Drained` says what the finisher may rely on once it has seen the end of the shutdown and then that of the
  connection. The client that is shut can start no handshake that connects the Worker again.
- `PublishesWhatIsWritten`, `PartialIsRemoved`: the file at the output path is never empty nor still being written; that all of it
  is there cannot be shown, for the code does not see a short write. `PartialKnown` gives the content of the partial file at each point of `finish`,
  `PartialHeld` says that it exists only as long as its maker is still before the removal.
- `ForeignFileIsKept`, `LifecycleIsKept`: each step of each action, for the second with `Undisturbed`: a caller that is alone finds
  the state as it has left it.

The same module, for the helper on top of the coordinator.

- `HelperUsesCoordinator`: every step of the helper is a step that the coordinator's specification allows its one caller, or leaves the
  coordinator alone.
- `KeptInATest`: all that is proved of the coordinator therefore holds in a test, whatever its body does and whenever it is killed.
- `PassingLeavesNothing`, `FailureIsCaptured`: before the helper finishes nothing of a finish has happened (`NotYet`); the finish that
  goes on was asked for what the helper wants (`AsWanted`), and only one that saves has files (`Saving`); `OnTheWay` follows
  the file to its publication, and a call that is over has succeeded only if all of it was done (`Reported`). As above, the
  capture of a failed test is what the file system took of it.

`PointQueryProofs`, for any records, any point and any order in which the records come.

- `NothingElse`, `NothingTwice`: each map has, for its keys and no others, a record that none presented so far is closer to the point than
  (`LatestSound`, `NextSound`); until they are gathered the records kept are the active ones, and their identities
  are known (`ActiveSound`). An identity contains its key, so two records of one map never share one.
- `NewestIsReported`, `EarliestIsReported`: under the hypothesis `IdentitiesAreUnique`, that the visitors hand out identities that are
  identities, a record left out as a duplicate is in the result already. `RecordsAreIdentified` of `InventoryProofs` is that
  hypothesis, for all kinds but hardware samples, for which it is false; the run `point_samples` shows what happens then.
- `CountsAreRight`: until the query ends, the groups counted so far are those of what has been counted, each with the number of its
  records (`TallySound`), and the lines written are in front of all that are to come (`LinesSound`). It needs no
  hypothesis on identities: what is counted is what the query would have written without a limit. The provers know
  nothing of sums over sets, so the numbers are cardinalities, which grow by one with each record (`CountedEffect`).

`CommandLineProofs`, for any set of arguments, in any order and number. It assumes that times have been through `parse_time`.

- `AcceptsTheDocumented`: until the answer, the options stand for what was given (`Known`: `ScopesKnown`, `TimesKnown`,
  `InputsKnown`), in whatever order it came. `QueryRulesAreChecked` and `LabelRules` turn each check into the rule it
  enforces, `CheckDecides` puts them together; a refusal before the end of the arguments is one the property leaves out.
- `MatcherAgrees`: what the constructor of the matcher looks for again is among what `Check` has refused.
- `LabelsReachTraces`: a set of positions has a greatest one (`MaxIsGreatest`, from the library's theorem that numbers are
  well-founded), and a trace that got no label still has its path.

`InventoryProofs`, for any trace, any number of items and places, and any options. Its invariant, `IInv`, follows the recursion:

- `RecordsAreIdentified`: under the source of the vector that is being walked, all numbers given out lie below the next
  one, and the vectors to come have other sources (`NumbersBelow`, with `WalkSound`: a vector is walked once, and a kind visited once).
  For CPU and GPU zones all numbers of the kind lie below. The invariant says nothing of hardware samples, as the code does not.
- `ParentsAreNamed`: each activation on the stack walks either items that lie at a place, with no parent, or what lies below
  one zone, of which there is a record with the number, depth and ancestors the activation was given (`StackSound`). That record was
  presented earlier and its number is lower, which is where the shared counter comes in.
- `StructureIsSelected`: depth and ancestors of a record are the number and the set of the zones above it (`PathsSound`). `Ancestors` is
  a least closed set; `AncestorsUnfold` and `OneMoreAbove` say what one level adds to it, which takes the place of
  an induction over the tree.
- `CommandsAgree`: selector by selector (`SameThreads`, `SameContexts`, `SameNames`, `SameCpus`, `SameFilters`), from the kinds that
  each type of source has (`KindsByType`). It assumes of the options that they have the fields of the structure `Options`.
- `WalkIsComplete`: needs a second invariant, `WInv`, of what the loops have still to take. An item waits in one place, and
  of an item and what it is in only one waits (`WaitsOnce`); what is presented does not wait again (`NotAgain`); each item is
  presented, or it or an item above it waits, or its kind is to come (`NoneLeft`). A zone that is taken leaves what lies directly below
  it to wait in its stead; that these are all is again `AncestorsUnfold`, for a path goes on through exactly one of them.
- `SourcesTellRecords`: by `WalkIsComplete` the records of a source and a kind and the items that lie there are as many
  (`OfCounted`; memory has a record for each allocation and one for each release). For each type of source there is a lemma that the
  counts are those, and that the times `sources` looks at and the times of the records reach as far as each other (`Bounds`, both
  ways; `SameSpan`), although `sources` looks only at the first and last of a vector, or at the
  outermost zones. Where an interval is open nothing is said of times.

## Only model-checked

Liveness under fairness is out of the prover's reach: all `~>` and `<>` properties stay with TLC
(`CloseReleases`, `TimedReadsReturn`, `OpenSendsReturn`, `CancelReleases`, `CloseReleasesPeer`,
`FinishReturns`, `HelperEnds`). Every invariant that a passing run checks is a theorem as well. That a trace is one the visitors
can meet (`Init` of `Visitors`) and that the options are texts of the kinds listed is given, and not proved of Tracy.

## Where the code and its documents differ

With a run that shows it:

- `docs/in-process-capture.md` says that a failed finish publishes nothing; a failed `unlink` after `link`
  has published (`capture_unlink`).
- `README.md` says that reading, output and execution failures exit with 1; `main` exits with 0 for
  every `OutputError`, which the sorter throws for its temporary files (`query_status`).
- `SKILL.md` promises the earliest record at or after the point for each trace, source and
  kind; hardware samples of two addresses may have one identity, and then it is left out (`point_samples`).

Visible as what a property has to leave out or has as a hypothesis:

- `docs/in-process-capture.md` says that a writer failure is reported and nothing published. Where the file system takes only a part
  of the file and nothing throws, the file is not empty, is published, and `finish` returns OK (`embedded_capture.cpp:210-214`).
  `OutputIsWrittenOut` and `FailureHasItsCapture` therefore have a `short` file next to a whole one.
- `docs/in-process-capture.md` says that closing an endpoint wakes all blocked writers; one whose own
  endpoint is closed wakes and goes to sleep again. `CloseReleases` promises a writer's return only
  when the reader's end closes.
- `SKILL.md` says that exact fractions are accepted; `1.6000000h` is refused because its digits
  times the unit leave the word. `RefusedForAReason` names that reason.
- `SKILL.md` says that `end` is valid for range endpoints and that ranges are inclusive;
  `--from end` selects nothing. `SelectsTheRange` leaves it out, and also an option that names an end of the
  trace after one of the same name has given a time (`--from 5ns --from start`), which is ignored.
- `SKILL.md` says to discover sources first and to scope queries with them. `sources` never lists what
  `cpu-usage` comes from, nor threads of which only context switches are known (`Unlisted`). For an interval whose
  end is missing, the visitors use its start (`query.cpp:476`, `query.cpp:500`), while `discover_sources` takes what `End()` returns
  for the last timestamp (`commands.cpp:227`, `commands.cpp:315`). `SourcesDescribeRecords` compares no times there.
- `SKILL.md` says that the source selectors of `sources` apply to `query`. `--thread` and `--gpu-context` are given the id
  of the source in the one (`thread:42`) and a number in the other (`42`); `--cpu` selects the records of context switches, and
  never their source; an expression that finds the empty text selects all records that have no such field, and only some sources; a
  filter for one kind drops sources that have other kinds as well. `Alike` in `Matcher` names these cases.
- Nothing forbids two traces with one label. To the order of the output, to identities, to the keys of a point query and
  to groups they are one trace. `NumbersIdentify` and the point queries have traces with labels of their own.
- After `--`, or after a path in its place, the first word is a path although it may be the name of a command, and the command is
  `check`. `AcceptedAsDocumented` speaks of the command that was understood.

## Not modelled

- Tracy itself. Its Worker, its client and its collections appear as the code uses them.
- Filters by fields other than the source, and `--stack-frame`: tests of texts that the traces here do not have. That the
  field is one the kind has is in `CommandLine`.
- `range`, `info` and `check` print numbers that Tracy keeps. The syntax of values other than times, the help texts.
- Formatting, names, digests and messages. The races on plain flags have outcomes that the models
  have anyway. The lifetime of the string behind `GetError` is not represented.
- The Rust macro, the bindings, the example and the build files have no state.

## Plan

Done: the pipe, the sorter, time values and ranges, the transport, the coordinator, the helper, point queries and
counts; the visitors of all kinds, `sources` and the matcher; the command line; all with their proofs.

Next, in this order:

1. A composition of the transport with the coordinator: `Cancel` as the coordinator calls it, against
   the Worker's and the client's calls in progress, and the transport's pipes replaced by `EmbeddedPipe`.
2. A proof that each step of `EmbeddedTransport` on one of its pipes is one of `ByteChannel`.
3. Two traces with one label, once a document says what is expected of them.
