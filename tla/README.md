# A verification of mmorecpp in TLA+

mmorecpp is a C++ library of small, largely independent components: threads and
processes, child processes with pipes, logging, configuration, templates, SQLite,
unit tests, sockets, strings and some mathematics. This directory models the
components with state that outlives a call, checks them with TLC and proves what
matters most about most of them with TLAPS.

    tlc -config Platform.cfg MCPlatform               # a run, see "Runs"
    tlapm XLogger_proofs.tla                          # proofs, see "Proofs"

Paths below are relative to the root of the repository.

## Inventory

### threading (`src/platform/threading.{h,cc}`)

*Mutex* wraps a pthread mutex. *MutexVariable\<T\>* is a value behind such a mutex,
shared by any threads: `get()` locks, binds a reference, unlocks and copies on
return; `set()` locks, assigns, unlocks. Hard: the copy of `get()` is outside the
lock, there is no guard object if `T::operator=` throws. Correct means: stores are
serialised, a free mutex means a whole value, a reader gets a whole value (it does
not, see "Findings"), everybody gets the lock in the end.

*BaseThread*, *BaseProcess*: `run`, `join`, `try_join`, `kill` around
`pthread_create` or `fork`. State: the handle `pid`, the int `retval` points to, and
the address it has. Hard: a second `run` overwrites the handle; `WIFEXITED` is applied
to a pointer; a `fork` that failed leaves -1, for which `waitpid` waits for any child.
Correct means: `join` returns after the worker did and leaves what it returned (it does
not, see "Findings"), and `try_join` tells whether it did.

*MessageQueueServer*, *MessageQueueClient*: a POSIX message queue, which outlives the
programs that use it, and the deque into which `check_for_msg` moves what `get_msg`
hands out. State: the queue, the deque, the caller's knowledge that there is a message.
Hard: a bounded queue, whose flags `mq_open` ignores, so that it blocks whatever
`blocking` says; signals; the end and the restart of a server. Correct means: messages
come in order and once, and after "true" there is one.

### executor (`src/platform/executor.{h,cc}`)

One object starts children, with three pipes (`communicate`) or none (`run`), reads
their output to its end, writes their stdin, and collects their status. State: `pid`,
`result`, the descriptors, the read buffer, `init_done`. It interacts with the kernel
(pipes of bounded capacity, `waitpid`) and with the program the child runs. Hard: all
interleavings of parent and children, full pipes, ends of file that depend on who
holds which descriptor, re-use of one object. Correct means: a read returns what was
written, the status is the child's, and calls return unless the parent asked for a
deadlock.

### xlogger (`src/platform/xlogger.{h,cc}`)

A static map from ids to *XLogger*s, each of which owns *backends* (memory, console,
file, file kept open, file kept open with a buffer) and has a minimum level, a filter
on file names, stripping, and callbacks per level. A statement `LOG(lvl, ID) << ...`
makes a *LogStream* whose destructor logs. Hard: statements inside statements, since
operands may log or reconfigure; a callback that logs; virtual calls that do not
happen in constructors and destructors; streams whose failbit sticks; a crash with a
full buffer; an exception in a destructor. Correct means: nothing that was logged is
lost, doubled or reordered, at a crash at most a buffer of it, and no logger reaches
a deleted backend.

### config_manager (`src/ooapi/config_manager.{h,cc}`)

A *ConfigManager* owns *ConfigGroup*s, they own *ConfigOption*s of six types; the
manager has its own map of all options and a map of commands. Values come from the
program, a command line or a config file; the manager writes config files. It uses
xstring and converter. Hard: four maps that must agree, flags that say which pointers
are valid, exceptions in the middle of an argument list, a file format without
quoting. Correct means: the maps agree, a command keeps its meaning, a failing
argument changes nothing, and a written file gives back what was set, but for the digits of
a double that are not printed.

### template_parser (`src/ooapi/template_parser.{h,cc}`)

A template is cut into a tree once, and rendered on demand from three tables of
variables; the output is cached until a key changes. Sub-templates are parsers that
share the tree of the main parser. State: the tree, the tables, the loop variables, the
cached output, the map of sub-parsers, `no_cleanup`, the name of the template's file.
Hard: the cache, loop variables left over after a loop, who deletes a shared tree, a
target name computed from the template's. Correct means: an output is what the template
means with the keys as they are, a tree is deleted once, a template survives.

### xsqlite (`src/ooapi/xsqlite.{h,cc}`)

One connection with at most one current prepared statement; `init_*`, `bind`, then
`insert`, `update` or `select`, and a *SQLResult* that steps the statement. State:
`state`, `stmt`, `next_idx`, `columns`, `last_query`. Hard: who finalizes a statement,
on which path, and who still uses it. Correct means: a statement is stepped only while
it is prepared and is finalized exactly once.

### testing_suite (`src/ooapi/testing_suite.{h,cc}`)

A *TestFramework* parses its options, then runs the tests of its suites, one after the
other, `repeat_times` rounds of each suite; a test is a method made of `CHECK` macros that
may return early, throw, and call another test to prepare. State: the loops, each test's
*TestResult* (verdict, details, timer, times), the number of checks of a suite, the active
test. It uses xtime for the times and xunit to show them. Hard: exceptions in `setup`, in
the test and in `tear_down`, macros that evaluate their expression three times, what a
round inherits from the ones before. Correct means: a verdict is what the checks of all
rounds say, each test is shown once, timers are stopped, times mean what they say.

### xsocket (`src/platform/xsocket.{h,cc}`)

*ServerSocket*, *ClientSocket* and *SocketStream*s own file descriptors, a
*StreamSelecter* a vector of pointers to streams. It interacts with the kernel's table
of descriptors and with peers that write and close at any time. Hard: copies that share a
descriptor and close it twice, numbers that are used again, short writes, a removal that
leaves the vector's length, the order of a selection. Correct means: characters keep
their order and their connection, the selecter loses no stream, what it returns can be
read, its first stream is served.

### math (`src/math/*.h`)

*MovingAverage*, *MovingMedian*, *ExponentialMovingAverage* keep a window of samples that
may be resized; *tStreamingKMeans* keeps centres, their weights and a batch. Hard: a window
changed while it is full (it keeps its length, see "Findings"), memory that is not set, a
running mean over a batch that is never emptied, `reset`. Correct means: an answer is taken
from the latest samples, the centres weigh what the data weigh. vector3d, pose3d,
pose_matrix are formulas without state.

### Others

xstring, converter, xunit, xtime, xregex, circular_buffer: pure algorithms and small
containers. fs, io, exception, xncurses: thin layers over the system, with no state of
their own.

The components interact through calls only: config_manager uses xstring and converter,
xlogger uses xstring, converter and xtime, executor uses xstring and fs,
template_parser uses xstring and converter, testing_suite uses xtime, xunit and
config_manager (for its command line). Nothing in the library locks but
MutexVariable, and no component is itself concurrent but MutexVariable, Executor,
BaseThread, BaseProcess and the message queues. `PROJECT.json` lists all components
with their status, and the hazards with the line where each one bites.

## Modules

| module | models | composed from |
|---|---|---|
| `MutexVariable` | `MutexVariable<T>`, `Mutex` | |
| `AppendLog` | what a logging backend promises (abstract) | |
| `LogBackend` | the backend classes, as operators on one object | |
| `XLogger` | registry, loggers, log statements | `LogBackend`; refines `AppendLog` |
| `Executor` | parent, children, pipes | |
| `XString` | `strip`, `split`, `join` | |
| `ConfigManager` | manager, groups, options, config files | `XString` |
| `Template` | the template language: from text to tree, `parse()`, and its meaning | |
| `TemplateParser` | parser objects, their trees and files; trees and rendering are parameters | with `Template` in `MCTemplateParser` |
| `XSQLite` | `XSQLite`, `SQLResult`, with sqlite3 external | |
| `TestingSuite` | framework, suites, tests, the `CHECK` macros | `XTime`, `XUnit` |
| `XTime` | the stopwatch | |
| `XUnit` | the choice of an SI prefix | `Fractions` |
| `MessageQueue` | server, client, the kernel's queue | |
| `Parallel` | `BaseThread`, `BaseProcess` | |
| `Sockets` | server and client sockets, streams, the selecter | |
| `MovingAnalyzer` | the three filters | `Fractions` |
| `StreamingKMeans` | `tStreamingKMeans` | `Fractions` |
| `Fractions` | numbers in place of floating-point ones, and their powers | |
| `MCParts` | the last five parts, one of which runs in each behaviour, and their instance | `MessageQueue`, `Parallel`, `Sockets`, `MovingAnalyzer`, `StreamingKMeans` |
| `MCPlatform` | `MutexVariable` or `Executor` in each behaviour | `MCMutexVariable`, `MCExecutor` |
| `MCServices` | `XLogger` or `ConfigManager` in each behaviour | `MCXLogger`, `MCConfigManager` |
| `MCOoapi` | `XSQLite` or `TestingSuite` in each behaviour | `MCXSQLite`, `MCTestingSuite` |
| other `MC...` | the instance of one component for TLC | |
| `Operators_proofs` | lemmas about strings, sequences, sums, folds, powers, loops | `XString` |
| `Math_proofs` | theorems about the filters and the k-means | `MovingAnalyzer`, `StreamingKMeans` |
| `Parts_proofs` | theorems about threading, xsocket and `MCParts` | `MutexVariable`, `MCParts`, `Math_proofs` |
| `Ooapi_proofs` | theorems about xsqlite and template_parser | `XSQLite`, `TemplateParser` |
| other `..._proofs` | theorems about one component | its module, `Operators_proofs` |

**MutexVariable.** The state of a thread is where it is inside `get()` or `set()`
(`where`), the words it has still to copy (`todo`) and its own value (`local`). `T` is a
function from words to characters, copied in any order, one word a step, because no
compiler promises more. `committed` and `held` are history. `SetThrow` is the
exception in `T::operator=`, before the first word is stored or between two; it leaves
the mutex locked, as the code does.

**LogBackend, XLogger.** A backend is a record of what it was asked to write, what has
reached its sink, the buffer with its size, and the state of its `ofstream`. The
buffer's size is a C++ `int` compared with a `size_t` (`Exceeds`). `Open`, `Close` and
`ToStream` follow the standard: a close of a closed stream sets failbit, a stream that
is not good drops what it is given. A log statement is two actions, `BeginStatement`
(level check, `get`, the temporary) and `EndStatement` (the destructor), with
everything its operands may do in between. `EndStatement` decides which text is
logged: the stream is filled by then. `strip()` throws on blank messages, and what it
throws ends the process, since destructors are noexcept. One thread uses the loggers;
the class has no locks and a model of racing library containers would say nothing.
Level descriptions, templates and time formats are formatting and left out; so is what
`set_msg_stripping` says is to be stripped, beyond the set `Blank`. Obligations of
the caller that the model takes for granted: a backend is handed over once,
`remove_filename_filter` is called with a name that is there, a callback does not log
at the level it is the callback for, and a logger is not destroyed inside one of its
own statements.

**Executor.** A child runs a script: characters to stdout or stderr, lines from stdin,
reading stdin to its end, an exit code or a fatal signal. Pipes hold `Cap`
characters (or, for stdin, `Cap` pieces, a line being its text and its newline), writing
to a full one waits, writing to one nobody reads kills. Each API call that waits is a
sequence of steps: `ReadCall`, `ReadChunk`..., `ReadEnd`; `WriteCall`, `WritePart`
twice; `CheckBlocking`, `WaitEnd`. `result` holds the raw status word, and
`WIFEXITED`, `WEXITSTATUS` are those of `<sys/wait.h>`. A failing `exec` runs into
undefined behaviour (`execute()` frees past its array), so the child may end with
SIGABRT, SIGSEGV or exit code 1. `HeldOpen` says who keeps the write end of a child's
stdin open: the parent, and children forked after it. A stream of a child ends with the
child (`ReadEnd`): children close none before and have no children of their own to pass
it on to. `fork()` and `read()` do not fail and the buffer size is fixed.

**ConfigManager.** Objects are indices, since nothing is ever deleted. The four maps
of the code are `groups`, `members`, `cmdmap` and each group's `members`; the group's
own `_cmdmap` is only written. `parse()` is one action per call, with the remaining
arguments as state, so that what a throw leaves behind can be seen. Strings are
sequences of atoms, so that `strip` and `split` are computed and not assumed; the text of
a number is one atom. What `operator>>` makes of it is a parameter, one function for
doubles (`Worth`) and a partial one for ints (`Whole`), which reads the "1" of "1.23457e+06";
both read the first atom that is no blank and ignore the rest. `str()` prints all digits of
an int and six of a double (`SixDigits`, over integers in units of the last decimal place of
any text; the binary rounding of decimal texts, which starts at the 16th digit, is left out).
A config file is a sequence of texts, one per option: the comment that is written above the
line in the longer form, and the line. A value with a newline breaks its line, or its
comment, and `parse_config_file()` reads the lines of the text as `getline()` finds them
(`TextTokens`). Commands are pairs of dash and name, so that a short command "-x" is never
the long command of an id, which it may be in the code. A map item without a colon reads
past the end of a vector: the outcome is a choice. `Restart` is the next run of the program,
which declares the same options and reads the file.

**Template, TemplateParser.** A template is a sequence of pieces with their nesting
(`Template` says which), `Tokens` lays it out as the file does, and `GenerateAst` reads
the tokens with an active node as the code does. `Parse` follows `parse()`: the loop
variables go through it as state, because the code keeps them in the object, and `end`
says whether the rendering came back: a bound that is no number calls `exit(1)`, an empty
`if` takes `back()` of an empty vector. `Meaning` is the independent definition, by
recursion on the pieces with a scope of loop variables, of what the class's
documentation (`template_parser.h:86-117`) says. These are recursive, and who owns a tree
does not depend on them, so `TemplateParser` takes the tree of a template (`AstOf`) and what
a rendering answers (`Parsed`) as parameters, whose values `MCTemplateParser` takes from
`Template`. A parser object is a record; a tree
remembers the pieces it was made of, for the comparison. Values that contain `{{` are
scanned again by the code and are not modelled; nor are nested loops over one variable,
whose inner loop sets the outer one back (`ASSUME LoopsEnd`), and malformed control
structures. Obligations of the caller: only `new_subtemplate` copies a parser (the copy
constructor is public, and a copied main parser deletes the tree twice), only main
parsers replace their template (a sub-parser would delete a node of the shared tree), a
parser is no value of its own key, and nothing is rendered after its tree is gone.

**XSQLite.** Statements are numbered as they are prepared, 0 is `nullptr`. sqlite3 is
external, as its documentation describes `sqlite3_prepare_v2`, `_bind_*`, `_step` and
`_finalize`: a statement takes values while it is ready, a step after "done" or an error
starts anew, the null statement is misuse, and a finalized one is undefined, after which
nothing is said. Every preparation and every step may fail. The table has no keys, so
an `UPDATE` concerns all rows; raw queries are selections. `asked` is history: which
values a caller expects in which columns. `Pragma` is one action, since its statement is
prepared, stepped and finalized within the call. Left out: `save_db()`, the typed
getters, `col2idx()`, and the constructor of a database that cannot be opened, which
asks an uninitialised handle for the message. Obligation of the caller: none, any order of
calls is allowed.

**TestingSuite, XTime, XUnit.** `pc` says where the program is, `at` where the loops of
`execute_tests()` are, `frames` which test methods are active. A body is any sequence of
macros, so an expression may have another value each time a macro evaluates it; `CHECK`
does so three times, and only the first counts. Texts are left out, but for whether there
are any. `Throw` is the `catch` around the method; what `setup()` or `tear_down()` throws is
outside of it and ends the program. A timer is a record, and that it is started only when
stopped, which `xtime.cc` asserts, is part of `TypeOK`. Times are fractions, so that a mean
in seconds and a sum in microseconds can be compared; `Kilo` stands for 1000.

**MessageQueue.** The queue belongs to the kernel and outlives servers; `Send` is any
program that sends to it. The repository's own client never does: it takes the success of
`mq_open` for its failure. `check_for_msg()` is two steps, `CheckForMsg` and `Receive` or
`Interrupted`, since it blocks. `promised` is the answer "true", after which a caller may
call `get_msg()`: that is its obligation. The NUL written at `buffer[-1]` is left out.

**Parallel.** Threads and children are numbered as they start. `retval` holds what the int
from the heap holds, first garbage, and `address` what `WIFEXITED` and `WEXITSTATUS` say of
the pointer. A blocking `join()` is two steps. Obligations of the caller: an object is not
joined before `run()`, nor a thread twice. `run()` ignores what `pthread_create()` returns;
its failure, after which every use of the thread is undefined, is left out. `kill()` changes
nothing of an object: of a thread it throws, of a process it runs `killall` with the pid for
a name.

**Sockets.** `table` is the kernel's table of descriptors, `object` the streams that were
ever made, `streams` the selecter's vector. A constructor that throws leaks its descriptor
(`Leaked`). The stream a server socket makes of its own descriptor is not among `object`,
but closes the descriptor with its server. A stream may be copied, and the copy closes the
same descriptor. `Found` says what a selecter reads from a stream that is deleted: any
descriptor. Peers write, also NULs, and close at any time; a peer that closes before the
program writes ends it by SIGPIPE, which is left out, as is a `get()` that asks for more
than its buffer holds. The program selects only when it has read what it selected before.

**MovingAnalyzer, StreamingKMeans.** Numbers are fractions: that a centre is the mean of
its members is true but for the rounding of floats. `next` starts as any garbage. An update
of k-means is one action, a fold over `num_iters` times the whole batch. `reset()` sets the
configuration as well, since its members are public and must not be changed without it.

## Runs

| run | checks | shows |
|---|---|---|
| `platform` | `Platform.cfg` | one of two components in each behaviour. `MutexVariable`: what the mutex does protect: stores are serialised, a free mutex means the last complete value, each single word a reader gets was current; a lock is given back unless the assignment threw. `Executor`: reads are complete, the first child's status is right however often it is asked for, no status is made up; reads and waits return when the child can end; orphans end |
| `mutex_variable_torn` | `MutexVariableTorn.cfg` | violation: `get()` is not atomic |
| `executor_reused` | `ExecutorReused.cfg` | violation: the status of the first child is reported for the second while it runs |
| `services` | `Services.cfg` | one of two components in each behaviour. `XLogger`: file and buffer are together all that was logged; the buffer is bounded; the backends of a logger agree; no logger reaches a dead backend; `AppendLog` is implemented. `ConfigManager`: the maps agree, commands are stable, flags tell the truth about pointers, a call of `parse()` is all or nothing, a config file in either form gives the next run what was set, but for a double's digits after the sixth |
| `config_manager_ids` | `ConfigManagerIds.cfg` | violation: an id may be given out in two groups |
| `ooapi` | `Ooapi.cfg` | one of two components in each behaviour. `XSQLite`: `insert()` is atomic, also when it is tried again, and values land in their columns; what it steps is alive; a result keeps its statement. `TestingSuite`: the overview and the verdicts say what the checks of all rounds said, every test asked for is shown once; a line shows the sum, the mean and the extremes of the times that were noted, none of which is less than its round took; no timer is left running |
| `testing_suite_times` | `TestingSuiteTimes.cfg` | violation: the time noted for a third round holds that of the first |
| `template_parser` | `TemplateParser.cfg` | a cached output is the template's meaning with the current keys, after any history of renderings and replacements; each tree has exactly one owner and lives as long as it |
| `template_parser_save` | `TemplateParserSave.cfg` | violation: a template file with a name of four characters is overwritten by its own output |
| `parts` | `Parts.cfg` | one of five parts in each behaviour. Messages are not lost, doubled or reordered but by signals, NULs and restarts; a thread or child has ended when `join` returns, and what `try_join` says of it is so, as far as its pointer does not decide; the selecter loses no stream and returns one that can be read; characters keep their order, and their connection if no stream is copied; the first stream is served; a filter answers from the latest samples; the centres weigh the data |
| `parts_join` | `PartsJoin.cfg` | violation: after `join` of a process `*retval` is not what the child returned |
| `parts_window` | `PartsWindow.cfg` | violation: a window that was made smaller keeps its length |

**Bounds.** `MutexVariable`: two threads and two words of two characters are the least
that tears a value, and an equal third thread can only take the role of another; there
is no bound on the number of calls. `XLogger`: three backends, one of each class with a
behaviour of its own (memory and plain file backends sink a message at once, as the
console does); a buffer that holds two messages and one message that is longer than it;
two nested statements; three messages per backend, which are the header, a message
that fills and one that overflows the buffer. One id, which can be destroyed
and registered again with fresh backends; two loggers never touch the same backend, and
the proofs are for any number of them. `Executor`: two children, because the second
is what re-use takes, pipes of two characters and a buffer of three bytes (reads of
two), which four scripts overfill, fill exactly and leave empty. `ConfigManager`: two
groups and two options, of every combination of types and with colliding ids, short
commands and group names; six texts of numbers, among them a double of seven digits, what
prints for it, and a number no int holds; strings with "=", a newline, blanks at an end, and
none of these; command lines that reach every throw; group names, which are compared and
nothing else, are a symmetry set. `TemplateParser`: two
objects and two trees, which are two main parsers, or one that replaces its template, or
one and its sub-parser; two items, the least that tells first from last; a template with
a list, one with nested loops, and whatever is saved over it; a parser's output becomes
a value while it has at most one word (`MaxWords`), so that values cannot grow for ever.
`XSQLite`: two statements (`MaxStmt`), so that one replaces another that is done, failed
or given away; one result, one row, and two columns, which are bound in both orders, one of
them, or none, with one value more than there are columns.
`TestingSuite`: a suite of two tests and an empty one; none to three rounds, because times
go wrong in the third; three macros in all, two frames; durations 0 and 4, where `Kilo` is
10, since TLC's integers have 32 bits; a negative `--repeat-times` counts down for ever and
is left out. `Parts`: a queue of two and three messages (one is empty, one has a NUL),
one signal for each of two servers; one thread and two processes that start two workers
between them, `p1` with any memory, `p2` with memory of which `try_join` may mean something;
two descriptors, connections, streams and places in the vector, two characters in all;
windows up to 3 and two changes over four samples; two centres, least batches of two and
three, one and two iterations, up to four data and one reset. The parts share no state, so
that one run with a part per behaviour loses nothing; `MCParts` extends all five, with their
assumptions. `platform`, `services` and `ooapi` are runs of the same form: the initial state chooses the
component, and the others stay as they began.

**Fairness.** `MutexFairness`: a thread inside `get()` or `set()` goes on when
it can (the operating system schedules every thread; a step that stores a word is
always possible). Nothing is assumed about who starts a call, and nobody is promised
the lock: `LockReleased` is about giving it back. `ExecutorFairness`: the system runs the
parent, while it is inside a call, and every child that can run; what the program
asks for, and when, is free. `ReadReturns` and `WaitReturns` state their condition
(`CanEnd`): what the child writes elsewhere fits in the pipes, the lines it waits for
have been written, it does not wait for the end of its stdin, which the class cannot
close. `XLogger` and `ConfigManager` are libraries called by one thread; nothing has to
happen there, and no fairness is assumed. `SocketsFairness`: the thread goes on selecting and
reading what it has selected, which is the loop a selecter is for; `HeadIsServed` holds of the first
stream only, and while the vector has no deleted stream. That `parse_cmdline` ends follows from
`ParseIsAllOrNothing`: every call that does not throw shortens the list.

**Deadlock.** It is not checked where the system may really stop: after an exception
under the mutex, after the end of a process, in a parent and child that wait for each
other, after the second run of a program with a config file, after a rendering that ended
the process, after the use of a finalized statement, after the last test, and where a server
waits for a message or a parent for a child.

## Findings

* `get()` of a `MutexVariable` copies outside the lock (`src/platform/threading.h:134-139`),
  against the comment at line 124. `GetIsAtomic` fails in `mutex_variable_torn`; it is
  proved for a `T` of one word, and `WordsAreCurrent` says what holds in general.
* An `Executor` that is re-used answers for a running child with the status of the one
  before (`src/platform/executor.cc:183-198`), where `tests/executor.cc:86` expects -1.
  `RunningMeansMinusOne` fails in `executor_reused`.
* "catch duplicate IDs" (`src/ooapi/config_manager.h:256`) looks only into the group.
  `DuplicateIdsAreCaught` fails in `config_manager_ids`; the option declared first is
  orphaned, and assignments meant for it reach the other one, which may be what `TODO`
  notes of `is_group_active()`.
* `save_to_file()` without a name overwrites a template whose own name has four characters
  (`src/ooapi/template_parser.cc:438`, `src/core/xstring.cc:123`), which the comment at
  lines 431-433 says the check of the suffix is for. `SaveKeepsTemplate` fails in
  `template_parser_save`.
* "save this specific time taken (instead of the overall duration)"
  (`src/ooapi/testing_suite.cc:129`): the timer adds up all rounds, and what line 134 takes
  from the sum is the time noted last. From the third round on a time noted holds those of
  earlier rounds. `TimesAreOfTheirRound` fails in `testing_suite_times`; `ShownTimes` says
  what holds of the line that is shown.
* "child (pid) returned (result)" and "retval contains returncode"
  (`src/platform/threading.cc:88` and `:96`): `WIFEXITED` and `WEXITSTATUS` are applied to the
  pointer, and what a blocking `join()` leaves in `*retval` is a byte of an address.
  `JoinReturnsStatus` fails in `parts_join`.
* "(Re-)adjust the window size to a specified width" (`src/math/moving_ana.h:62`): one sample
  at most is erased for one that comes, so a window made smaller keeps its length.
  `WindowIsAdjusted` fails in `parts_window`.

Seen while modelling, and stated by no property: `{% for i to range from offset %}`, the
example of `template_parser.h:109`, ends the process, since `integer(tokens[5])` takes the
name `offset` for a number (`template_parser.cc:374`); a final text of one character is
dropped (line 279), which `OutputIsMeaning` exempts. `init_select()` finalizes the
statement that `select()` then hands out (`xsqlite.cc:204`), so the example at
`xsqlite.cc:260-262` steps a statement that is gone; `InitedIsPrepared` and
`ResultsStayLive` exempt just this. A statement that is replaced, given to a result or left
by an error is never finalized, and `sqlite3_close()` then refuses to close (line 60).
`init_raw_query()` alone does not set `next_idx` back, so values bound after it go on
where the last query stopped.

A set() whose assignment throws leaves the mutex of a `MutexVariable` locked for good
(`threading.h:142-144`), which `LockReleased` exempts, since nothing says what is to happen then;
likewise `BufferBounded` exempts a negative size of a logging buffer (`xlogger.cc:271`).
Doubles in a config file lose what is beyond six digits, and a string with a newline splits its
line, or the comment with its default, so that what follows is read as an option
(`config_manager.cc:270-279`). In testing_suite, "[E] test failed - exception
caught: " is appended to the details of a test that throws (`testing_suite.cc:72`), but the
result stays as it is: the test is good, and details are printed of bad tests only;
`VerdictsMeanChecks` leaves it open. `-d` is parsed, but `show(false)` is called; the
maximum of times that are all 0 is shown as the smallest positive double (line 163), of which
`ShownTimes` says nothing. `XUnit` does not end on a negative number.
In threading, `MessageQueueClient` exits when `mq_open` succeeded (line 182) and so delivers
nothing. In xsocket, a failed `::select()` returns the first stream, ready or not, and the read
after it may block. In math, nothing sets the `next`
of an exponential average before `analyze()` weighs it (`moving_ana.h:134`), so that the first
answers are not of the samples alone, and `AnswersAreRecent` promises nothing of the first; the
k-means seeds
are all the same datum whenever `num_centers` divides `num_iters * min_batch_size`, as with the
defaults; `always_fill_batch` has no effect, because the batch never gets smaller. In xregex, a
pattern that matches the empty string is matched at the same place for ever (`xregex.cc:42`).

## Proofs

Every theorem is for all values of the constants that satisfy the assumptions of the
component's module, and TLC evaluates those assumptions on the instance of the runs. The
proof that a step keeps an invariant has one step per action of the next-state relation.

`Operators_proofs` has the lemmas about the operators the models are built from. Induction
is the set form `Induction` (a set that holds 0 and with every number the next one holds
them all), which follows from the well-foundedness of `<`, because the library's rules with
an operator parameter cannot be instantiated. With it come

- the recursion equations of the folds (`FlattenRecursion`, `SumRecursion`, `LeftToRight`),
  and from these the sums: of any finite set of integers, in any order, with one summand
  changed (`SumOfChanged`), of naturals, of prefixes;
- what `strip`, `split` and `join` of `XString` return for strings of any length, up to
  `SplitOfJoin`: joined strings without the delimiter are what `split()` finds again;
- recursive functions: that the powers of a number and the loops of the code (`LoopFunction`:
  go on with `step` until `done`, whether that ever happens or not) are functions and satisfy
  their equations. A definition f[x] == ... f[...] says so only if there is such a function.

`Parts_proofs` is about `MutexVariable` and the parts of `MCParts`. Each part is proved for its
own specification; `TypesOfParts` then puts them together: in every step of `MCParts` one part
moves and the others stutter.

- *MutexVariable* (assuming only that there is a word and that `NoThread` is not a thread).
  `MutexTypeOK` is inductive by itself. `LockedSectionOwned` is inductive with it, and all others
  need it: a thread that stores or that unlocks is the holder, so no other thread is in a
  locked section. `OnlyOwnerStores`, an action property, follows from it, and both are
  proved rather than checked in a run. `FreeMeansCommitted` is strengthened to what a
  storing thread has already stored, that is, the member equals its new value on all words
  not in `todo` and the committed value on the others. `WordsAreCurrent` needs that every
  value that is current, or being stored, during a `get()` is in `held`. With one word
  `OneWordIsAtomic` follows.
- *MessageQueue*. `QueueOrder` is about what has left the queue, so its invariant
  `KernelKeepsOrder` says that what is in the kernel's queue is the end of what was sent; a
  receive then adds one answer, and a place for it (`Placed`) unless a signal made it.
- *Parallel*. `JoinAnswers` is not inductive: `HandlesInv` says whose child each handle is
  and that no thread is without one, `CleanInv` that of a clean process, if its address says
  "not exited", the int `retval` is 0 just when its child was waited for and exited with 0,
  and that no process has the handle -1, which would wait for another's child.
- *Sockets*. `Traffic` says per connection what each of `wrote`, `inbox` and `got` is of
  the others: what is behind the inbox has been read, in order and without what follows a NUL
  (`Read`), and what was heard is a part of what was asked (`Sending`). `Own` says that until
  a stream is copied no two live objects have one descriptor, which is why a close never
  takes another's, and that the server's is a listener's. `SelecterKeeps` is inductive with
  `SocketsTypeOK` and these.

`Math_proofs`, for any data and configurations, over fractions.

- *StreamingKMeans*. `CentresWeighTheData` is about what an update leaves, and an update is a
  fold of the whole batch, many times over. `Accounted` is the invariant of its loops: the
  members sum up to the data attracted so far, members times centres to their sum, a
  centre that has no members is one of the seeds, and each is between the least and the
  greatest of the batch. `MovedMean` is one step of it (a mean of m data becomes one of
  m + 1, and stays in range), and a nearest centre there is (`NearestCentre`), because comparing
  fractions is an order. `KMeansInv` says that between two calls what is accounted for are
  the data of all updates since `reset()`, or nothing.
- *MovingAnalyzer*. `AnalyzerInv` says that the history is the end of the samples, that its
  length is what the windows asked for leave (`Window`, which gets stuck above the window
  that was made smaller), and of what the last answer is a mean or a median; an exponential
  average is stated relative to the first answer, since that holds what was in memory. For
  the median it needs that every sequence can be sorted (`SortingOrder`) and that what is
  then in the middle has at most half of them on either side (`MedianHalves`), for the mean
  that adding from the left is the sum, and for the average the powers of its weight.

`Executor_proofs` (any capacity of the pipes, buffer of at least two bytes, scripts and
status words). `ChildrenInv` says that a script has its end once and last, that the
children are those up to `pid`, and that a call that reads or writes has a child.
`StatusIsAChilds` needs with it only that before the first child `result` is -1.
`ReadIsComplete` needs `StreamInv`: what a child sent is what was taken from it, then what
the read in progress holds, then what is in the pipe, as long as there is no NUL. `CStringOfChunk`
shows why the NUL matters, and why the buffer must be blank before each `read`.

`ConfigManager_proofs`. `ConfigInv` adds to `TypeOK`, `FlagsMeanData` and `CommandsResolve`
what they need: objects are what they are taken for (`Shapes`), indices are of objects that exist
(`Indices`), texts are strings, since `strip` and `split` are computed (`Texts`), and a
long command leads to the id it is made of (`LongNames`), so that an id declared once more,
in another group, gives its command the meaning it had. `CommandsAreStable` and
`ParseIsAllOrNothing`, both action properties, follow from it.

`FileRoundTrip` is the longest proof: settings, text and the run of the program that reads
it. Of numbers it takes one assumption: what six digits of a double are worth has a text
(`ConfigAssumption`), from which `NumberAgain` follows: a number that is printed and read is
itself, or its six digits. `Boxes` says that every data pointer is null or leads to one
value. `RoundInv` says of the time after `write_config_file()` that, if the file can hold
the settings (`Fitting`, the condition of `RoundTrip`), there is an order of the options in
which the file has one text for each, with one line if it was set and otherwise none but
comments (`Lists`, `FileHolds`), and of the run that reads it that it has taken the first j
lines, as `parse()` is given them, and has set just these, to what they were (`ReadUpTo`).
That one line does so is a lemma for each type: `strip` and `split` at "=" give back name
and text because the text has no "=", no newline and no spaces around it (`LineAgain`;
`TextAgain` adds the comments), and the text is read as the value it shows: a list by
`SplitOfJoin`, a map by it twice, and once more because the keys of a map that is read are
those that were written. An option named "=", " " or "#", or one that is not reachable by
its id any more, breaks this, which is why `RoundTrip` excepts it.

`XLogger_proofs`. The inductive invariant is `LoggerTypeOK`,
`ObjectsInv` and `OwnersInv`. `ObjectsInv` says of each backend that its log is what it has
sunk and then its buffer (`KeptInOrder`), that only buffered classes have a buffer, that a
buffer which exceeds its size holds one message (`BufferBounded`), that a fresh backend's
stream is closed and an owned one's is open. `OwnersInv` says that a backend is "owned"
just when it is in the set of a logger, and that it is in no other's. The streams are
what the rest hangs on: a flush keeps the order only because the stream still takes data,
and it does because `init` ran once and `cleanup` has not. Lemmas state what `Write`,
`InitBackend`, `Flush` and `Cleanup` do to one good object (`Evolves`).
`ImplementsAppendLog` maps `log`, `sunk` and "not deleted" to the abstract variables:
the kept part is a prefix of the log because log = sunk, then buf, and the whole of it
after `Cleanup`, because that leaves `buf` empty. `SiblingsAgree` needs `LogsInv`: a fresh
backend's log is empty and an owned one's has its header, so that one that joins later
has nothing after its header and everything after that is written to all.

`Ooapi_proofs`, *XSQLite*. `ResultsStayLive` is not inductive: `insert()` finalizes the object's
statement, and nothing in it says that no result has it. `InitedIsOwn` does: while the state
is "inited" the object's statement is its own, because `select()` leaves that state and only
a new statement enters it. That is the whole reason why results are safe, and the mutant
`SelectKeepingState` takes it away. `KeepStep`, `PrepareStep`, `ChangeStep`, `FinalizeStep`
and `SelectStep` are the five ways in which a call changes statements, and each action
is one or two of them. `InsertIsAtomic`, an action property, needs `BoundAsAsked`: the
statement about to be inserted has been bound, by position, what was asked for since
`init_insert()`, and `next_idx` counts it. *TemplateParser*, for any trees and any rendering:
`TreesAreOwned` is inductive with `Owned`, that a live main parser's tree is one that was
made; a step that makes none and replaces none keeps every owner, whatever it renders
(`SameOwner`).

`TestingSuite_proofs` (under the model's assumption that tests are distinct objects:
a suite keeps its tests in a map of its own, each with its own result). The timer part of
`TypeOK` is strengthened to `TimersRun` (a timer is active while the method of its test
runs and then only) and `TimesFit`. `VerdictsMeanChecks` needs `Rated` (a result is bad
exactly if one of its checks was, as the code has it; `VerdictsMeanChecks` asks for less, and
leaves open whether an exception should count), `Counted` (the counters of all suites sum up to the
checks of all tests, by the lemmas about sums) and `Progress`: each test the loops are behind,
and no other, was shown once, as it still is. `Behind` is the measure of how far the loops
over suites, rounds and tests have come.

`TimesShown`, the theorem for `ShownTimes`, takes two more parts. *What is noted*: `Timed`
says that one time is noted for each round of a test, none less than the round took, and of
one or two rounds just what they took (`TimesNoted`). It is kept (`NotesGrow`) because the
time noted last, which is subtracted, never exceeds what the timer had added up
(`TimesFit`), and after one round is just that. It holds until `tear_down()` throws, and for
what was shown before even then. *What is shown*: `ScaledDown` and `ScaledUp` say that the
loops of `si_scale()` end between the limits and are as many divisions or multiplications by
`Kilo` as the exponent says, by induction on the size of the fraction; so a time is shown as
it is (`WholeShown`), a mean in seconds is one of microseconds (`MeanShown`), and even the
least positive number is brought between the limits (`TinyShown`).

Only model-checked:

- liveness (`LockReleased`, `ReadReturns`, `WaitReturns`, `OrphansEnd`, `HeadIsServed`): the
  prover has no fairness or ENABLED;
- `OutputIsMeaning` and the types of `TemplateParser`: outputs and trees are made by RECURSIVE
  operators, with which tlapm loses its SMT backend, and that a rendering is what the template
  means is an induction over its nesting.

## Plan

What could be added, in this order:

1. `Algorithms`, over bounded inputs: `is_real` against a grammar, `subs` and
   `subs_all`, the match loop of `XRegex`, `CircularBuffer` against a bounded queue.
2. A subset of the template language without nesting, whose outputs could be proved to be
   their meaning.

## Not modelled, and why

Output that nothing reads back (usage texts, result tables, stack traces, ncurses), closed
floating-point formulas (vectors, poses), thin wrappers around system calls (fs,
io), allocation failures, and data races on library containers, which have no outcomes
to choose from.
