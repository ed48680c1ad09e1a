# A verification project for templeos-devkit

The devkit compiles, runs and tests HolyC sources inside TempleOS and ZealOS
virtual machines from a modern host. Almost everything that can go wrong in it
without a unit test noticing lies between the host and the guest: two one-way
byte channels (COM2 in, COM1 out, the latter a growing log file), a guest task
that is now a REPL and now a receive loop, markers such as `D_DONE` that must be
matched with the chunk they answer, and a user who presses Ctrl-C. That is what
the first five models are about. The second half of the repository is a HolyC
lexer, parser, resolver and linter in Rust, a sequential program over data, which
the other modules model as operators and check over bounded inputs.

Paths are relative to the repository's root.

## 1. Inventory

### temple-run battery runner (`scripts/temple-run.py`)
*State*: none that persists on the host. In the guest: the task adam, which runs
its REPL, the stage-1 loop `D()`, the stage-2 loop `D2()` or the launched
program; the keyboard queue; the global `_D_exit`; the hash table of compiled
symbols; the RX FIFO of COM2. Between them, `build/serial-temple.log`.
*Operations*: detect a live daemon (tail scan, then a probe with a random
suffix), type the bootstrap, upgrade to stage 2, push `src/*` and `Assert.ZC`,
then `T_*` tests, `TEST_SUMMARY`; `--keep-daemon`, `--launch`, `--reset-daemon`,
`--tests-only`.
*Interactions*: `push_chunk` writes to the COM2 socket, `sendkey` types through
the monitor, `wait_for` polls the log from an offset taken by `log_size()`.
*Hard*: a late marker of one chunk taken for the next one's; a probe that races
its own `D_DONE`; a wait that expires behind user code still running; Ctrl-C in
the middle of a payload; a second run against a guest with a past.
*Correct when*: a wait is ended only by its own chunk; the script blames and
accepts the right file; a run that says the daemon listens leaves one that does;
every run ends.

### COM2 link and guest receive loops (`scripts/temple-run.py`'s `D`, `D2`; `src/Daemon.ZC`)
*State*: bytes in the socket, the RX FIFO, the buffer and its index, the chunk being
executed. FIFO and buffer have 131072 bytes each in `D` and `D2` (temple-run.py:73-76),
65536 in `RunDaemon`; a FIFO holds one byte less than its size, and the buffer keeps
its last byte for the final 0.
*Operations*: receive a byte or drop it, collect it, execute at EOT, print
`D_DONE` and reset the index.
*Hard*: a FIFO that overflows silently, a torn payload without its EOT, the
bound of the buffer, the empty frame.
*Correct when*: nothing is lost in the devkit's own use, a frame is never the
tail of one payload and the head of another with bytes missing in between, and
every push is acknowledged once.

### Watch loop and snapshot workflow (`scripts/watch.sh`, `Makefile`)
*State*: files on disk, the watcher's pipe, the live VM, the qcow2 snapshot `ready`.
*Operations*: save, `test-temple` (cold, or `WARM=1`), `vm-warmup`, `vm-revert`,
`vm-reset`.
*Hard*: saves during a run, a run that fails, a snapshot with old or no sources,
monitor commands whose failure nobody reads.
*Correct when*: a save is never missed, the loop survives failures and comes to
rest, a snapshot can be tested against.

### zctl control plane (`scripts/zctl`)
*State*: `build/qemu.pid`, two sockets, `serial.log`, the VM, the daemon in it,
the wiring of the installed disk.
*Operations*: `up`, `down`, `status`, `eval`, `shell`, `wire`.
*Hard*: a pid file and sockets that outlive their VM, a log of an earlier boot,
the window between `Popen` and writing the pid file, an eval that timed out and
is answered during the next one.
*Correct when*: `status` and `up` speak of this VM, a VM is never lost, `down`
leaves no VM and no pid file (stale sockets of a VM that died by itself may stay), an
eval prints its own answer, commands return.

### Wiring (`scripts/wire-makehome.sh`, `src/Setup.ZC`)
Makes the installed disk start `Boot.ZC` from the shuttle image. One action.

### make test (`scripts/run-tests.sh`, `scripts/check-tests.sh`)
*State*: the qemu process and its monitor socket, `build/serial.log`, two
background jobs (a selector that presses `1` until the guest boots, a watcher that
is also the watchdog) per run, the guest's progress through `Boot.ZC`.
*Operations*: start, quit at `TEST_RUN_END` or a panic, time out, reap, compute
the verdict from the log.
*Hard*: Ctrl-C ends run-tests.sh and qemu, and not the jobs, since bash starts
them with SIGINT ignored: an old watcher quits the next run's VM; a quit that the
monitor drops; a panic after the end marker; a log with an earlier run in it.
*Correct when*: OK, FAILED and PANIC are true of this run's tests, a run ends, no
VM outlives it unless Ctrl-C came while qemu was still starting.

### Shuttle and boot scripts (`scripts/build-shuttle.sh`, `boot.sh`, `boot-temple.sh`)
Image files and qemu command lines; which files `Boot.ZC` includes and in what order.

### test-fast (`scripts/test-fast.py`)
One push of everything to the ZealOS daemon, a done marker with a nonce.
*Correct when*: the verdict counts only this push's tests.

### Corpus tools (`scripts/corpus-run.py`, `scripts/gen-corpus.py`)
Pushes each snippet, takes the first `D_DONE` after it, records OK, FAIL or
TIMEOUT and goes on. *Hard*: what follows a TIMEOUT. *Correct when*: each
recorded verdict is that snippet's.

### Capture and keyboard helpers (`send.py`, `screenshot.sh`, `capture-state.sh`, `zpush.sh`)
Pure I/O.

### Test framework in HolyC (`tests/Assert.ZC`, `tests/T_*.ZC`)
Counters and marker prints.

### holyc-parser: lexer (`holyc-parser/src/lex`)
*State*: the source, the index of the next byte, tokens and diagnostics.
*Operations*: `next_token` and the scan functions it calls.
*Hard*: nested comments, maximal munch over three bytes, escapes, the exponent of a
float, which saturates in an i32 and is negated and shifted by the digits of the
fraction, bytes outside ASCII.
*Correct when*: tokens and trivia tile the text, operators are the longest that
match, what HolyC would read wrong is reported, every text ends in an `Eof`.

### holyc-parser: parser (`holyc-parser/src/parse`)
*State*: the cursor, the diagnostics, the switch depth; the tree.
*Operations*: one production per construct; checkpoints and `restore` (a look at a
type that turns out not to be one), recovery to the next semicolon.
*Hard*: a production that succeeds and takes nothing, a checkpoint that keeps what
it should forget, tokens taken and dropped in silence, the depth counter on broken
switches, precedence against the postfix and prefix operators.
*Correct when*: parsing ends; a step without a diagnostic keeps all its tokens in
their order; the tree nests as the precedence of HolyC says.

### holyc-parser: symbol resolver and lint rules (`symbol/resolver.rs`, `lint/mod.rs`)
*State*: the global symbols of the files so far, a stack of scopes; the types and
functions of all files.
*Operations*: register a module and check it, file by file; then lint every file.
*Hard*: scopes that close too early or late, declarations without a block, names
that files redefine, calls in default values, dimensions and `sizeof`, sibling
blocks and switch arms, whose locals share one frame in HolyC.
*Correct when*: exactly the names nothing declares are reported, calls of the wrong
number of arguments, bit operations on floats, and every second declaration of a
name in a frame.

### holycc (`bin/holycc.rs`)
The three phases in order over the files of the command line, and the exit code.

### Python lint, editor tooling
`scripts/holyc-lint.py` (tokenizer modes and brace balance) and editor grammars.

## 2. Modules

| module | models | status |
|---|---|---|
| `TempleRun` | the runner, adam and its loops, COM1/COM2 at the level of chunks, the user | checked, in part proved |
| `Battery` | what a run promises, with neither daemon nor link | refined by `TempleRun`, checked and proved |
| `TempleRunProofs` | six theorems about `TempleRun`: types, the log, the probe; what a run finds, what it leaves, what its waits hear | 2373 obligations |
| `TempleBatteryProofs` | a first run of `TempleRun` implements `Battery` | 1026 obligations |
| `Com2Link` | the same channel at the level of bytes, for `D`, `D2` and `RunDaemon` | checked, in part proved |
| `Com2LinkProofs` | four theorems about `Com2Link` | 949 obligations |
| `DevLoop` | watch.sh, test-temple, vm-warmup, vm-revert, vm-reset | checked, safety proved |
| `DevLoopProofs` | four theorems about `DevLoop` | 1179 obligations |
| `Zctl` | zctl and the life cycle of the VM it manages | checked, safety proved |
| `ZctlProofs` | six theorems about `Zctl` | 538 obligations |
| `TestRun` | make test: run-tests.sh with its jobs, the VM, check-tests.sh | checked, safety proved |
| `TestRunProofs` | two theorems about `TestRun` | 229 obligations |
| `Scanner` | the lexer | checked, safety proved |
| `ScannerProofs` | three theorems about `Scanner` | 4029 obligations |
| `ParserCursor` | the parser's cursor, checkpoints, diagnostics and token classes | checked, through `Holycc` |
| `HolyCExpr`, `HolyCStmt` | every production: types and expressions; statements, declarations, directives | checked, through `Holycc` |
| `HolyCTree` | what is inside a node of a tree, and the places of all nodes | checked, through `Holycc` |
| `HolyCScopes` | the walk both passes make over a tree, with its scopes | checked and proved, through `Holycc` |
| `Resolver`, `Lint` | `check_module`; the four lint rules | checked and proved, through `Holycc` |
| `Holycc` | holycc lint: parse, resolve and lint the files, exit code | checked, the passes in part proved |
| `HolyccNames` | what the passes promise of names, calls, types and shared frames, told by places and without a walk | four properties of `Holycc`, proved |
| `HolyccProofs` | five theorems about `Holycc`, for any parser | 2926 obligations |
| `HolyccProps` | what else holycc promises, told by tokens and braces or by a recursion of its own | the other properties of `Holycc` |

`MCTempleRun`, `MCCom2Link`, `MCDevLoop`, `MCZctl`, `MCTestRun`, `MCScanner`,
`MCHolycc` and `MCPostfix` give TLC its constants. `Holycc` extends `Resolver` and `Lint`,
both over `HolyCScopes` and `HolyCTree`. It knows the parser as a constant operator,
`ParserItem`, so that what is proved about the passes holds for every parser; the
configurations make it `TopItem` of `HolyCStmt` (which extends `HolyCExpr` and
`ParserCursor`, and holds the recursive operators, where the prover does not go).

### How they correspond to the code

**TempleRun.** `hpc` is the line `main()` is at; every value that `Awaits` lists
is a call of `wait_for` with the token named there. `Push` is `push_chunk`
together with the `log_size()` before it. `sent`/`taken` are COM2: the FIFO holds
what lies between. The three moments of `ExePutS` (the chunk's own prints, the
`COMPILE_*` verdict of `_DRun`, `D_DONE`) are three actions, since the host reads
the log between them. A log entry's field `of` says which chunk it belongs to;
the host cannot see it and no guard of a host action uses it, but for the random
suffix of a probe. `adam` reads typed lines only in its REPL (`ReplExec`), one of
which (`comminit`) replaces the FIFO. A push sends its payload, waits and sends the
EOT, so a Ctrl-C in between leaves in the guest's buffer the whole text, or the first
blocks of a long one (`scrap`). `Tear` puts it into `torn`; the EOT of the next push ends
both, and that chunk carries the older texts in `behind`. `RunChunk` executes the texts of
a chunk in their order (`Texts`) up to one that does not compile or ends open (`Stops`,
`Outcome`): a torn `_D_exit=TRUE;` takes effect and lets the probe behind it echo. `Timeout`
is enabled only when nothing more can come by itself or user code is running:
the deadlines are generous for the script's own chunks. So the model contains no
spurious timeout, and what it refutes does not depend on a slow machine.

**Com2Link.** A byte is its position in `written`; only whether it is an EOT
matters. `Receive` is the UART's interrupt handler, which drops what does not fit.
`Collect`, `Execute` and `Finish` are the branches of the receive loop. The
guest may be slow in any way. `RunDaemon` skips an empty frame but acknowledges it.

**DevLoop.** A file is the number of times it was saved, with the fact whether
that version compiles. `RunTest` to `Debounce` are the body of `while read`. A run
of temple-run.py is reduced to the files it reads, in phase order, the chunks it pushes
(`vm.queue`: those whose `D_DONE` is to come) and its exit. A wait takes the oldest
chunk's `D_DONE`, whichever was pushed last. `Connect` bootstraps, and leaves nothing
unfinished, or probes a live daemon, and then the probe's own `D_DONE` may still be to
come: `early` remembers that the script began so, one `D_DONE` ahead of the guest. A
snapshot contains the VM's unfinished chunk. `FinishChunk` is the guest by itself.
Monitor commands (`loadvm`, `savevm`) may fail silently, because nobody reads
their answer. One host at a time drives the VM, and none is interrupted: what Ctrl-C
does is in TempleRun.

**Zctl.** `pc` is the running command; `Interrupt` ends it between any two steps,
`Crash` kills the VM, `Die` takes the daemon's task. `socks` are the two socket
files, live or stale. `log` is truncated by `up` and again by qemu when it opens it.

**TestRun.** `main` is where run-tests.sh (then check-tests.sh) is at, `watch` and
`presses` are the background jobs of each run, `lost` remembers whose last quit
came to nothing. `log` is what grep finds in serial.log: the begin marker, the
verdict lines in order, a panic, the end marker. `plan` is what the tests of this run
would do; it is no variable of the code, and no guard of a host action reads it.
`Interrupt` ends qemu, but may leave one that is still starting: boot.sh is a background
job (run-tests.sh:24), and qemu inherits its ignored SIGINT until it has a handler of its
own. The model starts no run beside a VM so left. The
truncations and removals of run-tests.sh and boot.sh up to `exec` are one step.
A deadline may pass at any time: the guest is as slow as it likes.

**Scanner.** A step is one call of `next_token`. A byte is a one-character string of
a small alphabet with a member for each class the code tells apart. The scan
functions are operators from an index to a kind, an end and diagnostics.

**Holycc.** The parser is a record `p` (tokens, cursor, diagnostics, switch depth)
that productions take and return, together with the tree, or `None` where the Rust
code returns `None`; `Restore` is a checkpoint: tokens and diagnostics go back, the
switch depth does not. Productions that contain each other do so by name, through
`Rule` and `Parse`: TLC's coverage, which copies what an operator calls until it
meets it again, then keeps one copy of each. One step is one item of `parse_module`, then one file of the
resolver, one of the linter. A node of a tree has a place, the way down to it from the root;
`Within` and `Before` compare places. `WalkNode` is what `check_stmt`, `check_expr` and their
namesakes in the linter share: a node's parts in their order, each in the scope that the one
before it leaves, a block or a `for` with a scope of its own. The code keeps a stack of sets
or maps; here a scope is the set of all declarations it has so far, those around it included,
and the linter's innermost entry for a name is its last declaration in the scope. A rule looks at
each node where the walk meets it, and through the tree (`Through`) where the code
recurses over parentheses, bodies and blocks. `MaxDepth` bounds the depth of a tree: 10 is
enough for every tree of the runs and 8 is not, which `OperatorsNest` reports (`IsBuilt`). Tokens stand for themselves; `CapNames` are the
names that begin with a capital (`looks_like_type` asks for that), `Builtins` the
manifest. Trees are tuples with a tag first, positions are token indexes.

## 3. Runs

Deadlock checking is off where the bounds (runs, pushes, saves) let the system
really stop.

| run | question | bounds, and why they are enough |
|---|---|---|
| `temple_fresh` | the first run against a fresh VM: does a wait see only its own chunk, does the run implement `Battery`? | two sources, two tests, each may be broken or spin, all four invocations: two of a kind are needed for "the next file" in each phase |
| `temple_rerun` | what holds with a past: daemon left listening, sound probe, empty FIFO for a new loop, log order, termination | two runs, two Ctrl-C: one run leaves a state, the second meets it, and each may be cut |
| `com2_frames` | which bytes are executed, when is none lost, is every push answered? | payloads of 0 to 2 bytes, a FIFO that just holds one, a buffer that a torn payload and the next overflow, 3 pushes, one fault: torn, spoilt, clean |
| `devloop` | is a save ever missed, is a snapshot ever useless? | two sources and a test, two saves (one may come before, during or after the run that the other starts), two warmups (a snapshot replaced), one reset, one silent failure |
| `zctl` | do pid file, sockets and log speak of this VM? | three VMs, three chunks, two faults: enough for a crash after an interrupt |
| `test_run` | is the verdict about this run's tests, does a run end, with the last run's jobs still alive? | two runs (the second meets what the first left), two tests each of which may pass, fail or stop the guest, two menu keys: enough for a lost one |
| `holyc_lex` | is every text tiled by tokens, with the longest operators, the right float reported? | all texts up to 2 to 6 bytes over seven alphabets, each around one part of the scanner, and floats on both sides of an exponent range scaled down (`I32MAX`, with `STR_LEN` and `CHAR_LEN`, small enough to be crossed) |
| `holycc` | is the tree the text, are the diagnostics the right ones? | sixteen families of programs, 503 K states: all sequences of up to three or four tokens or phrases in a fixed frame for each part of the grammar, two of all statements and three of those that nest in a function, four phrases with scopes, three lines with directives, signs around binary operators, three files that declare and call one name, a parameter with a default among them; broken programs are most of them |
| `temple_done`, `temple_reset`, `zctl_wire`, `holycc_postfix` | one sentence of the code or of its specification each, refuted | the smallest instances that show it |

### What the passing runs show
- `WindowIsOwn`, `ImplementsBattery`: on a fresh VM the host's waits are in lock
  step with the guest; the script accepts a file only after the guest compiled
  it, blames only the next broken file, and succeeds only on all of them.
- `LogOrder`: COM1 tells the story of the chunks in order, verdict before
  `D_DONE`, whatever is interrupted.
- `ProbeMeansListening`: an echoed probe comes from a loop that will serve, whatever
  earlier runs left behind, with one exception by name (`TornExit`): a Ctrl-C between
  `_D_exit=TRUE;` and its EOT (temple-run.py:198-201, pushed at 499 and 584) leaves that
  text in the guest's buffer, the next run's probe is executed behind it, echoes, and the
  loop ends. "Echo present -> daemon is definitely alive" (temple-run.py:321) does not
  hold there.
- `LeavesDaemonListening`: a run that ends well leaves a loop that serves. After a torn
  exit this fails for a run of one file only, whose single wait is ended by the `D_DONE` of
  its probe; a run of more files, or with a begin marker, waits for a chunk nobody takes
  and does not end well.
- `BootstrapStartsClean`: the loop a run's own bootstrap starts has nothing in its
  FIFO and no order to exit, whatever is left from before. A loop started by lines an
  interrupted run left behind may find a later run's probe there: the probe can fall
  between `CommInit8n1` and `D();` (three runs and two interrupts show it).
- `ScriptTerminates`: an invocation that is not interrupted comes back.
- `NoByteLost`, `FramesAreWhole`, `DoneIsOwn`, `PushAnswered`: the link.
- `QuietIsCurrent`, `ComesToRest`: when the watch loop is at rest its last verdict is
  about what is on disk. With `WARM=1` this holds of `tests/` only; sources are those of
  the last `vm-warmup`. That a pass means that all compiles is claimed of runs that
  bootstrapped; one that probed a live daemon is one `D_DONE` early (`early`), and the
  failure of its last file may go unseen.
- `SnapshotIsReady`, `SnapshotAdvances`: `vm-warmup` saves a VM whose daemon is up. If
  the script bootstrapped, every source is loaded, none older than in the snapshot it
  replaces. After a probe (Makefile:281-283 on a live daemon) the guest is up to one
  chunk behind: `savevm` may catch the last source while it compiles, or after any failed
  unseen, and the two say no more than that at most one chunk is unfinished.
- `StatusIsTrue`, `VmIsRecorded`, `ReadyMeansListening`, `EvalIsOwn`,
  `DownIsDown`, `CommandReturns`: zctl. Two windows are excluded by name: an
  `up` interrupted between `Popen` and `write_text` (`unrecorded`), and an eval
  that follows one that gave up (`late`). `DownIsDown` covers both ways `down` ends:
  with quit and unlink, after which no VM, pid file or socket is left; and at once, when
  no pid of a live process is recorded (zctl:228-231), after which there is no pid file,
  and no VM but an unrecorded one, while the sockets of a VM that died by itself stay as
  stale files until the next `up`.
- `VerdictIsTrue`: OK, FAILED and PANIC of make test are true of this run's tests,
  whichever jobs of interrupted runs are alive. OK with no test at all, after a `T=`
  that matches none, is among them: the code says so. The converse does not hold: a
  run may be INCOMPLETE because the watcher of an interrupted run quit its VM.
- `RunEnds`: with the exception of a quit that is lost after `TEST_RUN_END` or a panic.
  The watcher has then ended, and the watchdog with it, since both are one job
  (run-tests.sh:52-63), and the run waits for qemu without a limit. After a
  timeout a lost quit is followed by `kill -9`.
- `SourceIsTiled`, `LongestSpelling`, `NegativeExponentIsFlagged`, `EndsWithEof`: the
  lexer. The third is about exponents that an i32 holds: beyond, the value saturates
  and the difference wraps, and the report may be missing or wrong, as in the code.
- `SourceIsKept`: a step of the parser that reports nothing makes an item of all the
  tokens it took, in order, but for separators and for what the tree leaves out by
  name (`LeavesOut`: modifiers, assembly, `#exe`, a class's functions, a few stars and
  the name in a local function pointer's type), and but for an item that the end of
  the text cuts off, where some productions are silent.
- `OperatorsNest`: signs and binary operators nest as HolyC's precedence says: with the
  words in order, a chain of them between two parentheses has one tree. The minus before a
  power is outside it, which is claimed of files without an error so far (`SignIsOutside`).
  Which of a prefix and a postfix operator is inside the other it leaves open
  (`holycc_postfix` is about that), and words do not show which parentheses were written.
- `ProductionsAdvance`: no loop of the parser runs in place. This stands for
  termination (see section 4).
- `MarkersInSwitch`: `start:` and `end:` mark sub-switches inside switches only, and the
  depth is back to none between items, after errors too.
- `UndeclaredIsReported`, `FloatsAreNotMasked`: the reports of the passes
  are exactly those that a definition by places gives: a declaration reaches a node when it
  ends before the node and every scope around it is around the node. The second is about the
  operations on two names; behind parentheses, signs, casts, calls and indexes the rule guesses
  a type, and a nested operation at the place of another shares its report.
- `CallsAreCounted`: told by places too. A call with too many arguments, or without one
  that has no default, is reported; one with as many arguments as parameters is not. A
  call that leaves out trailing arguments with defaults is between the two: the linter
  reports it, HolyC does not (see below), and the property claims nothing of it.
- `SiblingBlocksAreCompared`, `SwitchArmsAreCompared`: told on the braces of the text,
  of declarations that are statements of their own (`OwnStatement`).

### Disagreements found
1. `temple_done`: `detect_live_daemon` returns at the probe's echo, before the
   probe chunk's own `D_DONE`; that marker then answers the first file, and every
   later wait ends one chunk early, so the last file's failure is not seen.
2. `temple_reset`: `--reset-daemon` against a live daemon types into a queue that
   nobody reads and fails after 20 s; the comment promises a full bootstrap.
3. `zctl_wire`: `wire` takes the socket file for a running daemon. On the unwired disk it
   is for, booted to its prompt by an `up` that saw no daemon and advised `wire`, the
   socket exists and the daemon does not, so its `#include` goes to nobody.
4. `holycc_postfix`: a prefix operator takes its operand without the postfixes, so
   `*a++` is parsed as `(*a)++` and `!f(x)` as a call of `(!f)`, whose arguments the
   arity rule never counts. The parser's own specification has it the other way round.

Seen while modelling, and no run's subject: a run of temple-run.py interrupted
between `D_OK` and the first `D_DONE` leaves a stage-1 loop that the next run does
not recognise, although the docstring says it would (temple-run.py:28-30 and 342);
watch.sh runs the battery once for each event of a burst, although it speaks of
coalescing and draining (watch.sh:6-7 and 103); the Makefile's
`TEST_TIMEOUT := 300` is not exported, so run-tests.sh uses its own 180; the arity rule
counts a parameter with a default like any other (lint/mod.rs:95-113 and 483), so it
reports a call `f()` of `f(I64 a=1)` as an error, which the parser's own specification
calls legal (parse-spec.md:450-452 and 885-891).

## 4. Fairness
- *TempleRun*: the script's own steps and expired deadlines (it never blocks
  otherwise), adam's loop and REPL (TempleOS schedules them), and a chunk's
  execution unless it is user code, which may never end. Nothing makes the user
  act or a launched program quit. Fairness is on a disjunction (the one thing an
  actor does next), never on an action that needs the environment.
- *Com2Link*: the UART and the loop's task, and the host's writes. No user step.
- *DevLoop*: the watch loop, make, and the guest, which finishes its chunks. That
  temple-run.py ends is `ScriptTerminates` of TempleRun.
- *TestRun*: run-tests.sh's and check-tests.sh's steps, and each watcher, which polls
  under a counter. Not the selector, the guest, the window or the user.
- *Scanner*: `next_token` is called until `Eof`.
- *Holycc*: none. TLC evaluates ENABLED of a step by descending into the recursive
  parser again for every primed variable, which takes exponential time; that loops
  go on is the invariant `ProductionsAdvance` instead, of every place of every item.
- *Zctl*: zctl's own steps; each of its waits has a deadline. None for the VM.

## 5. Proofs
What TLC shows of small instances is proved for every value of the constants in
eight modules. Assumptions are those named in the modules: `FilesAssumption`,
`BoundsAssumption` (TempleRun, and in the same sense DevLoop, Zctl and TestRun: bounds
are naturals), `NothingAssumption` (the value for "no snapshot" is none),
DevLoop's `FilesAssumption` (a file is a source or a test), `SizesAssumption` and `FitsAssumption` (Com2Link;
the latter says that a payload and its EOT fit in the FIFO, which is what the
code enlarges it for), and `ScannerAssumption` (a text is a finite sequence of bytes,
none of which is the empty string that stands for "no byte"; the caps are positive).

**TempleRunProofs.** `TypeCorrect`: `TypeOK` is not inductive; `TypeInv` adds that
a chunk in execution was taken, that the typing host still has a line to type, and
that user chunks carry a file. `LogOrdered`: `LogInv` adds to `LogOrder` what the log
may hold of the chunk in execution (`OneChunk`): it is the one taken last, a loop
holds adam, and its `D_DONE` is not out yet, which is what keeps a new entry
behind the old ones. `ProbeSound` rests on `ProbeInv`: a chunk that has not run
yet was taken by a loop not told to exit (`Untouched`), and once the probe is
echoed (`EchoFromLoop`) it is the last chunk sent, so no later one can tell the
loop that echoed it to exit; an order in front of it, in the same chunk, is the
exception that the property names.

`CleanStart` rests on `OwnLines`: the lines a run types stay
together at the end of the keyboard queue, nothing is pushed while they wait, and each
line once read has had its effect. `DaemonLeft` rests on three invariants. A loop
`Serving` listens and has no order to exit in force or ahead (`ExitAhead`).
`StartsServing`: every `D();` in the queue, from whichever run, comes right behind its
own `def_d`, `comminit` and `globals`, so what it starts serves. `Stage2`: the order to
leave stage 1 is the last chunk, so a `D_EXIT` after it means an empty FIFO, and the
`D2_OK` after that a loop nobody told to exit. `HostServed` says where the script counts
on such a loop. The theorem is about histories in which no order to exit was torn and
then ended by another push (`NoTornExit`), other torn payloads included; the exact
exception is left to TLC. `OwnWindows` is about a first run without interrupts (`FirstRun`, a
condition on the bounds; later runs refute it, see `temple_done`): the script pushes
only with every chunk done (`InStep`), also after the begin marker's wait expired, for
the marker is no user code (`MaySpin`).

**TempleBatteryProofs.** `FirstRunImplements` maps every step of a first run to a step of
`Battery` or to none, under `FirstRun` and `DistinctFiles` (a run's list names each file
once, as a directory listing does; `Battery` counts places in the list, the guest's symbol
table knows names). Why the guest's `RunChunk` is a `Load` and `FileDone` an `Accept` or a
`Reject` takes `BatteryInv`: `Places` (where in the list the script stands at each step),
`Judged` (files are served by stage 2, which prints verdicts), `NextFile` (a file the guest
has not finished is the last chunk, is the file at `pos`, and the guest has all before it)
and `Compiled` (the guest has exactly the files before `pos`, and perhaps the one under
way: then its window holds no `COMPILE_FAIL`; if not, the file is a broken one). `OneChunk`,
`FirstInv` and `ServeInv` of the modules before it carry the induction.

**Com2LinkProofs.** `LinkInv` is `TypeOK` with `InOrder` (the FIFO holds the
consecutive positions just before `offered`) and `LockStep` (in a history without
faults the host's and the loop's positions match: `Writing`, `Collecting`,
`Executing`, `Answered`). `NoByteLost` is not inductive without it: that the FIFO
has room follows only from the loop having emptied it before the host writes again.
`NothingLost` and `WaitAnswered` follow from it. `FramesWhole` is about all histories:
`FramesInv` says that the buffer holds what was taken since the last EOT, up to its
size (`Gathered`), and each frame what lay between two (`Whole`).

**DevLoopProofs.** `TypeInv` adds to `TypeOK` that a version is bounded by the saves
there were. `SnapInv`: nothing loaded or on its way is newer than the disk
(`NothingNewer`), only a daemon that is up has chunks to finish (`DaemonUp`), while
vm-warmup pushes no test run does and the guest is at most one chunk behind, none if the
script bootstrapped (`Alone`), and then what it has pushed is loaded and no older than in
the snapshot (`PushedIsLoaded`); from it follow `SnapshotReady` and `SnapshotMovesOn`. What
a push and its wait do to the queue is said once (`PushWait`, and `PushWaitOwn` for an
empty queue). `QuietInv` carries `NoSaveMissed`: a version that a run saw and
that is not on disk any more has an event in the pipe (`SeenOrPending`), the verdict
at rest is that of the last run (`VerdictIsLast`), a save without any verdict has an
event (`SaveStartsRun`), a run reads all it has to (`RunCovers`), a broken chunk on its
way is of a file the run read (`BadIsSeen`), which is why a failure without a fault has a
broken file (`FailHasCause`), and a run that did not begin early saw each of its files
compile (`SeenCompiles`), which gives `PassCovers`.

**ZctlProofs.** `BootInv`: what is off is off (`OffIsOff`), the steps of `up` and
`down` know their VM (`StepsKnowVm`), and the marker in the log is of this boot
(`MarkerIsOfThisBoot`), and only a VM serves its sockets (`SocketsServed`). `EvalInv` adds that chunks run one at a time (`OneAtATime`).
With `TypeInv` they give `VmRecorded`, `StatusTrue`, `ReadyListens`, `DownEnds`, `EvalOwn`.

**TestRunProofs.** `LogInv`: the log tells of the tests in their order with the
outcomes they have (`ToldAsPlanned`), the end marker comes after all of them
(`EndIsLast`), a panic has a test that stopped (`PanicHasCause`). It holds whatever the
jobs and the VM do, because only the guest writes and only `Start` changes the tests,
with the log emptied; the verdict is then a matter of `VerdictFits`. `RunsLeaveNoVm`
shows that qemu is gone when a run is over, unless the run was interrupted
(`NoVmIsLeft`) while qemu was starting (`LeftWhileStarting`).

**ScannerProofs.** Every scan function is a loop, written as a recursive function, and so
are the properties (`OnlyTrivia`, `Delims`, `WrittenExponent`). The library's induction
theorems take a predicate as an operator, which the provers cannot instantiate; here sets
stand for predicates. `Least` (a set of naturals has a least member) gives `Induction`,
and that `Downward` and `Upward` over an interval. `LoopExists`, `FoldExists` and `PathExists`
show that a loop whose rank falls, a computation from left to right and a reachability over
steps to the right are functions that exist, so that a `CHOOSE` of one satisfies its own
equation. With these each loop has a lemma that says what it computes (`BlockLoop`,
`SkipLoop`, `StringScanned`, `CharScanned`, `ExponentIs`) and each scan function one that
says what it returns; `NextReads` puts them together: every step skips trivia and reads a
token that satisfies `Read`. The invariant of all three theorems is `ScannerInv`: tokens lie
one after the other, the last ends at the next byte, `Eof` is the last one, and every
exponent that was flagged is behind. It is needed because the properties speak of all
tokens so far and of `diags` as a whole: a report may not be taken for another token's.
- `TokensTileTheSource`: `BlockRuns` follows the counting loop of block comments from right
  to left beside `Depth`, the number of comments the delimiters leave open; they agree
  wherever the loop is not inside a delimiter (`DepthTurn`), so that the loop ends where the
  comment does, or nowhere (`BlockRead`). `SkipReads` then follows `skip_trivia` beside the
  chain of `Pieces`.
- `OperatorsAreLongest`: a case for each row of the table; what decides is that a kind has
  one spelling (`SpellingOf`) and that none of the longer ones is there (`MunchedBy`).
- `NegativeExponentsFlagged`: `DigitsAre` and `ExponentIs` show that the saturating
  accumulator of the code is the number written, or the largest i32; the property's
  condition leaves out what an i32 does not hold.

A text is any sequence of bytes, but bytes of one class that the code treats alike are one
in the model (`0`, `1` and `9` stand for the ten digits, `_` and eight letters for the rest).

**HolyccProofs.** Everything here is for any `ParserItem`, set of command lines, manifest and
`MaxDepth`. `HolyccIsSound` is the inductive invariant `HolyccInv`: the phase and the file at
hand (`FilesInv`), the modules parsed so far (`ModulesInv`), and, for the resolver and the
linter each, that the diagnostics of the phase are those of the files it is done with, each
against the symbols it had then (`ResolverInv`: those of the files up to its own; `LinterInv`:
those of all files). The properties speak of the phase `report` only, which is why they are not
inductive. What is left is what `CheckModule` and `LintModule` compute:
- The walk is a recursive function over the nodes of a tree. `TreeUp` is induction over a tree:
  a set that has a node whenever it has its parts has all of it, because the tree ends within
  `MaxDepth` (`IsTree`). With it `WalkIsResult` shows that a function that satisfies the walk's
  equation is `Result`, a closed form by places, and `ResultsWalk` that there is one, so that
  the `CHOOSE` behind the recursive function is not empty. One turn of it is `NodeResult`:
  the loop over the parts (`LoopIs`, `PartsResult`) leaves what the parts before expose
  (`Left`), and what reaches a node inside part n is what parts before it expose and what
  reaches it inside the part (`ReachesLater`, `ReachingInPart`). `VisitedIs` is the outcome:
  every node is met once, in the scope of exactly the declarations that reach it.
- `NamesAreResolved` follows by `CheckTreeFinds` and `Declared`.
- `CallsAreChecked` needs the table of signatures (`RegisteredIs`: of all entries for a name
  the last stands; `FunctionsAre`: over the items of all files), what the linter does not
  enter (`SkippedIs`), and that no other rule reports under the same name (`LintNodeIs`).

- `FloatsAreTyped`: the type of a name at a node. The code takes the innermost scope's entry,
  here the last declaration that reaches the node. It exists because any nodes of a tree have
  one with none of them after it (`LastExists`), and it is the only one because declarations
  are not inside one another, so that of two one is before the other (`BeforeTotal`,
  `LastDecl`). Of a name without any, the table of types holds what the last item that types
  the name gives it (`TypesAre`, from `RegisteredIs`, within a list of variables and over all
  files).
- `SharedNamesAreFound` states `SharedNamesAreReported`, which no run lists. The block rule
  keeps a table of the first declaration of each name and compares with that one alone. This
  finds every name that some earlier block beside this one has: the first is in another block
  exactly when one of the name comes before in another block (`FirstIsElsewhere`), because of
  two blocks beside each other neither is inside the other (`SiblingsApart`), and what is
  inside them stands as they do (`BeforeFrom`).

The four suppose `TreesAreBuilt`: that what the parser returns are trees that end within
`MaxDepth`, with lists for parts, that no declaration of a tree lies inside another and that
variables come in lists. Nothing can be said of a walk over anything else; that the parser of
the code makes such trees, on broken programs too, is checked by TLC (`OperatorsNest`, which
asks `IsBuilt` of each item), so that no run of the bounded instances leaves the hypothesis.

Only model-checked: liveness (`ScriptTerminates`, `PushAnswered`, `ComesToRest`,
`CommandReturns`, `RunEnds`, `EndsWithEof`), which is out of the prover's reach; what is about
the parser (`SourceIsKept`, `ProductionsAdvance`, `OperatorsNest`, `MarkersInSwitch`), whose
productions call each other and are RECURSIVE operators, under which the prover has no
arithmetic or set backend; and `SiblingBlocksAreCompared` and `SwitchArmsAreCompared`, which
compare the linter with the braces of the text, and so depend on the parser too (what the
linter adds to the tree it is given is `SharedNamesAreFound`).

## 6. What is left out
- `--skip-bootstrap`; two hosts on one VM (the code assumes one, without a lock).
- The 50 KB limit of the tail scan: the model's scan sees the whole log.
- An interrupt in the middle of a typed line (the model's lines are typed whole).
- `Assert.ZC` never fails to compile; user output never forges a marker.
- Redefining `D2` leaves the running one in place, so one bit says it exists.
- The cold bootstrap's failures are `ConnectTimesOut` in DevLoop.
- Pids are not reused; one zctl runs at a time; a second qemu on the same disk
  exits at once (image locking).
- Contents of prints, screenshots, bundles, delays.
- make test: a pid is not reused; no run starts beside a VM that an interrupted one left,
  so that disk, monitor and log belong to one qemu; sections of the shell scripts that take milliseconds are one step.
- The lexer: values of literals but for the exponent, lines and columns.
- The parser: its input is tokens, so the lexer's diagnostics are not in `Holycc`'s; the
  values of literals and the wording of messages.
- holycc: `--no-resolve`, usage and read errors, the directory walk.
- Not modelled at all: corpus-run, gen-corpus, test-fast, the Python lint, capture
  and keyboard helpers, image building, editor grammars (`PROJECT.json` says why).

## 7. Plan
Done: `TempleRun`/`Battery`, `Com2Link`, `DevLoop`, `Zctl`, `TestRun`, `Scanner`, the
parser, resolver and linter, and the proofs above.

Next, in this order:
1. `CorpusRun`, with test-fast: what a verdict says after a timeout, and why a
   nonce helps; a second host on the same VM.
2. `PushOrder` on top of `Resolver`: what lint accepts compiles in the guest, which
   takes files one by one in push order (`.HC`, `.HH`, `.ZC` in two phases).
3. `PyLint`: the tokenizer's modes and the brace balance.

Among proofs none is next: what is only model-checked is out of the prover's reach (section 5).
