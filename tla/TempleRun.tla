------------------------------ MODULE TempleRun ------------------------------
(***************************************************************************)
(* scripts/temple-run.py pushing a test battery into a TempleOS VM.        *)
(*                                                                         *)
(* Three actors share two one-way channels:                                *)
(*   - the host script, which writes source chunks to COM2 (push_chunk),   *)
(*     types command lines at the guest's REPL (sendkey) and polls the     *)
(*     COM1 log for markers (wait_for);                                    *)
(*   - adam_task, the guest task that runs either its REPL, the stage-1    *)
(*     loop D(), the stage-2 loop D2(), or the program of --launch;        *)
(*   - the user, who starts a run, and may press Ctrl-C in any of them.    *)
(*                                                                         *)
(* COM2 keeps its history: `sent` is every chunk ever pushed and `taken`   *)
(* says how many the guest has removed, so the receive FIFO holds          *)
(* sent[taken+1 .. Len(sent)].  COM1 is the log file, which only grows.    *)
(* An entry's field `of` is the chunk it belongs to; the host cannot see   *)
(* it, except for the random suffix that makes a probe's echo its own.     *)
(***************************************************************************)
EXTENDS Integers, Sequences, FiniteSets

CONSTANTS
  SrcFiles,      \* the src/ files in push order, Assert left out
  Assert,        \* the test framework, pushed after them except by --launch
  TestFiles,     \* the T_* files in push order
  Fragile,       \* the files that may fail to compile
  Modes,         \* the invocations the user makes, a subset of AllModes
  MaxRuns,       \* bound: number of invocations
  MaxInterrupts  \* bound: number of Ctrl-C

Files == {SrcFiles[i] : i \in DOMAIN SrcFiles} \cup {Assert}
           \cup {TestFiles[i] : i \in DOMAIN TestFiles}

AllModes == {"battery", "reset", "keep", "launch"}

NoFile == "none"

ASSUME FilesAssumption ==
  /\ SrcFiles \in Seq(STRING) /\ TestFiles \in Seq(STRING) /\ Assert \in STRING
  /\ NoFile \notin Files
  /\ Fragile \subseteq Files \ {Assert}
ASSUME BoundsAssumption ==
  Modes \subseteq AllModes /\ MaxRuns \in Nat /\ MaxInterrupts \in Nat

VARIABLES
  adam,        \* what adam_task is running
  kbd,         \* command lines typed at adam and not read yet
  exec,        \* the chunk inside ExePutS: index (0 when none), phase, outcome
  dExit,       \* the guest global _D_exit
  defs,        \* which of the functions D and D2 are defined
  loaded,      \* the files whose symbols are in adam's hash table
  sent, taken, \* COM2, see above
  torn,        \* what interrupted pushes left in the guest without an EOT
  log,         \* COM1
  hpc,         \* where the script is
  mode,        \* how it was invoked
  since,       \* log_size() taken before the last push
  typed,       \* commands of the bootstrap already typed
  pos,         \* position of the next file to push
  rc,          \* how the last run ended
  runs, ints,  \* invocations and interrupts so far
  broken       \* the files that do not compile, as saved at the last start

guestVars == <<adam, kbd, exec, dExit, defs, loaded, taken>>
hostVars  == <<hpc, mode, since, typed, pos, rc, runs, ints>>
vars == <<guestVars, sent, torn, log, hostVars, broken>>

-----------------------------------------------------------------------------
(***************************************************************************)
(* Chunks, and what a chunk does when ExePutS compiles and runs it.        *)
(***************************************************************************)
Kinds == {"v2", "exit", "probe", "src", "begin", "test", "final"}

\* One payload, or ("scrap") the first blocks of a long one.
Text == [kind : Kinds \cup {"scrap"}, file : Files \cup {NoFile}, bad : BOOLEAN]

\* What one EOT ends: a payload, behind those that lost their own EOT.
Chunk == [kind : Kinds, file : Files \cup {NoFile}, bad : BOOLEAN, behind : Seq(Text)]

Texts(c) == Append(c.behind, [kind |-> c.kind, file |-> c.file, bad |-> c.bad])

UserCode(t) == t.kind \in {"src", "test"}

\* The script's own payloads are a statement or two.  User source may run for
\* minutes or for ever.
Foreign(t) == UserCode(t) \/ t.kind = "scrap"
MaySpin(c) == \E i \in 1 .. Len(Texts(c)) : Foreign(Texts(c)[i])

\* Test files and the closing TEST_SUMMARY use the symbols of Assert.
Compiles(t) ==
  /\ ~t.bad
  /\ t.kind \in {"test", "final"} => Assert \in loaded

\* ExePutS compiles and runs a chunk statement by statement: the first n of the
\* texts s take effect and the next is lost, because it does not compile or
\* because a text that is not the script's own ends open just before it or in it.
Stops(s, n) ==
  \/ ~Compiles(s[n + 1])
  \/ s[n + 1].kind = "scrap"
  \/ n > 0 /\ Foreign(s[n])

\* ... and ok is whether ExePutS came back without a Compiler exception.
Outcome(s, n, ok) ==
  /\ \A i \in 1 .. n : Compiles(s[i])
  /\ n < Len(s) => Stops(s, n) /\ (ok => Compiles(s[n + 1]))
  /\ n = Len(s) => ok

\* Whether one of the first n texts of s is of this kind.
Ran(s, n, kind) == \E i \in 1 .. n : s[i].kind = kind

Tags == {"D_OK", "D2_OK", "D_DONE", "D_EXIT", "COMPILE_OK", "COMPILE_FAIL",
         "PROBE_OK", "TEST_RUN_END"}

CommPrint(tag, of) == log' = Append(log, [tag |-> tag, of |-> of])

\* What the first n texts of chunk k print.  The echo of a torn probe is left
\* out: it carries a suffix that no later run waits for.
Prints(s, n, k) ==
  (IF Ran(s, n, "final") THEN <<[tag |-> "TEST_RUN_END", of |-> k]>> ELSE <<>>)
    \o (IF n = Len(s) /\ s[n].kind = "probe"
        THEN <<[tag |-> "PROBE_OK", of |-> k]>> ELSE <<>>)

Idle == [c |-> 0, phase |-> "idle", ok |-> TRUE]

Listening == adam \in {"D", "D2"}

-----------------------------------------------------------------------------
(***************************************************************************)
(* The receive loops D() and D2().  ExePutS is three observable moments:   *)
(* the chunk's own prints, then (stage 2 only) the COMPILE_* verdict, then *)
(* D_DONE.                                                                 *)
(***************************************************************************)
\* Mutant: FifoU8Rem's result is not looked at.
TakeChunkBlind ==
  /\ Listening /\ exec = Idle /\ ~dExit
  /\ taken' = taken + 1
  /\ exec' = [c |-> taken + 1, phase |-> "run", ok |-> TRUE]
  /\ UNCHANGED <<adam, kbd, dExit, defs, loaded, sent, torn, log, hostVars, broken>>

TakeChunk ==
  /\ Listening /\ exec = Idle /\ ~dExit
  /\ taken < Len(sent)
  /\ taken' = taken + 1
  /\ exec' = [c |-> taken + 1, phase |-> "run", ok |-> TRUE]
  /\ UNCHANGED <<adam, kbd, dExit, defs, loaded, sent, torn, log, hostVars, broken>>

RunChunk ==
  /\ exec.phase = "run"
  /\ LET s == Texts(sent[exec.c]) IN
     \E n \in 0 .. Len(s), ok \in BOOLEAN :
       /\ Outcome(s, n, ok)
       /\ exec' = [exec EXCEPT !.ok = ok,
                               !.phase = IF adam = "D2" THEN "verdict" ELSE "done"]
       /\ defs' = IF Ran(s, n, "v2") THEN defs \cup {"D2"} ELSE defs
       /\ dExit' = (dExit \/ Ran(s, n, "exit"))
       /\ loaded' = loaded \cup {s[i].file : i \in {j \in 1 .. n : UserCode(s[j])}}
       /\ log' = log \o Prints(s, n, exec.c)
  /\ UNCHANGED <<adam, kbd, taken, sent, torn, hostVars, broken>>

\* _DRun only: Fs->catch_except says whether ExePutS swallowed an exception.
PrintVerdict ==
  /\ exec.phase = "verdict"
  /\ CommPrint(IF exec.ok THEN "COMPILE_OK" ELSE "COMPILE_FAIL", exec.c)
  /\ exec' = [exec EXCEPT !.phase = "done"]
  /\ UNCHANGED <<adam, kbd, dExit, defs, loaded, taken, sent, torn, hostVars, broken>>

\* Mutant: D_DONE may be printed before _DRun gives its verdict.
PrintDoneEarly ==
  /\ exec.phase \in {"verdict", "done"}
  /\ CommPrint("D_DONE", exec.c)
  /\ exec' = IF exec.phase = "done" THEN Idle ELSE exec
  /\ UNCHANGED <<adam, kbd, dExit, defs, loaded, taken, sent, torn, hostVars, broken>>

PrintDone ==
  /\ exec.phase = "done"
  /\ CommPrint("D_DONE", exec.c)
  /\ exec' = Idle
  /\ UNCHANGED <<adam, kbd, dExit, defs, loaded, taken, sent, torn, hostVars, broken>>

LeaveLoop ==
  /\ Listening /\ exec = Idle /\ dExit
  /\ CommPrint("D_EXIT", taken)
  /\ adam' = "repl"
  /\ UNCHANGED <<kbd, exec, dExit, defs, loaded, taken, sent, torn, hostVars, broken>>

-----------------------------------------------------------------------------
(***************************************************************************)
(* adam's REPL reads the lines the host typed.  Lines typed while a loop   *)
(* holds adam wait in its input queue.                                     *)
(***************************************************************************)
BOOTSTRAP_CMDS == <<"include", "globals", "comminit", "def_d", "call_d">>

Lines == {BOOTSTRAP_CMDS[i] : i \in 1..5} \cup {"call_d2", "cmd"}

\* Mutant: the bootstrap keeps the old RX_fifo and what is in it.
ReplExecKeepsFifo ==
  /\ adam = "repl" /\ kbd # <<>>
  /\ kbd' = Tail(kbd)
  /\ LET line == Head(kbd) IN
     /\ dExit' = (line \notin {"globals", "call_d2"} /\ dExit)
     /\ defs' = IF line = "def_d" THEN defs \cup {"D"} ELSE defs
     /\ adam' = CASE line = "call_d"  /\ "D" \in defs  -> "D"
                  [] line = "call_d2" /\ "D2" \in defs -> "D2"
                  [] line = "cmd" -> "viewer"
                  [] OTHER -> adam
     /\ log' = CASE adam' = "D"  -> Append(log, [tag |-> "D_OK", of |-> taken])
                 [] adam' = "D2" -> Append(log, [tag |-> "D2_OK", of |-> taken])
                 [] OTHER -> log
  /\ UNCHANGED <<exec, loaded, taken, torn, sent, hostVars, broken>>

ReplExec ==
  /\ adam = "repl" /\ kbd # <<>>
  /\ kbd' = Tail(kbd)
  /\ LET line == Head(kbd) IN
     /\ dExit' = IF line \in {"globals", "call_d2"} THEN FALSE ELSE dExit
     /\ defs' = IF line = "def_d" THEN defs \cup {"D"} ELSE defs
     \* a fresh RX_fifo: whatever the old one held is gone
     /\ taken' = IF line = "comminit" THEN Len(sent) ELSE taken
     /\ torn' = IF line = "comminit" THEN <<>> ELSE torn
     /\ \/ line = "call_d"  /\ "D" \in defs  /\ adam' = "D"  /\ CommPrint("D_OK", taken)
        \/ line = "call_d2" /\ "D2" \in defs /\ adam' = "D2" /\ CommPrint("D2_OK", taken)
        \/ line = "cmd" /\ adam' = "viewer" /\ UNCHANGED log
        \/ /\ ~(line = "call_d" /\ "D" \in defs)
           /\ ~(line = "call_d2" /\ "D2" \in defs)
           /\ line # "cmd"
           /\ UNCHANGED <<adam, log>>
  /\ UNCHANGED <<exec, loaded, sent, hostVars, broken>>

\* The program --launch started ends, and adam is back at its prompt.
ViewerExit ==
  /\ adam = "viewer"
  /\ adam' = "repl"
  /\ UNCHANGED <<kbd, exec, dExit, defs, loaded, taken, sent, torn, log, hostVars, broken>>

GuestNext ==
  \/ TakeChunk \/ RunChunk \/ PrintVerdict \/ PrintDone \/ LeaveLoop
  \/ ReplExec \/ ViewerExit

-----------------------------------------------------------------------------
(***************************************************************************)
(* The host: what it reads from the log, and what it waits for.            *)
(***************************************************************************)
Testing(m) == m \in {"battery", "reset"}
Phase1(m)  == IF m = "launch" THEN SrcFiles ELSE Append(SrcFiles, Assert)
Todo(m)    == IF Testing(m) THEN Phase1(m) \o TestFiles ELSE Phase1(m)

\* Every hpc in which the script is inside wait_for, with the token it wants.
Awaits == [d_ok |-> "D_OK", v2 |-> "D_DONE", d_exit |-> "D_EXIT", d2_ok |-> "D2_OK",
           probe |-> "PROBE_OK", src_wait |-> "D_DONE", begin |-> "D_DONE",
           test_wait |-> "D_DONE", final |-> "TEST_RUN_END", stop |-> "D_EXIT"]

HostPcs == DOMAIN Awaits \cup
  {"idle", "detect", "type", "push_v2", "push_exit", "call_d2", "src", "tests", "cmd"}

\* Mutant: wait_for looks at the log from its start.
CapturedEver(tag) == {i \in 1 .. Len(log) : log[i].tag = tag}

Captured(tag) == {i \in since + 1 .. Len(log) : log[i].tag = tag}

\* A probe's marker carries a random suffix: only its own echo matches.
Arrived ==
  /\ hpc \in DOMAIN Awaits
  /\ \E i \in Captured(Awaits[hpc]) : hpc = "probe" => log[i].of = Len(sent)

TailLooksAlive ==
  \E i \in 1 .. Len(log) :
    /\ log[i].tag \in {"D2_OK", "D_DONE"}
    /\ \A j \in i + 1 .. Len(log) : log[j].tag # "D_EXIT"

\* What Timeout below needs to know of the guest.
GuestQuiet ==
  /\ exec = Idle
  /\ \/ Listening /\ ~dExit /\ taken = Len(sent)
     \/ adam = "repl" /\ kbd = <<>>
     \/ adam = "viewer"

Spinning == exec.phase = "run" /\ MaySpin(sent[exec.c])

\* Mutant: log_size() is not taken again before the push.
PushUnmarked(kind, file) ==
  /\ sent' = Append(sent, [kind |-> kind, file |-> file, bad |-> file \in broken,
                           behind |-> torn])
  /\ torn' = <<>>
  /\ since' = since

\* push_chunk, with the log_size() that precedes each of its calls.
Push(kind, file) ==
  /\ sent' = Append(sent, [kind |-> kind, file |-> file, bad |-> file \in broken,
                           behind |-> torn])
  /\ torn' = <<>>
  /\ since' = Len(log)

Exit(code) == hpc' = "idle" /\ rc' = code

-----------------------------------------------------------------------------
(***************************************************************************)
(* The host: starting a run, the probe and the bootstrap.                  *)
(***************************************************************************)
\* The user edits sources between two runs, then starts the script.
Start(m) ==
  /\ hpc = "idle" /\ runs < MaxRuns
  /\ runs' = runs + 1 /\ mode' = m /\ typed' = 0 /\ pos' = 1 /\ rc' = "running"
  /\ broken' \in SUBSET Fragile
  /\ hpc' = IF m # "reset" /\ TailLooksAlive THEN "detect" ELSE "type"
  /\ since' = Len(log)
  /\ UNCHANGED <<guestVars, sent, torn, log, ints>>

Probe ==
  /\ hpc = "detect"
  /\ Push("probe", NoFile)
  /\ hpc' = "probe"
  /\ UNCHANGED <<guestVars, log, mode, typed, pos, rc, runs, ints, broken>>

TypeBootstrap ==
  /\ hpc = "type"
  /\ typed' = typed + 1
  /\ kbd' = Append(kbd, BOOTSTRAP_CMDS[typed'])
  /\ hpc' = IF typed' = Len(BOOTSTRAP_CMDS) THEN "d_ok" ELSE "type"
  /\ UNCHANGED <<adam, exec, dExit, defs, loaded, taken, sent, torn, log, mode, since,
                 pos, rc, runs, ints, broken>>

PushStage2 ==
  /\ hpc = "push_v2"
  /\ Push("v2", NoFile)
  /\ hpc' = "v2"
  /\ UNCHANGED <<guestVars, log, mode, typed, pos, rc, runs, ints, broken>>

StopStage1 ==
  /\ hpc = "push_exit"
  /\ Push("exit", NoFile)
  /\ hpc' = "d_exit"
  /\ UNCHANGED <<guestVars, log, mode, typed, pos, rc, runs, ints, broken>>

CallD2 ==
  /\ hpc = "call_d2"
  /\ kbd' = Append(kbd, "call_d2")
  /\ hpc' = "d2_ok"
  /\ UNCHANGED <<adam, exec, dExit, defs, loaded, taken, sent, torn, log, mode, since,
                 typed, pos, rc, runs, ints, broken>>

\* The waits whose success only moves the script on.
AfterWait == [probe |-> "src", d_ok |-> "push_v2", v2 |-> "push_exit",
              d_exit |-> "call_d2", d2_ok |-> "src", stop |-> "cmd"]

\* Mutant: a wait that expires is taken for one that saw its token.
WaitDoneAnyway ==
  /\ hpc \in DOMAIN AfterWait /\ (Arrived \/ GuestQuiet)
  /\ hpc' = AfterWait[hpc]
  /\ UNCHANGED <<guestVars, sent, torn, log, mode, since, typed, pos, rc, runs, ints, broken>>

WaitDone ==
  /\ hpc \in DOMAIN AfterWait /\ Arrived
  /\ hpc' = AfterWait[hpc]
  /\ UNCHANGED <<guestVars, sent, torn, log, mode, since, typed, pos, rc, runs, ints, broken>>

-----------------------------------------------------------------------------
(***************************************************************************)
(* The host: phase 1, its three endings, and phase 2.                      *)
(***************************************************************************)
PushFile(kind, wait) ==
  /\ Push(kind, Todo(mode)[pos])
  /\ hpc' = wait
  /\ UNCHANGED <<guestVars, log, mode, typed, pos, rc, runs, ints, broken>>

PushSrc  == hpc = "src" /\ pos <= Len(Phase1(mode)) /\ PushFile("src", "src_wait")
PushTest == hpc = "tests" /\ pos <= Len(Todo(mode)) /\ PushFile("test", "test_wait")

\* Mutant: D_DONE alone is taken for success.
FileDoneUnchecked ==
  /\ hpc \in {"src_wait", "test_wait"} /\ Arrived
  /\ pos' = pos + 1
  /\ hpc' = IF hpc = "src_wait" THEN "src" ELSE "tests"
  /\ UNCHANGED <<guestVars, sent, torn, log, mode, since, typed, rc, runs, ints, broken>>

\* push_and_wait got its D_DONE, and looks for COMPILE_FAIL in what it captured.
FileDone ==
  /\ hpc \in {"src_wait", "test_wait"} /\ Arrived
  /\ IF Captured("COMPILE_FAIL") = {}
     THEN /\ pos' = pos + 1
          /\ hpc' = IF hpc = "src_wait" THEN "src" ELSE "tests"
          /\ UNCHANGED rc
     ELSE Exit("compile_fail") /\ UNCHANGED pos
  /\ UNCHANGED <<guestVars, sent, torn, log, mode, since, typed, runs, ints, broken>>

KeepDaemon ==
  /\ hpc = "src" /\ pos > Len(Phase1(mode)) /\ mode = "keep"
  /\ Exit("ok")
  /\ UNCHANGED <<guestVars, sent, torn, log, mode, since, typed, pos, runs, ints, broken>>

StopDaemon ==
  /\ hpc = "src" /\ pos > Len(Phase1(mode)) /\ mode = "launch"
  /\ Push("exit", NoFile)
  /\ hpc' = "stop"
  /\ UNCHANGED <<guestVars, log, mode, typed, pos, rc, runs, ints, broken>>

\* --launch with a command types it; without one it only prints.
Launch ==
  /\ hpc = "cmd"
  /\ kbd' \in {kbd, Append(kbd, "cmd")}
  /\ Exit("ok")
  /\ UNCHANGED <<adam, exec, dExit, defs, loaded, taken, sent, torn, log, mode, since,
                 typed, pos, runs, ints, broken>>

BeginTests ==
  /\ hpc = "src" /\ pos > Len(Phase1(mode)) /\ Testing(mode)
  /\ Push("begin", NoFile)
  /\ hpc' = "begin"
  /\ UNCHANGED <<guestVars, log, mode, typed, pos, rc, runs, ints, broken>>

\* main() ignores what push_and_wait says of the begin marker.
BeginDone ==
  /\ hpc = "begin" /\ Arrived
  /\ hpc' = "tests"
  /\ UNCHANGED <<guestVars, sent, torn, log, mode, since, typed, pos, rc, runs, ints, broken>>

Finalize ==
  /\ hpc = "tests" /\ pos > Len(Todo(mode))
  /\ Push("final", NoFile)
  /\ hpc' = "final"
  /\ UNCHANGED <<guestVars, log, mode, typed, pos, rc, runs, ints, broken>>

FinalDone ==
  /\ hpc = "final" /\ Arrived
  /\ Exit("ok")
  /\ UNCHANGED <<guestVars, sent, torn, log, mode, since, typed, pos, runs, ints, broken>>

-----------------------------------------------------------------------------
(***************************************************************************)
(* Timeouts and Ctrl-C.  The deadlines are generous for the script's own   *)
(* chunks, so a wait expires only when nothing more can come by itself, or *)
(* behind user code that is still running.                                 *)
(***************************************************************************)
\* Mutant: the deadline is extended for as long as the guest computes.
TimeoutIfQuiet ==
  /\ hpc \in DOMAIN Awaits /\ ~Arrived
  /\ GuestQuiet
  /\ IF hpc \in {"probe", "begin", "stop"}
     THEN UNCHANGED rc /\ hpc' = [probe |-> "type", begin |-> "tests", stop |-> "cmd"][hpc]
     ELSE Exit("timeout")
  /\ UNCHANGED <<guestVars, sent, torn, log, mode, since, typed, pos, runs, ints, broken>>

Timeout ==
  /\ hpc \in DOMAIN Awaits /\ ~Arrived
  /\ GuestQuiet \/ Spinning
  /\ \/ hpc = "probe" /\ hpc' = "type" /\ since' = Len(log) /\ UNCHANGED rc
     \/ hpc = "begin" /\ hpc' = "tests" /\ UNCHANGED <<since, rc>>
     \/ hpc = "stop" /\ hpc' = "cmd" /\ UNCHANGED <<since, rc>>
     \/ hpc \notin {"probe", "begin", "stop"} /\ Exit("timeout") /\ UNCHANGED since
  /\ UNCHANGED <<guestVars, sent, torn, log, mode, typed, pos, runs, ints, broken>>

\* The payload that the script pushes next.
Outgoing(kind, file) ==
  \/ hpc = "detect"    /\ kind = "probe" /\ file = NoFile
  \/ hpc = "push_v2"   /\ kind = "v2"    /\ file = NoFile
  \/ hpc = "push_exit" /\ kind = "exit"  /\ file = NoFile
  \/ hpc = "src"   /\ pos <= Len(Phase1(mode)) /\ kind = "src"  /\ file = Todo(mode)[pos]
  \/ hpc = "tests" /\ pos <= Len(Todo(mode))   /\ kind = "test" /\ file = Todo(mode)[pos]
  \/ /\ hpc = "src" /\ pos > Len(Phase1(mode)) /\ file = NoFile
     /\ \/ mode = "launch" /\ kind = "exit"
        \/ Testing(mode) /\ kind = "begin"
  \/ hpc = "tests" /\ pos > Len(Todo(mode)) /\ kind = "final" /\ file = NoFile

\* Ctrl-C inside push_chunk: the payload goes out in blocks of 1024 bytes, which
\* only files exceed, and its EOT after a pause.
Tear(kind, file) ==
  /\ Outgoing(kind, file)
  /\ \/ torn' = Append(torn, [kind |-> kind, file |-> file, bad |-> file \in broken])
     \/ /\ kind \in {"src", "test"}
        /\ torn' = Append(torn, [kind |-> "scrap", file |-> NoFile, bad |-> FALSE])

Interrupt ==
  /\ hpc # "idle" /\ ints < MaxInterrupts
  /\ ints' = ints + 1
  /\ Exit("interrupted")
  /\ \/ UNCHANGED torn
     \/ \E kind \in Kinds, file \in Files \cup {NoFile} : Tear(kind, file)
  /\ UNCHANGED <<guestVars, sent, log, mode, since, typed, pos, runs, broken>>

-----------------------------------------------------------------------------
\* A VM that has just booted: adam at its prompt, an empty log, no daemon.
Init ==
  /\ adam = "repl" /\ kbd = <<>> /\ exec = Idle /\ dExit = FALSE
  /\ defs = {} /\ loaded = {} /\ sent = <<>> /\ taken = 0 /\ torn = <<>>
  /\ log = <<>>
  /\ hpc = "idle" /\ mode = "battery" /\ since = 0 /\ typed = 0 /\ pos = 1 /\ rc = "none"
  /\ runs = 0 /\ ints = 0 /\ broken = {}

HostNext ==
  \/ Probe \/ TypeBootstrap \/ PushStage2 \/ StopStage1 \/ CallD2 \/ WaitDone
  \/ PushSrc \/ PushTest \/ FileDone \/ KeepDaemon \/ StopDaemon \/ Launch
  \/ BeginTests \/ BeginDone \/ Finalize \/ FinalDone

UserNext == (\E m \in Modes : Start(m)) \/ Interrupt

Next == GuestNext \/ HostNext \/ Timeout \/ UserNext

Spec == Init /\ [][Next]_vars

\* The script never stops by itself, and the guest's own loops are scheduled.
\* Nothing forces user code to end, the user to act, or a viewer to quit.
Fairness ==
  /\ WF_vars(HostNext) /\ WF_vars(Timeout)
  /\ WF_vars(TakeChunk \/ PrintVerdict \/ PrintDone \/ LeaveLoop \/ ReplExec)
  /\ WF_vars(~Spinning /\ RunChunk)

FairSpec == Spec /\ Fairness

-----------------------------------------------------------------------------
\* The types of the variables; the guest never takes a chunk that was not sent.
TypeOK ==
  /\ adam \in {"repl", "D", "D2", "viewer"}
  /\ kbd \in Seq(Lines)
  /\ exec \in [c : Nat, phase : {"idle", "run", "verdict", "done"}, ok : BOOLEAN]
  /\ dExit \in BOOLEAN /\ defs \subseteq {"D", "D2"} /\ loaded \subseteq Files
  /\ sent \in Seq(Chunk) /\ torn \in Seq(Text)
  /\ taken \in 0 .. Len(sent) /\ exec.c \in 0 .. taken
  /\ log \in Seq([tag : Tags, of : Nat])
  /\ hpc \in HostPcs /\ mode \in AllModes
  /\ since \in 0 .. Len(log) /\ typed \in 0 .. Len(BOOTSTRAP_CMDS) /\ pos \in Nat \ {0}
  /\ rc \in {"none", "running", "ok", "compile_fail", "timeout", "interrupted"}
  /\ runs \in 0 .. MaxRuns /\ ints \in 0 .. MaxInterrupts
  /\ broken \subseteq Fragile

-----------------------------------------------------------------------------
(***************************************************************************)
(* Properties of every history.                                            *)
(***************************************************************************)
\* COM1 tells the story of the chunks in push order: every entry is about a
\* chunk already taken, no chunk finishes twice or after a later one, and its
\* verdict comes before its D_DONE.  The script's waits rely on nothing else.
LogOrder ==
  /\ \A i \in 1 .. Len(log) : log[i].of <= taken
  /\ \A i, j \in 1 .. Len(log) :
       i < j => /\ log[i].of <= log[j].of
                /\ log[i].tag = "D_DONE" /\ log[j].of = log[i].of
                     => log[j].tag \in {"D_OK", "D2_OK", "D_EXIT"}

\* An order to exit that lost its EOT is executed with chunk c.
TornExit(c) == \E i \in 1 .. Len(c.behind) : c.behind[i].kind = "exit"

\* detect_live_daemon: when the probe is answered a receive loop holds adam and
\* will take what comes next, whatever was torn, killed or left unread before;
\* unless the probe itself ended the text of an interrupted `_D_exit=TRUE;`.
ProbeMeansListening ==
  [][hpc = "probe" /\ hpc' = "src" =>
       (Listening /\ ~dExit) \/ TornExit(sent[Len(sent)])]_vars

\* A run that ended well and did not ask to stop the daemon leaves one that
\* serves: "daemon left listening on COM2".  Only a run of one file may be wrong:
\* its one wait is answered by its probe, which may have carried a torn exit.
LeavesDaemonListening ==
  hpc = "idle" /\ rc = "ok" /\ mode # "launch" =>
    \/ Listening /\ ~dExit
    \/ Len(Phase1(mode)) = 1 /\ TornExit(sent[Len(sent) - 1])

\* The loop that a run's own bootstrap starts begins clean, whatever earlier runs
\* left behind: no chunk and no torn bytes in its FIFO, no pending order to exit.
BootstrapStartsClean ==
  [][adam # "D" /\ adam' = "D" /\ hpc = "d_ok" /\ kbd' = <<>>
       => exec = Idle /\ taken = Len(sent) /\ torn = <<>> /\ ~dExit]_vars

\* Whatever the guest does, an invocation that is not interrupted comes back.
ScriptTerminates == hpc # "idle" ~> hpc = "idle"

-----------------------------------------------------------------------------
(***************************************************************************)
(* Properties of a first run against a freshly booted VM.                  *)
(***************************************************************************)
\* The captured window of a wait for D_DONE holds the D_DONE and COMPILE_FAIL
\* of the chunk it was opened for, and of no other.
WindowIsOwn ==
  hpc \in {"v2", "src_wait", "test_wait", "begin"} =>
    \A i \in Captured("D_DONE") \cup Captured("COMPILE_FAIL") : log[i].of = Len(sent)

\* The promise of module Battery, chunk counting left out.
Served == {i \in DOMAIN Todo(mode) : Todo(mode)[i] \in loaded}

Abstract == INSTANCE Battery WITH
  Batteries <- {Todo(m) : m \in Modes},
  todo      <- IF runs = 0 THEN <<>> ELSE Todo(mode),
  bad       <- IF runs = 0 THEN {} ELSE broken \cap {Todo(mode)[i] : i \in DOMAIN Todo(mode)},
  loaded    <- IF runs = 0 THEN 0 ELSE Cardinality(Served),
  accepted  <- pos - 1,
  verdict   <- rc

\* A first run against a fresh VM implements the abstract battery: the script
\* accepts, blames and succeeds only as Battery allows.
ImplementsBattery == Abstract!Spec

-----------------------------------------------------------------------------
(***************************************************************************)
(* What the script's text says of it, and its runs refute.                 *)
(***************************************************************************)
Finished(k) == \E i \in 1 .. Len(log) : log[i].tag = "D_DONE" /\ log[i].of = k

\* "We watch COM1 for `D_DONE` to know it finished" (line 23): the file the
\* script goes on from is a file whose chunk the daemon has finished.
DoneMeansFinished ==
  [][pos' = pos + 1 => Finished(Len(sent))]_vars

\* "--reset-daemon forces a full bootstrap regardless" (line 456): it does not
\* fail with its bootstrap unread behind a daemon that is alive.
ResetForcesBootstrap ==
  ~(mode = "reset" /\ rc = "timeout" /\ GuestQuiet /\ Listening /\ kbd # <<>>)
=============================================================================
