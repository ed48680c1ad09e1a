--------------------------------- MODULE Zctl ---------------------------------
(***************************************************************************)
(* scripts/zctl, the control plane of the ZealOS VM: up, down, status,     *)
(* eval (shell is a loop of evals) and wire, with the VM, its sockets, its *)
(* pid file and serial.log.  One zctl runs at a time; Ctrl-C may end it    *)
(* between any two steps, and the VM may die at any time.                  *)
(***************************************************************************)
EXTENDS Naturals, Sequences

CONSTANTS MaxPids, MaxChunks, MaxFaults  \* bounds

ASSUME BoundsAssumption == \A b \in {MaxPids, MaxChunks, MaxFaults} : b \in Nat

VARIABLES
  \* files of build/, and the installed disk
  pidFile,  \* qemu.pid: a pid, 0 when there is no file
  socks,    \* qemu.sock and com2.sock: "none", "live", "stale" (VM gone)
  log,      \* the markers of serial.log
  wired,    \* ~/MakeHome.ZC on the disk starts the shuttle's Boot.ZC
  \* the VM
  vm,       \* pid of the running qemu, 0 when there is none
  stage,    \* "off", "launch", "menu", "boot", "prompt"
  daemon,   \* RunDaemon: "none", "up", "busy", "dead"
  queue,    \* chunks in COM2's RX FIFO
  \* the running command
  pc, mine, since,
  late,     \* an eval of this boot ended before its DAEMON_DONE
  unrecorded,  \* an `up` was interrupted between Popen and PID.write_text
  pids, chunks, faults

fileVars == <<pidFile, socks, log, wired>>
vmVars   == <<vm, stage, daemon, queue>>
cmdVars  == <<pc, mine, since, late, unrecorded>>
counters == <<pids, chunks, faults>>
vars == <<fileVars, vmVars, cmdVars, counters>>

Init ==
  /\ pidFile = 0 /\ socks = "none" /\ log = <<>> /\ wired \in BOOLEAN
  /\ vm = 0 /\ stage = "off" /\ daemon = "none" /\ queue = <<>>
  /\ pc = "idle" /\ mine = 0 /\ since = 0 /\ late = FALSE /\ unrecorded = FALSE
  /\ pids = 0 /\ chunks = 0 /\ faults = 0

alive(pid) == pid # 0 /\ pid = vm

Logged(tag, from) == \E i \in from + 1 .. Len(log) : log[i].tag = tag

Mark(tag, of) == log' = Append(log, [tag |-> tag, of |-> of])

\* What is left when qemu is gone.
NoVm == vm' = 0 /\ stage' = "off" /\ daemon' = "none" /\ queue' = <<>>

Return == pc' = "idle"

-----------------------------------------------------------------------------
(***************************************************************************)
(* The VM.                                                                 *)
(***************************************************************************)
\* qemu creates its sockets and truncates the file behind COM1.
Launch ==
  /\ stage = "launch"
  /\ stage' = "menu" /\ socks' = "live" /\ log' = <<>>
  /\ UNCHANGED <<pidFile, wired, vm, daemon, queue, cmdVars, counters>>

\* The bootloader's menu takes the digit (zctl's, or one typed by hand), and the
\* installed system boots.
PickDrive ==
  /\ stage = "menu" /\ pc # "menu"
  /\ stage' = "boot"
  /\ UNCHANGED <<fileVars, vm, daemon, queue, cmdVars, counters>>

ReachPrompt ==
  /\ stage = "boot"
  /\ stage' = "prompt"
  /\ UNCHANGED <<fileVars, vm, daemon, queue, cmdVars, counters>>

\* Boot.ZC's TaskExe runs RunDaemon once sys_task is idle.  The RX FIFO is new.
RunDaemon ==
  /\ stage = "prompt" /\ wired /\ daemon = "none"
  /\ daemon' = "up" /\ queue' = <<>>
  /\ Mark("DAEMON_LISTEN", 0)
  /\ UNCHANGED <<pidFile, socks, wired, vm, stage, cmdVars, counters>>

\* Mutant: FifoU8Remove's result is not looked at.
TakeBlind ==
  /\ daemon = "up"
  /\ daemon' = "busy"
  /\ UNCHANGED <<fileVars, vm, stage, queue, cmdVars, counters>>

\* A chunk is taken, and ends, or takes the daemon's task with it.
Take ==
  /\ daemon = "up" /\ queue # <<>>
  /\ daemon' = "busy"
  /\ UNCHANGED <<fileVars, vm, stage, queue, cmdVars, counters>>

Done ==
  /\ daemon = "busy"
  /\ daemon' = "up" /\ queue' = Tail(queue)
  /\ Mark("DAEMON_DONE", Head(queue))
  /\ UNCHANGED <<pidFile, socks, wired, vm, stage, cmdVars, counters>>

Die ==
  /\ daemon = "busy" /\ faults < MaxFaults
  /\ daemon' = "dead" /\ faults' = faults + 1
  /\ UNCHANGED <<fileVars, vm, stage, queue, cmdVars, pids, chunks>>

Crash ==
  /\ vm # 0 /\ faults < MaxFaults
  /\ faults' = faults + 1
  /\ NoVm
  /\ socks' = IF socks = "live" THEN "stale" ELSE socks
  /\ UNCHANGED <<pidFile, log, wired, cmdVars, pids, chunks>>

-----------------------------------------------------------------------------
(***************************************************************************)
(* zctl up.                                                                *)
(***************************************************************************)
\* Mutant: the log of the previous VM is kept.
UpKeepsLog ==
  /\ pc = "idle" /\ pids < MaxPids
  /\ IF alive(pidFile) THEN UNCHANGED <<pc, log, socks>>
       ELSE log' = log /\ socks' = "none" /\ pc' = "spawn"
  /\ UNCHANGED <<pidFile, wired, vmVars, mine, since, late, unrecorded, counters>>

Up ==
  /\ pc = "idle" /\ pids < MaxPids
  /\ IF alive(pidFile) THEN UNCHANGED <<pc, log, socks>>
       ELSE log' = <<>> /\ socks' = "none" /\ pc' = "spawn"
  /\ UNCHANGED <<pidFile, wired, vmVars, mine, since, late, unrecorded, counters>>

\* build-shuttle.sh fails, or a file is missing.
UpFails ==
  /\ pc = "spawn"
  /\ Return
  /\ UNCHANGED <<fileVars, vmVars, mine, since, late, unrecorded, counters>>

\* Popen.  A second qemu on the same disk exits at once (image locking).
Spawn ==
  /\ pc = "spawn"
  /\ pids' = pids + 1
  /\ pc' = "record"
  /\ IF vm = 0 THEN vm' = pids' /\ stage' = "launch" /\ late' = FALSE
               ELSE UNCHANGED <<vm, stage, late>>
  /\ UNCHANGED <<fileVars, daemon, queue, mine, since, unrecorded, chunks, faults>>

Record ==
  /\ pc = "record"
  /\ pidFile' = pids
  /\ pc' = "menu"
  /\ UNCHANGED <<socks, log, wired, vmVars, mine, since, late, unrecorded, counters>>

\* sleep(4); send.py 1
AutoBoot ==
  /\ pc = "menu"
  /\ pc' = "listen"
  /\ UNCHANGED <<fileVars, vmVars, mine, since, late, unrecorded, counters>>

UpReady ==
  /\ pc = "listen" /\ Logged("DAEMON_LISTEN", 0)
  /\ Return
  /\ UNCHANGED <<fileVars, vmVars, mine, since, late, unrecorded, counters>>

\* Both the "no DAEMON_LISTEN" and the error return.
UpNotReady ==
  /\ pc = "listen"
  /\ Return
  /\ UNCHANGED <<fileVars, vmVars, mine, since, late, unrecorded, counters>>

-----------------------------------------------------------------------------
(***************************************************************************)
(* zctl down.                                                              *)
(***************************************************************************)
\* Mutant: the pid file goes first.
DownUnlinksFirst ==
  /\ pc = "idle"
  /\ pidFile' = 0
  /\ pc' = IF alive(pidFile) THEN "quit" ELSE "idle"
  /\ UNCHANGED <<socks, log, wired, vmVars, mine, since, late, unrecorded, counters>>

Down ==
  /\ pc = "idle"
  /\ IF alive(pidFile) THEN pc' = "quit" /\ UNCHANGED pidFile
                       ELSE pidFile' = 0 /\ UNCHANGED pc
  /\ UNCHANGED <<socks, log, wired, vmVars, mine, since, late, unrecorded, counters>>

\* Mutant: `quit` is sent and nobody waits for it, or kills.
QuitUnchecked ==
  /\ pc = "quit"
  /\ pc' = "unlink"
  /\ UNCHANGED <<fileVars, vmVars, mine, since, late, unrecorded, counters>>

\* quit, then SIGTERM, then SIGKILL.
Quit ==
  /\ pc = "quit"
  /\ NoVm
  /\ socks' = IF socks = "live" THEN "stale" ELSE socks
  /\ pc' = "unlink"
  /\ UNCHANGED <<pidFile, log, wired, mine, since, late, unrecorded, counters>>

Unlink ==
  /\ pc = "unlink"
  /\ pidFile' = 0 /\ socks' = "none"
  /\ Return
  /\ UNCHANGED <<log, wired, vmVars, mine, since, late, unrecorded, counters>>

-----------------------------------------------------------------------------
(***************************************************************************)
(* zctl eval, and what wire does when com2.sock exists.                    *)
(***************************************************************************)
\* Mutant: the log is searched from its start.
PushUnmarked(next) ==
  /\ chunks < MaxChunks
  /\ IF socks = "live"
       THEN /\ since' = 0 /\ chunks' = chunks + 1 /\ mine' = chunks'
            /\ queue' = IF daemon = "none" THEN queue ELSE Append(queue, mine')
            /\ pc' = next
       ELSE UNCHANGED <<since, chunks, mine, queue, pc>>
  /\ UNCHANGED <<fileVars, vm, stage, daemon, late, unrecorded, pids, faults>>

\* log_size(), then connect, payload and EOT.  Without the socket, or with one
\* nobody serves, the command ends.  Before RunDaemon nothing keeps the bytes.
Push(next) ==
  /\ chunks < MaxChunks
  /\ IF socks = "live"
       THEN /\ since' = Len(log) /\ chunks' = chunks + 1 /\ mine' = chunks'
            /\ queue' = IF daemon = "none" THEN queue ELSE Append(queue, mine')
            /\ pc' = next
       ELSE UNCHANGED <<since, chunks, mine, queue, pc>>
  /\ UNCHANGED <<fileVars, vm, stage, daemon, late, unrecorded, pids, faults>>

Eval == pc = "idle" /\ Push("eval")

\* With com2.sock there, wire sources Setup.ZC through the daemon (which only a
\* wired disk starts).  Its other branch types at the monitor, whose socket is
\* there exactly when com2.sock is: it fails and changes nothing.
Wire == pc = "idle" /\ Push("wire")

EvalDone ==
  /\ pc \in {"eval", "wire"} /\ Logged("DAEMON_DONE", since)
  /\ Return
  /\ UNCHANGED <<fileVars, vmVars, mine, since, late, unrecorded, counters>>

\* Mutant: what timed out is waited for once more, without end.
EvalTimeoutRestarts ==
  /\ pc \in {"eval", "wire"}
  /\ since' = Len(log) /\ late' = TRUE
  /\ UNCHANGED <<fileVars, vmVars, pc, mine, unrecorded, counters>>

EvalTimeout ==
  /\ pc \in {"eval", "wire"}
  /\ Return /\ late' = TRUE
  /\ UNCHANGED <<fileVars, vmVars, mine, since, unrecorded, counters>>

\* make wire-makehome: the same Setup.ZC, typed at the prompt.
WireMakehome ==
  /\ pc = "idle" /\ socks = "live" /\ stage = "prompt"
  /\ wired' = TRUE
  /\ UNCHANGED <<pidFile, socks, log, vmVars, cmdVars, counters>>

\* Ctrl-C: qemu has its own session and lives on.
Interrupt ==
  /\ pc # "idle" /\ faults < MaxFaults
  /\ faults' = faults + 1
  /\ Return
  /\ unrecorded' = (unrecorded \/ (pc = "record" /\ vm = pids))
  /\ late' = (late \/ pc \in {"eval", "wire"})
  /\ UNCHANGED <<fileVars, vmVars, mine, since, pids, chunks>>

-----------------------------------------------------------------------------
VmNext == Launch \/ PickDrive \/ ReachPrompt \/ RunDaemon \/ Take \/ Done

UpNext   == UpFails \/ Spawn \/ Record \/ AutoBoot \/ UpReady \/ UpNotReady
DownNext == Quit \/ Unlink
EvalNext == EvalDone \/ EvalTimeout

Next ==
  \/ VmNext \/ Die \/ Crash
  \/ Up \/ UpNext \/ Down \/ DownNext \/ Eval \/ Wire \/ EvalNext
  \/ WireMakehome \/ Interrupt

Spec == Init /\ [][Next]_vars

\* zctl runs, and its waits have deadlines.
FairSpec == Spec /\ WF_vars(UpNext \/ DownNext \/ EvalNext)

-----------------------------------------------------------------------------
\* The types of the variables.
TypeOK ==
  /\ pidFile \in 0 .. MaxPids /\ vm \in 0 .. MaxPids
  /\ socks \in {"none", "live", "stale"} /\ wired \in BOOLEAN
  /\ log \in Seq([tag : {"DAEMON_LISTEN", "DAEMON_DONE"}, of : 0 .. MaxChunks])
  /\ stage \in {"off", "launch", "menu", "boot", "prompt"}
  /\ daemon \in {"none", "up", "busy", "dead"}
  /\ queue \in Seq(1 .. MaxChunks) /\ (daemon = "busy" => queue # <<>>)
  /\ pc \in {"idle", "spawn", "record", "menu", "listen", "quit", "unlink", "eval", "wire"}
  /\ mine \in 0 .. MaxChunks /\ since \in Nat
  /\ late \in BOOLEAN /\ unrecorded \in BOOLEAN
  /\ pids \in 0 .. MaxPids /\ chunks \in 0 .. MaxChunks /\ faults \in 0 .. MaxFaults

\* `status` says "listening" only of a VM whose daemon did come up, whatever VMs
\* came before it: the marker it greps for is of this boot.
StatusIsTrue ==
  alive(pidFile) /\ Logged("DAEMON_LISTEN", 0) /\ ~unrecorded => daemon # "none"

\* A running VM is in the pid file, so that `down` and `status` find it and `up`
\* does not start another, but for the window between Popen and write_text.
VmIsRecorded == vm # 0 /\ pc # "record" /\ ~unrecorded => pidFile = vm

\* `up` reports a daemon that is there: what it reads is not the log of an
\* earlier VM, even if it looks before qemu has opened the file.
ReadyMeansListening == [][UpReady /\ vm # 0 /\ ~unrecorded => daemon # "none"]_vars

\* The DAEMON_DONE that ends an eval is of the chunk it pushed, as long as every
\* earlier eval of this boot waited for its own.
EvalIsOwn ==
  [][EvalDone /\ ~late => \A i \in since + 1 .. Len(log) :
                            log[i].tag = "DAEMON_DONE" => log[i].of = mine]_vars

\* `down` ends after quit and unlink, or at once where no pid is alive (zctl:228).
DownReturns == Unlink \/ (Down /\ ~alive(pidFile))

\* When `down` says so, no VM runs and no socket is served, but for a VM whose `up`
\* was interrupted before it wrote the pid; and there is no pid file.  The sockets
\* are gone only if it was this `down` that stopped the VM: those of a VM that died
\* stay behind, stale, until the next `up` (zctl:228-231, 247-249, 139).
DownIsDown ==
  [][DownReturns => /\ pidFile' = 0
                    /\ (vm' # 0 \/ socks' = "live" => unrecorded)
                    /\ (Unlink => vm' = 0 /\ socks' = "none")]_vars

\* Every command returns.
CommandReturns == pc # "idle" ~> pc = "idle"

\* What wire prints (zctl:365), "daemon present; sourcing E:/Setup.ZC via daemon",
\* said of the disk wire is for, one booted to its prompt and not wired yet: when wire
\* pushes its #include there, a daemon is there to take it.
WireFindsDaemon ==
  [][Wire /\ ~wired /\ stage = "prompt" /\ pc' = "wire" => daemon # "none"]_vars
=============================================================================
