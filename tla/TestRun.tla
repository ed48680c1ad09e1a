------------------------------- MODULE TestRun -------------------------------
(***************************************************************************)
(* make test: scripts/run-tests.sh starts qemu on the shuttle image that   *)
(* scripts/build-shuttle.sh made, a selector that picks the disk in the    *)
(* boot menu, and a watcher that quits qemu; scripts/check-tests.sh then   *)
(* computes the verdict from build/serial.log.                             *)
(*                                                                         *)
(* Runs follow one another.  Ctrl-C reaches run-tests.sh, and not the      *)
(* selector and the watcher: bash starts background jobs with SIGINT       *)
(* ignored, so both go on beside the next run.  boot.sh is such a job too, *)
(* and qemu inherits that until it installs its own handler.  A deadline   *)
(* may pass at any time, since a guest may be as slow as it likes.         *)
(***************************************************************************)
EXTENDS Naturals, Sequences

CONSTANTS MaxRuns, MaxTests, MaxPresses   \* bounds: runs, tests of a run, menu keys

ASSUME BoundsAssumption == MaxRuns \in Nat /\ MaxTests \in Nat /\ MaxPresses \in Nat

Runs  == 1 .. MaxRuns

\* What a test file does when the guest includes it. "stop": it does not
\* compile, throws, or never returns, and Boot.ZC gets no further.
Outcomes == {"pass", "fail", "stop"}

\* The files Boot.ZC includes, in order; T= may leave none.
Plans == UNION {[1 .. n -> Outcomes] : n \in 0 .. MaxTests}

VARIABLES
  run,       \* the run at hand
  plan,      \* the outcomes its tests have
  main,      \* run-tests.sh and make: "socket", "wait", "check", "over"
  qemu,      \* "none", "start" (SIGINT still ignored), "menu", "boot", "tests",
             \* "done", "stuck"
  sock,      \* the monitor socket's file exists
  log,       \* serial.log, as what grep finds in it
  presses,   \* keys the selector of each run has left
  watch,     \* the watcher of each run: "off", "poll", "quit", "late", "kill"
  lost,      \* the runs whose watcher sent its quit in vain, and was done
  verdict    \* how the last run ended

vars == <<run, plan, main, qemu, sock, log, presses, watch, lost, verdict>>

Panics   == {"no", "text", "marker"}   \* nothing, Exception or Compiler.ZC, TEST_PANIC:
EmptyLog == [begin |-> FALSE, told |-> <<>>, panic |-> "no", end |-> FALSE]

Init ==
  /\ run = 0 /\ plan = <<>> /\ main = "over" /\ verdict = "none"
  /\ qemu = "none" /\ sock = FALSE /\ log = EmptyLog
  /\ presses = [r \in Runs |-> 0]
  /\ watch = [r \in Runs |-> "off"]
  /\ lost = {}
-----------------------------------------------------------------------------
(* run-tests.sh, and check-tests.sh after it. *)

\* Mutant of Start: the log of the run before stays.
StartKeepsLog ==
  /\ main = "over" /\ run < MaxRuns /\ qemu = "none"
  /\ run' = run + 1
  /\ plan' \in Plans
  /\ main' = "socket" /\ verdict' = "none"
  /\ qemu' = "start" /\ sock' = FALSE
  /\ UNCHANGED <<log, presses, watch, lost>>

\* Both scripts empty the log and remove the socket before qemu is there.  The
\* user closes a VM that Ctrl-C left before the next run: two VMs on one disk and
\* one log are not modelled.
Start ==
  /\ main = "over" /\ run < MaxRuns /\ qemu = "none"
  /\ run' = run + 1
  /\ plan' \in Plans
  /\ main' = "socket" /\ verdict' = "none"
  /\ qemu' = "start" /\ sock' = FALSE /\ log' = EmptyLog
  /\ UNCHANGED <<presses, watch, lost>>

SocketSeen ==
  /\ main = "socket" /\ sock
  /\ main' = "wait"
  /\ presses' = [presses EXCEPT ![run] = MaxPresses]
  /\ watch' = [watch EXCEPT ![run] = "poll"]
  /\ UNCHANGED <<run, plan, qemu, sock, log, lost, verdict>>

SocketMissing ==
  /\ main = "socket" /\ ~sock
  /\ main' = "over" /\ verdict' = "error" /\ qemu' = "none"
  /\ UNCHANGED <<run, plan, sock, log, presses, watch, lost>>

\* wait has returned: the run's own watcher and selector are killed.
Reap ==
  /\ main = "wait" /\ qemu = "none"
  /\ main' = "check"
  /\ presses' = [presses EXCEPT ![run] = 0]
  /\ watch' = [watch EXCEPT ![run] = "off"]
  /\ UNCHANGED <<run, plan, qemu, sock, log, lost, verdict>>

Told(outcome) == \E n \in DOMAIN log.told : log.told[n] = outcome

Verdict ==
  CASE log.panic = "marker"                                 -> "panic"
    [] log.panic # "marker" /\ Told("fail")                 -> "failed"
    [] log.panic # "marker" /\ ~Told("fail") /\ ~log.end    -> "incomplete"
    [] OTHER                                                -> "ok"

Check ==
  /\ main = "check"
  /\ main' = "over" /\ verdict' = Verdict
  /\ UNCHANGED <<run, plan, qemu, sock, log, presses, watch, lost>>

\* Ctrl-C: qemu catches the signal and cleans up, once it has its handler, which
\* may be after its socket is there.  Before that it goes on alone.
Interrupt ==
  /\ main \in {"socket", "wait"}
  /\ main' = "over" /\ verdict' = "interrupted"
  /\ \/ qemu = "start" /\ UNCHANGED <<qemu, sock>>
     \/ /\ qemu = "start" => sock
        /\ qemu' = "none" /\ sock' = (sock /\ qemu = "none")
  /\ UNCHANGED <<run, plan, log, presses, watch, lost>>
-----------------------------------------------------------------------------
(* The selector of run r. *)

\* A key may get lost, and does nothing once the menu is gone.
Press(r) ==
  /\ presses[r] > 0 /\ ~log.begin
  /\ presses' = [presses EXCEPT ![r] = @ - 1]
  /\ qemu' \in IF sock /\ qemu = "menu" THEN {"menu", "boot"} ELSE {qemu}
  /\ UNCHANGED <<run, plan, main, sock, log, watch, lost, verdict>>

SeesBegin(r) ==
  /\ presses[r] > 0 /\ log.begin
  /\ presses' = [presses EXCEPT ![r] = 0]
  /\ UNCHANGED <<run, plan, main, qemu, sock, log, watch, lost, verdict>>
-----------------------------------------------------------------------------
(* The watcher of run r. *)

WatcherSees(r, next) ==
  /\ watch[r] = "poll"
  /\ watch' = [watch EXCEPT ![r] = next]
  /\ UNCHANGED <<run, plan, main, qemu, sock, log, presses, lost, verdict>>

SeesEnd(r)   == log.end /\ WatcherSees(r, "quit")
SeesPanic(r) == ~log.end /\ log.panic # "no" /\ WatcherSees(r, "quit")
TimesOut(r)  == WatcherSees(r, "late")

\* Mutant of Quit: after a timeout, too, the quit is all there is.
QuitOnce(r) ==
  /\ watch[r] \in {"quit", "late"}
  /\ watch' = [watch EXCEPT ![r] = "off"]
  /\ \/ sock /\ qemu # "none" /\ qemu' = "none" /\ sock' = FALSE /\ UNCHANGED lost
     \/ /\ lost' = IF watch[r] = "quit" /\ qemu # "none" THEN lost \cup {r} ELSE lost
        /\ UNCHANGED <<qemu, sock>>
  /\ UNCHANGED <<run, plan, main, log, presses, verdict>>

\* nc's failure is ignored, and the monitor may drop what comes first after a
\* connection.  The socket is that of whatever VM is there.
Quit(r) ==
  /\ watch[r] \in {"quit", "late"}
  /\ watch' = [watch EXCEPT ![r] = IF @ = "quit" THEN "off" ELSE "kill"]
  /\ \/ sock /\ qemu # "none" /\ qemu' = "none" /\ sock' = FALSE /\ UNCHANGED lost
     \/ /\ lost' = IF watch[r] = "quit" /\ qemu # "none" THEN lost \cup {r} ELSE lost
        /\ UNCHANGED <<qemu, sock>>
  /\ UNCHANGED <<run, plan, main, log, presses, verdict>>

\* kill -9 of the run's own qemu, whose socket stays.
Kill(r) ==
  /\ watch[r] = "kill"
  /\ watch' = [watch EXCEPT ![r] = "off"]
  /\ qemu' = IF r = run THEN "none" ELSE qemu
  /\ UNCHANGED <<run, plan, main, sock, log, presses, lost, verdict>>

Watcher(r) == SeesEnd(r) \/ SeesPanic(r) \/ TimesOut(r) \/ Quit(r) \/ Kill(r)
-----------------------------------------------------------------------------
(* qemu and the guest. *)

Guest(from, to, newLog) ==
  /\ qemu = from /\ qemu' = to /\ log' = newLog
  /\ UNCHANGED <<run, plan, main, presses, watch, lost, verdict>>

Listen    == ~sock /\ Guest("start", "start", log) /\ sock' = TRUE
Boots     == sock /\ Guest("start", "menu", log) /\ UNCHANGED sock
BeginRun  == Guest("boot", "tests", [log EXCEPT !.begin = TRUE]) /\ UNCHANGED sock
BootStops == Guest("boot", "stuck", log) /\ UNCHANGED sock

NextOutcome == plan[Len(log.told) + 1]

IncludeTest ==
  /\ Len(log.told) < Len(plan)
  /\ NextOutcome # "stop"
  /\ Guest("tests", "tests", [log EXCEPT !.told = Append(@, NextOutcome)])
  /\ UNCHANGED sock

\* What a test that stops has printed is its own.
TestStops ==
  /\ Len(log.told) < Len(plan)
  /\ NextOutcome = "stop"
  /\ \E panic \in Panics : Guest("tests", "stuck", [log EXCEPT !.panic = panic])
  /\ UNCHANGED sock

EndRun ==
  /\ Len(log.told) = Len(plan)
  /\ Guest("tests", "done", [log EXCEPT !.end = TRUE])
  /\ UNCHANGED sock

\* boot.sh finds no disk, qemu cannot start, or the user closes its window.
QemuEnds ==
  /\ qemu # "none"
  /\ qemu' = "none" /\ sock' = FALSE
  /\ UNCHANGED <<run, plan, main, log, presses, watch, lost, verdict>>

Main == SocketSeen \/ SocketMissing \/ Reap \/ Check

Next ==
  \/ Start \/ Main \/ Interrupt
  \/ \E r \in Runs : Press(r) \/ SeesBegin(r) \/ Watcher(r)
  \/ Listen \/ Boots \/ BeginRun \/ BootStops \/ IncludeTest \/ TestStops \/ EndRun \/ QemuEnds

Spec == Init /\ [][Next]_vars

\* The scripts' own steps: none of them waits for more than a deadline.  Nothing
\* makes the guest, qemu's window or the user do anything.
FairSpec == Spec /\ WF_vars(Main) /\ \A r \in Runs : WF_vars(Watcher(r))
-----------------------------------------------------------------------------
\* What make test says is true of the tests of this run, whatever earlier runs
\* left in the log and whoever ended the VM (check-tests.sh:18-38): OK of all of
\* them, and FAILED or PANIC of one of them at least.
VerdictIsTrue ==
  /\ verdict = "ok"     => \A n \in DOMAIN plan : plan[n] = "pass"
  /\ verdict = "failed" => \E n \in DOMAIN plan : plan[n] = "fail"
  /\ verdict = "panic"  => \E n \in DOMAIN plan : plan[n] = "stop"

\* Every run ends, by itself or by its watchdog (run-tests.sh:7 and 50-72),
\* unless the one quit that its watcher sends on TEST_RUN_END or a panic is lost:
\* the watcher is gone then, and its watchdog with it.
RunEnds ==
  \A r \in Runs : run = r /\ main # "over" ~> main = "over" \/ r \in lost
=============================================================================
