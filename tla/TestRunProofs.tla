---------------------------- MODULE TestRunProofs ----------------------------
(***************************************************************************)
(* Proofs about TestRun, for any number of runs, tests and keys.           *)
(***************************************************************************)
EXTENDS TestRun, TLAPS

LogType == [begin : BOOLEAN, told : Seq(Outcomes), panic : Panics, end : BOOLEAN]

TypeInv ==
  /\ run \in Nat
  /\ plan \in Seq(Outcomes)
  /\ log \in LogType
-----------------------------------------------------------------------------
(* The log is about the plan of this run, whoever writes the rest of it.    *)

\* Tests are told of in their order, with the outcomes they have.
ToldAsPlanned ==
  /\ Len(log.told) <= Len(plan)
  /\ \A n \in 1 .. Len(log.told) : log.told[n] = plan[n]

\* The end is after all of them.
EndIsLast == log.end => Len(log.told) = Len(plan)

\* No test is told of that stopped the guest, and nothing else panics.
StopsAreNotTold == \A n \in 1 .. Len(log.told) : log.told[n] # "stop"
PanicHasCause   == log.panic # "no" => \E n \in DOMAIN plan : plan[n] = "stop"

LogInv == ToldAsPlanned /\ EndIsLast /\ StopsAreNotTold /\ PanicHasCause

\* Once there is a verdict, nothing changes the plan before the next run.
VerdictInv == TypeInv /\ LogInv /\ VerdictIsTrue
-----------------------------------------------------------------------------
LEMMA PlansAreSequences == Plans \subseteq Seq(Outcomes)
BY BoundsAssumption DEF Plans

\* Steps that leave plan and log alone.
LEMMA LogKept ==
  ASSUME TypeInv, LogInv, UNCHANGED <<plan, log>>, run' \in Nat
  PROVE  TypeInv' /\ LogInv'
BY DEF TypeInv, LogInv, ToldAsPlanned, EndIsLast, StopsAreNotTold, PanicHasCause

LEMMA EmptyLogFits ==
  ASSUME plan \in Seq(Outcomes), log = EmptyLog
  PROVE  log \in LogType /\ LogInv
<1>1. log.told = <<>> /\ Len(log.told) = 0 /\ ~log.end /\ log.panic = "no"
  BY DEF EmptyLog
<1>2. log \in LogType
  BY DEF EmptyLog, LogType, Panics
<1>3. Len(plan) \in Nat
  OBVIOUS
<1> QED
  BY <1>1, <1>2, <1>3 DEF LogInv, ToldAsPlanned, EndIsLast, StopsAreNotTold, PanicHasCause

\* A test that is told of is the next of the plan.
LEMMA TellingFits ==
  ASSUME TypeInv, LogInv, IncludeTest
  PROVE  TypeInv' /\ LogInv'
<1> DEFINE told == log.told
           n    == Len(told) + 1
<1>1. told \in Seq(Outcomes) /\ Len(told) \in Nat /\ Len(plan) \in Nat
  BY DEF TypeInv, LogType
<1>2. n \in 1 .. Len(plan) /\ plan[n] \in Outcomes /\ plan[n] # "stop"
  BY <1>1 DEF TypeInv, IncludeTest, NextOutcome
<1>3. log' = [log EXCEPT !.told = Append(told, plan[n])] /\ plan' = plan /\ run' = run
  BY DEF IncludeTest, Guest, NextOutcome
<1>4. log'.told = Append(told, plan[n]) /\ log'.end = log.end /\ log'.panic = log.panic /\ log' \in LogType
  <2>1. Append(told, plan[n]) \in Seq(Outcomes)
    BY <1>1, <1>2
  <2> QED
    BY <2>1, <1>3 DEF TypeInv, LogType
<1>5. Len(log'.told) = n /\ log'.told[n] = plan[n] /\ \A m \in 1 .. Len(told) : log'.told[m] = told[m]
  BY <1>1, <1>2, <1>4
<1>6. ~log.end
  BY <1>1, <1>2 DEF LogInv, EndIsLast
<1>7. \A m \in 1 .. n : log'.told[m] = plan[m] /\ log'.told[m] # "stop"
  <2> TAKE m \in 1 .. n
  <2>1. CASE m = n
    BY <2>1, <1>2, <1>5
  <2>2. CASE m # n
    <3>1. m \in 1 .. Len(told)
      BY <2>2, <1>1
    <3> QED
      BY <3>1, <1>5 DEF LogInv, ToldAsPlanned, StopsAreNotTold
  <2> QED
    BY <2>1, <2>2
<1>8. TypeInv'
  BY <1>3, <1>4 DEF TypeInv
<1>9. ToldAsPlanned' /\ StopsAreNotTold'
  BY <1>2, <1>3, <1>5, <1>7 DEF ToldAsPlanned, StopsAreNotTold
<1>10. EndIsLast' /\ PanicHasCause'
  BY <1>3, <1>4, <1>6 DEF LogInv, EndIsLast, PanicHasCause
<1> QED
  BY <1>8, <1>9, <1>10 DEF LogInv

LEMMA StoppingFits ==
  ASSUME TypeInv, LogInv, TestStops
  PROVE  TypeInv' /\ LogInv'
<1>1. PICK panic \in Panics : log' = [log EXCEPT !.panic = panic]
  BY DEF TestStops, Guest
<1>2. plan' = plan /\ run' = run
  BY DEF TestStops, Guest
<1>3. log' \in LogType /\ log'.told = log.told /\ log'.end = log.end
  BY <1>1 DEF TypeInv, LogType
<1>4. Len(log.told) \in Nat /\ Len(plan) \in Nat
  BY DEF TypeInv, LogType
<1>5. Len(log.told) + 1 \in DOMAIN plan /\ plan[Len(log.told) + 1] = "stop"
  BY <1>4 DEF TestStops, NextOutcome, TypeInv
<1>6. PanicHasCause'
  BY <1>2, <1>5 DEF PanicHasCause
<1> QED
  BY <1>2, <1>3, <1>6 DEF TypeInv, LogInv, ToldAsPlanned, EndIsLast, StopsAreNotTold

LEMMA EndingFits ==
  ASSUME TypeInv, LogInv, EndRun
  PROVE  TypeInv' /\ LogInv'
<1>1. log' = [log EXCEPT !.end = TRUE] /\ plan' = plan /\ run' = run /\ Len(log.told) = Len(plan)
  BY DEF EndRun, Guest
<1>2. log' \in LogType /\ log'.told = log.told /\ log'.panic = log.panic
  BY <1>1 DEF TypeInv, LogType
<1> QED
  BY <1>1, <1>2 DEF TypeInv, LogInv, ToldAsPlanned, EndIsLast, StopsAreNotTold, PanicHasCause

LEMMA BeginningFits ==
  ASSUME TypeInv, LogInv, BeginRun
  PROVE  TypeInv' /\ LogInv'
<1>1. log' = [log EXCEPT !.begin = TRUE] /\ plan' = plan /\ run' = run
  BY DEF BeginRun, Guest
<1>2. log' \in LogType /\ log'.told = log.told /\ log'.panic = log.panic /\ log'.end = log.end
  BY <1>1 DEF TypeInv, LogType
<1> QED
  BY <1>1, <1>2 DEF TypeInv, LogInv, ToldAsPlanned, EndIsLast, StopsAreNotTold, PanicHasCause
-----------------------------------------------------------------------------
LEMMA NextKeepsLog ==
  ASSUME TypeInv, LogInv, [Next]_vars
  PROVE  TypeInv' /\ LogInv'
<1>1. CASE Start
  <2>1. run' \in Nat /\ plan' \in Seq(Outcomes) /\ log' = EmptyLog
    BY <1>1, PlansAreSequences DEF Start, TypeInv
  <2>2. (log \in LogType)' /\ LogInv'
    <3>1. log'.told = <<>> /\ Len(log'.told) = 0 /\ ~log'.end /\ log'.panic = "no"
      BY <2>1 DEF EmptyLog
    <3>2. log' \in LogType
      BY <2>1 DEF EmptyLog, LogType, Panics
    <3>3. Len(plan') \in Nat
      BY <2>1
    <3> QED
      BY <3>1, <3>2, <3>3 DEF LogInv, ToldAsPlanned, EndIsLast, StopsAreNotTold, PanicHasCause
  <2> QED
    BY <2>1, <2>2 DEF TypeInv
<1>2. CASE Main
  BY <1>2, LogKept DEF Main, SocketSeen, SocketMissing, Reap, Check, TypeInv
<1>3. CASE Interrupt
  BY <1>3, LogKept DEF Interrupt, TypeInv
<1>4. ASSUME NEW r \in Runs, Press(r) \/ SeesBegin(r)
      PROVE  TypeInv' /\ LogInv'
  BY <1>4, LogKept DEF Press, SeesBegin, TypeInv
<1>5. ASSUME NEW r \in Runs, Watcher(r)
      PROVE  TypeInv' /\ LogInv'
  BY <1>5, LogKept DEF Watcher, SeesEnd, SeesPanic, TimesOut, WatcherSees, Quit, Kill, TypeInv
<1>6. CASE Listen \/ Boots \/ BootStops \/ QemuEnds
  BY <1>6, LogKept DEF Listen, Boots, BootStops, QemuEnds, Guest, TypeInv
<1>7. CASE BeginRun
  BY <1>7, BeginningFits
<1>8. CASE IncludeTest
  BY <1>8, TellingFits
<1>9. CASE TestStops
  BY <1>9, StoppingFits
<1>10. CASE EndRun
  BY <1>10, EndingFits
<1>11. CASE UNCHANGED vars
  BY <1>11, LogKept DEF vars, TypeInv
<1> QED
  BY <1>1, <1>2, <1>3, <1>4, <1>5, <1>6, <1>7, <1>8, <1>9, <1>10, <1>11 DEF Next

\* What check-tests.sh makes of a log that fits the plan.
LEMMA VerdictFits ==
  ASSUME TypeInv, LogInv
  PROVE  /\ Verdict = "ok"     => \A n \in DOMAIN plan : plan[n] = "pass"
         /\ Verdict = "failed" => \E n \in DOMAIN plan : plan[n] = "fail"
         /\ Verdict = "panic"  => \E n \in DOMAIN plan : plan[n] = "stop"
<1>1. /\ DOMAIN plan = 1 .. Len(plan) /\ Len(plan) \in Nat
      /\ DOMAIN log.told = 1 .. Len(log.told) /\ Len(log.told) \in Nat
      /\ \A n \in DOMAIN plan : plan[n] \in Outcomes
  BY DEF TypeInv, LogType
<1>2. ASSUME Verdict = "ok"
      PROVE  \A n \in DOMAIN plan : plan[n] = "pass"
  <2>1. ~Told("fail") /\ log.end
    BY <1>2 DEF Verdict
  <2>2. \A n \in DOMAIN plan : n \in DOMAIN log.told /\ log.told[n] = plan[n] /\ plan[n] # "stop"
    BY <1>1, <2>1 DEF LogInv, EndIsLast, ToldAsPlanned, StopsAreNotTold
  <2> QED
    BY <1>1, <2>1, <2>2 DEF Told, Outcomes
<1>3. ASSUME Verdict = "failed"
      PROVE  \E n \in DOMAIN plan : plan[n] = "fail"
  <2>1. PICK n \in DOMAIN log.told : log.told[n] = "fail"
    BY <1>3 DEF Verdict, Told
  <2> QED
    BY <1>1, <2>1 DEF LogInv, ToldAsPlanned
<1>4. ASSUME Verdict = "panic"
      PROVE  \E n \in DOMAIN plan : plan[n] = "stop"
  <2>1. log.panic = "marker"
    BY <1>4 DEF Verdict
  <2> QED
    BY <2>1 DEF LogInv, PanicHasCause
<1> QED
  BY <1>2, <1>3, <1>4

\* For any number of runs, of tests and of keys: whatever watchers and
\* selectors of interrupted runs do, OK means that all tests of this run
\* passed, FAILED that one failed, PANIC that one stopped the guest.
THEOREM VerdictsAreTrue == Spec => []VerdictIsTrue
<1>1. Init => VerdictInv
  <2> SUFFICES ASSUME Init PROVE VerdictInv
    OBVIOUS
  <2>1. plan \in Seq(Outcomes) /\ log = EmptyLog /\ verdict = "none" /\ run \in Nat
    BY DEF Init
  <2> QED
    BY <2>1, EmptyLogFits DEF VerdictInv, TypeInv, VerdictIsTrue
<1>2. VerdictInv /\ [Next]_vars => VerdictInv'
  <2> SUFFICES ASSUME VerdictInv, [Next]_vars PROVE VerdictInv'
    OBVIOUS
  <2>1. TypeInv' /\ LogInv'
    BY NextKeepsLog DEF VerdictInv
  <2>2. CASE Check
    <3>1. verdict' = Verdict /\ plan' = plan
      BY <2>2 DEF Check
    <3>2. VerdictIsTrue'
      BY <3>1, VerdictFits DEF VerdictInv, VerdictIsTrue
    <3> QED
      BY <2>1, <3>2 DEF VerdictInv
  <2>3. CASE Start \/ SocketMissing \/ Interrupt
    BY <2>1, <2>3 DEF Start, SocketMissing, Interrupt, VerdictInv, VerdictIsTrue
  <2>4. CASE UNCHANGED <<verdict, plan>>
    BY <2>1, <2>4 DEF VerdictInv, VerdictIsTrue
  <2>5. Check \/ Start \/ SocketMissing \/ Interrupt \/ UNCHANGED <<verdict, plan>>
    BY DEF Next, Main, SocketSeen, Reap, Press, SeesBegin, Watcher, SeesEnd, SeesPanic, TimesOut,
           WatcherSees, Quit, Kill, Listen, Boots, BeginRun, BootStops, IncludeTest, TestStops, EndRun,
           Guest, QemuEnds, vars
  <2> QED
    BY <2>2, <2>3, <2>4, <2>5
<1>3. VerdictInv => VerdictIsTrue
  BY DEF VerdictInv
<1> QED
  BY <1>1, <1>2, <1>3, PTL DEF Spec
-----------------------------------------------------------------------------
\* A VM that outlives its run is one whose run was interrupted ...
NoVmIsLeft ==
  /\ main = "check" => qemu = "none"
  /\ main = "over" /\ qemu # "none" => verdict = "interrupted"

\* ... before qemu had its handler for SIGINT.
LeftWhileStarting ==
  [][(main \in {"socket", "wait"} /\ main' \in {"check", "over"} /\ qemu' # "none")
       => qemu = "start"]_vars

\* make test leaves no qemu behind when it is over: not after a verdict, not when
\* the monitor never appeared, and after Ctrl-C only if qemu was still starting,
\* with the SIGINT of a background job ignored (run-tests.sh:24, 30 and 76).
THEOREM RunsLeaveNoVm == Spec => []NoVmIsLeft /\ LeftWhileStarting
<1>1. Init => NoVmIsLeft
  BY DEF Init, NoVmIsLeft
<1>2. NoVmIsLeft /\ [Next]_vars => NoVmIsLeft'
  <2> SUFFICES ASSUME NoVmIsLeft, [Next]_vars PROVE NoVmIsLeft'
    OBVIOUS
  <2>1. CASE Start \/ Interrupt
    BY <2>1 DEF Start, Interrupt, NoVmIsLeft
  <2>2. CASE Main
    BY <2>2 DEF Main, SocketSeen, SocketMissing, Reap, Check, NoVmIsLeft
  <2>3. ASSUME NEW r \in Runs, Press(r) \/ SeesBegin(r)
        PROVE  NoVmIsLeft'
    BY <2>3 DEF Press, SeesBegin, NoVmIsLeft
  <2>4. ASSUME NEW r \in Runs, Watcher(r)
        PROVE  NoVmIsLeft'
    BY <2>4 DEF Watcher, SeesEnd, SeesPanic, TimesOut, WatcherSees, Quit, Kill, NoVmIsLeft
  <2>5. CASE Listen \/ Boots \/ BeginRun \/ BootStops \/ IncludeTest \/ TestStops \/ EndRun \/ QemuEnds
    BY <2>5 DEF Listen, Boots, BeginRun, BootStops, IncludeTest, TestStops, EndRun, Guest, QemuEnds,
                NoVmIsLeft
  <2>6. CASE UNCHANGED vars
    BY <2>6 DEF vars, NoVmIsLeft
  <2> QED
    BY <2>1, <2>2, <2>3, <2>4, <2>5, <2>6 DEF Next
<1> DEFINE Left == main \in {"socket", "wait"} /\ main' \in {"check", "over"} /\ qemu' # "none"
                     => qemu = "start"
<1>3. [Next]_vars => [Left]_vars
  <2> SUFFICES ASSUME Next, main \in {"socket", "wait"}, main' \in {"check", "over"},
                      qemu' # "none"
               PROVE  qemu = "start"
    OBVIOUS
  <2>1. Interrupt \/ main' = main \/ Start \/ Main
    BY DEF Next, Press, SeesBegin, Watcher, SeesEnd, SeesPanic, TimesOut, WatcherSees, Quit, Kill,
           Listen, Boots, BeginRun, BootStops, IncludeTest, TestStops, EndRun, Guest, QemuEnds
  <2> QED
    BY <2>1 DEF Interrupt, Start, Main, SocketSeen, SocketMissing, Reap, Check
<1> QED
  BY <1>1, <1>2, <1>3, PTL DEF Spec, LeftWhileStarting
=============================================================================
