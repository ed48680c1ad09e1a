------------------------- MODULE TempleBatteryProofs -------------------------
(***************************************************************************)
(* A first run of TempleRun against a freshly booted VM implements Battery:*)
(* the guest compiles the files one at a time and in order, the script     *)
(* accepts a file only once it is compiled and blames only the next one.   *)
(***************************************************************************)
EXTENDS TempleRunProofs, FiniteSetTheorems

\* The walk over the sources gives every file once.
DistinctFiles ==
  \A m \in AllModes : \A i, j \in 1 .. Len(Todo(m)) : Todo(m)[i] = Todo(m)[j] => i = j

(***************************************************************************)
(* Where a first run is, and what the guest has compiled by then.          *)
(***************************************************************************)
\* The files before the next one to push.
Before == {Todo(mode)[i] : i \in 1 .. pos - 1}

\* The next file is in the guest's symbol table.
Got == Todo(mode)[pos] \in loaded

Filing == {"src_wait", "test_wait"}
Bootstrapping == {"type", "d_ok", "push_v2", "v2", "push_exit", "d_exit", "call_d2", "d2_ok"}

Places ==
  /\ runs = 0 => rc = "none" /\ loaded = {} /\ pos = 1
  /\ hpc # "idle" => rc = "running"
  /\ hpc \in Bootstrapping => pos = 1
  /\ hpc \in {"src", "src_wait"} => pos <= Len(Phase1(mode)) + 1
  /\ hpc = "src_wait" => pos <= Len(Phase1(mode))
  /\ hpc \in {"begin", "tests", "test_wait", "final"} =>
       Testing(mode) /\ pos > Len(Phase1(mode)) /\ pos <= Len(Todo(mode)) + 1
  /\ hpc = "test_wait" => pos <= Len(Todo(mode))
  /\ hpc \in {"stop", "cmd", "final"} => pos = Len(Todo(mode)) + 1

\* Verdicts are printed: the loop that serves the files is stage 2's.
Judged ==
  /\ hpc \in {"d_exit", "call_d2", "d2_ok"} /\ Captured("D2_OK") # {} => adam = "D2"
  /\ hpc \in {"src", "src_wait", "begin", "tests", "test_wait", "final"} => adam = "D2"

\* A file that is not finished is the last chunk, and the next file.
Unfinished(i) == i > taken \/ (exec.phase = "run" /\ i = exec.c)

NextFile ==
  \A i \in 1 .. Len(sent) : UserCode(sent[i]) /\ Unfinished(i) =>
    /\ i = Len(sent) /\ runs # 0 /\ hpc \in Filing \cup {"idle"}
    /\ pos <= Len(Todo(mode)) /\ sent[i].file = Todo(mode)[pos]
    /\ sent[i].bad = (sent[i].file \in broken)
    /\ sent[i].kind = "test" => Assert \in loaded
    /\ loaded = Before

\* The guest has every file accepted; while the next one is under way the guest
\* may have it too, and the verdict printed says whether it does.
Compiled ==
  /\ hpc \notin Filing \cup {"idle"} => loaded = Before
  /\ hpc \in Filing =>
       /\ UserCode(sent[Len(sent)])
       /\ Unfinished(Len(sent)) \/ exec.phase = "verdict" => Captured("COMPILE_FAIL") = {}
       /\ ~Unfinished(Len(sent)) =>
            /\ Got => loaded = Before \cup {Todo(mode)[pos]}
            /\ ~Got => Todo(mode)[pos] \in broken
            /\ exec.phase = "verdict" => (exec.ok <=> Got)
            /\ exec.phase # "verdict" => (Captured("COMPILE_FAIL") = {} <=> Got)

BatteryInv == Places /\ Judged /\ NextFile /\ Compiled

-----------------------------------------------------------------------------
\* What the types say of the variables used here.
LEMMA Forms ==
  ASSUME TypeInv
  PROVE  /\ mode \in AllModes /\ pos \in Nat \ {0} /\ runs \in Nat /\ hpc \in HostPcs
         /\ sent \in Seq(Chunk) /\ Len(sent) \in Nat /\ taken \in 0 .. Len(sent)
         /\ exec.c \in 0 .. taken /\ exec.phase \in {"idle", "run", "verdict", "done"}
         /\ exec.ok \in BOOLEAN
         /\ exec \in [c : Nat, phase : {"idle", "run", "verdict", "done"}, ok : BOOLEAN]
         /\ exec.phase # "idle" => exec.c > 0
         /\ log \in Seq([tag : Tags, of : Nat]) /\ since \in 0 .. Len(log)
BY BoundsAssumption DEF TypeInv, TypeOK

\* The two phases of a run.
LEMMA Phases ==
  ASSUME NEW m \in AllModes
  PROVE  /\ Len(Phase1(m)) \in Nat /\ Len(Todo(m)) \in Nat
         /\ Len(Phase1(m)) <= Len(Todo(m))
         /\ ~Testing(m) => Todo(m) = Phase1(m)
         /\ Testing(m) => \E i \in 1 .. Len(Phase1(m)) : Todo(m)[i] = Assert
         /\ m = "keep" \/ m = "launch" => ~Testing(m)
<1>1. /\ Phase1(m) \in Seq(Files) /\ Todo(m) \in Seq(Files)
      /\ Len(Phase1(m)) <= Len(Todo(m))
      /\ \A i \in 1 .. Len(Phase1(m)) : Todo(m)[i] = Phase1(m)[i]
  BY TodoFiles
<1>2. ASSUME Testing(m) PROVE \E i \in 1 .. Len(Phase1(m)) : Todo(m)[i] = Assert
  <2>1. Phase1(m) = Append(SrcFiles, Assert) /\ SrcFiles \in Seq(STRING)
    BY <1>2, FilesAssumption DEF Testing, Phase1
  <2>2. Len(Phase1(m)) = Len(SrcFiles) + 1 /\ Phase1(m)[Len(SrcFiles) + 1] = Assert
        /\ Len(SrcFiles) \in Nat
    BY <2>1
  <2> QED
    BY <1>1, <2>2
<1> QED
  BY <1>1, <1>2 DEF Todo, Testing

\* The guest does nothing before the first run.
LEMMA GuestRuns ==
  ASSUME TypeInv, FirstInv, GuestNext
  PROVE  /\ runs # 0 /\ UNCHANGED <<hpc, mode, since, pos, rc, runs, sent, broken, typed>>
<1>1. UNCHANGED <<hpc, mode, since, pos, rc, runs, sent, broken, typed>>
  BY DEF GuestNext, TakeChunk, RunChunk, PrintVerdict, PrintDone, LeaveLoop, ReplExec,
         ViewerExit, hostVars
<1>2. ASSUME runs = 0 PROVE FALSE
  <2>1. taken = Len(sent) /\ exec = Idle /\ kbd = <<>> /\ adam = "repl"
    BY <1>2 DEF FirstInv, NothingBefore, AllTaken
  <2>2. exec.phase = "idle" /\ taken \in Nat /\ Len(sent) \in Nat
    BY <2>1, Forms DEF Idle
  <2>3. ~TakeChunk /\ ~LeaveLoop /\ ~ReplExec /\ ~ViewerExit
    BY <2>1, <2>2 DEF TakeChunk, LeaveLoop, ReplExec, ViewerExit, Listening
  <2>4. ~RunChunk
    BY <2>2 DEF RunChunk
  <2>5. ~PrintVerdict /\ ~PrintDone
    BY <2>2 DEF PrintVerdict, PrintDone
  <2> QED
    BY <2>3, <2>4, <2>5 DEF GuestNext
<1> QED
  BY <1>1, <1>2

\* A chunk with no torn text before it: it takes effect if it compiles.
LEMMA PlainRun ==
  ASSUME TypeInv, RunChunk, sent[exec.c].behind = <<>>
  PROVE  \E ok \in BOOLEAN :
           /\ ok <=> Compiles(sent[exec.c])
           /\ exec' = [exec EXCEPT !.ok = ok,
                                   !.phase = IF adam = "D2" THEN "verdict" ELSE "done"]
           /\ loaded' = IF ok /\ UserCode(sent[exec.c]) THEN loaded \cup {sent[exec.c].file}
                                                         ELSE loaded
<1> DEFINE c == sent[exec.c]
           s == Texts(c)
<1>1. exec.c \in 1 .. Len(sent) /\ c \in Chunk /\ c.kind \in Kinds
  <2>1. exec.c \in 1 .. Len(sent) /\ sent \in Seq(Chunk)
    BY Forms DEF RunChunk
  <2>2. c \in Chunk
    BY <2>1, SeqElement
  <2> HIDE DEF c
  <2> QED
    BY <2>1, <2>2 DEF Chunk
<1>2. /\ Len(s) = 1 /\ s[1] = [kind |-> c.kind, file |-> c.file, bad |-> c.bad]
  BY DEF Texts
<1>3. /\ Compiles(s[1]) <=> Compiles(c)
      /\ UserCode(s[1]) <=> UserCode(c)
      /\ s[1].file = c.file /\ s[1].kind # "scrap"
  BY <1>1, <1>2 DEF Compiles, UserCode, Kinds
<1>4. PICK n \in 0 .. Len(s), ok \in BOOLEAN :
        /\ Outcome(s, n, ok)
        /\ exec' = [exec EXCEPT !.ok = ok,
                                !.phase = IF adam = "D2" THEN "verdict" ELSE "done"]
        /\ loaded' = loaded \cup {s[i].file : i \in {j \in 1 .. n : UserCode(s[j])}}
  BY DEF RunChunk
<1> HIDE DEF s, c
<1>5. CASE n = 0
  <2>1. ~ok /\ ~Compiles(c)
    BY <1>2, <1>3, <1>4, <1>5 DEF Outcome, Stops
  <2>2. loaded' = loaded
    BY <1>4, <1>5
  <2> QED
    BY <1>4, <2>1, <2>2 DEF c
<1>6. CASE n = 1
  <2>1. ok /\ Compiles(c)
    BY <1>2, <1>3, <1>4, <1>6 DEF Outcome
  <2>2. loaded' = IF UserCode(c) THEN loaded \cup {c.file} ELSE loaded
    BY <1>3, <1>4, <1>6
  <2> QED
    BY <1>4, <2>1, <2>2 DEF c
<1>7. n = 0 \/ n = 1
  BY <1>2, <1>4
<1> QED
  BY <1>5, <1>6, <1>7

\* The script's place in the list of files.
LEMMA PlacesStep == FirstRun /\ TypeInv /\ FirstInv /\ Places /\ [Next]_vars => Places'
<1> SUFFICES ASSUME FirstRun, TypeInv, FirstInv, Places, [Next]_vars PROVE Places'
  OBVIOUS
<1>s. mode \in AllModes /\ pos \in Nat \ {0} /\ runs \in Nat
  BY Forms
<1>m. /\ Len(Phase1(mode)) \in Nat /\ Len(Todo(mode)) \in Nat
      /\ Len(Phase1(mode)) <= Len(Todo(mode))
      /\ mode = "keep" \/ mode = "launch" => Todo(mode) = Phase1(mode)
  BY <1>s, Phases
<1>f. hpc \notin {"detect", "probe"} /\ (runs = 0 => hpc = "idle")
  BY DEF FirstInv, NothingBefore
<1> USE DEF Places, Bootstrapping
<1>1. CASE GuestNext
  BY <1>1, GuestRuns
<1>2. CASE UNCHANGED vars
  BY <1>2 DEF vars, guestVars, hostVars
\* The steps of the script that leave its place as it is.
<1>3. CASE Probe \/ TypeBootstrap \/ PushStage2 \/ StopStage1 \/ CallD2
  BY <1>3, <1>f DEF Probe, TypeBootstrap, PushStage2, StopStage1, CallD2, guestVars
<1>4. CASE WaitDone
  <2>1. /\ hpc \in DOMAIN AfterWait /\ hpc' = AfterWait[hpc] /\ hpc # "probe" /\ hpc # "idle"
        /\ UNCHANGED <<mode, pos, rc, runs, loaded>>
    BY <1>4, <1>f, Tables DEF WaitDone, guestVars
  <2>2. \/ hpc = "d_ok" /\ hpc' = "push_v2"
        \/ hpc = "v2" /\ hpc' = "push_exit"
        \/ hpc = "d_exit" /\ hpc' = "call_d2"
        \/ hpc = "d2_ok" /\ hpc' = "src"
        \/ hpc = "stop" /\ hpc' = "cmd"
    BY <2>1, Tables DEF AfterWait
  <2> QED
    BY <1>s, <1>m, <1>f, <2>1, <2>2
<1>5. CASE PushSrc \/ PushTest
  BY <1>5, <1>s, <1>m, <1>f DEF PushSrc, PushTest, PushFile, guestVars
<1>6. CASE FileDone
  <2>1. /\ hpc \in {"src_wait", "test_wait"} /\ UNCHANGED <<mode, runs, loaded>>
        /\ \/ /\ pos' = pos + 1 /\ rc' = rc
              /\ hpc' = IF hpc = "src_wait" THEN "src" ELSE "tests"
           \/ hpc' = "idle" /\ pos' = pos
    BY <1>6 DEF FileDone, Exit, guestVars
  <2> QED
    BY <1>s, <1>m, <1>f, <2>1
<1>7. CASE KeepDaemon \/ Launch \/ FinalDone
  BY <1>7, <1>f DEF KeepDaemon, Launch, FinalDone, Exit, guestVars
<1>8. CASE StopDaemon
  BY <1>8, <1>s, <1>m, <1>f DEF StopDaemon, guestVars
<1>9. CASE BeginTests \/ BeginDone \/ Finalize
  BY <1>9, <1>s, <1>m, <1>f DEF BeginTests, BeginDone, Finalize, guestVars
<1>10. CASE Timeout
  <2>1. /\ hpc # "idle" /\ UNCHANGED <<mode, pos, runs, loaded>>
        /\ \/ hpc = "begin" /\ hpc' = "tests" /\ rc' = rc
           \/ hpc = "stop" /\ hpc' = "cmd" /\ rc' = rc
           \/ hpc' = "idle"
    BY <1>10, <1>f, Tables DEF Timeout, Exit, guestVars
  <2> QED
    BY <1>f, <2>1
<1>11. ASSUME NEW m \in Modes, Start(m) PROVE Places'
  <2>1. rc' = "running" /\ pos' = 1 /\ runs' # 0 /\ hpc' \in {"detect", "type"}
    BY <1>11, <1>s DEF Start
  <2> QED
    BY <2>1
<1>12. CASE Interrupt
  BY <1>12, <1>f DEF Interrupt, Exit, guestVars
<1> QED
  BY <1>1, <1>2, <1>3, <1>4, <1>5, <1>6, <1>7, <1>8, <1>9, <1>10, <1>11, <1>12
  DEF Next, HostNext, UserNext

\* The loop that serves the files prints verdicts.
LEMMA JudgedStep ==
  TypeInv /\ LogInv /\ HostServed /\ Stage2 /\ FirstInv /\ Judged /\ [Next]_vars => Judged'
<1> SUFFICES ASSUME TypeInv, LogInv, HostServed, Stage2, FirstInv, Judged, [Next]_vars
             PROVE  Judged'
  OBVIOUS
<1>f. hpc \notin {"detect", "probe"}
  BY DEF FirstInv, NothingBefore
<1>1. CASE GuestNext
  <2>1. UNCHANGED <<hpc, since>>
    BY <1>1, GuestRuns
  <2>2. Serving => adam' = adam
    BY <1>1, GuestServes, FirstUntorn
  <2>3. ASSUME hpc \in {"d_exit", "call_d2", "d2_ok"}, Captured("D2_OK")' # {}
        PROVE  adam' = "D2"
    <3>1. CASE Captured("D2_OK") # {}
      <4>1. AllTaken /\ Listening /\ ~dExit /\ adam = "D2"
        BY <2>3, <3>1 DEF Stage2, Judged
      <4>2. Serving
        BY <4>1, Forms DEF Serving, ExitAhead, AllTaken, Idle
      <4> QED
        BY <2>2, <4>1, <4>2
    <3>2. CASE Captured("D2_OK") = {}
      <4>1. exec.c \in Nat /\ taken \in Nat
        BY Forms
      <4>2. ~UNCHANGED log /\ ~\E tag \in Tags \ {"D2_OK"}, of \in Nat : CommPrint(tag, of)
        BY <2>1, <2>3, <3>2, WindowGrows DEF Captured
      <4>r. ~RunChunk
        BY <2>3, <3>2, RunWindow
      <4>3. ~TakeChunk /\ ~PrintVerdict /\ ~PrintDone /\ ~LeaveLoop /\ ~ViewerExit
        BY <4>1, <4>2 DEF TakeChunk, PrintVerdict, PrintDone, LeaveLoop, ViewerExit, Tags
      <4>4. ReplExec
        BY <1>1, <4>r, <4>3 DEF GuestNext
      <4> QED
        BY <4>1, <4>2, <4>4 DEF ReplExec, Tags
    <3> QED
      BY <3>1, <3>2
  <2>4. ASSUME hpc \in {"src", "src_wait", "begin", "tests", "test_wait", "final"}
        PROVE  adam' = "D2"
    BY <2>2, <2>4 DEF HostServed, Serves, Judged
  <2> QED
    BY <2>1, <2>3, <2>4 DEF Judged
<1>2. CASE UNCHANGED vars
  <2>1. UNCHANGED <<adam, hpc, since, log>>
    BY <1>2 DEF vars, guestVars, hostVars
  <2>2. Captured("D2_OK")' = Captured("D2_OK")
    BY <2>1 DEF Captured
  <2> QED
    BY <2>1, <2>2 DEF Judged
<1>3. CASE StopStage1
  <2>1. hpc' = "d_exit" /\ log' = log /\ since' = Len(log)
    BY <1>3 DEF StopStage1, Push
  <2> QED
    BY <2>1, FreshWindow DEF Judged
<1>4. CASE WaitDone
  <2>1. /\ hpc \in DOMAIN AfterWait /\ hpc' = AfterWait[hpc] /\ Captured(Awaits[hpc]) # {}
        /\ UNCHANGED <<adam, log, since>>
    BY <1>4 DEF WaitDone, Arrived, guestVars
  <2>2. Captured("D2_OK")' = Captured("D2_OK")
    BY <2>1 DEF Captured
  <2>3. hpc = "d2_ok" => Captured("D2_OK") # {}
    BY <2>1 DEF Awaits
  <2>4. \/ hpc = "d2_ok" /\ hpc' = "src"
        \/ hpc = "d_exit" /\ hpc' = "call_d2"
        \/ hpc' \in {"push_v2", "push_exit", "cmd"}
    BY <1>f, <2>1, Tables DEF AfterWait
  <2> QED
    BY <2>1, <2>2, <2>3, <2>4 DEF Judged
<1>5. CASE CallD2
  <2>1. hpc = "call_d2" /\ hpc' = "d2_ok" /\ UNCHANGED <<adam, log, since>>
    BY <1>5 DEF CallD2
  <2> QED
    BY <2>1 DEF Judged, Captured
\* What is left stays among the pushes of files, or leaves them.
<1>6. CASE /\ adam' = adam /\ hpc' \notin {"d_exit", "call_d2", "d2_ok"}
           /\ hpc' \in {"src", "src_wait", "begin", "tests", "test_wait", "final"}
                => hpc \in {"src", "src_wait", "begin", "tests", "test_wait", "final"}
  BY <1>6 DEF Judged
<1>7. HostNext \/ Timeout \/ UserNext
        => \/ StopStage1 \/ WaitDone \/ CallD2
           \/ /\ adam' = adam /\ hpc' \notin {"d_exit", "call_d2", "d2_ok"}
              /\ hpc' \in {"src", "src_wait", "begin", "tests", "test_wait", "final"}
                   => hpc \in {"src", "src_wait", "begin", "tests", "test_wait", "final"}
  BY DEF HostNext, UserNext, guestVars, Probe, TypeBootstrap, PushStage2, PushSrc, PushTest,
      PushFile, FileDone, KeepDaemon, StopDaemon, Launch, BeginTests, BeginDone, Finalize,
      FinalDone, Timeout, Start, Interrupt, Exit
<1> QED
  BY <1>1, <1>2, <1>3, <1>4, <1>5, <1>6, <1>7 DEF Next

\* What an iteration ends with: the file it pushed is finished.
LEMMA FileFinished ==
  ASSUME TypeInv, FirstInv, FileDone
  PROVE  AllTaken
<1>1. hpc \in {"src_wait", "test_wait"} /\ Captured("D_DONE") # {}
  BY DEF FileDone, Arrived, Awaits
<1> QED
  BY <1>1 DEF FirstInv, InStep, Waits

\* With everything finished nothing is unfinished.
LEMMA NoneLeft ==
  ASSUME TypeInv, AllTaken
  PROVE  \A i \in 1 .. Len(sent) : ~Unfinished(i)
BY Forms DEF AllTaken, Unfinished, Idle

\* The guest's steps finish chunks and begin none but the next.
LEMMA NextFileGuest ==
  TypeInv /\ LogInv /\ FirstInv /\ NextFile /\ GuestNext => NextFile'
<1> SUFFICES ASSUME TypeInv, LogInv, FirstInv, NextFile, GuestNext PROVE NextFile'
  OBVIOUS
<1>s. /\ taken \in 0 .. Len(sent) /\ Len(sent) \in Nat /\ exec.c \in 0 .. taken
      /\ exec.phase \in {"idle", "run", "verdict", "done"}
  BY Forms
<1>i. exec # Idle => exec.c = taken
  BY DEF LogInv, OneChunk
<1>h. runs # 0 /\ UNCHANGED <<hpc, mode, pos, runs, sent, broken>>
  BY GuestRuns
<1>b. Before' = Before
  BY <1>h DEF Before
\* A step that leaves what is loaded only has to finish chunks.
<1>1. ASSUME loaded' = loaded, \A i \in 1 .. Len(sent) : Unfinished(i)' => Unfinished(i)
      PROVE  NextFile'
  BY <1>h, <1>b, <1>1 DEF NextFile
<1>2. CASE TakeChunk
  <2>1. /\ taken' = taken + 1 /\ exec'.c = taken + 1 /\ exec'.phase = "run"
        /\ loaded' = loaded
    BY <1>2 DEF TakeChunk
  <2>2. \A i \in 1 .. Len(sent) : Unfinished(i)' => Unfinished(i)
    BY <1>s, <2>1 DEF Unfinished
  <2> QED
    BY <1>1, <2>1, <2>2
<1>3. CASE RunChunk
  <2>1. /\ exec.phase = "run" /\ exec'.phase # "run" /\ taken' = taken
        /\ loaded' = loaded \/ UserCode(sent[exec.c])
    <3>1. sent[exec.c].behind = <<>>
      BY <1>3, Forms DEF RunChunk, FirstInv, NothingBefore
    <3>2. loaded' = loaded \/ UserCode(sent[exec.c])
      BY <1>3, <3>1, PlainRun
    <3> QED
      BY <1>3, <3>2, Forms DEF RunChunk
  <2>2. exec.c = taken /\ taken \in 1 .. Len(sent)
    BY <1>s, <1>i, <2>1, Forms DEF Idle
  <2>3. CASE loaded' = loaded
    BY <1>1, <1>s, <2>1, <2>3 DEF Unfinished
  <2>4. CASE UserCode(sent[exec.c])
    <3>1. taken = Len(sent)
      BY <2>1, <2>2, <2>4 DEF NextFile, Unfinished
    <3>2. \A i \in 1 .. Len(sent) : ~Unfinished(i)'
      BY <1>s, <2>1, <3>1 DEF Unfinished
    <3> QED
      BY <1>h, <3>2 DEF NextFile
  <2> QED
    BY <2>1, <2>3, <2>4
<1>4. CASE PrintVerdict
  <2>1. exec'.phase # "run" /\ taken' = taken /\ loaded' = loaded
    BY <1>4, Forms DEF PrintVerdict
  <2> QED
    BY <1>1, <2>1 DEF Unfinished
<1>5. CASE PrintDone
  <2>1. exec'.phase # "run" /\ taken' = taken /\ loaded' = loaded
    BY <1>5 DEF PrintDone, Idle
  <2> QED
    BY <1>1, <2>1 DEF Unfinished
<1>6. CASE LeaveLoop \/ ReplExec \/ ViewerExit
  <2>1. exec' = exec /\ taken' \in {taken, Len(sent)} /\ loaded' = loaded
    BY <1>6 DEF LeaveLoop, ReplExec, ViewerExit
  <2> QED
    BY <1>1, <1>s, <2>1 DEF Unfinished
<1> QED
  BY <1>2, <1>3, <1>4, <1>5, <1>6 DEF GuestNext

\* The script pushes a file only with every earlier chunk finished.
LEMMA NextFileHost ==
  FirstRun /\ TypeInv /\ FirstInv /\ Places /\ NextFile /\ Compiled
    /\ (HostNext \/ Timeout \/ UserNext) => NextFile'
<1> SUFFICES ASSUME FirstRun, TypeInv, FirstInv, Places, NextFile, Compiled,
                    HostNext \/ Timeout \/ UserNext
             PROVE  NextFile'
  OBVIOUS
<1>s. /\ taken \in 0 .. Len(sent) /\ Len(sent) \in Nat /\ sent \in Seq(Chunk)
      /\ mode \in AllModes /\ pos \in Nat \ {0}
  BY Forms
<1>f. hpc \notin {"detect", "probe"} /\ (runs = 0 => hpc = "idle" /\ AllTaken)
  BY DEF FirstInv, NothingBefore
\* A step of the script that pushes nothing moves on from finished files, or
\* gives up.
<1>1. ASSUME UNCHANGED <<exec, taken, sent>>, AllTaken PROVE NextFile'
  BY <1>1, NoneLeft DEF NextFile, Unfinished
<1>2. ASSUME UNCHANGED <<exec, taken, sent, loaded, mode, pos, runs, broken>>,
             hpc' \in {hpc, "idle"} \/ hpc \notin Filing \cup {"idle"}
      PROVE  NextFile'
  BY <1>2 DEF NextFile, Unfinished, Before
\* A push from a prompt.
<1>p. ASSUME NEW kind, NEW file, Push(kind, file), UNCHANGED <<exec, taken>>, hpc \in Prompt
      PROVE  /\ sent' = Append(sent, [kind |-> kind, file |-> file, bad |-> file \in broken,
                                      behind |-> torn])
             /\ Len(sent') = Len(sent) + 1
             /\ \A i \in 1 .. Len(sent') : Unfinished(i)' => i = Len(sent')
  <2>1. taken = Len(sent) /\ exec = Idle
    BY <1>p DEF FirstInv, InStep, AllTaken
  <2> QED
    BY <1>s, <1>p, <2>1 DEF Push, Unfinished, Idle
<1>3. ASSUME NEW kind \in Kinds \ {"src", "test"}, Push(kind, NoFile),
             UNCHANGED <<exec, taken>>, hpc \in Prompt
      PROVE  NextFile'
  <2>1. sent'[Len(sent')].kind = kind
    BY <1>3, PushAhead
  <2> QED
    BY <1>3, <1>p, <2>1 DEF NextFile, UserCode
<1>4. CASE PushStage2 \/ StopStage1 \/ StopDaemon \/ BeginTests \/ Finalize
  BY <1>3, <1>4 DEF PushStage2, StopStage1, StopDaemon, BeginTests, Finalize, guestVars,
                    Prompt, Kinds
<1>5. CASE PushSrc \/ PushTest
  <2>1. PICK kind \in {"src", "test"} :
          /\ Push(kind, Todo(mode)[pos]) /\ hpc' \in Filing /\ hpc \in {"src", "tests"}
          /\ pos <= Len(Todo(mode)) /\ (kind = "test" => hpc = "tests")
          /\ UNCHANGED <<exec, taken, loaded, mode, pos, runs, broken>>
    <3>1. Len(Phase1(mode)) \in Nat /\ Len(Todo(mode)) \in Nat
          /\ Len(Phase1(mode)) <= Len(Todo(mode))
      BY <1>s, Phases
    <3>2. CASE PushSrc
      BY <1>s, <3>1, <3>2 DEF PushSrc, PushFile, guestVars, Filing
    <3>3. CASE PushTest
      BY <3>3 DEF PushTest, PushFile, guestVars, Filing
    <3> QED
      BY <1>5, <3>2, <3>3
  <2>2. hpc \in Prompt /\ runs # 0 /\ loaded = Before
    BY <1>f, <2>1 DEF Prompt, Compiled, Filing
  <2>3. /\ sent' = Append(sent, [kind |-> kind, file |-> Todo(mode)[pos],
                                 bad |-> Todo(mode)[pos] \in broken, behind |-> torn])
        /\ Len(sent') = Len(sent) + 1
        /\ \A i \in 1 .. Len(sent') : Unfinished(i)' => i = Len(sent')
    BY <1>p, <2>1, <2>2
  <2>4. /\ sent'[Len(sent')].file = Todo(mode)[pos] /\ sent'[Len(sent')].kind = kind
        /\ sent'[Len(sent')].bad = (Todo(mode)[pos] \in broken)
    BY <1>s, <2>3
  <2>5. kind = "test" => Assert \in loaded
    <3>1. ASSUME kind = "test" PROVE Assert \in loaded
      <4>1. Testing(mode) /\ pos > Len(Phase1(mode))
        BY <2>1, <3>1 DEF Places
      <4>2. PICK i \in 1 .. Len(Phase1(mode)) : Todo(mode)[i] = Assert
        BY <1>s, <4>1, Phases
      <4>3. i \in 1 .. pos - 1
        BY <1>s, <4>1, <4>2, Phases
      <4> QED
        BY <2>2, <4>2, <4>3 DEF Before
    <3> QED
      BY <3>1
  <2>6. Before' = Before
    BY <2>1 DEF Before
  <2> QED
    BY <2>1, <2>2, <2>3, <2>4, <2>5, <2>6 DEF NextFile
<1>6. ~Probe
  BY <1>f DEF Probe
<1>7. CASE FileDone
  BY <1>1, <1>7, FileFinished DEF FileDone, guestVars
<1>8. CASE TypeBootstrap \/ CallD2 \/ Launch
  BY <1>2, <1>8 DEF TypeBootstrap, CallD2, Launch, Exit, Filing
<1>9. CASE WaitDone
  BY <1>2, <1>9, Tables DEF WaitDone, guestVars, Filing
<1>10. CASE KeepDaemon \/ BeginDone \/ FinalDone
  BY <1>2, <1>10 DEF KeepDaemon, BeginDone, FinalDone, Exit, guestVars, Filing
<1>11. CASE Timeout
  <2>1. /\ UNCHANGED <<exec, taken, sent, loaded, mode, pos, runs, broken>>
        /\ hpc' = "idle" \/ hpc \in {"begin", "stop"}
    BY <1>11, <1>f DEF Timeout, Exit, guestVars
  <2> QED
    BY <1>2, <2>1 DEF Filing
<1>12. ASSUME NEW m \in Modes, Start(m) PROVE NextFile'
  <2>1. runs = 0 /\ UNCHANGED <<exec, taken, sent>>
    BY <1>12 DEF Start, FirstRun, TypeInv, TypeOK, guestVars
  <2> QED
    BY <1>f, <1>1, <2>1
<1>13. ~Interrupt
  BY DEF Interrupt, FirstRun, TypeInv, TypeOK
<1> QED
  BY <1>4, <1>5, <1>6, <1>7, <1>8, <1>9, <1>10, <1>11, <1>12, <1>13 DEF HostNext, UserNext

\* The file under way: what the guest makes of it, and tells of it.
LEMMA CompiledGuest ==
  DistinctFiles /\ TypeInv /\ LogInv /\ HostServed /\ FirstInv /\ Places /\ Judged /\ NextFile
    /\ Compiled /\ GuestNext => Compiled'
<1> SUFFICES ASSUME DistinctFiles, TypeInv, LogInv, HostServed, FirstInv, Places, Judged,
                    NextFile, Compiled, GuestNext
             PROVE  Compiled'
  OBVIOUS
<1>s. /\ taken \in 0 .. Len(sent) /\ Len(sent) \in Nat /\ sent \in Seq(Chunk)
      /\ exec.phase \in {"idle", "run", "verdict", "done"} /\ exec.ok \in BOOLEAN
      /\ mode \in AllModes /\ pos \in Nat \ {0}
      /\ exec \in [c : Nat, phase : {"idle", "run", "verdict", "done"}, ok : BOOLEAN]
  BY Forms
<1>i. /\ exec # Idle => exec.c = taken
      /\ exec.phase # "idle" => exec # Idle /\ exec.c = taken /\ taken \in 1 .. Len(sent)
  BY <1>s, Forms DEF LogInv, OneChunk, Idle
<1>h. runs # 0 /\ UNCHANGED <<hpc, mode, since, pos, runs, sent, broken>>
  BY GuestRuns
<1>b. Before' = Before
  BY <1>h DEF Before
<1> DEFINE n == Len(sent)
           next == Todo(mode)[pos]
           Fails == Captured("COMPILE_FAIL")
\* Elsewhere no file is unfinished, so none is added.
<1>1. ASSUME hpc \notin Filing \cup {"idle"} PROVE loaded' = loaded
  <2>1. ASSUME RunChunk PROVE ~UserCode(sent[exec.c])
    <3>1. exec.phase = "run" /\ exec.c \in 1 .. Len(sent)
      BY <1>i, <2>1 DEF RunChunk
    <3> QED
      BY <1>1, <3>1 DEF NextFile, Unfinished
  <2>2. ASSUME RunChunk PROVE loaded' = loaded
    <3>1. sent[exec.c].behind = <<>>
      BY <1>i, <2>2 DEF RunChunk, FirstInv, NothingBefore
    <3> QED
      BY <2>1, <2>2, <3>1, PlainRun
  <2> QED
    BY <2>2 DEF GuestNext, TakeChunk, PrintVerdict, PrintDone, LeaveLoop, ReplExec, ViewerExit
<1>2. ASSUME hpc \in Filing
      PROVE  /\ UserCode(sent'[Len(sent')])
             /\ Unfinished(n)' \/ exec'.phase = "verdict" => Fails' = {}
             /\ ~Unfinished(n)' =>
                  /\ Got' => loaded' = Before \cup {next}
                  /\ ~Got' => next \in broken
                  /\ exec'.phase = "verdict" => (exec'.ok <=> Got')
                  /\ exec'.phase # "verdict" => (Fails' = {} <=> Got')
  <2>1. /\ UserCode(sent[n])
        /\ Unfinished(n) \/ exec.phase = "verdict" => Fails = {}
        /\ ~Unfinished(n) =>
             /\ Got => loaded = Before \cup {next}
             /\ ~Got => next \in broken
             /\ exec.phase = "verdict" => (exec.ok <=> Got)
             /\ exec.phase # "verdict" => (Fails = {} <=> Got)
    BY <1>2 DEF Compiled
  <2>2. /\ n \in {taken, taken + 1} /\ (exec # Idle => taken = n)
        /\ Listening /\ ~dExit /\ adam = "D2"
    BY <1>2 DEF FirstInv, InStep, HostServed, Serves, Serving, Judged, Filing, Waits
  <2>3. UserCode(sent'[Len(sent')])
    BY <1>h, <2>1 DEF UserCode
  <2>4. CASE TakeChunk
    <3>1. /\ taken' = taken + 1 /\ taken < n /\ exec'.c = taken + 1 /\ exec'.phase = "run"
          /\ log' = log /\ loaded' = loaded
      BY <1>s, <2>4 DEF TakeChunk
    <3>2. n = taken + 1
      BY <1>s, <2>2, <3>1
    <3>3. Unfinished(n) /\ Unfinished(n)'
      BY <1>s, <1>h, <3>1, <3>2 DEF Unfinished
    <3>4. Fails' = Fails
      BY <1>h, <3>1 DEF Captured
    <3> QED
      BY <2>1, <2>3, <3>3, <3>4
  <2>5. CASE RunChunk
    <3>1. /\ exec.phase = "run" /\ exec.c = n /\ taken = n /\ n \in 1 .. Len(sent)
      BY <1>i, <2>2, <2>5 DEF RunChunk
    <3>2. Unfinished(n)
      BY <3>1 DEF Unfinished
    <3>3. /\ pos <= Len(Todo(mode)) /\ sent[n].file = next
          /\ sent[n].bad = (next \in broken)
          /\ sent[n].kind = "test" => Assert \in loaded
          /\ loaded = Before /\ sent[n].behind = <<>>
      BY <2>1, <3>1, <3>2 DEF NextFile, FirstInv, NothingBefore
    <3>4. next \notin Before
      <4>1. Len(Todo(mode)) \in Nat
        BY <1>s, Phases
      <4>2. \A i \in 1 .. pos - 1 : Todo(mode)[i] # next
        BY <1>s, <3>3, <4>1 DEF DistinctFiles
      <4> QED
        BY <4>2 DEF Before
    <3>5. PICK ok \in BOOLEAN :
            /\ ok <=> Compiles(sent[n])
            /\ exec' = [exec EXCEPT !.ok = ok,
                                    !.phase = IF adam = "D2" THEN "verdict" ELSE "done"]
            /\ loaded' = IF ok /\ UserCode(sent[n]) THEN loaded \cup {sent[n].file} ELSE loaded
      BY <2>5, <3>1, <3>3, PlainRun
    <3>6. sent[n].kind \in {"src", "test"}
      BY <2>1 DEF UserCode
    <3>7. taken' = taken
      BY <2>5 DEF RunChunk
    <3>8. ok <=> next \notin broken
      BY <3>3, <3>5, <3>6 DEF Compiles
    <3>9. /\ exec'.phase = "verdict" /\ exec'.ok = ok /\ taken' = taken
          /\ loaded' = IF ok THEN Before \cup {next} ELSE Before
      BY <1>s, <2>1, <2>2, <3>3, <3>5, <3>7
    <3>10. Fails' = {} /\ ~Unfinished(n)'
      <4>1. Fails' # {} => Fails # {}
        BY <2>5, RunWindow
      <4> QED
        BY <1>s, <1>h, <2>1, <3>1, <3>2, <3>9, <4>1 DEF Unfinished
    <3>11. Got' <=> next \in loaded'
      BY <1>h DEF Got
    <3>12. CASE ok
      BY <2>3, <3>8, <3>9, <3>10, <3>11, <3>12
    <3>13. CASE ~ok
      BY <2>3, <3>4, <3>8, <3>9, <3>10, <3>11, <3>13
    <3> QED
      BY <3>12, <3>13
  <2>6. CASE PrintVerdict
    <3>1. /\ exec.phase = "verdict" /\ exec'.phase = "done" /\ taken' = taken
          /\ loaded' = loaded
          /\ CommPrint(IF exec.ok THEN "COMPILE_OK" ELSE "COMPILE_FAIL", exec.c)
      BY <1>s, <2>6 DEF PrintVerdict
    <3>2. taken = n /\ ~Unfinished(n) /\ ~Unfinished(n)' /\ Fails = {}
      BY <1>s, <1>h, <1>i, <2>1, <2>2, <3>1 DEF Unfinished
    <3>3. Got' <=> Got
      BY <1>h, <3>1 DEF Got
    <3>4. ASSUME exec.ok PROVE Fails' = {}
      BY <1>h, <3>1, <3>2, <3>4, WindowGrows
    <3>5. ASSUME ~exec.ok PROVE Fails' # {}
      <4>1. /\ Len(log') = Len(log) + 1 /\ since \in 0 .. Len(log) /\ Len(log) \in Nat
            /\ log'[Len(log) + 1].tag = "COMPILE_FAIL"
        BY <3>1, <3>5, Forms DEF CommPrint
      <4>2. Len(log) + 1 \in Fails'
        BY <1>h, <4>1 DEF Captured
      <4> QED
        BY <4>2
    <3> QED
      BY <2>1, <2>3, <3>1, <3>2, <3>3, <3>4, <3>5
  <2>7. CASE PrintDone
    <3>1. /\ exec.phase = "done" /\ exec' = Idle /\ exec'.phase = "idle" /\ taken' = taken
          /\ loaded' = loaded /\ CommPrint("D_DONE", exec.c)
      BY <2>7 DEF PrintDone, Idle
    <3>2. taken = n /\ ~Unfinished(n) /\ ~Unfinished(n)'
      BY <1>s, <1>h, <1>i, <2>2, <3>1 DEF Unfinished
    <3>3. Got' <=> Got
      BY <1>h, <3>1 DEF Got
    <3>4. Fails' = {} <=> Fails = {}
      <4>1. Fails' # {} => Fails # {}
        BY <1>h, <3>1, WindowGrows
      <4>2. Fails # {} => Fails' # {}
        <5>1. /\ Len(log') = Len(log) + 1 /\ since \in 0 .. Len(log) /\ Len(log) \in Nat
              /\ \A i \in 1 .. Len(log) : log'[i] = log[i]
          BY <3>1, Forms DEF CommPrint
        <5>2. Fails \subseteq Fails'
          BY <1>h, <5>1 DEF Captured
        <5> QED
          BY <5>2
      <4> QED
        BY <4>1, <4>2
    <3> QED
      BY <2>1, <2>3, <3>1, <3>2, <3>3, <3>4
  <2> QED
    BY <2>2, <2>4, <2>5, <2>6, <2>7
    DEF GuestNext, LeaveLoop, ReplExec, ViewerExit, Listening
<1>3. hpc' = hpc /\ n' = n /\ next' = next
  BY <1>h
<1> HIDE DEF n, next, Fails
<1> QED
  BY <1>h, <1>b, <1>1, <1>2, <1>3 DEF Compiled, n, next, Fails

\* The script goes on from a file when the guest has it, and only then.
LEMMA CompiledHost ==
  FirstRun /\ TypeInv /\ FirstInv /\ Places /\ Compiled
    /\ (HostNext \/ Timeout \/ UserNext) => Compiled'
<1> SUFFICES ASSUME FirstRun, TypeInv, FirstInv, Places, Compiled,
                    HostNext \/ Timeout \/ UserNext
             PROVE  Compiled'
  OBVIOUS
<1>s. /\ taken \in 0 .. Len(sent) /\ Len(sent) \in Nat /\ sent \in Seq(Chunk)
      /\ mode \in AllModes /\ pos \in Nat \ {0}
  BY Forms
<1>f. hpc \notin {"detect", "probe"} /\ (runs = 0 => hpc = "idle" /\ AllTaken)
  BY DEF FirstInv, NothingBefore
<1>1. ASSUME UNCHANGED <<loaded, mode, pos>>, hpc' \notin Filing,
             hpc' = "idle" \/ hpc \notin Filing \cup {"idle"}
      PROVE  Compiled'
  BY <1>1 DEF Compiled, Before
<1>2. CASE PushSrc \/ PushTest
  <2>1. PICK kind \in {"src", "test"} :
          /\ Push(kind, Todo(mode)[pos]) /\ hpc' \in Filing /\ hpc \in Prompt
          /\ UNCHANGED <<exec, taken, log>>
    BY <1>2 DEF PushSrc, PushTest, PushFile, guestVars, Filing, Prompt
  <2>2. taken = Len(sent) /\ exec = Idle
    BY <2>1 DEF FirstInv, InStep, AllTaken
  <2>3. Len(sent') = Len(sent) + 1 /\ sent'[Len(sent')].kind = kind
    BY <1>s, <2>1 DEF Push
  <2>4. Unfinished(Len(sent))'
    BY <1>s, <2>1, <2>2, <2>3 DEF Unfinished
  <2>5. Captured("COMPILE_FAIL")' = {}
    BY <2>1, FreshWindow DEF Push
  <2> QED
    BY <2>1, <2>3, <2>4, <2>5 DEF Compiled, UserCode, Filing
<1>3. CASE FileDone
  <2>1. AllTaken
    BY <1>3, FileFinished
  <2>2. ~Unfinished(Len(sent)) /\ exec.phase = "idle"
    BY <1>s, <2>1 DEF AllTaken, Unfinished, Idle
  <2>3. /\ hpc \in Filing /\ UNCHANGED <<loaded, mode>>
        /\ \/ /\ Captured("COMPILE_FAIL") = {} /\ pos' = pos + 1 /\ hpc' \in {"src", "tests"}
           \/ hpc' = "idle"
    BY <1>3 DEF FileDone, Exit, guestVars, Filing
  <2>4. ASSUME Captured("COMPILE_FAIL") = {}, pos' = pos + 1 PROVE loaded = Before'
    <3>1. loaded = Before \cup {Todo(mode)[pos]}
      BY <2>2, <2>3, <2>4 DEF Compiled
    <3>2. Before' = {Todo(mode)[i] : i \in 1 .. pos}
      BY <1>s, <2>3, <2>4 DEF Before
    <3>3. 1 .. pos = (1 .. pos - 1) \cup {pos}
      BY <1>s
    <3> QED
      BY <3>1, <3>2, <3>3 DEF Before
  <2> QED
    BY <2>3, <2>4 DEF Compiled, Filing
<1>4. ~Probe
  BY <1>f DEF Probe
<1>5. CASE PushStage2 \/ StopStage1 \/ StopDaemon \/ BeginTests \/ Finalize
  BY <1>1, <1>5 DEF PushStage2, StopStage1, StopDaemon, BeginTests, Finalize, guestVars, Filing
<1>6. CASE TypeBootstrap \/ CallD2 \/ Launch
  BY <1>1, <1>6 DEF TypeBootstrap, CallD2, Launch, Exit, Filing
<1>7. CASE WaitDone
  BY <1>1, <1>7, Tables DEF WaitDone, guestVars, Filing
<1>8. CASE KeepDaemon \/ BeginDone \/ FinalDone
  BY <1>1, <1>8 DEF KeepDaemon, BeginDone, FinalDone, Exit, guestVars, Filing
<1>9. CASE Timeout
  <2>1. /\ UNCHANGED <<loaded, mode, pos>>
        /\ \/ hpc' = "idle"
           \/ hpc = "begin" /\ hpc' = "tests"
           \/ hpc = "stop" /\ hpc' = "cmd"
    BY <1>9, <1>f DEF Timeout, Exit, guestVars
  <2> QED
    BY <1>1, <2>1 DEF Filing
<1>10. ASSUME NEW m \in Modes, Start(m) PROVE Compiled'
  <2>1. runs = 0
    BY <1>10 DEF Start, FirstRun, TypeInv, TypeOK
  <2>2. /\ hpc' \in {"detect", "type"} /\ loaded' = loaded /\ loaded = {} /\ pos' = 1
    BY <1>10, <2>1 DEF Start, Places, guestVars
  <2>3. Before' = {}
    BY <2>2 DEF Before
  <2> QED
    BY <2>2, <2>3 DEF Compiled, Filing
<1>11. ~Interrupt
  BY DEF Interrupt, FirstRun, TypeInv, TypeOK
<1> QED
  BY <1>2, <1>3, <1>4, <1>5, <1>6, <1>7, <1>8, <1>9, <1>10, <1>11 DEF HostNext, UserNext

\* Every step keeps where a first run is and what the guest has compiled.
LEMMA BatteryStep ==
  FirstRun /\ DistinctFiles /\ TypeInv /\ LogInv /\ ServeInv /\ FirstInv /\ BatteryInv
    /\ [Next]_vars => BatteryInv'
<1> SUFFICES ASSUME FirstRun, DistinctFiles, TypeInv, LogInv, ServeInv, FirstInv, BatteryInv,
                    [Next]_vars
             PROVE  BatteryInv'
  OBVIOUS
<1> USE DEF BatteryInv, ServeInv
<1>1. Places' /\ Judged'
  BY PlacesStep, JudgedStep
<1>2. CASE GuestNext
  BY <1>1, <1>2, NextFileGuest, CompiledGuest
<1>3. CASE HostNext \/ Timeout \/ UserNext
  BY <1>1, <1>3, NextFileHost, CompiledHost
<1>4. CASE UNCHANGED vars
  <2>1. UNCHANGED <<exec, taken, sent, log, since, hpc, mode, pos, runs, loaded, broken>>
    BY <1>4 DEF vars, guestVars, hostVars
  <2>2. UNCHANGED <<Before, Got, Captured("COMPILE_FAIL")>>
    BY <2>1 DEF Before, Got, Captured
  <2>3. NextFile'
    BY <2>1, <2>2 DEF NextFile, Unfinished
  <2>4. Compiled'
    BY <2>1, <2>2 DEF Compiled, Unfinished
  <2> QED
    BY <1>1, <2>3, <2>4
<1> QED
  BY <1>2, <1>3, <1>4 DEF Next

-----------------------------------------------------------------------------
(***************************************************************************)
(* The refinement: each step of a first run is a step of Battery or none.  *)
(***************************************************************************)
\* The first k files of an invocation, and where in it the files L are.
FirstFiles(m, k) == {Todo(m)[i] : i \in 1 .. k}
PlacesOf(m, L)   == {i \in DOMAIN Todo(m) : Todo(m)[i] \in L}

\* What the guest has compiled, counted, is how far it is in the list.
LEMMA ServedCount ==
  ASSUME DistinctFiles, NEW m \in AllModes, NEW k \in 0 .. Len(Todo(m))
  PROVE  Cardinality(PlacesOf(m, FirstFiles(m, k))) = k
<1>1. Todo(m) \in Seq(Files) /\ Len(Todo(m)) \in Nat
  BY TodoFiles
<1>2. PlacesOf(m, FirstFiles(m, k)) = 1 .. k
  <2>1. DOMAIN Todo(m) = 1 .. Len(Todo(m))
    BY <1>1
  <2>2. ASSUME NEW i \in 1 .. Len(Todo(m)) PROVE Todo(m)[i] \in FirstFiles(m, k) <=> i \in 1 .. k
    <3>1. ASSUME NEW j \in 1 .. k, Todo(m)[i] = Todo(m)[j] PROVE i = j
      BY <1>1, <3>1 DEF DistinctFiles
    <3> QED
      BY <3>1 DEF FirstFiles
  <2> QED
    BY <1>1, <2>1, <2>2 DEF PlacesOf
<1>3. Cardinality(1 .. k) = k
  <2>1. k \in Int /\ k >= 0 /\ 1 \in Int
    BY <1>1
  <2>2. Cardinality(1 .. k) = IF 1 > k THEN 0 ELSE k - 1 + 1
    BY <2>1, FS_Interval
  <2> QED
    BY <2>1, <2>2
<1> QED
  BY <1>2, <1>3, Zenon

\* A step that leaves the list, the symbols, the place and the verdict alone.
LEMMA Stutter ==
  UNCHANGED <<runs, mode, broken, loaded, pos, rc>> => UNCHANGED Abstract!vars
BY DEF Abstract!vars, Served

\* The guest compiles a file: it is the next one, and nothing is wrong with it.
LEMMA RunLoads ==
  DistinctFiles /\ TypeInv /\ LogInv /\ FirstInv /\ BatteryInv /\ RunChunk
    => Abstract!Load \/ UNCHANGED Abstract!vars
<1> SUFFICES ASSUME DistinctFiles, TypeInv, LogInv, FirstInv, BatteryInv, RunChunk
             PROVE  Abstract!Load \/ UNCHANGED Abstract!vars
  OBVIOUS
<1>h. runs # 0 /\ UNCHANGED <<mode, pos, rc, runs, sent, broken>>
  BY GuestRuns DEF GuestNext
<1>1. CASE loaded' = loaded
  BY <1>h, <1>1, Stutter
<1>2. CASE loaded' # loaded
  <2>1. exec.phase = "run" /\ exec.c \in 1 .. Len(sent)
    BY Forms DEF RunChunk
  <2>2. runs # 0 /\ sent[exec.c].behind = <<>>
    BY <1>h, <2>1 DEF FirstInv, NothingBefore
  <2>3. /\ Compiles(sent[exec.c]) /\ UserCode(sent[exec.c])
        /\ loaded' = loaded \cup {sent[exec.c].file}
    BY <1>2, <2>2, PlainRun
  <2>4. /\ pos <= Len(Todo(mode)) /\ sent[exec.c].file = Todo(mode)[pos]
        /\ sent[exec.c].bad = (Todo(mode)[pos] \in broken)
        /\ loaded = Before
    BY <2>1, <2>3 DEF BatteryInv, NextFile, Unfinished
  <2>5. Todo(mode)[pos] \notin broken
    BY <2>3, <2>4 DEF Compiles
  <2>6. mode \in AllModes /\ pos \in Nat \ {0} /\ Len(Todo(mode)) \in Nat
    BY Forms, Phases
  <2>7. Cardinality(Served) = pos - 1
    <3>1. pos - 1 \in 0 .. Len(Todo(mode))
      BY <2>4, <2>6
    <3>2. Served = PlacesOf(mode, FirstFiles(mode, pos - 1))
      BY <2>4, Zenon DEF Before, FirstFiles, PlacesOf, Served
    <3> QED
      BY <2>6, <3>1, <3>2, ServedCount
  <2>8. Cardinality(Served') = pos
    <3>1. loaded' = FirstFiles(mode, pos)
      <4>1. 1 .. pos = (1 .. pos - 1) \cup {pos}
        BY <2>6
      <4> QED
        BY <2>3, <2>4, <4>1 DEF Before, FirstFiles
    <3>2. Served' = PlacesOf(mode, FirstFiles(mode, pos))
      BY <1>h, <3>1 DEF Served, PlacesOf
    <3>3. pos \in 0 .. Len(Todo(mode))
      BY <2>4, <2>6
    <3> QED
      BY <2>6, <3>2, <3>3, ServedCount
  <2> QED
    BY <1>h, <2>4, <2>5, <2>6, <2>7, <2>8 DEF Abstract!Load
<1> QED
  BY <1>1, <1>2

\* push_and_wait returns: the file is accepted because the guest has it, or
\* blamed because it does not compile.
LEMMA DoneAccepts ==
  DistinctFiles /\ TypeInv /\ FirstInv /\ BatteryInv /\ FileDone
    => Abstract!Accept \/ Abstract!Reject
<1> SUFFICES ASSUME DistinctFiles, TypeInv, FirstInv, BatteryInv, FileDone
             PROVE  Abstract!Accept \/ Abstract!Reject
  OBVIOUS
<1>1. /\ hpc \in Filing /\ UNCHANGED <<loaded, mode, broken, runs>>
      /\ IF Captured("COMPILE_FAIL") = {} THEN pos' = pos + 1 /\ rc' = rc
                                          ELSE rc' = "compile_fail" /\ pos' = pos
  BY DEF FileDone, Exit, guestVars, Filing
<1>2. mode \in AllModes /\ pos \in Nat \ {0} /\ Len(Todo(mode)) \in Nat
      /\ Len(Phase1(mode)) <= Len(Todo(mode)) /\ Len(Phase1(mode)) \in Nat
  BY Forms, Phases
<1>3. /\ pos <= Len(Todo(mode)) /\ rc = "running" /\ runs # 0
  BY <1>1, <1>2 DEF BatteryInv, Places, Filing, FirstInv, NothingBefore
<1>4. ~Unfinished(Len(sent)) /\ exec.phase = "idle"
  <2>1. AllTaken
    BY FileFinished
  <2> QED
    BY <2>1, Forms DEF AllTaken, Unfinished, Idle
<1>5. /\ Got => loaded = Before \cup {Todo(mode)[pos]}
      /\ ~Got => Todo(mode)[pos] \in broken
      /\ Captured("COMPILE_FAIL") = {} <=> Got
  BY <1>1, <1>4 DEF BatteryInv, Compiled
<1>6. UNCHANGED Served
  BY <1>1 DEF Served
<1>7. CASE Captured("COMPILE_FAIL") = {}
  <2>1. loaded = FirstFiles(mode, pos)
    <3>1. 1 .. pos = (1 .. pos - 1) \cup {pos}
      BY <1>2
    <3> QED
      BY <1>5, <1>7, <3>1 DEF Before, FirstFiles
  <2>2. Cardinality(Served) = pos
    <3>1. pos \in 0 .. Len(Todo(mode))
      BY <1>2, <1>3
    <3>2. Served = PlacesOf(mode, FirstFiles(mode, pos))
      BY <2>1, Zenon DEF PlacesOf, Served
    <3> QED
      BY <1>2, <3>1, <3>2, ServedCount
  <2> QED
    BY <1>1, <1>2, <1>3, <1>6, <1>7, <2>2 DEF Abstract!Accept
<1>8. CASE Captured("COMPILE_FAIL") # {}
  <2>1. pos \in DOMAIN Todo(mode)
    BY <1>2, <1>3, TodoFiles
  <2>2. Todo(mode)[pos] \in broken
    BY <1>5, <1>8
  <2> QED
    BY <1>1, <1>2, <1>3, <1>6, <1>8, <2>1, <2>2 DEF Abstract!Reject
<1> QED
  BY <1>7, <1>8

\* The run succeeds with every file accepted.
LEMMA EndSucceeds ==
  TypeInv /\ FirstInv /\ BatteryInv /\ (KeepDaemon \/ Launch \/ FinalDone) => Abstract!Succeed
<1> SUFFICES ASSUME TypeInv, FirstInv, BatteryInv, KeepDaemon \/ Launch \/ FinalDone
             PROVE  Abstract!Succeed
  OBVIOUS
<1>1. UNCHANGED <<loaded, mode, broken, runs, pos>> /\ rc' = "ok" /\ hpc # "idle"
  BY DEF KeepDaemon, Launch, FinalDone, Exit, guestVars
<1>2. mode \in AllModes /\ pos \in Nat \ {0} /\ Len(Todo(mode)) \in Nat
      /\ (mode = "keep" => Todo(mode) = Phase1(mode))
  BY Forms, Phases
<1>3. rc = "running" /\ runs # 0
  BY <1>1 DEF BatteryInv, Places, FirstInv, NothingBefore
<1>4. pos - 1 = Len(Todo(mode))
  <2>1. CASE KeepDaemon
    BY <1>2, <2>1 DEF KeepDaemon, BatteryInv, Places
  <2>2. CASE Launch \/ FinalDone
    <3>1. hpc \in {"cmd", "final"}
      BY <2>2 DEF Launch, FinalDone
    <3> QED
      BY <1>2, <3>1 DEF BatteryInv, Places
  <2> QED
    BY <2>1, <2>2
<1>5. UNCHANGED Served
  BY <1>1 DEF Served
<1> QED
  BY <1>1, <1>3, <1>4, <1>5 DEF Abstract!Succeed

\* A run that times out has given up, and one whose marker timed out goes on.
LEMMA TimeoutGivesUp ==
  TypeInv /\ FirstInv /\ BatteryInv /\ Timeout => Abstract!GiveUp \/ UNCHANGED Abstract!vars
<1> SUFFICES ASSUME TypeInv, FirstInv, BatteryInv, Timeout
             PROVE  Abstract!GiveUp \/ UNCHANGED Abstract!vars
  OBVIOUS
<1>1. /\ UNCHANGED <<loaded, mode, broken, runs, pos>> /\ rc' \in {rc, "timeout"}
      /\ hpc # "idle"
  BY Tables DEF Timeout, Exit, guestVars
<1>2. rc = "running" /\ runs # 0
  BY <1>1 DEF BatteryInv, Places, FirstInv, NothingBefore
<1>3. UNCHANGED Served
  BY <1>1 DEF Served
<1> QED
  BY <1>1, <1>2, <1>3, Stutter DEF Abstract!GiveUp

\* The user starts a run: a list is chosen, with some of its files broken.
LEMMA StartBegins ==
  ASSUME FirstRun, TypeInv, BatteryInv, NEW m \in Modes, Start(m)
  PROVE  Abstract!Begin
<1>1. /\ runs = 0 /\ runs' = 1 /\ mode' = m /\ pos' = 1 /\ rc' = "running" /\ loaded' = loaded
  BY DEF Start, FirstRun, TypeInv, TypeOK, guestVars
<1>2. rc = "none" /\ loaded = {} /\ pos = 1
  BY <1>1 DEF BatteryInv, Places
<1>3. Cardinality(Served') = 0
  <2>1. Served' = {}
    BY <1>1, <1>2 DEF Served
  <2> QED
    BY <2>1, FS_EmptySet
<1>4. broken' \cap {Todo(m)[i] : i \in DOMAIN Todo(m)}
        \in SUBSET {Todo(m)[i] : i \in DOMAIN Todo(m)}
  OBVIOUS
<1> QED
  BY <1>1, <1>2, <1>3, <1>4 DEF Abstract!Begin

\* Every other step of guest and script is none of Battery's.
LEMMA OthersStutter ==
  TypeInv /\ FirstInv
    /\ (\/ TakeChunk \/ PrintVerdict \/ PrintDone \/ LeaveLoop \/ ReplExec \/ ViewerExit
        \/ Probe \/ TypeBootstrap \/ PushStage2 \/ StopStage1 \/ CallD2 \/ WaitDone \/ PushSrc
        \/ PushTest \/ StopDaemon \/ BeginTests \/ BeginDone \/ Finalize \/ UNCHANGED vars)
    => UNCHANGED Abstract!vars
BY Stutter
DEF TakeChunk, PrintVerdict, PrintDone, LeaveLoop, ReplExec, ViewerExit, Probe, TypeBootstrap,
    PushStage2, StopStage1, CallD2, WaitDone, PushSrc, PushTest, PushFile, StopDaemon,
    BeginTests, BeginDone, Finalize, vars, guestVars, hostVars

\* A first run implements the abstract battery: the script accepts, blames and
\* succeeds only as Battery allows, for every list of files, every choice of
\* broken ones and wherever the guest spins.
THEOREM FirstRunImplements == FirstRun /\ DistinctFiles => (Spec => ImplementsBattery)
<1> SUFFICES ASSUME FirstRun, DistinctFiles PROVE Spec => ImplementsBattery
  OBVIOUS
<1>1. Init => LogInv /\ CleanInv /\ ProbeInv /\ ServeInv /\ FirstInv
  BY DEF Init, LogInv, LogOrder, OneChunk, Idle, CleanInv, AllTyped, OwnLines, ProbeInv,
         Untouched, EchoFromLoop, ServeInv, StartsServing, HostServed, Serves, Stage2,
         FirstInv, NothingBefore, InStep, AllTaken, Waits, Prompt
<1>2. Init => BatteryInv
  BY DEF Init, BatteryInv, Places, Bootstrapping, Judged, NextFile, Compiled, Filing
<1>3. TypeInv /\ LogInv /\ ProbeInv /\ CleanInv /\ ServeInv /\ FirstInv /\ [Next]_vars
        => ServeInv'
  BY StartsStep, ServedStep, Stage2Step, FirstUntorn DEF ServeInv
<1>4. TypeInv /\ LogInv /\ ServeInv /\ FirstInv /\ [Next]_vars => FirstInv'
  BY FirstStep
<1>5. TypeInv /\ LogInv /\ ServeInv /\ FirstInv /\ BatteryInv /\ [Next]_vars => BatteryInv'
  BY BatteryStep
<1>6. Init => Abstract!Init
  BY DEF Init, Abstract!Init
<1>7. TypeInv /\ LogInv /\ FirstInv /\ BatteryInv /\ [Next]_vars => [Abstract!Next]_(Abstract!vars)
  <2> SUFFICES ASSUME TypeInv, LogInv, FirstInv, BatteryInv, [Next]_vars
               PROVE  Abstract!Next \/ UNCHANGED Abstract!vars
    OBVIOUS
  <2>1. ~Interrupt
    BY DEF Interrupt, FirstRun, TypeInv, TypeOK
  <2> QED
    BY <2>1, RunLoads, DoneAccepts, EndSucceeds, TimeoutGivesUp, StartBegins, OthersStutter
    DEF Next, GuestNext, HostNext, UserNext, Abstract!Next
<1> QED
  BY <1>1, <1>2, <1>3, <1>4, <1>5, <1>6, <1>7, InitType, TypeStep, LogStep, ProbeStep,
     CleanStep, PTL DEF Spec, ImplementsBattery, Abstract!Spec
=============================================================================
