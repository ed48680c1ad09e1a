----------------------------- MODULE ZctlProofs -----------------------------
(***************************************************************************)
(* Proofs about Zctl, for any number of VMs, chunks and faults.            *)
(***************************************************************************)
EXTENDS Zctl, TLAPS

\* TypeOK is not inductive: the bound on the VMs is looked at before the spawn.
TypeInv == TypeOK /\ (pc = "spawn" => pids < MaxPids)

\* What a machine that is off has.
OffIsOff == vm = 0 => stage = "off" /\ daemon = "none" /\ queue = <<>>

\* Where `up` and `down` are decides what the VM can be.
StepsKnowVm ==
  /\ pc = "unlink" => vm = 0
  /\ pc = "spawn" /\ ~unrecorded => vm = 0 /\ log = <<>>
  /\ pc = "record" /\ ~unrecorded => vm \in {0, pids}

\* The marker in the log is of the VM that runs.
MarkerIsOfThisBoot ==
  vm # 0 /\ Logged("DAEMON_LISTEN", 0) /\ ~unrecorded => daemon # "none"

\* Only a VM serves its sockets.
SocketsServed == socks = "live" => vm # 0

BootInv ==
  TypeInv /\ OffIsOff /\ StepsKnowVm /\ MarkerIsOfThisBoot /\ VmIsRecorded /\ SocketsServed

\* As long as no eval gave up, the daemon has at most the chunk at hand, and
\* either that chunk or its DAEMON_DONE is still to come.
OneAtATime ==
  IF pc \notin {"eval", "wire"} THEN ~late => queue = <<>>
  ELSE ~late =>
         /\ queue \in {<<>>, <<mine>>}
         /\ \A i \in since + 1 .. Len(log) : log[i].tag = "DAEMON_DONE" => log[i].of = mine
         /\ Logged("DAEMON_DONE", since) => queue = <<>>

EvalInv == TypeInv /\ OffIsOff /\ OneAtATime
-----------------------------------------------------------------------------
(* Type correctness. *)

Entries == [tag : {"DAEMON_LISTEN", "DAEMON_DONE"}, of : 0 .. MaxChunks]

\* What the daemon prints goes to the end of the log.
LEMMA Marking ==
  ASSUME log \in Seq(Entries), NEW tag \in {"DAEMON_LISTEN", "DAEMON_DONE"},
         NEW of \in 0 .. MaxChunks, Mark(tag, of)
  PROVE  /\ log' \in Seq(Entries) /\ Len(log) \in Nat /\ Len(log') = Len(log) + 1
         /\ log'[Len(log) + 1].tag = tag /\ log'[Len(log) + 1].of = of
         /\ \A i \in 1 .. Len(log) : log'[i] = log[i]
<1>1. [tag |-> tag, of |-> of] \in Entries
  BY DEF Entries
<1> QED
  BY <1>1 DEF Mark

\* Sequences keep the type of their elements.
LEMMA Appending ==
  ASSUME NEW S, NEW s \in Seq(S), NEW e \in S
  PROVE  Append(s, e) \in Seq(S) /\ Append(s, e) # <<>>
<1>1. Append(s, e) \in Seq(S) /\ Len(s) \in Nat /\ Len(Append(s, e)) = Len(s) + 1
  OBVIOUS
<1> QED
  BY <1>1

LEMMA Taking ==
  ASSUME NEW S, NEW s \in Seq(S), s # <<>>
  PROVE  Tail(s) \in Seq(S) /\ Head(s) \in S
OBVIOUS

LEMMA InitType == Init => TypeInv
<1> SUFFICES ASSUME Init PROVE TypeInv
  OBVIOUS
<1>1. log \in Seq(Entries) /\ queue \in Seq(1 .. MaxChunks)
  BY DEF Init
<1>2. wired \in BOOLEAN /\ late \in BOOLEAN /\ unrecorded \in BOOLEAN
  BY Zenon DEF Init
<1>3. 0 \in 0 .. MaxPids /\ 0 \in 0 .. MaxChunks /\ 0 \in 0 .. MaxFaults
  BY BoundsAssumption
<1>4. /\ pidFile \in 0 .. MaxPids /\ vm \in 0 .. MaxPids /\ mine \in 0 .. MaxChunks
      /\ since \in Nat /\ pids \in 0 .. MaxPids /\ chunks \in 0 .. MaxChunks
      /\ faults \in 0 .. MaxFaults
  BY <1>3 DEF Init
<1>5. socks = "none" /\ stage = "off" /\ daemon = "none" /\ pc = "idle"
  BY DEF Init
<1> QED
  BY <1>1, <1>2, <1>4, <1>5 DEF TypeInv, TypeOK, Entries

\* A push puts its chunk behind the others, or fails.
LEMMA Pushing ==
  ASSUME TypeInv, pc = "idle", NEW next \in {"eval", "wire"}, Push(next)
  PROVE  TypeInv'
<1>1. UNCHANGED <<fileVars, vm, stage, daemon, late, unrecorded, pids, faults>>
  BY DEF Push
<1>2. CASE UNCHANGED <<since, chunks, mine, queue, pc>>
  BY <1>1, <1>2 DEF TypeInv, TypeOK, fileVars
<1>3. CASE /\ since' = Len(log) /\ chunks' = chunks + 1 /\ mine' = chunks'
           /\ queue' = IF daemon = "none" THEN queue ELSE Append(queue, mine')
           /\ pc' = next
  <2>1. chunks < MaxChunks
    BY DEF Push
  <2>2. chunks' \in 1 .. MaxChunks /\ mine' \in 1 .. MaxChunks
    BY <1>3, <2>1, BoundsAssumption DEF TypeInv, TypeOK
  <2>3. queue' \in Seq(1 .. MaxChunks) /\ (daemon = "busy" => queue' # <<>>)
    <3>1. queue \in Seq(1 .. MaxChunks) /\ (daemon = "busy" => queue # <<>>)
      BY DEF TypeInv, TypeOK
    <3> QED
      BY <1>3, <2>2, <3>1, Appending
  <2>4. log \in Seq(Entries)
    BY DEF TypeInv, TypeOK, Entries
  <2>5. since' \in Nat
    BY <1>3, <2>4
  <2> QED
    BY <1>1, <1>3, <2>2, <2>3, <2>5 DEF TypeInv, TypeOK, fileVars
<1> QED
  BY <1>2, <1>3 DEF Push

\* Every step keeps the types.
LEMMA TypeStep == TypeInv /\ [Next]_vars => TypeInv'
<1> SUFFICES ASSUME TypeInv, [Next]_vars PROVE TypeInv'
  OBVIOUS
<1> USE DEF TypeInv, fileVars, vmVars, cmdVars, counters, Return
<1>e. <<>> \in Seq(Entries) /\ <<>> \in Seq(1 .. MaxChunks)
  OBVIOUS
<1>1. ASSUME Launch PROVE TypeInv'
  BY <1>1, <1>e DEF Launch, TypeOK, Entries
<1>2. ASSUME PickDrive \/ ReachPrompt PROVE TypeInv'
  BY <1>2 DEF PickDrive, ReachPrompt, TypeOK
<1>3. ASSUME RunDaemon PROVE TypeInv'
  <2>1. log' \in Seq(Entries)
    <3>1. log \in Seq(Entries) /\ 0 \in 0 .. MaxChunks /\ Mark("DAEMON_LISTEN", 0)
      BY <1>3, BoundsAssumption DEF RunDaemon, TypeOK, Entries
    <3> QED
      BY <3>1, Marking
  <2> QED
    BY <1>3, <2>1, <1>e DEF RunDaemon, TypeOK, Entries
<1>4. ASSUME Take \/ Die PROVE TypeInv'
  <2>1. faults' \in 0 .. MaxFaults
    BY <1>4, BoundsAssumption DEF Take, Die, TypeOK
  <2> QED
    BY <1>4, <2>1 DEF Take, Die, TypeOK
<1>5. ASSUME Done PROVE TypeInv'
  <2>1. queue' \in Seq(1 .. MaxChunks) /\ Head(queue) \in 1 .. MaxChunks
    <3>1. queue \in Seq(1 .. MaxChunks) /\ queue # <<>> /\ queue' = Tail(queue)
      BY <1>5 DEF Done, TypeOK
    <3> QED
      BY <3>1, Taking
  <2>2. log' \in Seq(Entries)
    <3>1. log \in Seq(Entries) /\ Mark("DAEMON_DONE", Head(queue))
      BY <1>5 DEF Done, TypeOK, Entries
    <3>2. Head(queue) \in 0 .. MaxChunks
      BY <2>1
    <3> QED
      BY <3>1, <3>2, Marking
  <2> QED
    BY <1>5, <2>1, <2>2 DEF Done, TypeOK, Entries
<1>6. ASSUME Crash PROVE TypeInv'
  <2>1. faults' \in 0 .. MaxFaults /\ vm' \in 0 .. MaxPids
    BY <1>6, BoundsAssumption DEF Crash, NoVm, TypeOK
  <2> QED
    BY <1>6, <2>1, <1>e DEF Crash, NoVm, TypeOK
<1>7. ASSUME Up PROVE TypeInv'
  <2>1. CASE UNCHANGED <<pc, log, socks>>
    BY <1>7, <2>1 DEF Up, TypeOK
  <2>2. CASE log' = <<>> /\ socks' = "none" /\ pc' = "spawn"
    BY <1>7, <2>2, <1>e DEF Up, TypeOK, Entries
  <2> QED
    BY <1>7, <2>1, <2>2 DEF Up
<1>8. ASSUME UpFails \/ AutoBoot \/ UpReady \/ UpNotReady PROVE TypeInv'
  BY <1>8 DEF UpFails, AutoBoot, UpReady, UpNotReady, TypeOK
<1>9. ASSUME Spawn PROVE TypeInv'
  <2>1. pids' \in 0 .. MaxPids /\ pc' = "record"
    BY <1>9, BoundsAssumption DEF Spawn, TypeOK
  <2>2. UNCHANGED <<fileVars, daemon, queue, mine, since, unrecorded, chunks, faults>>
    BY <1>9 DEF Spawn
  <2>3. \/ vm' = pids' /\ stage' = "launch" /\ late' = FALSE
        \/ UNCHANGED <<vm, stage, late>>
    BY <1>9 DEF Spawn
  <2> QED
    BY <2>1, <2>2, <2>3 DEF TypeOK
<1>10. ASSUME Record PROVE TypeInv'
  BY <1>10 DEF Record, TypeOK
<1>11. ASSUME Down PROVE TypeInv'
  BY <1>11, BoundsAssumption DEF Down, TypeOK
<1>12. ASSUME Quit PROVE TypeInv'
  BY <1>12, <1>e, BoundsAssumption DEF Quit, NoVm, TypeOK
<1>13. ASSUME Unlink PROVE TypeInv'
  BY <1>13, BoundsAssumption DEF Unlink, TypeOK
<1>14. ASSUME Eval \/ Wire PROVE TypeInv'
  BY <1>14, Pushing DEF Eval, Wire
<1>15. ASSUME EvalDone \/ EvalTimeout PROVE TypeInv'
  BY <1>15 DEF EvalDone, EvalTimeout, TypeOK
<1>16. ASSUME WireMakehome PROVE TypeInv'
  BY <1>16 DEF WireMakehome, TypeOK
<1>17. ASSUME Interrupt PROVE TypeInv'
  <2>1. faults' \in 0 .. MaxFaults /\ pc' = "idle"
    BY <1>17, BoundsAssumption DEF Interrupt, TypeOK
  <2>2. unrecorded' \in BOOLEAN /\ late' \in BOOLEAN
    BY <1>17, Zenon DEF Interrupt
  <2> QED
    BY <1>17, <2>1, <2>2 DEF Interrupt, TypeOK
<1>18. CASE UNCHANGED vars
  BY <1>18 DEF vars, TypeOK
<1> QED
  BY <1>1, <1>2, <1>3, <1>4, <1>5, <1>6, <1>7, <1>8, <1>9, <1>10, <1>11, <1>12, <1>13, <1>14,
     <1>15, <1>16, <1>17, <1>18 DEF Next, VmNext, UpNext, DownNext, EvalNext

\* Every variable keeps its type (TypeOK), whatever the bounds.
THEOREM TypeCorrect == Spec => []TypeOK
<1>1. TypeInv => TypeOK
  BY DEF TypeInv
<1> QED
  BY InitType, TypeStep, <1>1, PTL DEF Spec

-----------------------------------------------------------------------------
(* The VM, its pid file and the log of its boot. *)

BootRest == OffIsOff /\ StepsKnowVm /\ MarkerIsOfThisBoot /\ VmIsRecorded

LEMMA SocketsStep == OffIsOff /\ SocketsServed /\ TypeInv /\ [Next]_vars => SocketsServed'
<1> SUFFICES ASSUME OffIsOff, SocketsServed, TypeInv, [Next]_vars PROVE SocketsServed'
  OBVIOUS
<1> USE DEF fileVars, vmVars, cmdVars, counters
<1>1. ASSUME Launch PROVE SocketsServed'
  BY <1>1 DEF Launch, OffIsOff, SocketsServed
<1>2. ASSUME Crash \/ Quit PROVE SocketsServed'
  BY <1>2 DEF Crash, Quit, SocketsServed
<1>3. ASSUME Up PROVE SocketsServed'
  BY <1>3 DEF Up, SocketsServed
<1>4. ASSUME Spawn PROVE SocketsServed'
  <2>1. socks' = socks /\ (vm # 0 => vm' = vm) /\ (vm = 0 => vm' = pids + 1)
    BY <1>4 DEF Spawn
  <2>2. pids + 1 # 0
    BY BoundsAssumption DEF TypeInv, TypeOK
  <2> QED
    BY <2>1, <2>2 DEF SocketsServed
<1>5. ASSUME Unlink PROVE SocketsServed'
  BY <1>5 DEF Unlink, SocketsServed
<1>6. ASSUME \/ PickDrive \/ ReachPrompt \/ RunDaemon \/ Take \/ Done \/ Die \/ UpFails \/ Record
             \/ AutoBoot \/ UpReady \/ UpNotReady \/ Down \/ EvalNext \/ Eval \/ Wire
             \/ WireMakehome \/ Interrupt
      PROVE SocketsServed'
  <2>1. UNCHANGED <<socks, vm>>
    BY <1>6 DEF PickDrive, ReachPrompt, RunDaemon, Take, Done, Die, UpFails, Record, AutoBoot,
       UpReady, UpNotReady, Down, EvalNext, EvalDone, EvalTimeout, Eval, Wire, Push,
       WireMakehome, Interrupt
  <2> QED
    BY <2>1 DEF SocketsServed
<1>7. CASE UNCHANGED vars
  BY <1>7 DEF vars, SocketsServed
<1> QED
  BY <1>1, <1>2, <1>3, <1>4, <1>5, <1>6, <1>7 DEF Next, VmNext, UpNext, DownNext

LEMMA InitBoot == Init => BootInv
<1> SUFFICES ASSUME Init PROVE BootRest /\ SocketsServed
  BY InitType DEF BootInv, BootRest
<1> QED
  BY DEF Init, BootRest, OffIsOff, StepsKnowVm, MarkerIsOfThisBoot, VmIsRecorded, SocketsServed

LEMMA BootStep == BootInv /\ [Next]_vars => BootInv'
<1> SUFFICES ASSUME TypeInv, SocketsServed, BootRest, [Next]_vars PROVE BootRest'
  BY TypeStep, SocketsStep DEF BootInv, BootRest
<1> USE DEF fileVars, vmVars, cmdVars, counters, Return
<1>t. pids \in Nat /\ vm \in Nat /\ unrecorded \in BOOLEAN
  BY BoundsAssumption DEF TypeInv, TypeOK
<1>1. ASSUME Launch PROVE BootRest'
  <2>1. log' = <<>> /\ vm # 0 /\ UNCHANGED <<vm, pc, pids, pidFile, unrecorded>>
    BY <1>1 DEF Launch, BootRest, OffIsOff
  <2>2. ~Logged("DAEMON_LISTEN", 0)'
    BY <2>1 DEF Logged
  <2>3. MarkerIsOfThisBoot'
    BY <2>2 DEF MarkerIsOfThisBoot
  <2>4. OffIsOff' /\ StepsKnowVm' /\ VmIsRecorded'
    BY <2>1 DEF BootRest, OffIsOff, StepsKnowVm, VmIsRecorded
  <2> QED
    BY <2>3, <2>4 DEF BootRest
<1>2. ASSUME PickDrive \/ ReachPrompt PROVE BootRest'
  BY <1>2 DEF PickDrive, ReachPrompt, BootRest, OffIsOff, StepsKnowVm, MarkerIsOfThisBoot,
              VmIsRecorded, Logged
<1>3. ASSUME RunDaemon PROVE BootRest'
  <2>1. vm # 0 /\ daemon' = "up" /\ UNCHANGED <<vm, pc, pids, pidFile, unrecorded>>
    BY <1>3 DEF RunDaemon, BootRest, OffIsOff
  <2> QED
    BY <2>1 DEF BootRest, OffIsOff, StepsKnowVm, MarkerIsOfThisBoot, VmIsRecorded
<1>4. ASSUME Take \/ Die \/ Done PROVE BootRest'
  <2>1. /\ vm # 0 /\ daemon' \in {"up", "busy", "dead"}
        /\ UNCHANGED <<vm, pc, pids, pidFile, unrecorded>>
    BY <1>4 DEF Take, Die, Done, BootRest, OffIsOff
  <2> QED
    BY <2>1 DEF BootRest, OffIsOff, StepsKnowVm, MarkerIsOfThisBoot, VmIsRecorded
<1>5. ASSUME Crash \/ Quit PROVE BootRest'
  <2>1. /\ vm' = 0 /\ stage' = "off" /\ daemon' = "none" /\ queue' = <<>>
        /\ UNCHANGED <<log, pids, unrecorded>>
        /\ pc' = pc \/ pc' = "unlink"
    BY <1>5 DEF Crash, Quit, NoVm
  <2> QED
    BY <2>1 DEF BootRest, OffIsOff, StepsKnowVm, MarkerIsOfThisBoot, VmIsRecorded
<1>6. ASSUME Up PROVE BootRest'
  <2>1. UNCHANGED <<pidFile, vm, stage, daemon, queue, pids, unrecorded>> /\ pc = "idle"
    BY <1>6 DEF Up
  <2>2. CASE UNCHANGED <<pc, log, socks>>
    BY <2>1, <2>2 DEF BootRest, OffIsOff, StepsKnowVm, MarkerIsOfThisBoot, VmIsRecorded, Logged
  <2>3. CASE ~alive(pidFile) /\ log' = <<>> /\ pc' = "spawn"
    <3>1. ~unrecorded => vm = 0
      BY <2>1, <2>3 DEF BootRest, VmIsRecorded, alive
    <3>2. ~Logged("DAEMON_LISTEN", 0)'
      BY <2>3 DEF Logged
    <3>3. MarkerIsOfThisBoot'
      BY <3>2 DEF MarkerIsOfThisBoot
    <3>4. OffIsOff' /\ StepsKnowVm' /\ VmIsRecorded'
      BY <2>1, <2>3, <3>1 DEF BootRest, OffIsOff, StepsKnowVm, VmIsRecorded
    <3> QED
      BY <3>3, <3>4 DEF BootRest
  <2> QED
    BY <1>6, <2>2, <2>3 DEF Up
<1>7. ASSUME UpFails \/ AutoBoot \/ UpReady \/ UpNotReady \/ EvalDone \/ EvalTimeout
      PROVE BootRest'
  <2>1. /\ UNCHANGED <<pidFile, log, vm, stage, daemon, queue, pids, unrecorded>>
        /\ pc # "record" /\ pc' \in {"idle", "listen"}
    BY <1>7 DEF UpFails, AutoBoot, UpReady, UpNotReady, EvalDone, EvalTimeout
  <2> QED
    BY <2>1 DEF BootRest, OffIsOff, StepsKnowVm, MarkerIsOfThisBoot, VmIsRecorded, Logged
<1>8. ASSUME Spawn PROVE BootRest'
  <2>1. /\ UNCHANGED <<pidFile, log, daemon, queue, unrecorded>> /\ pc = "spawn"
        /\ pids' = pids + 1 /\ pc' = "record"
        /\ IF vm = 0 THEN vm' = pids' /\ stage' = "launch" ELSE UNCHANGED <<vm, stage>>
    BY <1>8 DEF Spawn
  <2>2. OffIsOff' /\ VmIsRecorded'
    BY <2>1, <1>t DEF BootRest, OffIsOff, VmIsRecorded
  <2>3. StepsKnowVm'
    BY <2>1, <1>t DEF BootRest, StepsKnowVm
  <2>4. MarkerIsOfThisBoot'
    <3>1. CASE vm = 0 /\ ~unrecorded
      <4>1. log' = <<>>
        BY <2>1, <3>1 DEF BootRest, StepsKnowVm
      <4> QED
        BY <4>1 DEF MarkerIsOfThisBoot, Logged
    <3>2. CASE vm # 0
      BY <2>1, <3>2 DEF BootRest, MarkerIsOfThisBoot, Logged
    <3>3. CASE unrecorded
      BY <2>1, <3>3 DEF MarkerIsOfThisBoot
    <3> QED
      BY <3>1, <3>2, <3>3
  <2> QED
    BY <2>2, <2>3, <2>4 DEF BootRest
<1>9. ASSUME Record PROVE BootRest'
  <2>1. /\ UNCHANGED <<log, vm, stage, daemon, queue, pids, unrecorded>> /\ pc = "record"
        /\ pidFile' = pids /\ pc' = "menu"
    BY <1>9 DEF Record
  <2> QED
    BY <2>1 DEF BootRest, OffIsOff, StepsKnowVm, MarkerIsOfThisBoot, VmIsRecorded, Logged
<1>10. ASSUME Down PROVE BootRest'
  <2>1. /\ UNCHANGED <<log, vm, stage, daemon, queue, pids, unrecorded>> /\ pc = "idle"
        /\ IF alive(pidFile) THEN pc' = "quit" /\ UNCHANGED pidFile ELSE UNCHANGED pc
    BY <1>10 DEF Down
  <2>2. ~alive(pidFile) /\ ~unrecorded => vm = 0
    BY <2>1 DEF BootRest, VmIsRecorded, alive
  <2> QED
    BY <2>1, <2>2 DEF BootRest, OffIsOff, StepsKnowVm, MarkerIsOfThisBoot, VmIsRecorded, Logged
<1>11. ASSUME Unlink PROVE BootRest'
  <2>1. /\ UNCHANGED <<log, vm, stage, daemon, queue, pids, unrecorded>> /\ vm = 0
        /\ pc' = "idle"
    BY <1>11 DEF Unlink, BootRest, StepsKnowVm
  <2> QED
    BY <2>1 DEF BootRest, OffIsOff, StepsKnowVm, MarkerIsOfThisBoot, VmIsRecorded, Logged
<1>12. ASSUME Eval \/ Wire PROVE BootRest'
  <2>1. /\ UNCHANGED <<pidFile, log, vm, stage, daemon, pids, unrecorded>>
        /\ daemon = "none" => queue' = queue
        /\ pc = "idle" /\ pc' \in {"idle", "eval", "wire"}
    BY <1>12 DEF Eval, Wire, Push
  <2> QED
    BY <2>1 DEF BootRest, OffIsOff, StepsKnowVm, MarkerIsOfThisBoot, VmIsRecorded, Logged
<1>13. ASSUME WireMakehome PROVE BootRest'
  BY <1>13 DEF WireMakehome, BootRest, OffIsOff, StepsKnowVm, MarkerIsOfThisBoot, VmIsRecorded,
               Logged
<1>14. ASSUME Interrupt PROVE BootRest'
  <2>1. /\ UNCHANGED <<pidFile, log, vm, stage, daemon, queue, pids>> /\ pc' = "idle"
        /\ ~unrecorded' => ~unrecorded /\ ~(pc = "record" /\ vm = pids)
    BY <1>14 DEF Interrupt
  <2> QED
    BY <2>1 DEF BootRest, OffIsOff, StepsKnowVm, MarkerIsOfThisBoot, VmIsRecorded, Logged
<1>15. CASE UNCHANGED vars
  BY <1>15 DEF vars, BootRest, OffIsOff, StepsKnowVm, MarkerIsOfThisBoot, VmIsRecorded, Logged
<1> QED
  BY <1>1, <1>2, <1>3, <1>4, <1>5, <1>6, <1>7, <1>8, <1>9, <1>10, <1>11, <1>12, <1>13, <1>14,
     <1>15 DEF Next, VmNext, UpNext, DownNext, EvalNext

\* A VM that runs is in the pid file (zctl:189-193), but for the window between
\* Popen and write_text: no `up` starts a second one, and `down` finds it.
THEOREM VmRecorded == Spec => []VmIsRecorded
<1>1. BootInv => VmIsRecorded
  BY DEF BootInv
<1> QED
  BY InitBoot, BootStep, <1>1, PTL DEF Spec

\* The marker `status` and `up` grep for is of the VM that runs (zctl:261).
THEOREM StatusTrue == Spec => []StatusIsTrue
<1>1. BootInv => StatusIsTrue
  BY DEF BootInv, MarkerIsOfThisBoot, StatusIsTrue, alive
<1> QED
  BY InitBoot, BootStep, <1>1, PTL DEF Spec

\* An `up` that reports a daemon reports one that is there (zctl:209-213).
THEOREM ReadyListens == Spec => ReadyMeansListening
<1> DEFINE Listens == UpReady /\ vm # 0 /\ ~unrecorded => daemon # "none"
<1>1. BootInv /\ [Next]_vars => [Listens]_vars
  BY DEF BootInv, MarkerIsOfThisBoot, UpReady
<1> QED
  BY InitBoot, BootStep, <1>1, PTL DEF Spec, ReadyMeansListening

\* When `down` is through there is no pid file, and no VM nor a served socket but for
\* a VM whose `up` was interrupted before it wrote the pid; and no socket at all if
\* it stopped the VM (zctl:226-250).  What a VM that died left, the branch at
\* zctl:228-231 leaves too.
THEOREM DownEnds == Spec => DownIsDown
<1> DEFINE Ends == DownReturns => /\ pidFile' = 0
                                  /\ (vm' # 0 \/ socks' = "live" => unrecorded)
                                  /\ (Unlink => vm' = 0 /\ socks' = "none")
<1>1. BootInv /\ [Next]_vars => [Ends]_vars
  <2> SUFFICES ASSUME BootInv, DownReturns PROVE Ends
    OBVIOUS
  <2>1. CASE Unlink
    <3>1. vm = 0 /\ vm' = vm /\ pidFile' = 0 /\ socks' = "none"
      BY <2>1 DEF BootInv, StepsKnowVm, Unlink, vmVars
    <3> QED
      BY <3>1
  <2>2. CASE Down /\ ~alive(pidFile)
    <3>1. /\ pidFile' = 0 /\ pc = "idle" /\ UNCHANGED <<vm, socks>>
      BY <2>2 DEF Down, vmVars
    <3>2. vm # 0 => unrecorded
      BY <2>2, <3>1 DEF BootInv, VmIsRecorded, alive
    <3>3. socks = "live" => vm # 0
      BY DEF BootInv, SocketsServed
    <3>4. ~Unlink
      BY <3>1 DEF Unlink
    <3> QED
      BY <3>1, <3>2, <3>3, <3>4
  <2> QED
    BY <2>1, <2>2 DEF DownReturns
<1> QED
  BY InitBoot, BootStep, <1>1, PTL DEF Spec, DownIsDown

-----------------------------------------------------------------------------
(* The answers to evals. *)

EvalRest == OffIsOff /\ OneAtATime

LEMMA InitEval == Init => EvalInv
<1> SUFFICES ASSUME Init PROVE EvalRest
  BY InitType DEF EvalInv, EvalRest
<1> QED
  BY DEF Init, EvalRest, OffIsOff, OneAtATime

\* Steps that leave the log, the FIFO and the command at hand alone.
LEMMA EvalSame ==
  ASSUME EvalRest, OffIsOff', UNCHANGED <<log, queue, mine, since, late>>,
         pc' = pc \/ {pc, pc'} \cap {"eval", "wire"} = {}
  PROVE  EvalRest'
BY DEF EvalRest, OneAtATime, Logged

LEMMA EvalStep == EvalInv /\ [Next]_vars => EvalInv'
<1> SUFFICES ASSUME TypeInv, EvalRest, [Next]_vars PROVE EvalRest'
  BY TypeStep DEF EvalInv, EvalRest
<1> USE DEF fileVars, vmVars, cmdVars, counters, Return
<1>t. log \in Seq(Entries) /\ Len(log) \in Nat /\ since \in Nat
  <2>1. log \in Seq(Entries) /\ since \in Nat
    BY DEF TypeInv, TypeOK, Entries
  <2> QED
    BY <2>1
<1>1. ASSUME Launch PROVE EvalRest'
  <2>1. /\ log' = <<>> /\ OffIsOff' /\ UNCHANGED <<pc, queue, mine, since, late>>
    BY <1>1 DEF Launch, EvalRest, OffIsOff
  <2>2. Len(log') = 0 /\ since' \in Nat
    BY <2>1, <1>t
  <2> QED
    BY <2>1, <2>2 DEF EvalRest, OneAtATime, Logged
<1>2. ASSUME PickDrive \/ ReachPrompt \/ Take \/ Die PROVE EvalRest'
  <2>1. OffIsOff'
    BY <1>2 DEF PickDrive, ReachPrompt, Take, Die, EvalRest, OffIsOff
  <2> QED
    BY <1>2, <2>1, EvalSame DEF PickDrive, ReachPrompt, Take, Die
<1>3. ASSUME RunDaemon PROVE EvalRest'
  <2>1. /\ Len(log') = Len(log) + 1 /\ log'[Len(log) + 1].tag = "DAEMON_LISTEN"
        /\ \A i \in 1 .. Len(log) : log'[i] = log[i]
    <3>1. Mark("DAEMON_LISTEN", 0) /\ 0 \in 0 .. MaxChunks
      BY <1>3, BoundsAssumption DEF RunDaemon
    <3> QED
      BY <3>1, <1>t, Marking
  <2>2. queue' = <<>> /\ OffIsOff' /\ UNCHANGED <<pc, mine, since, late>>
    BY <1>3 DEF RunDaemon, EvalRest, OffIsOff
  <2> QED
    BY <2>1, <2>2, <1>t DEF EvalRest, OneAtATime
<1>4. ASSUME Done PROVE EvalRest'
  <2>1. /\ OffIsOff' /\ queue # <<>> /\ queue' = Tail(queue)
        /\ Mark("DAEMON_DONE", Head(queue)) /\ UNCHANGED <<pc, mine, since, late>>
    BY <1>4 DEF Done, EvalRest, OffIsOff, TypeInv, TypeOK
  <2>2. Head(queue) \in 0 .. MaxChunks
    <3>1. queue \in Seq(1 .. MaxChunks)
      BY DEF TypeInv, TypeOK
    <3>2. Head(queue) \in 1 .. MaxChunks
      BY <2>1, <3>1, Taking
    <3> QED
      BY <3>2
  <2>3. /\ Len(log') = Len(log) + 1 /\ log'[Len(log) + 1].of = Head(queue)
        /\ \A i \in 1 .. Len(log) : log'[i] = log[i]
    BY <2>1, <2>2, <1>t, Marking
  <2>4. CASE ~late
    <3>1. pc \in {"eval", "wire"} /\ queue = <<mine>>
      BY <2>1, <2>4 DEF EvalRest, OneAtATime
    <3>2. queue' = <<>> /\ Head(queue) = mine
      BY <2>1, <3>1
    <3> QED
      BY <2>1, <2>3, <3>1, <3>2, <1>t DEF EvalRest, OneAtATime
  <2>5. CASE late
    BY <2>1, <2>5 DEF EvalRest, OneAtATime
  <2> QED
    BY <2>4, <2>5
<1>5. ASSUME Crash \/ Quit PROVE EvalRest'
  <2>1. /\ vm' = 0 /\ stage' = "off" /\ daemon' = "none" /\ queue' = <<>>
        /\ UNCHANGED <<log, mine, since, late>>
        /\ pc' = pc \/ {pc, pc'} \cap {"eval", "wire"} = {}
    BY <1>5 DEF Crash, Quit, NoVm
  <2> QED
    BY <2>1 DEF EvalRest, OffIsOff, OneAtATime, Logged
<1>6. ASSUME Up PROVE EvalRest'
  <2>1. /\ OffIsOff' /\ UNCHANGED <<queue, mine, since, late>>
        /\ pc = "idle" /\ pc' \in {"idle", "spawn"}
    BY <1>6 DEF Up, EvalRest, OffIsOff
  <2> QED
    BY <2>1 DEF EvalRest, OneAtATime
<1>7. ASSUME UpFails \/ AutoBoot \/ UpReady \/ UpNotReady \/ Record \/ Down \/ Unlink
      PROVE EvalRest'
  <2>1. /\ UNCHANGED <<log, vm, stage, daemon, queue, mine, since, late>>
        /\ pc \in {"spawn", "menu", "listen", "record", "idle", "unlink"}
        /\ pc' \in {"idle", "listen", "menu", "quit"}
    BY <1>7 DEF UpFails, AutoBoot, UpReady, UpNotReady, Record, Down, Unlink
  <2>2. OffIsOff'
    BY <2>1 DEF EvalRest, OffIsOff
  <2> QED
    BY <2>1, <2>2, EvalSame
<1>8. ASSUME Spawn PROVE EvalRest'
  <2>1. /\ UNCHANGED <<daemon, queue>> /\ pc = "spawn" /\ pc' = "record" /\ pids' = pids + 1
        /\ IF vm = 0 THEN vm' = pids' ELSE UNCHANGED <<vm, stage, late>>
    BY <1>8 DEF Spawn
  <2>2. OffIsOff' /\ (vm = 0 => queue' = <<>>)
    BY <2>1, BoundsAssumption DEF EvalRest, OffIsOff, TypeInv, TypeOK
  <2> QED
    BY <2>1, <2>2 DEF EvalRest, OneAtATime
<1>9. ASSUME Eval \/ Wire PROVE EvalRest'
  <2>1. /\ UNCHANGED <<log, vm, stage, daemon, late>> /\ pc = "idle"
        /\ \/ UNCHANGED <<since, mine, queue, pc>>
           \/ /\ since' = Len(log) /\ pc' \in {"eval", "wire"}
              /\ queue' = IF daemon = "none" THEN queue ELSE Append(queue, mine')
    BY <1>9 DEF Eval, Wire, Push
  <2>2. OffIsOff'
    BY <2>1 DEF EvalRest, OffIsOff
  <2>3. CASE UNCHANGED <<since, mine, queue, pc>>
    BY <2>1, <2>2, <2>3, EvalSame
  <2>4. CASE /\ since' = Len(log) /\ pc' \in {"eval", "wire"}
             /\ queue' = IF daemon = "none" THEN queue ELSE Append(queue, mine')
    <3>1. ~late => queue = <<>>
      BY <2>1 DEF EvalRest, OneAtATime
    <3>2. ~late => queue' \in {<<>>, <<mine'>>}
      BY <2>4, <3>1
    <3>3. ~Logged("DAEMON_DONE", since)'
      BY <2>1, <2>4, <1>t DEF Logged
    <3> QED
      BY <2>1, <2>2, <2>4, <3>2, <3>3, <1>t DEF EvalRest, OneAtATime
  <2> QED
    BY <2>1, <2>3, <2>4
<1>10. ASSUME EvalDone PROVE EvalRest'
  BY <1>10 DEF EvalDone, EvalRest, OffIsOff, OneAtATime, Logged
<1>11. ASSUME EvalTimeout PROVE EvalRest'
  BY <1>11 DEF EvalTimeout, EvalRest, OffIsOff, OneAtATime
<1>12. ASSUME WireMakehome PROVE EvalRest'
  BY <1>12, EvalSame DEF WireMakehome, EvalRest, OffIsOff
<1>13. ASSUME Interrupt PROVE EvalRest'
  <2>1. /\ UNCHANGED <<log, vm, stage, daemon, queue>> /\ pc' = "idle"
        /\ late' = (late \/ pc \in {"eval", "wire"})
    BY <1>13 DEF Interrupt
  <2> QED
    BY <2>1 DEF EvalRest, OffIsOff, OneAtATime
<1>14. CASE UNCHANGED vars
  <2>1. OffIsOff' /\ UNCHANGED <<log, queue, mine, since, late, pc>>
    BY <1>14 DEF vars, EvalRest, OffIsOff
  <2> QED
    BY <2>1, EvalSame
<1> QED
  BY <1>1, <1>2, <1>3, <1>4, <1>5, <1>6, <1>7, <1>8, <1>9, <1>10, <1>11, <1>12, <1>13, <1>14
  DEF Next, VmNext, UpNext, DownNext, EvalNext

\* The DAEMON_DONE that ends an eval is of the chunk it pushed, in any history in
\* which every earlier eval of the boot waited for its own (zctl:266-290).
THEOREM EvalOwn == Spec => EvalIsOwn
<1> DEFINE Own == EvalDone /\ ~late => \A i \in since + 1 .. Len(log) :
                                         log[i].tag = "DAEMON_DONE" => log[i].of = mine
<1>1. EvalInv /\ [Next]_vars => [Own]_vars
  BY DEF EvalInv, OneAtATime, EvalDone
<1> QED
  BY InitEval, EvalStep, <1>1, PTL DEF Spec, EvalIsOwn

=============================================================================
