---------------------------- MODULE DevLoopProofs ----------------------------
(***************************************************************************)
(* Proofs about DevLoop, for every set of sources and tests and any number *)
(* of saves, warmups, resets and failures.                                 *)
(***************************************************************************)
EXTENDS DevLoop, TLAPS

\* TypeOK is not inductive: a version is bounded by the saves there were.
TypeInv == TypeOK /\ \A f \in Files : disk[f] <= saves + 1
-----------------------------------------------------------------------------
(* The snapshot.  vm-warmup has the VM to itself: what it has pushed is     *)
(* loaded, and no older than in the snapshot it will replace, as long as    *)
(* each of its waits is answered by its own chunk.                          *)

\* Nothing loaded in v, or on its way, is newer than in d.
UpTo(v, d) ==
  /\ \A f \in SrcFiles : v.loaded[f] <= d[f]
  /\ \A i \in 1 .. Len(v.queue), f \in SrcFiles : v.queue[i].file = f => v.queue[i].ver <= d[f]

NothingNewer == UpTo(vm, disk) /\ (snap # Nothing => UpTo(snap, disk))

\* Only a daemon that is up has chunks to finish.
DaemonUp == (vm.queue # <<>> => vm.daemon) /\ (snap # Nothing => snap.daemon)

\* While vm-warmup pushes, no test run does, and the guest is one chunk behind
\* at most.
Alone ==
  upc = "push" =>
    /\ wpc \in {"read", "sleep"} /\ vm.daemon /\ Len(vm.queue) <= 1
    /\ ~early => vm.queue = <<>>

PushedIsLoaded ==
  upc = "push" /\ ~early =>
    \A f \in SrcFiles \ utodo :
       /\ vm.loaded[f] > 0
       /\ snap # Nothing => snap.loaded[f] <= vm.loaded[f]

SnapRest == NothingNewer /\ DaemonUp /\ Alone /\ PushedIsLoaded
SnapInv  == TypeInv /\ SnapRest

-----------------------------------------------------------------------------
(* The verdict.  A version that a run saw and that is not on disk any more  *)
(* has an event in the pipe, behind the ones the loop has read.             *)

Pending(f) == \E n \in 1 .. Len(pipe) : pipe[n] = f
AtRest     == wpc \in {"read", "sleep"}
Running    == wpc \in {"src", "tests"}

SeenOrPending == \A f \in DOMAIN seen \cap Checked : seen[f] = disk[f] \/ Pending(f)

VerdictIsLast == AtRest /\ verdict # Nothing => verdict.seen = seen

SaveStartsRun == saves > 0 /\ verdict = Nothing /\ AtRest => \E f \in Files : Pending(f)

\* A run reads all it has to.
RunCovers ==
  /\ wpc = "src" /\ ~warm => SrcFiles \subseteq todo \cup DOMAIN seen
  /\ wpc = "tests" => Checked \subseteq todo \cup DOMAIN seen
  /\ wpc = "revert" => warm

\* What may still fail in a cold run is a file it read.
BadIsSeen ==
  Running /\ ~warm =>
    /\ vm.daemon
    /\ \A i \in 1 .. Len(vm.queue) :
         vm.queue[i].bad => \E f \in DOMAIN seen : f = vm.queue[i].file /\ (f \in broken \/ Pending(f))

\* A run that did not begin early has seen each file compile.
SeenCompiles ==
  Running /\ ~early =>
    vm.queue = <<>> /\ \A f \in DOMAIN seen \cap Checked : f \notin broken \/ Pending(f)

PassCovers ==
  AtRest /\ verdict # Nothing =>
    /\ verdict.ok => Checked \subseteq DOMAIN verdict.seen
    /\ verdict.ok /\ ~verdict.early => \A f \in Checked : f \notin broken \/ Pending(f)

FailHasCause ==
  AtRest /\ verdict # Nothing =>
    (~verdict.ok /\ ~warm /\ fails = 0
       => \E f \in DOMAIN verdict.seen : f \in broken \/ Pending(f))

QuietRest ==
  /\ SeenOrPending /\ VerdictIsLast /\ SaveStartsRun
  /\ RunCovers /\ BadIsSeen /\ SeenCompiles /\ PassCovers /\ FailHasCause
QuietInv == SnapInv /\ QuietRest
-----------------------------------------------------------------------------
(* The VM. *)

\* The chunks a script pushes.
LEMMA Chunks ==
  ASSUME TypeOK
  PROVE  /\ Marker \in Chunk
         /\ \A f \in Files : FileChunk(f) \in Chunk
BY BoundsAssumption DEF Marker, FileChunk, Chunk, TypeOK

\* What a push does to the VM.
LEMMA Pushing ==
  ASSUME NEW v \in VmType, NEW c \in Chunk
  PROVE  /\ Pushed(v, c) \in VmType
         /\ Pushed(v, c).daemon = v.daemon /\ Pushed(v, c).loaded = v.loaded
         /\ Pushed(v, c).queue = Append(v.queue, c)
         /\ Pushed(v, c).queue # <<>> /\ Len(Pushed(v, c).queue) = Len(v.queue) + 1
         /\ \A i \in 1 .. Len(Pushed(v, c).queue) :
              \/ Pushed(v, c).queue[i] = c
              \/ i \in 1 .. Len(v.queue) /\ Pushed(v, c).queue[i] = v.queue[i]
<1>1. v.queue \in Seq(Chunk)
  BY DEF VmType
<1>2. Append(v.queue, c) \in Seq(Chunk) /\ Append(v.queue, c) # <<>>
  BY <1>1
<1>3. Len(Append(v.queue, c)) = Len(v.queue) + 1 /\ Len(v.queue) \in Nat
  BY <1>1
<1>4. \A i \in 1 .. Len(Append(v.queue, c)) :
        \/ Append(v.queue, c)[i] = c
        \/ i \in 1 .. Len(v.queue) /\ Append(v.queue, c)[i] = v.queue[i]
  BY <1>1
<1>5. /\ Pushed(v, c) \in VmType /\ Pushed(v, c).queue = Append(v.queue, c)
      /\ Pushed(v, c).daemon = v.daemon /\ Pushed(v, c).loaded = v.loaded
  BY <1>2 DEF Pushed, VmType
<1> QED
  BY <1>2, <1>3, <1>4, <1>5

\* What finishing the oldest chunk does to it.
LEMMA Finishing ==
  ASSUME NEW v \in VmType, v.queue # <<>>
  PROVE  /\ Finished(v) \in VmType
         /\ Finished(v).daemon = v.daemon
         /\ Head(v.queue) \in Chunk /\ Head(v.queue) = v.queue[1] /\ 1 \in 1 .. Len(v.queue)
         /\ Finished(v).queue = Tail(v.queue)
         /\ Len(Finished(v).queue) = Len(v.queue) - 1
         /\ \A i \in 1 .. Len(Finished(v).queue) :
              i + 1 \in 1 .. Len(v.queue) /\ Finished(v).queue[i] = v.queue[i + 1]
         /\ \A f \in SrcFiles :
              Finished(v).loaded[f] = IF Head(v.queue).file = f /\ ~Head(v.queue).bad
                                        THEN Head(v.queue).ver ELSE v.loaded[f]
<1>1. v.queue \in Seq(Chunk)
  BY DEF VmType
<1>2. Head(v.queue) \in Chunk /\ Head(v.queue) = v.queue[1] /\ 1 \in 1 .. Len(v.queue)
  BY <1>1
<1>3. Tail(v.queue) \in Seq(Chunk) /\ Len(Tail(v.queue)) = Len(v.queue) - 1
  BY <1>1
<1>4. \A i \in 1 .. Len(Tail(v.queue)) :
        i + 1 \in 1 .. Len(v.queue) /\ Tail(v.queue)[i] = v.queue[i + 1]
  BY <1>1
<1>5. Head(v.queue).ver \in 0 .. MaxSaves + 1
  BY <1>2 DEF Chunk
<1>6. /\ Finished(v) \in VmType /\ Finished(v).daemon = v.daemon
      /\ Finished(v).queue = Tail(v.queue)
      /\ \A f \in SrcFiles :
           Finished(v).loaded[f] = IF Head(v.queue).file = f /\ ~Head(v.queue).bad
                                     THEN Head(v.queue).ver ELSE v.loaded[f]
  BY <1>3, <1>5 DEF Finished, VmType
<1> QED
  BY <1>2, <1>3, <1>4, <1>6

\* Neither makes the VM newer than the disk.
LEMMA UpToPushed ==
  ASSUME NEW v \in VmType, NEW c \in Chunk, NEW d, UpTo(v, d),
         \A f \in SrcFiles : c.file = f => c.ver <= d[f]
  PROVE  UpTo(Pushed(v, c), d)
BY Pushing DEF UpTo

LEMMA UpToFinished ==
  ASSUME NEW v \in VmType, v.queue # <<>>, NEW d, UpTo(v, d)
  PROVE  UpTo(Finished(v), d)
<1>f. /\ Head(v.queue) = v.queue[1] /\ 1 \in 1 .. Len(v.queue)
      /\ \A i \in 1 .. Len(Finished(v).queue) :
           i + 1 \in 1 .. Len(v.queue) /\ Finished(v).queue[i] = v.queue[i + 1]
      /\ \A f \in SrcFiles :
           Finished(v).loaded[f] = IF Head(v.queue).file = f /\ ~Head(v.queue).bad
                                     THEN Head(v.queue).ver ELSE v.loaded[f]
  BY Finishing
<1>1. ASSUME NEW f \in SrcFiles PROVE Finished(v).loaded[f] <= d[f]
  <2>1. v.loaded[f] <= d[f] /\ (v.queue[1].file = f => v.queue[1].ver <= d[f])
    BY <1>f DEF UpTo
  <2> QED
    BY <1>f, <2>1
<1>2. ASSUME NEW i \in 1 .. Len(Finished(v).queue), NEW f \in SrcFiles,
             Finished(v).queue[i].file = f
      PROVE  Finished(v).queue[i].ver <= d[f]
  <2>1. i + 1 \in 1 .. Len(v.queue) /\ Finished(v).queue[i] = v.queue[i + 1]
    BY <1>f
  <2> QED
    BY <1>2, <2>1 DEF UpTo
<1> QED
  BY <1>1, <1>2 DEF UpTo

\* One push that is waited for.
LEMMA PushWait ==
  ASSUME NEW v \in VmType, NEW c \in Chunk
  PROVE  /\ Finished(Pushed(v, c)) \in VmType
         /\ Finished(Pushed(v, c)).daemon = v.daemon
         /\ Len(Finished(Pushed(v, c)).queue) = Len(v.queue)
         /\ \A i \in 1 .. Len(Finished(Pushed(v, c)).queue) :
              \/ Finished(Pushed(v, c)).queue[i] = c
              \/ \E j \in 1 .. Len(v.queue) : Finished(Pushed(v, c)).queue[i] = v.queue[j]
<1> DEFINE w == Pushed(v, c)
<1>1. /\ w \in VmType /\ w.queue # <<>> /\ w.daemon = v.daemon
      /\ Len(w.queue) = Len(v.queue) + 1
      /\ \A i \in 1 .. Len(w.queue) :
           w.queue[i] = c \/ (i \in 1 .. Len(v.queue) /\ w.queue[i] = v.queue[i])
  BY Pushing
<1>2. Len(v.queue) \in Nat
  BY DEF VmType
<1> HIDE DEF w
<1>3. /\ Finished(w) \in VmType /\ Finished(w).daemon = w.daemon
      /\ Len(Finished(w).queue) = Len(w.queue) - 1
      /\ \A i \in 1 .. Len(Finished(w).queue) :
           i + 1 \in 1 .. Len(w.queue) /\ Finished(w).queue[i] = w.queue[i + 1]
  BY <1>1, Finishing
<1>4. ASSUME NEW i \in 1 .. Len(Finished(w).queue)
      PROVE  \/ Finished(w).queue[i] = c
             \/ \E j \in 1 .. Len(v.queue) : Finished(w).queue[i] = v.queue[j]
  <2>1. i + 1 \in 1 .. Len(w.queue) /\ Finished(w).queue[i] = w.queue[i + 1]
    BY <1>3
  <2> QED
    BY <1>1, <2>1
<1>5. Len(Finished(w).queue) = Len(v.queue)
  BY <1>1, <1>2, <1>3
<1> QED
  BY <1>1, <1>3, <1>4, <1>5 DEF w

\* ... into an empty queue: the wait's own chunk is run.
LEMMA PushWaitOwn ==
  ASSUME NEW v \in VmType, NEW c \in Chunk, v.queue = <<>>
  PROVE  /\ Finished(Pushed(v, c)).queue = <<>>
         /\ \A f \in SrcFiles :
              Finished(Pushed(v, c)).loaded[f] =
                IF c.file = f /\ ~c.bad THEN c.ver ELSE v.loaded[f]
         /\ MayPass(Pushed(v, c)) => ~c.bad
         /\ MayFail(Pushed(v, c)) => c.bad
<1>1. /\ Pushed(v, c) \in VmType /\ Pushed(v, c).queue = Append(v.queue, c)
      /\ Pushed(v, c).queue # <<>> /\ Pushed(v, c).loaded = v.loaded
  BY Pushing
<1>2. /\ Append(<<>>, c) = <<c>> /\ Head(<<c>>) = c /\ Tail(<<c>>) = <<>>
      /\ Len(<<c>>) = 1 /\ <<c>>[1] = c
  OBVIOUS
<1>3. Pushed(v, c).queue = <<c>>
  BY <1>1, <1>2
<1> QED
  BY <1>1, <1>2, <1>3, Finishing DEF MayPass, MayFail

\* A connection leaves the VM as it is, but for the daemon and a probe.
LEMMA Connecting ==
  ASSUME vm \in VmType, Connect, TypeOK, DaemonUp
  PROVE  /\ vm' \in VmType /\ vm'.daemon /\ vm'.loaded = vm.loaded
         /\ early' \in BOOLEAN /\ (~early' => vm'.queue = <<>>)
         /\ Len(vm'.queue) <= 1
         /\ \A i \in 1 .. Len(vm'.queue) : vm'.queue[i] = Marker
<1>e. early' = (vm'.queue # <<>>)
  BY DEF Connect
<1>1. CASE ~vm.daemon /\ vm' = [vm EXCEPT !.daemon = TRUE]
  <2>1. vm.queue = <<>>
    BY <1>1 DEF DaemonUp
  <2>2. vm' \in VmType /\ vm'.daemon /\ vm'.loaded = vm.loaded /\ vm'.queue = vm.queue
    BY <1>1 DEF VmType
  <2> QED
    BY <1>e, <2>1, <2>2
<1>2. CASE vm.daemon /\ vm.queue = <<>> /\ vm' = vm
  BY <1>e, <1>2
<1>3. CASE vm.daemon /\ vm.queue = <<>> /\ vm' = Pushed(vm, Marker)
  <2>1. Marker \in Chunk
    BY Chunks
  <2>2. Len(vm.queue) = 0
    BY <1>3
  <2>3. /\ vm' \in VmType /\ vm'.daemon /\ vm'.loaded = vm.loaded
        /\ vm'.queue # <<>> /\ Len(vm'.queue) = Len(vm.queue) + 1
        /\ \A i \in 1 .. Len(vm'.queue) :
             vm'.queue[i] = Marker \/ i \in 1 .. Len(vm.queue)
    BY <1>3, <2>1, Pushing
  <2>4. Len(vm'.queue) <= 1 /\ \A i \in 1 .. Len(vm'.queue) : vm'.queue[i] = Marker
    BY <2>2, <2>3
  <2> QED
    BY <1>e, <2>3, <2>4
<1> QED
  BY <1>1, <1>2, <1>3 DEF Connect

-----------------------------------------------------------------------------
(* Type correctness. *)

\* No versions is a member of Versions, and a run adds one at a time.
LEMMA NoneSeen == NoVersions \in Versions /\ DOMAIN NoVersions = {}
<1>1. NoVersions \in [{} -> 0 .. MaxSaves + 1]
  BY DEF NoVersions
<1> QED
  BY <1>1 DEF Versions, NoVersions

LEMMA OneMoreSeen ==
  ASSUME NEW f \in Files, TypeOK
  PROVE  LET saw == [g \in DOMAIN seen \cup {f} |-> IF g = f THEN disk[f] ELSE seen[g]]
         IN  saw \in Versions
<1> DEFINE saw == [g \in DOMAIN seen \cup {f} |-> IF g = f THEN disk[f] ELSE seen[g]]
<1>1. PICK S \in SUBSET Files : seen \in [S -> 0 .. MaxSaves + 1]
  BY DEF TypeOK, Versions
<1>2. disk[f] \in 0 .. MaxSaves + 1
  BY BoundsAssumption DEF TypeOK
<1>3. saw \in [S \cup {f} -> 0 .. MaxSaves + 1]
  BY <1>1, <1>2
<1> QED
  BY <1>3 DEF Versions

\* The sources loaded in a VM are versions.
LEMMA LoadedSeen == ASSUME NEW v \in VmType PROVE v.loaded \in Versions /\ DOMAIN v.loaded = SrcFiles
<1>1. v.loaded \in [SrcFiles -> 0 .. MaxSaves + 1] /\ SrcFiles \in SUBSET Files
  BY DEF VmType, Files
<1> QED
  BY <1>1 DEF Versions

LEMMA RunEnds ==
  ASSUME TypeOK, NEW ok \in BOOLEAN, NEW saw \in Versions, EndRun(ok, saw)
  PROVE  /\ wpc' = "sleep" /\ todo' = {} /\ seen' = saw
         /\ verdict' \in Verdicts /\ verdict' # Nothing
         /\ verdict'.ok = ok /\ verdict'.early = early /\ verdict'.seen = saw
BY NothingAssumption DEF EndRun, Verdicts, TypeOK

LEMMA InitType == Init => TypeInv
<1> SUFFICES ASSUME Init PROVE TypeInv
  OBVIOUS
<1>1. Booted \in VmType
  BY BoundsAssumption DEF Booted, VmType
<1>2. pipe \in Seq(Files)
  BY DEF Init
<1>3. /\ warm \in BOOLEAN /\ disk \in [Files -> 1 .. MaxSaves + 1]
      /\ \A f \in Files : disk[f] <= saves + 1
  BY BoundsAssumption DEF Init
<1>4. /\ early \in BOOLEAN /\ vm \in VmType /\ snap \in VmType \cup {Nothing}
      /\ verdict \in Verdicts \cup {Nothing} /\ seen \in Versions
  BY <1>1, NoneSeen DEF Init
<1> QED
  BY <1>2, <1>3, <1>4, BoundsAssumption DEF Init, TypeInv, TypeOK

\* Taking an event out of the pipe.
LEMMA Reading == ASSUME TypeOK, pipe # <<>> PROVE Tail(pipe) \in Seq(Files)
BY DEF TypeOK

\* Every step keeps the types, the bound of a version among them.  (DaemonUp
\* says which VM a connection meets.)
LEMMA TypeStep == TypeInv /\ DaemonUp /\ [Next]_vars => TypeInv'
<1> SUFFICES ASSUME TypeInv, DaemonUp, [Next]_vars PROVE TypeInv'
  OBVIOUS
<1>t. TypeOK /\ vm \in VmType /\ fails \in 0 .. MaxFails /\ fails \in Nat
  BY BoundsAssumption DEF TypeInv, TypeOK
<1>c. Marker \in Chunk /\ \A f \in Files : FileChunk(f) \in Chunk
  BY <1>t, Chunks
<1>m. fails < MaxFails => fails + 1 \in 0 .. MaxFails
  BY <1>t, BoundsAssumption
<1> USE DEF TypeInv, diskVars, watchVars, warmVars
<1>1. ASSUME NEW f \in Files, NEW bad \in BOOLEAN, Save(f, bad) PROVE TypeInv'
  <2>1. pipe' \in Seq(Files)
    <3>1. pipe' = Append(pipe, f) \/ pipe' = pipe
      BY <1>1 DEF Save, Report
    <3>2. pipe \in Seq(Files)
      BY DEF TypeOK
    <3> QED
      BY <3>1, <3>2
  <2>2. /\ disk' \in [Files -> 1 .. MaxSaves + 1] /\ saves' \in 0 .. MaxSaves
        /\ \A g \in Files : disk'[g] <= saves' + 1
    BY <1>1, BoundsAssumption DEF Save, TypeOK
  <2>3. broken' \subseteq Files
    BY <1>1 DEF Save, TypeOK
  <2>4. UNCHANGED <<warm, watchVars, warmVars, early, vm, snap, resets, fails>>
    BY <1>1 DEF Save
  <2> QED
    BY <2>1, <2>2, <2>3, <2>4 DEF TypeOK
<1>2. ASSUME RunTest PROVE TypeInv'
  <2>1. /\ pipe' \in Seq(Files) /\ seen' \in Versions
        /\ UNCHANGED <<warm, diskVars, verdict, warmVars, snap, resets, fails>>
    BY <1>2, <1>t, NoneSeen, Reading DEF RunTest
  <2>2. CASE wpc' = "revert" /\ todo' = {} /\ UNCHANGED <<early, vm>>
    BY <2>1, <2>2 DEF TypeOK
  <2>3. CASE wpc' = "src" /\ todo' = SrcFiles /\ Connect
    <3>1. vm' \in VmType /\ early' \in BOOLEAN /\ todo' \subseteq Files
      BY <2>3, <1>t, Connecting DEF Files
    <3> QED
      BY <2>1, <2>3, <3>1 DEF TypeOK
  <2> QED
    BY <1>2, <2>2, <2>3 DEF RunTest
<1>3. ASSUME ConnectTimesOut PROVE TypeInv'
  <2>1. /\ pipe' \in Seq(Files) /\ fails' \in 0 .. MaxFails
        /\ EndRun(FALSE, NoVersions)
        /\ UNCHANGED <<warm, diskVars, warmVars, early, snap, resets>>
    BY <1>3, <1>t, <1>m, Reading DEF ConnectTimesOut
  <2>2. vm' \in VmType
    BY <1>3, <1>t, <1>c, Pushing DEF ConnectTimesOut
  <2> QED
    BY <1>t, <2>1, <2>2, NoneSeen, RunEnds DEF TypeOK
<1>4. ASSUME Revert PROVE TypeInv'
  <2>1. UNCHANGED <<warm, diskVars, pipe, warmVars, snap, resets>>
    BY <1>4 DEF Revert
  <2>2. CASE EndRun(FALSE, NoVersions) /\ UNCHANGED <<early, vm, fails>>
    BY <1>t, <2>1, <2>2, NoneSeen, RunEnds DEF TypeOK
  <2>3. CASE /\ snap # Nothing
             /\ \/ vm' = snap /\ UNCHANGED fails
                \/ vm' = vm /\ fails < MaxFails /\ fails' = fails + 1
             /\ wpc' = "src" /\ todo' = {} /\ seen' = vm'.loaded
             /\ early' = (vm'.queue # <<>>)
             /\ UNCHANGED verdict
    <3>1. vm' \in VmType /\ fails' \in 0 .. MaxFails
      BY <2>3, BoundsAssumption DEF TypeOK
    <3>2. seen' \in Versions /\ early' \in BOOLEAN /\ todo' \subseteq Files
      BY <2>3, <3>1, LoadedSeen
    <3> QED
      BY <2>1, <2>3, <3>1, <3>2 DEF TypeOK
  <2> QED
    BY <1>4, <2>2, <2>3 DEF Revert
<1>5. ASSUME NEW f \in Files, PushFile(f) PROVE TypeInv'
  <2> DEFINE saw == [g \in DOMAIN seen \cup {f} |-> IF g = f THEN disk[f] ELSE seen[g]]
  <2>1. UNCHANGED <<warm, diskVars, pipe, warmVars, early, snap, resets, fails>>
    BY <1>5 DEF PushFile
  <2>2. saw \in Versions
    BY <1>t, OneMoreSeen
  <2>3. Finished(Pushed(vm, FileChunk(f))) \in VmType
    BY <1>t, <1>c, PushWait
  <2>4. /\ vm' = Finished(Pushed(vm, FileChunk(f))) \/ vm' = vm
        /\ \/ EndRun(FALSE, saw)
           \/ todo' = todo \ {f} /\ seen' = saw /\ UNCHANGED <<wpc, verdict>>
    BY <1>5 DEF PushFile
  <2> HIDE DEF saw
  <2>5. vm' \in VmType
    BY <1>t, <2>3, <2>4
  <2>6. CASE EndRun(FALSE, saw)
    BY <1>t, <2>1, <2>2, <2>5, <2>6, RunEnds DEF TypeOK
  <2>7. CASE todo' = todo \ {f} /\ seen' = saw /\ UNCHANGED <<wpc, verdict>>
    BY <2>1, <2>2, <2>5, <2>7 DEF TypeOK
  <2> QED
    BY <2>4, <2>6, <2>7
<1>6. ASSUME BeginTests PROVE TypeInv'
  <2>1. vm' \in VmType
    BY <1>6, <1>t, <1>c, PushWait, Pushing DEF BeginTests
  <2>2. /\ wpc' = "tests" /\ todo' = TestFiles
        /\ UNCHANGED <<warm, diskVars, pipe, seen, verdict, warmVars, early, snap, resets, fails>>
    BY <1>6 DEF BeginTests
  <2>3. todo' \subseteq Files
    BY <2>2 DEF Files
  <2> QED
    BY <2>1, <2>2, <2>3 DEF TypeOK
<1>7. ASSUME RunTimesOut PROVE TypeInv'
  <2>1. /\ EndRun(FALSE, seen) /\ fails' \in 0 .. MaxFails
        /\ UNCHANGED <<warm, diskVars, pipe, warmVars, early, snap, resets>>
    BY <1>7, <1>m DEF RunTimesOut
  <2>2. vm' \in VmType
    <3>1. vm' = vm \/ \E f \in Files : vm' = Pushed(vm, FileChunk(f))
      BY <1>7 DEF RunTimesOut, TypeOK
    <3> QED
      BY <1>t, <1>c, <3>1, Pushing
  <2> QED
    BY <1>t, <2>1, <2>2, RunEnds DEF TypeOK
<1>8. ASSUME FinishRun PROVE TypeInv'
  <2>1. /\ EndRun(vm.daemon, seen) /\ seen \in Versions /\ vm.daemon \in BOOLEAN
        /\ UNCHANGED <<warm, diskVars, pipe, warmVars, early, vm, snap, resets, fails>>
    BY <1>8 DEF FinishRun, TypeOK, VmType
  <2> QED
    BY <1>t, <2>1, RunEnds DEF TypeOK
<1>9. ASSUME Debounce PROVE TypeInv'
  BY <1>9 DEF Debounce, TypeOK
<1>10. ASSUME Warmup PROVE TypeInv'
  <2>1. vm' \in VmType /\ early' \in BOOLEAN
    BY <1>10, <1>t, Connecting DEF Warmup
  <2>2. warmups' \in 0 .. MaxWarmups /\ upc' = "push" /\ utodo' \subseteq SrcFiles
    BY <1>10, BoundsAssumption DEF Warmup, TypeOK
  <2>3. UNCHANGED <<warm, diskVars, pipe, watchVars, snap, resets, fails>>
    BY <1>10 DEF Warmup
  <2> QED
    BY <2>1, <2>2, <2>3 DEF TypeOK
<1>11. ASSUME NEW f \in SrcFiles, WarmupPush(f) PROVE TypeInv'
  <2>1. vm' \in VmType
    BY <1>11, <1>t, <1>c, PushWait DEF WarmupPush, Files
  <2>2. utodo' \subseteq SrcFiles /\ upc' \in {"idle", "push"}
    BY <1>11 DEF WarmupPush, TypeOK
  <2>3. UNCHANGED <<warm, diskVars, pipe, watchVars, warmups, early, snap, resets, fails>>
    BY <1>11 DEF WarmupPush
  <2> QED
    BY <2>1, <2>2, <2>3 DEF TypeOK
<1>12. ASSUME WarmupTimesOut PROVE TypeInv'
  <2>1. vm' \in VmType
    <3>1. \E f \in Files : vm' = Pushed(vm, FileChunk(f))
      BY <1>12 DEF WarmupTimesOut, TypeOK, Files
    <3> QED
      BY <1>t, <1>c, <3>1, Pushing
  <2>2. /\ fails' \in 0 .. MaxFails /\ upc' = "idle" /\ utodo' = {}
        /\ UNCHANGED <<warm, diskVars, pipe, watchVars, warmups, early, snap, resets>>
    BY <1>12, <1>t, BoundsAssumption DEF WarmupTimesOut
  <2> QED
    BY <2>1, <2>2 DEF TypeOK
<1>13. ASSUME Savevm PROVE TypeInv'
  BY <1>13, <1>t, BoundsAssumption DEF Savevm, TypeOK
<1>14. ASSUME VmReset PROVE TypeInv'
  <2>1. Booted \in VmType
    BY BoundsAssumption DEF Booted, VmType
  <2> QED
    BY <1>14, <2>1, BoundsAssumption DEF VmReset, TypeOK
<1>15. ASSUME FinishChunk PROVE TypeInv'
  <2>1. vm' \in VmType
    BY <1>15, <1>t, Finishing DEF FinishChunk
  <2> QED
    BY <1>15, <2>1 DEF FinishChunk, TypeOK
<1>16. CASE UNCHANGED vars
  BY <1>16 DEF vars, TypeOK
<1> QED
  BY <1>1, <1>2, <1>3, <1>4, <1>5, <1>6, <1>7, <1>8, <1>9, <1>10, <1>11, <1>12, <1>13, <1>14,
     <1>15, <1>16
  DEF Next, WatchNext, WarmupNext

-----------------------------------------------------------------------------
(* The snapshot. *)

LEMMA InitSnap == Init => SnapInv
<1> SUFFICES ASSUME Init PROVE SnapRest
  BY InitType DEF SnapInv
<1>1. /\ vm.loaded = [f \in SrcFiles |-> 0] /\ vm.queue = <<>>
      /\ snap = Nothing /\ upc = "idle"
  BY DEF Init, Booted
<1>2. \A f \in SrcFiles : disk[f] = 1
  BY DEF Init, Files
<1>3. UpTo(vm, disk)
  BY <1>1, <1>2 DEF UpTo
<1> QED
  BY <1>1, <1>3 DEF SnapRest, NothingNewer, DaemonUp, Alone, PushedIsLoaded

\* The types the steps below need.
LEMMA SnapTypes ==
  ASSUME TypeInv
  PROVE  /\ vm \in VmType /\ vm.queue \in Seq(Chunk)
         /\ \A f \in SrcFiles : f \in Files /\ disk[f] \in Nat \ {0} /\ vm.loaded[f] \in Nat
         /\ snap # Nothing => \A f \in SrcFiles : snap.loaded[f] \in Nat
         /\ snap # Nothing => snap \in VmType
<1>1. vm \in VmType /\ (snap # Nothing => snap \in VmType) /\ disk \in [Files -> 1 .. MaxSaves + 1]
  BY DEF TypeInv, TypeOK
<1>2. \A v \in VmType, f \in SrcFiles : v.loaded[f] \in Nat
  BY BoundsAssumption DEF VmType
<1>3. vm.queue \in Seq(Chunk)
  BY <1>1 DEF VmType
<1> QED
  BY <1>1, <1>2, <1>3, BoundsAssumption DEF Files

\* A chunk pushed now is as new as the disk.
LEMMA NewChunks ==
  ASSUME TypeInv
  PROVE  /\ Marker \in Chunk /\ \A f \in SrcFiles : Marker.file = f => Marker.ver <= disk[f]
         /\ \A g \in Files : /\ FileChunk(g) \in Chunk
                             /\ \A f \in SrcFiles : FileChunk(g).file = f => FileChunk(g).ver <= disk[f]
<1>1. Marker.file \notin SrcFiles
  BY NothingAssumption DEF Marker, Files
<1>2. \A g \in Files : FileChunk(g).file = g /\ FileChunk(g).ver = disk[g] /\ disk[g] \in Nat
  BY BoundsAssumption DEF FileChunk, TypeInv, TypeOK
<1> QED
  BY <1>1, <1>2, Chunks DEF TypeInv

\* The VM after any push, waited for or not, or after a finished chunk.
LEMMA PushKeeps ==
  ASSUME TypeInv, UpTo(vm, disk), NEW c \in Chunk,
         \A f \in SrcFiles : c.file = f => c.ver <= disk[f]
  PROVE  /\ UpTo(Pushed(vm, c), disk) /\ UpTo(Finished(Pushed(vm, c)), disk)
         /\ Pushed(vm, c).daemon = vm.daemon /\ Finished(Pushed(vm, c)).daemon = vm.daemon
<1>1. vm \in VmType
  BY SnapTypes
<1>2. Pushed(vm, c) \in VmType /\ Pushed(vm, c).queue # <<>>
  BY <1>1, Pushing
<1>3. UpTo(Pushed(vm, c), disk)
  BY <1>1, UpToPushed
<1> QED
  BY <1>1, <1>2, <1>3, UpToFinished, Pushing, PushWait

\* Outside vm-warmup only what is loaded and who is up matters.
LEMMA SnapElse ==
  ASSUME SnapRest, upc' # "push", UNCHANGED <<disk, snap>>,
         UpTo(vm', disk), vm'.queue # <<>> => vm'.daemon
  PROVE  SnapRest'
<1>1. NothingNewer'
  BY DEF SnapRest, NothingNewer
<1>2. DaemonUp'
  BY DEF SnapRest, DaemonUp
<1> QED
  BY <1>1, <1>2 DEF SnapRest, Alone, PushedIsLoaded

\* One push of vm-warmup.
LEMMA WarmupPushSnap ==
  ASSUME TypeInv, SnapRest, NEW f \in SrcFiles, upc = "push",
         MayPass(Pushed(vm, FileChunk(f))), vm' = Finished(Pushed(vm, FileChunk(f))),
         utodo' = utodo \ {f}, UNCHANGED <<disk, wpc, upc, early, snap>>
  PROVE  SnapRest'
<1> DEFINE c == FileChunk(f)
<1>1. /\ vm \in VmType /\ c \in Chunk /\ c.file = f /\ c.ver = disk[f]
      /\ \A g \in SrcFiles : c.file = g => c.ver <= disk[g]
  BY SnapTypes, NewChunks DEF FileChunk, Files
<1>2. /\ UpTo(vm', disk) /\ vm'.daemon = vm.daemon
      /\ Len(vm'.queue) = Len(vm.queue)
  BY <1>1, PushKeeps, PushWait DEF SnapRest, NothingNewer
<1>3. vm.daemon /\ Len(vm.queue) <= 1 /\ wpc \in {"read", "sleep"}
  BY DEF SnapRest, Alone
<1>4. ASSUME ~early
      PROVE  /\ vm'.queue = <<>>
             /\ \A g \in SrcFiles : vm'.loaded[g] = IF f = g THEN disk[f] ELSE vm.loaded[g]
  <2>1. vm.queue = <<>>
    BY <1>4 DEF SnapRest, Alone
  <2> QED
    BY <1>1, <2>1, PushWaitOwn
<1>5. NothingNewer' /\ DaemonUp'
  BY <1>2, <1>3 DEF SnapRest, NothingNewer, DaemonUp
<1>6. Alone'
  BY <1>2, <1>3, <1>4 DEF Alone
<1>7. PushedIsLoaded'
  <2> SUFFICES ASSUME ~early, NEW g \in SrcFiles \ (utodo \ {f})
               PROVE  /\ vm'.loaded[g] > 0
                      /\ snap # Nothing => snap.loaded[g] <= vm'.loaded[g]
    BY DEF PushedIsLoaded
  <2>1. CASE g = f
    <3>1. disk[f] \in Nat \ {0} /\ (snap # Nothing => snap.loaded[f] <= disk[f])
      BY SnapTypes DEF SnapRest, NothingNewer, UpTo
    <3> QED
      BY <1>4, <2>1, <3>1
  <2>2. CASE g # f
    <3>1. g \in SrcFiles \ utodo
      BY <2>2
    <3> QED
      BY <1>4, <2>2, <3>1 DEF SnapRest, PushedIsLoaded
  <2> QED
    BY <2>1, <2>2
<1> QED
  BY <1>5, <1>6, <1>7 DEF SnapRest

LEMMA SnapStep == SnapInv /\ [Next]_vars => SnapInv'
<1> SUFFICES ASSUME TypeInv, SnapRest, [Next]_vars PROVE SnapRest'
  BY TypeStep DEF SnapInv, SnapRest
<1>t. /\ vm \in VmType /\ vm.queue \in Seq(Chunk)
      /\ UpTo(vm, disk) /\ (vm.queue # <<>> => vm.daemon)
  BY SnapTypes DEF SnapRest, NothingNewer, DaemonUp
<1>p. \A f \in Files : /\ UpTo(Pushed(vm, FileChunk(f)), disk)
                       /\ UpTo(Finished(Pushed(vm, FileChunk(f))), disk)
                       /\ Pushed(vm, FileChunk(f)).daemon = vm.daemon
                       /\ Finished(Pushed(vm, FileChunk(f))).daemon = vm.daemon
  BY <1>t, NewChunks, PushKeeps
<1>q. /\ UpTo(Pushed(vm, Marker), disk) /\ UpTo(Finished(Pushed(vm, Marker)), disk)
      /\ Pushed(vm, Marker).daemon = vm.daemon
      /\ Finished(Pushed(vm, Marker)).daemon = vm.daemon
  BY <1>t, NewChunks, PushKeeps
<1>b. ASSUME upc = "push" PROVE wpc \in {"read", "sleep"} /\ vm.daemon
  BY <1>b DEF SnapRest, Alone
<1> USE DEF diskVars, watchVars, warmVars
<1>1. ASSUME NEW f \in Files, NEW bad \in BOOLEAN, Save(f, bad) PROVE SnapRest'
  <2>1. UNCHANGED <<wpc, upc, utodo, early, vm, snap>>
    BY <1>1 DEF Save
  <2>2. \A g \in SrcFiles : disk[g] <= disk'[g] /\ disk[g] \in Nat /\ disk'[g] \in Nat
    <3>1. disk' = [disk EXCEPT ![f] = @ + 1] /\ disk \in [Files -> 1 .. MaxSaves + 1]
      BY <1>1 DEF Save, TypeInv, TypeOK
    <3> QED
      BY <3>1, SnapTypes
  <2>3. ASSUME NEW v \in VmType, UpTo(v, disk) PROVE UpTo(v, disk')
    <3>1. /\ \A g \in SrcFiles : v.loaded[g] \in Nat
          /\ v.queue \in Seq(Chunk)
      BY BoundsAssumption DEF VmType
    <3>2. \A i \in 1 .. Len(v.queue) : v.queue[i].ver \in Nat
      <4>1. \A i \in 1 .. Len(v.queue) : v.queue[i] \in Chunk
        BY <3>1
      <4> QED
        BY <4>1, BoundsAssumption DEF Chunk
    <3> QED
      BY <2>2, <2>3, <3>1, <3>2 DEF UpTo
  <2>4. NothingNewer'
    BY <2>1, <2>3, SnapTypes DEF SnapRest, NothingNewer
  <2> QED
    BY <2>1, <2>4 DEF SnapRest, DaemonUp, Alone, PushedIsLoaded
<1>2. ASSUME RunTest PROVE SnapRest'
  <2>1. UNCHANGED <<disk, upc, snap>> /\ upc = "idle"
    BY <1>2 DEF RunTest
  <2>2. vm' = vm \/ Connect
    BY <1>2 DEF RunTest
  <2>3. UpTo(vm', disk) /\ (vm'.queue # <<>> => vm'.daemon)
    BY <1>t, <1>q, <2>2 DEF Connect, UpTo, VmType
  <2> QED
    BY <2>1, <2>3, SnapElse
<1>3. ASSUME ConnectTimesOut PROVE SnapRest'
  <2>1. /\ UNCHANGED <<disk, upc, snap>> /\ upc = "idle"
        /\ vm' = vm \/ (vm.daemon /\ vm' = Pushed(vm, Marker))
    BY <1>3 DEF ConnectTimesOut
  <2> QED
    BY <1>t, <1>q, <2>1, SnapElse
<1>4. ASSUME Revert PROVE SnapRest'
  <2>1. UNCHANGED <<disk, upc, snap>> /\ wpc = "revert"
    BY <1>4 DEF Revert
  <2>2. upc # "push"
    BY <1>b, <2>1
  <2>3. vm' = vm \/ (snap # Nothing /\ vm' = snap)
    BY <1>4 DEF Revert
  <2>4. UpTo(vm', disk) /\ (vm'.queue # <<>> => vm'.daemon)
    BY <1>t, <2>3 DEF SnapRest, NothingNewer, DaemonUp
  <2> QED
    BY <2>1, <2>2, <2>4, SnapElse
<1>5. ASSUME NEW f \in Files, PushFile(f) PROVE SnapRest'
  <2>1. UNCHANGED <<disk, upc, snap>> /\ wpc \in {"src", "tests"}
    BY <1>5 DEF PushFile
  <2>2. upc # "push"
    BY <1>b, <2>1
  <2>3. vm' = vm \/ (vm.daemon /\ vm' = Finished(Pushed(vm, FileChunk(f))))
    BY <1>5 DEF PushFile
  <2> QED
    BY <1>t, <1>p, <2>1, <2>2, <2>3, SnapElse
<1>6. ASSUME BeginTests PROVE SnapRest'
  <2>1. UNCHANGED <<disk, upc, snap>> /\ wpc = "src"
    BY <1>6 DEF BeginTests
  <2>2. upc # "push"
    BY <1>b, <2>1
  <2>3. \/ vm' = vm
        \/ vm.daemon /\ (vm' = Finished(Pushed(vm, Marker)) \/ vm' = Pushed(vm, Marker))
    BY <1>6 DEF BeginTests
  <2> QED
    BY <1>t, <1>q, <2>1, <2>2, <2>3, SnapElse
<1>7. ASSUME RunTimesOut PROVE SnapRest'
  <2>1. UNCHANGED <<disk, upc, snap>> /\ wpc \in {"src", "tests"}
    BY <1>7 DEF RunTimesOut
  <2>2. upc # "push"
    BY <1>b, <2>1
  <2>3. vm' = vm \/ \E f \in Files : vm.daemon /\ vm' = Pushed(vm, FileChunk(f))
    BY <1>7 DEF RunTimesOut, TypeInv, TypeOK
  <2> QED
    BY <1>t, <1>p, <2>1, <2>2, <2>3, SnapElse
<1>8. ASSUME FinishRun \/ Debounce PROVE SnapRest'
  <2>1. UNCHANGED <<disk, vm, upc, utodo, early, snap>> /\ wpc' \in {"sleep", "read"}
    BY <1>8 DEF FinishRun, Debounce, EndRun
  <2> QED
    BY <2>1 DEF SnapRest, NothingNewer, DaemonUp, Alone, PushedIsLoaded
<1>9. ASSUME Warmup PROVE SnapRest'
  <2>1. /\ UNCHANGED <<disk, wpc, snap>> /\ wpc \in {"read", "sleep"}
        /\ utodo' = SrcFiles /\ Connect
    BY <1>9 DEF Warmup, BetweenRuns
  <2>2. vm'.daemon /\ Len(vm'.queue) <= 1 /\ (~early' => vm'.queue = <<>>)
    BY <1>t, <2>1, Connecting DEF SnapRest, TypeInv
  <2>3. UpTo(vm', disk)
    BY <1>t, <1>q, <2>1 DEF Connect, UpTo, VmType
  <2>4. NothingNewer' /\ DaemonUp'
    BY <2>1, <2>2, <2>3 DEF SnapRest, NothingNewer, DaemonUp
  <2> QED
    BY <2>1, <2>2, <2>4 DEF SnapRest, Alone, PushedIsLoaded
<1>10. ASSUME NEW f \in SrcFiles, WarmupPush(f) PROVE SnapRest'
  <2>1. /\ UNCHANGED <<disk, wpc, early, snap>> /\ upc = "push" /\ f \in Files
        /\ vm' = Finished(Pushed(vm, FileChunk(f)))
        /\ \/ /\ MayPass(Pushed(vm, FileChunk(f))) /\ utodo' = utodo \ {f} /\ UNCHANGED upc
           \/ upc' = "idle"
    BY <1>10 DEF WarmupPush, Files
  <2>2. CASE upc' = "idle"
    BY <1>b, <1>p, <2>1, <2>2, SnapElse
  <2>3. CASE MayPass(Pushed(vm, FileChunk(f))) /\ utodo' = utodo \ {f} /\ UNCHANGED upc
    BY <2>1, <2>3, WarmupPushSnap
  <2> QED
    BY <2>1, <2>2, <2>3
<1>11. ASSUME WarmupTimesOut PROVE SnapRest'
  <2>1. /\ UNCHANGED <<disk, snap>> /\ upc = "push" /\ upc' = "idle"
        /\ \E f \in Files : vm' = Pushed(vm, FileChunk(f))
    BY <1>11 DEF WarmupTimesOut, TypeInv, TypeOK, Files
  <2> QED
    BY <1>b, <1>p, <2>1, SnapElse
<1>12. ASSUME Savevm PROVE SnapRest'
  <2>1. /\ UNCHANGED <<disk, wpc, vm>> /\ upc = "push" /\ upc' = "idle"
        /\ snap' = vm \/ snap' = snap
    BY <1>12 DEF Savevm
  <2>2. NothingNewer'
    BY <1>t, <2>1 DEF SnapRest, NothingNewer
  <2>3. DaemonUp'
    BY <1>b, <2>1 DEF SnapRest, DaemonUp
  <2> QED
    BY <2>1, <2>2, <2>3 DEF SnapRest, Alone, PushedIsLoaded
<1>13. ASSUME VmReset PROVE SnapRest'
  <2>1. UNCHANGED <<disk, upc, snap>> /\ upc = "idle" /\ vm' = Booted
    BY <1>13 DEF VmReset, BetweenRuns
  <2>2. UpTo(Booted, disk) /\ Booted.queue = <<>>
    BY SnapTypes DEF Booted, UpTo
  <2> QED
    BY <2>1, <2>2, SnapElse
<1>14. ASSUME FinishChunk PROVE SnapRest'
  <2>1. /\ UNCHANGED <<disk, wpc, upc, utodo, early, snap>>
        /\ vm.queue # <<>> /\ vm' = Finished(vm)
    BY <1>14 DEF FinishChunk
  <2>2. UpTo(vm', disk) /\ vm'.daemon = vm.daemon /\ Len(vm'.queue) = Len(vm.queue) - 1
    BY <1>t, <2>1, UpToFinished, Finishing
  <2>3. Len(vm.queue) \in Nat
    BY <1>t
  <2>4. NothingNewer' /\ DaemonUp'
    BY <1>t, <2>1, <2>2 DEF SnapRest, NothingNewer, DaemonUp
  <2>5. Alone'
    BY <2>1, <2>2, <2>3 DEF SnapRest, Alone
  <2>6. PushedIsLoaded'
    BY <2>1 DEF SnapRest, Alone, PushedIsLoaded
  <2> QED
    BY <2>4, <2>5, <2>6 DEF SnapRest
<1>15. CASE UNCHANGED vars
  BY <1>15 DEF vars, SnapRest, NothingNewer, DaemonUp, Alone, PushedIsLoaded
<1> QED
  BY <1>1, <1>2, <1>3, <1>4, <1>5, <1>6, <1>7, <1>8, <1>9, <1>10, <1>11, <1>12, <1>13, <1>14,
     <1>15
  DEF Next, WatchNext, WarmupNext

\* Every variable keeps its type (TypeOK), for any number of files and any bound.
THEOREM TypeCorrect == Spec => []TypeOK
<1>1. SnapInv => TypeOK
  BY DEF SnapInv, TypeInv
<1> QED
  BY InitSnap, SnapStep, <1>1, PTL DEF Spec

\* Only Savevm writes the snapshot, and takes it from the VM.
LEMMA OnlySavevm ==
  ASSUME [Next]_vars, snap' # snap
  PROVE  snap' = vm /\ upc = "push" /\ utodo = {}
<1>1. CASE Savevm
  BY <1>1 DEF Savevm
<1> QED
  BY <1>1 DEF Next, WatchNext, WarmupNext, vars, Save, RunTest, ConnectTimesOut, Revert, PushFile,
              BeginTests, RunTimesOut, FinishRun, Debounce, Warmup, WarmupPush, WarmupTimesOut,
              VmReset, FinishChunk

\* vm-warmup snapshots a daemon that is up and one chunk behind at most; if it did
\* its own bootstrap, with every source loaded, whatever failed on the way (make
\* vm-warmup, Makefile:277-297).
THEOREM SnapshotReady == Spec => SnapshotIsReady
<1> DEFINE Ready == snap' # snap =>
                      /\ snap'.daemon /\ Len(snap'.queue) <= 1
                      /\ ~early => snap'.queue = <<>> /\ \A f \in SrcFiles : snap'.loaded[f] > 0
<1>1. SnapInv /\ [Next]_vars => [Ready]_vars
  <2> SUFFICES ASSUME SnapInv, [Next]_vars, snap' # snap PROVE Ready
    OBVIOUS
  <2>1. snap' = vm /\ upc = "push" /\ utodo = {}
    BY OnlySavevm
  <2>2. vm.daemon /\ Len(vm.queue) <= 1 /\ (~early => vm.queue = <<>>)
    BY <2>1 DEF SnapInv, SnapRest, Alone
  <2>3. ~early => \A f \in SrcFiles : vm.loaded[f] > 0
    BY <2>1 DEF SnapInv, SnapRest, PushedIsLoaded
  <2> QED
    BY <2>1, <2>2, <2>3
<1> QED
  BY InitSnap, SnapStep, <1>1, PTL DEF Spec, SnapshotIsReady

\* A warmup that did not begin early never replaces a snapshot by one with older
\* sources, even if a savevm fails and the check that follows passes on the old
\* one (Makefile:290).
THEOREM SnapshotMovesOn == Spec => SnapshotAdvances
<1> DEFINE Advances == snap # Nothing /\ ~early =>
                         \A f \in SrcFiles : snap'.loaded[f] >= snap.loaded[f]
<1>1. SnapInv /\ [Next]_vars => [Advances]_vars
  <2> SUFFICES ASSUME SnapInv, [Next]_vars, snap # Nothing, ~early, NEW f \in SrcFiles
               PROVE  snap'.loaded[f] >= snap.loaded[f]
    OBVIOUS
  <2>1. snap.loaded[f] \in Nat /\ vm.loaded[f] \in Nat
    BY SnapTypes DEF SnapInv
  <2>2. CASE snap' = snap
    BY <2>1, <2>2
  <2>3. CASE snap' # snap
    <3>1. snap' = vm /\ upc = "push" /\ utodo = {}
      BY <2>3, OnlySavevm
    <3>2. snap.loaded[f] <= vm.loaded[f]
      BY <3>1 DEF SnapInv, SnapRest, PushedIsLoaded
    <3> QED
      BY <2>1, <3>1, <3>2
  <2> QED
    BY <2>2, <2>3
<1> QED
  BY InitSnap, SnapStep, <1>1, PTL DEF Spec, SnapshotAdvances

-----------------------------------------------------------------------------
(* The verdict. *)

LEMMA InitQuiet == Init => QuietInv
<1> SUFFICES ASSUME Init PROVE QuietRest
  BY InitSnap DEF QuietInv
<1>1. seen = NoVersions /\ verdict = Nothing /\ saves = 0 /\ wpc = "read"
  BY DEF Init
<1> QED
  BY <1>1, NoneSeen DEF QuietRest, SeenOrPending, VerdictIsLast, SaveStartsRun, RunCovers,
                        BadIsSeen, SeenCompiles, Running, PassCovers, FailHasCause

\* What happens to the VM between runs is nothing to the loop.
LEMMA LoopUntouched ==
  ASSUME TypeInv, QuietRest, ~Running, UNCHANGED <<warm, diskVars, pipe, watchVars>>,
         fails' = 0 => fails = 0
  PROVE  QuietRest'
<1>1. UNCHANGED <<warm, disk, broken, saves, pipe, wpc, todo, seen, verdict>>
  BY DEF diskVars, watchVars
<1>2. SeenOrPending' /\ VerdictIsLast' /\ SaveStartsRun'
  BY <1>1 DEF QuietRest, SeenOrPending, VerdictIsLast, SaveStartsRun, Pending, AtRest, Checked
<1>3. RunCovers' /\ PassCovers'
  BY <1>1 DEF QuietRest, RunCovers, PassCovers, AtRest, Checked, Pending
<1>4. FailHasCause'
  BY <1>1 DEF QuietRest, FailHasCause, Pending, AtRest
<1>5. BadIsSeen' /\ SeenCompiles'
  BY <1>1 DEF BadIsSeen, SeenCompiles, Running
<1> QED
  BY <1>2, <1>3, <1>4, <1>5 DEF QuietRest

\* A save reports its file, and takes no event out of the pipe.
LEMMA Reporting ==
  ASSUME NEW f \in Files, pipe \in Seq(Files), Report(f)
  PROVE  Pending(f)' /\ \A g : Pending(g) => Pending(g)'
<1>1. CASE pipe' = Append(pipe, f)
  <2>1. /\ Len(pipe') = Len(pipe) + 1 /\ Len(pipe) \in Nat /\ pipe'[Len(pipe) + 1] = f
        /\ \A n \in 1 .. Len(pipe) : pipe'[n] = pipe[n]
    BY <1>1
  <2> QED
    BY <2>1 DEF Pending
<1>2. CASE pipe # <<>> /\ pipe[Len(pipe)] = f /\ pipe' = pipe
  <2>1. Len(pipe) \in 1 .. Len(pipe)
    BY <1>2
  <2> QED
    BY <1>2, <2>1 DEF Pending
<1> QED
  BY <1>1, <1>2 DEF Report

LEMMA QuietSave ==
  ASSUME TypeInv, QuietRest, NEW f \in Files, NEW bad \in BOOLEAN, Save(f, bad)
  PROVE  QuietRest'
<1>1. UNCHANGED <<warm, wpc, todo, seen, verdict, early, vm, fails>>
  BY DEF Save, watchVars
<1>2. Pending(f)' /\ \A g : Pending(g) => Pending(g)'
  BY Reporting DEF Save, TypeInv, TypeOK
<1>3. \A g \in Files \ {f} : disk'[g] = disk[g] /\ (g \in broken <=> g \in broken')
  BY DEF Save, TypeInv, TypeOK
<1>4. DOMAIN seen \subseteq Files /\ (verdict # Nothing => DOMAIN verdict.seen \subseteq Files)
  BY DEF TypeInv, TypeOK, Versions, Verdicts
<1>5. SeenOrPending'
  BY <1>1, <1>2, <1>3, <1>4 DEF QuietRest, SeenOrPending, Checked
<1>6. VerdictIsLast' /\ RunCovers'
  BY <1>1 DEF QuietRest, VerdictIsLast, RunCovers, AtRest, Checked
<1>7. SaveStartsRun'
  BY <1>2 DEF SaveStartsRun
<1>8. FailHasCause'
  BY <1>1, <1>2, <1>3, <1>4 DEF QuietRest, FailHasCause, AtRest
<1>9. \A g \in Files : g \notin broken \/ Pending(g) => g \notin broken' \/ Pending(g)'
  BY <1>2, <1>3
<1>10. Checked \subseteq Files /\ Checked' = Checked
  BY <1>1 DEF Checked, Files
<1>11. PassCovers' /\ SeenCompiles'
  BY <1>1, <1>4, <1>9, <1>10 DEF QuietRest, PassCovers, SeenCompiles, Running, AtRest
<1>12. \A g \in Files : g \in broken \/ Pending(g) => g \in broken' \/ Pending(g)'
  BY <1>2, <1>3
<1>13. BadIsSeen'
  BY <1>1, <1>4, <1>12 DEF QuietRest, BadIsSeen, Running
<1> QED
  BY <1>5, <1>6, <1>7, <1>8, <1>11, <1>13 DEF QuietRest

\* The end of a run: what is left to show of its verdict.
LEMMA QuietEnd ==
  ASSUME TypeInv, QuietRest, NEW ok \in BOOLEAN, NEW saw \in Versions, EndRun(ok, saw),
         UNCHANGED <<warm, disk, broken>>,
         \A f \in DOMAIN saw \cap Checked : saw[f] = disk[f] \/ Pending(f)',
         ok => /\ Checked \subseteq DOMAIN saw
               /\ ~early => \A f \in Checked : f \notin broken \/ Pending(f)',
         ~ok /\ ~warm /\ fails' = 0 => \E f \in DOMAIN saw : f \in broken \/ Pending(f)'
  PROVE  QuietRest'
<1>1. /\ wpc' = "sleep" /\ seen' = saw /\ verdict' # Nothing
      /\ verdict'.ok = ok /\ verdict'.early = early /\ verdict'.seen = saw
  BY RunEnds DEF TypeInv
<1>2. SeenOrPending'
  BY <1>1 DEF SeenOrPending, Checked
<1>3. VerdictIsLast' /\ SaveStartsRun' /\ RunCovers' /\ BadIsSeen' /\ SeenCompiles'
  BY <1>1 DEF VerdictIsLast, SaveStartsRun, RunCovers, BadIsSeen, SeenCompiles, Running
<1>4. PassCovers'
  BY <1>1 DEF PassCovers, Checked
<1>5. FailHasCause'
  BY <1>1 DEF FailHasCause
<1> QED
  BY <1>2, <1>3, <1>4, <1>5 DEF QuietRest

\* A run that starts or goes on: only what it has seen and has to see matters.
LEMMA QuietOn ==
  ASSUME wpc' \notin {"read", "sleep"}, SeenOrPending', RunCovers', BadIsSeen', SeenCompiles'
  PROVE  QuietRest'
BY DEF QuietRest, AtRest, VerdictIsLast, SaveStartsRun, PassCovers, FailHasCause

\* A push of the script: how what it may still fail on, and what it has seen
\* compile, change.
LEMMA RunPush ==
  ASSUME TypeInv, QuietRest, Running, NEW f \in Files, vm.daemon,
         NEW saw, DOMAIN saw = DOMAIN seen \cup {f}
  PROVE  LET v == Pushed(vm, FileChunk(f)) IN
         /\ \A i \in 1 .. Len(v.queue) :
              ~warm /\ v.queue[i].bad =>
                \E g \in DOMAIN saw : g = v.queue[i].file /\ (g \in broken \/ Pending(g))
         /\ \A i \in 1 .. Len(Finished(v).queue) :
              ~warm /\ Finished(v).queue[i].bad =>
                \E g \in DOMAIN saw : g = Finished(v).queue[i].file /\ (g \in broken \/ Pending(g))
         /\ ~early => /\ Finished(v).queue = <<>>
                      /\ MayPass(v) => f \notin broken
<1> DEFINE c == FileChunk(f)
           v == Pushed(vm, c)
           Good(x) == ~warm /\ x.bad =>
                        \E g \in DOMAIN saw : g = x.file /\ (g \in broken \/ Pending(g))
<1>1. vm \in VmType /\ c \in Chunk
  BY SnapTypes, NewChunks
<1>2. Good(c)
  BY DEF FileChunk
<1>3. \A j \in 1 .. Len(vm.queue) : Good(vm.queue[j])
  BY DEF QuietRest, BadIsSeen
<1>4. c.bad = (f \in broken)
  BY DEF FileChunk
<1> HIDE DEF c, Good
<1>5. \A i \in 1 .. Len(v.queue) : Good(v.queue[i])
  BY <1>1, <1>2, <1>3, Pushing
<1>6. \A i \in 1 .. Len(Finished(v).queue) : Good(Finished(v).queue[i])
  BY <1>1, <1>2, <1>3, PushWait
<1>7. ~early => Finished(v).queue = <<>> /\ (MayPass(v) => f \notin broken)
  <2>1. ~early => vm.queue = <<>>
    BY DEF QuietRest, SeenCompiles
  <2> QED
    BY <1>1, <1>4, <2>1, PushWaitOwn
<1> QED
  BY <1>5, <1>6, <1>7 DEF c, Good

LEMMA QuietPush ==
  ASSUME TypeInv, QuietRest, NEW f \in Files, PushFile(f)
  PROVE  QuietRest'
<1> DEFINE saw == [g \in DOMAIN seen \cup {f} |-> IF g = f THEN disk[f] ELSE seen[g]]
           v   == Pushed(vm, FileChunk(f))
<1>1. UNCHANGED <<warm, disk, broken, pipe, early>> /\ Running
  BY DEF PushFile, diskVars, Running
<1>2. saw \in Versions
  BY OneMoreSeen DEF TypeInv
<1>3. \A g \in DOMAIN saw \cap Checked : saw[g] = disk[g] \/ Pending(g)
  BY DEF QuietRest, SeenOrPending
<1>4. f \in DOMAIN saw /\ DOMAIN saw = DOMAIN seen \cup {f}
  OBVIOUS
<1>5. \/ /\ vm.daemon /\ MayPass(v)
         /\ todo' = todo \ {f} /\ seen' = saw /\ vm' = Finished(v)
         /\ UNCHANGED <<wpc, verdict>>
      \/ vm.daemon /\ MayFail(v) /\ vm' = Finished(v) /\ EndRun(FALSE, saw)
      \/ ~vm.daemon /\ UNCHANGED vm /\ EndRun(FALSE, saw)
  BY DEF PushFile
<1> HIDE DEF saw
<1>6. ASSUME vm.daemon
      PROVE  /\ \A i \in 1 .. Len(v.queue) :
                  ~warm /\ v.queue[i].bad => \E g \in DOMAIN saw : g \in broken \/ Pending(g)
             /\ \A i \in 1 .. Len(Finished(v).queue) :
                  ~warm /\ Finished(v).queue[i].bad =>
                    \E g \in DOMAIN saw : g = Finished(v).queue[i].file /\ (g \in broken \/ Pending(g))
             /\ ~early => Finished(v).queue = <<>> /\ (MayPass(v) => f \notin broken)
             /\ Finished(v).daemon
  <2>1. vm \in VmType /\ FileChunk(f) \in Chunk
    BY SnapTypes, NewChunks
  <2>2. Finished(v).daemon
    BY <1>6, <2>1, PushWait
  <2> QED
    BY <1>1, <1>4, <1>6, <2>2, RunPush
<1> HIDE DEF v
<1>p. \A g : Pending(g)' = Pending(g)
  BY <1>1 DEF Pending
<1>7. CASE /\ vm.daemon /\ MayPass(v)
           /\ todo' = todo \ {f} /\ seen' = saw /\ vm' = Finished(v)
           /\ UNCHANGED <<wpc, verdict>>
  <2>1. SeenOrPending'
    BY <1>1, <1>3, <1>7, <1>p DEF SeenOrPending, Checked
  <2>2. RunCovers'
    <3>1. todo \cup DOMAIN seen \subseteq todo' \cup DOMAIN seen'
      BY <1>4, <1>7
    <3> QED
      BY <1>1, <1>7, <3>1 DEF QuietRest, RunCovers, Checked
  <2>3. BadIsSeen'
    BY <1>1, <1>6, <1>7, <1>p DEF BadIsSeen, Running
  <2>4. SeenCompiles'
    <3> SUFFICES ASSUME ~early
                 PROVE vm'.queue = <<>> /\ \A g \in DOMAIN saw \cap Checked : g \notin broken \/ Pending(g)
      BY <1>1, <1>7, <1>p DEF SeenCompiles, Checked
    <3>1. \A g \in DOMAIN seen \cap Checked : g \notin broken \/ Pending(g)
      BY <1>1 DEF QuietRest, SeenCompiles
    <3> QED
      BY <1>4, <1>6, <1>7, <3>1
  <2>5. wpc' \notin {"read", "sleep"}
    BY <1>1, <1>7 DEF Running
  <2> QED
    BY <2>1, <2>2, <2>3, <2>4, <2>5, QuietOn
<1>8. CASE vm.daemon /\ MayFail(v) /\ vm' = Finished(v) /\ EndRun(FALSE, saw)
  <2>1. ~warm => \E g \in DOMAIN saw : g \in broken \/ Pending(g)
    BY <1>6, <1>8 DEF MayFail
  <2>2. \A g \in DOMAIN saw \cap Checked : saw[g] = disk[g] \/ Pending(g)'
    BY <1>3, <1>p
  <2>3. ~warm => \E g \in DOMAIN saw : g \in broken \/ Pending(g)'
    BY <2>1, <1>p
  <2> QED
    BY <1>1, <1>2, <1>8, <2>2, <2>3, QuietEnd
<1>9. CASE ~vm.daemon /\ UNCHANGED vm /\ EndRun(FALSE, saw)
  <2>1. warm
    BY <1>1, <1>9 DEF QuietRest, BadIsSeen, TypeInv, TypeOK
  <2>2. \A g \in DOMAIN saw \cap Checked : saw[g] = disk[g] \/ Pending(g)'
    BY <1>3, <1>p
  <2> QED
    BY <1>1, <1>2, <1>9, <2>1, <2>2, QuietEnd
<1> QED
  BY <1>5, <1>7, <1>8, <1>9

LEMMA QuietBegin ==
  ASSUME TypeInv, QuietRest, BeginTests
  PROVE  QuietRest'
<1> DEFINE v == Pushed(vm, Marker)
<1>1. /\ UNCHANGED <<warm, disk, broken, pipe, seen, early>> /\ Running /\ wpc = "src" /\ todo = {}
      /\ wpc' = "tests" /\ todo' = TestFiles
      /\ \/ vm.daemon /\ vm' = Finished(v)
         \/ vm.daemon /\ vm.queue # <<>> /\ vm' = v
         \/ ~vm.daemon /\ UNCHANGED vm
  BY DEF BeginTests, diskVars, Running
<1>p. \A g : Pending(g)' = Pending(g)
  BY <1>1 DEF Pending
<1>t. vm \in VmType /\ Marker \in Chunk /\ Marker.bad = FALSE
  BY SnapTypes, NewChunks DEF Marker
<1>2. SeenOrPending'
  BY <1>1, <1>p DEF QuietRest, SeenOrPending, Checked
<1>3. RunCovers'
  BY <1>1 DEF QuietRest, RunCovers, Checked, Files
<1>4. BadIsSeen'
  <2> SUFFICES ASSUME ~warm
               PROVE  /\ vm'.daemon
                      /\ \A i \in 1 .. Len(vm'.queue) :
                           vm'.queue[i].bad =>
                             \E g \in DOMAIN seen : g = vm'.queue[i].file /\ (g \in broken \/ Pending(g))
    BY <1>1, <1>p DEF BadIsSeen
  <2>1. vm.daemon
    BY <1>1 DEF QuietRest, BadIsSeen
  <2>2. \A j \in 1 .. Len(vm.queue) :
           vm.queue[j].bad =>
             \E g \in DOMAIN seen : g = vm.queue[j].file /\ (g \in broken \/ Pending(g))
    BY <1>1 DEF QuietRest, BadIsSeen
  <2>3. /\ vm'.daemon
        /\ \A i \in 1 .. Len(vm'.queue) :
             vm'.queue[i] = Marker \/ \E j \in 1 .. Len(vm.queue) : vm'.queue[i] = vm.queue[j]
    BY <1>1, <1>t, <2>1, Pushing, PushWait
  <2> QED
    BY <1>t, <2>2, <2>3
<1>5. SeenCompiles'
  <2> SUFFICES ASSUME ~early
               PROVE  vm'.queue = <<>> /\ \A g \in DOMAIN seen \cap Checked : g \notin broken \/ Pending(g)
    BY <1>1, <1>p DEF SeenCompiles, Checked
  <2>1. vm.queue = <<>> /\ \A g \in DOMAIN seen \cap Checked : g \notin broken \/ Pending(g)
    BY <1>1 DEF QuietRest, SeenCompiles
  <2> QED
    BY <1>1, <1>t, <2>1, PushWaitOwn
<1> QED
  BY <1>1, <1>2, <1>3, <1>4, <1>5, QuietOn

LEMMA QuietRevert ==
  ASSUME TypeInv, QuietRest, Revert
  PROVE  QuietRest'
<1>1. UNCHANGED <<warm, disk, broken, pipe>> /\ warm
  BY DEF Revert, diskVars, QuietRest, RunCovers
<1>2. CASE EndRun(FALSE, NoVersions)
  BY <1>1, <1>2, NoneSeen, QuietEnd
<1>3. CASE /\ wpc' = "src" /\ todo' = {}
           /\ seen' = vm'.loaded /\ vm' \in VmType /\ early' = (vm'.queue # <<>>)
  <2>1. DOMAIN seen' = SrcFiles
    BY <1>3, LoadedSeen
  <2>2. DOMAIN seen' \cap Checked' = {}
    BY <1>1, <2>1, FilesAssumption DEF Checked
  <2>3. SeenOrPending' /\ SeenCompiles'
    BY <1>3, <2>2 DEF SeenOrPending, SeenCompiles
  <2>4. RunCovers' /\ BadIsSeen'
    BY <1>1, <1>3 DEF RunCovers, BadIsSeen
  <2> QED
    BY <1>3, <2>3, <2>4, QuietOn
<1>4. vm \in VmType /\ (snap # Nothing => snap \in VmType)
  BY SnapTypes
<1> QED
  BY <1>2, <1>3, <1>4 DEF Revert

LEMMA QuietFinish ==
  ASSUME TypeInv, QuietRest, FinishChunk
  PROVE  QuietRest'
<1>1. /\ UNCHANGED <<warm, disk, broken, saves, pipe, wpc, todo, seen, verdict, early, fails>>
      /\ vm.queue # <<>> /\ vm' = Finished(vm)
  BY DEF FinishChunk, diskVars, watchVars
<1>2. SeenOrPending' /\ VerdictIsLast' /\ SaveStartsRun'
  BY <1>1 DEF QuietRest, SeenOrPending, VerdictIsLast, SaveStartsRun, Pending, AtRest, Checked
<1>3. RunCovers' /\ PassCovers' /\ FailHasCause'
  BY <1>1 DEF QuietRest, RunCovers, PassCovers, FailHasCause, AtRest, Checked, Pending
<1>4. BadIsSeen'
  <2>1. /\ vm'.daemon = vm.daemon
        /\ \A i \in 1 .. Len(vm'.queue) :
             i + 1 \in 1 .. Len(vm.queue) /\ vm'.queue[i] = vm.queue[i + 1]
    BY <1>1, SnapTypes, Finishing
  <2> QED
    BY <1>1, <2>1 DEF QuietRest, BadIsSeen, Running, Pending
<1>5. SeenCompiles'
  BY <1>1 DEF QuietRest, SeenCompiles, Running
<1> QED
  BY <1>2, <1>3, <1>4, <1>5 DEF QuietRest

LEMMA QuietStep == QuietInv /\ [Next]_vars => QuietInv'
<1> SUFFICES ASSUME TypeInv, SnapRest, QuietRest, [Next]_vars PROVE QuietRest'
  BY SnapStep DEF QuietInv, SnapInv
<1>n. fails \in Nat
  BY DEF TypeInv, TypeOK
<1>1. ASSUME NEW f \in Files, NEW bad \in BOOLEAN, Save(f, bad) PROVE QuietRest'
  BY <1>1, QuietSave
<1>2. ASSUME RunTest PROVE QuietRest'
  <2>1. /\ warm' = warm /\ seen' = NoVersions
        /\ \/ warm /\ wpc' = "revert"
           \/ ~warm /\ wpc' = "src" /\ todo' = SrcFiles /\ Connect
    BY <1>2 DEF RunTest
  <2>2. SeenOrPending' /\ RunCovers'
    BY <2>1, NoneSeen DEF SeenOrPending, RunCovers
  <2>3. BadIsSeen' /\ SeenCompiles'
    <3>1. CASE wpc' = "revert"
      BY <3>1 DEF BadIsSeen, SeenCompiles, Running
    <3>2. CASE Connect
      <4>1. /\ vm'.daemon /\ (~early' => vm'.queue = <<>>)
            /\ \A i \in 1 .. Len(vm'.queue) : vm'.queue[i] = Marker
        BY <3>2, SnapTypes, Connecting DEF SnapRest, TypeInv
      <4>2. Marker.bad = FALSE
        BY DEF Marker
      <4> QED
        BY <2>1, <4>1, <4>2, NoneSeen DEF BadIsSeen, SeenCompiles
    <3> QED
      BY <2>1, <3>1, <3>2
  <2> QED
    BY <2>1, <2>2, <2>3, QuietOn
<1>3. ASSUME ConnectTimesOut PROVE QuietRest'
  <2>1. /\ UNCHANGED <<warm, disk, broken>> /\ EndRun(FALSE, NoVersions)
        /\ fails' = fails + 1
    BY <1>3 DEF ConnectTimesOut, diskVars
  <2>2. fails' # 0
    BY <1>n, <2>1
  <2> QED
    BY <2>1, <2>2, NoneSeen, QuietEnd
<1>4. ASSUME Revert PROVE QuietRest'
  BY <1>4, QuietRevert
<1>5. ASSUME NEW f \in Files, PushFile(f) PROVE QuietRest'
  BY <1>5, QuietPush
<1>6. ASSUME BeginTests PROVE QuietRest'
  BY <1>6, QuietBegin
<1>7. ASSUME RunTimesOut PROVE QuietRest'
  <2>1. /\ UNCHANGED <<warm, disk, broken, pipe>> /\ EndRun(FALSE, seen)
        /\ fails' = fails + 1
    BY <1>7 DEF RunTimesOut, diskVars
  <2>2. seen \in Versions /\ fails' # 0
    BY <1>n, <2>1 DEF TypeInv, TypeOK
  <2>3. \A f \in DOMAIN seen \cap Checked : seen[f] = disk[f] \/ Pending(f)'
    BY <2>1 DEF QuietRest, SeenOrPending, Pending
  <2> QED
    BY <2>1, <2>2, <2>3, QuietEnd
<1>8. ASSUME FinishRun PROVE QuietRest'
  <2>1. /\ UNCHANGED <<warm, disk, broken, pipe, early>> /\ EndRun(vm.daemon, seen)
        /\ wpc = "tests" /\ todo = {} /\ Running
    BY <1>8 DEF FinishRun, diskVars, Running
  <2>2. seen \in Versions /\ Checked \subseteq DOMAIN seen /\ vm.daemon \in BOOLEAN
    BY <2>1 DEF TypeInv, TypeOK, VmType, QuietRest, RunCovers
  <2>3. ~early => \A f \in Checked : f \notin broken \/ Pending(f)'
    BY <2>1, <2>2 DEF QuietRest, SeenCompiles, Pending
  <2>4. \A f \in DOMAIN seen \cap Checked : seen[f] = disk[f] \/ Pending(f)'
    BY <2>1 DEF QuietRest, SeenOrPending, Pending
  <2>5. ~warm => vm.daemon
    BY <2>1 DEF QuietRest, BadIsSeen
  <2> QED
    BY <2>1, <2>2, <2>3, <2>4, <2>5, QuietEnd
<1>9. ASSUME Debounce PROVE QuietRest'
  <2>1. /\ UNCHANGED <<warm, disk, broken, saves, pipe, todo, seen, verdict, vm, fails>>
        /\ wpc = "sleep" /\ wpc' = "read"
    BY <1>9 DEF Debounce, diskVars
  <2>2. SeenOrPending' /\ VerdictIsLast' /\ SaveStartsRun'
    BY <2>1 DEF QuietRest, SeenOrPending, VerdictIsLast, SaveStartsRun, Pending, AtRest, Checked
  <2>3. RunCovers' /\ PassCovers' /\ BadIsSeen' /\ SeenCompiles'
    BY <2>1 DEF QuietRest, RunCovers, PassCovers, BadIsSeen, SeenCompiles, Running, AtRest, Checked,
                Pending
  <2>4. FailHasCause'
    BY <2>1 DEF QuietRest, FailHasCause, Pending, AtRest
  <2> QED
    BY <2>2, <2>3, <2>4 DEF QuietRest
<1>10. ASSUME Warmup \/ VmReset PROVE QuietRest'
  <2>1. UNCHANGED <<warm, diskVars, pipe, watchVars, fails>> /\ ~Running
    BY <1>10 DEF Warmup, VmReset, BetweenRuns, Running
  <2> QED
    BY <2>1, LoopUntouched
<1>11. ASSUME \/ \E f \in SrcFiles : WarmupPush(f)
              \/ WarmupTimesOut \/ Savevm
       PROVE  QuietRest'
  <2>1. /\ UNCHANGED <<warm, diskVars, pipe, watchVars>> /\ upc = "push"
        /\ fails' \in {fails, fails + 1}
    BY <1>11 DEF WarmupPush, WarmupTimesOut, Savevm
  <2>2. ~Running
    BY <2>1 DEF SnapRest, Alone, Running
  <2>3. fails' = 0 => fails = 0
    BY <1>n, <2>1
  <2> QED
    BY <2>1, <2>2, <2>3, LoopUntouched
<1>12. ASSUME FinishChunk PROVE QuietRest'
  BY <1>12, QuietFinish
<1>13. CASE UNCHANGED vars
  BY <1>13 DEF vars, diskVars, watchVars, QuietRest, SeenOrPending, VerdictIsLast, SaveStartsRun,
               RunCovers, BadIsSeen, SeenCompiles, Running, PassCovers, FailHasCause, AtRest,
               Checked, Pending
<1> QED
  BY <1>1, <1>2, <1>3, <1>4, <1>5, <1>6, <1>7, <1>8, <1>9, <1>10, <1>11, <1>12, <1>13
  DEF Next, WatchNext, WarmupNext

\* When the watch loop is at rest, its last verdict is about what is on disk: no
\* save is missed, wherever it falls, a failure has a cause that is still there,
\* and a pass that did not begin early means that everything compiles
\* (watch.sh:85-104).
THEOREM NoSaveMissed == Spec => []QuietIsCurrent
<1>1. QuietInv => QuietIsCurrent
  <2> SUFFICES ASSUME QuietInv, Quiet, saves > 0 PROVE
        /\ verdict # Nothing
        /\ \A f \in DOMAIN verdict.seen \cap Checked : verdict.seen[f] = disk[f]
        /\ verdict.ok => Checked \subseteq DOMAIN verdict.seen
        /\ verdict.ok /\ ~verdict.early => Checked \cap broken = {}
        /\ ~verdict.ok /\ ~warm /\ fails = 0 => \E f \in DOMAIN verdict.seen : f \in broken
    BY DEF QuietIsCurrent
  <2>1. AtRest /\ \A f : ~Pending(f)
    BY DEF Quiet, AtRest, Pending
  <2>2. verdict # Nothing
    BY <2>1 DEF QuietInv, QuietRest, SaveStartsRun
  <2> QED
    BY <2>1, <2>2 DEF QuietInv, QuietRest, SeenOrPending, VerdictIsLast, PassCovers, FailHasCause
<1> QED
  BY InitQuiet, QuietStep, <1>1, PTL DEF Spec

=============================================================================
