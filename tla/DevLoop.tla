-------------------------------- MODULE DevLoop --------------------------------
(***************************************************************************)
(* The edit-save-test loop: scripts/watch.sh and the Makefile targets it   *)
(* drives, test-temple (cold, or WARM=1 from the snapshot `ready`),        *)
(* vm-warmup, vm-revert and vm-reset.                                      *)
(*                                                                         *)
(* A file's content is the number of times it was saved, and it compiles   *)
(* or not by itself.  A run of temple-run.py is abstracted to the files it *)
(* reads, one at a time, the D_DONE its waits take for theirs, and its     *)
(* exit code (TempleRun has the rest).  One host at a time drives the VM:  *)
(* the developer starts vm-warmup and vm-reset between two test runs.      *)
(***************************************************************************)
EXTENDS Naturals, Sequences

CONSTANTS
  SrcFiles,   \* phase 1: src/*.ZC and Assert.ZC
  TestFiles,  \* phase 2: tests/T_*.ZC
  Nothing,    \* no snapshot, no verdict
  MaxSaves, MaxWarmups, MaxResets, MaxFails   \* bounds

Files == SrcFiles \cup TestFiles

\* The versions some of the files have, or had when a run read them.
Versions   == UNION {[S -> 0 .. MaxSaves + 1] : S \in SUBSET Files}
NoVersions == [f \in {} |-> 0]
Verdicts   == [ok : BOOLEAN, early : BOOLEAN, seen : Versions]

\* A pushed chunk: a file as it was read, or (Marker) a statement of the script.
Chunk  == [file : Files \cup {Nothing}, ver : 0 .. MaxSaves + 1, bad : BOOLEAN]
Marker == [file |-> Nothing, ver |-> 0, bad |-> FALSE]

\* Is the daemon up, which src versions are loaded, and the chunks whose D_DONE
\* has not been printed.
VmType == [daemon : BOOLEAN, loaded : [SrcFiles -> 0 .. MaxSaves + 1], queue : Seq(Chunk)]

ASSUME FilesAssumption == SrcFiles \cap TestFiles = {}
ASSUME NothingAssumption == Nothing \notin VmType /\ Nothing \notin Verdicts /\ Nothing \notin Files
ASSUME BoundsAssumption ==
  MaxSaves \in Nat /\ MaxWarmups \in Nat /\ MaxResets \in Nat /\ MaxFails \in Nat

VARIABLES
  warm,     \* WARM=1
  disk,     \* the version of each file
  broken,   \* the files whose version does not compile
  pipe,     \* paths written by the watcher, not yet read by the loop
  wpc,      \* the loop: "read", "revert", "src", "tests", "sleep"
  todo,     \* files the current phase still has to push
  seen,     \* the versions the current run's verdict is about
  verdict,  \* the last run's exit and what it saw
  upc,      \* vm-warmup: "idle", "push"
  utodo,    \* files it still has to push
  early,    \* the script began with a D_DONE on its way that its first wait takes
  vm,       \* the live VM
  snap,     \* the snapshot `ready`
  saves, warmups, resets, fails

diskVars  == <<disk, broken, saves>>
watchVars == <<wpc, todo, seen, verdict>>
warmVars  == <<upc, utodo, warmups>>
vars == <<warm, diskVars, pipe, watchVars, warmVars, early, vm, snap, resets, fails>>

Booted == [daemon |-> FALSE, loaded |-> [f \in SrcFiles |-> 0], queue |-> <<>>]

Init ==
  /\ warm \in BOOLEAN
  /\ disk = [f \in Files |-> 1] /\ broken = {} /\ pipe = <<>>
  /\ wpc = "read" /\ todo = {} /\ seen = NoVersions /\ verdict = Nothing
  /\ upc = "idle" /\ utodo = {}
  /\ vm = Booted /\ snap = Nothing /\ early = FALSE
  /\ saves = 0 /\ warmups = 0 /\ resets = 0 /\ fails = 0

-----------------------------------------------------------------------------
(***************************************************************************)
(* The editor and the watcher.                                             *)
(***************************************************************************)
\* fswatch batches the events of its latency; inotifywait writes each of them.
Report(f) ==
  \/ pipe' = Append(pipe, f)
  \/ pipe # <<>> /\ pipe[Len(pipe)] = f /\ pipe' = pipe

Save(f, bad) ==
  /\ saves < MaxSaves
  /\ saves' = saves + 1
  /\ disk' = [disk EXCEPT ![f] = @ + 1]
  /\ broken' = IF bad THEN broken \cup {f} ELSE broken \ {f}
  /\ Report(f)
  /\ UNCHANGED <<warm, watchVars, warmVars, early, vm, snap, resets, fails>>

-----------------------------------------------------------------------------
(***************************************************************************)
(* The daemon and the waits of push_and_wait.                              *)
(***************************************************************************)
\* The oldest chunk is run to its D_DONE: a source that compiles is loaded.
Finished(v) ==
  LET c == Head(v.queue) IN
  [v EXCEPT !.queue = Tail(@),
            !.loaded = [f \in SrcFiles |-> IF c.file = f /\ ~c.bad THEN c.ver ELSE @[f]]]

Pushed(v, c) == [v EXCEPT !.queue = Append(@, c)]

FileChunk(f) == [file |-> f, ver |-> disk[f], bad |-> f \in broken]

\* A wait takes the first D_DONE after the push, that is the oldest chunk's.  It
\* sees a COMPILE_FAIL that is in the log by then, of any chunk; but the one of a
\* chunk older than the push may be in the log before the push.
MayPass(v) == Head(v.queue).bad => Len(v.queue) > 1
MayFail(v) == \E i \in 1 .. Len(v.queue) : v.queue[i].bad

FinishChunk ==
  /\ vm.queue # <<>>
  /\ vm' = Finished(vm)
  /\ UNCHANGED <<warm, diskVars, pipe, watchVars, warmVars, early, snap, resets, fails>>

\* The bootstrap, or the probe of a daemon that is up and at rest.  The probe is
\* answered by its echo: its own D_DONE may be in the log by now, or still to come.
Connect ==
  /\ \/ ~vm.daemon /\ vm' = [vm EXCEPT !.daemon = TRUE]
     \/ vm.daemon /\ vm.queue = <<>> /\ (vm' = vm \/ vm' = Pushed(vm, Marker))
  /\ early' = (vm'.queue # <<>>)

-----------------------------------------------------------------------------
(***************************************************************************)
(* watch.sh: while read path; do run_test; sleep; done                     *)
(***************************************************************************)
\* make test-temple: vm-revert first when WARM=1, else temple-run.py, which
\* connects by itself.
RunTest ==
  /\ wpc = "read" /\ upc = "idle" /\ pipe # <<>>
  /\ pipe' = Tail(pipe)
  /\ seen' = NoVersions
  /\ \/ warm /\ wpc' = "revert" /\ todo' = {} /\ UNCHANGED <<early, vm>>
     \/ ~warm /\ wpc' = "src" /\ todo' = SrcFiles /\ Connect
  /\ UNCHANGED <<warm, diskVars, verdict, warmVars, snap, resets, fails>>

\* Mutant: the loop ends with the first run that fails.
EndRunStops(ok, saw) ==
  /\ wpc' = IF ok THEN "sleep" ELSE "stopped"
  /\ todo' = {}
  /\ seen' = saw
  /\ verdict' = [ok |-> ok, early |-> early, seen |-> saw]

\* Non-zero or not, the loop re-arms.
EndRun(ok, saw) ==
  /\ wpc' = "sleep"
  /\ todo' = {}
  /\ seen' = saw
  /\ verdict' = [ok |-> ok, early |-> early, seen |-> saw]

\* The bootstrap is not answered; or the probe is not, by a daemon that is still
\* busy, and then the bootstrap is typed at a REPL that nobody reads.
ConnectTimesOut ==
  /\ wpc = "read" /\ upc = "idle" /\ pipe # <<>> /\ ~warm /\ fails < MaxFails
  /\ fails' = fails + 1
  /\ pipe' = Tail(pipe)
  /\ \/ ~vm.daemon /\ UNCHANGED vm
     \/ vm.daemon /\ vm.queue # <<>> /\ vm' = Pushed(vm, Marker)
  /\ EndRun(FALSE, NoVersions)
  /\ UNCHANGED <<warm, diskVars, warmVars, early, snap, resets>>

\* temple-run.py --tests-only on what loadvm restored, without a probe.  The
\* monitor's answer is not looked at: when loadvm fails the run goes on with the
\* VM as it is.
Revert ==
  /\ wpc = "revert"
  /\ \/ /\ snap = Nothing
        /\ EndRun(FALSE, NoVersions)
        /\ UNCHANGED <<early, vm, fails>>
     \/ /\ snap # Nothing
        /\ \/ vm' = snap /\ UNCHANGED fails
           \/ vm' = vm /\ fails < MaxFails /\ fails' = fails + 1
        /\ wpc' = "src" /\ todo' = {} /\ seen' = vm'.loaded
        /\ early' = (vm'.queue # <<>>)
        /\ UNCHANGED verdict
  /\ UNCHANGED <<warm, diskVars, pipe, warmVars, snap, resets>>

\* Read one file, push it, wait.  A compile error seen or a daemon that is not
\* there ends the run with exit 1.
PushFile(f) ==
  /\ wpc \in {"src", "tests"} /\ f \in todo
  /\ LET saw == [g \in DOMAIN seen \cup {f} |-> IF g = f THEN disk[f] ELSE seen[g]]
         v   == Pushed(vm, FileChunk(f))
     IN \/ /\ vm.daemon /\ MayPass(v)
           /\ todo' = todo \ {f} /\ seen' = saw /\ vm' = Finished(v)
           /\ UNCHANGED <<wpc, verdict>>
        \/ vm.daemon /\ MayFail(v) /\ vm' = Finished(v) /\ EndRun(FALSE, saw)
        \/ ~vm.daemon /\ UNCHANGED vm /\ EndRun(FALSE, saw)
  /\ UNCHANGED <<warm, diskVars, pipe, warmVars, early, snap, resets, fails>>

\* TEST_RUN_BEGIN: what its wait returns is not looked at, a COMPILE_FAIL or a
\* timeout behind a chunk that takes too long among it.
BeginTests ==
  /\ wpc = "src" /\ todo = {}
  /\ wpc' = "tests" /\ todo' = TestFiles
  /\ \/ vm.daemon /\ vm' = Finished(Pushed(vm, Marker))
     \/ vm.daemon /\ vm.queue # <<>> /\ vm' = Pushed(vm, Marker)
     \/ ~vm.daemon /\ UNCHANGED vm
  /\ UNCHANGED <<warm, diskVars, pipe, seen, verdict, warmVars, early, snap, resets, fails>>

\* A push or TEST_RUN_END is not answered in time: what was pushed stays behind.
RunTimesOut ==
  /\ wpc \in {"src", "tests"} /\ fails < MaxFails
  /\ fails' = fails + 1
  /\ \/ UNCHANGED vm
     \/ \E f \in todo : vm.daemon /\ vm' = Pushed(vm, FileChunk(f))
  /\ EndRun(FALSE, seen)
  /\ UNCHANGED <<warm, diskVars, pipe, warmVars, early, snap, resets>>

\* TEST_RUN_END, the last chunk's own print: everything before it is done.
FinishRun ==
  /\ wpc = "tests" /\ todo = {} /\ vm.queue = <<>>
  /\ EndRun(vm.daemon, seen)
  /\ UNCHANGED <<warm, diskVars, pipe, warmVars, early, vm, snap, resets, fails>>

\* Mutant: the sleep drains what arrived during the run, as its comment says.
DebounceDrains ==
  /\ wpc = "sleep"
  /\ wpc' = "read" /\ pipe' = <<>>
  /\ UNCHANGED <<warm, diskVars, todo, seen, verdict, warmVars, early, vm, snap, resets, fails>>

\* The comment says "drain any stacked events"; the code sleeps.
Debounce ==
  /\ wpc = "sleep"
  /\ wpc' = "read"
  /\ UNCHANGED <<warm, diskVars, pipe, todo, seen, verdict, warmVars, early, vm, snap, resets,
                 fails>>

-----------------------------------------------------------------------------
(***************************************************************************)
(* make vm-warmup and make vm-reset.                                       *)
(***************************************************************************)
BetweenRuns == wpc \in {"read", "sleep"} /\ upc = "idle"

\* Mutant: temple-run.py --tests-only, which pushes nothing of src/.
WarmupTestsOnly ==
  /\ BetweenRuns /\ warmups < MaxWarmups
  /\ warmups' = warmups + 1
  /\ upc' = "push" /\ utodo' = {}
  /\ Connect
  /\ UNCHANGED <<warm, diskVars, pipe, watchVars, snap, resets, fails>>

\* temple-run.py --keep-daemon
Warmup ==
  /\ BetweenRuns /\ warmups < MaxWarmups
  /\ warmups' = warmups + 1
  /\ upc' = "push" /\ utodo' = SrcFiles
  /\ Connect
  /\ UNCHANGED <<warm, diskVars, pipe, watchVars, snap, resets, fails>>

\* Mutant: make ignores that temple-run.py failed.
WarmupPushAnyway(f) ==
  /\ upc = "push" /\ f \in utodo
  /\ LET v == Pushed(vm, FileChunk(f)) IN
     /\ vm' = Finished(v)
     /\ \/ MayPass(v) /\ utodo' = utodo \ {f} /\ UNCHANGED upc
        \/ MayFail(v) /\ utodo' = {} /\ UNCHANGED upc
  /\ UNCHANGED <<warm, diskVars, pipe, watchVars, warmups, early, snap, resets, fails>>

\* A compile error that the script sees fails the recipe before savevm.
WarmupPush(f) ==
  /\ upc = "push" /\ f \in utodo
  /\ LET v == Pushed(vm, FileChunk(f)) IN
     /\ vm' = Finished(v)
     /\ \/ MayPass(v) /\ utodo' = utodo \ {f} /\ UNCHANGED upc
        \/ MayFail(v) /\ utodo' = {} /\ upc' = "idle"
  /\ UNCHANGED <<warm, diskVars, pipe, watchVars, warmups, early, snap, resets, fails>>

WarmupTimesOut ==
  /\ upc = "push" /\ fails < MaxFails
  /\ fails' = fails + 1
  /\ \E f \in utodo : vm' = Pushed(vm, FileChunk(f))
  /\ upc' = "idle" /\ utodo' = {}
  /\ UNCHANGED <<warm, diskVars, pipe, watchVars, warmups, early, snap, resets>>

\* The monitor's answer is not looked at here either, and the check that follows
\* finds a snapshot of that name when an earlier warmup left one.
Savevm ==
  /\ upc = "push" /\ utodo = {}
  /\ \/ snap' = vm /\ UNCHANGED fails
     \/ fails < MaxFails /\ fails' = fails + 1 /\ UNCHANGED snap
  /\ upc' = "idle"
  /\ UNCHANGED <<warm, diskVars, pipe, watchVars, utodo, warmups, early, vm, resets>>

\* A fresh boot; the snapshot stays in the qcow2.
VmReset ==
  /\ BetweenRuns /\ resets < MaxResets
  /\ resets' = resets + 1
  /\ vm' = Booted
  /\ UNCHANGED <<warm, diskVars, pipe, watchVars, warmVars, early, snap, fails>>

WatchNext ==
  \/ RunTest \/ ConnectTimesOut \/ Revert \/ (\E f \in Files : PushFile(f))
  \/ BeginTests \/ RunTimesOut \/ FinishRun \/ Debounce

WarmupNext == (\E f \in SrcFiles : WarmupPush(f)) \/ WarmupTimesOut \/ Savevm

Next ==
  \/ \E f \in Files, bad \in BOOLEAN : Save(f, bad)
  \/ WatchNext \/ Warmup \/ WarmupNext \/ VmReset \/ FinishChunk

Spec == Init /\ [][Next]_vars

\* The loop, make and the guest run; temple-run.py ends (TempleRun's
\* ScriptTerminates).
FairSpec == Spec /\ WF_vars(WatchNext) /\ WF_vars(WarmupNext) /\ WF_vars(FinishChunk)

-----------------------------------------------------------------------------
\* The types of the variables.
TypeOK ==
  /\ warm \in BOOLEAN /\ disk \in [Files -> 1 .. MaxSaves + 1] /\ broken \subseteq Files
  /\ pipe \in Seq(Files) /\ wpc \in {"read", "revert", "src", "tests", "sleep"}
  /\ todo \subseteq Files /\ seen \in Versions /\ verdict \in Verdicts \cup {Nothing}
  /\ upc \in {"idle", "push"} /\ utodo \subseteq SrcFiles
  /\ early \in BOOLEAN /\ vm \in VmType /\ snap \in VmType \cup {Nothing}
  /\ saves \in 0 .. MaxSaves /\ warmups \in 0 .. MaxWarmups
  /\ resets \in 0 .. MaxResets /\ fails \in 0 .. MaxFails

\* Every event is read and every run is over.
Quiet == wpc = "read" /\ pipe = <<>>

\* The files a run reads itself.
Checked == IF warm THEN TestFiles ELSE Files

\* When the loop is quiet, its last verdict is about what is on disk: no save
\* made before, during or after the run that saw the file is missed, a failure has
\* a cause, and a pass means that everything compiles, unless the run probed a
\* live daemon and so began one D_DONE early.  (With WARM=1 this holds of tests/
\* only: src/ is what vm-warmup pushed.)
QuietIsCurrent ==
  Quiet /\ saves > 0 =>
    /\ verdict # Nothing
    /\ \A f \in DOMAIN verdict.seen \cap Checked : verdict.seen[f] = disk[f]
    /\ verdict.ok => Checked \subseteq DOMAIN verdict.seen
    /\ verdict.ok /\ ~verdict.early => Checked \cap broken = {}
    /\ ~verdict.ok /\ ~warm /\ fails = 0 => \E f \in DOMAIN verdict.seen : f \in broken

\* vm-warmup takes a snapshot of a VM whose daemon is up and has at most one chunk
\* to finish.  When it did its own bootstrap, nothing is unfinished and every
\* source is loaded; after a probe the last file may still be compiling, and any
\* may have failed unseen.
SnapshotIsReady ==
  [][snap' # snap =>
       /\ snap'.daemon /\ Len(snap'.queue) <= 1
       /\ ~early => snap'.queue = <<>> /\ \A f \in SrcFiles : snap'.loaded[f] > 0]_vars

\* A warmup that did not begin early never replaces a snapshot by one with an
\* older source, whatever failed, was reset or was saved since.
SnapshotAdvances ==
  [][snap # Nothing /\ ~early =>
       \A f \in SrcFiles : snap'.loaded[f] >= snap.loaded[f]]_vars

\* When saves stop, the loop comes to rest whatever the runs said (re-arming).
ComesToRest == <>[]Quiet
=============================================================================
