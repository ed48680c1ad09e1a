--------------------------- MODULE TempleRunProofs ---------------------------
(***************************************************************************)
(* Proofs about TempleRun, for every battery, any number of runs and any   *)
(* number of interrupts: its types, the order of the log and what a probe  *)
(* means; then what a run finds and what it leaves: the loop that its own  *)
(* bootstrap starts begins clean, a run that ends well leaves a daemon     *)
(* that serves, and a wait hears what it waits for.                        *)
(***************************************************************************)
EXTENDS TempleRun, TLAPS

(***************************************************************************)
(* The tables of the script.                                               *)
(***************************************************************************)
LEMMA Tables ==
  /\ DOMAIN Awaits = {"d_ok", "v2", "d_exit", "d2_ok", "probe", "src_wait", "begin",
                      "test_wait", "final", "stop"}
  /\ DOMAIN AfterWait = {"probe", "d_ok", "v2", "d_exit", "d2_ok", "stop"}
  /\ \A p \in DOMAIN AfterWait :
       AfterWait[p] \in {"src", "push_v2", "push_exit", "call_d2", "cmd"}
  /\ AfterWait["probe"] = "src"
BY DEF Awaits, AfterWait

\* The five command lines of the bootstrap, and the other two the script types,
\* are lines of the model.
LEMMA Commands ==
  /\ Len(BOOTSTRAP_CMDS) = 5
  /\ \A i \in 1 .. 5 : BOOTSTRAP_CMDS[i] \in Lines
  /\ "call_d2" \in Lines /\ "cmd" \in Lines
BY DEF BOOTSTRAP_CMDS, Lines

\* The files a run pushes are files of the battery.
LEMMA TodoFiles ==
  ASSUME NEW m \in AllModes
  PROVE  /\ Phase1(m) \in Seq(Files) /\ Todo(m) \in Seq(Files)
         /\ Len(Phase1(m)) <= Len(Todo(m))
         /\ \A i \in 1 .. Len(Phase1(m)) : Todo(m)[i] = Phase1(m)[i]
<1>1. SrcFiles \in Seq(Files) /\ TestFiles \in Seq(Files) /\ Assert \in Files
  BY FilesAssumption DEF Files
<1>2. Phase1(m) \in Seq(Files)
  BY <1>1 DEF Phase1
<1> QED
  BY <1>1, <1>2 DEF Todo

\* The texts of a chunk: those torn before it, and its own.
LEMMA TextsShape ==
  ASSUME NEW c \in Chunk
  PROVE  /\ Texts(c) \in Seq(Text) /\ Len(Texts(c)) = Len(c.behind) + 1
         /\ c.behind \in Seq(Text) /\ Len(c.behind) \in Nat
         /\ Texts(c)[Len(Texts(c))] = [kind |-> c.kind, file |-> c.file, bad |-> c.bad]
         /\ Texts(c)[Len(Texts(c))].kind = c.kind
         /\ \A i \in 1 .. Len(c.behind) : Texts(c)[i] = c.behind[i]
<1>1. c.behind \in Seq(Text) /\ c.kind \in Kinds /\ c.file \in Files \cup {NoFile}
      /\ c.bad \in BOOLEAN
  BY DEF Chunk
<1>2. [kind |-> c.kind, file |-> c.file, bad |-> c.bad] \in Text
  BY <1>1 DEF Text
<1> QED
  BY <1>1, <1>2 DEF Texts

-----------------------------------------------------------------------------
(***************************************************************************)
(* Type correctness.  TypeOK is not inductive: a chunk being executed must *)
(* be one that was taken, and the user's chunks must carry a file.         *)
(***************************************************************************)
OwnFiles(s) == \A i \in 1 .. Len(s) : UserCode(s[i]) => s[i].file \in Files

TypeInv ==
  /\ TypeOK
  /\ exec.phase # "idle" => exec.c > 0
  /\ hpc \in {"detect", "probe", "type"} => typed < Len(BOOTSTRAP_CMDS)
  /\ \A i \in 1 .. Len(sent) : OwnFiles(Texts(sent[i]))
  /\ OwnFiles(torn)

\* What every push does to the types.
LEMMA PushType ==
  ASSUME TypeInv, NEW kind \in Kinds, NEW file \in Files \cup {NoFile},
         kind \in {"src", "test"} => file \in Files,
         Push(kind, file)
  PROVE  /\ sent' \in Seq(Chunk) /\ Len(sent') = Len(sent) + 1
         /\ torn' \in Seq(Text) /\ OwnFiles(torn') /\ since' = Len(log)
         /\ \A i \in 1 .. Len(sent') : OwnFiles(Texts(sent'[i]))
         /\ \A i \in 1 .. Len(sent) : sent'[i] = sent[i]
         /\ sent'[Len(sent')].kind = kind
<1> DEFINE c == [kind |-> kind, file |-> file, bad |-> file \in broken, behind |-> torn]
<1>0. torn \in Seq(Text) /\ OwnFiles(torn)
  BY DEF TypeInv, TypeOK
<1>1. c \in Chunk
  BY <1>0 DEF Chunk
<1>2. sent \in Seq(Chunk) /\ sent' = Append(sent, c)
  BY DEF Push, TypeInv, TypeOK
<1>3. sent' \in Seq(Chunk) /\ Len(sent') = Len(sent) + 1
  BY <1>1, <1>2
<1>4. \A i \in 1 .. Len(sent) : sent'[i] = sent[i]
  BY <1>1, <1>2
<1>5. sent'[Len(sent')] = c
  BY <1>1, <1>2
<1>6. OwnFiles(Texts(c))
  <2>1. /\ Len(Texts(c)) = Len(torn) + 1 /\ Len(torn) \in Nat
        /\ Texts(c)[Len(Texts(c))] = [kind |-> kind, file |-> file, bad |-> file \in broken]
        /\ \A i \in 1 .. Len(torn) : Texts(c)[i] = torn[i]
    BY <1>1, TextsShape
  <2>2. ASSUME NEW i \in 1 .. Len(Texts(c)), UserCode(Texts(c)[i])
        PROVE  Texts(c)[i].file \in Files
    <3>1. CASE i = Len(Texts(c))
      BY <2>1, <2>2, <3>1 DEF UserCode
    <3>2. CASE i # Len(Texts(c))
      <4>1. i \in 1 .. Len(torn)
        BY <2>1, <2>2, <3>2
      <4> QED
        BY <1>0, <2>1, <2>2, <4>1 DEF OwnFiles
    <3> QED
      BY <3>1, <3>2
  <2> HIDE DEF c
  <2> QED
    BY <2>2 DEF OwnFiles
<1>7. ASSUME NEW i \in 1 .. Len(sent') PROVE OwnFiles(Texts(sent'[i]))
  <2>1. CASE i = Len(sent')
    BY <1>5, <1>6, <2>1
  <2>2. CASE i # Len(sent')
    <3>1. i \in 1 .. Len(sent)
      BY <1>2, <1>3, <1>7, <2>2
    <3> QED
      BY <1>4, <3>1 DEF TypeInv
  <2> QED
    BY <2>1, <2>2
<1>8. torn' = <<>> /\ since' = Len(log)
  BY DEF Push
<1>9. torn' \in Seq(Text) /\ OwnFiles(torn')
  BY <1>8 DEF OwnFiles
<1>10. sent'[Len(sent')].kind = kind
  BY <1>5
<1> QED
  BY <1>3, <1>4, <1>7, <1>8, <1>9, <1>10

\* The initial states are typed.
LEMMA InitType == Init => TypeInv
<1> SUFFICES ASSUME Init PROVE TypeInv
  OBVIOUS
<1>1. kbd \in Seq(Lines) /\ sent \in Seq(Chunk) /\ log \in Seq([tag : Tags, of : Nat])
      /\ torn \in Seq(Text)
  BY DEF Init
<1>2. Len(sent) = 0 /\ Len(log) = 0
  BY DEF Init
<1>3. hpc \in HostPcs /\ mode \in AllModes /\ broken \subseteq Fragile
  BY DEF Init, HostPcs, AllModes
<1>4. exec \in [c : Nat, phase : {"idle", "run", "verdict", "done"}, ok : BOOLEAN]
      /\ exec.c = 0
  BY DEF Init, Idle
<1>5. /\ since \in 0 .. Len(log) /\ taken \in 0 .. Len(sent)
      /\ typed \in 0 .. Len(BOOTSTRAP_CMDS)
      /\ runs \in 0 .. MaxRuns /\ ints \in 0 .. MaxInterrupts
  BY <1>2, BoundsAssumption, Commands DEF Init
<1>b. dExit \in BOOLEAN
  BY Zenon DEF Init
<1>6. /\ adam \in {"repl", "D", "D2", "viewer"}
      /\ defs \subseteq {"D", "D2"} /\ loaded \subseteq Files
      /\ pos \in Nat \ {0} /\ exec.c \in 0 .. taken
      /\ rc \in {"none", "running", "ok", "compile_fail", "timeout", "interrupted"}
  BY <1>4 DEF Init
<1>7. TypeOK
  BY <1>1, <1>3, <1>4, <1>5, <1>6, <1>b DEF TypeOK
<1>8. OwnFiles(torn)
  BY DEF Init, OwnFiles
<1> QED
  BY <1>2, <1>7, <1>8 DEF TypeInv, Init, Idle

\* The elements of a sequence over a set are in that set.
LEMMA SeqElement ==
  ASSUME NEW S, NEW s \in Seq(S), NEW i \in 1 .. Len(s)
  PROVE  s[i] \in S
OBVIOUS

\* A sequence over a set is one over any larger set.
LEMMA SeqWiden ==
  ASSUME NEW S, NEW T, S \subseteq T, NEW s \in Seq(S)
  PROVE  s \in Seq(T)
<1>1. \A i \in 1 .. Len(s) : s[i] \in T
  BY SeqElement
<1> QED
  BY <1>1

\* A sequence of one element.
LEMMA Single ==
  ASSUME NEW S, NEW e \in S
  PROVE  <<e>> \in Seq(S) /\ Len(<<e>>) = 1 /\ <<e>>[1] = e
OBVIOUS

\* A line of the log has the type of a line of the log.
LEMMA LogType ==
  ASSUME TypeInv, NEW tag \in Tags, NEW of \in Nat, CommPrint(tag, of)
  PROVE  log' \in Seq([tag : Tags, of : Nat]) /\ Len(log') = Len(log) + 1
BY DEF TypeInv, TypeOK, CommPrint

\* What a chunk prints when it runs: at most two lines, about itself, and its
\* probe's echo only if its own text is a probe.
LEMMA PrintsShape ==
  ASSUME NEW s, NEW n, NEW k
  PROVE  /\ Prints(s, n, k) \in Seq([tag : {"PROBE_OK", "TEST_RUN_END"}, of : {k}])
         /\ \A i \in 1 .. Len(Prints(s, n, k)) :
              Prints(s, n, k)[i].tag = "PROBE_OK" => n = Len(s) /\ s[n].kind = "probe"
<1> DEFINE e == [tag |-> "TEST_RUN_END", of |-> k]
           p == [tag |-> "PROBE_OK", of |-> k]
           a == IF Ran(s, n, "final") THEN <<e>> ELSE <<>>
           b == IF n = Len(s) /\ s[n].kind = "probe" THEN <<p>> ELSE <<>>
           S == [tag : {"PROBE_OK", "TEST_RUN_END"}, of : {k}]
<1>0. e \in S /\ p \in S /\ e.tag # "PROBE_OK"
  OBVIOUS
<1>e. a = <<e>> \/ a = <<>>
  OBVIOUS
<1>b. (n = Len(s) /\ s[n].kind = "probe") \/ b = <<>>
  OBVIOUS
<1>p. b = <<p>> \/ b = <<>>
  OBVIOUS
<1> HIDE DEF e, p, S
<1>1. a \in Seq(S) /\ \A i \in 1 .. Len(a) : a[i].tag # "PROBE_OK"
  <2>1. <<e>> \in Seq(S) /\ Len(<<e>>) = 1 /\ <<e>>[1] = e
    BY <1>0, Single
  <2> HIDE DEF a
  <2>2. CASE a = <<>>
    BY <2>2
  <2>3. CASE a = <<e>>
    BY <1>0, <2>1, <2>3
  <2> QED
    BY <1>e, <2>2, <2>3
<1>2. b \in Seq(S) /\ (Len(b) > 0 => n = Len(s) /\ s[n].kind = "probe")
  <2>1. <<p>> \in Seq(S)
    BY <1>0, Single
  <2> HIDE DEF b
  <2>2. CASE b = <<>>
    BY <2>2
  <2>3. CASE b = <<p>>
    BY <1>b, <2>1, <2>3
  <2> QED
    BY <1>p, <2>2, <2>3
<1>3. Prints(s, n, k) = a \o b
  BY DEF Prints, e, p
<1> HIDE DEF a, b
<1>4. a \o b \in Seq(S)
  BY <1>1, <1>2
<1>5. ASSUME NEW i \in 1 .. Len(a \o b), (a \o b)[i].tag = "PROBE_OK" PROVE Len(b) > 0
  <2>1. Len(a \o b) = Len(a) + Len(b) /\ Len(a) \in Nat /\ Len(b) \in Nat
    BY <1>1, <1>2
  <2>2. i \in 1 .. Len(a) => (a \o b)[i] = a[i]
    BY <1>1, <1>2
  <2>3. i \notin 1 .. Len(a)
    BY <1>1, <1>5, <2>2
  <2> QED
    BY <2>1, <2>3
<1> QED
  BY <1>2, <1>3, <1>4, <1>5 DEF S

\* What a step of ExePutS does to the log.
LogRun(k) ==
  /\ log' \in Seq([tag : Tags, of : Nat]) /\ Len(log) \in Nat /\ Len(log') \in Nat
  /\ Len(log') >= Len(log)
  /\ \A i \in 1 .. Len(log) : log'[i] = log[i]
  /\ \A i \in Len(log) + 1 .. Len(log') :
       log'[i].of = k /\ log'[i].tag \in {"PROBE_OK", "TEST_RUN_END"}

\* The execution of a chunk, whatever was torn before it.
LEMMA ChunkRuns ==
  ASSUME TypeInv, RunChunk
  PROVE  /\ exec.c \in 1 .. Len(sent) /\ sent[exec.c] \in Chunk /\ exec.phase = "run"
         /\ exec' \in [c : Nat, phase : {"idle", "run", "verdict", "done"}, ok : BOOLEAN]
         /\ exec'.c = exec.c /\ exec'.phase \in {"verdict", "done"}
         /\ UNCHANGED <<adam, kbd, taken, sent, torn, hostVars, broken>>
         /\ dExit' \in BOOLEAN /\ defs' \subseteq {"D", "D2"}
         /\ loaded' \subseteq Files
         /\ dExit' => dExit \/ sent[exec.c].kind = "exit" \/ TornExit(sent[exec.c])
         /\ LogRun(exec.c)
         /\ \A i \in Len(log) + 1 .. Len(log') :
              log'[i].tag = "PROBE_OK" => sent[exec.c].kind = "probe"
<1> DEFINE c == sent[exec.c]
           s == Texts(c)
<1>1. exec.c \in 1 .. Len(sent) /\ c \in Chunk /\ exec.phase = "run"
  BY DEF RunChunk, TypeInv, TypeOK
<1>k. exec.c \in Nat
  BY <1>1
<1>2. /\ s \in Seq(Text) /\ Len(s) = Len(c.behind) + 1 /\ Len(c.behind) \in Nat
      /\ s[Len(s)].kind = c.kind
      /\ \A i \in 1 .. Len(c.behind) : s[i] = c.behind[i]
  <2> HIDE DEF c
  <2> QED
    BY <1>1, TextsShape
<1>3. OwnFiles(s)
  BY <1>1 DEF TypeInv
<1>4. PICK n \in 0 .. Len(s), ok \in BOOLEAN :
        /\ exec' = [exec EXCEPT !.ok = ok,
                                !.phase = IF adam = "D2" THEN "verdict" ELSE "done"]
        /\ defs' = IF Ran(s, n, "v2") THEN defs \cup {"D2"} ELSE defs
        /\ dExit' = (dExit \/ Ran(s, n, "exit"))
        /\ loaded' = loaded \cup {s[i].file : i \in {j \in 1 .. n : UserCode(s[j])}}
        /\ log' = log \o Prints(s, n, exec.c)
  BY DEF RunChunk
<1>5. UNCHANGED <<adam, kbd, taken, sent, torn, hostVars, broken>>
  BY DEF RunChunk
<1>6. /\ exec' \in [c : Nat, phase : {"idle", "run", "verdict", "done"}, ok : BOOLEAN]
      /\ exec'.c = exec.c /\ exec'.phase \in {"verdict", "done"}
  BY <1>4 DEF TypeInv, TypeOK
<1>7. dExit' \in BOOLEAN /\ defs' \subseteq {"D", "D2"}
  BY <1>4 DEF TypeInv, TypeOK
<1>8. loaded' \subseteq Files
  <2>1. \A i \in 1 .. n : UserCode(s[i]) => s[i].file \in Files
    BY <1>2, <1>3, <1>4 DEF OwnFiles
  <2> HIDE DEF s, c
  <2> QED
    BY <1>4, <2>1 DEF TypeInv, TypeOK
<1>9. dExit' => dExit \/ c.kind = "exit" \/ TornExit(c)
  <2>1. Ran(s, n, "exit") => c.kind = "exit" \/ TornExit(c)
    <3> SUFFICES ASSUME NEW i \in 1 .. n, s[i].kind = "exit"
                 PROVE  c.kind = "exit" \/ TornExit(c)
      BY DEF Ran
    <3>1. CASE i = Len(s)
      BY <1>2, <3>1
    <3>2. CASE i # Len(s)
      <4>1. i \in 1 .. Len(c.behind)
        BY <1>2, <1>4, <3>2
      <4> QED
        BY <1>2, <4>1 DEF TornExit
    <3> QED
      BY <3>1, <3>2
  <2> HIDE DEF s, c
  <2> QED
    BY <1>4, <2>1
<1>10. /\ LogRun(exec.c)
       /\ \A i \in Len(log) + 1 .. Len(log') : log'[i].tag = "PROBE_OK" => c.kind = "probe"
  <2> DEFINE w == Prints(s, n, exec.c)
  <2>1. /\ w \in Seq([tag : {"PROBE_OK", "TEST_RUN_END"}, of : {exec.c}])
        /\ \A i \in 1 .. Len(w) : w[i].tag = "PROBE_OK" => n = Len(s) /\ s[n].kind = "probe"
    BY PrintsShape
  <2>2. w \in Seq([tag : Tags, of : Nat])
    <3>1. [tag : {"PROBE_OK", "TEST_RUN_END"}, of : {exec.c}] \subseteq [tag : Tags, of : Nat]
      BY <1>k DEF Tags
    <3>2. w \in Seq([tag : {"PROBE_OK", "TEST_RUN_END"}, of : {exec.c}])
      BY <2>1
    <3> DEFINE R == [tag : {"PROBE_OK", "TEST_RUN_END"}, of : {exec.c}]
               T == [tag : Tags, of : Nat]
    <3>3. R \subseteq T /\ w \in Seq(R)
      BY <3>1, <3>2
    <3> HIDE DEF w, R, T
    <3>4. w \in Seq(T)
      BY <3>3, SeqWiden
    <3> QED
      BY <3>4 DEF T
  <2>3. log \in Seq([tag : Tags, of : Nat]) /\ log' = log \o w
    BY <1>4 DEF TypeInv, TypeOK
  <2>4. \A i \in 1 .. Len(w) : w[i].tag = "PROBE_OK" => c.kind = "probe"
    BY <1>2, <2>1
  <2>5. \A i \in 1 .. Len(w) : w[i].of = exec.c /\ w[i].tag \in {"PROBE_OK", "TEST_RUN_END"}
    <3>1. ASSUME NEW i \in 1 .. Len(w)
          PROVE  w[i] \in [tag : {"PROBE_OK", "TEST_RUN_END"}, of : {exec.c}]
      <4> HIDE DEF w
      <4> QED
        BY <2>1, SeqElement
    <3> HIDE DEF w
    <3> QED
      BY <3>1
  <2> HIDE DEF w, s, c
  <2>6. /\ log' \in Seq([tag : Tags, of : Nat]) /\ Len(log) \in Nat /\ Len(log') \in Nat
        /\ Len(log') = Len(log) + Len(w) /\ Len(w) \in Nat
        /\ \A i \in 1 .. Len(log) : log'[i] = log[i]
    BY <2>2, <2>3
  <2>7. ASSUME NEW i \in Len(log) + 1 .. Len(log')
        PROVE  i - Len(log) \in 1 .. Len(w) /\ log'[i] = w[i - Len(log)]
    BY <2>2, <2>3, <2>6
  <2>8. LogRun(exec.c)
    <3>1. ASSUME NEW i \in Len(log) + 1 .. Len(log')
          PROVE  log'[i].of = exec.c /\ log'[i].tag \in {"PROBE_OK", "TEST_RUN_END"}
      BY <2>5, <2>7, <3>1
    <3> QED
      BY <2>6, <3>1 DEF LogRun
  <2> QED
    BY <2>4, <2>7, <2>8
<1> QED
  BY <1>1, <1>5, <1>6, <1>7, <1>8, <1>9, <1>10

\* The guest's steps.
LEMMA GuestType == TypeInv /\ GuestNext => TypeInv'
<1> SUFFICES ASSUME TypeInv, GuestNext PROVE TypeInv'
  OBVIOUS
<1> USE DEF TypeInv, TypeOK
<1>1. CASE TakeChunk
  BY <1>1 DEF TakeChunk, hostVars
<1>2. CASE RunChunk
  <2>1. /\ exec' \in [c : Nat, phase : {"idle", "run", "verdict", "done"}, ok : BOOLEAN]
        /\ exec'.c = exec.c /\ exec.c > 0 /\ exec.c \in 0 .. taken
        /\ UNCHANGED <<adam, kbd, taken, sent, torn, hostVars, broken>>
        /\ dExit' \in BOOLEAN /\ defs' \subseteq {"D", "D2"} /\ loaded' \subseteq Files
    BY <1>2, ChunkRuns
  <2>2. log' \in Seq([tag : Tags, of : Nat]) /\ Len(log') \in Nat /\ Len(log') >= Len(log)
    BY <1>2, ChunkRuns DEF LogRun
  <2> QED
    BY <2>1, <2>2 DEF hostVars
<1>3. CASE PrintVerdict
  <2>1. log' \in Seq([tag : Tags, of : Nat]) /\ Len(log') = Len(log) + 1
    BY <1>3, LogType DEF PrintVerdict, Tags
  <2>2. exec' \in [c : Nat, phase : {"idle", "run", "verdict", "done"}, ok : BOOLEAN]
        /\ exec'.c = exec.c /\ exec.c > 0
    BY <1>3 DEF PrintVerdict
  <2>3. UNCHANGED <<adam, kbd, dExit, defs, loaded, taken, sent, torn, hostVars, broken>>
    BY <1>3 DEF PrintVerdict
  <2> QED
    BY <2>1, <2>2, <2>3 DEF hostVars
<1>4. CASE PrintDone
  <2>1. log' \in Seq([tag : Tags, of : Nat]) /\ Len(log') = Len(log) + 1
    BY <1>4, LogType DEF PrintDone, Tags
  <2> QED
    BY <1>4, <2>1 DEF PrintDone, hostVars, Idle
<1>5. CASE LeaveLoop
  <2>1. log' \in Seq([tag : Tags, of : Nat]) /\ Len(log') = Len(log) + 1
    BY <1>5, LogType DEF LeaveLoop, Tags
  <2> QED
    BY <1>5, <2>1 DEF LeaveLoop, hostVars
<1>6. CASE ReplExec
  <2>1. kbd' \in Seq(Lines)
    BY <1>6 DEF ReplExec
  <2>2. log' \in Seq([tag : Tags, of : Nat]) /\ Len(log') >= Len(log)
    <3>1. CommPrint("D_OK", taken) \/ CommPrint("D2_OK", taken) \/ UNCHANGED log
      BY <1>6 DEF ReplExec
    <3> QED
      BY <3>1, LogType DEF Tags
  <2>3. taken' \in {taken, Len(sent)} /\ torn' \in {torn, <<>>} /\ dExit' \in BOOLEAN
        /\ defs' \subseteq {"D", "D2"} /\ adam' \in {"repl", "D", "D2", "viewer"}
    BY <1>6 DEF ReplExec
  <2>4. UNCHANGED <<exec, loaded, sent, hostVars, broken>>
    BY <1>6 DEF ReplExec
  <2>5. torn' \in Seq(Text) /\ OwnFiles(torn')
    <3>1. torn \in Seq(Text) /\ OwnFiles(torn)
      OBVIOUS
    <3>2. <<>> \in Seq(Text) /\ OwnFiles(<<>>)
      BY DEF OwnFiles
    <3> QED
      BY <2>3, <3>1, <3>2
  <2> QED
    BY <2>1, <2>2, <2>3, <2>4, <2>5 DEF hostVars
<1>7. CASE ViewerExit
  BY <1>7 DEF ViewerExit, hostVars
<1> QED
  BY <1>1, <1>2, <1>3, <1>4, <1>5, <1>6, <1>7 DEF GuestNext

\* The host's, the deadlines' and the user's steps.
LEMMA HostType == TypeInv /\ (HostNext \/ Timeout \/ UserNext) => TypeInv'
<1> SUFFICES ASSUME TypeInv, HostNext \/ Timeout \/ UserNext PROVE TypeInv'
  OBVIOUS
<1> USE DEF TypeInv, TypeOK
<1>t. HostPcs = {"d_ok", "v2", "d_exit", "d2_ok", "probe", "src_wait", "begin",
                 "test_wait", "final", "stop", "idle", "detect", "type", "push_v2",
                 "push_exit", "call_d2", "src", "tests", "cmd"}
  BY Tables DEF HostPcs
\* A step that pushes a chunk and changes hpc and nothing else of the host.
<1>p. ASSUME NEW kind \in Kinds, NEW file \in Files \cup {NoFile},
             kind \in {"src", "test"} => file \in Files,
             NEW p \in HostPcs, p = "probe" => hpc = "detect", p \notin {"detect", "type"},
             Push(kind, file), hpc' = p,
             UNCHANGED <<guestVars, log, mode, typed, pos, rc, runs, ints, broken>>
      PROVE  TypeInv'
  <2>1. /\ sent' \in Seq(Chunk) /\ Len(sent') = Len(sent) + 1
        /\ torn' \in Seq(Text) /\ OwnFiles(torn') /\ since' = Len(log)
        /\ \A i \in 1 .. Len(sent') : OwnFiles(Texts(sent'[i]))
    BY <1>p, PushType
  <2>2. hpc' \in HostPcs /\ since' \in 0 .. Len(log) /\ taken \in 0 .. Len(sent')
    BY <1>p, <2>1
  <2>3. hpc' \in {"detect", "probe", "type"} => typed < Len(BOOTSTRAP_CMDS)
    BY <1>p
  <2> QED
    BY <1>p, <2>1, <2>2, <2>3 DEF guestVars
<1>f. \A m \in AllModes, i \in Nat \ {0} :
        /\ i <= Len(Phase1(m)) => Todo(m)[i] \in Files
        /\ i <= Len(Todo(m)) => Todo(m)[i] \in Files
  BY TodoFiles
<1> USE DEF Kinds
<1>1. CASE Probe
  BY <1>1, <1>t, <1>p DEF Probe
<1>2. CASE TypeBootstrap
  BY <1>2, <1>t, Commands DEF TypeBootstrap
<1>3. CASE PushStage2
  BY <1>3, <1>t, <1>p DEF PushStage2
<1>4. CASE StopStage1
  BY <1>4, <1>t, <1>p DEF StopStage1
<1>5. CASE CallD2
  BY <1>5, <1>t, Commands DEF CallD2
<1>6. CASE WaitDone
  BY <1>6, <1>t, Tables DEF WaitDone, guestVars
<1>7. CASE PushSrc
  BY <1>7, <1>t, <1>f, <1>p DEF PushSrc, PushFile
<1>8. CASE PushTest
  BY <1>8, <1>t, <1>f, <1>p DEF PushTest, PushFile
<1>9. CASE FileDone
  BY <1>9, <1>t DEF FileDone, Exit, guestVars
<1>10. CASE KeepDaemon
  BY <1>10, <1>t DEF KeepDaemon, Exit, guestVars
<1>11. CASE StopDaemon
  BY <1>11, <1>t, <1>p DEF StopDaemon
<1>12. CASE Launch
  <2>1. kbd' \in Seq(Lines)
    <3>1. kbd' = kbd \/ kbd' = Append(kbd, "cmd")
      BY <1>12 DEF Launch
    <3>2. kbd \in Seq(Lines) /\ Append(kbd, "cmd") \in Seq(Lines)
      BY Commands
    <3> QED
      BY <3>1, <3>2
  <2>2. /\ hpc' = "idle" /\ rc' = "ok"
        /\ UNCHANGED <<adam, exec, dExit, defs, loaded, taken, sent, torn, log, mode, since,
                       typed, pos, runs, ints, broken>>
    BY <1>12 DEF Launch, Exit
  <2> QED
    BY <1>t, <2>1, <2>2
<1>13. CASE BeginTests
  BY <1>13, <1>t, <1>p DEF BeginTests
<1>14. CASE BeginDone
  BY <1>14, <1>t DEF BeginDone, guestVars
<1>15. CASE Finalize
  BY <1>15, <1>t, <1>p DEF Finalize
<1>16. CASE FinalDone
  BY <1>16, <1>t DEF FinalDone, Exit, guestVars
<1>17. CASE Timeout
  <2>1. \/ hpc' = "type" /\ since' = Len(log) /\ rc' = rc /\ hpc = "probe"
        \/ hpc' \in {"tests", "cmd"} /\ since' = since /\ rc' = rc
        \/ hpc' = "idle" /\ since' = since /\ rc' = "timeout"
    BY <1>17 DEF Timeout, Exit
  <2>2. UNCHANGED <<guestVars, sent, torn, log, mode, typed, pos, runs, ints, broken>>
    BY <1>17 DEF Timeout
  <2>3. since' \in 0 .. Len(log)
    BY <2>1
  <2> QED
    BY <1>t, <2>1, <2>2, <2>3 DEF guestVars
<1>18. ASSUME NEW m \in Modes, Start(m) PROVE TypeInv'
  BY <1>18, <1>t, Commands, BoundsAssumption DEF Start, guestVars
<1>19. CASE Interrupt
  <2>1. torn' \in Seq(Text) /\ OwnFiles(torn')
    <3>1. CASE UNCHANGED torn
      BY <3>1
    <3>2. ASSUME NEW kind \in Kinds, NEW file \in Files \cup {NoFile}, Tear(kind, file)
          PROVE  torn' \in Seq(Text) /\ OwnFiles(torn')
      <4>1. PICK t \in Text : torn' = Append(torn, t) /\ (UserCode(t) => t.file \in Files)
        <5> DEFINE whole == [kind |-> kind, file |-> file, bad |-> file \in broken]
                   scrap == [kind |-> "scrap", file |-> NoFile, bad |-> FALSE]
        <5>1. whole \in Text /\ scrap \in Text /\ ~UserCode(scrap)
          BY DEF Text, UserCode
        <5>2. torn' = Append(torn, whole) \/ torn' = Append(torn, scrap)
          BY <3>2 DEF Tear
        <5>3. UserCode(whole) => whole.file \in Files
          BY <3>2, <1>f DEF UserCode, Tear, Outgoing
        <5> HIDE DEF whole, scrap
        <5> QED
          BY <5>1, <5>2, <5>3
      <4>2. torn \in Seq(Text) /\ OwnFiles(torn)
        OBVIOUS
      <4>3. torn' \in Seq(Text) /\ Len(torn') = Len(torn) + 1 /\ torn'[Len(torn) + 1] = t
            /\ Len(torn) \in Nat /\ \A i \in 1 .. Len(torn) : torn'[i] = torn[i]
        BY <4>1, <4>2
      <4> QED
        BY <4>1, <4>2, <4>3 DEF OwnFiles
    <3> QED
      BY <1>19, <3>1, <3>2 DEF Interrupt
  <2>2. ints' \in 0 .. MaxInterrupts
    BY <1>19, BoundsAssumption DEF Interrupt
  <2>3. /\ hpc' = "idle" /\ rc' = "interrupted"
        /\ UNCHANGED <<guestVars, sent, log, mode, since, typed, pos, runs, broken>>
    BY <1>19 DEF Interrupt, Exit
  <2> QED
    BY <1>t, <2>1, <2>2, <2>3 DEF guestVars
<1> QED
  BY <1>1, <1>2, <1>3, <1>4, <1>5, <1>6, <1>7, <1>8, <1>9, <1>10, <1>11, <1>12, <1>13,
     <1>14, <1>15, <1>16, <1>17, <1>18, <1>19 DEF HostNext, UserNext

\* Every action of host and guest keeps the types.
LEMMA TypeStep == TypeInv /\ [Next]_vars => TypeInv'
<1>1. TypeInv /\ UNCHANGED vars => TypeInv'
  BY DEF TypeInv, TypeOK, vars, guestVars, hostVars
<1> QED
  BY <1>1, GuestType, HostType DEF Next

\* Every reachable state is well typed, for every battery, every number of
\* runs and interrupts, and every interleaving of script and guest.
THEOREM TypeCorrect == Spec => []TypeOK
<1>1. Spec => []TypeInv
  BY InitType, TypeStep, PTL DEF Spec
<1>2. TypeInv => TypeOK
  BY DEF TypeInv
<1> QED
  BY <1>1, <1>2, PTL

-----------------------------------------------------------------------------
(***************************************************************************)
(* The story COM1 tells.  LogOrder needs to know that adam executes one    *)
(* chunk at a time, the last one taken, inside a receive loop, and that    *)
(* this chunk's D_DONE is not out yet.                                     *)
(***************************************************************************)
OneChunk ==
  exec # Idle =>
    /\ Listening /\ exec.phase # "idle" /\ exec.c = taken
    /\ \A i \in 1 .. Len(log) : log[i].of = taken => log[i].tag # "D_DONE"

LogInv == LogOrder /\ OneChunk

\* Appending a line about the chunk taken last keeps the order, unless that
\* chunk's D_DONE is already there and the line is about its execution.
LEMMA LogGrows ==
  ASSUME TypeInv, LogOrder, NEW tag \in Tags, CommPrint(tag, taken), taken' = taken,
         \/ tag \in {"D_OK", "D2_OK", "D_EXIT"}
         \/ \A i \in 1 .. Len(log) : log[i].of = taken => log[i].tag # "D_DONE"
  PROVE  LogOrder'
<1>1. /\ Len(log') = Len(log) + 1 /\ Len(log) \in Nat /\ taken \in Nat
      /\ \A i \in 1 .. Len(log) : log'[i] = log[i]
      /\ log'[Len(log) + 1] = [tag |-> tag, of |-> taken]
  BY DEF TypeInv, TypeOK, CommPrint
<1>2. \A i \in 1 .. Len(log') : log'[i].of <= taken
  BY <1>1 DEF LogOrder
<1>3. ASSUME NEW i \in 1 .. Len(log'), NEW j \in 1 .. Len(log'), i < j
      PROVE  /\ log'[i].of <= log'[j].of
             /\ log'[i].tag = "D_DONE" /\ log'[j].of = log'[i].of
                  => log'[j].tag \in {"D_OK", "D2_OK", "D_EXIT"}
  <2>1. CASE j \in 1 .. Len(log)
    BY <1>1, <1>3, <2>1 DEF LogOrder
  <2>2. CASE j = Len(log) + 1
    <3>1. i \in 1 .. Len(log) /\ log'[i] = log[i]
      BY <1>1, <1>3, <2>2
    <3> QED
      BY <1>1, <2>2, <3>1 DEF LogOrder
  <2> QED
    BY <1>1, <2>1, <2>2
<1> QED
  BY <1>2, <1>3 DEF LogOrder

\* As long as the chunk's own D_DONE is not among what is printed, it is not out.
LEMMA NoDoneYet ==
  ASSUME TypeInv, NEW tag \in Tags, tag # "D_DONE",
         CommPrint(tag, exec.c) \/ UNCHANGED log,
         \A i \in 1 .. Len(log) : log[i].of = taken => log[i].tag # "D_DONE"
  PROVE  \A i \in 1 .. Len(log') : log'[i].of = taken => log'[i].tag # "D_DONE"
<1>1. CASE UNCHANGED log
  BY <1>1
<1>2. CASE CommPrint(tag, exec.c)
  <2>1. /\ Len(log') = Len(log) + 1 /\ Len(log) \in Nat
        /\ \A i \in 1 .. Len(log) : log'[i] = log[i]
        /\ log'[Len(log) + 1] = [tag |-> tag, of |-> exec.c]
    BY <1>2 DEF TypeInv, TypeOK, CommPrint
  <2> QED
    BY <2>1
<1> QED
  BY <1>1, <1>2

\* What an executing chunk prints is about the chunk taken last, and no D_DONE.
LEMMA RunGrows ==
  ASSUME TypeInv, LogOrder, LogRun(taken), taken' = taken,
         \A i \in 1 .. Len(log) : log[i].of = taken => log[i].tag # "D_DONE"
  PROVE  /\ LogOrder'
         /\ \A i \in 1 .. Len(log') : log'[i].of = taken => log'[i].tag # "D_DONE"
<1>1. /\ Len(log) \in Nat /\ Len(log') \in Nat /\ Len(log') >= Len(log) /\ taken \in Nat
      /\ \A i \in 1 .. Len(log) : log'[i] = log[i]
      /\ \A i \in Len(log) + 1 .. Len(log') : log'[i].of = taken /\ log'[i].tag # "D_DONE"
  <2>1. taken \in Nat
    BY DEF TypeInv, TypeOK
  <2>2. \A i \in Len(log) + 1 .. Len(log') : log'[i].of = taken /\ log'[i].tag # "D_DONE"
    BY DEF LogRun
  <2> QED
    BY <2>1, <2>2 DEF LogRun
<1>2. \A i \in 1 .. Len(log') : i \in 1 .. Len(log) \/ i \in Len(log) + 1 .. Len(log')
  BY <1>1
<1>3. \A i \in 1 .. Len(log) : log[i].of <= taken
  BY DEF LogOrder
<1>4. \A i \in 1 .. Len(log') : log'[i].of <= taken
  BY <1>1, <1>2, <1>3
<1>5. \A i \in 1 .. Len(log') : log'[i].of = taken => log'[i].tag # "D_DONE"
  BY <1>1, <1>2
<1>6. ASSUME NEW i \in 1 .. Len(log'), NEW j \in 1 .. Len(log'), i < j
      PROVE  /\ log'[i].of <= log'[j].of
             /\ log'[i].tag = "D_DONE" /\ log'[j].of = log'[i].of
                  => log'[j].tag \in {"D_OK", "D2_OK", "D_EXIT"}
  <2>1. CASE j \in 1 .. Len(log)
    <3>1. i \in 1 .. Len(log)
      BY <1>1, <1>6, <2>1
    <3> QED
      BY <1>1, <1>6, <2>1, <3>1 DEF LogOrder
  <2>2. CASE j \in Len(log) + 1 .. Len(log')
    BY <1>1, <1>4, <1>5, <2>2
  <2> QED
    BY <1>2, <2>1, <2>2
<1> QED
  BY <1>4, <1>5, <1>6 DEF LogOrder

\* Every action keeps the log in the order of the chunks.
LEMMA LogStep == TypeInv /\ LogInv /\ [Next]_vars => LogInv'
<1> SUFFICES ASSUME TypeInv, LogInv, [Next]_vars PROVE LogInv'
  OBVIOUS
<1>0. LogOrder /\ OneChunk
  BY DEF LogInv
<1>t. /\ taken \in Nat /\ Len(sent) \in Nat /\ taken <= Len(sent)
      /\ exec \in [c : Nat, phase : {"idle", "run", "verdict", "done"}, ok : BOOLEAN]
      /\ log \in Seq([tag : Tags, of : Nat])
  BY DEF TypeInv, TypeOK
<1>n. \A i \in 1 .. Len(log) : log[i].of \in Nat
  <2>1. log \in Seq([tag : Tags, of : Nat])
    BY <1>t
  <2>2. ASSUME NEW i \in 1 .. Len(log) PROVE log[i] \in [tag : Tags, of : Nat]
    BY <2>1, SeqElement
  <2> QED
    BY <2>2
<1>1. CASE TakeChunk
  <2>1. /\ taken' = taken + 1 /\ log' = log /\ adam' = adam /\ Listening
        /\ exec' = [c |-> taken + 1, phase |-> "run", ok |-> TRUE]
    BY <1>1 DEF TakeChunk
  <2>2. \A i \in 1 .. Len(log) : log[i].of <= taken
    BY <1>0 DEF LogOrder
  <2>3. LogOrder'
    <3>1. \A i \in 1 .. Len(log) : log[i].of <= taken + 1
      BY <1>t, <1>n, <2>2
    <3> QED
      BY <1>0, <2>1, <3>1 DEF LogOrder
  <2>4. \A i \in 1 .. Len(log) : log[i].of # taken + 1
    BY <1>t, <2>2
  <2>5. OneChunk'
    BY <1>t, <2>1, <2>4 DEF OneChunk, Listening
  <2> QED
    BY <2>3, <2>5 DEF LogInv
<1>2. CASE RunChunk
  <2>1. /\ exec # Idle /\ taken' = taken /\ adam' = adam
        /\ exec'.c = exec.c /\ exec'.phase # "idle" /\ LogRun(exec.c)
    BY <1>2, ChunkRuns DEF Idle
  <2>2. /\ Listening /\ exec.c = taken
        /\ \A i \in 1 .. Len(log) : log[i].of = taken => log[i].tag # "D_DONE"
    BY <1>0, <2>1 DEF OneChunk
  <2>3. /\ LogOrder'
        /\ \A i \in 1 .. Len(log') : log'[i].of = taken => log'[i].tag # "D_DONE"
    BY <1>0, <2>1, <2>2, RunGrows
  <2> QED
    BY <2>1, <2>2, <2>3 DEF LogInv, OneChunk, Listening
<1>3. CASE PrintVerdict
  <2>1. PICK tag \in {"COMPILE_OK", "COMPILE_FAIL"} :
          /\ CommPrint(tag, exec.c) /\ exec # Idle /\ taken' = taken /\ adam' = adam
          /\ exec'.c = exec.c /\ exec'.phase # "idle"
    BY <1>3, <1>t DEF PrintVerdict, Idle
  <2>2. /\ Listening /\ exec.c = taken
        /\ \A i \in 1 .. Len(log) : log[i].of = taken => log[i].tag # "D_DONE"
    BY <1>0, <2>1 DEF OneChunk
  <2>3. LogOrder'
    BY <1>0, <2>1, <2>2, LogGrows DEF Tags
  <2>4. \A i \in 1 .. Len(log') : log'[i].of = taken => log'[i].tag # "D_DONE"
    BY <2>1, <2>2, NoDoneYet DEF Tags
  <2> QED
    BY <2>1, <2>2, <2>3, <2>4 DEF LogInv, OneChunk, Listening
<1>4. CASE PrintDone
  <2>1. /\ CommPrint("D_DONE", exec.c) /\ exec # Idle /\ taken' = taken /\ exec' = Idle
    BY <1>4, <1>t DEF PrintDone, Idle
  <2>2. /\ exec.c = taken
        /\ \A i \in 1 .. Len(log) : log[i].of = taken => log[i].tag # "D_DONE"
    BY <1>0, <2>1 DEF OneChunk
  <2>3. LogOrder'
    BY <1>0, <2>1, <2>2, LogGrows DEF Tags
  <2>4. OneChunk'
    BY <2>1 DEF OneChunk, Idle
  <2> QED
    BY <2>3, <2>4 DEF LogInv
<1>5. CASE LeaveLoop
  <2>1. /\ CommPrint("D_EXIT", taken) /\ exec = Idle /\ exec' = exec /\ taken' = taken
    BY <1>5 DEF LeaveLoop
  <2>2. LogOrder'
    BY <1>0, <2>1, LogGrows DEF Tags
  <2>3. OneChunk'
    BY <2>1 DEF OneChunk, Idle
  <2> QED
    BY <2>2, <2>3 DEF LogInv
<1>6. CASE ReplExec
  <2>1. /\ exec' = exec /\ exec = Idle
    BY <1>0, <1>6 DEF ReplExec, OneChunk, Listening
  <2>2. OneChunk'
    BY <2>1 DEF OneChunk, Idle
  <2>3. \/ taken' = taken /\ (CommPrint("D_OK", taken) \/ CommPrint("D2_OK", taken))
        \/ taken' \in {taken, Len(sent)} /\ UNCHANGED log
    BY <1>6 DEF ReplExec
  <2>4. ASSUME taken' \in {taken, Len(sent)}, UNCHANGED log PROVE LogOrder'
    <3>1. \A i \in 1 .. Len(log) : log[i].of <= taken
      BY <1>0 DEF LogOrder
    <3>2. \A i \in 1 .. Len(log) : log[i].of <= taken'
      BY <1>t, <1>n, <2>4, <3>1
    <3> QED
      BY <1>0, <2>4, <3>2 DEF LogOrder
  <2>5. ASSUME taken' = taken, NEW tag \in {"D_OK", "D2_OK"}, CommPrint(tag, taken)
        PROVE  LogOrder'
    BY <1>0, <2>5, LogGrows DEF Tags
  <2>6. LogOrder'
    BY <2>3, <2>4, <2>5
  <2> QED
    BY <2>2, <2>6 DEF LogInv
<1>7. CASE ViewerExit
  <2>1. exec = Idle
    BY <1>0, <1>7 DEF ViewerExit, OneChunk, Listening
  <2> QED
    BY <1>0, <1>7, <2>1 DEF ViewerExit, LogInv, LogOrder, OneChunk, Idle
<1>8. CASE UNCHANGED <<adam, exec, taken, log>>
  BY <1>0, <1>8 DEF LogInv, LogOrder, OneChunk, Listening, Idle
<1>9. HostNext \/ Timeout \/ UserNext \/ UNCHANGED vars => UNCHANGED <<adam, exec, taken, log>>
  BY DEF HostNext, UserNext, vars, guestVars, Probe, TypeBootstrap, PushStage2, StopStage1,
         CallD2, WaitDone, PushSrc, PushTest, PushFile, FileDone, KeepDaemon, StopDaemon,
         Launch, BeginTests, BeginDone, Finalize, FinalDone, Timeout, Start, Interrupt
<1> QED
  BY <1>1, <1>2, <1>3, <1>4, <1>5, <1>6, <1>7, <1>8, <1>9 DEF Next, GuestNext

\* COM1 tells of the chunks in push order, each finished at most once and
\* after its verdict: what every wait of the script relies on.
THEOREM LogOrdered == Spec => []LogOrder
<1>1. Init => LogInv
  BY DEF Init, LogInv, LogOrder, OneChunk, Idle
<1>2. LogInv => LogOrder
  BY DEF LogInv
<1> QED
  BY <1>1, <1>2, InitType, TypeStep, LogStep, PTL DEF Spec

-----------------------------------------------------------------------------
(***************************************************************************)
(* The probe.  Its echo is the last chunk's, printed by a receive loop     *)
(* that was not told to exit; only this chunk, by an order to exit torn    *)
(* before it, or a later one can tell it to, and the script has pushed     *)
(* none.                                                                   *)
(***************************************************************************)
Echoed == \E i \in 1 .. Len(log) : log[i].tag = "PROBE_OK" /\ log[i].of = Len(sent)

\* A chunk that has not run yet was taken by a loop not told to exit, and has
\* printed nothing.
Untouched ==
  exec.phase = "run" => ~dExit /\ \A i \in 1 .. Len(log) : log[i].of # taken

EchoFromLoop ==
  hpc = "probe" =>
    /\ Len(sent) > 0
    /\ Echoed => (Listening /\ ~dExit) \/ TornExit(sent[Len(sent)])

ProbeInv == Untouched /\ EchoFromLoop

\* A line that is not a probe's echo does not create one.
LEMMA NoNewEcho ==
  ASSUME TypeInv, NEW tag \in Tags \ {"PROBE_OK"}, NEW of \in Nat, CommPrint(tag, of),
         sent' = sent, Echoed'
  PROVE  Echoed
<1>1. /\ Len(log') = Len(log) + 1 /\ Len(log) \in Nat
      /\ \A i \in 1 .. Len(log) : log'[i] = log[i]
      /\ log'[Len(log) + 1] = [tag |-> tag, of |-> of]
  BY DEF TypeInv, TypeOK, CommPrint
<1>2. PICK i \in 1 .. Len(log') : log'[i].tag = "PROBE_OK" /\ log'[i].of = Len(sent)
  BY DEF Echoed
<1>3. i # Len(log) + 1
  BY <1>1, <1>2
<1>4. i \in 1 .. Len(log)
  BY <1>1, <1>3
<1> QED
  BY <1>1, <1>2, <1>4 DEF Echoed

\* Every action keeps what the three probes rest on.
LEMMA ProbeStep == TypeInv /\ LogInv /\ ProbeInv /\ [Next]_vars => ProbeInv'
<1> SUFFICES ASSUME TypeInv, LogInv, ProbeInv, [Next]_vars PROVE ProbeInv'
  OBVIOUS
<1>t. /\ taken \in 0 .. Len(sent) /\ Len(sent) \in Nat
      /\ exec \in [c : Nat, phase : {"idle", "run", "verdict", "done"}, ok : BOOLEAN]
  BY DEF TypeInv, TypeOK
<1>o. \A i \in 1 .. Len(log) : log[i].of <= taken /\ log[i].of \in Nat
  <2>1. log \in Seq([tag : Tags, of : Nat])
    BY DEF TypeInv, TypeOK
  <2>2. ASSUME NEW i \in 1 .. Len(log) PROVE log[i] \in [tag : Tags, of : Nat]
    BY <2>1, SeqElement
  <2> QED
    BY <2>2 DEF LogInv, LogOrder
\* An echo of the last chunk means that chunk was taken, and has run.
<1>e. Echoed => taken = Len(sent) /\ exec.phase # "run"
  BY <1>t, <1>o DEF Echoed, ProbeInv, Untouched
<1>b. exec.phase # "idle" => exec # Idle /\ Listening /\ exec.c = taken
  BY DEF LogInv, OneChunk, Idle
<1>1. CASE TakeChunk
  <2>1. /\ exec'.phase = "run" /\ taken' = taken + 1 /\ ~dExit /\ dExit' = dExit
        /\ log' = log /\ sent' = sent /\ adam' = adam /\ Listening
    BY <1>1 DEF TakeChunk
  <2>2. Untouched'
    BY <1>t, <1>o, <2>1 DEF Untouched
  <2>3. hpc' = hpc
    BY <1>1 DEF TakeChunk, hostVars
  <2>4. EchoFromLoop'
    BY <2>1, <2>3 DEF EchoFromLoop, Listening, ProbeInv, Echoed
  <2> QED
    BY <2>2, <2>4 DEF ProbeInv
<1>2. CASE RunChunk
  <2>1. /\ exec.phase = "run" /\ exec'.phase # "run" /\ Listening /\ exec.c = taken
        /\ adam' = adam /\ sent' = sent /\ taken' = taken /\ LogRun(exec.c)
        /\ dExit' => dExit \/ sent[exec.c].kind = "exit" \/ TornExit(sent[exec.c])
        /\ \A i \in Len(log) + 1 .. Len(log') :
             log'[i].tag = "PROBE_OK" => sent[exec.c].kind = "probe"
    BY <1>2, <1>b, ChunkRuns
  <2>2. ~dExit /\ ~Echoed
    BY <1>e, <2>1 DEF ProbeInv, Untouched
  <2>3. ASSUME Echoed' PROVE sent[Len(sent)].kind = "probe" /\ exec.c = Len(sent)
    <3>1. PICK i \in 1 .. Len(log') : log'[i].tag = "PROBE_OK" /\ log'[i].of = Len(sent)
      BY <2>1, <2>3 DEF Echoed
    <3>2. i \notin 1 .. Len(log)
      BY <2>1, <2>2, <3>1 DEF Echoed, LogRun
    <3>3. i \in Len(log) + 1 .. Len(log')
      BY <2>1, <3>1, <3>2 DEF LogRun
    <3> QED
      BY <2>1, <3>1, <3>3 DEF LogRun
  <2>4. EchoFromLoop'
    <3>1. ASSUME Echoed', dExit' PROVE TornExit(sent[Len(sent)])
      BY <2>1, <2>2, <2>3, <3>1
    <3>2. hpc' = hpc
      BY <1>2 DEF RunChunk, hostVars
    <3>3. dExit' \in BOOLEAN
      BY <1>2, ChunkRuns
    <3>4. hpc = "probe" => Len(sent) > 0
      BY DEF ProbeInv, EchoFromLoop
    <3> QED
      BY <2>1, <3>1, <3>2, <3>3, <3>4 DEF EchoFromLoop, Listening
  <2> QED
    BY <2>1, <2>4 DEF ProbeInv, Untouched
\* The steps that print a line which is no echo, or none, and leave the loop's
\* state as it is.
<1>3. CASE PrintVerdict \/ PrintDone
  <2>1. PICK tag \in Tags \ {"PROBE_OK"} : CommPrint(tag, exec.c)
    BY <1>3 DEF PrintVerdict, PrintDone, Tags
  <2>2. /\ exec'.phase # "run" /\ sent' = sent /\ adam' = adam /\ dExit' = dExit
        /\ hpc' = hpc /\ exec.c \in Nat
    BY <1>3, <1>t DEF PrintVerdict, PrintDone, Idle, hostVars
  <2>3. Echoed' => Echoed
    BY <2>1, <2>2, NoNewEcho
  <2> QED
    BY <2>2, <2>3 DEF ProbeInv, Untouched, EchoFromLoop, Listening
<1>4. CASE LeaveLoop
  <2>1. /\ CommPrint("D_EXIT", taken) /\ sent' = sent /\ hpc' = hpc /\ dExit
        /\ exec'.phase # "run" /\ taken \in Nat
    BY <1>4, <1>t DEF LeaveLoop, hostVars, Idle
  <2>2. Echoed' => Echoed
    BY <2>1, NoNewEcho DEF Tags
  <2> QED
    BY <2>1, <2>2 DEF ProbeInv, Untouched, EchoFromLoop
<1>5. CASE ReplExec \/ ViewerExit
  <2>1. ~Listening /\ exec'.phase = "idle" /\ hpc' = hpc /\ sent' = sent
    BY <1>5, <1>t, <1>b DEF ReplExec, ViewerExit, Listening, hostVars
  <2>2. \/ UNCHANGED log
        \/ CommPrint("D_OK", taken)
        \/ CommPrint("D2_OK", taken)
    BY <1>5 DEF ReplExec, ViewerExit
  <2>3. Echoed' => Echoed
    BY <1>t, <2>1, <2>2, NoNewEcho DEF Tags, Echoed
  <2> QED
    BY <2>1, <2>3 DEF ProbeInv, Untouched, EchoFromLoop
<1>6. CASE Probe
  <2>1. Len(sent') = Len(sent) + 1 /\ log' = log /\ UNCHANGED guestVars
    BY <1>6, PushType DEF Probe, Kinds
  <2>2. ~Echoed'
    BY <1>t, <1>o, <2>1 DEF Echoed
  <2> QED
    BY <2>1, <2>2 DEF ProbeInv, Untouched, EchoFromLoop, guestVars
<1>7. CASE UNCHANGED <<adam, exec, dExit, taken, log>> /\ hpc' # "probe"
  BY <1>7 DEF ProbeInv, Untouched, EchoFromLoop
<1>8. CASE UNCHANGED vars
  BY <1>8 DEF vars, guestVars, hostVars, ProbeInv, Untouched, EchoFromLoop, Echoed, Listening
<1>9. HostNext \/ Timeout \/ UserNext
        => Probe \/ (UNCHANGED <<adam, exec, dExit, taken, log>> /\ hpc' # "probe")
  BY Tables
  DEF HostNext, UserNext, guestVars, TypeBootstrap, PushStage2, StopStage1,
      CallD2, WaitDone, PushSrc, PushTest, PushFile, FileDone, KeepDaemon, StopDaemon,
      Launch, BeginTests, BeginDone, Finalize, FinalDone, Timeout, Start, Interrupt, Exit
<1> QED
  BY <1>1, <1>2, <1>3, <1>4, <1>5, <1>6, <1>7, <1>8, <1>9 DEF Next, GuestNext

\* Whenever detect_live_daemon answers yes, a receive loop holds adam and has not
\* been told to leave it, or the probe was what ended a torn order to leave.
THEOREM ProbeSound == Spec => ProbeMeansListening
<1>1. Init => LogInv /\ ProbeInv
  BY DEF Init, LogInv, LogOrder, OneChunk, Idle, ProbeInv, Untouched, EchoFromLoop
<1>2. ASSUME TypeInv, ProbeInv, [Next]_vars, hpc = "probe", hpc' = "src"
      PROVE  (Listening /\ ~dExit) \/ TornExit(sent[Len(sent)])
  <2>1. WaitDone
    BY <1>2, Tables
    DEF Next, GuestNext, HostNext, UserNext, vars, guestVars, hostVars, TakeChunk, RunChunk,
        PrintVerdict, PrintDone, LeaveLoop, ReplExec, ViewerExit, Probe, TypeBootstrap,
        PushStage2, StopStage1, CallD2, PushSrc, PushTest, PushFile, FileDone, KeepDaemon,
        StopDaemon, Launch, BeginTests, BeginDone, Finalize, FinalDone, Timeout, Start,
        Interrupt, Exit
  <2>2. Echoed
    BY <1>2, <2>1, Tables DEF WaitDone, Arrived, Captured, Awaits, Echoed, TypeInv, TypeOK
  <2> QED
    BY <1>2, <2>2 DEF ProbeInv, EchoFromLoop
<1>3. TypeInv /\ ProbeInv /\ [Next]_vars
        => [hpc = "probe" /\ hpc' = "src" =>
              (Listening /\ ~dExit) \/ TornExit(sent[Len(sent)])]_vars
  BY <1>2
<1> QED
  BY <1>1, <1>3, InitType, TypeStep, LogStep, ProbeStep, PTL DEF Spec, ProbeMeansListening
-----------------------------------------------------------------------------
(***************************************************************************)
(* The bootstrap.  Its lines stay together in the keyboard queue, behind   *)
(* whatever earlier runs left there, and the script pushes nothing while   *)
(* they wait; so once the REPL has read the first of them, no other line   *)
(* and no chunk comes between them.                                        *)
(***************************************************************************)
\* How many of the run's own lines the REPL has read, once that is positive;
\* below that, how many older lines are still before them.
Read == typed - Len(kbd)

AllTyped ==
  /\ hpc = "d_ok" => typed = 5
  /\ hpc \in {"detect", "probe"} => typed = 0

OwnLines ==
  hpc \in {"type", "d_ok"} =>
    /\ \A k \in 1 .. Len(kbd) : Read + k >= 1 => kbd[k] = BOOTSTRAP_CMDS[Read + k]
    /\ Read >= 1 => exec = Idle /\ adam = IF Read = 5 THEN "D" ELSE "repl"
    /\ Read >= 2 => ~dExit
    /\ Read >= 3 => taken = Len(sent) /\ torn = <<>>
    /\ Read >= 4 => "D" \in defs

CleanInv == AllTyped /\ OwnLines

\* What the types say of the variables used here.
LEMMA Shapes ==
  ASSUME TypeInv
  PROVE  /\ typed \in 0 .. 5 /\ Len(kbd) \in Nat /\ Read \in Int /\ Read <= 5
         /\ kbd \in Seq(Lines) /\ sent \in Seq(Chunk) /\ torn \in Seq(Text)
         /\ taken \in 0 .. Len(sent) /\ Len(sent) \in Nat
         /\ exec \in [c : Nat, phase : {"idle", "run", "verdict", "done"}, ok : BOOLEAN]
         /\ dExit \in BOOLEAN
         /\ hpc \in {"detect", "probe", "type"} => typed < 5
BY Commands DEF TypeInv, TypeOK, Read

\* One line less in the queue: the rest move up by one.
LEMMA TailMoves ==
  ASSUME TypeInv, kbd # <<>>, kbd' = Tail(kbd)
  PROVE  /\ Len(kbd') = Len(kbd) - 1 /\ Len(kbd) >= 1 /\ Head(kbd) = kbd[1]
         /\ \A k \in 1 .. Len(kbd') : k + 1 \in 1 .. Len(kbd) /\ kbd'[k] = kbd[k + 1]
BY Shapes

\* One line more: the others stay where they are.
LEMMA AppendStays ==
  ASSUME TypeInv, NEW line \in Lines, kbd' = Append(kbd, line)
  PROVE  /\ Len(kbd') = Len(kbd) + 1 /\ kbd'[Len(kbd) + 1] = line
         /\ \A k \in 1 .. Len(kbd) : kbd'[k] = kbd[k]
         /\ \A k \in 1 .. Len(kbd') : k \in 1 .. Len(kbd) \/ k = Len(kbd) + 1
BY Shapes

\* Every action keeps the bootstrap together.
LEMMA CleanStep == TypeInv /\ LogInv /\ CleanInv /\ [Next]_vars => CleanInv'
<1> SUFFICES ASSUME TypeInv, LogInv, CleanInv, [Next]_vars PROVE CleanInv'
  OBVIOUS
<1> USE DEF CleanInv
<1>s. /\ typed \in 0 .. 5 /\ Len(kbd) \in Nat /\ Read \in Int /\ Read <= 5
      /\ taken \in 0 .. Len(sent) /\ Len(sent) \in Nat
      /\ hpc \in {"detect", "probe", "type"} => typed < 5
  BY Shapes
<1>i. exec # Idle => Listening /\ exec.phase # "idle"
  BY DEF LogInv, OneChunk
\* The loop's own steps: none is possible once a line of the bootstrap is read.
<1>1. CASE TakeChunk \/ RunChunk \/ PrintVerdict \/ PrintDone \/ LeaveLoop \/ ViewerExit
  <2>1. UNCHANGED <<kbd, hpc, typed>>
    BY <1>1 DEF TakeChunk, RunChunk, PrintVerdict, PrintDone, LeaveLoop, ViewerExit, hostVars
  <2>2. CASE hpc \in {"type", "d_ok"} /\ Read >= 1
    <3>1. exec = Idle /\ adam \in {"repl", "D"} /\ (adam = "D" => ~dExit /\ taken = Len(sent))
      BY <1>s, <2>2 DEF OwnLines
    <3> QED
      BY <1>1, <1>s, <3>1 DEF TakeChunk, RunChunk, PrintVerdict, PrintDone, LeaveLoop,
                              ViewerExit, Idle, Listening
  <2>3. CASE ~(hpc \in {"type", "d_ok"} /\ Read >= 1)
    BY <1>s, <2>1, <2>3 DEF OwnLines, AllTyped, Read
  <2> QED
    BY <2>2, <2>3
<1>2. CASE ReplExec
  <2>1. /\ adam = "repl" /\ exec = Idle /\ kbd # <<>> /\ kbd' = Tail(kbd)
        /\ UNCHANGED <<exec, hpc, typed, sent>>
    BY <1>2, <1>i DEF ReplExec, hostVars, Listening
  <2>2. /\ Len(kbd') = Len(kbd) - 1 /\ Len(kbd) >= 1 /\ Head(kbd) = kbd[1]
        /\ \A k \in 1 .. Len(kbd') : k + 1 \in 1 .. Len(kbd) /\ kbd'[k] = kbd[k + 1]
    BY <2>1, TailMoves
  <2>3. Read' = Read + 1
    BY <1>s, <2>1, <2>2 DEF Read
  <2>4. AllTyped'
    BY <2>1 DEF AllTyped
  <2>5. ASSUME hpc \in {"type", "d_ok"}
        PROVE  /\ \A k \in 1 .. Len(kbd') :
                    Read + 1 + k >= 1 => kbd'[k] = BOOTSTRAP_CMDS[Read + 1 + k]
               /\ Read + 1 >= 1 => adam' = IF Read + 1 = 5 THEN "D" ELSE "repl"
               /\ Read + 1 >= 2 => ~dExit'
               /\ Read + 1 >= 3 => taken' = Len(sent) /\ torn' = <<>>
               /\ Read + 1 >= 4 => "D" \in defs'
    <3>1. \A k \in 1 .. Len(kbd') :
            Read + 1 + k >= 1 => kbd'[k] = BOOTSTRAP_CMDS[Read + 1 + k]
      <4> SUFFICES ASSUME NEW k \in 1 .. Len(kbd'), Read + 1 + k >= 1
                   PROVE  kbd'[k] = BOOTSTRAP_CMDS[Read + 1 + k]
        OBVIOUS
      <4>1. k + 1 \in 1 .. Len(kbd) /\ kbd'[k] = kbd[k + 1]
        BY <2>2
      <4>2. kbd[k + 1] = BOOTSTRAP_CMDS[Read + (k + 1)]
        BY <1>s, <2>5, <4>1 DEF OwnLines
      <4>3. Read + (k + 1) = Read + 1 + k
        BY <1>s
      <4> QED
        BY <4>1, <4>2, <4>3
    <3>2. CASE Read < 0
      BY <1>s, <3>1, <3>2
    <3>3. CASE Read >= 0
      <4>1. Read \in 0 .. 4
        BY <1>s, <2>1, <2>5, <3>3 DEF OwnLines
      <4>2. Head(kbd) = BOOTSTRAP_CMDS[Read + 1]
        BY <1>s, <2>2, <2>5, <3>3 DEF OwnLines
      <4>3. Head(kbd) = CASE Read = 0 -> "include" [] Read = 1 -> "globals"
                          [] Read = 2 -> "comminit" [] Read = 3 -> "def_d" [] Read = 4 -> "call_d"
        BY <4>1, <4>2 DEF BOOTSTRAP_CMDS
      <4>4. /\ Read >= 2 => ~dExit
            /\ Read >= 3 => taken = Len(sent) /\ torn = <<>>
            /\ Read >= 4 => "D" \in defs
        BY <2>5 DEF OwnLines
      <4>5. CASE Read = 0
        <5>1. Head(kbd) = "include"
          BY <4>3, <4>5
        <5>2. adam' = "repl"
          BY <1>2, <2>1, <5>1 DEF ReplExec
        <5> QED
          BY <3>1, <4>5, <5>2
      <4>6. CASE Read = 1
        <5>1. Head(kbd) = "globals"
          BY <4>3, <4>6
        <5>2. adam' = "repl" /\ ~dExit'
          BY <1>2, <2>1, <5>1 DEF ReplExec
        <5> QED
          BY <3>1, <4>6, <5>2
      <4>7. CASE Read = 2
        <5>1. Head(kbd) = "comminit"
          BY <4>3, <4>7
        <5>2. adam' = "repl" /\ ~dExit' /\ taken' = Len(sent) /\ torn' = <<>>
          BY <1>2, <2>1, <4>4, <4>7, <5>1 DEF ReplExec
        <5> QED
          BY <3>1, <4>7, <5>2
      <4>8. CASE Read = 3
        <5>1. Head(kbd) = "def_d"
          BY <4>3, <4>8
        <5>2. adam' = "repl" /\ ~dExit' /\ taken' = Len(sent) /\ torn' = <<>> /\ "D" \in defs'
          BY <1>2, <2>1, <4>4, <4>8, <5>1 DEF ReplExec
        <5> QED
          BY <3>1, <4>8, <5>2
      <4>9. CASE Read = 4
        <5>1. Head(kbd) = "call_d"
          BY <4>3, <4>9
        <5>2. adam' = "D" /\ ~dExit' /\ taken' = Len(sent) /\ torn' = <<>> /\ "D" \in defs'
          BY <1>2, <2>1, <4>4, <4>9, <5>1 DEF ReplExec
        <5> QED
          BY <3>1, <4>9, <5>2
      <4> QED
        BY <4>1, <4>5, <4>6, <4>7, <4>8, <4>9
    <3> QED
      BY <1>s, <3>2, <3>3
  <2> QED
    BY <2>1, <2>3, <2>4, <2>5 DEF OwnLines
<1>3. CASE TypeBootstrap
  <2>1. /\ hpc = "type" /\ typed' = typed + 1 /\ typed < 5
        /\ kbd' = Append(kbd, BOOTSTRAP_CMDS[typed + 1])
        /\ hpc' = IF typed' = 5 THEN "d_ok" ELSE "type"
        /\ UNCHANGED <<adam, exec, dExit, defs, taken, sent, torn>>
    BY <1>3, <1>s, Commands DEF TypeBootstrap
  <2>2. BOOTSTRAP_CMDS[typed + 1] \in Lines
    BY <1>s, <2>1, Commands
  <2>3. /\ Len(kbd') = Len(kbd) + 1 /\ kbd'[Len(kbd) + 1] = BOOTSTRAP_CMDS[typed + 1]
        /\ \A k \in 1 .. Len(kbd) : kbd'[k] = kbd[k]
        /\ \A k \in 1 .. Len(kbd') : k \in 1 .. Len(kbd) \/ k = Len(kbd) + 1
    BY <2>1, <2>2, AppendStays
  <2>4. Read' = Read /\ Read + (Len(kbd) + 1) = typed + 1
    BY <1>s, <2>1, <2>3 DEF Read
  <2>5. \A k \in 1 .. Len(kbd') : Read + k >= 1 => kbd'[k] = BOOTSTRAP_CMDS[Read + k]
    BY <2>1, <2>3, <2>4 DEF OwnLines
  <2>6. OwnLines'
    BY <2>1, <2>4, <2>5 DEF OwnLines
  <2>7. AllTyped'
    BY <2>1 DEF AllTyped
  <2> QED
    BY <2>6, <2>7
<1>4. CASE typed' = 0 /\ kbd' = kbd /\ hpc' \in {"detect", "type"}
  <2>1. Read' = 0 - Len(kbd)
    BY <1>s, <1>4 DEF Read
  <2>2. \A k \in 1 .. Len(kbd) : ~(Read' + k >= 1)
    BY <1>s, <2>1
  <2>3. OwnLines'
    BY <1>s, <1>4, <2>1, <2>2 DEF OwnLines
  <2> QED
    BY <1>4, <2>3 DEF AllTyped
<1>5. CASE hpc' \notin {"type", "d_ok", "detect", "probe"}
  BY <1>5 DEF AllTyped, OwnLines
<1>6. CASE Probe
  BY <1>6 DEF Probe, AllTyped, OwnLines
<1>7. CASE UNCHANGED vars
  BY <1>7 DEF vars, guestVars, hostVars, AllTyped, OwnLines, Read
<1>8. HostNext \/ Timeout \/ UserNext
        => \/ TypeBootstrap \/ Probe
           \/ typed' = 0 /\ kbd' = kbd /\ hpc' \in {"detect", "type"}
           \/ hpc' \notin {"type", "d_ok", "detect", "probe"}
  BY Tables
  DEF HostNext, UserNext, guestVars, PushStage2, StopStage1,
      CallD2, WaitDone, PushSrc, PushTest, PushFile, FileDone, KeepDaemon, StopDaemon,
      Launch, BeginTests, BeginDone, Finalize, FinalDone, Timeout, Start, Interrupt, Exit,
      AllTyped
<1> QED
  BY <1>1, <1>2, <1>3, <1>4, <1>5, <1>6, <1>7, <1>8 DEF Next, GuestNext

\* Whatever earlier runs and interrupts left in the FIFO, in the queue and in
\* _D_exit, the loop started by a run's own bootstrap begins without it.
THEOREM CleanStart == Spec => BootstrapStartsClean
<1>1. Init => LogInv /\ CleanInv
  BY DEF Init, LogInv, LogOrder, OneChunk, Idle, CleanInv, AllTyped, OwnLines
<1>2. ASSUME TypeInv, LogInv, CleanInv, [Next]_vars,
             adam # "D", adam' = "D", hpc = "d_ok", kbd' = <<>>
      PROVE  exec = Idle /\ taken = Len(sent) /\ torn = <<>> /\ ~dExit
  <2>1. ReplExec
    BY <1>2, Tables
    DEF Next, GuestNext, HostNext, UserNext, vars, guestVars, hostVars, TakeChunk, RunChunk,
        PrintVerdict, PrintDone, LeaveLoop, ViewerExit, Probe, TypeBootstrap, WaitDone,
        PushStage2, StopStage1, CallD2, PushSrc, PushTest, PushFile, FileDone, KeepDaemon,
        StopDaemon, Launch, BeginTests, BeginDone, Finalize, FinalDone, Timeout, Start,
        Interrupt, Exit
  <2>2. Len(kbd) = 1
    <3>1. kbd # <<>> /\ kbd' = Tail(kbd)
      BY <2>1 DEF ReplExec
    <3> QED
      BY <1>2, <3>1, TailMoves, Shapes
  <2>3. Read = 4
    BY <1>2, <2>2 DEF Read, CleanInv, AllTyped
  <2> QED
    BY <1>2, <2>3 DEF CleanInv, OwnLines
<1>3. TypeInv /\ LogInv /\ CleanInv /\ [Next]_vars
        => [adam # "D" /\ adam' = "D" /\ hpc = "d_ok" /\ kbd' = <<>>
              => exec = Idle /\ taken = Len(sent) /\ torn = <<>> /\ ~dExit]_vars
  BY <1>2
<1> QED
  BY <1>1, <1>3, InitType, TypeStep, LogStep, CleanStep, PTL DEF Spec, BootstrapStartsClean

-----------------------------------------------------------------------------
(***************************************************************************)
(* The daemon.  A loop serves when it listens and no order to exit is in   *)
(* force, in the FIFO or being executed; only the script can send one, and *)
(* it does so in two places, as long as no order to exit that lost its EOT *)
(* was ever ended by another push.                                         *)
(***************************************************************************)
NoTornExit == \A i \in 1 .. Len(sent) : ~TornExit(sent[i])

ExitAhead ==
  \/ \E i \in taken + 1 .. Len(sent) : sent[i].kind = "exit"
  \/ exec.phase = "run" /\ sent[exec.c].kind = "exit"

Serving == Listening /\ ~dExit /\ ~ExitAhead

\* Every D() still in the keyboard queue follows its own bootstrap, so the loop
\* it starts will serve; the parts of that bootstrap already read have had
\* their effect, and kept it, since adam is at its REPL until then.
StartsServing ==
  \A k \in 1 .. Len(kbd) : kbd[k] = "call_d" =>
    /\ k >= 2 => kbd[k - 1] = "def_d"
    /\ k >= 3 => kbd[k - 2] = "comminit"
    /\ k >= 4 => kbd[k - 3] = "globals"
    /\ k <= 3 => adam = "repl" /\ ~dExit
    /\ k <= 2 => ~ExitAhead

\* Where the script counts on a loop that serves.
Serves == {"push_v2", "v2", "push_exit", "src", "src_wait", "begin", "tests",
           "test_wait", "final"}

HostServed ==
  /\ hpc \in Serves => Serving
  /\ hpc = "idle" /\ rc = "ok" /\ mode # "launch" => Serving
  /\ hpc \in {"type", "d_ok"} /\ Captured("D_OK") # {} => Serving
  /\ hpc \in {"stop", "cmd"} => mode = "launch"

\* From the order to leave stage 1 to the start of stage 2: that order is the
\* last chunk, and once the loop is left the FIFO is empty and stays so.
AllTaken == taken = Len(sent) /\ exec = Idle

Stage2 ==
  /\ hpc = "d_exit" =>
       /\ \A i \in taken + 1 .. Len(sent) - 1 : sent[i].kind # "exit"
       /\ exec.phase = "run" /\ sent[exec.c].kind = "exit" => taken = Len(sent)
       /\ dExit \/ ~Listening => taken = Len(sent)
       /\ Captured("D_EXIT") # {} => AllTaken
  /\ hpc \in {"call_d2", "d2_ok"} => AllTaken
  /\ hpc \in {"d_exit", "call_d2", "d2_ok"} /\ Captured("D2_OK") # {}
       => AllTaken /\ Listening /\ ~dExit

ServeInv == StartsServing /\ HostServed /\ Stage2

\* A line printed adds at most its own tag to the window of the wait.
LEMMA WindowGrows ==
  ASSUME TypeInv, NEW tag, NEW of, CommPrint(tag, of), since' = since, NEW t, t # tag
  PROVE  Captured(t)' # {} => Captured(t) # {}
<1>1. /\ Len(log') = Len(log) + 1 /\ Len(log) \in Nat /\ since \in Nat
      /\ \A i \in 1 .. Len(log) : log'[i] = log[i]
      /\ log'[Len(log) + 1] = [tag |-> tag, of |-> of]
  BY DEF TypeInv, TypeOK, CommPrint
<1>2. SUFFICES ASSUME Captured(t)' # {} PROVE Captured(t) # {}
  OBVIOUS
<1>3. PICK i \in since + 1 .. Len(log') : log'[i].tag = t
  BY <1>2 DEF Captured
<1>4. i \in since + 1 .. Len(log) /\ log[i].tag = t
  BY <1>1, <1>3
<1> QED
  BY <1>4 DEF Captured

\* What a chunk prints when it runs is not what any wait but two looks for.
LEMMA RunWindow ==
  ASSUME TypeInv, RunChunk, NEW t, t \notin {"PROBE_OK", "TEST_RUN_END"}
  PROVE  Captured(t)' # {} => Captured(t) # {}
<1>1. LogRun(exec.c) /\ since' = since /\ since \in Nat
  BY ChunkRuns DEF hostVars, TypeInv, TypeOK
<1>2. SUFFICES ASSUME Captured(t)' # {} PROVE Captured(t) # {}
  OBVIOUS
<1>3. PICK i \in since + 1 .. Len(log') : log'[i].tag = t
  BY <1>1, <1>2 DEF Captured
<1>4. i \in since + 1 .. Len(log) /\ log[i].tag = t
  BY <1>1, <1>3 DEF LogRun
<1> QED
  BY <1>4 DEF Captured

\* A window just opened is empty.
LEMMA FreshWindow ==
  ASSUME TypeInv, log' = log, since' = Len(log), NEW t
  PROVE  Captured(t)' = {}
<1>1. Len(log) \in Nat
  BY DEF TypeInv, TypeOK
<1> QED
  BY <1>1 DEF Captured

\* A loop that serves still serves after any step of the guest.
LEMMA GuestServes ==
  ASSUME TypeInv, LogInv, NoTornExit, Serving, GuestNext
  PROVE  Serving' /\ adam' = adam /\ dExit' = dExit /\ kbd' = kbd
<1>s. taken \in 0 .. Len(sent) /\ Len(sent) \in Nat
  BY Shapes
<1>i. exec.phase = "run" => exec.c = taken
  BY DEF LogInv, OneChunk, Idle
<1> USE DEF Serving, ExitAhead, Listening
<1>1. CASE TakeChunk
  BY <1>1, <1>s DEF TakeChunk
<1>2. CASE RunChunk
  <2>1. /\ exec.c \in 1 .. Len(sent) /\ exec.phase = "run" /\ exec'.phase # "run"
        /\ dExit' => dExit \/ sent[exec.c].kind = "exit" \/ TornExit(sent[exec.c])
        /\ dExit' \in BOOLEAN /\ UNCHANGED <<adam, kbd, taken, sent>>
    BY <1>2, ChunkRuns
  <2>2. ~TornExit(sent[exec.c]) /\ sent[exec.c].kind # "exit" /\ dExit \in BOOLEAN
    BY <2>1, Shapes DEF NoTornExit
  <2> QED
    BY <2>1, <2>2
<1>3. CASE PrintVerdict \/ PrintDone
  BY <1>3, Shapes DEF PrintVerdict, PrintDone, Idle
<1> QED
  BY <1>1, <1>2, <1>3 DEF GuestNext, LeaveLoop, ReplExec, ViewerExit

\* What is ahead of a loop is not changed by what leaves the link alone.
LEMMA AheadStays ==
  UNCHANGED <<exec, taken, sent>> => (ExitAhead' <=> ExitAhead)
BY DEF ExitAhead

\* A chunk that is no order to exit adds none.
LEMMA PushAhead ==
  ASSUME TypeInv, NEW kind \in Kinds, NEW file \in Files \cup {NoFile}, Push(kind, file),
         UNCHANGED <<exec, taken>>
  PROVE  /\ Len(sent') = Len(sent) + 1 /\ sent'[Len(sent) + 1].kind = kind
         /\ \A i \in 1 .. Len(sent) : sent'[i] = sent[i]
         /\ kind # "exit" /\ ~ExitAhead => ~ExitAhead'
<1>1. taken \in 0 .. Len(sent) /\ Len(sent) \in Nat /\ sent \in Seq(Chunk) /\ exec.c \in 0 .. taken
  BY Shapes DEF TypeInv, TypeOK
<1>2. /\ Len(sent') = Len(sent) + 1 /\ sent'[Len(sent) + 1].kind = kind
      /\ \A i \in 1 .. Len(sent) : sent'[i] = sent[i]
  BY <1>1 DEF Push
<1>3. exec.phase = "run" => exec.c \in 1 .. Len(sent)
  BY <1>1 DEF TypeInv
<1>4. ASSUME kind # "exit", ~ExitAhead PROVE ~ExitAhead'
  <2>1. \A i \in taken + 1 .. Len(sent') : sent'[i].kind # "exit"
    BY <1>1, <1>2, <1>4 DEF ExitAhead
  <2>2. exec.phase = "run" => sent'[exec.c].kind # "exit"
    BY <1>2, <1>3, <1>4 DEF ExitAhead
  <2> QED
    BY <2>1, <2>2 DEF ExitAhead
<1> QED
  BY <1>2, <1>4

\* Which steps are left when a step of the script, of time or of the user does
\* not push, type or read anything.
HostOnly == UNCHANGED <<guestVars, sent, log>>

\* What comes after a later position comes after an earlier one.
LEMMA Later ==
  ASSUME NEW a \in Nat, NEW b \in Nat, b >= a, NEW c \in Nat, NEW i \in b + 1 .. c
  PROVE  i \in a + 1 .. c
OBVIOUS

\* Every action keeps the bootstraps in the queue whole.
LEMMA StartsStep ==
  TypeInv /\ LogInv /\ CleanInv /\ StartsServing /\ HostServed /\ [Next]_vars => StartsServing'
<1> SUFFICES ASSUME TypeInv, LogInv, CleanInv, StartsServing, HostServed, [Next]_vars
             PROVE  StartsServing'
  OBVIOUS
<1>s. /\ typed \in 0 .. 5 /\ Len(kbd) \in Nat /\ Read \in Int /\ Read <= 5
      /\ taken \in 0 .. Len(sent) /\ Len(sent) \in Nat
      /\ hpc \in {"detect", "probe", "type"} => typed < 5
  BY Shapes
<1>i. exec # Idle => Listening /\ exec.phase # "idle"
  BY DEF LogInv, OneChunk
\* With a loop or a program in adam's hands, no bootstrap is half read.
<1>l. adam # "repl" => \A k \in 1 .. Len(kbd) : kbd[k] = "call_d" => k > 3
  BY DEF StartsServing
<1>w. ASSUME adam # "repl", kbd' = kbd PROVE StartsServing'
  BY <1>s, <1>l, <1>w DEF StartsServing
<1>1. CASE TakeChunk \/ RunChunk \/ PrintVerdict \/ PrintDone \/ LeaveLoop \/ ViewerExit
  <2>1. kbd' = kbd
    BY <1>1 DEF TakeChunk, RunChunk, PrintVerdict, PrintDone, LeaveLoop, ViewerExit
  <2>2. exec.phase \in {"run", "verdict", "done"} => adam # "repl"
    BY <1>i DEF Idle, Listening
  <2>3. adam # "repl"
    BY <1>1, <2>2 DEF TakeChunk, RunChunk, PrintVerdict, PrintDone, LeaveLoop, ViewerExit,
                      Listening
  <2> QED
    BY <1>w, <2>1, <2>3
<1>2. CASE ReplExec
  <2>1. /\ adam = "repl" /\ exec = Idle /\ kbd # <<>> /\ kbd' = Tail(kbd) /\ exec' = exec
        /\ sent' = sent /\ taken' \in {taken, Len(sent)}
    BY <1>2, <1>i DEF ReplExec, Listening
  <2>2. /\ Len(kbd') = Len(kbd) - 1 /\ Len(kbd) >= 1 /\ Head(kbd) = kbd[1]
        /\ \A k \in 1 .. Len(kbd') : k + 1 \in 1 .. Len(kbd) /\ kbd'[k] = kbd[k + 1]
    BY <2>1, TailMoves
  <2>3. ASSUME ~ExitAhead PROVE ~ExitAhead'
    <3>1. ASSUME NEW i \in taken' + 1 .. Len(sent') PROVE sent'[i].kind # "exit"
      <4>1. taken' >= taken /\ taken \in Nat /\ taken' \in Nat /\ Len(sent) \in Nat
        BY <1>s, <2>1
      <4>2. i \in taken + 1 .. Len(sent)
        BY <2>1, <3>1, <4>1, Later
      <4> QED
        BY <2>1, <2>3, <4>2 DEF ExitAhead
    <3>2. ~(exec'.phase = "run" /\ sent'[exec'.c].kind = "exit")
      BY <2>1, <2>3 DEF ExitAhead
    <3> QED
      BY <3>1, <3>2 DEF ExitAhead
  <2> SUFFICES ASSUME NEW k \in 1 .. Len(kbd'), kbd'[k] = "call_d"
               PROVE  /\ k >= 2 => kbd'[k - 1] = "def_d"
                      /\ k >= 3 => kbd'[k - 2] = "comminit"
                      /\ k >= 4 => kbd'[k - 3] = "globals"
                      /\ k <= 3 => adam' = "repl" /\ ~dExit'
                      /\ k <= 2 => ~ExitAhead'
    BY DEF StartsServing
  <2>4. k + 1 \in 1 .. Len(kbd) /\ kbd[k + 1] = "call_d" /\ k \in Nat /\ k >= 1
    BY <1>s, <2>2
  <2>5. /\ kbd[k] = "def_d"
        /\ k >= 2 => kbd[k - 1] = "comminit"
        /\ k >= 3 => kbd[k - 2] = "globals"
        /\ k <= 2 => adam = "repl" /\ ~dExit
        /\ k <= 1 => ~ExitAhead
    <3>1. /\ k + 1 >= 2 => kbd[k + 1 - 1] = "def_d"
          /\ k + 1 >= 3 => kbd[k + 1 - 2] = "comminit"
          /\ k + 1 >= 4 => kbd[k + 1 - 3] = "globals"
          /\ k + 1 <= 3 => adam = "repl" /\ ~dExit
          /\ k + 1 <= 2 => ~ExitAhead
      BY <2>4 DEF StartsServing
    <3>2. k + 1 - 1 = k /\ k + 1 - 2 = k - 1 /\ k + 1 - 3 = k - 2
      BY <2>4
    <3> QED
      BY <2>4, <3>1, <3>2
  <2>6. /\ k >= 2 => kbd'[k - 1] = kbd[k]
        /\ k >= 3 => kbd'[k - 2] = kbd[k - 1]
        /\ k >= 4 => kbd'[k - 3] = kbd[k - 2]
    <3>1. ASSUME k >= 2 PROVE kbd'[k - 1] = kbd[k]
      BY <1>s, <2>2, <2>4, <3>1
    <3>2. ASSUME k >= 3 PROVE kbd'[k - 2] = kbd[k - 1]
      BY <1>s, <2>2, <2>4, <3>2
    <3>3. ASSUME k >= 4 PROVE kbd'[k - 3] = kbd[k - 2]
      BY <1>s, <2>2, <2>4, <3>3
    <3> QED
      BY <3>1, <3>2, <3>3
  <2>7. /\ k = 1 => Head(kbd) = "def_d"
        /\ k = 2 => Head(kbd) = "comminit"
        /\ k = 3 => Head(kbd) = "globals"
    BY <2>2, <2>5
  <2>8. ASSUME k = 1 PROVE adam' = "repl" /\ ~dExit' /\ ~ExitAhead'
    <3>1. Head(kbd) = "def_d" /\ ~dExit /\ ~ExitAhead
      BY <2>5, <2>7, <2>8
    <3> QED
      BY <1>2, <2>1, <2>3, <3>1 DEF ReplExec
  <2>9. ASSUME k = 2 PROVE adam' = "repl" /\ ~dExit' /\ ~ExitAhead'
    <3>1. Head(kbd) = "comminit" /\ ~dExit
      BY <2>5, <2>7, <2>9
    <3>2. adam' = "repl" /\ ~dExit' /\ taken' = Len(sent)
      BY <1>2, <2>1, <3>1 DEF ReplExec
    <3> QED
      BY <1>s, <2>1, <3>2 DEF ExitAhead, Idle
  <2>10. ASSUME k = 3 PROVE adam' = "repl" /\ ~dExit'
    <3>1. Head(kbd) = "globals"
      BY <2>7, <2>10
    <3> QED
      BY <1>2, <2>1, <3>1 DEF ReplExec
  <2> QED
    BY <2>4, <2>5, <2>6, <2>8, <2>9, <2>10
<1>3. CASE TypeBootstrap
  <2>1. /\ hpc = "type" /\ typed < 5 /\ kbd' = Append(kbd, BOOTSTRAP_CMDS[typed + 1])
        /\ UNCHANGED <<adam, exec, dExit, taken, sent>>
    BY <1>3, <1>s DEF TypeBootstrap
  <2>2. /\ Len(kbd') = Len(kbd) + 1 /\ kbd'[Len(kbd) + 1] = BOOTSTRAP_CMDS[typed + 1]
        /\ \A k \in 1 .. Len(kbd) : kbd'[k] = kbd[k]
        /\ \A k \in 1 .. Len(kbd') : k \in 1 .. Len(kbd) \/ k = Len(kbd) + 1
    BY <1>s, <2>1, AppendStays, Commands
  <2>3. ExitAhead' <=> ExitAhead
    BY <2>1, AheadStays
  <2> DEFINE n == Len(kbd) + 1
  <2>4. ASSUME kbd'[n] = "call_d"
        PROVE  /\ n >= 2 => kbd'[n - 1] = "def_d"
               /\ n >= 3 => kbd'[n - 2] = "comminit"
               /\ n >= 4 => kbd'[n - 3] = "globals"
               /\ n <= 3 => adam = "repl" /\ ~dExit
               /\ n <= 2 => ~ExitAhead
    <3>1. typed = 4 /\ Read = 5 - n
      BY <1>s, <2>1, <2>2, <2>4 DEF BOOTSTRAP_CMDS, Read
    <3>2. \A k \in 1 .. Len(kbd) : Read + k >= 1 => kbd'[k] = BOOTSTRAP_CMDS[Read + k]
      BY <2>1, <2>2 DEF CleanInv, OwnLines
    <3>3. ASSUME n >= 2 PROVE kbd'[n - 1] = "def_d"
      <4>1. n - 1 \in 1 .. Len(kbd) /\ Read + (n - 1) = 4
        BY <1>s, <3>1, <3>3
      <4> QED
        BY <3>2, <4>1 DEF BOOTSTRAP_CMDS
    <3>4. ASSUME n >= 3 PROVE kbd'[n - 2] = "comminit"
      <4>1. n - 2 \in 1 .. Len(kbd) /\ Read + (n - 2) = 3
        BY <1>s, <3>1, <3>4
      <4> QED
        BY <3>2, <4>1 DEF BOOTSTRAP_CMDS
    <3>5. ASSUME n >= 4 PROVE kbd'[n - 3] = "globals"
      <4>1. n - 3 \in 1 .. Len(kbd) /\ Read + (n - 3) = 2
        BY <1>s, <3>1, <3>5
      <4> QED
        BY <3>2, <4>1 DEF BOOTSTRAP_CMDS
    <3>6. ASSUME n <= 3 PROVE adam = "repl" /\ ~dExit
      <4>1. Read \in 2 .. 4
        BY <1>s, <3>1, <3>6
      <4> QED
        BY <2>1, <4>1 DEF CleanInv, OwnLines
    <3>7. ASSUME n <= 2 PROVE ~ExitAhead
      <4>1. Read >= 3 /\ Read >= 1
        BY <1>s, <3>1, <3>7
      <4>2. taken = Len(sent) /\ exec = Idle
        BY <2>1, <4>1 DEF CleanInv, OwnLines
      <4> QED
        BY <1>s, <4>2 DEF ExitAhead, Idle
    <3> QED
      BY <3>3, <3>4, <3>5, <3>6, <3>7
  <2>5. ASSUME NEW k \in 1 .. Len(kbd'), kbd'[k] = "call_d"
        PROVE  /\ k >= 2 => kbd'[k - 1] = "def_d"
               /\ k >= 3 => kbd'[k - 2] = "comminit"
               /\ k >= 4 => kbd'[k - 3] = "globals"
               /\ k <= 3 => adam' = "repl" /\ ~dExit'
               /\ k <= 2 => ~ExitAhead'
    <3>1. CASE k = n
      BY <2>1, <2>3, <2>4, <2>5, <3>1
    <3>2. CASE k \in 1 .. Len(kbd)
      <4>1. /\ kbd'[k] = kbd[k]
            /\ k >= 2 => kbd'[k - 1] = kbd[k - 1]
            /\ k >= 3 => kbd'[k - 2] = kbd[k - 2]
            /\ k >= 4 => kbd'[k - 3] = kbd[k - 3]
        BY <1>s, <2>2, <3>2
      <4> QED
        BY <2>1, <2>3, <2>5, <3>2, <4>1 DEF StartsServing
    <3> QED
      BY <2>2, <3>1, <3>2
  <2> QED
    BY <2>5 DEF StartsServing
<1>4. ASSUME NEW line \in {"call_d2", "cmd"}, kbd' = Append(kbd, line),
             UNCHANGED <<adam, exec, dExit, taken, sent>>
      PROVE  StartsServing'
  <2>2. /\ Len(kbd') = Len(kbd) + 1 /\ kbd'[Len(kbd) + 1] = line
        /\ \A k \in 1 .. Len(kbd) : kbd'[k] = kbd[k]
        /\ \A k \in 1 .. Len(kbd') : k \in 1 .. Len(kbd) \/ k = Len(kbd) + 1
    BY <1>4, AppendStays, Commands
  <2>3. ExitAhead' <=> ExitAhead
    BY <1>4, AheadStays
  <2>4. ASSUME NEW k \in 1 .. Len(kbd'), kbd'[k] = "call_d"
        PROVE  /\ k >= 2 => kbd'[k - 1] = "def_d"
               /\ k >= 3 => kbd'[k - 2] = "comminit"
               /\ k >= 4 => kbd'[k - 3] = "globals"
               /\ k <= 3 => adam' = "repl" /\ ~dExit'
               /\ k <= 2 => ~ExitAhead'
    <3>1. k \in 1 .. Len(kbd)
      BY <2>2, <2>4
    <3>2. /\ kbd'[k] = kbd[k]
          /\ k >= 2 => kbd'[k - 1] = kbd[k - 1]
          /\ k >= 3 => kbd'[k - 2] = kbd[k - 2]
          /\ k >= 4 => kbd'[k - 3] = kbd[k - 3]
      BY <1>s, <2>2, <3>1
    <3> QED
      BY <1>4, <2>3, <2>4, <3>1, <3>2 DEF StartsServing
  <2> QED
    BY <2>4 DEF StartsServing
<1>5. CASE UNCHANGED <<adam, dExit, kbd>> /\ (~ExitAhead => ~ExitAhead')
  BY <1>5 DEF StartsServing
<1>6. CASE HostOnly
  BY <1>5, <1>6, AheadStays DEF HostOnly, guestVars
<1>7. CASE Probe
  BY <1>5, <1>7, PushAhead DEF Probe, guestVars, Kinds
<1>8. CASE hpc \in Serves /\ kbd' = kbd
  BY <1>8, <1>w DEF HostServed, Serving, Listening
<1>9. HostNext \/ Timeout \/ UserNext
        => TypeBootstrap \/ CallD2 \/ Launch \/ Probe \/ HostOnly \/ (hpc \in Serves /\ kbd' = kbd)
  BY DEF HostNext, UserNext, guestVars, PushStage2, StopStage1, WaitDone, PushSrc, PushTest,
      PushFile, FileDone, KeepDaemon, StopDaemon, BeginTests, BeginDone, Finalize,
      FinalDone, Timeout, Start, Interrupt, Serves, HostOnly
<1>10. CASE CallD2
  BY <1>4, <1>10 DEF CallD2
<1>11. CASE Launch
  <2>1. kbd' = kbd \/ kbd' = Append(kbd, "cmd")
    BY <1>11 DEF Launch
  <2>2. UNCHANGED <<adam, exec, dExit, taken, sent>>
    BY <1>11 DEF Launch
  <2> QED
    BY <1>4, <1>5, <2>1, <2>2, AheadStays
<1>12. CASE UNCHANGED vars
  BY <1>6, <1>12 DEF vars, HostOnly
<1> QED
  BY <1>1, <1>2, <1>3, <1>6, <1>7, <1>8, <1>9, <1>10, <1>11, <1>12 DEF Next, GuestNext

\* Every action keeps a loop that serves where the script counts on one.
LEMMA ServedStep ==
  TypeInv /\ LogInv /\ ProbeInv /\ NoTornExit /\ StartsServing /\ HostServed /\ Stage2
    /\ [Next]_vars => HostServed'
<1> SUFFICES ASSUME TypeInv, LogInv, ProbeInv, NoTornExit, StartsServing, HostServed, Stage2,
                    [Next]_vars
             PROVE  HostServed'
  OBVIOUS
<1>s. /\ taken \in 0 .. Len(sent) /\ Len(sent) \in Nat /\ Len(kbd) \in Nat
      /\ log \in Seq([tag : Tags, of : Nat])
  BY Shapes DEF TypeInv, TypeOK
<1>1. CASE GuestNext
  <2>1. UNCHANGED <<hpc, rc, mode, since>>
    BY <1>1 DEF GuestNext, TakeChunk, RunChunk, PrintVerdict, PrintDone, LeaveLoop, ReplExec,
                ViewerExit, hostVars
  <2>2. Serving => Serving'
    BY <1>1, GuestServes
  <2>3. ASSUME hpc \in {"type", "d_ok"}, Captured("D_OK")' # {} PROVE Serving'
    <3>1. CASE Captured("D_OK") # {}
      BY <2>2, <2>3, <3>1 DEF HostServed
    <3>2. CASE Captured("D_OK") = {}
      <4>1. ~UNCHANGED log
        BY <2>1, <2>3, <3>2 DEF Captured
      <4>2. ~\E tag \in Tags \ {"D_OK"}, of \in Nat : CommPrint(tag, of)
        BY <2>1, <2>3, <3>2, WindowGrows
      <4>3. exec.c \in Nat /\ taken \in Nat
        BY <1>s, Shapes
      <4>r. ~RunChunk
        BY <2>1, <2>3, <3>2, RunWindow
      <4>4. ~TakeChunk /\ ~PrintVerdict /\ ~PrintDone /\ ~LeaveLoop /\ ~ViewerExit
        BY <4>1, <4>2, <4>3 DEF TakeChunk, PrintVerdict, PrintDone, LeaveLoop,
                                ViewerExit, Tags
      <4>5. ReplExec
        BY <1>1, <4>r, <4>4 DEF GuestNext
      <4>6. Head(kbd) = "call_d" /\ adam' = "D" /\ taken' = taken
        BY <4>1, <4>2, <4>3, <4>5 DEF ReplExec, Tags
      <4>7. kbd # <<>> /\ kbd' = Tail(kbd)
        BY <4>5 DEF ReplExec
      <4>8. 1 \in 1 .. Len(kbd) /\ kbd[1] = "call_d"
        BY <1>s, <4>6, <4>7, TailMoves
      <4>9. ~dExit /\ ~ExitAhead
        BY <4>8 DEF StartsServing
      <4>10. dExit' = dExit /\ UNCHANGED <<exec, sent>>
        BY <4>5, <4>6 DEF ReplExec
      <4> QED
        BY <4>6, <4>9, <4>10, AheadStays DEF Serving, Listening
    <3> QED
      BY <3>1, <3>2
  <2> QED
    BY <2>1, <2>2, <2>3 DEF HostServed
\* A push that is no order to exit, by a script that counts on a loop that serves.
<1>2. ASSUME NEW kind \in Kinds \ {"exit"}, NEW file \in Files \cup {NoFile},
             Push(kind, file), hpc \in Serves, hpc' \in Serves, UNCHANGED guestVars
      PROVE  HostServed'
  <2>1. Serving
    BY <1>2 DEF HostServed
  <2>2. Serving'
    BY <1>2, <2>1, PushAhead DEF Serving, Listening, guestVars
  <2> QED
    BY <1>2, <2>2 DEF HostServed, Serves
<1>3. CASE PushStage2 \/ BeginTests \/ Finalize
  BY <1>2, <1>3 DEF PushStage2, BeginTests, Finalize, Kinds, Serves
<1>4. CASE PushSrc \/ PushTest
  <2>1. mode \in AllModes /\ pos \in Nat \ {0}
    BY DEF TypeInv, TypeOK
  <2>2. pos <= Len(Phase1(mode)) => Todo(mode)[pos] \in Files
    BY <2>1, TodoFiles
  <2>3. pos <= Len(Todo(mode)) => Todo(mode)[pos] \in Files
    BY <2>1, TodoFiles
  <2> QED
    BY <1>2, <1>4, <2>2, <2>3 DEF PushSrc, PushTest, PushFile, Kinds, Serves
\* The orders to exit: the script no longer counts on the loop.
<1>5. CASE StopStage1
  BY <1>5 DEF StopStage1, HostServed, Serves
<1>6. CASE StopDaemon
  BY <1>6 DEF StopDaemon, HostServed, Serves
<1>7. CASE Probe
  BY <1>7 DEF Probe, HostServed, Serves
<1>8. CASE CallD2 \/ Launch
  <2>1. CASE CallD2
    BY <2>1 DEF CallD2, HostServed, Serves
  <2>2. CASE Launch
    BY <2>2 DEF Launch, Exit, HostServed, Serves
  <2> QED
    BY <1>8, <2>1, <2>2
<1>9. CASE TypeBootstrap
  <2>1. /\ hpc = "type" /\ hpc' \in {"type", "d_ok"} /\ Captured("D_OK")' = Captured("D_OK")
        /\ UNCHANGED <<adam, dExit, exec, taken, sent>>
    BY <1>9 DEF TypeBootstrap, Captured
  <2> QED
    BY <2>1, AheadStays DEF HostServed, Serves, Serving, Listening
\* What follows only moves the script on.
<1>10. HostOnly => (Serving' <=> Serving)
  BY AheadStays DEF HostOnly, guestVars, Serving, Listening
<1>11. CASE WaitDone
  <2>1. /\ hpc \in DOMAIN AfterWait /\ hpc' = AfterWait[hpc] /\ mode' = mode /\ HostOnly
        /\ \E i \in Captured(Awaits[hpc]) : hpc = "probe" => log[i].of = Len(sent)
    BY <1>11 DEF WaitDone, HostOnly, Arrived
  <2>2. CASE hpc = "probe"
    <3>1. hpc' = "src" /\ Echoed
      BY <2>1, <2>2, Tables, <1>s DEF Awaits, Echoed, Captured, TypeInv, TypeOK
    <3>2. Listening /\ ~dExit
      <4>1. Len(sent) \in 1 .. Len(sent)
        BY <1>s, <2>2 DEF ProbeInv, EchoFromLoop
      <4> QED
        BY <2>2, <3>1, <4>1 DEF ProbeInv, EchoFromLoop, NoTornExit
    <3>3. \A i \in 1 .. Len(log) : log[i].of <= taken /\ log[i].of \in Nat
      <4>1. ASSUME NEW i \in 1 .. Len(log) PROVE log[i] \in [tag : Tags, of : Nat]
        BY <1>s, SeqElement
      <4> QED
        BY <4>1 DEF LogInv, LogOrder
    <3>4. taken = Len(sent) /\ exec.phase # "run"
      BY <1>s, <3>1, <3>3 DEF Echoed, ProbeInv, Untouched
    <3>5. Serving
      BY <1>s, <3>2, <3>4 DEF Serving, ExitAhead
    <3> QED
      BY <1>10, <2>1, <3>1, <3>5 DEF HostServed, Serves
  <2>3. CASE hpc = "d_ok"
    <3>1. hpc' = "push_v2" /\ Captured("D_OK") # {}
      BY <2>1, <2>3 DEF AfterWait, Awaits
    <3> QED
      BY <1>10, <2>1, <2>3, <3>1 DEF HostServed, Serves
  <2>4. CASE hpc = "v2"
    <3>1. hpc' = "push_exit"
      BY <2>1, <2>4 DEF AfterWait
    <3> QED
      BY <1>10, <2>1, <2>4, <3>1 DEF HostServed, Serves
  <2>5. CASE hpc = "d_exit"
    <3>1. hpc' = "call_d2"
      BY <2>1, <2>5 DEF AfterWait
    <3> QED
      BY <3>1 DEF HostServed, Serves
  <2>6. CASE hpc = "d2_ok"
    <3>1. hpc' = "src" /\ Captured("D2_OK") # {}
      BY <2>1, <2>6 DEF AfterWait, Awaits
    <3>2. AllTaken /\ Listening /\ ~dExit
      BY <2>6, <3>1 DEF Stage2
    <3>3. Serving
      BY <1>s, <3>2 DEF Serving, ExitAhead, AllTaken, Idle
    <3> QED
      BY <1>10, <2>1, <3>1, <3>3 DEF HostServed, Serves
  <2>7. CASE hpc = "stop"
    <3>1. hpc' = "cmd"
      BY <2>1, <2>7 DEF AfterWait
    <3> QED
      BY <2>1, <2>7, <3>1 DEF HostServed, Serves
  <2> QED
    BY <2>1, <2>2, <2>3, <2>4, <2>5, <2>6, <2>7, Tables
<1>12. CASE FileDone \/ KeepDaemon \/ BeginDone \/ FinalDone
  <2>1. HostOnly /\ hpc \in Serves /\ (hpc' \in Serves \/ hpc' = "idle")
    BY <1>12 DEF FileDone, KeepDaemon, BeginDone, FinalDone, HostOnly, Serves, Exit
  <2> QED
    BY <1>10, <2>1 DEF HostServed, Serves
<1>13. CASE Timeout
  <2>1. HostOnly /\ mode' = mode
    BY <1>13 DEF Timeout, HostOnly
  <2>2. CASE hpc = "probe" /\ hpc' = "type" /\ since' = Len(log)
    <3>1. Captured("D_OK")' = {}
      BY <2>1, <2>2, FreshWindow DEF HostOnly
    <3> QED
      BY <2>2, <3>1 DEF HostServed, Serves
  <2>3. CASE hpc = "begin" /\ hpc' = "tests"
    BY <1>10, <2>1, <2>3 DEF HostServed, Serves
  <2>4. CASE hpc = "stop" /\ hpc' = "cmd"
    BY <2>1, <2>4 DEF HostServed, Serves
  <2>5. CASE hpc' = "idle" /\ rc' = "timeout"
    BY <2>5 DEF HostServed, Serves
  <2> QED
    BY <1>13, <2>2, <2>3, <2>4, <2>5 DEF Timeout, Exit
<1>14. ASSUME NEW m \in Modes, Start(m) PROVE HostServed'
  <2>1. hpc' \in {"detect", "type"} /\ log' = log /\ since' = Len(log)
    BY <1>14 DEF Start
  <2>2. Captured("D_OK")' = {}
    BY <2>1, FreshWindow
  <2> QED
    BY <2>1, <2>2 DEF HostServed, Serves
<1>15. CASE Interrupt
  BY <1>15 DEF Interrupt, Exit, HostServed, Serves
<1>16. CASE UNCHANGED vars
  <2>1. HostOnly /\ UNCHANGED <<hpc, rc, mode, since, log>>
    BY <1>16 DEF vars, hostVars, HostOnly
  <2>2. Captured("D_OK")' = Captured("D_OK")
    BY <2>1 DEF Captured
  <2> QED
    BY <1>10, <2>1, <2>2 DEF HostServed
<1> QED
  BY <1>1, <1>3, <1>4, <1>5, <1>6, <1>7, <1>8, <1>9, <1>11, <1>12, <1>13, <1>14, <1>15, <1>16
  DEF Next, HostNext, UserNext

\* Every action keeps the order of the handover from stage 1 to stage 2.
LEMMA Stage2Step ==
  TypeInv /\ LogInv /\ NoTornExit /\ HostServed /\ Stage2 /\ [Next]_vars => Stage2'
<1> SUFFICES ASSUME TypeInv, LogInv, NoTornExit, HostServed, Stage2, [Next]_vars PROVE Stage2'
  OBVIOUS
<1>s. /\ taken \in 0 .. Len(sent) /\ Len(sent) \in Nat /\ exec.c \in Nat /\ taken \in Nat
      /\ exec \in [c : Nat, phase : {"idle", "run", "verdict", "done"}, ok : BOOLEAN]
  BY Shapes
<1>i. exec # Idle => Listening /\ exec.phase # "idle" /\ exec.c = taken
  BY DEF LogInv, OneChunk
<1> DEFINE Swap == hpc \in {"d_exit", "call_d2", "d2_ok"}
           Left == Captured("D_EXIT") # {}
           Back == Captured("D2_OK") # {}
<1>w. ASSUME UNCHANGED <<hpc, since>>,
             \/ UNCHANGED log
             \/ \E tag \in Tags \ {"D_EXIT", "D2_OK"}, of \in Nat : CommPrint(tag, of)
      PROVE  (Left' => Left) /\ (Back' => Back)
  <2>1. CASE UNCHANGED log
    BY <1>w, <2>1 DEF Captured
  <2>2. CASE \E tag \in Tags \ {"D_EXIT", "D2_OK"}, of \in Nat : CommPrint(tag, of)
    BY <1>w, <2>2, WindowGrows
  <2> QED
    BY <1>w, <2>1, <2>2
\* The chunk taken next is an order to exit only if it is the last one.
<1>1. CASE TakeChunk
  <2>1. /\ taken' = taken + 1 /\ taken < Len(sent) /\ ~dExit /\ Listening /\ ~AllTaken
        /\ exec' = [c |-> taken + 1, phase |-> "run", ok |-> TRUE]
        /\ UNCHANGED <<hpc, since, log, sent, dExit, adam>>
    BY <1>1, <1>s DEF TakeChunk, AllTaken, hostVars
  <2>2. (Left' => Left) /\ (Back' => Back)
    BY <1>w, <2>1
  <2>3. hpc \notin {"call_d2", "d2_ok"}
    BY <2>1 DEF Stage2
  <2>4. ASSUME hpc = "d_exit", sent[taken + 1].kind = "exit" PROVE taken + 1 = Len(sent)
    <3>1. taken + 1 \notin taken + 1 .. Len(sent) - 1
      BY <2>4 DEF Stage2
    <3> QED
      BY <1>s, <2>1, <3>1
  <2>5. \A i \in taken + 1 + 1 .. Len(sent) - 1 : i \in taken + 1 .. Len(sent) - 1
    BY <1>s
  <2> QED
    BY <2>1, <2>2, <2>3, <2>4, <2>5 DEF Stage2, Listening
<1>2. CASE RunChunk
  <2>1. /\ exec.phase = "run" /\ exec'.phase # "run" /\ ~AllTaken /\ Listening
        /\ UNCHANGED <<hpc, since, sent, adam, taken>>
    BY <1>2, <1>s, <1>i, ChunkRuns DEF AllTaken, Idle, hostVars
  <2>4. dExit' => dExit \/ sent[exec.c].kind = "exit"
    BY <1>2, ChunkRuns DEF NoTornExit
  <2>3. (Left' => Left) /\ (Back' => Back)
    BY <1>2, RunWindow
  <2> QED
    BY <2>1, <2>3, <2>4 DEF Stage2, Listening
<1>3. CASE PrintVerdict \/ PrintDone
  <2>1. /\ exec.phase \in {"verdict", "done"} /\ exec'.phase # "run"
        /\ UNCHANGED <<hpc, since, sent, adam, taken, dExit>>
    BY <1>3, <1>s DEF PrintVerdict, PrintDone, Idle, hostVars
  <2>2. ~AllTaken
    BY <2>1 DEF AllTaken, Idle
  <2>3. \E tag \in Tags \ {"D_EXIT", "D2_OK"}, of \in Nat : CommPrint(tag, of)
    BY <1>3, <1>s DEF PrintVerdict, PrintDone, Tags
  <2>4. (Left' => Left) /\ (Back' => Back)
    BY <1>w, <2>1, <2>3
  <2> QED
    BY <2>1, <2>2, <2>4 DEF Stage2, Listening
\* The loop is left with the last chunk run, and no stage 2 is up.
<1>4. CASE LeaveLoop
  <2>1. /\ dExit /\ Listening /\ exec = Idle /\ CommPrint("D_EXIT", taken)
        /\ UNCHANGED <<hpc, since, sent, taken, exec>>
    BY <1>4 DEF LeaveLoop, hostVars
  <2>2. Back' => Back
    BY <2>1, WindowGrows
  <2>3. Swap => AllTaken /\ ~Back
    BY <2>1 DEF Stage2, AllTaken
  <2>4. Swap => AllTaken' /\ ~Back'
    BY <2>1, <2>2, <2>3 DEF AllTaken
  <2>5. exec.phase # "run"
    BY <2>1 DEF Idle
  <2>6. hpc = "d_exit" => taken' = Len(sent') /\ \A i \in taken' + 1 .. Len(sent') - 1 : FALSE
    BY <1>s, <2>1, <2>3 DEF AllTaken
  <2> QED
    BY <2>1, <2>4, <2>5, <2>6 DEF Stage2
\* With adam at its REPL the FIFO is empty, and D2() starts not told to exit.
<1>5. CASE ReplExec \/ ViewerExit
  <2>1. ~Listening /\ exec = Idle /\ exec' = exec /\ taken' \in {taken, Len(sent)}
        /\ UNCHANGED <<hpc, since, sent>>
    BY <1>5, <1>i DEF ReplExec, ViewerExit, Listening, hostVars
  <2>2. Swap => AllTaken /\ ~Back
    BY <2>1 DEF Stage2, AllTaken
  <2>3. Swap => AllTaken'
    BY <2>1, <2>2 DEF AllTaken
  <2>4. ASSUME Swap, Back' PROVE Listening' /\ ~dExit'
    <3>1. ~UNCHANGED log /\ ~\E tag \in Tags \ {"D2_OK"}, of \in Nat : CommPrint(tag, of)
      BY <2>1, <2>2, <2>4, WindowGrows DEF Captured
    <3>2. ReplExec
      BY <1>5, <3>1 DEF ViewerExit
    <3>3. Head(kbd) = "call_d2" /\ adam' = "D2"
      BY <1>s, <3>1, <3>2 DEF ReplExec, Tags
    <3>4. ~dExit'
      BY <3>2, <3>3 DEF ReplExec
    <3> QED
      BY <3>3, <3>4 DEF Listening
  <2>5. exec'.phase # "run"
    BY <2>1 DEF Idle
  <2>6. ASSUME hpc = "d_exit"
        PROVE  taken' = Len(sent') /\ \A i \in taken' + 1 .. Len(sent') - 1 : FALSE
    <3>1. taken' = Len(sent) /\ Len(sent') = Len(sent)
      BY <2>1, <2>3, <2>6 DEF AllTaken
    <3> QED
      BY <1>s, <3>1
  <2> QED
    BY <2>1, <2>3, <2>4, <2>5, <2>6 DEF Stage2
\* The order to exit goes to a loop that serves, as the last chunk.
<1>6. CASE StopStage1
  <2>1. /\ hpc = "push_exit" /\ Push("exit", NoFile) /\ hpc' = "d_exit" /\ log' = log
        /\ UNCHANGED <<adam, dExit, exec, taken>> /\ since' = Len(log)
    BY <1>6 DEF StopStage1, guestVars, Push
  <2>2. Listening /\ ~dExit /\ ~ExitAhead
    BY <2>1 DEF HostServed, Serves, Serving
  <2>3. ~Left' /\ ~Back'
    BY <2>1, FreshWindow
  <2>4. /\ Len(sent') = Len(sent) + 1
        /\ \A i \in 1 .. Len(sent) : sent'[i] = sent[i]
    BY <2>1, PushAhead DEF Kinds
  <2>5. \A i \in taken' + 1 .. Len(sent') - 1 : sent'[i].kind # "exit"
    BY <1>s, <2>1, <2>2, <2>4 DEF ExitAhead
  <2>6. ~(exec'.phase = "run" /\ sent'[exec'.c].kind = "exit")
    <3>1. exec.phase = "run" => exec.c \in 1 .. Len(sent)
      BY <1>s, <1>i DEF Idle, TypeInv
    <3> QED
      BY <2>1, <2>2, <2>4, <3>1 DEF ExitAhead
  <2> QED
    BY <2>1, <2>2, <2>3, <2>5, <2>6 DEF Stage2, Listening
\* The two steps of the script in between.
<1>7. CASE WaitDone /\ hpc' = "call_d2"
  <2>1. /\ hpc \in DOMAIN AfterWait /\ AfterWait[hpc] = "call_d2" /\ Captured(Awaits[hpc]) # {}
        /\ UNCHANGED <<adam, dExit, exec, taken, sent, log, since>>
    BY <1>7 DEF WaitDone, Arrived, guestVars
  <2>2. hpc = "d_exit"
    BY <2>1, Tables DEF AfterWait
  <2>3. Left
    BY <2>1, <2>2 DEF Awaits
  <2>4. AllTaken' /\ (Back' => Back)
    BY <2>1, <2>2, <2>3 DEF Stage2, AllTaken, Captured
  <2> QED
    BY <1>7, <2>1, <2>2, <2>4 DEF Stage2, Listening
<1>8. CASE CallD2
  <2>1. /\ hpc = "call_d2" /\ hpc' = "d2_ok"
        /\ UNCHANGED <<adam, dExit, exec, taken, sent, log, since>>
    BY <1>8 DEF CallD2
  <2>2. Back' = Back
    BY <2>1 DEF Captured
  <2> QED
    BY <2>1, <2>2 DEF Stage2, AllTaken, Listening
<1>9. CASE hpc' \notin {"d_exit", "call_d2", "d2_ok"}
  BY <1>9 DEF Stage2
<1>10. CASE UNCHANGED vars
  <2>1. UNCHANGED <<adam, dExit, exec, taken, sent, log, since, hpc>>
    BY <1>10 DEF vars, guestVars, hostVars
  <2>2. Left' = Left /\ Back' = Back
    BY <2>1 DEF Captured
  <2> QED
    BY <2>1, <2>2 DEF Stage2, AllTaken, Listening
<1>11. HostNext \/ Timeout \/ UserNext
        => StopStage1 \/ CallD2 \/ (WaitDone /\ hpc' = "call_d2")
           \/ hpc' \notin {"d_exit", "call_d2", "d2_ok"}
  <2>1. WaitDone => hpc' \notin {"d_exit", "d2_ok"}
    BY Tables DEF WaitDone
  <2> QED
    BY <2>1
    DEF HostNext, UserNext, Probe, TypeBootstrap, PushStage2, PushSrc, PushTest,
        PushFile, FileDone, KeepDaemon, StopDaemon, Launch, BeginTests, BeginDone, Finalize,
        FinalDone, Timeout, Start, Interrupt, Exit
<1> QED
  BY <1>1, <1>2, <1>3, <1>4, <1>5, <1>6, <1>7, <1>8, <1>9, <1>10, <1>11 DEF Next, GuestNext

\* What was pushed stays pushed.
LEMMA TornStays == TypeInv /\ NoTornExit' /\ [Next]_vars => NoTornExit
<1> SUFFICES ASSUME TypeInv, NoTornExit', [Next]_vars PROVE NoTornExit
  OBVIOUS
<1>1. CASE sent' = sent
  BY <1>1 DEF NoTornExit
<1>2. ASSUME NEW kind, NEW file, Push(kind, file) PROVE NoTornExit
  <2>1. sent \in Seq(Chunk) /\ Len(sent) \in Nat
    BY Shapes
  <2>2. Len(sent') = Len(sent) + 1 /\ \A i \in 1 .. Len(sent) : sent'[i] = sent[i]
    BY <1>2, <2>1 DEF Push
  <2> QED
    BY <2>1, <2>2 DEF NoTornExit
<1>3. CASE GuestNext \/ Timeout \/ UserNext \/ UNCHANGED vars
  BY <1>1, <1>3 DEF GuestNext, TakeChunk, RunChunk, PrintVerdict, PrintDone, LeaveLoop, ReplExec,
         ViewerExit, Timeout, UserNext, Start, Interrupt, vars
<1>4. CASE HostNext
  BY <1>1, <1>2, <1>4
  DEF HostNext, Probe, TypeBootstrap, PushStage2, StopStage1, CallD2, WaitDone, PushSrc,
      PushTest, PushFile, FileDone, KeepDaemon, StopDaemon, Launch, BeginTests, BeginDone,
      Finalize, FinalDone
<1> QED
  BY <1>3, <1>4 DEF Next

\* "daemon left listening on COM2": as long as no order to exit was torn and then
\* ended by another push, a run that ended well and did not ask to stop the daemon
\* leaves a loop that listens, and stays listening until the next run starts.
THEOREM DaemonLeft == Spec => [](NoTornExit => LeavesDaemonListening)
<1>1. Init => LogInv /\ CleanInv /\ ProbeInv /\ (NoTornExit => ServeInv)
  BY DEF Init, LogInv, LogOrder, OneChunk, Idle, CleanInv, AllTyped, OwnLines, ProbeInv,
         Untouched, EchoFromLoop, ServeInv, StartsServing, HostServed, Serves, Stage2
<1>2. TypeInv /\ LogInv /\ ProbeInv /\ CleanInv /\ (NoTornExit => ServeInv) /\ [Next]_vars
        => (NoTornExit => ServeInv)'
  BY TornStays, StartsStep, ServedStep, Stage2Step DEF ServeInv
<1>3. ServeInv => LeavesDaemonListening
  BY DEF ServeInv, HostServed, Serving, LeavesDaemonListening
<1> QED
  BY <1>1, <1>2, <1>3, InitType, TypeStep, LogStep, ProbeStep, CleanStep, PTL DEF Spec

-----------------------------------------------------------------------------
(***************************************************************************)
(* A first run without interrupts keeps in step with the guest: it pushes  *)
(* only when every earlier chunk is finished, so that what comes after a   *)
(* push is about that push.  Not so in a later run: a probe's own D_DONE   *)
(* is still to come when the probe is answered (DoneMeansFinished).        *)
(***************************************************************************)
FirstRun == MaxRuns = 1 /\ MaxInterrupts = 0

Waits == {"v2", "src_wait", "begin", "test_wait"}

\* Nothing came before: no chunk, no line of the log, no interrupted push.
NothingBefore ==
  /\ runs = 0 => hpc = "idle" /\ AllTaken /\ log = <<>> /\ kbd = <<>> /\ adam = "repl"
  /\ hpc \notin {"detect", "probe"}
  /\ torn = <<>> /\ \A i \in 1 .. Len(sent) : sent[i].behind = <<>>

\* Where the next thing the script does is to push.
Prompt == {"type", "d_ok", "push_v2", "push_exit", "src", "tests"}

InStep ==
  /\ hpc \in Prompt => AllTaken
  /\ hpc \in Waits =>
       /\ Len(sent) \in {taken, taken + 1}
       /\ exec # Idle => taken = Len(sent)
       /\ Captured("D_DONE") # {} => AllTaken
       /\ WindowIsOwn
  /\ hpc = "begin" => sent[Len(sent)].kind = "begin"

FirstInv == NothingBefore /\ InStep

\* A line about the last chunk keeps the window its own.
LEMMA WindowKept ==
  ASSUME TypeInv, WindowIsOwn, NEW tag, NEW of, CommPrint(tag, of), of = Len(sent),
         UNCHANGED <<since, hpc, sent>>
  PROVE  WindowIsOwn'
<1>1. /\ Len(log') = Len(log) + 1 /\ Len(log) \in Nat /\ since \in Nat
      /\ \A i \in 1 .. Len(log) : log'[i] = log[i]
      /\ log'[Len(log) + 1] = [tag |-> tag, of |-> of]
  BY DEF TypeInv, TypeOK, CommPrint
<1>2. ASSUME NEW t \in {"D_DONE", "COMPILE_FAIL"}, NEW i \in Captured(t)', hpc \in Waits
      PROVE  log'[i].of = Len(sent)
  <2>1. i \in since + 1 .. Len(log') /\ log'[i].tag = t
    BY <1>2 DEF Captured
  <2>2. CASE i = Len(log) + 1
    BY <1>1, <2>2
  <2>3. CASE i # Len(log) + 1
    <3>1. i \in since + 1 .. Len(log) /\ log[i].tag = t /\ log'[i] = log[i]
      BY <1>1, <2>1, <2>3
    <3>2. i \in Captured(t)
      BY <3>1 DEF Captured
    <3> QED
      BY <1>2, <3>1, <3>2 DEF WindowIsOwn, Waits
  <2> QED
    BY <2>2, <2>3
<1> QED
  BY <1>2 DEF WindowIsOwn, Waits

\* What a running chunk prints is neither of the two.
LEMMA RunKeepsWindow ==
  ASSUME TypeInv, RunChunk, WindowIsOwn, UNCHANGED <<since, hpc, sent>>
  PROVE  WindowIsOwn'
<1>1. LogRun(exec.c) /\ since \in Nat
  BY ChunkRuns DEF TypeInv, TypeOK
<1>2. ASSUME NEW t \in {"D_DONE", "COMPILE_FAIL"}, NEW i \in Captured(t)'
      PROVE  i \in Captured(t) /\ log'[i] = log[i]
  <2>1. i \in since + 1 .. Len(log') /\ log'[i].tag = t
    BY <1>2 DEF Captured
  <2>2. i \in since + 1 .. Len(log) /\ log'[i] = log[i]
    <3>1. i \notin Len(log) + 1 .. Len(log')
      BY <1>1, <2>1 DEF LogRun
    <3> QED
      BY <1>1, <2>1, <3>1 DEF LogRun
  <2> QED
    BY <2>1, <2>2 DEF Captured
<1> QED
  BY <1>2 DEF WindowIsOwn

\* A chunk with nothing torn before it carries no torn order to exit.
LEMMA FirstUntorn == FirstInv => NoTornExit
BY DEF FirstInv, NothingBefore, NoTornExit, TornExit

\* The guest's steps keep it in step with the script.
LEMMA GuestInStep ==
  TypeInv /\ LogInv /\ HostServed /\ FirstInv /\ GuestNext => FirstInv'
<1> SUFFICES ASSUME TypeInv, LogInv, HostServed, FirstInv, GuestNext PROVE FirstInv'
  OBVIOUS
<1>s. /\ taken \in 0 .. Len(sent) /\ Len(sent) \in Nat /\ exec.c \in Nat /\ taken \in Nat
      /\ exec \in [c : Nat, phase : {"idle", "run", "verdict", "done"}, ok : BOOLEAN]
  BY Shapes
<1>i. exec # Idle => Listening /\ exec.phase # "idle" /\ exec.c = taken
  BY DEF LogInv, OneChunk
<1>h. UNCHANGED <<hpc, since, runs, sent>>
  BY DEF GuestNext, TakeChunk, RunChunk, PrintVerdict, PrintDone, LeaveLoop, ReplExec,
         ViewerExit, hostVars
<1>b. AllTaken => taken \notin {Len(sent) - 1} /\ exec.phase = "idle"
  BY <1>s DEF AllTaken, Idle
<1>r. TakeChunk \/ RunChunk \/ PrintVerdict \/ PrintDone \/ LeaveLoop \/ ReplExec \/ ViewerExit
  BY DEF GuestNext
<1>a. AllTaken => AllTaken'
  <2>1. ASSUME AllTaken PROVE ~TakeChunk /\ ~RunChunk /\ ~PrintVerdict /\ ~PrintDone
    <3>1. ~TakeChunk
      BY <1>s, <2>1 DEF TakeChunk, AllTaken
    <3>2. ~RunChunk
      BY <1>b, <2>1 DEF RunChunk
    <3>3. ~PrintVerdict /\ ~PrintDone
      BY <1>b, <2>1 DEF PrintVerdict, PrintDone
    <3> QED
      BY <3>1, <3>2, <3>3
  <2>2. LeaveLoop \/ ReplExec \/ ViewerExit
          => exec' = exec /\ sent' = sent /\ taken' \in {taken, Len(sent)}
    BY DEF LeaveLoop, ReplExec, ViewerExit
  <2> QED
    BY <1>r, <2>1, <2>2 DEF AllTaken
<1>1. NothingBefore'
  <2>1. runs # 0
    <3>1. ASSUME runs = 0 PROVE FALSE
      <4>1. AllTaken /\ kbd = <<>> /\ adam = "repl"
        BY <3>1 DEF FirstInv, NothingBefore
      <4> QED
        BY <1>s, <1>b, <1>r, <4>1 DEF TakeChunk, RunChunk, PrintVerdict, PrintDone, LeaveLoop,
             ReplExec, ViewerExit, AllTaken, Listening
    <3> QED
      BY <3>1
  <2>2. torn' \in {torn, <<>>}
    BY <1>r DEF TakeChunk, RunChunk, PrintVerdict, PrintDone, LeaveLoop, ReplExec, ViewerExit
  <2>3. torn' = <<>>
    BY <2>2 DEF FirstInv, NothingBefore
  <2> QED
    BY <1>h, <2>1, <2>3 DEF FirstInv, NothingBefore
<1>2. (hpc \in Prompt => AllTaken') /\ (hpc = "begin" => sent[Len(sent)].kind = "begin")
  BY <1>a DEF FirstInv, InStep
<1>3. ASSUME hpc \in Waits
      PROVE  /\ Len(sent) \in {taken', taken' + 1}
             /\ exec' # Idle => taken' = Len(sent)
             /\ Captured("D_DONE")' # {} => AllTaken'
             /\ WindowIsOwn'
  <2>1. /\ Len(sent) \in {taken, taken + 1}
        /\ exec # Idle => taken = Len(sent)
        /\ Captured("D_DONE") # {} => AllTaken
        /\ WindowIsOwn
    BY <1>3 DEF FirstInv, InStep
  <2>2. Listening /\ ~dExit
    BY <1>3 DEF HostServed, Serves, Serving, Waits
  <2>3. CASE TakeChunk
    <3>1. /\ taken' = taken + 1 /\ taken < Len(sent) /\ log' = log
      BY <1>s, <2>3 DEF TakeChunk
    <3>2. Captured("D_DONE") = {}
      BY <1>s, <2>1, <3>1 DEF AllTaken
    <3> QED
      BY <1>s, <1>h, <2>1, <3>1, <3>2 DEF Captured, WindowIsOwn
  <2>4. CASE exec # Idle /\ taken' = taken /\ exec' # Idle /\ UNCHANGED log
    BY <1>h, <2>1, <2>4 DEF Captured, WindowIsOwn, AllTaken
  <2>5. ASSUME exec # Idle, taken' = taken, exec' # Idle,
               NEW tag \in Tags \ {"D_DONE"}, CommPrint(tag, exec.c)
        PROVE  /\ Len(sent) \in {taken', taken' + 1}
               /\ exec' # Idle => taken' = Len(sent)
               /\ Captured("D_DONE")' # {} => AllTaken'
               /\ WindowIsOwn'
    <3>1. Captured("D_DONE")' = {}
      BY <1>h, <2>1, <2>5, WindowGrows DEF AllTaken
    <3>2. WindowIsOwn'
      BY <1>h, <1>i, <2>1, <2>5, WindowKept
    <3> QED
      BY <2>1, <2>5, <3>1, <3>2
  <2>6. CASE RunChunk
    <3>1. exec # Idle /\ taken' = taken /\ exec' # Idle
      <4>1. exec.phase = "run" /\ taken' = taken /\ exec'.phase # "idle"
        BY <1>s, <2>6 DEF RunChunk
      <4> QED
        BY <4>1 DEF Idle
    <3>2. Captured("D_DONE")' = {}
      BY <2>1, <2>6, <3>1, RunWindow DEF AllTaken
    <3>3. WindowIsOwn'
      BY <1>h, <2>1, <2>6, RunKeepsWindow
    <3> QED
      BY <2>1, <3>1, <3>2, <3>3
  <2>7. CASE PrintVerdict
    <3>1. exec # Idle /\ taken' = taken /\ exec' # Idle
      BY <1>s, <2>7 DEF PrintVerdict, Idle
    <3>2. \E tag \in Tags \ {"D_DONE"} : CommPrint(tag, exec.c)
      BY <2>7 DEF PrintVerdict, Tags
    <3> QED
      BY <2>5, <3>1, <3>2
  <2>8. CASE PrintDone
    <3>1. exec # Idle /\ taken' = taken /\ exec' = Idle /\ CommPrint("D_DONE", exec.c)
      BY <1>s, <2>8 DEF PrintDone, Idle
    <3>2. taken' = Len(sent) /\ exec.c = Len(sent)
      BY <1>i, <2>1, <3>1
    <3>3. WindowIsOwn'
      BY <1>h, <2>1, <3>1, <3>2, WindowKept
    <3> QED
      BY <1>s, <1>h, <3>1, <3>2, <3>3 DEF AllTaken, Idle
  <2> QED
    BY <2>2, <2>3, <2>6, <2>7, <2>8
    DEF GuestNext, LeaveLoop, ReplExec, ViewerExit, Listening
<1> QED
  BY <1>h, <1>1, <1>2, <1>3 DEF FirstInv, InStep

\* So do the script's own: each wait of a first run ends with its chunk done.
LEMMA HostInStep ==
  FirstRun /\ TypeInv /\ LogInv /\ HostServed /\ Stage2 /\ FirstInv
    /\ (HostNext \/ Timeout \/ UserNext) => FirstInv'
<1> SUFFICES ASSUME FirstRun, TypeInv, LogInv, HostServed, Stage2, FirstInv,
                    HostNext \/ Timeout \/ UserNext
             PROVE  FirstInv'
  OBVIOUS
<1>s. /\ taken \in 0 .. Len(sent) /\ Len(sent) \in Nat /\ exec.c \in Nat /\ taken \in Nat
      /\ exec \in [c : Nat, phase : {"idle", "run", "verdict", "done"}, ok : BOOLEAN]
  BY Shapes
<1>f. hpc \notin {"detect", "probe"} /\ torn = <<>> /\ (runs = 0 => hpc = "idle")
  BY DEF FirstInv, NothingBefore
\* A push, from a prompt, into an empty FIFO.
<1>p. ASSUME NEW kind \in Kinds, NEW file \in Files \cup {NoFile}, Push(kind, file),
             UNCHANGED <<exec, taken, log, runs>>, hpc # "idle",
             hpc' \in Waits => hpc \in Prompt, hpc' \notin Prompt \cup {"detect", "probe"},
             hpc' = "begin" => kind = "begin"
      PROVE  FirstInv'
  <2>1. /\ Len(sent') = Len(sent) + 1 /\ sent'[Len(sent) + 1].kind = kind
        /\ \A i \in 1 .. Len(sent) : sent'[i] = sent[i]
    BY <1>p, PushAhead
  <2>2. sent'[Len(sent) + 1].behind = <<>> /\ torn' = <<>> /\ since' = Len(log)
    BY <1>s, <1>f, <1>p, Shapes DEF Push
  <2>3. NothingBefore'
    BY <1>s, <1>f, <1>p, <2>1, <2>2 DEF FirstInv, NothingBefore
  <2>4. \A t \in {"D_DONE", "COMPILE_FAIL"} : Captured(t)' = {}
    BY <1>p, <2>2, FreshWindow
  <2>5. hpc' \in Waits => AllTaken
    BY <1>p DEF FirstInv, InStep
  <2>6. hpc' \in Waits => Len(sent') \in {taken', taken' + 1} /\ exec' = Idle
    BY <1>p, <1>s, <2>1, <2>5 DEF AllTaken
  <2>7. WindowIsOwn'
    BY <2>4 DEF WindowIsOwn
  <2>8. InStep'
    BY <1>p, <2>1, <2>4, <2>6, <2>7 DEF InStep, Idle
  <2> QED
    BY <2>3, <2>8 DEF FirstInv
<1>k. Kinds = {"v2", "exit", "probe", "src", "begin", "test", "final"}
  BY DEF Kinds
<1>1. CASE PushStage2 \/ StopStage1 \/ StopDaemon \/ BeginTests \/ Finalize
  BY <1>1, <1>p, <1>k DEF PushStage2, StopStage1, StopDaemon, BeginTests, Finalize, guestVars,
                          Waits, Prompt
<1>2. CASE PushSrc \/ PushTest
  <2>1. mode \in AllModes /\ pos \in Nat \ {0}
    BY DEF TypeInv, TypeOK
  <2>2. /\ pos <= Len(Phase1(mode)) => Todo(mode)[pos] \in Files
        /\ pos <= Len(Todo(mode)) => Todo(mode)[pos] \in Files
    BY <2>1, TodoFiles
  <2>3. CASE PushSrc
    BY <1>p, <1>k, <2>2, <2>3 DEF PushSrc, PushFile, guestVars, Waits, Prompt
  <2>4. CASE PushTest
    BY <1>p, <1>k, <2>2, <2>4 DEF PushTest, PushFile, guestVars, Waits, Prompt
  <2> QED
    BY <1>2, <2>3, <2>4
<1>3. ~Probe
  BY <1>f DEF Probe
\* A step to a prompt with everything finished, or to no prompt and no wait.
<1>q. ASSUME UNCHANGED <<exec, taken, sent, torn, runs>>, hpc # "idle",
             hpc' \notin Waits \cup {"detect", "probe"}, hpc' \in Prompt => AllTaken
      PROVE  FirstInv'
  <2>1. NothingBefore'
    BY <1>f, <1>q DEF FirstInv, NothingBefore
  <2>2. InStep'
    BY <1>q DEF InStep, AllTaken, WindowIsOwn, Waits
  <2> QED
    BY <2>1, <2>2 DEF FirstInv
<1>4. CASE TypeBootstrap
  <2>1. /\ hpc = "type" /\ hpc' \in {"type", "d_ok"}
        /\ UNCHANGED <<exec, taken, sent, torn, runs>>
    BY <1>4 DEF TypeBootstrap
  <2>2. AllTaken
    BY <2>1 DEF FirstInv, InStep, Prompt
  <2> QED
    BY <1>q, <2>1, <2>2 DEF Waits
<1>5. CASE CallD2 \/ Launch
  BY <1>5, <1>q DEF CallD2, Launch, Exit, Waits, Prompt
<1>6. CASE WaitDone
  <2>1. /\ hpc \in DOMAIN AfterWait /\ hpc' = AfterWait[hpc] /\ Captured(Awaits[hpc]) # {}
        /\ UNCHANGED <<exec, taken, sent, torn, runs>>
    BY <1>6 DEF WaitDone, Arrived, guestVars
  <2>2. CASE hpc = "d_ok"
    <3>1. hpc' = "push_v2" /\ AllTaken
      BY <2>1, <2>2 DEF AfterWait, FirstInv, InStep, Prompt
    <3> QED
      BY <1>q, <2>1, <2>2, <3>1 DEF Waits
  <2>3. CASE hpc = "v2"
    <3>1. hpc' = "push_exit" /\ Captured("D_DONE") # {}
      BY <2>1, <2>3 DEF AfterWait, Awaits
    <3>2. AllTaken
      BY <2>3, <3>1 DEF FirstInv, InStep, Waits
    <3> QED
      BY <1>q, <2>1, <2>3, <3>1, <3>2 DEF Waits
  <2>4. CASE hpc = "d2_ok"
    <3>1. hpc' = "src" /\ AllTaken
      BY <2>1, <2>4 DEF AfterWait, Stage2
    <3> QED
      BY <1>q, <2>1, <2>4, <3>1 DEF Waits
  <2>5. CASE hpc \in {"d_exit", "stop"}
    <3>1. hpc' \in {"call_d2", "cmd"}
      BY <2>1, <2>5 DEF AfterWait
    <3> QED
      BY <1>q, <2>1, <2>5, <3>1 DEF Waits, Prompt
  <2> QED
    BY <1>f, <2>1, <2>2, <2>3, <2>4, <2>5, Tables
<1>7. CASE FileDone \/ BeginDone
  <2>1. /\ hpc \in {"src_wait", "test_wait", "begin"} /\ Arrived
        /\ hpc' \in {"src", "tests", "idle"}
        /\ UNCHANGED <<exec, taken, sent, torn, runs>>
    BY <1>7 DEF FileDone, BeginDone, Exit, guestVars
  <2>2. Captured("D_DONE") # {}
    BY <2>1 DEF Arrived, Awaits
  <2>3. AllTaken
    BY <2>1, <2>2 DEF FirstInv, InStep, Waits
  <2> QED
    BY <1>q, <2>1, <2>3 DEF Waits
<1>8. CASE KeepDaemon \/ FinalDone
  BY <1>8, <1>q DEF KeepDaemon, FinalDone, Exit, guestVars, Waits, Prompt
\* The marker is no user code: if its wait expires, the guest has nothing to do.
<1>9. CASE Timeout
  <2>1. UNCHANGED <<exec, taken, sent, torn, runs>> /\ (GuestQuiet \/ Spinning)
    BY <1>9 DEF Timeout, guestVars
  <2>2. CASE hpc = "begin" /\ hpc' = "tests"
    <3>1. /\ sent[Len(sent)].kind = "begin" /\ Len(sent) \in {taken, taken + 1}
          /\ exec # Idle => taken = Len(sent)
      BY <2>2 DEF FirstInv, InStep, Waits
    <3>2. Listening
      BY <2>2 DEF HostServed, Serves, Serving
    <3>3. ~Spinning
      <4>1. ASSUME exec.phase = "run" PROVE exec.c = Len(sent) /\ Len(sent) > 0
        <5>1. exec # Idle /\ exec.c > 0
          BY <4>1 DEF Idle, TypeInv
        <5> QED
          BY <3>1, <5>1 DEF LogInv, OneChunk
      <4>2. ASSUME exec.phase = "run" PROVE ~MaySpin(sent[exec.c])
        <5>1. /\ sent[exec.c].behind = <<>> /\ sent[exec.c].kind = "begin"
              /\ sent[exec.c] \in Chunk
          BY <1>s, <3>1, <4>1, <4>2, Shapes DEF FirstInv, NothingBefore
        <5>2. /\ Len(Texts(sent[exec.c])) = 1
              /\ Texts(sent[exec.c])[1].kind = "begin"
          <6>1. /\ Len(Texts(sent[exec.c])) = Len(sent[exec.c].behind) + 1
                /\ Texts(sent[exec.c])[Len(Texts(sent[exec.c]))].kind = sent[exec.c].kind
            BY <5>1, TextsShape
          <6>2. Len(sent[exec.c].behind) = 0
            BY <5>1
          <6> QED
            BY <5>1, <6>1, <6>2
        <5> QED
          BY <5>2 DEF MaySpin, Foreign, UserCode
      <4> QED
        BY <4>2 DEF Spinning
    <3>4. AllTaken
      BY <2>1, <3>2, <3>3 DEF GuestQuiet, Listening, AllTaken
    <3> QED
      BY <1>q, <2>1, <2>2, <3>4 DEF Waits
  <2>3. CASE hpc' \in {"cmd", "idle"} /\ hpc # "idle"
    BY <1>q, <2>1, <2>3 DEF Waits, Prompt
  <2> QED
    BY <1>f, <1>9, <2>2, <2>3, Tables DEF Timeout, Exit
\* The one run there is starts on a VM that has just booted.
<1>10. ASSUME NEW m \in Modes, Start(m) PROVE FirstInv'
  <2>1. runs = 0
    BY <1>10 DEF Start, FirstRun, TypeInv, TypeOK
  <2>2. AllTaken /\ log = <<>>
    BY <2>1 DEF FirstInv, NothingBefore
  <2>3. ~TailLooksAlive
    BY <2>2 DEF TailLooksAlive
  <2>4. /\ hpc' = "type" /\ runs' = 1
        /\ UNCHANGED <<exec, taken, sent, torn>>
    BY <1>10, <2>1, <2>3 DEF Start, guestVars
  <2>5. NothingBefore'
    BY <1>f, <2>4 DEF FirstInv, NothingBefore
  <2>6. InStep'
    BY <2>2, <2>4 DEF InStep, AllTaken, Waits, Prompt
  <2> QED
    BY <2>5, <2>6 DEF FirstInv
<1>11. ~Interrupt
  BY DEF Interrupt, FirstRun, TypeInv, TypeOK
<1> QED
  BY <1>1, <1>2, <1>3, <1>4, <1>5, <1>6, <1>7, <1>8, <1>9, <1>10, <1>11 DEF HostNext, UserNext

\* A first run stays in step with the guest.
LEMMA FirstStep ==
  FirstRun /\ TypeInv /\ LogInv /\ ServeInv /\ FirstInv /\ [Next]_vars => FirstInv'
<1>1. FirstInv /\ UNCHANGED vars => FirstInv'
  <2> SUFFICES ASSUME FirstInv, UNCHANGED vars PROVE FirstInv'
    OBVIOUS
  <2>1. UNCHANGED <<exec, taken, sent, torn, runs, log, since, hpc, kbd, adam>>
    BY DEF vars, guestVars, hostVars
  <2>2. \A t \in {"D_DONE", "COMPILE_FAIL"} : Captured(t)' = Captured(t)
    BY <2>1 DEF Captured
  <2> QED
    BY <2>1, <2>2 DEF FirstInv, NothingBefore, InStep, AllTaken, WindowIsOwn
<1> QED
  BY <1>1, GuestInStep, HostInStep DEF Next, ServeInv

\* Against a freshly booted VM the first run's waits hear of their own chunk
\* only: what push_and_wait captures is about what it has just pushed.
THEOREM OwnWindows == FirstRun => (Spec => []WindowIsOwn)
<1> SUFFICES ASSUME FirstRun PROVE Spec => []WindowIsOwn
  OBVIOUS
<1>1. Init => LogInv /\ CleanInv /\ ProbeInv /\ ServeInv /\ FirstInv
  BY DEF Init, LogInv, LogOrder, OneChunk, Idle, CleanInv, AllTyped, OwnLines, ProbeInv,
         Untouched, EchoFromLoop, ServeInv, StartsServing, HostServed, Serves, Stage2,
         FirstInv, NothingBefore, InStep, AllTaken, Waits, Prompt
<1>2. TypeInv /\ LogInv /\ ProbeInv /\ CleanInv /\ ServeInv /\ FirstInv /\ [Next]_vars
        => ServeInv'
  BY FirstUntorn, StartsStep, ServedStep, Stage2Step DEF ServeInv
<1>3. TypeInv /\ LogInv /\ ServeInv /\ FirstInv /\ [Next]_vars => FirstInv'
  BY FirstStep
<1>4. FirstInv => WindowIsOwn
  BY DEF FirstInv, InStep, WindowIsOwn, Waits
<1> QED
  BY <1>1, <1>2, <1>3, <1>4, InitType, TypeStep, LogStep, ProbeStep, CleanStep, PTL DEF Spec
=============================================================================
