------------------------------- MODULE Com2Link -------------------------------
(***************************************************************************)
(* The byte level under TempleRun's chunks: push_chunk writes a payload    *)
(* and an EOT to COM2, the UART moves bytes into the guest's RX FIFO or    *)
(* drops them when it is full, and a receive loop (D and D2 of             *)
(* temple-run.py, RunDaemon of Daemon.ZC) collects them in a buffer that   *)
(* it executes at each EOT.                                                *)
(*                                                                         *)
(* A byte is its position in `written`, everything ever written to the     *)
(* socket; what it says is left out, except whether it is the EOT.         *)
(***************************************************************************)
EXTENDS Integers, Sequences

CONSTANTS
  Lengths,    \* the payload lengths in use
  FifoSize,   \* FifoU8New's argument: it holds one byte less
  BufSize,    \* bytes the loop collects before it ignores the rest
  Guests,     \* the receive loops in use: "D2" (and D), "RunDaemon"
  MaxPushes,  \* bound: number of pushes
  MaxFaults   \* bound: number of torn pushes and of waits given up

ASSUME SizesAssumption ==
  /\ Lengths \subseteq Nat /\ FifoSize \in Nat /\ BufSize \in Nat
  /\ Guests \subseteq {"D2", "RunDaemon"}
  /\ MaxPushes \in Nat /\ MaxFaults \in Nat

\* What the enlarged FIFO is for: a payload fits in it with its EOT.
ASSUME FitsAssumption == \A n \in Lengths : n + 2 <= FifoSize

VARIABLES
  written,  \* for each byte, whether it is an EOT
  offered,  \* how many of them the UART has handed to the guest
  fifo,     \* comm_ports[2].RX_fifo
  lost,     \* how many bytes found it full
  guest,    \* the loop that listens
  buf,      \* Db[0 .. Di-1]
  busy,     \* the loop is inside ExePutS
  frames,   \* the buffers executed so far
  done,     \* how many D_DONE the log holds
  hpc,      \* "idle", "writing", "waiting"
  left,     \* bytes of the payload still to be written
  since,    \* `done` when the push began
  pushes, faults

linkVars  == <<offered, fifo, lost>>
guestVars == <<guest, buf, busy, frames, done>>
hostVars  == <<written, hpc, left, since, pushes, faults>>
vars == <<linkVars, guestVars, hostVars>>

Init ==
  /\ written = <<>> /\ offered = 0 /\ fifo = <<>> /\ lost = 0
  /\ guest \in Guests
  /\ buf = <<>> /\ busy = FALSE /\ frames = <<>> /\ done = 0
  /\ hpc = "idle" /\ left = 0 /\ since = 0 /\ pushes = 0 /\ faults = 0

-----------------------------------------------------------------------------
(***************************************************************************)
(* The host.                                                               *)
(***************************************************************************)
\* Mutant: the host searches the log from its start.
BeginPushUnmarked(n) ==
  /\ hpc = "idle" /\ pushes < MaxPushes
  /\ hpc' = "writing" /\ left' = n /\ since' = 0 /\ pushes' = pushes + 1
  /\ UNCHANGED <<written, faults, linkVars, guestVars>>

\* log_size(), then connect.
BeginPush(n) ==
  /\ hpc = "idle" /\ pushes < MaxPushes
  /\ hpc' = "writing" /\ left' = n /\ since' = done /\ pushes' = pushes + 1
  /\ UNCHANGED <<written, faults, linkVars, guestVars>>

WriteByte ==
  /\ hpc = "writing" /\ left > 0
  /\ written' = Append(written, FALSE)
  /\ left' = left - 1
  /\ UNCHANGED <<hpc, since, pushes, faults, linkVars, guestVars>>

WriteEot ==
  /\ hpc = "writing" /\ left = 0
  /\ written' = Append(written, TRUE)
  /\ hpc' = "waiting"
  /\ UNCHANGED <<left, since, pushes, faults, linkVars, guestVars>>

SeeDone ==
  /\ hpc = "waiting" /\ done > since
  /\ hpc' = "idle"
  /\ UNCHANGED <<written, left, since, pushes, faults, linkVars, guestVars>>

\* Ctrl-C inside push_chunk, or a wait that ends without its D_DONE.
Abandon ==
  /\ hpc \in {"writing", "waiting"} /\ faults < MaxFaults
  /\ hpc' = "idle" /\ left' = 0 /\ faults' = faults + 1
  /\ UNCHANGED <<written, since, pushes, linkVars, guestVars>>

-----------------------------------------------------------------------------
(***************************************************************************)
(* The UART and the receive loop.                                          *)
(***************************************************************************)
\* Mutant: the FIFO keeps its default size, which holds no whole payload.
ReceiveSmallFifo ==
  /\ offered < Len(written)
  /\ offered' = offered + 1
  /\ IF Len(fifo) < 1 THEN fifo' = Append(fifo, offered') /\ lost' = lost
                      ELSE fifo' = fifo /\ lost' = lost + 1
  /\ UNCHANGED <<guestVars, hostVars>>

Receive ==
  /\ offered < Len(written)
  /\ offered' = offered + 1
  /\ IF Len(fifo) < FifoSize - 1 THEN fifo' = Append(fifo, offered') /\ lost' = lost
                                 ELSE fifo' = fifo /\ lost' = lost + 1
  /\ UNCHANGED <<guestVars, hostVars>>

\* Mutant: Di is not compared with the buffer's size.
CollectUnbounded ==
  /\ ~busy /\ fifo # <<>> /\ ~written[Head(fifo)]
  /\ fifo' = Tail(fifo)
  /\ buf' = Append(buf, Head(fifo))
  /\ UNCHANGED <<offered, lost, guest, busy, frames, done, hostVars>>

Collect ==
  /\ ~busy /\ fifo # <<>> /\ ~written[Head(fifo)]
  /\ fifo' = Tail(fifo)
  /\ buf' = IF Len(buf) < BufSize THEN Append(buf, Head(fifo)) ELSE buf
  /\ UNCHANGED <<offered, lost, guest, busy, frames, done, hostVars>>

\* Mutant: an empty frame is not acknowledged.
ExecuteSilently ==
  /\ ~busy /\ fifo # <<>> /\ written[Head(fifo)]
  /\ fifo' = Tail(fifo)
  /\ busy' = ~(guest = "RunDaemon" /\ buf = <<>>)
  /\ frames' = IF guest = "RunDaemon" /\ buf = <<>> THEN frames ELSE Append(frames, buf)
  /\ UNCHANGED <<offered, lost, guest, buf, done, hostVars>>

Execute ==
  /\ ~busy /\ fifo # <<>> /\ written[Head(fifo)]
  /\ fifo' = Tail(fifo)
  /\ busy' = TRUE
  /\ frames' = IF guest = "RunDaemon" /\ buf = <<>> THEN frames ELSE Append(frames, buf)
  /\ UNCHANGED <<offered, lost, guest, buf, done, hostVars>>

\* Mutant: Di is not reset after D_DONE.
FinishKeepsDi ==
  /\ busy
  /\ busy' = FALSE /\ done' = done + 1
  /\ UNCHANGED <<guest, buf, frames, linkVars, hostVars>>

Finish ==
  /\ busy
  /\ busy' = FALSE /\ done' = done + 1 /\ buf' = <<>>
  /\ UNCHANGED <<guest, frames, linkVars, hostVars>>

HostNext  == (\E n \in Lengths : BeginPush(n)) \/ WriteByte \/ WriteEot \/ SeeDone \/ Abandon
GuestNext == Receive \/ Collect \/ Execute \/ Finish

Next == HostNext \/ GuestNext

Spec == Init /\ [][Next]_vars

\* The UART and the loop's task run; ExePutS of a payload returns.
FairSpec == Spec /\ WF_vars(GuestNext) /\ WF_vars(WriteByte \/ WriteEot \/ SeeDone)

-----------------------------------------------------------------------------
\* The types of the variables; the FIFO keeps within its size and the loop
\* never writes past the end of its buffer (`Di<65535`, `idx < 65535`).
TypeOK ==
  /\ written \in Seq(BOOLEAN) /\ offered \in 0 .. Len(written)
  /\ fifo \in Seq(Nat) /\ Len(fifo) <= FifoSize /\ lost \in Nat
  /\ guest \in Guests /\ busy \in BOOLEAN /\ done \in Nat
  /\ buf \in Seq(Nat) /\ Len(buf) <= BufSize
  /\ frames \in Seq(Seq(Nat))
  /\ hpc \in {"idle", "writing", "waiting"} /\ left \in Nat /\ since \in Nat
  /\ pushes \in Nat /\ faults \in Nat

\* No byte is lost as long as no push is torn and no wait given up: a payload
\* and its EOT fit in the enlarged FIFO, and the host writes the next payload
\* only when the loop has emptied it.  (temple-run.py:60-61, Daemon.ZC:49-55.)
NoByteLost == faults = 0 => lost = 0

Contiguous(s) == \A i \in 1 .. Len(s) : s[i] = s[1] + i - 1

\* What a receive loop executes, when no byte was lost, are the bytes between
\* two consecutive EOTs, all of them or the first BufSize: never the tail of
\* one payload with the head of a later one.  A torn push therefore spoils the
\* next frame, and that one only.
FrameOk(s) ==
  s # <<>> =>
    /\ Contiguous(s) /\ \A i \in 1 .. Len(s) : ~written[s[i]]
    /\ s[1] > 1 => written[s[1] - 1]
    /\ Len(s) < BufSize => written[s[Len(s)] + 1]

FramesAreWhole == lost = 0 => \A k \in 1 .. Len(frames) : FrameOk(frames[k])

\* The D_DONE that ends a wait answers the push it waits for, the loop having
\* finished every push so far (wait_for's `since` is the log's size before the
\* push).
DoneIsOwn == [][SeeDone /\ faults = 0 => done = pushes /\ ~busy /\ buf = <<>>]_vars

\* Every push that is not torn is answered, unless an earlier fault let the
\* FIFO overflow.
PushAnswered == hpc = "waiting" /\ lost = 0 ~> hpc = "idle" \/ lost > 0
=============================================================================
