---------------------------- MODULE Com2LinkProofs ----------------------------
(***************************************************************************)
(* Proofs about Com2Link, for every FIFO and buffer size, every payload    *)
(* length that fits, and any number of pushes and faults.                  *)
(***************************************************************************)
EXTENDS Com2Link, TLAPS

\* Head and tail, element by element.
LEMMA HeadTail ==
  ASSUME NEW S, NEW s \in Seq(S), s # <<>>
  PROVE  /\ Head(s) = s[1] /\ Head(s) \in S
         /\ Tail(s) \in Seq(S) /\ Len(s) \in Nat \ {0} /\ Len(Tail(s)) = Len(s) - 1
         /\ \A i \in 1 .. Len(s) - 1 : Tail(s)[i] = s[i + 1]
OBVIOUS

\* Append, element by element.
LEMMA Appended ==
  ASSUME NEW S, NEW s \in Seq(S), NEW e \in S
  PROVE  /\ Append(s, e) \in Seq(S) /\ Len(s) \in Nat /\ Len(Append(s, e)) = Len(s) + 1
         /\ \A i \in 1 .. Len(s) : Append(s, e)[i] = s[i]
         /\ Append(s, e)[Len(s) + 1] = e
OBVIOUS

-----------------------------------------------------------------------------
(***************************************************************************)
(* Type correctness, with the bounds of the FIFO and of the buffer.        *)
(***************************************************************************)
\* The initial states have the right types.
LEMMA InitType == Init => TypeOK
<1> SUFFICES ASSUME Init PROVE TypeOK
  OBVIOUS
<1>1. written \in Seq(BOOLEAN) /\ fifo \in Seq(Nat) /\ buf \in Seq(Nat)
      /\ frames \in Seq(Seq(Nat))
  BY DEF Init
<1>2. Len(written) = 0 /\ Len(fifo) = 0 /\ Len(buf) = 0
  BY DEF Init
<1>3. busy \in BOOLEAN
  BY Zenon DEF Init
<1>4. offered \in 0 .. Len(written) /\ Len(fifo) <= FifoSize /\ Len(buf) <= BufSize
  BY <1>2, SizesAssumption DEF Init
<1>5. /\ lost \in Nat /\ guest \in Guests /\ done \in Nat
      /\ hpc \in {"idle", "writing", "waiting"} /\ left \in Nat /\ since \in Nat
      /\ pushes \in Nat /\ faults \in Nat
  BY DEF Init
<1> QED
  BY <1>1, <1>3, <1>4, <1>5 DEF TypeOK

\* Every step keeps them.
LEMMA TypeStep == TypeOK /\ [Next]_vars => TypeOK'
<1> SUFFICES ASSUME TypeOK, [Next]_vars PROVE TypeOK'
  OBVIOUS
<1>1. ASSUME NEW n \in Lengths, BeginPush(n) PROVE TypeOK'
  BY <1>1, SizesAssumption DEF TypeOK, BeginPush, linkVars, guestVars
<1>2. ASSUME WriteByte PROVE TypeOK'
  <2>1. written' \in Seq(BOOLEAN) /\ Len(written') = Len(written) + 1
    BY <1>2, Appended DEF WriteByte, TypeOK
  <2>2. UNCHANGED <<hpc, since, pushes, faults, linkVars, guestVars>>
    BY <1>2 DEF WriteByte
  <2>3. left' \in Nat
    BY <1>2 DEF WriteByte, TypeOK
  <2> QED
    BY <2>1, <2>2, <2>3 DEF TypeOK, linkVars, guestVars
<1>3. ASSUME WriteEot PROVE TypeOK'
  <2>1. written' \in Seq(BOOLEAN) /\ Len(written') = Len(written) + 1
    BY <1>3, Appended DEF WriteEot, TypeOK
  <2>2. UNCHANGED <<left, since, pushes, faults, linkVars, guestVars>> /\ hpc' = "waiting"
    BY <1>3 DEF WriteEot
  <2> QED
    BY <2>1, <2>2 DEF TypeOK, linkVars, guestVars
<1>4. ASSUME SeeDone PROVE TypeOK'
  BY <1>4 DEF TypeOK, SeeDone, linkVars, guestVars
<1>5. ASSUME Abandon PROVE TypeOK'
  BY <1>5 DEF TypeOK, Abandon, linkVars, guestVars
<1>6. ASSUME Receive PROVE TypeOK'
  <2>1. UNCHANGED <<guestVars, hostVars>> /\ offered' = offered + 1 /\ offered < Len(written)
    BY <1>6 DEF Receive
  <2>2. /\ fifo' \in Seq(Nat) /\ Len(fifo') <= FifoSize /\ lost' \in Nat
    <3>1. CASE Len(fifo) < FifoSize - 1
      <4>1. offered' \in Nat /\ fifo \in Seq(Nat) /\ lost \in Nat
        BY <2>1 DEF TypeOK
      <4>2. fifo' = Append(fifo, offered') /\ lost' = lost
        BY <1>6, <3>1 DEF Receive
      <4> QED
        BY <3>1, <4>1, <4>2, Appended, SizesAssumption
    <3>2. CASE ~(Len(fifo) < FifoSize - 1)
      BY <1>6, <3>2 DEF Receive, TypeOK
    <3> QED
      BY <3>1, <3>2
  <2>3. offered' \in 0 .. Len(written')
    BY <2>1 DEF hostVars, TypeOK
  <2> QED
    BY <2>1, <2>2, <2>3 DEF TypeOK, guestVars, hostVars
<1>7. ASSUME Collect PROVE TypeOK'
  <2>1. UNCHANGED <<offered, lost, guest, busy, frames, done, hostVars>>
    BY <1>7 DEF Collect
  <2>2. fifo' \in Seq(Nat) /\ Len(fifo') <= FifoSize /\ Head(fifo) \in Nat
    BY <1>7, HeadTail, SizesAssumption DEF Collect, TypeOK
  <2>3. buf' \in Seq(Nat) /\ Len(buf') <= BufSize
    BY <1>7, <2>2, SizesAssumption DEF Collect, TypeOK
  <2> QED
    BY <2>1, <2>2, <2>3 DEF TypeOK, hostVars
<1>8. ASSUME Execute PROVE TypeOK'
  <2>1. UNCHANGED <<offered, lost, guest, buf, done, hostVars>>
    BY <1>8 DEF Execute
  <2>2. fifo' \in Seq(Nat) /\ Len(fifo') <= FifoSize
    BY <1>8, HeadTail, SizesAssumption DEF Execute, TypeOK
  <2>3. frames' \in Seq(Seq(Nat))
    BY <1>8, Appended DEF Execute, TypeOK
  <2>4. busy' \in BOOLEAN
    BY <1>8, Zenon DEF Execute
  <2> QED
    BY <2>1, <2>2, <2>3, <2>4 DEF TypeOK, hostVars
<1>9. ASSUME Finish PROVE TypeOK'
  <2>1. UNCHANGED <<guest, frames, linkVars, hostVars>>
    BY <1>9 DEF Finish
  <2>2. busy' \in BOOLEAN
    BY <1>9, Zenon DEF Finish
  <2>3. buf' \in Seq(Nat) /\ Len(buf') = 0 /\ done' \in Nat
    BY <1>9 DEF Finish, TypeOK
  <2> QED
    BY <2>1, <2>2, <2>3, SizesAssumption DEF TypeOK, linkVars, hostVars
<1>10. ASSUME UNCHANGED vars PROVE TypeOK'
  BY <1>10 DEF TypeOK, vars, linkVars, guestVars, hostVars
<1> QED
  BY <1>1, <1>2, <1>3, <1>4, <1>5, <1>6, <1>7, <1>8, <1>9, <1>10
  DEF Next, HostNext, GuestNext

\* The types, the FIFO's capacity and the buffer's end hold in every behaviour,
\* torn pushes and abandoned waits included (Di<131071, idx < 65535).
THEOREM TypeCorrect == Spec => []TypeOK
BY InitType, TypeStep, PTL DEF Spec

-----------------------------------------------------------------------------
(***************************************************************************)
(* Nothing is lost.  "No byte was lost so far" is not inductive: that the  *)
(* FIFO has room needs the lock-step of host and loop, which bounds what is *)
(* in flight by one payload and its EOT.                                   *)
(***************************************************************************)
Taken == offered - Len(fifo)

\* The FIFO holds the bytes last offered, in order.
InOrder ==
  lost = 0 => /\ Len(fifo) <= offered
              /\ \A i \in 1 .. Len(fifo) : fifo[i] = Taken + i

\* The host has written all but `left` of a payload, the loop follows.
Writing ==
  /\ ~busy /\ done = since /\ pushes = done + 1
  /\ \E n \in Lengths : Len(written) - Taken + left <= n

\* The EOT is written and the loop has not reached it.
Collecting ==
  /\ ~busy /\ done = since /\ pushes = done + 1 /\ Taken < Len(written)
  /\ \E n \in Lengths : Len(written) - Taken <= n + 1

\* The loop executes the payload.
Executing == busy /\ done = since /\ pushes = done + 1 /\ Taken = Len(written)

\* The loop has answered every push.
Answered == ~busy /\ pushes = done /\ buf = <<>> /\ Taken = Len(written)

LockStep ==
  faults = 0 =>
    /\ lost = 0
    /\ \A i \in Taken + 1 .. Len(written) :
         written[i] <=> (hpc = "waiting" /\ i = Len(written))
    /\ hpc = "idle" => Answered
    /\ hpc = "writing" => Writing
    /\ hpc = "waiting" => Collecting \/ Executing \/ Answered

LinkInv == TypeOK /\ InOrder /\ LockStep

\* At the start nothing is written.
LEMMA InitLink == Init => LinkInv
<1> SUFFICES ASSUME Init PROVE LinkInv
  OBVIOUS
<1>1. TypeOK
  BY InitType
<1>0. Len(fifo) = 0 /\ Len(written) = 0 /\ offered = 0
  BY DEF Init
<1>2. Len(fifo) = 0 /\ Len(written) = 0 /\ Taken = 0
  BY <1>0 DEF Taken
<1>3. Answered
  BY <1>2 DEF Init, Answered
<1> QED
  BY <1>1, <1>2, <1>3 DEF LinkInv, InOrder, LockStep, Init

\* The FIFO's head is the first byte not taken.
LEMMA HeadIsNext ==
  ASSUME LinkInv, lost = 0, fifo # <<>>
  PROVE  /\ Head(fifo) = Taken + 1 /\ Taken \in Nat /\ Taken < Len(written)
         /\ fifo' = Tail(fifo) /\ offered' = offered => Taken' = Taken + 1
<1>1. fifo \in Seq(Nat) /\ offered \in 0 .. Len(written) /\ Len(written) \in Nat
  BY DEF LinkInv, TypeOK
<1>2. Head(fifo) = fifo[1] /\ Len(fifo) \in Nat \ {0} /\ Len(Tail(fifo)) = Len(fifo) - 1
  BY <1>1, HeadTail
<1> QED
  BY <1>1, <1>2 DEF LinkInv, InOrder, Taken

\* Taking the head keeps the order.
LEMMA PopKeepsOrder ==
  ASSUME LinkInv, fifo # <<>>, fifo' = Tail(fifo), offered' = offered, lost' = lost
  PROVE  InOrder'
<1> SUFFICES ASSUME lost = 0
             PROVE  /\ Len(fifo') <= offered
                    /\ \A i \in 1 .. Len(fifo') : fifo'[i] = Taken' + i
  BY DEF InOrder
<1>1. fifo \in Seq(Nat) /\ offered \in Nat
  BY DEF LinkInv, TypeOK
<1>2. Len(fifo) \in Nat \ {0} /\ Len(fifo') = Len(fifo) - 1
      /\ \A i \in 1 .. Len(fifo) - 1 : fifo'[i] = fifo[i + 1]
  BY <1>1, HeadTail
<1>3. Taken' = Taken + 1
  BY <1>1, <1>2 DEF Taken
<1>4. Taken \in Int
  BY <1>1, <1>2 DEF Taken
<1> QED
  BY <1>1, <1>2, <1>3, <1>4 DEF LinkInv, InOrder

\* A byte written at the end leaves the earlier ones alone.
LEMMA WriteStep ==
  ASSUME TypeOK, NEW e \in BOOLEAN, written' = Append(written, e)
  PROVE  /\ Len(written) \in Nat /\ Len(written') = Len(written) + 1
         /\ \A i \in 1 .. Len(written) : written'[i] <=> written[i]
         /\ written'[Len(written) + 1] <=> e
<1>1. written \in Seq(BOOLEAN)
  BY DEF TypeOK
<1> QED
  BY <1>1, Appended

\* Every step keeps the lock-step.
LEMMA LinkStep == LinkInv /\ [Next]_vars => LinkInv'
<1> SUFFICES ASSUME LinkInv, [Next]_vars PROVE LinkInv'
  OBVIOUS
<1>t. TypeOK /\ TypeOK'
  BY TypeStep DEF LinkInv
<1>n. /\ Len(written) \in Nat /\ offered \in 0 .. Len(written) /\ Len(fifo) \in Nat
      /\ Taken \in Int /\ Taken <= Len(written) /\ done \in Nat /\ since \in Nat /\ pushes \in Nat
      /\ left \in Nat /\ faults \in Nat /\ lost \in Nat
  BY <1>t DEF TypeOK, Taken
<1>z. InOrder /\ LockStep
  BY DEF LinkInv
<1>0. lost = 0 => Taken \in Nat
  BY <1>n, <1>z DEF InOrder, Taken
<1>1. ASSUME NEW n \in Lengths, BeginPush(n) PROVE InOrder' /\ LockStep'
  <2>1. UNCHANGED <<written, faults, linkVars, guestVars>> /\ hpc = "idle" /\ hpc' = "writing"
    BY <1>1 DEF BeginPush
  <2>2. left' = n /\ since' = done /\ pushes' = pushes + 1
    BY <1>1 DEF BeginPush
  <2>3. InOrder'
    BY <1>z, <2>1 DEF InOrder, Taken, linkVars
  <2>4. Taken' = Taken
    BY <2>1 DEF Taken, linkVars
  <2>5. ASSUME faults' = 0 PROVE Writing'
    <3>1. Answered
      BY <1>z, <2>1, <2>5 DEF LockStep
    <3>2. Len(written') - Taken' + left' <= n
      BY <1>n, <2>1, <2>2, <2>4, <3>1, SizesAssumption DEF Answered
    <3> QED
      BY <2>1, <2>2, <3>1, <3>2, <1>n DEF Answered, Writing, guestVars
  <2> QED
    BY <1>z, <2>1, <2>3, <2>4, <2>5 DEF LockStep, linkVars
<1>2. ASSUME WriteByte PROVE InOrder' /\ LockStep'
  <2>1. UNCHANGED <<hpc, since, pushes, faults, linkVars, guestVars>> /\ hpc = "writing"
        /\ written' = Append(written, FALSE) /\ left' = left - 1 /\ left > 0
    BY <1>2 DEF WriteByte
  <2>2. InOrder' /\ Taken' = Taken
    BY <1>z, <2>1 DEF InOrder, Taken, linkVars
  <2>3. Len(written') = Len(written) + 1 /\ written'[Len(written) + 1] = FALSE
        /\ \A i \in 1 .. Len(written) : written'[i] <=> written[i]
    BY <1>t, <2>1, WriteStep
  <2>4. ASSUME faults' = 0 PROVE lost = 0 /\ Writing'
    <3>1. Writing /\ lost = 0
      BY <1>z, <2>1, <2>4 DEF LockStep
    <3>2. PICK n \in Lengths : Len(written) - Taken + left <= n
      BY <3>1 DEF Writing
    <3>3. Len(written') - Taken' + left' <= n
      BY <1>n, <2>1, <2>2, <2>3, <3>2, SizesAssumption
    <3> QED
      BY <2>1, <3>1, <3>3 DEF Writing, guestVars
  <2>5. ASSUME faults' = 0, NEW i \in Taken' + 1 .. Len(written')
        PROVE  ~written'[i]
    <3>1. \A j \in Taken + 1 .. Len(written) : ~written[j]
      BY <1>z, <2>1, <2>5 DEF LockStep
    <3>2. Taken \in Nat
      BY <1>0, <2>1, <2>4, <2>5
    <3>3. CASE i = Len(written) + 1
      BY <2>3, <3>3
    <3>4. CASE i # Len(written) + 1
      <4>1. i \in Taken + 1 .. Len(written) /\ i \in 1 .. Len(written)
        BY <1>n, <2>2, <2>3, <2>5, <3>2, <3>4
      <4> QED
        BY <2>3, <3>1, <4>1
    <3> QED
      BY <3>3, <3>4
  <2> QED
    BY <2>1, <2>2, <2>4, <2>5 DEF LockStep, linkVars
<1>3. ASSUME WriteEot PROVE InOrder' /\ LockStep'
  <2>1. UNCHANGED <<left, since, pushes, faults, linkVars, guestVars>> /\ hpc = "writing"
        /\ hpc' = "waiting" /\ written' = Append(written, TRUE) /\ left = 0
    BY <1>3 DEF WriteEot
  <2>2. InOrder' /\ Taken' = Taken
    BY <1>z, <2>1 DEF InOrder, Taken, linkVars
  <2>3. Len(written') = Len(written) + 1 /\ written'[Len(written) + 1] = TRUE
        /\ \A i \in 1 .. Len(written) : written'[i] <=> written[i]
    BY <1>t, <2>1, WriteStep
  <2>4. ASSUME faults' = 0 PROVE lost = 0 /\ Collecting'
    <3>1. Writing /\ lost = 0
      BY <1>z, <2>1, <2>4 DEF LockStep
    <3>2. PICK n \in Lengths : Len(written) - Taken + left <= n
      BY <3>1 DEF Writing
    <3>3. Len(written') - Taken' <= n + 1 /\ Taken' < Len(written')
      BY <1>n, <2>1, <2>2, <2>3, <3>2, SizesAssumption
    <3> QED
      BY <2>1, <3>1, <3>3 DEF Writing, Collecting, guestVars
  <2>5. ASSUME faults' = 0, NEW i \in Taken' + 1 .. Len(written')
        PROVE  written'[i] <=> i = Len(written')
    <3>1. \A j \in Taken + 1 .. Len(written) : ~written[j]
      BY <1>z, <2>1, <2>5 DEF LockStep
    <3>2. Taken \in Nat
      BY <1>0, <2>1, <2>4, <2>5
    <3>3. CASE i = Len(written) + 1
      BY <2>3, <3>3
    <3>4. CASE i # Len(written) + 1
      <4>1. i \in Taken + 1 .. Len(written) /\ i \in 1 .. Len(written) /\ i # Len(written')
        BY <1>n, <2>2, <2>3, <2>5, <3>2, <3>4
      <4> QED
        BY <2>3, <3>1, <4>1
    <3> QED
      BY <3>3, <3>4
  <2> QED
    BY <2>1, <2>2, <2>4, <2>5 DEF LockStep, linkVars
<1>4. ASSUME SeeDone PROVE InOrder' /\ LockStep'
  <2>1. UNCHANGED <<written, left, since, pushes, faults, linkVars, guestVars>>
        /\ hpc = "waiting" /\ hpc' = "idle" /\ done > since
    BY <1>4 DEF SeeDone
  <2>2. InOrder' /\ Taken' = Taken
    BY <1>z, <2>1 DEF InOrder, Taken, linkVars
  <2>3. ASSUME faults' = 0 PROVE Answered /\ lost = 0
    BY <1>n, <1>z, <2>1, <2>3 DEF LockStep, Collecting, Executing
  <2>4. ASSUME faults' = 0 PROVE Answered'
    BY <2>1, <2>2, <2>3, <2>4 DEF Answered, guestVars
  <2>5. ASSUME faults' = 0, NEW i \in Taken' + 1 .. Len(written') PROVE FALSE
    BY <1>n, <2>1, <2>2, <2>3, <2>5 DEF Answered
  <2> QED
    BY <2>1, <2>2, <2>3, <2>4, <2>5 DEF LockStep, linkVars
<1>5. ASSUME Abandon PROVE InOrder' /\ LockStep'
  <2>1. UNCHANGED <<written, since, pushes, linkVars, guestVars>> /\ faults' = faults + 1
    BY <1>5 DEF Abandon
  <2>2. InOrder'
    BY <1>z, <2>1 DEF InOrder, Taken, linkVars
  <2> QED
    BY <1>n, <2>1, <2>2 DEF LockStep
<1>6. ASSUME Receive PROVE InOrder' /\ LockStep'
  <2>1. UNCHANGED <<guestVars, hostVars>> /\ offered' = offered + 1 /\ offered < Len(written)
    BY <1>6 DEF Receive
  <2>2. CASE Len(fifo) < FifoSize - 1
    <3>1. fifo' = Append(fifo, offered') /\ lost' = lost
      BY <1>6, <2>2 DEF Receive
    <3>2. offered' \in Nat /\ fifo \in Seq(Nat)
      BY <1>n, <1>t, <2>1 DEF TypeOK
    <3>3. /\ Len(fifo') = Len(fifo) + 1 /\ fifo'[Len(fifo) + 1] = offered'
          /\ \A i \in 1 .. Len(fifo) : fifo'[i] = fifo[i]
      BY <3>1, <3>2, Appended
    <3>4. Taken' = Taken
      BY <1>n, <2>1, <3>3 DEF Taken
    <3>5. InOrder'
      <4> SUFFICES ASSUME lost = 0
                   PROVE  /\ Len(fifo') <= offered'
                          /\ \A i \in 1 .. Len(fifo') : fifo'[i] = Taken' + i
        BY <3>1 DEF InOrder
      <4>1. Len(fifo) <= offered /\ \A i \in 1 .. Len(fifo) : fifo[i] = Taken + i
        BY <1>z DEF InOrder
      <4>2. ASSUME NEW i \in 1 .. Len(fifo') PROVE fifo'[i] = Taken + i
        <5>1. CASE i = Len(fifo) + 1
          BY <1>n, <2>1, <3>3, <5>1 DEF Taken
        <5>2. CASE i # Len(fifo) + 1
          BY <1>n, <3>3, <4>1, <5>2
        <5> QED
          BY <5>1, <5>2
      <4>3. Len(fifo') <= offered'
        BY <1>n, <2>1, <3>3, <4>1
      <4> QED
        BY <3>4, <4>2, <4>3
    <3> QED
      BY <1>z, <2>1, <3>1, <3>4, <3>5
      DEF LockStep, Writing, Collecting, Executing, Answered, hostVars, guestVars
  <2>3. CASE ~(Len(fifo) < FifoSize - 1)
    <3>1. fifo' = fifo /\ lost' = lost + 1
      BY <1>6, <2>3 DEF Receive
    <3>2. InOrder'
      BY <1>n, <3>1 DEF InOrder
    <3>3. faults # 0
      <4> SUFFICES ASSUME faults = 0 PROVE FALSE
        OBVIOUS
      <4>1. Taken < Len(written) - Len(fifo)
        BY <1>n, <2>1 DEF Taken
      <4>2. hpc \in {"idle", "writing", "waiting"}
        BY <1>t DEF TypeOK
      <4>3. \E n \in Lengths : Len(written) - Taken <= n + 1
        <5>1. CASE hpc = "idle"
          BY <1>n, <1>z, <4>1, <5>1 DEF LockStep, Answered
        <5>2. CASE hpc = "writing"
          <6>1. PICK n \in Lengths : Len(written) - Taken + left <= n
            BY <1>z, <5>2 DEF LockStep, Writing
          <6>2. Len(written) - Taken <= n + 1
            BY <1>n, <6>1, SizesAssumption
          <6> QED
            BY <6>2
        <5>3. CASE hpc = "waiting"
          <6>1. Collecting
            BY <1>n, <1>z, <4>1, <5>3 DEF LockStep, Executing, Answered
          <6> QED
            BY <6>1 DEF Collecting
        <5> QED
          BY <4>2, <5>1, <5>2, <5>3
      <4>4. PICK n \in Lengths : Len(written) - Taken <= n + 1
        BY <4>3
      <4> QED
        BY <1>n, <2>3, <4>1, <4>4, SizesAssumption, FitsAssumption
    <3> QED
      BY <2>1, <3>2, <3>3 DEF LockStep, hostVars
  <2> QED
    BY <2>2, <2>3
<1>7. ASSUME Collect PROVE InOrder' /\ LockStep'
  <2>1. UNCHANGED <<offered, lost, guest, busy, frames, done, hostVars>> /\ fifo # <<>>
        /\ fifo' = Tail(fifo) /\ ~written[Head(fifo)] /\ ~busy
    BY <1>7 DEF Collect
  <2>2. InOrder'
    BY <2>1, PopKeepsOrder
  <2> SUFFICES ASSUME faults = 0 PROVE LockStep'
    BY <2>1, <2>2 DEF LockStep, hostVars
  <2>3. lost = 0 /\ \A i \in Taken + 1 .. Len(written) :
                      written[i] <=> (hpc = "waiting" /\ i = Len(written))
    BY <1>z DEF LockStep
  <2>4. Head(fifo) = Taken + 1 /\ Taken < Len(written) /\ Taken' = Taken + 1
    BY <2>1, <2>3, HeadIsNext
  <2>5. ~Answered /\ ~Executing
    BY <1>n, <2>4 DEF Answered, Executing
  <2>6. hpc = "waiting" => Taken' < Len(written)
    BY <1>n, <2>1, <2>3, <2>4
  <2>7. ASSUME hpc = "writing" PROVE Writing'
    <3>1. Writing
      BY <1>z, <2>7 DEF LockStep
    <3>2. PICK n \in Lengths : Len(written) - Taken + left <= n
      BY <3>1 DEF Writing
    <3>3. Len(written) - Taken' + left <= n
      BY <1>n, <2>4, <3>2, SizesAssumption
    <3> QED
      BY <2>1, <3>1, <3>3 DEF Writing, hostVars
  <2>8. ASSUME hpc = "waiting" PROVE Collecting'
    <3>1. Collecting
      BY <1>z, <2>5, <2>8 DEF LockStep
    <3>2. PICK n \in Lengths : Len(written) - Taken <= n + 1
      BY <3>1 DEF Collecting
    <3>3. Len(written) - Taken' <= n + 1
      BY <1>n, <2>4, <3>2, SizesAssumption
    <3> QED
      BY <2>1, <2>6, <2>8, <3>1, <3>3 DEF Collecting, hostVars
  <2>9. hpc # "idle"
    BY <1>z, <2>5 DEF LockStep
  <2>10. \A i \in Taken' + 1 .. Len(written') :
           written'[i] <=> (hpc' = "waiting" /\ i = Len(written'))
    BY <1>n, <2>1, <2>3, <2>4 DEF hostVars
  <2> QED
    BY <2>1, <2>3, <2>7, <2>8, <2>9, <2>10 DEF LockStep, hostVars
<1>8. ASSUME Execute PROVE InOrder' /\ LockStep'
  <2>1. UNCHANGED <<offered, lost, guest, buf, done, hostVars>> /\ fifo # <<>>
        /\ fifo' = Tail(fifo) /\ written[Head(fifo)] /\ ~busy /\ busy' = TRUE
    BY <1>8 DEF Execute
  <2>2. InOrder'
    BY <2>1, PopKeepsOrder
  <2> SUFFICES ASSUME faults = 0 PROVE LockStep'
    BY <2>1, <2>2 DEF LockStep, hostVars
  <2>3. lost = 0 /\ \A i \in Taken + 1 .. Len(written) :
                      written[i] <=> (hpc = "waiting" /\ i = Len(written))
    BY <1>z DEF LockStep
  <2>4. Head(fifo) = Taken + 1 /\ Taken < Len(written) /\ Taken' = Taken + 1
    BY <2>1, <2>3, HeadIsNext
  <2>5. ~Answered /\ ~Executing
    BY <1>n, <2>4 DEF Answered, Executing
  <2>6. hpc = "waiting" /\ Taken' = Len(written)
    BY <1>n, <2>1, <2>3, <2>4
  <2>7. Collecting
    BY <1>z, <2>5, <2>6 DEF LockStep
  <2>8. Executing'
    BY <2>1, <2>6, <2>7 DEF Collecting, Executing, hostVars
  <2>9. \A i \in Taken' + 1 .. Len(written') : FALSE
    BY <1>n, <2>1, <2>6 DEF hostVars
  <2> QED
    BY <2>1, <2>3, <2>6, <2>8, <2>9 DEF LockStep, hostVars
<1>9. ASSUME Finish PROVE InOrder' /\ LockStep'
  <2>1. UNCHANGED <<guest, frames, linkVars, hostVars>> /\ busy /\ busy' = FALSE
        /\ done' = done + 1 /\ buf' = <<>>
    BY <1>9 DEF Finish
  <2>2. InOrder' /\ Taken' = Taken
    BY <1>z, <2>1 DEF InOrder, Taken, linkVars
  <2>3. ASSUME faults = 0 PROVE hpc = "waiting" /\ Executing
    <3>1. hpc \in {"idle", "writing", "waiting"}
      BY <1>t DEF TypeOK
    <3> QED
      BY <1>z, <2>1, <2>3, <3>1 DEF LockStep, Answered, Writing, Collecting
  <2>4. ASSUME faults = 0 PROVE Answered'
    BY <1>n, <2>1, <2>2, <2>3, <2>4 DEF Executing, Answered, hostVars
  <2> QED
    BY <1>z, <2>1, <2>2, <2>3, <2>4 DEF LockStep, hostVars, linkVars
<1>10. ASSUME UNCHANGED vars PROVE InOrder' /\ LockStep'
  BY <1>z, <1>10 DEF InOrder, LockStep, Writing, Collecting, Executing, Answered, Taken,
     vars, linkVars, guestVars, hostVars
<1>11. InOrder' /\ LockStep'
  BY <1>1, <1>2, <1>3, <1>4, <1>5, <1>6, <1>7, <1>8, <1>9, <1>10
  DEF Next, HostNext, GuestNext
<1> QED
  BY <1>t, <1>11 DEF LinkInv

\* A payload that fits in the FIFO with its EOT is never cut by an overflow, as
\* long as no push is torn and no wait given up.
THEOREM NothingLost == Spec => []NoByteLost
<1>1. LinkInv => NoByteLost
  BY DEF LinkInv, LockStep, NoByteLost
<1> QED
  BY <1>1, InitLink, LinkStep, PTL DEF Spec

\* A wait that ends well was answered by the push it belongs to, and finds the
\* loop with an empty buffer.
THEOREM WaitAnswered == Spec => DoneIsOwn
<1>1. LinkInv /\ [Next]_vars => [SeeDone /\ faults = 0 => done = pushes /\ ~busy /\ buf = <<>>]_vars
  <2> SUFFICES ASSUME LinkInv, SeeDone, faults = 0
               PROVE  done = pushes /\ ~busy /\ buf = <<>>
    OBVIOUS
  <2>1. hpc = "waiting" /\ done > since /\ done \in Nat /\ since \in Nat
    BY DEF SeeDone, LinkInv, TypeOK
  <2>2. Answered
    BY <2>1 DEF LinkInv, LockStep, Collecting, Executing
  <2> QED
    BY <2>2 DEF Answered
<1> QED
  BY <1>1, InitLink, LinkStep, PTL DEF Spec, DoneIsOwn

-----------------------------------------------------------------------------
(***************************************************************************)
(* Frames are whole, whatever was torn or given up.  What is executed is   *)
(* the buffer of that moment: the invariant says what the buffer holds     *)
(* between two EOTs, and that what was executed keeps.                     *)
(***************************************************************************)
\* FrameOk, of a given text; the frame and the EOT after it are in the text.
Whole(w, s) ==
  s # <<>> =>
    /\ s[1] > 0 /\ s[Len(s)] < Len(w)
    /\ Contiguous(s) /\ \A i \in 1 .. Len(s) : ~w[s[i]]
    /\ s[1] > 1 => w[s[1] - 1]
    /\ Len(s) < BufSize => w[s[Len(s)] + 1]

\* Of the first t bytes of w, b holds those since the last EOT, or the first
\* BufSize of them.
Since(w, t, b, start) ==
  /\ start = 0 \/ w[start]
  /\ \A i \in start + 1 .. t : ~w[i]
  /\ t - start < BufSize => Len(b) = t - start
  /\ t - start >= BufSize => Len(b) = BufSize
  /\ \A i \in 1 .. Len(b) : b[i] = start + i
Gathered(w, t, b) == \E start \in 0 .. t : Since(w, t, b, start)

FramesInv ==
  lost = 0 => /\ busy => Taken > 0 /\ written[Taken]
              /\ ~busy => Gathered(written, Taken, buf)
              /\ \A k \in 1 .. Len(frames) : Whole(written, frames[k])

\* Bytes written later change neither.
LEMMA WholeKept ==
  ASSUME NEW w \in Seq(BOOLEAN), NEW v \in Seq(BOOLEAN), NEW s \in Seq(Nat),
         Len(w) <= Len(v), \A i \in 1 .. Len(w) : v[i] <=> w[i], Whole(w, s)
  PROVE  Whole(v, s)
<1> SUFFICES ASSUME s # <<>> PROVE Whole(v, s)
  BY DEF Whole
<1>1. Len(s) \in Nat \ {0} /\ (\A i \in 1 .. Len(s) : s[i] \in Nat) /\ Len(w) \in Nat /\ Len(v) \in Nat
  OBVIOUS
<1>2. /\ s[1] > 0 /\ s[Len(s)] < Len(w) /\ \A i \in 1 .. Len(s) : s[i] = s[1] + i - 1
      /\ \A i \in 1 .. Len(s) : ~w[s[i]]
      /\ s[1] > 1 => w[s[1] - 1]
      /\ Len(s) < BufSize => w[s[Len(s)] + 1]
  BY DEF Whole, Contiguous
<1>3. s[1] \in Nat /\ s[Len(s)] \in Nat /\ s[Len(s)] = s[1] + Len(s) - 1
  BY <1>1, <1>2
<1>4. ASSUME NEW i \in 1 .. Len(s) PROVE ~v[s[i]]
  <2>1. s[i] = s[1] + i - 1 /\ s[Len(s)] < Len(w) /\ s[1] > 0
    BY <1>2
  <2>2. s[i] \in 1 .. Len(w)
    BY <1>1, <1>3, <2>1
  <2> QED
    BY <1>2, <2>2
<1>5. s[1] > 1 => v[s[1] - 1]
  <2> SUFFICES ASSUME s[1] > 1 PROVE v[s[1] - 1]
    OBVIOUS
  <2>1. s[1] - 1 \in 1 .. Len(w)
    BY <1>1, <1>2, <1>3
  <2> QED
    BY <1>2, <2>1
<1>6. Len(s) < BufSize => v[s[Len(s)] + 1]
  <2>0. s[Len(s)] < Len(w) /\ s[Len(s)] \in Nat
    BY <1>2, <1>3
  <2>1. s[Len(s)] + 1 \in 1 .. Len(w)
    BY <1>1, <2>0
  <2> QED
    BY <1>2, <2>1
<1>7. s[Len(s)] < Len(v)
  BY <1>1, <1>2, <1>3
<1> QED
  BY <1>2, <1>4, <1>5, <1>6, <1>7 DEF Whole, Contiguous

LEMMA GatheredKept ==
  ASSUME NEW w, NEW v, NEW n \in Nat, NEW t \in 0 .. n, NEW b,
         \A i \in 1 .. n : v[i] <=> w[i], Gathered(w, t, b)
  PROVE  Gathered(v, t, b)
<1>1. PICK start \in 0 .. t : Since(w, t, b, start)
  BY DEF Gathered
<1>2. start = 0 \/ v[start]
  BY <1>1 DEF Since
<1>3. \A i \in start + 1 .. t : ~v[i]
  BY <1>1 DEF Since
<1> QED
  BY <1>1, <1>2, <1>3 DEF Since, Gathered

\* A byte that is no EOT joins the buffer, or finds it full.
LEMMA GatheredOn ==
  ASSUME NEW w, NEW t \in Nat, NEW b \in Seq(Nat), NEW c, Gathered(w, t, b), ~w[t + 1],
         c = IF Len(b) < BufSize THEN Append(b, t + 1) ELSE b
  PROVE  Gathered(w, t + 1, c)
<1>1. PICK start \in 0 .. t : Since(w, t, b, start)
  BY DEF Gathered
<1>2. start \in 0 .. t + 1 /\ BufSize \in Nat /\ Len(b) \in Nat
  BY SizesAssumption
<1>3. \A i \in start + 1 .. t + 1 : ~w[i]
  BY <1>1 DEF Since
<1>4. CASE Len(b) < BufSize
  <2>1. t - start < BufSize /\ Len(b) = t - start
    BY <1>1, <1>2, <1>4 DEF Since
  <2>2. c = Append(b, t + 1) /\ t + 1 \in Nat
    BY <1>4
  <2>3. Len(c) = Len(b) + 1 /\ (\A i \in 1 .. Len(b) : c[i] = b[i]) /\ c[Len(b) + 1] = t + 1
    BY <2>2, Appended
  <2>4. \A i \in 1 .. Len(c) : c[i] = start + i
    BY <1>1, <1>2, <2>1, <2>3 DEF Since
  <2> QED
    BY <1>1, <1>2, <1>3, <2>1, <2>3, <2>4 DEF Since, Gathered
<1>5. CASE ~(Len(b) < BufSize)
  <2>1. c = b /\ t - start >= BufSize /\ Len(b) = BufSize
    BY <1>1, <1>2, <1>5 DEF Since
  <2>2. ~(t + 1 - start < BufSize) /\ t + 1 - start >= BufSize
    BY <1>2, <2>1
  <2>3. (start = 0 \/ w[start]) /\ \A i \in 1 .. Len(c) : c[i] = start + i
    BY <1>1, <2>1 DEF Since
  <2>4. Since(w, t + 1, c, start)
    BY <1>3, <2>1, <2>2, <2>3 DEF Since
  <2> QED
    BY <1>2, <2>4 DEF Gathered
<1> QED
  BY <1>4, <1>5

\* At an EOT the buffer is a whole frame.
LEMMA GatheredWhole ==
  ASSUME NEW w \in Seq(BOOLEAN), NEW t \in Nat, NEW b \in Seq(Nat), Gathered(w, t, b),
         t < Len(w), w[t + 1]
  PROVE  Whole(w, b)
<1> SUFFICES ASSUME b # <<>> PROVE Whole(w, b)
  BY DEF Whole
<1>1. PICK start \in 0 .. t : Since(w, t, b, start)
  BY DEF Gathered
<1>2. BufSize \in Nat /\ Len(b) \in Nat \ {0} /\ Len(w) \in Nat
  BY SizesAssumption
<1>3. Len(b) <= t - start /\ (Len(b) < BufSize => Len(b) = t - start)
  BY <1>1, <1>2 DEF Since
<1>4. b[1] = start + 1 /\ b[Len(b)] = start + Len(b)
      /\ \A i \in 1 .. Len(b) : b[i] = start + i
  BY <1>1, <1>2 DEF Since
<1>5. ASSUME NEW i \in 1 .. Len(b) PROVE ~w[b[i]]
  <2>1. b[i] = start + i /\ start + i \in start + 1 .. t
    BY <1>2, <1>3, <1>4
  <2> QED
    BY <1>1, <2>1 DEF Since
<1>6. b[1] > 1 => w[b[1] - 1]
  <2>1. b[1] - 1 = start
    BY <1>4
  <2> QED
    BY <1>1, <1>4, <2>1 DEF Since
<1>7. Len(b) < BufSize => w[b[Len(b)] + 1]
  <2> SUFFICES ASSUME Len(b) < BufSize PROVE w[b[Len(b)] + 1]
    OBVIOUS
  <2>1. b[Len(b)] + 1 = t + 1
    BY <1>2, <1>3, <1>4
  <2> QED
    BY <2>1
<1>8. b[1] > 0 /\ b[Len(b)] < Len(w) /\ Contiguous(b)
  BY <1>2, <1>3, <1>4 DEF Contiguous
<1> QED
  BY <1>5, <1>6, <1>7, <1>8 DEF Whole


LEMMA InitFrames == Init => FramesInv
<1> SUFFICES ASSUME Init PROVE FramesInv
  OBVIOUS
<1>1. written = <<>> /\ buf = <<>> /\ frames = <<>> /\ offered = 0 /\ fifo = <<>> /\ ~busy
  BY DEF Init
<1>2. Taken = 0
  <2>1. Len(fifo) = 0 /\ offered = 0
    BY <1>1
  <2> QED
    BY <2>1 DEF Taken
<1>3. Since(written, 0, buf, 0)
  BY <1>1, SizesAssumption DEF Since
<1> QED
  BY <1>1, <1>2, <1>3 DEF FramesInv, Gathered

\* A step that only writes keeps the invariant.
LEMMA WritingKeepsFrames ==
  ASSUME LinkInv, FramesInv, TypeOK', NEW e \in BOOLEAN, written' = Append(written, e),
         UNCHANGED <<linkVars, guestVars>>
  PROVE  FramesInv'
<1> SUFFICES ASSUME lost = 0 PROVE FramesInv'
  BY DEF FramesInv, linkVars
<1>1. /\ written \in Seq(BOOLEAN) /\ written' \in Seq(BOOLEAN) /\ frames \in Seq(Seq(Nat))
      /\ frames' = frames /\ buf' = buf /\ busy' = busy
  BY DEF LinkInv, TypeOK, guestVars
<1>2. Len(written) \in Nat /\ Len(written') = Len(written) + 1
      /\ \A i \in 1 .. Len(written) : written'[i] <=> written[i]
  BY WriteStep DEF LinkInv
<1>3. Taken' = Taken /\ Taken \in 0 .. Len(written)
  BY DEF Taken, LinkInv, TypeOK, InOrder, linkVars
<1>4. busy => Taken > 0 /\ written'[Taken]
  <2> SUFFICES ASSUME busy PROVE Taken > 0 /\ written'[Taken]
    OBVIOUS
  <2>1. Taken > 0 /\ written[Taken] /\ Taken \in 1 .. Len(written)
    BY <1>2, <1>3 DEF FramesInv
  <2> QED
    BY <1>2, <2>1
<1>5. ~busy => Gathered(written', Taken, buf)
  BY <1>2, <1>3, GatheredKept DEF FramesInv
<1>6. ASSUME NEW k \in 1 .. Len(frames) PROVE Whole(written', frames[k])
  <2>1. frames[k] \in Seq(Nat) /\ Whole(written, frames[k])
    BY <1>1 DEF FramesInv
  <2>2. Len(written) <= Len(written')
    BY <1>2
  <2> QED
    BY <1>1, <1>2, <2>1, <2>2, WholeKept
<1> QED
  BY <1>1, <1>3, <1>4, <1>5, <1>6 DEF FramesInv

\* Every step keeps the frames whole.
LEMMA FramesStep == LinkInv /\ FramesInv /\ [Next]_vars => FramesInv'
<1> SUFFICES ASSUME LinkInv, FramesInv, [Next]_vars PROVE FramesInv'
  OBVIOUS
<1>t. TypeOK /\ TypeOK'
  BY TypeStep DEF LinkInv
<1>n. /\ written \in Seq(BOOLEAN) /\ Len(written) \in Nat /\ buf \in Seq(Nat) /\ fifo \in Seq(Nat)
      /\ frames \in Seq(Seq(Nat)) /\ lost \in Nat /\ offered \in 0 .. Len(written)
  BY <1>t DEF TypeOK
<1>0. ASSUME UNCHANGED <<written, linkVars, guestVars>> PROVE FramesInv'
  BY <1>0 DEF FramesInv, Taken, linkVars, guestVars
<1>1. ASSUME NEW n \in Lengths, BeginPush(n) PROVE FramesInv'
  BY <1>0, <1>1 DEF BeginPush
<1>2. ASSUME WriteByte PROVE FramesInv'
  BY <1>2, <1>t, WritingKeepsFrames DEF WriteByte
<1>3. ASSUME WriteEot PROVE FramesInv'
  BY <1>3, <1>t, WritingKeepsFrames DEF WriteEot
<1>4. ASSUME SeeDone PROVE FramesInv'
  BY <1>0, <1>4 DEF SeeDone
<1>5. ASSUME Abandon PROVE FramesInv'
  BY <1>0, <1>5 DEF Abandon
<1>6. ASSUME Receive PROVE FramesInv'
  <2> SUFFICES ASSUME lost' = 0 PROVE FramesInv'
    BY DEF FramesInv
  <2>1. lost = 0 /\ fifo' = Append(fifo, offered') /\ offered' = offered + 1
        /\ UNCHANGED <<guestVars, hostVars>>
    BY <1>6, <1>n DEF Receive
  <2>2. Len(fifo') = Len(fifo) + 1 /\ Len(fifo) \in Nat
    BY <1>n, <2>1, Appended
  <2>3. Taken' = Taken
    BY <1>n, <2>1, <2>2 DEF Taken
  <2> QED
    BY <2>1, <2>3 DEF FramesInv, guestVars, hostVars
<1>7. ASSUME Collect PROVE FramesInv'
  <2> SUFFICES ASSUME lost = 0 PROVE FramesInv'
    BY <1>7 DEF FramesInv, Collect
  <2>1. /\ ~busy /\ fifo # <<>> /\ ~written[Head(fifo)] /\ fifo' = Tail(fifo)
        /\ buf' = IF Len(buf) < BufSize THEN Append(buf, Head(fifo)) ELSE buf
        /\ UNCHANGED <<offered, lost, busy, frames, written>>
    BY <1>7 DEF Collect, hostVars
  <2>2. Head(fifo) = Taken + 1 /\ Taken \in Nat /\ Taken' = Taken + 1
    BY <2>1, HeadIsNext
  <2>3. Gathered(written, Taken + 1, buf')
    BY <1>n, <2>1, <2>2, GatheredOn DEF FramesInv
  <2> QED
    BY <2>1, <2>2, <2>3 DEF FramesInv
<1>8. ASSUME Execute PROVE FramesInv'
  <2> SUFFICES ASSUME lost = 0 PROVE FramesInv'
    BY <1>8 DEF FramesInv, Execute
  <2>1. /\ ~busy /\ fifo # <<>> /\ written[Head(fifo)] /\ fifo' = Tail(fifo) /\ busy' = TRUE
        /\ frames' = IF guest = "RunDaemon" /\ buf = <<>> THEN frames ELSE Append(frames, buf)
        /\ UNCHANGED <<offered, lost, buf, written>>
    BY <1>8 DEF Execute, hostVars
  <2>2. Head(fifo) = Taken + 1 /\ Taken \in Nat /\ Taken' = Taken + 1 /\ Taken < Len(written)
    BY <2>1, HeadIsNext
  <2>3. Whole(written, buf)
    BY <1>n, <2>1, <2>2, GatheredWhole DEF FramesInv
  <2>4. \A k \in 1 .. Len(frames) : Whole(written, frames[k])
    BY DEF FramesInv
  <2>5. \A k \in 1 .. Len(frames') : Whole(written, frames'[k])
    <3>1. CASE frames' = frames
      BY <2>4, <3>1
    <3>2. CASE frames' = Append(frames, buf)
      <4>1. /\ Len(frames) \in Nat /\ Len(frames') = Len(frames) + 1
            /\ \A k \in 1 .. Len(frames) : frames'[k] = frames[k]
            /\ frames'[Len(frames) + 1] = buf
        BY <1>n, <3>2, Appended
      <4>2. ASSUME NEW k \in 1 .. Len(frames') PROVE Whole(written, frames'[k])
        <5>1. k \in 1 .. Len(frames) \/ k = Len(frames) + 1
          BY <4>1
        <5> QED
          BY <2>3, <2>4, <4>1, <5>1
      <4> QED
        BY <4>2
    <3> QED
      BY <2>1, <3>1, <3>2
  <2>6. Taken' > 0 /\ written[Taken']
    BY <2>1, <2>2
  <2> QED
    BY <2>1, <2>5, <2>6 DEF FramesInv
<1>9. ASSUME Finish PROVE FramesInv'
  <2> SUFFICES ASSUME lost = 0 PROVE FramesInv'
    BY <1>9 DEF FramesInv, Finish, linkVars
  <2>1. busy /\ busy' = FALSE /\ buf' = <<>> /\ UNCHANGED <<frames, linkVars, written>>
    BY <1>9 DEF Finish, hostVars
  <2>2. Taken' = Taken /\ Taken > 0 /\ written[Taken] /\ Taken \in Int
    BY <1>n, <2>1 DEF Taken, linkVars, FramesInv
  <2>3. Since(written, Taken, buf', Taken)
    BY <2>1, <2>2, SizesAssumption DEF Since
  <2>4. Gathered(written, Taken, buf')
    BY <2>2, <2>3 DEF Gathered
  <2> QED
    BY <2>1, <2>2, <2>4 DEF FramesInv, linkVars
<1>10. ASSUME UNCHANGED vars PROVE FramesInv'
  BY <1>0, <1>10 DEF vars, hostVars
<1> QED
  BY <1>1, <1>2, <1>3, <1>4, <1>5, <1>6, <1>7, <1>8, <1>9, <1>10
  DEF Next, HostNext, GuestNext

\* As long as no byte was lost, what a receive loop executed are the bytes
\* between two consecutive EOTs, or the first BufSize of them, wherever pushes
\* were torn and waits given up (temple-run.py's D and D2, Daemon.ZC).
THEOREM FramesWhole == Spec => []FramesAreWhole
<1>1. FramesInv => FramesAreWhole
  <2> SUFFICES ASSUME FramesInv, lost = 0, NEW k \in 1 .. Len(frames) PROVE FrameOk(frames[k])
    BY DEF FramesAreWhole
  <2> QED
    BY DEF FramesInv, Whole, FrameOk
<1>2. Init => LinkInv /\ FramesInv
  BY InitLink, InitFrames
<1>3. (LinkInv /\ FramesInv) /\ [Next]_vars => (LinkInv /\ FramesInv)'
  BY LinkStep, FramesStep
<1> QED
  BY <1>1, <1>2, <1>3, PTL DEF Spec
=============================================================================
