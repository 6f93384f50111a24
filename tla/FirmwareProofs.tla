--------------------------- MODULE FirmwareProofs ---------------------------
(***************************************************************************)
(* The tasks on the kernel, for any delays and any choice of tasks.  The   *)
(* first part is about the audio lock and the serial line: who has one is  *)
(* told by where the tasks are and what they call, whatever the lists of   *)
(* the kernel hold.  The second part is about those lists: every task is   *)
(* in one of them, and nobody is left waiting for what can be had.         *)
(***************************************************************************)
EXTENDS Firmware, CommonLemmas

\* Six tasks and five semaphores.
LEMMA TasksDiffer ==
  /\ App # Idle /\ App # Audio /\ App # Test /\ App # Bsp /\ App # Usb
  /\ Idle # Audio /\ Idle # Test /\ Idle # Bsp /\ Idle # Usb
  /\ Audio # Test /\ Audio # Bsp /\ Audio # Usb
  /\ Test # Bsp /\ Test # Usb
  /\ Bsp # Usb
<1> DEFINE t == <<App, Idle, Audio, Test, Bsp, Usb>>
<1>1. \A i, j \in 1 .. 6 : t[i] = t[j] => i = j
  BY FirmwareAssumption DEF FirmwareAssumption
<1>2. /\ t[1] = App /\ t[2] = Idle /\ t[3] = Audio
      /\ t[4] = Test /\ t[5] = Bsp /\ t[6] = Usb
  OBVIOUS
<1> HIDE DEF t
<1> QED
  BY <1>1, <1>2

LEMMA SemsDiffer ==
  /\ AudioSem # UsbSem /\ AudioSem # BspSem /\ AudioSem # Serial /\ AudioSem # Lock
  /\ UsbSem # BspSem /\ UsbSem # Serial /\ UsbSem # Lock
  /\ BspSem # Serial /\ BspSem # Lock
  /\ Serial # Lock
<1> DEFINE s == <<AudioSem, UsbSem, BspSem, Serial, Lock>>
<1>1. \A i, j \in 1 .. 5 : s[i] = s[j] => i = j
  BY FirmwareAssumption DEF FirmwareAssumption
<1>2. s[1] = AudioSem /\ s[2] = UsbSem /\ s[3] = BspSem /\ s[4] = Serial /\ s[5] = Lock
  OBVIOUS
<1> HIDE DEF s
<1> QED
  BY <1>1, <1>2

LEMMA Named ==
  /\ {App, Idle, Audio, Test, Bsp, Usb} = Tasks
  /\ {AudioSem, UsbSem, BspSem, Serial, Lock} = Sems
  /\ NoSem \notin Sems
  BY FirmwareAssumption, SemAssumption DEF FirmwareAssumption, SemAssumption

-----------------------------------------------------------------------------
ShapeOK ==
  /\ DOMAIN sem = Sems
  /\ \A s \in Sems : /\ DOMAIN sem[s] = {"count", "waiting", "txLock"}
                     /\ sem[s].count \in {-1, 0, 1}
  /\ call \in [Tasks -> [at : {"none", "lock", "place", "retry", "resume", "yield"},
                         of : Sems \cup {NoSem}]]
  /\ DOMAIN pc = Tasks

Exists(s) == sem[s].count # -1

\* A task is in xSemaphoreTake, or in another call, or in none.
CallsOK ==
  \A t \in Tasks :
    /\ call[t].at \in {"lock", "place", "retry"} <=> call[t].of # NoSem
    /\ call[t].at = "place" => Exists(call[t].of)

\* The tasks that may be waiting for the lock, and for the serial line.
WaitersOK ==
  /\ \A t \in Tasks : call[t].of = Lock =>
       \/ t = Audio /\ pc[t] = "process"
       \/ t = Bsp /\ pc[t] = "edit"
       \/ t = Usb /\ pc[t] = "play"
  /\ \A t \in Tasks : call[t].of = Serial =>
       \/ t = App /\ pc[t] \in {"helloSend", "byeSend"}
       \/ t \in {Test, Usb} /\ pc[t] = "send"

Num(b) == IF b THEN 1 ELSE 0

LockUsers == Num(Has(Audio, {"process"}, Lock)) + Num(Has(Bsp, {"edit"}, Lock))
               + Num(Has(Usb, {"play", "send"}, Lock))
Writes(t) == Has(t, {"helloSend", "byeSend", "send"}, Serial)
SerialUsers == Num(Writes(App)) + Num(Writes(Test)) + Num(Writes(Usb)) + Num("uart" \in devices)

\* A semaphore without a holder is one that can be had, once it exists.
OwnersOK ==
  /\ LockUsers + sem[Lock].count = Num(Exists(Lock)) - Num(~ Exists(Lock))
  /\ SerialUsers + sem[Serial].count = Num(Exists(Serial)) - Num(~ Exists(Serial))

\* AppMain creates either once.
CreatedOnce ==
  /\ pc[App] = "startIO" => ~ Exists(Serial)
  /\ pc[App] \in {"startIO", "hello", "helloSend", "panel", "panelSem", "lock"} => ~ Exists(Lock)
  /\ \A s \in {Lock, Serial} : ~ Exists(s) => sem[s] = Absent

HeldInv == ShapeOK /\ CallsOK /\ WaitersOK /\ OwnersOK /\ CreatedOnce

-----------------------------------------------------------------------------
LEMMA HeldInit == FirmwareInit => HeldInv
<1> SUFFICES ASSUME FirmwareInit PROVE HeldInv
  OBVIOUS
<1> USE TasksDiffer, SemsDiffer, Named DEF FirmwareInit, KernelInit, Absent, Exists
<1>1. ShapeOK
  <2>1. DOMAIN pc = Tasks
    OBVIOUS
  <2>2. call \in [Tasks -> [at : {"none"}, of : {NoSem}]]
    OBVIOUS
  <2>3. DOMAIN sem = Sems /\ \A s \in Sems : sem[s] = Absent
    OBVIOUS
  <2>4. DOMAIN Absent = {"count", "waiting", "txLock"}
    OBVIOUS
  <2> QED
    BY <2>1, <2>2, <2>3, <2>4 DEF ShapeOK
<1>2. CallsOK /\ WaitersOK /\ CreatedOnce
  BY DEF CallsOK, WaitersOK, CreatedOnce
<1>3. OwnersOK
  BY DEF OwnersOK, LockUsers, SerialUsers, Writes, Has, Num
<1> QED
  BY <1>1, <1>2, <1>3 DEF HeldInv

\* A step that takes and gives none of the two, and starts no waiting.
LEMMA SameHolders ==
  ASSUME HeldInv, ShapeOK', CallsOK', devices' = devices, pc' = pc,
         \A s \in Sems : sem'[s].count = sem[s].count,
         \A s \in Sems : ~ Exists(s) => sem'[s] = sem[s],
         \A t \in Tasks : call'[t].of = call[t].of
  PROVE  HeldInv'
<1> USE Named DEF HeldInv, Exists
<1>1. WaitersOK' /\ CreatedOnce'
  BY DEF WaitersOK, CreatedOnce
<1>2. OwnersOK'
  BY DEF OwnersOK, LockUsers, SerialUsers, Writes, Has, Num
<1> QED
  BY <1>1, <1>2

LEMMA LockQueueHeld ==
  ASSUME HeldInv, NEW t \in Tasks, LockQueue(t), UNCHANGED appVars
  PROVE  HeldInv'
<1> USE DEF HeldInv, Exists
<1>1. call[t].at = "lock" /\ call[t].of \in Sems
  BY DEF LockQueue, At, CallsOK, ShapeOK
<1>2. CASE IsEmpty(call[t].of)
  <2>1. /\ sem' = [sem EXCEPT ![call[t].of].txLock = 0]
        /\ call' = [call EXCEPT ![t].at = "place"]
        /\ sem[call[t].of].count = 0
    BY <1>2 DEF LockQueue, Moves, IsEmpty
  <2>2. \A s \in Sems : sem'[s].count = sem[s].count /\ (sem[s].count = -1 => sem'[s] = sem[s])
    BY <1>1, <2>1 DEF ShapeOK
  <2>3. ShapeOK'
    BY <1>1, <2>1 DEF ShapeOK, appVars
  <2>4. CallsOK'
    BY <1>1, <2>1, <2>2, Named DEF ShapeOK, CallsOK
  <2> QED
    BY <2>1, <2>2, <2>3, <2>4, SameHolders DEF appVars, ShapeOK
<1>3. CASE ~ IsEmpty(call[t].of)
  <2>1. sem' = sem /\ call' = [call EXCEPT ![t].at = "retry"]
    BY <1>3 DEF LockQueue, Moves
  <2>2. ShapeOK'
    BY <1>1, <2>1 DEF ShapeOK, appVars
  <2>3. CallsOK'
    BY <1>1, <2>1, Named DEF ShapeOK, CallsOK
  <2> QED
    BY <2>1, <2>2, <2>3, SameHolders DEF appVars, ShapeOK
<1> QED
  BY <1>2, <1>3

LEMMA PlaceHeld ==
  ASSUME HeldInv, NEW t \in Tasks, Place(t), UNCHANGED appVars
  PROVE  HeldInv'
<1> USE DEF HeldInv, Exists
<1> DEFINE s == call[t].of
<1>1. call[t].at = "place" /\ s \in Sems /\ sem[s].count # -1
  BY DEF Place, At, CallsOK, ShapeOK
<1>2. PICK w : sem' = [sem EXCEPT ![s].txLock = Unlocked, ![s].waiting = w]
  BY DEF Place
<1>3. call' = [call EXCEPT ![t].at = "retry"]
  BY DEF Place, Moves
<1>4. ShapeOK' /\ \A x \in Sems : sem'[x].count = sem[x].count
  BY <1>1, <1>2, <1>3 DEF ShapeOK, appVars
<1>5. \A x \in Sems : sem[x].count = -1 => sem'[x] = sem[x]
  BY <1>1, <1>2 DEF ShapeOK
<1>6. CallsOK'
  BY <1>1, <1>3, <1>4, Named DEF ShapeOK, CallsOK
<1> QED
  BY <1>3, <1>4, <1>5, <1>6, SameHolders DEF appVars, ShapeOK

\* Resume and Yield end calls that take nothing.
LEMMA EndsHeld ==
  ASSUME HeldInv, NEW t \in Tasks, call[t].of = NoSem, Moves(t, "none"), UNCHANGED <<sem, appVars>>
  PROVE  HeldInv'
<1> USE DEF HeldInv, Exists
<1>1. call' = [call EXCEPT ![t].at = "none"]
  BY DEF Moves
<1>2. ShapeOK' /\ CallsOK'
  BY <1>1 DEF ShapeOK, CallsOK, appVars
<1> QED
  BY <1>1, <1>2, SameHolders DEF appVars, ShapeOK

LEMMA UntouchedHeld ==
  ASSUME HeldInv, UNCHANGED <<sem, call, appVars>>
  PROVE  HeldInv'
  BY SameHolders DEF HeldInv, ShapeOK, CallsOK, Exists, appVars

\* Whoever has been woken takes what it waited for, or waits again.
LEMMA RetryHeld ==
  ASSUME HeldInv, NEW t \in Tasks, Retry(t), UNCHANGED appVars
  PROVE  HeldInv'
<1> USE DEF HeldInv, Exists
<1> DEFINE s == call[t].of
<1>1. call[t].at = "retry" /\ s \in Sems /\ s # NoSem
  BY Named DEF Retry, At, CallsOK, ShapeOK
<1>2. CASE sem[s].count > 0
  <2>1. /\ sem[s].count = 1
        /\ sem' = [sem EXCEPT ![s].count = @ - 1]
        /\ call' = [call EXCEPT ![t] = [at |-> "none", of |-> NoSem]]
    BY <1>1, <1>2 DEF Retry, Take, ShapeOK
  <2>2. ShapeOK'
    BY <1>1, <2>1 DEF ShapeOK, appVars
  <2>3. CallsOK'
    BY <1>1, <2>1 DEF ShapeOK, CallsOK
  <2>4. WaitersOK'
    BY <2>1, Named DEF ShapeOK, WaitersOK, appVars
  <2>5. CreatedOnce'
    BY <1>1, <2>1, Named DEF ShapeOK, CreatedOnce, appVars
  <2>6. OwnersOK'
    BY <1>1, <2>1, Named, TasksDiffer, SemsDiffer
    DEF ShapeOK, WaitersOK, OwnersOK, LockUsers, SerialUsers, Writes, Has, Num, appVars
  <2> QED
    BY <2>2, <2>3, <2>4, <2>5, <2>6
<1>3. CASE ~ sem[s].count > 0
  <2>1. sem' = sem /\ call' = [call EXCEPT ![t] = [at |-> "lock", of |-> s]]
    BY <1>3 DEF Retry, Take
  <2>2. ShapeOK' /\ CallsOK'
    BY <1>1, <2>1 DEF ShapeOK, CallsOK, appVars
  <2> QED
    BY <2>1, <2>2, SameHolders DEF appVars, ShapeOK
<1> QED
  BY <1>2, <1>3

LEMMA KernelHeld ==
  ASSUME HeldInv, UNCHANGED appVars,
         \/ \E t \in Tasks : KernelStep(t)
         \/ IdleYields \/ StartCommand \/ DaemonBlocks \/ Tick
  PROVE  HeldInv'
<1>1. ASSUME NEW t \in Tasks, Resume(t) \/ Yield(t)
      PROVE  HeldInv'
  <2>1. call[t].of = NoSem /\ Moves(t, "none") /\ sem' = sem
    BY <1>1 DEF Resume, Yield, At, HeldInv, CallsOK
  <2> QED
    BY <2>1, EndsHeld
<1>2. CASE IdleYields \/ StartCommand \/ DaemonBlocks \/ Tick
  BY <1>2, UntouchedHeld DEF IdleYields, StartCommand, DaemonBlocks, Tick
<1> QED
  BY <1>1, <1>2, LockQueueHeld, PlaceHeld, RetryHeld DEF KernelStep

-----------------------------------------------------------------------------
(***************************************************************************)
(* Giving, and the interrupts.                                             *)
(***************************************************************************)
LEMMA GiveChanges ==
  ASSUME ShapeOK, NEW s \in Sems, Give(s) \/ GiveFromISR(s)
  PROVE  /\ DOMAIN sem' = Sems
         /\ DOMAIN sem'[s] = {"count", "waiting", "txLock"}
         /\ sem'[s].count \in {sem[s].count, 1}
         /\ Exists(s) => sem'[s].count = 1
         /\ \A x \in Sems \ {s} : sem'[x] = sem[x]
<1> USE DEF ShapeOK, Exists
<1>1. CASE Give(s)
  BY <1>1 DEF Give, Wake
<1>2. CASE GiveFromISR(s)
  <2>1. CASE CountLocked(s)
    BY <2>1 DEF CountLocked
  <2> QED
    BY <1>1, <1>2, <2>1 DEF GiveFromISR
<1> QED
  BY <1>1, <1>2

\* Neither of the two semaphores, and no call.
LEMMA OtherSemHeld ==
  ASSUME HeldInv, NEW s \in Sems, s \notin {Lock, Serial}, GiveFromISR(s), pc' = pc,
         "uart" \in devices' <=> "uart" \in devices
  PROVE  HeldInv'
<1> USE Named DEF HeldInv, Exists
<1>1. call' = call
  BY DEF GiveFromISR
<1>2. /\ DOMAIN sem' = Sems
      /\ DOMAIN sem'[s] = {"count", "waiting", "txLock"}
      /\ sem'[s].count \in {sem[s].count, 1}
      /\ \A x \in Sems \ {s} : sem'[x] = sem[x]
  BY GiveChanges
<1>3. ShapeOK' /\ CallsOK'
  BY <1>1, <1>2 DEF ShapeOK, CallsOK
<1>4. WaitersOK' /\ CreatedOnce'
  BY <1>1, <1>2 DEF WaitersOK, CreatedOnce
<1>5. OwnersOK'
  BY <1>1, <1>2 DEF OwnersOK, LockUsers, SerialUsers, Writes, Has, Num
<1> QED
  BY <1>3, <1>4, <1>5

LEMMA SentHeld ==
  ASSUME HeldInv, TransferDone("uart", Serial)
  PROVE  HeldInv'
<1> USE Named, SemsDiffer DEF HeldInv, Exists
<1>1. /\ call' = call /\ pc' = pc
      /\ "uart" \in devices /\ "uart" \notin devices'
      /\ sem[Serial] # Absent
  BY DEF TransferDone, GiveFromISR
<1>2. sem[Serial].count # -1
  BY <1>1 DEF CreatedOnce
<1>3. /\ DOMAIN sem' = Sems
      /\ DOMAIN sem'[Serial] = {"count", "waiting", "txLock"}
      /\ sem'[Serial].count = 1
      /\ \A x \in Sems \ {Serial} : sem'[x] = sem[x]
  BY <1>2, GiveChanges DEF TransferDone
<1>4. sem[Serial].count = 0
  BY <1>1, <1>2 DEF ShapeOK, OwnersOK, SerialUsers, Writes, Num
<1>5. ShapeOK' /\ CallsOK'
  BY <1>1, <1>3 DEF ShapeOK, CallsOK
<1>6. WaitersOK' /\ CreatedOnce'
  BY <1>1, <1>2, <1>3 DEF WaitersOK, CreatedOnce
<1>7. OwnersOK'
  BY <1>1, <1>3, <1>4 DEF OwnersOK, LockUsers, SerialUsers, Writes, Has, Num
<1> QED
  BY <1>5, <1>6, <1>7

LEMMA InterruptHeld ==
  ASSUME HeldInv, Interrupt \/ OS_SpiTimerCallback
  PROVE  HeldInv'
<1>1. CASE TransferDone("spi", BspSem)
  <2>1. /\ GiveFromISR(BspSem) /\ pc' = pc
        /\ "uart" \in devices' <=> "uart" \in devices
    BY <1>1 DEF TransferDone
  <2> QED
    BY <2>1, Named, SemsDiffer, OtherSemHeld
<1>2. CASE HalfPlayed \/ DataIn
  BY <1>2, Named, SemsDiffer, OtherSemHeld DEF HalfPlayed, DataIn, appVars
<1>3. CASE OS_SpiTimerCallback
  <2>1. UNCHANGED <<sem, call, pc>> /\ devices' = devices \cup {"spi"}
    BY <1>3 DEF OS_SpiTimerCallback, Expire
  <2>2. "uart" \in devices' <=> "uart" \in devices
    BY <2>1
  <2> QED
    BY <2>1, <2>2
    DEF HeldInv, ShapeOK, CallsOK, WaitersOK, CreatedOnce, Exists,
        OwnersOK, LockUsers, SerialUsers, Writes, Has, Num
<1> QED
  BY <1>1, <1>2, <1>3, SentHeld DEF Interrupt

-----------------------------------------------------------------------------
(***************************************************************************)
(* The tasks.                                                              *)
(***************************************************************************)
\* Take either gets the semaphore or begins to wait for it.
LEMMA TakeChanges ==
  ASSUME HeldInv, NEW t \in Tasks, NEW s \in Sems, NEW from, NEW to, Takes(t, from, to, s)
  PROVE  /\ ShapeOK' /\ CallsOK'
         /\ pc[t] = from /\ pc' = [pc EXCEPT ![t] = to] /\ devices' = devices
         /\ call[t].of = NoSem /\ \A x \in Tasks \ {t} : call'[x] = call[x]
         /\ \A x \in Sems \ {s} : sem'[x] = sem[x]
         /\ \/ sem[s].count = 1 /\ sem'[s].count = 0 /\ call'[t].of = NoSem
            \/ sem' = sem /\ call'[t].of = s
<1> USE Named DEF HeldInv, Exists
<1>1. /\ call[t].at = "none" /\ call[t].of = NoSem
      /\ pc[t] = from /\ pc' = [pc EXCEPT ![t] = to] /\ devices' = devices
  BY DEF Takes, Runs, InNoCall, At, CallsOK
<1>2. CASE sem[s].count > 0
  <2>1. /\ sem[s].count = 1
        /\ sem' = [sem EXCEPT ![s].count = @ - 1]
        /\ call' = [call EXCEPT ![t] = [at |-> "none", of |-> NoSem]]
    BY <1>2 DEF Takes, Take, ShapeOK
  <2>2. sem'[s].count = 0 /\ \A x \in Sems \ {s} : sem'[x] = sem[x]
    BY <2>1 DEF ShapeOK
  <2>3. ShapeOK'
    BY <1>1, <2>1 DEF ShapeOK
  <2>4. CallsOK'
    BY <2>1 DEF ShapeOK, CallsOK
  <2> QED
    BY <1>1, <2>1, <2>2, <2>3, <2>4 DEF ShapeOK
<1>3. CASE ~ sem[s].count > 0
  <2>1. sem' = sem /\ call' = [call EXCEPT ![t] = [at |-> "lock", of |-> s]]
    BY <1>3 DEF Takes, Take
  <2>2. ShapeOK'
    BY <1>1, <2>1 DEF ShapeOK
  <2>3. CallsOK'
    BY <2>1 DEF ShapeOK, CallsOK
  <2> QED
    BY <1>1, <2>1, <2>2, <2>3 DEF ShapeOK
<1> QED
  BY <1>2, <1>3

LEMMA LockTaken ==
  ASSUME HeldInv, NEW t \in Tasks, NEW from, NEW to,
         <<t, from, to>> \in {<<Audio, "lock", "process">>, <<Bsp, "events", "edit">>,
                              <<Usb, "lock", "play">>},
         Takes(t, from, to, Lock)
  PROVE  HeldInv'
<1> USE Named, TasksDiffer, SemsDiffer DEF HeldInv
<1>1. /\ ShapeOK' /\ CallsOK'
      /\ pc[t] = from /\ pc' = [pc EXCEPT ![t] = to] /\ devices' = devices
      /\ call[t].of = NoSem /\ \A x \in Tasks \ {t} : call'[x] = call[x]
      /\ \A x \in Sems \ {Lock} : sem'[x] = sem[x]
      /\ \/ sem[Lock].count = 1 /\ sem'[Lock].count = 0 /\ call'[t].of = NoSem
         \/ sem' = sem /\ call'[t].of = Lock
  BY TakeChanges
<1>2. WaitersOK'
  BY <1>1 DEF WaitersOK, ShapeOK
<1>3. CreatedOnce'
  BY <1>1 DEF CreatedOnce, ShapeOK, Exists
<1>4. OwnersOK'
  BY <1>1 DEF OwnersOK, LockUsers, SerialUsers, Writes, Has, Num, Exists, ShapeOK
<1> QED
  BY <1>1, <1>2, <1>3, <1>4

LEMMA SerialTaken ==
  ASSUME HeldInv, NEW t \in Tasks, NEW from, NEW to,
         <<t, from, to>> \in {<<App, "hello", "helloSend">>, <<App, "bye", "byeSend">>,
                              <<Test, "write", "send">>, <<Usb, "play", "send">>},
         Takes(t, from, to, Serial)
  PROVE  HeldInv'
<1> USE Named, TasksDiffer, SemsDiffer DEF HeldInv
<1>1. /\ ShapeOK' /\ CallsOK'
      /\ pc[t] = from /\ pc' = [pc EXCEPT ![t] = to] /\ devices' = devices
      /\ call[t].of = NoSem /\ \A x \in Tasks \ {t} : call'[x] = call[x]
      /\ \A x \in Sems \ {Serial} : sem'[x] = sem[x]
      /\ \/ sem[Serial].count = 1 /\ sem'[Serial].count = 0 /\ call'[t].of = NoSem
         \/ sem' = sem /\ call'[t].of = Serial
  BY TakeChanges
<1>2. WaitersOK'
  BY <1>1 DEF WaitersOK, ShapeOK
<1>3. CreatedOnce'
  BY <1>1 DEF CreatedOnce, ShapeOK, Exists
<1>4. OwnersOK'
  BY <1>1 DEF OwnersOK, LockUsers, SerialUsers, Writes, Has, Num, Exists, ShapeOK
<1> QED
  BY <1>1, <1>2, <1>3, <1>4

LEMMA SignalTaken ==
  ASSUME HeldInv, NEW t \in Tasks, NEW s \in Sems, NEW from, NEW to,
         <<t, from, to, s>> \in {<<Audio, "wait", "lock", AudioSem>>,
                              <<Bsp, "wait", "timer", BspSem>>,
                              <<Usb, "wait", "lock", UsbSem>>},
         Takes(t, from, to, s)
  PROVE  HeldInv'
<1> USE Named, TasksDiffer, SemsDiffer DEF HeldInv
<1>1. /\ ShapeOK' /\ CallsOK'
      /\ pc[t] = from /\ pc' = [pc EXCEPT ![t] = to] /\ devices' = devices
      /\ call[t].of = NoSem /\ \A x \in Tasks \ {t} : call'[x] = call[x]
      /\ \A x \in Sems \ {s} : sem'[x] = sem[x]
      /\ call'[t].of \in {NoSem, s}
  BY TakeChanges
<1>2. WaitersOK'
  BY <1>1 DEF WaitersOK, ShapeOK
<1>3. CreatedOnce'
  BY <1>1 DEF CreatedOnce, ShapeOK, Exists
<1>4. OwnersOK'
  BY <1>1 DEF OwnersOK, LockUsers, SerialUsers, Writes, Has, Num, Exists, ShapeOK
<1> QED
  BY <1>1, <1>2, <1>3, <1>4

LEMMA LockGiven ==
  ASSUME HeldInv, NEW t \in Tasks, NEW from, NEW to,
         <<t, from, to>> \in {<<Audio, "process", "wait">>, <<Bsp, "edit", "events">>,
                              <<Usb, "play", "wait">>},
         Gives(t, from, to, Lock)
  PROVE  HeldInv'
<1> USE Named, TasksDiffer, SemsDiffer DEF HeldInv
<1>1. /\ pc[t] = from /\ pc' = [pc EXCEPT ![t] = to]
      /\ call[t].of = NoSem /\ call' = call /\ devices' = devices
      /\ Give(Lock)
  BY DEF Gives, Runs, InNoCall, At, CallsOK
<1>2. sem[Lock].count = 0
  BY <1>1 DEF OwnersOK, LockUsers, Has, Num, Exists, ShapeOK
<1>3. /\ DOMAIN sem' = Sems
      /\ DOMAIN sem'[Lock] = {"count", "waiting", "txLock"}
      /\ sem'[Lock].count = 1
      /\ \A x \in Sems \ {Lock} : sem'[x] = sem[x]
  BY <1>1, <1>2, GiveChanges DEF Exists
<1>4. ShapeOK' /\ CallsOK'
  BY <1>1, <1>3 DEF ShapeOK, CallsOK, Exists
<1>5. WaitersOK'
  BY <1>1 DEF WaitersOK, ShapeOK
<1>6. CreatedOnce'
  BY <1>1, <1>2, <1>3 DEF CreatedOnce, ShapeOK, Exists
<1>7. OwnersOK'
  BY <1>1, <1>2, <1>3 DEF OwnersOK, LockUsers, SerialUsers, Writes, Has, Num, Exists, ShapeOK
<1> QED
  BY <1>4, <1>5, <1>6, <1>7

\* The line is sent by the transfer; it gives the semaphore back.
LEMMA SendingHeld ==
  ASSUME HeldInv, NEW t \in Tasks, NEW from, NEW to,
         <<t, from, to>> \in {<<App, "helloSend", "panel">>, <<App, "byeSend", "delete">>,
                              <<Test, "send", "sleep">>, <<Usb, "send", "play">>},
         Starts(t, from, to, "uart")
  PROVE  HeldInv'
<1> USE Named, TasksDiffer, SemsDiffer DEF HeldInv
<1>1. /\ pc[t] = from /\ pc' = [pc EXCEPT ![t] = to]
      /\ call[t].of = NoSem /\ call' = call /\ sem' = sem
      /\ devices' = devices \cup {"uart"}
  BY DEF Starts, Runs, InNoCall, At, CallsOK, kernelVars
<1>2. ShapeOK' /\ CallsOK' /\ WaitersOK'
  BY <1>1 DEF ShapeOK, CallsOK, WaitersOK, Exists
<1>3. CreatedOnce'
  BY <1>1 DEF CreatedOnce, ShapeOK, Exists
<1>4. "uart" \notin devices
  BY <1>1 DEF OwnersOK, SerialUsers, Writes, Has, Num, Exists, ShapeOK
<1>5. OwnersOK'
  BY <1>1, <1>4 DEF OwnersOK, LockUsers, SerialUsers, Writes, Has, Num, Exists, ShapeOK
<1> QED
  BY <1>2, <1>3, <1>5

\* The labels at which a task waits for one of the two, or has it.
Owning == {"process", "edit", "play", "send", "helloSend", "byeSend"}

\* Any other step of a task from one place to another.
LEMMA MovesHeld ==
  ASSUME HeldInv, ShapeOK', NEW t \in Tasks, NEW from, NEW to, Runs(t, from, to),
         from \notin Owning, to \notin Owning,
         \A x \in Tasks : call'[x].of = call[x].of,
         call'[t].at \notin {"lock", "place", "retry"},
         \A x \in Tasks \ {t} : call'[x] = call[x],
         "uart" \in devices' <=> "uart" \in devices,
         UNCHANGED sem,
         t = App => from \in {"panel", "spawn", "delete"} /\ to \in {"panelSem", "bye", "deleted"},
         t = App /\ to = "panelSem" => from = "panel"
  PROVE  HeldInv'
<1> USE Named, TasksDiffer, SemsDiffer DEF HeldInv
<1>1. pc[t] = from /\ pc' = [pc EXCEPT ![t] = to] /\ call[t].of = NoSem
  BY DEF Runs, InNoCall, At, CallsOK
<1>2. CallsOK'
  BY <1>1 DEF CallsOK, Exists, ShapeOK
<1>3. WaitersOK'
  BY <1>1 DEF WaitersOK, ShapeOK, Owning
<1>4. CreatedOnce'
  BY <1>1 DEF CreatedOnce, ShapeOK, Exists
<1>5. OwnersOK'
  BY <1>1 DEF OwnersOK, LockUsers, SerialUsers, Writes, Has, Num, Exists, ShapeOK, Owning
<1> QED
  BY <1>2, <1>3, <1>4, <1>5

\* Making a semaphore nobody holds.
LEMMA CreatesHeld ==
  ASSUME HeldInv, NEW t \in Tasks, NEW s \in Sems, NEW n \in {0, 1}, NEW from, NEW to,
         <<t, from, to, s, n>> \in
           {<<App, "startIO", "hello", Serial, 1>>, <<App, "lock", "spawn", Lock, 1>>,
            <<App, "panelSem", "lock", BspSem, 0>>, <<Audio, "init", "start", AudioSem, 0>>,
            <<Usb, "init", "wait", UsbSem, 0>>},
         Creates(t, from, to, s, n)
  PROVE  HeldInv'
<1> USE Named, TasksDiffer, SemsDiffer DEF HeldInv
<1>1. /\ pc[t] = from /\ pc' = [pc EXCEPT ![t] = to]
      /\ call[t].of = NoSem /\ call' = call /\ devices' = devices
      /\ sem' = [sem EXCEPT ![s] = Created(n)]
  BY DEF Creates, Runs, InNoCall, At, CallsOK
<1>2. Created(n).count = n /\ DOMAIN Created(n) = {"count", "waiting", "txLock"}
  BY DEF Created, Absent
<1> HIDE DEF Created
<1>3. ShapeOK' /\ CallsOK'
  BY <1>1, <1>2 DEF ShapeOK, CallsOK, Exists
<1>4. WaitersOK'
  BY <1>1 DEF WaitersOK, ShapeOK
<1>5. CreatedOnce'
  BY <1>1, <1>2 DEF CreatedOnce, ShapeOK, Exists
<1>6. OwnersOK'
  <2>1. LockUsers' = LockUsers /\ SerialUsers' = SerialUsers
    BY <1>1 DEF LockUsers, SerialUsers, Writes, Has, ShapeOK
  <2>2. \/ s = Serial /\ n = 1 /\ sem[s].count = -1
        \/ s = Lock /\ n = 1 /\ sem[s].count = -1
        \/ s \notin {Lock, Serial}
    BY <1>1 DEF CreatedOnce, Exists
  <2>3. sem'[s].count = n /\ \A x \in Sems \ {s} : sem'[x] = sem[x]
    BY <1>1, <1>2 DEF ShapeOK
  <2>4. LockUsers \in Int /\ SerialUsers \in Int
    BY DEF LockUsers, SerialUsers, Num
  <2> HIDE DEF LockUsers, SerialUsers
  <2> QED
    BY <2>1, <2>2, <2>3, <2>4 DEF OwnersOK, Num, Exists
<1> QED
  BY <1>3, <1>4, <1>5, <1>6

LEMMA WorkHeld ==
  ASSUME HeldInv, NEW t \in Tasks, NEW from, NEW to, Runs(t, from, to),
         UNCHANGED <<sem, call>>, "uart" \in devices' <=> "uart" \in devices,
         \/ t = App /\ <<from, to>> \in {<<"panel", "panelSem">>, <<"spawn", "bye">>}
         \/ t # App /\ from \notin Owning /\ to \notin Owning
  PROVE  HeldInv'
<1>1. ShapeOK'
  BY DEF HeldInv, ShapeOK, Runs
<1>2. call[t].at = "none"
  BY DEF Runs, InNoCall, At
<1>3. from \notin Owning /\ to \notin Owning
  BY DEF Owning
<1> QED
  BY <1>1, <1>2, <1>3, MovesHeld

LEMMA LeavesHeld ==
  ASSUME HeldInv, NEW t \in Tasks, NEW from, NEW to, Runs(t, from, to),
         Moves(t, "resume") \/ Moves(t, "yield"), UNCHANGED <<sem, devices>>,
         \/ t = App /\ from = "delete" /\ to = "deleted"
         \/ t # App /\ from \notin Owning /\ to \notin Owning
  PROVE  HeldInv'
<1>1. ShapeOK'
  BY DEF HeldInv, ShapeOK, Runs, Moves
<1>2. /\ \A x \in Tasks : call'[x].of = call[x].of
      /\ call'[t].at \notin {"lock", "place", "retry"}
      /\ \A x \in Tasks \ {t} : call'[x] = call[x]
  BY DEF HeldInv, ShapeOK, Moves
<1>3. from \notin Owning /\ to \notin Owning
  BY DEF Owning
<1> QED
  BY <1>1, <1>2, <1>3, MovesHeld

LEMMA AppHeld == ASSUME HeldInv, AppMain PROVE HeldInv'
<1>1. CASE Starts(App, "panel", "panelSem", "spi")
  <2>1. /\ Runs(App, "panel", "panelSem") /\ UNCHANGED <<sem, call>>
        /\ devices' = devices \cup {"spi"}
    BY <1>1 DEF Starts, kernelVars
  <2>2. "uart" \in devices' <=> "uart" \in devices
    BY <2>1
  <2> QED
    BY <2>1, <2>2, Named, WorkHeld
<1>2. CASE Runs(App, "spawn", "bye") /\ UNCHANGED <<sem, call, devices>>
  BY <1>2, Named, WorkHeld
<1>3. CASE Runs(App, "delete", "deleted") /\ Delete(App) /\ UNCHANGED devices
  BY <1>3, Named, LeavesHeld DEF Delete
<1>4. CASE \/ Creates(App, "startIO", "hello", Serial, 1)
           \/ Creates(App, "lock", "spawn", Lock, 1)
           \/ Creates(App, "panelSem", "lock", BspSem, 0)
  BY <1>4, Named, CreatesHeld
<1>5. CASE \/ Takes(App, "hello", "helloSend", Serial)
           \/ Takes(App, "bye", "byeSend", Serial)
  BY <1>5, Named, SerialTaken
<1>6. CASE \/ Starts(App, "helloSend", "panel", "uart")
           \/ Starts(App, "byeSend", "delete", "uart")
  BY <1>6, Named, SendingHeld
<1> QED
  BY <1>1, <1>2, <1>3, <1>4, <1>5, <1>6 DEF AppMain

LEMMA AudioHeld == ASSUME HeldInv, AudioTask PROVE HeldInv'
<1> USE Named, TasksDiffer DEF Owning
<1>1. CASE Starts(Audio, "start", "bassInit", "i2s")
  <2>1. /\ Runs(Audio, "start", "bassInit") /\ UNCHANGED <<sem, call>>
        /\ devices' = devices \cup {"i2s"}
    BY <1>1 DEF Starts, kernelVars
  <2>2. "uart" \in devices' <=> "uart" \in devices
    BY <2>1
  <2> QED
    BY <2>1, <2>2, WorkHeld
<1>2. CASE Runs(Audio, "bassInit", "wait") /\ UNCHANGED <<kernelVars, devices>>
  BY <1>2, WorkHeld DEF kernelVars
<1>3. CASE Creates(Audio, "init", "start", AudioSem, 0)
  BY <1>3, CreatesHeld
<1>4. CASE Takes(Audio, "wait", "lock", AudioSem)
  BY <1>4, SignalTaken
<1>5. CASE Takes(Audio, "lock", "process", Lock) \/ Gives(Audio, "process", "wait", Lock)
  BY <1>5, LockTaken, LockGiven
<1> QED
  BY <1>1, <1>2, <1>3, <1>4, <1>5 DEF AudioTask

LEMMA TestHeld == ASSUME HeldInv, TestTask PROVE HeldInv'
<1> USE Named, TasksDiffer DEF Owning
<1>1. CASE Runs(Test, "sleep", "write") /\ Delay(Test, TestDelay) /\ UNCHANGED devices
  BY <1>1, LeavesHeld DEF Delay
<1> QED
  BY <1>1, SerialTaken, SendingHeld DEF TestTask

LEMMA BspHeld == ASSUME HeldInv, BspTask PROVE HeldInv'
<1> USE Named, TasksDiffer DEF Owning
<1>1. CASE Runs(Bsp, "oled", "oled") /\ Delay(Bsp, OledDelay) /\ UNCHANGED devices
  BY <1>1, LeavesHeld DEF Delay
<1>2. CASE \/ Works(Bsp, "oled", "guiInit") \/ Works(Bsp, "guiInit", "wait")
           \/ Works(Bsp, "events", "wait")
  BY <1>2, WorkHeld DEF Works, kernelVars
<1>3. CASE Runs(Bsp, "timer", "events") /\ UNCHANGED <<sem, call, devices>>
  BY <1>3, WorkHeld
<1> QED
  BY <1>1, <1>2, <1>3, SignalTaken, LockTaken, LockGiven DEF BspTask

LEMMA UsbHeld == ASSUME HeldInv, UsbTask PROVE HeldInv'
<1> USE Named
<1>1. CASE Creates(Usb, "init", "wait", UsbSem, 0)
  BY <1>1, CreatesHeld
<1>2. CASE Takes(Usb, "wait", "lock", UsbSem)
  BY <1>2, SignalTaken
<1>3. CASE Takes(Usb, "lock", "play", Lock)
  BY <1>3, LockTaken
<1>4. CASE Takes(Usb, "play", "send", Serial)
  BY <1>4, SerialTaken
<1>5. CASE Starts(Usb, "send", "play", "uart")
  BY <1>5, SendingHeld
<1>6. CASE Gives(Usb, "play", "wait", Lock)
  BY <1>6, LockGiven
<1> QED
  BY <1>1, <1>2, <1>3, <1>4, <1>5, <1>6 DEF UsbTask

LEMMA HeldStep == HeldInv /\ [FirmwareNext]_firmwareVars => HeldInv'
<1> SUFFICES ASSUME HeldInv, [FirmwareNext]_firmwareVars PROVE HeldInv'
  OBVIOUS
<1>1. CASE UNCHANGED firmwareVars
  BY <1>1, UntouchedHeld DEF firmwareVars, kernelVars
<1>2. CASE Cpu
  BY <1>2, AppHeld, AudioHeld, TestHeld, BspHeld, UsbHeld, InterruptHeld, KernelHeld DEF Cpu
<1>3. CASE Interrupt
  BY <1>3, InterruptHeld
<1>4. CASE SysTick
  BY <1>4, KernelHeld DEF SysTick
<1> QED
  BY <1>1, <1>2, <1>3, <1>4 DEF FirmwareNext

-----------------------------------------------------------------------------
\* At most one of the users of a semaphore has it.
LEMMA OneInside == HeldInv => Cardinality(Inside) = LockUsers
<1> SUFFICES ASSUME HeldInv PROVE Cardinality(Inside) = LockUsers
  OBVIOUS
<1> DEFINE A == Has(Audio, {"process"}, Lock)
           B == Has(Bsp, {"edit"}, Lock)
           U == Has(Usb, {"play", "send"}, Lock)
<1>1. \A t : t \in Inside <=>
        \/ t = Audio /\ A
        \/ t = Bsp /\ B
        \/ t = Usb /\ U
  BY TasksDiffer DEF Inside
<1>2. LockUsers = Num(A) + Num(B) + Num(U) /\ LockUsers \in {0, 1}
  BY Named DEF LockUsers, HeldInv, OwnersOK, ShapeOK, Exists, Num
<1> HIDE DEF A, B, U
<1>3. \/ ~ A /\ ~ B /\ ~ U /\ LockUsers = 0
      \/ A /\ ~ B /\ ~ U /\ LockUsers = 1
      \/ ~ A /\ B /\ ~ U /\ LockUsers = 1
      \/ ~ A /\ ~ B /\ U /\ LockUsers = 1
  BY <1>2 DEF Num
<1>4. \/ Inside = {} /\ LockUsers = 0
      \/ \E t : Inside = {t} /\ LockUsers = 1
  BY <1>1, <1>3
<1> QED
  BY <1>4, FS_EmptySet, FS_Singleton

LEMMA OneWriter ==
  HeldInv => /\ Cardinality(Writers) \in {0, 1}
             /\ Cardinality(Writers) + Num("uart" \in devices) = SerialUsers
<1> SUFFICES ASSUME HeldInv
             PROVE  /\ Cardinality(Writers) \in {0, 1}
                    /\ Cardinality(Writers) + Num("uart" \in devices) = SerialUsers
  OBVIOUS
<1> DEFINE N == Num(Writes(App)) + Num(Writes(Test)) + Num(Writes(Usb))
<1>1. \A t : t \in Writers <=> t \in {App, Test, Usb} /\ Writes(t)
  BY DEF Writers, Writes
<1>2. SerialUsers = N + Num("uart" \in devices) /\ SerialUsers \in {0, 1}
  BY Named DEF SerialUsers, HeldInv, OwnersOK, ShapeOK, Exists, Num
<1>3. N \in {0, 1}
  BY <1>2 DEF Num
<1>4. \/ Writers = {} /\ N = 0
      \/ \E t : Writers = {t} /\ N = 1
  BY <1>1, <1>3, TasksDiffer DEF Num
<1>5. Cardinality(Writers) = N
  BY <1>4, FS_EmptySet, FS_Singleton
<1> QED
  BY <1>2, <1>3, <1>5

\* While a task is in a section of the lock no other is, and the lock is free
\* when none is; so with the serial line and its transfer.
THEOREM HeldOnceHolds == FirmwareSpec => []HeldOnce
<1>1. HeldInv => HeldOnce
  <2> SUFFICES ASSUME HeldInv PROVE HeldOnce
    OBVIOUS
  <2>1. \A s \in {Lock, Serial} : sem[s].count = -1 => sem[s] = Absent
    BY DEF HeldInv, CreatedOnce, Exists
  <2>2. /\ sem[Lock].count # -1 => LockUsers + sem[Lock].count = 1
        /\ sem[Serial].count # -1 => SerialUsers + sem[Serial].count = 1
    BY DEF HeldInv, OwnersOK, Num, Exists
  <2>3. /\ Cardinality(Inside) = LockUsers
        /\ Cardinality(Writers) \in {0, 1}
        /\ Cardinality(Writers) + (IF "uart" \in devices THEN 1 ELSE 0) = SerialUsers
    BY OneInside, OneWriter DEF Num
  <2>4. sem[Lock].count \in {-1, 0, 1} /\ sem[Serial].count \in {-1, 0, 1}
    BY Named DEF HeldInv, ShapeOK
  <2> QED
    BY <2>1, <2>2, <2>3, <2>4 DEF HeldOnce
<1> QED
  BY <1>1, HeldInit, HeldStep, PTL DEF FirmwareSpec

-----------------------------------------------------------------------------
(***************************************************************************)
(* Lists without double entries, and what the operations of the kernel make*)
(* of them.                                                                *)
(***************************************************************************)

\* A list of entries of S, none of them twice.
ListOf(S, list) == list \in Seq(S) /\ IsInjective(list)

\* ToSet and IsInjective, by position.
LEMMA Entries ==
  ASSUME NEW S, NEW list \in Seq(S)
  PROVE  /\ DOMAIN list = 1 .. Len(list) /\ Len(list) \in Nat
         /\ \A x : x \in ToSet(list) <=> \E i \in 1 .. Len(list) : list[i] = x
         /\ ToSet(list) \subseteq S
         /\ IsInjective(list) <=>
              \A i, j \in 1 .. Len(list) : list[i] = list[j] => i = j
BY DEF ToSet, IsInjective

\* Two lists with no entry in common, one behind the other.
LEMMA Joined ==
  ASSUME NEW S, NEW a, NEW b, ListOf(S, a), ListOf(S, b),
         \A x \in ToSet(a) : x \notin ToSet(b)
  PROVE  /\ ListOf(S, a \o b)
         /\ \A x : x \in ToSet(a \o b) <=> x \in ToSet(a) \/ x \in ToSet(b)
<1> DEFINE c == a \o b
<1>1. a \in Seq(S) /\ b \in Seq(S) /\ c \in Seq(S)
  BY DEF ListOf
<1>2. /\ Len(c) = Len(a) + Len(b)
      /\ \A i \in 1 .. Len(a) + Len(b) : c[i] = IF i <= Len(a) THEN a[i] ELSE b[i - Len(a)]
  BY <1>1
<1> HIDE DEF c
<1>3. \A x : x \in ToSet(c) <=> x \in ToSet(a) \/ x \in ToSet(b)
  <2> SUFFICES ASSUME NEW x PROVE x \in ToSet(c) <=> x \in ToSet(a) \/ x \in ToSet(b)
    OBVIOUS
  <2>1. ASSUME NEW i \in 1 .. Len(c), c[i] = x
        PROVE  x \in ToSet(a) \/ x \in ToSet(b)
    <3>1. Len(a) \in Nat /\ Len(b) \in Nat
      BY <1>1
    <3>2. CASE i <= Len(a)
      <4>1. i \in 1 .. Len(a) /\ a[i] = x
        BY <1>2, <2>1, <3>1, <3>2
      <4> QED
        BY <1>1, <4>1, Entries
    <3>3. CASE ~ i <= Len(a)
      <4>1. i - Len(a) \in 1 .. Len(b) /\ b[i - Len(a)] = x
        BY <1>2, <2>1, <3>1, <3>3
      <4> QED
        BY <1>1, <4>1, Entries
    <3> QED
      BY <3>2, <3>3
  <2>2. ASSUME NEW i \in 1 .. Len(a), a[i] = x
        PROVE  x \in ToSet(c)
    <3>1. i \in 1 .. Len(c) /\ c[i] = x
      BY <1>1, <1>2, <2>2, Entries
    <3> QED
      BY <1>1, <3>1, Entries
  <2>3. ASSUME NEW i \in 1 .. Len(b), b[i] = x
        PROVE  x \in ToSet(c)
    <3>1. Len(a) \in Nat /\ Len(b) \in Nat
      BY <1>1
    <3>2. /\ i + Len(a) \in 1 .. Len(a) + Len(b)
          /\ ~ i + Len(a) <= Len(a) /\ (i + Len(a)) - Len(a) = i
      BY <3>1
    <3>3. c[i + Len(a)] = x
      BY <1>2, <2>3, <3>2
    <3> QED
      BY <1>1, <1>2, <3>2, <3>3, Entries
  <2> QED
    BY <1>1, <2>1, <2>2, <2>3, Entries
<1>4. ASSUME NEW i \in 1 .. Len(c), NEW j \in 1 .. Len(c), c[i] = c[j]
      PROVE  i = j
  <2>1. Len(a) \in Nat /\ Len(b) \in Nat
    BY <1>1
  <2>2. /\ \A k, l \in 1 .. Len(a) : a[k] = a[l] => k = l
        /\ \A k, l \in 1 .. Len(b) : b[k] = b[l] => k = l
    BY <1>1, Entries DEF ListOf
  <2>3. \A k \in 1 .. Len(a), l \in 1 .. Len(b) : a[k] # b[l]
    BY <1>1, Entries
  <2>4. CASE i <= Len(a) /\ j <= Len(a)
    BY <1>2, <1>4, <2>1, <2>2, <2>4
  <2>5. CASE ~ i <= Len(a) /\ ~ j <= Len(a)
    <3>1. i - Len(a) \in 1 .. Len(b) /\ j - Len(a) \in 1 .. Len(b)
      BY <1>2, <2>1, <2>5
    <3>2. b[i - Len(a)] = b[j - Len(a)]
      BY <1>2, <1>4, <2>5
    <3> QED
      BY <2>1, <2>2, <3>1, <3>2
  <2>6. CASE i <= Len(a) /\ ~ j <= Len(a)
    <3>1. i \in 1 .. Len(a) /\ j - Len(a) \in 1 .. Len(b)
      BY <1>2, <2>1, <2>6
    <3> QED
      BY <1>2, <1>4, <2>3, <2>6, <3>1
  <2>7. CASE ~ i <= Len(a) /\ j <= Len(a)
    <3>1. j \in 1 .. Len(a) /\ i - Len(a) \in 1 .. Len(b)
      BY <1>2, <2>1, <2>7
    <3> QED
      BY <1>2, <1>4, <2>3, <2>7, <3>1
  <2> QED
    BY <2>4, <2>5, <2>6, <2>7
<1>5. IsInjective(c)
  BY <1>1, <1>4, Entries
<1> QED
  BY <1>1, <1>3, <1>5 DEF ListOf, c

\* A list of one entry.
LEMMA Single ==
  ASSUME NEW S, NEW x \in S
  PROVE  ListOf(S, <<x>>) /\ \A y : y \in ToSet(<<x>>) <=> y = x
<1>1. <<x>> \in Seq(S) /\ Len(<<x>>) = 1 /\ <<x>>[1] = x
  OBVIOUS
<1>2. \A i \in 1 .. 1 : i = 1
  OBVIOUS
<1> DEFINE a == <<x>>
<1>3. a \in Seq(S) /\ Len(a) = 1 /\ a[1] = x
  BY <1>1
<1> HIDE DEF a
<1>4. IsInjective(a) /\ \A y : y \in ToSet(a) <=> y = x
  BY <1>2, <1>3, Entries
<1>5. ListOf(S, a) /\ \A y : y \in ToSet(a) <=> y = x
  BY <1>3, <1>4 DEF ListOf
<1> QED
  BY <1>5 DEF a

LEMMA Empty ==
  ASSUME NEW S
  PROVE  ListOf(S, <<>>) /\ \A x : x \notin ToSet(<<>>)
<1>1. <<>> \in Seq(S) /\ Len(<<>>) = 0
  OBVIOUS
<1>2. \A i \in 1 .. 0 : FALSE
  OBVIOUS
<1> DEFINE a == <<>>
<1>3. a \in Seq(S) /\ Len(a) = 0
  BY <1>1
<1> HIDE DEF a
<1>4. IsInjective(a) /\ \A x : x \notin ToSet(a)
  BY <1>2, <1>3, Entries
<1>5. ListOf(S, a) /\ \A x : x \notin ToSet(a)
  BY <1>3, <1>4 DEF ListOf
<1> QED
  BY <1>5 DEF a

\* An entry more.
LEMMA Appended ==
  ASSUME NEW S, NEW a, ListOf(S, a), NEW x \in S, x \notin ToSet(a)
  PROVE  /\ ListOf(S, Append(a, x))
         /\ \A y : y \in ToSet(Append(a, x)) <=> y \in ToSet(a) \/ y = x
<1>1. a \in Seq(S)
  BY DEF ListOf
<1>2. Append(a, x) = a \o <<x>>
  BY <1>1
<1> DEFINE b == <<x>>
<1>3. ListOf(S, b) /\ \A y : y \in ToSet(b) <=> y = x
  BY Single
<1> HIDE DEF b
<1>4. /\ ListOf(S, a \o b)
      /\ \A y : y \in ToSet(a \o b) <=> y \in ToSet(a) \/ y \in ToSet(b)
  <2>1. \A z \in ToSet(a) : z \notin ToSet(b)
    BY <1>3
  <2> QED
    BY <1>3, <2>1, Joined
<1> QED
  BY <1>2, <1>3, <1>4 DEF b

\* A list is cut in two.
LEMMA Cut ==
  ASSUME NEW S, NEW a, ListOf(S, a), NEW n \in 0 .. Len(a), NEW m, m = n + 1
  PROVE  /\ ListOf(S, SubSeq(a, 1, n)) /\ ListOf(S, SubSeq(a, m, Len(a)))
         /\ Len(SubSeq(a, 1, n)) = n /\ Len(SubSeq(a, m, Len(a))) = Len(a) - n
         /\ \A i \in 1 .. n : SubSeq(a, 1, n)[i] = a[i]
         /\ \A i \in 1 .. Len(a) - n : SubSeq(a, m, Len(a))[i] = a[n + i]
         /\ \A x : x \in ToSet(a) <=>
                   x \in ToSet(SubSeq(a, 1, n)) \/ x \in ToSet(SubSeq(a, m, Len(a)))
         /\ \A x \in ToSet(SubSeq(a, 1, n)) : x \notin ToSet(SubSeq(a, m, Len(a)))
<1> DEFINE u == SubSeq(a, 1, n)
           v == SubSeq(a, m, Len(a))
<1>1. a \in Seq(S) /\ Len(a) \in Nat /\ n \in Nat /\ n <= Len(a)
  BY DEF ListOf
<1>2. u \in Seq(S) /\ v \in Seq(S) /\ Len(u) = n /\ Len(v) = Len(a) - n
  BY <1>1
<1>3. /\ \A i \in 1 .. n : u[i] = a[i]
      /\ \A i \in 1 .. Len(a) - n : v[i] = a[n + i]
  BY <1>1
<1>4. \A i, j \in 1 .. Len(a) : a[i] = a[j] => i = j
  BY <1>1, Entries DEF ListOf
<1> HIDE DEF u, v
<1>5. IsInjective(u)
  BY <1>1, <1>2, <1>3, <1>4, Entries
<1>6. IsInjective(v)
  <2>1. ASSUME NEW i \in 1 .. Len(v), NEW j \in 1 .. Len(v), v[i] = v[j]
        PROVE  i = j
    <3>1. n + i \in 1 .. Len(a) /\ n + j \in 1 .. Len(a)
      BY <1>1, <1>2
    <3>2. a[n + i] = a[n + j]
      BY <1>2, <1>3, <2>1
    <3> QED
      BY <1>1, <1>4, <3>1, <3>2
  <2> QED
    BY <1>2, <2>1, Entries
<1>7. \A x : x \in ToSet(a) => x \in ToSet(u) \/ x \in ToSet(v)
  <2> SUFFICES ASSUME NEW i \in 1 .. Len(a)
               PROVE  a[i] \in ToSet(u) \/ a[i] \in ToSet(v)
    BY <1>1, Entries
  <2>1. CASE i <= n
    <3>1. i \in 1 .. Len(u) /\ u[i] = a[i]
      BY <1>1, <1>2, <1>3, <2>1
    <3> QED
      BY <1>2, <3>1, Entries
  <2>2. CASE ~ i <= n
    <3>1. i - n \in 1 .. Len(v) /\ v[i - n] = a[n + (i - n)]
      BY <1>1, <1>2, <1>3, <2>2
    <3>2. n + (i - n) = i
      BY <1>1
    <3> QED
      BY <1>2, <3>1, <3>2, Entries
  <2> QED
    BY <2>1, <2>2
<1>8. ASSUME NEW x, x \in ToSet(u) PROVE x \in ToSet(a) /\ x \notin ToSet(v)
  <2>1. PICK i \in 1 .. n : a[i] = x
    BY <1>2, <1>3, <1>8, Entries
  <2>2. x \in ToSet(a)
    BY <1>1, <2>1, Entries
  <2>3. ASSUME NEW j \in 1 .. Len(v), v[j] = x PROVE FALSE
    <3>1. n + j \in 1 .. Len(a) /\ a[n + j] = x /\ i \in 1 .. Len(a) /\ i # n + j
      BY <1>1, <1>2, <1>3, <2>3
    <3> QED
      BY <1>4, <2>1, <3>1
  <2> QED
    BY <1>2, <2>2, <2>3, Entries
<1>9. ASSUME NEW x, x \in ToSet(v) PROVE x \in ToSet(a)
  <2>1. PICK j \in 1 .. Len(v) : v[j] = x
    BY <1>2, <1>9, Entries
  <2>2. n + j \in 1 .. Len(a) /\ a[n + j] = x
    BY <1>1, <1>2, <1>3, <2>1
  <2> QED
    BY <1>1, <2>2, Entries
<1>10. \A x : x \in ToSet(a) <=> x \in ToSet(u) \/ x \in ToSet(v)
  BY <1>7, <1>8, <1>9
<1>11. \A x \in ToSet(u) : x \notin ToSet(v)
  BY <1>8
<1>12. ListOf(S, u) /\ ListOf(S, v)
  BY <1>2, <1>5, <1>6 DEF ListOf
<1> QED
  BY <1>2, <1>3, <1>10, <1>11, <1>12 DEF u, v

\* The first entry and the others.
LEMMA HeadTail ==
  ASSUME NEW S, NEW a, ListOf(S, a), a # <<>>
  PROVE  /\ Head(a) \in S /\ Head(a) \in ToSet(a)
         /\ ListOf(S, Tail(a))
         /\ \A x : x \in ToSet(Tail(a)) <=> x \in ToSet(a) /\ x # Head(a)
<1>1. a \in Seq(S) /\ Len(a) \in Nat /\ Len(a) >= 1 /\ Head(a) = a[1]
  BY DEF ListOf
<1> DEFINE b == Tail(a)
<1>2. /\ b \in Seq(S) /\ Len(b) = Len(a) - 1
      /\ \A i \in 1 .. Len(a) - 1 : b[i] = a[i + 1]
  BY <1>1
<1>3. \A i, j \in 1 .. Len(a) : a[i] = a[j] => i = j
  BY <1>1, Entries DEF ListOf
<1> HIDE DEF b
<1>4. IsInjective(b)
  <2>1. ASSUME NEW i \in 1 .. Len(b), NEW j \in 1 .. Len(b), b[i] = b[j]
        PROVE  i = j
    <3>1. i + 1 \in 1 .. Len(a) /\ j + 1 \in 1 .. Len(a)
      BY <1>1, <1>2
    <3>2. a[i + 1] = a[j + 1]
      BY <1>2, <2>1
    <3> QED
      BY <1>1, <1>3, <3>1, <3>2
  <2> QED
    BY <1>2, <2>1, Entries
<1>5. 1 \in 1 .. Len(a) /\ a[1] \in S /\ a[1] \in ToSet(a)
  <2>1. 1 \in 1 .. Len(a)
    BY <1>1
  <2> QED
    BY <1>1, <2>1, Entries
<1>6. ASSUME NEW x, x \in ToSet(b) PROVE x \in ToSet(a) /\ x # a[1]
  <2>1. PICK j \in 1 .. Len(b) : b[j] = x
    BY <1>2, <1>6, Entries
  <2>2. j + 1 \in 1 .. Len(a) /\ a[j + 1] = x /\ j + 1 # 1
    BY <1>1, <1>2, <2>1
  <2> QED
    BY <1>1, <1>3, <1>5, <2>2, Entries
<1>7. ASSUME NEW x, x \in ToSet(a), x # a[1] PROVE x \in ToSet(b)
  <2>1. PICK j \in 1 .. Len(a) : a[j] = x
    BY <1>1, <1>7, Entries
  <2>2. j - 1 \in 1 .. Len(b) /\ b[j - 1] = a[(j - 1) + 1] /\ (j - 1) + 1 = j
    BY <1>1, <1>2, <1>7, <2>1
  <2> QED
    BY <1>2, <2>1, <2>2, Entries
<1>8. \A x : x \in ToSet(b) <=> x \in ToSet(a) /\ x # a[1]
  BY <1>6, <1>7
<1>9. ListOf(S, b)
  BY <1>2, <1>4 DEF ListOf
<1> QED
  BY <1>1, <1>5, <1>8, <1>9 DEF b

\* Rotate leaves the entries as they are.
LEMMA Rotated ==
  ASSUME NEW S, NEW a, ListOf(S, a), a # <<>>
  PROVE  /\ ListOf(S, Rotate(a)) /\ Rotate(a) # <<>>
         /\ \A x : x \in ToSet(Rotate(a)) <=> x \in ToSet(a)
<1> DEFINE b == Tail(a)
           h == Head(a)
<1>1. /\ h \in S /\ h \in ToSet(a) /\ ListOf(S, b)
      /\ \A x : x \in ToSet(b) <=> x \in ToSet(a) /\ x # h
  BY HeadTail
<1> HIDE DEF b, h
<1>2. ListOf(S, Append(b, h)) /\ \A x : x \in ToSet(Append(b, h)) <=> x \in ToSet(b) \/ x = h
  BY <1>1, Appended
<1>3. Append(b, h) # <<>>
  BY <1>1 DEF ListOf
<1> QED
  BY <1>1, <1>2, <1>3 DEF b, h, Rotate

\* Entry i taken out.
LEMMA TakenOut ==
  ASSUME NEW S, NEW a, ListOf(S, a), NEW i \in 1 .. Len(a)
  PROVE  /\ ListOf(S, RemoveAt(a, i))
         /\ \A x : x \in ToSet(RemoveAt(a, i)) <=> x \in ToSet(a) /\ x # a[i]
<1> DEFINE u == SubSeq(a, 1, i - 1)
           v == SubSeq(a, i, Len(a))
<1>1. a \in Seq(S) /\ Len(a) \in Nat
  BY DEF ListOf
<1>2. /\ ListOf(S, u) /\ ListOf(S, v) /\ Len(v) = Len(a) - (i - 1)
      /\ \A x : x \in ToSet(a) <=> x \in ToSet(u) \/ x \in ToSet(v)
      /\ \A x \in ToSet(u) : x \notin ToSet(v)
      /\ \A j \in 1 .. Len(a) - (i - 1) : v[j] = a[(i - 1) + j]
  <2>1. i - 1 \in 0 .. Len(a) /\ i = (i - 1) + 1
    BY <1>1
  <2> QED
    BY <2>1, Cut
<1>3. v # <<>> /\ Head(v) = a[i] /\ Tail(v) = SubSeq(a, i + 1, Len(a))
  <2>1. v # <<>> /\ Head(v) = a[i]
    <3>1. v \in Seq(S) /\ Len(v) >= 1 /\ 1 \in 1 .. Len(a) - (i - 1)
      BY <1>1, <1>2 DEF ListOf
    <3>2. v[1] = a[(i - 1) + 1] /\ (i - 1) + 1 = i
      BY <1>1, <1>2, <3>1
    <3> HIDE DEF v
    <3> QED
      BY <3>1, <3>2
  <2>2. Tail(v) = SubSeq(a, i + 1, Len(a))
    BY <1>1
  <2> QED
    BY <2>1, <2>2
<1> HIDE DEF u, v
<1>4. /\ ListOf(S, Tail(v)) /\ a[i] \in ToSet(v)
      /\ \A x : x \in ToSet(Tail(v)) <=> x \in ToSet(v) /\ x # a[i]
  BY <1>2, <1>3, HeadTail
<1> DEFINE w == Tail(v)
<1>5. RemoveAt(a, i) = u \o w
  BY <1>3 DEF RemoveAt, u
<1> HIDE DEF w
<1>6. ListOf(S, w) /\ \A x : x \in ToSet(w) <=> x \in ToSet(v) /\ x # a[i]
  BY <1>4 DEF w
<1>7. ListOf(S, u \o w) /\ \A x : x \in ToSet(u \o w) <=> x \in ToSet(u) \/ x \in ToSet(w)
  <2>1. \A x \in ToSet(u) : x \notin ToSet(w)
    BY <1>2, <1>6
  <2> QED
    BY <1>2, <1>6, <2>1, Joined
<1> QED
  BY <1>2, <1>4, <1>5, <1>6, <1>7

\* The first position of an entry, as RemoveFirst looks for it.
LEMMA FirstPosition ==
  ASSUME NEW S, NEW a \in Seq(S), NEW Q, Q \subseteq 1 .. Len(a), Q # {}
  PROVE  Min(Q) \in Q /\ Min(Q) \in 1 .. Len(a) /\ \A i \in Q : Min(Q) <= i
<1>1. Q \subseteq Nat
  BY DEF ListOf
<1> QED
  BY <1>1, LeastExists DEF Min

\* RemoveFirst takes an entry out of a list that has it.
LEMMA Without ==
  ASSUME NEW S, NEW a, ListOf(S, a), NEW x
  PROVE  /\ ListOf(S, RemoveFirst(a, x))
         /\ \A y : y \in ToSet(RemoveFirst(a, x)) <=> y \in ToSet(a) /\ y # x
         /\ x \notin ToSet(a) => RemoveFirst(a, x) = a
<1> DEFINE Q == {i \in 1 .. Len(a) : a[i] = x}
<1>1. a \in Seq(S)
  BY DEF ListOf
<1>2. x \in ToSet(a) <=> Q # {}
  BY <1>1, Entries
<1>3. CASE Q = {}
  <2>1. ~ \E i \in 1 .. Len(a) : a[i] = x
    BY <1>3
  <2>2. RemoveFirst(a, x) = a
    BY <2>1, Zenon DEF RemoveFirst
  <2> QED
    BY <1>2, <1>3, <2>2
<1>4. CASE Q # {}
  <2>1. \E i \in 1 .. Len(a) : a[i] = x
    BY <1>4
  <2>2. SelectInSeq(a, LAMBDA v : v = x) = Min(Q)
    BY <1>4, Zenon DEF SelectInSeq
  <2>3. RemoveFirst(a, x) = RemoveAt(a, Min(Q))
    BY <2>1, <2>2, Zenon DEF RemoveFirst
  <2> DEFINE i == Min(Q)
  <2>4. i \in 1 .. Len(a) /\ a[i] = x
    <3>1. Q \subseteq 1 .. Len(a)
      OBVIOUS
    <3>2. Min(Q) \in Q
      BY <1>1, <1>4, <3>1, FirstPosition
    <3> QED
      BY <3>2
  <2> HIDE DEF i
  <2>5. ListOf(S, RemoveAt(a, i)) /\ \A y : y \in ToSet(RemoveAt(a, i)) <=> y \in ToSet(a) /\ y # x
    BY <2>4, TakenOut
  <2> QED
    BY <1>2, <1>4, <2>3, <2>5 DEF i
<1> QED
  BY <1>3, <1>4

\* So does uxListRemove, if the list has another entry.
LEMMA Removed ==
  ASSUME NEW S, NEW a, ListOf(S, a), NEW x \in ToSet(a), NEW y \in ToSet(a), y # x
  PROVE  /\ ListOf(S, ListRemove(a, x))
         /\ \A z : z \in ToSet(ListRemove(a, x)) <=> z \in ToSet(a) /\ z # x
<1>1. a \in Seq(S) /\ Len(a) \in Nat
  BY DEF ListOf
<1>2. Len(a) >= 2
  <2>1. /\ \E i \in 1 .. Len(a) : a[i] = x
        /\ \E i \in 1 .. Len(a) : a[i] = y
    BY <1>1, Entries
  <2> QED
    BY <1>1, <2>1
<1>3. CASE Head(a) = x
  <2> DEFINE n == Len(a) - 1
             u == SubSeq(a, 1, n)
             v == SubSeq(a, n + 1, Len(a))
             l == a[Len(a)]
  <2>1. n \in 0 .. Len(a) /\ Len(a) = n + 1
    BY <1>1, <1>2
  <2>2. /\ ListOf(S, u) /\ ListOf(S, v) /\ Len(u) = n /\ Len(v) = Len(a) - n
        /\ \A i \in 1 .. n : u[i] = a[i]
        /\ \A i \in 1 .. Len(a) - n : v[i] = a[n + i]
        /\ \A z : z \in ToSet(a) <=> z \in ToSet(u) \/ z \in ToSet(v)
        /\ \A z \in ToSet(u) : z \notin ToSet(v)
    <3>1. n \in 0 .. Len(a) /\ n + 1 = n + 1
      BY <2>1
    <3> HIDE DEF n
    <3> QED
      BY <3>1, Cut
  <2>3. v = <<l>> /\ l \in S
    <3>1. v \in Seq(S) /\ Len(v) = 1 /\ Len(a) \in 1 .. Len(a) /\ l \in S
      BY <1>1, <1>2, <2>1, <2>2 DEF ListOf
    <3>2. v[1] = l
      BY <1>1, <2>1, <2>2
    <3> HIDE DEF v
    <3> QED
      BY <3>1, <3>2
  <2>4. \A z : z \in ToSet(v) <=> z = l
    BY <2>3, Single
  <2>5. u # <<>> /\ Head(u) = x /\ Tail(u) = SubSeq(a, 2, Len(a) - 1)
    <3>1. u # <<>> /\ Head(u) = x
      <4>1. u \in Seq(S) /\ Len(u) >= 1 /\ u[1] = a[1]
        BY <1>1, <1>2, <2>2 DEF ListOf
      <4>2. a[1] = x
        BY <1>1, <1>2, <1>3
      <4> HIDE DEF u
      <4> QED
        BY <4>1, <4>2
    <3>2. Tail(u) = SubSeq(a, 2, Len(a) - 1)
      BY <1>1, <1>2
    <3> QED
      BY <3>1, <3>2
  <2>6. ListRemove(a, x) = <<l>> \o Tail(u)
    BY <1>3, <2>5 DEF ListRemove
  <2> HIDE DEF u, v, l, n
  <2>7. /\ x \in ToSet(u) /\ ListOf(S, Tail(u))
        /\ \A z : z \in ToSet(Tail(u)) <=> z \in ToSet(u) /\ z # x
    BY <2>2, <2>5, HeadTail
  <2> DEFINE b == <<l>>
             c == Tail(u)
  <2>8. ListOf(S, b) /\ \A z : z \in ToSet(b) <=> z = l
    BY <2>3, Single
  <2>9. /\ ListOf(S, c) /\ ListRemove(a, x) = b \o c
        /\ \A z : z \in ToSet(c) <=> z \in ToSet(u) /\ z # x
    BY <2>6, <2>7
  <2> HIDE DEF b, c
  <2>10. ListOf(S, b \o c) /\ \A z : z \in ToSet(b \o c) <=> z \in ToSet(b) \/ z \in ToSet(c)
    <3>1. \A z \in ToSet(b) : z \notin ToSet(c)
      BY <2>2, <2>4, <2>8, <2>9
    <3> QED
      BY <2>8, <2>9, <3>1, Joined
  <2> QED
    BY <2>2, <2>4, <2>7, <2>8, <2>9, <2>10
<1>4. CASE Head(a) # x
  <2>1. ListRemove(a, x) = RemoveFirst(a, x)
    BY <1>4 DEF ListRemove
  <2> QED
    BY <2>1, Without
<1> QED
  BY <1>3, <1>4

\* Rotate puts the second entry first.
LEMMA RotatedHead ==
  ASSUME NEW S, NEW a, ListOf(S, a), NEW x \in ToSet(a), x # Head(a)
  PROVE  Head(Rotate(a)) # Head(a)
<1>1. a \in Seq(S) /\ Len(a) \in Nat
  BY DEF ListOf
<1>2. PICK i \in 1 .. Len(a) : a[i] = x
  BY <1>1, Entries
<1>3. Len(a) >= 2
  BY <1>1, <1>2
<1>4. 1 \in 1 .. Len(a) /\ 2 \in 1 .. Len(a) /\ a[1] # a[2]
  <2>1. 1 \in 1 .. Len(a) /\ 2 \in 1 .. Len(a)
    BY <1>1, <1>3
  <2>2. \A j, k \in 1 .. Len(a) : a[j] = a[k] => j = k
    BY <1>1, Entries DEF ListOf
  <2> QED
    BY <2>1, <2>2
<1>5. Head(Rotate(a)) = a[2] /\ Head(a) = a[1]
  BY <1>1, <1>3 DEF Rotate
<1> QED
  BY <1>4, <1>5

\* The switch goes to a task of the list.
LEMMA Advanced ==
  ASSUME NEW r, ListOf(Tasks \cup {End}, r), NEW t \in Tasks, t \in ToSet(r)
  PROVE  /\ ListOf(Tasks \cup {End}, Advance(r))
         /\ \A x : x \in ToSet(Advance(r)) <=> x \in ToSet(r)
         /\ Head(Advance(r)) \in Tasks /\ Head(Advance(r)) \in ToSet(r)
<1> DEFINE S == Tasks \cup {End}
           a == Rotate(r)
           b == Rotate(a)
<1>1. r # <<>>
  BY Empty
<1>2. ListOf(S, a) /\ a # <<>> /\ \A x : x \in ToSet(a) <=> x \in ToSet(r)
  BY <1>1, Rotated
<1> HIDE DEF a
<1>3. ListOf(S, b) /\ b # <<>> /\ \A x : x \in ToSet(b) <=> x \in ToSet(r)
  BY <1>2, Rotated
<1>4. Head(a) \in S /\ Head(a) \in ToSet(a)
  BY <1>2, HeadTail
<1>5. Head(b) \in S /\ Head(b) \in ToSet(b)
  <2> HIDE DEF b
  <2> QED
    BY <1>3, HeadTail
<1>6. Head(a) = End => Head(b) # End
  <2> SUFFICES ASSUME Head(a) = End PROVE Head(b) # End
    OBVIOUS
  <2>1. t \in ToSet(a) /\ t # Head(a)
    BY <1>2, TaskAssumption DEF TaskAssumption
  <2> QED
    BY <1>2, <2>1, RotatedHead
<1>7. Advance(r) = IF Head(a) = End THEN b ELSE a
  BY DEF Advance, a
<1> HIDE DEF b
<1> QED
  BY <1>2, <1>3, <1>4, <1>5, <1>6, <1>7

-----------------------------------------------------------------------------
(***************************************************************************)
(* The delayed list.                                                       *)
(***************************************************************************)

(***************************************************************************)
(* The delayed list, by its names.                                         *)
(***************************************************************************)
Delayable == Tasks \cup {Daemon}
DelayedEntry == [task : Delayable, left : Int]

DelayedOK(d) == d \in Seq(DelayedEntry) /\ ListOf(Delayable, Names(d))

\* The tasks of a delayed list, by position.
LEMMA NamesOf ==
  ASSUME NEW d \in Seq(DelayedEntry)
  PROVE  /\ Len(d) \in Nat /\ Names(d) \in Seq(Delayable) /\ Len(Names(d)) = Len(d)
         /\ \A i \in 1 .. Len(d) : Names(d)[i] = d[i].task
<1>1. DOMAIN d = 1 .. Len(d) /\ Len(d) \in Nat /\ \A i \in 1 .. Len(d) : d[i] \in DelayedEntry
  OBVIOUS
<1>2. \A x \in DelayedEntry : x.task \in Delayable
  BY DEF DelayedEntry
<1> QED
  BY <1>1, <1>2 DEF Names

\* FirstIn is a position of the list, or the one behind it.
LEMMA FirstInBounds ==
  ASSUME NEW S, NEW a \in Seq(S), NEW Q, Q \subseteq DOMAIN a
  PROVE  FirstIn(Q, a) \in 1 .. Len(a) + 1
<1>1. Len(a) \in Nat /\ DOMAIN a = 1 .. Len(a)
  OBVIOUS
<1>2. CASE Q = {}
  BY <1>1, <1>2 DEF FirstIn
<1>3. CASE Q # {}
  <2>1. Min(Q) \in 1 .. Len(a)
    BY <1>1, <1>3, FirstPosition
  <2> QED
    BY <1>1, <1>3, <2>1 DEF FirstIn
<1> QED
  BY <1>2, <1>3

\* The entries of a concatenation, by position.
LEMMA Concatenated ==
  ASSUME NEW S, NEW u \in Seq(S), NEW v \in Seq(S)
  PROVE  /\ u \o v \in Seq(S) /\ Len(u \o v) = Len(u) + Len(v)
         /\ Len(u) \in Nat /\ Len(v) \in Nat
         /\ \A j \in 1 .. Len(u) + Len(v) :
              (u \o v)[j] = IF j <= Len(u) THEN u[j] ELSE v[j - Len(u)]
OBVIOUS

\* The entries of a part, by position.
LEMMA PartOf ==
  ASSUME NEW S, NEW a \in Seq(S), NEW m \in 1 .. Len(a) + 1, NEW n \in 0 .. Len(a), m <= n + 1
  PROVE  /\ SubSeq(a, m, n) \in Seq(S) /\ Len(SubSeq(a, m, n)) = n + 1 - m
         /\ \A j \in 1 .. n + 1 - m : SubSeq(a, m, n)[j] = a[m - 1 + j]
OBVIOUS

\* The entries after InsertAt, by position.
LEMMA InsertedAt ==
  ASSUME NEW S, NEW a \in Seq(S), NEW i \in 1 .. Len(a) + 1, NEW e \in S
  PROVE  /\ InsertAt(a, i, e) \in Seq(S) /\ Len(InsertAt(a, i, e)) = Len(a) + 1
         /\ \A j \in 1 .. Len(a) + 1 :
              InsertAt(a, i, e)[j] = IF j < i THEN a[j] ELSE IF j = i THEN e ELSE a[j - 1]
<1> DEFINE p == SubSeq(a, 1, i - 1)
           q == SubSeq(a, i, Len(a))
           m == <<e>>
           w == p \o m
           n == Len(a)
<1>1. n \in Nat /\ m \in Seq(S) /\ Len(m) = 1 /\ m[1] = e
  OBVIOUS
<1>2. p \in Seq(S) /\ Len(p) = i - 1 /\ \A j \in 1 .. i - 1 : p[j] = a[j]
  BY <1>1
<1>3. q \in Seq(S) /\ Len(q) = n + 1 - i /\ \A j \in 1 .. n + 1 - i : q[j] = a[i - 1 + j]
  BY <1>1
<1>4. InsertAt(a, i, e) = w \o q
  BY DEF InsertAt
<1> HIDE DEF p, q, m
<1>5. /\ w \in Seq(S) /\ Len(w) = Len(p) + Len(m)
      /\ \A j \in 1 .. Len(p) + Len(m) : w[j] = IF j <= Len(p) THEN p[j] ELSE m[j - Len(p)]
  BY <1>1, <1>2, Concatenated
<1>6. Len(w) = i /\ \A j \in 1 .. i : w[j] = IF j < i THEN a[j] ELSE e
  BY <1>1, <1>2, <1>5
<1> HIDE DEF w
<1>7. /\ w \o q \in Seq(S) /\ Len(w \o q) = Len(w) + Len(q)
      /\ \A j \in 1 .. Len(w) + Len(q) : (w \o q)[j] = IF j <= Len(w) THEN w[j] ELSE q[j - Len(w)]
  <2>1. w \in Seq(S) /\ q \in Seq(S)
    BY <1>3, <1>5
  <2> QED
    BY <2>1, Concatenated, Zenon
<1> DEFINE c == w \o q
<1>8. /\ c \in Seq(S) /\ Len(c) = n + 1
      /\ \A j \in 1 .. n + 1 : c[j] = IF j <= i THEN w[j] ELSE q[j - i]
  BY <1>1, <1>3, <1>6, <1>7
<1> HIDE DEF c, n
<1>9. ASSUME NEW j \in 1 .. n + 1
      PROVE  c[j] = IF j < i THEN a[j] ELSE IF j = i THEN e ELSE a[j - 1]
  <2>1. j > i => q[j - i] = a[j - 1]
    <3> SUFFICES ASSUME j > i PROVE q[j - i] = a[j - 1]
      OBVIOUS
    <3>1. j - i \in 1 .. n + 1 - i /\ i - 1 + (j - i) = j - 1
      BY <1>1
    <3> QED
      BY <1>3, <3>1
  <2> QED
    BY <1>1, <1>6, <1>8, <2>1
<1> QED
  BY <1>4, <1>8, <1>9 DEF c, n

\* The entries after RemoveAt, by position.
LEMMA RemovedAt ==
  ASSUME NEW S, NEW a \in Seq(S), NEW i \in 1 .. Len(a)
  PROVE  /\ RemoveAt(a, i) \in Seq(S) /\ Len(RemoveAt(a, i)) = Len(a) - 1
         /\ \A j \in 1 .. Len(a) - 1 : RemoveAt(a, i)[j] = IF j < i THEN a[j] ELSE a[j + 1]
<1> DEFINE p == SubSeq(a, 1, i - 1)
           q == SubSeq(a, i + 1, Len(a))
           n == Len(a)
<1>1. n \in Nat
  OBVIOUS
<1>2. p \in Seq(S) /\ Len(p) = i - 1 /\ \A j \in 1 .. i - 1 : p[j] = a[j]
  BY <1>1
<1>3. q \in Seq(S) /\ Len(q) = n - i /\ \A j \in 1 .. n - i : q[j] = a[i + j]
  BY <1>1
<1>4. RemoveAt(a, i) = p \o q
  BY DEF RemoveAt
<1> HIDE DEF p, q
<1>5. /\ p \o q \in Seq(S) /\ Len(p \o q) = Len(p) + Len(q)
      /\ \A j \in 1 .. Len(p) + Len(q) : (p \o q)[j] = IF j <= Len(p) THEN p[j] ELSE q[j - Len(p)]
  BY <1>2, <1>3, Concatenated
<1> DEFINE c == p \o q
<1>6. c \in Seq(S) /\ Len(c) = n - 1 /\ \A j \in 1 .. n - 1 :
        c[j] = IF j <= i - 1 THEN p[j] ELSE q[j - (i - 1)]
  BY <1>1, <1>2, <1>3, <1>5
<1> HIDE DEF c, n
<1>7. ASSUME NEW j \in 1 .. n - 1
      PROVE  c[j] = IF j < i THEN a[j] ELSE a[j + 1]
  <2>1. ~ j < i => q[j - (i - 1)] = a[j + 1]
    <3> SUFFICES ASSUME ~ j < i PROVE q[j - (i - 1)] = a[j + 1]
      OBVIOUS
    <3>1. j - (i - 1) \in 1 .. n - i /\ i + (j - (i - 1)) = j + 1
      BY <1>1
    <3> QED
      BY <1>3, <3>1
  <2> QED
    BY <1>1, <1>2, <1>6, <2>1
<1> QED
  BY <1>4, <1>6, <1>7 DEF c, n

\* A list with one entry more, anywhere in it.
LEMMA Inserted ==
  ASSUME NEW S, NEW a, ListOf(S, a), NEW i \in 1 .. Len(a) + 1, NEW x \in S, x \notin ToSet(a)
  PROVE  /\ ListOf(S, InsertAt(a, i, x))
         /\ \A y : y \in ToSet(InsertAt(a, i, x)) <=> y \in ToSet(a) \/ y = x
<1> DEFINE u == SubSeq(a, 1, i - 1)
           v == SubSeq(a, i, Len(a))
           m == <<x>>
           w == u \o m
<1>1. a \in Seq(S) /\ Len(a) \in Nat
  BY DEF ListOf
<1>2. /\ ListOf(S, u) /\ ListOf(S, v)
      /\ \A y : y \in ToSet(a) <=> y \in ToSet(u) \/ y \in ToSet(v)
      /\ \A y \in ToSet(u) : y \notin ToSet(v)
  <2> DEFINE n == i - 1
  <2>1. n \in 0 .. Len(a) /\ i = n + 1
    BY <1>1
  <2> HIDE DEF n
  <2>2. /\ ListOf(S, SubSeq(a, 1, n)) /\ ListOf(S, SubSeq(a, i, Len(a)))
        /\ \A y : y \in ToSet(a) <=>
                  y \in ToSet(SubSeq(a, 1, n)) \/ y \in ToSet(SubSeq(a, i, Len(a)))
        /\ \A y \in ToSet(SubSeq(a, 1, n)) : y \notin ToSet(SubSeq(a, i, Len(a)))
    BY <2>1, Cut
  <2> QED
    BY <2>2 DEF n
<1>3. InsertAt(a, i, x) = w \o v
  BY DEF InsertAt
<1>4. ListOf(S, m) /\ \A y : y \in ToSet(m) <=> y = x
  BY Single
<1> HIDE DEF u, v, m
<1>5. ListOf(S, w) /\ \A y : y \in ToSet(w) <=> y \in ToSet(u) \/ y \in ToSet(m)
  <2>1. \A y \in ToSet(u) : y \notin ToSet(m)
    BY <1>2, <1>4
  <2> QED
    BY <1>2, <1>4, <2>1, Joined
<1> HIDE DEF w
<1>6. ListOf(S, w \o v) /\ \A y : y \in ToSet(w \o v) <=> y \in ToSet(w) \/ y \in ToSet(v)
  <2>1. \A y \in ToSet(w) : y \notin ToSet(v)
    BY <1>2, <1>4, <1>5
  <2> QED
    BY <1>2, <1>5, <2>1, Joined
<1> QED
  BY <1>2, <1>3, <1>4, <1>5, <1>6

\* Lists with the same entries by position are equal.
LEMMA SameEntries ==
  ASSUME NEW S, NEW a \in Seq(S), NEW b \in Seq(S), Len(a) = Len(b),
         \A j \in 1 .. Len(a) : a[j] = b[j]
  PROVE  a = b
OBVIOUS

LEMMA TaskInserted ==
  ASSUME NEW t \in Delayable, NEW N \in Seq(Delayable), NEW i, i \in 1 .. Len(N) + 1,
         NEW M, M = InsertAt(N, i, t)
  PROVE  /\ M \in Seq(Delayable) /\ Len(M) = Len(N) + 1
         /\ \A j \in 1 .. Len(N) + 1 :
              M[j] = IF j < i THEN N[j] ELSE IF j = i THEN t ELSE N[j - 1]
<1> DEFINE Right(k) ==
             /\ InsertAt(N, k, t) \in Seq(Delayable) /\ Len(InsertAt(N, k, t)) = Len(N) + 1
             /\ \A j \in 1 .. Len(N) + 1 :
                  InsertAt(N, k, t)[j] = IF j < k THEN N[j] ELSE IF j = k THEN t ELSE N[j - 1]
<1>1. \A k \in 1 .. Len(N) + 1 : Right(k)
  BY InsertedAt
<1> HIDE DEF Right
<1>2. Right(i)
  BY <1>1
<1> QED
  BY <1>2 DEF Right

\* A task goes to sleep.
LEMMA DelayedInserted ==
  ASSUME NEW d, DelayedOK(d), NEW t \in Delayable, t \notin ToSet(Names(d)), NEW n \in Int
  PROVE  /\ DelayedOK(InsertDelayed(d, t, n))
         /\ \A x : x \in ToSet(Names(InsertDelayed(d, t, n))) <=> x \in ToSet(Names(d)) \/ x = t
<1> DEFINE i == FirstIn({j \in DOMAIN d : d[j].left > n}, d)
           e == [task |-> t, left |-> n]
           N == Names(d)
           c == InsertAt(d, i, e)
           M == InsertAt(N, i, t)
<1>1. /\ d \in Seq(DelayedEntry) /\ ListOf(Delayable, N) /\ Len(d) \in Nat /\ Len(N) = Len(d)
      /\ N \in Seq(Delayable)
      /\ \A j \in 1 .. Len(d) : N[j] = d[j].task
  BY NamesOf DEF DelayedOK
<1>2. i \in 1 .. Len(d) + 1
  <2>1. {j \in DOMAIN d : d[j].left > n} \subseteq DOMAIN d
    OBVIOUS
  <2> QED
    BY <1>1, <2>1, FirstInBounds
<1>3. InsertDelayed(d, t, n) = c
  BY DEF InsertDelayed
<1>4. e \in DelayedEntry /\ e.task = t
  BY DEF DelayedEntry
<1> HIDE DEF i, e, N
<1>5. /\ c \in Seq(DelayedEntry) /\ Len(c) = Len(d) + 1
      /\ \A j \in 1 .. Len(d) + 1 : c[j] = IF j < i THEN d[j] ELSE IF j = i THEN e ELSE d[j - 1]
  BY <1>1, <1>2, <1>4, InsertedAt
<1>6. /\ M \in Seq(Delayable) /\ Len(M) = Len(N) + 1
      /\ \A j \in 1 .. Len(N) + 1 : M[j] = IF j < i THEN N[j] ELSE IF j = i THEN t ELSE N[j - 1]
  <2>1. N \in Seq(Delayable) /\ i \in 1 .. Len(N) + 1
    BY <1>1, <1>2
  <2> HIDE DEF M
  <2>2. M = InsertAt(N, i, t)
    BY DEF M
  <2> QED
    BY <2>1, <2>2, TaskInserted
<1>7. /\ ListOf(Delayable, M)
      /\ \A x : x \in ToSet(M) <=> x \in ToSet(N) \/ x = t
  <2>1. t \notin ToSet(N) /\ i \in 1 .. Len(N) + 1
    BY <1>1, <1>2 DEF N
  <2> QED
    BY <1>1, <2>1, Inserted
<1> HIDE DEF c, M
<1>8. Names(c) = M
  <2>1. /\ Names(c) \in Seq(Delayable) /\ Len(Names(c)) = Len(c)
        /\ \A j \in 1 .. Len(c) : Names(c)[j] = c[j].task
    BY <1>5, NamesOf
  <2> DEFINE K == Names(c)
  <2> HIDE DEF K
  <2>2. \A j \in 1 .. Len(K) : K[j] = M[j]
    <3>1. /\ Len(K) = Len(d) + 1
          /\ \A j \in 1 .. Len(d) + 1 : K[j] = c[j].task
      BY <1>5, <2>1 DEF K
    <3>2. \A j \in 1 .. Len(d) + 1 : j < i => j \in 1 .. Len(d)
      BY <1>1, <1>2
    <3>3. \A j \in 1 .. Len(d) + 1 : ~ j < i /\ j # i => j - 1 \in 1 .. Len(d)
      BY <1>1, <1>2
    <3> QED
      BY <1>1, <1>4, <1>5, <1>6, <3>1, <3>2, <3>3
  <2>3. K \in Seq(Delayable) /\ Len(K) = Len(M)
    BY <1>1, <1>5, <1>6, <2>1 DEF K
  <2>4. K = M
    BY <1>6, <2>2, <2>3, SameEntries
  <2> QED
    BY <2>4 DEF K
<1> QED
  BY <1>3, <1>5, <1>7, <1>8 DEF DelayedOK, N

\* The tasks due are a prefix of the list.
LEMMA DelayedCut ==
  ASSUME DelayedOK(delayed)
  PROVE  LET d == SubSeq(Ticked, Remaining, Len(Ticked)) IN
         /\ ListOf(Delayable, Expired) /\ DelayedOK(d)
         /\ \A x : x \in ToSet(Names(delayed)) <=> x \in ToSet(Expired) \/ x \in ToSet(Names(d))
         /\ \A x \in ToSet(Expired) : x \notin ToSet(Names(d))
<1> DEFINE T == Ticked
           i == Remaining
           N == Names(delayed)
           d == SubSeq(T, i, Len(T))
           v == SubSeq(N, i, Len(N))
<1>1. /\ delayed \in Seq(DelayedEntry) /\ ListOf(Delayable, N) /\ Len(delayed) \in Nat
      /\ Len(N) = Len(delayed) /\ N \in Seq(Delayable)
      /\ \A j \in 1 .. Len(delayed) : N[j] = delayed[j].task
  BY NamesOf DEF DelayedOK
<1>2. /\ T \in Seq(DelayedEntry) /\ Len(T) = Len(delayed)
      /\ \A j \in 1 .. Len(delayed) : T[j].task = delayed[j].task
  <2>1. /\ DOMAIN delayed = 1 .. Len(delayed)
        /\ \A j \in 1 .. Len(delayed) : delayed[j] \in DelayedEntry
    BY <1>1
  <2>2. \A x \in DelayedEntry : /\ [x EXCEPT !.left = @ - 1] \in DelayedEntry
                               /\ [x EXCEPT !.left = @ - 1].task = x.task
    BY DEF DelayedEntry
  <2>3. T = [j \in 1 .. Len(delayed) |-> [delayed[j] EXCEPT !.left = @ - 1]]
    BY <2>1 DEF Ticked
  <2> DEFINE F(x) == [x EXCEPT !.left = @ - 1]
  <2>4. \A x \in DelayedEntry : F(x) \in DelayedEntry /\ F(x).task = x.task
    BY <2>2
  <2>5. T = [j \in 1 .. Len(delayed) |-> F(delayed[j])]
    BY <2>3
  <2> HIDE DEF N, T, F, DelayedEntry
  <2>6. \A j \in 1 .. Len(delayed) : F(delayed[j]) \in DelayedEntry
                                    /\ F(delayed[j]).task = delayed[j].task
    BY <2>1, <2>4
  <2>7. T \in [1 .. Len(delayed) -> DelayedEntry]
    BY <2>5, <2>6
  <2>8. T \in Seq(DelayedEntry) /\ Len(T) = Len(delayed)
    BY <1>1, <2>7
  <2> QED
    BY <2>5, <2>6, <2>8
<1>3. i \in 1 .. Len(T) + 1
  <2>1. {j \in DOMAIN T : T[j].left > 0} \subseteq DOMAIN T
    OBVIOUS
  <2>2. i = FirstIn({j \in DOMAIN T : T[j].left > 0}, T)
    BY DEF Remaining
  <2> QED
    BY <1>2, <2>1, <2>2, FirstInBounds
<1>4. Expired = SubSeq(N, 1, i - 1)
  BY DEF Expired
<1> HIDE DEF N, i, T
<1>5. /\ ListOf(Delayable, Expired) /\ ListOf(Delayable, v) /\ Len(v) = Len(N) - (i - 1)
      /\ \A j \in 1 .. Len(N) - (i - 1) : v[j] = N[(i - 1) + j]
      /\ \A x : x \in ToSet(N) <=> x \in ToSet(Expired) \/ x \in ToSet(v)
      /\ \A x \in ToSet(Expired) : x \notin ToSet(v)
  <2>1. i - 1 \in 0 .. Len(N) /\ i = (i - 1) + 1
    BY <1>1, <1>2, <1>3
  <2> QED
    BY <1>1, <1>4, <2>1, Cut
<1>6. /\ d \in Seq(DelayedEntry) /\ Len(d) = Len(T) - (i - 1)
      /\ \A j \in 1 .. Len(T) - (i - 1) : d[j] = T[(i - 1) + j]
  BY <1>1, <1>2, <1>3
<1> HIDE DEF d, v
<1>7. Names(d) = v
  <2>1. /\ Names(d) \in Seq(Delayable) /\ Len(Names(d)) = Len(d)
        /\ \A j \in 1 .. Len(d) : Names(d)[j] = d[j].task
    BY <1>6, NamesOf
  <2>2. ASSUME NEW j \in 1 .. Len(d)
        PROVE  Names(d)[j] = v[j]
    <3>1. (i - 1) + j \in 1 .. Len(delayed)
      BY <1>1, <1>2, <1>3, <1>6
    <3> QED
      BY <1>1, <1>2, <1>5, <1>6, <2>1, <3>1
  <2>3. v \in Seq(Delayable) /\ Len(v) = Len(d)
    BY <1>1, <1>2, <1>5, <1>6 DEF ListOf
  <2> QED
    BY <2>1, <2>2, <2>3
<1>8. DelayedOK(d)
  BY <1>5, <1>6, <1>7 DEF DelayedOK
<1> QED
  BY <1>5, <1>7, <1>8 DEF d, T, i, N

\* A task is taken out of the delayed list before its time.
LEMMA DelayedDropped ==
  ASSUME NEW d, DelayedOK(d), NEW i \in 1 .. Len(d)
  PROVE  /\ DelayedOK(RemoveAt(d, i))
         /\ \A x : x \in ToSet(Names(RemoveAt(d, i))) <=> x \in ToSet(Names(d)) /\ x # d[i].task
<1> DEFINE N == Names(d)
           c == RemoveAt(d, i)
           M == RemoveAt(N, i)
<1>1. /\ d \in Seq(DelayedEntry) /\ ListOf(Delayable, N) /\ Len(d) \in Nat /\ Len(N) = Len(d)
      /\ N \in Seq(Delayable)
      /\ \A j \in 1 .. Len(d) : N[j] = d[j].task
  BY NamesOf DEF DelayedOK
<1> HIDE DEF N
<1>2. ListOf(Delayable, M) /\ \A x : x \in ToSet(M) <=> x \in ToSet(N) /\ x # N[i]
  BY <1>1, TakenOut
<1>3. /\ c \in Seq(DelayedEntry) /\ Len(c) = Len(d) - 1
      /\ \A j \in 1 .. Len(d) - 1 : c[j] = IF j < i THEN d[j] ELSE d[j + 1]
  BY <1>1, RemovedAt
<1>4. /\ M \in Seq(Delayable) /\ Len(M) = Len(N) - 1
      /\ \A j \in 1 .. Len(N) - 1 : M[j] = IF j < i THEN N[j] ELSE N[j + 1]
  BY <1>1, RemovedAt
<1> HIDE DEF c, M
<1>5. Names(c) = M
  <2>1. /\ Names(c) \in Seq(Delayable) /\ Len(Names(c)) = Len(c)
        /\ \A j \in 1 .. Len(c) : Names(c)[j] = c[j].task
    BY <1>3, NamesOf
  <2> DEFINE K == Names(c)
  <2> HIDE DEF K
  <2>2. \A j \in 1 .. Len(K) : K[j] = M[j]
    <3>1. \A j \in 1 .. Len(d) - 1 : j \in 1 .. Len(d) /\ j + 1 \in 1 .. Len(d)
      BY <1>1
    <3>2. /\ Len(K) = Len(d) - 1
          /\ \A j \in 1 .. Len(d) - 1 : K[j] = c[j].task
      BY <1>3, <2>1 DEF K
    <3> QED
      BY <1>1, <1>3, <1>4, <3>1, <3>2
  <2>3. K \in Seq(Delayable) /\ Len(K) = Len(M)
    BY <1>1, <1>3, <1>4, <2>1 DEF K
  <2>4. K = M
    BY <1>4, <2>2, <2>3, SameEntries
  <2> QED
    BY <2>4 DEF K
<1> QED
  BY <1>1, <1>2, <1>3, <1>5 DEF DelayedOK, N, c

-----------------------------------------------------------------------------
(***************************************************************************)
(* The steps of the scheduler: the lists they leave.                       *)
(***************************************************************************)

\* A list of entries of T.
LEMMA Narrowed ==
  ASSUME NEW S, NEW T, NEW a, ListOf(S, a), \A x \in ToSet(a) : x \in T
  PROVE  ListOf(T, a)
<1>1. a \in Seq(S)
  BY DEF ListOf
<1>2. \A i \in 1 .. Len(a) : a[i] \in T
  BY <1>1, Entries
<1>3. a \in Seq(T)
  BY <1>1, <1>2
<1> QED
  BY <1>3 DEF ListOf

Ready == ToSet(ring)
Pended == ToSet(pending)
Asleep == ToSet(Names(delayed))
Queue(s) == ToSet(sem[s].waiting)

\* The running task changes, if it changes, to one of the new ready list.
LEMMA Switched ==
  ASSUME NEW r, ListOf(Tasks \cup {End}, r), Idle \in ToSet(r), NEW d, SwitchFrom(r, d)
  PROVE  /\ ListOf(Tasks \cup {End}, ring')
         /\ \A x : x \in Ready' <=> x \in ToSet(r)
         /\ daemonReady' = d /\ yieldDue' = FALSE
         /\ d => cur' = Daemon
         /\ ~ d => cur' \in Tasks /\ cur' \in Ready'
<1>1. daemonReady' = d /\ yieldDue' = FALSE
  BY DEF SwitchFrom
<1>2. CASE d
  BY <1>1, <1>2 DEF SwitchFrom, Ready
<1>3. CASE ~ d
  <2>1. ring' = Advance(r) /\ cur' = Head(Advance(r))
    BY <1>3 DEF SwitchFrom
  <2>2. Idle \in Tasks
    BY TaskAssumption DEF TaskAssumption
  <2>3. /\ ListOf(Tasks \cup {End}, Advance(r))
        /\ \A x : x \in ToSet(Advance(r)) <=> x \in ToSet(r)
        /\ Head(Advance(r)) \in Tasks /\ Head(Advance(r)) \in ToSet(r)
    BY <2>2, Advanced
  <2> QED
    BY <1>1, <1>3, <2>1, <2>3 DEF Ready
<1> QED
  BY <1>2, <1>3

\* A tick moves the tasks that are due behind those of the ready list r.
LEMMA Ticking ==
  ASSUME NEW r, ListOf(Tasks \cup {End}, r), Idle \in ToSet(r), DelayedOK(delayed),
         \A x \in ToSet(r) : x \notin Asleep, NEW sleeps, IncrementTick(r, sleeps)
  PROVE  /\ ListOf(Tasks \cup {End}, ring') /\ DelayedOK(delayed')
         /\ \A x : x \in Asleep' => x \in Asleep
         /\ \A x : x \in Ready' <=>
                   x \in ToSet(r) \/ (x \in Asleep /\ x \notin Asleep' /\ x # Daemon)
         /\ daemonReady' <=> daemonReady \/ (Daemon \in Asleep /\ Daemon \notin Asleep')
         /\ \/ ~ sleeps /\ cur' = cur /\ (daemonReady' <=> daemonReady)
            \/ daemonReady' /\ cur' = Daemon
            \/ ~ daemonReady' /\ cur' \in Tasks /\ cur' \in Ready'
<1> DEFINE d == SubSeq(Ticked, Remaining, Len(Ticked))
           q == r \o Woken
<1>1. /\ ListOf(Delayable, Expired) /\ DelayedOK(d)
      /\ \A x : x \in Asleep <=> x \in ToSet(Expired) \/ x \in ToSet(Names(d))
      /\ \A x \in ToSet(Expired) : x \notin ToSet(Names(d))
  BY DelayedCut DEF Asleep
<1>2. delayed' = d
  BY DEF IncrementTick
<1> HIDE DEF d
<1>3. /\ DelayedOK(delayed')
      /\ \A x : x \in Asleep <=> x \in ToSet(Expired) \/ x \in Asleep'
      /\ \A x \in ToSet(Expired) : x \notin Asleep'
  BY <1>1, <1>2 DEF Asleep
<1>4. /\ ListOf(Tasks \cup {End}, Woken)
      /\ \A x : x \in ToSet(Woken) <=> x \in ToSet(Expired) /\ x # Daemon
  <2>1. /\ ListOf(Delayable, Woken)
        /\ \A x : x \in ToSet(Woken) <=> x \in ToSet(Expired) /\ x # Daemon
    BY <1>1, Without DEF Woken
  <2>2. \A x \in ToSet(Expired) : x \in Delayable
    BY <1>1, Entries DEF ListOf
  <2>3. \A x \in ToSet(Woken) : x \in Tasks \cup {End}
    BY <2>1, <2>2 DEF Delayable
  <2> QED
    BY <2>1, <2>3, Narrowed
<1>5. ListOf(Tasks \cup {End}, q) /\ \A x : x \in ToSet(q) <=> x \in ToSet(r) \/ x \in ToSet(Woken)
  <2>1. \A x \in ToSet(r) : x \notin ToSet(Woken)
    BY <1>3, <1>4
  <2> QED
    BY <1>4, <2>1, Joined
<1>6. \A x : x \in ToSet(q) <=> x \in ToSet(r) \/ (x \in Asleep /\ x \notin Asleep' /\ x # Daemon)
  BY <1>3, <1>4, <1>5
<1>7. TimerExpires <=> Daemon \in Asleep /\ Daemon \notin Asleep'
  BY <1>3 DEF TimerExpires
<1>8. CASE sleeps \/ yieldDue \/ TimerExpires
  <2> DEFINE e == daemonReady \/ TimerExpires
  <2>1. SwitchFrom(q, e)
    BY <1>8 DEF IncrementTick
  <2> HIDE DEF q, e
  <2>2. Idle \in ToSet(q)
    BY <1>5
  <2>3. /\ ListOf(Tasks \cup {End}, ring')
        /\ \A x : x \in Ready' <=> x \in ToSet(q)
        /\ daemonReady' = e
        /\ e => cur' = Daemon
        /\ ~ e => cur' \in Tasks /\ cur' \in Ready'
    BY <1>5, <2>1, <2>2, Switched
  <2>4. daemonReady' <=> daemonReady \/ TimerExpires
    BY <2>3 DEF e
  <2>5. \/ daemonReady' /\ cur' = Daemon
        \/ ~ daemonReady' /\ cur' \in Tasks /\ cur' \in Ready'
    BY <2>3 DEF e
  <2> QED
    BY <1>3, <1>6, <1>7, <2>3, <2>4, <2>5
<1>9. CASE ~ (sleeps \/ yieldDue \/ TimerExpires)
  <2>1. GoOn(q, daemonReady)
    BY <1>9 DEF IncrementTick
  <2> HIDE DEF q
  <2>2. /\ ring' = q /\ daemonReady' = daemonReady /\ cur' = cur
    BY <2>1 DEF GoOn
  <2> QED
    BY <1>3, <1>5, <1>6, <1>7, <1>9, <2>2 DEF Ready
<1> QED
  BY <1>8, <1>9

\* xTaskResumeAll makes up for a tick, if there was one, and switches.
LEMMA CaughtUp ==
  ASSUME NEW r, ListOf(Tasks \cup {End}, r), Idle \in ToSet(r), DelayedOK(delayed),
         \A x \in ToSet(r) : x \notin Asleep, CatchUp(r)
  PROVE  /\ ListOf(Tasks \cup {End}, ring') /\ DelayedOK(delayed')
         /\ \A x : x \in Asleep' => x \in Asleep
         /\ \A x : x \in Ready' <=>
                   x \in ToSet(r) \/ (x \in Asleep /\ x \notin Asleep' /\ x # Daemon)
         /\ daemonReady' <=> daemonReady \/ (Daemon \in Asleep /\ Daemon \notin Asleep')
         /\ \/ daemonReady' /\ cur' = Daemon
            \/ ~ daemonReady' /\ cur' \in Tasks /\ cur' \in Ready'
<1>1. CASE IncrementTick(r, TRUE)
  <2> DEFINE t == TRUE
  <2>1. IncrementTick(r, t)
    BY <1>1
  <2> HIDE DEF t
  <2>2. t
    BY DEF t
  <2> QED
    BY <2>1, <2>2, Ticking
<1>2. CASE SwitchFrom(r, daemonReady) /\ UNCHANGED delayed
  <2>1. /\ ListOf(Tasks \cup {End}, ring')
        /\ \A x : x \in Ready' <=> x \in ToSet(r)
        /\ daemonReady' = daemonReady
        /\ daemonReady => cur' = Daemon
        /\ ~ daemonReady => cur' \in Tasks /\ cur' \in Ready'
    BY <1>2, Switched
  <2>2. delayed' = delayed /\ \A x : x \in Asleep' <=> x \in Asleep
    BY <1>2 DEF Asleep
  <2> QED
    BY <2>1, <2>2
<1> QED
  BY <1>1, <1>2 DEF CatchUp

-----------------------------------------------------------------------------
(***************************************************************************)
(* The invariant about the lists.                                          *)
(***************************************************************************)

ListsOK ==
  /\ ListOf(Tasks \cup {End}, ring)
  /\ ListOf(Tasks, pending)
  /\ DelayedOK(delayed)
  /\ \A s \in Sems : ListOf(Tasks, sem[s].waiting)

\* The lists have no entry in common, and the tasks in them are those alive.
PlacesOK ==
  /\ End \in Ready /\ Idle \in Ready
  /\ \A t \in Ready : t \notin Pended /\ t \notin Asleep
  /\ \A t \in Pended : t \notin Asleep
  /\ \A s \in Sems : \A t \in Queue(s) : t \notin Ready /\ t \notin Pended /\ t \notin Asleep
  /\ \A s, x \in Sems : s # x => \A t \in Queue(s) : t \notin Queue(x)
  /\ \A t : t \in Alive <=> \/ t \in Ready /\ t # End
                            \/ t \in Pended
                            \/ t \in Asleep /\ t # Daemon
                            \/ \E s \in Sems : t \in Queue(s)

\* The running task is ready, unless it is about to switch to another.
TurnOK ==
  /\ cur \in Tasks \cup {Daemon}
  /\ cur = Daemon => daemonReady
  /\ daemonReady => Daemon \notin Asleep
  /\ cur \in Tasks /\ call[cur].at \notin {"resume", "yield"} => cur \in Ready

\* The scheduler is suspended for one task, the running one.
CallerOK ==
  /\ \A t \in Tasks : call[t].at \in {"place", "resume"} => cur = t /\ suspended
  /\ \A t \in Tasks : call[t].at = "resume" => t \in Asleep
  /\ call[Idle].at = "none"

\* Who waits looks at the count again when it is woken.
QueuesOK == \A s \in Sems : \A t \in Queue(s) : call[t] = [at |-> "retry", of |-> s]

\* Only the task a semaphore signals waits for it.
SignalOK ==
  \A t \in Tasks : /\ call[t].of = AudioSem => t = Audio /\ pc[t] = "lock"
                   /\ call[t].of = UsbSem => t = Usb /\ pc[t] = "lock"
                   /\ call[t].of = BspSem => t = Bsp /\ pc[t] = "timer"

\* The queue a task has locked is empty, or was given and says so.
LockedOK ==
  /\ \A s \in Sems : sem[s].txLock \in Nat \cup {Unlocked}
  /\ \A t \in Tasks : call[t].at = "place" =>
       /\ sem[call[t].of].txLock >= 0
       /\ sem[call[t].of].count = 1 => sem[call[t].of].txLock > 0

\* Who is not created has not run.
UnbornOK ==
  /\ spawned \subseteq {Audio, Test, Bsp, Usb}
  /\ pc[App] \in {"startIO", "hello", "helloSend", "panel", "panelSem", "lock", "spawn"} =>
       pc[Bsp] = "oled"

PlaceInv == /\ ListsOK /\ PlacesOK /\ TurnOK /\ CallerOK /\ QueuesOK /\ SignalOK
            /\ LockedOK /\ UnbornOK /\ HeldInv /\ NoStrandedWaiter

-----------------------------------------------------------------------------
LEMMA PlaceInit == FirmwareInit => PlaceInv
<1> SUFFICES ASSUME FirmwareInit PROVE PlaceInv
  OBVIOUS
<1>0. /\ ring = <<End, App, Idle>> /\ pending = <<>> /\ delayed = <<>> /\ cur = Daemon
      /\ sem = [s \in Sems |-> Absent] /\ daemonReady = TRUE
      /\ call = [x \in Tasks |-> [at |-> "none", of |-> NoSem]]
      /\ spawned \in Instances
  BY DEF FirmwareInit, KernelInit
<1>1. ListOf(Tasks \cup {End}, ring) /\ \A x : x \in Ready <=> x \in {End, App, Idle}
  <2> DEFINE r == <<End, App, Idle>>
  <2>1. /\ r \in Seq(Tasks \cup {End}) /\ Len(r) = 3
        /\ r[1] = End /\ r[2] = App /\ r[3] = Idle
    BY Named
  <2>2. \A i : i \in 1 .. 3 <=> i = 1 \/ i = 2 \/ i = 3
    OBVIOUS
  <2>3. End # App /\ End # Idle /\ App # Idle
    BY Named, TaskAssumption, TasksDiffer DEF TaskAssumption
  <2> HIDE DEF r
  <2>4. IsInjective(r)
    BY <2>1, <2>2, <2>3, Entries
  <2>5. \A x : x \in ToSet(r) <=> x = End \/ x = App \/ x = Idle
    BY <2>1, <2>2, Entries
  <2> QED
    BY <1>0, <2>1, <2>4, <2>5 DEF ListOf, Ready, r
<1>2. /\ ListOf(Tasks, pending) /\ \A x : x \notin Pended
  BY <1>0, Empty DEF Pended
<1>3. DelayedOK(delayed) /\ \A x : x \notin Asleep
  <2>1. Names(<<>>) = <<>>
    BY DEF Names
  <2> QED
    BY <1>0, <2>1, Empty DEF Asleep, DelayedOK
<1>4. \A s \in Sems : ListOf(Tasks, sem[s].waiting) /\ \A x : x \notin Queue(s)
  <2>1. \A s \in Sems : sem[s].waiting = <<>> /\ sem[s].txLock = Unlocked
    BY <1>0 DEF Absent
  <2> QED
    BY <2>1, Empty DEF Queue
<1>5. \A t : t \in Alive <=> t = App \/ t = Idle
  <2>1. pc[App] = "startIO"
    BY Named, TasksDiffer DEF FirmwareInit
  <2> QED
    BY <2>1 DEF Alive
<1>6. ListsOK
  BY <1>1, <1>2, <1>3, <1>4 DEF ListsOK
<1>7. PlacesOK
  <2>1. End \notin {App, Idle}
    BY Named, TaskAssumption DEF TaskAssumption
  <2> QED
    BY <1>1, <1>2, <1>3, <1>4, <1>5, <2>1 DEF PlacesOK
<1>8. TurnOK /\ CallerOK /\ QueuesOK
  BY <1>0, <1>3, <1>4, Named, TaskAssumption DEF TurnOK, CallerOK, QueuesOK, TaskAssumption
<1>9. SignalOK /\ LockedOK
  BY <1>0, Named DEF SignalOK, LockedOK, Absent
<1>10. UnbornOK
  <2>1. pc[Bsp] = "oled"
    BY Named, TasksDiffer DEF FirmwareInit
  <2> QED
    BY <1>0, <2>1, FirmwareAssumption DEF UnbornOK, FirmwareAssumption
<1>11. NoStrandedWaiter
  BY <1>0 DEF NoStrandedWaiter, Absent
<1> QED
  BY <1>6, <1>7, <1>8, <1>9, <1>10, <1>11, HeldInit DEF PlaceInv

\* Nothing of the lists changes.
LEMMA SamePlaces ==
  ASSUME ListsOK, PlacesOK, UNCHANGED <<ring, pending, delayed>>, Alive' = Alive,
         \A s \in Sems : sem'[s].waiting = sem[s].waiting
  PROVE  /\ ListsOK' /\ PlacesOK'
         /\ Ready' = Ready /\ Asleep' = Asleep /\ \A s \in Sems : Queue(s)' = Queue(s)
<1>1. Ready' = Ready /\ Pended' = Pended /\ Asleep' = Asleep
  BY DEF Ready, Pended, Asleep
<1>2. \A s \in Sems : Queue(s)' = Queue(s)
  BY DEF Queue
<1>3. ListsOK'
  BY DEF ListsOK
<1>4. PlacesOK'
  BY <1>1, <1>2 DEF PlacesOK
<1> QED
  BY <1>1, <1>2, <1>3, <1>4

\* Who is ready to look at a count again stays so, and no count goes up that
\* could be had: the queue that was locked knows of it.
LEMMA SameStranded ==
  ASSUME NoStrandedWaiter,
         \A s \in Sems : sem'[s].count = 1 /\ sem'[s].waiting # <<>> =>
           \/ /\ sem[s].count = 1 /\ sem[s].waiting # <<>>
              /\ sem[s].txLock > 0 => sem'[s].txLock > 0
           \/ sem'[s].txLock > 0,
         \A t \in Tasks : call[t].at = "retry" => call'[t] = call[t],
         \A t \in Tasks : call[t].at = "retry" /\ (t \in Ready \/ t \in Pended) =>
                           t \in Ready' \/ t \in Pended'
  PROVE  NoStrandedWaiter'
<1> SUFFICES ASSUME NEW s \in Sems, sem'[s].count = 1, sem'[s].waiting # <<>>,
                    ~ sem'[s].txLock > 0
             PROVE  \E t \in Tasks : /\ t \in Ready' \/ t \in Pended'
                                     /\ call'[t] = [at |-> "retry", of |-> s]
  BY DEF NoStrandedWaiter, Ready, Pended
<1>1. PICK t \in Tasks : (t \in Ready \/ t \in Pended) /\ call[t] = [at |-> "retry", of |-> s]
  BY DEF NoStrandedWaiter, Ready, Pended
<1>2. call[t].at = "retry"
  BY <1>1
<1> QED
  BY <1>1, <1>2

\* The first of a queue that is woken is made ready, or so it will be.
LEMMA WokenUp ==
  ASSUME ListsOK, PlacesOK, QueuesOK, ShapeOK, NEW s \in Sems, Wake(s), UNCHANGED delayed,
         Alive' = Alive
  PROVE  /\ ListsOK' /\ PlacesOK'
         /\ \A x : x \in Ready => x \in Ready'
         /\ \A x : x \in Asleep' <=> x \in Asleep
         /\ \A x \in Sems : \A t \in Queue(x)' : t \in Queue(x)
         /\ sem'[s].txLock = sem[s].txLock
         /\ \A x \in Sems \ {s} : sem'[x] = sem[x]
         /\ \A x : x \in Pended => x \in Pended'
         /\ sem'[s].waiting # <<>> =>
              \E t \in Tasks : t \in Queue(s) /\ (t \in Ready' \/ t \in Pended')
<1>0. /\ sem' = [sem EXCEPT ![s].count = 1,
                            ![s].waiting = IF @ = <<>> THEN @ ELSE Tail(@)]
  BY DEF Wake
<1>1. /\ DOMAIN sem = Sems /\ DOMAIN sem[s] = {"count", "waiting", "txLock"}
  BY DEF ShapeOK
<1>2. /\ sem'[s].waiting = IF sem[s].waiting = <<>> THEN sem[s].waiting ELSE Tail(sem[s].waiting)
      /\ sem'[s].txLock = sem[s].txLock
      /\ \A x \in Sems \ {s} : sem'[x] = sem[x]
  BY <1>0, <1>1
<1>3. \A x : x \in Asleep' <=> x \in Asleep
  BY DEF Asleep
<1>4. CASE sem[s].waiting = <<>>
  <2>1. UNCHANGED <<ring, pending>>
    BY <1>4 DEF Wake
  <2>2. \A x \in Sems : sem'[x].waiting = sem[x].waiting
    BY <1>2, <1>4
  <2>3. /\ ListsOK' /\ PlacesOK' /\ Ready' = Ready /\ \A x \in Sems : Queue(x)' = Queue(x)
    BY <2>1, <2>2, SamePlaces
  <2>4. Pended' = Pended /\ sem'[s].waiting = <<>>
    BY <1>2, <1>4, <2>1 DEF Pended
  <2> QED
    BY <1>2, <1>3, <2>3, <2>4
<1>5. CASE sem[s].waiting # <<>>
  <2> DEFINE t == Head(sem[s].waiting)
             q == Tail(sem[s].waiting)
  <2>1. /\ t \in Tasks /\ t \in Queue(s) /\ ListOf(Tasks, q)
        /\ \A x : x \in ToSet(q) <=> x \in Queue(s) /\ x # t
    BY <1>5, HeadTail DEF ListsOK, Queue
  <2>2. IF suspended THEN pending' = Append(pending, t) /\ UNCHANGED ring
                     ELSE ring' = Append(ring, t) /\ UNCHANGED pending
    BY <1>5 DEF Wake, InsertEnd
  <2>3. sem'[s].waiting = q
    BY <1>2, <1>5
  <2> HIDE DEF t, q
  <2>4. t \notin Ready /\ t \notin Pended /\ t \notin Asleep
    BY <2>1 DEF PlacesOK
  <2>5. \A x : x \in Queue(s)' <=> x \in Queue(s) /\ x # t
    BY <2>1, <2>3 DEF Queue
  <2>6. \A x \in Sems \ {s} : Queue(x)' = Queue(x)
    BY <1>2 DEF Queue
  <2>7. \A x \in Sems : ListOf(Tasks, sem'[x].waiting)
    BY <1>2, <2>1, <2>3 DEF ListsOK
  <2>8. CASE suspended
    <3>1. ListOf(Tasks, pending') /\ \A x : x \in Pended' <=> x \in Pended \/ x = t
      <4>1. ListOf(Tasks, pending) /\ t \notin ToSet(pending) /\ pending' = Append(pending, t)
        BY <2>2, <2>4, <2>8 DEF ListsOK, Pended
      <4> QED
        BY <2>1, <4>1, Appended DEF Pended
    <3>2. ring' = ring /\ Ready' = Ready
      BY <2>2, <2>8 DEF Ready
    <3>3. ListsOK'
      BY <2>7, <3>1, <3>2 DEF ListsOK
    <3>4. PlacesOK'
      BY <1>3, <2>1, <2>4, <2>5, <2>6, <3>1, <3>2, TaskAssumption DEF PlacesOK, TaskAssumption
    <3> QED
      BY <1>2, <1>3, <2>1, <2>5, <2>6, <3>1, <3>2, <3>3, <3>4
  <2>9. CASE ~ suspended
    <3>1. ListOf(Tasks \cup {End}, ring') /\ \A x : x \in Ready' <=> x \in Ready \/ x = t
      <4>1. /\ ListOf(Tasks \cup {End}, ring) /\ t \notin ToSet(ring) /\ ring' = Append(ring, t)
            /\ t \in Tasks \cup {End}
        BY <2>1, <2>2, <2>4, <2>9 DEF ListsOK, Ready
      <4> QED
        BY <4>1, Appended DEF Ready
    <3>2. pending' = pending /\ Pended' = Pended
      BY <2>2, <2>9 DEF Pended
    <3>3. ListsOK'
      BY <2>7, <3>1, <3>2 DEF ListsOK
    <3>4. PlacesOK'
      BY <1>3, <2>1, <2>4, <2>5, <2>6, <3>1, <3>2, TaskAssumption DEF PlacesOK, TaskAssumption
    <3> QED
      BY <1>2, <1>3, <2>1, <2>5, <2>6, <3>1, <3>2, <3>3, <3>4
  <2> QED
    BY <2>8, <2>9
<1> QED
  BY <1>4, <1>5

-----------------------------------------------------------------------------
(***************************************************************************)
(* Steps of the kernel.                                                    *)
(***************************************************************************)

LEMMA MovesChanges ==
  ASSUME ShapeOK, NEW t \in Tasks, NEW where, Moves(t, where)
  PROVE  /\ call'[t] = [at |-> where, of |-> call[t].of]
         /\ call'[t].at = where /\ call'[t].of = call[t].of
         /\ \A x \in Tasks \ {t} : call'[x] = call[x]
  BY DEF ShapeOK, Moves

\* The running task is in the ready list alone, and no other has suspended the
\* scheduler.
LEMMA Running ==
  ASSUME PlaceInv, NEW t \in Tasks, cur = t, call[t].at \notin {"resume", "yield"}
  PROVE  /\ t \in Ready /\ t \notin Pended /\ t \notin Asleep
         /\ \A s \in Sems : t \notin Queue(s)
         /\ \A x \in Tasks \ {t} : call[x].at \notin {"place", "resume"}
<1>1. t \in Ready
  BY DEF PlaceInv, TurnOK
<1> QED
  BY <1>1 DEF PlaceInv, PlacesOK, CallerOK

LEMMA Untouched ==
  ASSUME PlaceInv, HeldInv',
         UNCHANGED <<cur, ring, daemonReady, suspended, pending, delayed, call>>,
         Alive' = Alive, SignalOK', UnbornOK', UNCHANGED sem
  PROVE  PlaceInv'
<1>1. /\ ListsOK' /\ PlacesOK'
      /\ Ready' = Ready /\ Asleep' = Asleep /\ \A s \in Sems : Queue(s)' = Queue(s)
  BY SamePlaces DEF PlaceInv
<1>2. TurnOK' /\ CallerOK'
  BY <1>1 DEF PlaceInv, TurnOK, CallerOK
<1>3. QueuesOK' /\ LockedOK'
  BY <1>1 DEF PlaceInv, QueuesOK, LockedOK
<1>4. NoStrandedWaiter'
  BY <1>1, SameStranded DEF PlaceInv, Pended
<1> QED
  BY <1>1, <1>2, <1>3, <1>4 DEF PlaceInv

LEMMA AppUntouched ==
  ASSUME PlaceInv, UNCHANGED appVars, \A t \in Tasks : call'[t].of = call[t].of
  PROVE  Alive' = Alive /\ UnbornOK' /\ SignalOK'
<1>1. pc' = pc /\ spawned' = spawned
  BY DEF appVars
<1> QED
  BY <1>1 DEF PlaceInv, Alive, UnbornOK, SignalOK

\* The running task is in no queue.
LEMMA SameQueues ==
  ASSUME PlaceInv, NEW t \in Tasks, \A s \in Sems : t \notin Queue(s),
         \A x \in Tasks \ {t} : call'[x] = call[x],
         \A s \in Sems : \A x \in Queue(s)' : x \in Queue(s)
  PROVE  QueuesOK'
<1>1. \A s \in Sems : \A x \in Queue(s) : x \in Tasks
  <2>1. \A s \in Sems : sem[s].waiting \in Seq(Tasks)
    BY DEF PlaceInv, ListsOK, ListOf
  <2> QED
    BY <2>1, Entries DEF Queue
<1> QED
  BY <1>1 DEF PlaceInv, QueuesOK

LEMMA LockQueuePlaced ==
  ASSUME PlaceInv, HeldInv', NEW t \in Tasks, LockQueue(t), UNCHANGED appVars
  PROVE  PlaceInv'
<1> DEFINE s == call[t].of
<1>1. /\ cur = t /\ call[t].at = "lock" /\ s \in Sems /\ ShapeOK
      /\ UNCHANGED <<pending, delayed>>
  BY DEF LockQueue, At, PlaceInv, HeldInv, CallsOK, ShapeOK
<1>2. /\ t \in Ready /\ t # Idle
      /\ \A x \in Sems : t \notin Queue(x)
      /\ \A x \in Tasks \ {t} : call[x].at \notin {"place", "resume"}
  BY <1>1, Running DEF PlaceInv, CallerOK
<1>3. CASE IsEmpty(s)
  <2>1. /\ suspended' = TRUE /\ Moves(t, "place") /\ UNCHANGED <<ring, cur, daemonReady>>
        /\ sem' = [sem EXCEPT ![s].txLock = 0] /\ sem[s].count = 0
    BY <1>3 DEF LockQueue, IsEmpty, readyVars
  <2>2. /\ call'[t].at = "place" /\ call'[t].of = s
        /\ \A x \in Tasks \ {t} : call'[x] = call[x]
    BY <1>1, <2>1, MovesChanges
  <2>3. /\ sem'[s].txLock = 0 /\ sem'[s].count = 0
        /\ \A x \in Sems : sem'[x].waiting = sem[x].waiting
        /\ \A x \in Sems \ {s} : sem'[x] = sem[x]
    BY <1>1, <2>1 DEF ShapeOK
  <2>4. Alive' = Alive /\ UnbornOK' /\ SignalOK'
    BY <2>2, AppUntouched
  <2>5. /\ ListsOK' /\ PlacesOK'
        /\ Ready' = Ready /\ Asleep' = Asleep /\ \A x \in Sems : Queue(x)' = Queue(x)
    BY <1>1, <2>1, <2>3, <2>4, SamePlaces DEF PlaceInv
  <2>6. TurnOK' /\ CallerOK'
    BY <1>1, <1>2, <2>1, <2>2, <2>5, Named DEF PlaceInv, TurnOK, CallerOK
  <2>7. QueuesOK'
    BY <1>2, <2>2, <2>5, SameQueues
  <2>8. LockedOK'
    BY <1>2, <2>2, <2>3 DEF PlaceInv, LockedOK
  <2>9. NoStrandedWaiter'
    <3>1. \A x \in Sems : sem'[x].count = 1 => sem'[x] = sem[x]
      BY <2>3
    <3>2. \A x \in Tasks : call[x].at = "retry" => call'[x] = call[x]
      BY <1>1, <2>2
    <3>3. Pended' = Pended
      BY <1>1 DEF Pended
    <3> QED
      BY <2>5, <3>1, <3>2, <3>3, SameStranded DEF PlaceInv
  <2> QED
    BY <2>4, <2>5, <2>6, <2>7, <2>8, <2>9 DEF PlaceInv
<1>4. CASE ~ IsEmpty(s)
  <2>1. /\ SwitchFrom(ring, daemonReady) \/ UNCHANGED <<ring, cur, daemonReady>>
        /\ Moves(t, "retry") /\ UNCHANGED <<suspended, sem>>
    BY <1>4 DEF LockQueue, readyVars
  <2>2. /\ call'[t].at = "retry" /\ call'[t].of = s
        /\ \A x \in Tasks \ {t} : call'[x] = call[x]
    BY <1>1, <2>1, MovesChanges
  <2>4. Alive' = Alive /\ UnbornOK' /\ SignalOK'
    BY <2>2, AppUntouched
  <2>5. /\ ListOf(Tasks \cup {End}, ring')
        /\ \A x : x \in Ready' <=> x \in Ready
        /\ daemonReady' <=> daemonReady
        /\ \/ cur' = cur
           \/ daemonReady' /\ cur' = Daemon
           \/ cur' \in Tasks /\ cur' \in Ready'
    <3>1. CASE UNCHANGED <<ring, cur, daemonReady>>
      BY <3>1 DEF PlaceInv, ListsOK, Ready
    <3>2. CASE SwitchFrom(ring, daemonReady)
      <4>1. ListOf(Tasks \cup {End}, ring) /\ Idle \in ToSet(ring)
        BY DEF PlaceInv, ListsOK, PlacesOK, Ready
      <4> DEFINE d == daemonReady
      <4>2. SwitchFrom(ring, d)
        BY <3>2
      <4> HIDE DEF d
      <4>3. /\ ListOf(Tasks \cup {End}, ring')
            /\ \A x : x \in Ready' <=> x \in Ready
            /\ daemonReady' = d
            /\ d => cur' = Daemon
            /\ ~ d => cur' \in Tasks /\ cur' \in Ready'
        BY <4>1, <4>2, Switched DEF Ready
      <4>4. daemonReady' <=> d
        BY <4>3
      <4> QED
        BY <4>3, <4>4 DEF d
    <3> QED
      BY <2>1, <3>1, <3>2
  <2>6. ListsOK' /\ Asleep' = Asleep /\ Pended' = Pended /\ \A x \in Sems : Queue(x)' = Queue(x)
    BY <1>1, <2>1, <2>5 DEF PlaceInv, ListsOK, Asleep, Pended, Queue
  <2>7. PlacesOK'
    BY <2>4, <2>5, <2>6 DEF PlaceInv, PlacesOK
  <2>8. TurnOK'
    BY <1>1, <1>2, <2>2, <2>5, <2>6, TaskAssumption DEF PlaceInv, TurnOK, TaskAssumption
  <2>9. CallerOK'
    BY <1>2, <2>2, Named DEF PlaceInv, CallerOK
  <2>10. QueuesOK' /\ LockedOK'
    BY <1>2, <2>1, <2>2, <2>6, SameQueues DEF PlaceInv, LockedOK
  <2>11. NoStrandedWaiter'
    <3>1. \A x \in Tasks : call[x].at = "retry" => call'[x] = call[x]
      BY <1>1, <2>2
    <3> QED
      BY <2>1, <2>5, <2>6, <3>1, SameStranded DEF PlaceInv
  <2> QED
    BY <2>4, <2>6, <2>7, <2>8, <2>9, <2>10, <2>11 DEF PlaceInv
<1> QED
  BY <1>3, <1>4

\* Giving, by the running task or an interrupt.
LEMMA GivePlaced ==
  ASSUME PlaceInv, HeldInv', NEW s \in Sems, Give(s),
         UNCHANGED <<cur, daemonReady, suspended, delayed, call>>,
         sem[s].count = 0 => \A t \in Tasks : call[t].at = "place" => call[t].of # s,
         Alive' = Alive, SignalOK', UnbornOK'
  PROVE  PlaceInv'
<1>1. CASE sem[s].count = 0
  <2>1. Wake(s)
    BY <1>1 DEF Give
  <2>2. /\ ListsOK' /\ PlacesOK'
        /\ \A x : x \in Ready => x \in Ready'
        /\ \A x : x \in Asleep' <=> x \in Asleep
        /\ \A x \in Sems : \A t \in Queue(x)' : t \in Queue(x)
        /\ sem'[s].txLock = sem[s].txLock
        /\ \A x \in Sems \ {s} : sem'[x] = sem[x]
        /\ \A x : x \in Pended => x \in Pended'
        /\ sem'[s].waiting # <<>> =>
             \E t \in Tasks : t \in Queue(s) /\ (t \in Ready' \/ t \in Pended')
    BY <2>1, WokenUp DEF PlaceInv, HeldInv
  <2>3. TurnOK' /\ CallerOK'
    BY <2>2 DEF PlaceInv, TurnOK, CallerOK
  <2>4. QueuesOK'
    BY <2>2 DEF PlaceInv, QueuesOK
  <2>5. LockedOK'
    <3>1. \A t \in Tasks : call[t].at = "place" => call[t].of \in Sems \ {s}
      BY <1>1 DEF PlaceInv, HeldInv, CallsOK, ShapeOK
    <3> QED
      BY <2>2, <3>1 DEF PlaceInv, LockedOK
  <2>6. NoStrandedWaiter'
    <3> SUFFICES ASSUME NEW x \in Sems, sem'[x].count = 1, sem'[x].waiting # <<>>,
                        ~ sem'[x].txLock > 0
                 PROVE  \E t \in Tasks : /\ t \in Ready' \/ t \in Pended'
                                         /\ call'[t] = [at |-> "retry", of |-> x]
      BY DEF NoStrandedWaiter, Ready, Pended
    <3>1. CASE x = s
      <4>1. PICK t \in Tasks : t \in Queue(s) /\ (t \in Ready' \/ t \in Pended')
        BY <2>2, <3>1
      <4>2. call[t] = [at |-> "retry", of |-> s]
        BY <4>1 DEF PlaceInv, QueuesOK
      <4> QED
        BY <3>1, <4>1, <4>2
    <3>2. CASE x # s
      <4>1. sem'[x] = sem[x]
        BY <2>2, <3>2
      <4>2. PICK t \in Tasks : /\ t \in Ready \/ t \in Pended
                               /\ call[t] = [at |-> "retry", of |-> x]
        BY <4>1 DEF PlaceInv, NoStrandedWaiter, Ready, Pended
      <4> QED
        BY <2>2, <4>2
    <3> QED
      BY <3>1, <3>2
  <2> QED
    BY <2>2, <2>3, <2>4, <2>5, <2>6 DEF PlaceInv
<1>2. CASE sem[s].count # 0
  <2>1. UNCHANGED <<sem, ring, pending>>
    BY <1>2 DEF Give
  <2> QED
    BY <2>1, Untouched
<1> QED
  BY <1>1, <1>2

LEMMA InterruptPlaced ==
  ASSUME PlaceInv, HeldInv', NEW s \in Sems, GiveFromISR(s), UNCHANGED <<pc, spawned>>
  PROVE  PlaceInv'
<1>1. UNCHANGED <<cur, daemonReady, suspended, delayed, call>>
  BY DEF GiveFromISR, tickVars
<1>2. Alive' = Alive /\ UnbornOK' /\ SignalOK'
  BY <1>1 DEF PlaceInv, Alive, UnbornOK, SignalOK
<1>3. CASE sem[s].txLock = Unlocked \/ sem[s].count = 1
  <2>1. Give(s)
    BY <1>3 DEF GiveFromISR
  <2>2. sem[s].count = 0 => \A t \in Tasks : call[t].at = "place" => call[t].of # s
    BY <1>3 DEF PlaceInv, LockedOK, Unlocked
  <2> QED
    BY <1>1, <1>2, <2>1, <2>2, GivePlaced
<1>4. CASE ~ (sem[s].txLock = Unlocked \/ sem[s].count = 1)
  <2>1. /\ sem' = [sem EXCEPT ![s].count = 1,
                              ![s].txLock = IF @ < Cardinality(Tasks) THEN @ + 1 ELSE @]
        /\ UNCHANGED <<ring, pending>>
    BY <1>4 DEF GiveFromISR, CountLocked
  <2>2. Cardinality(Tasks) \in Nat /\ Cardinality(Tasks) > 0
    <3>1. IsFiniteSet(Tasks) /\ Tasks # {}
      BY TaskAssumption DEF TaskAssumption
    <3> QED
      BY <3>1, FS_EmptySet, FS_CardinalityType
  <2>3. sem[s].txLock \in Nat
    BY <1>4 DEF PlaceInv, LockedOK
  <2>4. /\ \A x \in Sems : sem'[x].waiting = sem[x].waiting
        /\ sem'[s].txLock \in Nat /\ sem'[s].txLock > 0
        /\ \A x \in Sems \ {s} : sem'[x] = sem[x]
    <3>1. DOMAIN sem = Sems /\ DOMAIN sem[s] = {"count", "waiting", "txLock"}
      BY DEF PlaceInv, HeldInv, ShapeOK
    <3> QED
      BY <2>1, <2>2, <2>3, <3>1
  <2>5. /\ ListsOK' /\ PlacesOK'
        /\ Ready' = Ready /\ Asleep' = Asleep /\ \A x \in Sems : Queue(x)' = Queue(x)
    BY <1>1, <1>2, <2>1, <2>4, SamePlaces DEF PlaceInv
  <2>6. TurnOK' /\ CallerOK'
    BY <1>1, <2>5 DEF PlaceInv, TurnOK, CallerOK
  <2>7. QueuesOK'
    BY <1>1, <2>5 DEF PlaceInv, QueuesOK
  <2>8. LockedOK'
    <3>1. \A t \in Tasks : call[t].at = "place" => call[t].of \in Sems
      BY DEF PlaceInv, HeldInv, CallsOK, ShapeOK
    <3> QED
      BY <1>1, <2>4, <3>1 DEF PlaceInv, LockedOK
  <2>9. NoStrandedWaiter'
    <3>1. \A x \in Sems : sem'[x] = sem[x] \/ sem'[x].txLock > 0
      BY <2>4
    <3>2. Pended' = Pended
      BY <2>1 DEF Pended
    <3> QED
      BY <1>1, <2>5, <3>1, <3>2, SameStranded DEF PlaceInv
  <2> QED
    BY <1>2, <2>5, <2>6, <2>7, <2>8, <2>9 DEF PlaceInv
<1> QED
  BY <1>3, <1>4

\* The running task takes a semaphore or begins to wait for it.
LEMMA TakePlaced ==
  ASSUME PlaceInv, HeldInv', NEW t \in Tasks, NEW s \in Sems, cur = t,
         call[t].at = "none" \/ (call[t].at = "retry" /\ call[t].of = s), t # Idle, Take(t, s),
         Alive' = Alive, SignalOK', UnbornOK'
  PROVE  PlaceInv'
<1>1. /\ t \in Ready
      /\ \A x \in Sems : t \notin Queue(x)
      /\ \A x \in Tasks \ {t} : call[x].at \notin {"place", "resume"}
  BY Running
<1>2. UNCHANGED <<ring, cur, daemonReady, suspended, delayed, pending>>
  BY DEF Take, readyVars, tickVars
<1>3. /\ call'[t].at \in {"none", "lock"}
      /\ \A x \in Tasks \ {t} : call'[x] = call[x]
  BY DEF Take, PlaceInv, HeldInv, ShapeOK
<1>4. \A x \in Sems : sem'[x].waiting = sem[x].waiting /\ sem'[x].txLock = sem[x].txLock
  BY DEF Take, PlaceInv, HeldInv, ShapeOK
<1>5. /\ ListsOK' /\ PlacesOK'
      /\ Ready' = Ready /\ Asleep' = Asleep /\ \A x \in Sems : Queue(x)' = Queue(x)
  BY <1>2, <1>4, SamePlaces DEF PlaceInv
<1>6. TurnOK' /\ CallerOK'
  BY <1>1, <1>2, <1>3, <1>5, Named DEF PlaceInv, TurnOK, CallerOK
<1>7. QueuesOK'
  BY <1>1, <1>3, <1>5, SameQueues
<1>8. LockedOK'
  BY <1>1, <1>3, <1>4 DEF PlaceInv, LockedOK
<1>9. NoStrandedWaiter'
  <2> SUFFICES ASSUME NEW x \in Sems, sem'[x].count = 1, sem'[x].waiting # <<>>,
                      ~ sem'[x].txLock > 0
               PROVE  \E y \in Tasks : /\ y \in Ready' \/ y \in Pended'
                                       /\ call'[y] = [at |-> "retry", of |-> x]
    BY DEF NoStrandedWaiter, Ready, Pended
  <2>1. x # s /\ sem'[x] = sem[x]
    BY DEF Take, PlaceInv, HeldInv, ShapeOK
  <2>2. PICK y \in Tasks : (y \in Ready \/ y \in Pended) /\ call[y] = [at |-> "retry", of |-> x]
    BY <2>1 DEF PlaceInv, NoStrandedWaiter, Ready, Pended
  <2>3. call[y].at = "retry" /\ call[y].of = x
    BY <2>2
  <2>4. y # t
    BY <2>1, <2>3
  <2>5. Pended' = Pended
    BY <1>2 DEF Pended
  <2> QED
    BY <1>3, <1>5, <2>2, <2>4, <2>5
<1> QED
  BY <1>5, <1>6, <1>7, <1>8, <1>9 DEF PlaceInv

\* Nothing but the running task changes: whoever runs next is ready.
LEMMA TurnPassed ==
  ASSUME TaskAssumption, \A x : x \in Asleep' => x \in Asleep,
         daemonReady => Daemon \notin Asleep,
         daemonReady' <=> daemonReady \/ (Daemon \in Asleep /\ Daemon \notin Asleep'),
         \/ daemonReady' /\ cur' = Daemon
         \/ ~ daemonReady' /\ cur' \in Tasks /\ cur' \in Ready'
  PROVE  TurnOK'
  BY DEF TurnOK, TaskAssumption

\* The queue of s with t at its end; how many of it have been given the
\* semaphore meanwhile; they, and the others, who stay.
Line(t, s) == Append(sem[s].waiting, t)
Given(t, s) == Min({sem[s].txLock, Len(Line(t, s))})
Out(t, s) == SubSeq(Line(t, s), 1, Given(t, s))
Rest(t, s) == SubSeq(Line(t, s), Given(t, s) + 1, Len(Line(t, s)))

\* The ready list the running task leaves behind when it goes to sleep in the
\* queue: the others, those that were pending and those woken meanwhile.
Left(t, s) == ListRemove(ring, t) \o pending \o Out(t, s)

LEMMA PlaceLists ==
  ASSUME PlaceInv, NEW t \in Tasks, NEW s, s = call[t].of, At(t, "place")
  PROVE  /\ ListOf(Tasks, Line(t, s)) /\ \A x : x \in ToSet(Line(t, s)) <=> x \in Queue(s) \/ x = t
         /\ Given(t, s) \in 0 .. Len(Line(t, s)) /\ (sem[s].txLock > 0 => Given(t, s) > 0)
         /\ ListOf(Tasks, Out(t, s)) /\ ListOf(Tasks, Rest(t, s)) /\ Len(Out(t, s)) = Given(t, s)
         /\ \A x : x \in ToSet(Line(t, s)) <=> x \in ToSet(Out(t, s)) \/ x \in ToSet(Rest(t, s))
         /\ \A x \in ToSet(Out(t, s)) : x \notin ToSet(Rest(t, s))
         /\ ListOf(Tasks \cup {End}, ListRemove(ring, t))
         /\ \A x : x \in ToSet(ListRemove(ring, t)) <=> x \in Ready /\ x # t
         /\ ListOf(Tasks \cup {End}, pending) /\ ListOf(Tasks \cup {End}, Out(t, s))
         /\ ListOf(Tasks \cup {End}, Left(t, s))
         /\ \A x : x \in ToSet(Left(t, s)) <=> \/ x \in Ready /\ x # t
                                               \/ x \in Pended
                                               \/ x \in ToSet(Out(t, s))
<1> DEFINE w == Line(t, s)
           n == Given(t, s)
           out == Out(t, s)
           rest == Rest(t, s)
           own == ListRemove(ring, t)
           r == Left(t, s)
<1> HIDE DEF w, n, out, rest, own, r
<1>1. /\ cur = t /\ call[t].at = "place" /\ s \in Sems /\ ShapeOK
      /\ sem[s].txLock \in Nat
  <2>1. cur = t /\ call[t].at = "place" /\ s \in Sems /\ ShapeOK
    BY DEF At, PlaceInv, HeldInv, CallsOK, ShapeOK
  <2>2. sem[s].txLock \in Nat
    BY <2>1 DEF PlaceInv, LockedOK, Unlocked
  <2> QED
    BY <2>1, <2>2
<1>2. /\ t \in Ready /\ t # End /\ t \notin Pended /\ t \notin Asleep
      /\ \A x \in Sems : t \notin Queue(x)
  BY <1>1, Running, TaskAssumption DEF TaskAssumption
<1>3. ListOf(Tasks, w) /\ \A x : x \in ToSet(w) <=> x \in Queue(s) \/ x = t
  <2>1. ListOf(Tasks, sem[s].waiting) /\ t \notin ToSet(sem[s].waiting)
    BY <1>1, <1>2 DEF PlaceInv, ListsOK, Queue
  <2> QED
    BY <2>1, Appended DEF Queue, w, Line
<1>4. n \in 0 .. Len(w) /\ (sem[s].txLock > 0 => n > 0)
  <2> DEFINE k == sem[s].txLock
             l == Len(w)
  <2>0. k \in Nat /\ l \in Nat
    BY <1>1, <1>3 DEF ListOf
  <2>1. k \in Nat /\ l \in Nat /\ l > 0
    <3>1. w # <<>>
      <4>1. t \in ToSet(w)
        BY <1>3
      <4> QED
        BY <4>1, Empty
    <3> QED
      BY <1>3, <2>0, <3>1 DEF ListOf
  <2> HIDE DEF k, l
  <2>2. {k, l} \in SUBSET Nat /\ {k, l} # {}
    BY <2>1
  <2>3. Min({k, l}) \in {k, l} /\ \A y \in {k, l} : Min({k, l}) <= y
    BY <2>2, LeastExists
  <2>4. Min({k, l}) \in 0 .. l /\ (k > 0 => Min({k, l}) > 0)
    BY <2>1, <2>3
  <2> QED
    BY <2>4 DEF k, l, n, Given, w
<1>5. /\ ListOf(Tasks, out) /\ ListOf(Tasks, rest) /\ Len(out) = n
      /\ \A x : x \in ToSet(w) <=> x \in ToSet(out) \/ x \in ToSet(rest)
      /\ \A x \in ToSet(out) : x \notin ToSet(rest)
  <2> DEFINE m == n + 1
  <2>1. m = n + 1
    OBVIOUS
  <2> HIDE DEF m
  <2>2. /\ ListOf(Tasks, SubSeq(w, 1, n)) /\ ListOf(Tasks, SubSeq(w, m, Len(w)))
        /\ Len(SubSeq(w, 1, n)) = n
        /\ \A x : x \in ToSet(w) <=> \/ x \in ToSet(SubSeq(w, 1, n))
                                    \/ x \in ToSet(SubSeq(w, m, Len(w)))
        /\ \A x \in ToSet(SubSeq(w, 1, n)) : x \notin ToSet(SubSeq(w, m, Len(w)))
    BY <1>3, <1>4, <2>1, Cut
  <2> QED
    BY <2>2 DEF m, out, rest, Out, Rest, w, n
<1>6. ListOf(Tasks \cup {End}, own) /\ \A x : x \in ToSet(own) <=> x \in Ready /\ x # t
  <2>1. ListOf(Tasks \cup {End}, ring) /\ t \in ToSet(ring) /\ End \in ToSet(ring) /\ End # t
    BY <1>2 DEF PlaceInv, ListsOK, PlacesOK, Ready
  <2> QED
    BY <2>1, Removed DEF Ready, own
<1>7. ListOf(Tasks \cup {End}, pending) /\ ListOf(Tasks \cup {End}, out)
  <2>1. ListOf(Tasks, pending)
    BY DEF PlaceInv, ListsOK
  <2>2. \A x \in ToSet(pending) : x \in Tasks \cup {End}
    BY <2>1, Entries DEF ListOf
  <2>3. \A x \in ToSet(out) : x \in Tasks \cup {End}
    BY <1>5, Entries DEF ListOf
  <2> QED
    BY <1>5, <2>1, <2>2, <2>3, Narrowed
<1>8. /\ ListOf(Tasks \cup {End}, own \o pending)
      /\ \A x : x \in ToSet(own \o pending) <=> x \in ToSet(own) \/ x \in Pended
  <2>1. \A x \in ToSet(own) : x \notin ToSet(pending)
    BY <1>6 DEF PlaceInv, PlacesOK, Pended
  <2> QED
    BY <1>6, <1>7, <2>1, Joined DEF Pended
<1>9. /\ ListOf(Tasks \cup {End}, r)
      /\ \A x : x \in ToSet(r) <=> \/ x \in Ready /\ x # t
                                   \/ x \in Pended
                                   \/ x \in ToSet(out)
  <2>1. \A x \in ToSet(own \o pending) : x \notin ToSet(out)
    BY <1>1, <1>2, <1>3, <1>5, <1>6, <1>8 DEF PlaceInv, PlacesOK
  <2>2. /\ ListOf(Tasks \cup {End}, (own \o pending) \o out)
        /\ \A x : x \in ToSet((own \o pending) \o out) <=>
                  x \in ToSet(own \o pending) \/ x \in ToSet(out)
    BY <1>7, <1>8, <2>1, Joined
  <2> QED
    BY <1>6, <1>8, <2>2 DEF r, Left, out, own
<1> QED
  BY <1>3, <1>4, <1>5, <1>6, <1>7, <1>9 DEF w, n, out, rest, own, r

LEMMA PlacePlaced ==
  ASSUME PlaceInv, HeldInv', NEW t \in Tasks, NEW s, s = call[t].of, Place(t), UNCHANGED appVars
  PROVE  PlaceInv'
<1> DEFINE w == Line(t, s)
           n == Given(t, s)
           out == Out(t, s)
           rest == Rest(t, s)
           own == ListRemove(ring, t)
           r == Left(t, s)
<1>1. /\ cur = t /\ call[t].at = "place" /\ s \in Sems /\ ShapeOK
      /\ sem[s].txLock \in Nat
  <2>1. cur = t /\ call[t].at = "place" /\ s \in Sems /\ ShapeOK
    BY DEF Place, At, PlaceInv, HeldInv, CallsOK, ShapeOK
  <2>2. sem[s].txLock \in Nat
    BY <2>1 DEF PlaceInv, LockedOK, Unlocked
  <2> QED
    BY <2>1, <2>2
<1>2. /\ sem' = [sem EXCEPT ![s].txLock = Unlocked, ![s].waiting = rest]
      /\ CatchUp(r) /\ suspended' = FALSE /\ pending' = <<>> /\ Moves(t, "retry")
  <2>1. /\ sem' = [sem EXCEPT ![s].txLock = Unlocked, ![s].waiting = rest]
        /\ ResumeAll(r) /\ Moves(t, "retry")
    BY Zenon DEF Place, Line, Given, Out, Rest, Left
  <2> HIDE DEF r, rest
  <2> QED
    BY <2>1 DEF ResumeAll
<1>3. /\ t \in Ready /\ t # Idle /\ t # End /\ t \notin Pended /\ t \notin Asleep
      /\ \A x \in Sems : t \notin Queue(x)
      /\ \A x \in Tasks \ {t} : call[x].at \notin {"place", "resume"}
  BY <1>1, Running, TaskAssumption DEF PlaceInv, CallerOK, TaskAssumption
<1>4. /\ call'[t].at = "retry" /\ call'[t].of = s /\ call'[t] = [at |-> "retry", of |-> s]
      /\ \A x \in Tasks \ {t} : call'[x] = call[x]
  BY <1>1, <1>2, MovesChanges
<1>5. Alive' = Alive /\ UnbornOK' /\ SignalOK'
  BY <1>4, AppUntouched
<1>6. /\ sem'[s].waiting = rest /\ sem'[s].txLock = Unlocked
      /\ \A x \in Sems \ {s} : sem'[x] = sem[x]
  BY <1>1, <1>2 DEF ShapeOK
<1>7. /\ ListOf(Tasks, w) /\ \A x : x \in ToSet(w) <=> x \in Queue(s) \/ x = t
      /\ n \in 0 .. Len(w) /\ (sem[s].txLock > 0 => n > 0)
      /\ ListOf(Tasks, out) /\ ListOf(Tasks, rest) /\ Len(out) = n
      /\ \A x : x \in ToSet(w) <=> x \in ToSet(out) \/ x \in ToSet(rest)
      /\ \A x \in ToSet(out) : x \notin ToSet(rest)
      /\ ListOf(Tasks \cup {End}, own) /\ \A x : x \in ToSet(own) <=> x \in Ready /\ x # t
      /\ ListOf(Tasks \cup {End}, pending) /\ ListOf(Tasks \cup {End}, out)
      /\ ListOf(Tasks \cup {End}, r)
      /\ \A x : x \in ToSet(r) <=> \/ x \in Ready /\ x # t
                                   \/ x \in Pended
                                   \/ x \in ToSet(out)
  <2>1. At(t, "place")
    BY DEF Place
  <2> QED
    BY <2>1, PlaceLists
<1> HIDE DEF w, n, out, rest, own, r
<1>8. /\ ListOf(Tasks \cup {End}, ring') /\ DelayedOK(delayed')
      /\ \A x : x \in Asleep' => x \in Asleep
      /\ \A x : x \in Ready' <=>
                 x \in ToSet(r) \/ (x \in Asleep /\ x \notin Asleep' /\ x # Daemon)
      /\ daemonReady' <=> daemonReady \/ (Daemon \in Asleep /\ Daemon \notin Asleep')
      /\ \/ daemonReady' /\ cur' = Daemon
         \/ ~ daemonReady' /\ cur' \in Tasks /\ cur' \in Ready'
  <2>1. \A x \in ToSet(r) : x \notin Asleep
    BY <1>1, <1>3, <1>7 DEF PlaceInv, PlacesOK
  <2>2. Idle \in ToSet(r) /\ DelayedOK(delayed)
    BY <1>3, <1>7 DEF PlaceInv, PlacesOK, ListsOK
  <2> QED
    BY <1>2, <1>7, <2>1, <2>2, CaughtUp
<1>9. ListOf(Tasks, pending') /\ \A x : x \notin Pended'
  <2>1. pending' = <<>>
    BY <1>2
  <2> QED
    BY <2>1, Empty DEF Pended
<1>10. /\ \A x : x \in Queue(s)' <=> x \in ToSet(rest)
       /\ \A x \in Sems \ {s} : Queue(x)' = Queue(x)
       /\ \A x \in Sems : ListOf(Tasks, sem'[x].waiting)
  <2>1. \A x \in Sems : ListOf(Tasks, sem[x].waiting)
    BY DEF PlaceInv, ListsOK
  <2>2. \A x \in Sems : Queue(x)' = ToSet(sem'[x].waiting) /\ Queue(x) = ToSet(sem[x].waiting)
    BY DEF Queue
  <2>3. \A x \in Sems \ {s} : Queue(x)' = Queue(x) /\ ListOf(Tasks, sem'[x].waiting)
    BY <1>6, <2>1, <2>2
  <2>4. Queue(s)' = ToSet(rest) /\ ListOf(Tasks, sem'[s].waiting)
    BY <1>1, <1>6, <1>7, <2>2
  <2> QED
    BY <2>3, <2>4
<1>11. ListsOK'
  BY <1>8, <1>9, <1>10 DEF ListsOK
<1>12. PlacesOK'
  BY <1>1, <1>3, <1>5, <1>7, <1>8, <1>9, <1>10, TaskAssumption
  DEF PlaceInv, PlacesOK, TaskAssumption
<1>13. TurnOK'
  BY <1>8, TurnPassed, TaskAssumption DEF PlaceInv, TurnOK
<1>14. CallerOK'
  BY <1>3, <1>4, Named DEF PlaceInv, CallerOK
<1>15. QueuesOK'
  <2>1. \A x \in Sems : \A y \in Queue(x)' : y \in Queue(x) \/ (y = t /\ x = s)
    <3>1. \A y \in Queue(s)' : y \in Queue(s) \/ y = t
      BY <1>7, <1>10
    <3> QED
      BY <1>10, <3>1
  <2>2. \A x \in Sems : \A y \in Queue(x) : y \in Tasks
    <3>1. \A x \in Sems : sem[x].waiting \in Seq(Tasks)
      BY DEF PlaceInv, ListsOK, ListOf
    <3> QED
      BY <3>1, Entries DEF Queue
  <2> QED
    BY <1>3, <1>4, <2>1, <2>2 DEF PlaceInv, QueuesOK
<1>16. LockedOK'
  <2>1. Unlocked \in Nat \cup {Unlocked}
    OBVIOUS
  <2> QED
    BY <1>3, <1>4, <1>6, <2>1 DEF PlaceInv, LockedOK
<1>17. NoStrandedWaiter'
  <2> SUFFICES ASSUME NEW x \in Sems, sem'[x].count = 1, sem'[x].waiting # <<>>
               PROVE  \/ sem'[x].txLock > 0
                      \/ \E y \in Tasks : /\ y \in Ready' \/ y \in Pended'
                                          /\ call'[y] = [at |-> "retry", of |-> x]
    BY DEF NoStrandedWaiter, Ready, Pended
  <2>1. CASE x = s
    <3>1. sem[s].txLock > 0
      BY <1>1, <1>2, <2>1 DEF PlaceInv, LockedOK, ShapeOK
    <3>2. PICK y : y \in ToSet(out)
      <4>1. n \in Nat /\ n > 0
        BY <1>7, <3>1 DEF ListOf
      <4>2. out \in Seq(Tasks) /\ 1 \in 1 .. Len(out)
        BY <1>7, <4>1 DEF ListOf
      <4>3. out[1] \in ToSet(out)
        BY <4>2, Entries
      <4> QED
        BY <4>3
    <3>3. y \in Tasks /\ (y \in Queue(s) \/ y = t) /\ y \in Ready'
      BY <1>7, <1>8, <3>2, Entries DEF ListOf
    <3>4. call'[y] = [at |-> "retry", of |-> s]
      <4>1. CASE y = t
        BY <1>4, <4>1
      <4>2. CASE y \in Queue(s)
        <5>1. call[y] = [at |-> "retry", of |-> s]
          BY <1>1, <4>2 DEF PlaceInv, QueuesOK
        <5>2. y # t
          BY <1>1, <1>3, <4>2
        <5> QED
          BY <1>4, <3>3, <5>1, <5>2
      <4> QED
        BY <3>3, <4>1, <4>2
    <3> QED
      BY <2>1, <3>3, <3>4
  <2>2. CASE x # s
    <3>1. sem'[x] = sem[x]
      BY <1>6, <2>2
    <3>2. CASE sem[x].txLock > 0
      BY <3>1, <3>2
    <3>3. CASE ~ sem[x].txLock > 0
      <4>1. PICK y \in Tasks : /\ y \in Ready \/ y \in Pended
                               /\ call[y] = [at |-> "retry", of |-> x]
        BY <3>1, <3>3 DEF PlaceInv, NoStrandedWaiter, Ready, Pended
      <4>2. call[y].at = "retry"
        BY <4>1
      <4>3. y # t /\ call'[y] = call[y]
        BY <1>1, <1>4, <4>2
      <4>4. y \in Ready'
        BY <1>7, <1>8, <4>1, <4>3
      <4> QED
        BY <4>1, <4>3, <4>4
    <3> QED
      BY <3>2, <3>3
  <2> QED
    BY <2>1, <2>2
<1> QED
  BY <1>5, <1>17, <1>11, <1>12, <1>13, <1>14, <1>15, <1>16 DEF PlaceInv

\* No entry of a queue changes.
LEMMA QueuesKept ==
  ASSUME UNCHANGED sem
  PROVE  \A s \in Sems : Queue(s)' = Queue(s)
  BY DEF Queue

LEMMA ResumePlaced ==
  ASSUME PlaceInv, HeldInv', NEW t \in Tasks, Resume(t), UNCHANGED appVars
  PROVE  PlaceInv'
<1> DEFINE r == ring \o pending
<1>1. /\ cur = t /\ call[t].at = "resume" /\ ShapeOK /\ sem' = sem
      /\ Moves(t, "none") /\ CatchUp(r) /\ suspended' = FALSE /\ pending' = <<>>
  BY DEF Resume, ResumeAll, At, PlaceInv, HeldInv
<1>2. /\ t \in Asleep /\ t # Idle
      /\ \A x \in Tasks \ {t} : call[x].at \notin {"place", "resume"}
      /\ \A s \in Sems : t \notin Queue(s)
  BY <1>1 DEF PlaceInv, CallerOK, PlacesOK
<1>3. /\ call'[t].at = "none" /\ call'[t].of = call[t].of
      /\ \A x \in Tasks \ {t} : call'[x] = call[x]
  BY <1>1, MovesChanges
<1>4. Alive' = Alive /\ UnbornOK' /\ SignalOK'
  BY <1>3, AppUntouched
<1>5. /\ ListOf(Tasks \cup {End}, r)
      /\ \A x : x \in ToSet(r) <=> x \in Ready \/ x \in Pended
  <2>1. ListOf(Tasks, pending) /\ ListOf(Tasks \cup {End}, ring)
    BY DEF PlaceInv, ListsOK
  <2>2. \A x \in ToSet(pending) : x \in Tasks \cup {End}
    BY <2>1, Entries DEF ListOf
  <2>3. ListOf(Tasks \cup {End}, pending)
    BY <2>1, <2>2, Narrowed
  <2>4. \A x \in ToSet(ring) : x \notin ToSet(pending)
    BY DEF PlaceInv, PlacesOK, Ready, Pended
  <2> QED
    BY <2>1, <2>3, <2>4, Joined DEF Ready, Pended
<1> HIDE DEF r
<1>6. /\ ListOf(Tasks \cup {End}, ring') /\ DelayedOK(delayed')
      /\ \A x : x \in Asleep' => x \in Asleep
      /\ \A x : x \in Ready' <=>
                x \in ToSet(r) \/ (x \in Asleep /\ x \notin Asleep' /\ x # Daemon)
      /\ daemonReady' <=> daemonReady \/ (Daemon \in Asleep /\ Daemon \notin Asleep')
      /\ \/ daemonReady' /\ cur' = Daemon
         \/ ~ daemonReady' /\ cur' \in Tasks /\ cur' \in Ready'
  <2>1. \A x \in ToSet(r) : x \notin Asleep
    BY <1>5 DEF PlaceInv, PlacesOK
  <2>2. Idle \in ToSet(r) /\ DelayedOK(delayed)
    BY <1>5 DEF PlaceInv, PlacesOK, ListsOK
  <2> QED
    BY <1>1, <1>5, <2>1, <2>2, CaughtUp
<1>7. ListOf(Tasks, pending') /\ \A x : x \notin Pended'
  <2>1. pending' = <<>>
    BY <1>1
  <2> QED
    BY <2>1, Empty DEF Pended
<1>8. \A s \in Sems : Queue(s)' = Queue(s)
  BY <1>1, QueuesKept
<1>9. ListsOK'
  BY <1>1, <1>6, <1>7 DEF PlaceInv, ListsOK
<1>10. PlacesOK'
  BY <1>4, <1>5, <1>6, <1>7, <1>8, TaskAssumption DEF PlaceInv, PlacesOK, TaskAssumption
<1>11. TurnOK'
  BY <1>6, TurnPassed, TaskAssumption DEF PlaceInv, TurnOK
<1>12. CallerOK'
  BY <1>2, <1>3, Named DEF PlaceInv, CallerOK
<1>13. QueuesOK'
  BY <1>2, <1>3, <1>8, SameQueues
<1>14. LockedOK'
  BY <1>1, <1>2, <1>3 DEF PlaceInv, LockedOK
<1>15. NoStrandedWaiter'
  <2>1. \A x \in Tasks : call[x].at = "retry" => call'[x] = call[x]
    BY <1>1, <1>3
  <2>2. \A x : x \in Ready \/ x \in Pended => x \in Ready'
    BY <1>5, <1>6
  <2> QED
    BY <1>1, <2>1, <2>2, SameStranded DEF PlaceInv
<1> QED
  BY <1>4, <1>9, <1>10, <1>11, <1>12, <1>13, <1>14, <1>15 DEF PlaceInv

\* A switch with the lists as they are.
LEMMA SwitchPlaced ==
  ASSUME PlaceInv, HeldInv', SwitchFrom(ring, daemonReady), UNCHANGED <<sem, pending, delayed>>,
         Alive' = Alive, UnbornOK', SignalOK', CallerOK', QueuesOK',
         \A t \in Tasks : call'[t].at # "place",
         \A t \in Tasks : call[t].at = "retry" => call'[t] = call[t]
  PROVE  PlaceInv'
<1> DEFINE d == daemonReady
<1>1. SwitchFrom(ring, d)
  OBVIOUS
<1>2. ListOf(Tasks \cup {End}, ring) /\ Idle \in ToSet(ring)
  BY DEF PlaceInv, ListsOK, PlacesOK, Ready
<1> HIDE DEF d
<1>3. /\ ListOf(Tasks \cup {End}, ring')
      /\ \A x : x \in Ready' <=> x \in Ready
      /\ daemonReady' = d
      /\ d => cur' = Daemon
      /\ ~ d => cur' \in Tasks /\ cur' \in Ready'
  BY <1>1, <1>2, Switched DEF Ready
<1>4. daemonReady' <=> daemonReady
  BY <1>3 DEF d
<1>5. Asleep' = Asleep /\ Pended' = Pended /\ \A s \in Sems : Queue(s)' = Queue(s)
  BY DEF Asleep, Pended, Queue
<1>6. ListsOK'
  BY <1>3 DEF PlaceInv, ListsOK
<1>7. PlacesOK'
  BY <1>3, <1>5 DEF PlaceInv, PlacesOK
<1>8. TurnOK'
  <2>1. \/ daemonReady' /\ cur' = Daemon
        \/ ~ daemonReady' /\ cur' \in Tasks /\ cur' \in Ready'
    BY <1>3 DEF d
  <2> QED
    BY <1>4, <1>5, <2>1, TaskAssumption DEF PlaceInv, TurnOK, TaskAssumption
<1>9. LockedOK'
  BY DEF PlaceInv, LockedOK
<1>10. NoStrandedWaiter'
  BY <1>3, <1>5, SameStranded DEF PlaceInv
<1> QED
  BY <1>6, <1>7, <1>8, <1>9, <1>10 DEF PlaceInv

LEMMA YieldPlaced ==
  ASSUME PlaceInv, HeldInv', NEW t \in Tasks, Yield(t), UNCHANGED appVars
  PROVE  PlaceInv'
<1>1. /\ cur = t /\ call[t].at = "yield" /\ ShapeOK /\ Moves(t, "none")
      /\ SwitchFrom(ring, daemonReady) /\ UNCHANGED <<sem, pending, delayed, suspended>>
  BY DEF Yield, At, PlaceInv, HeldInv, tickVars
<1>2. /\ call'[t].at = "none" /\ call'[t].of = call[t].of
      /\ \A x \in Tasks \ {t} : call'[x] = call[x]
  BY <1>1, MovesChanges
<1>3. \A x \in Tasks : call[x].at \notin {"place", "resume"}
  BY <1>1 DEF PlaceInv, CallerOK
<1>4. Alive' = Alive /\ UnbornOK' /\ SignalOK'
  BY <1>2, AppUntouched
<1>5. CallerOK'
  BY <1>2, <1>3, Named DEF PlaceInv, CallerOK
<1>6. QueuesOK'
  <2>1. \A s \in Sems : t \notin Queue(s)
    <3> SUFFICES ASSUME NEW s \in Sems, t \in Queue(s) PROVE FALSE
      OBVIOUS
    <3>1. call[t] = [at |-> "retry", of |-> s]
      BY DEF PlaceInv, QueuesOK
    <3>2. call[t].at = "retry"
      BY <3>1
    <3> QED
      BY <1>1, <3>2
  <2> QED
    BY <1>1, <1>2, <2>1, QueuesKept, SameQueues
<1>7. /\ \A x \in Tasks : call'[x].at # "place"
      /\ \A x \in Tasks : call[x].at = "retry" => call'[x] = call[x]
  BY <1>1, <1>2, <1>3
<1> QED
  BY <1>1, <1>4, <1>5, <1>6, <1>7, SwitchPlaced

LEMMA IdlePlaced ==
  ASSUME PlaceInv, HeldInv', IdleYields, UNCHANGED appVars
  PROVE  PlaceInv'
<1>1. /\ cur = Idle /\ call' = call /\ Idle \in Tasks
      /\ SwitchFrom(ring, daemonReady) /\ UNCHANGED <<sem, pending, delayed, suspended>>
  BY Named DEF IdleYields, tickVars
<1>2. \A x \in Tasks : call[x].at \notin {"place", "resume"}
  BY <1>1 DEF PlaceInv, CallerOK
<1>3. Alive' = Alive /\ UnbornOK' /\ SignalOK'
  BY <1>1, AppUntouched
<1>4. CallerOK' /\ QueuesOK'
  BY <1>1, <1>2, QueuesKept DEF PlaceInv, CallerOK, QueuesOK
<1> QED
  BY <1>1, <1>2, <1>3, <1>4, SwitchPlaced

\* The timer service task goes to sleep, if it has a time to wake at.
LEMMA DaemonPlaced ==
  ASSUME PlaceInv, HeldInv', DaemonBlocks, UNCHANGED appVars
  PROVE  PlaceInv'
<1>1. /\ cur = Daemon /\ call' = call /\ SwitchFrom(ring, FALSE)
      /\ UNCHANGED <<sem, pending, suspended>>
      /\ delayed' \in {delayed, InsertDelayed(delayed, Daemon, TimerPeriod)}
  BY DEF DaemonBlocks
<1>2. Daemon \notin Asleep /\ Daemon \notin Tasks
  BY <1>1, TaskAssumption DEF PlaceInv, TurnOK, TaskAssumption
<1>3. /\ DelayedOK(delayed')
      /\ \A x : x \in Asleep => x \in Asleep'
      /\ \A x : x \in Asleep' => x \in Asleep \/ x = Daemon
  <2>1. DelayedOK(delayed) /\ Daemon \notin ToSet(Names(delayed))
    BY <1>2 DEF PlaceInv, ListsOK, Asleep
  <2>2. Daemon \in Delayable /\ TimerPeriod \in Int
    BY PeriodAssumption DEF PeriodAssumption, Delayable
  <2>3. /\ DelayedOK(InsertDelayed(delayed, Daemon, TimerPeriod))
        /\ \A x : x \in ToSet(Names(InsertDelayed(delayed, Daemon, TimerPeriod))) <=>
                  x \in ToSet(Names(delayed)) \/ x = Daemon
    BY <2>1, <2>2, DelayedInserted
  <2> QED
    BY <1>1, <2>1, <2>3 DEF Asleep
<1>4. /\ ListOf(Tasks \cup {End}, ring')
      /\ \A x : x \in Ready' <=> x \in Ready
      /\ daemonReady' = FALSE /\ cur' \in Tasks /\ cur' \in Ready'
  <2>1. ListOf(Tasks \cup {End}, ring) /\ Idle \in ToSet(ring)
    BY DEF PlaceInv, ListsOK, PlacesOK, Ready
  <2> DEFINE d == FALSE
  <2>2. SwitchFrom(ring, d) /\ ~ d
    BY <1>1
  <2> HIDE DEF d
  <2>3. /\ ListOf(Tasks \cup {End}, ring')
        /\ \A x : x \in Ready' <=> x \in ToSet(ring)
        /\ daemonReady' = d
        /\ ~ d => cur' \in Tasks /\ cur' \in Ready'
    BY <2>1, <2>2, Switched
  <2> QED
    BY <2>2, <2>3 DEF d, Ready
<1>5. \A x \in Tasks : call[x].at \notin {"place", "resume"}
  BY <1>1, <1>2 DEF PlaceInv, CallerOK
<1>6. Alive' = Alive /\ UnbornOK' /\ SignalOK'
  BY <1>1, AppUntouched
<1>7. Pended' = Pended /\ \A s \in Sems : Queue(s)' = Queue(s)
  BY <1>1 DEF Pended, Queue
<1>8. ListsOK'
  BY <1>1, <1>3, <1>4 DEF PlaceInv, ListsOK
<1>9. PlacesOK'
  <2>1. \A t : t \in Ready \/ t \in Pended \/ (\E s \in Sems : t \in Queue(s)) => t # Daemon
    <3>1. /\ ring \in Seq(Tasks \cup {End}) /\ pending \in Seq(Tasks)
          /\ \A s \in Sems : sem[s].waiting \in Seq(Tasks)
      BY DEF PlaceInv, ListsOK, ListOf
    <3>2. /\ \A t \in Ready : t \in Tasks \cup {End}
          /\ \A t \in Pended : t \in Tasks
          /\ \A s \in Sems : \A t \in Queue(s) : t \in Tasks
      BY <3>1, Entries DEF Ready, Pended, Queue
    <3> QED
      BY <3>2, TaskAssumption DEF TaskAssumption
  <2> QED
    BY <1>3, <1>4, <1>6, <1>7, <2>1 DEF PlaceInv, PlacesOK
<1>10. TurnOK'
  BY <1>2, <1>4 DEF TurnOK
<1>11. CallerOK' /\ QueuesOK'
  BY <1>1, <1>5, <1>7 DEF PlaceInv, CallerOK, QueuesOK
<1>12. LockedOK'
  BY <1>1 DEF PlaceInv, LockedOK
<1>13. NoStrandedWaiter'
  BY <1>1, <1>4, <1>7, SameStranded DEF PlaceInv
<1> QED
  BY <1>6, <1>8, <1>9, <1>10, <1>11, <1>12, <1>13 DEF PlaceInv

LEMMA TickPlaced ==
  ASSUME PlaceInv, HeldInv', Tick, UNCHANGED appVars
  PROVE  PlaceInv'
<1>1. UNCHANGED <<suspended, pending, sem, call>>
  BY DEF Tick
<1>2. Alive' = Alive /\ UnbornOK' /\ SignalOK'
  BY <1>1, AppUntouched
<1>3. CASE suspended
  <2>1. UNCHANGED <<cur, ring, daemonReady, delayed>>
    BY <1>3 DEF Tick, readyVars
  <2> QED
    BY <1>1, <1>2, <2>1, Untouched
<1>4. CASE ~ suspended
  <2> DEFINE b == FALSE
  <2>1. IncrementTick(ring, b)
    BY <1>4 DEF Tick
  <2>2. /\ ListOf(Tasks \cup {End}, ring) /\ Idle \in ToSet(ring) /\ DelayedOK(delayed)
        /\ \A x \in ToSet(ring) : x \notin Asleep
    BY DEF PlaceInv, ListsOK, PlacesOK, Ready
  <2> HIDE DEF b
  <2>3. /\ ListOf(Tasks \cup {End}, ring') /\ DelayedOK(delayed')
        /\ \A x : x \in Asleep' => x \in Asleep
        /\ \A x : x \in Ready' <=>
                  x \in ToSet(ring) \/ (x \in Asleep /\ x \notin Asleep' /\ x # Daemon)
        /\ daemonReady' <=> daemonReady \/ (Daemon \in Asleep /\ Daemon \notin Asleep')
        /\ \/ ~ b /\ cur' = cur /\ (daemonReady' <=> daemonReady)
           \/ daemonReady' /\ cur' = Daemon
           \/ ~ daemonReady' /\ cur' \in Tasks /\ cur' \in Ready'
    BY <2>1, <2>2, Ticking
  <2>4. Pended' = Pended /\ \A s \in Sems : Queue(s)' = Queue(s)
    BY <1>1 DEF Pended, Queue
  <2>5. \A x \in Tasks : call[x].at \notin {"place", "resume"}
    BY <1>4 DEF PlaceInv, CallerOK
  <2>6. ListsOK'
    BY <1>1, <2>3 DEF PlaceInv, ListsOK
  <2>7. PlacesOK'
    BY <1>2, <2>3, <2>4, TaskAssumption DEF PlaceInv, PlacesOK, TaskAssumption, Ready
  <2>8. TurnOK'
    BY <1>1, <2>3, TaskAssumption DEF PlaceInv, TurnOK, TaskAssumption, Ready
  <2>9. CallerOK' /\ QueuesOK'
    BY <1>1, <2>4, <2>5 DEF PlaceInv, CallerOK, QueuesOK
  <2>10. LockedOK'
    BY <1>1 DEF PlaceInv, LockedOK
  <2>11. NoStrandedWaiter'
    <3>1. \A x : x \in Ready => x \in Ready'
      BY <2>3 DEF Ready
    <3> QED
      BY <1>1, <2>4, <3>1, SameStranded DEF PlaceInv
  <2> QED
    BY <1>2, <2>6, <2>7, <2>8, <2>9, <2>10, <2>11 DEF PlaceInv
<1> QED
  BY <1>3, <1>4

LEMMA RetryPlaced ==
  ASSUME PlaceInv, HeldInv', NEW t \in Tasks, Retry(t), UNCHANGED appVars
  PROVE  PlaceInv'
<1>1. PICK s : s = call[t].of
  OBVIOUS
<1>2. /\ cur = t /\ call[t].at = "retry" /\ Take(t, s) /\ s \in Sems /\ t # Idle
      /\ ShapeOK
  BY <1>1 DEF Retry, At, PlaceInv, HeldInv, CallsOK, ShapeOK, CallerOK
<1>3. pc' = pc /\ spawned' = spawned
  BY DEF appVars
<1>4. Alive' = Alive /\ UnbornOK'
  BY <1>3 DEF PlaceInv, Alive, UnbornOK
<1>5. \A x \in Tasks : call'[x].of \in {call[x].of, NoSem}
  BY <1>1, <1>2 DEF Take, ShapeOK
<1>6. SignalOK'
  BY <1>3, <1>5, Named DEF PlaceInv, SignalOK
<1> QED
  BY <1>1, <1>2, <1>4, <1>6, TakePlaced

LEMMA KernelPlaced ==
  ASSUME PlaceInv, HeldInv', UNCHANGED appVars,
         \/ \E t \in Tasks : KernelStep(t)
         \/ IdleYields \/ StartCommand \/ DaemonBlocks \/ Tick
  PROVE  PlaceInv'
<1>1. CASE StartCommand
  <2>1. UNCHANGED <<cur, ring, daemonReady, suspended, pending, delayed, call, sem>>
    BY <1>1 DEF StartCommand, readyVars
  <2>2. Alive' = Alive /\ UnbornOK' /\ SignalOK'
    BY <2>1, AppUntouched
  <2> QED
    BY <2>1, <2>2, Untouched
<1>2. ASSUME NEW t \in Tasks, Place(t)
      PROVE  PlaceInv'
  <2>1. PICK s : s = call[t].of
    OBVIOUS
  <2> QED
    BY <1>2, <2>1, PlacePlaced
<1> QED
  BY <1>1, <1>2, LockQueuePlaced, RetryPlaced, ResumePlaced, YieldPlaced, IdlePlaced,
     DaemonPlaced, TickPlaced DEF KernelStep

-----------------------------------------------------------------------------
(***************************************************************************)
(* Steps of the tasks.                                                     *)
(***************************************************************************)

Early == {"startIO", "hello", "helloSend", "panel", "panelSem", "lock", "spawn"}
Late == {"bye", "byeSend", "delete"}

\* A task that runs is ready, and it is in no call.
LEMMA RunsFrom ==
  ASSUME PlaceInv, NEW t \in Tasks, NEW from, NEW to, Runs(t, from, to)
  PROVE  /\ cur = t /\ pc[t] = from /\ pc'[t] = to /\ \A x \in Tasks \ {t} : pc'[x] = pc[x]
         /\ call[t].at = "none" /\ call[t].of = NoSem
         /\ t \in Ready /\ t \notin Pended /\ t \notin Asleep
         /\ \A s \in Sems : t \notin Queue(s)
         /\ \A x \in Tasks : call[x].at \notin {"place", "resume"}
<1>1. /\ cur = t /\ pc[t] = from /\ pc' = [pc EXCEPT ![t] = to] /\ call[t].at = "none"
  BY DEF Runs, InNoCall, At
<1>2. DOMAIN pc = Tasks /\ call[t].of = NoSem
  BY <1>1 DEF PlaceInv, HeldInv, ShapeOK, CallsOK
<1>3. /\ t \in Ready /\ t \notin Pended /\ t \notin Asleep
      /\ \A s \in Sems : t \notin Queue(s)
      /\ \A x \in Tasks \ {t} : call[x].at \notin {"place", "resume"}
  BY <1>1, Running
<1> QED
  BY <1>1, <1>2, <1>3

\* Whoever is alive stays so, but for two steps of AppMain.
LEMMA RunsAlive ==
  ASSUME PlaceInv, NEW t \in Tasks, NEW from, NEW to, Runs(t, from, to), spawned' = spawned,
         t = App => \/ from \in Early /\ to \in Early
                    \/ from \in Late /\ to \in Late
  PROVE  Alive' = Alive /\ UnbornOK'
<1>1. /\ cur = t /\ pc[t] = from /\ pc'[t] = to /\ \A x \in Tasks \ {t} : pc'[x] = pc[x]
      /\ t \in Ready
  BY RunsFrom
<1>2. App \in Tasks /\ Bsp \in Tasks
  BY Named
<1>3. Alive' = Alive
  BY <1>1, <1>2 DEF Alive, Early, Late
<1>4. t = Bsp => pc[App] \notin Early
  <2>1. t = Bsp => t \in Alive
    BY <1>1, <1>2, TaskAssumption DEF PlaceInv, PlacesOK, TaskAssumption
  <2>2. Bsp # App /\ Bsp # Idle
    BY TasksDiffer
  <2>3. pc[App] \in Early => Alive = {Idle, App}
    BY DEF Alive, Early
  <2> QED
    BY <2>1, <2>2, <2>3
<1>5. UnbornOK'
  <2>1. spawned' \subseteq {Audio, Test, Bsp, Usb}
    BY DEF PlaceInv, UnbornOK
  <2>2. pc'[App] \in Early => pc[App] \in Early
    BY <1>1, <1>2 DEF Early, Late
  <2>3. pc'[App] \in Early => pc'[Bsp] = pc[Bsp]
    BY <1>1, <1>2, <1>4, <2>2, TasksDiffer
  <2> QED
    BY <2>1, <2>2, <2>3 DEF PlaceInv, UnbornOK, Early
<1> QED
  BY <1>3, <1>5

LEMMA RunsSignal ==
  ASSUME PlaceInv, NEW t \in Tasks, NEW from, NEW to, Runs(t, from, to),
         \A x \in Tasks : call'[x].of = call[x].of
  PROVE  SignalOK'
<1>1. /\ pc'[t] = to /\ \A x \in Tasks \ {t} : pc'[x] = pc[x]
      /\ call[t].of = NoSem
  BY RunsFrom
<1> QED
  BY <1>1, Named DEF PlaceInv, SignalOK

LEMMA TakesPlaced ==
  ASSUME PlaceInv, HeldInv', NEW t \in Tasks, NEW s \in Sems, NEW from, NEW to,
         Takes(t, from, to, s),
         t # Idle,
         t = App => \/ from \in Early /\ to \in Early
                    \/ from \in Late /\ to \in Late,
         s = AudioSem => t = Audio /\ to = "lock",
         s = UsbSem => t = Usb /\ to = "lock",
         s = BspSem => t = Bsp /\ to = "timer"
  PROVE  PlaceInv'
<1>1. Runs(t, from, to) /\ Take(t, s) /\ spawned' = spawned
  BY DEF Takes
<1>2. /\ cur = t /\ call[t].at = "none" /\ call[t].of = NoSem /\ pc'[t] = to
      /\ \A x \in Tasks \ {t} : pc'[x] = pc[x]
  BY <1>1, RunsFrom
<1>3. Alive' = Alive /\ UnbornOK'
  BY <1>1, RunsAlive
<1>4. call'[t].of \in {NoSem, s} /\ \A x \in Tasks \ {t} : call'[x] = call[x]
  BY <1>1 DEF Take, PlaceInv, HeldInv, ShapeOK
<1>5. SignalOK'
  BY <1>2, <1>4, Named DEF PlaceInv, SignalOK
<1> QED
  BY <1>1, <1>2, <1>3, <1>5, TakePlaced

LEMMA GivesPlaced ==
  ASSUME PlaceInv, HeldInv', NEW t \in Tasks \ {App}, NEW s \in Sems, NEW from, NEW to,
         Gives(t, from, to, s)
  PROVE  PlaceInv'
<1>1. /\ Runs(t, from, to) /\ Give(s)
      /\ UNCHANGED <<cur, daemonReady, suspended, delayed, call, spawned>>
  BY DEF Gives, tickVars
<1>2. \A x \in Tasks : call[x].at \notin {"place", "resume"}
  BY <1>1, RunsFrom
<1>3. Alive' = Alive /\ UnbornOK'
  BY <1>1, RunsAlive
<1>4. SignalOK'
  BY <1>1, RunsSignal
<1> QED
  BY <1>1, <1>2, <1>3, <1>4, GivePlaced

\* A step of a task that leaves the kernel alone.
LEMMA WorksPlaced ==
  ASSUME PlaceInv, HeldInv', NEW t \in Tasks, NEW from, NEW to, Runs(t, from, to),
         UNCHANGED <<kernelVars, spawned>>,
         t = App => \/ from \in Early /\ to \in Early
                    \/ from \in Late /\ to \in Late
  PROVE  PlaceInv'
<1>1. UNCHANGED <<cur, ring, daemonReady, suspended, pending, delayed, call, sem, spawned>>
  BY DEF kernelVars, readyVars, tickVars
<1>2. Alive' = Alive /\ UnbornOK'
  BY <1>1, RunsAlive
<1>3. SignalOK'
  BY <1>1, RunsSignal
<1> QED
  BY <1>1, <1>2, <1>3, Untouched

\* Creating a semaphore for which nobody waits.
LEMMA CreatesPlaced ==
  ASSUME PlaceInv, HeldInv', NEW t \in Tasks, NEW s \in Sems, NEW n, NEW from, NEW to,
         Creates(t, from, to, s, n), sem[s].waiting = <<>>,
         t = App => from \in Early /\ to \in Early
  PROVE  PlaceInv'
<1>1. /\ Runs(t, from, to) /\ sem' = [sem EXCEPT ![s] = Created(n)]
      /\ UNCHANGED <<cur, ring, daemonReady, suspended, pending, delayed, call, spawned>>
  BY DEF Creates, readyVars, tickVars
<1>2. \A x \in Tasks : call[x].at \notin {"place", "resume"}
  BY <1>1, RunsFrom
<1>3. Alive' = Alive /\ UnbornOK'
  BY <1>1, RunsAlive
<1>4. SignalOK'
  BY <1>1, RunsSignal
<1>5. /\ \A x \in Sems \ {s} : sem'[x] = sem[x]
      /\ sem'[s].waiting = <<>> /\ sem'[s].txLock = Unlocked
  BY <1>1 DEF Created, Absent, PlaceInv, HeldInv, ShapeOK
<1>6. \A x \in Sems : sem'[x].waiting = sem[x].waiting
  BY <1>5
<1>7. /\ ListsOK' /\ PlacesOK'
      /\ Ready' = Ready /\ Asleep' = Asleep /\ \A x \in Sems : Queue(x)' = Queue(x)
  BY <1>1, <1>3, <1>6, SamePlaces DEF PlaceInv
<1>8. TurnOK' /\ CallerOK' /\ QueuesOK'
  BY <1>1, <1>7 DEF PlaceInv, TurnOK, CallerOK, QueuesOK
<1>9. LockedOK'
  BY <1>1, <1>2, <1>5 DEF PlaceInv, LockedOK
<1>10. NoStrandedWaiter'
  <2>1. Pended' = Pended
    BY <1>1 DEF Pended
  <2>2. \A x \in Sems : sem'[x].waiting # <<>> => sem'[x] = sem[x]
    BY <1>5
  <2> QED
    BY <1>1, <1>7, <2>1, <2>2, SameStranded DEF PlaceInv
<1> QED
  BY <1>3, <1>4, <1>7, <1>8, <1>9, <1>10 DEF PlaceInv

\* A list without entries is the empty one.
LEMMA NoEntries ==
  ASSUME NEW S, NEW a \in Seq(S), \A x : x \notin ToSet(a)
  PROVE  a = <<>>
<1>1. Len(a) \in Nat /\ \A i \in 1 .. Len(a) : FALSE
  BY Entries
<1>2. Len(a) = 0
  BY <1>1
<1> QED
  BY <1>2

\* The semaphore has no queue as long as the only task to wait for it does not.
LEMMA Unawaited ==
  ASSUME PlaceInv, NEW s \in Sems, NEW t, \A x \in Tasks : call[x].of = s => x = t,
         t \in Tasks => call[t].of # s
  PROVE  sem[s].waiting = <<>>
<1>1. sem[s].waiting \in Seq(Tasks)
  BY DEF PlaceInv, ListsOK, ListOf
<1>2. \A x \in Queue(s) : x \in Tasks
  BY <1>1, Entries DEF Queue
<1>3. \A x \in Queue(s) : call[x] = [at |-> "retry", of |-> s]
  BY DEF PlaceInv, QueuesOK
<1>4. \A x \in Queue(s) : call[x].of = s
  BY <1>3
<1>5. \A x : x \notin ToSet(sem[s].waiting)
  BY <1>2, <1>4 DEF Queue
<1> QED
  BY <1>1, <1>5, NoEntries

LEMMA MadePlaced ==
  ASSUME PlaceInv, HeldInv', NEW t \in Tasks, NEW s \in Sems, NEW n, NEW from, NEW to,
         <<t, from, to, s>> \in
           {<<App, "startIO", "hello", Serial>>, <<App, "lock", "spawn", Lock>>,
            <<App, "panelSem", "lock", BspSem>>, <<Audio, "init", "start", AudioSem>>,
            <<Usb, "init", "wait", UsbSem>>},
         Creates(t, from, to, s, n)
  PROVE  PlaceInv'
<1>1. Runs(t, from, to)
  BY DEF Creates
<1>2. pc[t] = from
  BY <1>1, RunsFrom
<1>3. CASE s \in {Serial, Lock} /\ t = App /\ from \in {"startIO", "lock"}
  <2>1. ~ Exists(s)
    BY <1>2, <1>3, SemsDiffer DEF PlaceInv, HeldInv, CreatedOnce
  <2>2. sem[s] = Absent
    BY <1>3, <2>1 DEF PlaceInv, HeldInv, CreatedOnce
  <2> QED
    BY <1>3, <2>2, CreatesPlaced DEF Absent, Early
<1>4. CASE s = BspSem /\ t = App /\ from = "panelSem"
  <2>1. pc[Bsp] = "oled"
    BY <1>2, <1>4 DEF PlaceInv, UnbornOK
  <2>2. \A x \in Tasks : call[x].of = BspSem => x = Bsp /\ pc[x] = "timer"
    BY DEF PlaceInv, SignalOK
  <2>3. sem[s].waiting = <<>>
    BY <1>4, <2>1, <2>2, Unawaited
  <2> QED
    BY <1>4, <2>3, CreatesPlaced DEF Early
<1>5. CASE s = AudioSem /\ t = Audio /\ from = "init"
  <2>1. \A x \in Tasks : call[x].of = AudioSem => x = Audio /\ pc[x] = "lock"
    BY DEF PlaceInv, SignalOK
  <2>2. sem[s].waiting = <<>>
    BY <1>2, <1>5, <2>1, Unawaited
  <2> QED
    BY <1>5, <2>2, TasksDiffer, CreatesPlaced
<1>6. CASE s = UsbSem /\ t = Usb /\ from = "init"
  <2>1. \A x \in Tasks : call[x].of = UsbSem => x = Usb /\ pc[x] = "lock"
    BY DEF PlaceInv, SignalOK
  <2>2. sem[s].waiting = <<>>
    BY <1>2, <1>6, <2>1, Unawaited
  <2> QED
    BY <1>6, <2>2, TasksDiffer, CreatesPlaced
<1> QED
  BY <1>3, <1>4, <1>5, <1>6

LEMMA TimerPlaced ==
  ASSUME PlaceInv, HeldInv', Runs(Bsp, "timer", "events"), StartTimer,
         UNCHANGED <<cur, ring, suspended, pending, sem, call, spawned>>
  PROVE  PlaceInv'
<1> DEFINE own == {i \in DOMAIN delayed : delayed[i].task = Daemon}
<1>1. daemonReady' = TRUE /\ delayed' = IF own = {} THEN delayed ELSE RemoveAt(delayed, Min(own))
  BY DEF StartTimer
<1>2. DelayedOK(delayed) /\ delayed \in Seq(DelayedEntry)
  BY DEF PlaceInv, ListsOK, DelayedOK
<1>3. /\ DelayedOK(delayed')
      /\ \A x : x \in Asleep' <=> x \in Asleep /\ x # Daemon
  <2>1. CASE own = {}
    <3>1. delayed' = delayed /\ Asleep' = Asleep
      BY <1>1, <2>1 DEF Asleep
    <3>2. Daemon \notin Asleep
      <4>1. /\ Names(delayed) \in Seq(Delayable) /\ Len(Names(delayed)) = Len(delayed)
            /\ \A i \in 1 .. Len(delayed) : Names(delayed)[i] = delayed[i].task
        BY <1>2, NamesOf
      <4>2. \A i \in 1 .. Len(delayed) : delayed[i].task # Daemon
        BY <1>2, <2>1
      <4> QED
        BY <4>1, <4>2, Entries DEF Asleep
    <3> QED
      BY <1>2, <3>1, <3>2
  <2>2. CASE own # {}
    <3> DEFINE i == Min(own)
    <3>1. i \in 1 .. Len(delayed) /\ delayed[i].task = Daemon
      <4>1. own \subseteq 1 .. Len(delayed)
        BY <1>2
      <4>2. Min(own) \in own /\ Min(own) \in 1 .. Len(delayed)
        BY <1>2, <2>2, <4>1, FirstPosition
      <4> QED
        BY <4>2
    <3>2. delayed' = RemoveAt(delayed, i)
      BY <1>1, <2>2
    <3> HIDE DEF i
    <3>3. /\ DelayedOK(RemoveAt(delayed, i))
          /\ \A x : x \in ToSet(Names(RemoveAt(delayed, i))) <=>
                    x \in ToSet(Names(delayed)) /\ x # Daemon
      BY <1>2, <3>1, DelayedDropped
    <3> QED
      BY <3>2, <3>3 DEF Asleep
  <2> QED
    BY <2>1, <2>2
<1>4. Bsp \in Tasks /\ Bsp # App /\ Daemon \notin Tasks /\ Idle \in Tasks
  BY Named, TasksDiffer, TaskAssumption DEF TaskAssumption
<1>5. Alive' = Alive /\ UnbornOK'
  BY <1>4, RunsAlive
<1>6. SignalOK'
  BY <1>4, RunsSignal
<1>7. Ready' = Ready /\ Pended' = Pended /\ \A s \in Sems : Queue(s)' = Queue(s)
  BY DEF Ready, Pended, Queue
<1>8. ListsOK'
  BY <1>3 DEF PlaceInv, ListsOK
<1>9. PlacesOK'
  BY <1>3, <1>5, <1>7 DEF PlaceInv, PlacesOK
<1>10. TurnOK'
  BY <1>1, <1>3, <1>7 DEF PlaceInv, TurnOK
<1>11. CallerOK' /\ QueuesOK'
  BY <1>3, <1>4, <1>7 DEF PlaceInv, CallerOK, QueuesOK
<1>12. LockedOK'
  BY DEF PlaceInv, LockedOK
<1>13. NoStrandedWaiter'
  BY <1>7, SameStranded DEF PlaceInv
<1> QED
  BY <1>5, <1>6, <1>8, <1>9, <1>10, <1>11, <1>12, <1>13 DEF PlaceInv

LEMMA DelayPlaced ==
  ASSUME PlaceInv, HeldInv', NEW t \in Tasks \ {App, Idle}, NEW from, NEW to, Runs(t, from, to),
         NEW n \in Int, Delay(t, n), spawned' = spawned
  PROVE  PlaceInv'
<1>1. /\ delayed' = InsertDelayed(delayed, t, n) /\ ring' = ListRemove(ring, t)
      /\ suspended' = TRUE /\ Moves(t, "resume")
      /\ UNCHANGED <<cur, daemonReady, pending, sem>>
  BY DEF Delay
<1>2. /\ cur = t /\ t \in Ready /\ t \notin Pended /\ t \notin Asleep
      /\ \A s \in Sems : t \notin Queue(s)
      /\ \A x \in Tasks : call[x].at \notin {"place", "resume"}
  BY RunsFrom
<1>3. /\ call'[t].at = "resume" /\ call'[t].of = call[t].of
      /\ \A x \in Tasks \ {t} : call'[x] = call[x]
  BY <1>1, MovesChanges DEF PlaceInv, HeldInv
<1>4. Alive' = Alive /\ UnbornOK'
  BY RunsAlive
<1>5. SignalOK'
  BY <1>3, RunsSignal
<1>6. /\ DelayedOK(delayed')
      /\ \A x : x \in Asleep' <=> x \in Asleep \/ x = t
  <2>1. DelayedOK(delayed) /\ t \notin ToSet(Names(delayed)) /\ t \in Delayable
    BY <1>2 DEF PlaceInv, ListsOK, Asleep, Delayable
  <2> QED
    BY <1>1, <2>1, DelayedInserted DEF Asleep
<1>7. /\ ListOf(Tasks \cup {End}, ring')
      /\ \A x : x \in Ready' <=> x \in Ready /\ x # t
  <2>1. ListOf(Tasks \cup {End}, ring) /\ t \in ToSet(ring) /\ End \in ToSet(ring) /\ End # t
    BY <1>2, TaskAssumption DEF PlaceInv, ListsOK, PlacesOK, Ready, TaskAssumption
  <2> QED
    BY <1>1, <2>1, Removed DEF Ready
<1>8. Pended' = Pended /\ \A s \in Sems : Queue(s)' = Queue(s)
  BY <1>1 DEF Pended, Queue
<1>9. ListsOK'
  BY <1>1, <1>6, <1>7 DEF PlaceInv, ListsOK
<1>10. PlacesOK'
  BY <1>2, <1>4, <1>6, <1>7, <1>8, TaskAssumption DEF PlaceInv, PlacesOK, TaskAssumption
<1>11. TurnOK'
  BY <1>1, <1>2, <1>3, <1>6, TaskAssumption DEF PlaceInv, TurnOK, TaskAssumption
<1>12. CallerOK'
  BY <1>1, <1>2, <1>3, <1>6, Named DEF PlaceInv, CallerOK
<1>13. QueuesOK'
  BY <1>2, <1>3, <1>8, SameQueues
<1>14. LockedOK'
  BY <1>1, <1>2, <1>3 DEF PlaceInv, LockedOK
<1>15. NoStrandedWaiter'
  <2>1. call[t].at = "none"
    BY RunsFrom
  <2>2. \A x \in Tasks : call[x].at = "retry" => call'[x] = call[x]
    BY <1>3, <2>1
  <2>3. \A x \in Tasks : call[x].at = "retry" /\ x \in Ready => x \in Ready'
    BY <1>7, <2>1
  <2> QED
    BY <1>1, <1>8, <2>2, <2>3, SameStranded DEF PlaceInv
<1> QED
  BY <1>4, <1>5, <1>9, <1>10, <1>11, <1>12, <1>13, <1>14, <1>15 DEF PlaceInv

\* AppMain leaves the ready list for good.
LEMMA DeletePlaced ==
  ASSUME PlaceInv, HeldInv', Runs(App, "delete", "deleted"), Delete(App), spawned' = spawned
  PROVE  PlaceInv'
<1>1. /\ ring' = ListRemove(ring, App) /\ Moves(App, "yield")
      /\ UNCHANGED <<cur, daemonReady, suspended, delayed, pending, sem>>
  BY DEF Delete, tickVars
<1>2. App \in Tasks /\ App # Idle /\ App # Bsp /\ App # End /\ App # Daemon
  BY Named, TasksDiffer, TaskAssumption DEF TaskAssumption
<1>3. /\ cur = App /\ App \in Ready /\ App \notin Pended /\ App \notin Asleep
      /\ pc[App] = "delete" /\ pc'[App] = "deleted" /\ \A x \in Tasks \ {App} : pc'[x] = pc[x]
      /\ \A s \in Sems : App \notin Queue(s)
      /\ \A x \in Tasks : call[x].at \notin {"place", "resume"}
  BY <1>2, RunsFrom
<1>4. /\ call'[App].at = "yield" /\ call'[App].of = call[App].of
      /\ \A x \in Tasks \ {App} : call'[x] = call[x]
  BY <1>1, <1>2, MovesChanges DEF PlaceInv, HeldInv
<1>5. UnbornOK' /\ \A x : x \in Alive' <=> x \in Alive /\ x # App
  <2>1. \A x : x \in Alive' <=> x = Idle \/ x \in spawned
    BY <1>3 DEF Alive
  <2>2. \A x : x \in Alive <=> x = Idle \/ x = App \/ x \in spawned
    BY <1>3 DEF Alive
  <2>3. App \notin spawned
    BY TasksDiffer DEF PlaceInv, UnbornOK
  <2>4. UnbornOK'
    BY <1>3 DEF PlaceInv, UnbornOK
  <2> QED
    BY <1>2, <2>1, <2>2, <2>3, <2>4
<1>6. SignalOK'
  BY <1>2, <1>4, RunsSignal
<1>7. /\ ListOf(Tasks \cup {End}, ring')
      /\ \A x : x \in Ready' <=> x \in Ready /\ x # App
  <2>1. ListOf(Tasks \cup {End}, ring) /\ App \in ToSet(ring) /\ End \in ToSet(ring)
    BY <1>3 DEF PlaceInv, ListsOK, PlacesOK, Ready
  <2> QED
    BY <1>1, <1>2, <2>1, Removed DEF Ready
<1>8. Pended' = Pended /\ Asleep' = Asleep /\ \A s \in Sems : Queue(s)' = Queue(s)
  BY <1>1 DEF Pended, Asleep, Queue
<1>9. ListsOK'
  BY <1>1, <1>7 DEF PlaceInv, ListsOK
<1>10. PlacesOK'
  BY <1>2, <1>3, <1>5, <1>7, <1>8 DEF PlaceInv, PlacesOK
<1>11. TurnOK'
  BY <1>1, <1>2, <1>3, <1>4, <1>8 DEF PlaceInv, TurnOK
<1>12. CallerOK'
  BY <1>2, <1>3, <1>4, Named DEF PlaceInv, CallerOK
<1>13. QueuesOK'
  BY <1>2, <1>3, <1>4, <1>8, SameQueues
<1>14. LockedOK'
  BY <1>1, <1>2, <1>3, <1>4 DEF PlaceInv, LockedOK
<1>15. NoStrandedWaiter'
  <2>1. call[App].at = "none"
    BY <1>2, RunsFrom
  <2>2. \A x \in Tasks : call[x].at = "retry" => call'[x] = call[x]
    BY <1>4, <2>1
  <2>3. \A x \in Tasks : call[x].at = "retry" /\ x \in Ready => x \in Ready'
    BY <1>7, <2>1
  <2> QED
    BY <1>1, <1>8, <2>2, <2>3, SameStranded DEF PlaceInv
<1> QED
  BY <1>5, <1>6, <1>9, <1>10, <1>11, <1>12, <1>13, <1>14, <1>15 DEF PlaceInv

LEMMA IfList ==
  ASSUME NEW t \in Tasks
  PROVE  /\ ListOf(Tasks \cup {End}, If(t))
         /\ \A x : x \in ToSet(If(t)) <=> x = t /\ t \in spawned
<1>1. CASE t \in spawned
  <2>1. If(t) = <<t>>
    BY <1>1 DEF If
  <2>2. t \in Tasks \cup {End}
    OBVIOUS
  <2> QED
    BY <1>1, <2>1, <2>2, Single
<1>2. CASE t \notin spawned
  <2>1. If(t) = <<>>
    BY <1>2 DEF If
  <2> QED
    BY <1>2, <2>1, Empty
<1> QED
  BY <1>1, <1>2

\* The tasks of this instance, each once.
LEMMA Creation ==
  ASSUME spawned \subseteq {Audio, Test, Bsp, Usb}
  PROVE  /\ ListOf(Tasks \cup {End}, CreationOrder)
         /\ \A x : x \in ToSet(CreationOrder) <=> x \in spawned
<1> DEFINE S == Tasks \cup {End}
           a == If(Audio)
           b == If(Test)
           c == If(Bsp)
           d == If(Usb)
<1>1. Audio \in Tasks /\ Test \in Tasks /\ Bsp \in Tasks /\ Usb \in Tasks
  BY Named
<1>2. /\ ListOf(S, a) /\ \A x : x \in ToSet(a) <=> x = Audio /\ Audio \in spawned
      /\ ListOf(S, b) /\ \A x : x \in ToSet(b) <=> x = Test /\ Test \in spawned
      /\ ListOf(S, c) /\ \A x : x \in ToSet(c) <=> x = Bsp /\ Bsp \in spawned
      /\ ListOf(S, d) /\ \A x : x \in ToSet(d) <=> x = Usb /\ Usb \in spawned
  <2>1. ListOf(S, a) /\ \A x : x \in ToSet(a) <=> x = Audio /\ Audio \in spawned
    BY <1>1, IfList
  <2>2. ListOf(S, b) /\ \A x : x \in ToSet(b) <=> x = Test /\ Test \in spawned
    BY <1>1, IfList
  <2>3. ListOf(S, c) /\ \A x : x \in ToSet(c) <=> x = Bsp /\ Bsp \in spawned
    BY <1>1, IfList
  <2>4. ListOf(S, d) /\ \A x : x \in ToSet(d) <=> x = Usb /\ Usb \in spawned
    BY <1>1, IfList
  <2> QED
    BY <2>1, <2>2, <2>3, <2>4
<1>3. CreationOrder = ((a \o b) \o c) \o d
  BY DEF CreationOrder
<1> HIDE DEF a, b, c, d, S
<1>4. ListOf(S, a \o b) /\ \A x : x \in ToSet(a \o b) <=> x \in ToSet(a) \/ x \in ToSet(b)
  <2>1. \A x \in ToSet(a) : x \notin ToSet(b)
    BY <1>2, TasksDiffer
  <2> QED
    BY <1>2, <2>1, Joined
<1> DEFINE e == a \o b
<1>5. ListOf(S, e) /\ \A x : x \in ToSet(e) <=> x \in ToSet(a) \/ x \in ToSet(b)
  BY <1>4
<1> HIDE DEF e
<1>6. ListOf(S, e \o c) /\ \A x : x \in ToSet(e \o c) <=> x \in ToSet(e) \/ x \in ToSet(c)
  <2>1. \A x \in ToSet(e) : x \notin ToSet(c)
    BY <1>2, <1>5, TasksDiffer
  <2> QED
    BY <1>2, <1>5, <2>1, Joined
<1> DEFINE f == e \o c
<1>7. ListOf(S, f) /\ \A x : x \in ToSet(f) <=> x \in ToSet(e) \/ x \in ToSet(c)
  BY <1>6
<1> HIDE DEF f
<1>8. ListOf(S, f \o d) /\ \A x : x \in ToSet(f \o d) <=> x \in ToSet(f) \/ x \in ToSet(d)
  <2>1. \A x \in ToSet(f) : x \notin ToSet(d)
    BY <1>2, <1>5, <1>7, TasksDiffer
  <2> QED
    BY <1>2, <1>7, <2>1, Joined
<1>9. CreationOrder = f \o d
  BY <1>3 DEF e, f
<1>10. \A x : x \in ToSet(CreationOrder) <=> x \in spawned
  <2>1. \A x \in spawned : x = Audio \/ x = Test \/ x = Bsp \/ x = Usb
    OBVIOUS
  <2>2. \A x : x \in ToSet(CreationOrder) <=>
               x \in ToSet(a) \/ x \in ToSet(b) \/ x \in ToSet(c) \/ x \in ToSet(d)
    BY <1>5, <1>7, <1>8, <1>9
  <2> QED
    BY <1>2, <2>1, <2>2
<1> QED
  BY <1>8, <1>9, <1>10 DEF S

LEMMA SpawnPlaced ==
  ASSUME PlaceInv, HeldInv', Runs(App, "spawn", "bye"), Create(CreationOrder),
         UNCHANGED <<cur, daemonReady, suspended, delayed, pending, sem, call, spawned>>
  PROVE  PlaceInv'
<1> DEFINE q == CreationOrder
<1>1. App \in Tasks /\ App # Idle /\ App # Bsp /\ App # End /\ App # Daemon
  BY Named, TasksDiffer, TaskAssumption DEF TaskAssumption
<1>2. /\ cur = App /\ App \in Ready /\ pc[App] = "spawn" /\ pc'[App] = "bye"
      /\ \A x \in Tasks \ {App} : pc'[x] = pc[x]
      /\ \A x \in Tasks : call[x].at \notin {"place", "resume"}
  BY <1>1, RunsFrom
<1>3. spawned \subseteq {Audio, Test, Bsp, Usb}
  BY DEF PlaceInv, UnbornOK
<1>4. ListOf(Tasks \cup {End}, q) /\ \A x : x \in ToSet(q) <=> x \in spawned
  BY <1>3, Creation
<1>5. ring' = ring \o q
  BY DEF Create
<1> HIDE DEF q
<1>6. /\ \A x : x \in Alive <=> x = Idle \/ x = App
      /\ \A x : x \in Alive' <=> x \in Alive \/ x \in spawned
  <2>1. \A x : x \in Alive' <=> x = Idle \/ x = App \/ x \in spawned
    BY <1>2 DEF Alive
  <2>2. \A x : x \in Alive <=> x = Idle \/ x = App
    BY <1>2 DEF Alive
  <2> QED
    BY <2>1, <2>2
<1>7. \A x \in spawned : x \in Tasks /\ x \notin Alive /\ x # End /\ x # Daemon
  BY <1>3, <1>6, Named, TasksDiffer, TaskAssumption DEF TaskAssumption
<1>8. \A x \in spawned : /\ x \notin Ready /\ x \notin Pended /\ x \notin Asleep
                         /\ \A s \in Sems : x \notin Queue(s)
  BY <1>7 DEF PlaceInv, PlacesOK
<1>9. UnbornOK'
  BY <1>2 DEF PlaceInv, UnbornOK
<1>10. SignalOK'
  BY <1>1, RunsSignal
<1>11. /\ ListOf(Tasks \cup {End}, ring')
       /\ \A x : x \in Ready' <=> x \in Ready \/ x \in spawned
  <2>1. ListOf(Tasks \cup {End}, ring)
    BY DEF PlaceInv, ListsOK
  <2>2. \A x \in ToSet(ring) : x \notin ToSet(q)
    BY <1>4, <1>8 DEF Ready
  <2>3. /\ ListOf(Tasks \cup {End}, ring \o q)
        /\ \A x : x \in ToSet(ring \o q) <=> x \in ToSet(ring) \/ x \in ToSet(q)
    BY <1>4, <2>1, <2>2, Joined
  <2> QED
    BY <1>4, <1>5, <2>3 DEF Ready
<1>12. Pended' = Pended /\ Asleep' = Asleep /\ \A s \in Sems : Queue(s)' = Queue(s)
  BY DEF Pended, Asleep, Queue
<1>13. ListsOK'
  BY <1>11 DEF PlaceInv, ListsOK
<1>14. PlacesOK'
  BY <1>6, <1>7, <1>8, <1>11, <1>12 DEF PlaceInv, PlacesOK
<1>15. TurnOK'
  BY <1>1, <1>2, <1>11, <1>12 DEF PlaceInv, TurnOK
<1>16. CallerOK' /\ QueuesOK'
  BY <1>1, <1>2, <1>12 DEF PlaceInv, CallerOK, QueuesOK
<1>17. LockedOK'
  BY DEF PlaceInv, LockedOK
<1>18. NoStrandedWaiter'
  BY <1>11, <1>12, SameStranded DEF PlaceInv
<1> QED
  BY <1>9, <1>10, <1>13, <1>14, <1>15, <1>16, <1>17, <1>18 DEF PlaceInv

-----------------------------------------------------------------------------
LEMMA AppPlaced == ASSUME PlaceInv, HeldInv', AppMain PROVE PlaceInv'
<1> USE Named, SemsDiffer, TasksDiffer
<1>1. CASE \/ Creates(App, "startIO", "hello", Serial, 1)
           \/ Creates(App, "panelSem", "lock", BspSem, 0)
           \/ Creates(App, "lock", "spawn", Lock, 1)
  BY <1>1, MadePlaced
<1>2. CASE \/ Takes(App, "hello", "helloSend", Serial)
           \/ Takes(App, "bye", "byeSend", Serial)
  BY <1>2, TakesPlaced DEF Early, Late
<1>3. CASE \/ Starts(App, "helloSend", "panel", "uart")
           \/ Starts(App, "panel", "panelSem", "spi")
           \/ Starts(App, "byeSend", "delete", "uart")
  BY <1>3, WorksPlaced DEF Starts, Early, Late
<1>4. CASE /\ Runs(App, "spawn", "bye") /\ Create(CreationOrder)
           /\ UNCHANGED <<cur, daemonReady, yieldDue, tickVars, pending, sem, call, command,
                          devices, bassReady, spawned>>
  BY <1>4, SpawnPlaced DEF tickVars
<1>5. CASE /\ Runs(App, "delete", "deleted") /\ Delete(App)
           /\ UNCHANGED <<devices, bassReady, spawned>>
  BY <1>5, DeletePlaced
<1> QED
  BY <1>1, <1>2, <1>3, <1>4, <1>5 DEF AppMain

LEMMA AudioPlaced == ASSUME PlaceInv, HeldInv', AudioTask PROVE PlaceInv'
<1> USE Named, SemsDiffer, TasksDiffer
<1>1. CASE Creates(Audio, "init", "start", AudioSem, 0)
  BY <1>1, MadePlaced
<1>2. CASE Starts(Audio, "start", "bassInit", "i2s")
  BY <1>2, WorksPlaced DEF Starts
<1>3. CASE Runs(Audio, "bassInit", "wait") /\ UNCHANGED <<kernelVars, spawned>>
  BY <1>3, WorksPlaced
<1>4. CASE Takes(Audio, "wait", "lock", AudioSem) \/ Takes(Audio, "lock", "process", Lock)
  BY <1>4, TakesPlaced
<1>5. CASE Gives(Audio, "process", "wait", Lock)
  BY <1>5, GivesPlaced
<1> QED
  BY <1>1, <1>2, <1>3, <1>4, <1>5 DEF AudioTask

LEMMA TestPlaced == ASSUME PlaceInv, HeldInv', TestTask PROVE PlaceInv'
<1> USE Named, SemsDiffer, TasksDiffer
<1>1. CASE Takes(Test, "write", "send", Serial)
  BY <1>1, TakesPlaced
<1>2. CASE Starts(Test, "send", "sleep", "uart")
  BY <1>2, WorksPlaced DEF Starts
<1>3. CASE Runs(Test, "sleep", "write") /\ Delay(Test, TestDelay) /\ spawned' = spawned
  <2>1. TestDelay \in Int
    BY FirmwareAssumption DEF FirmwareAssumption
  <2> QED
    BY <1>3, <2>1, DelayPlaced
<1> QED
  BY <1>1, <1>2, <1>3 DEF TestTask

LEMMA BspPlaced == ASSUME PlaceInv, HeldInv', BspTask PROVE PlaceInv'
<1> USE Named, SemsDiffer, TasksDiffer
<1>1. CASE Runs(Bsp, "oled", "oled") /\ Delay(Bsp, OledDelay) /\ spawned' = spawned
  <2>1. OledDelay \in Int
    BY FirmwareAssumption DEF FirmwareAssumption
  <2> QED
    BY <1>1, <2>1, DelayPlaced
<1>2. CASE \/ Works(Bsp, "oled", "guiInit") \/ Works(Bsp, "guiInit", "wait")
           \/ Works(Bsp, "events", "wait")
  BY <1>2, WorksPlaced DEF Works
<1>3. CASE Takes(Bsp, "wait", "timer", BspSem) \/ Takes(Bsp, "events", "edit", Lock)
  BY <1>3, TakesPlaced
<1>4. CASE /\ Runs(Bsp, "timer", "events") /\ StartTimer
           /\ UNCHANGED <<cur, ring, suspended, tickPended, timer, pending, sem, call, devices,
                          bassReady, spawned>>
  BY <1>4, TimerPlaced
<1>5. CASE Gives(Bsp, "edit", "events", Lock)
  BY <1>5, GivesPlaced
<1> QED
  BY <1>1, <1>2, <1>3, <1>4, <1>5 DEF BspTask

LEMMA UsbPlaced == ASSUME PlaceInv, HeldInv', UsbTask PROVE PlaceInv'
<1> USE Named, SemsDiffer, TasksDiffer
<1>1. CASE Creates(Usb, "init", "wait", UsbSem, 0)
  BY <1>1, MadePlaced
<1>2. CASE \/ Takes(Usb, "wait", "lock", UsbSem) \/ Takes(Usb, "lock", "play", Lock)
           \/ Takes(Usb, "play", "send", Serial)
  BY <1>2, TakesPlaced
<1>3. CASE Starts(Usb, "send", "play", "uart")
  BY <1>3, WorksPlaced DEF Starts
<1>4. CASE Gives(Usb, "play", "wait", Lock)
  BY <1>4, GivesPlaced
<1> QED
  BY <1>1, <1>2, <1>3, <1>4 DEF UsbTask

LEMMA PlaceStep == PlaceInv /\ [FirmwareNext]_firmwareVars => PlaceInv'
<1> SUFFICES ASSUME PlaceInv, [FirmwareNext]_firmwareVars PROVE PlaceInv'
  OBVIOUS
<1>0. HeldInv'
  BY HeldStep DEF PlaceInv
<1>1. CASE UNCHANGED firmwareVars \/ OS_SpiTimerCallback
  <2>1. UNCHANGED <<cur, ring, daemonReady, suspended, pending, delayed, call, sem, pc, spawned>>
    BY <1>1 DEF firmwareVars, kernelVars, readyVars, tickVars, appVars, OS_SpiTimerCallback, Expire
  <2>2. Alive' = Alive /\ UnbornOK' /\ SignalOK'
    BY <2>1 DEF PlaceInv, Alive, UnbornOK, SignalOK
  <2> QED
    BY <1>0, <2>1, <2>2, Untouched
<1>2. CASE Cpu
  BY <1>0, <1>1, <1>2, AppPlaced, AudioPlaced, TestPlaced, BspPlaced, UsbPlaced,
     KernelPlaced DEF Cpu
<1>3. CASE Interrupt
  <2>1. \E s \in Sems : GiveFromISR(s) /\ UNCHANGED <<pc, spawned>>
    BY <1>3, Named DEF Interrupt, TransferDone, HalfPlayed, DataIn, appVars
  <2> QED
    BY <1>0, <2>1, InterruptPlaced
<1>4. CASE SysTick
  BY <1>0, <1>4, KernelPlaced DEF SysTick
<1> QED
  BY <1>1, <1>2, <1>3, <1>4 DEF FirmwareNext

-----------------------------------------------------------------------------
(***************************************************************************)
(* The lists of the invariant hold each task once.                         *)
(***************************************************************************)

\* How often x is in a list without double entries.
LEMMA OccursOnce ==
  ASSUME NEW S, NEW list, ListOf(S, list), NEW x
  PROVE  /\ x \in ToSet(list) => Occurrences(x, list) = 1
         /\ x \notin ToSet(list) => Occurrences(x, list) = 0
<1> DEFINE at == {i \in DOMAIN list : list[i] = x}
<1>1. list \in Seq(S) /\ \A i, j \in 1 .. Len(list) : list[i] = list[j] => i = j
  BY Entries DEF ListOf
<1>2. DOMAIN list = 1 .. Len(list)
  BY <1>1
<1>3. ASSUME x \in ToSet(list)
      PROVE  Cardinality(at) = 1
  <2>1. PICK i \in 1 .. Len(list) : list[i] = x
    BY <1>1, <1>3, Entries
  <2>2. at = {i}
    BY <1>1, <1>2, <2>1
  <2> QED
    BY <2>2, FS_Singleton
<1>4. ASSUME x \notin ToSet(list)
      PROVE  Cardinality(at) = 0
  <2>1. at = {}
    BY <1>1, <1>2, <1>4, Entries
  <2> QED
    BY <2>1, FS_EmptySet
<1> QED
  BY <1>3, <1>4 DEF Occurrences

LEMMA SemsFinite == IsFiniteSet(Sems)
<1>1. IsFiniteSet({AudioSem, UsbSem, BspSem, Serial, Lock})
  <2>1. IsFiniteSet({})
    BY FS_EmptySet
  <2>2. /\ IsFiniteSet({AudioSem}) /\ IsFiniteSet({UsbSem}) /\ IsFiniteSet({BspSem})
        /\ IsFiniteSet({Serial}) /\ IsFiniteSet({Lock})
    BY FS_Singleton
  <2>3. IsFiniteSet({AudioSem} \cup {UsbSem} \cup {BspSem} \cup {Serial} \cup {Lock})
    BY <2>2, FS_Union
  <2>4. {AudioSem} \cup {UsbSem} \cup {BspSem} \cup {Serial} \cup {Lock}
          = {AudioSem, UsbSem, BspSem, Serial, Lock}
    OBVIOUS
  <2> QED
    BY <2>3, <2>4
<1> QED
  BY <1>1, Named

\* A sum of noughts.
LEMMA SumNone ==
  ASSUME NEW S, IsFiniteSet(S), NEW f, \A x \in S : f[x] = 0
  PROVE  SumFunctionOnSet(f, S) = 0
<1> DEFINE c == Cardinality(S)
           r == SumFunctionOnSet(f, S)
<1>1. 0 * c <= r /\ r <= 0 * c
  <2> DEFINE z == 0
  <2>1. z \in Int /\ \A x \in S : f[x] \in Int /\ z <= f[x] /\ f[x] <= z
    OBVIOUS
  <2> HIDE DEF z
  <2>2. /\ z * Cardinality(S) <= SumFunctionOnSet(f, S)
        /\ SumFunctionOnSet(f, S) <= z * Cardinality(S)
    BY <2>1, SumBounded
  <2> QED
    BY <2>2 DEF z
<1>2. c \in Nat /\ r \in Int
  BY FS_CardinalityType, SumSplits
<1> HIDE DEF c, r
<1>3. r = 0
  BY <1>1, <1>2
<1> QED
  BY <1>3 DEF r

\* The queues together hold a task once or not at all.
LEMMA QueuedOnce ==
  ASSUME PlaceInv, NEW t
  PROVE  /\ (\E s \in Sems : t \in Queue(s)) => SumFunctionOnSet(Queued(t), Sems) = 1
         /\ (\A s \in Sems : t \notin Queue(s)) => SumFunctionOnSet(Queued(t), Sems) = 0
<1> DEFINE f == Queued(t)
<1>1. \A s \in Sems : /\ t \in Queue(s) => f[s] = 1
                      /\ t \notin Queue(s) => f[s] = 0
  <2> SUFFICES ASSUME NEW s \in Sems
               PROVE  /\ t \in Queue(s) => f[s] = 1
                      /\ t \notin Queue(s) => f[s] = 0
    OBVIOUS
  <2>1. f[s] = Occurrences(t, sem[s].waiting)
    BY DEF Queued
  <2>2. ListOf(Tasks, sem[s].waiting)
    BY DEF PlaceInv, ListsOK
  <2> QED
    BY <2>1, <2>2, OccursOnce DEF Queue
<1> HIDE DEF f
<1>2. ASSUME NEW s \in Sems, t \in Queue(s)
      PROVE  SumFunctionOnSet(f, Sems) = 1
  <2>1. \A x \in Sems \ {s} : t \notin Queue(x)
    BY <1>2 DEF PlaceInv, PlacesOK
  <2>2. \A x \in Sems \ {s} : f[x] = 0
    BY <1>1, <2>1
  <2>3. IsFiniteSet(Sems \ {s})
    BY SemsFinite, FS_RemoveElement
  <2>4. SumFunctionOnSet(f, Sems \ {s}) = 0
    BY <2>2, <2>3, SumNone
  <2>5. \A x \in Sems : f[x] \in Int
    BY <1>1
  <2>6. SumFunctionOnSet(f, Sems) = f[s] + SumFunctionOnSet(f, Sems \ {s})
    BY <2>5, SemsFinite, SumSplits
  <2> QED
    BY <1>1, <1>2, <2>4, <2>6
<1>3. ASSUME \A s \in Sems : t \notin Queue(s)
      PROVE  SumFunctionOnSet(f, Sems) = 0
  BY <1>1, <1>3, SemsFinite, SumNone
<1> QED
  BY <1>2, <1>3 DEF f

LEMMA PlacesDisjoint == PlaceInv => OnePlace
<1> SUFFICES ASSUME PlaceInv, NEW t \in Tasks
             PROVE  Occurrences(t, ring) + Occurrences(t, pending)
                      + Occurrences(t, Names(delayed)) + SumFunctionOnSet(Queued(t), Sems)
                    = IF t \in Alive THEN 1 ELSE 0
  BY DEF OnePlace
<1> DEFINE r == Occurrences(t, ring)
           p == Occurrences(t, pending)
           d == Occurrences(t, Names(delayed))
           q == SumFunctionOnSet(Queued(t), Sems)
           waits == \E s \in Sems : t \in Queue(s)
<1>1. (t \in Ready => r = 1) /\ (t \notin Ready => r = 0)
  BY OccursOnce DEF PlaceInv, ListsOK, Ready
<1>2. (t \in Pended => p = 1) /\ (t \notin Pended => p = 0)
  BY OccursOnce DEF PlaceInv, ListsOK, Pended
<1>3. (t \in Asleep => d = 1) /\ (t \notin Asleep => d = 0)
  BY OccursOnce DEF PlaceInv, ListsOK, DelayedOK, Asleep
<1>4. (waits => q = 1) /\ (~ waits => q = 0)
  BY QueuedOnce
<1>5. t # End /\ t # Daemon
  BY TaskAssumption DEF TaskAssumption
<1>6. /\ t \in Ready => t \notin Pended /\ t \notin Asleep /\ ~ waits
      /\ t \in Pended => t \notin Asleep /\ ~ waits
      /\ t \in Asleep => ~ waits
      /\ t \in Alive <=> t \in Ready \/ t \in Pended \/ t \in Asleep \/ waits
  BY <1>5 DEF PlaceInv, PlacesOK
<1> HIDE DEF r, p, d, q, waits
<1>7. r + p + d + q = IF t \in Alive THEN 1 ELSE 0
  BY <1>1, <1>2, <1>3, <1>4, <1>6
<1> QED
  BY <1>7 DEF r, p, d, q

\* Every task that is created and not deleted is in exactly one list of the
\* kernel, once; the others are in none.
THEOREM OnePlaceHolds == FirmwareSpec => []OnePlace
<1>1. FirmwareInit => PlaceInv
  BY PlaceInit
<1>2. PlaceInv /\ [FirmwareNext]_firmwareVars => PlaceInv'
  BY PlaceStep
<1>3. PlaceInv => OnePlace
  BY PlacesDisjoint
<1> QED
  BY <1>1, <1>2, <1>3, PTL DEF FirmwareSpec

\* No task is left in the queue of a semaphore that can be had without somebody
\* on the way to it: another task woken to take it, or the task that has locked
\* the queue and will find the note an interrupt has left.
THEOREM NoStrandedWaiterHolds == FirmwareSpec => []NoStrandedWaiter
<1>1. FirmwareInit => PlaceInv
  BY PlaceInit
<1>2. PlaceInv /\ [FirmwareNext]_firmwareVars => PlaceInv'
  BY PlaceStep
<1>3. PlaceInv => NoStrandedWaiter
  BY DEF PlaceInv
<1> QED
  BY <1>1, <1>2, <1>3, PTL DEF FirmwareSpec

-----------------------------------------------------------------------------
(***************************************************************************)
(* The order of the start.  Until AudioTask has prepared the synthesizer   *)
(* it sleeps on nothing, and stands in the ready list before the tasks     *)
(* that come after it; nobody sleeps and the timer has not been started,   *)
(* so that no tick and no timer changes that order.                        *)
(***************************************************************************)

\* The tasks that use what AudioTask prepares.
Later == {Test, Bsp, Usb}

\* AudioTask has its turn before they have; the first of r has the last.
AudioFirst(r) ==
  \A i \in 2 .. Len(r) : r[i] \in Later => \E j \in 2 .. i - 1 : r[j] = Audio

LEMMA FirstAgain ==
  ASSUME NEW a \in Seq(Tasks \cup {End}), Len(a) > 1, AudioFirst(a), a[2] # Audio,
         (\E x \in Later : x \in ToSet(a)) => Audio \in ToSet(a)
  PROVE  AudioFirst(Rotate(a)) /\ a[2] \notin Later
<1> DEFINE b == Rotate(a)
           n == Len(a)
<1>1. n \in Nat /\ n > 1 /\ Len(b) = n /\ b[n] = a[1] /\ \A i \in 1 .. n - 1 : b[i] = a[i + 1]
  BY DEF Rotate
<1>2. a[2] \notin Later
  BY <1>1 DEF AudioFirst
<1>3. ASSUME NEW i \in 2 .. n, b[i] \in Later
      PROVE  \E j \in 2 .. i - 1 : b[j] = Audio
  <2>1. CASE i < n
    <3>1. i + 1 \in 2 .. n /\ a[i + 1] \in Later
      BY <1>1, <1>3, <2>1
    <3>2. PICK j \in 2 .. (i + 1) - 1 : a[j] = Audio
      BY <3>1 DEF AudioFirst
    <3>3. j # 2 /\ j - 1 \in 2 .. i - 1 /\ j - 1 \in 1 .. n - 1 /\ (j - 1) + 1 = j
      BY <1>1, <3>2
    <3>4. b[j - 1] = Audio
      BY <1>1, <3>2, <3>3
    <3> QED
      BY <3>3, <3>4
  <2>2. CASE i = n
    <3>1. a[1] \in Later
      BY <1>1, <1>3, <2>2
    <3>2. a[1] \in ToSet(a)
      BY <1>1, Entries
    <3>3. PICK j \in 1 .. n : a[j] = Audio
      BY <3>1, <3>2, Entries
    <3>4. j # 2 /\ j # 1
      BY <3>1, <3>3, TasksDiffer DEF Later
    <3>5. j - 1 \in 2 .. i - 1 /\ j - 1 \in 1 .. n - 1 /\ (j - 1) + 1 = j
      BY <1>1, <2>2, <3>4
    <3>6. b[j - 1] = Audio
      BY <1>1, <3>3, <3>5
    <3> QED
      BY <3>5, <3>6
  <2> QED
    BY <1>1, <2>1, <2>2
<1> HIDE DEF b
<1>4. AudioFirst(b)
  BY <1>1, <1>3 DEF AudioFirst
<1> QED
  BY <1>2, <1>4 DEF b

\* A switch goes to none of them before AudioTask.
LEMMA FirstTurn ==
  ASSUME NEW r, ListOf(Tasks \cup {End}, r), Idle \in ToSet(r), End \in ToSet(r),
         AudioFirst(r), (\E x \in Later : x \in ToSet(r)) => Audio \in ToSet(r)
  PROVE  /\ Head(Advance(r)) \notin Later
         /\ Head(Advance(r)) = Audio \/ AudioFirst(Advance(r))
<1> DEFINE S == Tasks \cup {End}
           a == Rotate(r)
           b == Rotate(a)
<1>0. Audio \notin Later /\ End \notin Later /\ End # Audio /\ End # Idle
  BY Named, TasksDiffer, TaskAssumption DEF Later, TaskAssumption
<1>1. r \in Seq(S) /\ Len(r) \in Nat /\ Len(r) > 1
  <2>1. r \in Seq(S) /\ Len(r) \in Nat
    BY DEF ListOf
  <2>2. PICK i \in 1 .. Len(r), j \in 1 .. Len(r) : r[i] = Idle /\ r[j] = End
    BY <2>1, Entries
  <2> QED
    BY <1>0, <2>1, <2>2
<1>2. /\ a \in Seq(S) /\ Len(a) = Len(r) /\ a[1] = r[2] /\ Head(a) = a[1]
      /\ \A x : x \in ToSet(a) <=> x \in ToSet(r)
  <2>1. a \in Seq(S) /\ Len(a) = Len(r) /\ a[1] = r[2] /\ Head(a) = a[1]
    BY <1>1 DEF Rotate
  <2>2. \A x : x \in ToSet(a) <=> x \in ToSet(r)
    <3>1. r # <<>>
      BY <1>1
    <3> QED
      BY <3>1, Rotated
  <2> QED
    BY <2>1, <2>2
<1>3. /\ b \in Seq(S) /\ Len(b) = Len(r) /\ Head(b) = a[2]
  BY <1>1, <1>2 DEF Rotate
<1>4. r[2] # Audio => AudioFirst(a) /\ r[2] \notin Later
  BY <1>0, <1>1, FirstAgain
<1> HIDE DEF a
<1>5. AudioFirst(a) /\ a[2] # Audio => AudioFirst(b) /\ a[2] \notin Later
  BY <1>0, <1>1, <1>2, FirstAgain
<1> HIDE DEF b
<1>6. CASE Head(a) = End
  <2>1. Advance(r) = b
    BY <1>6 DEF Advance, a, b
  <2>2. AudioFirst(a)
    BY <1>0, <1>2, <1>4, <1>6
  <2> QED
    BY <1>0, <1>3, <1>5, <2>1, <2>2
<1>7. CASE Head(a) # End
  <2>1. Advance(r) = a
    BY <1>7 DEF Advance, a
  <2> QED
    BY <1>0, <1>2, <1>4, <2>1
<1> QED
  BY <1>6, <1>7

LEMMA FirstJoined ==
  ASSUME NEW a \in Seq(Tasks \cup {End}), NEW b \in Seq(Tasks \cup {End}),
         AudioFirst(a), \A x \in ToSet(b) : x \notin Later
  PROVE  AudioFirst(a \o b)
<1> DEFINE c == a \o b
<1>1. /\ Len(a) \in Nat /\ Len(b) \in Nat /\ Len(c) = Len(a) + Len(b)
      /\ \A i \in 1 .. Len(a) + Len(b) : c[i] = IF i <= Len(a) THEN a[i] ELSE b[i - Len(a)]
  OBVIOUS
<1> HIDE DEF c
<1>2. ASSUME NEW i \in 2 .. Len(c), c[i] \in Later
      PROVE  \E j \in 2 .. i - 1 : c[j] = Audio
  <2>1. i <= Len(a)
    <3> SUFFICES ASSUME ~ i <= Len(a) PROVE FALSE
      OBVIOUS
    <3>1. i - Len(a) \in 1 .. Len(b) /\ c[i] = b[i - Len(a)]
      BY <1>1
    <3> QED
      BY <1>2, <3>1, Entries
  <2>2. PICK j \in 2 .. i - 1 : a[j] = Audio
    BY <1>1, <1>2, <2>1 DEF AudioFirst
  <2>3. c[j] = Audio
    BY <1>1, <2>1, <2>2
  <2> QED
    BY <2>2, <2>3
<1>3. AudioFirst(c)
  BY <1>2 DEF AudioFirst
<1> QED
  BY <1>3 DEF c

LEMMA FirstCreated ==
  ASSUME NEW a \in Seq(Tasks \cup {End}), NEW b \in Seq(Tasks \cup {End}),
         Len(a) > 0, \A x \in ToSet(a) : x \notin Later, Len(b) > 0, b[1] = Audio
  PROVE  AudioFirst(a \o b)
<1> DEFINE c == a \o b
<1>1. /\ Len(a) \in Nat /\ Len(b) \in Nat /\ Len(c) = Len(a) + Len(b)
      /\ \A i \in 1 .. Len(a) + Len(b) : c[i] = IF i <= Len(a) THEN a[i] ELSE b[i - Len(a)]
  OBVIOUS
<1> HIDE DEF c
<1>2. Audio \notin Later
  BY TasksDiffer DEF Later
<1>3. ASSUME NEW i \in 2 .. Len(c), c[i] \in Later
      PROVE  \E j \in 2 .. i - 1 : c[j] = Audio
  <2> DEFINE k == Len(a) + 1
  <2>1. k \in 2 .. Len(c) /\ k - Len(a) = 1 /\ c[k] = Audio
    BY <1>1
  <2>2. ~ i <= Len(a)
    <3> SUFFICES ASSUME i <= Len(a) PROVE FALSE
      OBVIOUS
    <3>1. i \in 1 .. Len(a) /\ c[i] = a[i]
      BY <1>1
    <3> QED
      BY <1>3, <3>1, Entries
  <2>3. i # k
    BY <1>2, <1>3, <2>1
  <2>4. k \in 2 .. i - 1
    BY <1>1, <2>1, <2>2, <2>3
  <2> QED
    BY <2>1, <2>4
<1>4. AudioFirst(c)
  BY <1>3 DEF AudioFirst
<1> QED
  BY <1>4 DEF c

LEMMA FirstRemoved ==
  ASSUME NEW r \in Seq(Tasks \cup {End}), Len(r) > 1, AudioFirst(r), NEW t, Head(r) = t
  PROVE  AudioFirst(ListRemove(r, t))
<1> DEFINE c == ListRemove(r, t)
           m == <<r[Len(r)]>>
           s == SubSeq(r, 2, Len(r) - 1)
<1>1. c = m \o s
  BY DEF ListRemove
<1>2. Len(r) \in Nat /\ m \in Seq(Tasks \cup {End}) /\ Len(m) = 1
  OBVIOUS
<1>3. /\ s \in Seq(Tasks \cup {End}) /\ Len(s) = Len(r) - 2
      /\ \A i \in 1 .. Len(r) - 2 : s[i] = r[i + 1]
  <2> DEFINE n == Len(r) - 1
             k == 2
  <2>1. n \in 0 .. Len(r) /\ k \in 1 .. Len(r) + 1 /\ k <= n + 1
        /\ n + 1 - k = Len(r) - 2 /\ \A j \in 1 .. Len(r) - 2 : k - 1 + j = j + 1
    BY <1>2
  <2> HIDE DEF n, k
  <2>2. /\ SubSeq(r, k, n) \in Seq(Tasks \cup {End}) /\ Len(SubSeq(r, k, n)) = n + 1 - k
        /\ \A j \in 1 .. n + 1 - k : SubSeq(r, k, n)[j] = r[k - 1 + j]
    BY <2>1, PartOf
  <2>3. s = SubSeq(r, k, n)
    BY DEF k, n
  <2> HIDE DEF s
  <2> QED
    BY <2>1, <2>2, <2>3
<1> HIDE DEF c, m, s
<1>4. Len(c) = Len(r) - 1 /\ \A i \in 2 .. Len(r) - 1 : c[i] = s[i - 1]
  <2>1. /\ Len(m \o s) = Len(m) + Len(s)
        /\ \A j \in 1 .. Len(m) + Len(s) :
             (m \o s)[j] = IF j <= Len(m) THEN m[j] ELSE s[j - Len(m)]
    <3>1. m \in Seq(Tasks \cup {End}) /\ s \in Seq(Tasks \cup {End})
      BY <1>2, <1>3
    <3> QED
      BY <3>1
  <2> QED
    BY <1>1, <1>2, <1>3, <2>1
<1>5. \A i \in 2 .. Len(r) - 1 : c[i] = r[i]
  <2> SUFFICES ASSUME NEW i \in 2 .. Len(r) - 1 PROVE c[i] = r[i]
    OBVIOUS
  <2>1. i - 1 \in 1 .. Len(r) - 2 /\ (i - 1) + 1 = i
    BY <1>2
  <2> QED
    BY <1>3, <1>4, <2>1
<1>6. ASSUME NEW i \in 2 .. Len(c), c[i] \in Later
      PROVE  \E j \in 2 .. i - 1 : c[j] = Audio
  <2>1. i \in 2 .. Len(r) /\ r[i] \in Later
    BY <1>2, <1>4, <1>5, <1>6
  <2>2. PICK j \in 2 .. i - 1 : r[j] = Audio
    BY <2>1 DEF AudioFirst
  <2>3. c[j] = Audio
    BY <1>2, <1>4, <1>5, <2>2
  <2> QED
    BY <2>2, <2>3
<1>7. AudioFirst(c)
  BY <1>6 DEF AudioFirst
<1> QED
  BY <1>7 DEF c

\* No task sleeps: a tick has nobody to wake.
LEMMA NothingDue ==
  ASSUME delayed = <<>>
  PROVE  /\ Woken = <<>> /\ ~ TimerExpires
         /\ SubSeq(Ticked, Remaining, Len(Ticked)) = <<>>
<1>1. Ticked = <<>> /\ Names(delayed) = <<>>
  BY DEF Ticked, Names
<1>2. Remaining = 1
  <2>1. {i \in DOMAIN Ticked : Ticked[i].left > 0} = {}
    BY <1>1
  <2> HIDE DEF Ticked
  <2> QED
    BY <1>1, <2>1 DEF Remaining, FirstIn
<1>3. Expired = <<>>
  BY <1>1, <1>2 DEF Expired
<1>4. \A x : x \notin ToSet(Expired)
  BY <1>3, Empty
<1>5. Woken = <<>>
  BY <1>3, Empty DEF Woken, RemoveFirst
<1> QED
  BY <1>1, <1>2, <1>4, <1>5 DEF TimerExpires

\* The timer service task has not been asked for anything and nobody sleeps.
StillTime == timer = "dormant" /\ ~ command /\ ~ yieldDue /\ delayed = <<>>

\* Whose turn it is, and whose it will be.
AudioTurn ==
  /\ daemonReady <=> cur = Daemon
  /\ cur \notin Later
  /\ cur \in Tasks /\ call[cur].at # "yield" => Head(ring) = cur
  /\ cur = Audio \/ AudioFirst(ring)

NotStarted ==
  /\ Audio \in spawned
  /\ pc[Bsp] = "oled" /\ pc[Usb] = "init" /\ pc[Audio] \in {"init", "start", "bassInit"}
  /\ \A t \in Later \cup {Audio} : call[t].at = "none" /\ t \notin Pended

\* The start, until the synthesizer is prepared.
Booting == StillTime /\ AudioTurn /\ NotStarted

\* A task waits for a semaphore that exists.
ExistOK ==
  /\ pc[App] # "startIO" => Exists(Serial)
  /\ pc[App] \notin {"startIO", "hello", "helloSend", "panel", "panelSem"} => Exists(BspSem)
  /\ pc[App] \notin {"startIO", "hello", "helloSend", "panel", "panelSem", "lock"} => Exists(Lock)
  /\ pc[Audio] # "init" => Exists(AudioSem)
  /\ pc[Usb] # "init" => Exists(UsbSem)
  /\ \A t \in Tasks : call[t].of # NoSem => Exists(call[t].of)

BootInv == ExistOK /\ (~ bassReady => Booting)

-----------------------------------------------------------------------------
\* Who has not begun is not in a queue, and ready if it is created.
LEMMA AudioReady ==
  ASSUME PlaceInv, StillTime, NotStarted
  PROVE  /\ (\E x \in Later : x \in Ready) => Audio \in Ready
         /\ \A t \in Later \cup {Audio} : \A s \in Sems : t \notin Queue(s)
         /\ \A x : x \notin Asleep
<1>1. \A t \in Later \cup {Audio} : \A s \in Sems : t \notin Queue(s)
  <2> SUFFICES ASSUME NEW t \in Later \cup {Audio}, NEW s \in Sems, t \in Queue(s) PROVE FALSE
    OBVIOUS
  <2>1. call[t] = [at |-> "retry", of |-> s]
    BY DEF PlaceInv, QueuesOK
  <2>2. call[t].at = "retry"
    BY <2>1
  <2> QED
    BY <2>2 DEF NotStarted
<1>2. \A x : x \notin Asleep
  <2>1. Names(delayed) = <<>>
    BY DEF StillTime, Names
  <2> QED
    BY <2>1, Empty DEF Asleep
<1>3. ASSUME NEW x \in Later, x \in Ready
      PROVE  Audio \in Ready
  <2>1. x \in Alive /\ x # App /\ x # Idle
    BY <1>3, Named, TaskAssumption, TasksDiffer DEF PlaceInv, PlacesOK, Later, TaskAssumption
  <2>2. Audio \in Alive
    BY <2>1 DEF Alive, NotStarted
  <2> QED
    BY <1>1, <1>2, <2>2 DEF PlaceInv, PlacesOK, NotStarted
<1> QED
  BY <1>1, <1>2, <1>3

\* The processor goes to one of the list r, and not to those who come later.
LEMMA BootSwitch ==
  ASSUME StillTime, NEW r, ListOf(Tasks \cup {End}, r), Idle \in ToSet(r), End \in ToSet(r),
         AudioFirst(r), (\E x \in Later : x \in ToSet(r)) => Audio \in ToSet(r),
         NEW d, ~ d, SwitchFrom(r, d)
  PROVE  /\ ~ yieldDue' /\ ~ daemonReady' /\ cur' # Daemon /\ cur' \notin Later
         /\ Head(ring') = cur' /\ (cur' = Audio \/ AudioFirst(ring'))
<1>1. ~ yieldDue' /\ (daemonReady' <=> d)
  BY DEF SwitchFrom
<1>2. ring' = Advance(r) /\ cur' = Head(Advance(r))
  BY DEF SwitchFrom
<1>3. Idle \in Tasks /\ Daemon \notin Tasks
  BY TaskAssumption DEF TaskAssumption
<1>4. Head(Advance(r)) \in Tasks
  BY <1>3, Advanced
<1>5. /\ Head(Advance(r)) \notin Later
      /\ Head(Advance(r)) = Audio \/ AudioFirst(Advance(r))
  BY FirstTurn
<1> QED
  BY <1>1, <1>2, <1>3, <1>4, <1>5

LEMMA BootCatchUp ==
  ASSUME StillTime, ~ daemonReady, NEW r, ListOf(Tasks \cup {End}, r), Idle \in ToSet(r),
         End \in ToSet(r), AudioFirst(r),
         (\E x \in Later : x \in ToSet(r)) => Audio \in ToSet(r), CatchUp(r)
  PROVE  /\ ~ yieldDue' /\ ~ daemonReady' /\ cur' # Daemon /\ cur' \notin Later
         /\ Head(ring') = cur' /\ (cur' = Audio \/ AudioFirst(ring'))
         /\ delayed' = <<>> /\ timer' = "dormant"
<1>1. delayed = <<>> /\ timer = "dormant"
  BY DEF StillTime
<1>2. PICK d : ~ d /\ SwitchFrom(r, d) /\ delayed' = <<>> /\ timer' = "dormant"
  <2>1. CASE IncrementTick(r, TRUE)
    <3>1. /\ Woken = <<>> /\ ~ TimerExpires
          /\ SubSeq(Ticked, Remaining, Len(Ticked)) = <<>>
      BY <1>1, NothingDue
    <3>2. r \o <<>> = r
      BY DEF ListOf
    <3> DEFINE d == daemonReady \/ TimerExpires
    <3>3. SwitchFrom(r \o Woken, d)
      BY <2>1 DEF IncrementTick
    <3>4. ~ d
      BY <3>1
    <3> HIDE DEF d
    <3>5. SwitchFrom(r, d)
      BY <3>1, <3>2, <3>3
    <3>6. delayed' = <<>> /\ timer' = "dormant"
      BY <1>1, <2>1, <3>1 DEF IncrementTick
    <3> QED
      BY <3>4, <3>5, <3>6
  <2>2. CASE SwitchFrom(r, daemonReady) /\ UNCHANGED <<delayed, timer>>
    <3> DEFINE d == daemonReady
    <3>1. ~ d /\ SwitchFrom(r, d)
      BY <2>2
    <3> HIDE DEF d
    <3> QED
      BY <1>1, <2>2, <3>1
  <2> QED
    BY <2>1, <2>2 DEF CatchUp
<1>3. /\ ~ yieldDue' /\ ~ daemonReady' /\ cur' # Daemon /\ cur' \notin Later
      /\ Head(ring') = cur' /\ (cur' = Audio \/ AudioFirst(ring'))
  <2>1. ~ d /\ SwitchFrom(r, d)
    BY <1>2
  <2> QED
    BY <2>1, BootSwitch
<1> QED
  BY <1>2, <1>3

-----------------------------------------------------------------------------
(***************************************************************************)
(* A semaphore that exists stays, and no task asks for one before.         *)
(***************************************************************************)

\* AppMain, before it has created BspSem and Lock.
NoBsp == {"startIO", "hello", "helloSend", "panel", "panelSem"}
NoLock == NoBsp \cup {"lock"}

\* Who runs beside AppMain has been created by it.
LEMMA RunsLate ==
  ASSUME PlaceInv, NEW t \in Tasks \ {App, Idle}, NEW from, NEW to, Runs(t, from, to)
  PROVE  pc[App] \notin Early
<1>1. t \in Ready
  BY RunsFrom
<1>2. t \in Alive
  BY <1>1, TaskAssumption DEF PlaceInv, PlacesOK, TaskAssumption
<1> QED
  BY <1>2 DEF Alive, Early

LEMMA ExistSame ==
  ASSUME ExistOK, pc' = pc, \A s \in Sems : Exists(s) => sem'[s].count # -1,
         HeldInv, \A t \in Tasks : call'[t].of \in {call[t].of, NoSem}
  PROVE  ExistOK'
<1>1. \A t \in Tasks : call[t].of \in Sems \cup {NoSem}
  BY DEF HeldInv, ShapeOK
<1> QED
  BY <1>1, Named DEF ExistOK, Exists

LEMMA ExistRuns ==
  ASSUME PlaceInv, ExistOK, NEW t \in Tasks, NEW from, NEW to, Runs(t, from, to),
         \A s \in Sems : Exists(s) => sem'[s].count # -1,
         \A x \in Tasks : call'[x].of = NoSem \/ sem'[call'[x].of].count # -1,
         t = App => /\ to # "startIO" => sem'[Serial].count # -1
                    /\ to \notin NoBsp => from \notin NoBsp \/ sem'[BspSem].count # -1
                    /\ to \notin NoLock => from \notin NoLock \/ sem'[Lock].count # -1,
         t = Audio => sem'[AudioSem].count # -1,
         t = Usb => sem'[UsbSem].count # -1
  PROVE  ExistOK'
<1>1. pc[t] = from /\ pc'[t] = to /\ \A x \in Tasks \ {t} : pc'[x] = pc[x]
  BY RunsFrom
<1>2. /\ pc'[App] # "startIO" => sem'[Serial].count # -1
      /\ pc'[App] \notin NoBsp => sem'[BspSem].count # -1
      /\ pc'[App] \notin NoLock => sem'[Lock].count # -1
  BY <1>1, Named DEF ExistOK, Exists, NoBsp, NoLock
<1>3. /\ pc'[Audio] # "init" => sem'[AudioSem].count # -1
      /\ pc'[Usb] # "init" => sem'[UsbSem].count # -1
  BY <1>1, Named DEF ExistOK, Exists
<1> QED
  BY <1>2, <1>3 DEF ExistOK, Exists, NoBsp, NoLock

LEMMA ExistTakes ==
  ASSUME PlaceInv, ExistOK, NEW t \in Tasks, NEW s \in Sems, NEW from, NEW to,
         Takes(t, from, to, s), Exists(s),
         t = App => from \in {"hello", "bye"} /\ (from = "hello" => to = "helloSend"),
         t = Audio \/ t = Usb => from # "init"
  PROVE  ExistOK'
<1>1. HeldInv /\ Runs(t, from, to)
  BY DEF PlaceInv, Takes
<1>2. /\ pc[t] = from /\ call[t].of = NoSem /\ \A x \in Tasks \ {t} : call'[x] = call[x]
      /\ \A x \in Sems \ {s} : sem'[x] = sem[x]
      /\ \/ sem[s].count = 1 /\ sem'[s].count = 0 /\ call'[t].of = NoSem
         \/ sem' = sem /\ call'[t].of = s
  BY <1>1, TakeChanges
<1>3. \A x \in Sems : Exists(x) => sem'[x].count # -1
  BY <1>2 DEF Exists
<1>4. \A x \in Tasks : call'[x].of = NoSem \/ sem'[call'[x].of].count # -1
  <2>1. \A x \in Tasks : call[x].of \in Sems \cup {NoSem}
    BY <1>1 DEF HeldInv, ShapeOK
  <2>2. \A x \in Tasks : call[x].of = NoSem \/ sem'[call[x].of].count # -1
    BY <1>3, <2>1 DEF ExistOK
  <2> QED
    BY <1>2, <1>3, <2>2
<1>5. /\ pc[App] # "startIO" => sem'[Serial].count # -1
      /\ pc[Audio] # "init" => sem'[AudioSem].count # -1
      /\ pc[Usb] # "init" => sem'[UsbSem].count # -1
  BY <1>3, Named DEF ExistOK
<1>6. t = App => /\ to # "startIO" => sem'[Serial].count # -1
                 /\ to \notin NoBsp => from \notin NoBsp \/ sem'[BspSem].count # -1
                 /\ to \notin NoLock => from \notin NoLock \/ sem'[Lock].count # -1
  BY <1>2, <1>5 DEF NoBsp, NoLock
<1> QED
  BY <1>1, <1>2, <1>3, <1>4, <1>5, <1>6, ExistRuns

\* A step in which no task takes or creates a semaphore.
LEMMA ExistWorks ==
  ASSUME PlaceInv, ExistOK, NEW t \in Tasks, NEW from, NEW to, Runs(t, from, to),
         \A s \in Sems : Exists(s) => sem'[s].count # -1,
         \A x \in Tasks : call'[x].of = call[x].of,
         t = App => /\ from # "startIO"
                    /\ to \notin NoBsp => from \notin NoBsp
                    /\ to \notin NoLock => from \notin NoLock,
         t = Audio \/ t = Usb => from # "init"
  PROVE  ExistOK'
<1>1. pc[t] = from
  BY RunsFrom
<1>2. \A x \in Tasks : call'[x].of = NoSem \/ sem'[call'[x].of].count # -1
  <2>1. \A x \in Tasks : call[x].of \in Sems \cup {NoSem}
    BY DEF PlaceInv, HeldInv, ShapeOK
  <2> QED
    BY <2>1 DEF ExistOK
<1>3. /\ pc[App] # "startIO" => sem'[Serial].count # -1
      /\ pc[Audio] # "init" => sem'[AudioSem].count # -1
      /\ pc[Usb] # "init" => sem'[UsbSem].count # -1
  BY Named DEF ExistOK
<1> QED
  BY <1>1, <1>2, <1>3, ExistRuns

LEMMA ExistCreates ==
  ASSUME PlaceInv, ExistOK, NEW t \in Tasks, NEW s \in Sems, NEW n \in {0, 1}, NEW from, NEW to,
         <<t, from, to, s>> \in
           {<<App, "startIO", "hello", Serial>>, <<App, "lock", "spawn", Lock>>,
            <<App, "panelSem", "lock", BspSem>>, <<Audio, "init", "start", AudioSem>>,
            <<Usb, "init", "wait", UsbSem>>},
         Creates(t, from, to, s, n)
  PROVE  ExistOK'
<1>1. Runs(t, from, to) /\ sem' = [sem EXCEPT ![s] = Created(n)] /\ call' = call
  BY DEF Creates
<1>2. sem'[s].count # -1 /\ \A x \in Sems \ {s} : sem'[x] = sem[x]
  <2>1. Created(n).count = n
    BY DEF Created, Absent
  <2>2. sem'[s] = Created(n) /\ \A x \in Sems \ {s} : sem'[x] = sem[x]
    BY <1>1 DEF PlaceInv, HeldInv, ShapeOK
  <2>3. n # -1
    OBVIOUS
  <2> QED
    BY <2>1, <2>2, <2>3
<1>3. \A x \in Sems : Exists(x) => sem'[x].count # -1
  BY <1>2 DEF Exists
<1>4. \A x \in Tasks : call'[x].of = NoSem \/ sem'[call'[x].of].count # -1
  <2>1. \A x \in Tasks : call[x].of \in Sems \cup {NoSem}
    BY DEF PlaceInv, HeldInv, ShapeOK
  <2> QED
    BY <1>1, <1>3, <2>1 DEF ExistOK
<1>5. pc[t] = from
  BY <1>1, RunsFrom
<1>6. /\ t = App => from = "startIO" \/ sem'[Serial].count # -1
      /\ t = App => \/ from = "startIO" /\ to = "hello" /\ s = Serial
                    \/ from = "panelSem" /\ to = "lock" /\ s = BspSem
                    \/ from = "lock" /\ to = "spawn" /\ s = Lock
      /\ t = Audio => s = AudioSem
      /\ t = Usb => s = UsbSem
  BY <1>3, <1>5, Named, TasksDiffer DEF ExistOK
<1>7. t = App => /\ to # "startIO" => sem'[Serial].count # -1
                 /\ to \notin NoBsp => from \notin NoBsp \/ sem'[BspSem].count # -1
                 /\ to \notin NoLock => from \notin NoLock \/ sem'[Lock].count # -1
  BY <1>2, <1>6 DEF NoBsp, NoLock
<1> QED
  BY <1>1, <1>2, <1>3, <1>4, <1>6, <1>7, ExistRuns

LEMMA ExistGives ==
  ASSUME PlaceInv, ExistOK, NEW t \in Tasks \ {App}, NEW s \in Sems, NEW from, NEW to,
         Gives(t, from, to, s), t = Audio \/ t = Usb => from # "init"
  PROVE  ExistOK'
<1>1. Runs(t, from, to) /\ Give(s) /\ call' = call
  BY DEF Gives
<1>2. \A x \in Sems : Exists(x) => sem'[x].count # -1
  BY <1>1, GiveChanges DEF PlaceInv, HeldInv, Exists
<1> QED
  BY <1>1, <1>2, ExistWorks

LEMMA ExistInterrupt ==
  ASSUME PlaceInv, ExistOK, NEW s \in Sems, GiveFromISR(s), pc' = pc
  PROVE  ExistOK'
<1>1. \A x \in Sems : Exists(x) => sem'[x].count # -1
  BY GiveChanges DEF PlaceInv, HeldInv, Exists
<1>2. call' = call
  BY DEF GiveFromISR
<1> QED
  BY <1>1, <1>2, ExistSame DEF PlaceInv

LEMMA ExistKernel ==
  ASSUME PlaceInv, ExistOK, UNCHANGED appVars,
         \/ \E t \in Tasks : KernelStep(t)
         \/ IdleYields \/ StartCommand \/ DaemonBlocks \/ Tick
  PROVE  ExistOK'
<1>0. pc' = pc /\ HeldInv
  BY DEF appVars, PlaceInv
<1>1. CASE IdleYields \/ StartCommand \/ DaemonBlocks \/ Tick
  <2>1. UNCHANGED <<sem, call>>
    BY <1>1 DEF IdleYields, StartCommand, DaemonBlocks, Tick
  <2> QED
    BY <1>0, <2>1, ExistSame DEF Exists
<1>2. ASSUME NEW t \in Tasks, Resume(t) \/ Yield(t) \/ LockQueue(t) \/ Place(t)
      PROVE  ExistOK'
  <2>1. Moves(t, "none") \/ Moves(t, "place") \/ Moves(t, "retry")
    BY <1>2 DEF Resume, Yield, LockQueue, Place
  <2>2. \A x \in Tasks : call'[x].of = call[x].of
    BY <1>0, <2>1, MovesChanges DEF HeldInv
  <2>3. \A x \in Sems : sem'[x].count = sem[x].count
    <3>1. \/ sem' = sem
          \/ sem' = [sem EXCEPT ![call[t].of].txLock = 0]
          \/ \E w : sem' = [sem EXCEPT ![call[t].of].txLock = Unlocked,
                                       ![call[t].of].waiting = w]
      BY <1>2 DEF Resume, Yield, LockQueue, Place
    <3>2. \A x \in Sems : "count" \in DOMAIN sem[x] /\ "waiting" \in DOMAIN sem[x]
      BY <1>0 DEF HeldInv, ShapeOK
    <3>3. DOMAIN sem = Sems
      BY <1>0 DEF HeldInv, ShapeOK
    <3>4. CASE \E w : sem' = [sem EXCEPT ![call[t].of].txLock = Unlocked,
                                         ![call[t].of].waiting = w]
      BY <3>2, <3>3, <3>4
    <3>5. CASE sem' = sem \/ sem' = [sem EXCEPT ![call[t].of].txLock = 0]
      BY <3>2, <3>3, <3>5
    <3> QED
      BY <3>1, <3>4, <3>5
  <2> QED
    BY <1>0, <2>2, <2>3, ExistSame DEF Exists
<1>3. ASSUME NEW t \in Tasks, Retry(t)
      PROVE  ExistOK'
  <2> DEFINE s == call[t].of
  <2>1. s \in Sems /\ Exists(s)
    BY <1>0, <1>3 DEF Retry, At, HeldInv, ShapeOK, CallsOK, ExistOK
  <2>2. Take(t, s)
    BY <1>3 DEF Retry
  <2>3. \A x \in Tasks : call'[x].of \in {call[x].of, NoSem}
    BY <1>0, <2>2 DEF Take, HeldInv, ShapeOK
  <2>4. \A x \in Sems : Exists(x) => sem'[x].count # -1
    <3>1. \/ sem' = sem
          \/ sem[s].count > 0 /\ sem' = [sem EXCEPT ![s].count = @ - 1]
      BY <2>2 DEF Take
    <3> HIDE DEF s
    <3> QED
      BY <1>0, <2>1, <3>1 DEF HeldInv, ShapeOK, Exists
  <2> QED
    BY <1>0, <2>3, <2>4, ExistSame
<1> QED
  BY <1>1, <1>2, <1>3 DEF KernelStep

-----------------------------------------------------------------------------
LEMMA ExistApp == ASSUME PlaceInv, ExistOK, AppMain PROVE ExistOK'
<1> USE Named, TasksDiffer
<1>1. CASE \/ Creates(App, "startIO", "hello", Serial, 1)
           \/ Creates(App, "panelSem", "lock", BspSem, 0)
           \/ Creates(App, "lock", "spawn", Lock, 1)
  BY <1>1, ExistCreates
<1>2. CASE \/ Takes(App, "hello", "helloSend", Serial)
           \/ Takes(App, "bye", "byeSend", Serial)
  <2>1. Exists(Serial)
    <3>1. pc[App] # "startIO"
      BY <1>2 DEF Takes, Runs
    <3> QED
      BY <3>1 DEF ExistOK
  <2> QED
    BY <1>2, <2>1, ExistTakes
<1>3. CASE \/ Starts(App, "helloSend", "panel", "uart")
           \/ Starts(App, "panel", "panelSem", "spi")
           \/ Starts(App, "byeSend", "delete", "uart")
  <2>1. UNCHANGED <<sem, call>>
    BY <1>3 DEF Starts, kernelVars
  <2> QED
    BY <1>3, <2>1, ExistWorks DEF Starts, Exists, NoBsp, NoLock
<1>4. CASE Runs(App, "spawn", "bye") /\ UNCHANGED <<sem, call>>
  BY <1>4, ExistWorks DEF Exists, NoBsp, NoLock
<1>5. CASE Runs(App, "delete", "deleted") /\ Delete(App)
  <2>1. Moves(App, "yield") /\ sem' = sem
    BY <1>5 DEF Delete
  <2>2. \A x \in Tasks : call'[x].of = call[x].of
    BY <2>1, MovesChanges DEF PlaceInv, HeldInv
  <2> QED
    BY <1>5, <2>1, <2>2, ExistWorks DEF Exists, NoBsp, NoLock
<1> QED
  BY <1>1, <1>2, <1>3, <1>4, <1>5 DEF AppMain

\* The other tasks run once AppMain has created what they share.
LEMMA SharedExist ==
  ASSUME PlaceInv, ExistOK, NEW t \in Tasks \ {App, Idle}, NEW from, NEW to, Runs(t, from, to)
  PROVE  Exists(Serial) /\ Exists(BspSem) /\ Exists(Lock)
<1>1. pc[App] \notin Early
  BY RunsLate
<1> QED
  BY <1>1 DEF ExistOK, Early

LEMMA ExistAudio == ASSUME PlaceInv, ExistOK, AudioTask PROVE ExistOK'
<1> USE Named, TasksDiffer
<1>1. CASE Creates(Audio, "init", "start", AudioSem, 0)
  BY <1>1, ExistCreates
<1>2. CASE \/ Starts(Audio, "start", "bassInit", "i2s")
           \/ Runs(Audio, "bassInit", "wait") /\ UNCHANGED <<kernelVars, devices, spawned>>
  <2>1. UNCHANGED <<sem, call>>
    BY <1>2 DEF Starts, kernelVars
  <2> QED
    BY <1>2, <2>1, ExistWorks DEF Starts, Exists
<1>3. CASE Takes(Audio, "wait", "lock", AudioSem)
  <2>1. Exists(AudioSem)
    <3>1. pc[Audio] # "init"
      BY <1>3 DEF Takes, Runs
    <3> QED
      BY <3>1 DEF ExistOK
  <2> QED
    BY <1>3, <2>1, ExistTakes
<1>4. CASE Takes(Audio, "lock", "process", Lock)
  <2>1. Exists(Lock)
    BY <1>4, SharedExist DEF Takes
  <2> QED
    BY <1>4, <2>1, ExistTakes
<1>5. CASE Gives(Audio, "process", "wait", Lock)
  BY <1>5, ExistGives
<1> QED
  BY <1>1, <1>2, <1>3, <1>4, <1>5 DEF AudioTask

LEMMA ExistTest == ASSUME PlaceInv, ExistOK, TestTask PROVE ExistOK'
<1> USE Named, TasksDiffer
<1>1. CASE Takes(Test, "write", "send", Serial)
  <2>1. Exists(Serial)
    BY <1>1, SharedExist DEF Takes
  <2> QED
    BY <1>1, <2>1, ExistTakes
<1>2. CASE Starts(Test, "send", "sleep", "uart")
  <2>1. UNCHANGED <<sem, call>>
    BY <1>2 DEF Starts, kernelVars
  <2> QED
    BY <1>2, <2>1, ExistWorks DEF Starts, Exists
<1>3. CASE Runs(Test, "sleep", "write") /\ Delay(Test, TestDelay)
  <2>1. Moves(Test, "resume") /\ sem' = sem
    BY <1>3 DEF Delay
  <2>2. \A x \in Tasks : call'[x].of = call[x].of
    BY <2>1, MovesChanges DEF PlaceInv, HeldInv
  <2> QED
    BY <1>3, <2>1, <2>2, ExistWorks DEF Exists
<1> QED
  BY <1>1, <1>2, <1>3 DEF TestTask

LEMMA ExistBsp == ASSUME PlaceInv, ExistOK, BspTask PROVE ExistOK'
<1> USE Named, TasksDiffer
<1>1. CASE Runs(Bsp, "oled", "oled") /\ Delay(Bsp, OledDelay)
  <2>1. Moves(Bsp, "resume") /\ sem' = sem
    BY <1>1 DEF Delay
  <2>2. \A x \in Tasks : call'[x].of = call[x].of
    BY <2>1, MovesChanges DEF PlaceInv, HeldInv
  <2> QED
    BY <1>1, <2>1, <2>2, ExistWorks DEF Exists
<1>2. CASE \/ Works(Bsp, "oled", "guiInit") \/ Works(Bsp, "guiInit", "wait")
           \/ Works(Bsp, "events", "wait")
           \/ Runs(Bsp, "timer", "events") /\ UNCHANGED <<sem, call>>
  <2>1. UNCHANGED <<sem, call>>
    BY <1>2 DEF Works, kernelVars
  <2> QED
    BY <1>2, <2>1, ExistWorks DEF Works, Exists
<1>3. CASE Takes(Bsp, "wait", "timer", BspSem)
  <2>1. Exists(BspSem)
    BY <1>3, SharedExist DEF Takes
  <2> QED
    BY <1>3, <2>1, ExistTakes
<1>4. CASE Takes(Bsp, "events", "edit", Lock)
  <2>1. Exists(Lock)
    BY <1>4, SharedExist DEF Takes
  <2> QED
    BY <1>4, <2>1, ExistTakes
<1>5. CASE Gives(Bsp, "edit", "events", Lock)
  BY <1>5, ExistGives
<1> QED
  BY <1>1, <1>2, <1>3, <1>4, <1>5 DEF BspTask

LEMMA ExistUsb == ASSUME PlaceInv, ExistOK, UsbTask PROVE ExistOK'
<1> USE Named, TasksDiffer
<1>1. CASE Creates(Usb, "init", "wait", UsbSem, 0)
  BY <1>1, ExistCreates
<1>2. CASE Takes(Usb, "wait", "lock", UsbSem)
  <2>1. Exists(UsbSem)
    <3>1. pc[Usb] # "init"
      BY <1>2 DEF Takes, Runs
    <3> QED
      BY <3>1 DEF ExistOK
  <2> QED
    BY <1>2, <2>1, ExistTakes
<1>3. CASE Takes(Usb, "lock", "play", Lock)
  <2>1. Exists(Lock)
    BY <1>3, SharedExist DEF Takes
  <2> QED
    BY <1>3, <2>1, ExistTakes
<1>4. CASE Takes(Usb, "play", "send", Serial)
  <2>1. Exists(Serial)
    BY <1>4, SharedExist DEF Takes
  <2> QED
    BY <1>4, <2>1, ExistTakes
<1>5. CASE Starts(Usb, "send", "play", "uart")
  <2>1. UNCHANGED <<sem, call>>
    BY <1>5 DEF Starts, kernelVars
  <2> QED
    BY <1>5, <2>1, ExistWorks DEF Starts, Exists
<1>6. CASE Gives(Usb, "play", "wait", Lock)
  BY <1>6, ExistGives
<1> QED
  BY <1>1, <1>2, <1>3, <1>4, <1>5, <1>6 DEF UsbTask

LEMMA ExistStep ==
  ASSUME PlaceInv, ExistOK, [FirmwareNext]_firmwareVars
  PROVE  ExistOK'
<1>1. CASE UNCHANGED firmwareVars \/ OS_SpiTimerCallback
  <2>1. UNCHANGED <<pc, call, sem>>
    BY <1>1 DEF firmwareVars, kernelVars, appVars, OS_SpiTimerCallback, Expire
  <2> QED
    BY <2>1, ExistSame DEF PlaceInv, Exists
<1>2. CASE Cpu
  BY <1>1, <1>2, ExistApp, ExistAudio, ExistTest, ExistBsp, ExistUsb, ExistKernel DEF Cpu
<1>3. CASE Interrupt
  <2>1. \E s \in Sems : GiveFromISR(s) /\ pc' = pc
    BY <1>3, Named DEF Interrupt, TransferDone, HalfPlayed, DataIn, appVars
  <2> QED
    BY <2>1, ExistInterrupt
<1>4. CASE SysTick
  BY <1>4, ExistKernel DEF SysTick
<1> QED
  BY <1>1, <1>2, <1>3, <1>4 DEF FirmwareNext

-----------------------------------------------------------------------------
(***************************************************************************)
(* Each step before the synthesizer is prepared keeps the order.           *)
(***************************************************************************)

LEMMA NotStartedKept ==
  ASSUME NotStarted, spawned' = spawned, pc'[Bsp] = pc[Bsp], pc'[Usb] = pc[Usb],
         pc'[Audio] \in {"init", "start", "bassInit"},
         \A t \in Later \cup {Audio} : call'[t].at = call[t].at /\ (t \in Pended' => t \in Pended)
  PROVE  NotStarted'
BY DEF NotStarted, Later

LEMMA BootKept ==
  ASSUME Booting, UNCHANGED <<cur, ring, daemonReady, yieldDue, delayed, timer, command>>,
         NotStarted', cur \in Tasks /\ call'[cur].at # "yield" => call[cur].at # "yield"
  PROVE  Booting'
<1>1. StillTime'
  BY DEF Booting, StillTime
<1>2. AudioTurn'
  BY DEF Booting, AudioTurn, AudioFirst
<1> QED
  BY <1>1, <1>2 DEF Booting

\* The ready list of a boot.
LEMMA BootRing ==
  ASSUME PlaceInv, Booting
  PROVE  /\ ListOf(Tasks \cup {End}, ring) /\ ring \in Seq(Tasks \cup {End})
         /\ Len(ring) \in Nat /\ Len(ring) > 1
         /\ Idle \in ToSet(ring) /\ End \in ToSet(ring)
         /\ (\E x \in Later : x \in ToSet(ring)) => Audio \in ToSet(ring)
<1>1. ListOf(Tasks \cup {End}, ring) /\ Idle \in ToSet(ring) /\ End \in ToSet(ring)
  BY DEF PlaceInv, ListsOK, PlacesOK, Ready
<1>2. ring \in Seq(Tasks \cup {End}) /\ Len(ring) \in Nat
  BY <1>1 DEF ListOf
<1>3. Len(ring) > 1
  <2>1. PICK i \in 1 .. Len(ring), j \in 1 .. Len(ring) : ring[i] = Idle /\ ring[j] = End
    BY <1>1, <1>2, Entries
  <2>2. Idle # End
    BY TaskAssumption DEF TaskAssumption
  <2> QED
    BY <1>2, <2>1, <2>2
<1>4. (\E x \in Later : x \in ToSet(ring)) => Audio \in ToSet(ring)
  BY AudioReady DEF Booting, Ready
<1> QED
  BY <1>1, <1>2, <1>3, <1>4

\* Another task than AudioTask gives up the processor.
LEMMA BootSwitched ==
  ASSUME PlaceInv, Booting, cur # Audio, NEW d, ~ d, SwitchFrom(ring, d),
         UNCHANGED <<delayed, timer, command>>, NotStarted'
  PROVE  Booting'
<1>1. AudioFirst(ring) /\ StillTime
  BY DEF Booting, AudioTurn
<1>2. /\ ~ yieldDue' /\ ~ daemonReady' /\ cur' # Daemon /\ cur' \notin Later
      /\ Head(ring') = cur' /\ (cur' = Audio \/ AudioFirst(ring'))
  <2>1. /\ ListOf(Tasks \cup {End}, ring) /\ Idle \in ToSet(ring) /\ End \in ToSet(ring)
        /\ (\E x \in Later : x \in ToSet(ring)) => Audio \in ToSet(ring)
    BY BootRing
  <2> QED
    BY <1>1, <2>1, BootSwitch
<1>3. StillTime'
  BY <1>1, <1>2 DEF StillTime
<1>4. AudioTurn'
  BY <1>2 DEF AudioTurn, AudioFirst
<1> QED
  BY <1>3, <1>4 DEF Booting

\* The ready list gets entries that are not to wait for AudioTask.
LEMMA BootJoined ==
  ASSUME PlaceInv, Booting, NEW b \in Seq(Tasks \cup {End}), \A x \in ToSet(b) : x \notin Later,
         ring' = ring \o b, UNCHANGED <<cur, daemonReady, yieldDue, delayed, timer, command>>,
         NotStarted', cur \in Tasks /\ call'[cur].at # "yield" => call[cur].at # "yield"
  PROVE  Booting'
<1>1. ring \in Seq(Tasks \cup {End}) /\ Len(ring) > 0
  BY BootRing
<1>2. Head(ring') = Head(ring)
  BY <1>1
<1>3. AudioFirst(ring) => AudioFirst(ring')
  BY <1>1, FirstJoined
<1>4. StillTime'
  BY DEF Booting, StillTime
<1>5. AudioTurn'
  BY <1>2, <1>3 DEF Booting, AudioTurn, AudioFirst
<1> QED
  BY <1>4, <1>5 DEF Booting

-----------------------------------------------------------------------------
LEMMA BootLock ==
  ASSUME PlaceInv, Booting, NEW t \in Tasks, LockQueue(t), UNCHANGED appVars
  PROVE  Booting'
<1>1. /\ cur = t /\ call[t].at = "lock" /\ (Moves(t, "place") \/ Moves(t, "retry"))
      /\ UNCHANGED <<delayed, timer, pending, command>>
  BY DEF LockQueue, At
<1>2. UNCHANGED <<cur, ring, daemonReady, yieldDue>>
  <2>1. ~ yieldDue
    BY DEF Booting, StillTime
  <2> QED
    BY <2>1 DEF LockQueue, readyVars
<1>3. t \notin Later \cup {Audio}
  BY <1>1 DEF Booting, NotStarted
<1>4. \A x \in Tasks \ {t} : call'[x] = call[x]
  BY <1>1, MovesChanges DEF PlaceInv, HeldInv
<1>5. NotStarted'
  BY <1>1, <1>3, <1>4, Named, NotStartedKept DEF Booting, NotStarted, appVars, Later, Pended
<1> QED
  BY <1>1, <1>2, <1>5, BootKept

LEMMA BootRetry ==
  ASSUME PlaceInv, Booting, NEW t \in Tasks, Retry(t), UNCHANGED appVars
  PROVE  Booting'
<1>1. /\ cur = t /\ call[t].at = "retry"
      /\ UNCHANGED <<cur, ring, daemonReady, yieldDue, delayed, timer, pending, command>>
  BY DEF Retry, At, Take, readyVars, tickVars
<1>2. t \notin Later \cup {Audio}
  BY <1>1 DEF Booting, NotStarted
<1>3. \A x \in Tasks \ {t} : call'[x] = call[x]
  BY DEF Retry, Take, PlaceInv, HeldInv, ShapeOK
<1>4. NotStarted'
  BY <1>1, <1>2, <1>3, Named, NotStartedKept DEF Booting, NotStarted, appVars, Later, Pended
<1> QED
  BY <1>1, <1>4, BootKept

LEMMA BootYields ==
  ASSUME PlaceInv, Booting, UNCHANGED appVars, IdleYields \/ \E t \in Tasks : Yield(t)
  PROVE  Booting'
<1>1. CASE IdleYields
  <2>1. /\ cur = Idle /\ SwitchFrom(ring, daemonReady)
        /\ UNCHANGED <<delayed, timer, command, pending, call>>
    BY <1>1 DEF IdleYields, tickVars
  <2>2. ~ daemonReady
    BY <2>1, TaskAssumption DEF Booting, AudioTurn, TaskAssumption
  <2>3. NotStarted'
    BY <2>1, NotStartedKept DEF Booting, NotStarted, appVars, Pended
  <2> DEFINE d == daemonReady
  <2>4. ~ d /\ SwitchFrom(ring, d)
    BY <2>1, <2>2
  <2> HIDE DEF d
  <2> QED
    BY <2>1, <2>3, <2>4, TasksDiffer, BootSwitched
<1>2. ASSUME NEW t \in Tasks, Yield(t)
      PROVE  Booting'
  <2>1. /\ cur = t /\ call[t].at = "yield" /\ SwitchFrom(ring, daemonReady) /\ Moves(t, "none")
        /\ UNCHANGED <<delayed, timer, command, pending>>
    BY <1>2 DEF Yield, At, tickVars
  <2>2. ~ daemonReady /\ t \notin Later \cup {Audio}
    BY <2>1, TaskAssumption DEF Booting, AudioTurn, NotStarted, TaskAssumption
  <2>3. \A x \in Tasks \ {t} : call'[x] = call[x]
    BY <2>1, MovesChanges DEF PlaceInv, HeldInv
  <2>4. NotStarted'
    BY <2>1, <2>2, <2>3, Named, NotStartedKept DEF Booting, NotStarted, appVars, Later, Pended
  <2> DEFINE d == daemonReady
  <2>5. ~ d /\ SwitchFrom(ring, d)
    BY <2>1, <2>2
  <2> HIDE DEF d
  <2> QED
    BY <2>1, <2>2, <2>4, <2>5, BootSwitched
<1> QED
  BY <1>1, <1>2

LEMMA BootTimer ==
  ASSUME PlaceInv, Booting, UNCHANGED appVars, DaemonBlocks \/ StartCommand \/ Tick
  PROVE  Booting'
<1>0. StillTime
  BY DEF Booting
<1>1. CASE DaemonBlocks
  <2>1. /\ cur = Daemon /\ SwitchFrom(ring, FALSE)
        /\ UNCHANGED <<delayed, timer, command, pending, call>>
    BY <1>0, <1>1 DEF DaemonBlocks, StillTime
  <2>2. NotStarted'
    BY <2>1, NotStartedKept DEF Booting, NotStarted, appVars, Pended
  <2>3. cur # Audio
    BY <2>1, Named, TaskAssumption DEF TaskAssumption
  <2> DEFINE d == FALSE
  <2>4. ~ d /\ SwitchFrom(ring, d)
    BY <2>1
  <2> HIDE DEF d
  <2> QED
    BY <2>1, <2>2, <2>3, <2>4, BootSwitched
<1>2. CASE StartCommand
  BY <1>0, <1>2 DEF StartCommand, StillTime
<1>3. CASE Tick
  <2>1. UNCHANGED <<pending, call, command>>
    BY <1>3 DEF Tick
  <2>2. NotStarted'
    BY <2>1, NotStartedKept DEF Booting, NotStarted, appVars, Pended
  <2>3. UNCHANGED <<cur, ring, daemonReady, yieldDue, delayed, timer>>
    <3>1. CASE suspended
      BY <1>3, <3>1 DEF Tick, readyVars
    <3>2. CASE ~ suspended
      <4>1. IncrementTick(ring, FALSE)
        BY <1>3, <3>2 DEF Tick
      <4>2. /\ Woken = <<>> /\ ~ TimerExpires
            /\ SubSeq(Ticked, Remaining, Len(Ticked)) = <<>>
        BY <1>0, NothingDue DEF StillTime
      <4>3. delayed' = <<>> /\ timer' = timer
        BY <4>1, <4>2 DEF IncrementTick
      <4>4. GoOn(ring \o Woken, daemonReady)
        BY <1>0, <4>1, <4>2 DEF IncrementTick, StillTime
      <4>5. ring \o Woken = ring
        BY <4>2, BootRing
      <4> QED
        BY <1>0, <4>3, <4>4, <4>5 DEF GoOn, StillTime
    <3> QED
      BY <3>1, <3>2
  <2> QED
    BY <2>1, <2>2, <2>3, BootKept
<1> QED
  BY <1>1, <1>2, <1>3

\* Going to sleep in a queue.
LEMMA BootPlace ==
  ASSUME PlaceInv, Booting, NEW t \in Tasks, NEW s, s = call[t].of, Place(t), UNCHANGED appVars
  PROVE  Booting'
<1> DEFINE own == ListRemove(ring, t)
           out == Out(t, s)
           r == Left(t, s)
<1>1. /\ At(t, "place") /\ cur = t /\ call[t].at = "place" /\ CatchUp(r) /\ pending' = <<>>
      /\ Moves(t, "retry") /\ command' = command /\ s \in Sems
  <2>1. /\ At(t, "place") /\ ResumeAll(r) /\ Moves(t, "retry") /\ command' = command
    BY DEF Place, Left, Out, Given, Line
  <2>2. cur = t /\ call[t].at = "place"
    BY <2>1 DEF At
  <2>3. s \in Sems
    BY <2>2 DEF PlaceInv, HeldInv, ShapeOK, CallsOK
  <2> HIDE DEF r
  <2> QED
    BY <2>1, <2>2, <2>3 DEF ResumeAll
<1>2. /\ ListOf(Tasks \cup {End}, own) /\ \A x : x \in ToSet(own) <=> x \in Ready /\ x # t
      /\ ListOf(Tasks \cup {End}, pending) /\ ListOf(Tasks \cup {End}, out)
      /\ \A x \in ToSet(out) : x \in Queue(s) \/ x = t
      /\ ListOf(Tasks \cup {End}, r)
      /\ \A x : x \in ToSet(r) <=> \/ x \in Ready /\ x # t
                                   \/ x \in Pended
                                   \/ x \in ToSet(out)
  BY <1>1, PlaceLists
<1>3. r = (own \o pending) \o out
  BY DEF Left
<1> HIDE DEF own, out, r
<1>4. t \notin Later \cup {Audio} /\ t # Idle /\ t # End
  <2>1. call[Idle].at = "none"
    BY DEF PlaceInv, CallerOK
  <2> QED
    BY <1>1, <2>1, TaskAssumption DEF Booting, NotStarted, TaskAssumption
<1>5. /\ \A x \in ToSet(pending) : x \notin Later \cup {Audio}
      /\ \A x \in ToSet(out) : x \notin Later \cup {Audio}
  <2>1. \A x \in Later \cup {Audio} : x \notin Pended
    BY DEF Booting, NotStarted
  <2>2. \A x \in Later \cup {Audio} : x \notin Queue(s)
    BY <1>1, AudioReady DEF Booting
  <2> QED
    BY <1>2, <1>4, <2>1, <2>2 DEF Pended
<1>6. AudioFirst(r)
  <2>1. AudioFirst(ring) /\ Head(ring) = t
    BY <1>1, <1>4 DEF Booting, AudioTurn
  <2>2. ring \in Seq(Tasks \cup {End}) /\ Len(ring) > 1
    BY BootRing
  <2>3. AudioFirst(own)
    BY <2>1, <2>2, FirstRemoved DEF own
  <2>4. /\ own \in Seq(Tasks \cup {End}) /\ pending \in Seq(Tasks \cup {End})
        /\ out \in Seq(Tasks \cup {End}) /\ own \o pending \in Seq(Tasks \cup {End})
    <3>1. /\ own \in Seq(Tasks \cup {End}) /\ pending \in Seq(Tasks \cup {End})
          /\ out \in Seq(Tasks \cup {End})
      BY <1>2 DEF ListOf
    <3> QED
      BY <3>1, Concatenated
  <2>5. AudioFirst(own \o pending)
    BY <1>5, <2>3, <2>4, FirstJoined
  <2> DEFINE a == own \o pending
  <2>6. a \in Seq(Tasks \cup {End}) /\ AudioFirst(a)
    BY <2>4, <2>5
  <2>7. r = a \o out
    BY <1>3
  <2> HIDE DEF a
  <2> QED
    BY <1>5, <2>4, <2>6, <2>7, FirstJoined
<1>7. /\ Idle \in ToSet(r) /\ End \in ToSet(r)
      /\ (\E x \in Later : x \in ToSet(r)) => Audio \in ToSet(r)
  <2>1. Idle \in Ready /\ End \in Ready
    BY DEF PlaceInv, PlacesOK
  <2>2. (\E x \in Later : x \in Ready) => Audio \in Ready
    BY AudioReady DEF Booting
  <2> QED
    BY <1>2, <1>4, <1>5, <2>1, <2>2 DEF Pended
<1>8. StillTime /\ ~ daemonReady
  BY <1>1, TaskAssumption DEF Booting, AudioTurn, TaskAssumption
<1>9. /\ ~ yieldDue' /\ ~ daemonReady' /\ cur' # Daemon /\ cur' \notin Later
      /\ Head(ring') = cur' /\ (cur' = Audio \/ AudioFirst(ring'))
      /\ delayed' = <<>> /\ timer' = "dormant"
  BY <1>1, <1>2, <1>6, <1>7, <1>8, BootCatchUp
<1>10. \A x \in Tasks \ {t} : call'[x] = call[x]
  BY <1>1, MovesChanges DEF PlaceInv, HeldInv
<1>11. \A x : x \notin Pended'
  BY <1>1, Empty DEF Pended
<1>12. NotStarted'
  BY <1>4, <1>10, <1>11, Named, NotStartedKept DEF Booting, NotStarted, appVars, Later
<1>13. StillTime'
  BY <1>1, <1>8, <1>9 DEF StillTime
<1>14. AudioTurn'
  BY <1>9 DEF AudioTurn, AudioFirst
<1> QED
  BY <1>12, <1>13, <1>14 DEF Booting

LEMMA BootKernel ==
  ASSUME PlaceInv, Booting, UNCHANGED appVars,
         \/ \E t \in Tasks : KernelStep(t)
         \/ IdleYields \/ StartCommand \/ DaemonBlocks \/ Tick
  PROVE  Booting'
<1>1. ASSUME NEW t \in Tasks, Place(t)
      PROVE  Booting'
  <2>1. PICK s : s = call[t].of
    OBVIOUS
  <2> QED
    BY <1>1, <2>1, BootPlace
<1>2. ASSUME NEW t \in Tasks, Resume(t)
      PROVE  FALSE
  <2>1. t \in Asleep
    BY <1>2 DEF Resume, At, PlaceInv, CallerOK
  <2> QED
    BY <2>1, AudioReady DEF Booting
<1> QED
  BY <1>1, <1>2, BootLock, BootRetry, BootYields, BootTimer DEF KernelStep

\* An interrupt wakes none of those who have not begun.
LEMMA BootInterrupt ==
  ASSUME PlaceInv, Booting, NEW s \in Sems, GiveFromISR(s), UNCHANGED <<pc, spawned>>
  PROVE  Booting'
<1>1. UNCHANGED <<cur, daemonReady, yieldDue, delayed, timer, call, command>>
  BY DEF GiveFromISR, tickVars
<1>2. ListOf(Tasks, sem[s].waiting)
  BY DEF PlaceInv, ListsOK
<1>3. CASE UNCHANGED <<ring, pending>>
  <2>1. NotStarted'
    BY <1>1, <1>3, NotStartedKept DEF Booting, NotStarted, Pended
  <2> QED
    BY <1>1, <1>3, <2>1, BootKept
<1>4. CASE ~ UNCHANGED <<ring, pending>>
  <2> DEFINE t == Head(sem[s].waiting)
  <2>1. Wake(s) /\ sem[s].waiting # <<>>
    BY <1>4 DEF GiveFromISR, Give, Wake
  <2>2. t \in Tasks /\ t \notin Later \cup {Audio} /\ t \notin Pended
    <3>1. t \in Tasks /\ t \in Queue(s)
      BY <1>2, <2>1, HeadTail DEF Queue
    <3>2. \A x \in Later \cup {Audio} : x \notin Queue(s)
      BY AudioReady DEF Booting
    <3> QED
      BY <3>1, <3>2 DEF PlaceInv, PlacesOK
  <2>3. \/ pending' = Append(pending, t) /\ ring' = ring
        \/ ring' = Append(ring, t) /\ pending' = pending
    BY <2>1 DEF Wake, InsertEnd
  <2> HIDE DEF t
  <2>4. \A x \in Later \cup {Audio} : x \in Pended' => x \in Pended
    <3>1. ListOf(Tasks, pending)
      BY DEF PlaceInv, ListsOK
    <3>2. \A y : y \in ToSet(Append(pending, t)) <=> y \in ToSet(pending) \/ y = t
      BY <2>2, <3>1, Appended DEF Pended
    <3> QED
      BY <2>2, <2>3, <3>2 DEF Pended
  <2>5. NotStarted'
    BY <1>1, <2>4, NotStartedKept DEF Booting, NotStarted
  <2>6. CASE ring' = ring
    BY <1>1, <2>5, <2>6, BootKept
  <2>7. CASE ring' = Append(ring, t)
    <3> DEFINE b == <<t>>
    <3>1. b \in Seq(Tasks \cup {End}) /\ \A x \in ToSet(b) : x \notin Later
      BY <2>2, Single
    <3>2. ring' = ring \o b
      BY <2>7, BootRing
    <3> HIDE DEF b
    <3> QED
      BY <1>1, <2>5, <3>1, <3>2, BootJoined
  <2> QED
    BY <2>3, <2>6, <2>7
<1> QED
  BY <1>3, <1>4

\* The list of the tasks to create begins with AudioTask.
LEMMA AudioCreated ==
  ASSUME Audio \in spawned
  PROVE  /\ CreationOrder \in Seq(Tasks \cup {End})
         /\ Len(CreationOrder) > 0 /\ CreationOrder[1] = Audio
<1> DEFINE S == Tasks \cup {End}
           a == If(Audio)
           b == If(Test)
           c == If(Bsp)
           d == If(Usb)
<1>1. a \in Seq(S) /\ b \in Seq(S) /\ c \in Seq(S) /\ d \in Seq(S)
  <2>1. Audio \in Tasks /\ Test \in Tasks /\ Bsp \in Tasks /\ Usb \in Tasks
    BY Named
  <2> QED
    BY <2>1, IfList DEF ListOf
<1>2. Len(a) > 0 /\ a[1] = Audio
  <2>1. a = <<Audio>>
    BY DEF If
  <2> HIDE DEF a
  <2> QED
    BY <2>1
<1>3. CreationOrder = ((a \o b) \o c) \o d
  BY DEF CreationOrder
<1> HIDE DEF a, b, c, d, S
<1>4. ASSUME NEW u \in Seq(S), NEW v \in Seq(S), Len(u) > 0, u[1] = Audio
      PROVE  u \o v \in Seq(S) /\ Len(u \o v) > 0 /\ (u \o v)[1] = Audio
  BY <1>4, Concatenated
<1>5. a \o b \in Seq(S) /\ Len(a \o b) > 0 /\ (a \o b)[1] = Audio
  BY <1>1, <1>2, <1>4
<1> DEFINE e == a \o b
<1>6. e \in Seq(S) /\ Len(e) > 0 /\ e[1] = Audio
  BY <1>5
<1> HIDE DEF e
<1>7. e \o c \in Seq(S) /\ Len(e \o c) > 0 /\ (e \o c)[1] = Audio
  BY <1>1, <1>4, <1>6
<1> DEFINE f == e \o c
<1>8. f \in Seq(S) /\ Len(f) > 0 /\ f[1] = Audio
  BY <1>7
<1> HIDE DEF f
<1>9. f \o d \in Seq(S) /\ Len(f \o d) > 0 /\ (f \o d)[1] = Audio
  BY <1>1, <1>4, <1>8
<1>10. CreationOrder = f \o d
  BY <1>3 DEF e, f
<1> QED
  BY <1>9, <1>10 DEF S

LEMMA BootSpawn ==
  ASSUME PlaceInv, Booting, Runs(App, "spawn", "bye"), Create(CreationOrder),
         UNCHANGED <<cur, daemonReady, yieldDue, delayed, timer, pending, call, command, spawned>>
  PROVE  Booting'
<1> DEFINE q == CreationOrder
<1>1. App \in Tasks /\ App # Audio /\ App # Bsp /\ App # Usb
  BY Named, TasksDiffer
<1>2. /\ cur = App /\ pc[App] = "spawn" /\ call[App].at = "none"
      /\ \A x \in Tasks \ {App} : pc'[x] = pc[x]
  BY <1>1, RunsFrom
<1>3. NotStarted'
  BY <1>1, <1>2, Named, NotStartedKept DEF Booting, NotStarted, Pended
<1>4. ring \in Seq(Tasks \cup {End}) /\ Len(ring) > 0
  BY BootRing
<1>5. \A x \in ToSet(ring) : x \notin Later
  <2>1. Alive = {Idle, App}
    BY <1>2 DEF Alive
  <2>2. \A x \in Later : x \notin Alive /\ x # End
    BY <2>1, Named, TasksDiffer, TaskAssumption DEF Later, TaskAssumption
  <2> QED
    BY <2>2 DEF PlaceInv, PlacesOK, Ready
<1>6. q \in Seq(Tasks \cup {End}) /\ Len(q) > 0 /\ q[1] = Audio
  BY AudioCreated DEF Booting, NotStarted
<1>7. ring' = ring \o q
  BY DEF Create
<1> HIDE DEF q
<1>8. AudioFirst(ring')
  BY <1>4, <1>5, <1>6, <1>7, FirstCreated
<1>9. Head(ring') = Head(ring)
  BY <1>4, <1>6, <1>7
<1>10. StillTime'
  BY DEF Booting, StillTime
<1>11. AudioTurn'
  BY <1>2, <1>8, <1>9 DEF Booting, AudioTurn, AudioFirst
<1> QED
  BY <1>3, <1>10, <1>11 DEF Booting

LEMMA BootDelete ==
  ASSUME PlaceInv, Booting, Runs(App, "delete", "deleted"), Delete(App), spawned' = spawned
  PROVE  Booting'
<1>1. App \in Tasks /\ App # Audio /\ App # Bsp /\ App # Usb /\ App \notin Later
  BY Named, TasksDiffer DEF Later
<1>2. /\ cur = App /\ call[App].at = "none" /\ \A x \in Tasks \ {App} : pc'[x] = pc[x]
  BY <1>1, RunsFrom
<1>3. /\ ring' = ListRemove(ring, App) /\ Moves(App, "yield")
      /\ UNCHANGED <<cur, daemonReady, yieldDue, delayed, timer, pending, command>>
  BY DEF Delete, tickVars
<1>4. call'[App].at = "yield" /\ \A x \in Tasks \ {App} : call'[x] = call[x]
  BY <1>1, <1>3, MovesChanges DEF PlaceInv, HeldInv
<1>5. NotStarted'
  BY <1>1, <1>2, <1>3, <1>4, Named, NotStartedKept DEF Booting, NotStarted, Pended, Later
<1>6. AudioFirst(ring')
  <2>1. AudioFirst(ring) /\ Head(ring) = App
    BY <1>1, <1>2 DEF Booting, AudioTurn
  <2>2. ring \in Seq(Tasks \cup {End}) /\ Len(ring) > 1
    BY BootRing
  <2> QED
    BY <1>3, <2>1, <2>2, FirstRemoved
<1>7. StillTime'
  BY <1>3 DEF Booting, StillTime
<1>8. AudioTurn'
  BY <1>2, <1>3, <1>4, <1>6 DEF Booting, AudioTurn, AudioFirst
<1> QED
  BY <1>5, <1>7, <1>8 DEF Booting

\* A step of AppMain that leaves the ready list alone.
LEMMA BootApp ==
  ASSUME PlaceInv, Booting, NEW from, NEW to, Runs(App, from, to),
         UNCHANGED <<cur, ring, daemonReady, yieldDue, delayed, timer, pending, command, spawned>>,
         \A x \in Tasks \ {App} : call'[x] = call[x]
  PROVE  Booting'
<1>1. App \in Tasks /\ App # Audio /\ App # Bsp /\ App # Usb /\ App \notin Later
  BY Named, TasksDiffer DEF Later
<1>2. /\ cur = App /\ call[App].at = "none" /\ \A x \in Tasks \ {App} : pc'[x] = pc[x]
  BY <1>1, RunsFrom
<1>3. NotStarted'
  BY <1>1, <1>2, Named, NotStartedKept DEF Booting, NotStarted, Pended, Later
<1> QED
  BY <1>2, <1>3, BootKept

LEMMA BootAppMain == ASSUME PlaceInv, Booting, AppMain PROVE Booting'
<1> USE Named, SemsDiffer
<1>1. CASE \/ Creates(App, "startIO", "hello", Serial, 1)
           \/ Creates(App, "panelSem", "lock", BspSem, 0)
           \/ Creates(App, "lock", "spawn", Lock, 1)
  BY <1>1, BootApp DEF Creates, readyVars, tickVars
<1>2. CASE \/ Takes(App, "hello", "helloSend", Serial)
           \/ Takes(App, "bye", "byeSend", Serial)
  <2>1. Take(App, Serial)
    BY <1>2 DEF Takes
  <2>2. UNCHANGED <<cur, ring, daemonReady, yieldDue, delayed, timer, pending, command>>
    BY <2>1 DEF Take, readyVars, tickVars
  <2>3. \A x \in Tasks \ {App} : call'[x] = call[x]
    BY <2>1 DEF Take, PlaceInv, HeldInv, ShapeOK
  <2> QED
    BY <1>2, <2>2, <2>3, BootApp DEF Takes
<1>3. CASE \/ Starts(App, "helloSend", "panel", "uart")
           \/ Starts(App, "panel", "panelSem", "spi")
           \/ Starts(App, "byeSend", "delete", "uart")
  BY <1>3, BootApp DEF Starts, kernelVars, readyVars, tickVars
<1>4. CASE /\ Runs(App, "spawn", "bye") /\ Create(CreationOrder)
           /\ UNCHANGED <<cur, daemonReady, yieldDue, tickVars, pending, sem, call, command,
                          devices, bassReady, spawned>>
  BY <1>4, BootSpawn DEF tickVars
<1>5. CASE /\ Runs(App, "delete", "deleted") /\ Delete(App)
           /\ UNCHANGED <<devices, bassReady, spawned>>
  BY <1>5, BootDelete
<1> QED
  BY <1>1, <1>2, <1>3, <1>4, <1>5 DEF AppMain

LEMMA BootAudio ==
  ASSUME PlaceInv, Booting, AudioTask
  PROVE  bassReady' \/ Booting'
<1>1. Audio \in Tasks /\ Audio # Bsp /\ Audio # Usb /\ Audio \notin Later
  BY Named, TasksDiffer DEF Later
<1>2. pc[Audio] \in {"init", "start", "bassInit"}
  BY DEF Booting, NotStarted
<1>3. CASE Runs(Audio, "bassInit", "wait") /\ bassReady' = TRUE
  BY <1>3
<1>4. ASSUME NEW from, NEW to \in {"start", "bassInit"}, Runs(Audio, from, to),
             UNCHANGED <<readyVars, tickVars, pending, call, command, spawned>>
      PROVE  Booting'
  <2>1. /\ cur = Audio /\ call[Audio].at = "none" /\ pc'[Audio] = to
        /\ \A x \in Tasks \ {Audio} : pc'[x] = pc[x]
    BY <1>1, <1>4, RunsFrom
  <2>2. UNCHANGED <<cur, ring, daemonReady, yieldDue, delayed, timer, command, pending, call,
                    spawned>>
    BY <1>4 DEF readyVars, tickVars
  <2>3. NotStarted'
    BY <1>1, <2>1, <2>2, Named, NotStartedKept DEF Booting, NotStarted, Pended
  <2> QED
    BY <2>2, <2>3, BootKept
<1>5. CASE Creates(Audio, "init", "start", AudioSem, 0)
  BY <1>4, <1>5 DEF Creates
<1>6. CASE Starts(Audio, "start", "bassInit", "i2s")
  BY <1>4, <1>6 DEF Starts, kernelVars
<1>7. CASE \/ Takes(Audio, "wait", "lock", AudioSem) \/ Takes(Audio, "lock", "process", Lock)
           \/ Gives(Audio, "process", "wait", Lock)
  BY <1>2, <1>7 DEF Takes, Gives, Runs
<1> QED
  BY <1>3, <1>5, <1>6, <1>7 DEF AudioTask

LEMMA BootInit == FirmwareInit => BootInv
<1> SUFFICES ASSUME FirmwareInit PROVE BootInv
  OBVIOUS
<1>1. /\ ring = <<End, App, Idle>> /\ pending = <<>> /\ delayed = <<>> /\ cur = Daemon
      /\ yieldDue = FALSE /\ timer = "dormant" /\ command = FALSE /\ daemonReady = TRUE
      /\ call = [x \in Tasks |-> [at |-> "none", of |-> NoSem]]
      /\ spawned \in Instances
  BY DEF FirmwareInit, KernelInit
<1>2. /\ pc[App] = "startIO" /\ pc[Audio] = "init" /\ pc[Bsp] = "oled" /\ pc[Usb] = "init"
  <2>1. pc = [t \in Tasks |->
                CASE t = App -> "startIO" [] t = Test -> "write" [] t = Bsp -> "oled"
                  [] t = Idle -> "idle" [] OTHER -> "init"]
    BY DEF FirmwareInit
  <2> QED
    BY <2>1, Named, TasksDiffer
<1>3. Audio \in spawned
  BY <1>1, FirmwareAssumption DEF FirmwareAssumption
<1>4. \A t \in Tasks : call[t].at = "none" /\ call[t].of = NoSem
  BY <1>1
<1>5. ExistOK
  BY <1>2, <1>4 DEF ExistOK
<1>6. StillTime
  BY <1>1 DEF StillTime
<1>7. NotStarted
  <2>1. \A t : t \notin Pended
    BY <1>1, Empty DEF Pended
  <2>2. \A t \in Later \cup {Audio} : t \in Tasks
    BY Named DEF Later
  <2> QED
    BY <1>2, <1>3, <1>4, <2>1, <2>2 DEF NotStarted
<1>8. AudioTurn
  <2>1. Daemon \notin Tasks /\ \A x \in Later : x \in Tasks
    BY Named, TaskAssumption DEF Later, TaskAssumption
  <2>2. AudioFirst(ring)
    <3>1. Len(ring) = 3 /\ ring[2] = App /\ ring[3] = Idle
      BY <1>1
    <3>2. App \notin Later /\ Idle \notin Later
      BY TasksDiffer DEF Later
    <3>3. \A i \in 2 .. 3 : i = 2 \/ i = 3
      OBVIOUS
    <3> QED
      BY <3>1, <3>2, <3>3 DEF AudioFirst
  <2> QED
    BY <1>1, <2>1, <2>2 DEF AudioTurn
<1> QED
  BY <1>5, <1>6, <1>7, <1>8 DEF BootInv, Booting

LEMMA BootStep ==
  ASSUME PlaceInv, BootInv, [FirmwareNext]_firmwareVars
  PROVE  BootInv'
<1>1. ExistOK'
  BY ExistStep DEF BootInv
<1>2. bassReady \/ Booting
  BY DEF BootInv
<1>3. ASSUME Booting
      PROVE  bassReady' \/ Booting'
  <2>1. CASE UNCHANGED firmwareVars
    <3>1. /\ UNCHANGED <<cur, ring, daemonReady, yieldDue, delayed, timer, command, pending, call>>
          /\ UNCHANGED <<pc, spawned>>
      BY <2>1 DEF firmwareVars, kernelVars, readyVars, tickVars, appVars
    <3>2. NotStarted'
      BY <1>3, <3>1, NotStartedKept DEF Booting, NotStarted, Pended
    <3> QED
      BY <1>3, <3>1, <3>2, BootKept
  <2>2. CASE TestTask \/ BspTask \/ UsbTask
    <3>1. cur \in Later
      BY <2>2 DEF TestTask, BspTask, UsbTask, Takes, Starts, Gives, Works, Creates, Runs,
                  InNoCall, At, Later
    <3> QED
      BY <1>3, <3>1 DEF Booting, AudioTurn
  <2>3. CASE OS_SpiTimerCallback
    BY <1>3, <2>3 DEF OS_SpiTimerCallback, Expire, Booting, StillTime
  <2>4. CASE Cpu
    BY <1>3, <2>2, <2>3, <2>4, BootAppMain, BootAudio, BootKernel DEF Cpu
  <2>5. CASE Interrupt
    <3>1. \E s \in Sems : GiveFromISR(s) /\ UNCHANGED <<pc, spawned>>
      BY <2>5, Named DEF Interrupt, TransferDone, HalfPlayed, DataIn, appVars
    <3> QED
      BY <1>3, <3>1, BootInterrupt
  <2>6. CASE SysTick
    BY <1>3, <2>6, BootKernel DEF SysTick
  <2> QED
    BY <2>1, <2>4, <2>5, <2>6 DEF FirmwareNext
<1>4. bassReady => bassReady'
  BY DEF FirmwareNext, Cpu, Interrupt, SysTick, AppMain, AudioTask, TestTask, BspTask, UsbTask,
         OS_SpiTimerCallback, TransferDone, HalfPlayed, DataIn, Takes, Starts, Gives, Works,
         Creates, appVars, firmwareVars
<1> QED
  BY <1>1, <1>2, <1>3, <1>4 DEF BootInv

LEMMA BootOrdered == PlaceInv /\ BootInv => BootOrder
<1> SUFFICES ASSUME PlaceInv, BootInv PROVE BootOrder
  OBVIOUS
<1>1. \A t \in Tasks : call[t].of # NoSem => sem[call[t].of] # Absent
  BY DEF BootInv, ExistOK, Exists, Absent
<1>2. ASSUME Booting
      PROVE  Inside = {} /\ pc[Bsp] # "guiInit"
  BY <1>2, TasksDiffer DEF Booting, NotStarted, Inside, Has
<1> QED
  BY <1>1, <1>2 DEF BootOrder, BootInv

\* No task waits for a semaphore that is not there yet, and none renders, edits or
\* plays before AudioTask has prepared the synthesizer.
THEOREM BootOrderHolds == FirmwareSpec => []BootOrder
<1>1. FirmwareInit => PlaceInv /\ BootInv
  BY PlaceInit, BootInit
<1>2. PlaceInv /\ BootInv /\ [FirmwareNext]_firmwareVars => (PlaceInv /\ BootInv)'
  BY PlaceStep, BootStep
<1>3. PlaceInv /\ BootInv => BootOrder
  BY BootOrdered
<1> QED
  BY <1>1, <1>2, <1>3, PTL DEF FirmwareSpec
=============================================================================
