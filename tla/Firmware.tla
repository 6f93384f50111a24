------------------------------ MODULE Firmware ------------------------------
(***************************************************************************)
(* The tasks of the firmware on the kernel, from the start of the          *)
(* scheduler on: AppMain creates what the others need and deletes itself;  *)
(* AudioTask, UsbTask and BspTask share the synthesizer under audioLock_;  *)
(* AppMain, TestTask and UsbTask share the serial line.                    *)
(***************************************************************************)
EXTENDS Kernel

CONSTANTS
  App, Audio, Test, Bsp, Usb,                 \* the tasks, but for Idle
  AudioSem, UsbSem, BspSem, Serial, Lock,     \* the semaphores
  Instances,    \* the tasks created, in each instance, Audio among them; all four in AppMain
  TestDelay,    \* ticks between two reports of TestTask (500)
  OledDelay     \* ticks between two attempts of Oled::Init (10)

ASSUME FirmwareAssumption ==
  /\ Tasks = {App, Idle, Audio, Test, Bsp, Usb}
  /\ Sems = {AudioSem, UsbSem, BspSem, Serial, Lock}
  /\ LET t == <<App, Idle, Audio, Test, Bsp, Usb>> IN
       \A i, j \in 1 .. 6 : t[i] = t[j] => i = j
  /\ LET s == <<AudioSem, UsbSem, BspSem, Serial, Lock>> IN
       \A i, j \in 1 .. 5 : s[i] = s[j] => i = j
  /\ Instances \subseteq {i \in SUBSET {Audio, Test, Bsp, Usb} : Audio \in i}
  /\ TestDelay \in Nat \ {0}
  /\ OledDelay \in Nat \ {0}

VARIABLES
  spawned,   \* the tasks of this instance
  pc,        \* what each task does next when it is in no kernel call
  devices,   \* the devices whose interrupt may come
  bassReady  \* bass_.Init has run

appVars == <<pc, devices, bassReady, spawned>>
firmwareVars == <<kernelVars, appVars>>

Runs(t, from, to) ==
  /\ InNoCall(t)
  /\ pc[t] = from
  /\ pc' = [pc EXCEPT ![t] = to]

\* A step in which t calls xSemaphoreTake and ends up at label to with s taken.
Takes(t, from, to, s) ==
  /\ Runs(t, from, to)
  /\ Take(t, s)
  /\ UNCHANGED <<devices, bassReady, spawned>>

Gives(t, from, to, s) ==
  /\ Runs(t, from, to)
  /\ Give(s)
  /\ UNCHANGED <<cur, daemonReady, yieldDue, tickVars, call, command, devices, bassReady, spawned>>

Starts(t, from, to, device) ==
  /\ Runs(t, from, to)
  /\ devices' = devices \cup {device}
  /\ UNCHANGED <<kernelVars, bassReady, spawned>>

Creates(t, from, to, s, n) ==
  /\ Runs(t, from, to)
  /\ sem' = [sem EXCEPT ![s] = Created(n)]
  /\ UNCHANGED <<readyVars, tickVars, pending, call, command, devices, bassReady, spawned>>

Works(t, from, to) ==
  Runs(t, from, to) /\ UNCHANGED <<kernelVars, devices, bassReady, spawned>>

-----------------------------------------------------------------------------
(***************************************************************************)
(* AppMain.                                                                *)
(***************************************************************************)
\* Nothing in an instance without t.
If(t) == IF t \in spawned THEN <<t>> ELSE <<>>

\* Faulty variant: the tasks are created in another order.
UsbFirst == If(Usb) \o If(Bsp) \o If(Test) \o If(Audio)

CreationOrder == If(Audio) \o If(Test) \o If(Bsp) \o If(Usb)

AppMain ==
  \/ Creates(App, "startIO", "hello", Serial, 1)
  \/ Takes(App, "hello", "helloSend", Serial)
  \/ Starts(App, "helloSend", "panel", "uart")
  \/ Starts(App, "panel", "panelSem", "spi")
  \/ Creates(App, "panelSem", "lock", BspSem, 0)
  \/ Creates(App, "lock", "spawn", Lock, 1)
  \/ /\ Runs(App, "spawn", "bye")
     /\ Create(CreationOrder)
     /\ UNCHANGED <<cur, daemonReady, yieldDue, tickVars, pending, sem, call, command,
                    devices, bassReady, spawned>>
  \/ Takes(App, "bye", "byeSend", Serial)
  \/ Starts(App, "byeSend", "delete", "uart")
  \/ Runs(App, "delete", "deleted") /\ Delete(App) /\ UNCHANGED <<devices, bassReady, spawned>>

(***************************************************************************)
(* AudioTask.  It starts the stream of half-blocks before it prepares the  *)
(* synthesizer, for which it does not take the lock.                       *)
(***************************************************************************)
AudioTask ==
  \/ Creates(Audio, "init", "start", AudioSem, 0)
  \/ Starts(Audio, "start", "bassInit", "i2s")
  \/ Runs(Audio, "bassInit", "wait") /\ bassReady' = TRUE /\ UNCHANGED <<kernelVars, devices, spawned>>
  \/ Takes(Audio, "wait", "lock", AudioSem)
  \/ Takes(Audio, "lock", "process", Lock)
  \/ Gives(Audio, "process", "wait", Lock)

TestTask ==
  \/ Takes(Test, "write", "send", Serial)
  \/ Starts(Test, "send", "sleep", "uart")
  \/ Runs(Test, "sleep", "write") /\ Delay(Test, TestDelay) /\ UNCHANGED <<devices, bassReady, spawned>>

(***************************************************************************)
(* BspTask.  Oled::Init may sleep between attempts to reach the display; a *)
(* scan of the panel has any number of events that take the lock.          *)
(***************************************************************************)
BspTask ==
  \/ Runs(Bsp, "oled", "oled") /\ Delay(Bsp, OledDelay) /\ UNCHANGED <<devices, bassReady, spawned>>
  \/ Works(Bsp, "oled", "guiInit")
  \/ Works(Bsp, "guiInit", "wait")
  \/ Takes(Bsp, "wait", "timer", BspSem)
  \/ /\ Runs(Bsp, "timer", "events")
     /\ StartTimer
     /\ UNCHANGED <<cur, ring, suspended, tickPended, timer, pending, sem, call, devices,
                    bassReady, spawned>>
  \/ Takes(Bsp, "events", "edit", Lock)
  \/ Gives(Bsp, "edit", "events", Lock)
  \/ Works(Bsp, "events", "wait")

(***************************************************************************)
(* UsbTask.  Each of its events is reported on the serial line, with the   *)
(* lock in its hands.                                                      *)
(***************************************************************************)
UsbTask ==
  \/ Creates(Usb, "init", "wait", UsbSem, 0)
  \/ Takes(Usb, "wait", "lock", UsbSem)
  \/ Takes(Usb, "lock", "play", Lock)
  \/ Takes(Usb, "play", "send", Serial)
  \/ Starts(Usb, "send", "play", "uart")
  \/ Gives(Usb, "play", "wait", Lock)

-----------------------------------------------------------------------------
(***************************************************************************)
(* The timer's callback and the interrupts.  A transfer over SPI lasts     *)
(* longer than the call of xSemaphoreCreateBinaryStatic behind its start,  *)
(* and the host sends nothing until it has set the device up.              *)
(***************************************************************************)
OS_SpiTimerCallback ==
  /\ Expire
  /\ devices' = devices \cup {"spi"}
  /\ UNCHANGED <<pc, bassReady, spawned>>

\* HAL_UART_TxCpltCallback and HAL_SpiHandler end a transfer.
TransferDone(device, s) ==
  /\ device \in devices
  /\ sem[s] # Absent
  /\ devices' = devices \ {device}
  /\ GiveFromISR(s)
  /\ UNCHANGED <<pc, bassReady, spawned>>

\* HAL_I2S_TxHalfCpltCallback, HAL_I2S_TxCpltCallback
HalfPlayed ==
  /\ "i2s" \in devices
  /\ GiveFromISR(AudioSem)
  /\ UNCHANGED appVars

\* USBD_MIDI_DataInHandler
DataIn ==
  /\ sem[UsbSem] # Absent
  /\ GiveFromISR(UsbSem)
  /\ UNCHANGED appVars

Interrupt ==
  \/ TransferDone("uart", Serial) \/ TransferDone("spi", BspSem)
  \/ HalfPlayed \/ DataIn

Cpu ==
  \/ AppMain \/ AudioTask \/ TestTask \/ BspTask \/ UsbTask \/ OS_SpiTimerCallback
  \/ /\ \/ \E t \in Tasks : KernelStep(t)
        \/ IdleYields \/ StartCommand \/ DaemonBlocks
     /\ UNCHANGED appVars

SysTick == Tick /\ UNCHANGED appVars

FirmwareInit ==
  /\ KernelInit(App)
  /\ pc = [t \in Tasks |->
             CASE t = App -> "startIO" [] t = Test -> "write" [] t = Bsp -> "oled"
               [] t = Idle -> "idle" [] OTHER -> "init"]
  /\ devices = {}
  /\ bassReady = FALSE
  /\ spawned \in Instances

FirmwareNext == Cpu \/ Interrupt \/ SysTick

\* The processor runs, the stream of half-blocks and the tick go on, transfers
\* end; AudioTask is not interrupted in each of its turns before it gets anywhere;
\* the display is given up after a number of attempts, and the events of a scan
\* come to an end.
Fairness ==
  /\ WF_firmwareVars(Cpu)
  /\ SF_firmwareVars(cur = Audio /\ Cpu)
  /\ WF_firmwareVars(SysTick)
  /\ WF_firmwareVars(HalfPlayed)
  /\ WF_firmwareVars(TransferDone("uart", Serial))
  /\ WF_firmwareVars(TransferDone("spi", BspSem))
  /\ SF_firmwareVars(Works(Bsp, "oled", "guiInit"))
  /\ SF_firmwareVars(Works(Bsp, "events", "wait"))

FirmwareSpec == FirmwareInit /\ [][FirmwareNext]_firmwareVars /\ Fairness

-----------------------------------------------------------------------------
(***************************************************************************)
(* Properties.                                                             *)
(***************************************************************************)
Alive ==
  {Idle} \cup (IF pc[App] = "deleted" THEN {} ELSE {App})
         \cup (IF pc[App] \in {"bye", "byeSend", "delete", "deleted"} THEN spawned ELSE {})

Occurrences(t, list) == Cardinality({i \in DOMAIN list : list[i] = t})
Queued(t) == [s \in Sems |-> Occurrences(t, sem[s].waiting)]

\* Every task is in exactly one list, once: ready, pending, queued on one
\* semaphore or delayed.  The lists share one item per task, so a second entry
\* would tear them apart.
OnePlace ==
  \A t \in Tasks :
    Occurrences(t, ring) + Occurrences(t, pending) + Occurrences(t, Names(delayed))
      + SumFunctionOnSet(Queued(t), Sems)
    = IF t \in Alive THEN 1 ELSE 0

\* No task sleeps on a semaphore that can be had, unless another one has been
\* woken to take it or the queue is locked and the task that locked it knows.
\* The give may have come between that task's look at the count and its entry
\* into the queue.
NoStrandedWaiter ==
  \A s \in Sems :
    sem[s].count = 1 /\ sem[s].waiting # <<>> =>
      \/ sem[s].txLock > 0
      \/ \E t \in Tasks \cap (ToSet(ring) \cup ToSet(pending)) :
           call[t] = [at |-> "retry", of |-> s]

Has(t, labels, s) == pc[t] \in labels /\ call[t].of # s

Inside == {t \in {Audio, Bsp, Usb} :
             Has(t, CASE t = Audio -> {"process"} [] t = Bsp -> {"edit"}
                      [] t = Usb -> {"play", "send"}, Lock)}

Writers == {t \in {App, Test, Usb} : Has(t, {"helloSend", "byeSend", "send"}, Serial)}

\* audioLock_ keeps the synthesizer for one task, and is free when no task has
\* it, whoever was woken for it and overtaken.  So with the serial line: nobody
\* writes into sendBuffer while the last line is being sent from it.
HeldOnce ==
  /\ sem[Lock] # Absent => Cardinality(Inside) + sem[Lock].count = 1
  /\ sem[Serial] # Absent =>
       Cardinality(Writers) + sem[Serial].count
         + (IF "uart" \in devices THEN 1 ELSE 0) = 1

\* No task uses a semaphore before it is created or the synthesizer before
\* Lazerbass::Init, although nothing but the order in which AppMain creates the
\* tasks, and the turns they get, sees to it.
BootOrder ==
  /\ \A t \in Tasks : call[t].of # NoSem => sem[call[t].of] # Absent
  /\ Inside # {} \/ pc[Bsp] = "guiInit" => bassReady

\* As long as nobody else takes the lock over and over, AudioTask goes on
\* rendering blocks: no signal of the stream and no turn is lost to it.  It can be
\* kept out only by the others: a task that takes the lock again before AudioTask's
\* turn, and sleeps or is interrupted with it, leaves AudioTask to queue anew.
AudioServed ==
  <>[](Inside \subseteq {Audio}) => []<>(Audio \in Inside)
=============================================================================
