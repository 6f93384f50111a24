------------------------------- MODULE MidiIn -------------------------------
(***************************************************************************)
(* From the USB host to the keys: the interrupt that stores MIDI events in *)
(* the ring of bsp::USBMidi, UsbTask that plays them under the audio lock  *)
(* and reports each on the serial line, and the other users of that lock   *)
(* and that line, AudioTask and TestTask.                                  *)
(*                                                                         *)
(* The interrupt runs to completion; a task can be interrupted, and the    *)
(* CPU given to another task, between any two of its steps.                *)
(***************************************************************************)
EXTENDS NoteStack

CONSTANTS
  RingSize,    \* kEventBufferSize (64)
  PacketSize   \* events in a full packet, MIDI_EPOUT_SIZE / 4 (16)

ASSUME RingAssumption == RingSize \in Nat /\ RingSize > 1
ASSUME PacketAssumption == PacketSize \in Nat /\ PacketSize > 0

VARIABLES
  slots,      \* midiRxBuffer_
  rpos,       \* rpos_
  wpos,       \* wpos_
  sem,        \* usbMidiSem_: given, not yet taken
  usbPc,      \* what UsbTask does next
  e,          \* the slot UsbTask's pointer e designates
  audioPc,    \* what AudioTask does next
  lock,       \* who holds audioLock_
  serial,     \* DebugIO's dmaSem_: no transfer is running
  hostStack,  \* history: the keys as the host knows them
  packets,    \* history: packets received from the host
  lapped      \* history: the interrupt has run into unread events

ringVars == <<slots, rpos, wpos>>
hostVars == <<hostStack, packets, lapped>>
midiVars == <<noteVars, ringVars, sem, usbPc, e, audioPc, lock, serial, hostVars>>

Positions == 0 .. RingSize - 1

\* A zero first byte marks the unused rest of a packet: the class driver clears
\* its buffer after each.
Padding == [kind |-> "padding", note |-> 0]
Event == [kind : {"on", "off", "other"}, note : Notes]
Packet == [1 .. PacketSize -> Event \cup {Padding}]

-----------------------------------------------------------------------------
(***************************************************************************)
(* USBD_MIDI_DataOut and USBD_MIDI_DataInHandler.  There is no test for a  *)
(* full ring and nothing holds the host back.                              *)
(***************************************************************************)
\* What the handler's loop stores: it stops at the first padding.
Accepted(packet) ==
  SubSeq(packet, 1, Min({j \in 1 .. PacketSize : packet[j] = Padding}
                          \cup {PacketSize + 1}) - 1)

\* The ring after the events of a.
Stored(a) ==
  [k \in Positions |->
     LET js == {j \in DOMAIN a : (wpos + j - 1) % RingSize = k}
     IN  IF js = {} THEN slots[k] ELSE a[Max(js)]]

Backlog == (wpos - rpos) % RingSize

\* The stack of held keys after event ev: the reference for NoteStack.
PlayKey(s, ev) ==
  LET others == RemoveFirst(s, ev.note)
  IN  CASE ev.kind = "on"    -> Append(others, ev.note)
        [] ev.kind = "off"   -> others
        [] OTHER              -> s

DataIn(packet) ==
  LET a == Accepted(packet) IN
    /\ slots' = Stored(a)
    /\ wpos' = (wpos + Len(a)) % RingSize
    /\ sem' = TRUE
    /\ hostStack' = FoldLeft(PlayKey, hostStack, a)
    /\ packets' = packets + 1
    /\ lapped' = (lapped \/ Backlog + Len(a) >= RingSize)
    /\ UNCHANGED <<noteVars, rpos, usbPc, e, audioPc, lock, serial>>

-----------------------------------------------------------------------------
(***************************************************************************)
(* UsbTask.                                                                *)
(***************************************************************************)
UsbGoes(from, to) == usbPc = from /\ usbPc' = to

\* The audio lock is a binary semaphore.
TakeLock(task) == lock = "free" /\ lock' = task
GiveLock == lock' = "free"

UsbWait ==
  /\ UsbGoes("wait", "lock")
  /\ sem
  /\ sem' = FALSE
  /\ UNCHANGED <<noteVars, ringVars, e, audioPc, lock, serial, hostVars>>

UsbLock ==
  /\ UsbGoes("lock", "next")
  /\ TakeLock("usb")
  /\ UNCHANGED <<noteVars, ringVars, sem, e, audioPc, serial, hostVars>>

\* Faulty variant: one event per wakeup.
AfterOneEvent == "unlock"

\* The loop goes on until GetNextEvent returns nullptr.
AfterEvent == "next"

\* Faulty variant: the position moves on too early.
SecondSlot == (rpos + 1) % RingSize

\* GetNextEvent: e points at the slot although rpos_ has left it.
NextPos == (rpos + 1) % RingSize
FirstSlot == rpos

UsbFetch ==
  /\ UsbGoes("next", "ifOn")
  /\ rpos # wpos
  /\ e' = FirstSlot
  /\ rpos' = NextPos
  /\ UNCHANGED <<noteVars, slots, wpos, sem, audioPc, lock, serial, hostVars>>

UsbDrained ==
  /\ UsbGoes("next", "unlock")
  /\ rpos = wpos
  /\ UNCHANGED <<noteVars, ringVars, sem, e, audioPc, lock, serial, hostVars>>

\* Every test and every argument reads the slot anew.
UsbTest ==
  /\ \/ UsbGoes("ifOn", "on") /\ slots[e].kind = "on"
     \/ UsbGoes("ifOn", "ifOff") /\ slots[e].kind # "on"
     \/ UsbGoes("ifOff", "off") /\ slots[e].kind = "off"
     \/ UsbGoes("ifOff", AfterEvent) /\ slots[e].kind # "off"
  /\ UNCHANGED <<noteVars, ringVars, sem, e, audioPc, lock, serial, hostVars>>

UsbPlay ==
  /\ \/ UsbGoes("on", "print") /\ NoteOn(slots[e].note)
     \/ UsbGoes("off", "print") /\ NoteOff(slots[e].note)
  /\ UNCHANGED <<ringVars, sem, e, audioPc, lock, serial, hostVars>>

\* DebugIO::Write waits for the end of the transfer before, lock in hand.
UsbPrint ==
  /\ UsbGoes("print", AfterEvent)
  /\ serial
  /\ serial' = FALSE
  /\ UNCHANGED <<noteVars, ringVars, sem, e, audioPc, lock, hostVars>>

UsbUnlock ==
  /\ UsbGoes("unlock", "wait")
  /\ GiveLock
  /\ UNCHANGED <<noteVars, ringVars, sem, e, audioPc, serial, hostVars>>

UsbTask == \/ UsbWait \/ UsbLock \/ UsbFetch \/ UsbDrained \/ UsbTest
           \/ UsbPlay \/ UsbPrint \/ UsbUnlock

-----------------------------------------------------------------------------
(***************************************************************************)
(* AudioTask, between two calls of GetNextBlock, and TestTask.             *)
(***************************************************************************)
AudioWake ==
  /\ audioPc = "block" /\ audioPc' = "lock"
  /\ UNCHANGED <<noteVars, ringVars, sem, usbPc, e, lock, serial, hostVars>>

AudioLock ==
  /\ audioPc = "lock" /\ audioPc' = "process"
  /\ TakeLock("audio")
  /\ UNCHANGED <<noteVars, ringVars, sem, usbPc, e, serial, hostVars>>

\* One of the control ticks within Process.
AudioTick ==
  /\ audioPc = "process"
  /\ Tick
  /\ UNCHANGED <<ringVars, sem, usbPc, e, audioPc, lock, serial, hostVars>>

AudioUnlock ==
  /\ audioPc = "process" /\ audioPc' = "block"
  /\ GiveLock
  /\ UNCHANGED <<noteVars, ringVars, sem, usbPc, e, serial, hostVars>>

TestWrite ==
  /\ serial
  /\ serial' = FALSE
  /\ UNCHANGED <<noteVars, ringVars, sem, usbPc, e, audioPc, lock, hostVars>>

\* Faulty variant: the end of the transfer is not signalled.
StillBusy == FALSE

\* HAL_UART_TxCpltCallback.
GivenBack == TRUE

SerialDone ==
  /\ ~ serial
  /\ serial' = GivenBack
  /\ UNCHANGED <<noteVars, ringVars, sem, usbPc, e, audioPc, lock, hostVars>>

-----------------------------------------------------------------------------
MidiInit ==
  /\ NoteInit
  /\ slots = [k \in Positions |-> Padding]
  /\ rpos = 0
  /\ wpos = 0
  /\ sem = FALSE
  /\ usbPc = "wait"
  /\ e = 0
  /\ audioPc = "block"
  /\ lock = "free"
  /\ serial = TRUE
  /\ hostStack = <<>>
  /\ packets = 0
  /\ lapped = FALSE

MidiNext ==
  \/ \E packet \in Packet : DataIn(packet)
  \/ UsbTask
  \/ AudioWake \/ AudioLock \/ AudioTick \/ AudioUnlock
  \/ TestWrite \/ SerialDone

\* Tasks that can run do run, transfers end and blocks are asked for.  UsbTask
\* gets the lock and the line because it is queued on them before their other
\* users come back for them: AudioTask waits for the next block in between,
\* TestTask for five seconds.  Those, and UsbTask, in turn wait for it.
Fairness ==
  /\ WF_midiVars(UsbWait) /\ WF_midiVars(UsbFetch) /\ WF_midiVars(UsbDrained)
  /\ WF_midiVars(UsbTest) /\ WF_midiVars(UsbPlay) /\ WF_midiVars(UsbUnlock)
  /\ SF_midiVars(UsbLock) /\ SF_midiVars(UsbPrint)
  /\ WF_midiVars(AudioWake) /\ WF_midiVars(AudioLock) /\ WF_midiVars(AudioUnlock)
  /\ WF_midiVars(SerialDone)

MidiSpec == MidiInit /\ [][MidiNext]_midiVars /\ Fairness

-----------------------------------------------------------------------------
(***************************************************************************)
(* Properties.                                                             *)
(***************************************************************************)
\* UsbTask never sleeps on unread events: the semaphore counts to one only,
\* and several packets may arrive while the task drains the ring or has seen
\* it empty and not yet gone back to sleep.
NoLostWakeup == usbPc \in {"wait", "unlock"} /\ rpos # wpos => sem

\* The events UsbTask has not played yet, the one in its hands first.
Unplayed ==
  (IF usbPc \in {"ifOn", "ifOff", "on", "off"} THEN <<slots[e]>> ELSE <<>>)
    \o [j \in 1 .. Backlog |-> slots[(rpos + j - 1) % RingSize]]

\* Until the interrupt runs into unread events, playing what is left in the
\* ring leads to exactly the keys the host holds: no event is lost, played
\* twice, reordered, or changed in the slot while UsbTask still reads it.
FollowsHost ==
  ~ lapped => FoldLeft(PlayKey, noteStack, Unplayed) = hostStack

\* Whatever arrives is played: unread events bring UsbTask back to sleep with
\* an empty ring.
Drains == rpos # wpos ~> (rpos = wpos /\ usbPc = "wait")
=============================================================================
