---------------------------- MODULE ControlScan -----------------------------
(***************************************************************************)
(* The key scanner of bsp::ControlIO.  A one-shot timer samples the keys   *)
(* into a chain of shift registers and starts an SPI transfer; its end     *)
(* gives a semaphore; BspTask compares the keys with those of the previous *)
(* scan, starts the timer again and only then handles the events, so the   *)
(* next scan may come in under its hands.                                  *)
(*                                                                         *)
(* A key is its position in the chain; a byte array is the set of the keys *)
(* whose bits are 1.                                                       *)
(***************************************************************************)
EXTENDS BspTask, Integers

CONSTANT Keys   \* the positions that can read 1, as numbered by ButtonId

kBufferSize == 9

ASSUME KeysAssumption == Keys \subseteq 0 .. 8 * kBufferSize - 1

VARIABLES
  down,         \* the keys held now
  sampled,      \* the contents of the shift registers
  buttons,      \* buttons_
  lastButtons,  \* lastButtons_
  timer,        \* spiTimer_ is started, or its start command is queued
  busy,         \* the state of hspi_
  received,     \* the bytes of this transfer that are in buttons_
  sem,          \* bspHandlerSem_
  events,       \* buttonEvents_ not yet handled: pairs of a state and a key
  known         \* history: the keys whose last event was an attack

scan == <<sampled, buttons, lastButtons, timer, busy, received, sem>>
scanVars == <<down, scan, events, known>>

-----------------------------------------------------------------------------
InByte(k, i) == k \div 8 = i

\* The keys the mask 0b11100001 on byte 5 clears.
Cleared == {k \in Keys : InByte(k, 5) /\ k % 8 \in 1 .. 4}

\* The contacts move at any time.
Press ==
  /\ \E k \in Keys : down' = IF k \in down THEN down \ {k} ELSE down \cup {k}
  /\ UNCHANGED <<scan, task, events, known>>

-----------------------------------------------------------------------------
\* Faulty variants: the timer reloads itself; the copy for the comparison is
\* forgotten.
ReloadingTimer == TRUE
NotCopied == lastButtons

\* The timer is created with pdFALSE and stops as it fires.
TimerAfter == FALSE
PreviousScan == buttons

\* HAL_SPI_TransmitReceive_DMA answers HAL_BUSY if a transfer is running: the
\* timer task, which no other task interrupts, flashes the light for ever.
OS_SpiTimerCallback ==
  /\ timer
  /\ timer' = TimerAfter
  /\ lastButtons' = PreviousScan
  /\ sampled' = down
  /\ IF busy
       THEN halted' = TRUE /\ UNCHANGED <<busy, received>>
       ELSE busy' = TRUE /\ received' = 0 /\ UNCHANGED halted
  /\ UNCHANGED <<pc, down, buttons, sem, events, known>>

\* The DMA writes the next byte into buttons_.
ReceiveByte ==
  /\ busy /\ received < kBufferSize
  /\ buttons' = {k \in buttons : ~ InByte(k, received)}
                  \cup {k \in sampled : InByte(k, received)}
  /\ received' = received + 1
  /\ UNCHANGED <<task, down, sampled, lastButtons, timer, busy, sem, events,
                 known>>

HAL_SpiHandler ==
  /\ busy /\ received = kBufferSize
  /\ busy' = FALSE
  /\ sem' = TRUE
  /\ UNCHANGED <<task, down, sampled, buttons, lastButtons, timer, received,
                 events, known>>

-----------------------------------------------------------------------------
(***************************************************************************)
(* BspTask: WaitForNextEventBlock in three steps, then the events.         *)
(***************************************************************************)
TakeSem ==
  /\ Goes("wait", "compare")
  /\ sem /\ sem' = FALSE
  /\ events' = {}
  /\ buttons' = buttons \ Cleared
  /\ lastButtons' = lastButtons \ Cleared
  /\ UNCHANGED <<down, sampled, timer, busy, received, known>>

Events(state, keys) == {<<state, k>> : k \in keys}

Compare ==
  /\ Goes("compare", "restart")
  /\ events' = Events("attack", buttons \ lastButtons)
                 \cup Events("release", lastButtons \ buttons)
  /\ known' = (known \cup (buttons \ lastButtons)) \ (lastButtons \ buttons)
  /\ UNCHANGED <<down, scan>>

\* Faulty variant: nothing to report, nothing restarted.
RestartForEvents == events # {}

Restarted == TRUE

RestartTimer ==
  /\ Goes("restart", "handle")
  /\ timer' = (timer \/ Restarted)
  /\ UNCHANGED <<down, sampled, buttons, lastButtons, busy, received, sem,
                 events, known>>

\* The span of the events is handed over; a handler may run for long.
HandleEvent ==
  /\ Goes("handle", "handle")
  /\ \E e \in events : events' = events \ {e}
  /\ UNCHANGED <<down, scan, known>>

HandledAll ==
  /\ Goes("handle", "knobs")
  /\ events = {}
  /\ UNCHANGED <<down, scan, events, known>>

-----------------------------------------------------------------------------
\* ControlIO::Init starts the first transfer and then clears both arrays, while
\* the first bytes come in.
ScanInit ==
  /\ down \in SUBSET Keys
  /\ sampled = down
  /\ buttons = {} /\ lastButtons = {}
  /\ timer = FALSE
  /\ busy = TRUE
  /\ received \in 0 .. kBufferSize - 1
  /\ sem = FALSE
  /\ events = {}
  /\ known = {}

ScanNext == \/ OS_SpiTimerCallback \/ ReceiveByte \/ HAL_SpiHandler
            \/ TakeSem \/ Compare \/ RestartTimer \/ HandleEvent \/ HandledAll

-----------------------------------------------------------------------------
(***************************************************************************)
(* Properties.                                                             *)
(***************************************************************************)
Comparing == pc \in {"compare", "restart"}

\* The scan goes round one turn at a time: the timer, the transfer, the
\* semaphore and the comparison never hold it together, so the timer finds the
\* SPI free and BspTask compares arrays nothing else writes.
OneTurn ==
  /\ timer => ~ busy /\ ~ sem /\ ~ Comparing
  /\ busy => ~ sem /\ ~ Comparing
  /\ sem => ~ Comparing

\* A key is reported pressed when its last report was a release, and released
\* when its last report was a press, though handlers run on into later scans.
EdgesAlternate ==
  [][Compare => /\ (buttons \ lastButtons) \cap known = {}
                /\ lastButtons \ buttons \subseteq known]_<<task, scanVars>>

\* A key held, or let go, for good is reported so, if no mask clears it and the
\* display has not stopped BspTask.
HeldIsReported ==
  \A k \in Keys \ Cleared :
    /\ <>[](k \in down) => <>[](k \in known \/ Stopped)
    /\ <>[](k \notin down) => <>[](k \notin known \/ Stopped)

\* "always clear 43 to 46": the unconnected inputs are never reported.
UnusedSilent == known \cap (43 .. 46) = {}
=============================================================================
