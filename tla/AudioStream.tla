---------------------------- MODULE AudioStream -----------------------------
(***************************************************************************)
(* The audio output: bsp::PCM5102 plays a buffer of two halves by circular *)
(* DMA and AudioTask refills the half that is not being played.            *)
(*                                                                         *)
(* The interrupt leaves two messages, the offset of the half just played   *)
(* and a binary semaphore.  When AudioTask is late both are overwritten.   *)
(* The model lets the task be as late as it likes and states what holds    *)
(* when it was not, and how soon after.                                    *)
(***************************************************************************)
EXTENDS Integers

CONSTANT BlockModulus   \* blocks of sound are numbered modulo this

ASSUME BlockAssumption == BlockModulus \in Nat /\ BlockModulus > 3

Halves == {0, 1}

VARIABLES
  playing,   \* the half of dmaBuffer_ the DMA reads
  irq,       \* the interrupt raised and not yet served
  offset,    \* offset_ / kGenSize
  sem,       \* dmaSem_: given, not yet taken
  pc,        \* what AudioTask does next
  span,      \* the half GetNextBlock returned
  locked,    \* another task holds the audio lock
  block,     \* the number of the block in _buffer
  content,   \* the number of the block in each half of dmaBuffer_
  onTime,    \* history: half-buffers in a row that AudioTask was waiting for
  made       \* history: blocks processed during the half-buffer being played

vars == <<playing, irq, offset, sem, pc, span, locked, block, content, onTime,
          made>>

-----------------------------------------------------------------------------
Idle == pc = "wait" /\ ~ sem

\* The DMA runs into the other half.  An interrupt is served before the next
\* one is due.  onTime and made count no further than the properties look.
DmaSwitch ==
  /\ irq = "none"
  /\ playing' = 1 - playing
  /\ irq' = IF playing = 0 THEN "half" ELSE "cplt"
  /\ onTime' = IF Idle THEN IF onTime = 0 THEN 1 ELSE 2 ELSE 0
  /\ made' = 0
  /\ UNCHANGED <<offset, sem, pc, span, locked, block, content>>

\* Faulty variants: the halves are swapped; the half-way interrupt does not give
\* the semaphore.
SwappedHalf == IF irq = "half" THEN 1 ELSE 0
GiveAtEnd == sem \/ irq = "cplt"

\* HAL_I2S_TxHalfCpltCallback and HAL_I2S_TxCpltCallback.
PlayedHalf == IF irq = "half" THEN 0 ELSE 1
Given == TRUE

Interrupt ==
  /\ irq # "none"
  /\ offset' = PlayedHalf
  /\ sem' = Given
  /\ irq' = "none"
  /\ UNCHANGED <<playing, pc, span, locked, block, content, onTime, made>>

-----------------------------------------------------------------------------
(***************************************************************************)
(* AudioTask.                                                              *)
(***************************************************************************)
Goes(from, to) == pc = from /\ pc' = to

\* Faulty variant: the semaphore stays given.
NotTaken == sem

Taken == FALSE

Wait ==
  /\ Goes("wait", "span")
  /\ sem
  /\ sem' = Taken
  /\ UNCHANGED <<playing, irq, offset, span, locked, block, content, onTime, made>>

\* offset_ is read after the semaphore was taken, not together with it.
Span ==
  /\ Goes("span", "lock")
  /\ span' = offset
  /\ UNCHANGED <<playing, irq, offset, sem, locked, block, content, onTime, made>>

\* Process runs under the audio lock, into a buffer of its own.
Process ==
  /\ Goes("lock", "copy")
  /\ ~ locked
  /\ block' = (block + 1) % BlockModulus
  /\ made' = made + 1
  /\ UNCHANGED <<playing, irq, offset, sem, span, locked, content, onTime>>

\* The copy into dmaBuffer_ starts when pc becomes "copy" and ends here.
Copy ==
  /\ Goes("copy", "wait")
  /\ content' = [content EXCEPT ![span] = block]
  /\ UNCHANGED <<playing, irq, offset, sem, span, locked, block, onTime, made>>

\* UsbTask and BspTask hold the lock for a while.
OtherLocks ==
  /\ ~ locked /\ locked' = TRUE
  /\ UNCHANGED <<playing, irq, offset, sem, pc, span, block, content, onTime, made>>

OtherUnlocks ==
  /\ locked /\ locked' = FALSE
  /\ UNCHANGED <<playing, irq, offset, sem, pc, span, block, content, onTime, made>>

-----------------------------------------------------------------------------
\* Start has the DMA read the first half of the zeroed buffer.
Init ==
  /\ playing = 0
  /\ irq = "none"
  /\ offset = 0
  /\ sem = FALSE
  /\ pc = "wait"
  /\ span = 0
  /\ locked = FALSE
  /\ block = 0
  /\ content = [h \in Halves |-> 0]
  /\ onTime = 0
  /\ made = 0

Next == \/ DmaSwitch \/ Interrupt
        \/ Wait \/ Span \/ Process \/ Copy
        \/ OtherLocks \/ OtherUnlocks

\* The DMA never stops and its interrupts are served.  Nothing is assumed of the
\* tasks: how fast AudioTask is, and whether it gets the lock, stays open.
Fairness == WF_vars(DmaSwitch) /\ WF_vars(Interrupt)

Spec == Init /\ [][Next]_vars /\ Fairness

-----------------------------------------------------------------------------
(***************************************************************************)
(* Properties.                                                             *)
(***************************************************************************)
TypeOK ==
  /\ playing \in Halves
  /\ irq \in {"none", "half", "cplt"}
  /\ offset \in Halves
  /\ sem \in BOOLEAN
  /\ pc \in {"wait", "span", "lock", "copy"}
  /\ span \in Halves
  /\ locked \in BOOLEAN
  /\ block \in 0 .. BlockModulus - 1
  /\ content \in [Halves -> 0 .. BlockModulus - 1]
  /\ onTime \in 0 .. 2
  /\ made \in Nat

\* AudioTask writes into the half being played only when it was still busy as
\* the DMA entered that half: whatever was late before, a task that waits for
\* the interrupt again writes where the DMA is not.
NeverIntoPlayed == pc \in {"lock", "copy"} /\ span = playing => onTime = 0

\* One interrupt leads to one block.  Only a task that was late, and finds the
\* semaphore given again behind it, makes more during one half-buffer.
OneBlockPerHalf == made > 1 => onTime = 0

\* The DMA finds the successor of the block it has just played, if AudioTask
\* was in time for this half-buffer and for the one before: one half-buffer
\* after it caught up no block is repeated or left out.
Gapless ==
  [][DmaSwitch /\ Idle /\ onTime > 0 =>
       content[1 - playing] = (content[playing] + 1) % BlockModulus]_vars

\* Once AudioTask stays in time, both halves are refilled again and again; a
\* task that is always late may fill the same half for ever.
RefillsBoth ==
  <>[](onTime > 0) => \A h \in Halves : []<>(pc = "copy" /\ span = h)
=============================================================================
