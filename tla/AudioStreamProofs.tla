------------------------- MODULE AudioStreamProofs --------------------------
(***************************************************************************)
(* AudioTask meets the DMA: proofs of the safety properties of             *)
(* AudioStream, for every modulus of the block numbers.                    *)
(*                                                                         *)
(* None of the properties is inductive.  What makes them so is where the   *)
(* task can stand.  InTime: during a half-buffer entered on time the task  *)
(* goes through its cycle once.  CaughtUp: with no interrupt under way and *)
(* the semaphore taken, the task works, or has worked last, on the half    *)
(* that is not played, however late it was before.                         *)
(***************************************************************************)
EXTENDS AudioStream, TLAPS

IrqMatches ==
  irq # "none" => irq = IF playing = 1 THEN "half" ELSE "cplt"

OffsetFresh ==
  irq = "none" /\ (sem \/ pc = "span") => offset = 1 - playing

CaughtUp ==
  irq = "none" /\ ~ sem =>
    /\ pc \in {"lock", "copy"} => span = 1 - playing
    /\ pc = "wait" => content[1 - playing] = block

InTime ==
  onTime > 0 =>
    \/ /\ irq # "none" \/ sem
       /\ irq # "none" => ~ sem
       /\ pc = "wait" /\ made = 0
       /\ content[playing] = block
    \/ /\ irq = "none" /\ ~ sem
       /\ pc \in {"span", "lock"} /\ made = 0
       /\ content[playing] = block
    \/ /\ irq = "none" /\ ~ sem
       /\ pc \in {"copy", "wait"} /\ made = 1
       /\ block = (content[playing] + 1) % BlockModulus

IInv == TypeOK /\ IrqMatches /\ OffsetFresh /\ CaughtUp /\ InTime

-----------------------------------------------------------------------------
\* Start leaves the DMA in a zeroed buffer and the task before its first wait:
\* the invariant holds there.
LEMMA InitInv == Init => IInv
<1> SUFFICES ASSUME Init PROVE IInv
  OBVIOUS
<1> USE DEF Init, Halves
<1>1. TypeOK
  <2>1. 0 \in 0 .. BlockModulus - 1
    BY BlockAssumption DEF BlockAssumption
  <2>2. sem \in BOOLEAN /\ locked \in BOOLEAN
    BY Zenon
  <2> QED
    BY <2>1, <2>2 DEF TypeOK
<1>2. IrqMatches /\ OffsetFresh /\ CaughtUp /\ InTime
  BY DEF IrqMatches, OffsetFresh, CaughtUp, InTime
<1> QED
  BY <1>1, <1>2 DEF IInv

\* Every step keeps the types.  The half the interrupt names is a half.
LEMMA TypeStep == TypeOK /\ [Next]_vars => TypeOK'
<1> SUFFICES ASSUME TypeOK, [Next]_vars PROVE TypeOK'
  OBVIOUS
<1> USE DEF TypeOK, Halves
<1>1. CASE DmaSwitch
  BY <1>1 DEF DmaSwitch, Idle
<1>2. CASE Interrupt
  BY <1>2 DEF Interrupt, PlayedHalf, Given
<1>3. CASE Wait
  BY <1>3 DEF Wait, Goes, Taken
<1>4. CASE Span
  BY <1>4 DEF Span, Goes
<1>5. CASE Process
  BY <1>5, BlockAssumption DEF BlockAssumption, Process, Goes
<1>6. CASE Copy
  BY <1>6 DEF Copy, Goes
<1>7. CASE OtherLocks \/ OtherUnlocks
  BY <1>7 DEF OtherLocks, OtherUnlocks
<1>8. CASE UNCHANGED vars
  BY <1>8 DEF vars
<1> QED
  BY <1>1, <1>2, <1>3, <1>4, <1>5, <1>6, <1>7, <1>8 DEF Next

\* Every step keeps the invariant.  DmaSwitch and Interrupt are where the task
\* may be late; the task's own steps pass from one line of InTime to the next.
LEMMA StepInv == IInv /\ [Next]_vars => IInv'
<1> SUFFICES ASSUME IInv, [Next]_vars
             PROVE  IrqMatches' /\ OffsetFresh' /\ CaughtUp' /\ InTime'
  BY TypeStep DEF IInv
<1> USE DEF IInv, TypeOK, Halves
<1>1. CASE DmaSwitch
  <2> USE <1>1 DEF DmaSwitch
  <2>1. IrqMatches'
    BY DEF IrqMatches
  <2>2. OffsetFresh' /\ CaughtUp'
    BY DEF OffsetFresh, CaughtUp
  <2>3. InTime'
    BY DEF InTime, CaughtUp, Idle
  <2> QED
    BY <2>1, <2>2, <2>3
<1>2. CASE Interrupt
  <2> USE <1>2 DEF Interrupt, PlayedHalf, Given
  <2>1. IrqMatches'
    BY DEF IrqMatches
  <2>2. OffsetFresh' /\ CaughtUp'
    BY DEF OffsetFresh, CaughtUp, IrqMatches
  <2>3. InTime'
    BY DEF InTime
  <2> QED
    BY <2>1, <2>2, <2>3
<1>3. CASE Wait
  BY <1>3 DEF Wait, Goes, Taken, IrqMatches, OffsetFresh, CaughtUp, InTime
<1>4. CASE Span
  BY <1>4 DEF Span, Goes, IrqMatches, OffsetFresh, CaughtUp, InTime
<1>5. CASE Process
  BY <1>5 DEF Process, Goes, IrqMatches, OffsetFresh, CaughtUp, InTime
<1>6. CASE Copy
  <2> USE <1>6 DEF Copy, Goes
  <2>1. IrqMatches' /\ OffsetFresh'
    BY DEF IrqMatches, OffsetFresh
  <2>2. CaughtUp'
    BY DEF CaughtUp
  <2>3. InTime'
    BY DEF InTime, CaughtUp
  <2> QED
    BY <2>1, <2>2, <2>3
<1>7. CASE OtherLocks \/ OtherUnlocks
  BY <1>7 DEF OtherLocks, OtherUnlocks, IrqMatches, OffsetFresh, CaughtUp, InTime
<1>8. CASE UNCHANGED vars
  BY <1>8 DEF vars, IrqMatches, OffsetFresh, CaughtUp, InTime
<1> QED
  BY <1>1, <1>2, <1>3, <1>4, <1>5, <1>6, <1>7, <1>8 DEF Next

\* The invariant holds in every state AudioTask and the DMA can reach.
THEOREM Invariance == Spec => []IInv
<1>1. Init => IInv
  BY InitInv
<1>2. IInv /\ [Next]_vars => IInv'
  BY StepInv
<1> QED
  BY <1>1, <1>2, PTL DEF Spec

-----------------------------------------------------------------------------
\* Variables keep their types: offset_ and the span stay within dmaBuffer_.
THEOREM TypeCorrect == Spec => []TypeOK
<1>1. IInv => TypeOK
  BY DEF IInv
<1> QED
  BY <1>1, Invariance, PTL

\* AudioTask writes into the half the DMA plays only if it was still busy as
\* the DMA entered that half, however often it was late before.
THEOREM NeverIntoPlayedHolds == Spec => []NeverIntoPlayed
<1>1. IInv => NeverIntoPlayed
  BY DEF IInv, TypeOK, Halves, InTime, CaughtUp, NeverIntoPlayed
<1> QED
  BY <1>1, Invariance, PTL

\* One interrupt leads to one block, unless the task was late.
THEOREM OneBlockPerHalfHolds == Spec => []OneBlockPerHalf
<1>1. IInv => OneBlockPerHalf
  BY DEF IInv, TypeOK, InTime, OneBlockPerHalf
<1> QED
  BY <1>1, Invariance, PTL

\* A task in time for two half-buffers in a row leaves no gap between the
\* blocks in them.
THEOREM GaplessHolds == Spec => Gapless
<1> DEFINE Follows ==
      DmaSwitch /\ Idle /\ onTime > 0 =>
        content[1 - playing] = (content[playing] + 1) % BlockModulus
<1>1. IInv => Follows
  <2> SUFFICES ASSUME IInv, DmaSwitch, Idle, onTime > 0
               PROVE  content[1 - playing] = (content[playing] + 1) % BlockModulus
    OBVIOUS
  <2>1. irq = "none" /\ pc = "wait" /\ ~ sem
    BY DEF DmaSwitch, Idle
  <2>2. content[1 - playing] = block
    BY <2>1 DEF IInv, CaughtUp
  <2>3. block = (content[playing] + 1) % BlockModulus
    BY <2>1 DEF IInv, InTime
  <2> QED
    BY <2>2, <2>3
<1>2. []IInv => [][Follows]_vars
  BY <1>1, PTL
<1> QED
  BY <1>2, Invariance, PTL DEF Gapless
=============================================================================
