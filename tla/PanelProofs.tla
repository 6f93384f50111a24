---------------------------- MODULE PanelProofs -----------------------------
(***************************************************************************)
(* The safety of the front panel, for any keys, any travel of the knob and *)
(* frames of any number of parts.                                          *)
(*                                                                         *)
(* The scanner, the knob and the display share BspTask and nothing else:   *)
(* each has an invariant of its own, and a step of another part leaves it  *)
(* alone, moving the task outside the places the invariant speaks of.      *)
(***************************************************************************)
EXTENDS Panel, TLAPS

\* Where a step of another part finds the scanner, it leaves it.
ScanUntouched ==
  /\ UNCHANGED <<scan, known>>
  /\ Comparing' => UNCHANGED pc

LEMMA OthersLeaveScanner ==
  ASSUME Next, ~ Scanner
  PROVE  ScanUntouched
<1>1. CASE Outside
  BY <1>1 DEF Outside, Press, Turn, Bounce, Change, task, scanVars, ScanUntouched
<1>2. CASE Knob
  BY <1>2 DEF Knob, KnobNext, Interrupt, Read, NoCount, Clear, Goes, task, scanVars,
              ScanUntouched, Comparing
<1>3. CASE Display
  BY <1>3 DEF Display, FrameNext, Power, Answered, Refused, GivenUp, Leave, Update, NotDue, SendFrame, DropFrame, SendPart,
              Complete, WireError, Goes, task, scanVars, ScanUntouched, Comparing
<1> QED
  BY <1>1, <1>2, <1>3 DEF Next

-----------------------------------------------------------------------------
(***************************************************************************)
(* The scanner.  From the firing of the timer to the comparison,           *)
(* lastButtons_ is what has been reported; from the comparison to the next *)
(* firing buttons_ is, as nothing writes it.  That the reported keys are   *)
(* never masked ones makes the masking of both arrays harmless.            *)
(***************************************************************************)
ScanInv ==
  /\ OneTurn
  /\ known \cap Cleared = {}
  /\ busy \/ sem \/ pc = "compare" => lastButtons = known
  /\ pc = "compare" => buttons \cap Cleared = {}
  /\ timer \/ pc = "restart" => buttons = known

LEMMA ScanStep == ScanInv /\ [Next]_vars => ScanInv'
<1> SUFFICES ASSUME ScanInv, [Next]_vars PROVE ScanInv'
  OBVIOUS
<1> USE DEF ScanInv, OneTurn, Comparing, Cleared
<1>1. CASE UNCHANGED vars
  BY <1>1 DEF vars, task, scanVars, scan
<1>2. CASE Next /\ ~ Scanner
  BY <1>2, OthersLeaveScanner DEF ScanUntouched, scan
<1>3. CASE Scanner
  <2>1. CASE OS_SpiTimerCallback
    BY <2>1 DEF OS_SpiTimerCallback, TimerAfter, PreviousScan
  <2>2. CASE ReceiveByte
    BY <2>2 DEF ReceiveByte, task
  <2>3. CASE HAL_SpiHandler
    BY <2>3 DEF HAL_SpiHandler, task
  <2>4. CASE TakeSem
    BY <2>4 DEF TakeSem, Goes
  <2>5. CASE Compare
    BY <2>5 DEF Compare, Goes, scan
  <2>6. CASE RestartTimer
    BY <2>6 DEF RestartTimer, Goes
  <2>7. CASE HandleEvent \/ HandledAll
    BY <2>7 DEF HandleEvent, HandledAll, Goes, scan
  <2> QED
    BY <1>3, <2>1, <2>2, <2>3, <2>4, <2>5, <2>6, <2>7 DEF Scanner, ScanNext
<1> QED
  BY <1>1, <1>2, <1>3

THEOREM ScanInvariance == Spec => []ScanInv
<1>1. Init => ScanInv
  BY DEF Init, ScanInit, ScanInv, OneTurn, Comparing
<1> QED
  BY <1>1, ScanStep, PTL DEF Spec

\* The timer never finds the SPI busy, and BspTask compares arrays nothing else
\* writes, whatever keys there are and whatever the other parts do.
THEOREM OneTurnHolds == Spec => []OneTurn
<1>1. ScanInv => OneTurn
  BY DEF ScanInv
<1> QED
  BY <1>1, ScanInvariance, PTL

\* No key is reported pressed twice, or released before it was pressed.
THEOREM EdgesAlternateHolds == Spec => EdgesAlternate
<1>1. ScanInv /\ [Next]_vars =>
        [Compare => /\ (buttons \ lastButtons) \cap known = {}
                    /\ lastButtons \ buttons \subseteq known]_<<task, scanVars>>
  BY DEF ScanInv, Compare, Goes
<1> QED
  BY <1>1, ScanInvariance, PTL DEF Spec, EdgesAlternate

-----------------------------------------------------------------------------
(***************************************************************************)
(* The knob.  Once the interrupt has answered the last edge, init_nu says  *)
(* whether it found A1 down.  Found up, the count is the detent on whose   *)
(* side A0 is; found down, it is the detent A1 fell in, which flag tells   *)
(* from the next.  The contacts bounce while A0 is still, so an answer     *)
(* that comes early or late is one of these two.                           *)
(***************************************************************************)
Detent(p) == IF A0(p) THEN p \div 4 ELSE p \div 4 + 1

KnobInv ==
  /\ pos \in Int /\ value \in Int /\ taken \in Int
  /\ a1 \in BOOLEAN /\ raised \in BOOLEAN /\ flag \in BOOLEAN /\ init_nu \in BOOLEAN
  /\ ~ raised => init_nu = ~ a1
  /\ ~ init_nu => value + taken = Detent(pos)
  /\ init_nu => value + taken = IF flag THEN pos \div 4 ELSE pos \div 4 + 1

\* A quarter forth or back, by the level of A1 it starts from.
LEMMA QuarterTurn ==
  ASSUME NEW p \in Int, NEW q \in {p - 1, p + 1}
  PROVE  /\ q \in Int
         /\ A1(p) => Detent(q) = Detent(p)
         /\ ~ A1(p) => q \div 4 = p \div 4
  BY DEF A0, A1, Detent

LEMMA TurnKeepsCount == KnobInv /\ Turn => KnobInv'
<1> SUFFICES ASSUME KnobInv, Turn PROVE KnobInv'
  OBVIOUS
<1>1. PICK p \in {pos - 1, pos + 1} :
        pos' = p /\ a1' = A1(p) /\ raised' = (A1(p) # A1(pos))
  BY DEF Turn
<1>2. /\ a1 = A1(pos) /\ init_nu = ~ a1
      /\ UNCHANGED <<flag, init_nu, value, taken>>
  BY DEF Turn, KnobInv, isr
<1>3. /\ A1(pos) \in BOOLEAN /\ A1(p) \in BOOLEAN
      /\ A1(pos) => Detent(p) = Detent(pos)
      /\ ~ A1(pos) => p \div 4 = pos \div 4
      /\ p \in Int
  BY QuarterTurn DEF KnobInv, A1
<1>4. raised' \in BOOLEAN /\ (~ raised' => A1(p) = A1(pos))
  BY <1>1
<1> HIDE DEF A1
<1>5. ~ raised' => init_nu' = ~ a1'
  BY <1>1, <1>2, <1>3, <1>4
<1>6. ~ init_nu' => value' + taken' = Detent(pos')
  BY <1>1, <1>2, <1>3 DEF KnobInv
<1>7. init_nu' => value' + taken' = IF flag' THEN pos' \div 4 ELSE pos' \div 4 + 1
  BY <1>1, <1>2, <1>3 DEF KnobInv
<1> QED
  BY <1>1, <1>2, <1>3, <1>4, <1>5, <1>6, <1>7 DEF KnobInv

LEMMA InterruptCounts == KnobInv /\ Interrupt => KnobInv'
<1> SUFFICES ASSUME KnobInv, Interrupt PROVE KnobInv'
  OBVIOUS
<1>1. /\ UNCHANGED <<pos, a1, taken>> /\ raised' = FALSE
      /\ flag' = IF Falls(a1) THEN A0(pos) ELSE flag
      /\ init_nu' = IF Falls(a1) THEN TRUE ELSE IF Rises(a1) THEN FALSE ELSE init_nu
      /\ value' = value + IF Rises(a1) THEN Step(A0(pos)) ELSE 0
  BY DEF Interrupt
<1>2. A0(pos) \in BOOLEAN
  BY DEF A0
<1>3. CASE Falls(a1)
  <2>1. ~ Rises(a1) /\ ~ init_nu /\ a1 = FALSE
    BY <1>3 DEF Falls, Rises, KnobInv
  <2>2. value' = value /\ init_nu' = TRUE /\ flag' = A0(pos)
    BY <1>1, <1>3, <2>1 DEF KnobInv
  <2> QED
    BY <1>1, <1>2, <2>1, <2>2 DEF KnobInv, Detent
<1>4. CASE Rises(a1)
  <2>1. ~ Falls(a1) /\ init_nu /\ a1 = TRUE
    BY <1>4 DEF Falls, Rises, KnobInv
  <2>2. value' = value + Step(A0(pos)) /\ init_nu' = FALSE /\ flag' = flag
    BY <1>1, <1>4, <2>1
  <2>3. value' \in Int /\ value' + taken' = Detent(pos')
    <3>1. Step(A0(pos)) = IF ~ A0(pos) /\ flag THEN 1 ELSE IF A0(pos) /\ ~ flag THEN -1 ELSE 0
      BY <1>2 DEF Step
    <3>2. value + taken = IF flag THEN pos \div 4 ELSE pos \div 4 + 1
      BY <2>1 DEF KnobInv
    <3>3. pos' = pos /\ taken' = taken
      BY <1>1
    <3>4. value \in Int /\ taken \in Int /\ pos \in Int
      BY DEF KnobInv
    <3>5. CASE A0(pos)
      BY <2>2, <3>1, <3>2, <3>3, <3>4, <3>5 DEF Detent
    <3>6. CASE ~ A0(pos)
      BY <2>2, <3>1, <3>2, <3>3, <3>4, <3>6 DEF Detent
    <3> QED
      BY <3>5, <3>6
  <2> QED
    BY <1>1, <2>1, <2>2, <2>3 DEF KnobInv
<1>5. CASE ~ Falls(a1) /\ ~ Rises(a1)
  <2>1. value' = value /\ init_nu' = init_nu /\ flag' = flag
    BY <1>1, <1>5 DEF KnobInv
  <2>2. init_nu = ~ a1
    BY <1>5, Zenon DEF Falls, Rises, KnobInv
  <2>3. init_nu' = ~ a1'
    BY <1>1, <2>1, <2>2
  <2>4. /\ ~ init_nu' => value' + taken' = Detent(pos')
        /\ init_nu' => value' + taken' = IF flag' THEN pos' \div 4 ELSE pos' \div 4 + 1
    <3>1. value' + taken' = value + taken /\ Detent(pos') = Detent(pos)
      BY <1>1, <2>1
    <3>2. CASE init_nu
      <4>1. value + taken = IF flag THEN pos \div 4 ELSE pos \div 4 + 1
        BY <3>2 DEF KnobInv
      <4>2. init_nu' /\ pos' = pos
        BY <1>1, <2>1, <3>2
      <4> QED
        BY <2>1, <3>1, <4>1, <4>2
    <3>3. CASE ~ init_nu
      <4>1. value + taken = Detent(pos) /\ ~ init_nu'
        BY <2>1, <3>3 DEF KnobInv
      <4> QED
        BY <3>1, <4>1
    <3> QED
      BY <3>2, <3>3
  <2> QED
    BY <1>1, <2>1, <2>3, <2>4 DEF KnobInv
<1> QED
  BY <1>3, <1>4, <1>5

LEMMA KnobStep == KnobInv /\ [Next]_vars => KnobInv'
<1> SUFFICES ASSUME KnobInv, [Next]_vars PROVE KnobInv'
  OBVIOUS
<1>1. CASE UNCHANGED knobVars
  BY <1>1 DEF knobVars, knob, isr, KnobInv, Detent, A0
<1>2. CASE Turn
  BY <1>2, TurnKeepsCount
<1>3. CASE Bounce
  BY <1>3 DEF Bounce, isr, KnobInv, Detent, A0
<1>4. CASE Interrupt
  BY <1>4, InterruptCounts
<1>5. CASE Clear
  BY <1>5 DEF Clear, knob, isr, KnobInv, Detent, A0
<1> QED
  BY <1>1, <1>2, <1>3, <1>4, <1>5
  DEF Next, vars, Outside, Scanner, Knob, Display, KnobNext, Read, NoCount

\* However the knob is turned and its contacts bounce, the counts taken and
\* left add up to where it stands.
THEOREM CountExactHolds == Spec => []CountExact
<1>1. Init => KnobInv
  <2>1. 0 \div 4 = 0 /\ 0 % 4 = 0
    OBVIOUS
  <2>2. Detent(0) = 0
    BY <2>1 DEF Detent, A0
  <2> SUFFICES ASSUME KnobInit PROVE KnobInv
    BY DEF Init
  <2>3. pos = 0 /\ value = 0 /\ taken = 0 /\ a1 = TRUE /\ raised = FALSE
        /\ flag = FALSE /\ init_nu = FALSE
    BY DEF KnobInit
  <2>4. value + taken = Detent(pos)
    BY <2>2, <2>3
  <2>5. ~ raised => init_nu = ~ a1
    BY <2>3
  <2>6. pos \in Int /\ value \in Int /\ taken \in Int
    BY <2>3
  <2> QED
    BY <2>3, <2>4, <2>5, <2>6, Zenon DEF KnobInv
<1>2. KnobInv => CountExact
  <2> SUFFICES ASSUME KnobInv, Still
               PROVE  value + taken = IF A1(pos) THEN (pos + 1) \div 4
                                      ELSE IF flag THEN pos \div 4 ELSE pos \div 4 + 1
    BY DEF CountExact
  <2>1. init_nu = ~ A1(pos) /\ A1(pos) \in BOOLEAN
    BY DEF KnobInv, Still, A1
  <2>2. CASE A1(pos)
    <3>1. Detent(pos) = (pos + 1) \div 4
      BY <2>2 DEF KnobInv, Detent, A0, A1
    <3> QED
      BY <2>1, <2>2, <3>1 DEF KnobInv
  <2>3. CASE ~ A1(pos)
    BY <2>1, <2>3 DEF KnobInv
  <2> QED
    BY <2>2, <2>3
<1> QED
  BY <1>1, <1>2, KnobStep, PTL DEF Spec

-----------------------------------------------------------------------------
(***************************************************************************)
(* The display.                                                            *)
(***************************************************************************)
FrameInv ==
  /\ sent \in 0 .. Parts
  /\ DOMAIN dmaBuffer = 1 .. Parts
  /\ panel = [i \in 1 .. Parts |-> panel[i]]
  /\ NoTear

LEMMA FrameStep == FrameInv /\ [Next]_vars => FrameInv'
<1> SUFFICES ASSUME FrameInv, [Next]_vars PROVE FrameInv'
  OBVIOUS
<1>1. Parts \in Nat \ {0}
  BY OledAssumption DEF OledAssumption
<1> USE DEF FrameInv, NoTear
<1>2. CASE UNCHANGED <<dmaBuffer, wire>>
  BY <1>2 DEF wire
<1>3. CASE SendFrame
  BY <1>1, <1>3 DEF SendFrame, FrameDropped
<1>4. CASE SendPart
  <2>1. /\ sent + 1 \in 1 .. Parts /\ sent' = sent + 1
        /\ panel' = [panel EXCEPT ![sent + 1] = dmaBuffer[sent + 1]]
        /\ dmaBuffer' = dmaBuffer /\ sending' = sending /\ sending
    BY <1>1, <1>4 DEF SendPart, drawn
  <2>2. panel' = [i \in 1 .. Parts |-> IF i = sent + 1 THEN dmaBuffer[i] ELSE panel[i]]
    BY <2>1
  <2>3. ASSUME NEW i \in 1 .. sent + 1
        PROVE  panel'[i] = dmaBuffer[i]
    <3>1. i \in 1 .. Parts /\ (i = sent + 1 \/ i \in 1 .. sent)
      BY <1>1, <2>1
    <3>2. panel'[i] = IF i = sent + 1 THEN dmaBuffer[i] ELSE panel[i]
      BY <2>2, <3>1
    <3> QED
      BY <2>1, <3>1, <3>2
  <2>4. panel' = [i \in 1 .. Parts |-> panel'[i]]
    BY <2>2
  <2> QED
    BY <1>1, <2>1, <2>3, <2>4
<1>5. CASE Complete
  BY <1>5 DEF Complete, BusyAfter, drawn
<1> QED
  BY <1>2, <1>3, <1>4, <1>5
  DEF Next, vars, frameVars, drawn, Outside, Change, Scanner, Knob, Display, FrameNext,
      Power, Answered, Refused, GivenUp, Update, NotDue, DropFrame, WireError

\* What one transfer has put on the panel is one picture: nothing writes the
\* buffer the DMA reads, into however many parts it is cut.
THEOREM NoTearHolds == Spec => []NoTear
<1>1. Init => FrameInv
  BY OledAssumption DEF OledAssumption, Init, FrameInit, FrameInv, NoTear
<1>2. FrameInv => NoTear
  BY DEF FrameInv
<1> QED
  BY <1>1, <1>2, FrameStep, PTL DEF Spec
=============================================================================
