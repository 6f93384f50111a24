------------------------------ MODULE Encoder -------------------------------
(***************************************************************************)
(* One of the four knobs: the quadrature contacts A0 and A1, the EXTI      *)
(* interrupt on the edges of A1, and BspTask, which takes the count over   *)
(* once per scan.  The four instances in the source differ in their pins.  *)
(*                                                                         *)
(* Turning the knob one detent takes the contacts through (A0, A1) =       *)
(* 11, 10, 00, 01, 11 or back.  A contact may bounce as it changes: the    *)
(* interrupt reads the pins after it was raised, and finds A1 at either    *)
(* level.                                                                  *)
(***************************************************************************)
EXTENDS BspTask, Integers

CONSTANT MaxTurn   \* bound: the quarters of a detent the knob goes from its start

ASSUME MaxTurnAssumption == MaxTurn \in Nat

VARIABLES
  pos,        \* where the knob stands, in quarters of a detent
  a1,         \* the level of A1, which may still bounce
  raised,     \* an edge of A1 is waiting for its interrupt
  flag,       \* encoderIrqFlags.flag
  init_nu,    \* encoderIrqFlags.init_nu
  value,      \* encoderValues_[i]
  taken       \* history: the sum of what was cleared

knob == <<pos, a1, raised>>
isr == <<flag, init_nu>>
knobVars == <<knob, isr, value, taken>>

-----------------------------------------------------------------------------
\* The levels at rest in a position: 11 in a detent, A1 down first in one
\* direction, A0 down first in the other.
A0(p) == p % 4 \in {0, 1}
A1(p) == p % 4 \in {0, 3}

Near(p) == p \in -1 .. MaxTurn

\* The knob moves a quarter.  Contacts are slow against the interrupt: it has
\* answered the last edge of A1, and A1 is still, before A0 changes or A1
\* changes again.
Turn ==
  /\ ~ raised /\ a1 = A1(pos)
  /\ \E p \in {pos - 1, pos + 1} :
       /\ Near(p)
       /\ pos' = p
       /\ a1' = A1(p)
       /\ raised' = (A1(p) # A1(pos))
  /\ UNCHANGED <<task, isr, value, taken>>

\* A1 bounces while A0 is still: an edge each time.
Bounce ==
  /\ \E p \in {pos - 1, pos + 1} : A0(p) = A0(pos) /\ A1(p) # A1(pos)
  /\ a1' = ~ a1
  /\ raised' = TRUE
  /\ UNCHANGED <<task, pos, isr, value, taken>>

-----------------------------------------------------------------------------
\* Faulty variant: every look at A1 up counts, whether a fall was seen before
\* or not.
AnyRise(keya) == keya

Falls(keya) == ~ init_nu /\ ~ keya
Rises(keya) == init_nu /\ keya
Step(keyb) == CASE ~ keyb /\ flag -> 1
                [] keyb /\ ~ flag -> -1
                [] OTHER -> 0

\* EXTI9_5_IRQHandler, EXTI15_10_IRQHandler: one of their four parts.
Interrupt ==
  /\ raised /\ raised' = FALSE
  /\ LET keya == a1
         keyb == A0(pos)
     IN  /\ flag' = IF Falls(keya) THEN keyb ELSE flag
         /\ init_nu' = IF Falls(keya) THEN TRUE
                       ELSE IF Rises(keya) THEN FALSE ELSE init_nu
         /\ value' = value + IF Rises(keya) THEN Step(keyb) ELSE 0
  /\ UNCHANGED <<task, pos, a1, taken>>

-----------------------------------------------------------------------------
\* Faulty variant: only one direction is noticed.
CountedUp == value > 0

Counted == value # 0

\* BspTask finds a value that is not 0 and hands it to EncoderEvent ...
Read ==
  /\ Goes("knobs", "knob")
  /\ Counted
  /\ UNCHANGED knobVars

NoCount ==
  /\ Goes("knobs", "frame")
  /\ ~ Counted
  /\ UNCHANGED knobVars

\* ... and clears it when the handler has returned, with what the interrupt
\* added to it meanwhile.
Clear ==
  /\ Goes("knob", "frame")
  /\ value' = 0
  /\ taken' = taken + value
  /\ UNCHANGED <<knob, isr>>

-----------------------------------------------------------------------------
\* The knob rests in a detent at power-on.
KnobInit ==
  /\ pos = 0 /\ a1 = TRUE /\ raised = FALSE
  /\ flag = FALSE /\ init_nu = FALSE
  /\ value = 0
  /\ taken = 0

KnobNext == Interrupt \/ Read \/ NoCount \/ Clear

-----------------------------------------------------------------------------
(***************************************************************************)
(* Properties.                                                             *)
(***************************************************************************)
Still == ~ raised /\ a1 = A1(pos)

\* Whatever the knob did, back and forth and with bouncing contacts, what BspTask
\* has cleared, handed over or not, and what is left add up to where it stands.
\* While A1 is up that is the detent the knob is in or next to; while A1 is down it
\* is the detent A1 fell in, and flag says which of the two neighbours that was.
CountExact ==
  Still => value + taken = IF A1(pos) THEN (pos + 1) \div 4
                           ELSE IF flag THEN pos \div 4 ELSE pos \div 4 + 1

\* When no more edges come, BspTask has taken the whole count.
AllTaken == <>[](~ raised) => <>[](value = 0 \/ Stopped)
=============================================================================
