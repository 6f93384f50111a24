-------------------------------- MODULE Oled --------------------------------
(***************************************************************************)
(* The display: the power sequence of Oled::Init, then the frames BspTask  *)
(* draws and sends by DMA over I2C.                                        *)
(*                                                                         *)
(* A frame is told by the picture it shows, and goes over the wire in      *)
(* Parts parts.  DEVICE_ERROR out of SendFrame stops BspTask, out of the   *)
(* interrupt of a DMA transfer the device.                                 *)
(***************************************************************************)
EXTENDS BspTask, Integers

CONSTANTS
  Pictures,   \* what the pages may have to show
  StartPage,  \* the picture of the page gGuiDispatch.Init selects
  NoPicture,  \* the contents of a buffer before the first frame
  Parts,      \* the parts a transfer is cut into: what can be torn apart
  Trys        \* the attempts at the power sequence (32)

ASSUME OledAssumption ==
  /\ NoPicture \notin Pictures /\ StartPage \in Pictures
  /\ Parts \in Nat \ {0}
  /\ Trys \in 1 .. 255

VARIABLES
  trys,       \* the counter of the power sequence, a uint8_t
  shown,      \* what the pages show now
  display,    \* the picture in the buffer of display_
  dmaBuffer,  \* the picture in each part of dmaBuffer_
  sending,    \* hi2c_.State is not HAL_I2C_STATE_READY
  sent,       \* the parts of this transfer already on the panel
  panel       \* the picture in each part of the panel

wire == <<sending, sent, panel>>
drawn == <<shown, display, dmaBuffer>>
frameVars == <<trys, drawn, wire>>

-----------------------------------------------------------------------------
(***************************************************************************)
(* The power sequence: while (trys--), and afterwards trys == 0 is taken   *)
(* for failure.                                                            *)
(***************************************************************************)
CountedDown == (trys - 1) % 256

\* Where Init ends with this value of the counter, a local variable.
Leave(n) ==
  /\ Goes("power", IF n = 0 THEN "stopped" ELSE "wait")
  /\ trys' = 0

\* The display answers, to the last attempt, too.
Answered ==
  /\ trys # 0 /\ Leave(CountedDown)
  /\ UNCHANGED <<drawn, wire>>

\* No answer: vTaskDelay, and again.
Refused ==
  /\ trys # 0 /\ trys' = CountedDown
  /\ Goes("power", "power")
  /\ UNCHANGED <<drawn, wire>>

\* The test that ends the loop counts, too.
GivenUp ==
  /\ trys = 0 /\ Leave(CountedDown)
  /\ UNCHANGED <<drawn, wire>>

Power == Answered \/ Refused \/ GivenUp

-----------------------------------------------------------------------------
\* The state the pages show changes with a key, or a knob, or the synthesizer.
Change ==
  /\ pc # "power"
  /\ shown' \in Pictures
  /\ UNCHANGED <<task, trys, display, dmaBuffer, wire>>

\* More than kMsPerFrame have passed: GuiDispatch::Update draws it all anew.
Update ==
  /\ Goes("frame", "send")
  /\ display' = shown
  /\ UNCHANGED <<trys, shown, dmaBuffer, wire>>

NotDue ==
  /\ Goes("frame", "wait")
  /\ UNCHANGED frameVars

\* Faulty variant: the transfer is not waited for.
NotWaitedFor == FALSE

FrameDropped == sending

\* Oled::SendFrame: a frame that meets a transfer is dropped.  The HAL refuses a
\* second transfer, and that is an error.
SendFrame ==
  /\ ~ FrameDropped
  /\ dmaBuffer' = [i \in 1 .. Parts |-> display]
  /\ \/ sending /\ Goes("send", "stopped") /\ UNCHANGED wire
     \/ ~ sending /\ Goes("send", "wait")
        /\ sending' = TRUE /\ sent' = 0 /\ UNCHANGED panel
  /\ UNCHANGED <<trys, shown, display>>

DropFrame ==
  /\ FrameDropped
  /\ Goes("send", "wait")
  /\ UNCHANGED frameVars

\* The DMA sends the next part.
SendPart ==
  /\ sending /\ sent < Parts
  /\ panel' = [panel EXCEPT ![sent + 1] = dmaBuffer[sent + 1]]
  /\ sent' = sent + 1
  /\ UNCHANGED <<task, trys, drawn, sending>>

\* Faulty variant: the handle stays busy.
StaysBusy == TRUE

BusyAfter == FALSE

Complete ==
  /\ sending /\ sent = Parts
  /\ sending' = BusyAfter
  /\ UNCHANGED <<task, trys, drawn, sent, panel>>

\* HAL_I2C_ErrorCallback: an interrupt that does not return.
WireError ==
  /\ sending
  /\ halted' = TRUE
  /\ UNCHANGED <<pc, frameVars>>

-----------------------------------------------------------------------------
FrameInit ==
  /\ trys = Trys
  /\ shown = StartPage
  /\ display = NoPicture
  /\ dmaBuffer = [i \in 1 .. Parts |-> NoPicture]
  /\ sending = FALSE
  /\ sent = 0
  /\ panel = [i \in 1 .. Parts |-> NoPicture]

FrameNext ==
  \/ Power
  \/ Update \/ NotDue \/ SendFrame \/ DropFrame
  \/ SendPart \/ Complete \/ WireError

-----------------------------------------------------------------------------
(***************************************************************************)
(* Properties.                                                             *)
(***************************************************************************)
\* The panel never mixes two pictures in what one transfer has sent: the buffer
\* is not written while the DMA reads it.
NoTear ==
  sending => \A i \in 1 .. sent : panel[i] = dmaBuffer[i]

\* Dropped frames do not matter: once the pages show the same for good, so does
\* the panel, or an error has stopped BspTask.
NewestShown ==
  \A p \in Pictures :
    <>[](shown = p) => <>[](Stopped \/ \A i \in 1 .. Parts : panel[i] = p)
=============================================================================
