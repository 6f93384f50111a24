-------------------------------- MODULE Gui ---------------------------------
(***************************************************************************)
(* The pages behind gui::GuiDispatch: those that set parameters and the    *)
(* one that lists the modulations of one of them.  A parameter page is     *)
(* shown while the modulation page is not; it gets keys and encoders while *)
(* no overlay is open, whatever other keys the scan brings.                *)
(*                                                                         *)
(* touched bounds an instance: what the user turns to in it, "links" or    *)
(* "sound".  Parameters and links have nothing in common but the pages.    *)
(***************************************************************************)
EXTENDS ModulationPage, ParamPages

CONSTANT Touched   \* the instances: what is touched in each

VARIABLE touched

allGuiVars == <<pageVars, paramVars, touched>>

-----------------------------------------------------------------------------
LinksStep == /\ "links" \in touched
             /\ PageNext
             /\ UNCHANGED <<paramVars, touched>>

ParamStep == /\ "sound" \in touched
             /\ ~ shown /\ overlays = 0
             /\ ParamNext
             /\ UNCHANGED <<pageVars, touched>>

GuiInit == /\ PageInit /\ ParamInit
           /\ touched \in Touched
           /\ "sound" \notin touched => section = "ratioMul"

GuiNext == LinksStep \/ ParamStep

GuiSpec == GuiInit /\ [][GuiNext]_allGuiVars
=============================================================================
