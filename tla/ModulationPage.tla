--------------------------- MODULE ModulationPage ---------------------------
(***************************************************************************)
(* The control panel on top of the modulation bank: gui::GuiDispatch, the  *)
(* page gui::ParamModulations that lists the links of one parameter, and   *)
(* the overlay ModulatorChoose in which a modulator key makes a new link.  *)
(*                                                                         *)
(* The page keeps handles into the bank's link table across removals that  *)
(* move links.  GuiDispatch::BtnEvent picks its branch once per scan of    *)
(* the keyboard and then hands over every key pressed in that scan, in the *)
(* order of the button ids.                                                *)
(***************************************************************************)
EXTENDS ModulationBank, Sequences

CONSTANT Steps   \* the encoder movements considered, EncoderEvent's dvalue

ASSUME StepsAssumption == Steps \subseteq Int

\* Button ids.  A modulator is named by the id of its button.
kDelete == 0
kOk     == 7
kBeating == 10   \* stands for the keys that only switch to another page
kMod4   == 14    \* stands for the keys that open a parameter's page
kReset4 == 33
kReset3 == 34
kReset2 == 35

Keys == {kDelete, kOk, kBeating, kMod4, kReset4, kReset3, kReset2} \cup Modulators

ASSUME KeysAssumption == Modulators \subseteq Nat

VARIABLES
  shown,       \* obj_ is paramModulations; otherwise it is another page
  target,      \* targetParam_
  list,        \* links_[0 .. numLinks_ - 1] of the page
  listPos,     \* listPos_
  overlays,    \* numOverlayObjs_; every overlay is modulatorChoose
  handle,      \* modulatorChoose.handle_: a slot of overlay_, or Null
  autoSwitch,  \* autoSwitchPage_
  branch,      \* the loop BtnEvent is in: "overlay", "pages", "page" or "idle"
  lastKey,     \* the id of the last key handed over in this scan, or -1
  presses,     \* history: keys handed over in this scan
  strayKey     \* history: a key was handed to overlay_[-1]

guiVars == <<shown, target, list, listPos, overlays, handle, autoSwitch,
             branch, lastKey, presses, strayKey>>
bankVars == <<links, numLinks, paramInfos, numParamInfos, modulationValue,
              freed, overrun>>
pageVars == <<vars, guiVars>>

-----------------------------------------------------------------------------
(***************************************************************************)
(* GuiDispatch: overlays, pages.                                           *)
(***************************************************************************)
\* Faulty variant: DisableAutoSwitchPage is missing.
OverlayLeavesSwitch ==
  /\ overlays' = overlays + 1
  /\ handle' = overlays
  /\ UNCHANGED autoSwitch

AddNewOverlay ==
  /\ overlays' = overlays + 1
  /\ handle' = overlays
  /\ autoSwitch' = FALSE

\* RemoveOverlay(handle_) and EnableAutoSwitchPage; newHandle is what the
\* handler leaves in handle_.
CloseOverlay(newHandle) ==
  /\ overlays' = overlays - 1
  /\ handle' = newHandle
  /\ autoSwitch' = TRUE

\* GetLinkOfParam writes the slots in ascending order.
IsListOf(s, S) ==
  /\ \A i, j \in DOMAIN s : i < j => s[i] < s[j]
  /\ {s[i] : i \in DOMAIN s} = S

\* EnterParamModulations, from a page that offers parameter p.
EnterParamModulations(p) ==
  /\ shown' = TRUE
  /\ target' = p
  /\ \E s \in [1 .. Cardinality(LinksOfParam(p)) -> LinksOfParam(p)] :
       IsListOf(s, LinksOfParam(p)) /\ list' = s
  /\ listPos' = 0

\* Faulty variant: the number of overlays is not looked at.
BranchAlwaysOverlay == "overlay"

\* GuiDispatch::BtnEvent hands over one key; the first of a scan fixes the
\* branch.
BranchNow == IF branch # "idle" THEN branch
             ELSE IF overlays > 0 THEN "overlay"
             ELSE IF autoSwitch THEN "pages" ELSE "page"

-----------------------------------------------------------------------------
(***************************************************************************)
(* ModulatorChoose::BtnEvent.                                              *)
(***************************************************************************)
\* DELETE goes back without a link.
ChooserDelete ==
  /\ CloseOverlay(Null)
  /\ UNCHANGED <<bankVars, list>>

\* A modulator key makes a link and shows it in the page; the limit and an
\* existing link only produce a message.  The overlay closes either way.
ChooserAdds(m) ==
  /\ AddNewLink(m, target)
  /\ list' = Append(list, numLinks)
  /\ CloseOverlay(handle)

ChooserRefused(m) ==
  /\ ~ CanAdd(m, target)
  /\ CloseOverlay(handle)
  /\ UNCHANGED <<bankVars, list>>

\* Every other key is ignored.
ChooserIgnores(k) ==
  /\ k # kDelete /\ k \notin Modulators
  /\ UNCHANGED <<bankVars, list, overlays, handle, autoSwitch>>

\* overlay_[numOverlayObjs_ - 1]->BtnEvent(e) after an earlier key of the same
\* scan closed the overlay.  The model says no more after that.
ChooserGone ==
  /\ overlays = 0
  /\ strayKey' = TRUE
  /\ UNCHANGED <<bankVars, list, overlays, handle, autoSwitch>>

OverlayKey(k) ==
  /\ \/ ChooserGone
     \/ /\ overlays > 0
        /\ \/ k = kDelete /\ ChooserDelete
           \/ k \in Modulators /\ (ChooserAdds(k) \/ ChooserRefused(k))
           \/ ChooserIgnores(k)
        /\ UNCHANGED strayKey
  /\ UNCHANGED <<shown, target, listPos>>

-----------------------------------------------------------------------------
(***************************************************************************)
(* ParamModulations::BtnEvent and EncoderEvent.                            *)
(***************************************************************************)
\* Faulty variants: the shown link is removed, and the last handle dropped; no
\* handle is dropped.
ShownIndex == listPos + 1
WholeList == list

\* The clamp after a deletion, for a list of n links.
Clamped(pos, n) == IF n = 0 THEN 0 ELSE IF pos >= n THEN n - 1 ELSE pos

\* std::swap works on a copy of the handle shown: what is removed is the last
\* link of the list.
DeletedIndex == Len(list)
ListLeft == SubSeq(list, 1, Len(list) - 1)

PageDelete ==
  /\ list # <<>>
  /\ RemoveLink(list[DeletedIndex])
  /\ list' = ListLeft
  /\ listPos' = Clamped(listPos, Len(list) - 1)
  /\ UNCHANGED <<shown, target, overlays, handle, autoSwitch>>

PageOk ==
  /\ AddNewOverlay
  /\ UNCHANGED <<bankVars, shown, target, list, listPos>>

ShownLink == list[listPos + 1]

\* The reset keys give the shown link its initial knobs, without the lock.
PageReset(k) ==
  /\ list # <<>>
  /\ links' = CASE k = kReset2 -> [links EXCEPT ![ShownLink].amount = 0]
                [] k = kReset3 -> [links EXCEPT ![ShownLink].enable = TRUE]
                [] k = kReset4 -> [links EXCEPT ![ShownLink].symmetric = FALSE]
  /\ UNCHANGED <<numLinks, paramInfos, numParamInfos, modulationValue, freed,
                 overrun, shown, target, list, listPos, overlays, handle,
                 autoSwitch>>

\* PagePreEvent: keys of other pages switch there, the rest go to the page.
LeavePage(k) ==
  /\ BranchNow = "pages"
  /\ k = kBeating \/ k \in Modulators
  /\ shown' = FALSE
  /\ UNCHANGED <<bankVars, target, list, listPos, overlays, handle, autoSwitch>>

OpenPage ==
  /\ ~ shown
  /\ \E p \in Params : EnterParamModulations(p)
  /\ UNCHANGED <<bankVars, overlays, handle, autoSwitch>>

PageKey(k) ==
  /\ \/ LeavePage(k)
     \/ k = kMod4 /\ OpenPage
     \/ /\ shown
        /\ \/ k = kOk /\ PageOk
           \/ k = kDelete /\ PageDelete
           \/ k \in {kReset2, kReset3, kReset4} /\ PageReset(k)
  /\ UNCHANGED strayKey

Press(k) ==
  /\ k > lastKey
  /\ branch' = BranchNow
  /\ IF BranchNow = "overlay" THEN OverlayKey(k) ELSE PageKey(k)
  /\ lastKey' = k
  /\ presses' = presses + 1

EndOfScan ==
  /\ branch # "idle"
  /\ branch' = "idle"
  /\ lastKey' = -1
  /\ presses' = 0
  /\ UNCHANGED <<bankVars, shown, target, list, listPos, overlays, handle,
                 autoSwitch, strayKey>>

\* EncoderEvent follows the keys; an open overlay swallows it.  Encoder 1 moves
\* through the list and wraps at both ends.
Scroll(d) ==
  /\ branch = "idle" /\ overlays = 0 /\ shown /\ list # <<>>
  /\ listPos' = (listPos + d) % Len(list)
  /\ UNCHANGED <<bankVars, shown, target, list, overlays, handle, autoSwitch,
                 branch, lastKey, presses, strayKey>>

\* Encoders 2 to 4 turn the knobs of the shown link.
Turn ==
  /\ branch = "idle" /\ overlays = 0 /\ shown /\ list # <<>>
  /\ EditLink(ShownLink)
  /\ UNCHANGED guiVars

-----------------------------------------------------------------------------
PageInit ==
  /\ Init
  /\ shown = FALSE
  /\ target = NoParam
  /\ list = <<>>
  /\ listPos = 0
  /\ overlays = 0
  /\ handle = Null
  /\ autoSwitch = TRUE
  /\ branch = "idle"
  /\ lastKey = -1
  /\ presses = 0
  /\ strayKey = FALSE

PageNext ==
  /\ ~ overrun /\ ~ strayKey
  /\ \/ \E k \in Keys : Press(k)
     \/ EndOfScan
     \/ \E d \in Steps : Scroll(d)
     \/ Turn

PageSpec == PageInit /\ [][PageNext]_pageVars

-----------------------------------------------------------------------------
(***************************************************************************)
(* Properties.                                                             *)
(***************************************************************************)
\* The handles the page holds are live links in ascending order.  RemoveLink
\* moves the bank's last link into the hole: only because the page removes its
\* own last link does no handle it keeps come to point at another link or
\* behind the table, and only because they ascend does AddLink stay in links_.
\* The cursor designates one of them as long as there is one.
HandlesLive ==
  /\ ~ overrun => /\ \A i \in DOMAIN list : list[i] \in Live
                  /\ \A i, j \in DOMAIN list : i < j => list[i] < list[j]
  /\ IF list = <<>> THEN listPos = 0 ELSE listPos \in 0 .. Len(list) - 1

\* Until the bank frees a slot, the page lists the links of its parameter, all
\* of them and no others, although its list is a snapshot that the handlers
\* bring up to date by hand while the bank moves links between slots.
PageShowsTarget ==
  ~ freed /\ ~ overrun /\ target # NoParam =>
    {list[i] : i \in DOMAIN list} = {i \in Live : links[i].asked = target}

\* At most one overlay is open, its handle is the one modulatorChoose holds,
\* and pages switch by themselves exactly while none is open.  An overlay thus
\* always has its page's handle to close it with.
OverlayModal ==
  /\ overlays \in {0, 1}
  /\ autoSwitch <=> overlays = 0
  /\ overlays = 1 => handle = 0 /\ target # NoParam

\* A key reaches overlay_[-1] only as the second press of one scan, when the
\* first one closed the overlay.
StrayKeyNeedsChord == strayKey => presses > 1 /\ branch = "overlay"

\* The overlay tells its user that DELETE goes back, and goes back itself when
\* a modulator is chosen: a key after that belongs to the page, not to it.
ChooserGoesBack == ~ strayKey
=============================================================================
