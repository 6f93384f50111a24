----------------------------- MODULE GuiProofs ------------------------------
(***************************************************************************)
(* The page of the modulations and its overlay, for every set of           *)
(* modulators and parameters and every table length.                       *)
(*                                                                         *)
(* The page writes into the bank through its handles, and the bank's       *)
(* invariant says what they mean: the proof carries both.  What makes them *)
(* inductive together is that the handles ascend, so that the link removed *)
(* is behind all that are kept, and that the link moved into its place, if *)
(* it is another one, is none of the page's.                               *)
(*                                                                         *)
(* The parameter pages keep their settings in range; that the loops of     *)
(* Tick fit every such setting is shown wave by wave and round by round.   *)
(***************************************************************************)
EXTENDS Gui, ModulationBankProofs, FiniteSetTheorems, FunctionTheorems, SequenceTheorems

PageTypes ==
  /\ target \in Params \cup {NoParam}
  /\ shown \in BOOLEAN /\ autoSwitch \in BOOLEAN /\ strayKey \in BOOLEAN
  /\ lastKey \in Int
  /\ presses \in Nat
  /\ branch \in {"overlay", "pages", "page", "idle"}

\* A page of the links is a page of a parameter.  OK opens an overlay below
\* the keys still to come, which cannot open a second one.
KeysInOrder ==
  /\ shown => target # NoParam
  /\ branch # "idle" => presses >= 1
  /\ branch \in {"pages", "page"} => overlays = 0 \/ lastKey >= kOk

LinksInv == IInv /\ list \in Seq(Nat) /\ HandlesLive /\ PageShowsTarget

ModalInv == PageTypes /\ OverlayModal /\ KeysInOrder /\ StrayKeyNeedsChord

PageInv == LinksInv /\ ModalInv

-----------------------------------------------------------------------------
(***************************************************************************)
(* What a step of the page does to the links and to its list of them.      *)
(***************************************************************************)
AddsLink(m) ==
  /\ overlays > 0
  /\ AddNewLink(m, target)
  /\ list' = Append(list, numLinks)
  /\ UNCHANGED <<target, listPos>>

Opens(p) ==
  /\ EnterParamModulations(p)
  /\ UNCHANGED bankVars

Scrolls(d) ==
  /\ list # <<>>
  /\ listPos' = (listPos + d) % Len(list)
  /\ UNCHANGED <<bankVars, list, target>>

TurnsKnob == list # <<>> /\ EditLink(ShownLink) /\ UNCHANGED guiVars

Stays == UNCHANGED <<bankVars, list, target, listPos>>

LEMMA KeyCases ==
  ASSUME NEW k \in Keys, Press(k)
  PROVE  \/ \E m \in Modulators : AddsLink(m)
         \/ PageDelete
         \/ k \in {kReset2, kReset3, kReset4} /\ PageReset(k)
         \/ \E p \in Params : Opens(p)
         \/ Stays
<1>1. CASE BranchNow = "overlay"
  <2>1. OverlayKey(k) /\ UNCHANGED <<target, listPos>>
    BY <1>1 DEF Press, OverlayKey
  <2>2. CASE ChooserGone
    BY <2>1, <2>2 DEF ChooserGone, Stays
  <2>3. CASE overlays > 0 /\ ChooserDelete
    BY <2>1, <2>3 DEF ChooserDelete, Stays
  <2>4. CASE overlays > 0 /\ k \in Modulators /\ ChooserAdds(k)
    BY <2>1, <2>4 DEF ChooserAdds, AddsLink
  <2>5. CASE overlays > 0 /\ ChooserRefused(k)
    BY <2>1, <2>5 DEF ChooserRefused, Stays
  <2>6. CASE overlays > 0 /\ ChooserIgnores(k)
    BY <2>1, <2>6 DEF ChooserIgnores, Stays
  <2> QED
    BY <2>1, <2>2, <2>3, <2>4, <2>5, <2>6 DEF OverlayKey
<1>2. CASE BranchNow # "overlay"
  <2>1. PageKey(k)
    BY <1>2 DEF Press
  <2>2. CASE LeavePage(k)
    BY <2>2 DEF LeavePage, Stays
  <2>3. CASE OpenPage
    BY <2>3 DEF OpenPage, Opens
  <2>4. CASE PageOk
    BY <2>4 DEF PageOk, Stays
  <2> QED
    BY <2>1, <2>2, <2>3, <2>4 DEF PageKey
<1> QED
  BY <1>1, <1>2

LEMMA PageCases ==
  ASSUME PageNext
  PROVE  /\ ~ overrun
         /\ \/ \E m \in Modulators : AddsLink(m)
            \/ PageDelete
            \/ \E k \in {kReset2, kReset3, kReset4} : PageReset(k)
            \/ \E p \in Params : Opens(p)
            \/ \E d \in Steps : Scrolls(d)
            \/ TurnsKnob
            \/ Stays
<1>1. CASE \E k \in Keys : Press(k)
  BY <1>1, KeyCases DEF PageNext
<1>2. CASE EndOfScan
  BY <1>2 DEF PageNext, EndOfScan, Stays
<1>3. CASE \E d \in Steps : Scroll(d)
  BY <1>3 DEF PageNext, Scroll, Scrolls
<1>4. CASE Turn
  BY <1>4 DEF PageNext, Turn, TurnsKnob
<1> QED
  BY <1>1, <1>2, <1>3, <1>4 DEF PageNext

-----------------------------------------------------------------------------
(***************************************************************************)
(* The overlay.                                                            *)
(***************************************************************************)
modalVars == <<shown, target, overlays, handle, autoSwitch, branch, lastKey,
               presses, strayKey>>

\* A key handed to the overlay closes it or changes nothing; behind a closed
\* one it is the second of its scan.
LEMMA OverlayKeyModal ==
  ASSUME ModalInv, ~ strayKey, NEW k \in Keys, Press(k), BranchNow = "overlay"
  PROVE  ModalInv'
<1>1. /\ branch' = "overlay" /\ lastKey' = k /\ presses' = presses + 1
      /\ UNCHANGED <<shown, target>>
      /\ OverlayKey(k)
  BY DEF Press, OverlayKey
<1>2. k \in Int
  BY KeysAssumption DEF KeysAssumption, Keys, kDelete, kOk, kBeating, kMod4,
                        kReset4, kReset3, kReset2
<1>3. presses \in Nat /\ overlays \in {0, 1}
  BY DEF ModalInv, PageTypes, OverlayModal
<1>4. CASE ChooserGone
  <2>1. branch # "idle"
    BY <1>4 DEF ChooserGone, BranchNow
  <2>2. presses' > 1
    BY <1>1, <1>3, <2>1 DEF ModalInv, KeysInOrder
  <2> QED
    BY <1>1, <1>2, <1>3, <1>4, <2>2
       DEF ChooserGone, ModalInv, PageTypes, OverlayModal, KeysInOrder,
           StrayKeyNeedsChord
<1>5. CASE overlays > 0 /\ UNCHANGED strayKey
           /\ \E h \in {Null, handle} : CloseOverlay(h)
  <2>1. overlays' = 0 /\ autoSwitch' = TRUE
    BY <1>3, <1>5 DEF CloseOverlay
  <2> QED
    BY <1>1, <1>2, <1>3, <1>5, <2>1
       DEF ModalInv, PageTypes, OverlayModal, KeysInOrder, StrayKeyNeedsChord
<1>6. CASE UNCHANGED strayKey /\ ChooserIgnores(k)
  BY <1>1, <1>2, <1>3, <1>6
     DEF ChooserIgnores, ModalInv, PageTypes, OverlayModal, KeysInOrder,
         StrayKeyNeedsChord
<1> QED
  BY <1>1, <1>4, <1>5, <1>6
     DEF OverlayKey, ChooserDelete, ChooserAdds, ChooserRefused

\* A key handed to a page opens no overlay above one that is open.
LEMMA PageKeyModal ==
  ASSUME ModalInv, ~ strayKey, NEW k \in Keys, Press(k), BranchNow # "overlay"
  PROVE  ModalInv'
<1>1. /\ branch' = BranchNow /\ lastKey' = k /\ presses' = presses + 1
      /\ k > lastKey
      /\ UNCHANGED strayKey
      /\ PageKey(k)
  BY DEF Press, PageKey
<1>2. k \in Int /\ lastKey \in Int /\ presses \in Nat /\ overlays \in {0, 1}
  BY KeysAssumption
     DEF KeysAssumption, Keys, kDelete, kOk, kBeating, kMod4, kReset4, kReset3,
         kReset2, ModalInv, PageTypes, OverlayModal
<1>3. BranchNow \in {"pages", "page"} /\ (overlays = 0 \/ lastKey >= kOk)
  BY <1>2 DEF BranchNow, ModalInv, PageTypes, KeysInOrder
<1>4. k > lastKey /\ (overlays = 0 \/ k > kOk)
  BY <1>1, <1>2, <1>3 DEF kOk
<1>5. presses' >= 1 /\ presses' \in Nat
  BY <1>1, <1>2
<1>6. CASE LeavePage(k)
  <2>1. shown' = FALSE /\ UNCHANGED <<target, overlays, handle, autoSwitch>>
    BY <1>6 DEF LeavePage
  <2>2. overlays' = 0 \/ lastKey' >= kOk
    BY <1>1, <1>2, <1>4, <2>1 DEF kOk
  <2>3. OverlayModal'
    BY <2>1 DEF ModalInv, OverlayModal
  <2>4. PageTypes' /\ StrayKeyNeedsChord'
    BY <1>1, <1>2, <1>3, <1>5, <2>1 DEF ModalInv, PageTypes, StrayKeyNeedsChord
  <2> QED
    BY <1>5, <2>1, <2>2, <2>3, <2>4 DEF ModalInv, KeysInOrder
<1>7. CASE OpenPage
  <2>1. /\ target' \in Params /\ shown' = TRUE
        /\ UNCHANGED <<overlays, handle, autoSwitch>>
    BY <1>7 DEF OpenPage, EnterParamModulations
  <2>2. target' # NoParam
    BY <2>1, ParamsAssumption DEF ParamsAssumption
  <2> QED
    BY <1>1, <1>2, <1>3, <1>4, <1>5, <2>1, <2>2
       DEF ModalInv, PageTypes, OverlayModal, KeysInOrder, StrayKeyNeedsChord, kOk
<1>8. CASE shown /\ k = kOk /\ PageOk
  <2>1. overlays = 0
    BY <1>2, <1>4, <1>8 DEF kOk
  <2>2. /\ overlays' = 1 /\ handle' = 0 /\ autoSwitch' = FALSE
        /\ UNCHANGED <<shown, target>>
    BY <2>1, <1>8 DEF PageOk, AddNewOverlay
  <2>3. target' # NoParam /\ OverlayModal'
    BY <1>8, <2>2 DEF ModalInv, KeysInOrder, OverlayModal
  <2>4. PageTypes' /\ StrayKeyNeedsChord'
    BY <1>1, <1>2, <1>3, <1>5, <2>2 DEF ModalInv, PageTypes, StrayKeyNeedsChord
  <2> QED
    BY <1>1, <1>5, <1>8, <2>3, <2>4 DEF ModalInv, KeysInOrder, kOk
<1>9. CASE PageDelete \/ PageReset(k)
  <2>1. UNCHANGED <<shown, target, overlays, handle, autoSwitch>>
    BY <1>9 DEF PageDelete, PageReset
  <2> QED
    BY <1>1, <1>2, <1>3, <1>4, <1>5, <2>1
       DEF ModalInv, PageTypes, OverlayModal, KeysInOrder, StrayKeyNeedsChord, kOk
<1> QED
  BY <1>1, <1>6, <1>7, <1>8, <1>9 DEF PageKey

LEMMA ModalStep == ModalInv /\ [PageNext]_pageVars => ModalInv'
<1> SUFFICES ASSUME ModalInv, [PageNext]_pageVars PROVE ModalInv'
  OBVIOUS
<1>1. ASSUME NEW k \in Keys, ~ strayKey, Press(k)
      PROVE  ModalInv'
  BY <1>1, OverlayKeyModal, PageKeyModal
<1>2. CASE ~ strayKey /\ EndOfScan
  BY <1>2 DEF EndOfScan, ModalInv, PageTypes, OverlayModal, KeysInOrder,
              StrayKeyNeedsChord
<1>3. CASE UNCHANGED modalVars
  BY <1>3 DEF modalVars, ModalInv, PageTypes, OverlayModal, KeysInOrder,
              StrayKeyNeedsChord
<1>4. CASE (\E d \in Steps : Scroll(d)) \/ Turn
  BY <1>3, <1>4 DEF Scroll, Turn, guiVars, modalVars
<1>5. CASE UNCHANGED pageVars
  BY <1>3, <1>5 DEF pageVars, guiVars, modalVars
<1> QED
  BY <1>1, <1>2, <1>4, <1>5 DEF PageNext

-----------------------------------------------------------------------------
(***************************************************************************)
(* The handles.                                                            *)
(***************************************************************************)
\* What the handles and the cursor are while the bank is sound.
LEMMA Handles ==
  ASSUME LinksInv, ~ overrun
  PROVE  /\ Len(list) \in Nat /\ DOMAIN list = 1 .. Len(list)
         /\ Live \subseteq Nat /\ numLinks \in Nat
         /\ \A i \in 1 .. Len(list) : list[i] \in Live
         /\ \A i, j \in 1 .. Len(list) : i < j => list[i] < list[j]
         /\ list = <<>> <=> Len(list) = 0
         /\ list # <<>> => listPos \in 0 .. Len(list) - 1 /\ ShownLink \in Live
         /\ list = <<>> => listPos = 0
<1>1. /\ Len(list) \in Nat /\ DOMAIN list = 1 .. Len(list)
      /\ list = <<>> <=> Len(list) = 0
  BY DEF LinksInv
<1>2. Live \subseteq Nat /\ numLinks \in Nat
  BY TablesAssumption DEF LinksInv, IInv, TablesTypeOK, Live
<1>3. list # <<>> => listPos \in 0 .. Len(list) - 1 /\ listPos + 1 \in 1 .. Len(list)
  BY <1>1 DEF LinksInv, HandlesLive
<1> QED
  BY <1>1, <1>2, <1>3 DEF LinksInv, HandlesLive, ShownLink

\* Only the links a step moves or makes, the list and the cursor matter.
LEMMA KnobsKeep ==
  ASSUME LinksInv, IInv', UNCHANGED <<numLinks, freed, overrun, list, listPos, target>>,
         \A i \in Live : links'[i].asked = links[i].asked
  PROVE  LinksInv'
<1>1. Live' = Live
  BY DEF Live
<1>2. HandlesLive'
  BY <1>1 DEF LinksInv, HandlesLive
<1>3. PageShowsTarget'
  BY <1>1 DEF LinksInv, PageShowsTarget
<1> QED
  BY <1>2, <1>3 DEF LinksInv

\* The reset keys write the knobs of a link that is live.
LEMMA ResetStep ==
  ASSUME LinksInv, ~ overrun, NEW k \in {kReset2, kReset3, kReset4}, PageReset(k)
  PROVE  LinksInv'
<1>1. ShownLink \in Live /\ list # <<>>
  BY Handles DEF PageReset
<1>2. /\ Live \subseteq Slots /\ Live' = Live /\ LiveInfos' = LiveInfos
      /\ UNCHANGED <<numLinks, paramInfos, numParamInfos, freed, overrun, list,
                     listPos, target>>
  <2>1. UNCHANGED <<numLinks, paramInfos, numParamInfos, freed, overrun, list,
                    listPos, target>>
    BY DEF PageReset
  <2>2. Live \subseteq Slots
    BY TablesAssumption DEF Live, Slots, LinksInv, IInv, TablesTypeOK
  <2> QED
    BY <2>1, <2>2 DEF Live, LiveInfos
<1> HIDE DEF ShownLink
<1>3. \/ links' = [links EXCEPT ![ShownLink].amount = 0]
      \/ links' = [links EXCEPT ![ShownLink].enable = TRUE]
      \/ links' = [links EXCEPT ![ShownLink].symmetric = FALSE]
  BY DEF PageReset, kReset2, kReset3, kReset4
<1>4. links \in [Slots -> Link]
  BY DEF LinksInv, IInv, TablesTypeOK
<1>5. /\ links' \in [Slots -> Link]
      /\ \A j \in Slots : /\ links'[j].source = links[j].source
                          /\ links'[j].asked = links[j].asked
                          /\ links'[j].info = links[j].info
  <2>1. ShownLink \in Slots
    BY <1>1, <1>2
  <2>2. CASE links' = [links EXCEPT ![ShownLink].amount = 0]
    BY <1>4, <2>1, <2>2, AmountsAssumption DEF Link
  <2>3. CASE links' = [links EXCEPT ![ShownLink].enable = TRUE]
    BY <1>4, <2>1, <2>3 DEF Link
  <2>4. CASE links' = [links EXCEPT ![ShownLink].symmetric = FALSE]
    BY <1>4, <2>1, <2>4 DEF Link
  <2> QED
    BY <1>3, <2>2, <2>3, <2>4
<1>6. IInv'
  <2>1. TablesTypeOK'
    BY <1>2, <1>5 DEF LinksInv, IInv, TablesTypeOK
  <2>2. LiveSound' /\ RegisteredOnce' /\ RoutesKept' /\ NoDuplicateLink'
    BY <1>2, <1>5
       DEF LinksInv, IInv, LiveSound, RegisteredOnce, RoutesKept, NoDuplicateLink,
           TargetOf
  <2> QED
    BY <2>1, <2>2 DEF IInv
<1> QED
  BY <1>2, <1>5, <1>6, KnobsKeep

LEMMA TurnStep ==
  ASSUME LinksInv, ~ overrun, TurnsKnob
  PROVE  LinksInv'
<1>1. ShownLink \in Live /\ EditLink(ShownLink)
  BY Handles DEF TurnsKnob
<1>2. UNCHANGED <<numLinks, freed, overrun, list, listPos, target>>
  BY DEF TurnsKnob, EditLink, guiVars
<1>3. IInv'
  BY <1>1, EditInv DEF LinksInv
<1> HIDE DEF ShownLink
<1>4. \A i \in Live : links'[i].asked = links[i].asked
  <2>1. Live \subseteq Slots /\ links \in [Slots -> Link]
    BY TablesAssumption DEF Live, Slots, LinksInv, IInv, TablesTypeOK
  <2> QED
    BY <1>1, <2>1 DEF EditLink, Link
<1> QED
  BY <1>2, <1>3, <1>4, KnobsKeep

LEMMA ScrollStep ==
  ASSUME LinksInv, ~ overrun, NEW d \in Steps, Scrolls(d)
  PROVE  LinksInv'
<1>1. /\ Len(list) \in Nat \ {0} /\ listPos \in 0 .. Len(list) - 1 /\ d \in Int
  BY Handles, StepsAssumption DEF StepsAssumption, Scrolls
<1>2. listPos' \in 0 .. Len(list) - 1
  <2>1. listPos + d \in Int /\ listPos' = (listPos + d) % Len(list)
    BY <1>1 DEF Scrolls
  <2> QED
    BY <1>1, <2>1
<1>3. UNCHANGED <<links, numLinks, freed, overrun, list, target>> /\ list # <<>>
  BY DEF Scrolls, bankVars
<1>4. IInv'
  BY UnchangedInv DEF LinksInv, Scrolls, bankVars
<1>5. HandlesLive'
  BY <1>2, <1>3 DEF LinksInv, HandlesLive, Live
<1>6. PageShowsTarget'
  BY <1>3 DEF LinksInv, PageShowsTarget, Live
<1> QED
  BY <1>3, <1>4, <1>5, <1>6 DEF LinksInv

\* A page that is opened copies the slots of the links to its parameter.
LEMMA OpenStep ==
  ASSUME LinksInv, ~ overrun, NEW p \in Params, Opens(p)
  PROVE  LinksInv'
<1> DEFINE L == LinksOfParam(p)
<1>1. UNCHANGED <<links, numLinks, paramInfos, numParamInfos, freed, overrun>>
  BY DEF Opens, bankVars
<1>2. IInv' /\ Live' = Live
  BY <1>1, UnchangedInv DEF LinksInv, Live
<1>3. L \subseteq Live /\ Live \subseteq Nat /\ Cardinality(L) \in Nat
  <2>1. IsFiniteSet(Live)
    BY Handles, FS_Interval DEF Live
  <2>2. L \subseteq Live
    BY DEF LinksOfParam
  <2>3. IsFiniteSet(L)
    BY <2>1, <2>2, FS_Subset
  <2>4. Cardinality(L) \in Nat
    BY <2>3, FS_CardinalityType
  <2> QED
    BY <2>2, <2>4, Handles
<1>4. /\ target' = p /\ listPos' = 0
      /\ list' \in [1 .. Cardinality(L) -> L]
      /\ IsListOf(list', L)
  BY DEF Opens, EnterParamModulations
<1> DEFINE n == Cardinality(L)
<1>5. L = {i \in Live : links[i].asked = p} \/ freed
  BY DEF LinksInv, IInv, RoutesKept, LinksOfParam
<1> HIDE DEF L, n
<1>6. n \in Nat /\ list' \in [1 .. n -> Nat] /\ \A i \in 1 .. n : list'[i] \in Live
  BY <1>3, <1>4 DEF n
<1>7. list' \in Seq(Nat) /\ Len(list') = n /\ DOMAIN list' = 1 .. n
  BY <1>6
<1>8. HandlesLive'
  <2>1. \A i, j \in DOMAIN list' : i < j => list'[i] < list'[j]
    BY <1>4 DEF IsListOf
  <2>2. IF list' = <<>> THEN listPos' = 0 ELSE listPos' \in 0 .. Len(list') - 1
    BY <1>4, <1>6, <1>7
  <2> QED
    BY <1>2, <1>6, <1>7, <2>1, <2>2 DEF HandlesLive
<1>9. PageShowsTarget'
  BY <1>1, <1>2, <1>4, <1>5 DEF IsListOf, PageShowsTarget
<1> QED
  BY <1>2, <1>7, <1>8, <1>9 DEF LinksInv

-----------------------------------------------------------------------------
(***************************************************************************)
(* Adding and removing.                                                    *)
(***************************************************************************)
\* AddNewLink places the link in the next slot or writes behind paramInfos_.
LEMMA AddedLink ==
  ASSUME IInv, NEW m \in Modulators, NEW p \in Params, AddNewLink(m, p)
  PROVE  /\ freed' = freed
         /\ ~ overrun' => /\ numLinks' = numLinks + 1
                          /\ Live' = Live \cup {numLinks}
                          /\ \A i \in Live : links'[i] = links[i]
                          /\ links'[numLinks].asked = p
<1>1. freed' = freed
  BY DEF AddNewLink
<1>2. LiveInfos \subseteq Slots
  BY TablesAssumption DEF LiveInfos, Slots, IInv, TablesTypeOK
<1>3. \/ overrun'
      \/ \E k \in Slots : PlaceLink(m, p, k)
  <2>1. CASE JoinParamInfo(m, p)
    BY <1>2, <2>1 DEF JoinParamInfo
  <2>2. CASE NewParamInfo(m, p)
    BY <2>2, TablesAssumption
       DEF NewParamInfo, FreshSlot, Slots, IInv, TablesTypeOK
  <2>3. CASE OverrunParamInfos(p)
    BY <2>3 DEF OverrunParamInfos
  <2> QED
    BY <2>1, <2>2, <2>3 DEF AddNewLink
<1>4. ASSUME NEW k \in Slots, PlaceLink(m, p, k)
      PROVE  /\ numLinks' = numLinks + 1
             /\ Live' = Live \cup {numLinks}
             /\ \A i \in Live : links'[i] = links[i]
             /\ links'[numLinks].asked = p
  BY <1>4, PlacedLink DEF AddNewLink, CanAdd, PlaceLink, IInv
<1> QED
  BY <1>1, <1>3, <1>4

\* The new link has the highest slot: its handle keeps the list ascending.
LEMMA AddStep ==
  ASSUME LinksInv, ModalInv, ~ overrun, NEW m \in Modulators, AddsLink(m)
  PROVE  LinksInv'
<1>1. target \in Params
  BY DEF AddsLink, ModalInv, PageTypes, OverlayModal
<1>2. IInv'
  BY <1>1, AddInv DEF LinksInv, AddsLink
<1>3. /\ freed' = freed
      /\ ~ overrun' => /\ numLinks' = numLinks + 1
                       /\ Live' = Live \cup {numLinks}
                       /\ \A i \in Live : links'[i] = links[i]
                       /\ links'[numLinks].asked = target
  BY <1>1, AddedLink DEF LinksInv, AddsLink
<1> DEFINE n == Len(list)
<1>4. /\ n \in Nat /\ DOMAIN list = 1 .. n /\ Live \subseteq Nat /\ numLinks \in Nat
      /\ \A i \in 1 .. n : list[i] \in Live
      /\ \A i, j \in 1 .. n : i < j => list[i] < list[j]
      /\ list = <<>> <=> n = 0
      /\ list # <<>> => listPos \in 0 .. n - 1
      /\ list = <<>> => listPos = 0
  BY Handles
<1>5. /\ list' \in Seq(Nat) /\ Len(list') = n + 1 /\ DOMAIN list' = 1 .. n + 1
      /\ \A i \in 1 .. n : list'[i] = list[i]
      /\ list'[n + 1] = numLinks
      /\ list' # <<>>
      /\ UNCHANGED <<target, listPos>>
  BY <1>4 DEF AddsLink, LinksInv
<1>6. \A i \in Live : i < numLinks
  BY <1>4 DEF Live
<1> HIDE DEF n
<1>7. HandlesLive'
  <2>1. ~ overrun' => \A i \in DOMAIN list' : list'[i] \in Live'
    BY <1>3, <1>4, <1>5
  <2>2. ASSUME NEW i \in 1 .. n + 1, NEW j \in 1 .. n + 1, i < j
        PROVE  list'[i] < list'[j]
    <3>1. i \in 1 .. n /\ list'[i] = list[i] /\ list[i] \in Live
      BY <1>4, <1>5, <2>2
    <3>2. CASE j = n + 1
      BY <1>5, <1>6, <3>1, <3>2
    <3>3. CASE j # n + 1
      BY <1>4, <1>5, <2>2, <3>1, <3>3
    <3> QED
      BY <3>2, <3>3
  <2>3. listPos' \in 0 .. Len(list') - 1
    BY <1>4, <1>5
  <2> QED
    BY <1>5, <2>1, <2>2, <2>3 DEF HandlesLive
<1>8. PageShowsTarget'
  <2> SUFFICES ASSUME ~ freed', ~ overrun', target' # NoParam
               PROVE  {list'[i] : i \in DOMAIN list'}
                        = {i \in Live' : links'[i].asked = target'}
    BY DEF PageShowsTarget
  <2>1. {list[i] : i \in 1 .. n} = {i \in Live : links[i].asked = target}
    BY <1>3, <1>4, <1>5 DEF LinksInv, PageShowsTarget
  <2>2. {list'[i] : i \in 1 .. n + 1} = {list[i] : i \in 1 .. n} \cup {numLinks}
    BY <1>4, <1>5
  <2>3. {i \in Live' : links'[i].asked = target}
          = {i \in Live : links[i].asked = target} \cup {numLinks}
    BY <1>3
  <2> QED
    BY <1>5, <2>1, <2>2, <2>3
<1> QED
  BY <1>2, <1>5, <1>7, <1>8 DEF LinksInv

\* The link removed has the highest slot of the list; the one moved into its
\* place, if it is another, is not in the list.
LEMMA DeleteStep ==
  ASSUME LinksInv, ~ overrun, PageDelete
  PROVE  LinksInv'
<1> DEFINE n == Len(list)
           r == list[n]
<1>1. /\ n \in Nat \ {0} /\ DOMAIN list = 1 .. n /\ Live \subseteq Nat
      /\ numLinks \in Nat
      /\ \A i \in 1 .. n : list[i] \in Live
      /\ \A i, j \in 1 .. n : i < j => list[i] < list[j]
      /\ listPos \in 0 .. n - 1
      /\ list \in Seq(Nat)
  BY Handles DEF PageDelete, LinksInv
<1>2. r \in Live /\ RemoveLink(r)
  BY <1>1 DEF PageDelete, DeletedIndex
<1>3. IInv'
  BY <1>2, RemoveInv DEF LinksInv
<1>4. /\ UNCHANGED target
      /\ list' = SubSeq(list, 1, n - 1)
      /\ listPos' = Clamped(listPos, n - 1)
  BY DEF PageDelete, ListLeft
<1>5. ~ freed' => ~ freed
  BY <1>2 DEF RemoveLink, KeepParamInfo, FreeParamInfo
<1>6. /\ numLinks' = numLinks - 1
      /\ numLinks - 1 \in Live
      /\ \A j \in Live' : /\ j \in Live
                          /\ j # numLinks - 1
                          /\ links'[j] = IF j = r THEN links[numLinks - 1]
                                                  ELSE links[j]
  BY <1>2, DroppedLink DEF LinksInv, IInv, RemoveLink
<1>7. /\ list' \in Seq(Nat) /\ Len(list') = n - 1 /\ DOMAIN list' = 1 .. n - 1
      /\ \A i \in 1 .. n - 1 : list'[i] = list[i]
      /\ list' = <<>> <=> n - 1 = 0
  <2> HIDE DEF n
  <2>1. \A i \in 1 .. n - 1 : list[i] \in Nat
    BY <1>1
  <2>2. /\ list' \in Seq(Nat)
        /\ Len(list') = IF 1 <= n - 1 THEN n - 1 - 1 + 1 ELSE 0
        /\ \A i \in 1 .. n - 1 - 1 + 1 : list'[i] = list[1 + i - 1]
    BY <1>1, <1>4, <2>1, SubSeqProperties
  <2>3. Len(list') = n - 1 /\ \A i \in 1 .. n - 1 : list'[i] = list[i]
    BY <1>1, <2>2
  <2> QED
    BY <1>1, <2>2, <2>3
<1>8. \A i \in 1 .. n - 1 : list[i] < r
  BY <1>1
<1>9. /\ \A i \in 1 .. n - 1 : list[i] \in Live'
      /\ \A j \in Live : j <= numLinks - 1
      /\ \A j \in Live : j < numLinks - 1 => j \in Live'
  <2>1. \A j \in Live : j <= numLinks - 1 /\ (j < numLinks - 1 => j \in Live')
    BY <1>1, <1>6 DEF Live
  <2>2. ASSUME NEW i \in 1 .. n - 1
        PROVE  list[i] \in Live'
    <3>1. list[i] \in Live /\ list[i] < r /\ list[i] \in Nat /\ r \in Nat
      BY <1>1, <1>2, <1>8
    <3>2. list[i] < numLinks - 1
      BY <1>1, <1>2, <2>1, <3>1
    <3> QED
      BY <2>1, <3>1, <3>2
  <2> QED
    BY <2>1, <2>2
<1> HIDE DEF n, r
<1>10. HandlesLive'
  <2>1. listPos' = IF n - 1 = 0 THEN 0 ELSE IF listPos >= n - 1 THEN n - 2 ELSE listPos
    BY <1>1, <1>4 DEF Clamped
  <2>2. IF list' = <<>> THEN listPos' = 0 ELSE listPos' \in 0 .. Len(list') - 1
    BY <1>1, <1>7, <2>1
  <2>3. \A i, j \in 1 .. n - 1 : i < j => list'[i] < list'[j]
    BY <1>1, <1>7
  <2> QED
    BY <1>7, <1>9, <2>2, <2>3 DEF HandlesLive
<1>11. PageShowsTarget'
  <2> SUFFICES ASSUME ~ freed', target # NoParam
               PROVE  {list[i] : i \in 1 .. n - 1}
                        = {j \in Live' : links'[j].asked = target}
    BY <1>4, <1>7 DEF PageShowsTarget
  <2>1. {list[i] : i \in 1 .. n} = {j \in Live : links[j].asked = target}
    BY <1>1, <1>5 DEF LinksInv, PageShowsTarget
  <2>2. ASSUME NEW i \in 1 .. n - 1
        PROVE  list[i] \in Live' /\ links'[list[i]].asked = target
    <3>1. list[i] \in Live' /\ list[i] # r /\ list[i] \in Nat
      BY <1>1, <1>2, <1>8, <1>9
    <3>2. links'[list[i]] = links[list[i]]
      BY <1>6, <3>1
    <3> QED
      BY <1>1, <2>1, <3>1, <3>2
  <2>3. ASSUME NEW j \in Live', links'[j].asked = target
        PROVE  \E i \in 1 .. n - 1 : j = list[i]
    <3>1. j \in Live /\ j # numLinks - 1
      BY <1>6
    <3>2. j # r
      <4> SUFFICES ASSUME j = r PROVE FALSE
        OBVIOUS
      <4>1. links[numLinks - 1].asked = target
        BY <1>6, <2>3
      <4>2. PICK i \in 1 .. n : list[i] = numLinks - 1
        BY <1>6, <2>1, <4>1
      <4>3. i = n \/ list[i] < r
        BY <1>1, <1>8
      <4>4. j < numLinks - 1
        BY <1>1, <1>9, <3>1
      <4> QED
        BY <1>1, <1>2, <4>2, <4>3, <4>4 DEF r
    <3>3. links[j].asked = target
      BY <1>6, <2>3, <3>2
    <3>4. PICK i \in 1 .. n : list[i] = j
      BY <2>1, <3>1, <3>3
    <3>5. i # n
      BY <3>2, <3>4 DEF r
    <3> QED
      BY <1>1, <3>4, <3>5
  <2> QED
    BY <2>2, <2>3
<1> QED
  BY <1>3, <1>7, <1>10, <1>11 DEF LinksInv

-----------------------------------------------------------------------------
(***************************************************************************)
(* The invariant, and what follows from it.                                *)
(***************************************************************************)
LEMMA StayStep ==
  ASSUME LinksInv, Stays
  PROVE  LinksInv'
<1>1. UNCHANGED <<links, numLinks, paramInfos, numParamInfos, freed, overrun,
                  list, target, listPos>>
  BY DEF Stays, bankVars
<1>2. IInv'
  BY <1>1, UnchangedInv DEF LinksInv
<1> QED
  BY <1>1, <1>2, KnobsKeep

LEMMA PageInitInv == PageInit => PageInv
<1> SUFFICES ASSUME PageInit PROVE PageInv
  OBVIOUS
<1>1. IInv
  BY InitInv DEF PageInit
<1>2. list \in Seq(Nat) /\ HandlesLive /\ PageShowsTarget
  BY DEF PageInit, HandlesLive, PageShowsTarget
<1>3. ModalInv
  <2>1. PageTypes
    <3>1. target = NoParam /\ branch = "idle" /\ lastKey = -1 /\ presses = 0
      BY DEF PageInit
    <3>2. shown = FALSE /\ autoSwitch = TRUE /\ strayKey = FALSE
      BY DEF PageInit
    <3>3. shown \in BOOLEAN /\ autoSwitch \in BOOLEAN /\ strayKey \in BOOLEAN
      BY <3>2
    <3> QED
      BY <3>1, <3>3 DEF PageTypes
  <2>2. OverlayModal /\ KeysInOrder /\ StrayKeyNeedsChord
    BY DEF PageInit, OverlayModal, KeysInOrder, StrayKeyNeedsChord
  <2> QED
    BY <2>1, <2>2 DEF ModalInv
<1> QED
  BY <1>1, <1>2, <1>3 DEF PageInv, LinksInv

THEOREM PageInvariance == PageSpec => []PageInv
<1>1. PageInv /\ [PageNext]_pageVars => PageInv'
  <2> SUFFICES ASSUME PageInv, [PageNext]_pageVars PROVE PageInv'
    OBVIOUS
  <2> USE DEF PageInv
  <2>1. ModalInv'
    BY ModalStep
  <2>2. CASE UNCHANGED pageVars
    BY <2>2, StayStep, <2>1 DEF pageVars, vars, guiVars, Stays, bankVars
  <2>3. CASE PageNext
    <3>1. ~ overrun
      BY <2>3, PageCases
    <3>2. LinksInv'
      BY <2>3, <3>1, PageCases, AddStep, DeleteStep, ResetStep, OpenStep,
         ScrollStep, TurnStep, StayStep
    <3> QED
      BY <2>1, <3>2
  <2> QED
    BY <2>2, <2>3
<1> QED
  BY <1>1, PageInitInv, PTL DEF PageSpec

-----------------------------------------------------------------------------
(***************************************************************************)
(* The parameter pages: whatever the encoders do, the settings stay in the *)
(* ranges the loops of Tick are written for.                               *)
(***************************************************************************)
\* The settings the pages leave.
SettingsOK ==
  /\ type \in OscillatorTypes
  /\ numPartials \in 2 .. MaxPartials /\ numPartials % 2 = 0
  /\ number \in 2 .. 6
  /\ parttern \in 2 .. MaxParttern

Partials == 0 .. numPartials - 1

LEMMA SettingsInit == ParamInit => SettingsOK
BY PartialsAssumption DEF PartialsAssumption, ParamInit, SettingsOK, OscillatorTypes, kFullSaw,
   kFullPulse

LEMMA SettingsStep == SettingsOK /\ [ParamNext]_paramVars => SettingsOK'
<1> SUFFICES ASSUME SettingsOK, [ParamNext]_paramVars PROVE SettingsOK'
  OBVIOUS
<1>0. /\ MaxPartials \in Nat /\ MaxPartials >= 2 /\ MaxPartials % 2 = 0
      /\ MaxParttern \in Nat /\ MaxParttern >= 2 /\ \A d \in Turns : d \in Int
  BY PartialsAssumption DEF PartialsAssumption
<1>1. CASE SwitchPage \/ SplitPage \/ SetEnable \/ UNCHANGED paramVars
  BY <1>1 DEF SwitchPage, SplitPage, SetEnable, paramVars, SettingsOK
<1>2. CASE SetType
  <2>1. type' \in 0 .. 7
    <3>1. ASSUME NEW d \in Turns
          PROVE  ClampUncheck(type + d, 0, 7) \in 0 .. 7
      <4> DEFINE v == type + d
      <4>1. v \in Int
        BY <1>0 DEF SettingsOK, OscillatorTypes, kFullSaw, kFullPulse
      <4> HIDE DEF v
      <4>2. ClampUncheck(v, 0, 7) \in 0 .. 7
        BY <4>1 DEF ClampUncheck
      <4> QED
        BY <4>2 DEF v
    <3> QED
      BY <1>2, <3>1 DEF SetType, kFullSaw, kFullPulse
  <2> QED
    BY <1>2, <2>1 DEF SetType, SettingsOK, OscillatorTypes, kFullSaw, kFullPulse
<1>3. CASE SetPartials
  <2>1. ASSUME NEW d \in Turns, NEW a \in BOOLEAN
        PROVE  PartialsTurned(d, a) \in 2 .. MaxPartials /\ PartialsTurned(d, a) % 2 = 0
    <3> DEFINE m == IF a THEN d * 2 * 8 ELSE d * 2
               v == numPartials + m
    <3>1. m \in Int /\ m % 2 = 0
      BY <1>0
    <3>2. v \in Int /\ v % 2 = 0
      <4> HIDE DEF m
      <4> QED
        BY <3>1 DEF SettingsOK
    <3>3. PartialsTurned(d, a) = ClampUncheck(v, 2, MaxPartials)
      BY DEF PartialsTurned, Moved
    <3> HIDE DEF v
    <3>4. /\ ClampUncheck(v, 2, MaxPartials) \in 2 .. MaxPartials
          /\ ClampUncheck(v, 2, MaxPartials) \in {2, MaxPartials, v}
      BY <1>0, <3>2 DEF ClampUncheck
    <3> QED
      BY <1>0, <3>2, <3>3, <3>4
  <2>2. numPartials' \in 2 .. MaxPartials /\ numPartials' % 2 = 0
    <3>1. \/ numPartials' = MaxPartials
          \/ \E d \in Turns, b \in BOOLEAN : numPartials' = PartialsTurned(d, b)
      <4> DEFINE S == {PartialsTurned(d, b) : d \in Turns, b \in BOOLEAN}
      <4>1. numPartials' \in {MaxPartials} \cup S
        BY <1>3 DEF SetPartials
      <4>2. \A x \in S : \E d \in Turns, b \in BOOLEAN : x = PartialsTurned(d, b)
        OBVIOUS
      <4> HIDE DEF S
      <4> QED
        BY <4>1, <4>2
    <3>2. CASE numPartials' = MaxPartials
      BY <1>0, <3>2
    <3>3. CASE \E d \in Turns, b \in BOOLEAN : numPartials' = PartialsTurned(d, b)
      BY <2>1, <3>3
    <3> QED
      BY <3>1, <3>2, <3>3
  <2> QED
    BY <1>3, <2>2 DEF SetPartials, SettingsOK
<1>4. CASE SetNumber
  <2>1. ASSUME NEW d \in Turns
        PROVE  ClampUncheck(number + d, 2, 6) \in 2 .. 6
    <3> DEFINE v == number + d
    <3>1. v \in Int
      BY <1>0 DEF SettingsOK
    <3> HIDE DEF v
    <3>2. ClampUncheck(v, 2, 6) \in 2 .. 6
      BY <3>1 DEF ClampUncheck
    <3> QED
      BY <3>2 DEF v
  <2>2. number' \in {2} \cup {ClampUncheck(number + d, 2, 6) : d \in Turns}
    BY <1>4 DEF SetNumber, Moved
  <2>3. number' \in 2 .. 6
    BY <2>1, <2>2
  <2> QED
    BY <1>4, <2>3 DEF SetNumber, SettingsOK
<1>5. CASE SetParttern
  <2>1. ASSUME NEW d \in Turns, NEW a \in BOOLEAN
        PROVE  Moved(parttern, d, a, altMul, 2, MaxParttern) \in 2 .. MaxParttern
    <3> DEFINE m == IF a THEN d * altMul ELSE d
    <3>1. m \in Int
      BY <1>0 DEF altMul
    <3> DEFINE v == parttern + m
    <3>2. v \in Int
      <4> HIDE DEF m
      <4> QED
        BY <1>0, <3>1 DEF SettingsOK
    <3>3. Moved(parttern, d, a, altMul, 2, MaxParttern) = ClampUncheck(v, 2, MaxParttern)
      BY DEF Moved
    <3> HIDE DEF v
    <3> QED
      BY <1>0, <3>2, <3>3 DEF ClampUncheck
  <2> QED
    BY <1>0, <1>5, <2>1 DEF SetParttern, SettingsOK
<1> QED
  BY <1>1, <1>2, <1>3, <1>4, <1>5 DEF ParamNext

-----------------------------------------------------------------------------
(***************************************************************************)
(* What the loops over the partials leave is a table with one entry for each *)
(* partial in use.  A table that a function gives has that form; each kind *)
(* of wave is shown to be one.                                             *)
(***************************************************************************)
\* What a loop that sets each partial once leaves: partial i has f[i].
Each(f) == {<<i, f[i]>> : i \in Partials}

LEMMA PartialsFinite ==
  ASSUME SettingsOK
  PROVE  /\ IsFiniteSet(Partials) /\ numPartials \in Nat /\ numPartials >= 2
         /\ MaxPartials \in Nat /\ numPartials <= MaxPartials
<1>1. numPartials \in Nat /\ numPartials >= 2 /\ MaxPartials \in Nat /\ numPartials <= MaxPartials
  BY PartialsAssumption DEF PartialsAssumption, SettingsOK
<1>2. 0 \in Int /\ numPartials - 1 \in Int
  BY <1>1
<1>3. IsFiniteSet(0 .. numPartials - 1)
  BY <1>2, FS_Interval
<1> QED
  BY <1>1, <1>3 DEF Partials

LEMMA EachAssigns ==
  ASSUME SettingsOK, NEW f
  PROVE  Assigns(Each(f), Partials)
<1> DEFINE g == [i \in Partials |-> <<i, f[i]>>]
<1>1. g \in Bijection(Partials, Each(f))
  <2>1. \A i \in Partials : g[i] = <<i, f[i]>> /\ g[i][1] = i
    OBVIOUS
  <2>2. g \in [Partials -> Each(f)]
    BY DEF Each
  <2>3. \A i, j \in Partials : g[i] = g[j] => i = j
    BY <2>1
  <2>4. \A y \in Each(f) : \E i \in Partials : g[i] = y
    BY DEF Each
  <2> HIDE DEF g
  <2> QED
    BY <2>2, <2>3, <2>4 DEF Bijection, Injection, Surjection, IsInjective
<1>2. ExistsBijection(Partials, Each(f))
  BY <1>1 DEF ExistsBijection
<1>3. Cardinality(Each(f)) = Cardinality(Partials)
  BY <1>2, PartialsFinite, FS_Bijection
<1>4. {x[1] : x \in Each(f)} = Partials
  <2>1. \A x \in Each(f) : x[1] \in Partials
    BY DEF Each
  <2>2. \A i \in Partials : \E x \in Each(f) : x[1] = i
    <3> SUFFICES ASSUME NEW i \in Partials PROVE \E x \in Each(f) : x[1] = i
      OBVIOUS
    <3>1. <<i, f[i]>> \in Each(f) /\ <<i, f[i]>>[1] = i
      BY DEF Each
    <3> QED
      BY <3>1
  <2> QED
    BY <2>1, <2>2
<1> QED
  BY <1>3, <1>4 DEF Assigns

\* A loop over pairs sets each partial once.
LEMMA PairsEach ==
  ASSUME SettingsOK, NEW a, NEW b, NEW f,
         \A i \in PairStarts : f[i] = a[i] /\ f[i + 1] = b[i]
  PROVE  Pairs(a, b) = Each(f)
<1> DEFINE n == numPartials
<1>1. n \in Nat /\ n % 2 = 0
  BY DEF SettingsOK
<1>2. /\ \A i : i \in PairStarts <=> i \in 0 .. n - 1 /\ i % 2 = 0
      /\ \A i : i \in Partials <=> i \in 0 .. n - 1
  BY DEF PairStarts, Partials
<1> HIDE DEF n
<1>3. \A i \in PairStarts : i \in Partials /\ i + 1 \in Partials
  BY <1>1, <1>2
<1>4. ASSUME NEW j \in Partials
      PROVE  j \in PairStarts \/ (j - 1 \in PairStarts /\ (j - 1) + 1 = j)
  BY <1>1, <1>2
<1>5. ASSUME NEW x \in Pairs(a, b)
      PROVE  x \in Each(f)
  <2>1. PICK i \in PairStarts : x = <<i, a[i]>> \/ x = <<i + 1, b[i]>>
    BY DEF Pairs
  <2>2. x = <<i, f[i]>> \/ x = <<i + 1, f[i + 1]>>
    BY <2>1
  <2> QED
    BY <1>3, <2>2 DEF Each
<1>6. ASSUME NEW x \in Each(f)
      PROVE  x \in Pairs(a, b)
  <2>1. PICK j \in Partials : x = <<j, f[j]>>
    BY DEF Each
  <2>2. CASE j \in PairStarts
    <3>1. x = <<j, a[j]>>
      BY <2>1, <2>2
    <3> QED
      BY <2>2, <3>1 DEF Pairs
  <2>3. CASE j - 1 \in PairStarts /\ (j - 1) + 1 = j
    <3> DEFINE i == j - 1
    <3>1. i \in PairStarts /\ i + 1 = j
      BY <2>3
    <3> HIDE DEF i
    <3>2. x = <<i + 1, b[i]>>
      BY <2>1, <3>1
    <3> QED
      BY <3>1, <3>2 DEF Pairs
  <2> QED
    BY <1>4, <2>2, <2>3
<1> QED
  BY <1>5, <1>6

\* The two tables of a wave agree.
LEMMA EachGain ==
  ASSUME NEW f, NEW g, NEW odd \in BOOLEAN,
         \A i \in Partials : g[i] = IF odd /\ i % 2 = 1 THEN f[i] ELSE f[i] - 1
  PROVE  Each(g) = {<<h[1], IF odd /\ h[1] % 2 = 1 THEN h[2] ELSE h[2] - 1>> : h \in Each(f)}
<1> DEFINE R(h) == <<h[1], IF odd /\ h[1] % 2 = 1 THEN h[2] ELSE h[2] - 1>>
<1>1. \A i \in Partials : R(<<i, f[i]>>) = <<i, g[i]>>
  OBVIOUS
<1>2. {R(h) : h \in Each(f)} = {R(<<i, f[i]>>) : i \in Partials}
  BY DEF Each
<1>3. {R(<<i, f[i]>>) : i \in Partials} = {<<i, g[i]>> : i \in Partials}
  BY <1>1
<1> QED
  BY <1>2, <1>3 DEF Each

\* A number dealt to one of m rounds, m being a number of oscillators.
LEMMA Dealing ==
  ASSUME NEW m \in 2 .. 6
  PROVE  /\ \A j \in Nat : /\ j \div m \in Nat /\ j \div m <= j /\ j % m \in 0 .. m - 1
                           /\ (j % m) + (j \div m) * m = j
         /\ \A i \in 0 .. m - 1 : \A k \in Nat : (i + k * m) \div m = k
<1>1. CASE m = 2
  BY <1>1
<1>2. CASE m = 3
  BY <1>2
<1>3. CASE m = 4
  BY <1>3
<1>4. CASE m = 5
  BY <1>4
<1>5. CASE m = 6
  BY <1>5
<1> QED
  BY <1>1, <1>2, <1>3, <1>4, <1>5

LEMMA DealtPartials ==
  ASSUME SettingsOK
  PROVE  /\ \A s \in Dealt : s[1] \in Partials /\ s[2] = s[1] \div number /\ s = <<s[1], s[2]>>
         /\ \A j \in Partials : <<j, j \div number>> \in Dealt
<1> DEFINE m == number
           n == numPartials
<1>1. m \in 2 .. 6 /\ n \in Nat
  BY PartialsFinite DEF SettingsOK
<1>2. \A x : x \in Dealt <=> \E i \in 0 .. m - 1, k \in 0 .. n - 1 :
                                x = <<i + k * m, k>> /\ i + k * m < n
  BY DEF Dealt, Strided
<1>3. Partials = 0 .. n - 1
  BY DEF Partials
<1> HIDE DEF m, n
<1>4. ASSUME NEW s \in Dealt
      PROVE  s[1] \in Partials /\ s[2] = s[1] \div m /\ s = <<s[1], s[2]>>
  <2>1. PICK i \in 0 .. m - 1, k \in 0 .. n - 1 : s = <<i + k * m, k>> /\ i + k * m < n
    BY <1>2
  <2>2. i \in Nat /\ k \in Nat /\ (i + k * m) \div m = k
    BY <1>1, Dealing
  <2> DEFINE j == i + k * m
  <2>3. j \in Nat
    BY <1>1, <2>2
  <2>4. s = <<j, k>> /\ j < n /\ j \div m = k
    BY <2>1, <2>2
  <2> HIDE DEF j
  <2> QED
    BY <1>1, <1>3, <2>3, <2>4
<1>5. ASSUME NEW j \in Partials
      PROVE  <<j, j \div m>> \in Dealt
  <2> DEFINE i == j % m
             k == j \div m
  <2>1. j \in Nat /\ j < n
    BY <1>1, <1>3
  <2>2. k \in Nat /\ k <= j /\ i \in 0 .. m - 1 /\ i + k * m = j
    BY <1>1, <2>1, Dealing
  <2> HIDE DEF i, k
  <2>3. k \in 0 .. n - 1
    BY <1>1, <2>1, <2>2
  <2>4. <<j, k>> \in Dealt
    BY <1>2, <2>1, <2>2, <2>3
  <2> QED
    BY <2>4 DEF k
<1> QED
  BY <1>4, <1>5 DEF m

\* Each wave sets each partial once, as h and g say.
WaveIs(h, g) ==
  /\ Harmonics = Each(h) /\ Gains = Each(g)
  /\ \A i \in Partials : g[i] \in Nat /\ g[i] < 2 * MaxPartials
  /\ type # kFullPulse =>
       \A i \in Partials : g[i] = IF type = kFullSquare /\ i % 2 = 1 THEN h[i] ELSE h[i] - 1

LEMMA TypesDiffer ==
  /\ OscillatorTypes = {kFullSaw, kDualSaw, kMultiSaw, kFullSquare, kDualSquare, kMultiSquare,
                        kPwmSquare, kFullPulse}
  /\ kFullSaw = 0 /\ kDualSaw = 1 /\ kMultiSaw = 2 /\ kFullSquare = 3 /\ kDualSquare = 4
  /\ kMultiSquare = 5 /\ kPwmSquare = 6 /\ kFullPulse = 7
BY DEF OscillatorTypes, kFullSaw, kDualSaw, kMultiSaw, kFullSquare, kDualSquare, kMultiSquare,
       kPwmSquare, kFullPulse

\* The numbers of the partials.
LEMMA PairNumbers ==
  ASSUME SettingsOK
  PROVE  /\ \A i \in Partials : i \in Nat /\ i < numPartials
         /\ \A i \in PairStarts : /\ i \in Nat /\ i % 2 = 0 /\ (i + 1) % 2 = 1
                                  /\ i \in Partials /\ i + 1 \in Partials
                                  /\ (i + 1) \div 2 = i \div 2
<1>1. numPartials \in Nat /\ numPartials % 2 = 0
  BY DEF SettingsOK
<1> QED
  BY <1>1 DEF Partials, PairStarts

LEMMA FullSawIs ==
  ASSUME SettingsOK, type = kFullSaw \/ type = kPwmSquare
  PROVE  \E h, g : WaveIs(h, g)
<1> DEFINE h == [i \in Partials |-> i + 1]
           g == [i \in Partials |-> i]
           a == [i \in PairStarts |-> i + 1]
           b == [i \in PairStarts |-> i + 2]
           c == [i \in PairStarts |-> i]
<1>1. Harmonics = Pairs(a, b)
  BY TypesDiffer DEF Harmonics
<1>2. Pairs(a, b) = Each(h)
  <2>1. \A i \in PairStarts : h[i] = a[i] /\ h[i + 1] = b[i]
    BY PairNumbers
  <2> HIDE DEF a, b, h
  <2> QED
    BY <2>1, PairsEach
<1>3. Gains = Each(g)
  <2>1. CASE type = kFullSaw
    <3>1. Gains = {<<i, i>> : i \in 0 .. numPartials - 1}
      BY <2>1, TypesDiffer DEF Gains
    <3> QED
      BY <3>1 DEF Each, Partials
  <2>2. CASE type = kPwmSquare
    <3>1. Gains = Pairs(c, a)
      BY <2>2, TypesDiffer DEF Gains
    <3>2. \A i \in PairStarts : g[i] = c[i] /\ g[i + 1] = a[i]
      BY PairNumbers
    <3> HIDE DEF a, c, g
    <3> QED
      BY <3>1, <3>2, PairsEach
  <2> QED
    BY <2>1, <2>2
<1>4. \A i \in Partials : /\ g[i] \in Nat /\ g[i] < 2 * MaxPartials
                          /\ g[i] = h[i] - 1
  BY PartialsFinite, PairNumbers
<1>5. WaveIs(h, g)
  BY <1>1, <1>2, <1>3, <1>4, TypesDiffer DEF WaveIs
<1> QED
  BY <1>5

LEMMA DualSawIs ==
  ASSUME SettingsOK, type = kDualSaw
  PROVE  \E h, g : WaveIs(h, g)
<1> DEFINE h == [i \in Partials |-> i \div 2 + 1]
           g == [i \in Partials |-> i \div 2]
           a == [i \in PairStarts |-> i \div 2 + 1]
           b == [i \in PairStarts |-> i \div 2]
<1>1. Harmonics = Pairs(a, a) /\ Gains = Pairs(b, b)
  BY TypesDiffer DEF Harmonics, Gains
<1>2. /\ \A i \in PairStarts : h[i] = a[i] /\ h[i + 1] = a[i]
      /\ \A i \in PairStarts : g[i] = b[i] /\ g[i + 1] = b[i]
  BY PairNumbers
<1>3. \A i \in Partials : /\ g[i] \in Nat /\ g[i] < 2 * MaxPartials
                          /\ g[i] = h[i] - 1
  BY PartialsFinite, PairNumbers
<1> HIDE DEF h, g, a, b
<1>4. Harmonics = Each(h) /\ Gains = Each(g)
  BY <1>1, <1>2, PairsEach
<1>5. WaveIs(h, g)
  BY <1>3, <1>4, TypesDiffer DEF WaveIs
<1> QED
  BY <1>5

LEMMA FullSquareIs ==
  ASSUME SettingsOK, type = kFullSquare
  PROVE  \E h, g : WaveIs(h, g)
<1> DEFINE h == [i \in Partials |-> 2 * i + 1]
           g == [i \in Partials |-> IF i % 2 = 1 THEN 2 * i + 1 ELSE 2 * i]
           a == [i \in PairStarts |-> 2 * i + 1]
           b == [i \in PairStarts |-> 2 * i + 3]
           c == [i \in PairStarts |-> 2 * i]
<1>1. Harmonics = Pairs(a, b) /\ Gains = Pairs(c, b)
  BY TypesDiffer DEF Harmonics, Gains
<1>2. /\ \A i \in PairStarts : h[i] = a[i] /\ h[i + 1] = b[i]
      /\ \A i \in PairStarts : g[i] = c[i] /\ g[i + 1] = b[i]
  BY PairNumbers
<1>3. \A i \in Partials : /\ g[i] \in Nat /\ g[i] < 2 * MaxPartials
                          /\ g[i] = IF i % 2 = 1 THEN h[i] ELSE h[i] - 1
  BY PartialsFinite, PairNumbers
<1> HIDE DEF h, g, a, b, c
<1>4. Harmonics = Each(h) /\ Gains = Each(g)
  BY <1>1, <1>2, PairsEach
<1>5. WaveIs(h, g)
  BY <1>3, <1>4, TypesDiffer DEF WaveIs
<1> QED
  BY <1>5

LEMMA DualSquareIs ==
  ASSUME SettingsOK, type = kDualSquare
  PROVE  \E h, g : WaveIs(h, g)
<1> DEFINE h == [i \in Partials |-> IF i % 2 = 1 THEN i ELSE i + 1]
           g == [i \in Partials |-> IF i % 2 = 1 THEN i - 1 ELSE i]
           a == [i \in PairStarts |-> i + 1]
           b == [i \in PairStarts |-> i]
<1>1. Harmonics = Pairs(a, a) /\ Gains = Pairs(b, b)
  BY TypesDiffer DEF Harmonics, Gains
<1>2. /\ \A i \in PairStarts : h[i] = a[i] /\ h[i + 1] = a[i]
      /\ \A i \in PairStarts : g[i] = b[i] /\ g[i + 1] = b[i]
  BY PairNumbers
<1>3. \A i \in Partials : /\ g[i] \in Nat /\ g[i] < 2 * MaxPartials
                          /\ g[i] = h[i] - 1
  <2> SUFFICES ASSUME NEW i \in Partials
               PROVE  g[i] \in Nat /\ g[i] < 2 * MaxPartials /\ g[i] = h[i] - 1
    BY Zenon
  <2>1. i \in Nat /\ i < MaxPartials /\ MaxPartials \in Nat
    BY PartialsFinite, PairNumbers
  <2>2. i % 2 = 1 => i >= 1
    BY <2>1
  <2> QED
    BY <2>1, <2>2
<1> HIDE DEF h, g, a, b
<1>4. Harmonics = Each(h) /\ Gains = Each(g)
  BY <1>1, <1>2, PairsEach
<1>5. WaveIs(h, g)
  BY <1>3, <1>4, TypesDiffer DEF WaveIs
<1> QED
  BY <1>5

LEMMA MultiSawIs ==
  ASSUME SettingsOK, type = kMultiSaw
  PROVE  \E h, g : WaveIs(h, g)
<1> DEFINE h == [i \in Partials |-> i \div number + 1]
           g == [i \in Partials |-> i \div number]
<1>1. Harmonics = {<<s[1], s[2] + 1>> : s \in Dealt} /\ Gains = Dealt
  BY TypesDiffer DEF Harmonics, Gains
<1>2. Dealt = Each(g)
  BY DealtPartials DEF Each
<1>3. {<<s[1], s[2] + 1>> : s \in Each(g)} = Each(h)
  <2> DEFINE R(s) == <<s[1], s[2] + 1>>
  <2>1. \A i \in Partials : R(<<i, g[i]>>) = <<i, h[i]>>
    OBVIOUS
  <2> HIDE DEF g, h
  <2>2. {R(s) : s \in Each(g)} = {R(<<i, g[i]>>) : i \in Partials}
    BY DEF Each
  <2>3. {R(<<i, g[i]>>) : i \in Partials} = {<<i, h[i]>> : i \in Partials}
    BY <2>1
  <2> QED
    BY <2>2, <2>3 DEF Each
<1>4. \A i \in Partials : /\ g[i] \in Nat /\ g[i] < 2 * MaxPartials
                          /\ g[i] = h[i] - 1
  <2>1. number \in 2 .. 6
    BY DEF SettingsOK
  <2>2. \A i \in Partials : i \div number \in Nat /\ i \div number <= i
    BY <2>1, PairNumbers, Dealing
  <2> QED
    BY <2>2, PartialsFinite, PairNumbers
<1>5. WaveIs(h, g)
  BY <1>1, <1>2, <1>3, <1>4, TypesDiffer DEF WaveIs
<1> QED
  BY <1>5

LEMMA MultiSquareIs ==
  ASSUME SettingsOK, type = kMultiSquare
  PROVE  \E h, g : WaveIs(h, g)
<1> DEFINE d == [i \in Partials |-> i \div number]
           h == [i \in Partials |-> 2 * (i \div number) + 1]
           g == [i \in Partials |-> 2 * (i \div number)]
<1>1. /\ Harmonics = {<<s[1], 2 * s[2] + 1>> : s \in Dealt}
      /\ Gains = {<<s[1], 2 * s[2]>> : s \in Dealt}
  BY TypesDiffer DEF Harmonics, Gains
<1>2. Dealt = Each(d)
  BY DealtPartials DEF Each
<1>3. {<<s[1], 2 * s[2] + 1>> : s \in Each(d)} = Each(h)
  <2> DEFINE R(s) == <<s[1], 2 * s[2] + 1>>
  <2>1. \A i \in Partials : R(<<i, d[i]>>) = <<i, h[i]>>
    OBVIOUS
  <2> HIDE DEF d, h
  <2>2. {R(s) : s \in Each(d)} = {R(<<i, d[i]>>) : i \in Partials}
    BY DEF Each
  <2>3. {R(<<i, d[i]>>) : i \in Partials} = {<<i, h[i]>> : i \in Partials}
    BY <2>1
  <2> QED
    BY <2>2, <2>3 DEF Each
<1>4. {<<s[1], 2 * s[2]>> : s \in Each(d)} = Each(g)
  <2> DEFINE R(s) == <<s[1], 2 * s[2]>>
  <2>1. \A i \in Partials : R(<<i, d[i]>>) = <<i, g[i]>>
    OBVIOUS
  <2> HIDE DEF d, g
  <2>2. {R(s) : s \in Each(d)} = {R(<<i, d[i]>>) : i \in Partials}
    BY DEF Each
  <2>3. {R(<<i, d[i]>>) : i \in Partials} = {<<i, g[i]>> : i \in Partials}
    BY <2>1
  <2> QED
    BY <2>2, <2>3 DEF Each
<1>5. \A i \in Partials : /\ g[i] \in Nat /\ g[i] < 2 * MaxPartials
                          /\ g[i] = h[i] - 1
  <2>1. number \in 2 .. 6
    BY DEF SettingsOK
  <2>2. \A i \in Partials : i \div number \in Nat /\ i \div number <= i
    BY <2>1, PairNumbers, Dealing
  <2> QED
    BY <2>2, PartialsFinite, PairNumbers
<1>6. WaveIs(h, g)
  BY <1>1, <1>2, <1>3, <1>4, <1>5, TypesDiffer DEF WaveIs
<1> QED
  BY <1>6

LEMMA FullPulseIs ==
  ASSUME SettingsOK, type = kFullPulse
  PROVE  \E h, g : WaveIs(h, g)
<1> DEFINE h == [i \in Partials |-> i + 1]
           g == [i \in Partials |-> 0]
<1>1. /\ Harmonics = {<<i, i + 1>> : i \in 0 .. numPartials - 1}
      /\ Gains = {<<i, 0>> : i \in 0 .. numPartials - 1}
  BY TypesDiffer DEF Harmonics, Gains
<1>2. Harmonics = Each(h) /\ Gains = Each(g)
  BY <1>1 DEF Each, Partials
<1>3. \A i \in Partials : g[i] \in Nat /\ g[i] < 2 * MaxPartials
  BY PartialsFinite
<1>4. WaveIs(h, g)
  BY <1>2, <1>3 DEF WaveIs
<1> QED
  BY <1>4

LEMMA WavesComplete == SettingsOK => WaveComplete
<1> SUFFICES ASSUME SettingsOK PROVE WaveComplete
  OBVIOUS
<1>1. \E h, g : WaveIs(h, g)
  BY TypesDiffer, FullSawIs, DualSawIs, FullSquareIs, DualSquareIs, MultiSawIs, MultiSquareIs,
     FullPulseIs DEF SettingsOK
<1>2. PICK h, g : WaveIs(h, g)
  BY <1>1
<1>3. Assigns(Harmonics, Partials) /\ Assigns(Gains, Partials)
  BY <1>2, EachAssigns DEF WaveIs
<1>4. \A x \in Gains : x[2] < 2 * MaxPartials
  BY <1>2 DEF WaveIs, Each
<1>5. ASSUME type # kFullPulse
      PROVE  Gains = {<<x[1], IF type = kFullSquare /\ x[1] % 2 = 1 THEN x[2] ELSE x[2] - 1>> :
                        x \in Harmonics}
  <2> DEFINE odd == type = kFullSquare
  <2>1. /\ odd \in BOOLEAN
        /\ \A i \in Partials : g[i] = IF odd /\ i % 2 = 1 THEN h[i] ELSE h[i] - 1
    BY <1>2, <1>5 DEF WaveIs
  <2>2. Harmonics = Each(h) /\ Gains = Each(g)
    BY <1>2 DEF WaveIs
  <2> HIDE DEF odd
  <2>3. Each(g) = {<<x[1], IF odd /\ x[1] % 2 = 1 THEN x[2] ELSE x[2] - 1>> : x \in Each(h)}
    BY <2>1, EachGain
  <2> QED
    BY <2>2, <2>3 DEF odd
<1> QED
  BY <1>3, <1>4, <1>5 DEF WaveComplete, Partials

-----------------------------------------------------------------------------
(***************************************************************************)
(* The patterns.  TreatedFrom and PhasedFrom are recursive: a function that *)
(* satisfies such an equation is shown to exist, the one that gives the upper *)
(* part of each round, and every one that does is it, by induction on the  *)
(* partials left.                                                          *)
(***************************************************************************)
\* A number is at least its product with a positive one.
LEMMA AtLeastOnce ==
  ASSUME NEW p \in Nat, NEW d \in Int, d >= 1
  PROVE  p * d >= p
<1>1. p * (d - 1) >= 0 /\ p * (d - 1) = p * d - p
  OBVIOUS
<1> QED
  BY <1>1

LEMMA Divided ==
  ASSUME NEW p \in Nat, p > 0, NEW x \in Nat
  PROVE  /\ x \div p \in Int /\ x % p \in 0 .. p - 1
         /\ x = p * (x \div p) + (x % p)
  OBVIOUS

\* One round less leaves the same remainder.
LEMMA RoundLess ==
  ASSUME NEW p \in Nat, p > 0, NEW x \in Nat
  PROVE  x % p = IF x < p THEN x ELSE (x - p) % p
<1>1. CASE x < p
  BY <1>1
<1>2. CASE x >= p
  <2> DEFINE q == x \div p
             r == x % p
             u == (x - p) \div p
             v == (x - p) % p
  <2>1. q \in Int /\ r \in 0 .. p - 1 /\ x = p * q + r
    BY Divided
  <2>2. u \in Int /\ v \in 0 .. p - 1 /\ x - p = p * u + v
    BY <1>2, Divided
  <2> HIDE DEF q, r, u, v
  <2>3. p * (q - (u + 1)) = v - r /\ p * ((u + 1) - q) = r - v
    BY <2>1, <2>2
  <2>4. q = u + 1
    <3>1. CASE q - (u + 1) >= 1
      BY <2>1, <2>2, <2>3, <3>1, AtLeastOnce
    <3>2. CASE (u + 1) - q >= 1
      BY <2>1, <2>2, <2>3, <3>2, AtLeastOnce
    <3> QED
      BY <2>1, <2>2, <3>1, <3>2
  <2>5. r = v
    BY <2>1, <2>2, <2>4
  <2> QED
    BY <1>2, <2>5 DEF r, v
<1> QED
  BY <1>1, <1>2

\* From round s on: the partials in the upper part of their round, and the
\* others.
UpperFrom(s) == {i \in s .. numPartials - 1 : (i - s) % parttern >= notApply}
LowerFrom(s) == {i \in s .. numPartials - 1 : (i - s) % parttern < notApply}

\* The parts of a round have at least one partial each.
LEMMA Parts ==
  ASSUME SettingsOK
  PROVE  /\ numPartials \in Nat /\ parttern \in Nat /\ notApply \in Nat /\ apply \in Nat
         /\ notApply >= 1 /\ apply >= 1 /\ notApply + apply = parttern
<1>1. numPartials \in Nat /\ parttern \in Nat /\ parttern >= 2
  BY PartialsAssumption DEF PartialsAssumption, SettingsOK
<1> QED
  BY <1>1 DEF notApply, apply

\* Where the round after the one at s starts.
NextRound(s) == IF s + parttern <= numPartials THEN s + parttern
                ELSE IF numPartials < s + notApply THEN s + notApply ELSE numPartials

LEMMA OneRound ==
  ASSUME SettingsOK, NEW s \in Nat, s < numPartials
  PROVE  /\ NextRound(s) \in Nat /\ NextRound(s) > s
         /\ UpperFrom(s) = ((s + notApply) .. Lesser(s + parttern, numPartials) - 1)
                              \cup UpperFrom(NextRound(s))
         /\ LowerFrom(s) = (s .. Lesser(s + notApply, numPartials) - 1)
                              \cup LowerFrom(NextRound(s))
<1> DEFINE n == numPartials
           p == parttern
           a == notApply
           t == NextRound(s)
<1>1. n \in Nat /\ p \in Nat /\ a \in Nat /\ 1 <= a /\ a < p
  BY Parts
<1>2. /\ \A i : i \in UpperFrom(s) <=> i \in s .. n - 1 /\ (i - s) % p >= a
      /\ \A i : i \in LowerFrom(s) <=> i \in s .. n - 1 /\ (i - s) % p < a
  BY DEF UpperFrom, LowerFrom
<1>3. /\ \A i : i \in UpperFrom(t) <=> i \in t .. n - 1 /\ (i - t) % p >= a
      /\ \A i : i \in LowerFrom(t) <=> i \in t .. n - 1 /\ (i - t) % p < a
  BY DEF UpperFrom, LowerFrom
<1>4. t = IF s + p <= n THEN s + p ELSE IF n < s + a THEN s + a ELSE n
  BY DEF NextRound
<1>5. ASSUME NEW i \in s .. n - 1
      PROVE  (i - s) % p = IF i - s < p THEN i - s ELSE ((i - s) - p) % p
  BY <1>1, <1>5, RoundLess
<1>6. /\ Lesser(s + p, n) = IF s + p <= n THEN s + p ELSE n
      /\ Lesser(s + a, n) = IF s + a <= n THEN s + a ELSE n
  BY DEF Lesser
<1> DEFINE U == UpperFrom(s)
           L == LowerFrom(s)
           V == UpperFrom(t)
           M == LowerFrom(t)
<1> HIDE DEF n, p, a, t, U, L, V, M
<1>7. CASE s + p <= n
  <2>1. ASSUME NEW i \in t .. n - 1
        PROVE  i \in s .. n - 1 /\ (i - s) % p = (i - t) % p
    <3>1. i \in s .. n - 1 /\ i - s >= p /\ (i - s) - p = i - t
      BY <1>1, <1>4, <1>7, <2>1
    <3>2. (i - s) % p = ((i - s) - p) % p
      BY <1>1, <1>5, <3>1
    <3> QED
      BY <3>1, <3>2
  <2>2. ASSUME NEW i \in s .. t - 1
        PROVE  i \in s .. n - 1 /\ (i - s) % p = i - s /\ i \notin t .. n - 1
    <3>1. i \in s .. n - 1 /\ i - s < p /\ i \notin t .. n - 1
      BY <1>1, <1>4, <1>7, <2>2
    <3> QED
      BY <1>1, <1>5, <3>1
  <2>3. \A i : i \in s .. n - 1 <=> i \in s .. t - 1 \/ i \in t .. n - 1
    BY <1>1, <1>4, <1>7
  <2>4. t = s + p
    BY <1>4, <1>7
  <2>5. U = ((s + a) .. t - 1) \cup V
    <3>1. ASSUME NEW i PROVE i \in U <=> i \in (s + a) .. t - 1 \/ i \in V
      <4>1. CASE i \in s .. t - 1
        BY <1>1, <1>2, <1>3, <2>2, <2>4, <4>1 DEF U, V
      <4>2. CASE i \in t .. n - 1
        BY <1>1, <1>2, <1>3, <2>1, <2>4, <4>2 DEF U, V
      <4>3. CASE i \notin s .. n - 1
        BY <1>1, <1>2, <1>3, <2>3, <2>4, <4>3 DEF U, V
      <4> QED
        BY <2>3, <4>1, <4>2, <4>3
    <3> QED
      BY <3>1
  <2>6. L = (s .. (s + a) - 1) \cup M
    <3>1. ASSUME NEW i PROVE i \in L <=> i \in s .. (s + a) - 1 \/ i \in M
      <4>1. CASE i \in s .. t - 1
        BY <1>1, <1>2, <1>3, <2>2, <2>4, <4>1 DEF L, M
      <4>2. CASE i \in t .. n - 1
        BY <1>1, <1>2, <1>3, <2>1, <2>4, <4>2 DEF L, M
      <4>3. CASE i \notin s .. n - 1
        BY <1>1, <1>2, <1>3, <2>3, <2>4, <4>3 DEF L, M
      <4> QED
        BY <2>3, <4>1, <4>2, <4>3
    <3> QED
      BY <3>1
  <2>7. t \in Nat /\ t > s
    BY <1>1, <2>4
  <2>8. U = ((s + a) .. Lesser(s + p, n) - 1) \cup V
    <3>1. Lesser(s + p, n) = t
      BY <1>6, <1>7, <2>4
    <3> QED
      BY <2>5, <3>1, Zenon
  <2>9. L = (s .. Lesser(s + a, n) - 1) \cup M
    <3>1. Lesser(s + a, n) = s + a
      BY <1>1, <1>6, <1>7
    <3> QED
      BY <2>6, <3>1, Zenon
  <2> QED
    BY <2>7, <2>8, <2>9, Zenon DEF n, p, a, t, U, L, V, M
<1>8. CASE n < s + p
  <2>1. t >= n /\ t \in Nat /\ t > s
    BY <1>1, <1>4, <1>8 DEF n
  <2>2. V = {} /\ M = {}
    <3>1. \A i : i \notin t .. n - 1
      BY <1>1, <2>1
    <3> QED
      BY <1>3, <3>1 DEF V, M
  <2>3. ASSUME NEW i \in s .. n - 1
        PROVE  (i - s) % p = i - s
    <3>1. i - s < p
      BY <1>1, <1>8
    <3> QED
      BY <1>5, <3>1
  <2>4. U = (s + a) .. n - 1
    <3>1. ASSUME NEW i PROVE i \in U <=> i \in (s + a) .. n - 1
      <4>1. CASE i \in s .. n - 1
        BY <1>1, <1>2, <2>3, <4>1 DEF U
      <4>2. CASE i \notin s .. n - 1
        BY <1>1, <1>2, <4>2 DEF U
      <4> QED
        BY <4>1, <4>2
    <3> QED
      BY <3>1
  <2> DEFINE e == Lesser(s + a, n)
  <2>e. e = IF s + a <= n THEN s + a ELSE n
    BY <1>6
  <2> HIDE DEF e
  <2>5. L = s .. e - 1
    <3>1. ASSUME NEW i PROVE i \in L <=> i \in s .. e - 1
      <4>1. CASE i \in s .. n - 1
        BY <1>1, <1>2, <2>3, <2>e, <4>1 DEF L
      <4>2. CASE i \notin s .. n - 1
        BY <1>1, <1>2, <2>e, <4>2 DEF L
      <4> QED
        BY <4>1, <4>2
    <3> QED
      BY <3>1
  <2>6. Lesser(s + p, n) = n
    BY <1>1, <1>6, <1>8
  <2> QED
    BY <2>1, <2>2, <2>4, <2>5, <2>6 DEF e, n, p, a, t, U, L, V, M
<1> QED
  BY <1>1, <1>7, <1>8

\* What a round from s on adds, f being what the later rounds have treated.
TreatedRound(f, s) ==
  IF s >= numPartials THEN {}
  ELSE LET first == s + notApply
           next  == Lesser(first + apply, numPartials)
       IN  (first .. next - 1) \cup f[IF next < first THEN first ELSE next]

PhasedRound(f, s) ==
  IF s >= numPartials THEN [left |-> {}, right |-> {}]
  ELSE LET middle == s + Lesser(notApply, numPartials - s)
           next   == middle + Lesser(apply, numPartials - middle)
       IN  [left  |-> (s .. middle - 1) \cup f[next].left,
            right |-> (middle .. next - 1) \cup f[next].right]

\* The round after a last one that is cut off in its lower part adds nothing.
LEMMA NoneBehind ==
  ASSUME SettingsOK, NEW s \in Nat, s >= numPartials
  PROVE  UpperFrom(s) = {} /\ LowerFrom(s) = {}
<1>1. \A i : i \notin s .. numPartials - 1
  BY Parts
<1> QED
  BY <1>1 DEF UpperFrom, LowerFrom

LEMMA TreatedStep ==
  ASSUME SettingsOK, NEW s \in Nat, s < numPartials, NEW f
  PROVE  TreatedRound(f, s) = ((s + notApply) .. Lesser(s + parttern, numPartials) - 1)
                                \cup f[NextRound(s)]
<1> DEFINE first == s + notApply
           next  == Lesser(first + apply, numPartials)
           after == IF next < first THEN first ELSE next
<1>1. TreatedRound(f, s) = (first .. next - 1) \cup f[after]
  BY Parts DEF TreatedRound
<1>2. first + apply = s + parttern
  BY Parts
<1>3. next = Lesser(s + parttern, numPartials)
  BY <1>2
<1>4. after = NextRound(s)
  <2> HIDE DEF next
  <2> QED
    BY Parts, <1>3 DEF Lesser, NextRound
<1> HIDE DEF after, next
<1> QED
  BY <1>1, <1>3, <1>4, Zenon

\* A phased round takes its last steps at the end of the partials.
PhaseNext(s) == Lesser(s + parttern, numPartials)

LEMMA PhasedStep ==
  ASSUME SettingsOK, NEW s \in Nat, s < numPartials, NEW f
  PROVE  /\ PhaseNext(s) \in Nat /\ PhaseNext(s) > s
         /\ PhasedRound(f, s) =
              [left  |-> (s .. Lesser(s + notApply, numPartials) - 1) \cup f[PhaseNext(s)].left,
               right |-> ((s + notApply) .. Lesser(s + parttern, numPartials) - 1)
                            \cup f[PhaseNext(s)].right]
         /\ UpperFrom(PhaseNext(s)) = UpperFrom(NextRound(s))
         /\ LowerFrom(PhaseNext(s)) = LowerFrom(NextRound(s))
<1> DEFINE middle == s + Lesser(notApply, numPartials - s)
           next   == middle + Lesser(apply, numPartials - middle)
           e == Lesser(s + notApply, numPartials)
           d == Lesser(s + parttern, numPartials)
<1>1. PhasedRound(f, s) = [left  |-> (s .. middle - 1) \cup f[next].left,
                           right |-> (middle .. next - 1) \cup f[next].right]
  BY Parts DEF PhasedRound
<1>2. middle = e
  BY Parts DEF Lesser
<1>3. next = d
  <2> HIDE DEF middle
  <2> QED
    BY <1>2, Parts DEF Lesser
<1>4. middle .. next - 1 = (s + notApply) .. d - 1
  <2>1. CASE s + notApply <= numPartials
    <3>1. middle = s + notApply
      BY <1>2, <2>1, Parts DEF Lesser
    <3> HIDE DEF middle, next, d
    <3> QED
      BY <1>3, <3>1
  <2>2. CASE s + notApply > numPartials
    <3>1. middle = numPartials /\ next = numPartials /\ d = numPartials
      BY <1>2, <1>3, <2>2, Parts DEF Lesser
    <3> HIDE DEF middle, next, d
    <3>2. \A i : i \notin middle .. next - 1 /\ i \notin (s + notApply) .. d - 1
      BY <2>2, <3>1, Parts
    <3> QED
      BY <3>2
  <2> QED
    BY Parts, <2>1, <2>2
<1>5. PhaseNext(s) = d
  BY DEF PhaseNext
<1>6. d \in Nat /\ d > s
  BY Parts DEF Lesser
<1>7. \/ d = NextRound(s)
      \/ d >= numPartials /\ NextRound(s) \in Nat /\ NextRound(s) >= numPartials
  BY Parts DEF Lesser, NextRound
<1> HIDE DEF middle, next, d, e
<1>8. UpperFrom(d) = UpperFrom(NextRound(s)) /\ LowerFrom(d) = LowerFrom(NextRound(s))
  BY <1>6, <1>7, NoneBehind
<1>9. PhasedRound(f, s) = [left  |-> (s .. e - 1) \cup f[d].left,
                           right |-> ((s + notApply) .. d - 1) \cup f[d].right]
  BY <1>1, <1>2, <1>3, <1>4, Zenon
<1> QED
  BY <1>5, <1>6, <1>8, <1>9 DEF d, e

\* The rounds from any one on treat the upper parts.
LEMMA TreatedIs ==
  ASSUME SettingsOK
  PROVE  \A s \in Nat : TreatedFrom[s] = UpperFrom(s)
<1> DEFINE F(f) == [s \in Nat |-> TreatedRound(f, s)]
           u == [s \in Nat |-> UpperFrom(s)]
           c == CHOOSE f : f = F(f)
<1>1. TreatedFrom = c
  BY Zenon DEF TreatedFrom, TreatedRound
<1>2. u = F(u)
  <2>1. ASSUME NEW s \in Nat
        PROVE  UpperFrom(s) = TreatedRound(u, s)
    <3>1. CASE s < numPartials
      <4>1. NextRound(s) \in Nat
        BY <3>1, OneRound
      <4>2. u[NextRound(s)] = UpperFrom(NextRound(s))
        BY <4>1
      <4> HIDE DEF u
      <4>3. TreatedRound(u, s) = ((s + notApply) .. Lesser(s + parttern, numPartials) - 1)
                                    \cup u[NextRound(s)]
        BY <3>1, TreatedStep
      <4> QED
        BY <3>1, <4>2, <4>3, OneRound
    <3>2. CASE s >= numPartials
      BY <3>2, NoneBehind DEF TreatedRound
    <3> QED
      BY <3>1, <3>2, Parts
  <2> QED
    BY <2>1
<1>3. c = F(c)
  <2> HIDE DEF F, u
  <2> QED
    BY <1>2
<1> HIDE DEF c, u
<1>4. \A s \in Nat : c[s] = TreatedRound(c, s)
  BY <1>3
<1> HIDE DEF F
<1> DEFINE N == {k \in Nat : \A s \in Nat : s + k >= numPartials => c[s] = UpperFrom(s)}
<1>5. 0 \in N
  <2>1. ASSUME NEW s \in Nat, s >= numPartials
        PROVE  c[s] = UpperFrom(s)
    BY <1>4, <2>1, NoneBehind DEF TreatedRound
  <2> QED
    BY <2>1
<1>6. ASSUME NEW k \in Nat, k \in N
      PROVE  k + 1 \in N
  <2>1. ASSUME NEW s \in Nat, s + (k + 1) >= numPartials
        PROVE  c[s] = UpperFrom(s)
    <3>1. CASE s < numPartials
      <4>1. NextRound(s) \in Nat /\ NextRound(s) > s
        BY <3>1, OneRound
      <4>2. NextRound(s) + k >= numPartials
        BY <2>1, <4>1, Parts
      <4>3. c[NextRound(s)] = UpperFrom(NextRound(s))
        BY <1>6, <4>1, <4>2
      <4>4. TreatedRound(c, s) = ((s + notApply) .. Lesser(s + parttern, numPartials) - 1)
                                    \cup c[NextRound(s)]
        BY <3>1, TreatedStep
      <4> QED
        BY <1>4, <3>1, <4>3, <4>4, OneRound
    <3>2. CASE s >= numPartials
      BY <1>4, <3>2, NoneBehind DEF TreatedRound
    <3> QED
      BY <3>1, <3>2, Parts
  <2> QED
    BY <2>1
<1> HIDE DEF N
<1>7. numPartials \in N
  BY <1>5, <1>6, Induction, Parts
<1>8. \A s \in Nat : s + numPartials >= numPartials
  BY Parts
<1> QED
  BY <1>1, <1>7, <1>8 DEF N

\* The rounds from any one on give each partial its side.
LEMMA PhasedIs ==
  ASSUME SettingsOK
  PROVE  \A s \in Nat : PhasedFrom[s] = [left |-> LowerFrom(s), right |-> UpperFrom(s)]
<1> DEFINE F(f) == [s \in Nat |-> PhasedRound(f, s)]
           u == [s \in Nat |-> [left |-> LowerFrom(s), right |-> UpperFrom(s)]]
           c == CHOOSE f : f = F(f)
<1>1. PhasedFrom = c
  BY Zenon DEF PhasedFrom, PhasedRound
<1>s. ASSUME NEW f, NEW s \in Nat, s < numPartials,
             f[PhaseNext(s)] = [left  |-> LowerFrom(PhaseNext(s)),
                                right |-> UpperFrom(PhaseNext(s))]
      PROVE  PhasedRound(f, s) = [left |-> LowerFrom(s), right |-> UpperFrom(s)]
  <2>1. /\ f[PhaseNext(s)].left = LowerFrom(NextRound(s))
        /\ f[PhaseNext(s)].right = UpperFrom(NextRound(s))
    BY <1>s, PhasedStep
  <2>2. PhasedRound(f, s) =
          [left  |-> (s .. Lesser(s + notApply, numPartials) - 1) \cup f[PhaseNext(s)].left,
           right |-> ((s + notApply) .. Lesser(s + parttern, numPartials) - 1)
                        \cup f[PhaseNext(s)].right]
    BY <1>s, PhasedStep
  <2>3. /\ UpperFrom(s) = ((s + notApply) .. Lesser(s + parttern, numPartials) - 1)
                             \cup UpperFrom(NextRound(s))
        /\ LowerFrom(s) = (s .. Lesser(s + notApply, numPartials) - 1)
                             \cup LowerFrom(NextRound(s))
    BY <1>s, OneRound
  <2> QED
    BY <2>1, <2>2, <2>3, Zenon
<1>e. ASSUME NEW f, NEW s \in Nat, s >= numPartials
      PROVE  PhasedRound(f, s) = [left |-> LowerFrom(s), right |-> UpperFrom(s)]
  BY <1>e, NoneBehind DEF PhasedRound
<1>2. u = F(u)
  <2>1. ASSUME NEW s \in Nat
        PROVE  PhasedRound(u, s) = [left |-> LowerFrom(s), right |-> UpperFrom(s)]
    <3>1. CASE s < numPartials
      <4>1. PhaseNext(s) \in Nat
        BY <3>1, PhasedStep
      <4>2. u[PhaseNext(s)] = [left  |-> LowerFrom(PhaseNext(s)),
                               right |-> UpperFrom(PhaseNext(s))]
        BY <4>1, Zenon
      <4> HIDE DEF u
      <4> QED
        BY <1>s, <3>1, <4>2
    <3>2. CASE s >= numPartials
      <4> HIDE DEF u
      <4> QED
        BY <1>e, <3>2
    <3> QED
      BY <3>1, <3>2, Parts
  <2> QED
    BY <2>1
<1>3. c = F(c)
  <2> HIDE DEF F, u
  <2> QED
    BY <1>2
<1> HIDE DEF c, u
<1>4. \A s \in Nat : c[s] = PhasedRound(c, s)
  BY <1>3
<1> HIDE DEF F
<1> DEFINE P(s) == c[s] = [left |-> LowerFrom(s), right |-> UpperFrom(s)]
           N == {k \in Nat : \A s \in Nat : s + k >= numPartials => P(s)}
<1>5. 0 \in N
  <2>1. ASSUME NEW s \in Nat, s >= numPartials
        PROVE  P(s)
    BY <1>4, <1>e, <2>1
  <2> HIDE DEF P
  <2> QED
    BY <2>1
<1>6. ASSUME NEW k \in Nat, k \in N
      PROVE  k + 1 \in N
  <2>1. ASSUME NEW s \in Nat, s + (k + 1) >= numPartials
        PROVE  P(s)
    <3>1. CASE s < numPartials
      <4>1. PhaseNext(s) \in Nat /\ PhaseNext(s) > s
        BY <3>1, PhasedStep
      <4>2. PhaseNext(s) + k >= numPartials
        BY <2>1, <4>1, Parts
      <4>3. P(PhaseNext(s))
        <5> HIDE DEF P
        <5> QED
          BY <1>6, <4>1, <4>2
      <4> QED
        BY <1>4, <1>s, <3>1, <4>3
    <3>2. CASE s >= numPartials
      BY <1>4, <1>e, <3>2
    <3> QED
      BY <3>1, <3>2, Parts
  <2> HIDE DEF P
  <2> QED
    BY <2>1
<1> HIDE DEF N, P
<1>7. numPartials \in N
  BY <1>5, <1>6, Induction, Parts
<1>8. \A s \in Nat : s + numPartials >= numPartials
  BY Parts
<1>9. \A s \in Nat : P(s)
  BY <1>7, <1>8 DEF N
<1> QED
  BY <1>1, <1>9 DEF P

LEMMA PatternsSplit == SettingsOK => PatternSplits
<1> SUFFICES ASSUME SettingsOK PROVE PatternSplits
  OBVIOUS
<1> DEFINE Upper == {i \in 0 .. numPartials - 1 : i % parttern >= parttern \div 2}
<1>1. \A i \in 0 .. numPartials - 1 : i - 0 = i /\ i % parttern \in Int
  BY Parts
<1>2. parttern \div 2 = notApply /\ notApply \in Nat
  BY Parts DEF notApply
<1>3. UpperFrom(0) = Upper
  BY <1>1, <1>2 DEF UpperFrom
<1>4. LowerFrom(0) = (0 .. numPartials - 1) \ Upper
  BY <1>1, <1>2 DEF LowerFrom
<1>5. /\ TreatedFrom[0] = Upper
      /\ PhasedFrom[0] = [left |-> (0 .. numPartials - 1) \ Upper, right |-> Upper]
  BY <1>3, <1>4, TreatedIs, PhasedIs
<1> HIDE DEF Upper
<1>6. IF section = "oscPhase"
      THEN PhasedFrom[0] = [left |-> (0 .. numPartials - 1) \ Upper, right |-> Upper]
      ELSE TreatedFrom[0] = Upper
  BY <1>5, Zenon
<1> QED
  BY <1>6 DEF PatternSplits, Upper

-----------------------------------------------------------------------------
(***************************************************************************)
(* The theorems of the panel.                                              *)
(***************************************************************************)
\* The parameter pages leave the page of the modulations as it was: what is
\* proved of it holds of the whole panel.
THEOREM GuiRefinesPage == GuiSpec => PageSpec
<1>1. GuiInit => PageInit
  BY DEF GuiInit
<1>2. [GuiNext]_allGuiVars => [PageNext]_pageVars
  BY DEF GuiNext, LinksStep, ParamStep, allGuiVars
<1> QED
  BY <1>1, <1>2, PTL DEF GuiSpec, PageSpec

\* The handles of the page are live links, in ascending order, and the cursor
\* is at one of them, however the bank moves its links.
THEOREM HandlesLiveHolds == GuiSpec => []HandlesLive
<1>1. PageInv => HandlesLive
  BY DEF PageInv, LinksInv
<1> QED
  BY <1>1, PageInvariance, GuiRefinesPage, PTL

\* Until the bank frees a slot, the page lists the links of its parameter.
THEOREM PageShowsTargetHolds == GuiSpec => []PageShowsTarget
<1>1. PageInv => PageShowsTarget
  BY DEF PageInv, LinksInv
<1> QED
  BY <1>1, PageInvariance, GuiRefinesPage, PTL

\* At most one overlay is open, whatever keys come in one scan, and pages
\* switch exactly while none is.
THEOREM OverlayModalHolds == GuiSpec => []OverlayModal
<1>1. PageInv => OverlayModal
  BY DEF PageInv, ModalInv
<1> QED
  BY <1>1, PageInvariance, GuiRefinesPage, PTL

\* A key goes to overlay_[-1] only as the second of a scan.
THEOREM StrayKeyNeedsChordHolds == GuiSpec => []StrayKeyNeedsChord
<1>1. PageInv => StrayKeyNeedsChord
  BY DEF PageInv, ModalInv
<1> QED
  BY <1>1, PageInvariance, GuiRefinesPage, PTL

THEOREM ParamInvariance == ParamSpec => []SettingsOK
BY SettingsInit, SettingsStep, PTL DEF ParamSpec

\* The page of the modulations leaves the settings of the sound as they were.
THEOREM GuiRefinesParam == GuiSpec => ParamSpec
<1>1. GuiInit => ParamInit
  BY DEF GuiInit
<1>2. [GuiNext]_allGuiVars => [ParamNext]_paramVars
  BY DEF GuiNext, LinksStep, ParamStep, allGuiVars
<1> QED
  BY <1>1, <1>2, PTL DEF GuiSpec, ParamSpec

\* OscillatorProcessing gives each partial in use one harmonic and one gain,
\* behind none of the tables, for every kind of wave and all the numbers of
\* partials and oscillators the pages can set.
THEOREM WaveCompleteHolds == GuiSpec => []WaveComplete
BY ParamInvariance, GuiRefinesParam, WavesComplete, PTL

\* RatioProcessing and BeatingProcessing treat the upper part of each pattern,
\* and PhaseProcessing draws a phase for each partial once, however the pattern
\* fits the number of partials.
THEOREM PatternSplitsHolds == GuiSpec => []PatternSplits
BY ParamInvariance, GuiRefinesParam, PatternsSplit, PTL
=============================================================================
