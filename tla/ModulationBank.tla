--------------------------- MODULE ModulationBank ---------------------------
(***************************************************************************)
(* dsp::ModulationBank: the table of modulation links of the synthesizer.  *)
(*                                                                         *)
(* A link routes one modulator (an LFO or an envelope) to one parameter.   *)
(* It does not point at its parameter: it points at a slot of a second     *)
(* table, paramInfos, which registers each modulated parameter once and    *)
(* counts its links.  Both tables keep their live entries in a prefix and  *)
(* delete by swapping with the last one.  Pointers into the tables are     *)
(* slot numbers here, nullptr is Null.                                     *)
(***************************************************************************)
EXTENDS Integers, FiniteSets, FiniteSetsExt

CONSTANTS
  Modulators,      \* the modulator outputs a link can read
  Params,          \* the parameters a link can target
  MaxModulations,  \* kMaxNumModulations, the length of both tables (16)
  CountModulus,    \* 2^32, the range of the uint32_t ParamRegInfo::numLinks
  Amounts,         \* the link amounts considered, in units of One
  Switches,        \* the positions the GUI gives to a link's two switches
  One,             \* the fixed-point image of 1.0f
  NoParam,         \* the null FloatParamDesc pointer of an unused slot
  NoModulator      \* the default ModulatorDesc of an unused slot

ASSUME TablesAssumption == MaxModulations \in Nat \ {0}
\* Links that lost their slot can count one down a few times each, which is
\* far less than the range of the counts.
ASSUME CountAssumption  ==
  CountModulus \in Nat /\ CountModulus > MaxModulations * MaxModulations + 1
ASSUME ParamsAssumption == IsFiniteSet(Params) /\ NoParam \notin Params
ASSUME ModulatorsAssumption == NoModulator \notin Modulators
ASSUME AmountsAssumption ==
  /\ One \in Nat \ {0}
  /\ 0 \in Amounts
  /\ Amounts \subseteq -One .. One
  /\ Switches \subseteq BOOLEAN

VARIABLES
  links,            \* links_
  numLinks,         \* numLinks_
  paramInfos,       \* paramInfos_
  numParamInfos,    \* numParamInfos_
  modulationValue,  \* FloatParamDesc::modulationValue of every parameter
  freed,            \* history: RemoveParamRegInfo has run
  overrun           \* history: a slot behind the end of paramInfos_ was written

vars == <<links, numLinks, paramInfos, numParamInfos, modulationValue,
          freed, overrun>>

-----------------------------------------------------------------------------
Slots     == 0 .. MaxModulations - 1
Null      == -1
Live      == 0 .. numLinks - 1
LiveInfos == 0 .. numParamInfos - 1

\* asked is a history field: the parameter AddNewLink was called with.
Link == [source : Modulators \cup {NoModulator}, info : Slots \cup {Null},
         enable : BOOLEAN, symmetric : BOOLEAN, amount : Amounts,
         asked : Params \cup {NoParam}]
ParamRegInfo == [param : Params \cup {NoParam}, numLinks : 0 .. CountModulus - 1]

EmptyLink == [source |-> NoModulator, info |-> Null, enable |-> FALSE,
              symmetric |-> FALSE, amount |-> 0, asked |-> NoParam]
EmptyInfo == [param |-> NoParam, numLinks |-> 0]

Swap(table, i, j) == [table EXCEPT ![i] = table[j], ![j] = table[i]]

IsFirst(i, S) == i \in S /\ \A j \in S : i <= j

-----------------------------------------------------------------------------
(***************************************************************************)
(* Lookups.                                                                *)
(***************************************************************************)
\* links_[i].targetParamInfo->paramReg
TargetOf(i) == paramInfos[links[i].info].param

\* The slots GetLink stops at: it returns the first, or nullptr.
Matching(s, p) == {i \in Live : links[i].source = s /\ TargetOf(i) = p}
GetLink(s, p) == IF Matching(s, p) = {} THEN Null ELSE Min(Matching(s, p))

\* The slots GetLinkOfParam writes to the caller's buffer, in this order.
LinksOfParam(p) == {i \in Live : TargetOf(i) = p}

\* Faulty variants, for the mutants of PROJECT.json only: the search starts
\* behind the first slot; it does not compare; it finds nothing.
RegisteredPastFirst(p) == {k \in LiveInfos \ {0} : paramInfos[k].param = p}
RegisteredAnywhere(p) == LiveInfos
RegisteredNowhere(p) == {}

\* The slots TryAddNewParamRegInfo stops at.
Registered(p) == {k \in LiveInfos : paramInfos[k].param = p}

-----------------------------------------------------------------------------
(***************************************************************************)
(* AddNewLink.  With a full table, or when the link exists, it returns     *)
(* without touching the bank: those calls are stuttering steps.            *)
(***************************************************************************)
\* Faulty variant: no search for an existing link.
CanAddAgain(s, p) == numLinks < MaxModulations

CanAdd(s, p) == numLinks < MaxModulations /\ Matching(s, p) = {}

NewLink(s, p, k) == [EmptyLink EXCEPT !.source = s, !.info = k,
                                      !.enable = TRUE, !.asked = p]

PlaceLink(s, p, k) ==
  /\ links' = [links EXCEPT ![numLinks] = NewLink(s, p, k)]
  /\ numLinks' = numLinks + 1

\* The parameter is registered already: its slot gains a link.
JoinParamInfo(s, p) ==
  \E k \in LiveInfos :
    /\ IsFirst(k, Registered(p))
    /\ paramInfos' = [paramInfos EXCEPT ![k].numLinks = (@ + 1) % CountModulus]
    /\ PlaceLink(s, p, k)
    /\ UNCHANGED <<numParamInfos, overrun>>

\* Faulty variant: the count of a new slot starts at 0.
CountFromZero == 0

\* TryAddNewParamRegInfo starts the count at 1 and AddNewLink then adds the
\* new link to it.
FirstCount == 1

\* Faulty variant: the last slot in use is taken again.
UsedSlot == IF numParamInfos = 0 THEN 0 ELSE numParamInfos - 1

FreshSlot == numParamInfos

NewParamInfo(s, p) ==
  /\ Registered(p) = {}
  /\ numParamInfos < MaxModulations
  /\ paramInfos' = [paramInfos EXCEPT ![FreshSlot] =
                      [param |-> p, numLinks |-> (FirstCount + 1) % CountModulus]]
  /\ numParamInfos' = numParamInfos + 1
  /\ PlaceLink(s, p, FreshSlot)
  /\ UNCHANGED overrun

\* TryAddNewParamRegInfo has no limit check: with a full table it writes
\* paramInfos_[kMaxNumModulations].  The model says no more after that.
OverrunParamInfos(p) ==
  /\ Registered(p) = {}
  /\ numParamInfos >= MaxModulations
  /\ overrun' = TRUE
  /\ UNCHANGED <<links, numLinks, paramInfos, numParamInfos>>

AddNewLink(s, p) ==
  /\ CanAdd(s, p)
  /\ \/ JoinParamInfo(s, p)
     \/ NewParamInfo(s, p)
     \/ OverrunParamInfos(p)
  /\ UNCHANGED <<modulationValue, freed>>

-----------------------------------------------------------------------------
(***************************************************************************)
(* RemoveLink(link).  The count that goes down is read through the link    *)
(* pointer after the swap: it is the count of the link moved into slot i.  *)
(***************************************************************************)
ChargedInfo == links[numLinks - 1].info

\* Faulty variant: the count sticks at zero instead of wrapping.
SaturatedCount(k) == IF paramInfos[k].numLinks = 0 THEN 0
                     ELSE paramInfos[k].numLinks - 1

CountLeft(k) == (paramInfos[k].numLinks + CountModulus - 1) % CountModulus

Discharge(k) == [paramInfos EXCEPT ![k].numLinks = CountLeft(k)]

\* The charged parameter keeps its slot.
KeepParamInfo(k) ==
  /\ CountLeft(k) # 0
  /\ paramInfos' = Discharge(k)
  /\ UNCHANGED <<numParamInfos, freed, overrun>>

\* RemoveParamRegInfo: the last registered slot moves into slot k.  With no
\* registered slot left it would swap with paramInfos_[-1].
FreeParamInfo(k) ==
  /\ CountLeft(k) = 0
  /\ freed' = TRUE
  /\ IF numParamInfos = 0
     THEN overrun' = TRUE /\ UNCHANGED <<paramInfos, numParamInfos>>
     ELSE /\ paramInfos' = Swap(Discharge(k), k, numParamInfos - 1)
          /\ numParamInfos' = numParamInfos - 1
          /\ UNCHANGED overrun

\* The removed link ends up behind the live prefix, where AddNewLink rewrites
\* every field before it counts again: the slot is kept empty here.
DropLink(i) == [links EXCEPT ![i] = links[numLinks - 1],
                             ![numLinks - 1] = EmptyLink]

RemoveLink(i) ==
  /\ i \in Live
  /\ links' = DropLink(i)
  /\ numLinks' = numLinks - 1
  /\ \/ KeepParamInfo(ChargedInfo)
     \/ FreeParamInfo(ChargedInfo)
  /\ UNCHANGED modulationValue

\* Nothing points at the dropped slots any more: they are kept empty too.
RemoveAllLinks ==
  /\ numLinks' = 0
  /\ numParamInfos' = 0
  /\ links' = [i \in Slots |-> EmptyLink]
  /\ paramInfos' = [k \in Slots |-> EmptyInfo]
  /\ UNCHANGED <<modulationValue, freed, overrun>>

-----------------------------------------------------------------------------
(***************************************************************************)
(* The GUI writes the three knobs of a link through its handle.            *)
(***************************************************************************)
EditLink(i) ==
  /\ i \in Live
  /\ \/ \E a \in Amounts  : links' = [links EXCEPT ![i].amount = a]
     \/ \E b \in Switches : links' = [links EXCEPT ![i].enable = b]
     \/ \E b \in Switches : links' = [links EXCEPT ![i].symmetric = b]
  /\ UNCHANGED <<numLinks, paramInfos, numParamInfos, modulationValue,
                 freed, overrun>>

(***************************************************************************)
(* Tick.  Modulator outputs are in 0.0f..1.0f; a symmetric link centres    *)
(* them.  Values are kept in units of 1 / (2 * One * One).                 *)
(***************************************************************************)
Contribution(i, out) ==
  IF ~ links[i].enable THEN 0
  ELSE IF links[i].symmetric
       THEN (2 * out[links[i].source] - One) * links[i].amount
       ELSE 2 * out[links[i].source] * links[i].amount

SumOf(S, out) == MapThenSumSet(LAMBDA i : Contribution(i, out), S)

\* Faulty variant: nothing is cleared.
AddedUp(p, sum) == modulationValue[p] + sum

\* Only registered parameters are cleared before the links are added up.
AfterTick(p, sum) == IF Registered(p) # {} THEN sum ELSE modulationValue[p] + sum

Tick(out) ==
  /\ modulationValue' =
       [p \in Params |-> AfterTick(p, SumOf(LinksOfParam(p), out))]
  /\ UNCHANGED <<links, numLinks, paramInfos, numParamInfos, freed, overrun>>

-----------------------------------------------------------------------------
Init ==
  /\ links = [i \in Slots |-> EmptyLink]
  /\ numLinks = 0
  /\ paramInfos = [i \in Slots |-> EmptyInfo]
  /\ numParamInfos = 0
  /\ modulationValue = [p \in Params |-> 0]
  /\ freed = FALSE
  /\ overrun = FALSE

Next ==
  /\ ~ overrun
  /\ \/ \E s \in Modulators, p \in Params : AddNewLink(s, p)
     \/ \E i \in Live : RemoveLink(i)
     \/ RemoveAllLinks
     \/ \E i \in Live : EditLink(i)
     \/ \E out \in [Modulators -> {0, One}] : Tick(out)

Spec == Init /\ [][Next]_vars

-----------------------------------------------------------------------------
(***************************************************************************)
(* Properties.                                                             *)
(***************************************************************************)
TablesTypeOK ==
  /\ links \in [Slots -> Link]
  /\ numLinks \in 0 .. MaxModulations
  /\ paramInfos \in [Slots -> ParamRegInfo]
  /\ numParamInfos \in 0 .. MaxModulations
  /\ freed \in BOOLEAN
  /\ overrun \in BOOLEAN

\* A parameter is registered in at most one live slot, however adds, swaps
\* and frees are mixed.  Tick relies on it to clear every value exactly once.
RegisteredOnce ==
  \A j, k \in LiveInfos : paramInfos[j].param = paramInfos[k].param => j = k

\* The limit promised for AddNewLink: it never writes behind the end of
\* paramInfos_.
AddStopsAtLimit == ~ overrun

\* As long as no registered slot was freed, every live link resolves through
\* its slot to the parameter it was added for, although RemoveLink charges
\* links to the wrong slot.
RoutesKept ==
  ~ freed => \A i \in Live : links[i].info \in LiveInfos
                             /\ TargetOf(i) = links[i].asked

\* As long as no slot was freed, no modulator has two links to one parameter.
NoDuplicateLink ==
  ~ freed => \A i, j \in Live :
               /\ links[i].source = links[j].source
               /\ links[i].asked = links[j].asked
               => i = j

\* The link counts of the slots.
Counts == [k \in Slots |-> paramInfos[k].numLinks]

\* Wrong charges only move counts between slots: until a slot is freed the
\* counts of the registered slots exceed the live links by one per slot, so a
\* slot is first freed only after another's removal was charged to it.
ChargesConserved ==
  ~ freed => SumFunctionOnSet(Counts, LiveInfos) = numLinks + numParamInfos

\* A count that reaches zero is the count of a registered slot: a stale link,
\* pointing at a slot already dropped, never makes RemoveParamRegInfo drop a
\* second, unrelated parameter.
FreesOnlyRegistered ==
  [][\A i \in Live : RemoveLink(i) /\ numParamInfos' # numParamInfos =>
       ChargedInfo \in LiveInfos]_vars

\* GetLinkOfParam is documented to get all links of the parameter it is asked
\* about; without the premise of RoutesKept it does not.
LinksOfParamComplete ==
  \A p \in Params : LinksOfParam(p) = {i \in Live : links[i].asked = p}

\* The bank implements the set of routes seen through its own pointers.
Routes == INSTANCE ModulationRoutes WITH
            routes  <- {<<links[i].source, TargetOf(i)>> : i \in Live},
            trusted <- ~ freed

RefinesRoutes == Routes!RoutesSpec
=============================================================================
