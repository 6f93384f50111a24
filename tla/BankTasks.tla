----------------------------- MODULE BankTasks ------------------------------
(***************************************************************************)
(* The modulation bank between two tasks.  BspTask adds, edits and removes *)
(* links; AudioTask runs Tick under the audio lock.  RemoveLink is called  *)
(* under that lock too and is one step here, AddNewLink is not: Tick may   *)
(* run when it has begun, and find some of its stores done.                *)
(*                                                                         *)
(* Nothing orders these stores: the compiler may, and the fields are plain *)
(* variables.  So Tick sees each of them done or not, and a slot not yet   *)
(* written holds what was left in it.  AddNewLink reads nothing Tick       *)
(* writes: in which order the two begin and end makes no difference.       *)
(***************************************************************************)
EXTENDS ModulationBank

CONSTANT NoAdd   \* BspTask is not in AddNewLink

VARIABLES
  adding,    \* the arguments AddNewLink has accepted, until it returns
  leftover,  \* what removed links left in the slots behind the live ones
  nulled     \* history: Tick followed a null pointer

taskVars == <<vars, adding, leftover, nulled>>

Quiet == adding = NoAdd

-----------------------------------------------------------------------------
\* AddNewLink has checked the limit and found no such link; its stores follow.
AddBegin(s, p) ==
  /\ Quiet
  /\ CanAdd(s, p)
  /\ adding' = [source |-> s, param |-> p]
  /\ UNCHANGED <<vars, leftover, nulled>>

AddEnd ==
  /\ ~ Quiet
  /\ AddNewLink(adding.source, adding.param)
  /\ adding' = NoAdd
  /\ leftover' = [leftover EXCEPT ![numLinks] = EmptyLink]
  /\ UNCHANGED nulled

\* The removed link stays in the slot behind the live ones.
Remove(i) ==
  /\ Quiet
  /\ RemoveLink(i)
  /\ leftover' = [leftover EXCEPT ![numLinks - 1] =
                                [links[i] EXCEPT !.asked = NoParam]]
  /\ UNCHANGED <<adding, nulled>>

Edit(i) ==
  /\ Quiet
  /\ EditLink(i)
  /\ UNCHANGED <<adding, leftover, nulled>>

QuietTick(out) ==
  /\ Quiet
  /\ Tick(out)
  /\ UNCHANGED <<adding, leftover, nulled>>

-----------------------------------------------------------------------------
(***************************************************************************)
(* Tick in the middle of AddNewLink.                                       *)
(***************************************************************************)
Joins == Registered(adding.param) # {}
InfoSlot == IF Joins THEN Min(Registered(adding.param)) ELSE FreshSlot

\* paramInfos_ with the new parameter's slot as Tick may find it.
InfoTables ==
  {[paramInfos EXCEPT ![InfoSlot].param = q] :
     q \in {paramInfos[InfoSlot].param, adding.param}}

InfoCounts == {numParamInfos} \cup (IF Joins THEN {} ELSE {numParamInfos + 1})

\* The new link as Tick may find it.
New == NewLink(adding.source, adding.param, InfoSlot)
Old == leftover[numLinks]
HalfLinks ==
  [source : {Old.source, New.source}, info : {Old.info, New.info},
   enable : {Old.enable, New.enable}, symmetric : {Old.symmetric, New.symmetric},
   amount : {Old.amount, New.amount}]

\* The links Tick goes through: those before, and perhaps the new one.
LinksSeen(l) == [i \in Live \cup {numLinks} |-> IF i = numLinks THEN l ELSE links[i]]

FollowsNull(table, n, seen) ==
  \/ \E k \in 0 .. n - 1 : table[k].param = NoParam
  \/ \E i \in DOMAIN seen :
       seen[i].enable /\ \/ seen[i].source = NoModulator
                         \/ seen[i].info = Null
                         \/ table[seen[i].info].param = NoParam

Adds(l, out) ==
  IF ~ l.enable THEN 0
  ELSE (2 * out[l.source] - IF l.symmetric THEN One ELSE 0) * l.amount

ValueAfter(p, table, n, seen, out) ==
  (IF \E k \in 0 .. n - 1 : table[k].param = p THEN 0 ELSE modulationValue[p])
  + MapThenSumSet(LAMBDA i : Adds(seen[i], out),
                  {i \in DOMAIN seen : seen[i].info # Null
                                       /\ table[seen[i].info].param = p})

HalfTick(out, table, n, seen) ==
  IF FollowsNull(table, n, seen)
  THEN nulled' = TRUE /\ UNCHANGED modulationValue
  ELSE /\ modulationValue' = [p \in Params |-> ValueAfter(p, table, n, seen, out)]
       /\ UNCHANGED nulled

TornTick(out) ==
  /\ ~ Quiet
  /\ InfoSlot \in Slots
  /\ \E table \in InfoTables, n \in InfoCounts :
       \/ HalfTick(out, table, n, [i \in Live |-> links[i]])
       \/ \E l \in HalfLinks : HalfTick(out, table, n, LinksSeen(l))
  /\ UNCHANGED <<links, numLinks, paramInfos, numParamInfos, freed, overrun,
                 adding, leftover>>

-----------------------------------------------------------------------------
TasksInit ==
  /\ Init
  /\ adding = NoAdd
  /\ leftover = [i \in Slots |-> EmptyLink]
  /\ nulled = FALSE

\* The model says no more once a wild pointer was written through.
TasksNext ==
  /\ ~ overrun /\ ~ nulled
  /\ \/ \E s \in Modulators, p \in Params : AddBegin(s, p)
     \/ AddEnd
     \/ \E i \in Live : Remove(i) \/ Edit(i)
     \/ \E out \in [Modulators -> {0, One}] : QuietTick(out) \/ TornTick(out)

TasksSpec == TasksInit /\ [][TasksNext]_taskVars

-----------------------------------------------------------------------------
(***************************************************************************)
(* Properties.                                                             *)
(***************************************************************************)
\* What a Tick in the middle of AddNewLink gets wrong does not stay: until a slot
\* is freed, it never leaves a value in a parameter that no later Tick clears.
NothingLeftBehind ==
  ~ freed /\ ~ overrun => \A p \in Params :
    modulationValue[p] # 0 =>
      Registered(p) # {} \/ (~ Quiet /\ adding.param = p)

\* What the routes are for: until a slot is freed, a Tick that meets no AddNewLink
\* leaves in every registered parameter exactly the sum of the links added for
\* it, whatever ticks before it met.
QuietTickExact ==
  [][\A out \in [Modulators -> {0, One}] :
       QuietTick(out) /\ ~ freed =>
         \A p \in Params :
           Registered(p) # {} =>
             modulationValue'[p] =
               SumOf({i \in Live : links[i].asked = p}, out)]_taskVars
=============================================================================
