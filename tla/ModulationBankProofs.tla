------------------------ MODULE ModulationBankProofs ------------------------
(***************************************************************************)
(* Proofs about ModulationBank, for every set of modulators and parameters *)
(* and every table length.                                                 *)
(***************************************************************************)
EXTENDS BankTasks, CommonLemmas

\* What a live link and a registered slot always hold, even a stale link: the
\* slot it points at has been registered once, so it names a parameter.
LiveSound ==
  /\ \A i \in Live : /\ links[i].source \in Modulators
                     /\ links[i].asked \in Params
                     /\ links[i].info \in Slots
                     /\ TargetOf(i) \in Params
  /\ \A k \in LiveInfos : paramInfos[k].param \in Params

IInv ==
  /\ TablesTypeOK
  /\ LiveSound
  /\ RegisteredOnce
  /\ RoutesKept
  /\ NoDuplicateLink

-----------------------------------------------------------------------------
LEMMA SquareGrows ==
  ASSUME NEW n \in Nat, n > 0
  PROVE  n * n \in Nat /\ n * n >= n
<1>1. n * n = (n - 1) * n + n /\ (n - 1) * n >= 0
  OBVIOUS
<1> QED
  BY <1>1

\* The range of the counts exceeds the length of the tables.
LEMMA CountFits ==
  /\ CountModulus \in Nat /\ MaxModulations \in Nat \ {0}
  /\ CountModulus > MaxModulations + 1
  BY TablesAssumption, CountAssumption, SquareGrows

\* C's unsigned arithmetic stays in range.
LEMMA ModRange ==
  ASSUME NEW x \in Int
  PROVE  x % CountModulus \in 0 .. CountModulus - 1
  BY CountFits

\* Counting up and down gives a count again.
LEMMA CountsInRange ==
  ASSUME TablesTypeOK, NEW k \in Slots
  PROVE  /\ (paramInfos[k].numLinks + 1) % CountModulus \in 0 .. CountModulus - 1
         /\ CountLeft(k) \in 0 .. CountModulus - 1
         /\ (FirstCount + 1) % CountModulus \in 0 .. CountModulus - 1
<1>1. paramInfos[k].numLinks \in 0 .. CountModulus - 1
  BY DEF TablesTypeOK, ParamRegInfo
<1>2. /\ paramInfos[k].numLinks + 1 \in Int
      /\ paramInfos[k].numLinks + CountModulus - 1 \in Int
      /\ FirstCount + 1 \in Int
  BY <1>1, CountFits DEF FirstCount
<1> QED
  BY <1>2, ModRange DEF CountLeft

LEMMA InitInv == Init => IInv
<1> SUFFICES ASSUME Init PROVE IInv
  OBVIOUS
<1>1. Live = {} /\ LiveInfos = {}
  BY DEF Init, Live, LiveInfos
<1>2. EmptyLink \in Link /\ EmptyInfo \in ParamRegInfo
  BY CountFits, AmountsAssumption
  DEF EmptyLink, EmptyInfo, Link, ParamRegInfo
<1>3. TablesTypeOK
  <2>1. links \in [Slots -> Link] /\ paramInfos \in [Slots -> ParamRegInfo]
    BY <1>2 DEF Init
  <2>2. numLinks \in 0 .. MaxModulations /\ numParamInfos \in 0 .. MaxModulations
    BY TablesAssumption DEF Init
  <2>3. QED
    BY <2>1, <2>2 DEF Init, TablesTypeOK
<1>4. QED
  BY <1>1, <1>3 DEF IInv, LiveSound, RegisteredOnce, RoutesKept, NoDuplicateLink

-----------------------------------------------------------------------------
(***************************************************************************)
(* AddNewLink.                                                             *)
(***************************************************************************)
\* The link placed in slot numLinks is the only change to the link table.
LEMMA PlacedLink ==
  ASSUME TablesTypeOK, NEW s \in Modulators, NEW p \in Params, NEW k \in Slots,
         numLinks < MaxModulations, PlaceLink(s, p, k)
  PROVE  /\ links' \in [Slots -> Link]
         /\ numLinks' \in 0 .. MaxModulations
         /\ Live' = Live \cup {numLinks}
         /\ \A i \in Live : i # numLinks /\ links'[i] = links[i]
         /\ links'[numLinks].source = s
         /\ links'[numLinks].asked = p
         /\ links'[numLinks].info = k
<1>1. numLinks \in Slots
  BY TablesAssumption DEF TablesTypeOK, Slots
<1>2. NewLink(s, p, k) \in Link
  BY AmountsAssumption DEF NewLink, EmptyLink, Link
<1>3. /\ NewLink(s, p, k).source = s
      /\ NewLink(s, p, k).asked = p
      /\ NewLink(s, p, k).info = k
  BY DEF NewLink, EmptyLink
<1>4. Live' = Live \cup {numLinks} /\ numLinks' \in 0 .. MaxModulations
  BY TablesAssumption DEF PlaceLink, Live, TablesTypeOK
<1>5. Live \subseteq Slots /\ numLinks \notin Live
  BY TablesAssumption DEF Live, Slots, TablesTypeOK
<1>6. QED
  BY <1>1, <1>2, <1>3, <1>4, <1>5 DEF PlaceLink, TablesTypeOK

\* Adding a link to a parameter registered in slot k.
LEMMA JoinInv ==
  ASSUME IInv, NEW s \in Modulators, NEW p \in Params, CanAdd(s, p),
         JoinParamInfo(s, p), UNCHANGED freed
  PROVE  IInv'
<1> USE DEF IInv
<1>1. PICK k \in LiveInfos :
        /\ k \in Registered(p)
        /\ paramInfos' = [paramInfos EXCEPT ![k].numLinks = (@ + 1) % CountModulus]
        /\ PlaceLink(s, p, k)
        /\ UNCHANGED <<numParamInfos, overrun>>
  BY DEF JoinParamInfo, IsFirst
<1>2. LiveInfos \subseteq Slots /\ LiveInfos' = LiveInfos
  <2>1. LiveInfos \subseteq Slots
    BY TablesAssumption DEF LiveInfos, Slots, TablesTypeOK
  <2>2. LiveInfos' = LiveInfos
    BY <1>1 DEF LiveInfos
  <2>3. QED
    BY <2>1, <2>2
<1>3. paramInfos' \in [Slots -> ParamRegInfo]
  BY <1>1, <1>2, CountsInRange DEF TablesTypeOK, ParamRegInfo
<1>4. \A j \in Slots : paramInfos'[j].param = paramInfos[j].param
  BY <1>1, <1>2 DEF TablesTypeOK, ParamRegInfo
<1>5. /\ links' \in [Slots -> Link]
      /\ numLinks' \in 0 .. MaxModulations
      /\ Live' = Live \cup {numLinks}
      /\ \A i \in Live : i # numLinks /\ links'[i] = links[i]
      /\ links'[numLinks].source = s
      /\ links'[numLinks].asked = p
      /\ links'[numLinks].info = k
  BY <1>1, <1>2, PlacedLink DEF CanAdd
<1>6. paramInfos[k].param = p
  BY <1>1 DEF Registered
<1>7. TablesTypeOK'
  BY <1>1, <1>3, <1>5 DEF TablesTypeOK
<1>8. LiveSound'
  BY <1>2, <1>4, <1>5, <1>6 DEF LiveSound, TargetOf
<1>9. RegisteredOnce'
  BY <1>2, <1>4 DEF RegisteredOnce
<1>10. RoutesKept'
  BY <1>2, <1>4, <1>5, <1>6 DEF RoutesKept, TargetOf, LiveSound
<1>11. NoDuplicateLink'
  BY <1>5 DEF NoDuplicateLink, RoutesKept, CanAdd, Matching
<1>12. QED
  BY <1>7, <1>8, <1>9, <1>10, <1>11

\* Adding the first link of a parameter.
LEMMA RegisterInv ==
  ASSUME IInv, NEW s \in Modulators, NEW p \in Params, CanAdd(s, p),
         NewParamInfo(s, p), UNCHANGED freed
  PROVE  IInv'
<1> USE DEF IInv, FreshSlot
<1> DEFINE n == numParamInfos
<1>1. n \in Slots /\ LiveInfos \subseteq Slots /\ n \notin LiveInfos
  BY TablesAssumption DEF NewParamInfo, LiveInfos, Slots, TablesTypeOK
<1>2. LiveInfos' = LiveInfos \cup {n} /\ numParamInfos' \in 0 .. MaxModulations
  BY TablesAssumption DEF NewParamInfo, LiveInfos, TablesTypeOK
<1>3. paramInfos' \in [Slots -> ParamRegInfo]
  BY <1>1, CountsInRange DEF NewParamInfo, TablesTypeOK, ParamRegInfo
<1>4. /\ paramInfos'[n].param = p
      /\ \A j \in Slots : j # n => paramInfos'[j] = paramInfos[j]
  BY <1>1 DEF NewParamInfo, TablesTypeOK
<1>5. /\ links' \in [Slots -> Link]
      /\ numLinks' \in 0 .. MaxModulations
      /\ Live' = Live \cup {numLinks}
      /\ \A i \in Live : i # numLinks /\ links'[i] = links[i]
      /\ links'[numLinks].source = s
      /\ links'[numLinks].asked = p
      /\ links'[numLinks].info = n
  BY <1>1, PlacedLink DEF CanAdd, NewParamInfo
<1>6. TablesTypeOK'
  BY <1>2, <1>3, <1>5 DEF TablesTypeOK, NewParamInfo
<1>7. LiveSound'
  <2>1. \A i \in Live : links'[i].info \in Slots /\ paramInfos'[links'[i].info].param \in Params
    BY <1>4, <1>5 DEF LiveSound, TargetOf
  <2>2. \A k \in LiveInfos' : paramInfos'[k].param \in Params
    BY <1>1, <1>2, <1>4 DEF LiveSound
  <2>3. QED
    BY <2>1, <2>2, <1>1, <1>4, <1>5 DEF LiveSound, TargetOf
<1>8. RegisteredOnce'
  BY <1>1, <1>2, <1>4 DEF RegisteredOnce, NewParamInfo, Registered
<1>9. RoutesKept'
  BY <1>1, <1>2, <1>4, <1>5 DEF RoutesKept, TargetOf
<1>10. NoDuplicateLink'
  BY <1>5 DEF NoDuplicateLink, RoutesKept, CanAdd, Matching
<1>11. QED
  BY <1>6, <1>7, <1>8, <1>9, <1>10

LEMMA AddInv ==
  ASSUME IInv, NEW s \in Modulators, NEW p \in Params, AddNewLink(s, p)
  PROVE  IInv'
<1>1. CASE JoinParamInfo(s, p)
  BY <1>1, JoinInv DEF AddNewLink
<1>2. CASE NewParamInfo(s, p)
  BY <1>2, RegisterInv DEF AddNewLink
<1>3. CASE OverrunParamInfos(p)
  BY <1>3 DEF AddNewLink, OverrunParamInfos, IInv, TablesTypeOK, LiveSound,
     RegisteredOnce, RoutesKept, NoDuplicateLink, Live, LiveInfos, TargetOf
<1>4. QED
  BY <1>1, <1>2, <1>3 DEF AddNewLink

-----------------------------------------------------------------------------
(***************************************************************************)
(* RemoveLink.                                                             *)
(***************************************************************************)
\* After the removal, every live link is one of the links that were live, and
\* two of them are never the same one.
LEMMA DroppedLink ==
  ASSUME TablesTypeOK, NEW i \in Live, links' = DropLink(i),
         numLinks' = numLinks - 1
  PROVE  /\ links' \in [Slots -> Link]
         /\ numLinks' \in 0 .. MaxModulations
         /\ numLinks - 1 \in Live
         /\ \A j \in Live' : /\ j \in Live
                             /\ j # numLinks - 1
                             /\ links'[j] = IF j = i THEN links[numLinks - 1]
                                                     ELSE links[j]
<1>1. Live \subseteq Slots /\ numLinks - 1 \in Live /\ numLinks' \in 0 .. MaxModulations
  BY TablesAssumption DEF Live, Slots, TablesTypeOK
<1>2. EmptyLink \in Link
  BY AmountsAssumption DEF EmptyLink, Link
<1>3. \A j \in Live' : j \in Live /\ j # numLinks - 1
  BY DEF Live, TablesTypeOK
<1>4. QED
  BY <1>1, <1>2, <1>3 DEF DropLink, TablesTypeOK

LEMMA DischargeOK ==
  ASSUME TablesTypeOK, NEW k \in Slots
  PROVE  /\ Discharge(k) \in [Slots -> ParamRegInfo]
         /\ \A j \in Slots : Discharge(k)[j].param = paramInfos[j].param
  BY CountsInRange DEF Discharge, TablesTypeOK, ParamRegInfo

\* The charged count stays above zero: no slot changes its parameter.
LEMMA KeepInv ==
  ASSUME IInv, NEW i \in Live, links' = DropLink(i), numLinks' = numLinks - 1,
         KeepParamInfo(ChargedInfo)
  PROVE  IInv'
<1> USE DEF IInv
<1> DEFINE k == ChargedInfo
<1>1. /\ links' \in [Slots -> Link]
      /\ numLinks' \in 0 .. MaxModulations
      /\ numLinks - 1 \in Live
      /\ \A j \in Live' : /\ j \in Live
                          /\ j # numLinks - 1
                          /\ links'[j] = IF j = i THEN links[numLinks - 1]
                                                  ELSE links[j]
  BY DroppedLink
<1>2. k \in Slots
  BY <1>1 DEF ChargedInfo, LiveSound
<1>3. /\ paramInfos' \in [Slots -> ParamRegInfo]
      /\ \A j \in Slots : paramInfos'[j].param = paramInfos[j].param
  BY <1>2, DischargeOK DEF KeepParamInfo
<1>4. LiveInfos \subseteq Slots /\ LiveInfos' = LiveInfos
  <2>1. LiveInfos \subseteq Slots
    BY TablesAssumption DEF LiveInfos, Slots, TablesTypeOK
  <2>2. LiveInfos' = LiveInfos
    BY DEF KeepParamInfo, LiveInfos
  <2>3. QED
    BY <2>1, <2>2
<1>5. TablesTypeOK'
  BY <1>1, <1>3 DEF TablesTypeOK, KeepParamInfo
<1>6. LiveSound'
  BY <1>1, <1>3, <1>4 DEF LiveSound, TargetOf
<1>7. RegisteredOnce'
  BY <1>3, <1>4 DEF RegisteredOnce
<1>8. RoutesKept'
  BY <1>1, <1>3, <1>4 DEF RoutesKept, TargetOf, LiveSound, KeepParamInfo
<1>9. NoDuplicateLink'
  BY <1>1 DEF NoDuplicateLink, KeepParamInfo
<1>10. QED
  BY <1>5, <1>6, <1>7, <1>8, <1>9

\* A slot is freed: the last registered slot takes its place, and what stale
\* links point at still names a parameter.
LEMMA FreeInv ==
  ASSUME IInv, NEW i \in Live, links' = DropLink(i), numLinks' = numLinks - 1,
         FreeParamInfo(ChargedInfo)
  PROVE  IInv'
<1> USE DEF IInv
<1> DEFINE k == ChargedInfo
           last == numParamInfos - 1
<1>1. /\ links' \in [Slots -> Link]
      /\ numLinks' \in 0 .. MaxModulations
      /\ numLinks - 1 \in Live
      /\ \A j \in Live' : /\ j \in Live
                          /\ j # numLinks - 1
                          /\ links'[j] = IF j = i THEN links[numLinks - 1]
                                                  ELSE links[j]
  BY DroppedLink
<1>2. k \in Slots /\ paramInfos[k].param \in Params
  BY <1>1 DEF ChargedInfo, LiveSound, TargetOf
<1>3. freed' = TRUE
  BY DEF FreeParamInfo
<1>4. RoutesKept' /\ NoDuplicateLink'
  BY <1>3 DEF RoutesKept, NoDuplicateLink
<1>5. CASE numParamInfos = 0
  <2>1. UNCHANGED <<paramInfos, numParamInfos>> /\ overrun' = TRUE
    BY <1>5 DEF FreeParamInfo
  <2>2. TablesTypeOK'
    BY <1>1, <1>3, <2>1 DEF TablesTypeOK
  <2>3. LiveSound' /\ RegisteredOnce'
    BY <1>1, <2>1 DEF LiveSound, TargetOf, RegisteredOnce, LiveInfos
  <2>4. QED
    BY <1>4, <2>2, <2>3
<1>6. CASE numParamInfos # 0
  <2>1. /\ paramInfos' = Swap(Discharge(k), k, last)
        /\ numParamInfos' = last
        /\ UNCHANGED overrun
    BY <1>6 DEF FreeParamInfo
  <2>2. /\ last \in LiveInfos
        /\ LiveInfos \subseteq Slots
        /\ LiveInfos' = LiveInfos \ {last}
        /\ last \in 0 .. MaxModulations
    BY <1>6, <2>1, TablesAssumption DEF LiveInfos, Slots, TablesTypeOK
  <2>3. /\ Discharge(k) \in [Slots -> ParamRegInfo]
        /\ \A j \in Slots : Discharge(k)[j].param = paramInfos[j].param
    BY <1>2, DischargeOK
  <2>4. /\ paramInfos' \in [Slots -> ParamRegInfo]
        /\ \A j \in Slots : paramInfos'[j].param =
             IF j = last THEN paramInfos[k].param
             ELSE IF j = k THEN paramInfos[last].param
             ELSE paramInfos[j].param
    BY <1>2, <2>1, <2>2, <2>3 DEF Swap
  <2>5. TablesTypeOK'
    BY <1>1, <1>3, <2>1, <2>2, <2>4 DEF TablesTypeOK
  <2>6. LiveSound'
    BY <1>1, <1>2, <2>2, <2>4 DEF LiveSound, TargetOf
  <2>7. RegisteredOnce'
    BY <2>2, <2>4, <1>2 DEF RegisteredOnce
  <2>8. QED
    BY <1>4, <2>5, <2>6, <2>7
<1>7. QED
  BY <1>5, <1>6

LEMMA RemoveInv ==
  ASSUME IInv, NEW i \in Live, RemoveLink(i)
  PROVE  IInv'
<1>1. links' = DropLink(i) /\ numLinks' = numLinks - 1
  BY DEF RemoveLink
<1>2. CASE KeepParamInfo(ChargedInfo)
  BY <1>1, <1>2, KeepInv
<1>3. CASE FreeParamInfo(ChargedInfo)
  BY <1>1, <1>3, FreeInv
<1>4. QED
  BY <1>2, <1>3 DEF RemoveLink

-----------------------------------------------------------------------------
(***************************************************************************)
(* The other steps.                                                        *)
(***************************************************************************)
LEMMA RemoveAllInv ==
  ASSUME IInv, RemoveAllLinks
  PROVE  IInv'
<1>1. Live' = {} /\ LiveInfos' = {}
  BY DEF RemoveAllLinks, Live, LiveInfos
<1>2. EmptyLink \in Link /\ EmptyInfo \in ParamRegInfo
  BY CountFits, AmountsAssumption
  DEF EmptyLink, EmptyInfo, Link, ParamRegInfo
<1>3. numLinks' \in 0 .. MaxModulations /\ numParamInfos' \in 0 .. MaxModulations
  BY TablesAssumption DEF RemoveAllLinks
<1>4. TablesTypeOK'
  BY <1>2, <1>3 DEF RemoveAllLinks, TablesTypeOK, IInv
<1>5. QED
  BY <1>1, <1>4 DEF IInv, LiveSound, RegisteredOnce, RoutesKept, NoDuplicateLink

\* A knob does not change what a link connects.
LEMMA EditInv ==
  ASSUME IInv, NEW i \in Live, EditLink(i)
  PROVE  IInv'
<1> USE DEF IInv
<1>1. Live \subseteq Slots /\ Live' = Live /\ LiveInfos' = LiveInfos
  <2>1. Live \subseteq Slots
    BY TablesAssumption DEF Live, Slots, TablesTypeOK
  <2>2. Live' = Live /\ LiveInfos' = LiveInfos
    BY DEF EditLink, Live, LiveInfos
  <2>3. QED
    BY <2>1, <2>2
<1>2. /\ links' \in [Slots -> Link]
      /\ \A j \in Slots : /\ links'[j].source = links[j].source
                          /\ links'[j].asked = links[j].asked
                          /\ links'[j].info = links[j].info
  BY <1>1, AmountsAssumption DEF EditLink, TablesTypeOK, Link
<1>3. UNCHANGED <<numLinks, paramInfos, numParamInfos, freed, overrun>>
  BY DEF EditLink
<1>4. TablesTypeOK'
  BY <1>2, <1>3 DEF TablesTypeOK
<1>5. LiveSound' /\ RegisteredOnce' /\ RoutesKept' /\ NoDuplicateLink'
  BY <1>1, <1>2, <1>3
  DEF LiveSound, RegisteredOnce, RoutesKept, NoDuplicateLink, TargetOf
<1>6. QED
  BY <1>4, <1>5

\* Tick reads the tables and changes modulation values only.
LEMMA UnchangedInv ==
  ASSUME IInv, UNCHANGED <<links, numLinks, paramInfos, numParamInfos, freed, overrun>>
  PROVE  IInv'
  BY DEF IInv, TablesTypeOK, LiveSound, RegisteredOnce, RoutesKept,
     NoDuplicateLink, Live, LiveInfos, TargetOf

-----------------------------------------------------------------------------
(***************************************************************************)
(* The invariant, and what follows from it.                                *)
(***************************************************************************)
\* IInv is an inductive invariant of the bank.
THEOREM Invariance == Spec => []IInv
<1>1. Init => IInv
  BY InitInv
<1>2. IInv /\ [Next]_vars => IInv'
  <2> SUFFICES ASSUME IInv, [Next]_vars PROVE IInv'
    OBVIOUS
  <2>1. ASSUME NEW s \in Modulators, NEW p \in Params, AddNewLink(s, p)
        PROVE  IInv'
    BY <2>1, AddInv
  <2>2. ASSUME NEW i \in Live, RemoveLink(i)
        PROVE  IInv'
    BY <2>2, RemoveInv
  <2>3. CASE RemoveAllLinks
    BY <2>3, RemoveAllInv
  <2>4. ASSUME NEW i \in Live, EditLink(i)
        PROVE  IInv'
    BY <2>4, EditInv
  <2>5. ASSUME NEW out \in [Modulators -> {0, One}], Tick(out)
        PROVE  IInv'
    BY <2>5, UnchangedInv DEF Tick
  <2>6. CASE UNCHANGED vars
    BY <2>6, UnchangedInv DEF vars
  <2>7. QED
    BY <2>1, <2>2, <2>3, <2>4, <2>5, <2>6 DEF Next
<1>3. QED
  BY <1>1, <1>2, PTL DEF Spec

\* The tables keep their types: both lengths stay within kMaxNumModulations.
THEOREM TypeCorrect == Spec => []TablesTypeOK
<1>1. IInv => TablesTypeOK
  BY DEF IInv
<1>2. QED
  BY <1>1, Invariance, PTL

\* No parameter is ever registered in two live slots, stale links or not.
THEOREM RegisteredOnceHolds == Spec => []RegisteredOnce
<1>1. IInv => RegisteredOnce
  BY DEF IInv
<1>2. QED
  BY <1>1, Invariance, PTL

\* Until a registered slot is freed, every link reaches the parameter it was
\* added for.
THEOREM RoutesKeptHolds == Spec => []RoutesKept
<1>1. IInv => RoutesKept
  BY DEF IInv
<1>2. QED
  BY <1>1, Invariance, PTL

\* Until a registered slot is freed, no modulator is linked twice to a parameter.
THEOREM NoDuplicateLinkHolds == Spec => []NoDuplicateLink
<1>1. IInv => NoDuplicateLink
  BY DEF IInv
<1>2. QED
  BY <1>1, Invariance, PTL

-----------------------------------------------------------------------------
(***************************************************************************)
(* The refinement.  Until a slot is freed the links and their routes match *)
(* one to one, so removing a link takes away just its route; afterwards    *)
(* there are at most as many routes as links.                              *)
(***************************************************************************)
RouteOf == [i \in Live |-> <<links[i].source, TargetOf(i)>>]
Connected == {<<links[i].source, TargetOf(i)>> : i \in Live}

\* n links make at most n routes, and n if no two make the same.
LEMMA RoutesCounted ==
  ASSUME NEW n \in Nat, NEW f \in [0 .. n - 1 -> Modulators \X Params]
  PROVE  LET T == {f[i] : i \in 0 .. n - 1}
         IN /\ T \subseteq Modulators \X Params
            /\ Cardinality(T) \in Nat
            /\ Cardinality(T) <= n
            /\ (\A i, j \in 0 .. n - 1 : f[i] = f[j] => i = j) => Cardinality(T) = n
<1> DEFINE S == 0 .. n - 1
           T == {f[i] : i \in S}
<1>1. IsFiniteSet(S) /\ Cardinality(S) = n
  <2>1. 0 \in Int /\ n - 1 \in Int /\ (IF 0 > n - 1 THEN 0 ELSE n - 1 - 0 + 1) = n
    OBVIOUS
  <2> QED
    BY <2>1, FS_Interval
<1>2. T \subseteq Modulators \X Params
  OBVIOUS
<1>3. f \in Surjection(S, T)
  BY DEF Surjection
<1> HIDE DEF S, T
<1>4. /\ IsFiniteSet(T)
      /\ Cardinality(T) <= Cardinality(S)
      /\ f \in Injection(S, T) => Cardinality(T) = Cardinality(S)
  BY <1>1, <1>3, FS_Surjection
<1>5. (\A i, j \in S : f[i] = f[j] => i = j) => f \in Injection(S, T)
  <2>1. f \in [S -> T] /\ DOMAIN f = S
    BY <1>3 DEF Surjection
  <2> QED
    BY <2>1 DEF Injection, IsInjective
<1>6. Cardinality(T) \in Nat
  BY <1>4, FS_CardinalityType
<1> QED
  BY <1>1, <1>2, <1>4, <1>5, <1>6 DEF S, T

\* The routes in a state that satisfies the invariant.
RoutesFit ==
  /\ Connected \subseteq Modulators \X Params
  /\ Cardinality(Connected) \in Nat
  /\ Cardinality(Connected) <= numLinks
  /\ numLinks \in 0 .. MaxModulations
  /\ ~ freed => Cardinality(Connected) = numLinks

LEMMA ConnectedCounted == IInv => RoutesFit
<1> SUFFICES ASSUME IInv PROVE RoutesFit
  OBVIOUS
<1>1. numLinks \in 0 .. MaxModulations /\ numLinks \in Nat
  BY TablesAssumption DEF IInv, TablesTypeOK
<1>2. RouteOf \in [0 .. numLinks - 1 -> Modulators \X Params]
  BY DEF RouteOf, Live, IInv, LiveSound
<1>3. Connected = {RouteOf[i] : i \in 0 .. numLinks - 1}
  BY DEF Connected, RouteOf, Live
<1>4. ~ freed => \A i, j \in 0 .. numLinks - 1 : RouteOf[i] = RouteOf[j] => i = j
  BY DEF RouteOf, Live, IInv, RoutesKept, NoDuplicateLink
<1> QED
  BY <1>1, <1>2, <1>3, <1>4, RoutesCounted DEF RoutesFit

\* A link that is added is a route that is made.
LEMMA AddConnects ==
  ASSUME IInv, IInv', NEW s \in Modulators, NEW p \in Params, AddNewLink(s, p),
         ~ freed, ~ OverrunParamInfos(p)
  PROVE  /\ Connected' = Connected \cup {<<s, p>>}
         /\ <<s, p>> \notin Connected
         /\ Cardinality(Connected) < MaxModulations
<1>1. numLinks < MaxModulations /\ Matching(s, p) = {} /\ freed' = freed
  BY DEF AddNewLink, CanAdd
<1>2. Cardinality(Connected) < MaxModulations
  BY <1>1, ConnectedCounted, TablesAssumption DEF RoutesFit
<1>3. <<s, p>> \notin Connected
  BY <1>1 DEF Connected, Matching
<1>4. PICK k \in Slots : PlaceLink(s, p, k)
  <2>1. LiveInfos \subseteq Slots
    BY TablesAssumption DEF LiveInfos, Slots, IInv, TablesTypeOK
  <2>2. CASE JoinParamInfo(s, p)
    BY <2>1, <2>2 DEF JoinParamInfo
  <2>3. CASE NewParamInfo(s, p)
    BY <2>3, TablesAssumption DEF NewParamInfo, FreshSlot, Slots, IInv, TablesTypeOK
  <2> QED
    BY <2>2, <2>3 DEF AddNewLink
<1>5. /\ Live' = Live \cup {numLinks}
      /\ \A i \in Live : i # numLinks /\ links'[i] = links[i]
      /\ links'[numLinks].source = s
      /\ links'[numLinks].asked = p
  BY <1>1, <1>4, PlacedLink DEF IInv
<1>6. \A i \in Live' : TargetOf(i)' = links'[i].asked
  BY <1>1 DEF IInv, RoutesKept
<1>7. \A i \in Live : TargetOf(i) = links[i].asked
  BY DEF IInv, RoutesKept
<1>8. Connected' = {<<links'[i].source, links'[i].asked>> : i \in Live'}
  BY <1>6 DEF Connected
<1>9. Connected = {<<links[i].source, links[i].asked>> : i \in Live}
  BY <1>7 DEF Connected
<1> QED
  BY <1>2, <1>3, <1>5, <1>8, <1>9

\* A link that is removed is a route taken away, if no slot is freed.
LEMMA RemoveDisconnects ==
  ASSUME IInv, IInv', NEW i \in Live, RemoveLink(i), ~ freed, ~ freed'
  PROVE  \E r \in Connected : Connected' = Connected \ {r}
<1>1. /\ numLinks - 1 \in Live
      /\ \A j \in Live' : /\ j \in Live
                          /\ j # numLinks - 1
                          /\ links'[j] = IF j = i THEN links[numLinks - 1]
                                                  ELSE links[j]
  BY DroppedLink DEF RemoveLink, IInv
<1>2. \A j \in Live : j # numLinks - 1 => j \in Live'
  BY TablesAssumption DEF RemoveLink, Live, IInv, TablesTypeOK
<1>3. Connected' = {<<links'[j].source, links'[j].asked>> : j \in Live'}
  BY DEF IInv, RoutesKept, Connected
<1>4. Connected = {<<links[j].source, links[j].asked>> : j \in Live}
  BY DEF IInv, RoutesKept, Connected
<1> DEFINE r == <<links[i].source, links[i].asked>>
<1>5. \A j \in Live : <<links[j].source, links[j].asked>> = r => j = i
  BY DEF IInv, NoDuplicateLink
<1>6. ASSUME NEW j \in Live'
      PROVE  \E k \in Live \ {i} : links'[j] = links[k]
  BY <1>1
<1>7. ASSUME NEW k \in Live \ {i}
      PROVE  \E j \in Live' : links'[j] = links[k]
  <2>1. CASE k = numLinks - 1
    BY <1>1, <1>2, <2>1
  <2>2. CASE k # numLinks - 1
    BY <1>1, <1>2, <2>2
  <2> QED
    BY <2>1, <2>2
<1>8. Connected' = {<<links[k].source, links[k].asked>> : k \in Live \ {i}}
  BY <1>3, <1>6, <1>7
<1>9. Connected' = Connected \ {r}
  BY <1>4, <1>5, <1>8
<1> QED
  BY <1>4, <1>9

\* A step that leaves sources and routes of the links alone.
LEMMA SameRoutes ==
  ASSUME IInv, UNCHANGED <<numLinks, paramInfos>>,
         \A i \in Live : /\ links'[i].source = links[i].source
                         /\ links'[i].info = links[i].info
  PROVE  Connected' = Connected
<1>1. Live' = Live
  BY DEF Live
<1> QED
  BY <1>1 DEF Connected, TargetOf

\* The abstract specification counts with the same operator.
LEMMA SameCardinality == \A S : Routes!Cardinality(S) = Cardinality(S)
  BY DEF Cardinality, Routes!Cardinality

\* Every step makes, takes away or loses routes as ModulationRoutes says.
LEMMA StepRefines ==
  ASSUME IInv, IInv', RoutesFit, RoutesFit', [Next]_vars
  PROVE  [Routes!RoutesNext]_(Routes!rvars)
<1>0. Routes!rvars = <<Connected, ~ freed>>
  BY DEF Routes!rvars, Connected
<1>0p. Routes!rvars' = <<Connected', ~ freed'>>
  BY DEF Routes!rvars, Connected
<1>1. /\ freed \in BOOLEAN /\ freed' \in BOOLEAN
      /\ MaxModulations \in Nat /\ numLinks \in Nat
  BY TablesAssumption DEF IInv, TablesTypeOK
<1>2. /\ Connected \subseteq Modulators \X Params
      /\ Connected' \subseteq Modulators \X Params
      /\ Cardinality(Connected) \in Nat /\ Cardinality(Connected') \in Nat
      /\ Cardinality(Connected') <= numLinks'
      /\ numLinks' \in 0 .. MaxModulations
      /\ ~ freed => Cardinality(Connected) = numLinks
  BY DEF RoutesFit
<1>3. /\ Routes!Cardinality(Connected) = Cardinality(Connected)
      /\ Routes!Cardinality(Connected') = Cardinality(Connected')
  BY SameCardinality
<1>4. CASE freed /\ freed'
  <2>1. Routes!Cardinality(Connected') <= MaxModulations
    BY <1>1, <1>2, <1>3
  <2>2. Routes!Drift
    BY <1>2, <1>4, <2>1 DEF Routes!Drift, Connected
  <2> QED
    BY <2>2 DEF Routes!RoutesNext
<1>5. ASSUME NEW s \in Modulators, NEW p \in Params, AddNewLink(s, p), ~ freed
      PROVE  Routes!RoutesNext \/ UNCHANGED Routes!rvars
  <2>1. freed' = freed
    BY <1>5 DEF AddNewLink
  <2>2. CASE ~ OverrunParamInfos(p)
    <3>1. /\ Connected' = Connected \cup {<<s, p>>}
          /\ <<s, p>> \notin Connected
          /\ Routes!Cardinality(Connected) < MaxModulations
      BY <1>3, <1>5, <2>2, AddConnects
    <3>2. Routes!Connect(s, p)
      BY <1>5, <2>1, <3>1 DEF Routes!Connect, Connected
    <3> QED
      BY <3>2 DEF Routes!RoutesNext
  <2>3. CASE OverrunParamInfos(p)
    <3>1. Connected' = Connected
      BY <2>3, SameRoutes DEF OverrunParamInfos
    <3> QED
      BY <1>0, <1>0p, <2>1, <3>1
  <2> QED
    BY <2>2, <2>3
<1>6. ASSUME NEW i \in Live, RemoveLink(i), ~ freed
      PROVE  Routes!RoutesNext
  <2>1. CASE ~ freed'
    <3>1. PICK r \in Connected : Connected' = Connected \ {r}
      BY <1>6, <2>1, RemoveDisconnects
    <3>2. Routes!Disconnect(r) /\ r \in {<<links[j].source, TargetOf(j)>> : j \in Live}
      BY <1>6, <2>1, <3>1 DEF Routes!Disconnect, Connected
    <3> QED
      BY <3>2 DEF Routes!RoutesNext
  <2>2. CASE freed'
    <3>1. numLinks' < numLinks
      BY <1>1, <1>6 DEF RemoveLink
    <3>2. Cardinality(Connected') < Cardinality(Connected)
      BY <1>1, <1>2, <1>6, <3>1
    <3>3. Connected # {}
      BY <1>6 DEF Connected
    <3>4. Routes!LoseTrack
      BY <1>2, <1>3, <1>6, <2>2, <3>2, <3>3 DEF Routes!LoseTrack, Connected
    <3> QED
      BY <3>4 DEF Routes!RoutesNext
  <2> QED
    BY <1>1, <2>1, <2>2
<1>7. ASSUME RemoveAllLinks
      PROVE  Routes!RoutesNext
  <2>1. Connected' = {} /\ freed' = freed
    BY <1>7 DEF RemoveAllLinks, Live, Connected
  <2>2. Routes!DisconnectAll
    BY <2>1 DEF Routes!DisconnectAll, Connected
  <2> QED
    BY <2>2 DEF Routes!RoutesNext
<1>8. ASSUME NEW i \in Live, EditLink(i)
      PROVE  UNCHANGED Routes!rvars
  <2>1. Live \subseteq Slots
    BY TablesAssumption DEF Live, Slots, IInv, TablesTypeOK
  <2>2. \A j \in Live : links'[j].source = links[j].source /\ links'[j].info = links[j].info
    BY <1>8, <2>1, AmountsAssumption DEF EditLink, IInv, TablesTypeOK, Link
  <2>3. Connected' = Connected /\ freed' = freed
    BY <1>8, <2>2, SameRoutes DEF EditLink
  <2> QED
    BY <1>0, <1>0p, <2>3
<1>9. ASSUME UNCHANGED <<links, numLinks, paramInfos, freed>>
      PROVE  UNCHANGED Routes!rvars
  <2>1. Connected' = Connected
    BY <1>9, SameRoutes
  <2> QED
    BY <1>0, <1>0p, <1>9, <2>1
<1>10. freed => freed'
  BY DEF Next, AddNewLink, RemoveLink, KeepParamInfo, FreeParamInfo,
     RemoveAllLinks, EditLink, Tick, vars
<1>11. CASE ~ freed
  <2>1. CASE UNCHANGED vars
    BY <1>9, <2>1 DEF vars
  <2>2. ASSUME NEW out \in [Modulators -> {0, One}], Tick(out)
        PROVE  UNCHANGED Routes!rvars
    BY <1>9, <2>2 DEF Tick
  <2> QED
    BY <1>5, <1>6, <1>7, <1>8, <1>11, <2>1, <2>2 DEF Next
<1> QED
  BY <1>1, <1>4, <1>10, <1>11

\* Seen through its own pointers the bank is a set of routes, made and taken
\* away one at a time until a removal loses track of them, and never more
\* than the table holds.
THEOREM RefinesRoutesHolds == Spec => RefinesRoutes
<1>1. Init => Routes!RoutesInit
  BY DEF Init, Live, Routes!RoutesInit
<1>2. IInv => RoutesFit
  BY ConnectedCounted
<1>3. /\ IInv /\ IInv' /\ RoutesFit /\ RoutesFit' /\ [Next]_vars
      => [Routes!RoutesNext]_(Routes!rvars)
  BY StepRefines
<1> QED
  BY <1>1, <1>2, <1>3, Invariance, PTL DEF Spec, RefinesRoutes, Routes!RoutesSpec

-----------------------------------------------------------------------------
(***************************************************************************)
(* ChargesConserved: what the counts add up to.                            *)
(***************************************************************************)
\* Until a slot is freed every registered slot has a count left.
ChargesInv ==
  /\ ~ freed => \A k \in LiveInfos : paramInfos[k].numLinks >= 1
  /\ ChargesConserved

LEMMA CountsOK ==
  ASSUME TablesTypeOK
  PROVE  /\ LiveInfos \subseteq Slots /\ IsFiniteSet(LiveInfos)
         /\ Cardinality(LiveInfos) = numParamInfos
         /\ numLinks \in Nat /\ numParamInfos \in Nat
         /\ \A k \in Slots : Counts[k] = paramInfos[k].numLinks /\ Counts[k] \in Nat
                             /\ Counts[k] < CountModulus
<1>1. /\ numLinks \in Nat /\ numParamInfos \in Nat
      /\ numParamInfos <= MaxModulations /\ MaxModulations \in Nat
  BY TablesAssumption DEF TablesTypeOK
<1>2. LiveInfos \subseteq Slots
  BY <1>1 DEF LiveInfos, Slots
<1>3. IsFiniteSet(LiveInfos) /\ Cardinality(LiveInfos) = numParamInfos
  <2>1. 0 \in Int /\ numParamInfos - 1 \in Int
    BY <1>1
  <2>2. /\ IsFiniteSet(0 .. numParamInfos - 1)
        /\ Cardinality(0 .. numParamInfos - 1) =
             IF 0 > numParamInfos - 1 THEN 0 ELSE numParamInfos - 1 - 0 + 1
    BY <2>1, FS_Interval
  <2> QED
    BY <1>1, <2>2 DEF LiveInfos
<1>4. ASSUME NEW k \in Slots
      PROVE  Counts[k] = paramInfos[k].numLinks /\ paramInfos[k].numLinks \in 0 .. CountModulus - 1
  BY DEF Counts, TablesTypeOK, ParamRegInfo
<1> QED
  BY <1>1, <1>2, <1>3, <1>4, CountFits

\* No slot has more links counted than there are, but for its own one.
LEMMA CountBound ==
  ASSUME TablesTypeOK, ChargesInv, ~ freed, NEW k \in LiveInfos
  PROVE  paramInfos[k].numLinks <= numLinks + 1
<1>1. /\ LiveInfos \subseteq Slots /\ IsFiniteSet(LiveInfos)
      /\ Cardinality(LiveInfos) = numParamInfos
      /\ numLinks \in Nat /\ numParamInfos \in Nat
      /\ \A j \in Slots : Counts[j] = paramInfos[j].numLinks /\ Counts[j] \in Nat
  BY CountsOK
<1> DEFINE rest == LiveInfos \ {k}
           r == SumFunctionOnSet(Counts, rest)
<1>2. IsFiniteSet(rest) /\ Cardinality(rest) = numParamInfos - 1
  BY <1>1, FS_RemoveElement
<1>3. SumFunctionOnSet(Counts, LiveInfos) = Counts[k] + r
  BY <1>1, SumSplits
<1>4. r \in Int
  BY <1>1, <1>2, SumSplits
<1>5. 1 * Cardinality(rest) <= r
  <2> DEFINE top == CountModulus
  <2>1. \A x \in rest : Counts[x] \in Int /\ 1 <= Counts[x] /\ Counts[x] <= CountModulus
    BY <1>1, CountsOK, CountFits DEF ChargesInv
  <2>2. 1 \in Int /\ CountModulus \in Int
    BY CountFits
  <2> HIDE DEF rest
  <2> QED
    BY <1>2, <2>1, <2>2, SumBounded
<1>6. SumFunctionOnSet(Counts, LiveInfos) = numLinks + numParamInfos
  BY DEF ChargesInv, ChargesConserved
<1>7. paramInfos[k].numLinks = Counts[k] /\ Counts[k] \in Nat
  BY <1>1
<1> HIDE DEF r, rest
<1> QED
  BY <1>1, <1>2, <1>3, <1>4, <1>5, <1>6, <1>7

\* Counting a slot up or down, without a wrap, changes the sum by as much.
LEMMA CountMoves ==
  ASSUME TablesTypeOK, TablesTypeOK', NEW k \in LiveInfos, LiveInfos' = LiveInfos,
         \A j \in Slots \ {k} : paramInfos'[j] = paramInfos[j]
  PROVE  SumFunctionOnSet(Counts', LiveInfos') =
           SumFunctionOnSet(Counts, LiveInfos) + paramInfos'[k].numLinks - paramInfos[k].numLinks
<1>1. /\ LiveInfos \subseteq Slots /\ IsFiniteSet(LiveInfos)
      /\ \A j \in Slots : Counts[j] = paramInfos[j].numLinks /\ Counts[j] \in Nat
  BY CountsOK
<1>2. \A j \in Slots : Counts'[j] = paramInfos'[j].numLinks /\ Counts'[j] \in Int
  <2>1. ASSUME NEW j \in Slots
        PROVE  /\ Counts'[j] = paramInfos'[j].numLinks
               /\ paramInfos'[j].numLinks \in 0 .. CountModulus - 1
    BY DEF Counts, TablesTypeOK, ParamRegInfo
  <2> QED
    BY <2>1, CountFits
<1>3. \A j \in LiveInfos \ {k} : Counts'[j] = Counts[j]
  BY <1>1, <1>2
<1>4. \A j \in LiveInfos : Counts[j] \in Int /\ Counts'[j] \in Int
  BY <1>1, <1>2
<1>5. SumFunctionOnSet(Counts', LiveInfos) =
        SumFunctionOnSet(Counts, LiveInfos) + Counts'[k] - Counts[k]
  BY <1>1, <1>3, <1>4, SumChanges
<1>6. Counts'[k] = paramInfos'[k].numLinks /\ Counts[k] = paramInfos[k].numLinks
  BY <1>1, <1>2
<1> QED
  BY <1>5, <1>6

LEMMA JoinCharges ==
  ASSUME IInv, ChargesInv, IInv', NEW s \in Modulators, NEW p \in Params, CanAdd(s, p),
         JoinParamInfo(s, p), UNCHANGED freed
  PROVE  ChargesInv'
<1> SUFFICES ASSUME ~ freed PROVE ChargesInv'
  BY DEF ChargesInv, ChargesConserved
<1>1. PICK k \in LiveInfos :
        /\ paramInfos' = [paramInfos EXCEPT ![k].numLinks = (@ + 1) % CountModulus]
        /\ numLinks' = numLinks + 1
        /\ numParamInfos' = numParamInfos
  BY DEF JoinParamInfo, PlaceLink
<1>2. /\ LiveInfos \subseteq Slots /\ numLinks \in Nat /\ numParamInfos \in Nat
      /\ \A j \in Slots : paramInfos[j].numLinks \in Nat
  BY CountsOK DEF IInv
<1>3. LiveInfos' = LiveInfos
  BY <1>1 DEF LiveInfos
<1>4. paramInfos[k].numLinks <= numLinks + 1
  BY CountBound DEF IInv
<1>5. (paramInfos[k].numLinks + 1) % CountModulus = paramInfos[k].numLinks + 1
  <2>1. numLinks < MaxModulations
    BY DEF CanAdd
  <2>2. /\ paramInfos[k].numLinks + 1 \in Int /\ 0 <= paramInfos[k].numLinks + 1
        /\ paramInfos[k].numLinks + 1 < CountModulus
    BY <1>2, <1>4, <2>1, CountFits
  <2>3. CountModulus \in Nat /\ CountModulus > 0
    BY CountFits
  <2> QED
    BY <2>2, <2>3, Wraps
<1>6. /\ paramInfos'[k].numLinks = paramInfos[k].numLinks + 1
      /\ \A j \in Slots \ {k} : paramInfos'[j] = paramInfos[j]
  BY <1>1, <1>2, <1>5 DEF IInv, TablesTypeOK, ParamRegInfo
<1>7. SumFunctionOnSet(Counts', LiveInfos') = SumFunctionOnSet(Counts, LiveInfos)
        + paramInfos'[k].numLinks - paramInfos[k].numLinks
  BY <1>3, <1>6, CountMoves DEF IInv
<1>8. SumFunctionOnSet(Counts, LiveInfos) = numLinks + numParamInfos
  BY DEF ChargesInv, ChargesConserved
<1>9. SumFunctionOnSet(Counts', LiveInfos') = numLinks' + numParamInfos'
  BY <1>1, <1>2, <1>6, <1>7, <1>8
<1>10. \A j \in LiveInfos : paramInfos'[j].numLinks >= 1
  <2>1. \A j \in LiveInfos : paramInfos[j].numLinks >= 1
    BY DEF ChargesInv
  <2> QED
    BY <1>2, <1>6, <2>1
<1> QED
  BY <1>3, <1>9, <1>10 DEF ChargesInv, ChargesConserved

LEMMA RegisterCharges ==
  ASSUME IInv, ChargesInv, IInv', NEW s \in Modulators, NEW p \in Params,
         NewParamInfo(s, p), UNCHANGED freed
  PROVE  ChargesInv'
<1> SUFFICES ASSUME ~ freed PROVE ChargesInv'
  BY DEF ChargesInv, ChargesConserved
<1> DEFINE n == numParamInfos
<1>1. /\ paramInfos' = [paramInfos EXCEPT ![n] =
                         [param |-> p, numLinks |-> (1 + 1) % CountModulus]]
      /\ n < MaxModulations
      /\ numParamInfos' = n + 1
      /\ numLinks' = numLinks + 1
  BY DEF NewParamInfo, PlaceLink, FreshSlot, FirstCount
<1>2. /\ LiveInfos \subseteq Slots /\ IsFiniteSet(LiveInfos)
      /\ numLinks \in Nat /\ n \in Nat
      /\ \A j \in Slots : Counts[j] = paramInfos[j].numLinks /\ Counts[j] \in Nat
  BY CountsOK DEF IInv
<1>3. n \in Slots /\ n \notin LiveInfos /\ LiveInfos' = LiveInfos \cup {n}
  BY <1>1, <1>2, CountFits DEF Slots, LiveInfos
<1>4. (1 + 1) % CountModulus = 2
  BY CountFits, Wraps
<1>5. /\ paramInfos'[n].numLinks = 2
      /\ \A j \in Slots \ {n} : paramInfos'[j] = paramInfos[j]
  BY <1>1, <1>3, <1>4 DEF IInv, TablesTypeOK
<1>6. \A j \in Slots : Counts'[j] = paramInfos'[j].numLinks
  BY DEF Counts
<1>7. \A j \in LiveInfos : Counts'[j] = Counts[j]
  BY <1>2, <1>3, <1>5, <1>6
<1>8. \A j \in LiveInfos \cup {n} : Counts'[j] \in Int
  BY <1>2, <1>3, <1>5, <1>6, <1>7
<1>9. SumFunctionOnSet(Counts', LiveInfos \cup {n}) =
        SumFunctionOnSet(Counts', LiveInfos) + Counts'[n]
  BY <1>2, <1>3, <1>8, SumGrows
<1>10. SumFunctionOnSet(Counts', LiveInfos) = SumFunctionOnSet(Counts, LiveInfos)
  BY <1>2, <1>7, SumAgree
<1>11. SumFunctionOnSet(Counts, LiveInfos) = numLinks + n
  BY DEF ChargesInv, ChargesConserved
<1>12. Counts'[n] = 2
  BY <1>3, <1>5, <1>6
<1>13. SumFunctionOnSet(Counts', LiveInfos') = numLinks' + numParamInfos'
  BY <1>1, <1>2, <1>3, <1>9, <1>10, <1>11, <1>12
<1>14. ASSUME NEW j \in LiveInfos'
       PROVE  paramInfos'[j].numLinks >= 1
  <2>1. CASE j = n
    BY <1>5, <2>1
  <2>2. CASE j # n
    <3>1. j \in LiveInfos /\ j \in Slots
      BY <1>2, <1>3, <2>2
    <3>2. paramInfos'[j] = paramInfos[j]
      BY <1>5, <2>2, <3>1
    <3> QED
      BY <3>1, <3>2 DEF ChargesInv
  <2> QED
    BY <2>1, <2>2
<1> QED
  BY <1>13, <1>14 DEF ChargesInv, ChargesConserved

\* Until a slot is freed the slot charged is a registered one.
LEMMA KeepCharges ==
  ASSUME IInv, ChargesInv, IInv', NEW i \in Live, numLinks' = numLinks - 1,
         KeepParamInfo(ChargedInfo)
  PROVE  ChargesInv'
<1> SUFFICES ASSUME ~ freed PROVE ChargesInv'
  BY DEF ChargesInv, ChargesConserved, KeepParamInfo
<1> DEFINE k == ChargedInfo
<1>1. /\ LiveInfos \subseteq Slots /\ numLinks \in Nat /\ numParamInfos \in Nat
      /\ \A j \in Slots : paramInfos[j].numLinks \in Nat /\ paramInfos[j].numLinks < CountModulus
  BY CountsOK DEF IInv
<1>2. k \in LiveInfos
  BY <1>1 DEF IInv, RoutesKept, Live, ChargedInfo
<1>3. /\ paramInfos' = Discharge(k)
      /\ UNCHANGED <<numParamInfos, freed>>
      /\ CountLeft(k) # 0
  BY DEF KeepParamInfo
<1> HIDE DEF k
<1>4. paramInfos[k].numLinks >= 1
  BY <1>2 DEF ChargesInv
<1>5. CountLeft(k) = paramInfos[k].numLinks - 1
  <2> DEFINE c == paramInfos[k].numLinks
             w == c + CountModulus - 1
  <2>1. /\ w \in Int /\ - CountModulus <= w /\ w < 2 * CountModulus /\ ~ (w < 0)
        /\ ~ (w < CountModulus) /\ w - CountModulus = c - 1
    BY <1>1, <1>2, <1>4, CountFits
  <2>2. CountModulus \in Nat /\ CountModulus > 0
    BY CountFits
  <2>3. CountLeft(k) = w % CountModulus
    BY DEF CountLeft
  <2> HIDE DEF w
  <2> QED
    BY <2>1, <2>2, <2>3, Wraps
<1>6. LiveInfos' = LiveInfos
  BY <1>3 DEF LiveInfos
<1>7. /\ paramInfos'[k].numLinks = paramInfos[k].numLinks - 1
      /\ \A j \in Slots \ {k} : paramInfos'[j] = paramInfos[j]
  BY <1>1, <1>2, <1>3, <1>5 DEF Discharge, IInv, TablesTypeOK, ParamRegInfo
<1>8. SumFunctionOnSet(Counts', LiveInfos') = SumFunctionOnSet(Counts, LiveInfos)
        + paramInfos'[k].numLinks - paramInfos[k].numLinks
  BY <1>2, <1>6, <1>7, CountMoves DEF IInv
<1>9. SumFunctionOnSet(Counts, LiveInfos) = numLinks + numParamInfos
  BY DEF ChargesInv, ChargesConserved
<1>10. SumFunctionOnSet(Counts', LiveInfos') = numLinks' + numParamInfos'
  BY <1>1, <1>2, <1>3, <1>7, <1>8, <1>9
<1>11. \A j \in LiveInfos : paramInfos'[j].numLinks >= 1
  <2>1. \A j \in LiveInfos : paramInfos[j].numLinks >= 1
    BY DEF ChargesInv
  <2> QED
    BY <1>1, <1>2, <1>3, <1>4, <1>5, <1>7, <2>1
<1> QED
  BY <1>6, <1>10, <1>11 DEF ChargesInv, ChargesConserved

LEMMA ChargesStep ==
  ASSUME IInv, IInv', ChargesInv, [Next]_vars
  PROVE  ChargesInv'
<1>1. CASE \E s \in Modulators, p \in Params : AddNewLink(s, p)
  <2>1. PICK s \in Modulators, p \in Params : AddNewLink(s, p)
    BY <1>1
  <2>2. CASE JoinParamInfo(s, p)
    BY <2>1, <2>2, JoinCharges DEF AddNewLink
  <2>3. CASE NewParamInfo(s, p)
    BY <2>1, <2>3, RegisterCharges DEF AddNewLink
  <2>4. CASE OverrunParamInfos(p)
    BY <2>1, <2>4
    DEF AddNewLink, OverrunParamInfos, ChargesInv, ChargesConserved, Counts, LiveInfos
  <2> QED
    BY <2>1, <2>2, <2>3, <2>4 DEF AddNewLink
<1>2. CASE \E i \in Live : RemoveLink(i)
  <2>1. PICK i \in Live : RemoveLink(i)
    BY <1>2
  <2>2. CASE KeepParamInfo(ChargedInfo)
    BY <2>1, <2>2, KeepCharges DEF RemoveLink
  <2>3. CASE FreeParamInfo(ChargedInfo)
    BY <2>3 DEF FreeParamInfo, ChargesInv, ChargesConserved
  <2> QED
    BY <2>1, <2>2, <2>3 DEF RemoveLink
<1>3. CASE RemoveAllLinks
  <2>1. LiveInfos' = {} /\ numLinks' = 0 /\ numParamInfos' = 0
    BY <1>3 DEF RemoveAllLinks, LiveInfos
  <2>2. SumFunctionOnSet(Counts', {}) = 0
    BY SumEmpty
  <2> QED
    BY <2>1, <2>2 DEF ChargesInv, ChargesConserved
<1>4. CASE UNCHANGED <<numLinks, paramInfos, numParamInfos, freed>>
  BY <1>4 DEF ChargesInv, ChargesConserved, Counts, LiveInfos
<1>5. (\E i \in Live : EditLink(i)) => UNCHANGED <<numLinks, paramInfos, numParamInfos, freed>>
  BY DEF EditLink
<1>6. (\E out \in [Modulators -> {0, One}] : Tick(out))
        => UNCHANGED <<numLinks, paramInfos, numParamInfos, freed>>
  BY DEF Tick
<1>7. UNCHANGED vars => UNCHANGED <<numLinks, paramInfos, numParamInfos, freed>>
  BY DEF vars
<1> QED
  BY <1>1, <1>2, <1>3, <1>4, <1>5, <1>6, <1>7 DEF Next

\* RemoveLink charges the wrong slot, but until a slot is freed no count gets
\* lost or invented: the counts of the registered slots add up to the live
\* links and one for each slot.
THEOREM ChargesConservedHolds == Spec => []ChargesConserved
<1>1. Init => ChargesInv
  <2> SUFFICES ASSUME Init PROVE ChargesInv
    OBVIOUS
  <2>1. LiveInfos = {} /\ numLinks = 0 /\ numParamInfos = 0
    BY DEF Init, LiveInfos
  <2>2. SumFunctionOnSet(Counts, {}) = 0
    BY SumEmpty
  <2> QED
    BY <2>1, <2>2 DEF ChargesInv, ChargesConserved
<1>2. IInv /\ IInv' /\ ChargesInv /\ [Next]_vars => ChargesInv'
  BY ChargesStep
<1>3. ChargesInv => ChargesConserved
  BY DEF ChargesInv
<1> QED
  BY <1>1, <1>2, <1>3, Invariance, PTL DEF Spec

-----------------------------------------------------------------------------
(***************************************************************************)
(* FreesOnlyRegistered: a slot that left the prefix had count zero, so stale *)
(* links can only take its count below it, to the top of its range, and they *)
(* are too few to bring it down to zero again: each charge takes a link away *)
(* or moves it down by a place.  So below zero plus the places of the links *)
(* to it never exceed the square of the table's length.                    *)
(***************************************************************************)
\* How far the count of a slot no longer registered has gone below zero.
Debt(k) == IF paramInfos[k].numLinks = 0 THEN 0 ELSE CountModulus - paramInfos[k].numLinks

\* The links to slot k, each with its position: they only move down.
Weights(k) == [i \in Slots |-> IF i \in Live /\ links[i].info = k THEN i + 1 ELSE 0]
Weight(k) == SumFunctionOnSet(Weights(k), Slots)

StaleInv == \A k \in Slots \ LiveInfos :
              Debt(k) + Weight(k) <= MaxModulations * MaxModulations

LEMMA SlotsFinite ==
  /\ IsFiniteSet(Slots) /\ Cardinality(Slots) = MaxModulations
  /\ MaxModulations \in Nat \ {0}
<1>1. MaxModulations \in Nat \ {0} /\ 0 \in Int /\ MaxModulations - 1 \in Int
  BY TablesAssumption
<1>2. /\ IsFiniteSet(0 .. MaxModulations - 1)
      /\ Cardinality(0 .. MaxModulations - 1) =
           IF 0 > MaxModulations - 1 THEN 0 ELSE MaxModulations - 1 - 0 + 1
  BY <1>1, FS_Interval
<1> QED
  BY <1>1, <1>2 DEF Slots

LEMMA SlotSum ==
  ASSUME NEW f, \A i \in Slots : f[i] \in 0 .. MaxModulations
  PROVE  /\ SumFunctionOnSet(f, Slots) \in Int
         /\ 0 <= SumFunctionOnSet(f, Slots)
         /\ SumFunctionOnSet(f, Slots) <= MaxModulations * MaxModulations
<1>1. \A i \in Slots : f[i] \in Int /\ 0 <= f[i] /\ f[i] <= MaxModulations
  OBVIOUS
<1>2. SumFunctionOnSet(f, Slots) \in Int
  BY <1>1, SlotsFinite, SumSplits
<1>3. /\ 0 * Cardinality(Slots) <= SumFunctionOnSet(f, Slots)
      /\ SumFunctionOnSet(f, Slots) <= MaxModulations * Cardinality(Slots)
  <2>1. 0 \in Int /\ MaxModulations \in Int
    BY SlotsFinite
  <2> QED
    BY <1>1, <2>1, SlotsFinite, SumBounded
<1>4. 0 * Cardinality(Slots) = 0
  BY SlotsFinite
<1> QED
  BY <1>2, <1>3, <1>4, SlotsFinite

\* The weights are positions, from 1, or 0.
LEMMA WeightsOK ==
  ASSUME NEW k
  PROVE  /\ \A i \in Slots : Weights(k)[i] \in 0 .. MaxModulations
         /\ \A i \in Slots : Weights(k)'[i] \in 0 .. MaxModulations
<1>1. \A i \in Slots : i + 1 \in 0 .. MaxModulations /\ 0 \in 0 .. MaxModulations
  BY SlotsFinite DEF Slots
<1>2. \A i \in Slots : Weights(k)[i] \in {0, i + 1} /\ Weights(k)'[i] \in {0, i + 1}
  BY DEF Weights
<1> QED
  BY <1>1, <1>2

LEMMA WeightBounds ==
  ASSUME NEW k
  PROVE  /\ Weight(k) \in Int /\ 0 <= Weight(k)
         /\ Weight(k)' \in Int /\ Weight(k)' <= MaxModulations * MaxModulations
<1>1. /\ Weight(k) = SumFunctionOnSet(Weights(k), Slots)
      /\ Weight(k)' = SumFunctionOnSet(Weights(k)', Slots)
  BY DEF Weight, Slots
<1> QED
  BY <1>1, WeightsOK, SlotSum

\* A count that reaches zero is the count of a registered slot.
LEMMA FreedRegistered ==
  ASSUME IInv, StaleInv, NEW i \in Live, CountLeft(ChargedInfo) = 0
  PROVE  ChargedInfo \in LiveInfos
<1> DEFINE k == ChargedInfo
           c == paramInfos[k].numLinks
           n == numLinks - 1
           B == MaxModulations * MaxModulations
<1> SUFFICES ASSUME k \notin LiveInfos PROVE FALSE
  OBVIOUS
<1>1. n \in Live /\ n \in Slots
  <2>1. /\ numLinks \in Nat /\ numLinks <= MaxModulations /\ numLinks > 0
        /\ MaxModulations \in Nat
    BY TablesAssumption DEF IInv, TablesTypeOK, Live
  <2> QED
    BY <2>1 DEF Live, Slots
<1>2. k \in Slots /\ links[n].info = k
  BY <1>1 DEF IInv, LiveSound, ChargedInfo
<1>3. c \in 0 .. CountModulus - 1
  BY <1>2 DEF IInv, TablesTypeOK, ParamRegInfo
<1>4. c = 1
  <2> DEFINE w == c + CountModulus - 1
  <2>1. w \in Int /\ - CountModulus <= w /\ w < 2 * CountModulus /\ ~ (w < 0)
    BY <1>3, CountFits
  <2>2. CountModulus \in Nat /\ CountModulus > 0
    BY CountFits
  <2>3. w % CountModulus = IF w < CountModulus THEN w ELSE w - CountModulus
    BY <2>1, <2>2, Wraps
  <2>4. w % CountModulus = 0
    BY DEF CountLeft
  <2> QED
    BY <1>3, <2>3, <2>4, CountFits
<1>5. Debt(k) + Weight(k) <= B
  BY <1>2 DEF StaleInv
<1>6. Debt(k) = CountModulus - 1
  BY <1>4 DEF Debt
<1>7. Weight(k) >= 0 /\ Weight(k) \in Int
  BY WeightBounds
<1>8. CountModulus > B + 1 /\ CountModulus \in Nat /\ B \in Nat
  BY CountAssumption, SlotsFinite, SquareGrows
<1> HIDE DEF B, k
<1> QED
  BY <1>5, <1>6, <1>7, <1>8

\* The weight of a slot when the link at the end moves into slot i: it falls
\* if that link points there, and does not rise if not.
LEMMA WeightFalls ==
  ASSUME IInv, IInv', NEW i \in Live, links' = DropLink(i), numLinks' = numLinks - 1,
         NEW k \in Slots
  PROVE  IF k = ChargedInfo THEN Weight(k)' <= Weight(k) - 1 ELSE Weight(k)' <= Weight(k)
<1> DEFINE n == numLinks - 1
           f == Weights(k)
           d == Weights(k)'
           h == [j \in Slots |-> IF j = n THEN 0 ELSE f[j]]
<1>1. /\ numLinks \in Nat /\ n \in Live /\ n \in Slots /\ i \in Slots /\ i <= n /\ i \in Nat
      /\ Live' = Live \ {n}
  <2>1. /\ numLinks \in Nat /\ numLinks <= MaxModulations /\ numLinks > 0
        /\ MaxModulations \in Nat
    BY TablesAssumption DEF IInv, TablesTypeOK, Live
  <2> QED
    BY <2>1 DEF Live, Slots
<1>2. \A j \in Live' : links'[j] = IF j = i THEN links[n] ELSE links[j]
  BY DroppedLink DEF IInv
<1>3. /\ \A j \in Slots : f[j] \in Int /\ 0 <= f[j]
      /\ \A j \in Slots : f[j] = IF j \in Live /\ links[j].info = k THEN j + 1 ELSE 0
  <2>1. \A j \in Slots : f[j] \in 0 .. MaxModulations
    BY WeightsOK
  <2> QED
    BY <2>1 DEF Weights
<1>4. \A j \in Slots : d[j] = IF j \in Live' /\ links'[j].info = k THEN j + 1 ELSE 0
  BY DEF Weights
<1>5. \A j \in Slots : h[j] = IF j = n THEN 0 ELSE f[j]
  OBVIOUS
<1>6. Weight(k) = SumFunctionOnSet(f, Slots) /\ Weight(k)' = SumFunctionOnSet(d, Slots)
  BY DEF Weight, Slots
<1>7. ChargedInfo = links[n].info
  BY DEF ChargedInfo
<1> HIDE DEF n, f, d, h
<1>8. \A j \in Slots : h[j] \in Int /\ 0 <= h[j]
  BY <1>3, <1>5
<1>9. \A j \in Slots : d[j] \in Int
  BY <1>4 DEF Slots
<1>10. SumFunctionOnSet(h, Slots) = SumFunctionOnSet(f, Slots) + h[n] - f[n]
  <2>1. \A j \in Slots \ {n} : h[j] = f[j]
    BY <1>5
  <2>2. \A j \in Slots : f[j] \in Int /\ h[j] \in Int
    BY <1>3, <1>8
  <2>3. IsFiniteSet(Slots) /\ n \in Slots
    BY <1>1, SlotsFinite
  <2> QED
    BY <2>1, <2>2, <2>3, SumChanges
<1>11. SumFunctionOnSet(d, Slots) = SumFunctionOnSet(h, Slots) + d[i] - h[i]
  <2>1. ASSUME NEW j \in Slots \ {i}
        PROVE  d[j] = h[j]
    <3>1. CASE j = n
      BY <1>1, <1>4, <1>5, <3>1
    <3>2. CASE j # n /\ j \in Live
      BY <1>1, <1>2, <1>3, <1>4, <1>5, <3>2
    <3>3. CASE j # n /\ j \notin Live
      BY <1>1, <1>3, <1>4, <1>5, <3>3
    <3> QED
      BY <3>1, <3>2, <3>3
  <2>2. \A j \in Slots : h[j] \in Int /\ d[j] \in Int
    BY <1>8, <1>9
  <2>3. IsFiniteSet(Slots) /\ i \in Slots
    BY <1>1, SlotsFinite
  <2>4. \A j \in Slots \ {i} : d[j] = h[j]
    BY <2>1
  <2> QED
    BY <2>2, <2>3, <2>4, SumChanges
<1>12. SumFunctionOnSet(f, Slots) \in Int /\ SumFunctionOnSet(h, Slots) \in Int
  BY <1>3, <1>8, SlotsFinite, SumSplits
<1>13. /\ h[n] = 0 /\ h[i] \in Int /\ h[i] >= 0
       /\ f[n] = IF ChargedInfo = k THEN n + 1 ELSE 0
  BY <1>1, <1>3, <1>5, <1>7, <1>8
<1>14. d[i] = IF i # n /\ ChargedInfo = k THEN i + 1 ELSE 0
  <2>1. CASE i = n
    BY <1>1, <1>4, <2>1
  <2>2. CASE i # n
    BY <1>1, <1>2, <1>4, <1>7, <2>2
  <2> QED
    BY <2>1, <2>2
<1>15. n \in Int
  BY <1>1
<1>16. CASE k = ChargedInfo
  <2>1. d[i] <= n /\ d[i] \in Int
    BY <1>1, <1>14, <1>15, <1>16
  <2>2. f[n] = n + 1
    BY <1>13, <1>16
  <2> QED
    BY <1>6, <1>10, <1>11, <1>12, <1>13, <1>15, <1>16, <2>1, <2>2
<1>17. CASE k # ChargedInfo
  <2>1. d[i] = 0 /\ f[n] = 0
    BY <1>13, <1>14, <1>17
  <2> QED
    BY <1>6, <1>10, <1>11, <1>12, <1>13, <1>17, <2>1
<1> QED
  BY <1>16, <1>17

\* A slot just dropped, or never used, owes nothing.
LEMMA NoDebt ==
  ASSUME NEW k, paramInfos'[k].numLinks = 0
  PROVE  Debt(k)' + Weight(k)' <= MaxModulations * MaxModulations
<1>1. Debt(k)' = 0
  BY DEF Debt
<1> QED
  BY <1>1, WeightBounds

\* What leaves a slot and the links to it alone.
LEMMA SameDebt ==
  ASSUME NEW k \in Slots, paramInfos'[k].numLinks = paramInfos[k].numLinks,
         \A i \in Slots : i \in Live' /\ links'[i].info = k <=> i \in Live /\ links[i].info = k
  PROVE  Debt(k)' = Debt(k) /\ Weight(k)' = Weight(k)
<1>1. Debt(k)' = Debt(k)
  BY DEF Debt
<1>2. Weights(k)' = Weights(k)
  BY DEF Weights, Slots
<1> QED
  BY <1>1, <1>2 DEF Weight, Slots

LEMMA AddStale ==
  ASSUME IInv, IInv', StaleInv, NEW s \in Modulators, NEW p \in Params, AddNewLink(s, p)
  PROVE  StaleInv'
<1>1. CASE OverrunParamInfos(p)
  <2>1. UNCHANGED <<links, numLinks, paramInfos, numParamInfos>>
    BY <1>1 DEF OverrunParamInfos
  <2> QED
    BY <2>1 DEF StaleInv, Debt, Weight, Weights, Live, LiveInfos, Slots
<1>2. CASE \E c \in LiveInfos' :
             /\ PlaceLink(s, p, c)
             /\ LiveInfos \subseteq LiveInfos'
             /\ \A j \in Slots \ {c} : paramInfos'[j] = paramInfos[j]
  <2>1. PICK c \in LiveInfos' : /\ PlaceLink(s, p, c)
                               /\ LiveInfos \subseteq LiveInfos'
                               /\ \A j \in Slots \ {c} : paramInfos'[j] = paramInfos[j]
    BY <1>2
  <2>2. c \in Slots
    <3>1. numParamInfos' \in 0 .. MaxModulations /\ MaxModulations \in Nat
      BY SlotsFinite DEF IInv, TablesTypeOK
    <3>2. c \in 0 .. numParamInfos' - 1
      BY <2>1 DEF LiveInfos
    <3>3. \A n \in 0 .. MaxModulations : \A x \in 0 .. n - 1 : x \in Slots
      BY SlotsFinite DEF Slots
    <3> QED
      BY <3>1, <3>2, <3>3
  <2>3. /\ Live' = Live \cup {numLinks}
        /\ \A i \in Live : i # numLinks /\ links'[i] = links[i]
        /\ links'[numLinks].info = c
    BY <2>1, <2>2, PlacedLink DEF IInv, AddNewLink, CanAdd
  <2> SUFFICES ASSUME NEW k \in Slots \ LiveInfos'
               PROVE  Debt(k)' + Weight(k)' <= MaxModulations * MaxModulations
    BY DEF StaleInv, Slots
  <2>4. k \in Slots \ LiveInfos /\ k # c
    BY <2>1
  <2>5. \A i \in Slots : i \in Live' /\ links'[i].info = k <=> i \in Live /\ links[i].info = k
    BY <2>3, <2>4
  <2>6. Debt(k)' = Debt(k) /\ Weight(k)' = Weight(k)
    BY <2>1, <2>4, <2>5, SameDebt
  <2> QED
    BY <2>4, <2>6 DEF StaleInv
<1>3. CASE JoinParamInfo(s, p)
  <2>1. PICK c \in LiveInfos :
          /\ paramInfos' = [paramInfos EXCEPT ![c].numLinks = (@ + 1) % CountModulus]
          /\ PlaceLink(s, p, c)
          /\ numParamInfos' = numParamInfos
    BY <1>3 DEF JoinParamInfo
  <2>2. LiveInfos' = LiveInfos
    BY <2>1 DEF LiveInfos
  <2>3. \A j \in Slots \ {c} : paramInfos'[j] = paramInfos[j]
    BY <2>1 DEF IInv, TablesTypeOK
  <2> QED
    BY <1>2, <2>1, <2>2, <2>3
<1>4. CASE NewParamInfo(s, p)
  <2> DEFINE n == numParamInfos
  <2>1. /\ PlaceLink(s, p, n)
        /\ numParamInfos' = n + 1
        /\ \A j \in Slots \ {n} : paramInfos'[j] = paramInfos[j]
    BY <1>4 DEF NewParamInfo, FreshSlot, IInv, TablesTypeOK
  <2>2. n \in Nat
    BY SlotsFinite DEF IInv, TablesTypeOK
  <2>3. n \in LiveInfos' /\ LiveInfos \subseteq LiveInfos'
    BY <2>1, <2>2 DEF LiveInfos
  <2> QED
    BY <1>2, <2>1, <2>3
<1> QED
  BY <1>1, <1>3, <1>4 DEF AddNewLink

\* The charged count goes down, past zero if need be; the link that led there
\* is gone or has moved down by one place at least.
LEMMA KeepStale ==
  ASSUME IInv, IInv', StaleInv, NEW i \in Live, RemoveLink(i), KeepParamInfo(ChargedInfo)
  PROVE  StaleInv'
<1> DEFINE B == MaxModulations * MaxModulations
<1>1. links' = DropLink(i) /\ numLinks' = numLinks - 1
  BY DEF RemoveLink
<1>2. LiveInfos' = LiveInfos
  BY DEF KeepParamInfo, LiveInfos
<1> SUFFICES ASSUME NEW k \in Slots \ LiveInfos
             PROVE  Debt(k)' + Weight(k)' <= B
  BY <1>2 DEF StaleInv, Slots
<1>3. Debt(k) + Weight(k) <= B
  BY DEF StaleInv
<1>4. IF k = ChargedInfo THEN Weight(k)' <= Weight(k) - 1 ELSE Weight(k)' <= Weight(k)
  BY <1>1, WeightFalls
<1>5. Weight(k) \in Int /\ Weight(k)' \in Int
  BY WeightBounds
<1>6. paramInfos' = Discharge(ChargedInfo) /\ CountLeft(ChargedInfo) # 0
  BY DEF KeepParamInfo
<1>7. paramInfos[k].numLinks \in 0 .. CountModulus - 1 /\ paramInfos \in [Slots -> ParamRegInfo]
  BY DEF IInv, TablesTypeOK, ParamRegInfo
<1>8. Debt(k) \in Int
  BY <1>7, CountFits DEF Debt
<1>9. CASE k # ChargedInfo
  <2>1. paramInfos'[k] = paramInfos[k]
    BY <1>6, <1>7, <1>9 DEF Discharge
  <2>2. Debt(k)' = Debt(k)
    BY <2>1 DEF Debt
  <2>3. B \in Int
    BY SlotsFinite
  <2> HIDE DEF B
  <2> QED
    BY <1>3, <1>4, <1>5, <1>8, <1>9, <2>2, <2>3
<1>10. CASE k = ChargedInfo
  <2> DEFINE c == paramInfos[k].numLinks
             w == c + CountModulus - 1
  <2>1. paramInfos'[k].numLinks = w % CountModulus
    BY <1>6, <1>7, <1>10 DEF Discharge, CountLeft, ParamRegInfo
  <2>2. w % CountModulus # 0
    BY <1>6, <1>10 DEF CountLeft
  <2>3. w % CountModulus = IF w < CountModulus THEN w ELSE w - CountModulus
    <3>1. w \in Int /\ - CountModulus <= w /\ w < 2 * CountModulus /\ ~ (w < 0)
      BY <1>7, CountFits
    <3>2. CountModulus \in Nat /\ CountModulus > 0
      BY CountFits
    <3> QED
      BY <3>1, <3>2, Wraps
  <2>4. c \in Int /\ c >= 0 /\ CountModulus \in Int
    BY <1>7, CountFits
  <2>5. Debt(k)' = CountModulus - paramInfos'[k].numLinks
    BY <2>1, <2>2 DEF Debt
  <2>6. Debt(k)' <= Debt(k) + 1
    <3>1. Debt(k) = IF c = 0 THEN 0 ELSE CountModulus - c
      BY DEF Debt
    <3> HIDE DEF c
    <3> QED
      BY <2>1, <2>2, <2>3, <2>4, <2>5, <3>1
  <2>7. Debt(k)' \in Int
    BY <2>1, <2>3, <2>4, <2>5
  <2>8. B \in Int
    BY SlotsFinite
  <2> HIDE DEF B
  <2> QED
    BY <1>3, <1>4, <1>5, <1>8, <1>10, <2>6, <2>7, <2>8
<1> QED
  BY <1>9, <1>10

\* The freed slot was registered: the slot that leaves the prefix owes nothing.
LEMMA FreeStale ==
  ASSUME IInv, IInv', StaleInv, NEW i \in Live, RemoveLink(i), FreeParamInfo(ChargedInfo)
  PROVE  StaleInv'
<1> DEFINE B == MaxModulations * MaxModulations
           c == ChargedInfo
           last == numParamInfos - 1
<1>1. links' = DropLink(i) /\ numLinks' = numLinks - 1
  BY DEF RemoveLink
<1>2. c \in LiveInfos /\ CountLeft(c) = 0
  BY FreedRegistered DEF FreeParamInfo
<1>3. numParamInfos \in 0 .. MaxModulations /\ numParamInfos # 0
  BY <1>2 DEF IInv, TablesTypeOK, LiveInfos
<1>4. LiveInfos \subseteq Slots /\ last \in LiveInfos
  BY <1>3, SlotsFinite DEF LiveInfos, Slots
<1>5. paramInfos' = Swap(Discharge(c), c, last) /\ numParamInfos' = last
  BY <1>3 DEF FreeParamInfo
<1>6. LiveInfos' = LiveInfos \ {last}
  BY <1>3, <1>5 DEF LiveInfos
<1>7. /\ Discharge(c) \in [Slots -> ParamRegInfo]
      /\ Discharge(c)[c].numLinks = 0
      /\ \A j \in Slots \ {c} : Discharge(c)[j] = paramInfos[j]
  <2>1. TablesTypeOK /\ c \in Slots
    BY <1>2, <1>4 DEF IInv
  <2> HIDE DEF c
  <2> QED
    BY <1>2, <2>1, DischargeOK DEF Discharge, TablesTypeOK, ParamRegInfo
<1> HIDE DEF c, last
<1>8. paramInfos'[last].numLinks = 0
  BY <1>2, <1>4, <1>5, <1>7 DEF Swap
<1> SUFFICES ASSUME NEW k \in Slots, k \notin LiveInfos'
             PROVE  Debt(k)' + Weight(k)' <= B
  BY DEF StaleInv, Slots
<1>9. CASE k = last
  BY <1>8, <1>9, NoDebt
<1>10. CASE k # last
  <2>1. k \notin LiveInfos /\ k # c
    BY <1>2, <1>6, <1>10
  <2>2. paramInfos'[k] = paramInfos[k]
    BY <1>2, <1>4, <1>5, <1>7, <1>10, <2>1 DEF Swap
  <2>3. Debt(k)' = Debt(k)
    BY <2>2 DEF Debt
  <2>4. Debt(k) + Weight(k) <= B
    BY <2>1 DEF StaleInv
  <2>5. Weight(k)' <= Weight(k)
    <3>1. k # ChargedInfo
      BY <2>1 DEF c
    <3> QED
      BY <1>1, <3>1, WeightFalls
  <2>6. Weight(k) \in Int /\ Weight(k)' \in Int
    BY WeightBounds
  <2>7. paramInfos[k].numLinks \in Int
    <3>1. paramInfos[k].numLinks \in 0 .. CountModulus - 1
      BY DEF IInv, TablesTypeOK, ParamRegInfo
    <3> QED
      BY <3>1, CountFits
  <2>8. Debt(k) \in Int /\ B \in Int
    BY <2>7, CountFits, SlotsFinite DEF Debt
  <2> HIDE DEF B
  <2> QED
    BY <2>3, <2>4, <2>5, <2>6, <2>8
<1> QED
  BY <1>9, <1>10

LEMMA EditStale ==
  ASSUME IInv, StaleInv, NEW i \in Live, EditLink(i)
  PROVE  StaleInv'
<1>1. Live' = Live /\ LiveInfos' = LiveInfos /\ paramInfos' = paramInfos /\ Live \subseteq Slots
  <2>1. Live \subseteq Slots
    BY TablesAssumption DEF Live, Slots, IInv, TablesTypeOK
  <2> QED
    BY <2>1 DEF EditLink, Live, LiveInfos
<1>2. \A j \in Slots : links'[j].info = links[j].info
  BY <1>1, AmountsAssumption DEF EditLink, IInv, TablesTypeOK, Link
<1> SUFFICES ASSUME NEW k \in Slots \ LiveInfos
             PROVE  Debt(k)' + Weight(k)' <= MaxModulations * MaxModulations
  BY <1>1 DEF StaleInv, Slots
<1>3. Debt(k)' = Debt(k) /\ Weight(k)' = Weight(k)
  BY <1>1, <1>2, SameDebt
<1> QED
  BY <1>3 DEF StaleInv

LEMMA StaleUnchanged ==
  ASSUME StaleInv, UNCHANGED <<links, numLinks, paramInfos, numParamInfos>>
  PROVE  StaleInv'
BY DEF StaleInv, Debt, Weight, Weights, Live, LiveInfos, Slots

LEMMA StaleStep == IInv /\ IInv' /\ StaleInv /\ [Next]_vars => StaleInv'
<1> SUFFICES ASSUME IInv, IInv', StaleInv, [Next]_vars PROVE StaleInv'
  OBVIOUS
<1>1. ASSUME NEW s \in Modulators, NEW p \in Params, AddNewLink(s, p)
      PROVE  StaleInv'
  BY <1>1, AddStale
<1>2. ASSUME NEW i \in Live, RemoveLink(i)
      PROVE  StaleInv'
  BY <1>2, KeepStale, FreeStale DEF RemoveLink
<1>3. CASE RemoveAllLinks
  <2> SUFFICES ASSUME NEW k \in Slots
               PROVE  Debt(k)' + Weight(k)' <= MaxModulations * MaxModulations
    BY DEF StaleInv, Slots
  <2>1. paramInfos'[k].numLinks = 0
    BY <1>3 DEF RemoveAllLinks, EmptyInfo
  <2> QED
    BY <2>1, NoDebt
<1>4. ASSUME NEW i \in Live, EditLink(i)
      PROVE  StaleInv'
  BY <1>4, EditStale
<1>5. ASSUME NEW out \in [Modulators -> {0, One}], Tick(out)
      PROVE  StaleInv'
  BY <1>5, StaleUnchanged DEF Tick
<1>6. CASE UNCHANGED vars
  BY <1>6, StaleUnchanged DEF vars
<1> QED
  BY <1>1, <1>2, <1>3, <1>4, <1>5, <1>6 DEF Next

\* RemoveLink never frees through a stale link: a count that reaches zero
\* belongs to a slot that is registered.
THEOREM FreesOnlyRegisteredHolds == Spec => FreesOnlyRegistered
<1>1. Init => StaleInv
  <2> SUFFICES ASSUME Init, NEW k \in Slots
               PROVE  Debt(k) + Weight(k) <= MaxModulations * MaxModulations
    BY DEF StaleInv
  <2>1. Debt(k) = 0
    BY DEF Init, EmptyInfo, Debt
  <2>2. Weight(k) \in Int /\ Weight(k) <= MaxModulations * MaxModulations
    BY WeightsOK, SlotSum DEF Weight
  <2> QED
    BY <2>1, <2>2
<1>2. IInv /\ StaleInv /\ [Next]_vars =>
        [\A i \in Live : RemoveLink(i) /\ numParamInfos' # numParamInfos =>
            ChargedInfo \in LiveInfos]_vars
  BY FreedRegistered DEF RemoveLink, KeepParamInfo, FreeParamInfo
<1> QED
  BY <1>1, <1>2, StaleStep, Invariance, PTL DEF Spec, FreesOnlyRegistered

-----------------------------------------------------------------------------
(***************************************************************************)
(* BankTasks: what a Tick in the middle of AddNewLink cannot harm.         *)
(*                                                                         *)
(* A step of the two tasks is a step of the bank alone, or it leaves the   *)
(* tables as they are: the invariant of the bank carries over.             *)
(***************************************************************************)
tables == <<links, numLinks, paramInfos, numParamInfos, freed, overrun>>

\* What AddNewLink has accepted.
AddingOK == adding = NoAdd \/ adding \in [source : Modulators, param : Params]

TasksInv == IInv /\ AddingOK

-----------------------------------------------------------------------------
\* The invariant is about the tables only.
LEMMA TablesInv ==
  ASSUME IInv, UNCHANGED tables
  PROVE  IInv'
  BY UnchangedInv DEF tables

LEMMA TasksStep == TasksInv /\ [TasksNext]_taskVars => TasksInv'
<1> SUFFICES ASSUME TasksInv, [TasksNext]_taskVars PROVE TasksInv'
  OBVIOUS
<1> USE DEF TasksInv
<1>1. ASSUME NEW s \in Modulators, NEW p \in Params, AddBegin(s, p)
      PROVE  TasksInv'
  <2>1. IInv'
    BY <1>1, TablesInv DEF AddBegin, vars, tables
  <2>2. AddingOK'
    BY <1>1 DEF AddBegin, AddingOK
  <2>3. QED
    BY <2>1, <2>2
<1>2. CASE AddEnd
  <2>1. adding.source \in Modulators /\ adding.param \in Params
    BY <1>2 DEF AddEnd, Quiet, AddingOK
  <2>2. AddNewLink(adding.source, adding.param) /\ adding' = NoAdd
    BY <1>2 DEF AddEnd
  <2>3. QED
    BY <2>1, <2>2, AddInv DEF AddingOK
<1>3. ASSUME NEW i \in Live, Remove(i)
      PROVE  TasksInv'
  <2>1. RemoveLink(i) /\ UNCHANGED adding
    BY <1>3 DEF Remove
  <2>2. QED
    BY <2>1, RemoveInv DEF AddingOK
<1>4. ASSUME NEW i \in Live, Edit(i)
      PROVE  TasksInv'
  <2>1. EditLink(i) /\ UNCHANGED adding
    BY <1>4 DEF Edit
  <2>2. QED
    BY <2>1, EditInv DEF AddingOK
<1>5. ASSUME NEW out \in [Modulators -> {0, One}], QuietTick(out) \/ TornTick(out)
      PROVE  TasksInv'
  <2>1. UNCHANGED tables /\ UNCHANGED adding
    BY <1>5 DEF QuietTick, Tick, TornTick, tables
  <2>2. QED
    BY <2>1, TablesInv DEF AddingOK
<1>6. CASE UNCHANGED taskVars
  <2>1. UNCHANGED tables /\ UNCHANGED adding
    BY <1>6 DEF taskVars, vars, tables
  <2>2. QED
    BY <2>1, TablesInv DEF AddingOK
<1> QED
  BY <1>1, <1>2, <1>3, <1>4, <1>5, <1>6 DEF TasksNext

-----------------------------------------------------------------------------
LEMMA TasksInvariance == TasksSpec => []TasksInv
<1>1. TasksInit => TasksInv
  BY InitInv DEF TasksInit, TasksInv, AddingOK
<1>2. QED
  BY <1>1, TasksStep, PTL DEF TasksSpec

\* Whatever Ticks run in the middle of AddNewLink, the tables stay as sound as
\* with one task: no parameter is registered in two slots, and until a slot is
\* freed every link resolves to its parameter.
THEOREM TasksKeepTables == TasksSpec => [](RegisteredOnce /\ RoutesKept)
<1>1. TasksInv => RegisteredOnce /\ RoutesKept
  BY DEF TasksInv, IInv
<1>2. QED
  BY <1>1, TasksInvariance, PTL

-----------------------------------------------------------------------------
\* Until a slot is freed, the links found for a parameter are those added for it.
LEMMA LinksFound ==
  ASSUME IInv, ~ freed, NEW p \in Params
  PROVE  LinksOfParam(p) = {i \in Live : links[i].asked = p}
  BY DEF IInv, RoutesKept, LinksOfParam

\* A Tick that meets no AddNewLink applies the routes exactly, whatever Ticks
\* before it found half written.
THEOREM QuietTickExactHolds == TasksSpec => QuietTickExact
<1>1. TasksInv /\ [TasksNext]_taskVars =>
        [\A out \in [Modulators -> {0, One}] :
           QuietTick(out) /\ ~ freed =>
             \A p \in Params :
               Registered(p) # {} =>
                 modulationValue'[p] =
                   SumOf({i \in Live : links[i].asked = p}, out)]_taskVars
  <2> SUFFICES ASSUME TasksInv, NEW out \in [Modulators -> {0, One}],
                      QuietTick(out), ~ freed,
                      NEW p \in Params, Registered(p) # {}
               PROVE  modulationValue'[p] =
                        SumOf({i \in Live : links[i].asked = p}, out)
    OBVIOUS
  <2>1. modulationValue'[p] = AfterTick(p, SumOf(LinksOfParam(p), out))
    BY DEF QuietTick, Tick
  <2>2. modulationValue'[p] = SumOf(LinksOfParam(p), out)
    BY <2>1 DEF AfterTick
  <2>3. QED
    BY <2>2, LinksFound DEF TasksInv
<1>2. QED
  BY <1>1, TasksInvariance, PTL DEF TasksSpec, QuietTickExact

-----------------------------------------------------------------------------
(***************************************************************************)
(* What a half written link leaves behind.  Until a slot is freed, whatever *)
(* Tick finds in the slots, stale or new, names a registered parameter,    *)
(* the one being added, or none: the value of any other stays 0.           *)
(***************************************************************************)
\* A sum over no links is 0 ...
LEMMA EmptySum ==
  ASSUME NEW out
  PROVE  SumOf({}, out) = 0
<1> DEFINE F(f) == [s \in SUBSET {} |->
                      IF s = {} THEN 0
                      ELSE LET x == CHOOSE y \in s : TRUE
                           IN  Contribution(x, out) + f[s \ {x}]]
<1>1. \E f : f = F(f)
  <2>1. [s \in SUBSET {} |-> 0] = F([s \in SUBSET {} |-> 0])
    BY \A s \in SUBSET {} : s = {}, Zenon
  <2> HIDE DEF F
  <2> QED
    BY <2>1
<1>2. \A f : f = F(f) => f[{}] = 0
  <2> SUFFICES ASSUME NEW f, f = F(f) PROVE f[{}] = 0
    OBVIOUS
  <2>1. F(f)[{}] = 0
    OBVIOUS
  <2> HIDE DEF F
  <2> QED
    BY <2>1
<1>3. SumOf({}, out) = (CHOOSE f : f = F(f))[{}]
  BY Zenon DEF SumOf, MapThenSumSet, MapThenFoldSet
<1> HIDE DEF F
<1> QED
  BY <1>1, <1>2, <1>3

\* ... in the middle of AddNewLink, too.
LEMMA NothingSeen ==
  ASSUME NEW p, NEW table, NEW n, NEW seen, NEW out,
         {i \in DOMAIN seen : seen[i].info # Null /\ table[seen[i].info].param = p} = {},
         modulationValue[p] = 0
  PROVE  ValueAfter(p, table, n, seen, out) = 0
<1> DEFINE F(f) == [s \in SUBSET {} |->
                      IF s = {} THEN 0
                      ELSE LET x == CHOOSE y \in s : TRUE
                           IN  Adds(seen[x], out) + f[s \ {x}]]
           Rest == MapThenSumSet(LAMBDA i : Adds(seen[i], out), {})
<1>1. \E f : f = F(f)
  <2>1. [s \in SUBSET {} |-> 0] = F([s \in SUBSET {} |-> 0])
    BY \A s \in SUBSET {} : s = {}, Zenon
  <2> HIDE DEF F
  <2> QED
    BY <2>1
<1>2. \A f : f = F(f) => f[{}] = 0
  <2> SUFFICES ASSUME NEW f, f = F(f) PROVE f[{}] = 0
    OBVIOUS
  <2>1. F(f)[{}] = 0
    OBVIOUS
  <2> HIDE DEF F
  <2> QED
    BY <2>1
<1>3. Rest = (CHOOSE f : f = F(f))[{}]
  BY Zenon DEF MapThenSumSet, MapThenFoldSet
<1>4. Rest = 0
  <2> HIDE DEF F, Rest
  <2> QED
    BY <1>1, <1>2, <1>3
<1>5. ValueAfter(p, table, n, seen, out)
        = (IF \E k \in 0 .. n - 1 : table[k].param = p THEN 0 ELSE modulationValue[p]) + Rest
  BY Zenon DEF ValueAfter
<1> HIDE DEF Rest
<1> QED
  BY <1>4, <1>5

Settled(p) == Registered(p) # {} \/ (~ Quiet /\ adding.param = p)

LeftInv ==
  /\ TasksInv
  /\ ~ Quiet => numLinks < MaxModulations
  /\ leftover \in [Slots -> Link]
  /\ ~ freed /\ ~ overrun =>
       /\ \A j \in Slots : leftover[j].info \in LiveInfos \cup {Null}
       /\ \A k \in Slots \ LiveInfos : paramInfos[k].param = NoParam
       /\ \A p \in Params : ~ Settled(p) => modulationValue[p] = 0

\* While no slot is freed, slots are registered one behind the other and keep
\* their parameters.
LEMMA Grows ==
  ASSUME LeftInv, ~ freed, ~ freed', ~ overrun',
         \/ \E s \in Modulators, p \in Params : AddNewLink(s, p)
         \/ \E i \in Live : RemoveLink(i)
  PROVE  /\ LiveInfos \subseteq LiveInfos'
         /\ \A k \in Slots \ LiveInfos' : paramInfos'[k] = paramInfos[k]
         /\ \A k \in LiveInfos : paramInfos'[k].param = paramInfos[k].param
<1> USE DEF LeftInv, TasksInv
<1>1. LiveInfos \subseteq Slots /\ numParamInfos \in Nat
  BY TablesAssumption DEF LiveInfos, Slots, IInv, TablesTypeOK
<1>2. paramInfos \in [Slots -> ParamRegInfo]
  BY DEF IInv, TablesTypeOK
<1>3. ASSUME NEW s \in Modulators, NEW p \in Params, JoinParamInfo(s, p)
      PROVE  /\ LiveInfos' = LiveInfos
             /\ \A k \in Slots \ LiveInfos : paramInfos'[k] = paramInfos[k]
             /\ \A k \in LiveInfos : paramInfos'[k].param = paramInfos[k].param
  <2>1. LiveInfos' = LiveInfos
    BY <1>3 DEF JoinParamInfo, LiveInfos
  <2> QED
    BY <1>1, <1>2, <1>3, <2>1 DEF JoinParamInfo, ParamRegInfo
<1>4. ASSUME NEW s \in Modulators, NEW p \in Params, NewParamInfo(s, p)
      PROVE  /\ LiveInfos' = LiveInfos \cup {numParamInfos}
             /\ \A k \in Slots \ {numParamInfos} : paramInfos'[k] = paramInfos[k]
             /\ numParamInfos \notin LiveInfos
  <2>1. LiveInfos' = LiveInfos \cup {numParamInfos} /\ numParamInfos \notin LiveInfos
    BY <1>1, <1>4 DEF NewParamInfo, LiveInfos
  <2> QED
    BY <1>1, <1>2, <1>4, <2>1 DEF NewParamInfo, FreshSlot
<1>5. ASSUME NEW i \in Live, RemoveLink(i)
      PROVE  /\ LiveInfos' = LiveInfos
             /\ \A k \in Slots \ LiveInfos : paramInfos'[k] = paramInfos[k]
             /\ \A k \in LiveInfos : paramInfos'[k].param = paramInfos[k].param
  <2>1. KeepParamInfo(ChargedInfo)
    BY <1>5 DEF RemoveLink, FreeParamInfo
  <2>2. LiveInfos' = LiveInfos
    BY <2>1 DEF KeepParamInfo, LiveInfos
  <2>3. ChargedInfo \in LiveInfos
    BY <1>5, DroppedLink DEF ChargedInfo, IInv, RoutesKept, RemoveLink
  <2> QED
    BY <1>1, <1>2, <2>1, <2>2, <2>3 DEF KeepParamInfo, Discharge, ParamRegInfo
<1>6. \A s \in Modulators, p \in Params : AddNewLink(s, p) =>
         JoinParamInfo(s, p) \/ NewParamInfo(s, p)
  BY DEF AddNewLink, OverrunParamInfos
<1> QED
  BY <1>1, <1>3, <1>4, <1>5, <1>6

\* So whatever was registered stays so, and the slots not yet used stay empty.
LEMMA StaysRegistered ==
  ASSUME LeftInv, ~ freed, ~ freed', ~ overrun, ~ overrun',
         \/ \E s \in Modulators, p \in Params : AddNewLink(s, p)
         \/ \E i \in Live : RemoveLink(i)
  PROVE  /\ LiveInfos \subseteq LiveInfos'
         /\ \A k \in Slots \ LiveInfos' : paramInfos'[k].param = NoParam
         /\ \A p \in Params : Registered(p) # {} => Registered(p)' # {}
<1>1. /\ LiveInfos \subseteq LiveInfos'
      /\ \A k \in Slots \ LiveInfos' : paramInfos'[k] = paramInfos[k]
      /\ \A k \in LiveInfos : paramInfos'[k].param = paramInfos[k].param
  BY Grows
<1>2. \A k \in Slots \ LiveInfos' : paramInfos'[k].param = NoParam
  BY <1>1 DEF LeftInv
<1>3. \A p \in Params : Registered(p) # {} => Registered(p)' # {}
  BY <1>1 DEF Registered
<1> QED
  BY <1>1, <1>2, <1>3

LEMMA AddBeginLeft ==
  ASSUME LeftInv, NEW s \in Modulators, NEW p \in Params, AddBegin(s, p), TasksInv'
  PROVE  LeftInv'
<1> USE DEF LeftInv
<1>1. UNCHANGED <<vars, leftover>> /\ Quiet /\ numLinks < MaxModulations
  BY DEF AddBegin, CanAdd
<1>2. /\ LiveInfos' = LiveInfos
      /\ \A q \in Params : Registered(q)' = Registered(q)
  BY <1>1 DEF vars, LiveInfos, Registered
<1>3. \A q \in Params : Settled(q) => Settled(q)'
  BY <1>1, <1>2 DEF Settled
<1> QED
  BY <1>1, <1>2, <1>3 DEF vars

LEMMA AddEndLeft ==
  ASSUME LeftInv, AddEnd, TasksInv'
  PROVE  LeftInv'
<1> USE DEF LeftInv
<1>1. /\ ~ Quiet
      /\ adding.source \in Modulators /\ adding.param \in Params
      /\ AddNewLink(adding.source, adding.param)
      /\ adding' = NoAdd
      /\ leftover' = [leftover EXCEPT ![numLinks] = EmptyLink]
      /\ UNCHANGED <<modulationValue, freed>>
  BY DEF AddEnd, Quiet, AddNewLink, TasksInv, AddingOK
<1>2. Quiet'
  BY <1>1 DEF Quiet
<1>3. EmptyLink \in Link /\ EmptyLink.info = Null
  BY AmountsAssumption DEF EmptyLink, Link
<1>4. leftover' \in [Slots -> Link]
  BY <1>1, <1>3
<1>5. CASE freed' \/ overrun'
  BY <1>2, <1>4, <1>5
<1>6. CASE ~ freed' /\ ~ overrun'
  <2>1. ~ freed /\ ~ overrun
    BY <1>1, <1>6 DEF AddNewLink, JoinParamInfo, NewParamInfo, OverrunParamInfos
  <2>2. /\ LiveInfos \subseteq LiveInfos'
        /\ \A k \in Slots \ LiveInfos' : paramInfos'[k].param = NoParam
        /\ \A p \in Params : Registered(p) # {} => Registered(p)' # {}
    BY <1>1, <1>6, <2>1, StaysRegistered
  <2>3. \A j \in Slots : leftover'[j].info \in LiveInfos' \cup {Null}
    BY <1>1, <1>3, <2>1, <2>2
  <2>4. ASSUME NEW q \in Params, q = adding.param
        PROVE  Registered(q)' # {}
    <3>1. CASE JoinParamInfo(adding.source, adding.param)
      <4>1. Registered(q) # {}
        BY <2>4, <3>1 DEF JoinParamInfo, IsFirst
      <4> QED
        BY <2>2, <4>1
    <3>2. CASE NewParamInfo(adding.source, adding.param)
      <4>1. numParamInfos \in Slots /\ numParamInfos \in LiveInfos'
        BY <3>2, TablesAssumption
        DEF NewParamInfo, FreshSlot, LiveInfos, Slots, TasksInv, IInv, TablesTypeOK
      <4>2. paramInfos'[numParamInfos].param = q
        BY <2>4, <3>2, <4>1 DEF NewParamInfo, FreshSlot, TasksInv, IInv, TablesTypeOK
      <4> QED
        BY <4>1, <4>2 DEF Registered
    <3> QED
      BY <1>1, <1>6, <3>1, <3>2 DEF AddNewLink, OverrunParamInfos
  <2>5. \A p \in Params : Settled(p) => Settled(p)'
    BY <2>2, <2>4 DEF Settled
  <2> QED
    BY <1>1, <1>2, <1>4, <2>1, <2>2, <2>3, <2>5
<1> QED
  BY <1>5, <1>6

LEMMA RemoveLeft ==
  ASSUME LeftInv, NEW i \in Live, Remove(i), TasksInv'
  PROVE  LeftInv'
<1> USE DEF LeftInv
<1>1. /\ Quiet /\ Quiet'
      /\ RemoveLink(i)
      /\ leftover' = [leftover EXCEPT ![numLinks - 1] = [links[i] EXCEPT !.asked = NoParam]]
      /\ UNCHANGED modulationValue
  BY DEF Remove, RemoveLink, Quiet
<1>2. Live \subseteq Slots /\ links[i] \in Link
  BY TablesAssumption DEF Live, Slots, TasksInv, IInv, TablesTypeOK
<1>3. /\ [links[i] EXCEPT !.asked = NoParam] \in Link
      /\ [links[i] EXCEPT !.asked = NoParam].info = links[i].info
  BY <1>2 DEF Link
<1>4. leftover' \in [Slots -> Link]
  BY <1>1, <1>3
<1>5. CASE freed' \/ overrun'
  BY <1>1, <1>4, <1>5
<1>6. CASE ~ freed' /\ ~ overrun'
  <2>1. ~ freed /\ ~ overrun
    BY <1>1, <1>6 DEF RemoveLink, KeepParamInfo, FreeParamInfo
  <2>2. /\ LiveInfos \subseteq LiveInfos'
        /\ \A k \in Slots \ LiveInfos' : paramInfos'[k].param = NoParam
        /\ \A p \in Params : Registered(p) # {} => Registered(p)' # {}
    BY <1>1, <1>6, <2>1, StaysRegistered
  <2>3. links[i].info \in LiveInfos
    BY <2>1 DEF TasksInv, IInv, RoutesKept
  <2>4. \A j \in Slots : leftover'[j].info \in LiveInfos' \cup {Null}
    BY <1>1, <1>3, <2>1, <2>2, <2>3
  <2>5. \A p \in Params : Settled(p) => Settled(p)'
    BY <1>1, <2>2 DEF Settled
  <2> QED
    BY <1>1, <1>4, <2>1, <2>2, <2>4, <2>5
<1> QED
  BY <1>5, <1>6

\* A step that leaves tables and leftovers alone, and no value where none was.
LEMMA ValuesLeft ==
  ASSUME LeftInv, TasksInv',
         UNCHANGED <<adding, leftover, numLinks, numParamInfos, freed, overrun>>,
         \A k \in Slots : paramInfos'[k].param = paramInfos[k].param,
         ~ freed /\ ~ overrun =>
           \A p \in Params : ~ Settled(p) => modulationValue'[p] = 0
  PROVE  LeftInv'
<1> USE DEF LeftInv
<1>1. LiveInfos \subseteq Slots
  BY TablesAssumption DEF LiveInfos, Slots, TasksInv, IInv, TablesTypeOK
<1>2. LiveInfos' = LiveInfos /\ Quiet' = Quiet
  BY DEF LiveInfos, Quiet
<1>3. \A p \in Params : Settled(p)' = Settled(p)
  BY <1>1, <1>2 DEF Settled, Registered
<1> QED
  BY <1>2, <1>3

LEMMA QuietTickLeft ==
  ASSUME LeftInv, NEW out \in [Modulators -> {0, One}], QuietTick(out), TasksInv'
  PROVE  LeftInv'
<1> USE DEF LeftInv
<1>1. Tick(out) /\ UNCHANGED <<adding, leftover>>
  BY DEF QuietTick
<1>2. ASSUME ~ freed, NEW p \in Params, ~ Settled(p), modulationValue[p] = 0
      PROVE  modulationValue'[p] = 0
  <2>1. Registered(p) = {}
    BY <1>2 DEF Settled
  <2>2. LinksOfParam(p) = {}
    BY <1>2, <2>1 DEF LinksOfParam, TargetOf, Registered, TasksInv, IInv, RoutesKept
  <2>3. modulationValue'[p] = AfterTick(p, SumOf({}, out))
    BY <1>1, <2>2 DEF Tick
  <2>4. modulationValue'[p] = modulationValue[p] + SumOf({}, out)
    BY <2>1, <2>3 DEF AfterTick
  <2> QED
    BY <1>2, <2>4, EmptySum
<1> QED
  BY <1>1, <1>2, ValuesLeft DEF Tick

LEMMA TornTickLeft ==
  ASSUME LeftInv, NEW out \in [Modulators -> {0, One}], TornTick(out), TasksInv'
  PROVE  LeftInv'
<1> USE DEF LeftInv
<1>1. /\ ~ Quiet /\ InfoSlot \in Slots
      /\ UNCHANGED <<links, numLinks, paramInfos, numParamInfos, freed, overrun, adding, leftover>>
  BY DEF TornTick
<1>2. PICK table \in InfoTables, n \in InfoCounts :
        \/ HalfTick(out, table, n, [i \in Live |-> links[i]])
        \/ \E l \in HalfLinks : HalfTick(out, table, n, LinksSeen(l))
  BY DEF TornTick
<1>3. paramInfos \in [Slots -> ParamRegInfo]
  BY DEF TasksInv, IInv, TablesTypeOK
<1>4. \A k \in Slots : table[k].param \in {paramInfos[k].param, adding.param}
  BY <1>1, <1>2, <1>3 DEF InfoTables, ParamRegInfo
<1>5. numLinks \in Slots /\ Live \subseteq Slots /\ Null \notin Slots
  BY <1>1, TablesAssumption DEF Slots, Live, Null, TasksInv, IInv, TablesTypeOK
<1>6. ASSUME ~ freed, ~ overrun, NEW p \in Params, ~ Settled(p)
      PROVE  modulationValue'[p] = 0
  <2>1. Registered(p) = {} /\ adding.param # p /\ modulationValue[p] = 0
    BY <1>1, <1>6 DEF Settled
  <2>2. p # NoParam
    BY ParamsAssumption
  <2>3. \A k \in Slots : table[k].param # p
    BY <1>4, <1>6, <2>1, <2>2 DEF Registered
  <2>4. ASSUME NEW seen, \A i \in DOMAIN seen : seen[i].info \in Slots \cup {Null},
               HalfTick(out, table, n, seen)
        PROVE  modulationValue'[p] = 0
    <3>1. {i \in DOMAIN seen : seen[i].info # Null /\ table[seen[i].info].param = p} = {}
      BY <2>3, <2>4
    <3>2. ValueAfter(p, table, n, seen, out) = 0
      BY <2>1, <3>1, NothingSeen
    <3> QED
      BY <2>1, <2>4, <3>2 DEF HalfTick
  <2>5. \A i \in Live : links[i].info \in Slots
    BY DEF TasksInv, IInv, LiveSound
  <2>6. CASE HalfTick(out, table, n, [i \in Live |-> links[i]])
    BY <2>4, <2>5, <2>6
  <2>7. ASSUME NEW l \in HalfLinks, HalfTick(out, table, n, LinksSeen(l))
        PROVE  modulationValue'[p] = 0
    <3>1. l.info \in {leftover[numLinks].info, InfoSlot}
      BY <2>7 DEF HalfLinks, Old, New, NewLink, EmptyLink
    <3>2. l.info \in Slots \cup {Null}
      BY <1>1, <1>5, <3>1 DEF Link
    <3>3. \A i \in DOMAIN LinksSeen(l) : LinksSeen(l)[i].info \in Slots \cup {Null}
      BY <2>5, <3>2 DEF LinksSeen
    <3> QED
      BY <2>4, <2>7, <3>3
  <2> QED
    BY <1>2, <2>6, <2>7
<1> QED
  BY <1>1, <1>6, ValuesLeft

LEMMA LeftStep ==
  ASSUME LeftInv, TasksInv', [TasksNext]_taskVars
  PROVE  LeftInv'
<1>1. ASSUME NEW i \in Live, Edit(i)
      PROVE  LeftInv'
  <2>1. UNCHANGED <<vars, adding, leftover>> \/ (EditLink(i) /\ UNCHANGED <<adding, leftover>>)
    BY <1>1 DEF Edit
  <2> QED
    BY <2>1, ValuesLeft DEF EditLink, vars, LeftInv
<1>2. CASE UNCHANGED taskVars
  BY <1>2, ValuesLeft DEF taskVars, vars, LeftInv
<1> QED
  BY <1>1, <1>2, AddBeginLeft, AddEndLeft, RemoveLeft, QuietTickLeft, TornTickLeft
  DEF TasksNext

\* Until a slot is freed, a Tick in the middle of AddNewLink leaves no value in a
\* parameter that no later Tick clears, whatever it found half written.
THEOREM NothingLeftBehindHolds == TasksSpec => []NothingLeftBehind
<1>1. TasksInit => LeftInv
  <2> SUFFICES ASSUME TasksInit PROVE LeftInv
    OBVIOUS
  <2>1. TasksInv
    BY InitInv DEF TasksInit, TasksInv, AddingOK
  <2>2. EmptyLink \in Link /\ EmptyLink.info = Null
    BY AmountsAssumption DEF EmptyLink, Link
  <2> QED
    BY <2>1, <2>2 DEF TasksInit, Init, LeftInv, Quiet, EmptyInfo
<1>2. LeftInv /\ TasksInv' /\ [TasksNext]_taskVars => LeftInv'
  BY LeftStep
<1>3. LeftInv => NothingLeftBehind
  BY DEF LeftInv, NothingLeftBehind, Settled
<1> QED
  BY <1>1, <1>2, <1>3, TasksInvariance, PTL DEF TasksSpec
=============================================================================
