-------------------------- MODULE ModulationRoutes --------------------------
(***************************************************************************)
(* What the modulation bank promises to the GUI and to the synthesizer: a  *)
(* set of (modulator, parameter) routes of bounded size, in which a route  *)
(* is made, taken away, or all of them are.                                *)
(*                                                                         *)
(* trusted says how long the promise binds.  The bank may give it up, once *)
(* and for good, in a step that takes a route away; from then on only the  *)
(* number of routes stays bounded.                                         *)
(***************************************************************************)
EXTENDS Integers, FiniteSets

CONSTANTS Modulators, Params, MaxModulations

VARIABLES routes, trusted

rvars == <<routes, trusted>>

RoutesTypeOK ==
  /\ routes \subseteq Modulators \X Params
  /\ trusted \in BOOLEAN

RoutesInit == routes = {} /\ trusted = TRUE

Connect(s, p) ==
  /\ trusted
  /\ Cardinality(routes) < MaxModulations
  /\ <<s, p>> \notin routes
  /\ routes' = routes \cup {<<s, p>>}
  /\ UNCHANGED trusted

Disconnect(r) ==
  /\ trusted
  /\ r \in routes
  /\ routes' = routes \ {r}
  /\ UNCHANGED trusted

DisconnectAll ==
  /\ routes' = {}
  /\ UNCHANGED trusted

\* The step that loses track of which route ends where.
LoseTrack ==
  /\ trusted
  /\ routes # {}
  /\ trusted' = FALSE
  /\ routes' \in SUBSET (Modulators \X Params)
  /\ Cardinality(routes') < Cardinality(routes)

\* Past it, any set within the limit may be shown.
Drift ==
  /\ ~ trusted
  /\ UNCHANGED trusted
  /\ routes' \in SUBSET (Modulators \X Params)
  /\ Cardinality(routes') <= MaxModulations

RoutesNext ==
  \/ \E s \in Modulators, p \in Params : Connect(s, p)
  \/ \E r \in routes : Disconnect(r)
  \/ DisconnectAll
  \/ LoseTrack
  \/ Drift

RoutesSpec == RoutesInit /\ [][RoutesNext]_rvars
=============================================================================
