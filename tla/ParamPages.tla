----------------------------- MODULE ParamPages -----------------------------
(***************************************************************************)
(* The parameter pages and what Tick makes of their whole-number settings: *)
(* the kind of wave, the number of partials, the number of oscillators,    *)
(* and the pattern by which a section treats some partials and not others. *)
(*                                                                         *)
(* The loops of Tick step through fixed tables in strides these settings   *)
(* give them.  None checks an index: that the strides fit is the business  *)
(* of the pages.  Settings that only scale a level are left out.           *)
(***************************************************************************)
EXTENDS Integers, FiniteSets

CONSTANTS
  MaxPartials,   \* kMaxNumPartials, the size of gains_ and ratio_; kSawGainTable has twice that
  MaxParttern,   \* the largest pattern
  Turns          \* the encoder movements considered, EncoderEvent's dvalue

ASSUME PartialsAssumption ==
  /\ MaxPartials \in Nat /\ MaxPartials >= 2 /\ MaxPartials % 2 = 0
  /\ MaxParttern \in Nat /\ MaxParttern >= 2
  /\ Turns \subseteq Int

\* OscillatorType; EnumParamDesc moves through its values in this order.
kFullSaw     == 0
kDualSaw     == 1
kMultiSaw    == 2
kFullSquare  == 3
kDualSquare  == 4
kMultiSquare == 5
kPwmSquare   == 6
kFullPulse   == 7
OscillatorTypes == kFullSaw .. kFullPulse

\* The sections with a pattern.
Sections == {"ratioMul", "ratioAdd", "partialBeating", "oscPhase"}

VARIABLES
  obj,          \* the page shown: "oscillator", or "section"
  section,      \* the section whose page is considered
  subPage,      \* the page_ of the oscillator's PageSpliter
  type, numPartials, number,   \* params.oscillor
  enable, parttern,            \* the section's parameters
  led                          \* the light of the section

paramVars == <<obj, section, subPage, type, numPartials, number, enable,
               parttern, led>>

-----------------------------------------------------------------------------
(***************************************************************************)
(* The pages.                                                              *)
(***************************************************************************)
ClampUncheck(value, min, max) ==
  IF value < min THEN min ELSE IF value > max THEN max ELSE value

\* IntParamDesc::Add.
Moved(value, d, alt, altMul, min, max) ==
  ClampUncheck(value + (IF alt THEN d * altMul ELSE d), min, max)

Multi == type \in {kMultiSaw, kMultiSquare}

\* PagePreEvent; the page's own key does nothing on it.
SwitchPage ==
  /\ obj' \in {"oscillator", "section"}
  /\ UNCHANGED <<section, subPage, type, numPartials, number, enable, parttern, led>>

\* kUp and kDown of the oscillator's page: PageSpliter stops at both ends.
SplitPage ==
  /\ obj = "oscillator"
  /\ subPage' \in {ClampUncheck(subPage - 1, 0, 1), ClampUncheck(subPage + 1, 0, 1)}
  /\ UNCHANGED <<obj, section, type, numPartials, number, enable, parttern, led>>

\* Encoder 1 and its reset key.
SetType ==
  /\ obj = "oscillator" /\ subPage = 0
  /\ type' \in {kFullSaw} \cup {ClampUncheck(type + d, 0, kFullPulse) : d \in Turns}
  /\ UNCHANGED <<obj, section, subPage, numPartials, number, enable, parttern, led>>

\* Faulty variant: the encoder counts single partials.
SinglesTurned(d, alt) == Moved(numPartials, d, alt, 8, 2, MaxPartials)

\* Encoder 2 counts in pairs of partials.
PartialsTurned(d, alt) == Moved(numPartials, d * 2, alt, 8, 2, MaxPartials)

SetPartials ==
  /\ obj = "oscillator" /\ subPage = 0
  /\ numPartials' \in {MaxPartials} \cup {PartialsTurned(d, a) : d \in Turns, a \in BOOLEAN}
  /\ UNCHANGED <<obj, section, subPage, type, number, enable, parttern, led>>

\* Encoder 3 sets the number of oscillators of the waves that have several.
SetNumber ==
  /\ obj = "oscillator" /\ subPage = 0 /\ Multi
  /\ number' \in {2} \cup {Moved(number, d, FALSE, 1, 2, 6) : d \in Turns}
  /\ UNCHANGED <<obj, section, subPage, type, numPartials, enable, parttern, led>>

\* Encoder 1 of a section turns it on and off, its reset key off.
SetEnable ==
  /\ obj = "section"
  /\ enable' \in {FALSE} \cup {d > 0 : d \in Turns}
  /\ led' = enable'
  /\ UNCHANGED <<obj, section, subPage, type, numPartials, number, parttern>>

altMul == IF section \in {"ratioMul", "ratioAdd"} THEN 5 ELSE 10

SetParttern ==
  /\ obj = "section"
  /\ parttern' \in {2} \cup {Moved(parttern, d, a, altMul, 2, MaxParttern) :
                              d \in Turns, a \in BOOLEAN}
  /\ UNCHANGED <<obj, section, subPage, type, numPartials, number, enable, led>>

ParamInit ==
  /\ obj = "oscillator" /\ section \in Sections /\ subPage = 0
  /\ type = kFullSaw /\ numPartials = MaxPartials /\ number = 2
  /\ enable = FALSE /\ parttern = 2 /\ led = FALSE

ParamNext == \/ SwitchPage \/ SplitPage \/ SetType \/ SetPartials \/ SetNumber
             \/ SetEnable \/ SetParttern

ParamSpec == ParamInit /\ [][ParamNext]_paramVars

-----------------------------------------------------------------------------
(***************************************************************************)
(* What Tick does with the settings.                                       *)
(***************************************************************************)
\* The first partial of each round of a loop over pairs.
PairStarts == {i \in 0 .. numPartials - 1 : i % 2 = 0}

\* <<j, k>>: partial j is the k-th of its oscillator.
Strided == {<<i + k * number, k>> : i \in 0 .. number - 1, k \in 0 .. numPartials - 1}
Dealt == {s \in Strided : s[1] < numPartials}

\* OscillatorProcessing, ratio_: <<i, h>> where partial i is harmonic h, apart
\* from beating and transposition.
Pairs(first, second) == UNION {{<<i, first[i]>>, <<i + 1, second[i]>>} : i \in PairStarts}

Harmonics ==
  CASE type \in {kFullSaw, kPwmSquare} -> Pairs([i \in PairStarts |-> i + 1], [i \in PairStarts |-> i + 2])
    [] type = kDualSaw     -> Pairs([i \in PairStarts |-> i \div 2 + 1], [i \in PairStarts |-> i \div 2 + 1])
    [] type = kFullSquare  -> Pairs([i \in PairStarts |-> 2 * i + 1], [i \in PairStarts |-> 2 * i + 3])
    [] type = kDualSquare  -> Pairs([i \in PairStarts |-> i + 1], [i \in PairStarts |-> i + 1])
    [] type = kMultiSaw    -> {<<s[1], s[2] + 1>> : s \in Dealt}
    [] type = kMultiSquare -> {<<s[1], 2 * s[2] + 1>> : s \in Dealt}
    [] type = kFullPulse   -> {<<i, i + 1>> : i \in 0 .. numPartials - 1}

\* gains_: <<i, e>> where partial i takes entry e of kSawGainTable.  FullPulse
\* gives every partial the same gain.
Gains ==
  CASE type = kFullSaw     -> {<<i, i>> : i \in 0 .. numPartials - 1}
    [] type = kPwmSquare   -> Pairs([i \in PairStarts |-> i], [i \in PairStarts |-> i + 1])
    [] type = kDualSaw     -> Pairs([i \in PairStarts |-> i \div 2], [i \in PairStarts |-> i \div 2])
    [] type = kFullSquare  -> Pairs([i \in PairStarts |-> 2 * i], [i \in PairStarts |-> 2 * i + 3])
    [] type = kDualSquare  -> Pairs([i \in PairStarts |-> i], [i \in PairStarts |-> i])
    [] type = kMultiSaw    -> Dealt
    [] type = kMultiSquare -> {<<s[1], 2 * s[2]>> : s \in Dealt}
    [] type = kFullPulse   -> {<<i, 0>> : i \in 0 .. numPartials - 1}

notApply == parttern \div 2

\* Faulty variant: both parts of a pattern have the smaller half.
SmallerHalf == parttern \div 2

apply == parttern - notApply

Lesser(m, n) == IF m <= n THEN m ELSE n

\* RatioProcessing and BeatingProcessing: the partials treated from round i on.
TreatedFrom[i \in Nat] ==
  IF i >= numPartials THEN {}
  ELSE LET first == i + notApply
           next  == Lesser(first + apply, numPartials)
       IN  (first .. next - 1) \cup TreatedFrom[IF next < first THEN first ELSE next]

\* PhaseProcessing: the partials with the right and with the left amount.
PhasedFrom[i \in Nat] ==
  IF i >= numPartials THEN [left |-> {}, right |-> {}]
  ELSE LET middle == i + Lesser(notApply, numPartials - i)
           next   == middle + Lesser(apply, numPartials - middle)
       IN  [left  |-> (i .. middle - 1) \cup PhasedFrom[next].left,
            right |-> (middle .. next - 1) \cup PhasedFrom[next].right]

-----------------------------------------------------------------------------
(***************************************************************************)
(* Properties.                                                             *)
(***************************************************************************)
Assigns(pairs, S) ==
  /\ {x[1] : x \in pairs} = S
  /\ Cardinality(pairs) = Cardinality(S)

\* Whatever wave, number of partials and number of oscillators the pages set,
\* the wave gives each partial in use one harmonic and one gain, writes behind
\* none and reads no entry behind the table.  The gain is the one of the
\* harmonic, but for the second partial of FullSquare's pairs, which takes the
\* entry behind its own.
WaveComplete ==
  /\ Assigns(Harmonics, 0 .. numPartials - 1)
  /\ Assigns(Gains, 0 .. numPartials - 1)
  /\ \A g \in Gains : g[2] < 2 * MaxPartials
  /\ type # kFullPulse =>
       Gains = {<<h[1], IF type = kFullSquare /\ h[1] % 2 = 1 THEN h[2] ELSE h[2] - 1>> :
                  h \in Harmonics}

\* However the pattern fits the number of partials, a section treats the upper
\* part of each pattern, the last one cut off where the partials end, and a
\* phase is drawn for each partial once.
PatternSplits ==
  LET Upper == {i \in 0 .. numPartials - 1 : i % parttern >= parttern \div 2}
  IN  IF section = "oscPhase"
      THEN PhasedFrom[0] = [left |-> (0 .. numPartials - 1) \ Upper, right |-> Upper]
      ELSE TreatedFrom[0] = Upper
=============================================================================
