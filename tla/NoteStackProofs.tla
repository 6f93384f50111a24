-------------------------- MODULE NoteStackProofs ---------------------------
(***************************************************************************)
(* The handling of keys, for any set of notes and of envelopes.            *)
(*                                                                         *)
(* The proof needs its parts together.  That a note is in the stack once   *)
(* makes the erased stack the old one with one entry left out; that the    *)
(* stack is empty exactly while there is no output tells a key that fell   *)
(* back to another from the last one; and only then does a pending trigger *)
(* without output come from a tap.                                         *)
(***************************************************************************)
EXTENDS NoteStack, SequenceTheorems, TLAPS

NoteInv ==
  /\ NoteTypeOK
  /\ StackDistinct
  /\ SoundsTop
  /\ PitchChangeTriggers
  /\ StrayAttackNeedsTap

-----------------------------------------------------------------------------
(***************************************************************************)
(* The stack without a note.                                               *)
(***************************************************************************)
\* A note that is in the stack once is found where it is.
LEMMA FoundOnce ==
  ASSUME NoteTypeOK, StackDistinct, NEW n \in Notes, NEW i \in Found(n)
  PROVE  Min(Found(n)) = i /\ i \in DOMAIN noteStack
<1>1. \A j \in Found(n) : j = i
  BY DEF Found, StackDistinct
<1>2. Found(n) = {i}
  BY <1>1
<1>3. i \in 1 .. Len(noteStack)
  BY DEF Found, NoteTypeOK
<1>4. \A y \in {i} : i <= y
  BY <1>3
<1> QED
  BY <1>2, <1>3, <1>4 DEF Min, Found

\* The notes below stay, those above move down by one.
Skipping(i, j) == IF j < i THEN j ELSE j + 1

\* Erased leaves out the one position that holds the note.
LEMMA ErasedEntries ==
  ASSUME NoteTypeOK, StackDistinct, NEW n \in Notes, NEW i \in Found(n)
  PROVE  /\ Erased(n) \in Seq(Notes)
         /\ Len(Erased(n)) = Len(noteStack) - 1
         /\ \A j \in 1 .. Len(noteStack) - 1 :
              Erased(n)[j] = noteStack[Skipping(i, j)]
<1> DEFINE low == SubSeq(noteStack, 1, i - 1)
           high == SubSeq(noteStack, i + 1, Len(noteStack))
<1>1. /\ i \in 1 .. Len(noteStack) /\ Len(noteStack) \in Nat
      /\ \A j \in 1 .. Len(noteStack) : noteStack[j] \in Notes
  BY FoundOnce DEF NoteTypeOK
<1>2. /\ low \in Seq(Notes) /\ Len(low) = i - 1
      /\ \A j \in 1 .. i - 1 : low[j] = noteStack[j]
  <2>1. \A j \in 1 .. i - 1 : noteStack[j] \in Notes
    BY <1>1
  <2> QED
    BY <1>1, <2>1, SubSeqProperties
<1>3. /\ high \in Seq(Notes) /\ Len(high) = Len(noteStack) - i
      /\ \A j \in 1 .. Len(noteStack) - i : high[j] = noteStack[i + j]
  <2>1. \A j \in i + 1 .. Len(noteStack) : noteStack[j] \in Notes
    BY <1>1
  <2>2. /\ high \in Seq(Notes)
        /\ Len(high) = IF i + 1 <= Len(noteStack) THEN Len(noteStack) - (i + 1) + 1 ELSE 0
        /\ \A j \in 1 .. Len(noteStack) - (i + 1) + 1 : high[j] = noteStack[i + 1 + j - 1]
    BY <1>1, <2>1, SubSeqProperties
  <2> HIDE DEF high
  <2>3. \A j \in 1 .. Len(noteStack) - i : i + 1 + j - 1 = i + j
    BY <1>1
  <2> QED
    BY <1>1, <2>2, <2>3
<1>4. Erased(n) = low \o high
  BY FoundOnce DEF Erased, RemoveAt
<1> HIDE DEF low, high
<1>5. /\ low \o high \in Seq(Notes)
      /\ Len(low \o high) = Len(low) + Len(high)
      /\ \A j \in 1 .. Len(low) + Len(high) :
           (low \o high)[j] = IF j <= Len(low) THEN low[j] ELSE high[j - Len(low)]
  BY <1>2, <1>3, ConcatProperties
<1>6. ASSUME NEW j \in 1 .. Len(noteStack) - 1
      PROVE  (low \o high)[j] = noteStack[Skipping(i, j)]
  <2>1. CASE j < i
    BY <1>1, <1>2, <1>3, <1>5, <2>1 DEF Skipping
  <2>2. CASE j >= i
    <3>1. /\ j - (i - 1) \in 1 .. Len(noteStack) - i
          /\ i + (j - (i - 1)) = j + 1
          /\ ~ (j <= Len(low))
      BY <1>1, <1>2, <2>2
    <3>2. (low \o high)[j] = high[j - (i - 1)]
      BY <1>1, <1>2, <1>3, <1>5, <3>1
    <3> QED
      BY <1>1, <1>3, <2>2, <3>1, <3>2 DEF Skipping
  <2>3. j < i \/ j >= i
    BY <1>1
  <2> QED
    BY <2>1, <2>2, <2>3
<1> QED
  BY <1>1, <1>2, <1>3, <1>4, <1>5, <1>6

\* The erased stack holds distinct notes, without the erased one, and is empty
\* if the stack was.
LEMMA ErasedDistinct ==
  ASSUME NoteTypeOK, StackDistinct, NEW n \in Notes
  PROVE  /\ Erased(n) \in Seq(Notes)
         /\ \A j \in DOMAIN Erased(n) : Erased(n)[j] # n
         /\ \A j, k \in DOMAIN Erased(n) : Erased(n)[j] = Erased(n)[k] => j = k
         /\ noteStack = <<>> => Erased(n) = <<>>
<1>1. CASE Found(n) = {}
  BY <1>1 DEF Erased, Found, NoteTypeOK, StackDistinct
<1>2. CASE Found(n) # {}
  <2>1. PICK i \in Found(n) : TRUE
    BY <1>2
  <2>2. /\ i \in 1 .. Len(noteStack) /\ Len(noteStack) \in Nat /\ noteStack[i] = n
        /\ noteStack # <<>>
    BY FoundOnce DEF NoteTypeOK, Found
  <2>3. /\ Erased(n) \in Seq(Notes)
        /\ DOMAIN Erased(n) = 1 .. Len(noteStack) - 1
        /\ \A j \in 1 .. Len(noteStack) - 1 : Erased(n)[j] = noteStack[Skipping(i, j)]
    BY ErasedEntries, <2>1
  <2>4. ASSUME NEW j \in 1 .. Len(noteStack) - 1
        PROVE  Skipping(i, j) \in 1 .. Len(noteStack) /\ Skipping(i, j) # i
    BY <2>2 DEF Skipping
  <2>5. ASSUME NEW j \in 1 .. Len(noteStack) - 1, NEW k \in 1 .. Len(noteStack) - 1,
               Skipping(i, j) = Skipping(i, k)
        PROVE  j = k
    BY <2>2, <2>5 DEF Skipping
  <2>6. \A a, b \in 1 .. Len(noteStack) : noteStack[a] = noteStack[b] => a = b
    BY DEF StackDistinct, NoteTypeOK
  <2>7. ASSUME NEW j \in 1 .. Len(noteStack) - 1
        PROVE  Erased(n)[j] # n
    BY <2>2, <2>3, <2>4, <2>6
  <2>8. ASSUME NEW j \in 1 .. Len(noteStack) - 1, NEW k \in 1 .. Len(noteStack) - 1,
               Erased(n)[j] = Erased(n)[k]
        PROVE  j = k
    BY <2>3, <2>4, <2>5, <2>6, <2>8
  <2> QED
    BY <2>2, <2>3, <2>7, <2>8
<1> QED
  BY <1>1, <1>2

\* The note a key falls back to is the top of what is left of the stack, and
\* never the value NoteDequeue answers an empty one with.
LEMMA DequeuedTop ==
  ASSUME NoteTypeOK, StackDistinct, NEW n \in Notes
  PROVE  /\ Erased(n) = <<>> => NoteDequeue(n) = kInvalidNoteNumber
         /\ Erased(n) # <<>> => /\ NoteDequeue(n) = Last(Erased(n))
                                /\ NoteDequeue(n) \in Notes
                                /\ NoteDequeue(n) # kInvalidNoteNumber
<1>1. CASE Erased(n) = <<>>
  BY <1>1 DEF NoteDequeue
<1>2. CASE Erased(n) # <<>>
  <2> DEFINE s == Erased(n)
  <2>1. s \in Seq(Notes)
    BY ErasedDistinct
  <2> HIDE DEF s
  <2>2. Last(s) \in Notes
    BY <1>2, <2>1 DEF s, Last
  <2>3. Last(s) # kInvalidNoteNumber
    BY <2>2, NotesAssumption DEF NotesAssumption, kInvalidNoteNumber
  <2>4. NoteDequeue(n) = Last(s)
    BY <1>2 DEF NoteDequeue, s
  <2> QED
    BY <1>2, <2>2, <2>3, <2>4 DEF s
<1> QED
  BY <1>1, <1>2

-----------------------------------------------------------------------------
(***************************************************************************)
(* The invariant.                                                          *)
(***************************************************************************)
LEMMA NoteInitInv == NoteInit => NoteInv
<1> SUFFICES ASSUME NoteInit PROVE NoteInv
  OBVIOUS
<1>1. NoteTypeOK
  <2>1. <<>> \in Seq(Notes)
    OBVIOUS
  <2>2. [e \in Envelopes |-> "kInit"] \in [Envelopes -> EnvelopeState]
    BY DEF EnvelopeState
  <2> QED
    BY <2>1, <2>2 DEF NoteInit, NoteTypeOK
<1>2. StackDistinct
  BY DEF NoteInit, StackDistinct
<1>3. SoundsTop
  BY DEF NoteInit, SoundsTop
<1>4. PitchChangeTriggers
  BY DEF NoteInit, PitchChangeTriggers
<1>5. StrayAttackNeedsTap
  BY DEF NoteInit, StrayAttackNeedsTap
<1> QED
  BY <1>1, <1>2, <1>3, <1>4, <1>5 DEF NoteInv

\* The pressed note becomes the only one of its number, on top.
LEMMA NoteOnInv ==
  ASSUME NoteInv, NEW n \in Notes, NoteOn(n)
  PROVE  NoteInv'
<1> DEFINE s == Erased(n)
<1>1. NoteTypeOK /\ StackDistinct
  BY DEF NoteInv
<1>2. /\ s \in Seq(Notes)
      /\ \A j \in DOMAIN s : s[j] # n
      /\ \A j, k \in DOMAIN s : s[j] = s[k] => j = k
  BY <1>1, ErasedDistinct
<1>3. noteStack' = Append(s, n)
  BY DEF NoteOn, NoteEnqueue
<1> HIDE DEF s
<1>4. /\ noteStack' \in Seq(Notes)
      /\ Len(noteStack') = Len(s) + 1
      /\ DOMAIN noteStack' = 1 .. Len(s) + 1
      /\ \A j \in 1 .. Len(s) : noteStack'[j] = s[j]
      /\ noteStack'[Len(s) + 1] = n
      /\ Len(s) \in Nat /\ DOMAIN s = 1 .. Len(s)
  BY <1>2, <1>3
<1>5. NoteTypeOK'
  BY <1>1, <1>4 DEF NoteOn, NoteTypeOK
<1>6. StackDistinct'
  <2> SUFFICES ASSUME NEW j \in 1 .. Len(s) + 1, NEW k \in 1 .. Len(s) + 1,
                      noteStack'[j] = noteStack'[k]
               PROVE  j = k
    BY <1>4 DEF StackDistinct
  <2>1. CASE j \in 1 .. Len(s) /\ k \in 1 .. Len(s)
    BY <1>2, <1>4, <2>1
  <2>2. CASE j = Len(s) + 1 \/ k = Len(s) + 1
    BY <1>2, <1>4, <2>2
  <2> QED
    BY <1>4, <2>1, <2>2
<1>7. SoundsTop'
  BY <1>4 DEF NoteOn, SoundsTop, Last
<1>8. PitchChangeTriggers' /\ StrayAttackNeedsTap'
  BY DEF NoteOn, PitchChangeTriggers, StrayAttackNeedsTap
<1> QED
  BY <1>5, <1>6, <1>7, <1>8 DEF NoteInv

\* The note that came up is gone, and what is left keeps sounding.
LEMMA NoteOffInv ==
  ASSUME NoteInv, NEW n \in Notes, NoteOff(n)
  PROVE  NoteInv'
<1> DEFINE s == Erased(n)
<1>1. NoteTypeOK /\ StackDistinct /\ SoundsTop /\ PitchChangeTriggers /\ StrayAttackNeedsTap
  BY DEF NoteInv
<1>2. /\ s \in Seq(Notes)
      /\ \A j, k \in DOMAIN s : s[j] = s[k] => j = k
      /\ noteStack = <<>> => s = <<>>
  BY <1>1, ErasedDistinct
<1>3. noteStack' = s /\ pitch' = pitch
  BY DEF NoteOff
<1>4. StackDistinct'
  BY <1>2, <1>3 DEF StackDistinct
<1>5. CASE s = <<>>
  <2>1. AllUp
    BY <1>1, <1>5, DequeuedTop DEF NoteOff
  <2>2. NoteTypeOK'
    BY <1>1, <1>2, <1>3, <2>1 DEF AllUp, NoteTypeOK, EnvelopeState
  <2>3. SoundsTop'
    BY <1>3, <1>5, <2>1 DEF AllUp, SoundsTop
  <2>4. PitchChangeTriggers'
    BY <1>1, <1>3, <2>1 DEF AllUp, PitchChangeTriggers
  <2>5. StrayAttackNeedsTap'
    BY <2>1 DEF AllUp, StrayAttackNeedsTap
  <2> QED
    BY <1>4, <2>2, <2>3, <2>4, <2>5 DEF NoteInv
<1>6. CASE s # <<>>
  <2>1. NoteDequeue(n) = Last(s) /\ NoteDequeue(n) \in Notes
    BY <1>1, <1>6, DequeuedTop
  <2>2. FallBackTo(NoteDequeue(n))
    BY <1>1, <1>6, DequeuedTop DEF NoteOff
  <2>3. NoteTypeOK'
    BY <1>1, <1>2, <1>3, <2>1, <2>2 DEF FallBackTo, NoteTypeOK
  <2>4. output
    BY <1>1, <1>2, <1>6 DEF SoundsTop
  <2>5. SoundsTop'
    BY <1>3, <1>6, <2>1, <2>2, <2>4 DEF FallBackTo, SoundsTop
  <2>6. PitchChangeTriggers'
    BY <1>1, <1>3, <2>2 DEF FallBackTo, PitchChangeTriggers
  <2>7. StrayAttackNeedsTap'
    BY <1>1, <2>2, <2>4 DEF FallBackTo, StrayAttackNeedsTap
  <2> QED
    BY <1>4, <2>3, <2>5, <2>6, <2>7 DEF NoteInv
<1> QED
  BY <1>5, <1>6

\* An envelope that was not attacking starts to with a trigger only.
LEMMA TickInv ==
  ASSUME NoteInv, Tick
  PROVE  NoteInv'
<1>1. NoteTypeOK /\ StackDistinct /\ SoundsTop /\ StrayAttackNeedsTap
  BY DEF NoteInv
<1>2. CASE hasNoteOn
  <2>1. state' = [e \in Envelopes |-> "kAttack"]
    BY <1>2 DEF Tick
  <2>2. NoteTypeOK'
    BY <1>1, <2>1 DEF Tick, NoteTypeOK, EnvelopeState
  <2>3. StrayAttackNeedsTap'
    BY <1>1, <1>2 DEF Tick, StrayAttackNeedsTap
  <2> QED
    BY <1>1, <2>2, <2>3
    DEF Tick, NoteInv, StackDistinct, SoundsTop, PitchChangeTriggers
<1>3. CASE ~ hasNoteOn
  <2>1. /\ state' \in [Envelopes -> EnvelopeState]
        /\ \A e \in Envelopes : state'[e] \in Advance(state[e])
    BY <1>3 DEF Tick
  <2>2. NoteTypeOK'
    BY <1>1, <2>1 DEF Tick, NoteTypeOK
  <2>3. \A e \in Envelopes : state'[e] = "kAttack" => state[e] = "kAttack"
    <3> SUFFICES ASSUME NEW e \in Envelopes, state[e] # "kAttack"
                 PROVE  state'[e] # "kAttack"
      OBVIOUS
    <3>1. state[e] \in EnvelopeState
      BY <1>1 DEF NoteTypeOK
    <3> QED
      BY <2>1, <3>1 DEF Advance, EnvelopeState
  <2>4. StrayAttackNeedsTap'
    BY <1>1, <2>3 DEF Tick, StrayAttackNeedsTap
  <2> QED
    BY <1>1, <2>2, <2>4
    DEF Tick, NoteInv, StackDistinct, SoundsTop, PitchChangeTriggers
<1> QED
  BY <1>2, <1>3

LEMMA NoteStep == NoteInv /\ [NoteNext]_noteVars => NoteInv'
<1> SUFFICES ASSUME NoteInv, [NoteNext]_noteVars PROVE NoteInv'
  OBVIOUS
<1>1. CASE UNCHANGED noteVars
  BY <1>1 DEF noteVars, NoteInv, NoteTypeOK, StackDistinct, SoundsTop,
              PitchChangeTriggers, StrayAttackNeedsTap
<1> QED
  BY <1>1, NoteOnInv, NoteOffInv, TickInv DEF NoteNext

THEOREM NoteInvariance == NoteSpec => []NoteInv
  BY NoteInitInv, NoteStep, PTL DEF NoteSpec

-----------------------------------------------------------------------------
(***************************************************************************)
(* Its parts.                                                              *)
(***************************************************************************)
\* A note is in the stack at most once, so that one NoteOff takes it out for
\* good, for any set of keys.
THEOREM StackDistinctHolds == NoteSpec => []StackDistinct
  BY NoteInvariance, PTL DEF NoteInv

\* The synthesizer sounds exactly while a key is held, and plays the top.
THEOREM SoundsTopHolds == NoteSpec => []SoundsTop
  BY NoteInvariance, PTL DEF NoteInv

\* No pitch is taken over without a restart of partials and envelopes.
THEOREM PitchChangeTriggersHolds == NoteSpec => []PitchChangeTriggers
  BY NoteInvariance, PTL DEF NoteInv

\* An attack without a key is the mark of a tap between two ticks.
THEOREM StrayAttackNeedsTapHolds == NoteSpec => []StrayAttackNeedsTap
  BY NoteInvariance, PTL DEF NoteInv

-----------------------------------------------------------------------------
(***************************************************************************)
(* The stack implements last-note priority.  What orders the held keys is  *)
(* their place in the stack, and leaving one entry out keeps the order of  *)
(* the others.                                                             *)
(***************************************************************************)
OrderOf(s) == {<<s[p[1]], s[p[2]]>> : p \in {q \in (DOMAIN s) \X (DOMAIN s) : q[1] > q[2]}}

\* The pairs of an order, by their places.
LEMMA OrderPlaces ==
  ASSUME NEW s, NEW r
  PROVE  r \in OrderOf(s) <=>
           \E j, k \in DOMAIN s : j > k /\ r = <<s[j], s[k]>>
<1>1. ASSUME r \in OrderOf(s)
      PROVE  \E j, k \in DOMAIN s : j > k /\ r = <<s[j], s[k]>>
  <2>1. PICK p \in (DOMAIN s) \X (DOMAIN s) : p[1] > p[2] /\ r = <<s[p[1]], s[p[2]]>>
    BY <1>1 DEF OrderOf
  <2>2. p[1] \in DOMAIN s /\ p[2] \in DOMAIN s
    BY <2>1
  <2> QED
    BY <2>1, <2>2
<1>2. ASSUME NEW j \in DOMAIN s, NEW k \in DOMAIN s, j > k
      PROVE  <<s[j], s[k]>> \in OrderOf(s)
  <2> DEFINE q == <<j, k>>
  <2>1. q \in (DOMAIN s) \X (DOMAIN s) /\ q[1] > q[2]
    BY <1>2
  <2>2. <<s[q[1]], s[q[2]]>> \in OrderOf(s)
    BY <2>1 DEF OrderOf
  <2> QED
    BY <2>2
<1> QED
  BY <1>1, <1>2

\* Without a note, the order holds the pairs the note has no part in, and the
\* stack the other notes.
LEMMA ErasedOrder ==
  ASSUME NoteTypeOK, StackDistinct, NEW n \in Notes
  PROVE  /\ OrderOf(Erased(n)) = {r \in OrderOf(noteStack) : r[1] # n /\ r[2] # n}
         /\ ToSet(Erased(n)) = ToSet(noteStack) \ {n}
<1> DEFINE s == Erased(n)
<1>1. CASE Found(n) = {}
  <2>1. s = noteStack
    BY <1>1 DEF Erased
  <2>2. \A i \in DOMAIN noteStack : noteStack[i] # n
    BY <1>1 DEF Found
  <2>3. \A r \in OrderOf(noteStack) : r[1] # n /\ r[2] # n
    BY <2>2, OrderPlaces
  <2>4. n \notin ToSet(noteStack)
    BY <2>2 DEF ToSet
  <2> QED
    BY <2>1, <2>3, <2>4
<1>2. CASE Found(n) # {}
  <2>1. PICK i \in Found(n) : TRUE
    BY <1>2
  <2>2. /\ i \in 1 .. Len(noteStack) /\ Len(noteStack) \in Nat
        /\ DOMAIN noteStack = 1 .. Len(noteStack)
        /\ noteStack[i] = n
    BY FoundOnce DEF NoteTypeOK, Found
  <2>3. /\ DOMAIN s = 1 .. Len(noteStack) - 1
        /\ \A j \in 1 .. Len(noteStack) - 1 : s[j] = noteStack[Skipping(i, j)]
    BY ErasedEntries, <2>1
  <2>4. \A j \in DOMAIN s : s[j] # n
    BY ErasedDistinct
  <2>5. \A j \in 1 .. Len(noteStack) - 1 : Skipping(i, j) \in 1 .. Len(noteStack)
    BY <2>2 DEF Skipping
  <2>6. \A j, k \in 1 .. Len(noteStack) - 1 : j > k => Skipping(i, j) > Skipping(i, k)
    BY <2>2 DEF Skipping
  <2>7. ASSUME NEW p \in 1 .. Len(noteStack), p # i
        PROVE  \E j \in 1 .. Len(noteStack) - 1 : Skipping(i, j) = p /\ j \in {p, p - 1}
    <3>1. CASE p < i
      BY <2>2, <3>1 DEF Skipping
    <3>2. CASE p > i
      <4>1. p - 1 \in 1 .. Len(noteStack) - 1 /\ Skipping(i, p - 1) = p
        BY <2>2, <3>2 DEF Skipping
      <4> QED
        BY <4>1
    <3> QED
      BY <2>2, <2>7, <3>1, <3>2
  <2> HIDE DEF s
  <2>8. ASSUME NEW r \in OrderOf(s)
        PROVE  r \in OrderOf(noteStack) /\ r[1] # n /\ r[2] # n
    <3>1. PICK j \in DOMAIN s, k \in DOMAIN s : j > k /\ r = <<s[j], s[k]>>
      BY OrderPlaces
    <3>2. r = <<noteStack[Skipping(i, j)], noteStack[Skipping(i, k)]>>
      BY <2>3, <3>1
    <3>3. Skipping(i, j) > Skipping(i, k)
      BY <2>3, <2>6, <3>1
    <3>4. r \in OrderOf(noteStack)
      BY <2>2, <2>3, <2>5, <3>2, <3>3, OrderPlaces
    <3> QED
      BY <2>4, <3>1, <3>4
  <2>9. ASSUME NEW r \in OrderOf(noteStack), r[1] # n, r[2] # n
        PROVE  r \in OrderOf(s)
    <3>1. PICK p \in DOMAIN noteStack, q \in DOMAIN noteStack :
            p > q /\ r = <<noteStack[p], noteStack[q]>>
      BY OrderPlaces
    <3>2. p # i /\ q # i
      BY <2>2, <2>9, <3>1
    <3>3. PICK j \in 1 .. Len(noteStack) - 1 : Skipping(i, j) = p
      BY <2>2, <2>7, <3>2
    <3>4. PICK k \in 1 .. Len(noteStack) - 1 : Skipping(i, k) = q
      BY <2>2, <2>7, <3>2
    <3>5. j > k
      BY <2>2, <3>1, <3>3, <3>4 DEF Skipping
    <3>6. r = <<s[j], s[k]>>
      BY <2>3, <3>1, <3>3, <3>4
    <3> QED
      BY <2>3, <3>5, <3>6, OrderPlaces
  <2>10. ToSet(s) = ToSet(noteStack) \ {n}
    <3>1. ToSet(s) \subseteq ToSet(noteStack) \ {n}
      BY <2>2, <2>3, <2>4, <2>5 DEF ToSet
    <3>2. ASSUME NEW m \in ToSet(noteStack), m # n
          PROVE  m \in ToSet(s)
      <4>1. PICK p \in 1 .. Len(noteStack) : noteStack[p] = m
        BY <2>2 DEF ToSet
      <4>2. PICK j \in 1 .. Len(noteStack) - 1 : Skipping(i, j) = p
        BY <2>2, <2>7, <3>2, <4>1
      <4> QED
        BY <2>3, <4>1, <4>2 DEF ToSet
    <3> QED
      BY <3>1, <3>2
  <2> QED
    BY <2>8, <2>9, <2>10 DEF s
<1> QED
  BY <1>1, <1>2

\* A note pushed on a stack is newer than all of it.
LEMMA PushedOrder ==
  ASSUME NEW s \in Seq(Notes), NEW n \in Notes
  PROVE  /\ OrderOf(Append(s, n)) = OrderOf(s) \cup ({n} \X ToSet(s))
         /\ ToSet(Append(s, n)) = ToSet(s) \cup {n}
<1> DEFINE t == Append(s, n)
<1>1. /\ Len(s) \in Nat /\ DOMAIN s = 1 .. Len(s)
      /\ DOMAIN t = 1 .. Len(s) + 1
      /\ \A j \in 1 .. Len(s) : t[j] = s[j]
      /\ t[Len(s) + 1] = n
  OBVIOUS
<1> HIDE DEF t
<1>2. ASSUME NEW r \in OrderOf(t)
      PROVE  r \in OrderOf(s) \cup ({n} \X ToSet(s))
  <2>1. PICK j \in DOMAIN t, k \in DOMAIN t : j > k /\ r = <<t[j], t[k]>>
    BY OrderPlaces
  <2>2. k \in DOMAIN s /\ t[k] = s[k] /\ s[k] \in ToSet(s)
    BY <1>1, <2>1 DEF ToSet
  <2>3. CASE j = Len(s) + 1
    BY <1>1, <2>1, <2>2, <2>3
  <2>4. CASE j \in DOMAIN s
    BY <1>1, <2>1, <2>2, <2>4, OrderPlaces
  <2> QED
    BY <1>1, <2>1, <2>3, <2>4
<1>3. ASSUME NEW r \in OrderOf(s)
      PROVE  r \in OrderOf(t)
  <2>1. PICK j \in DOMAIN s, k \in DOMAIN s : j > k /\ r = <<s[j], s[k]>>
    BY OrderPlaces
  <2>2. j \in DOMAIN t /\ k \in DOMAIN t /\ r = <<t[j], t[k]>>
    BY <1>1, <2>1
  <2> QED
    BY <2>1, <2>2, OrderPlaces
<1>4. ASSUME NEW m \in ToSet(s)
      PROVE  <<n, m>> \in OrderOf(t)
  <2>1. PICK k \in DOMAIN s : m = s[k]
    BY DEF ToSet
  <2>2. /\ Len(s) + 1 \in DOMAIN t /\ k \in DOMAIN t /\ Len(s) + 1 > k
        /\ <<n, m>> = <<t[Len(s) + 1], t[k]>>
    BY <1>1, <2>1
  <2> QED
    BY <2>2, OrderPlaces
<1>5. ToSet(t) = ToSet(s) \cup {n}
  BY <1>1 DEF ToSet
<1> QED
  BY <1>2, <1>3, <1>4, <1>5 DEF t

\* The top of a stack is the latest of its notes.
LEMMA TopIsLatest ==
  ASSUME NEW s \in Seq(Notes), s # <<>>
  PROVE  Keyboard!Latest(Last(s), ToSet(s), OrderOf(s))
<1>1. Len(s) \in DOMAIN s /\ Last(s) = s[Len(s)] /\ DOMAIN s = 1 .. Len(s) /\ Len(s) \in Nat
  BY DEF Last
<1>2. Last(s) \in ToSet(s)
  BY <1>1 DEF ToSet
<1>3. ASSUME NEW m \in ToSet(s) \ {Last(s)}
      PROVE  <<Last(s), m>> \in OrderOf(s)
  <2>1. PICK k \in DOMAIN s : m = s[k]
    BY DEF ToSet
  <2>2. Len(s) > k
    BY <1>1, <1>3, <2>1
  <2> QED
    BY <1>1, <2>1, <2>2, OrderPlaces
<1> QED
  BY <1>2, <1>3 DEF Keyboard!Latest

\* What the keyboard sees of the stack.
held == ToSet(noteStack)
newer == OrderOf(noteStack)

\* A note pressed is the newest and sounds.
LEMMA NoteOnPresses ==
  ASSUME NoteInv, NEW n \in Notes, NoteOn(n)
  PROVE  Keyboard!PressKey(n)
<1> DEFINE s == Erased(n)
<1>1. /\ s \in Seq(Notes)
      /\ OrderOf(s) = {r \in newer : r[1] # n /\ r[2] # n}
      /\ ToSet(s) = held \ {n}
  BY ErasedDistinct, ErasedOrder DEF NoteInv, held, newer
<1>2. noteStack' = Append(s, n) /\ noteNumber' = n /\ output' = TRUE
  BY DEF NoteOn, NoteEnqueue
<1> HIDE DEF s
<1>3. /\ newer' = OrderOf(s) \cup ({n} \X ToSet(s))
      /\ held' = ToSet(s) \cup {n}
  <2>1. newer' = OrderOf(noteStack') /\ held' = ToSet(noteStack')
    BY DEF newer, OrderOf, held, ToSet
  <2> QED
    BY <1>1, <1>2, <2>1, PushedOrder
<1>4. Keyboard!Latest(n, held', newer')
  BY <1>3 DEF Keyboard!Latest
<1> QED
  BY <1>1, <1>2, <1>3, <1>4
  DEF Keyboard!PressKey, Keyboard!Without, Keyboard!Sound, held, newer, OrderOf

\* A note that came up is gone, and the latest of the others sounds; one that
\* was not held changes nothing.
LEMMA NoteOffReleases ==
  ASSUME NoteInv, NEW n \in Notes, NoteOff(n)
  PROVE  Keyboard!ReleaseKey(n) \/ UNCHANGED Keyboard!lvars
<1> DEFINE s == Erased(n)
<1>1. NoteTypeOK /\ StackDistinct /\ SoundsTop
  BY DEF NoteInv
<1>2. /\ s \in Seq(Notes)
      /\ OrderOf(s) = {r \in newer : r[1] # n /\ r[2] # n}
      /\ ToSet(s) = held \ {n}
  BY <1>1, ErasedDistinct, ErasedOrder DEF held, newer
<1>3. noteStack' = s
  BY DEF NoteOff
<1>4. s = <<>> => output' = FALSE /\ noteNumber' = noteNumber
  BY <1>1, DequeuedTop DEF NoteOff, AllUp
<1>5. s # <<>> => output' = output /\ noteNumber' = Last(s)
  BY <1>1, DequeuedTop DEF NoteOff, FallBackTo
<1>6. CASE n \notin held
  <2>1. s = noteStack
    BY <1>6 DEF Erased, Found, held, ToSet
  <2>2. output' = output /\ noteNumber' = noteNumber
    BY <1>1, <1>4, <1>5, <2>1 DEF SoundsTop, NoteTypeOK
  <2> QED
    BY <1>3, <2>1, <2>2 DEF Keyboard!lvars
<1>7. CASE n \in held
  <2>1. output
    BY <1>1, <1>7 DEF SoundsTop, held, ToSet
  <2> HIDE DEF s
  <2>2. held' = held \ {n} /\ newer' = OrderOf(s)
    BY <1>2, <1>3 DEF held, newer, OrderOf
  <2>3. Keyboard!Sound
    <3>1. CASE s = <<>>
      <4>1. held' = {}
        BY <1>3, <3>1 DEF held, ToSet
      <4> QED
        BY <1>4, <3>1, <4>1 DEF Keyboard!Sound, held
    <3>2. CASE s # <<>>
      <4>1. Keyboard!Latest(noteNumber', held', newer')
        BY <1>2, <1>5, <2>2, <3>2, TopIsLatest
      <4> QED
        BY <1>5, <2>1, <3>2, <4>1 DEF Keyboard!Sound, held, newer, OrderOf
    <3> QED
      BY <3>1, <3>2
  <2> QED
    BY <1>2, <1>7, <2>2, <2>3
    DEF Keyboard!ReleaseKey, Keyboard!Without, held, newer, OrderOf
<1> QED
  BY <1>6, <1>7

\* The key that sounds is always the one pressed last among those held, and
\* none sounds when none is held, for any set of keys.
THEOREM StackRefinesLastNote == NoteSpec => RefinesLastNote
<1>1. NoteInit => Keyboard!LastNoteInit
  BY DEF NoteInit, Keyboard!LastNoteInit, ToSet
<1>2. NoteInv /\ [NoteNext]_noteVars => [Keyboard!LastNoteNext]_(Keyboard!lvars)
  <2> SUFFICES ASSUME NoteInv, [NoteNext]_noteVars
               PROVE  Keyboard!LastNoteNext \/ UNCHANGED Keyboard!lvars
    OBVIOUS
  <2>1. CASE Tick \/ UNCHANGED noteVars
    BY <2>1 DEF Tick, noteVars, Keyboard!lvars
  <2>2. CASE \E n \in Notes : NoteOn(n) \/ NoteOff(n)
    BY <2>2, NoteOnPresses, NoteOffReleases DEF Keyboard!LastNoteNext
  <2> QED
    BY <2>1, <2>2 DEF NoteNext
<1> QED
  BY <1>1, <1>2, NoteInvariance, PTL DEF NoteSpec, RefinesLastNote, Keyboard!LastNoteSpec
=============================================================================
