------------------------------ MODULE LastNote ------------------------------
(***************************************************************************)
(* What a monophonic keyboard promises: the key pressed last among those   *)
(* still held down sounds, and nothing sounds when no key is held.         *)
(*                                                                         *)
(* newer orders the held keys by their last press: <<a, b>> \in newer when *)
(* a was pressed after b.                                                  *)
(***************************************************************************)
CONSTANT Notes

VARIABLES held, newer, gate, note

lvars == <<held, newer, gate, note>>

Latest(n, H, order) == n \in H /\ \A m \in H \ {n} : <<n, m>> \in order

LastNoteInit ==
  /\ held = {}
  /\ newer = {}
  /\ gate = FALSE

\* The order without the pairs n takes part in.
Without(n) == {r \in newer : r[1] # n /\ r[2] # n}

Sound == \/ held' = {} /\ gate' = FALSE /\ note' = note
         \/ gate' = TRUE /\ Latest(note', held', newer')

\* Pressing a held key again makes it the newest.
PressKey(n) ==
  /\ held' = held \cup {n}
  /\ newer' = Without(n) \cup ({n} \X (held \ {n}))
  /\ Sound

ReleaseKey(n) ==
  /\ n \in held
  /\ held' = held \ {n}
  /\ newer' = Without(n)
  /\ Sound

LastNoteNext == \E n \in Notes : PressKey(n) \/ ReleaseKey(n)

LastNoteSpec == LastNoteInit /\ [][LastNoteNext]_lvars
=============================================================================
