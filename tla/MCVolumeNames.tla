--------------------------- MODULE MCVolumeNames ---------------------------
(***************************************************************************)
(* First volumes for VolumeNames: the endings RAR and its users give them. *)
(***************************************************************************)
EXTENDS VolumeNames

Usual == {Part(1, 1), Part(1, 2), Part(1, 3), Num(1, 1), Num(1, 3), Rar}

(* movie.12.1: the ending is repeated at the beginning of the one before.  *)
Repeating == {[Num(1, 1) EXCEPT !.before = [number |-> 12, width |-> 2]]}

Distinct == {[Num(1, 1) EXCEPT !.before = [number |-> 25, width |-> 2]]}

AllSets ==
  ((Usual \cup Repeating \cup Distinct) \X {1, 3, 250}) \cup ({Num(1, 3)} \X {1010})

ASSUME LettersAssumption == LettersSuffice
=============================================================================
