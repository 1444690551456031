------------------------- MODULE MCRetrainPipeline -------------------------
(***************************************************************************)
(* Instances of RetrainPipeline for TLC.                                   *)
(***************************************************************************)
EXTENDS RetrainPipeline

CONSTANTS run1, run2

RunSymmetry == Permutations(Runs)

(* Sixteen questions, of which the base model answers only the last.  A      *)
(* candidate answers all, or loses that one: all there is of its source.    *)
(* It may be asked ten only, without all of the canary's.                    *)
MCSourceOf == [q \in 1..16 |-> IF q = 16 THEN "tatqa" ELSE "finqa"]
MCBaseAnswers == {16}
MCOutcomes == { Score(1..16, 1..9), Score(1..16, 1..16), Score(1..10, 1..16) }
MCCanaryQuestions == {1, 16}

(* Traffic like the first kind of row, of which there are too many to be    *)
(* replayed by the others, like the second, and like no row.                *)
MCPool == [short |-> 3, long |-> 2, new |-> 0]
MCWindows == { [short |-> 1, long |-> 0, new |-> 0], [short |-> 0, long |-> 1, new |-> 0],
               [short |-> 0, long |-> 0, new |-> 1] }

ASSUME SignTestIsExact(6)

LateTasks == {"watch", "register", "rollback"}
=============================================================================
