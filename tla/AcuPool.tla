------------------------------- MODULE AcuPool -------------------------------
(***************************************************************************)
(* What the constant pool, the string pool and the interners of strings    *)
(* and types promise: equal things get one number, unequal things          *)
(* different ones, and a number means the same for ever.  AcuInterner      *)
(* implements it.                                                          *)
(***************************************************************************)
EXTENDS Naturals, Sequences, SequencesExt

VARIABLES
  known,   (* the things that have a number, in its order                  *)
  answer   (* the last question and its number, counted from 0             *)

(* Nothing has been asked.                                                 *)
Init == IsInjective(known) /\ answer.id = 0

IdOf(seq, content) == CHOOSE id \in 0 .. Len(seq) - 1 : seq[id + 1] = content

Intern(content) ==
  /\ known' = IF Contains(known, content) THEN known ELSE Append(known, content)
  /\ answer' = [of |-> content, id |-> IdOf(known', content)]

(* What is asked for is in the answer.                                     *)
Next == Intern(answer'.of)

Spec == Init /\ [][Next]_<<known, answer>>
=============================================================================
