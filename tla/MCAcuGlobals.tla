---------------------------- MODULE MCAcuGlobals ----------------------------
(***************************************************************************)
(* Instances of AcuGlobals for TLC: three variables whose initialisers     *)
(* mention up to two variables each, in every order and with repetitions,  *)
(* declared in every order, with statements that mention variables before  *)
(* and between the declarations.                                           *)
(***************************************************************************)
EXTENDS AcuGlobals

CONSTANTS g1, g2, g3

MCGlobals == {g1, g2, g3}

Pairs == {<<>>} \union {<<g>> : g \in MCGlobals} \union {<<g, h>> : g, h \in MCGlobals}

Declared == {<< <<g1>>, <<g2>>, <<g3>> >>, << <<g3>>, <<g2>>, <<g1>> >>,
             << <<g3, g3, g1>>, <<g2>>, <<g1>>, <<g3>> >>,
             << <<g2>>, <<>>, <<g1>>, <<g1, g3>>, <<g3>> >>}

MCSources == [init : [MCGlobals -> Pairs], statements : Declared]
=============================================================================
