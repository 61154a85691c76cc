---------------------------- MODULE MCAcuEffects ----------------------------
(***************************************************************************)
(* Instances of AcuEffects for TLC: a system function (symbol 0), a global *)
(* variable (1) and three functions (2, 3, 4) that call each other in      *)
(* every way, with and without recursion, forwards and backwards in the    *)
(* order of declaration.                                                   *)
(***************************************************************************)
EXTENDS AcuEffects, TLC

Calling(f, path) == [act |-> "call", sym |-> f, path |-> path, arg |-> FALSE]
Inside(o) == [o EXCEPT !.arg = TRUE]
Assign(path) == [act |-> "assign", sym |-> 1, path |-> path, arg |-> FALSE]

Named(fs) == {Calling(f, "name") : f \in fs}

Fns == {2, 3, 4}
System == Calling(0, "name")

Program(init, b2, b3, b4, main) ==
  [kind |-> 0 :> "system" @@ 1 :> "global" @@ 2 :> "function" @@ 3 :> "function" @@ 4 :> "function",
   body |-> 0 :> {} @@ 1 :> init @@ 2 :> b2 @@ 3 :> b3 @@ 4 :> b4,
   main |-> main]

(* Bodies, initialisers and main programs.                                 *)
Bodies2 == {Named(cs) \union extra : cs \in SUBSET Fns, extra \in {{}, {Calling(3, "chain")}}}
Bodies3 == {Named(cs) \union extra : cs \in SUBSET Fns,
              extra \in {{}, {Assign("shadow")}, {Assign("module")}}}
Bodies4 == {Named(cs) \union extra : cs \in SUBSET {2, 3},
              extra \in {{}, {Assign("name")}, {System}, {Calling(3, "module"), Inside(Calling(2, "name"))}}}

Starts == {<<{}, {{Calling(2, "name"), Inside(Calling(4, "name"))}, {Calling(3, "module")}}>>,
          <<{Calling(4, "chain")}, {{System, Inside(Calling(3, "name"))}, {Assign("name")}}>>}

Programs3 ==
  {Program(start[1], b2, b3, b4, start[2]) :
     start \in Starts, b2 \in Bodies2, b3 \in Bodies3, b4 \in Bodies4}

=============================================================================
