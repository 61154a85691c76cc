--------------------------- MODULE MCAcuDiscovery ---------------------------
(***************************************************************************)
(* Instances of AcuDiscovery for TLC: three files that import each other   *)
(* in many ways, under two names, in cycles, twice, through different      *)
(* directories, with builtin and missing modules and repeated aliases.     *)
(***************************************************************************)
EXTENDS AcuDiscovery

CONSTANTS a, b, c

MCFiles == {a, b, c}

MCNames == {"a", "b", "./b", "c", "gone", "io", "sys"}

MCIdents == {"p", "q", "io", "sys"}

MCVirtualNames == <<"io", "sys">>

(* c lies in a directory of its own, where b is another file; io.acu is    *)
(* what the working directory has under the name of a builtin module.      *)
Leads ==
  [x \in (MCFiles \union {ACU_NULL_IDX}) \X MCNames |->
     CASE x[2] = "a" -> a
       [] x[2] \in {"b", "./b"} -> IF x[1] = c THEN c ELSE b
       [] x[2] = "c" -> c
       [] x[2] = "io" -> a
       [] OTHER -> Missing]

I(name, alias) == [kind |-> "import", name |-> name, alias |-> alias]

D(alias) == [kind |-> "decl", alias |-> alias]

Texts ==
  {<<>>, <<D("p"), D("p")>>, <<I("a", "p")>>, <<I("b", "p")>>, <<I("c", "p"), D("q")>>,
   <<I("b", "p"), I("c", "q")>>, <<I("c", "p"), I("b", "q"), I("./b", "sys")>>, <<I("c", "p"), I("b", "p")>>,
   <<I("io", "p"), I("a", "q")>>, <<I("gone", "p")>>}

MCPrograms ==
  {[main |-> m, leads |-> Leads, text |-> t, broken |-> x, unreadable |-> y] :
     m \in {"a", "io", "sys"}, t \in [MCFiles -> Texts], x \in {{}, {a}, {b}}, y \in {{}, {c}}}
=============================================================================
