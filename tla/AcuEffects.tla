----------------------------- MODULE AcuEffects -----------------------------
(***************************************************************************)
(* Which functions may be dropped: passes 4 and 5 of the analyzer          *)
(* (src/analyzer/analyzer_pass4.c, analyzer_pass5.c) and their reader in   *)
(* the code generator, AcuCodeGen_IsPure.                                  *)
(*                                                                         *)
(* Pass 4 marks functions PURE: optimistically every function whose body   *)
(* shows no effect, then rounds over all symbols take the mark away from   *)
(* callers of unmarked ones until a round changes nothing.  Pass 5 marks   *)
(* functions REACHABLE from the initialisers of globals and the statements *)
(* of the main module with a worklist; only these are compiled.            *)
(*                                                                         *)
(* The body of a function is the set of the assignments to global          *)
(* variables and of the calls that occur in it.  An occurrence is written  *)
(* in one of these ways (path), which the recursive walks of the two       *)
(* passes tell apart, and is or is not inside an argument of a call (arg): *)
(*   "name"    an identifier of the same module                            *)
(*   "module"  a member of an imported module, m.x                         *)
(*   "chain"   a member of a re-exported module, m.n.x                     *)
(*   "shadow"  an identifier which a local variable hides (then no global  *)
(*             changes); pass 4 looks names up in the scope of the module  *)
(***************************************************************************)
EXTENDS Integers, FiniteSets

CONSTANTS
  SymbolCount,   (* symbols are numbered from 0 in order of declaration    *)
  Programs       (* the analysed programs, see IsProgram                   *)

Symbols == 0 .. SymbolCount - 1

Occurrence ==
  [act : {"assign", "call"}, sym : Symbols,
   path : {"name", "module", "chain", "shadow"}, arg : BOOLEAN]

(* kind of every symbol; body of a function, initialiser of a global; the  *)
(* statements of the main module.                                          *)
IsProgram(p) ==
  /\ p.kind \in [Symbols -> {"function", "system", "global"}]
  /\ p.body \in [Symbols -> SUBSET Occurrence]
  /\ \A s \in Symbols : p.kind[s] = "system" => p.body[s] = {}
  /\ p.main \in SUBSET SUBSET Occurrence
  /\ \A o \in (UNION {p.body[s] : s \in Symbols}) \union (UNION p.main) :
       IF o.act = "assign" THEN p.kind[o.sym] = "global"
       ELSE p.kind[o.sym] # "global" /\ o.path # "shadow"

ASSUME ProgramsAssumption ==
  /\ SymbolCount \in Nat
  /\ \A p \in Programs : IsProgram(p)

VARIABLES
  program,     (* ws->symbols and the bodies they declare                  *)
  phase,       (* the loop that runs next                                  *)
  next,        (* its loop variable s                                      *)
  pure,        (* the symbols flagged ACU_SYMBOL_FLAG_PURE                 *)
  changed,     (* whether this round took a mark away                      *)
  reachable,   (* the symbols flagged ACU_SYMBOL_FLAG_REACHABLE            *)
  worklist     (* functions marked but not yet visited                     *)

vars == <<program, phase, next, pure, changed, reachable, worklist>>

Functions(p) == {s \in Symbols : p.kind[s] = "function"}

Init ==
  /\ program \in Programs
  /\ phase = "local" /\ next = 0
  /\ pure = {} /\ changed = TRUE
  /\ reachable = {} /\ worklist = {}
-----------------------------------------------------------------------------
(* Pass 4                                                                  *)

(* HasDirectSideEffects does not enter the arguments of a call, and knows  *)
(* a target only by its name or behind the name of a module.               *)
HasDirectSideEffects(p, f) ==
  \E o \in p.body[f] : o.act = "assign" /\ o.path # "chain" /\ ~ o.arg

(* CollectCallees enters arguments; a callee it cannot find is unresolved. *)
HasUnresolvedCallee(p, f) == \E o \in p.body[f] : o.act = "call" /\ o.path = "chain"

Callees(p, f) == {o.sym : o \in {c \in p.body[f] : c.act = "call" /\ c.path # "chain"}}

(* Mutant: a function starts out pure only if its callees already are.     *)
PessimisticallyPure(p, f) ==
  /\ p.kind[f] = "function"
  /\ ~ HasDirectSideEffects(p, f) /\ ~ HasUnresolvedCallee(p, f)
  /\ Callees(p, f) \subseteq pure

LocallyPure(p, f) ==
  /\ p.kind[f] = "function"
  /\ ~ HasDirectSideEffects(p, f) /\ ~ HasUnresolvedCallee(p, f)

AnalyzeBody ==
  /\ phase = "local" /\ next < SymbolCount
  /\ pure' = IF LocallyPure(program, next) THEN pure \union {next} ELSE pure \ {next}
  /\ next' = next + 1
  /\ UNCHANGED <<program, phase, changed, reachable, worklist>>

StartRounds ==
  /\ phase = "local" /\ next = SymbolCount
  /\ phase' = "propagate" /\ next' = 0 /\ changed' = FALSE
  /\ UNCHANGED <<program, pure, reachable, worklist>>

CallsImpure(p, f) == f \in pure /\ \E c \in Callees(p, f) : c \notin pure

Propagate ==
  /\ phase = "propagate" /\ next < SymbolCount
  /\ IF CallsImpure(program, next)
     THEN pure' = pure \ {next} /\ changed' = TRUE
     ELSE UNCHANGED <<pure, changed>>
  /\ next' = next + 1
  /\ UNCHANGED <<program, phase, reachable, worklist>>

(* Mutants: a single round is run; a round does not reset the flag.        *)
OneRound ==
  /\ phase = "propagate" /\ next = SymbolCount
  /\ phase' = "seed" /\ next' = 0
  /\ UNCHANGED <<program, pure, changed, reachable, worklist>>

RoundKeepsFlag ==
  /\ phase = "propagate" /\ next = SymbolCount
  /\ next' = 0
  /\ phase' = IF changed THEN "propagate" ELSE "seed"
  /\ UNCHANGED <<program, pure, changed, reachable, worklist>>

EndRound ==
  /\ phase = "propagate" /\ next = SymbolCount
  /\ next' = 0 /\ changed' = FALSE
  /\ phase' = IF changed THEN "propagate" ELSE "seed"
  /\ UNCHANGED <<program, pure, reachable, worklist>>
-----------------------------------------------------------------------------
(* Pass 5                                                                  *)

(* Mutant: the arguments of a call are not entered.                        *)
CallsOutsideArguments(p, occs) ==
  {o.sym : o \in {c \in occs : c.act = "call" /\ ~ c.arg}} \intersect Functions(p)

(* CollectCalls uses the callee pass 3 has found, whatever the path.       *)
Calls(p, occs) == {o.sym : o \in {c \in occs : c.act = "call"}} \intersect Functions(p)

Mark(fs) ==
  /\ reachable' = reachable \union fs
  /\ worklist' = worklist \union (fs \ reachable)

SeedGlobals ==
  /\ phase = "seed"
  /\ Mark(UNION {Calls(program, program.body[g]) : g \in {s \in Symbols : program.kind[s] = "global"}})
  /\ phase' = "main"
  /\ UNCHANGED <<program, next, pure, changed>>

SeedMain ==
  /\ phase = "main"
  /\ Mark(Calls(program, UNION program.main))
  /\ phase' = "visit"
  /\ UNCHANGED <<program, next, pure, changed>>

(* The worklist is a stack; nothing depends on the order of its elements.  *)
Visit(f) ==
  /\ phase = "visit" /\ f \in worklist
  /\ LET found == Calls(program, program.body[f])
     IN  /\ reachable' = reachable \union found
         /\ worklist' = (worklist \ {f}) \union (found \ reachable)
  /\ UNCHANGED <<program, phase, next, pure, changed>>

Finish ==
  /\ phase = "visit" /\ worklist = {}
  /\ phase' = "done"
  /\ UNCHANGED <<program, next, pure, changed, reachable, worklist>>
-----------------------------------------------------------------------------
Next ==
  \/ AnalyzeBody \/ StartRounds \/ Propagate \/ EndRound
  \/ SeedGlobals \/ SeedMain \/ (\E f \in Symbols : Visit(f)) \/ Finish

Spec == Init /\ [][Next]_vars

(* The passes are plain loops of one thread.                               *)
FairSpec == Spec /\ WF_vars(Next)
-----------------------------------------------------------------------------
(* The code generator                                                      *)

(* Mutant: the arguments of a call are taken for pure.                     *)
DroppableByCallee(st) ==
  \A o \in st : ~ o.arg => o.act = "call" /\ o.sym \in pure

(* AcuCodeGen_IsPure of a statement: a pure one is not emitted.  What else *)
(* it asks of the shape of a statement only keeps more of them.            *)
Droppable(st) == \A o \in st : o.act = "call" /\ o.sym \in pure
-----------------------------------------------------------------------------
(* Properties                                                              *)

(* Only functions are ever flagged, and only flagged ones wait for a visit.*)
TypeOK ==
  /\ IsProgram(program)
  /\ phase \in {"local", "propagate", "seed", "main", "visit", "done"}
  /\ next \in 0 .. SymbolCount
  /\ pure \subseteq Functions(program)
  /\ changed \in BOOLEAN
  /\ reachable \subseteq Functions(program)
  /\ worklist \subseteq reachable

(* Functions that call only each other and assign no global variable.      *)
EffectFree(p, S) ==
  /\ S \subseteq Functions(p)
  /\ \A f \in S : \A o \in p.body[f] :
       IF o.act = "assign" THEN o.path = "shadow" ELSE o.sym \in S

(* No assignment to a global hides in an argument or behind two dots.      *)
InSight(p) ==
  \A s \in Symbols : \A o \in p.body[s] :
    o.act = "assign" => o.path # "chain" /\ ~ o.arg

(* Once pass 4 has finished, a function marked PURE changes no global and  *)
(* makes no system call, nor does anything it calls - provided that no     *)
(* assignment is written where HasDirectSideEffects does not look.  The    *)
(* fixpoint must take marks away along every chain of calls, in whichever  *)
(* order the symbols were declared.                                        *)
PureIsEffectFree ==
  phase \notin {"local", "propagate"} /\ InSight(program) => EffectFree(program, pure)

(* The optimistic start loses nothing: functions that only call each       *)
(* other, recursively too, and whose names pass 4 can resolve, keep their  *)
(* marks.                                                                  *)
KeepsEffectFree ==
  phase # "local" =>
    \A S \in SUBSET Functions(program) :
      /\ EffectFree(program, S)
      /\ \A f \in S : \A o \in program.body[f] : o.path \notin {"shadow", "chain"}
      => S \subseteq pure

(* What the code generator emits calls of is what it compiles: when pass 5 *)
(* ends, REACHABLE is the least set with the callees of the roots and of   *)
(* its own members.  A function missing from it would be called at address *)
(* 0, the start of the module-level code (AcuCodeGen_CompileWorkspace).    *)
Called(p, occs) == {f \in Functions(p) : \E o \in occs : o.act = "call" /\ o.sym = f}

Roots(p) == Called(p, (UNION p.main) \union (UNION {p.body[g] : g \in Symbols \ Functions(p)}))

ClosedUnderCalls(p, S) == \A f \in S : Called(p, p.body[f]) \subseteq S

ReachableIsLeast ==
  phase = "done" =>
    /\ Roots(program) \subseteq reachable
    /\ ClosedUnderCalls(program, reachable)
    /\ \A S \in SUBSET Functions(program) :
         Roots(program) \subseteq S /\ ClosedUnderCalls(program, S) => reachable \subseteq S

(* A statement of the main module that the code generator leaves out       *)
(* because it is pure would have changed nothing.                          *)
DropsNoEffects ==
  phase = "done" =>
    \A st \in program.main :
      Droppable(st) =>
        \E S \in SUBSET Functions(program) :
          EffectFree(program, S) /\ \A o \in st : o.act = "call" /\ o.sym \in S

(* Both passes end.                                                        *)
AnalysisEnds == <>(phase = "done")
=============================================================================
