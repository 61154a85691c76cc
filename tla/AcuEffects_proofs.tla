-------------------------- MODULE AcuEffects_proofs --------------------------
(***************************************************************************)
(* Proofs about AcuEffects, for every number of symbols and every set of   *)
(* programs.  What the loops of pass 4 establish is written down for the   *)
(* middle of a loop (PurityInv): a member of pure shows no effect of its   *)
(* own, and while a round has taken no mark away the callees of the        *)
(* members it has passed are marked too.  Pass 5 keeps the usual invariant *)
(* of a worklist (ReachInv).                                               *)
(***************************************************************************)
EXTENDS AcuEffects, TLAPS

LEMMA CallsAreCalled ==
  ASSUME NEW p, NEW occs
  PROVE  Calls(p, occs) = Called(p, occs)
  BY DEF Calls, Called, Functions

LEMMA TypeInit == Init => TypeOK
  BY ProgramsAssumption DEF Init, TypeOK

LEMMA TypeStep == TypeOK /\ [Next]_vars => TypeOK'
<1> SUFFICES ASSUME TypeOK, [Next]_vars PROVE TypeOK'
  OBVIOUS
<1> USE DEF TypeOK
<1>1. SymbolCount \in Nat
  BY ProgramsAssumption
<1>2. CASE AnalyzeBody
  <2>1. next \in Symbols /\ next + 1 \in 0 .. SymbolCount
    BY <1>1, <1>2 DEF AnalyzeBody, Symbols
  <2>2. pure' \subseteq Functions(program)
    BY <1>2, <2>1 DEF AnalyzeBody, LocallyPure, Functions
  <2> QED
    BY <1>2, <2>1, <2>2 DEF AnalyzeBody
<1>3. CASE StartRounds
  <2>1. changed' \in BOOLEAN
    BY <1>3, Zenon DEF StartRounds
  <2>2. next' \in 0 .. SymbolCount
    BY <1>1, <1>3 DEF StartRounds
  <2> QED
    BY <1>1, <1>3, <2>1, <2>2 DEF StartRounds
<1>4. CASE Propagate
  <2>1. changed' \in BOOLEAN
    BY <1>4, Zenon DEF Propagate
  <2>2. next' \in 0 .. SymbolCount /\ pure' \subseteq pure
    BY <1>1, <1>4 DEF Propagate
  <2> QED
    BY <1>1, <1>4, <2>1, <2>2 DEF Propagate
<1>5. CASE EndRound
  <2>1. changed' \in BOOLEAN
    BY <1>5, Zenon DEF EndRound
  <2>2. next' \in 0 .. SymbolCount
    BY <1>1, <1>5 DEF EndRound
  <2> QED
    BY <1>1, <1>5, <2>1, <2>2 DEF EndRound
<1>6. CASE SeedGlobals
  BY <1>6 DEF SeedGlobals, Mark, Calls, Functions
<1>7. CASE SeedMain
  BY <1>7 DEF SeedMain, Mark, Calls, Functions
<1>8. ASSUME NEW f \in Symbols, Visit(f) PROVE TypeOK'
  BY <1>8 DEF Visit, Calls, Functions
<1>9. CASE Finish
  BY <1>9 DEF Finish
<1>10. CASE UNCHANGED vars
  BY <1>10 DEF vars
<1> QED
  BY <1>2, <1>3, <1>4, <1>5, <1>6, <1>7, <1>8, <1>9, <1>10 DEF Next

(* Only functions are flagged, and only flagged functions are queued, for  *)
(* every set of programs.                                                  *)
THEOREM EffectsType == Spec => []TypeOK
  BY TypeInit, TypeStep, PTL DEF Spec
-----------------------------------------------------------------------------
(* Pass 4                                                                  *)

Scanned == IF phase = "local" THEN 0 .. next - 1 ELSE Symbols

Settled == IF phase = "local" THEN {} ELSE IF phase = "propagate" THEN 0 .. next - 1 ELSE Symbols

PurityInv ==
  /\ \A f \in pure : f \in Scanned /\ LocallyPure(program, f)
  /\ phase # "propagate" \/ ~ changed =>
       \A f \in pure \intersect Settled : Callees(program, f) \subseteq pure

LEMMA PurityStep ==
  ASSUME TypeOK, PurityInv, [Next]_vars
  PROVE  PurityInv'
<1> USE DEF Scanned, Settled
<1>1. SymbolCount \in Nat /\ next \in 0 .. SymbolCount /\ pure \subseteq Symbols
  BY ProgramsAssumption DEF TypeOK, Functions
<1>2. CASE AnalyzeBody
  BY <1>1, <1>2 DEF AnalyzeBody, PurityInv
<1>3. CASE StartRounds
  BY <1>1, <1>3 DEF StartRounds, PurityInv, Symbols
<1>4. CASE Propagate
  <2>1. CASE CallsImpure(program, next)
    BY <1>1, <1>4, <2>1 DEF Propagate, PurityInv
  <2>2. CASE ~ CallsImpure(program, next)
    <3>1. next \in pure => Callees(program, next) \subseteq pure
      BY <2>2 DEF CallsImpure, Callees
    <3> QED
      BY <1>1, <1>4, <2>2, <3>1 DEF Propagate, PurityInv
  <2> QED
    BY <2>1, <2>2
<1>5. CASE EndRound
  BY <1>1, <1>5 DEF EndRound, PurityInv, Symbols
<1>6. CASE SeedGlobals \/ SeedMain
  BY <1>6 DEF SeedGlobals, SeedMain, PurityInv
<1>7. ASSUME NEW f \in Symbols, Visit(f) PROVE PurityInv'
  BY <1>7 DEF Visit, PurityInv
<1>8. CASE Finish
  BY <1>8 DEF Finish, PurityInv
<1>9. CASE UNCHANGED vars
  BY <1>9 DEF vars, PurityInv
<1> QED
  BY <1>2, <1>3, <1>4, <1>5, <1>6, <1>7, <1>8, <1>9 DEF Next

LEMMA PurityAlways == Spec => [](TypeOK /\ PurityInv)
<1>1. Init => PurityInv
  BY DEF Init, PurityInv
<1> QED
  BY <1>1, TypeInit, TypeStep, PurityStep, PTL DEF Spec

LEMMA PureIsFree ==
  ASSUME TypeOK, PurityInv, phase \notin {"local", "propagate"}, InSight(program)
  PROVE  EffectFree(program, pure)
<1>1. pure \subseteq Functions(program) /\ pure \subseteq Symbols
  BY DEF TypeOK, Functions
<1>2. ASSUME NEW f \in pure, NEW o \in program.body[f]
      PROVE  o.act # "assign" /\ o.sym \in pure
  <2>1. LocallyPure(program, f) /\ Callees(program, f) \subseteq pure
    BY <1>1, <1>2 DEF PurityInv, Settled
  <2>2. o.act # "assign"
    BY <1>1, <1>2, <2>1 DEF LocallyPure, HasDirectSideEffects, InSight
  <2>3. o.act = "call"
    BY <1>1, <1>2, <2>2 DEF TypeOK, IsProgram, Occurrence
  <2>4. o.sym \in Callees(program, f)
    BY <1>2, <2>1, <2>3 DEF LocallyPure, HasUnresolvedCallee, Callees
  <2> QED
    BY <2>1, <2>2, <2>4
<1> QED
  BY <1>1, <1>2 DEF EffectFree

(* Whatever the program calls and in whatever order its symbols were       *)
(* declared, the fixpoint of pass 4 leaves the mark only on functions that *)
(* change no global, nor does anything they call.                          *)
THEOREM PurityCorrect == Spec => []PureIsEffectFree
<1>1. TypeOK /\ PurityInv => PureIsEffectFree
  BY PureIsFree DEF PureIsEffectFree
<1> QED
  BY <1>1, PurityAlways, PTL

(* A statement that the code generator leaves out changes no global: true  *)
(* of every program whose assignments pass 4 can see.                      *)
THEOREM DropsCorrect == Spec => [](InSight(program) => DropsNoEffects)
<1>1. ASSUME TypeOK, PurityInv, InSight(program), phase = "done"
      PROVE  \A st \in program.main : Droppable(st) =>
               \E S \in SUBSET Functions(program) :
                 EffectFree(program, S) /\ \A o \in st : o.act = "call" /\ o.sym \in S
  <2>1. pure \in SUBSET Functions(program) /\ EffectFree(program, pure)
    BY <1>1, PureIsFree DEF TypeOK
  <2> QED
    BY <2>1 DEF Droppable
<1>2. TypeOK /\ PurityInv => (InSight(program) => DropsNoEffects)
  BY <1>1 DEF DropsNoEffects
<1> QED
  BY <1>2, PurityAlways, PTL
-----------------------------------------------------------------------------
(* The optimistic start                                                    *)

Nameable(p, S) ==
  /\ EffectFree(p, S)
  /\ \A f \in S : \A o \in p.body[f] : o.path \notin {"shadow", "chain"}

KeepInv == \A S \in SUBSET Functions(program) : Nameable(program, S) => S \intersect Scanned \subseteq pure

LEMMA NameableIsLocallyPure ==
  ASSUME NEW p, IsProgram(p), NEW S, Nameable(p, S), NEW f \in S
  PROVE  LocallyPure(p, f) /\ Callees(p, f) \subseteq S
<1>1. f \in Symbols /\ p.kind[f] = "function"
  BY DEF Nameable, EffectFree, Functions
<1>2. \A o \in p.body[f] : o.act # "assign" /\ o.path # "chain" /\ o.sym \in S
  BY DEF Nameable, EffectFree
<1> QED
  BY <1>1, <1>2 DEF LocallyPure, HasDirectSideEffects, HasUnresolvedCallee, Callees

LEMMA KeepStep ==
  ASSUME TypeOK, KeepInv, [Next]_vars
  PROVE  KeepInv'
<1> USE DEF Scanned
<1>1. /\ SymbolCount \in Nat /\ next \in 0 .. SymbolCount /\ IsProgram(program)
  BY ProgramsAssumption DEF TypeOK
<1>2. program' = program
  BY DEF Next, AnalyzeBody, StartRounds, Propagate, EndRound, SeedGlobals, SeedMain, Visit, Finish, vars
<1> SUFFICES ASSUME NEW S \in SUBSET Functions(program), Nameable(program, S)
             PROVE  S \intersect Scanned' \subseteq pure'
  BY <1>2 DEF KeepInv
<1>3. S \intersect Scanned \subseteq pure /\ S \subseteq Symbols
  BY DEF KeepInv, Functions
<1>4. CASE AnalyzeBody
  <2>1. next \in S => LocallyPure(program, next)
    BY <1>1, NameableIsLocallyPure
  <2> QED
    BY <1>1, <1>3, <1>4, <2>1 DEF AnalyzeBody
<1>5. CASE StartRounds
  BY <1>1, <1>3, <1>5 DEF StartRounds, Symbols
<1>6. CASE Propagate
  <2>1. next \in S => ~ CallsImpure(program, next)
    BY <1>1, <1>3, <1>6, NameableIsLocallyPure DEF CallsImpure, Propagate
  <2> QED
    BY <1>3, <1>6, <2>1 DEF Propagate
<1>7. CASE EndRound \/ SeedGlobals \/ SeedMain \/ Finish
  BY <1>3, <1>7 DEF EndRound, SeedGlobals, SeedMain, Finish
<1>8. ASSUME NEW f \in Symbols, Visit(f) PROVE S \intersect Scanned' \subseteq pure'
  BY <1>3, <1>8 DEF Visit
<1>9. CASE UNCHANGED vars
  BY <1>3, <1>9 DEF vars
<1> QED
  BY <1>4, <1>5, <1>6, <1>7, <1>8, <1>9 DEF Next

(* The optimistic start loses no mark: functions without an effect keep    *)
(* theirs, mutual recursion included.                                      *)
THEOREM KeepsMarks == Spec => []KeepsEffectFree
<1>1. Init => KeepInv
  BY DEF Init, KeepInv, Scanned
<1>2. TypeOK /\ KeepInv => KeepsEffectFree
  BY DEF KeepInv, KeepsEffectFree, Nameable, Scanned, Functions
<1> QED
  BY <1>1, <1>2, TypeInit, TypeStep, KeepStep, PTL DEF Spec
-----------------------------------------------------------------------------
(* Pass 5                                                                  *)

GlobalRoots == UNION {Called(program, program.body[g]) : g \in {s \in Symbols : program.kind[s] = "global"}}

MainRoots == Called(program, UNION program.main)

ReachInv ==
  /\ phase \in {"local", "propagate", "seed"} => reachable = {}
  /\ phase \in {"main", "visit", "done"} => GlobalRoots \subseteq reachable
  /\ phase \in {"visit", "done"} => MainRoots \subseteq reachable
  /\ phase = "done" => worklist = {}
  /\ \A f \in reachable \ worklist : Called(program, program.body[f]) \subseteq reachable
  /\ \A S : Roots(program) \subseteq S /\ ClosedUnderCalls(program, S) => reachable \subseteq S

LEMMA RootsSplit == IsProgram(program) => Roots(program) = GlobalRoots \union MainRoots
<1> SUFFICES ASSUME IsProgram(program) PROVE Roots(program) = GlobalRoots \union MainRoots
  OBVIOUS
<1>1. \A s \in Symbols \ Functions(program) :
        program.kind[s] = "global" \/ program.body[s] = {}
  BY DEF IsProgram, Functions
<1>2. \A s \in Symbols : program.kind[s] = "global" => s \notin Functions(program)
  BY DEF Functions
<1>3. \A f : f \in Roots(program) <=>
           /\ f \in Functions(program)
           /\ \/ \E o \in UNION program.main : o.act = "call" /\ o.sym = f
              \/ \E s \in Symbols \ Functions(program) :
                   \E o \in program.body[s] : o.act = "call" /\ o.sym = f
  BY DEF Roots, Called
<1>4. \A f : f \in GlobalRoots \union MainRoots <=>
           /\ f \in Functions(program)
           /\ \/ \E o \in UNION program.main : o.act = "call" /\ o.sym = f
              \/ \E s \in Symbols : /\ program.kind[s] = "global"
                                   /\ \E o \in program.body[s] : o.act = "call" /\ o.sym = f
  BY DEF GlobalRoots, MainRoots, Called
<1>5. \A f : f \in Roots(program) <=> f \in GlobalRoots \union MainRoots
  <2> TAKE f
  <2>1. (\E s \in Symbols \ Functions(program) :
           \E o \in program.body[s] : o.act = "call" /\ o.sym = f)
        <=> \E s \in Symbols : /\ program.kind[s] = "global"
                              /\ \E o \in program.body[s] : o.act = "call" /\ o.sym = f
    BY <1>1, <1>2
  <2> QED
    BY <1>3, <1>4, <2>1
<1> QED
  BY <1>5

LEMMA ReachStep ==
  ASSUME TypeOK, ReachInv, [Next]_vars
  PROVE  ReachInv'
<1>1. program' = program
  BY DEF Next, AnalyzeBody, StartRounds, Propagate, EndRound, SeedGlobals, SeedMain, Visit, Finish, vars
<1>2. /\ GlobalRoots' = GlobalRoots /\ MainRoots' = MainRoots
      /\ Roots(program) = GlobalRoots \union MainRoots
  BY <1>1, RootsSplit DEF TypeOK, GlobalRoots, MainRoots
<1>3. worklist \subseteq reachable
  BY DEF TypeOK
<1>4. CASE AnalyzeBody \/ StartRounds \/ Propagate \/ EndRound
  BY <1>1, <1>2, <1>4 DEF AnalyzeBody, StartRounds, Propagate, EndRound, ReachInv
<1>5. CASE SeedGlobals
  <2>1. /\ reachable' = reachable \union GlobalRoots
        /\ worklist' = worklist \union (GlobalRoots \ reachable)
    BY <1>5, CallsAreCalled DEF SeedGlobals, Mark, GlobalRoots
  <2> QED
    BY <1>1, <1>2, <1>3, <1>5, <2>1 DEF SeedGlobals, ReachInv
<1>6. CASE SeedMain
  <2>1. /\ reachable' = reachable \union MainRoots
        /\ worklist' = worklist \union (MainRoots \ reachable)
    BY <1>6, CallsAreCalled DEF SeedMain, Mark, MainRoots
  <2> QED
    BY <1>1, <1>2, <1>3, <1>6, <2>1 DEF SeedMain, ReachInv
<1>7. ASSUME NEW f \in Symbols, Visit(f) PROVE ReachInv'
  <2>1. PICK found : found = Called(program, program.body[f])
    OBVIOUS
  <2>2. /\ f \in worklist /\ phase = "visit" /\ phase' = "visit"
        /\ reachable' = reachable \union found
        /\ worklist' = (worklist \ {f}) \union (found \ reachable)
    BY <1>7, <2>1, CallsAreCalled DEF Visit
  <2>3. \A g \in reachable' \ worklist' : g = f \/ g \in reachable \ worklist
    BY <2>2
  <2>4. \A g \in reachable' \ worklist' : Called(program, program.body[g]) \subseteq reachable'
    BY <2>1, <2>2, <2>3 DEF ReachInv
  <2>5. ASSUME NEW S, Roots(program) \subseteq S, ClosedUnderCalls(program, S)
        PROVE  reachable' \subseteq S
    BY <1>3, <2>1, <2>2, <2>5 DEF ReachInv, ClosedUnderCalls
  <2> QED
    BY <1>1, <1>2, <2>2, <2>4, <2>5 DEF ReachInv
<1>8. CASE Finish
  BY <1>1, <1>2, <1>8 DEF Finish, ReachInv
<1>9. CASE UNCHANGED vars
  BY <1>1, <1>2, <1>9 DEF vars, ReachInv
<1> QED
  BY <1>4, <1>5, <1>6, <1>7, <1>8, <1>9 DEF Next

(* When pass 5 ends, the compiled functions are exactly those the program  *)
(* can call: no call is left without code, no code without a call.         *)
THEOREM ReachabilityCorrect == Spec => []ReachableIsLeast
<1>1. Init => ReachInv
  BY DEF Init, ReachInv
<1>2. TypeOK /\ ReachInv => ReachableIsLeast
  <2> SUFFICES ASSUME TypeOK, ReachInv, phase = "done"
               PROVE  /\ Roots(program) \subseteq reachable
                      /\ ClosedUnderCalls(program, reachable)
                      /\ \A S \in SUBSET Functions(program) :
                           Roots(program) \subseteq S /\ ClosedUnderCalls(program, S) => reachable \subseteq S
    BY DEF ReachableIsLeast
  <2> QED
    BY RootsSplit DEF TypeOK, ReachInv, ClosedUnderCalls
<1> QED
  BY <1>1, <1>2, TypeInit, TypeStep, ReachStep, PTL DEF Spec
=============================================================================
