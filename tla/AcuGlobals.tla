----------------------------- MODULE AcuGlobals -----------------------------
(***************************************************************************)
(* The order in which global variables are initialised: the first loop of  *)
(* AcuWorkspace_Pass3_TypeCheck and AcuWorkspace_EnsureGlobalVarChecked    *)
(* (src/analyzer/analyzer_pass3.c).                                        *)
(*                                                                         *)
(* Pass 3 checks the statements of all modules one after the other.  An    *)
(* expression that mentions a global variable first checks that variable,  *)
(* wherever it is declared; when its initialiser has been checked the      *)
(* variable is appended to global_init_order, the order in which the code  *)
(* generator emits the initialisers.  A variable that is mentioned while   *)
(* its own initialiser is being checked is an error.                       *)
(*                                                                         *)
(* Of an expression only the global variables it mentions matter, in the   *)
(* order in which CheckExpr meets them; assigning to a variable mentions   *)
(* it, calling a function that reads one does not.  The declaration of g   *)
(* checks g and nothing else, so that it is the statement <<g>>.           *)
(***************************************************************************)
EXTENDS Integers, Sequences, FiniteSets

CONSTANTS
  Globals,       (* the symbols of kind ACU_SYMBOL_GLOBAL_VAR              *)
  ACU_NULL_IDX,  (* no symbol                                              *)
  Sources        (* the checked programs, see IsSource                     *)

(* mentions of every initialiser; the statements of all modules, in the    *)
(* order of the modules.  Pass 2 makes symbols of the declarations it      *)
(* finds, so that every global is declared by a statement.                 *)
IsSource(s) ==
  /\ s.init \in [Globals -> Seq(Globals)]
  /\ s.statements \in Seq(Seq(Globals))
  /\ \A g \in Globals : \E i \in DOMAIN s.statements : s.statements[i] = <<g>>

ASSUME SourcesAssumption == \A s \in Sources : IsSource(s)

ASSUME NullAssumption == ACU_NULL_IDX \notin Globals

VARIABLES
  source,             (* the program                                       *)
  current,            (* the statement that is checked                     *)
  calls,              (* the active calls of CheckExpr: whose expression   *)
                      (* (a statement has no owner) and how far it has got *)
  checking,           (* the symbols flagged GLOBAL_CHECKING               *)
  checked,            (* the symbols flagged GLOBAL_CHECKED                *)
  global_init_order,
  errors              (* the symbols reported as CYCLIC_DEPENDENCY         *)

vars == <<source, current, calls, checking, checked, global_init_order, errors>>

Init ==
  /\ source \in Sources
  /\ current = 1 /\ calls = <<>>
  /\ checking = {} /\ checked = {}
  /\ global_init_order = <<>> /\ errors = {}
-----------------------------------------------------------------------------
Mentions(owner) == IF owner \in Globals THEN source.init[owner] ELSE source.statements[current]

Call(owner) == [owner |-> owner, at |-> 1]

Top == calls[Len(calls)]

Finished == calls # <<>> /\ Top.at > Len(Mentions(Top.owner))

Mentioned == Mentions(Top.owner)[Top.at]

Mentioning(g) == calls # <<>> /\ Top.at <= Len(Mentions(Top.owner)) /\ g = Mentioned

(* The caller goes on behind what it has just mentioned.                   *)
GoOn(stack) == [stack EXCEPT ![Len(stack)].at = @ + 1]

CheckStatement ==
  /\ calls = <<>> /\ current <= Len(source.statements)
  /\ calls' = <<Call(ACU_NULL_IDX)>>
  /\ UNCHANGED <<source, current, checking, checked, global_init_order, errors>>

AlreadyChecked(g) ==
  /\ Mentioning(g) /\ g \in checked
  /\ calls' = GoOn(calls)
  /\ UNCHANGED <<source, current, checking, checked, global_init_order, errors>>

(* Mutant: the flag of a variable in progress is not an error.             *)
SilentCycle(g) ==
  /\ Mentioning(g) /\ g \notin checked /\ g \in checking
  /\ calls' = GoOn(calls)
  /\ UNCHANGED <<source, current, checking, checked, global_init_order, errors>>

CyclicDependency(g) ==
  /\ Mentioning(g) /\ g \notin checked /\ g \in checking
  /\ errors' = errors \union {g}
  /\ calls' = GoOn(calls)
  /\ UNCHANGED <<source, current, checking, checked, global_init_order>>

(* Mutant: a variable enters the order before its initialiser is checked.  *)
CheckOrderedFirst(g) ==
  /\ Mentioning(g) /\ g \notin checked /\ g \notin checking
  /\ checking' = checking \union {g}
  /\ calls' = Append(calls, Call(g))
  /\ global_init_order' = Append(SelectSeq(global_init_order, LAMBDA h : h # g), g)
  /\ UNCHANGED <<source, current, checked, errors>>

CheckGlobal(g) ==
  /\ Mentioning(g) /\ g \notin checked /\ g \notin checking
  /\ checking' = checking \union {g}
  /\ calls' = Append(calls, Call(g))
  /\ UNCHANGED <<source, current, checked, global_init_order, errors>>

FinishGlobal ==
  /\ Finished /\ Top.owner \in Globals
  /\ checking' = checking \ {Top.owner}
  /\ checked' = checked \union {Top.owner}
  /\ global_init_order' = Append(global_init_order, Top.owner)
  /\ calls' = GoOn(SubSeq(calls, 1, Len(calls) - 1))
  /\ UNCHANGED <<source, current, errors>>

FinishStatement ==
  /\ Finished /\ Top.owner \notin Globals
  /\ calls' = <<>> /\ current' = current + 1
  /\ UNCHANGED <<source, checking, checked, global_init_order, errors>>

Next ==
  \/ CheckStatement \/ FinishGlobal \/ FinishStatement
  \/ \E g \in Globals : AlreadyChecked(g) \/ CyclicDependency(g) \/ CheckGlobal(g)

Spec == Init /\ [][Next]_vars
-----------------------------------------------------------------------------
(* Properties                                                              *)

Owners == {calls[i].owner : i \in DOMAIN calls}

(* The flags of the symbols mirror the active calls: exactly the variables *)
(* whose initialiser is being checked are flagged as such, each once.      *)
TypeOK ==
  /\ IsSource(source)
  /\ current \in 1 .. Len(source.statements) + 1
  /\ calls \in Seq([owner : Globals \union {ACU_NULL_IDX}, at : Nat \ {0}])
  /\ checking \subseteq Globals /\ checked \subseteq Globals
  /\ checking \intersect checked = {}
  /\ calls # <<>> => Owners = checking \union {ACU_NULL_IDX}
  /\ global_init_order \in Seq(Globals)
  /\ errors \subseteq Globals

Initialised == {global_init_order[i] : i \in DOMAIN global_init_order}

OnceEach ==
  /\ \A i, j \in DOMAIN global_init_order : global_init_order[i] = global_init_order[j] => i = j
  /\ Initialised = checked

AllChecked == current > Len(source.statements)

MentionedBy(g) == {source.init[g][i] : i \in DOMAIN source.init[g]}

DependenciesFirst ==
  errors = {} =>
    \A i \in DOMAIN global_init_order :
      \A g \in MentionedBy(global_init_order[i]) :
        \E j \in 1 .. i - 1 : global_init_order[j] = g

(* Every variable is initialised once, its index in the order being the    *)
(* slot the code generator gives it; and whatever the order of the         *)
(* declarations, and across modules, its initialiser comes behind those of *)
(* the variables it mentions, unless the program is rejected               *)
(* (tests/cases/01_simple_dag declares $y = x before $x).                  *)
InitOrder == OnceEach /\ DependenciesFirst

(* A set of variables each of which mentions another one of the set.       *)
Cyclic(S) == S # {} /\ \A g \in S : MentionedBy(g) \intersect S # {}

(* A program is rejected for a cycle exactly if it has one, wherever the   *)
(* search enters it (tests/cases/05_cyclic_error).                         *)
CyclesReported ==
  /\ errors # {} => \E S \in SUBSET Globals : Cyclic(S)
  /\ AllChecked /\ errors = {} =>
       /\ checked = Globals
       /\ ~ \E S \in SUBSET Globals : Cyclic(S)
=============================================================================
