------------------------- MODULE AcuDiscovery_proofs -------------------------
(***************************************************************************)
(* Proofs about AcuDiscovery, for any set of files and any programs.  The  *)
(* inductive invariant says                                                *)
(*   Typed         which records are where: files, modules and the map     *)
(*                 from one to the other                                   *)
(*   Found         every file that is loaded is one the main file leads    *)
(*                 to, and an error has a reason                           *)
(*   MainFound     the main module is that of the first file; a main file  *)
(*                 with the name of a builtin module never gets through    *)
(*   Complete      while there is no error, every file has a module or     *)
(*                 waits, and what its scan has passed is loaded           *)
(*   Declared      pass 2 has made a symbol of every statement it passed,  *)
(*                 and of nothing else                                     *)
(***************************************************************************)
EXTENDS AcuDiscovery, SequenceTheorems, TLAPS

Symbols == [scope : Nat, name : Names \union Idents, target : Nat \union {ACU_NULL_IDX}]

Typed ==
  /\ TypeOK /\ symbols \in Seq(Symbols) /\ (pc = "bind" => current # 0)
  /\ Len(VirtualNames) <= Len(modules) /\ Len(file_to_module) <= Len(files)
  /\ \A m \in DOMAIN VirtualNames : modules[m].file = ACU_NULL_IDX
  /\ \A m \in DOMAIN modules : modules[m].file # ACU_NULL_IDX => modules[m].stage # "unprocessed"

Found ==
  /\ pc = "open" => files = <<>> /\ file_to_module = <<>> /\ errors = <<>>
  /\ pc \in {"discover", "scan", "bind", "done"} => files # <<>>
  /\ files # <<>> => files[1] = MainFile
  /\ \A i \in DOMAIN files : files[i] \in Reachable \ program.unreadable
  /\ \A i \in DOMAIN files : ModuleOfFile(i) # ACU_NULL_IDX => files[i] \notin program.broken
  /\ pc = "scan" => files[current] \notin program.broken
  /\ errors # <<>> => Faulty
  /\ pc = "failed" => errors # <<>>

VirtualMain == IsVirtual(program.main)

MainStage == modules[VirtualModule(program.main)].stage

MainFound ==
  /\ pc = "open" => work_que = <<>> /\ main_module_id = ACU_NULL_IDX
  /\ \A i \in DOMAIN work_que : IsVirtual(work_que[i].name) => VirtualMain
  /\ main_module_id # ACU_NULL_IDX => VirtualMain \/ modules[main_module_id].file = 1
  /\ pc \in {"discover", "scan"} =>
       main_module_id # ACU_NULL_IDX \/ errors # <<>> \/ \E i \in DOMAIN work_que : work_que[i].file = 1
  /\ pc \in {"bind", "done"} => main_module_id # ACU_NULL_IDX
  /\ VirtualMain =>
       /\ pc = "discover" =>
            \/ errors # <<>> \/ MainStage = "parsed"
            \/ (work_que = <<WorkItem(1, program.main, FALSE)>> /\ file_to_module = <<>>)
       /\ pc = "scan" => errors # <<>> \/ MainStage = "parsed"
       /\ pc = "bind" => MainStage = "parsed" /\ current <= VirtualModule(program.main)
       /\ pc # "done"

Waits(i) == \E k \in DOMAIN work_que : work_que[k].file = i

(* The imports among the statements of a file that its scan has passed.    *)
Scanned(i) ==
  {k \in DOMAIN program.text[files[i]] :
     /\ program.text[files[i]][k].kind = "import" /\ ~ IsVirtual(program.text[files[i]][k].name)
     /\ (pc = "scan" /\ current = i) => k < at}

CompleteInDiscovery ==
  \A i \in DOMAIN files :
    IF ModuleOfFile(i) = ACU_NULL_IDX THEN Waits(i)
    ELSE \A k \in Scanned(i) : Lead(files[i], program.text[files[i]][k].name) \in Loaded

CompleteAfter ==
  \A i \in DOMAIN files : ModuleOfFile(i) # ACU_NULL_IDX /\ ImportedBy(files[i]) \subseteq Loaded

Complete ==
  /\ (~ VirtualMain /\ errors = <<>> /\ pc \in {"discover", "scan"}) => CompleteInDiscovery
  /\ (~ VirtualMain /\ pc \in {"bind", "done"}) => CompleteAfter

IsSource(m) == m \in DOMAIN modules /\ modules[m].file # ACU_NULL_IDX

TextOf(m) == program.text[files[modules[m].file]]

Passed(m, k) ==
  IsSource(m) /\ k \in DOMAIN TextOf(m) /\ (m < current \/ (m = current /\ k < at))

(* The symbol that a statement of a module becomes.                        *)
IsSymbolOf(m, k, i) ==
  /\ symbols[i].scope = m /\ symbols[i].name = TextOf(m)[k].alias
  /\ (TextOf(m)[k].kind = "import" /\ ~ IsVirtual(TextOf(m)[k].name)) =>
       \E n \in DOMAIN modules :
         /\ symbols[i] = Symbol(m, TextOf(m)[k].alias, n)
         /\ IsSource(n) /\ files[modules[n].file] = Lead(files[modules[m].file], TextOf(m)[k].name)

BoundBefore == \A m \in DOMAIN modules : IsSource(m) /\ m < current => modules[m].stage = "bound"

OnlyPassed ==
  \A i \in DOMAIN symbols : IsSource(symbols[i].scope) =>
    \E k \in DOMAIN TextOf(symbols[i].scope) :
      Passed(symbols[i].scope, k) /\ TextOf(symbols[i].scope)[k].alias = symbols[i].name

(* A statement has its symbol, and none before it declares its name.       *)
IsDone(m, k) ==
  /\ \E i \in DOMAIN symbols : IsSymbolOf(m, k, i)
  /\ \A j \in 1 .. k - 1 : TextOf(m)[j].alias # TextOf(m)[k].alias

AllPassed == \A m \in DOMAIN modules : IsSource(m) => \A k \in DOMAIN TextOf(m) : Passed(m, k) => IsDone(m, k)

Declared ==
  /\ pc \in {"open", "discover"} => at = 1
  /\ pc \in {"open", "discover", "scan"} => \A i \in DOMAIN symbols : ~ IsSource(symbols[i].scope)
  /\ pc = "bind" /\ ~ IsSource(current) => at = 1
  /\ pc \in {"bind", "done"} => BoundBefore /\ OnlyPassed /\ (errors = <<>> => AllPassed)
  /\ pc = "done" => current > Len(modules) /\ errors = <<>>

Inv == Typed /\ Found /\ MainFound /\ Complete /\ Declared
-----------------------------------------------------------------------------
(* Files and modules                                                       *)

LEMMA FunctionIsSeq ==
  ASSUME NEW n \in Nat, NEW S, NEW s \in [1 .. n -> S]
  PROVE  s \in Seq(S) /\ Len(s) = n
OBVIOUS

LEMMA Lengths ==
  ASSUME TypeOK
  PROVE  /\ Len(files) \in Nat /\ DOMAIN files = 1 .. Len(files)
         /\ Len(modules) \in Nat /\ DOMAIN modules = 1 .. Len(modules)
         /\ Len(file_to_module) \in Nat /\ DOMAIN file_to_module = 1 .. Len(file_to_module)
         /\ Len(work_que) \in Nat /\ DOMAIN work_que = 1 .. Len(work_que)
         /\ DOMAIN VirtualNames = 1 .. Len(VirtualNames) /\ Len(VirtualNames) \in Nat
         /\ ACU_NULL_IDX \notin Nat
BY LenProperties, VirtualAssumption, NullAssumption DEF TypeOK

LEMMA LeadTyped ==
  ASSUME IsProgram(program), NEW x \in Files \union {ACU_NULL_IDX}, NEW name \in Names
  PROVE  Lead(x, name) \in Files \union {Missing}
BY DEF IsProgram, Lead

LEMMA StatementTyped ==
  ASSUME IsProgram(program), NEW f \in Files, NEW k \in DOMAIN program.text[f]
  PROVE  /\ program.text[f] \in Seq(Imports \union Declarations)
         /\ DOMAIN program.text[f] = 1 .. Len(program.text[f]) /\ Len(program.text[f]) \in Nat
         /\ program.text[f][k] \in Imports \union Declarations
         /\ program.text[f][k].kind \in {"import", "decl"}
         /\ program.text[f][k].kind = "import" => program.text[f][k].name \in Names
<1>1. program.text[f] \in Seq(Imports \union Declarations)
  BY DEF IsProgram
<1>2. /\ DOMAIN program.text[f] = 1 .. Len(program.text[f]) /\ Len(program.text[f]) \in Nat
      /\ program.text[f][k] \in Imports \union Declarations
  BY <1>1, LenProperties, ElementOfSeq
<1> QED
  BY <1>1, <1>2 DEF Imports, Declarations

LEMMA VirtualTyped ==
  ASSUME NEW name, IsVirtual(name)
  PROVE  VirtualModule(name) \in DOMAIN VirtualNames /\ VirtualNames[VirtualModule(name)] = name
BY DEF IsVirtual, VirtualModule

(* A file is loaded once.                                                  *)
LEMMA FilesGrow ==
  ASSUME files \in Seq(Files), \A i, j \in DOMAIN files : files[i] = files[j] => i = j,
         NEW path \in Files
  PROVE  /\ FilesWith(path) \in Seq(Files) /\ Len(FilesWith(path)) \in {Len(files), Len(files) + 1}
         /\ Len(files) <= Len(FilesWith(path)) /\ DOMAIN files \subseteq DOMAIN FilesWith(path)
         /\ \A i, j \in DOMAIN FilesWith(path) : FilesWith(path)[i] = FilesWith(path)[j] => i = j
         /\ \A i \in DOMAIN files : FilesWith(path)[i] = files[i]
         /\ DOMAIN FilesWith(path) = 1 .. Len(FilesWith(path))
         /\ FileId(path) \in DOMAIN FilesWith(path) /\ FilesWith(path)[FileId(path)] = path
         /\ \A i \in DOMAIN FilesWith(path) : i \in DOMAIN files \/ i = FileId(path)
<1>0. Len(files) \in Nat /\ DOMAIN files = 1 .. Len(files)
  BY LenProperties
<1>1. CASE path \in Loaded
  <2>1. FilesWith(path) = files
    BY <1>1 DEF FilesWith
  <2>2. FileId(path) \in DOMAIN files /\ files[FileId(path)] = path
    BY <1>1 DEF FileId, Loaded
  <2> QED
    BY <1>0, <2>1, <2>2
<1>2. CASE path \notin Loaded
  <2>1. FilesWith(path) = Append(files, path) /\ FileId(path) = Len(files) + 1
    BY <1>2 DEF FilesWith, FileId
  <2>2. /\ Append(files, path) \in Seq(Files) /\ Len(Append(files, path)) = Len(files) + 1
        /\ \A i \in 1 .. Len(files) : Append(files, path)[i] = files[i]
        /\ Append(files, path)[Len(files) + 1] = path
        /\ DOMAIN Append(files, path) = 1 .. Len(files) + 1
    BY <1>0, AppendProperties, LenProperties
  <2>3. \A i \in 1 .. Len(files) : files[i] # path
    BY <1>0, <1>2 DEF Loaded
  <2> QED
    BY <1>0, <2>1, <2>2, <2>3
<1> QED
  BY <1>1, <1>2

(* What may stand in Rest after parsing.                                   *)
ModuleRecords == [file : DOMAIN files \union {ACU_NULL_IDX}, stage : {"unprocessed", "parsed", "bound"}]

Items == [file : DOMAIN files, name : Names, literal : BOOLEAN, stale : BOOLEAN]

LEMMA RestIs ==
  ASSUME TypeOK, work_que # <<>>
  PROVE  /\ Item \in Items /\ Rest \in Seq(Items)
         /\ Len(Rest) = Len(work_que) - 1 /\ DOMAIN Rest = 1 .. Len(work_que) - 1
         /\ \A i \in 1 .. Len(work_que) - 1 : Rest[i] = work_que[i] /\ work_que[i] \in Items
<1>1. work_que \in Seq(Items) /\ Len(work_que) \in Nat \ {0}
  BY EmptySeq DEF TypeOK, Items
<1>2. \A i \in 1 .. Len(work_que) : work_que[i] \in Items
  BY <1>1, ElementOfSeq
<1> DEFINE n == Len(work_que) - 1
<1>3. n \in Nat /\ \A i \in 1 .. n : work_que[i] \in Items
  BY <1>1, <1>2
<1>4. /\ SubSeq(work_que, 1, n) \in Seq(Items)
      /\ Len(SubSeq(work_que, 1, n)) = IF 1 <= n THEN n - 1 + 1 ELSE 0
      /\ \A i \in 1 .. n - 1 + 1 : SubSeq(work_que, 1, n)[i] = work_que[1 + i - 1]
  <2> HIDE DEF n
  <2> QED
    BY <1>3, SubSeqProperties
<1>5. Rest \in Seq(Items) /\ Len(Rest) = n /\ \A i \in 1 .. n : Rest[i] = work_que[i]
  <2>1. Rest = SubSeq(work_que, 1, n)
    BY DEF Rest
  <2> HIDE DEF n
  <2> QED
    BY <1>3, <1>4, <2>1
<1>6. Item \in Items
  BY <1>1, <1>2 DEF Item
<1> QED
  BY <1>3, <1>5, <1>6, LenProperties

LEMMA RestAfterIs ==
  ASSUME TypeOK, work_que # <<>>, NEW moved \in BOOLEAN
  PROVE  /\ RestAfter(moved) \in Seq(Items)
         /\ Len(RestAfter(moved)) = Len(work_que) - 1 /\ DOMAIN RestAfter(moved) = 1 .. Len(work_que) - 1
         /\ \A i \in 1 .. Len(work_que) - 1 :
              RestAfter(moved)[i].file = work_que[i].file /\ RestAfter(moved)[i].name = work_que[i].name
<1> DEFINE n == Len(work_que) - 1
<1>1. n \in Nat /\ DOMAIN Rest = 1 .. n /\ \A i \in 1 .. n : Rest[i] \in Items /\ Rest[i] = work_que[i]
  BY RestIs, LenProperties
<1>2. RestAfter(moved) = [i \in 1 .. n |-> [Rest[i] EXCEPT !.stale = @ \/ (moved /\ Rest[i].literal)]]
  BY <1>1 DEF RestAfter
<1>3. \A i \in 1 .. n : [Rest[i] EXCEPT !.stale = @ \/ (moved /\ Rest[i].literal)] \in Items
  BY <1>1 DEF Items
<1>4. \A i \in 1 .. n : RestAfter(moved)[i].file = work_que[i].file /\ RestAfter(moved)[i].name = work_que[i].name
  BY <1>1, <1>2 DEF Items
<1>5. RestAfter(moved) \in [1 .. n -> Items]
  BY <1>2, <1>3
<1>6. RestAfter(moved) \in Seq(Items) /\ Len(RestAfter(moved)) = n /\ DOMAIN RestAfter(moved) = 1 .. n
  <2> HIDE DEF n
  <2> QED
    BY <1>1, <1>5
<1> QED
  BY <1>4, <1>6
-----------------------------------------------------------------------------
(* Typed                                                                   *)

Phases == {"open", "discover", "scan", "bind", "done", "failed", "undefined"}

Kinds == {"FILE_NOT_FOUND", "READ_FAILED", "SYNTAX", "REDEFINITION"}

LEMMA TypedInit == Init => Typed
<1> SUFFICES ASSUME Init PROVE Typed
  OBVIOUS
<1>1. Len(VirtualNames) \in Nat /\ DOMAIN VirtualNames = 1 .. Len(VirtualNames)
  BY VirtualAssumption, LenProperties
<1>2. DOMAIN modules = 1 .. Len(VirtualNames) /\ \A m \in DOMAIN modules : modules[m] = Virtual
  BY DEF Init
<1>3. Len(modules) = Len(VirtualNames)
  BY <1>1 DEF Init
<1>4. modules \in Seq(ModuleRecords)
  <2>1. Virtual \in ModuleRecords
    BY DEF Virtual, ModuleRecords
  <2>2. modules \in [1 .. Len(VirtualNames) -> ModuleRecords]
    BY <2>1 DEF Init
  <2> QED
    BY <1>1, <2>2
<1>5. \A i \in DOMAIN symbols :
        symbols[i].scope \in DOMAIN modules /\ symbols[i].target \in DOMAIN modules \union {ACU_NULL_IDX}
  BY <1>1, <1>2 DEF Init, Symbol
<1>6. /\ files = <<>> /\ file_to_module = <<>> /\ work_que = <<>> /\ errors = <<>>
      /\ pc = "open" /\ current = 0 /\ at = 1 /\ main_module_id = ACU_NULL_IDX /\ IsProgram(program)
  BY ProgramsAssumption DEF Init
<1>7. TypeOK
  BY <1>4, <1>5, <1>6 DEF TypeOK, ModuleRecords
<1>8. symbols \in Seq(Symbols)
  <2>1. \A m \in 1 .. Len(VirtualNames) : Symbol(1, VirtualNames[m], m) \in Symbols
    BY <1>1, VirtualAssumption, ElementOfSeq DEF Symbol, Symbols
  <2>2. symbols \in [1 .. Len(VirtualNames) -> Symbols]
    BY <2>1 DEF Init
  <2> QED
    BY <1>1, <2>2
<1> QED
  BY <1>1, <1>2, <1>3, <1>6, <1>7, <1>8 DEF Typed, Virtual

(* A step that leaves files and modules alone.                             *)
LEMMA TablesStay ==
  ASSUME Typed, UNCHANGED <<program, files, file_to_module, modules>>,
         pc' \in Phases, work_que' \in Seq(Items), current' \in Nat, at' \in Nat \ {0},
         pc' = "scan" => current' \in DOMAIN files, pc' = "bind" => current' # 0,
         main_module_id' \in DOMAIN modules \union {ACU_NULL_IDX}, errors' \in Seq(Kinds),
         symbols' \in Seq(Symbols),
         \A i \in DOMAIN symbols' :
           symbols'[i].scope \in DOMAIN modules /\ symbols'[i].target \in DOMAIN modules \union {ACU_NULL_IDX}
  PROVE  Typed'
BY DEF Typed, TypeOK, ModuleOfFile, Phases, Items, Kinds

(* The values that the variables have kept.                                *)
LEMMA Kept ==
  ASSUME Typed
  PROVE  /\ pc \in Phases /\ work_que \in Seq(Items) /\ current \in Nat /\ at \in Nat \ {0}
         /\ main_module_id \in DOMAIN modules \union {ACU_NULL_IDX} /\ errors \in Seq(Kinds)
         /\ \A i \in DOMAIN symbols :
              /\ symbols[i].scope \in DOMAIN modules
              /\ symbols[i].target \in DOMAIN modules \union {ACU_NULL_IDX}
         /\ IsProgram(program) /\ files \in Seq(Files)
         /\ \A i, j \in DOMAIN files : files[i] = files[j] => i = j
         /\ pc = "scan" => current \in DOMAIN files
         /\ symbols \in Seq(Symbols) /\ (pc = "bind" => current # 0)
BY DEF Typed, TypeOK, Phases, Items, Kinds

(* The file manager may have loaded one more file.                         *)
LEMMA TypedLoad ==
  ASSUME Typed, NEW path \in Files, files' = FilesWith(path), UNCHANGED <<program, file_to_module, modules>>,
         pc' \in Phases, work_que' \in Seq(Items'), current' \in Nat, at' \in Nat \ {0},
         pc' = "scan" => current' \in DOMAIN files, pc' = "bind" => current' # 0,
         main_module_id' \in DOMAIN modules \union {ACU_NULL_IDX}, errors' \in Seq(Kinds),
         symbols' \in Seq(Symbols),
         \A i \in DOMAIN symbols' :
           symbols'[i].scope \in DOMAIN modules /\ symbols'[i].target \in DOMAIN modules \union {ACU_NULL_IDX}
  PROVE  Typed'
<1>1. /\ files' \in Seq(Files) /\ Len(files') \in {Len(files), Len(files) + 1}
      /\ \A i, j \in DOMAIN files' : files'[i] = files'[j] => i = j
  BY Kept, FilesGrow
<1>2. /\ Len(files) \in Nat /\ DOMAIN files = 1 .. Len(files) /\ DOMAIN files' = 1 .. Len(files')
      /\ DOMAIN modules = 1 .. Len(modules) /\ Len(file_to_module) \in Nat
      /\ DOMAIN file_to_module = 1 .. Len(file_to_module) /\ Len(file_to_module) <= Len(files)
      /\ ACU_NULL_IDX \notin Nat /\ Len(modules) \in Nat
  <2>1. TypeOK /\ Len(file_to_module) <= Len(files)
    BY DEF Typed
  <2>2. DOMAIN files' = 1 .. Len(files')
    BY <1>1, LenProperties
  <2> QED
    BY <2>1, <2>2, Lengths
<1>3. DOMAIN files \subseteq DOMAIN files' /\ Len(file_to_module) <= Len(files')
  <2>1. Len(files) <= Len(files') /\ DOMAIN files \subseteq DOMAIN files'
    BY Kept, FilesGrow
  <2>2. Len(files') \in Nat
    BY <1>1, LenProperties
  <2> QED
    BY <1>2, <2>1, <2>2
<1>4. modules' \in Seq(ModuleRecords)'
  <2>1. modules \in Seq(ModuleRecords)
    BY DEF Typed, TypeOK, ModuleRecords
  <2>2. ModuleRecords \subseteq ModuleRecords'
    BY <1>3 DEF ModuleRecords
  <2> QED
    BY <2>1, <2>2, SeqMonotonic
<1>5. \A m \in DOMAIN modules', f \in DOMAIN files' : modules'[m].file = f <=> ModuleOfFile(f)' = m
  <2> SUFFICES ASSUME NEW m \in DOMAIN modules, NEW f \in DOMAIN files'
               PROVE  modules[m].file = f <=> ModuleOfFile(f) = m
    BY DEF ModuleOfFile
  <2>1. CASE f \in DOMAIN files
    BY <2>1 DEF Typed, TypeOK
  <2>2. CASE f \notin DOMAIN files
    <3>1. f \notin DOMAIN file_to_module
      BY <1>2, <1>3, <2>2
    <3>2. ModuleOfFile(f) = ACU_NULL_IDX
      BY <3>1 DEF ModuleOfFile
    <3>3. modules[m] \in ModuleRecords
      <4>1. modules \in Seq(ModuleRecords)
        BY DEF Typed, TypeOK, ModuleRecords
      <4> QED
        BY <1>2, <4>1, ElementOfSeq
    <3>4. modules[m].file # f
      BY <1>2, <2>2, <3>3 DEF ModuleRecords
    <3> QED
      BY <1>2, <3>2, <3>4
  <2> QED
    BY <2>1, <2>2
<1>6. TypeOK'
  BY <1>1, <1>3, <1>4, <1>5 DEF Typed, TypeOK, Phases, Items, Kinds, ModuleRecords
<1> QED
  BY <1>3, <1>6 DEF Typed

LEMMA ModuleTyped ==
  ASSUME TypeOK
  PROVE  /\ \A x : ModuleOfFile(x) \in DOMAIN modules \union {ACU_NULL_IDX}
         /\ \A m \in DOMAIN modules : modules[m] \in ModuleRecords
<1>1. file_to_module \in Seq(DOMAIN modules \union {ACU_NULL_IDX}) /\ modules \in Seq(ModuleRecords)
  BY DEF TypeOK, ModuleRecords
<1>2. \A x \in DOMAIN file_to_module : file_to_module[x] \in DOMAIN modules \union {ACU_NULL_IDX}
  BY <1>1, LenProperties, ElementOfSeq
<1>3. \A m \in DOMAIN modules : modules[m] \in ModuleRecords
  BY <1>1, LenProperties, ElementOfSeq
<1> QED
  BY <1>2, <1>3 DEF ModuleOfFile

LEMMA GrownIs ==
  ASSUME TypeOK, NEW f \in DOMAIN files, NEW m, Len(file_to_module) <= Len(files),
         NEW ftm, ftm = [Grown(f) EXCEPT ![f] = m]
  PROVE  /\ ftm \in Seq(DOMAIN modules \union {ACU_NULL_IDX, m}) /\ Len(ftm) <= Len(files)
         /\ \A g : (IF g \in DOMAIN ftm THEN ftm[g] ELSE ACU_NULL_IDX) = IF g = f THEN m ELSE ModuleOfFile(g)
<1>1. /\ f \in Nat \ {0} /\ f <= Len(files) /\ Len(files) \in Nat
      /\ Len(file_to_module) \in Nat /\ DOMAIN file_to_module = 1 .. Len(file_to_module)
  BY Lengths
<1>2. \A x : ModuleOfFile(x) \in DOMAIN modules \union {ACU_NULL_IDX}
  BY ModuleTyped
<1> DEFINE n == IF f > Len(file_to_module) THEN f ELSE Len(file_to_module)
<1>3. n \in Nat /\ f \in 1 .. n /\ n <= Len(files) /\ Len(file_to_module) <= n
  BY <1>1
<1>4. Grown(f) = [i \in 1 .. n |-> IF i <= Len(file_to_module) THEN file_to_module[i] ELSE ACU_NULL_IDX]
  BY DEF Grown
<1> HIDE DEF n
<1>5. \A i \in 1 .. n : (IF i <= Len(file_to_module) THEN file_to_module[i] ELSE ACU_NULL_IDX) = ModuleOfFile(i)
  BY <1>1, <1>3 DEF ModuleOfFile
<1>6. /\ DOMAIN ftm = 1 .. n
      /\ \A i \in 1 .. n : ftm[i] = IF i = f THEN m ELSE ModuleOfFile(i)
  BY <1>3, <1>4, <1>5
<1>7. ftm \in [1 .. n -> DOMAIN modules \union {ACU_NULL_IDX, m}]
  <2>1. ftm = [i \in 1 .. n |-> ftm[i]]
    BY <1>4
  <2> QED
    BY <1>2, <1>6, <2>1
<1>8. ftm \in Seq(DOMAIN modules \union {ACU_NULL_IDX, m}) /\ Len(ftm) = n
  <2> DEFINE S == DOMAIN modules \union {ACU_NULL_IDX, m}
  <2>1. ftm \in [1 .. n -> S]
    BY <1>7
  <2> HIDE DEF S
  <2>2. \A s \in [1 .. n -> S] : s \in Seq(S) /\ Len(s) = n
    BY <1>3, FunctionIsSeq
  <2>3. ftm \in Seq(S) /\ Len(ftm) = n
    BY ONLY <2>1, <2>2
  <2> QED
    BY <2>3 DEF S
<1>9. \A g : g \notin 1 .. n => ModuleOfFile(g) = ACU_NULL_IDX
  BY <1>1, <1>3 DEF ModuleOfFile
<1> QED
  BY <1>3, <1>6, <1>8, <1>9

(* The new module and its entry in file_to_module.                         *)
LEMMA NewModuleIs ==
  ASSUME Typed, NEW moved \in BOOLEAN, NewModule(moved)
  PROVE  /\ Item \in Items /\ Item.file \in DOMAIN files /\ ModuleOfFile(Item.file) = ACU_NULL_IDX
         /\ Len(modules) + 1 \notin DOMAIN modules /\ Len(modules) + 1 # ACU_NULL_IDX
         /\ modules' \in Seq(ModuleRecords) /\ Len(modules') = Len(modules) + 1
         /\ DOMAIN modules' = DOMAIN modules \union {Len(modules) + 1}
         /\ \A m \in DOMAIN modules : modules'[m] = modules[m]
         /\ modules'[Len(modules) + 1] = [file |-> Item.file, stage |-> "parsed"]
         /\ file_to_module' \in Seq(DOMAIN modules \union {ACU_NULL_IDX, Len(modules) + 1})
         /\ Len(file_to_module') <= Len(files)
         /\ \A g : ModuleOfFile(g)' = IF g = Item.file THEN Len(modules) + 1 ELSE ModuleOfFile(g)
<1> DEFINE f == Item.file
<1> DEFINE n == Len(modules) + 1
<1>1. TypeOK /\ work_que # <<>> /\ Len(file_to_module) <= Len(files)
  BY DEF Typed, NewModule, Parsing, Taking
<1>2. f \in DOMAIN files /\ ModuleOfFile(f) = ACU_NULL_IDX
  <2>1. Item \in Items
    BY <1>1, RestIs
  <2> QED
    BY <2>1 DEF NewModule, Parsing, Items
<1>3. /\ DOMAIN modules = 1 .. Len(modules) /\ Len(modules) \in Nat /\ ACU_NULL_IDX \notin Nat
      /\ Len(VirtualNames) <= Len(modules) /\ DOMAIN VirtualNames = 1 .. Len(VirtualNames)
      /\ Len(VirtualNames) \in Nat
  BY <1>1, Lengths DEF Typed
<1>4. modules \in Seq(ModuleRecords) /\ \A m \in DOMAIN modules : modules[m] \in ModuleRecords
  BY <1>1, ModuleTyped DEF TypeOK, ModuleRecords
<1>5. [file |-> f, stage |-> "parsed"] \in ModuleRecords
  BY <1>2 DEF ModuleRecords
<1>6. /\ modules' \in Seq(ModuleRecords) /\ Len(modules') = n /\ DOMAIN modules' = 1 .. n
      /\ \A m \in 1 .. Len(modules) : modules'[m] = modules[m]
      /\ modules'[n] = [file |-> f, stage |-> "parsed"]
  <2>1. modules' = Append(modules, [file |-> f, stage |-> "parsed"])
    BY DEF NewModule
  <2> HIDE DEF f
  <2> QED
    BY <1>4, <1>5, <2>1, AppendProperties, LenProperties
<1>7. /\ file_to_module' \in Seq(DOMAIN modules \union {ACU_NULL_IDX, n})
      /\ Len(file_to_module') <= Len(files)
      /\ \A g : (IF g \in DOMAIN file_to_module' THEN file_to_module'[g] ELSE ACU_NULL_IDX)
                 = IF g = f THEN n ELSE ModuleOfFile(g)
  <2>1. file_to_module' = [Grown(f) EXCEPT ![f] = n]
    BY DEF NewModule
  <2> HIDE DEF f, n
  <2> QED
    BY <1>1, <1>2, <2>1, GrownIs
<1>8. \A g : ModuleOfFile(g)' = IF g = f THEN n ELSE ModuleOfFile(g)
  BY <1>7 DEF ModuleOfFile
<1>9. DOMAIN modules' = DOMAIN modules \union {n} /\ n \notin DOMAIN modules /\ n # ACU_NULL_IDX
  BY <1>3, <1>6
<1> QED
  BY <1>1, <1>2, <1>3, <1>6, <1>7, <1>8, <1>9, RestIs

LEMMA TypedNewModule ==
  ASSUME Typed, NEW moved \in BOOLEAN, NewModule(moved)
  PROVE  Typed'
<1> DEFINE f == Item.file
<1> DEFINE n == Len(modules) + 1
<1>1. TypeOK /\ work_que # <<>> /\ Len(file_to_module) <= Len(files)
  BY DEF Typed, NewModule, Parsing, Taking
<1>2. f \in DOMAIN files /\ ModuleOfFile(f) = ACU_NULL_IDX
  BY NewModuleIs
<1>3. /\ DOMAIN modules = 1 .. Len(modules) /\ Len(modules) \in Nat /\ ACU_NULL_IDX \notin Nat
      /\ Len(VirtualNames) <= Len(modules) /\ DOMAIN VirtualNames = 1 .. Len(VirtualNames)
      /\ Len(VirtualNames) \in Nat
  BY <1>1, Lengths DEF Typed
<1>6. /\ modules' \in Seq(ModuleRecords) /\ Len(modules') = n /\ DOMAIN modules' = 1 .. n
      /\ \A m \in 1 .. Len(modules) : modules'[m] = modules[m]
      /\ modules'[n] = [file |-> f, stage |-> "parsed"]
  BY <1>3, NewModuleIs, LenProperties
<1>7. /\ file_to_module' \in Seq(DOMAIN modules \union {ACU_NULL_IDX, n})
      /\ Len(file_to_module') <= Len(files)
  BY NewModuleIs
<1>8. \A g : ModuleOfFile(g)' = IF g = f THEN n ELSE ModuleOfFile(g)
  BY NewModuleIs
<1>9. \A m \in DOMAIN modules', g \in DOMAIN files' : modules'[m].file = g <=> ModuleOfFile(g)' = m
  <2> SUFFICES ASSUME NEW m \in 1 .. n, NEW g \in DOMAIN files
               PROVE  modules'[m].file = g <=> (IF g = f THEN n ELSE ModuleOfFile(g)) = m
    BY <1>6, <1>8 DEF NewModule
  <2>1. n \notin DOMAIN modules /\ n # ACU_NULL_IDX
    BY <1>3
  <2>2. \A x : ModuleOfFile(x) # n
    BY <1>1, <2>1, ModuleTyped
  <2>3. CASE m = n
    BY <1>6, <2>2, <2>3
  <2>4. CASE m # n
    <3>1. m \in DOMAIN modules
      BY <1>3, <2>4
    <3>2. modules[m].file = g <=> ModuleOfFile(g) = m
      BY <1>1, <3>1 DEF TypeOK
    <3>3. modules'[m] = modules[m]
      BY <1>3, <1>6, <3>1
    <3>4. m # ACU_NULL_IDX
      BY <1>3, <3>1
    <3> QED
      BY <1>2, <2>4, <3>2, <3>3, <3>4
  <2> QED
    BY <2>3, <2>4
<1>10. DOMAIN modules \subseteq DOMAIN modules' /\ n \in DOMAIN modules'
  BY <1>3, <1>6
<1>11. file_to_module' \in Seq(DOMAIN modules' \union {ACU_NULL_IDX})
  <2>1. DOMAIN modules \union {ACU_NULL_IDX, n} \subseteq DOMAIN modules' \union {ACU_NULL_IDX}
    BY <1>10
  <2> HIDE DEF n
  <2> QED
    BY <1>7, <2>1, SeqMonotonic
<1>12. main_module_id' \in DOMAIN modules' \union {ACU_NULL_IDX}
  BY <1>1, <1>10 DEF NewModule, MainIs, TypeOK
<1>13. work_que' \in Seq(Items)
  BY <1>1, RestAfterIs DEF NewModule
<1>14. /\ UNCHANGED <<program, files, symbols, errors>>
       /\ pc' = "scan" /\ current' = f /\ at' = 1
  BY DEF NewModule, Scan
<1>15. f \in Nat /\ at' \in Nat \ {0}
  BY <1>1, <1>2, <1>14, Lengths
<1>16. TypeOK'
  <2>1. /\ IsProgram(program) /\ files \in Seq(Files)
        /\ \A i, j \in DOMAIN files : files[i] = files[j] => i = j
        /\ \A i \in DOMAIN symbols :
             /\ symbols[i].scope \in DOMAIN modules
             /\ symbols[i].target \in DOMAIN modules \union {ACU_NULL_IDX}
        /\ errors \in Seq(Kinds)
    BY Kept
  <2> QED
    BY <1>2, <1>6, <1>9, <1>10, <1>11, <1>12, <1>13, <1>14, <1>15, <2>1 DEF TypeOK, Items, Kinds, ModuleRecords
<1>17. /\ \A m \in DOMAIN VirtualNames : modules'[m].file = ACU_NULL_IDX
       /\ \A m \in DOMAIN modules' : modules'[m].file # ACU_NULL_IDX => modules'[m].stage # "unprocessed"
  <2>1. /\ \A m \in DOMAIN VirtualNames : modules[m].file = ACU_NULL_IDX
        /\ \A m \in DOMAIN modules : modules[m].file # ACU_NULL_IDX => modules[m].stage # "unprocessed"
    BY DEF Typed
  <2>2. ASSUME NEW m \in DOMAIN VirtualNames
        PROVE  modules'[m].file = ACU_NULL_IDX
    <3>1. m \in 1 .. Len(modules)
      BY <1>3, <2>2
    <3> QED
      BY <1>6, <2>1, <2>2, <3>1
  <2>3. ASSUME NEW m \in DOMAIN modules', modules'[m].file # ACU_NULL_IDX
        PROVE  modules'[m].stage # "unprocessed"
    <3>1. CASE m = n
      <4>1. modules'[m].stage = "parsed"
        BY <1>6, <3>1
      <4> QED
        BY <4>1
    <3>2. CASE m # n
      <4>1. m \in 1 .. Len(modules) /\ m \in DOMAIN modules
        BY <1>3, <1>6, <2>3, <3>2
      <4> QED
        BY <1>6, <2>1, <2>3, <4>1
    <3> QED
      BY <3>1, <3>2
  <2> QED
    BY <2>2, <2>3
<1> QED
  BY <1>3, <1>6, <1>7, <1>14, <1>16, <1>17 DEF Typed, Symbols

(* A module changes its stage.                                             *)
LEMMA StageChanges ==
  ASSUME Typed, NEW m \in DOMAIN modules, NEW stage \in {"parsed", "bound"},
         modules' = [modules EXCEPT ![m].stage = stage], UNCHANGED file_to_module
  PROVE  /\ DOMAIN modules' = DOMAIN modules /\ Len(modules') = Len(modules)
         /\ \A n \in DOMAIN modules : /\ modules'[n].file = modules[n].file
                                       /\ modules'[n].stage = IF n = m THEN stage ELSE modules[n].stage
         /\ modules' \in Seq(ModuleRecords)
<1>1. modules \in Seq(ModuleRecords) /\ \A n \in DOMAIN modules : modules[n] \in ModuleRecords
  BY ModuleTyped DEF Typed, TypeOK, ModuleRecords
<1>2. [modules[m] EXCEPT !.stage = stage] \in ModuleRecords
  BY <1>1 DEF ModuleRecords
<1>3. DOMAIN modules = 1 .. Len(modules)
  BY Lengths DEF Typed
<1>4. modules' = [modules EXCEPT ![m] = [modules[m] EXCEPT !.stage = stage]]
  OBVIOUS
<1>5. /\ modules' \in Seq(ModuleRecords) /\ Len(modules') = Len(modules)
      /\ \A j \in 1 .. Len(modules) : modules'[j] = IF j = m THEN [modules[m] EXCEPT !.stage = stage] ELSE modules[j]
  BY <1>1, <1>2, <1>3, <1>4, ExceptSeq
<1>6. DOMAIN modules' = DOMAIN modules
  BY <1>4
<1> QED
  BY <1>1, <1>3, <1>5, <1>6 DEF ModuleRecords

LEMMA TypedStage ==
  ASSUME Typed, NEW m \in DOMAIN modules, NEW stage \in {"parsed", "bound"},
         modules' = [modules EXCEPT ![m].stage = stage], UNCHANGED <<program, files, file_to_module>>,
         pc' \in Phases, work_que' \in Seq(Items), current' \in Nat, at' \in Nat \ {0},
         pc' = "scan" => current' \in DOMAIN files, pc' = "bind" => current' # 0,
         main_module_id' \in DOMAIN modules \union {ACU_NULL_IDX}, UNCHANGED <<errors, symbols>>
  PROVE  Typed'
<1>1. /\ DOMAIN modules' = DOMAIN modules /\ Len(modules') = Len(modules)
      /\ \A n \in DOMAIN modules : /\ modules'[n].file = modules[n].file
                                    /\ modules'[n].stage = IF n = m THEN stage ELSE modules[n].stage
      /\ modules' \in Seq(ModuleRecords)
  BY StageChanges
<1>2. \A n \in DOMAIN modules', f \in DOMAIN files' : modules'[n].file = f <=> ModuleOfFile(f)' = n
  BY <1>1 DEF Typed, TypeOK, ModuleOfFile
<1>3. TypeOK'
  BY <1>1, <1>2 DEF Typed, TypeOK, Phases, Items, ModuleRecords
<1>4. DOMAIN VirtualNames \subseteq DOMAIN modules
  BY Lengths DEF Typed
<1> QED
  BY <1>1, <1>3, <1>4 DEF Typed

(* What the file manager answers.                                          *)
LEMMA StatusIs ==
  ASSUME NEW path \in Files \union {Missing}
  PROVE  /\ Status(path) \in Kinds \union {"OK"}
         /\ Status(path) = "OK" => path \in Files /\ (path \in Loaded \/ path \notin program.unreadable)
         /\ Status(path) # "OK" => path = Missing \/ path \in program.unreadable
BY DEF Status, Kinds

(* The statement that pass 1 looks at.                                     *)
LEMMA StatementScanned ==
  ASSUME Typed, Scanning
  PROVE  /\ current \in DOMAIN files /\ files[current] \in Files
         /\ at \in DOMAIN program.text[files[current]]
         /\ Statement = program.text[files[current]][at]
         /\ Statement.kind \in {"import", "decl"}
         /\ NeedsFile => Statement.name \in Names /\ Path \in Files \union {Missing}
<1>1. current \in DOMAIN files /\ files \in Seq(Files) /\ IsProgram(program) /\ at \in Nat \ {0}
  BY Kept DEF Scanning
<1>2. files[current] \in Files
  BY <1>1, LenProperties, ElementOfSeq
<1>3. program.text[files[current]] \in Seq(Imports \union Declarations)
  BY <1>1, <1>2 DEF IsProgram
<1>4. at \in DOMAIN program.text[files[current]]
  <2>1. at <= Len(program.text[files[current]])
    BY DEF Scanning, Text
  <2> QED
    BY <1>1, <1>3, <2>1, LenProperties
<1>5. Statement = program.text[files[current]][at]
  BY DEF Statement, Text
<1>6. Statement.kind \in {"import", "decl"} /\ (Statement.kind = "import" => Statement.name \in Names)
  BY <1>1, <1>2, <1>4, <1>5, StatementTyped
<1>7. NeedsFile => Path \in Files \union {Missing}
  BY <1>1, <1>2, <1>6, LeadTyped DEF NeedsFile, Path
<1> QED
  BY <1>1, <1>2, <1>4, <1>5, <1>6, <1>7 DEF NeedsFile

(* The module that pass 2 visits, and the statement it looks at.           *)
LEMMA ModuleVisited ==
  ASSUME Typed, Visiting
  PROVE  /\ current \in DOMAIN modules /\ current + 1 \in Nat \ {0}
         /\ modules[current].file # ACU_NULL_IDX =>
              /\ modules[current].file \in DOMAIN files
              /\ files[modules[current].file] \in Files
<1>1. current \in Nat /\ current # 0 /\ current <= Len(modules) /\ files \in Seq(Files)
  BY Kept DEF Visiting
<1>2. current \in DOMAIN modules
  BY <1>1, Lengths DEF Typed
<1>3. modules[current] \in ModuleRecords
  BY <1>2, ModuleTyped DEF Typed
<1>4. modules[current].file # ACU_NULL_IDX => modules[current].file \in DOMAIN files
  BY <1>3 DEF ModuleRecords
<1>5. \A i \in DOMAIN files : files[i] \in Files
  BY <1>1, LenProperties, ElementOfSeq
<1> QED
  BY <1>1, <1>2, <1>4, <1>5

LEMMA StatementBound ==
  ASSUME Typed, Binding
  PROVE  /\ current \in DOMAIN modules /\ modules[current].file \in DOMAIN files
         /\ files[modules[current].file] \in Files
         /\ ModuleText = program.text[files[modules[current].file]]
         /\ at \in DOMAIN ModuleText /\ ModuleText[at] \in Imports \union Declarations
         /\ ModuleText[at].alias \in Idents /\ ModuleText[at].kind \in {"import", "decl"}
         /\ ModuleText[at].kind = "import" =>
              ModuleText[at].name \in Names /\ ResolvedAgain \in Files \union {Missing}
<1>1. /\ current \in DOMAIN modules /\ modules[current].file \in DOMAIN files
      /\ files[modules[current].file] \in Files /\ IsProgram(program) /\ at \in Nat \ {0}
  BY ModuleVisited, Kept DEF Binding
<1>2. ModuleText = program.text[files[modules[current].file]]
  BY DEF ModuleText
<1>3. ModuleText \in Seq(Imports \union Declarations)
  BY <1>1, <1>2 DEF IsProgram
<1>4. at \in DOMAIN ModuleText
  <2>1. at <= Len(ModuleText)
    BY DEF Binding
  <2> QED
    BY <1>1, <1>3, <2>1, LenProperties
<1>5. /\ ModuleText[at] \in Imports \union Declarations
      /\ ModuleText[at].kind \in {"import", "decl"}
      /\ ModuleText[at].kind = "import" => ModuleText[at].name \in Names
  BY <1>1, <1>2, <1>4, StatementTyped
<1>6. ModuleText[at].alias \in Idents
  BY <1>5 DEF Imports, Declarations
<1>7. ModuleText[at].kind = "import" => ResolvedAgain \in Files \union {Missing}
  BY <1>1, <1>5, LeadTyped DEF ResolvedAgain
<1> QED
  BY <1>1, <1>2, <1>4, <1>5, <1>6, <1>7

(* A symbol is added.                                                      *)
LEMMA SymbolAdded ==
  ASSUME Typed, NEW scope \in DOMAIN modules, NEW name \in Names \union Idents,
         NEW target \in DOMAIN modules \union {ACU_NULL_IDX},
         symbols' = Append(symbols, Symbol(scope, name, target))
  PROVE  /\ symbols' \in Seq(Symbols) /\ DOMAIN symbols' = DOMAIN symbols \union {Len(symbols) + 1}
         /\ Len(symbols) \in Nat /\ DOMAIN symbols = 1 .. Len(symbols)
         /\ \A i \in DOMAIN symbols : symbols'[i] = symbols[i]
         /\ symbols'[Len(symbols) + 1] = Symbol(scope, name, target)
         /\ Symbol(scope, name, target) \in Symbols
<1>1. symbols \in Seq(Symbols) /\ Len(symbols) \in Nat /\ DOMAIN symbols = 1 .. Len(symbols)
  BY Kept, LenProperties
<1>2. Symbol(scope, name, target) \in Symbols
  BY Lengths DEF Typed, Symbol, Symbols
<1>3. /\ symbols' \in Seq(Symbols) /\ Len(symbols') = Len(symbols) + 1
      /\ \A i \in 1 .. Len(symbols) : symbols'[i] = symbols[i]
      /\ symbols'[Len(symbols) + 1] = Symbol(scope, name, target)
  BY <1>1, <1>2, AppendProperties
<1>4. DOMAIN symbols' = 1 .. Len(symbols) + 1
  BY <1>3, LenProperties
<1> QED
  BY <1>1, <1>2, <1>3, <1>4

LEMMA ErrorAdded ==
  ASSUME Typed, NEW e \in Kinds
  PROVE  Append(errors, e) \in Seq(Kinds) /\ Append(errors, e) # <<>>
<1>1. errors \in Seq(Kinds) /\ Len(errors) \in Nat
  BY Kept, LenProperties
<1>2. Append(errors, e) \in Seq(Kinds) /\ Len(Append(errors, e)) = Len(errors) + 1
  BY <1>1, AppendProperties
<1>3. Len(Append(errors, e)) # 0
  BY <1>1, <1>2
<1> QED
  BY <1>2, <1>3, EmptySeq

LEMMA TypedOpen ==
  ASSUME Typed, Open
  PROVE  Typed'
<1> DEFINE path == Lead(ACU_NULL_IDX, program.main)
<1>1. path \in Files \union {Missing}
  BY Kept, LeadTyped DEF IsProgram
<1>2. /\ UNCHANGED <<program, file_to_module, modules, current, at, main_module_id, symbols>>
      /\ pc' \in {"failed", "discover"}
  BY DEF Open
<1>3. CASE Status(path) # "OK"
  <2>1. errors' = Append(errors, Status(path)) /\ UNCHANGED <<files, work_que>>
    BY <1>3 DEF Open
  <2>2. errors' \in Seq(Kinds)
    BY <1>1, <1>3, <2>1, StatusIs, ErrorAdded
  <2> QED
    BY <1>2, <2>1, <2>2, Kept, TablesStay DEF Phases
<1>4. CASE Status(path) = "OK"
  <2>1. /\ files' = FilesWith(path) /\ UNCHANGED errors
        /\ work_que' = <<WorkItem(FileId(path), program.main, FALSE)>>
    BY <1>4 DEF Open
  <2>2. path \in Files
    BY <1>1, <1>4, StatusIs
  <2>3. FileId(path) \in DOMAIN files'
    BY <2>1, <2>2, Kept, FilesGrow, LenProperties
  <2>4. work_que' \in Seq(Items')
    BY <2>1, <2>3, Kept DEF WorkItem, Items, IsProgram
  <2> QED
    BY <1>2, <2>1, <2>2, <2>4, Kept, TypedLoad DEF Phases
<1> QED
  BY <1>3, <1>4

LEMMA TypedQueueImport ==
  ASSUME Typed, QueueImport
  PROVE  Typed'
<1>1. /\ files' = FilesWith(Path) /\ Status(Path) = "OK" /\ NeedsFile /\ Scanning
      /\ work_que' = Append(work_que, WorkItem(FileId(Path), Statement.name, TRUE))
      /\ at' = at + 1
      /\ UNCHANGED <<program, pc, file_to_module, modules, current, main_module_id, symbols, errors>>
  BY DEF QueueImport
<1>2. Path \in Files /\ Statement.name \in Names
  BY <1>1, StatementScanned, StatusIs
<1>3. FileId(Path) \in DOMAIN files' /\ DOMAIN files \subseteq DOMAIN files'
  BY <1>1, <1>2, Kept, FilesGrow
<1>4. work_que' \in Seq(Items')
  <2>1. Items \subseteq Items'
    BY <1>3 DEF Items
  <2>2. work_que \in Seq(Items')
    BY <2>1, Kept, SeqMonotonic
  <2>3. WorkItem(FileId(Path), Statement.name, TRUE) \in Items'
    BY <1>2, <1>3 DEF WorkItem, Items
  <2> QED
    BY <1>1, <2>2, <2>3, AppendProperties
<1>5. at' \in Nat \ {0}
  BY <1>1, Kept
<1> QED
  BY <1>1, <1>2, <1>3, <1>4, <1>5, Kept, TypedLoad

LEMMA TypedBindImport ==
  ASSUME Typed, BindImport
  PROVE  Typed'
<1> DEFINE name == ModuleText[at].name
<1> DEFINE target == IF IsVirtual(name) THEN VirtualModule(name) ELSE ModuleOfFile(FileId(ResolvedAgain))
<1>1. /\ Binding /\ ModuleText[at].kind = "import" /\ at' = at + 1 /\ pc = "bind"
      /\ UNCHANGED <<program, pc, file_to_module, modules, work_que, current, main_module_id>>
  BY DEF BindImport, Binding, Visiting
<1>2. /\ current \in DOMAIN modules /\ ModuleText[at].alias \in Idents /\ name \in Names
      /\ ResolvedAgain \in Files \union {Missing}
  BY <1>1, StatementBound
<1>3. at' \in Nat \ {0}
  BY <1>1, Kept
<1>4. target \in DOMAIN modules \union {ACU_NULL_IDX}
  <2>1. ModuleOfFile(FileId(ResolvedAgain)) \in DOMAIN modules \union {ACU_NULL_IDX}
    BY ModuleTyped DEF Typed
  <2>2. DOMAIN VirtualNames \subseteq DOMAIN modules
    BY Lengths DEF Typed
  <2> QED
    BY <2>1, <2>2, VirtualTyped
<1>5. CASE ~ IsVirtual(name) /\ Status(ResolvedAgain) # "OK"
  <2>1. errors' = Append(errors, Status(ResolvedAgain)) /\ UNCHANGED <<files, symbols>>
    BY <1>5 DEF BindImport
  <2>2. errors' \in Seq(Kinds)
    BY <1>2, <1>5, <2>1, StatusIs, ErrorAdded
  <2> QED
    BY <1>1, <1>3, <2>1, <2>2, Kept, TablesStay
<1>6. CASE IsVirtual(name) \/ Status(ResolvedAgain) = "OK"
  <2>1. /\ files' = IF IsVirtual(name) THEN files ELSE FilesWith(ResolvedAgain)
        /\ symbols' = IF target = ACU_NULL_IDX THEN symbols
                      ELSE Append(symbols, Symbol(current, ModuleText[at].alias, target))
        /\ UNCHANGED errors
    BY <1>6 DEF BindImport
  <2> HIDE DEF name, target
  <2>2. /\ symbols' \in Seq(Symbols)
        /\ \A i \in DOMAIN symbols' :
             symbols'[i].scope \in DOMAIN modules /\ symbols'[i].target \in DOMAIN modules \union {ACU_NULL_IDX}
    <3>1. CASE target = ACU_NULL_IDX
      BY <2>1, <3>1, Kept
    <3>2. CASE target # ACU_NULL_IDX
      <4>1. symbols' = Append(symbols, Symbol(current, ModuleText[at].alias, target))
        BY <2>1, <3>2
      <4>2. /\ symbols' \in Seq(Symbols) /\ DOMAIN symbols' = DOMAIN symbols \union {Len(symbols) + 1}
            /\ \A i \in DOMAIN symbols : symbols'[i] = symbols[i]
            /\ symbols'[Len(symbols) + 1] = Symbol(current, ModuleText[at].alias, target)
        BY <1>2, <1>4, <4>1, SymbolAdded
      <4> QED
        BY <1>2, <1>4, <4>2, Kept DEF Symbol
    <3> QED
      BY <3>1, <3>2
  <2>3. CASE IsVirtual(name)
    BY <1>1, <1>3, <2>1, <2>2, <2>3, Kept, TablesStay
  <2>4. CASE ~ IsVirtual(name)
    <3>1. ResolvedAgain \in Files /\ files' = FilesWith(ResolvedAgain)
      BY <1>2, <1>6, <2>1, <2>4, StatusIs
    <3>2. pc' # "scan" /\ pc' \in Phases /\ work_que' \in Seq(Items')
      <4>1. Items \subseteq Items'
        BY <3>1, Kept, FilesGrow DEF Items
      <4> QED
        BY <1>1, <4>1, Kept, SeqMonotonic
    <3> QED
      BY <1>1, <1>3, <2>1, <2>2, <3>1, <3>2, Kept, TypedLoad
  <2> QED
    BY <2>3, <2>4
<1> QED
  BY <1>5, <1>6

LEMMA TypedStep == Typed /\ [Next]_vars => Typed'
<1> SUFFICES ASSUME Typed, [Next]_vars PROVE Typed'
  OBVIOUS
<1> USE Kept
<1>1. CASE Open
  BY <1>1, TypedOpen
<1>2. CASE AlreadyParsed
  <2>1. main_module_id' \in DOMAIN modules \union {ACU_NULL_IDX}
    BY <1>2, ModuleTyped DEF Typed, AlreadyParsed, MainIs
  <2>2. work_que' \in Seq(Items)
    BY <1>2, RestIs DEF Typed, AlreadyParsed, Taking
  <2> QED
    BY <1>2, <2>1, <2>2, TablesStay DEF AlreadyParsed
<1>3. CASE NothingToLoad
  BY <1>3, TablesStay DEF NothingToLoad
<1>4. CASE ImportFails
  <2>1. errors' \in Seq(Kinds)
    BY <1>4, StatementScanned, StatusIs, ErrorAdded DEF ImportFails
  <2> QED
    BY <1>4, <2>1, TablesStay DEF ImportFails
<1>5. CASE QueueImport
  BY <1>5, TypedQueueImport
<1>6. CASE EndScan
  BY <1>6, TablesStay DEF EndScan, Phases
<1>7. CASE EndDiscovery
  BY <1>7, TablesStay DEF EndDiscovery, Phases
<1>8. ASSUME NEW moved \in BOOLEAN, Parse(moved) PROVE Typed'
  <2>1. TypeOK /\ work_que # <<>>
    BY <1>8 DEF Typed, Parse, SyntaxErrors, NewModule, TakeVirtual, ReadStaleName, Parsing, Taking
  <2>2. Item \in Items /\ RestAfter(moved) \in Seq(Items)
    BY <2>1, RestIs, RestAfterIs
  <2>3. CASE SyntaxErrors(moved)
    <3>1. errors' \in Seq(Kinds)
      BY <2>3, ErrorAdded DEF SyntaxErrors, Kinds
    <3> QED
      BY <2>2, <2>3, <3>1, TablesStay DEF SyntaxErrors
  <2>4. CASE NewModule(moved)
    BY <2>4, TypedNewModule
  <2>5. CASE TakeVirtual(moved)
    <3>1. VirtualModule(Item.name) \in DOMAIN modules
      BY <2>1, <2>5, VirtualTyped, Lengths DEF TakeVirtual, Typed
    <3>2. current' \in DOMAIN files /\ current' \in Nat
      BY <2>1, <2>2, <2>5, Lengths DEF TakeVirtual, Scan, Items
    <3>3. main_module_id' \in DOMAIN modules \union {ACU_NULL_IDX}
      BY <2>5, <3>1 DEF TakeVirtual, MainIs
    <3>4. /\ modules' = [modules EXCEPT ![VirtualModule(Item.name)].stage = "parsed"]
          /\ UNCHANGED <<program, files, file_to_module, symbols, errors>>
          /\ work_que' = RestAfter(moved) /\ pc' = "scan" /\ at' = 1
      BY <2>5 DEF TakeVirtual, Scan
    <3>5. pc' \in Phases /\ at' \in Nat \ {0} /\ pc' # "bind" /\ work_que' \in Seq(Items)
      BY <2>2, <3>4 DEF Phases
    <3> QED
      BY <3>1, <3>2, <3>3, <3>4, <3>5, TypedStage
  <2>6. CASE ReadStaleName(moved)
    BY <2>6, TablesStay DEF ReadStaleName, Phases
  <2> QED
    BY <1>8, <2>3, <2>4, <2>5, <2>6 DEF Parse
<1>9. CASE SkipModule
  <2>1. current' \in Nat /\ current' # 0 /\ pc = "bind"
    BY <1>9, ModuleVisited DEF SkipModule, Visiting
  <2> QED
    BY <1>9, <2>1, TablesStay DEF SkipModule
<1>10. CASE BindVirtual
  BY <1>10, TablesStay DEF BindVirtual, Phases
<1>11. CASE Redefined
  <2>1. errors' \in Seq(Kinds)
    BY <1>11, ErrorAdded DEF Redefined, Kinds
  <2> QED
    BY <1>11, <2>1, TablesStay DEF Redefined
<1>12. CASE BindDeclaration
  <2>1. /\ current \in DOMAIN modules /\ ModuleText[at].alias \in Idents
        /\ symbols' = Append(symbols, Symbol(current, ModuleText[at].alias, ACU_NULL_IDX))
    BY <1>12, StatementBound DEF BindDeclaration
  <2>2. /\ symbols' \in Seq(Symbols) /\ DOMAIN symbols' = DOMAIN symbols \union {Len(symbols) + 1}
        /\ \A i \in DOMAIN symbols : symbols'[i] = symbols[i]
        /\ symbols'[Len(symbols) + 1] = Symbol(current, ModuleText[at].alias, ACU_NULL_IDX)
    BY <2>1, SymbolAdded
  <2>3. \A i \in DOMAIN symbols' :
          symbols'[i].scope \in DOMAIN modules /\ symbols'[i].target \in DOMAIN modules \union {ACU_NULL_IDX}
    BY <2>1, <2>2 DEF Symbol
  <2> QED
    BY <1>12, <2>2, <2>3, TablesStay DEF BindDeclaration
<1>13. CASE BindImport
  BY <1>13, TypedBindImport
<1>14. CASE EndModule
  <2>1. current \in DOMAIN modules /\ current + 1 \in Nat \ {0}
    BY <1>14, ModuleVisited DEF EndModule
  <2>2. /\ modules' = [modules EXCEPT ![current].stage = "bound"]
        /\ UNCHANGED <<program, pc, files, file_to_module, work_que, main_module_id, symbols, errors>>
        /\ current' = current + 1 /\ at' = 1 /\ pc = "bind"
    BY <1>14 DEF EndModule, Visiting
  <2>3. current' \in Nat /\ current' # 0 /\ at' \in Nat \ {0} /\ pc' # "scan"
    BY <2>1, <2>2
  <2> QED
    BY <2>1, <2>2, <2>3, TypedStage
<1>15. CASE EndBinding
  BY <1>15, TablesStay DEF EndBinding, Phases
<1>16. CASE UNCHANGED vars
  BY <1>16, TablesStay DEF vars
<1> QED
  BY <1>1, <1>2, <1>3, <1>4, <1>5, <1>6, <1>7, <1>8, <1>9, <1>10, <1>11, <1>12, <1>13, <1>14, <1>15, <1>16
  DEF Next, Pass1, Pass2

(* The types hold in every run, for any files, imports and builtin names:  *)
(* file_to_module and the files of the modules stay inverse to each other, *)
(* so that no file is parsed or bound twice.                               *)
THEOREM DiscoveryType == Spec => []TypeOK
<1>1. Init => Typed
  BY TypedInit
<1>2. Typed /\ [Next]_vars => Typed'
  BY TypedStep
<1>3. Typed => TypeOK
  BY DEF Typed
<1> QED
  BY <1>1, <1>2, <1>3, PTL DEF Spec
-----------------------------------------------------------------------------
(* Reachable                                                               *)

LEMMA MainReachable ==
  ASSUME IsProgram(program)
  PROVE  MainFile \in Files \union {Missing} /\ MainFile \in Reachable
<1>1. MainFile \in Files \union {Missing}
  BY LeadTyped DEF IsProgram, MainFile
<1> QED
  BY <1>1 DEF Reachable, ClosedUnderImports

LEMMA ImportReachable ==
  ASSUME IsProgram(program), NEW f \in Reachable, Good(f), NEW s \in ImportsOf(f)
  PROVE  Lead(f, s.name) \in Files \union {Missing} /\ Lead(f, s.name) \in Reachable
<1>1. f \in Files
  BY DEF Good
<1>2. s.name \in Names
  BY <1>1, StatementTyped DEF ImportsOf, Statements
<1>3. Lead(f, s.name) \in Files \union {Missing}
  BY <1>1, <1>2, LeadTyped
<1>4. ASSUME NEW S \in SUBSET (Files \union {Missing}), ClosedUnderImports(S)
      PROVE  Lead(f, s.name) \in S
  <2>1. f \in S
    BY <1>4 DEF Reachable
  <2> QED
    BY <1>4, <2>1 DEF ClosedUnderImports, ImportedBy
<1> QED
  BY <1>3, <1>4 DEF Reachable

LEMMA ReachableLeast ==
  ASSUME NEW S \in SUBSET (Files \union {Missing}), ClosedUnderImports(S)
  PROVE  Reachable \subseteq S
BY DEF Reachable

LEMMA ReachableStays ==
  ASSUME UNCHANGED program
  PROVE  Reachable' = Reachable /\ Faulty' = Faulty /\ MainFile' = MainFile
BY DEF Reachable, ClosedUnderImports, ImportedBy, ImportsOf, Statements, Good, Lead, MainFile, Faulty, SameIdentTwice
-----------------------------------------------------------------------------
(* Found                                                                   *)

(* A step that loads no file and makes no module.                          *)
LEMMA FoundStays ==
  ASSUME Found, UNCHANGED <<program, files, file_to_module>>, pc' # "open",
         pc' \in {"discover", "scan", "bind", "done"} => pc \in {"discover", "scan", "bind", "done"},
         pc' = "scan" => files[current'] \notin program.broken,
         errors' # <<>> => Faulty, pc' = "failed" => errors' # <<>>
  PROVE  Found'
BY ReachableStays DEF Found, ModuleOfFile

LEMMA FoundLoad ==
  ASSUME Typed, Found, NEW path \in Files, files' = FilesWith(path), UNCHANGED <<program, file_to_module>>,
         path \in Reachable, path \in Loaded \/ path \notin program.unreadable,
         files # <<>> \/ path = MainFile,
         pc' \notin {"open", "failed"}, pc' = "scan" => pc = "scan" /\ current' = current,
         errors' # <<>> => Faulty
  PROVE  Found'
<1>1. /\ \A i \in DOMAIN files : i \in DOMAIN files' /\ files'[i] = files[i]
      /\ FileId(path) \in DOMAIN files' /\ files'[FileId(path)] = path
      /\ \A i \in DOMAIN files' : i \in DOMAIN files \/ i = FileId(path)
      /\ DOMAIN files = 1 .. Len(files) /\ Len(files) \in Nat /\ files' \in Seq(Files)
      /\ files \in Seq(Files)
  <2>1. files \in Seq(Files) /\ \A i, j \in DOMAIN files : files[i] = files[j] => i = j
    BY Kept
  <2>2. DOMAIN files = 1 .. Len(files) /\ Len(files) \in Nat
    BY <2>1, LenProperties
  <2>3. /\ files' \in Seq(Files) /\ DOMAIN files \subseteq DOMAIN files'
        /\ \A i \in DOMAIN files : files'[i] = files[i]
        /\ FileId(path) \in DOMAIN files' /\ files'[FileId(path)] = path
        /\ \A i \in DOMAIN files' : i \in DOMAIN files \/ i = FileId(path)
    BY <2>1, FilesGrow
  <2> QED
    BY <2>1, <2>2, <2>3
<1>2. files' # <<>> /\ files'[1] = MainFile
  <2>1. CASE files # <<>>
    <3>1. 1 \in DOMAIN files
      BY <1>1, <2>1, EmptySeq
    <3> QED
      BY <1>1, <2>1, <3>1 DEF Found
  <2>2. CASE files = <<>>
    <3>1. path \notin Loaded
      BY <2>2 DEF Loaded
    <3>2. files' = <<path>>
      BY <2>2, <3>1 DEF FilesWith
    <3> QED
      BY <2>2, <3>2
  <2> QED
    BY <2>1, <2>2
<1>3. path \notin program.unreadable
  <2>1. path \in Loaded => path \notin program.unreadable
    BY DEF Found, Loaded
  <2> QED
    BY <2>1
<1>4. \A i \in DOMAIN files' : files'[i] \in Reachable \ program.unreadable
  BY <1>1, <1>3 DEF Found
<1>5. \A i \in DOMAIN files' : ModuleOfFile(i)' # ACU_NULL_IDX => files'[i] \notin program.broken
  <2> SUFFICES ASSUME NEW i \in DOMAIN files', ModuleOfFile(i) # ACU_NULL_IDX
               PROVE  files'[i] \notin program.broken
    BY DEF ModuleOfFile
  <2>1. i \in DOMAIN files
    <3>1. i \in DOMAIN file_to_module
      BY DEF ModuleOfFile
    <3> QED
      BY <1>1, <3>1, Lengths DEF Typed
  <2> QED
    BY <1>1, <2>1 DEF Found
<1>6. pc' = "scan" => files'[current'] \notin program.broken
  BY <1>1, Kept DEF Found
<1> QED
  BY <1>2, <1>4, <1>5, <1>6, ReachableStays DEF Found

(* A file whose statements are looked at is a good one.                    *)
LEMMA ScannedIsGood ==
  ASSUME Typed, Found, Scanning
  PROVE  files[current] \in Reachable /\ Good(files[current])
BY StatementScanned DEF Found, Good, Scanning

LEMMA BoundIsGood ==
  ASSUME Typed, Found, NEW m, IsSource(m)
  PROVE  /\ modules[m].file \in DOMAIN files /\ ModuleOfFile(modules[m].file) = m
         /\ files[modules[m].file] \in Reachable /\ Good(files[modules[m].file])
<1>1. modules[m].file \in DOMAIN files
  BY ModuleTyped DEF Typed, IsSource, ModuleRecords
<1>2. ModuleOfFile(modules[m].file) = m /\ m # ACU_NULL_IDX
  BY <1>1, Lengths DEF Typed, TypeOK, IsSource
<1>3. files[modules[m].file] \in Files
  BY <1>1, Kept, LenProperties, ElementOfSeq
<1> QED
  BY <1>1, <1>2, <1>3 DEF Found, Good

LEMMA BadIsFaulty ==
  ASSUME NEW f \in Reachable, ~ Good(f) \/ SameIdentTwice(f)
  PROVE  Faulty
BY DEF Faulty

(* The import of a good file.                                              *)
LEMMA ImportFound ==
  ASSUME Typed, NEW f \in Reachable, Good(f), NEW k \in DOMAIN program.text[f],
         program.text[f][k].kind = "import", ~ IsVirtual(program.text[f][k].name),
         NEW path, path = Lead(f, program.text[f][k].name)
  PROVE  /\ path \in Files \union {Missing} /\ path \in Reachable
         /\ Status(path) # "OK" => Faulty
<1>1. program.text[f][k] \in ImportsOf(f)
  BY DEF ImportsOf, Statements
<1>2. path \in Files \union {Missing} /\ path \in Reachable
  BY <1>1, Kept, ImportReachable
<1>3. Status(path) # "OK" => ~ Good(path)
  BY <1>2, StatusIs, NullAssumption DEF Good
<1> QED
  BY <1>2, <1>3, BadIsFaulty

LEMMA FoundOpen ==
  ASSUME Typed, Found, Open
  PROVE  Found'
<1> DEFINE path == Lead(ACU_NULL_IDX, program.main)
<1>1. path = MainFile /\ path \in Files \union {Missing} /\ path \in Reachable
  BY Kept, MainReachable DEF MainFile
<1>2. /\ files = <<>> /\ errors = <<>> /\ Loaded = {}
      /\ UNCHANGED <<program, file_to_module>>
  BY DEF Open, Found, Loaded
<1>3. CASE Status(path) # "OK"
  <2>1. errors' = Append(errors, Status(path)) /\ UNCHANGED files /\ pc' = "failed"
    BY <1>3 DEF Open
  <2>2. Faulty
    BY <1>1, <1>3, StatusIs, BadIsFaulty, NullAssumption DEF Good
  <2>3. errors' # <<>>
    BY <1>1, <1>3, <2>1, StatusIs, ErrorAdded
  <2> QED
    BY <1>2, <2>1, <2>2, <2>3, FoundStays
<1>4. CASE Status(path) = "OK"
  <2>1. files' = FilesWith(path) /\ UNCHANGED errors /\ pc' = "discover"
    BY <1>4 DEF Open
  <2>2. path \in Files /\ path \notin program.unreadable
    BY <1>1, <1>2, <1>4, StatusIs
  <2> HIDE DEF path
  <2> QED
    BY <1>1, <1>2, <2>1, <2>2, FoundLoad
<1> QED
  BY <1>3, <1>4

LEMMA FoundRedefined ==
  ASSUME Typed, Found, Declared, Redefined
  PROVE  Found'
<1>1. /\ Binding /\ pc = "bind" /\ errors' = Append(errors, "REDEFINITION")
      /\ UNCHANGED <<program, pc, files, file_to_module, modules>>
  BY DEF Redefined, Binding, Visiting
<1>2. IsSource(current) /\ at \in DOMAIN TextOf(current) /\ at \in Nat \ {0} /\ current \in Nat
  BY <1>1, StatementBound, Kept DEF Binding, IsSource, TextOf, ModuleText
<1>3. PICK i \in DOMAIN symbols : symbols[i].scope = current /\ symbols[i].name = TextOf(current)[at].alias
  BY DEF Redefined, IsDeclared, ModuleText, TextOf
<1>4. PICK k \in DOMAIN TextOf(current) : Passed(current, k) /\ TextOf(current)[k].alias = symbols[i].name
  BY <1>1, <1>2, <1>3 DEF Declared, OnlyPassed
<1>5. k # at
  BY <1>2, <1>4 DEF Passed
<1>6. SameIdentTwice(files[modules[current].file])
  BY <1>2, <1>3, <1>4, <1>5 DEF SameIdentTwice, TextOf
<1>7. Faulty
  BY <1>2, <1>6, BoundIsGood, BadIsFaulty
<1> QED
  BY <1>1, <1>7, FoundStays

LEMMA FoundBindImport ==
  ASSUME Typed, Found, BindImport
  PROVE  Found'
<1> DEFINE name == ModuleText[at].name
<1> DEFINE f == files[modules[current].file]
<1>1. /\ Binding /\ ModuleText[at].kind = "import" /\ pc = "bind"
      /\ UNCHANGED <<program, pc, file_to_module, current>>
  BY DEF BindImport, Binding, Visiting
<1>2. IsSource(current) /\ at \in DOMAIN program.text[f] /\ ModuleText = program.text[f]
  BY <1>1, StatementBound DEF Binding, IsSource, ModuleText
<1>3. f \in Reachable /\ Good(f) /\ ResolvedAgain = Lead(f, program.text[f][at].name)
  BY <1>2, BoundIsGood DEF ResolvedAgain
<1> HIDE DEF f
<1>4. ~ IsVirtual(name) =>
        /\ ResolvedAgain \in Files \union {Missing} /\ ResolvedAgain \in Reachable
        /\ Status(ResolvedAgain) # "OK" => Faulty
  BY <1>1, <1>2, <1>3, ImportFound
<1>5. files # <<>>
  BY <1>1 DEF Found
<1>6. CASE ~ IsVirtual(name) /\ Status(ResolvedAgain) # "OK"
  <2>1. UNCHANGED files
    BY <1>6 DEF BindImport
  <2> QED
    BY <1>1, <1>4, <1>6, <2>1, FoundStays
<1>7. CASE IsVirtual(name) \/ Status(ResolvedAgain) = "OK"
  <2>1. /\ files' = IF IsVirtual(name) THEN files ELSE FilesWith(ResolvedAgain)
        /\ UNCHANGED errors
    BY <1>7 DEF BindImport
  <2>2. CASE IsVirtual(name)
    BY <1>1, <2>1, <2>2, FoundStays DEF Found
  <2>3. CASE ~ IsVirtual(name)
    <3>1. ResolvedAgain \in Files /\ (ResolvedAgain \in Loaded \/ ResolvedAgain \notin program.unreadable)
      BY <1>4, <1>7, <2>3, StatusIs
    <3>2. errors' # <<>> => Faulty
      BY <2>1 DEF Found
    <3>3. files' = FilesWith(ResolvedAgain) /\ ResolvedAgain \in Reachable
      BY <1>4, <2>1, <2>3
    <3> QED
      BY <1>1, <1>5, <3>1, <3>2, <3>3, FoundLoad
  <2> QED
    BY <2>2, <2>3
<1> QED
  BY <1>6, <1>7

LEMMA FoundStep == Typed /\ Found /\ MainFound /\ Declared /\ [Next]_vars => Found'
<1> SUFFICES ASSUME Typed, Found, MainFound, Declared, [Next]_vars PROVE Found'
  OBVIOUS
<1>0. errors # <<>> => Faulty
  BY DEF Found
<1>1. CASE Open
  BY <1>1, FoundOpen
<1>2. CASE AlreadyParsed
  BY <1>0, <1>2, FoundStays DEF AlreadyParsed, Taking
<1>3. CASE NothingToLoad
  BY <1>0, <1>3, FoundStays DEF NothingToLoad, Scanning, Found
<1>4. ASSUME ImportFails \/ QueueImport PROVE Found'
  <2>1. /\ Scanning /\ pc = "scan" /\ NeedsFile
        /\ UNCHANGED <<program, pc, file_to_module, current>>
    BY <1>4 DEF ImportFails, QueueImport, Scanning
  <2>2. /\ files[current] \in Reachable /\ Good(files[current])
        /\ at \in DOMAIN program.text[files[current]]
        /\ Statement = program.text[files[current]][at]
    BY <2>1, ScannedIsGood, StatementScanned
  <2>3. Path = Lead(files[current], program.text[files[current]][at].name)
    BY <2>2 DEF Path
  <2>4. Path \in Files \union {Missing} /\ Path \in Reachable /\ (Status(Path) # "OK" => Faulty)
    BY <2>1, <2>2, <2>3, ImportFound DEF NeedsFile
  <2>5. files # <<>> /\ files[current] \notin program.broken
    BY <2>1 DEF Found
  <2>6. CASE ImportFails
    BY <2>1, <2>4, <2>5, <2>6, FoundStays DEF ImportFails
  <2>7. CASE QueueImport
    <3>1. /\ files' = FilesWith(Path) /\ UNCHANGED errors
          /\ Path \in Files /\ (Path \in Loaded \/ Path \notin program.unreadable)
      BY <2>4, <2>7, StatusIs DEF QueueImport
    <3> QED
      BY <1>0, <2>1, <2>4, <2>5, <3>1, FoundLoad
  <2> QED
    BY <1>4, <2>6, <2>7
<1>5. CASE EndScan
  BY <1>0, <1>5, FoundStays DEF EndScan
<1>6. CASE EndDiscovery
  <2>1. pc' = "failed" => errors # <<>>
    <3>1. ~ \E i \in DOMAIN work_que : work_que[i].file = 1
      BY <1>6 DEF EndDiscovery
    <3> QED
      BY <1>6, <3>1 DEF EndDiscovery, MainFound
  <2>2. /\ UNCHANGED <<program, files, file_to_module, errors>> /\ pc = "discover"
        /\ pc' \in {"bind", "failed"}
    BY <1>6 DEF EndDiscovery
  <2> QED
    BY <1>0, <2>1, <2>2, FoundStays
<1>7. ASSUME NEW moved \in BOOLEAN, Parse(moved) PROVE Found'
  <2>1. Taking /\ pc = "discover" /\ TypeOK /\ work_que # <<>>
    BY <1>7 DEF Typed, Parse, SyntaxErrors, NewModule, TakeVirtual, ReadStaleName, Parsing, Taking
  <2>2. Item.file \in DOMAIN files
    BY <2>1, RestIs DEF Items
  <2>3. CASE SyntaxErrors(moved)
    <3>1. Faulty
      <4>1. files[Item.file] \in Reachable /\ ~ Good(files[Item.file])
        BY <2>2, <2>3 DEF SyntaxErrors, Broken, Found, Good
      <4> QED
        BY <4>1, BadIsFaulty
    <3> QED
      BY <2>1, <2>3, <3>1, FoundStays DEF SyntaxErrors
  <2>4. CASE NewModule(moved)
    <3>1. /\ UNCHANGED <<program, files, errors>> /\ pc' = "scan" /\ current' = Item.file
          /\ files[Item.file] \notin program.broken
      BY <2>4 DEF NewModule, Scan, Broken
    <3>2. \A g : ModuleOfFile(g)' = IF g = Item.file THEN Len(modules) + 1 ELSE ModuleOfFile(g)
      BY <2>4, NewModuleIs
    <3> QED
      BY <2>1, <2>2, <3>1, <3>2, ReachableStays DEF Found
  <2>5. CASE TakeVirtual(moved)
    BY <1>0, <2>1, <2>5, FoundStays DEF TakeVirtual, Scan, Broken
  <2>6. CASE ReadStaleName(moved)
    BY <1>0, <2>1, <2>6, FoundStays DEF ReadStaleName
  <2> QED
    BY <1>7, <2>3, <2>4, <2>5, <2>6 DEF Parse
<1>8. CASE SkipModule
  BY <1>0, <1>8, FoundStays DEF SkipModule, Visiting
<1>9. CASE BindVirtual
  BY <1>0, <1>9, FoundStays DEF BindVirtual, Visiting
<1>10. CASE Redefined
  BY <1>10, FoundRedefined
<1>11. CASE BindDeclaration
  BY <1>0, <1>11, FoundStays DEF BindDeclaration, Binding, Visiting
<1>12. CASE BindImport
  BY <1>12, FoundBindImport
<1>13. CASE EndModule
  BY <1>0, <1>13, FoundStays DEF EndModule, Visiting
<1>14. CASE EndBinding
  BY <1>0, <1>14, FoundStays DEF EndBinding
<1>15. CASE UNCHANGED vars
  BY <1>15, ReachableStays DEF vars, Found, ModuleOfFile
<1> QED
  BY <1>1, <1>2, <1>3, <1>4, <1>5, <1>6, <1>7, <1>8, <1>9, <1>10, <1>11, <1>12, <1>13, <1>14, <1>15
  DEF Next, Pass1, Pass2
-----------------------------------------------------------------------------
(* MainFound                                                               *)

(* The builtin module that a main file may have the name of.               *)
LEMMA MainModuleVirtual ==
  ASSUME Typed, VirtualMain
  PROVE  /\ VirtualModule(program.main) \in DOMAIN modules
         /\ VirtualModule(program.main) \in 1 .. Len(modules) /\ Len(modules) \in Nat
         /\ modules[VirtualModule(program.main)].file = ACU_NULL_IDX
BY VirtualTyped, Lengths DEF Typed, VirtualMain

LEMMA MainFoundInit == Init => MainFound
BY DEF Init, MainFound

LEMMA MainFoundOpen ==
  ASSUME Typed, Found, MainFound, Open
  PROVE  MainFound'
<1> DEFINE path == Lead(ACU_NULL_IDX, program.main)
<1>1. /\ UNCHANGED <<program, file_to_module, modules, main_module_id>> /\ main_module_id = ACU_NULL_IDX
      /\ work_que = <<>> /\ files = <<>> /\ file_to_module = <<>>
  BY DEF Open, Found, MainFound
<1>2. CASE Status(path) # "OK"
  <2>1. UNCHANGED work_que /\ pc' = "failed"
    BY <1>2 DEF Open
  <2> QED
    BY <1>1, <2>1 DEF MainFound, VirtualMain
<1>3. CASE Status(path) = "OK"
  <2>1. pc' = "discover" /\ work_que' = <<WorkItem(FileId(path), program.main, FALSE)>>
    BY <1>3 DEF Open
  <2>2. FileId(path) = 1
    BY <1>1 DEF FileId, Loaded
  <2>3. work_que' = <<WorkItem(1, program.main, FALSE)>>
    BY <2>1, <2>2
  <2>4. /\ DOMAIN work_que' = {1} /\ work_que'[1].file = 1 /\ work_que'[1].name = program.main
    BY <2>3 DEF WorkItem
  <2> QED
    BY <1>1, <2>1, <2>3, <2>4 DEF MainFound, VirtualMain
<1> QED
  BY <1>2, <1>3

(* The item that is taken is the only one for the main file, or another    *)
(* one is left.                                                            *)
LEMMA OthersStay ==
  ASSUME TypeOK, work_que # <<>>
  PROVE  /\ Len(work_que) \in DOMAIN work_que
         /\ \A k \in DOMAIN work_que : work_que[k].file = Item.file \/ k \in DOMAIN Rest
         /\ \A k \in DOMAIN Rest : k \in DOMAIN work_que /\ Rest[k] = work_que[k]
         /\ \A moved \in BOOLEAN : /\ DOMAIN RestAfter(moved) = DOMAIN Rest
                                   /\ \A k \in DOMAIN Rest :
                                        /\ RestAfter(moved)[k].file = work_que[k].file
                                        /\ RestAfter(moved)[k].name = work_que[k].name
<1>1. Len(work_que) \in Nat /\ DOMAIN work_que = 1 .. Len(work_que) /\ Len(work_que) # 0
  BY Lengths, EmptySeq DEF TypeOK
<1>2. DOMAIN Rest = 1 .. Len(work_que) - 1 /\ \A k \in DOMAIN Rest : Rest[k] = work_que[k]
  BY RestIs
<1>3. \A k \in DOMAIN work_que : k = Len(work_que) \/ k \in DOMAIN Rest
  BY <1>1, <1>2
<1>4. \A moved \in BOOLEAN :
        /\ DOMAIN RestAfter(moved) = DOMAIN Rest
        /\ \A k \in DOMAIN Rest : /\ RestAfter(moved)[k].file = work_que[k].file
                                  /\ RestAfter(moved)[k].name = work_que[k].name
  BY <1>2, RestAfterIs
<1>5. Len(work_que) \in DOMAIN work_que /\ \A k \in DOMAIN Rest : k \in DOMAIN work_que
  BY <1>1, <1>2
<1> QED
  BY <1>2, <1>3, <1>4, <1>5 DEF Item

LEMMA MainFoundAlreadyParsed ==
  ASSUME Typed, MainFound, AlreadyParsed
  PROVE  MainFound'
<1>1. /\ TypeOK /\ work_que # <<>> /\ pc = "discover" /\ work_que' = Rest
      /\ ModuleOfFile(Item.file) # ACU_NULL_IDX
      /\ main_module_id' = IF Item.file = 1 THEN ModuleOfFile(Item.file) ELSE main_module_id
      /\ UNCHANGED <<program, pc, file_to_module, modules, errors>>
  BY DEF Typed, AlreadyParsed, Taking, MainIs
<1>2. /\ \A k \in DOMAIN work_que : work_que[k].file = Item.file \/ k \in DOMAIN Rest
      /\ \A k \in DOMAIN Rest : k \in DOMAIN work_que /\ Rest[k] = work_que[k]
  BY <1>1, OthersStay
<1>3. main_module_id' # ACU_NULL_IDX => VirtualMain \/ modules[main_module_id'].file = 1
  <2>1. CASE Item.file = 1
    <3>1. 1 \in DOMAIN files
      BY <1>1, <2>1, RestIs DEF Items
    <3>2. ModuleOfFile(1) \in DOMAIN modules
      BY <1>1, <2>1, ModuleTyped
    <3> QED
      BY <1>1, <2>1, <3>1, <3>2 DEF TypeOK
  <2>2. CASE Item.file # 1
    BY <1>1, <2>2 DEF MainFound
  <2> QED
    BY <2>1, <2>2
<1>4. \/ main_module_id' # ACU_NULL_IDX \/ errors # <<>>
      \/ \E k \in DOMAIN Rest : Rest[k].file = 1
  BY <1>1, <1>2 DEF MainFound
<1>5. file_to_module # <<>>
  BY <1>1 DEF ModuleOfFile
<1> QED
  BY <1>1, <1>2, <1>3, <1>4, <1>5 DEF MainFound, VirtualMain, MainStage

LEMMA MainFoundParse ==
  ASSUME Typed, MainFound, NEW moved \in BOOLEAN, Parse(moved)
  PROVE  MainFound'
<1>1. /\ TypeOK /\ work_que # <<>> /\ pc = "discover" /\ UNCHANGED program
      /\ ModuleOfFile(Item.file) = ACU_NULL_IDX
  BY DEF Typed, Parse, SyntaxErrors, NewModule, TakeVirtual, ReadStaleName, Parsing, Taking
<1>2. /\ \A k \in DOMAIN work_que : work_que[k].file = Item.file \/ k \in DOMAIN Rest
      /\ Len(work_que) \in DOMAIN work_que /\ Item = work_que[Len(work_que)]
      /\ DOMAIN RestAfter(moved) = DOMAIN Rest
      /\ \A k \in DOMAIN Rest : /\ k \in DOMAIN work_que
                                /\ RestAfter(moved)[k].file = work_que[k].file
                                /\ RestAfter(moved)[k].name = work_que[k].name
  BY <1>1, OthersStay DEF Item
<1>3. \A k \in DOMAIN RestAfter(moved) : IsVirtual(RestAfter(moved)[k].name) => VirtualMain
  BY <1>2 DEF MainFound
<1>4. /\ main_module_id # ACU_NULL_IDX => VirtualMain \/ modules[main_module_id].file = 1
      /\ \/ main_module_id # ACU_NULL_IDX \/ errors # <<>>
         \/ Item.file = 1 \/ \E k \in DOMAIN RestAfter(moved) : RestAfter(moved)[k].file = 1
  BY <1>1, <1>2 DEF MainFound
<1>5. VirtualMain => errors # <<>> \/ MainStage = "parsed" \/ Item.name = program.main
  BY <1>1, <1>2 DEF MainFound, WorkItem
<1>6. CASE SyntaxErrors(moved)
  <2>1. /\ errors' = Append(errors, "SYNTAX") /\ work_que' = RestAfter(moved)
        /\ UNCHANGED <<pc, main_module_id, modules>>
    BY <1>6 DEF SyntaxErrors
  <2>2. errors' # <<>>
    BY <2>1, ErrorAdded DEF Kinds
  <2> QED
    BY <1>1, <1>3, <1>4, <2>1, <2>2 DEF MainFound, VirtualMain
<1>7. CASE NewModule(moved)
  <2>1. /\ work_que' = RestAfter(moved) /\ pc' = "scan" /\ UNCHANGED errors /\ ~ IsVirtual(Item.name)
        /\ main_module_id' = IF Item.file = 1 THEN Len(modules) + 1 ELSE main_module_id
    BY <1>7 DEF NewModule, MainIs, Scan
  <2>2. /\ Len(modules) + 1 # ACU_NULL_IDX
        /\ \A m \in DOMAIN modules : modules'[m] = modules[m]
        /\ modules'[Len(modules) + 1].file = Item.file
    BY <1>7, NewModuleIs
  <2>3. main_module_id' # ACU_NULL_IDX => VirtualMain \/ modules'[main_module_id'].file = 1
    BY <1>4, <2>1, <2>2, Kept
  <2>4. VirtualMain => errors # <<>> \/ MainStage' = "parsed"
    <3> SUFFICES ASSUME VirtualMain, errors = <<>> PROVE MainStage' = "parsed"
      OBVIOUS
    <3>1. MainStage = "parsed"
      BY <1>5, <2>1 DEF VirtualMain
    <3>2. VirtualModule(program.main) \in DOMAIN modules
      BY MainModuleVirtual
    <3> QED
      BY <1>1, <2>2, <3>1, <3>2 DEF MainStage
  <2> QED
    BY <1>1, <1>3, <1>4, <2>1, <2>2, <2>3, <2>4 DEF MainFound, VirtualMain
<1>8. CASE TakeVirtual(moved)
  <2> DEFINE v == VirtualModule(Item.name)
  <2>1. /\ work_que' = RestAfter(moved) /\ pc' = "scan" /\ UNCHANGED errors /\ IsVirtual(Item.name)
        /\ main_module_id' = IF Item.file = 1 THEN v ELSE main_module_id
        /\ modules' = [modules EXCEPT ![v].stage = "parsed"] /\ UNCHANGED file_to_module
    BY <1>8 DEF TakeVirtual, MainIs, Scan
  <2>2. VirtualMain
    BY <1>2, <2>1 DEF MainFound
  <2>3. v \in DOMAIN modules /\ v # ACU_NULL_IDX
    BY <2>1, VirtualTyped, Lengths DEF Typed
  <2> HIDE DEF v
  <2>4. \A n \in DOMAIN modules : modules'[n].stage = IF n = v THEN "parsed" ELSE modules[n].stage
    BY <2>1, <2>3, StageChanges
  <2>5. errors # <<>> \/ MainStage' = "parsed"
    <3>1. VirtualModule(program.main) \in DOMAIN modules
      BY <2>2, MainModuleVirtual
    <3> QED
      BY <1>1, <1>5, <2>2, <2>4, <3>1 DEF MainStage, v
  <2> QED
    BY <1>1, <1>3, <1>4, <2>1, <2>2, <2>3, <2>5 DEF MainFound, VirtualMain
<1>9. CASE ReadStaleName(moved)
  BY <1>1, <1>9 DEF ReadStaleName, MainFound, VirtualMain
<1> QED
  BY <1>6, <1>7, <1>8, <1>9 DEF Parse

LEMMA MainFoundEndModule ==
  ASSUME Typed, MainFound, EndModule
  PROVE  MainFound'
<1>1. /\ pc = "bind" /\ UNCHANGED <<program, pc, main_module_id, work_que, file_to_module>> /\ current' = current + 1
      /\ modules' = [modules EXCEPT ![current].stage = "bound"] /\ modules[current].file # ACU_NULL_IDX
      /\ current \in DOMAIN modules /\ current \in Nat
  BY ModuleVisited, Kept DEF EndModule, Visiting
<1>2. \A n \in DOMAIN modules : /\ modules'[n].file = modules[n].file
                                /\ modules'[n].stage = IF n = current THEN "bound" ELSE modules[n].stage
  BY <1>1, StageChanges
<1>3. main_module_id # ACU_NULL_IDX => VirtualMain \/ modules'[main_module_id].file = 1
  BY <1>2, Kept DEF MainFound
<1>4. VirtualMain => MainStage' = "parsed" /\ current + 1 <= VirtualModule(program.main)
  <2> SUFFICES ASSUME VirtualMain
               PROVE  MainStage' = "parsed" /\ current + 1 <= VirtualModule(program.main)
    OBVIOUS
  <2>1. /\ VirtualModule(program.main) \in DOMAIN modules /\ VirtualModule(program.main) \in Nat
        /\ modules[VirtualModule(program.main)].file = ACU_NULL_IDX
    BY MainModuleVirtual
  <2>2. MainStage = "parsed" /\ current <= VirtualModule(program.main)
    BY <1>1 DEF MainFound
  <2>3. current # VirtualModule(program.main)
    BY <1>1, <2>1
  <2>4. current + 1 <= VirtualModule(program.main)
    BY <1>1, <2>1, <2>2, <2>3
  <2> QED
    BY <1>1, <1>2, <2>1, <2>2, <2>3, <2>4 DEF MainStage
<1> QED
  BY <1>1, <1>3, <1>4 DEF MainFound, VirtualMain

LEMMA MainFoundStep == Typed /\ Found /\ MainFound /\ [Next]_vars => MainFound'
<1> SUFFICES ASSUME Typed, Found, MainFound, [Next]_vars PROVE MainFound'
  OBVIOUS
<1>1. CASE Open
  BY <1>1, MainFoundOpen
<1>2. CASE AlreadyParsed
  BY <1>2, MainFoundAlreadyParsed
<1>3. CASE NothingToLoad
  BY <1>3 DEF NothingToLoad, Scanning, MainFound, VirtualMain, MainStage
<1>4. CASE ImportFails
  <2>1. errors' # <<>>
    BY <1>4, StatementScanned, StatusIs, ErrorAdded DEF ImportFails
  <2> QED
    BY <1>4, <2>1 DEF ImportFails, Scanning, MainFound, VirtualMain, MainStage
<1>5. CASE QueueImport
  <2>1. /\ Scanning /\ pc = "scan" /\ ~ IsVirtual(Statement.name)
        /\ work_que' = Append(work_que, WorkItem(FileId(Path), Statement.name, TRUE))
        /\ UNCHANGED <<program, pc, file_to_module, modules, main_module_id, errors>>
    BY <1>5 DEF QueueImport, NeedsFile, Scanning
  <2>2. /\ DOMAIN work_que \subseteq DOMAIN work_que'
        /\ \A i \in DOMAIN work_que : work_que'[i] = work_que[i]
        /\ \A i \in DOMAIN work_que' : i \in DOMAIN work_que \/ work_que'[i].name = Statement.name
    <3>1. Len(work_que) \in Nat /\ DOMAIN work_que = 1 .. Len(work_que)
      BY Lengths DEF Typed
    <3> QED
      BY <2>1, <3>1, Kept DEF WorkItem
  <2> QED
    BY <2>1, <2>2 DEF MainFound, VirtualMain, MainStage
<1>6. CASE EndScan
  BY <1>6 DEF EndScan, MainFound, VirtualMain, MainStage
<1>7. CASE EndDiscovery
  <2>1. /\ pc = "discover" /\ work_que = <<>> /\ current' = 1
        /\ pc' = IF errors = <<>> /\ main_module_id # ACU_NULL_IDX THEN "bind" ELSE "failed"
        /\ UNCHANGED <<program, file_to_module, modules, work_que, main_module_id, errors>>
    BY <1>7 DEF EndDiscovery
  <2>2. work_que # <<WorkItem(1, program.main, FALSE)>>
    BY <2>1
  <2>3. VirtualMain /\ errors = <<>> => MainStage = "parsed" /\ 1 <= VirtualModule(program.main)
    BY <2>1, <2>2, MainModuleVirtual DEF MainFound
  <2> QED
    BY <2>1, <2>3 DEF MainFound, VirtualMain, MainStage
<1>8. ASSUME NEW moved \in BOOLEAN, Parse(moved) PROVE MainFound'
  BY <1>8, MainFoundParse
<1>9. CASE SkipModule
  <2>1. /\ pc = "bind" /\ modules[current].stage = "unprocessed" /\ current' = current + 1 /\ current \in Nat
        /\ UNCHANGED <<program, pc, file_to_module, modules, work_que, main_module_id, errors>>
    BY <1>9, Kept DEF SkipModule, Visiting
  <2>2. VirtualMain => current + 1 <= VirtualModule(program.main)
    <3> SUFFICES ASSUME VirtualMain PROVE current + 1 <= VirtualModule(program.main)
      OBVIOUS
    <3>1. current # VirtualModule(program.main) /\ current <= VirtualModule(program.main)
      BY <2>1 DEF MainFound, MainStage
    <3>2. VirtualModule(program.main) \in Nat
      BY MainModuleVirtual
    <3> QED
      BY <2>1, <3>1, <3>2
  <2> QED
    BY <2>1, <2>2 DEF MainFound, VirtualMain, MainStage
<1>10. CASE BindVirtual
  BY <1>10 DEF BindVirtual, Visiting, MainFound, VirtualMain
<1>11. ASSUME Redefined \/ BindDeclaration \/ BindImport PROVE MainFound'
  <2>1. /\ pc = "bind"
        /\ UNCHANGED <<program, pc, file_to_module, modules, work_que, current, main_module_id>>
    BY <1>11 DEF Redefined, BindDeclaration, BindImport, Binding, Visiting
  <2> QED
    BY <2>1 DEF MainFound, VirtualMain, MainStage
<1>12. CASE EndModule
  BY <1>12, MainFoundEndModule
<1>13. CASE EndBinding
  <2>1. /\ pc = "bind" /\ current > Len(modules) /\ pc' \in {"done", "failed"}
        /\ UNCHANGED <<program, file_to_module, modules, work_que, main_module_id>>
    BY <1>13 DEF EndBinding
  <2>2. ~ VirtualMain
    <3> SUFFICES ASSUME VirtualMain PROVE FALSE
      OBVIOUS
    <3>1. current <= VirtualModule(program.main)
      BY <2>1 DEF MainFound
    <3>2. VirtualModule(program.main) \in 1 .. Len(modules) /\ Len(modules) \in Nat /\ current \in Nat
      BY MainModuleVirtual, Kept
    <3> QED
      BY <2>1, <3>1, <3>2
  <2> QED
    BY <2>1, <2>2 DEF MainFound, VirtualMain
<1>14. CASE UNCHANGED vars
  BY <1>14 DEF vars, MainFound, VirtualMain, MainStage
<1> QED
  BY <1>1, <1>2, <1>3, <1>4, <1>5, <1>6, <1>7, <1>8, <1>9, <1>10, <1>11, <1>12, <1>13, <1>14
  DEF Next, Pass1, Pass2
-----------------------------------------------------------------------------
(* Complete                                                                *)

LEMMA CompleteInit == Init => Complete
BY DEF Init, Complete

LEMMA LoadedTyped ==
  ASSUME Typed
  PROVE  \A i \in DOMAIN files : files[i] \in Files
BY Kept, LenProperties, ElementOfSeq

(* Nothing but the statement at hand is left behind by the scan.           *)
LEMMA ScannedNext ==
  ASSUME Typed, Scanning, pc' = "scan", current' = current, at' = at + 1, UNCHANGED program,
         NEW i \in DOMAIN files, files'[i] = files[i], NEW k \in Scanned(i)'
  PROVE  k \in Scanned(i) \/ (i = current /\ k = at /\ NeedsFile)
<1>1. k \in DOMAIN program.text[files[i]] /\ files[i] \in Files
  BY LoadedTyped DEF Scanned
<1>2. k \in Nat /\ at \in Nat
  BY <1>1, StatementTyped, Kept
<1>3. /\ program.text[files[i]][k].kind = "import" /\ ~ IsVirtual(program.text[files[i]][k].name)
      /\ i = current => k < at + 1
  BY DEF Scanned
<1>4. CASE i = current /\ k = at
  BY <1>3, <1>4 DEF NeedsFile, Statement, Text
<1>5. CASE i # current \/ k # at
  <2>1. (pc = "scan" /\ current = i) => k < at
    BY <1>2, <1>3, <1>5
  <2> QED
    BY <1>1, <1>3, <2>1 DEF Scanned
<1> QED
  BY <1>4, <1>5

LEMMA CompleteQueueImport ==
  ASSUME Typed, CompleteInDiscovery, QueueImport
  PROVE  CompleteInDiscovery'
<1>1. /\ Scanning /\ Status(Path) = "OK" /\ NeedsFile /\ files' = FilesWith(Path)
      /\ work_que' = Append(work_que, WorkItem(FileId(Path), Statement.name, TRUE))
      /\ pc' = "scan" /\ current' = current /\ at' = at + 1
      /\ UNCHANGED <<program, file_to_module>>
  BY DEF QueueImport, Scanning
<1>2. Path \in Files
  BY <1>1, StatementScanned, StatusIs
<1>3. /\ \A i \in DOMAIN files : i \in DOMAIN files' /\ files'[i] = files[i]
      /\ FileId(Path) \in DOMAIN files' /\ files'[FileId(Path)] = Path
      /\ \A i \in DOMAIN files' : i \in DOMAIN files \/ i = FileId(Path)
  BY <1>1, <1>2, Kept, FilesGrow
<1>4. Loaded \subseteq Loaded' /\ Path \in Loaded'
  BY <1>3 DEF Loaded
<1>5. \A i : Waits(i) \/ i = FileId(Path) => Waits(i)'
  <2>1. Len(work_que) \in Nat /\ DOMAIN work_que = 1 .. Len(work_que)
    BY Lengths DEF Typed
  <2>2. /\ DOMAIN work_que \subseteq DOMAIN work_que' /\ Len(work_que) + 1 \in DOMAIN work_que'
        /\ \A k \in DOMAIN work_que : work_que'[k] = work_que[k]
        /\ work_que'[Len(work_que) + 1].file = FileId(Path)
    BY <1>1, <2>1, Kept DEF WorkItem
  <2> QED
    BY <2>2 DEF Waits
<1>6. \A i : ModuleOfFile(i)' = ModuleOfFile(i)
  BY <1>1 DEF ModuleOfFile
<1>7. ASSUME NEW i \in DOMAIN files, ModuleOfFile(i) # ACU_NULL_IDX, NEW k \in Scanned(i)'
      PROVE  Lead(files[i], program.text[files[i]][k].name) \in Loaded'
  <2>1. k \in Scanned(i) \/ (i = current /\ k = at)
    BY <1>1, <1>3, <1>7, ScannedNext
  <2>2. Path = Lead(files[current], program.text[files[current]][at].name)
    BY DEF Path, Statement, Text
  <2> QED
    BY <1>4, <1>7, <2>1, <2>2 DEF CompleteInDiscovery
<1>8. \A i \in DOMAIN files' : i \notin DOMAIN files => ModuleOfFile(i) = ACU_NULL_IDX
  <2>1. DOMAIN file_to_module \subseteq DOMAIN files
    BY Lengths DEF Typed
  <2> QED
    BY <2>1 DEF ModuleOfFile
<1>9. \A x, name : Lead(x, name)' = Lead(x, name)
  BY <1>1 DEF Lead
<1> QED
  BY <1>1, <1>3, <1>5, <1>6, <1>7, <1>8, <1>9 DEF CompleteInDiscovery

LEMMA CompleteNewModule ==
  ASSUME Typed, CompleteInDiscovery, NEW moved \in BOOLEAN, NewModule(moved)
  PROVE  CompleteInDiscovery'
<1>1. /\ TypeOK /\ work_que # <<>> /\ pc = "discover" /\ pc' = "scan" /\ current' = Item.file /\ at' = 1
      /\ work_que' = RestAfter(moved) /\ UNCHANGED <<program, files>>
  BY DEF Typed, NewModule, Parsing, Taking, Scan
<1>2. /\ \A g : ModuleOfFile(g)' = IF g = Item.file THEN Len(modules) + 1 ELSE ModuleOfFile(g)
      /\ Len(modules) + 1 # ACU_NULL_IDX
  BY NewModuleIs
<1>3. \A i : Waits(i) /\ i # Item.file => Waits(i)'
  BY <1>1, OthersStay DEF Waits
<1>4. \A i : i = Item.file => Scanned(i)' = {}
  <2> SUFFICES ASSUME NEW i, i = Item.file, NEW k \in Scanned(i)' PROVE FALSE
    OBVIOUS
  <2>1. k \in DOMAIN program.text[files[Item.file]] /\ k < 1
    BY <1>1 DEF Scanned
  <2>2. files[Item.file] \in Files
    BY NewModuleIs, LoadedTyped
  <2> QED
    BY <2>1, <2>2, Kept, StatementTyped
<1>5. \A i : Scanned(i)' \subseteq Scanned(i)
  BY <1>1 DEF Scanned
<1>6. Loaded' = Loaded /\ \A x, name : Lead(x, name)' = Lead(x, name)
  BY <1>1 DEF Loaded, Lead
<1> QED
  BY <1>1, <1>2, <1>3, <1>4, <1>5, <1>6 DEF CompleteInDiscovery

LEMMA CompleteAlreadyParsed ==
  ASSUME Typed, CompleteInDiscovery, AlreadyParsed
  PROVE  CompleteInDiscovery'
<1>1. /\ TypeOK /\ work_que # <<>> /\ ModuleOfFile(Item.file) # ACU_NULL_IDX /\ work_que' = Rest
      /\ UNCHANGED <<program, pc, files, file_to_module, current, at>>
  BY DEF Typed, AlreadyParsed, Taking
<1>2. \A i : Waits(i) /\ i # Item.file => Waits(i)'
  BY <1>1, OthersStay DEF Waits
<1> QED
  BY <1>1, <1>2 DEF CompleteInDiscovery, ModuleOfFile, Scanned, Lead, Loaded

LEMMA CompleteNothingToLoad ==
  ASSUME Typed, CompleteInDiscovery, NothingToLoad
  PROVE  CompleteInDiscovery'
<1>1. /\ Scanning /\ pc' = "scan" /\ current' = current /\ at' = at + 1 /\ ~ NeedsFile
      /\ UNCHANGED <<program, files, file_to_module, work_que>>
  BY DEF NothingToLoad, Scanning
<1>2. \A i \in DOMAIN files : Scanned(i)' \subseteq Scanned(i)
  BY <1>1, ScannedNext
<1>3. /\ Loaded' = Loaded /\ (\A x, name : Lead(x, name)' = Lead(x, name))
      /\ \A i : Waits(i)' = Waits(i) /\ ModuleOfFile(i)' = ModuleOfFile(i)
  BY <1>1 DEF Loaded, Lead, Waits, ModuleOfFile
<1> QED
  BY <1>1, <1>2, <1>3 DEF CompleteInDiscovery

LEMMA CompleteEndScan ==
  ASSUME Typed, CompleteInDiscovery, EndScan
  PROVE  CompleteInDiscovery'
<1>1. /\ pc = "scan" /\ at > Len(program.text[files[current]]) /\ pc' = "discover"
      /\ UNCHANGED <<program, files, file_to_module, work_que>>
  BY DEF EndScan, Text
<1>2. ASSUME NEW i \in DOMAIN files, NEW k \in Scanned(i)'
      PROVE  k \in Scanned(i)
  <2>1. k \in DOMAIN program.text[files[i]] /\ files[i] \in Files
    BY <1>1, LoadedTyped DEF Scanned
  <2>2. k \in 1 .. Len(program.text[files[i]]) /\ Len(program.text[files[i]]) \in Nat /\ at \in Nat
    BY <2>1, StatementTyped, Kept
  <2>3. current = i => k < at
    BY <1>1, <2>2
  <2> QED
    BY <1>1, <2>3 DEF Scanned
<1>3. /\ Loaded' = Loaded /\ (\A x, name : Lead(x, name)' = Lead(x, name))
      /\ \A i : Waits(i)' = Waits(i) /\ ModuleOfFile(i)' = ModuleOfFile(i)
  BY <1>1 DEF Loaded, Lead, Waits, ModuleOfFile
<1> QED
  BY <1>1, <1>2, <1>3 DEF CompleteInDiscovery

LEMMA CompleteOpen ==
  ASSUME Typed, Found, Open, pc' = "discover"
  PROVE  CompleteInDiscovery'
<1> DEFINE path == Lead(ACU_NULL_IDX, program.main)
<1>1. /\ files = <<>> /\ file_to_module = <<>> /\ UNCHANGED file_to_module
      /\ files' = FilesWith(path) /\ work_que' = <<WorkItem(FileId(path), program.main, FALSE)>>
  BY DEF Open, Found
<1>2. Loaded = {}
  BY <1>1 DEF Loaded
<1>3. files' = <<path>> /\ FileId(path) = 1
  BY <1>1, <1>2 DEF FilesWith, FileId
<1>4. \A i \in DOMAIN files' : i = 1
  BY <1>3
<1>5. 1 \in DOMAIN work_que' /\ work_que'[1].file = 1
  BY <1>1, <1>3 DEF WorkItem
<1>6. \A i : ModuleOfFile(i)' = ACU_NULL_IDX
  BY <1>1 DEF ModuleOfFile
<1> QED
  BY <1>4, <1>5, <1>6 DEF CompleteInDiscovery, Waits

LEMMA ImportsStay ==
  ASSUME UNCHANGED program
  PROVE  \A f : ImportedBy(f)' = ImportedBy(f)
BY DEF ImportedBy, ImportsOf, Statements, Lead

(* When nothing waits, all files are scanned to their end.                 *)
LEMMA CompleteEndDiscovery ==
  ASSUME CompleteInDiscovery, EndDiscovery
  PROVE  CompleteAfter'
<1>1. work_que = <<>> /\ pc = "discover" /\ UNCHANGED <<program, files, file_to_module>>
  BY DEF EndDiscovery
<1>2. \A i : ~ Waits(i)
  BY <1>1 DEF Waits
<1>3. ASSUME NEW i \in DOMAIN files
      PROVE  ModuleOfFile(i) # ACU_NULL_IDX /\ ImportedBy(files[i]) \subseteq Loaded
  BY <1>1, <1>2 DEF CompleteInDiscovery, ImportedBy, ImportsOf, Statements, Scanned
<1> QED
  BY <1>1, <1>3, ImportsStay DEF CompleteAfter, ModuleOfFile, Loaded

LEMMA CompleteAfterStays ==
  ASSUME CompleteAfter, UNCHANGED <<program, files, file_to_module>>
  PROVE  CompleteAfter'
BY ImportsStay DEF CompleteAfter, ModuleOfFile, Loaded

(* The import that pass 2 resolves again.                                  *)
LEMMA ResolvedAgainLoaded ==
  ASSUME Typed, CompleteAfter, Binding, ModuleText[at].kind = "import", ~ IsVirtual(ModuleText[at].name)
  PROVE  /\ ResolvedAgain \in Loaded /\ FilesWith(ResolvedAgain) = files
         /\ FileId(ResolvedAgain) \in DOMAIN files /\ files[FileId(ResolvedAgain)] = ResolvedAgain
         /\ ModuleOfFile(FileId(ResolvedAgain)) \in DOMAIN modules
         /\ modules[ModuleOfFile(FileId(ResolvedAgain))].file = FileId(ResolvedAgain)
<1>1. ResolvedAgain \in Loaded
  <2>1. /\ modules[current].file \in DOMAIN files
        /\ ModuleText[at] \in ImportsOf(files[modules[current].file])
    BY StatementBound DEF ImportsOf, Statements
  <2> QED
    BY <2>1 DEF CompleteAfter, ImportedBy, ResolvedAgain
<1>2. /\ FilesWith(ResolvedAgain) = files
      /\ FileId(ResolvedAgain) \in DOMAIN files /\ files[FileId(ResolvedAgain)] = ResolvedAgain
  BY <1>1 DEF FilesWith, FileId, Loaded
<1>3. ModuleOfFile(FileId(ResolvedAgain)) \in DOMAIN modules
  BY <1>2, ModuleTyped DEF Typed, CompleteAfter
<1> QED
  BY <1>1, <1>2, <1>3 DEF Typed, TypeOK

(* Under VirtualMain no source module is reached.                          *)
LEMMA BindingNotVirtual ==
  ASSUME Typed, MainFound, Binding
  PROVE  ~ VirtualMain
<1> SUFFICES ASSUME VirtualMain PROVE FALSE
  OBVIOUS
<1>1. current <= VirtualModule(program.main)
  BY DEF MainFound, Binding, Visiting
<1>2. /\ VirtualModule(program.main) \in 1 .. Len(VirtualNames) /\ Len(VirtualNames) \in Nat
      /\ DOMAIN VirtualNames = 1 .. Len(VirtualNames)
  BY VirtualTyped, Lengths DEF VirtualMain, Typed
<1>3. current \in Nat /\ current # 0
  BY Kept DEF Binding, Visiting
<1>4. current \in DOMAIN VirtualNames
  BY <1>1, <1>2, <1>3
<1> QED
  BY <1>4 DEF Typed, Binding

LEMMA CompleteStep == Typed /\ Found /\ MainFound /\ Complete /\ [Next]_vars => Complete'
<1> SUFFICES ASSUME Typed, Found, MainFound, Complete, [Next]_vars PROVE Complete'
  OBVIOUS
<1>1. CASE Open
  <2>1. pc' \in {"discover", "failed"}
    BY <1>1 DEF Open
  <2> QED
    BY <1>1, <2>1, CompleteOpen DEF Complete
<1>2. CASE AlreadyParsed
  BY <1>2, CompleteAlreadyParsed DEF Complete, AlreadyParsed, Taking, VirtualMain
<1>3. CASE NothingToLoad
  BY <1>3, CompleteNothingToLoad DEF Complete, NothingToLoad, Scanning, VirtualMain
<1>4. CASE ImportFails
  <2>1. errors' # <<>>
    BY <1>4, StatementScanned, StatusIs, ErrorAdded DEF ImportFails
  <2> QED
    BY <1>4, <2>1 DEF Complete, ImportFails, Scanning
<1>5. CASE QueueImport
  BY <1>5, CompleteQueueImport DEF Complete, QueueImport, Scanning, VirtualMain
<1>6. CASE EndScan
  BY <1>6, CompleteEndScan DEF Complete, EndScan, VirtualMain
<1>7. CASE EndDiscovery
  BY <1>7, CompleteEndDiscovery DEF Complete, EndDiscovery, VirtualMain
<1>8. ASSUME NEW moved \in BOOLEAN, Parse(moved) PROVE Complete'
  <2>1. CASE SyntaxErrors(moved)
    <3>1. errors' # <<>> /\ pc' = "discover"
      BY <2>1, ErrorAdded DEF SyntaxErrors, Kinds, Parsing, Taking
    <3> QED
      BY <3>1 DEF Complete
  <2>2. CASE NewModule(moved)
    BY <2>2, CompleteNewModule DEF Complete, NewModule, Parsing, Taking, Scan, VirtualMain
  <2>3. CASE TakeVirtual(moved)
    <3>1. VirtualMain' /\ pc' = "scan"
      <4>1. TypeOK /\ work_que # <<>> /\ IsVirtual(Item.name) /\ UNCHANGED program /\ pc' = "scan"
        BY <2>3 DEF Typed, TakeVirtual, Parsing, Taking, Scan
      <4>2. Len(work_que) \in DOMAIN work_que /\ Item = work_que[Len(work_que)]
        BY <4>1, OthersStay DEF Item
      <4> QED
        BY <4>1, <4>2 DEF MainFound, VirtualMain
    <3> QED
      BY <3>1 DEF Complete
  <2>4. CASE ReadStaleName(moved)
    BY <2>4 DEF Complete, ReadStaleName
  <2> QED
    BY <1>8, <2>1, <2>2, <2>3, <2>4 DEF Parse
<1>9. CASE BindVirtual
  BY <1>9 DEF Complete, BindVirtual
<1>10. ASSUME SkipModule \/ Redefined \/ BindDeclaration \/ EndModule \/ EndBinding PROVE Complete'
  <2>1. /\ UNCHANGED <<program, files, file_to_module>> /\ pc = "bind"
        /\ pc' \in {"bind", "done", "failed"}
    BY <1>10 DEF SkipModule, Redefined, BindDeclaration, EndModule, EndBinding, Binding, Visiting
  <2> QED
    BY <2>1, CompleteAfterStays DEF Complete, VirtualMain
<1>11. CASE BindImport
  <2>1. /\ Binding /\ pc = "bind" /\ pc' = "bind" /\ ModuleText[at].kind = "import"
        /\ UNCHANGED <<program, file_to_module>>
    BY <1>11 DEF BindImport, Binding, Visiting
  <2>2. CompleteAfter
    BY <2>1, BindingNotVirtual DEF Complete
  <2>3. UNCHANGED files
    BY <1>11, <2>1, <2>2, ResolvedAgainLoaded DEF BindImport
  <2> QED
    BY <2>1, <2>2, <2>3, CompleteAfterStays DEF Complete
<1>12. CASE UNCHANGED vars
  <2>1. /\ CompleteInDiscovery => CompleteInDiscovery'
    BY <1>12 DEF vars, CompleteInDiscovery, ModuleOfFile, Waits, Scanned, Lead, Loaded
  <2> QED
    BY <1>12, <2>1, CompleteAfterStays DEF vars, Complete, VirtualMain
<1> QED
  BY <1>1, <1>2, <1>3, <1>4, <1>5, <1>6, <1>7, <1>8, <1>9, <1>10, <1>11, <1>12
  DEF Next, Pass1, Pass2
-----------------------------------------------------------------------------
(* Declared                                                                *)

LEMMA DeclaredInit == Init => Declared
<1> SUFFICES ASSUME Init PROVE Declared
  OBVIOUS
<1>1. pc = "open" /\ at = 1 /\ DOMAIN symbols = DOMAIN modules
      /\ \A m \in DOMAIN modules : modules[m].file = ACU_NULL_IDX
  BY DEF Init, Virtual
<1> QED
  BY <1>1 DEF Declared, IsSource

(* What the definitions of this part look at.                              *)
LEMMA StatementsStay ==
  ASSUME Typed, UNCHANGED <<program, files>>, DOMAIN modules \subseteq DOMAIN modules',
         \A m \in DOMAIN modules : modules'[m].file = modules[m].file
  PROVE  /\ \A m \in DOMAIN modules : IsSource(m)' = IsSource(m) /\ TextOf(m)' = TextOf(m)
         /\ \A m \in DOMAIN modules : \A k, i :
              i \in DOMAIN symbols /\ i \in DOMAIN symbols' /\ symbols'[i] = symbols[i] /\ IsSymbolOf(m, k, i)
                => IsSymbolOf(m, k, i)'
<1>1. \A m \in DOMAIN modules : IsSource(m)' = IsSource(m) /\ TextOf(m)' = TextOf(m)
  BY DEF IsSource, TextOf
<1>2. ASSUME NEW m \in DOMAIN modules, NEW k, NEW i,
             symbols'[i] = symbols[i], IsSymbolOf(m, k, i)
      PROVE  IsSymbolOf(m, k, i)'
  <2>1. symbols'[i].scope = m /\ symbols'[i].name = TextOf(m)'[k].alias
    BY <1>1, <1>2 DEF IsSymbolOf
  <2>2. ASSUME TextOf(m)'[k].kind = "import", ~ IsVirtual(TextOf(m)'[k].name)
        PROVE  (\E n \in DOMAIN modules :
                  /\ symbols[i] = Symbol(m, TextOf(m)[k].alias, n)
                  /\ IsSource(n) /\ files[modules[n].file] = Lead(files[modules[m].file], TextOf(m)[k].name))'
    <3>1. PICK n \in DOMAIN modules :
            /\ symbols[i] = Symbol(m, TextOf(m)[k].alias, n)
            /\ IsSource(n) /\ files[modules[n].file] = Lead(files[modules[m].file], TextOf(m)[k].name)
      BY <1>1, <1>2, <2>2 DEF IsSymbolOf
    <3>2. \A x, name : Lead(x, name)' = Lead(x, name)
      BY DEF Lead
    <3>3. /\ n \in DOMAIN modules' /\ IsSource(n)' /\ modules'[n].file = modules[n].file
          /\ modules'[m].file = modules[m].file /\ TextOf(m)' = TextOf(m)
      BY <1>1, <3>1
    <3>4. symbols'[i] = Symbol(m, TextOf(m)'[k].alias, n)
      BY <1>2, <3>1, <3>3
    <3>5. (files[modules[n].file] = Lead(files[modules[m].file], TextOf(m)[k].name))'
      BY <3>1, <3>2, <3>3
    <3> QED
      BY <3>3, <3>4, <3>5 DEF Symbol
  <2> QED
    BY <2>1, <2>2 DEF IsSymbolOf, Symbol
<1> QED
  BY <1>1, <1>2

(* Before pass 2 the modules of the files have no symbols.                 *)
LEMMA NoSymbolsYet ==
  ASSUME Typed, \A i \in DOMAIN symbols : ~ IsSource(symbols[i].scope), UNCHANGED symbols,
         \A m \in DOMAIN modules : modules'[m].file = modules[m].file
  PROVE  (\A i \in DOMAIN symbols : ~ IsSource(symbols[i].scope))'
BY Kept DEF IsSource

(* The next statement of the module is passed, with or without a symbol.   *)
LEMMA PassedNext ==
  ASSUME Typed, Binding, UNCHANGED <<program, files, modules, current>>, at' = at + 1
  PROVE  /\ IsSource(current) /\ at \in DOMAIN TextOf(current) /\ TextOf(current) = ModuleText
         /\ \A m, k : Passed(m, k)' <=> Passed(m, k) \/ (m = current /\ k = at)
<1>1. IsSource(current) /\ at \in DOMAIN TextOf(current) /\ TextOf(current) = ModuleText
  BY StatementBound DEF Binding, IsSource, TextOf, ModuleText
<1>2. at \in Nat /\ \A m, k : k \in DOMAIN TextOf(m) /\ IsSource(m) => k \in Nat
  <2>1. ASSUME NEW m, NEW k, k \in DOMAIN TextOf(m), IsSource(m)
        PROVE  k \in Nat
    <3>1. files[modules[m].file] \in Files
      BY <2>1, ModuleTyped, LoadedTyped DEF Typed, IsSource, ModuleRecords
    <3> QED
      BY <2>1, <3>1, Kept, StatementTyped DEF TextOf
  <2> QED
    BY <2>1, Kept
<1>3. \A m : IsSource(m)' = IsSource(m) /\ TextOf(m)' = TextOf(m)
  BY DEF IsSource, TextOf
<1>4. \A m, k : Passed(m, k)' <=> (IsSource(m) /\ k \in DOMAIN TextOf(m) /\ (m < current \/ (m = current /\ k < at + 1)))
  BY <1>3 DEF Passed
<1>5. \A m, k : (IsSource(m) /\ k \in DOMAIN TextOf(m) /\ k < at + 1) => k < at \/ k = at
  BY <1>2
<1>6. \A m, k : (IsSource(m) /\ k \in DOMAIN TextOf(m) /\ k < at) => k < at + 1
  BY <1>2
<1>7. at < at + 1
  BY <1>2
<1> QED
  BY <1>1, <1>4, <1>5, <1>6, <1>7 DEF Passed

(* A step of pass 2 that passes a statement and adds one symbol for it.    *)
LEMMA DeclaredAdds ==
  ASSUME Typed, Declared, Binding, UNCHANGED <<program, files, modules, current, pc, errors>>, at' = at + 1,
         NEW target \in DOMAIN modules \union {ACU_NULL_IDX}, ~ IsDeclared(current, ModuleText[at].alias),
         symbols' = Append(symbols, Symbol(current, ModuleText[at].alias, target)),
         (ModuleText[at].kind = "import" /\ ~ IsVirtual(ModuleText[at].name)) =>
            /\ target # ACU_NULL_IDX /\ IsSource(target)
            /\ files[modules[target].file] = ResolvedAgain
  PROVE  Declared'
<1>1. /\ IsSource(current) /\ at \in DOMAIN TextOf(current) /\ TextOf(current) = ModuleText
      /\ \A m, k : Passed(m, k)' <=> Passed(m, k) \/ (m = current /\ k = at)
      /\ pc = "bind" /\ current \in DOMAIN modules /\ ModuleText[at].alias \in Idents
  BY PassedNext, StatementBound DEF Binding, Visiting
<1>2. /\ DOMAIN symbols' = DOMAIN symbols \union {Len(symbols) + 1}
      /\ \A i \in DOMAIN symbols : symbols'[i] = symbols[i]
      /\ symbols'[Len(symbols) + 1] = Symbol(current, ModuleText[at].alias, target)
  BY <1>1, SymbolAdded
<1>3. /\ \A m \in DOMAIN modules : IsSource(m)' = IsSource(m) /\ TextOf(m)' = TextOf(m)
      /\ \A m \in DOMAIN modules : \A k, i : i \in DOMAIN symbols /\ IsSymbolOf(m, k, i) => IsSymbolOf(m, k, i)'
  BY <1>2, StatementsStay
<1>4. BoundBefore'
  BY <1>1, <1>3 DEF Declared, BoundBefore, IsSource
<1>5. OnlyPassed'
  <2> SUFFICES ASSUME NEW i \in DOMAIN symbols', (IsSource(symbols[i].scope))'
               PROVE  (\E k \in DOMAIN TextOf(symbols[i].scope) :
                         /\ Passed(symbols[i].scope, k)
                         /\ TextOf(symbols[i].scope)[k].alias = symbols[i].name)'
    BY DEF OnlyPassed
  <2>1. CASE i \in DOMAIN symbols
    <3>1. symbols'[i] = symbols[i] /\ symbols[i].scope \in DOMAIN modules
      BY <1>2, <2>1, Kept
    <3>2. PICK k \in DOMAIN TextOf(symbols[i].scope) :
            /\ Passed(symbols[i].scope, k)
            /\ TextOf(symbols[i].scope)[k].alias = symbols[i].name
      BY <1>1, <1>3, <2>1, <3>1 DEF Declared, OnlyPassed
    <3>3. ASSUME NEW m \in DOMAIN modules, m = symbols[i].scope
          PROVE  Passed(m, k)' /\ k \in DOMAIN TextOf(m)' /\ TextOf(m)'[k].alias = symbols'[i].name
      BY <1>1, <1>3, <3>1, <3>2, <3>3
    <3> QED
      BY <3>1, <3>3
  <2>2. CASE i = Len(symbols) + 1
    <3>1. symbols'[i].scope = current /\ symbols'[i].name = TextOf(current)[at].alias
      BY <1>1, <1>2, <2>2 DEF Symbol
    <3>2. ASSUME NEW m \in DOMAIN modules, m = current, NEW k, k = at
          PROVE  Passed(m, k)' /\ k \in DOMAIN TextOf(m)' /\ TextOf(m)'[k].alias = symbols'[i].name
      BY <1>1, <1>3, <3>1, <3>2
    <3> QED
      BY <1>1, <3>1, <3>2
  <2> QED
    BY <1>2, <2>1, <2>2
<1>6. errors = <<>> => AllPassed'
  <2> SUFFICES ASSUME errors = <<>>, NEW m \in DOMAIN modules, IsSource(m),
                      NEW k \in DOMAIN TextOf(m), Passed(m, k)'
               PROVE  IsDone(m, k)'
    BY <1>3 DEF AllPassed
  <2>0. AllPassed
    BY <1>1 DEF Declared
  <2>1. CASE Passed(m, k)
    <3>1. IsDone(m, k)
      BY <2>0, <2>1 DEF AllPassed
    <3> QED
      BY <1>2, <1>3, <3>1 DEF IsDone
  <2>2. CASE m = current /\ k = at
    <3>1. ASSUME NEW i, i = Len(symbols) + 1 PROVE IsSymbolOf(m, k, i)'
      <4>1. symbols'[i] = Symbol(m, TextOf(m)[k].alias, target)
        BY <1>1, <1>2, <2>2, <3>1
      <4>2. \A x, name : Lead(x, name)' = Lead(x, name)
        BY DEF Lead
      <4>3. ASSUME TextOf(m)[k].kind = "import", ~ IsVirtual(TextOf(m)[k].name)
            PROVE  /\ IsSource(target)' /\ target \in DOMAIN modules
                   /\ files[modules[target].file] = Lead(files[modules[m].file], TextOf(m)[k].name)
        BY <1>1, <1>3, <2>2, <4>3 DEF ResolvedAgain, IsSource
      <4>4. TextOf(m)' = TextOf(m)
        BY <1>3
      <4>5. ASSUME TextOf(m)'[k].kind = "import", ~ IsVirtual(TextOf(m)'[k].name)
            PROVE  (\E n \in DOMAIN modules :
                     /\ symbols[i] = Symbol(m, TextOf(m)[k].alias, n)
                     /\ IsSource(n) /\ files[modules[n].file] = Lead(files[modules[m].file], TextOf(m)[k].name))'
        BY <4>1, <4>2, <4>3, <4>4, <4>5 DEF Symbol
      <4>6. symbols'[i].scope = m /\ symbols'[i].name = TextOf(m)'[k].alias
        BY ONLY <4>1, <4>4 DEF Symbol
      <4> QED
        BY ONLY <4>5, <4>6 DEF IsSymbolOf
    <3>2. \A j \in 1 .. k - 1 : TextOf(m)[j].alias # TextOf(m)[k].alias
      <4> SUFFICES ASSUME NEW j \in 1 .. at - 1, TextOf(current)[j].alias = TextOf(current)[at].alias
                   PROVE  FALSE
        BY <2>2
      <4>1. Passed(current, j)
        <5>1. files[modules[current].file] \in Files /\ at \in Nat
          BY <1>1, StatementBound, Kept
        <5>2. TextOf(current) = program.text[files[modules[current].file]]
          BY DEF TextOf
        <5>3. DOMAIN TextOf(current) = 1 .. Len(TextOf(current)) /\ Len(TextOf(current)) \in Nat
          BY <1>1, <5>1, <5>2, Kept, StatementTyped
        <5>4. j \in DOMAIN TextOf(current) /\ j < at
          BY <1>1, <5>1, <5>3
        <5> QED
          BY <1>1, <5>4 DEF Passed
      <4>2. PICK i \in DOMAIN symbols : IsSymbolOf(current, j, i)
        BY <1>1, <2>0, <4>1 DEF AllPassed, IsDone, Passed
      <4> QED
        BY <1>1, <4>2 DEF IsSymbolOf, IsDeclared
    <3> QED
      BY <1>2, <1>3, <3>1, <3>2 DEF IsDone
  <2> QED
    BY <1>1, <2>1, <2>2
<1> QED
  BY <1>1, <1>3, <1>4, <1>5, <1>6 DEF Declared

(* A step of pass 2 that reports an error.                                 *)
LEMMA DeclaredFails ==
  ASSUME Typed, Declared, Binding, UNCHANGED <<program, files, modules, current, pc, symbols>>, at' = at + 1,
         errors' # <<>>
  PROVE  Declared'
<1>1. /\ IsSource(current) /\ pc = "bind"
      /\ \A m, k : Passed(m, k) => Passed(m, k)'
  BY PassedNext DEF Binding, Visiting
<1>2. \A m : IsSource(m)' = IsSource(m) /\ TextOf(m)' = TextOf(m)
  BY DEF IsSource, TextOf
<1>3. BoundBefore'
  BY <1>1, <1>2 DEF Declared, BoundBefore
<1>4. OnlyPassed'
  <2> SUFFICES ASSUME NEW i \in DOMAIN symbols, NEW m, m = symbols[i].scope, IsSource(m)
               PROVE  \E k \in DOMAIN TextOf(m) : Passed(m, k)' /\ TextOf(m)[k].alias = symbols[i].name
    BY <1>2 DEF OnlyPassed
  <2> QED
    BY <1>1 DEF Declared, OnlyPassed
<1> QED
  BY <1>1, <1>2, <1>3, <1>4 DEF Declared

(* The next module is visited.                                             *)
LEMMA DeclaredNextModule ==
  ASSUME Typed, Declared, Visiting, UNCHANGED <<program, files, pc, symbols, errors>>,
         current' = current + 1, at' = 1,
         DOMAIN modules' = DOMAIN modules, \A m \in DOMAIN modules : modules'[m].file = modules[m].file,
         \A m \in DOMAIN modules : IsSource(m) /\ m # current => modules'[m].stage = modules[m].stage,
         IsSource(current) =>
           /\ modules'[current].stage = "bound"
           /\ \A k \in DOMAIN TextOf(current) : k < at
  PROVE  Declared'
<1>1. /\ pc = "bind" /\ current \in Nat /\ \A m \in DOMAIN modules : m \in Nat
  BY Kept, Lengths DEF Visiting, Typed
<1>2. /\ \A m \in DOMAIN modules : IsSource(m)' = IsSource(m) /\ TextOf(m)' = TextOf(m)
      /\ \A m \in DOMAIN modules : \A k, i : i \in DOMAIN symbols /\ IsSymbolOf(m, k, i) => IsSymbolOf(m, k, i)'
  BY StatementsStay
<1>3. \A m \in DOMAIN modules : m < current + 1 => m < current \/ m = current
  BY <1>1
<1>4. BoundBefore'
  <2> SUFFICES ASSUME NEW m \in DOMAIN modules, IsSource(m), m < current + 1
               PROVE  modules'[m].stage = "bound"
    BY <1>2 DEF BoundBefore
  <2>1. m = current \/ (m < current /\ m # current)
    BY <1>1, <1>3
  <2> QED
    BY <1>1, <2>1 DEF Declared, BoundBefore
<1>5. ASSUME NEW m \in DOMAIN modules, NEW k PROVE Passed(m, k)' <=> Passed(m, k)
  <2>1. Passed(m, k)' <=> (IsSource(m) /\ k \in DOMAIN TextOf(m) /\ (m < current + 1 \/ (m = current + 1 /\ k < 1)))
    BY <1>2 DEF Passed
  <2>2. IsSource(m) /\ k \in DOMAIN TextOf(m) => k \in Nat \ {0}
    <3> SUFFICES ASSUME IsSource(m), k \in DOMAIN TextOf(m) PROVE k \in Nat \ {0}
      OBVIOUS
    <3>1. files[modules[m].file] \in Files
      BY ModuleTyped, LoadedTyped DEF Typed, IsSource, ModuleRecords
    <3> QED
      BY <3>1, Kept, StatementTyped DEF TextOf
  <2>3. k \in Nat \ {0} => ~ (k < 1)
    OBVIOUS
  <2>4. m < current + 1 <=> (m < current \/ m = current)
    BY <1>1
  <2> QED
    BY <2>1, <2>2, <2>3, <2>4 DEF Passed
<1>6. OnlyPassed'
  <2> SUFFICES ASSUME NEW i \in DOMAIN symbols, NEW m, m = symbols[i].scope, IsSource(m)'
               PROVE  \E k \in DOMAIN TextOf(m)' : Passed(m, k)' /\ TextOf(m)'[k].alias = symbols[i].name
    BY DEF OnlyPassed
  <2>1. m \in DOMAIN modules
    BY Kept
  <2> QED
    BY <1>1, <1>2, <1>5, <2>1 DEF Declared, OnlyPassed
<1>7. AllPassed => AllPassed'
  <2> SUFFICES ASSUME AllPassed, NEW m \in DOMAIN modules, IsSource(m),
                      NEW k \in DOMAIN TextOf(m), Passed(m, k)'
               PROVE  IsDone(m, k)'
    BY <1>2 DEF AllPassed
  <2>1. IsDone(m, k)
    BY <1>5 DEF AllPassed
  <2> QED
    BY <1>2, <2>1 DEF IsDone
<1> QED
  BY <1>1, <1>4, <1>6, <1>7 DEF Declared

LEMMA DeclaredBindImport ==
  ASSUME Typed, MainFound, Complete, Declared, BindImport
  PROVE  Declared'
<1> DEFINE name == ModuleText[at].name
<1> DEFINE target == IF IsVirtual(name) THEN VirtualModule(name) ELSE ModuleOfFile(FileId(ResolvedAgain))
<1>1. /\ Binding /\ ModuleText[at].kind = "import" /\ pc = "bind" /\ at' = at + 1
      /\ UNCHANGED <<program, pc, modules, current>> /\ ~ IsDeclared(current, ModuleText[at].alias)
  BY DEF BindImport, Binding, Visiting
<1>2. CompleteAfter
  BY <1>1, BindingNotVirtual DEF Complete
<1>3. ~ IsVirtual(name) =>
        /\ FilesWith(ResolvedAgain) = files /\ IsSource(target)
        /\ files[modules[target].file] = ResolvedAgain
  <2> SUFFICES ASSUME ~ IsVirtual(name)
               PROVE  /\ FilesWith(ResolvedAgain) = files /\ IsSource(target)
                      /\ files[modules[target].file] = ResolvedAgain
    OBVIOUS
  <2>1. /\ FilesWith(ResolvedAgain) = files
        /\ FileId(ResolvedAgain) \in DOMAIN files /\ files[FileId(ResolvedAgain)] = ResolvedAgain
        /\ ModuleOfFile(FileId(ResolvedAgain)) \in DOMAIN modules
        /\ modules[ModuleOfFile(FileId(ResolvedAgain))].file = FileId(ResolvedAgain)
    BY <1>1, <1>2, ResolvedAgainLoaded
  <2>2. FileId(ResolvedAgain) # ACU_NULL_IDX
    BY <2>1, Lengths DEF Typed
  <2> QED
    BY <2>1, <2>2 DEF IsSource
<1>4. target \in DOMAIN modules /\ target # ACU_NULL_IDX
  <2>1. IsVirtual(name) => target \in DOMAIN modules
    BY VirtualTyped, Lengths DEF Typed
  <2>2. target \in DOMAIN modules
    BY <1>3, <2>1 DEF IsSource
  <2> QED
    BY <2>2, Lengths DEF Typed
<1>5. CASE ~ IsVirtual(name) /\ Status(ResolvedAgain) # "OK"
  <2>1. errors' = Append(errors, Status(ResolvedAgain)) /\ UNCHANGED <<files, symbols>>
    BY <1>5 DEF BindImport
  <2>2. errors' # <<>>
    BY <1>1, <1>5, <2>1, StatementBound, StatusIs, ErrorAdded
  <2> QED
    BY <1>1, <2>1, <2>2, DeclaredFails
<1>6. CASE IsVirtual(name) \/ Status(ResolvedAgain) = "OK"
  <2>1. /\ files' = IF IsVirtual(name) THEN files ELSE FilesWith(ResolvedAgain)
        /\ symbols' = IF target = ACU_NULL_IDX THEN symbols
                      ELSE Append(symbols, Symbol(current, ModuleText[at].alias, target))
        /\ UNCHANGED errors
    BY <1>6 DEF BindImport
  <2> HIDE DEF target
  <2>2. UNCHANGED files /\ symbols' = Append(symbols, Symbol(current, ModuleText[at].alias, target))
    BY <1>3, <1>4, <2>1
  <2> QED
    BY <1>1, <1>3, <1>4, <2>1, <2>2, DeclaredAdds
<1> QED
  BY <1>5, <1>6

(* A step of pass 1.                                                       *)
LEMMA DeclaredBefore ==
  ASSUME Typed, Declared, UNCHANGED symbols, pc \in {"open", "discover", "scan"},
         pc' \in {"open", "discover", "scan", "failed", "undefined"},
         pc' \in {"open", "discover"} => at' = 1,
         \A m \in DOMAIN modules : modules'[m].file = modules[m].file
  PROVE  Declared'
BY NoSymbolsYet DEF Declared

LEMMA DeclaredEndDiscovery ==
  ASSUME Typed, Declared, EndDiscovery
  PROVE  Declared'
<1>1. /\ pc = "discover" /\ current' = 1 /\ at' = 1 /\ pc' \in {"bind", "failed"}
      /\ UNCHANGED <<program, files, modules, symbols, errors>>
  BY DEF EndDiscovery, Declared
<1>2. \A m : IsSource(m)' = IsSource(m) /\ TextOf(m)' = TextOf(m)
  BY <1>1 DEF IsSource, TextOf
<1>3. \A m \in DOMAIN modules : ~ (m < 1)
  BY Lengths DEF Typed
<1>4. ASSUME NEW m \in DOMAIN modules, NEW k PROVE ~ Passed(m, k)'
  <2> SUFFICES ASSUME IsSource(m), k \in DOMAIN TextOf(m), k < 1 PROVE FALSE
    BY <1>1, <1>2, <1>3 DEF Passed
  <2>1. files[modules[m].file] \in Files
    BY ModuleTyped, LoadedTyped DEF Typed, IsSource, ModuleRecords
  <2>2. k \in Nat \ {0}
    BY <2>1, Kept, StatementTyped DEF TextOf
  <2> QED
    BY <2>2
<1>5. BoundBefore'
  BY <1>1, <1>3 DEF BoundBefore
<1>6. OnlyPassed'
  BY <1>1, <1>2 DEF OnlyPassed, Declared
<1>7. AllPassed'
  BY <1>1, <1>4 DEF AllPassed
<1> QED
  BY <1>1, <1>5, <1>6, <1>7 DEF Declared

LEMMA DeclaredEndBinding ==
  ASSUME Typed, Declared, EndBinding
  PROVE  Declared'
<1>1. /\ pc = "bind" /\ current > Len(modules) /\ pc' = IF errors = <<>> THEN "done" ELSE "failed"
      /\ UNCHANGED <<program, files, modules, current, at, symbols, errors>>
  BY DEF EndBinding
<1>2. /\ \A m : IsSource(m)' = IsSource(m) /\ TextOf(m)' = TextOf(m)
      /\ \A m, k : Passed(m, k)' = Passed(m, k)
  BY <1>1 DEF IsSource, TextOf, Passed
<1>3. /\ \A m \in DOMAIN modules : \A k, i : i \in DOMAIN symbols /\ IsSymbolOf(m, k, i) => IsSymbolOf(m, k, i)'
  BY <1>1, StatementsStay
<1>4. BoundBefore'
  BY <1>1, <1>2 DEF BoundBefore, Declared
<1>5. OnlyPassed'
  <2> SUFFICES ASSUME NEW i \in DOMAIN symbols, NEW m, m = symbols[i].scope, IsSource(m)
               PROVE  \E k \in DOMAIN TextOf(m) : Passed(m, k) /\ TextOf(m)[k].alias = symbols[i].name
    BY <1>1, <1>2 DEF OnlyPassed
  <2> QED
    BY <1>1 DEF Declared, OnlyPassed
<1>6. errors = <<>> => AllPassed'
  <2> SUFFICES ASSUME errors = <<>>, NEW m \in DOMAIN modules, IsSource(m), NEW k \in DOMAIN TextOf(m), Passed(m, k)
               PROVE  IsDone(m, k)'
    BY <1>1, <1>2 DEF AllPassed
  <2>1. IsDone(m, k)
    BY <1>1 DEF Declared, AllPassed
  <2> QED
    BY <1>1, <1>2, <1>3, <2>1 DEF IsDone
<1> QED
  BY <1>1, <1>4, <1>5, <1>6 DEF Declared

LEMMA DeclaredStutter ==
  ASSUME Declared, UNCHANGED vars
  PROVE  Declared'
<1>1. \A m : IsSource(m)' = IsSource(m) /\ TextOf(m)' = TextOf(m)
  BY DEF vars, IsSource, TextOf
<1>2. \A m, k, i : IsSymbolOf(m, k, i)' = IsSymbolOf(m, k, i)
  BY DEF vars, IsSymbolOf, TextOf, IsSource, Lead
<1>3. \A m, k : Passed(m, k)' = Passed(m, k) /\ IsDone(m, k)' = IsDone(m, k)
  BY <1>1, <1>2 DEF vars, Passed, IsDone
<1>4. BoundBefore' = BoundBefore
  BY <1>1 DEF vars, BoundBefore
<1>5. OnlyPassed' = OnlyPassed
  BY <1>1, <1>3 DEF vars, OnlyPassed, Passed, IsSource, TextOf
<1>6. AllPassed' = AllPassed
  BY <1>1, <1>3 DEF vars, AllPassed
<1> QED
  BY <1>4, <1>5, <1>6 DEF Declared, vars, IsSource

LEMMA DeclaredStep == Typed /\ MainFound /\ Complete /\ Declared /\ [Next]_vars => Declared'
<1> SUFFICES ASSUME Typed, MainFound, Complete, Declared, [Next]_vars PROVE Declared'
  OBVIOUS
<1>1. CASE Open
  BY <1>1, DeclaredBefore DEF Open, Declared
<1>2. CASE AlreadyParsed
  BY <1>2, DeclaredBefore DEF AlreadyParsed, Taking, Declared
<1>3. CASE NothingToLoad \/ ImportFails \/ QueueImport
  BY <1>3, DeclaredBefore DEF NothingToLoad, ImportFails, QueueImport, Scanning
<1>4. CASE EndScan
  BY <1>4, DeclaredBefore DEF EndScan
<1>5. CASE EndDiscovery
  BY <1>5, DeclaredEndDiscovery
<1>6. ASSUME NEW moved \in BOOLEAN, Parse(moved) PROVE Declared'
  <2>1. CASE SyntaxErrors(moved)
    BY <2>1, DeclaredBefore DEF SyntaxErrors, Parsing, Taking, Declared
  <2>2. CASE NewModule(moved)
    <3>1. \A m \in DOMAIN modules : modules'[m].file = modules[m].file
      BY <2>2, NewModuleIs
    <3> QED
      BY <2>2, <3>1, DeclaredBefore DEF NewModule, Parsing, Taking, Scan
  <2>3. CASE TakeVirtual(moved)
    <3>1. /\ modules' = [modules EXCEPT ![VirtualModule(Item.name)].stage = "parsed"]
          /\ UNCHANGED <<file_to_module, symbols>> /\ pc = "discover" /\ pc' = "scan"
          /\ VirtualModule(Item.name) \in DOMAIN modules
      BY <2>3, VirtualTyped, Lengths DEF TakeVirtual, Parsing, Taking, Scan, Typed
    <3>2. \A m \in DOMAIN modules : modules'[m].file = modules[m].file
      BY <3>1, StageChanges
    <3> QED
      BY <3>1, <3>2, DeclaredBefore
  <2>4. CASE ReadStaleName(moved)
    BY <2>4, DeclaredBefore DEF ReadStaleName, Parsing, Taking
  <2> QED
    BY <1>6, <2>1, <2>2, <2>3, <2>4 DEF Parse
<1>7. CASE SkipModule
  <2>1. /\ Visiting /\ pc = "bind" /\ current \in DOMAIN modules /\ modules[current].stage = "unprocessed"
        /\ current' = current + 1 /\ UNCHANGED <<program, files, pc, modules, at, symbols, errors>>
    BY <1>7, ModuleVisited DEF SkipModule, Visiting
  <2>2. ~ IsSource(current)
    BY <2>1 DEF Typed, IsSource
  <2>3. at = 1
    BY <2>1, <2>2 DEF Declared
  <2> QED
    BY <2>1, <2>2, <2>3, DeclaredNextModule
<1>8. CASE BindVirtual
  BY <1>8 DEF BindVirtual, Declared
<1>9. CASE Redefined
  <2>1. errors' # <<>>
    BY <1>9, ErrorAdded DEF Redefined, Kinds
  <2> QED
    BY <1>9, <2>1, DeclaredFails DEF Redefined
<1>10. CASE BindDeclaration
  <2>1. /\ Binding /\ UNCHANGED <<program, files, modules, current, pc, errors>> /\ at' = at + 1
        /\ ~ IsDeclared(current, ModuleText[at].alias) /\ ModuleText[at].kind = "decl"
        /\ symbols' = Append(symbols, Symbol(current, ModuleText[at].alias, ACU_NULL_IDX))
    BY <1>10 DEF BindDeclaration
  <2> QED
    BY <2>1, DeclaredAdds
<1>11. CASE BindImport
  BY <1>11, DeclaredBindImport
<1>12. CASE EndModule
  <2>1. /\ Visiting /\ current \in DOMAIN modules /\ IsSource(current) /\ at > Len(TextOf(current))
        /\ modules' = [modules EXCEPT ![current].stage = "bound"]
        /\ current' = current + 1 /\ at' = 1
        /\ UNCHANGED <<program, pc, files, file_to_module, symbols, errors>>
    BY <1>12, ModuleVisited DEF EndModule, IsSource, TextOf, ModuleText
  <2>2. /\ DOMAIN modules' = DOMAIN modules
        /\ \A n \in DOMAIN modules : /\ modules'[n].file = modules[n].file
                                     /\ modules'[n].stage = IF n = current THEN "bound" ELSE modules[n].stage
    BY <2>1, StageChanges
  <2>3. \A k \in DOMAIN TextOf(current) : k < at
    <3>1. files[modules[current].file] \in Files
      BY <2>1, ModuleTyped, LoadedTyped DEF Typed, IsSource, ModuleRecords
    <3>2. \A k \in DOMAIN TextOf(current) : k \in 1 .. Len(TextOf(current)) /\ Len(TextOf(current)) \in Nat
      BY <3>1, Kept, StatementTyped DEF TextOf
    <3> QED
      BY <2>1, <3>2, Kept
  <2> QED
    BY <2>1, <2>2, <2>3, DeclaredNextModule
<1>13. CASE EndBinding
  BY <1>13, DeclaredEndBinding
<1>14. CASE UNCHANGED vars
  BY <1>14, DeclaredStutter
<1> QED
  BY <1>1, <1>2, <1>3, <1>4, <1>5, <1>6, <1>7, <1>8, <1>9, <1>10, <1>11, <1>12, <1>13, <1>14
  DEF Next, Pass1, Pass2
-----------------------------------------------------------------------------
(* The invariant and what it gives                                         *)

LEMMA InvInit == Init => Inv
<1>1. Init => Found
  BY DEF Init, Found, ModuleOfFile
<1> QED
  BY <1>1, TypedInit, MainFoundInit, CompleteInit, DeclaredInit DEF Inv

LEMMA InvStep == Inv /\ [Next]_vars => Inv'
BY TypedStep, FoundStep, MainFoundStep, CompleteStep, DeclaredStep DEF Inv

(* The five parts hold together, whatever is imported and whatever is      *)
(* missing, and whenever the pool of names moves (analyzer_pass1.c,        *)
(* analyzer_pass2.c).                                                      *)
THEOREM DiscoveryInv == Spec => []Inv
BY InvInit, InvStep, PTL DEF Spec

(* After a success the loaded files are those that the main file leads to. *)
LEMMA LoadedIsReachable ==
  ASSUME Inv, pc = "done"
  PROVE  /\ Loaded = Reachable /\ SourceFiles = Loaded
         /\ CompleteAfter
<1>1. CompleteAfter /\ files # <<>> /\ files[1] = MainFile
  BY DEF Inv, MainFound, Complete, Found
<1>2. 1 \in DOMAIN files /\ Loaded \subseteq Files
  <2>1. files \in Seq(Files) /\ DOMAIN files = 1 .. Len(files)
    BY Kept, LenProperties DEF Inv
  <2>2. Len(files) \in Nat \ {0}
    BY <1>1, <2>1, EmptySeq
  <2> QED
    BY <2>1, <2>2, LoadedTyped DEF Inv, Loaded
<1>3. ClosedUnderImports(Loaded)
  BY <1>1, <1>2 DEF ClosedUnderImports, CompleteAfter, Loaded
<1>4. Reachable \subseteq Loaded
  BY <1>2, <1>3, ReachableLeast
<1>5. Loaded \subseteq Reachable
  BY DEF Inv, Found, Loaded
<1>6. SourceFiles \subseteq Loaded
  BY BoundIsGood DEF Inv, SourceFiles, Loaded, IsSource
<1>7. ASSUME NEW i \in DOMAIN files PROVE files[i] \in SourceFiles
  <2>1. ModuleOfFile(i) \in DOMAIN modules
    BY <1>1, ModuleTyped DEF CompleteAfter, Inv, Typed
  <2>2. modules[ModuleOfFile(i)].file = i
    BY <2>1 DEF Inv, Typed, TypeOK
  <2>3. i # ACU_NULL_IDX
    BY Lengths DEF Inv, Typed
  <2> QED
    BY <2>1, <2>2, <2>3 DEF SourceFiles
<1>8. Loaded \subseteq SourceFiles
  BY <1>7 DEF Loaded
<1> QED
  BY <1>1, <1>4, <1>5, <1>6, <1>8

(* When both passes succeed the source modules are exactly the files that  *)
(* the main file leads to, whatever imports whatever, and the main module  *)
(* is that of the main file.                                               *)
THEOREM DiscoveryExact == Spec => []ModulesAreImports
<1>1. Inv => ModulesAreImports
  <2> SUFFICES ASSUME Inv, pc = "done"
               PROVE  /\ SourceFiles = Reachable
                      /\ main_module_id # ACU_NULL_IDX /\ modules[main_module_id].file # ACU_NULL_IDX
                      /\ files[modules[main_module_id].file] = MainFile
    BY DEF ModulesAreImports
  <2>1. main_module_id # ACU_NULL_IDX /\ modules[main_module_id].file = 1
    BY DEF Inv, MainFound
  <2>2. 1 # ACU_NULL_IDX /\ files[1] = MainFile
    BY NullAssumption DEF Inv, Found
  <2> QED
    BY <2>1, <2>2, LoadedIsReachable
<1> QED
  BY <1>1, DiscoveryInv, PTL

(* A program is refused exactly if a file that it leads to is missing,     *)
(* unreadable, does not parse or declares a name twice; a refusal prints   *)
(* an error.                                                               *)
THEOREM RefusedExactly == Spec => []ErrorsExact
<1>1. ASSUME Inv, pc = "done", Faulty PROVE FALSE
  <2>1. PICK f \in Reachable : ~ Good(f) \/ SameIdentTwice(f)
    BY <1>1 DEF Faulty
  <2>2. PICK i \in DOMAIN files : files[i] = f
    BY <1>1, LoadedIsReachable DEF Loaded
  <2> DEFINE m == ModuleOfFile(i)
  <2>3. m # ACU_NULL_IDX /\ m \in DOMAIN modules /\ modules[m].file = i /\ i # ACU_NULL_IDX
    <3>1. ModuleOfFile(i) # ACU_NULL_IDX
      BY <1>1, LoadedIsReachable DEF CompleteAfter
    <3>2. ModuleOfFile(i) \in DOMAIN modules
      BY <1>1, <3>1, ModuleTyped DEF Inv, Typed
    <3> QED
      BY <1>1, <3>1, <3>2, Lengths DEF Inv, Typed, TypeOK
  <2> HIDE DEF m
  <2>4. Good(f)
    BY <1>1, <2>2, <2>3, BoundIsGood DEF IsSource, Inv
  <2>5. PICK j, k \in DOMAIN program.text[f] : j # k /\ program.text[f][j].alias = program.text[f][k].alias
    BY <2>1, <2>4 DEF SameIdentTwice
  <2>6. IsSource(m) /\ TextOf(m) = program.text[f]
    BY <2>2, <2>3 DEF IsSource, TextOf
  <2>7. j \in Nat \ {0} /\ k \in Nat \ {0}
    BY <1>1, <2>4, <2>5, Kept, StatementTyped DEF Inv, Good
  <2>8. Passed(m, j) /\ Passed(m, k)
    <3>1. m < current
      BY <1>1, <2>3, Kept, Lengths DEF Inv, Declared, Typed
    <3> QED
      BY <2>5, <2>6, <3>1 DEF Passed
  <2>9. IsDone(m, j) /\ IsDone(m, k)
    BY <1>1, <2>3, <2>5, <2>6, <2>8 DEF Inv, Declared, AllPassed
  <2>10. j \in 1 .. k - 1 \/ k \in 1 .. j - 1
    BY <2>5, <2>7
  <2> QED
    BY <2>5, <2>6, <2>9, <2>10 DEF IsDone
<1>2. ASSUME Inv, pc = "failed" PROVE Faulty /\ errors # <<>>
  BY <1>2 DEF Inv, Found
<1>3. Inv => ErrorsExact
  BY <1>1, <1>2 DEF ErrorsExact
<1> QED
  BY <1>3, DiscoveryInv, PTL

(* After a success every import is a symbol of the importing module for    *)
(* the module of the file that the import leads to from there.             *)
THEOREM ImportsAreBound == Spec => []ImportsBound
<1>1. Inv => ImportsBound
  <2> SUFFICES ASSUME Inv, pc = "done", NEW m \in DOMAIN modules, modules[m].file # ACU_NULL_IDX
               PROVE  /\ modules[m].stage = "bound"
                      /\ \A s \in ImportsOf(files[modules[m].file]) :
                           \E n \in DOMAIN modules :
                             /\ modules[n].file # ACU_NULL_IDX
                             /\ files[modules[n].file] = Lead(files[modules[m].file], s.name)
                             /\ Bound(m, s, n)
    BY DEF ImportsBound
  <2>1. IsSource(m) /\ m < current
    BY Kept, Lengths DEF IsSource, Inv, Declared, Typed
  <2>2. modules[m].stage = "bound"
    BY <2>1 DEF Inv, Declared, BoundBefore
  <2>3. ASSUME NEW s \in ImportsOf(files[modules[m].file])
        PROVE  \E n \in DOMAIN modules :
                 /\ modules[n].file # ACU_NULL_IDX
                 /\ files[modules[n].file] = Lead(files[modules[m].file], s.name)
                 /\ Bound(m, s, n)
    <3>1. PICK k \in DOMAIN TextOf(m) : TextOf(m)[k] = s /\ s.kind = "import" /\ ~ IsVirtual(s.name)
      BY DEF ImportsOf, Statements, TextOf
    <3>2. Passed(m, k)
      BY <2>1 DEF Passed
    <3>3. PICK i \in DOMAIN symbols : IsSymbolOf(m, k, i)
      BY <2>1, <3>2 DEF Inv, Declared, AllPassed, IsDone
    <3> QED
      BY <3>1, <3>3 DEF IsSymbolOf, IsSource, Bound
  <2> QED
    BY <2>2, <2>3
<1> QED
  BY <1>1, DiscoveryInv, PTL
=============================================================================
