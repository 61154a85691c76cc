---------------------------- MODULE AcuDiscovery ----------------------------
(***************************************************************************)
(* Passes 1 and 2 of the analyzer (src/analyzer/analyzer_pass1.c,          *)
(* analyzer_pass2.c) with the module manager (src/module/module_manager.c) *)
(* and the file manager (src/fs/file_manager.c).                           *)
(*                                                                         *)
(* Pass 1 parses the main file and puts the files that its imports lead to *)
(* on a stack of work; a file that already has a module is skipped.  Pass  *)
(* 2 visits the modules and makes symbols of their declarations and        *)
(* imports.  It resolves every import a second time, and the file manager  *)
(* has to come to the same file.                                           *)
(*                                                                         *)
(* Of a file only its imports and the names it declares matter.  Where a   *)
(* name leads from the directory of an importer is part of the program:    *)
(* the disk does not change while the compiler runs.                       *)
(*                                                                         *)
(* The name of a work item is a view into the pool of string literals,     *)
(* which later parsing may move; reading such a name is undefined.         *)
(* FileIds, ModuleIds and scopes are numbered from 1.                      *)
(***************************************************************************)
EXTENDS Integers, Sequences, FiniteSets

CONSTANTS
  Files,         (* absolute paths                                         *)
  Names,         (* what stands behind "import"                            *)
  Idents,        (* names of declarations and aliases of imports           *)
  VirtualNames,  (* the names of the builtin modules, as registered        *)
  Missing,       (* where a name leads that no file has                    *)
  ACU_NULL_IDX,
  Programs       (* see IsProgram                                          *)

Imports == [kind : {"import"}, name : Names, alias : Idents]

Declarations == [kind : {"decl"}, alias : Idents]

(* leads is realpath() of the directory of the importer (or the working    *)
(* directory) and the name with its extension.                             *)
IsProgram(p) ==
  /\ p.main \in Names
  /\ p.leads \in [(Files \union {ACU_NULL_IDX}) \X Names -> Files \union {Missing}]
  /\ p.text \in [Files -> Seq(Imports \union Declarations)]
  /\ p.broken \subseteq Files          (* the parser reports errors        *)
  /\ p.unreadable \subseteq Files      (* Acu_LoadFile fails               *)

ASSUME ProgramsAssumption == \A p \in Programs : IsProgram(p)

ASSUME NullAssumption == ACU_NULL_IDX \notin Nat \union Files /\ Missing \notin Files

ASSUME VirtualAssumption == VirtualNames \in Seq(Names) /\ Len(VirtualNames) \in Nat

VARIABLES
  program,         (* the files on disk                                    *)
  pc,              (* open, discover, scan: pass 1; bind: pass 2; done,    *)
                   (* failed, undefined                                    *)
  files,           (* the entries of the file manager                      *)
  file_to_module,  (* the module of a FileId                               *)
  modules,         (* a virtual module has no file                         *)
  work_que,        (* the stack of work items                              *)
  current,         (* pass 1: the file scanned, pass 2: the module bound   *)
  at,              (* its statement                                        *)
  main_module_id,
  symbols,         (* as far as modules declare them                       *)
  errors

vars == <<program, pc, files, file_to_module, modules, work_que, current, at,
          main_module_id, symbols, errors>>

Virtual == [file |-> ACU_NULL_IDX, stage |-> "unprocessed"]

Symbol(scope, name, target) == [scope |-> scope, name |-> name, target |-> target]

(* AcuBuiltin_RegisterAll: the builtin modules are declared in the scope   *)
(* with the number 0, which is that of the first of them.                  *)
Init ==
  /\ program \in Programs
  /\ pc = "open" /\ files = <<>> /\ file_to_module = <<>>
  /\ modules = [m \in 1 .. Len(VirtualNames) |-> Virtual]
  /\ symbols = [m \in 1 .. Len(VirtualNames) |-> Symbol(1, VirtualNames[m], m)]
  /\ work_que = <<>> /\ current = 0 /\ at = 1
  /\ main_module_id = ACU_NULL_IDX /\ errors = <<>>
-----------------------------------------------------------------------------
(* AcuFileManager_ResolveAndLoad                                           *)

Loaded == {files[i] : i \in DOMAIN files}

Lead(importer, name) == program.leads[<<importer, name>>]

Status(path) ==
  IF path = Missing THEN "FILE_NOT_FOUND"
  ELSE IF path \notin Loaded /\ path \in program.unreadable THEN "READ_FAILED"
  ELSE "OK"

FilesWith(path) == IF path \in Loaded THEN files ELSE Append(files, path)

FileId(path) == IF path \in Loaded THEN CHOOSE i \in DOMAIN files : files[i] = path
                ELSE Len(files) + 1
-----------------------------------------------------------------------------
(* Module manager                                                          *)

IsVirtual(name) == \E m \in DOMAIN VirtualNames : VirtualNames[m] = name

VirtualModule(name) == CHOOSE m \in DOMAIN VirtualNames : VirtualNames[m] = name

ModuleOfFile(file) == IF file \in DOMAIN file_to_module THEN file_to_module[file] ELSE ACU_NULL_IDX

(* file_to_module with an entry for the file.                              *)
Grown(file) ==
  [i \in 1 .. (IF file > Len(file_to_module) THEN file ELSE Len(file_to_module)) |->
     IF i <= Len(file_to_module) THEN file_to_module[i] ELSE ACU_NULL_IDX]
-----------------------------------------------------------------------------
(* Pass 1                                                                  *)

(* The name of the main module comes from the command line, the others     *)
(* from the pool of literals.                                              *)
WorkItem(file, name, literal) == [file |-> file, name |-> name, literal |-> literal, stale |-> FALSE]

Open ==
  /\ pc = "open"
  /\ LET path == Lead(ACU_NULL_IDX, program.main)
     IN  IF Status(path) # "OK"
         THEN /\ errors' = Append(errors, Status(path)) /\ pc' = "failed"
              /\ UNCHANGED <<files, work_que>>
         ELSE /\ files' = FilesWith(path)
              /\ work_que' = <<WorkItem(FileId(path), program.main, FALSE)>>
              /\ pc' = "discover" /\ UNCHANGED errors
  /\ UNCHANGED <<program, file_to_module, modules, current, at, main_module_id, symbols>>

Item == work_que[Len(work_que)]

(* Mutant: the oldest item is dropped and the newest one served.           *)
RestOfQueue == Tail(work_que)

Rest == SubSeq(work_que, 1, Len(work_que) - 1)

Taking == pc = "discover" /\ work_que # <<>>

(* The main file is the first that was loaded.                             *)
MainIs(m) == main_module_id' = IF Item.file = 1 THEN m ELSE main_module_id

(* Mutant: an item is looked at and not taken.                             *)
AlreadyParsedStays ==
  /\ Taking /\ ModuleOfFile(Item.file) # ACU_NULL_IDX
  /\ MainIs(ModuleOfFile(Item.file))
  /\ UNCHANGED <<program, pc, files, file_to_module, modules, work_que, current, at, symbols, errors>>

(* A source module is marked as parsed by the action that creates it.      *)
AlreadyParsed ==
  /\ Taking /\ ModuleOfFile(Item.file) # ACU_NULL_IDX
  /\ MainIs(ModuleOfFile(Item.file))
  /\ work_que' = Rest
  /\ UNCHANGED <<program, pc, files, file_to_module, modules, current, at, symbols, errors>>

Parsing == Taking /\ ModuleOfFile(Item.file) = ACU_NULL_IDX

Broken == files[Item.file] \in program.broken

(* Parsing adds the literals of the file to the pool; if that moves the    *)
(* pool, views into it are stale.                                          *)
RestAfter(moved) == [i \in DOMAIN Rest |-> [Rest[i] EXCEPT !.stale = @ \/ (moved /\ Rest[i].literal)]]

IsStale(moved) == Item.stale \/ (moved /\ Item.literal)

(* Mutant: the errors of the parser are not copied.                        *)
SyntaxErrorsLost(moved) ==
  /\ Parsing /\ Broken
  /\ work_que' = RestAfter(moved)
  /\ UNCHANGED <<program, pc, files, file_to_module, modules, current, at, main_module_id, symbols, errors>>

SyntaxErrors(moved) ==
  /\ Parsing /\ Broken
  /\ errors' = Append(errors, "SYNTAX")
  /\ work_que' = RestAfter(moved)
  /\ UNCHANGED <<program, pc, files, file_to_module, modules, current, at, main_module_id, symbols>>

Scan(file) == pc' = "scan" /\ current' = file /\ at' = 1

(* GetOrCreate makes a module; a stale name equals no builtin one here.    *)
NewModule(moved) ==
  /\ Parsing /\ ~ Broken /\ ~ IsVirtual(Item.name)
  /\ modules' = Append(modules, [file |-> Item.file, stage |-> "parsed"])
  /\ file_to_module' = [Grown(Item.file) EXCEPT ![Item.file] = Len(modules) + 1]
  /\ MainIs(Len(modules) + 1)
  /\ work_que' = RestAfter(moved) /\ Scan(Item.file)
  /\ UNCHANGED <<program, files, symbols, errors>>

(* Only the main module can have the name of a builtin one: GetOrCreate    *)
(* looks at the names first and answers with the builtin module.           *)
TakeVirtual(moved) ==
  /\ Parsing /\ ~ Broken /\ IsVirtual(Item.name)
  /\ modules' = [modules EXCEPT ![VirtualModule(Item.name)].stage = "parsed"]
  /\ MainIs(VirtualModule(Item.name))
  /\ work_que' = RestAfter(moved) /\ Scan(Item.file)
  /\ UNCHANGED <<program, files, file_to_module, symbols, errors>>

(* The memory behind a stale name is gone, or reads like the name of a     *)
(* builtin module.                                                         *)
ReadStaleName(moved) ==
  /\ Parsing /\ ~ Broken /\ IsStale(moved)
  /\ pc' = "undefined"
  /\ UNCHANGED <<program, files, file_to_module, modules, work_que, current, at, main_module_id, symbols, errors>>

Text == program.text[files[current]]

Statement == Text[at]

Scanning == pc = "scan" /\ at <= Len(Text)

NeedsFile == Statement.kind = "import" /\ ~ IsVirtual(Statement.name)

NothingToLoad ==
  /\ Scanning /\ ~ NeedsFile
  /\ at' = at + 1
  /\ UNCHANGED <<program, pc, files, file_to_module, modules, work_que, current, main_module_id, symbols, errors>>

Path == Lead(files[current], Statement.name)

ImportFails ==
  /\ Scanning /\ NeedsFile
  /\ Status(Path) # "OK"
  /\ errors' = Append(errors, Status(Path))
  /\ at' = at + 1
  /\ UNCHANGED <<program, pc, files, file_to_module, modules, work_que, current, main_module_id, symbols>>

QueueImport ==
  /\ Scanning /\ NeedsFile
  /\ Status(Path) = "OK"
  /\ files' = FilesWith(Path)
  /\ work_que' = Append(work_que, WorkItem(FileId(Path), Statement.name, TRUE))
  /\ at' = at + 1
  /\ UNCHANGED <<program, pc, file_to_module, modules, current, main_module_id, symbols, errors>>

EndScan ==
  /\ pc = "scan" /\ at > Len(Text)
  /\ pc' = "discover" /\ current' = 0 /\ at' = 1
  /\ UNCHANGED <<program, files, file_to_module, modules, work_que, main_module_id, symbols, errors>>

EndDiscovery ==
  /\ pc = "discover" /\ work_que = <<>>
  /\ pc' = IF errors = <<>> /\ main_module_id # ACU_NULL_IDX THEN "bind" ELSE "failed"
  /\ current' = 1
  /\ UNCHANGED <<program, files, file_to_module, modules, work_que, at, main_module_id, symbols, errors>>
-----------------------------------------------------------------------------
(* Pass 2                                                                  *)

Visiting == pc = "bind" /\ current <= Len(modules)

SkipModule ==
  /\ Visiting /\ modules[current].stage = "unprocessed"
  /\ current' = current + 1
  /\ UNCHANGED <<program, pc, files, file_to_module, modules, work_que, at, main_module_id, symbols, errors>>

(* The syntax tree of a builtin module is the node 0, whatever that is.    *)
BindVirtual ==
  /\ Visiting /\ modules[current].stage # "unprocessed" /\ modules[current].file = ACU_NULL_IDX
  /\ pc' = "undefined"
  /\ UNCHANGED <<program, files, file_to_module, modules, work_que, current, at, main_module_id, symbols, errors>>

ModuleText == program.text[files[modules[current].file]]

Binding ==
  /\ Visiting /\ modules[current].stage # "unprocessed" /\ modules[current].file # ACU_NULL_IDX
  /\ at <= Len(ModuleText)

IsDeclared(scope, name) == \E i \in DOMAIN symbols : symbols[i].scope = scope /\ symbols[i].name = name

Redefined ==
  /\ Binding /\ IsDeclared(current, ModuleText[at].alias)
  /\ errors' = Append(errors, "REDEFINITION")
  /\ at' = at + 1
  /\ UNCHANGED <<program, pc, files, file_to_module, modules, work_que, current, main_module_id, symbols>>

BindDeclaration ==
  /\ Binding /\ ModuleText[at].kind = "decl" /\ ~ IsDeclared(current, ModuleText[at].alias)
  /\ symbols' = Append(symbols, Symbol(current, ModuleText[at].alias, ACU_NULL_IDX))
  /\ at' = at + 1
  /\ UNCHANGED <<program, pc, files, file_to_module, modules, work_que, current, main_module_id, errors>>

(* Mutant: the second resolution starts at the working directory.          *)
ResolvedFromMain == Lead(files[1], ModuleText[at].name)

ResolvedAgain == Lead(files[modules[current].file], ModuleText[at].name)

(* An import that cannot be resolved is an error; one whose file has no    *)
(* module is left without a symbol.                                        *)
BindImport ==
  /\ Binding /\ ModuleText[at].kind = "import" /\ ~ IsDeclared(current, ModuleText[at].alias)
  /\ LET name == ModuleText[at].name
         target == IF IsVirtual(name) THEN VirtualModule(name) ELSE ModuleOfFile(FileId(ResolvedAgain))
     IN  IF ~ IsVirtual(name) /\ Status(ResolvedAgain) # "OK"
         THEN errors' = Append(errors, Status(ResolvedAgain)) /\ UNCHANGED <<files, symbols>>
         ELSE /\ files' = IF IsVirtual(name) THEN files ELSE FilesWith(ResolvedAgain)
              /\ symbols' = IF target = ACU_NULL_IDX THEN symbols
                            ELSE Append(symbols, Symbol(current, ModuleText[at].alias, target))
              /\ UNCHANGED errors
  /\ at' = at + 1
  /\ UNCHANGED <<program, pc, file_to_module, modules, work_que, current, main_module_id>>

EndModule ==
  /\ Visiting /\ modules[current].stage # "unprocessed" /\ modules[current].file # ACU_NULL_IDX
  /\ at > Len(ModuleText)
  /\ modules' = [modules EXCEPT ![current].stage = "bound"]
  /\ current' = current + 1 /\ at' = 1
  /\ UNCHANGED <<program, pc, files, file_to_module, work_que, main_module_id, symbols, errors>>

EndBinding ==
  /\ pc = "bind" /\ current > Len(modules)
  /\ pc' = IF errors = <<>> THEN "done" ELSE "failed"
  /\ UNCHANGED <<program, files, file_to_module, modules, work_que, current, at, main_module_id, symbols, errors>>
-----------------------------------------------------------------------------
Parse(moved) == SyntaxErrors(moved) \/ NewModule(moved) \/ TakeVirtual(moved) \/ ReadStaleName(moved)

Pass1 ==
  \/ Open \/ AlreadyParsed \/ NothingToLoad \/ ImportFails \/ QueueImport \/ EndScan \/ EndDiscovery
  \/ \E moved \in BOOLEAN : Parse(moved)

Pass2 == SkipModule \/ BindVirtual \/ Redefined \/ BindDeclaration \/ BindImport \/ EndModule \/ EndBinding

Next == Pass1 \/ Pass2

Spec == Init /\ [][Next]_vars /\ WF_vars(Next)
-----------------------------------------------------------------------------
(* Properties                                                              *)

(* The entries of file_to_module and the files of the source modules are   *)
(* inverse to each other: a file is loaded once and has at most one module.*)
TypeOK ==
  /\ IsProgram(program)
  /\ pc \in {"open", "discover", "scan", "bind", "done", "failed", "undefined"}
  /\ files \in Seq(Files) /\ \A i, j \in DOMAIN files : files[i] = files[j] => i = j
  /\ modules \in Seq([file : DOMAIN files \union {ACU_NULL_IDX}, stage : {"unprocessed", "parsed", "bound"}])
  /\ file_to_module \in Seq(DOMAIN modules \union {ACU_NULL_IDX})
  /\ \A m \in DOMAIN modules, f \in DOMAIN files : modules[m].file = f <=> ModuleOfFile(f) = m
  /\ work_que \in Seq([file : DOMAIN files, name : Names, literal : BOOLEAN, stale : BOOLEAN])
  /\ pc = "scan" => current \in DOMAIN files
  /\ current \in Nat /\ at \in Nat \ {0}
  /\ main_module_id \in DOMAIN modules \union {ACU_NULL_IDX}
  /\ \A i \in DOMAIN symbols :
       symbols[i].scope \in DOMAIN modules /\ symbols[i].target \in DOMAIN modules \union {ACU_NULL_IDX}
  /\ errors \in Seq({"FILE_NOT_FOUND", "READ_FAILED", "SYNTAX", "REDEFINITION"})

MainFile == Lead(ACU_NULL_IDX, program.main)

Good(f) == f \in Files \ (program.broken \union program.unreadable)

Statements(f) == {program.text[f][i] : i \in DOMAIN program.text[f]}

ImportsOf(f) == {s \in Statements(f) : s.kind = "import" /\ ~ IsVirtual(s.name)}

ImportedBy(f) == {Lead(f, s.name) : s \in ImportsOf(f)}

ClosedUnderImports(S) == MainFile \in S /\ \A f \in S : Good(f) => ImportedBy(f) \subseteq S

(* What the main file leads to, Missing included.                          *)
Reachable == {f \in Files \union {Missing} : \A S \in SUBSET (Files \union {Missing}) : ClosedUnderImports(S) => f \in S}

SourceFiles == {files[modules[m].file] : m \in {n \in DOMAIN modules : modules[n].file # ACU_NULL_IDX}}

(* When both passes succeed the source modules are exactly the files that  *)
(* the main file leads to: no import is lost when the stack is worked off  *)
(* newest first, with cycles and with files that are imported twice; and   *)
(* the module whose statements the code generator compiles is that of the  *)
(* main file, also when other modules import it back.                      *)
ModulesAreImports ==
  pc = "done" =>
    /\ SourceFiles = Reachable
    /\ main_module_id # ACU_NULL_IDX /\ modules[main_module_id].file # ACU_NULL_IDX
    /\ files[modules[main_module_id].file] = MainFile

SameIdentTwice(f) ==
  \E i, j \in DOMAIN program.text[f] : i # j /\ program.text[f][i].alias = program.text[f][j].alias

Faulty == \E f \in Reachable : ~ Good(f) \/ SameIdentTwice(f)

(* A program is refused exactly if a file that it leads to is missing,     *)
(* unreadable, does not parse, or declares a name twice; and a refusal     *)
(* has an error to print.                                                  *)
ErrorsExact ==
  /\ pc = "done" => ~ Faulty
  /\ pc = "failed" => Faulty /\ errors # <<>>

Bound(m, s, target) == \E i \in DOMAIN symbols : symbols[i] = Symbol(m, s.alias, target)

(* After a success every import is a symbol of the importing module's own  *)
(* scope for the module of the file that the import leads to from there:   *)
(* pass 2 finds again what pass 1 has loaded.                              *)
ImportsBound ==
  pc = "done" =>
    \A m \in DOMAIN modules :
      modules[m].file # ACU_NULL_IDX =>
        LET f == files[modules[m].file]
        IN  /\ modules[m].stage = "bound"
            /\ \A s \in ImportsOf(f) :
                 \E n \in DOMAIN modules :
                   modules[n].file # ACU_NULL_IDX /\ files[modules[n].file] = Lead(f, s.name) /\ Bound(m, s, n)

(* Discovery ends, whatever imports whatever.                              *)
DiscoveryEnds == <>(pc \in {"done", "failed", "undefined"})
=============================================================================
