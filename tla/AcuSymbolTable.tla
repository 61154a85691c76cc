--------------------------- MODULE AcuSymbolTable ---------------------------
(***************************************************************************)
(* The symbol table (src/table/symbol_table.c): one hash table with open   *)
(* addressing for the symbols of all scopes.                               *)
(*                                                                         *)
(* A call runs to its end before the next one starts; it is cut into the   *)
(* steps of its loops (pc), so that whether a probe ends and what it has   *)
(* passed are properties of the model and not of an operator.  Symbols and *)
(* scopes are numbered from 1; of a symbol only its key matters here.      *)
(*                                                                         *)
(* The hash is any function of name and scope.  The capacity is a power of *)
(* 2 in the code, so that "& mask" is the remainder; the steps only need   *)
(* that they go around the table.                                          *)
(***************************************************************************)
EXTENDS Integers, Sequences, FiniteSets

CONSTANTS
  Names,
  ACU_NULL_IDX,     (* no scope, no symbol, an empty slot                  *)
  InitialCapacity,  (* slots of a new table (4096)                         *)
  Hashes,           (* the hash functions considered                       *)
  MaxScopes, MaxSymbols  (* bounds of a run                                *)

ASSUME CapacityAssumption == InitialCapacity \in Nat /\ InitialCapacity >= 4

ASSUME NullAssumption == ACU_NULL_IDX \notin Int

ASSUME HashesAssumption ==
  /\ MaxScopes \in Nat /\ MaxSymbols \in Nat
  /\ Hashes \subseteq [Names \X (1 .. MaxScopes) -> Nat]

VARIABLES
  hash_of,     (* HashNameAndScope                                         *)
  scopes,      (* the parent of every scope                                *)
  symbols,     (* name and scope of every symbol                           *)
  capacity, hash_table, count,
  pc,          (* the loop the current call is in                          *)
  arg,         (* its arguments                                            *)
  current,     (* Lookup: the scope it looks at                            *)
  idx,         (* the slot it looks at                                     *)
  new_ht, at,  (* Rehash: the table it fills and the slot it moves         *)
  answer       (* what a lookup returns                                    *)

vars == <<hash_of, scopes, symbols, capacity, hash_table, count, pc, arg, current, idx, new_ht, at, answer>>

Empty(size) == [i \in 0 .. size - 1 |-> [hash |-> 0, sym_id |-> ACU_NULL_IDX]]

NoCall == [ask |-> "nothing"]

NoAnswer == [of |-> NoCall, symbol |-> ACU_NULL_IDX]

Init ==
  /\ hash_of \in Hashes
  /\ scopes = <<>> /\ symbols = <<>>
  /\ capacity = InitialCapacity /\ hash_table = Empty(InitialCapacity) /\ count = 0
  /\ pc = "idle" /\ arg = NoCall /\ current = ACU_NULL_IDX /\ idx = 0
  /\ new_ht = <<>> /\ at = 0
  /\ answer = NoAnswer
-----------------------------------------------------------------------------
PushScope(p) ==
  /\ pc = "idle" /\ Len(scopes) < MaxScopes
  /\ scopes' = Append(scopes, p)
  /\ UNCHANGED <<hash_of, symbols, capacity, hash_table, count, pc, arg, current, idx, new_ht, at, answer>>

HashNameAndScope(n, s) == hash_of[<<n, s>>]

Home(hash, size) == hash % size

After(i, size) == IF i = size - 1 THEN 0 ELSE i + 1

Used(ht, i) == ht[i].sym_id # ACU_NULL_IDX

(* The local variables of a call are gone when it returns.                 *)
Returned ==
  pc' = "idle" /\ arg' = NoCall /\ current' = ACU_NULL_IDX /\ idx' = 0 /\ new_ht' = <<>> /\ at' = 0

SameKey(n, s) ==
  /\ hash_table[idx].hash = HashNameAndScope(n, s)
  /\ symbols[hash_table[idx].sym_id] = [name |-> n, scope |-> s]
-----------------------------------------------------------------------------
(* AcuSymbolTable_Add                                                      *)

(* Mutant: the table is enlarged only when it is full.                     *)
IsFull == count >= capacity

IsCrowded == count * 4 >= capacity * 3

StartAdd(n, s) ==
  /\ pc = "idle" /\ Len(symbols) < MaxSymbols
  /\ arg' = [ask |-> "add", name |-> n, scope |-> s]
  /\ IF IsCrowded
     THEN pc' = "rehash" /\ new_ht' = Empty(capacity * 2) /\ at' = 0 /\ idx' = idx
     ELSE pc' = "add" /\ idx' = Home(HashNameAndScope(n, s), capacity) /\ UNCHANGED <<new_ht, at>>
  /\ UNCHANGED <<hash_of, scopes, symbols, capacity, hash_table, count, current, answer>>

SkipSlot ==
  /\ pc = "rehash" /\ at < capacity /\ ~ Used(hash_table, at)
  /\ at' = at + 1
  /\ UNCHANGED <<hash_of, scopes, symbols, capacity, hash_table, count, pc, arg, current, idx, new_ht, answer>>

(* Mutant: a slot keeps the index its hash has in the old table.           *)
MoveToOldHome ==
  /\ pc = "rehash" /\ at < capacity /\ Used(hash_table, at)
  /\ pc' = "place" /\ idx' = Home(hash_table[at].hash, capacity)
  /\ UNCHANGED <<hash_of, scopes, symbols, capacity, hash_table, count, arg, current, new_ht, at, answer>>

MoveSlot ==
  /\ pc = "rehash" /\ at < capacity /\ Used(hash_table, at)
  /\ pc' = "place" /\ idx' = Home(hash_table[at].hash, capacity * 2)
  /\ UNCHANGED <<hash_of, scopes, symbols, capacity, hash_table, count, arg, current, new_ht, at, answer>>

PassPlace ==
  /\ pc = "place" /\ Used(new_ht, idx)
  /\ idx' = After(idx, capacity * 2)
  /\ UNCHANGED <<hash_of, scopes, symbols, capacity, hash_table, count, pc, arg, current, new_ht, at, answer>>

PlaceSlot ==
  /\ pc = "place" /\ ~ Used(new_ht, idx)
  /\ new_ht' = [new_ht EXCEPT ![idx] = hash_table[at]]
  /\ pc' = "rehash" /\ at' = at + 1
  /\ UNCHANGED <<hash_of, scopes, symbols, capacity, hash_table, count, arg, current, idx, answer>>

EndRehash ==
  /\ pc = "rehash" /\ at = capacity
  /\ hash_table' = new_ht /\ capacity' = capacity * 2
  /\ pc' = "add" /\ idx' = Home(HashNameAndScope(arg.name, arg.scope), capacity * 2)
  /\ new_ht' = <<>> /\ at' = 0
  /\ UNCHANGED <<hash_of, scopes, symbols, count, arg, current, answer>>

PassAdd ==
  /\ pc = "add" /\ Used(hash_table, idx) /\ ~ SameKey(arg.name, arg.scope)
  /\ idx' = After(idx, capacity)
  /\ UNCHANGED <<hash_of, scopes, symbols, capacity, hash_table, count, pc, arg, current, new_ht, at, answer>>

Symbol == [name |-> arg.name, scope |-> arg.scope]

(* Mutant: the slot of a name that is declared again keeps the old symbol. *)
ReplaceKeepsOld ==
  /\ pc = "add" /\ Used(hash_table, idx) /\ SameKey(arg.name, arg.scope)
  /\ symbols' = Append(symbols, Symbol)
  /\ Returned
  /\ UNCHANGED <<hash_of, scopes, capacity, hash_table, count, answer>>

Replace ==
  /\ pc = "add" /\ Used(hash_table, idx) /\ SameKey(arg.name, arg.scope)
  /\ symbols' = Append(symbols, Symbol)
  /\ hash_table' = [hash_table EXCEPT ![idx].sym_id = Len(symbols) + 1]
  /\ Returned
  /\ UNCHANGED <<hash_of, scopes, capacity, count, answer>>

Insert ==
  /\ pc = "add" /\ ~ Used(hash_table, idx)
  /\ symbols' = Append(symbols, Symbol)
  /\ hash_table' = [hash_table EXCEPT ![idx] =
                      [hash |-> HashNameAndScope(arg.name, arg.scope), sym_id |-> Len(symbols) + 1]]
  /\ count' = count + 1
  /\ Returned
  /\ UNCHANGED <<hash_of, scopes, capacity, answer>>
-----------------------------------------------------------------------------
(* AcuSymbolTable_Lookup and AcuSymbolTable_LookupExact                    *)

Answered(r) == answer' = [of |-> arg, symbol |-> r] /\ pc' = "return"

StartLookup(how, n, s) ==
  /\ pc = "idle"
  /\ arg' = [ask |-> how, name |-> n, scope |-> s]
  /\ pc' = "scope" /\ current' = s
  /\ UNCHANGED <<hash_of, scopes, symbols, capacity, hash_table, count, idx, new_ht, at, answer>>

LookInScope ==
  /\ pc = "scope" /\ current # ACU_NULL_IDX
  /\ pc' = "find" /\ idx' = Home(HashNameAndScope(arg.name, current), capacity)
  /\ UNCHANGED <<hash_of, scopes, symbols, capacity, hash_table, count, arg, current, new_ht, at, answer>>

NoScopeLeft ==
  /\ pc = "scope" /\ current = ACU_NULL_IDX
  /\ Answered(ACU_NULL_IDX)
  /\ UNCHANGED <<hash_of, scopes, symbols, capacity, hash_table, count, arg, current, idx, new_ht, at>>

PassFind ==
  /\ pc = "find" /\ Used(hash_table, idx) /\ ~ SameKey(arg.name, current)
  /\ idx' = After(idx, capacity)
  /\ UNCHANGED <<hash_of, scopes, symbols, capacity, hash_table, count, pc, arg, current, new_ht, at, answer>>

Hit ==
  /\ pc = "find" /\ Used(hash_table, idx) /\ SameKey(arg.name, current)
  /\ Answered(hash_table[idx].sym_id)
  /\ UNCHANGED <<hash_of, scopes, symbols, capacity, hash_table, count, arg, current, idx, new_ht, at>>

Miss ==
  /\ pc = "find" /\ ~ Used(hash_table, idx)
  /\ IF arg.ask = "exact"
     THEN Answered(ACU_NULL_IDX) /\ UNCHANGED current
     ELSE pc' = "scope" /\ current' = scopes[current] /\ UNCHANGED answer
  /\ UNCHANGED <<hash_of, scopes, symbols, capacity, hash_table, count, arg, idx, new_ht, at>>

Return ==
  /\ pc = "return" /\ Returned
  /\ answer' = NoAnswer
  /\ UNCHANGED <<hash_of, scopes, symbols, capacity, hash_table, count>>
-----------------------------------------------------------------------------
Step ==
  \/ SkipSlot \/ MoveSlot \/ PassPlace \/ PlaceSlot \/ EndRehash
  \/ PassAdd \/ Replace \/ Insert
  \/ LookInScope \/ NoScopeLeft \/ PassFind \/ Hit \/ Miss \/ Return

Next ==
  \/ \E p \in DOMAIN scopes \union {ACU_NULL_IDX} : PushScope(p)
  \/ \E n \in Names, s \in DOMAIN scopes : StartAdd(n, s)
  \/ \E how \in {"exact", "enclosing"}, n \in Names, s \in DOMAIN scopes \union {ACU_NULL_IDX} :
       StartLookup(how, n, s)
  \/ Step

Spec == Init /\ [][Next]_vars

(* A call that was made runs.                                              *)
FairSpec == Spec /\ WF_vars(Step)
-----------------------------------------------------------------------------
(* Properties                                                              *)

UsedSlots(ht) == {i \in DOMAIN ht : Used(ht, i)}

Slot == [hash : Nat, sym_id : DOMAIN symbols \union {ACU_NULL_IDX}]

Adding == [ask : {"add"}, name : Names, scope : DOMAIN scopes]

Asking == [ask : {"exact", "enclosing"}, name : Names, scope : DOMAIN scopes \union {ACU_NULL_IDX}]

(* Every symbol id in the table is one of a symbol, every probe is within  *)
(* the table it probes, and a scope is declared behind its parent.         *)
TypeOK ==
  /\ hash_of \in Hashes
  /\ scopes \in Seq(Nat \union {ACU_NULL_IDX}) /\ Len(scopes) <= MaxScopes
  /\ \A s \in DOMAIN scopes : scopes[s] \in 1 .. s - 1 \union {ACU_NULL_IDX}
  /\ symbols \in Seq([name : Names, scope : DOMAIN scopes])
  /\ capacity \in Nat /\ capacity >= InitialCapacity
  /\ hash_table \in [0 .. capacity - 1 -> Slot]
  /\ count \in Nat
  /\ pc \in {"idle", "rehash", "place", "add", "scope", "find", "return"}
  /\ arg \in (IF pc = "idle" THEN {NoCall}
             ELSE IF pc \in {"rehash", "place", "add"} THEN Adding ELSE Asking)
  /\ current \in DOMAIN scopes \union {ACU_NULL_IDX} /\ (pc = "find" => current # ACU_NULL_IDX)
  /\ pc \in {"rehash", "place"} =>
       /\ new_ht \in [0 .. capacity * 2 - 1 -> Slot]
       /\ at \in 0 .. capacity /\ (pc = "place" => at < capacity)
  /\ pc = "place" => idx \in 0 .. capacity * 2 - 1
  /\ pc \in {"add", "find"} => idx \in 0 .. capacity - 1
  /\ IF pc = "return" THEN answer.of = arg /\ answer.symbol \in DOMAIN symbols \union {ACU_NULL_IDX}
     ELSE answer = NoAnswer

(* The probe sequence of a hash reaches slot i before slot k.              *)
Before(home, k, i) == IF home <= i THEN home <= k /\ k < i ELSE home <= k \/ k < i

(* Open addressing: nobody finds a symbol behind an empty slot.  Every     *)
(* used slot is reached from the home of its hash over used slots, in the  *)
(* table and in the one a rehash fills, and no key has two slots.          *)
Reached(ht, size) ==
  \A i \in UsedSlots(ht) :
    /\ ht[i].hash = HashNameAndScope(symbols[ht[i].sym_id].name, symbols[ht[i].sym_id].scope)
    /\ \A k \in 0 .. size - 1 : Before(Home(ht[i].hash, size), k, i) => Used(ht, k)
    /\ \A j \in UsedSlots(ht) : symbols[ht[i].sym_id] = symbols[ht[j].sym_id] => i = j

WellProbed ==
  /\ Reached(hash_table, capacity)
  /\ pc \in {"rehash", "place"} => Reached(new_ht, capacity * 2)

(* count is the number of used slots, and one slot is always left empty,   *)
(* without which the probe for an unknown name would not end.              *)
RoomLeft ==
  /\ count = Cardinality(UsedSlots(hash_table))
  /\ count < capacity

Question == IF pc \in {"scope", "find"} THEN arg ELSE NoCall

(* A lookup finds the latest symbol of the name in the innermost scope     *)
(* that declares it, across enlargements of the table.                     *)
Abstract == INSTANCE AcuScopes WITH question <- Question

ScopesSpec == Abstract!Spec

(* Every call returns.                                                     *)
CallsReturn == [](pc # "idle" => <>(pc = "idle"))
=============================================================================
