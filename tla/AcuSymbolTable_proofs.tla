----------------------- MODULE AcuSymbolTable_proofs -----------------------
(***************************************************************************)
(* Proofs about AcuSymbolTable, for any hash functions, any initial        *)
(* capacity from 4 and any number of names, scopes and symbols.            *)
(*                                                                         *)
(* The facts about open addressing are lemmas about one table, with the    *)
(* table and its size as parameters.  The inductive invariant Inv says of  *)
(* each loop what it has passed: a probe has passed used slots with other  *)
(* keys (Probing, Placing), a rehash has copied the slots before at and    *)
(* nothing else (Moving), and the table has the latest symbol of every key *)
(* (Tables).  Counted adds how full the table is; Climbed adds the scopes  *)
(* an enclosing lookup has left, for the refinement.                       *)
(***************************************************************************)
EXTENDS AcuSymbolTable, FiniteSetTheorems, SequenceTheorems, TLAPS

LEMMA HomeTyped ==
  ASSUME NEW h \in Nat, NEW size \in Nat, size >= 1
  PROVE  Home(h, size) \in 0 .. size - 1
  BY DEF Home

LEMMA AfterTyped ==
  ASSUME NEW size \in Nat, NEW i \in 0 .. size - 1
  PROVE  After(i, size) \in 0 .. size - 1
  BY DEF After

(* Going on by one slot passes that slot and no other.                     *)
LEMMA AfterPasses ==
  ASSUME NEW size \in Nat, NEW home \in 0 .. size - 1, NEW i \in 0 .. size - 1, NEW k \in 0 .. size - 1,
         Before(home, k, After(i, size))
  PROVE  k = i \/ Before(home, k, i)
  BY DEF Before, After

LEMMA BeforeSelf ==
  ASSUME NEW home \in Nat, NEW k \in Nat
  PROVE  ~ Before(home, k, home)
  BY DEF Before

LEMMA BeforeTotal ==
  ASSUME NEW size \in Nat, NEW home \in 0 .. size - 1, NEW i \in 0 .. size - 1, NEW j \in 0 .. size - 1, i # j
  PROVE  Before(home, i, j) \/ Before(home, j, i)
  BY DEF Before
-----------------------------------------------------------------------------
(* One table                                                               *)

SlotOf(n) == [hash : Nat, sym_id : 1 .. n \union {ACU_NULL_IDX}]

TableOf(size, n) == [0 .. size - 1 -> SlotOf(n)]

KeyAt(syms, ht, i) == syms[ht[i].sym_id]

HashOf(hf, key) == hf[<<key.name, key.scope>>]

ReachedIn(hf, syms, ht, size) ==
  \A i \in UsedSlots(ht) :
    /\ ht[i].hash = HashOf(hf, KeyAt(syms, ht, i))
    /\ \A k \in 0 .. size - 1 : Before(Home(ht[i].hash, size), k, i) => Used(ht, k)
    /\ \A j \in UsedSlots(ht) : KeyAt(syms, ht, i) = KeyAt(syms, ht, j) => i = j

LEMMA ReachedIs ==
  ASSUME NEW ht, NEW size
  PROVE  Reached(ht, size) <=> ReachedIn(hash_of, symbols, ht, size)
  BY DEF Reached, ReachedIn, HashNameAndScope, HashOf, KeyAt

LEMMA UsedTyped ==
  ASSUME NEW n \in Nat, NEW size \in Nat, NEW ht \in [0 .. size - 1 -> SlotOf(n)], NEW i \in UsedSlots(ht)
  PROVE  i \in 0 .. size - 1 /\ Used(ht, i) /\ ht[i].hash \in Nat /\ ht[i].sym_id \in 1 .. n
  BY DEF UsedSlots, Used, SlotOf

(* A probe that has passed other keys only and meets an empty slot: the    *)
(* key is nowhere.                                                         *)
LEMMA EmptyEndsProbe ==
  ASSUME NEW hf, NEW syms, NEW n \in Nat, NEW size \in Nat,
         NEW ht \in [0 .. size - 1 -> SlotOf(n)], ReachedIn(hf, syms, ht, size),
         NEW key, HashOf(hf, key) \in Nat, NEW i \in 0 .. size - 1, ~ Used(ht, i),
         \A k \in 0 .. size - 1 :
           Before(Home(HashOf(hf, key), size), k, i) => Used(ht, k) /\ KeyAt(syms, ht, k) # key,
         NEW j \in UsedSlots(ht)
  PROVE  KeyAt(syms, ht, j) # key
<1> DEFINE home == Home(HashOf(hf, key), size)
<1> SUFFICES ASSUME KeyAt(syms, ht, j) = key PROVE FALSE
  OBVIOUS
<1>1. j \in 0 .. size - 1 /\ Used(ht, j) /\ j # i /\ home \in 0 .. size - 1
  <2>1. j \in 0 .. size - 1 /\ Used(ht, j)
    BY UsedTyped
  <2>2. size >= 1
    OBVIOUS
  <2> QED
    BY <2>1, <2>2, HomeTyped
<1>2. ~ Before(home, i, j)
  BY DEF ReachedIn
<1>3. Before(home, j, i)
  BY <1>1, <1>2, BeforeTotal
<1> QED
  BY <1>1, <1>3

(* Empty slot i is where the probe for a key that is nowhere has ended.    *)
Fits(hf, syms, ht, size, slot, i) ==
  /\ slot.sym_id # ACU_NULL_IDX /\ slot.hash = HashOf(hf, syms[slot.sym_id]) /\ ~ Used(ht, i)
  /\ \A k \in 0 .. size - 1 : Before(Home(slot.hash, size), k, i) => Used(ht, k)
  /\ \A j \in UsedSlots(ht) : KeyAt(syms, ht, j) # syms[slot.sym_id]

Filled(ht, i, slot) == [ht EXCEPT ![i] = slot]

(* Filling the slot that such a probe has met.                             *)
LEMMA FillUsesSlot ==
  ASSUME NEW n \in Nat, NEW size \in Nat, NEW ht \in TableOf(size, n), NEW slot, slot.sym_id # ACU_NULL_IDX,
         NEW i \in 0 .. size - 1, ~ Used(ht, i)
  PROVE  UsedSlots(Filled(ht, i, slot)) = UsedSlots(ht) \union {i} /\ i \notin UsedSlots(ht)
  BY DEF UsedSlots, Used, Filled, TableOf

LEMMA FillKeepsReached ==
  ASSUME NEW hf, NEW syms, NEW n \in Nat, NEW size \in Nat,
         NEW ht \in TableOf(size, n), ReachedIn(hf, syms, ht, size),
         NEW slot \in SlotOf(n), NEW i \in 0 .. size - 1, Fits(hf, syms, ht, size, slot, i)
  PROVE  /\ ReachedIn(hf, syms, Filled(ht, i, slot), size)
         /\ Filled(ht, i, slot) \in TableOf(size, n)
<1> DEFINE t == Filled(ht, i, slot)
<1>0. /\ slot.sym_id # ACU_NULL_IDX /\ slot.hash = HashOf(hf, syms[slot.sym_id]) /\ ~ Used(ht, i)
      /\ \A k \in 0 .. size - 1 : Before(Home(slot.hash, size), k, i) => Used(ht, k)
      /\ \A j \in UsedSlots(ht) : KeyAt(syms, ht, j) # syms[slot.sym_id]
  BY DEF Fits
<1>1. /\ t \in [0 .. size - 1 -> SlotOf(n)] /\ t[i] = slot
      /\ \A k \in 0 .. size - 1 : k # i => t[k] = ht[k]
  BY DEF Filled, TableOf
<1> HIDE DEF t
<1>2. \A k \in 0 .. size - 1 : Used(t, k) <=> k = i \/ Used(ht, k)
  BY <1>0, <1>1 DEF Used
<1>3. UsedSlots(t) = UsedSlots(ht) \union {i} /\ i \notin UsedSlots(ht)
  BY <1>0, <1>1, <1>2 DEF UsedSlots, TableOf
<1>4. \A k \in UsedSlots(ht) : k \in 0 .. size - 1 /\ k # i /\ t[k] = ht[k]
  BY <1>1, <1>3, UsedTyped DEF TableOf
<1>5. KeyAt(syms, t, i) = syms[slot.sym_id] /\ \A k \in UsedSlots(ht) : KeyAt(syms, t, k) = KeyAt(syms, ht, k)
  BY <1>1, <1>4 DEF KeyAt
<1>6. ASSUME NEW k \in UsedSlots(t)
      PROVE  /\ t[k].hash = HashOf(hf, KeyAt(syms, t, k))
             /\ \A m \in 0 .. size - 1 : Before(Home(t[k].hash, size), m, k) => Used(t, m)
             /\ \A j \in UsedSlots(t) : KeyAt(syms, t, k) = KeyAt(syms, t, j) => k = j
  <2>1. CASE k = i
    BY <1>0, <1>1, <1>2, <1>3, <1>5, <2>1
  <2>2. CASE k \in UsedSlots(ht)
    <3>1. t[k].hash = HashOf(hf, KeyAt(syms, t, k))
      BY <1>4, <1>5, <2>2 DEF ReachedIn
    <3>2. \A m \in 0 .. size - 1 : Before(Home(t[k].hash, size), m, k) => Used(t, m)
      BY <1>2, <1>4, <2>2 DEF ReachedIn
    <3>3. \A j \in UsedSlots(t) : KeyAt(syms, t, k) = KeyAt(syms, t, j) => k = j
      BY <1>0, <1>3, <1>5, <2>2 DEF ReachedIn
    <3> QED
      BY <3>1, <3>2, <3>3
  <2> QED
    BY <1>3, <2>1, <2>2
<1>7. ReachedIn(hf, syms, t, size)
  BY <1>6 DEF ReachedIn
<1> QED
  BY <1>1, <1>3, <1>7 DEF t, TableOf

(* A later symbol of the same key in the slot of the earlier one.          *)
Relabelled(ht, i, id) == [ht EXCEPT ![i].sym_id = id]

SameSlots(ht, t) == UsedSlots(t) = UsedSlots(ht)

LEMMA ReplaceKeepsReached ==
  ASSUME NEW hf, NEW syms, NEW n \in Nat, NEW size \in Nat,
         NEW ht \in TableOf(size, n), ReachedIn(hf, syms, ht, size),
         NEW i \in UsedSlots(ht), NEW id \in 1 .. n, syms[id] = KeyAt(syms, ht, i)
  PROVE  ReachedIn(hf, syms, Relabelled(ht, i, id), size) /\ SameSlots(ht, Relabelled(ht, i, id))
<1> DEFINE t == Relabelled(ht, i, id)
<1>1. i \in 0 .. size - 1 /\ ht[i] \in SlotOf(n)
  BY UsedTyped DEF TableOf
<1>2. /\ t \in [0 .. size - 1 -> SlotOf(n)] /\ t[i].hash = ht[i].hash /\ t[i].sym_id = id
      /\ \A k \in 0 .. size - 1 : k # i => t[k] = ht[k]
  BY <1>1 DEF SlotOf, TableOf, Relabelled
<1> HIDE DEF t
<1>3. \A k \in 0 .. size - 1 : /\ Used(t, k) <=> Used(ht, k)
                               /\ t[k].hash = ht[k].hash /\ KeyAt(syms, t, k) = KeyAt(syms, ht, k)
  BY <1>2, UsedTyped, NullAssumption DEF Used, KeyAt, TableOf
<1>4. UsedSlots(t) = UsedSlots(ht)
  BY <1>2, <1>3 DEF UsedSlots, TableOf
<1>5. \A k \in UsedSlots(ht) : k \in 0 .. size - 1
  BY UsedTyped DEF TableOf
<1>6. ReachedIn(hf, syms, t, size)
  BY <1>3, <1>4, <1>5 DEF ReachedIn
<1> QED
  BY <1>4, <1>6 DEF t, SameSlots

LEMMA EmptyTable ==
  ASSUME NEW size \in Nat, NEW n \in Nat, NEW hf, NEW syms
  PROVE  /\ Empty(size) \in [0 .. size - 1 -> SlotOf(n)] /\ UsedSlots(Empty(size)) = {}
         /\ ReachedIn(hf, syms, Empty(size), size)
<1>1. Empty(size) \in [0 .. size - 1 -> SlotOf(n)]
  BY DEF Empty, SlotOf
<1>2. UsedSlots(Empty(size)) = {}
  BY DEF UsedSlots, Used, Empty
<1> QED
  BY <1>1, <1>2 DEF ReachedIn
-----------------------------------------------------------------------------
(* Types                                                                   *)

LEMMA Facts ==
  ASSUME TypeOK
  PROVE  /\ Len(symbols) \in Nat /\ DOMAIN symbols = 1 .. Len(symbols)
         /\ Len(scopes) \in Nat /\ DOMAIN scopes = 1 .. Len(scopes)
         /\ capacity \in Nat /\ capacity >= 4
         /\ hash_table \in [0 .. capacity - 1 -> SlotOf(Len(symbols))]
         /\ pc \in {"rehash", "place"} => new_ht \in [0 .. capacity * 2 - 1 -> SlotOf(Len(symbols))]
         /\ \A n \in Names, s \in DOMAIN scopes : HashNameAndScope(n, s) \in Nat
         /\ \A i \in DOMAIN symbols : /\ symbols[i].name \in Names /\ symbols[i].scope \in DOMAIN scopes
                                     /\ symbols[i] = [name |-> symbols[i].name, scope |-> symbols[i].scope]
<1>1. /\ Len(symbols) \in Nat /\ DOMAIN symbols = 1 .. Len(symbols)
      /\ Len(scopes) \in Nat /\ DOMAIN scopes = 1 .. Len(scopes)
      /\ capacity \in Nat /\ capacity >= 4
  BY CapacityAssumption DEF TypeOK
<1>2. /\ hash_table \in [0 .. capacity - 1 -> SlotOf(Len(symbols))]
      /\ pc \in {"rehash", "place"} => new_ht \in [0 .. capacity * 2 - 1 -> SlotOf(Len(symbols))]
  BY <1>1 DEF TypeOK, Slot, SlotOf
<1>3. ASSUME NEW n \in Names, NEW s \in DOMAIN scopes PROVE HashNameAndScope(n, s) \in Nat
  <2>1. s \in 1 .. MaxScopes
    BY <1>1, HashesAssumption DEF TypeOK
  <2>2. hash_of \in [Names \X (1 .. MaxScopes) -> Nat]
    BY HashesAssumption DEF TypeOK
  <2>3. <<n, s>> \in Names \X (1 .. MaxScopes)
    BY <2>1
  <2> QED
    BY <2>2, <2>3 DEF HashNameAndScope
<1>4. ASSUME NEW i \in DOMAIN symbols
      PROVE  /\ symbols[i].name \in Names /\ symbols[i].scope \in DOMAIN scopes
             /\ symbols[i] = [name |-> symbols[i].name, scope |-> symbols[i].scope]
  <2>1. symbols[i] \in [name : Names, scope : DOMAIN scopes]
    BY <1>1, ElementOfSeq DEF TypeOK
  <2> QED
    BY <2>1
<1> QED
  BY <1>1, <1>2, <1>3, <1>4

LEMMA TypeInit == Init => TypeOK
<1> SUFFICES ASSUME Init PROVE TypeOK
  OBVIOUS
<1>1. hash_table \in [0 .. capacity - 1 -> Slot]
  BY DEF Init, Empty, Slot
<1>2. scopes \in Seq(Nat \union {ACU_NULL_IDX}) /\ Len(scopes) <= MaxScopes /\ DOMAIN scopes = {}
  BY HashesAssumption DEF Init
<1>3. symbols \in Seq([name : Names, scope : DOMAIN scopes])
  BY DEF Init
<1> QED
  BY <1>1, <1>2, <1>3, CapacityAssumption DEF Init, TypeOK, NoCall, NoAnswer

(* Each kind of step keeps the types.                                      *)
LEMMA TypePushScope ==
  ASSUME TypeOK, NEW p \in DOMAIN scopes \union {ACU_NULL_IDX}, PushScope(p)
  PROVE  TypeOK'
<1>1. /\ scopes' = Append(scopes, p) /\ Len(scopes) < MaxScopes /\ pc = "idle"
      /\ UNCHANGED <<hash_of, symbols, capacity, hash_table, count, pc, arg, current, idx, new_ht, at, answer>>
  BY DEF PushScope
<1>2. Len(scopes) \in Nat /\ DOMAIN scopes = 1 .. Len(scopes) /\ p \in Nat \union {ACU_NULL_IDX}
  BY Facts
<1>3. /\ scopes' \in Seq(Nat \union {ACU_NULL_IDX}) /\ Len(scopes') = Len(scopes) + 1
      /\ DOMAIN scopes' = 1 .. Len(scopes) + 1
      /\ scopes'[Len(scopes) + 1] = p /\ \A s \in 1 .. Len(scopes) : scopes'[s] = scopes[s]
  BY <1>1, <1>2 DEF TypeOK
<1>4. \A s \in DOMAIN scopes' : scopes'[s] \in 1 .. s - 1 \union {ACU_NULL_IDX}
  <2> TAKE s \in DOMAIN scopes'
  <2>1. CASE s = Len(scopes) + 1
    BY <1>2, <1>3, <2>1
  <2>2. CASE s \in 1 .. Len(scopes)
    BY <1>2, <1>3, <2>2 DEF TypeOK
  <2> QED
    BY <1>2, <1>3, <2>1, <2>2
<1>5. symbols' \in Seq([name : Names, scope : DOMAIN scopes'])
  <2>1. symbols \in Seq([name : Names, scope : DOMAIN scopes]) /\ DOMAIN scopes \subseteq DOMAIN scopes'
    BY <1>2, <1>3 DEF TypeOK
  <2>2. [name : Names, scope : DOMAIN scopes] \subseteq [name : Names, scope : DOMAIN scopes']
    BY <2>1
  <2>3. Seq([name : Names, scope : DOMAIN scopes]) \subseteq Seq([name : Names, scope : DOMAIN scopes'])
    BY <2>2, SeqMonotonic
  <2> QED
    BY <1>1, <2>1, <2>3
<1>6. Len(scopes') <= MaxScopes
  BY <1>1, <1>2, <1>3, HashesAssumption
<1> QED
  BY <1>1, <1>2, <1>3, <1>4, <1>5, <1>6 DEF TypeOK, Slot, Used

(* The parts of TypeOK about the table and about the running call.         *)
TableTyped ==
  /\ hash_of \in Hashes
  /\ scopes \in Seq(Nat \union {ACU_NULL_IDX}) /\ Len(scopes) <= MaxScopes
  /\ \A s \in DOMAIN scopes : scopes[s] \in 1 .. s - 1 \union {ACU_NULL_IDX}
  /\ symbols \in Seq([name : Names, scope : DOMAIN scopes])
  /\ capacity \in Nat /\ capacity >= InitialCapacity
  /\ hash_table \in [0 .. capacity - 1 -> Slot]
  /\ count \in Nat

CallTyped ==
  /\ pc \in {"idle", "rehash", "place", "add", "scope", "find", "return"}
  /\ arg \in (IF pc = "idle" THEN {NoCall}
             ELSE IF pc \in {"rehash", "place", "add"} THEN Adding ELSE Asking)
  /\ current \in DOMAIN scopes \union {ACU_NULL_IDX} /\ (pc = "find" => current # ACU_NULL_IDX)
  /\ pc \in {"rehash", "place"} =>
       /\ new_ht \in [0 .. capacity * 2 - 1 -> Slot]
       /\ at \in 0 .. capacity /\ (pc = "place" => at < capacity)
  /\ pc = "place" => idx \in 0 .. capacity * 2 - 1
  /\ pc \in {"add", "find"} => idx \in 0 .. capacity - 1
  /\ IF pc = "return" THEN answer.of = arg /\ answer.symbol \in DOMAIN symbols \union {ACU_NULL_IDX}
     ELSE answer = NoAnswer

Table == <<hash_of, scopes, symbols, capacity, hash_table, count>>

LEMMA TableStays ==
  ASSUME TypeOK, UNCHANGED Table
  PROVE  /\ TableTyped'
         /\ Slot' = Slot /\ Adding' = Adding /\ Asking' = Asking
         /\ scopes' = scopes /\ symbols' = symbols /\ capacity' = capacity
  BY DEF TypeOK, TableTyped, Table, Slot, Adding, Asking

LEMMA TypeStartAdd ==
  ASSUME TypeOK, NEW n \in Names, NEW s \in DOMAIN scopes, StartAdd(n, s)
  PROVE  TypeOK'
<1>1. /\ TableTyped'
      /\ Slot' = Slot /\ Adding' = Adding /\ Asking' = Asking
      /\ scopes' = scopes /\ symbols' = symbols /\ capacity' = capacity
  BY TableStays DEF StartAdd, Table
<1>2. capacity \in Nat /\ capacity >= 4 /\ HashNameAndScope(n, s) \in Nat
  BY Facts
<1>3. Home(HashNameAndScope(n, s), capacity) \in 0 .. capacity - 1
  BY <1>2, HomeTyped
<1>4. Empty(capacity * 2) \in [0 .. capacity * 2 - 1 -> Slot]
  BY DEF Empty, Slot
<1>5. arg' \in Adding
  BY DEF StartAdd, Adding
<1>6. current \in DOMAIN scopes \union {ACU_NULL_IDX} /\ current' = current /\ answer' = NoAnswer
  BY DEF StartAdd, TypeOK
<1>7. CallTyped'
  <2>1. CASE IsCrowded
    <3>1. pc' = "rehash" /\ new_ht' = Empty(capacity * 2) /\ at' = 0
      BY <2>1 DEF StartAdd
    <3> QED
      BY <1>1, <1>2, <1>4, <1>5, <1>6, <3>1 DEF CallTyped
  <2>2. CASE ~ IsCrowded
    <3>1. pc' = "add" /\ idx' = Home(HashNameAndScope(n, s), capacity)
      BY <2>2 DEF StartAdd
    <3> QED
      BY <1>1, <1>3, <1>5, <1>6, <3>1 DEF CallTyped
  <2> QED
    BY <2>1, <2>2
<1> QED
  BY <1>1, <1>7 DEF TypeOK, TableTyped, CallTyped

LEMMA TypeRehash ==
  ASSUME TypeOK, SkipSlot \/ MoveSlot \/ PassPlace \/ PlaceSlot
  PROVE  TypeOK'
<1>1. /\ TableTyped'
      /\ Slot' = Slot /\ Adding' = Adding /\ Asking' = Asking
      /\ scopes' = scopes /\ symbols' = symbols /\ capacity' = capacity
  BY TableStays DEF SkipSlot, MoveSlot, PassPlace, PlaceSlot, Table
<1>2. capacity \in Nat /\ capacity >= 4
  BY Facts
<1>3. /\ pc \in {"rehash", "place"} /\ arg \in Adding /\ answer = NoAnswer
      /\ new_ht \in [0 .. capacity * 2 - 1 -> Slot] /\ at \in 0 .. capacity - 1
      /\ current \in DOMAIN scopes \union {ACU_NULL_IDX}
      /\ UNCHANGED <<arg, current, answer>>
  BY <1>2 DEF SkipSlot, MoveSlot, PassPlace, PlaceSlot, TypeOK
<1>4. /\ pc' \in {"rehash", "place"} /\ at' \in 0 .. capacity /\ (pc' = "place" => at' < capacity)
      /\ new_ht' \in [0 .. capacity * 2 - 1 -> Slot]
      /\ pc' = "place" => idx' \in 0 .. capacity * 2 - 1
  <2>1. CASE SkipSlot
    BY <1>2, <1>3, <2>1 DEF SkipSlot
  <2>2. CASE MoveSlot
    <3>1. hash_table[at].hash \in Nat
      BY <1>2, <1>3 DEF TypeOK, Slot
    <3>2. capacity * 2 \in Nat /\ capacity * 2 >= 1
      BY <1>2
    <3>3. Home(hash_table[at].hash, capacity * 2) \in 0 .. capacity * 2 - 1
      BY <3>1, <3>2, HomeTyped
    <3> QED
      BY <1>2, <1>3, <2>2, <3>3 DEF MoveSlot
  <2>3. CASE PassPlace
    <3>1. After(idx, capacity * 2) \in 0 .. capacity * 2 - 1
      BY <1>2, <2>3, AfterTyped DEF PassPlace, TypeOK
    <3> QED
      BY <1>2, <1>3, <2>3, <3>1 DEF PassPlace
  <2>4. CASE PlaceSlot
    <3>1. hash_table[at] \in Slot
      BY <1>2, <1>3 DEF TypeOK
    <3>2. new_ht' \in [0 .. capacity * 2 - 1 -> Slot]
      BY <1>3, <2>4, <3>1 DEF PlaceSlot
    <3> QED
      BY <1>2, <1>3, <2>4, <3>2 DEF PlaceSlot
  <2> QED
    BY <2>1, <2>2, <2>3, <2>4
<1>5. CallTyped'
  BY <1>1, <1>3, <1>4 DEF CallTyped
<1> QED
  BY <1>1, <1>5 DEF TypeOK, TableTyped, CallTyped

LEMMA TypeEndRehash ==
  ASSUME TypeOK, EndRehash
  PROVE  TypeOK'
<1>1. capacity \in Nat /\ capacity >= 4 /\ arg \in Adding
  BY Facts DEF EndRehash, TypeOK
<1>2. HashNameAndScope(arg.name, arg.scope) \in Nat
  BY <1>1, Facts DEF Adding
<1>3. Home(HashNameAndScope(arg.name, arg.scope), capacity * 2) \in 0 .. capacity * 2 - 1
  BY <1>1, <1>2, HomeTyped
<1>4. hash_table' \in [0 .. capacity' - 1 -> Slot']
  BY DEF EndRehash, TypeOK, Slot
<1>5. TableTyped'
  BY <1>1, <1>4, CapacityAssumption DEF EndRehash, TypeOK, TableTyped
<1>6. CallTyped'
  BY <1>1, <1>3 DEF EndRehash, TypeOK, CallTyped, Slot, Adding
<1> QED
  BY <1>5, <1>6 DEF TypeOK, TableTyped, CallTyped

LEMMA TypeProbe ==
  ASSUME TypeOK, PassAdd \/ PassFind
  PROVE  TypeOK'
<1>1. TableTyped'
  BY TableStays DEF PassAdd, PassFind, Table
<1>2. capacity \in Nat /\ capacity >= 4 /\ pc \in {"add", "find"} /\ pc' = pc
  BY Facts DEF PassAdd, PassFind
<1>3. After(idx, capacity) \in 0 .. capacity - 1
  BY <1>2, AfterTyped DEF TypeOK
<1>4. CallTyped'
  BY <1>2, <1>3 DEF PassAdd, PassFind, TypeOK, CallTyped, Adding, Asking
<1> QED
  BY <1>1, <1>4 DEF TypeOK, TableTyped, CallTyped

LEMMA TypeLookup ==
  ASSUME TypeOK,
         \/ \E how \in {"exact", "enclosing"}, n \in Names, s \in DOMAIN scopes \union {ACU_NULL_IDX} :
              StartLookup(how, n, s)
         \/ LookInScope \/ NoScopeLeft \/ Hit \/ Miss \/ Return
  PROVE  TypeOK'
<1>1. /\ TableTyped'
      /\ Slot' = Slot /\ Adding' = Adding /\ Asking' = Asking
      /\ scopes' = scopes /\ symbols' = symbols /\ capacity' = capacity
  BY TableStays DEF StartLookup, LookInScope, NoScopeLeft, Hit, Miss, Return, Table
<1> SUFFICES CallTyped'
  BY <1>1 DEF TypeOK, TableTyped, CallTyped
<1>2. capacity \in Nat /\ capacity >= 4 /\ DOMAIN scopes = 1 .. Len(scopes) /\ Len(scopes) \in Nat
  BY Facts
<1>3. ASSUME NEW how \in {"exact", "enclosing"}, NEW n \in Names, NEW s \in DOMAIN scopes \union {ACU_NULL_IDX},
             StartLookup(how, n, s)
      PROVE  CallTyped'
  <2>1. /\ arg' \in Asking /\ pc' = "scope" /\ current' \in DOMAIN scopes \union {ACU_NULL_IDX}
        /\ answer' = NoAnswer
    BY <1>3 DEF StartLookup, Asking, TypeOK
  <2> QED
    BY <1>1, <2>1 DEF CallTyped, NoAnswer
<1>4. CASE LookInScope
  <2>1. arg \in Asking /\ current \in DOMAIN scopes /\ answer = NoAnswer
    BY <1>4 DEF LookInScope, TypeOK
  <2>2. HashNameAndScope(arg.name, current) \in Nat
    BY <2>1, Facts DEF Asking
  <2>3. Home(HashNameAndScope(arg.name, current), capacity) \in 0 .. capacity - 1
    <3>1. capacity >= 1
      BY <1>2
    <3> QED
      BY <1>2, <2>2, <3>1, HomeTyped
  <2>4. current # ACU_NULL_IDX /\ pc' = "find" /\ UNCHANGED <<arg, current, answer>>
        /\ idx' = Home(HashNameAndScope(arg.name, current), capacity)
    BY <1>4 DEF LookInScope
  <2> QED
    BY <1>1, <2>1, <2>3, <2>4 DEF CallTyped, NoAnswer
<1>5. ASSUME NEW r \in DOMAIN symbols \union {ACU_NULL_IDX}, Answered(r), pc \in {"scope", "find"},
             UNCHANGED <<arg, current>>
      PROVE  CallTyped'
  <2>1. arg \in Asking /\ current' = current /\ arg' = arg /\ current \in DOMAIN scopes \union {ACU_NULL_IDX}
    BY <1>5 DEF TypeOK
  <2>2. pc' = "return" /\ answer'.of = arg /\ answer'.symbol = r
    BY <1>5 DEF Answered
  <2> QED
    BY <1>1, <1>5, <2>1, <2>2 DEF CallTyped
<1>6. CASE NoScopeLeft
  BY <1>5, <1>6 DEF NoScopeLeft
<1>7. CASE Hit
  <2>1. hash_table[idx].sym_id \in DOMAIN symbols \union {ACU_NULL_IDX}
    BY <1>2, <1>7 DEF Hit, TypeOK, Slot
  <2> QED
    BY <1>5, <1>7, <2>1 DEF Hit
<1>8. CASE Miss
  <2>1. CASE arg.ask = "exact"
    BY <1>5, <1>8, <2>1 DEF Miss
  <2>2. CASE arg.ask # "exact"
    <3>1. current \in DOMAIN scopes /\ arg \in Asking /\ answer = NoAnswer
      BY <1>8 DEF Miss, TypeOK
    <3>2. scopes[current] \in DOMAIN scopes \union {ACU_NULL_IDX}
      BY <1>2, <3>1 DEF TypeOK
    <3>3. pc' = "scope" /\ current' = scopes[current] /\ UNCHANGED <<arg, answer>>
      BY <1>8, <2>2 DEF Miss
    <3> QED
      BY <1>1, <3>1, <3>2, <3>3 DEF CallTyped
  <2> QED
    BY <2>1, <2>2
<1>9. CASE Return
  <2>1. pc' = "idle" /\ arg' = NoCall /\ current' = ACU_NULL_IDX /\ answer' = NoAnswer
    BY <1>9 DEF Return, Returned
  <2> QED
    BY <2>1 DEF CallTyped
<1>10. CASE \E how \in {"exact", "enclosing"}, n \in Names, s \in DOMAIN scopes \union {ACU_NULL_IDX} :
              StartLookup(how, n, s)
  BY <1>3, <1>10
<1> QED
  BY <1>4, <1>6, <1>7, <1>8, <1>9, <1>10

(* The symbol an Add appends is the last one.                              *)
LEMMA NewSymbol ==
  ASSUME TypeOK, pc = "add", symbols' = Append(symbols, Symbol)
  PROVE  /\ Symbol \in [name : Names, scope : DOMAIN scopes]
         /\ symbols' \in Seq([name : Names, scope : DOMAIN scopes])
         /\ Len(symbols') = Len(symbols) + 1 /\ DOMAIN symbols' = 1 .. Len(symbols) + 1
         /\ symbols'[Len(symbols) + 1] = Symbol
         /\ \A i \in DOMAIN symbols : symbols'[i] = symbols[i]
<1>1. Symbol \in [name : Names, scope : DOMAIN scopes]
  BY DEF TypeOK, Symbol, Adding
<1>2. symbols \in Seq([name : Names, scope : DOMAIN scopes])
  BY DEF TypeOK
<1> QED
  BY <1>1, <1>2

LEMMA TypeAdd ==
  ASSUME TypeOK, Replace \/ Insert
  PROVE  TypeOK'
<1>1. /\ pc = "add" /\ symbols' = Append(symbols, Symbol) /\ Returned
      /\ UNCHANGED <<hash_of, scopes, capacity, answer>> /\ answer = NoAnswer
  BY DEF Replace, Insert, TypeOK
<1>2. /\ symbols' \in Seq([name : Names, scope : DOMAIN scopes])
      /\ Len(symbols) \in Nat /\ DOMAIN symbols = 1 .. Len(symbols) /\ DOMAIN symbols' = 1 .. Len(symbols) + 1
  BY <1>1, NewSymbol, Facts
<1>3. hash_table \in [0 .. capacity - 1 -> Slot'] /\ idx \in 0 .. capacity - 1
  BY <1>1, <1>2 DEF TypeOK, Slot
<1>4. hash_table[idx] \in Slot' /\ Len(symbols) + 1 \in DOMAIN symbols'
  BY <1>2, <1>3
<1>5. HashNameAndScope(arg.name, arg.scope) \in Nat
  BY <1>1, Facts DEF TypeOK, Adding
<1>6. hash_table' \in [0 .. capacity - 1 -> Slot']
  <2>1. CASE Replace
    <3>1. [hash_table[idx] EXCEPT !.sym_id = Len(symbols) + 1] \in Slot'
      BY <1>4 DEF Slot
    <3> QED
      BY <1>3, <2>1, <3>1 DEF Replace
  <2>2. CASE Insert
    <3>1. [hash |-> HashNameAndScope(arg.name, arg.scope), sym_id |-> Len(symbols) + 1] \in Slot'
      BY <1>4, <1>5 DEF Slot
    <3> QED
      BY <1>3, <2>2, <3>1 DEF Insert
  <2> QED
    BY <2>1, <2>2
<1>7. count' \in Nat
  BY DEF Replace, Insert, TypeOK
<1>8. TableTyped'
  BY <1>1, <1>2, <1>6, <1>7 DEF TypeOK, TableTyped
<1>9. CallTyped'
  BY <1>1 DEF Returned, CallTyped
<1> QED
  BY <1>8, <1>9 DEF TypeOK, TableTyped, CallTyped

LEMMA TypeStep ==
  ASSUME TypeOK, [Next]_vars
  PROVE  TypeOK'
<1>1. CASE UNCHANGED vars
  BY <1>1 DEF vars, TypeOK, Slot, Adding, Asking, Used
<1> QED
  BY <1>1, TypePushScope, TypeStartAdd, TypeRehash, TypeEndRehash, TypeProbe, TypeLookup, TypeAdd DEF Next, Step

(* For any hash functions every probe stays within the table it probes and *)
(* every slot has the id of a symbol.                                      *)
THEOREM SymbolsType == Spec => []TypeOK
  BY TypeInit, TypeStep, PTL DEF Spec
-----------------------------------------------------------------------------
(* Probes                                                                  *)

(* The probe for a key has passed used slots with other keys.              *)
PassedBy(hf, syms, ht, size, key, i) ==
  \A k \in 0 .. size - 1 :
    Before(Home(HashOf(hf, key), size), k, i) => Used(ht, k) /\ KeyAt(syms, ht, k) # key

(* A rehash has moved the slots before n, and nothing else.                *)
CopiedIn(ht, new, n) ==
  /\ \A i \in UsedSlots(ht) : i < n => \E j \in UsedSlots(new) : new[j] = ht[i]
  /\ \A j \in UsedSlots(new) : \E i \in UsedSlots(ht) : i < n /\ new[j] = ht[i]

(* Of the first n symbols the table has the latest one of every key.       *)
LatestIn(syms, ht, n) ==
  \A i \in 1 .. n : \E j \in UsedSlots(ht) : KeyAt(syms, ht, j) = syms[i] /\ i <= ht[j].sym_id

Wanted == [name |-> arg.name, scope |-> current]

Tables ==
  /\ ReachedIn(hash_of, symbols, hash_table, capacity)
  /\ LatestIn(symbols, hash_table, Len(symbols))

Moving ==
  pc \in {"rehash", "place"} =>
    /\ ReachedIn(hash_of, symbols, new_ht, capacity * 2)
    /\ CopiedIn(hash_table, new_ht, at)

Placing ==
  pc = "place" =>
    /\ Used(hash_table, at)
    /\ \A k \in 0 .. capacity * 2 - 1 : Before(Home(hash_table[at].hash, capacity * 2), k, idx) => Used(new_ht, k)

Probing ==
  /\ pc = "add" => PassedBy(hash_of, symbols, hash_table, capacity, Symbol, idx)
  /\ pc = "find" => PassedBy(hash_of, symbols, hash_table, capacity, Wanted, idx)

Inv == TypeOK /\ Tables /\ Moving /\ Placing /\ Probing

LEMMA InvInit == Init => Inv
<1> SUFFICES ASSUME Init PROVE Inv
  OBVIOUS
<1>1. TypeOK
  BY TypeInit
<1>2. hash_table = Empty(capacity) /\ symbols = <<>> /\ capacity \in Nat /\ Len(symbols) = 0 /\ pc = "idle"
  BY CapacityAssumption DEF Init
<1>3. ReachedIn(hash_of, symbols, hash_table, capacity)
  <2>1. ReachedIn(hash_of, symbols, Empty(capacity), capacity)
    BY <1>2, EmptyTable
  <2> QED
    BY <1>2, <2>1
<1>4. LatestIn(symbols, hash_table, Len(symbols))
  BY <1>2 DEF LatestIn
<1> QED
  BY <1>1, <1>2, <1>3, <1>4 DEF Inv, Tables, Moving, Placing, Probing

(* Steps that leave the table alone and start no loop.                     *)
LEMMA QuietStep ==
  ASSUME Inv, TypeOK', UNCHANGED <<hash_of, symbols, capacity, hash_table>>,
         pc' \notin {"rehash", "place", "add", "find"}
  PROVE  Inv'
  BY DEF Inv, Tables, Moving, Placing, Probing

(* A probe that starts has passed nothing.                                 *)
LEMMA ProbeStarts ==
  ASSUME NEW hf, NEW syms, NEW ht, NEW size \in Nat, size >= 1, NEW key, HashOf(hf, key) \in Nat
  PROVE  PassedBy(hf, syms, ht, size, key, Home(HashOf(hf, key), size))
<1>1. Home(HashOf(hf, key), size) \in Nat
  BY HomeTyped
<1> QED
  BY <1>1, BeforeSelf DEF PassedBy

LEMMA ProbeGoesOn ==
  ASSUME NEW hf, NEW syms, NEW ht, NEW size \in Nat, size >= 1, NEW key, HashOf(hf, key) \in Nat,
         NEW i \in 0 .. size - 1, PassedBy(hf, syms, ht, size, key, i), Used(ht, i), KeyAt(syms, ht, i) # key
  PROVE  PassedBy(hf, syms, ht, size, key, After(i, size))
<1>1. Home(HashOf(hf, key), size) \in 0 .. size - 1
  BY HomeTyped
<1> QED
  BY <1>1, AfterPasses DEF PassedBy

(* With the right hash in every slot the hashes need no comparison.        *)
LEMMA SameKeyIs ==
  ASSUME Inv, NEW n, NEW s, pc \in {"add", "find"}, Used(hash_table, idx)
  PROVE  SameKey(n, s) <=> KeyAt(symbols, hash_table, idx) = [name |-> n, scope |-> s]
<1>1. idx \in UsedSlots(hash_table)
  BY Facts DEF Inv, TypeOK, UsedSlots
<1>2. hash_table[idx].hash = HashOf(hash_of, KeyAt(symbols, hash_table, idx))
  BY <1>1 DEF Inv, Tables, ReachedIn
<1> QED
  BY <1>2 DEF SameKey, HashNameAndScope, HashOf, KeyAt

LEMMA KeysHashed ==
  ASSUME TypeOK
  PROVE  /\ pc = "add" => HashOf(hash_of, Symbol) = HashNameAndScope(arg.name, arg.scope) /\ HashOf(hash_of, Symbol) \in Nat
         /\ pc \in {"scope", "find"} /\ current # ACU_NULL_IDX =>
              HashOf(hash_of, Wanted) = HashNameAndScope(arg.name, current) /\ HashOf(hash_of, Wanted) \in Nat
<1>1. ASSUME pc = "add" PROVE arg.name \in Names /\ arg.scope \in DOMAIN scopes
  BY <1>1 DEF TypeOK, Adding
<1>2. ASSUME pc \in {"scope", "find"}, current # ACU_NULL_IDX PROVE arg.name \in Names /\ current \in DOMAIN scopes
  BY <1>2 DEF TypeOK, Asking
<1>3. HashOf(hash_of, Symbol) = HashNameAndScope(arg.name, arg.scope)
      /\ HashOf(hash_of, Wanted) = HashNameAndScope(arg.name, current)
  BY DEF HashOf, Symbol, Wanted, HashNameAndScope
<1> QED
  BY <1>1, <1>2, <1>3, Facts

LEMMA InvStartAdd ==
  ASSUME Inv, TypeOK', NEW n \in Names, NEW s \in DOMAIN scopes, StartAdd(n, s)
  PROVE  Inv'
<1>1. capacity \in Nat /\ capacity >= 4 /\ Len(symbols) \in Nat
      /\ hash_table \in [0 .. capacity - 1 -> SlotOf(Len(symbols))]
  BY Facts DEF Inv
<1>2. UNCHANGED <<hash_of, symbols, capacity, hash_table>>
      /\ arg' = [ask |-> "add", name |-> n, scope |-> s]
  BY DEF StartAdd
<1>3. Tables'
  BY <1>2 DEF Inv, Tables
<1>4. CASE IsCrowded
  <2>1. pc' = "rehash" /\ new_ht' = Empty(capacity * 2) /\ at' = 0
    BY <1>4 DEF StartAdd
  <2>2. ReachedIn(hash_of, symbols, Empty(capacity * 2), capacity * 2) /\ UsedSlots(Empty(capacity * 2)) = {}
    BY <1>1, EmptyTable
  <2>3. \A i \in UsedSlots(hash_table) : ~ (i < 0)
    BY <1>1, UsedTyped
  <2>4. CopiedIn(hash_table, Empty(capacity * 2), 0)
    BY <2>2, <2>3 DEF CopiedIn
  <2> QED
    BY <1>2, <1>3, <2>1, <2>2, <2>4 DEF Inv, Moving, Placing, Probing
<1>5. CASE ~ IsCrowded
  <2>1. pc' = "add" /\ idx' = Home(HashNameAndScope(n, s), capacity)
    BY <1>5 DEF StartAdd
  <2>2. Symbol' = [name |-> n, scope |-> s]
    BY <1>2 DEF Symbol
  <2>3. HashOf(hash_of, [name |-> n, scope |-> s]) = HashNameAndScope(n, s) /\ HashNameAndScope(n, s) \in Nat
    BY Facts DEF HashOf, HashNameAndScope, Inv
  <2>4. capacity >= 1
    BY <1>1
  <2>5. PassedBy(hash_of, symbols, hash_table, capacity, [name |-> n, scope |-> s], Home(HashNameAndScope(n, s), capacity))
    BY <1>1, <2>3, <2>4, ProbeStarts
  <2> QED
    BY <1>2, <1>3, <2>1, <2>2, <2>5 DEF Inv, Moving, Placing, Probing
<1> QED
  BY <1>4, <1>5

LEMMA InvMove ==
  ASSUME Inv, TypeOK', SkipSlot \/ MoveSlot \/ PassPlace
  PROVE  Inv'
<1>1. capacity \in Nat /\ capacity >= 4 /\ capacity * 2 \in Nat /\ capacity * 2 >= 1
      /\ hash_table \in [0 .. capacity - 1 -> SlotOf(Len(symbols))] /\ Len(symbols) \in Nat
  <2>1. capacity \in Nat /\ capacity >= 4 /\ hash_table \in [0 .. capacity - 1 -> SlotOf(Len(symbols))]
        /\ Len(symbols) \in Nat
    BY Facts DEF Inv
  <2> QED
    BY <2>1
<1>2. UNCHANGED <<hash_of, symbols, capacity, hash_table, new_ht>> /\ pc \in {"rehash", "place"}
      /\ pc' \in {"rehash", "place"}
  BY DEF SkipSlot, MoveSlot, PassPlace
<1>3. Tables'
  BY <1>2 DEF Inv, Tables
<1>4. at \in 0 .. capacity
  BY <1>2 DEF Inv, TypeOK
<1>5. CASE SkipSlot
  <2>1. ~ Used(hash_table, at) /\ at' = at + 1 /\ pc' = "rehash"
    BY <1>5 DEF SkipSlot
  <2>2. \A i \in UsedSlots(hash_table) : i < at + 1 <=> i < at
    <3> TAKE i \in UsedSlots(hash_table)
    <3>1. i \in 0 .. capacity - 1 /\ Used(hash_table, i)
      BY <1>1, UsedTyped
    <3>2. i # at
      BY <2>1, <3>1
    <3> QED
      BY <1>4, <3>1, <3>2
  <2>3. CopiedIn(hash_table, new_ht, at)
    BY <1>2 DEF Inv, Moving
  <2>4. CopiedIn(hash_table, new_ht, at + 1)
    BY <2>2, <2>3 DEF CopiedIn
  <2> QED
    BY <1>2, <1>3, <2>1, <2>4 DEF Inv, Moving, Placing, Probing
<1>6. CASE MoveSlot
  <2>1. Used(hash_table, at) /\ at < capacity /\ idx' = Home(hash_table[at].hash, capacity * 2)
        /\ pc' = "place" /\ at' = at
    BY <1>6 DEF MoveSlot
  <2>2. hash_table[at].hash \in Nat /\ capacity * 2 \in Nat /\ capacity * 2 >= 1
    BY <1>1, <1>4, <2>1 DEF SlotOf
  <2>3. Home(hash_table[at].hash, capacity * 2) \in 0 .. capacity * 2 - 1
    BY <2>2, HomeTyped
  <2>4. Placing'
    BY <1>2, <2>1, <2>3, BeforeSelf DEF Placing
  <2> QED
    BY <1>2, <1>3, <2>1, <2>4 DEF Inv, Moving, Probing
<1>7. CASE PassPlace
  <2>1. Used(new_ht, idx) /\ idx' = After(idx, capacity * 2) /\ pc = "place" /\ pc' = "place" /\ at' = at
        /\ idx \in 0 .. capacity * 2 - 1 /\ at \in 0 .. capacity - 1
    BY <1>1, <1>4, <1>7 DEF PassPlace, Inv, TypeOK
  <2>2. hash_table[at].hash \in Nat
    BY <1>1, <2>1 DEF SlotOf
  <2>3. Home(hash_table[at].hash, capacity * 2) \in 0 .. capacity * 2 - 1
    BY <1>1, <2>2, HomeTyped
  <2>4. Placing'
    BY <1>1, <1>2, <2>1, <2>3, AfterPasses DEF Placing, Inv
  <2> QED
    BY <1>2, <1>3, <2>1, <2>4 DEF Inv, Moving, Probing
<1> QED
  BY <1>5, <1>6, <1>7

LEMMA InvPlaceSlot ==
  ASSUME Inv, TypeOK', PlaceSlot
  PROVE  Inv'
<1> DEFINE slot == hash_table[at]
<1>1. /\ capacity \in Nat /\ capacity >= 4 /\ Len(symbols) \in Nat
      /\ hash_table \in [0 .. capacity - 1 -> SlotOf(Len(symbols))]
      /\ new_ht \in [0 .. capacity * 2 - 1 -> SlotOf(Len(symbols))]
      /\ at \in 0 .. capacity - 1 /\ idx \in 0 .. capacity * 2 - 1
  BY Facts DEF PlaceSlot, Inv, TypeOK
<1>2. /\ new_ht' = [new_ht EXCEPT ![idx] = slot] /\ at' = at + 1 /\ pc' = "rehash" /\ ~ Used(new_ht, idx)
      /\ UNCHANGED <<hash_of, symbols, capacity, hash_table>>
  BY DEF PlaceSlot
<1>3. Tables'
  BY <1>2 DEF Inv, Tables
<1>4. /\ ReachedIn(hash_of, symbols, hash_table, capacity)
      /\ ReachedIn(hash_of, symbols, new_ht, capacity * 2) /\ CopiedIn(hash_table, new_ht, at)
      /\ Used(hash_table, at)
      /\ \A k \in 0 .. capacity * 2 - 1 : Before(Home(slot.hash, capacity * 2), k, idx) => Used(new_ht, k)
  BY DEF PlaceSlot, Inv, Tables, Moving, Placing
<1>5. at \in UsedSlots(hash_table) /\ slot \in SlotOf(Len(symbols)) /\ slot.sym_id # ACU_NULL_IDX
  BY <1>1, <1>4 DEF UsedSlots, Used
<1>6. slot.hash = HashOf(hash_of, symbols[slot.sym_id])
  BY <1>4, <1>5 DEF ReachedIn, KeyAt
<1>7. ASSUME NEW j \in UsedSlots(new_ht), KeyAt(symbols, new_ht, j) = symbols[slot.sym_id] PROVE FALSE
  <2>1. PICK i \in UsedSlots(hash_table) : i < at /\ new_ht[j] = hash_table[i]
    BY <1>4 DEF CopiedIn
  <2>2. KeyAt(symbols, hash_table, i) = KeyAt(symbols, hash_table, at)
    BY <1>7, <2>1 DEF KeyAt
  <2>3. i = at
    BY <1>4, <1>5, <2>2 DEF ReachedIn
  <2> QED
    BY <1>1, <2>1, <2>3
<1> HIDE DEF slot
<1>8. capacity * 2 \in Nat
  BY <1>1
<1>9. Fits(hash_of, symbols, new_ht, capacity * 2, slot, idx)
  BY <1>2, <1>4, <1>5, <1>6, <1>7 DEF Fits
<1>10. /\ ReachedIn(hash_of, symbols, new_ht', capacity * 2)
       /\ UsedSlots(new_ht') = UsedSlots(new_ht) \union {idx} /\ idx \notin UsedSlots(new_ht)
  <2>1. new_ht' = Filled(new_ht, idx, slot)
    BY <1>2 DEF Filled
  <2> QED
    <3>1. new_ht \in TableOf(capacity * 2, Len(symbols))
      BY <1>1 DEF TableOf
    <3>2. Len(symbols) \in Nat /\ ReachedIn(hash_of, symbols, new_ht, capacity * 2) /\ slot \in SlotOf(Len(symbols))
      BY <1>1, <1>4, <1>5
    <3>3. idx \in 0 .. capacity * 2 - 1
      BY <1>1
    <3>4. ReachedIn(hash_of, symbols, Filled(new_ht, idx, slot), capacity * 2)
      BY <1>8, <1>9, <3>1, <3>2, <3>3, FillKeepsReached
    <3>5. UsedSlots(Filled(new_ht, idx, slot)) = UsedSlots(new_ht) \union {idx} /\ idx \notin UsedSlots(new_ht)
      BY <1>2, <1>5, <1>8, <3>1, <3>2, <3>3, FillUsesSlot
    <3> QED
      BY <2>1, <3>4, <3>5
<1>11. CopiedIn(hash_table, new_ht', at + 1)
  <2>1. \A j \in UsedSlots(new_ht) : j \in 0 .. capacity * 2 - 1 /\ new_ht'[j] = new_ht[j]
    BY <1>1, <1>2, <1>8, UsedTyped
  <2>2. new_ht'[idx] = hash_table[at] /\ UsedSlots(new_ht') = UsedSlots(new_ht) \union {idx}
    BY <1>1, <1>2, <1>10 DEF slot
  <2>3. \A i \in UsedSlots(hash_table) : i < at + 1 <=> i = at \/ i < at
    <3> TAKE i \in UsedSlots(hash_table)
    <3>1. i \in 0 .. capacity - 1
      BY <1>1, UsedTyped
    <3> QED
      BY <1>1, <3>1
  <2>4. ASSUME NEW i \in UsedSlots(hash_table), i < at + 1 PROVE \E j \in UsedSlots(new_ht') : new_ht'[j] = hash_table[i]
    BY <1>4, <2>1, <2>2, <2>3, <2>4 DEF CopiedIn
  <2>5. ASSUME NEW j \in UsedSlots(new_ht') PROVE \E i \in UsedSlots(hash_table) : i < at + 1 /\ new_ht'[j] = hash_table[i]
    BY <1>4, <1>5, <2>1, <2>2, <2>3 DEF CopiedIn
  <2> QED
    BY <2>4, <2>5 DEF CopiedIn
<1> QED
  BY <1>2, <1>3, <1>10, <1>11 DEF Inv, Moving, Placing, Probing

(* The new table has the slots of the old one.                             *)
LEMMA InvEndRehash ==
  ASSUME Inv, TypeOK', EndRehash
  PROVE  Inv'
<1>1. /\ capacity \in Nat /\ capacity >= 4 /\ Len(symbols) \in Nat
      /\ hash_table \in [0 .. capacity - 1 -> SlotOf(Len(symbols))]
  BY Facts DEF Inv
<1>2. /\ hash_table' = new_ht /\ capacity' = capacity * 2 /\ at = capacity /\ pc = "rehash" /\ pc' = "add"
      /\ UNCHANGED <<hash_of, symbols, arg>>
      /\ idx' = Home(HashNameAndScope(arg.name, arg.scope), capacity * 2)
  BY DEF EndRehash
<1>3. ReachedIn(hash_of, symbols, new_ht, capacity * 2) /\ CopiedIn(hash_table, new_ht, capacity)
      /\ LatestIn(symbols, hash_table, Len(symbols))
  BY <1>2 DEF Inv, Tables, Moving
<1>4. LatestIn(symbols, new_ht, Len(symbols))
  <2> SUFFICES ASSUME NEW i \in 1 .. Len(symbols)
               PROVE  \E j \in UsedSlots(new_ht) : KeyAt(symbols, new_ht, j) = symbols[i] /\ i <= new_ht[j].sym_id
    BY DEF LatestIn
  <2>1. PICK k \in UsedSlots(hash_table) : KeyAt(symbols, hash_table, k) = symbols[i] /\ i <= hash_table[k].sym_id
    BY <1>3 DEF LatestIn
  <2>2. k < capacity
    BY <1>1, UsedTyped
  <2>3. PICK j \in UsedSlots(new_ht) : new_ht[j] = hash_table[k]
    BY <1>3, <2>2 DEF CopiedIn
  <2> QED
    BY <2>1, <2>3 DEF KeyAt
<1>5. Tables'
  BY <1>2, <1>3, <1>4 DEF Tables
<1>6. arg \in Adding /\ Symbol' = Symbol
  BY <1>2 DEF Inv, TypeOK, Symbol
<1>7. HashOf(hash_of, Symbol) = HashNameAndScope(arg.name, arg.scope) /\ HashNameAndScope(arg.name, arg.scope) \in Nat
  BY <1>6, Facts DEF HashOf, Symbol, HashNameAndScope, Adding, Inv
<1>8. capacity * 2 \in Nat /\ capacity * 2 >= 1
  BY <1>1
<1>9. PassedBy(hash_of, symbols, new_ht, capacity * 2, Symbol, Home(HashOf(hash_of, Symbol), capacity * 2))
  BY <1>7, <1>8, ProbeStarts
<1>10. Probing'
  BY <1>2, <1>6, <1>7, <1>9 DEF Probing
<1> QED
  BY <1>2, <1>5, <1>10 DEF Inv, Moving, Placing

LEMMA InvProbe ==
  ASSUME Inv, TypeOK', PassAdd \/ PassFind \/ LookInScope
  PROVE  Inv'
<1>1. capacity \in Nat /\ capacity >= 1 /\ UNCHANGED <<hash_of, symbols, capacity, hash_table, arg, current>>
  <2>1. capacity \in Nat /\ capacity >= 4
    BY Facts DEF Inv
  <2> QED
    BY <2>1 DEF PassAdd, PassFind, LookInScope
<1>2. Tables' /\ Symbol' = Symbol /\ Wanted' = Wanted
  BY <1>1 DEF Inv, Tables, Symbol, Wanted
<1>3. CASE PassAdd
  <2>1. pc = "add" /\ pc' = "add" /\ Used(hash_table, idx) /\ idx' = After(idx, capacity)
        /\ ~ SameKey(arg.name, arg.scope)
    BY <1>3 DEF PassAdd
  <2>2. KeyAt(symbols, hash_table, idx) # Symbol
    BY <2>1, SameKeyIs DEF Symbol
  <2>3. idx \in 0 .. capacity - 1 /\ HashOf(hash_of, Symbol) \in Nat
    BY <2>1, KeysHashed DEF Inv, TypeOK
  <2>4. PassedBy(hash_of, symbols, hash_table, capacity, Symbol, idx)
    BY <2>1 DEF Inv, Probing
  <2>5. PassedBy(hash_of, symbols, hash_table, capacity, Symbol, After(idx, capacity))
    BY <1>1, <2>1, <2>2, <2>3, <2>4, ProbeGoesOn
  <2> QED
    BY <1>1, <1>2, <2>1, <2>5 DEF Inv, Moving, Placing, Probing
<1>4. CASE PassFind
  <2>1. pc = "find" /\ pc' = "find" /\ Used(hash_table, idx) /\ idx' = After(idx, capacity)
        /\ ~ SameKey(arg.name, current)
    BY <1>4 DEF PassFind
  <2>2. KeyAt(symbols, hash_table, idx) # Wanted
    BY <2>1, SameKeyIs DEF Wanted
  <2>3. idx \in 0 .. capacity - 1 /\ HashOf(hash_of, Wanted) \in Nat
    BY <2>1, KeysHashed DEF Inv, TypeOK
  <2>4. PassedBy(hash_of, symbols, hash_table, capacity, Wanted, idx)
    BY <2>1 DEF Inv, Probing
  <2>5. PassedBy(hash_of, symbols, hash_table, capacity, Wanted, After(idx, capacity))
    BY <1>1, <2>1, <2>2, <2>3, <2>4, ProbeGoesOn
  <2> QED
    BY <1>1, <1>2, <2>1, <2>5 DEF Inv, Moving, Placing, Probing
<1>5. CASE LookInScope
  <2>1. pc = "scope" /\ pc' = "find" /\ current # ACU_NULL_IDX
        /\ idx' = Home(HashNameAndScope(arg.name, current), capacity)
    BY <1>5 DEF LookInScope
  <2>2. HashOf(hash_of, Wanted) = HashNameAndScope(arg.name, current) /\ HashOf(hash_of, Wanted) \in Nat
    BY <2>1, KeysHashed DEF Inv
  <2>3. PassedBy(hash_of, symbols, hash_table, capacity, Wanted, Home(HashOf(hash_of, Wanted), capacity))
    BY <1>1, <2>2, ProbeStarts
  <2> QED
    BY <1>1, <1>2, <2>1, <2>2, <2>3 DEF Inv, Moving, Placing, Probing
<1> QED
  BY <1>3, <1>4, <1>5

(* More symbols do not disturb a table.                                    *)
Agree(syms, more, n) == \A i \in 1 .. n : more[i] = syms[i]

SameKeys(syms, more, ht) == \A k \in UsedSlots(ht) : KeyAt(more, ht, k) = KeyAt(syms, ht, k)

LEMMA AppendKeepsTable ==
  ASSUME NEW hf, NEW syms, NEW more, NEW n \in Nat, NEW size \in Nat, NEW ht \in TableOf(size, n),
         ReachedIn(hf, syms, ht, size), LatestIn(syms, ht, n), Agree(syms, more, n)
  PROVE  ReachedIn(hf, more, ht, size) /\ LatestIn(more, ht, n) /\ SameKeys(syms, more, ht) /\ ht \in TableOf(size, n + 1)
<1>1. \A k \in UsedSlots(ht) : KeyAt(more, ht, k) = KeyAt(syms, ht, k)
  BY UsedTyped DEF KeyAt, Agree, TableOf
<1>2. ReachedIn(hf, more, ht, size)
  BY <1>1 DEF ReachedIn
<1>3. LatestIn(more, ht, n)
  BY <1>1 DEF LatestIn, Agree
<1>4. ht \in TableOf(size, n + 1)
  BY DEF SlotOf, TableOf
<1> QED
  BY <1>1, <1>2, <1>3, <1>4 DEF SameKeys

LEMMA InvReplace ==
  ASSUME Inv, TypeOK', Replace
  PROVE  Inv'
<1> DEFINE n == Len(symbols)
<1>1. /\ pc = "add" /\ pc' = "idle" /\ symbols' = Append(symbols, Symbol) /\ Used(hash_table, idx)
      /\ hash_table' = [hash_table EXCEPT ![idx].sym_id = n + 1] /\ SameKey(arg.name, arg.scope)
      /\ UNCHANGED <<hash_of, capacity>>
  BY DEF Replace, Returned
<1>2. /\ n \in Nat /\ n + 1 \in Nat /\ n + 1 \in 1 .. n + 1 /\ capacity \in Nat
      /\ hash_table \in [0 .. capacity - 1 -> SlotOf(n)]
      /\ Len(symbols') = n + 1 /\ symbols'[n + 1] = Symbol /\ \A i \in 1 .. n : symbols'[i] = symbols[i]
  BY <1>1, NewSymbol, Facts DEF Inv
<1>3. idx \in UsedSlots(hash_table) /\ idx \in 0 .. capacity - 1
  BY <1>1, <1>2 DEF Inv, TypeOK, UsedSlots
<1>4. ReachedIn(hash_of, symbols, hash_table, capacity) /\ LatestIn(symbols, hash_table, n)
  BY DEF Inv, Tables
<1> HIDE DEF n
<1>5. /\ ReachedIn(hash_of, symbols', hash_table, capacity) /\ LatestIn(symbols', hash_table, n)
      /\ SameKeys(symbols, symbols', hash_table) /\ hash_table \in TableOf(capacity, n + 1)
  <2>1. Agree(symbols, symbols', n) /\ hash_table \in TableOf(capacity, n)
    BY <1>2 DEF Agree, TableOf
  <2> QED
    BY <1>2, <1>4, <2>1, AppendKeepsTable
<1>6. KeyAt(symbols', hash_table, idx) = Symbol
  BY <1>1, <1>3, <1>5, SameKeyIs DEF Symbol, SameKeys
<1>7. ReachedIn(hash_of, symbols', hash_table', capacity) /\ UsedSlots(hash_table') = UsedSlots(hash_table)
  <2>1. symbols'[n + 1] = KeyAt(symbols', hash_table, idx) /\ hash_table' = Relabelled(hash_table, idx, n + 1)
    BY <1>1, <1>2, <1>6 DEF Relabelled
  <2> QED
    BY <1>2, <1>3, <1>5, <2>1, ReplaceKeepsReached DEF SameSlots
<1>8. /\ hash_table'[idx].sym_id = n + 1 /\ \A k \in UsedSlots(hash_table) : k # idx => hash_table'[k] = hash_table[k]
      /\ UsedSlots(hash_table') = UsedSlots(hash_table)
  BY <1>1, <1>2, <1>3, <1>7, UsedTyped DEF SlotOf
<1>9. ASSUME NEW i \in 1 .. n + 1
      PROVE  \E j \in UsedSlots(hash_table') : KeyAt(symbols', hash_table', j) = symbols'[i] /\ i <= hash_table'[j].sym_id
  <2>1. KeyAt(symbols', hash_table', idx) = Symbol
    BY <1>2, <1>8 DEF KeyAt
  <2>2. CASE i = n + 1
    BY <1>2, <1>3, <1>8, <2>1, <2>2
  <2>3. CASE i \in 1 .. n
    <3>1. PICK j \in UsedSlots(hash_table) : KeyAt(symbols', hash_table, j) = symbols'[i] /\ i <= hash_table[j].sym_id
      BY <1>5, <2>3 DEF LatestIn
    <3>2. CASE j = idx
      BY <1>2, <1>3, <1>6, <1>8, <2>1, <2>3, <3>1, <3>2
    <3>3. CASE j # idx
      BY <1>8, <3>1, <3>3 DEF KeyAt
    <3> QED
      BY <3>2, <3>3
  <2> QED
    BY <1>2, <2>2, <2>3
<1>10. Tables'
  <2>1. LatestIn(symbols', hash_table', n + 1)
    BY <1>9 DEF LatestIn
  <2> QED
    BY <1>1, <1>2, <1>7, <2>1 DEF Tables
<1> QED
  BY <1>1, <1>10 DEF Inv, Moving, Placing, Probing

LEMMA InvInsert ==
  ASSUME Inv, TypeOK', Insert
  PROVE  Inv'
<1> DEFINE n == Len(symbols)
           slot == [hash |-> HashNameAndScope(arg.name, arg.scope), sym_id |-> n + 1]
<1>1. /\ pc = "add" /\ pc' = "idle" /\ symbols' = Append(symbols, Symbol) /\ ~ Used(hash_table, idx)
      /\ hash_table' = [hash_table EXCEPT ![idx] = slot]
      /\ UNCHANGED <<hash_of, capacity>>
  BY DEF Insert, Returned
<1>2. /\ n \in Nat /\ n + 1 \in Nat /\ n + 1 \in 1 .. n + 1 /\ capacity \in Nat
      /\ hash_table \in [0 .. capacity - 1 -> SlotOf(n)]
      /\ Len(symbols') = n + 1 /\ symbols'[n + 1] = Symbol /\ \A i \in 1 .. n : symbols'[i] = symbols[i]
      /\ idx \in 0 .. capacity - 1
  BY <1>1, NewSymbol, Facts DEF Inv, TypeOK
<1>3. ReachedIn(hash_of, symbols, hash_table, capacity) /\ LatestIn(symbols, hash_table, n)
      /\ PassedBy(hash_of, symbols, hash_table, capacity, Symbol, idx)
  BY <1>1 DEF Inv, Tables, Probing
<1>4. /\ slot.sym_id = n + 1 /\ slot.hash = HashOf(hash_of, Symbol) /\ HashOf(hash_of, Symbol) \in Nat
      /\ slot \in SlotOf(n + 1) /\ slot.sym_id # ACU_NULL_IDX
  BY <1>1, <1>2, KeysHashed, NullAssumption DEF Inv, SlotOf
<1> HIDE DEF n, slot
<1>5. /\ ReachedIn(hash_of, symbols', hash_table, capacity) /\ LatestIn(symbols', hash_table, n)
      /\ SameKeys(symbols, symbols', hash_table) /\ hash_table \in TableOf(capacity, n + 1)
  <2>1. Agree(symbols, symbols', n) /\ hash_table \in TableOf(capacity, n)
    BY <1>2 DEF Agree, TableOf
  <2> QED
    BY <1>2, <1>3, <2>1, AppendKeepsTable
<1>6. \A j \in UsedSlots(hash_table) : KeyAt(symbols, hash_table, j) # Symbol
  BY <1>1, <1>2, <1>3, <1>4, EmptyEndsProbe DEF PassedBy
<1>7. Fits(hash_of, symbols', hash_table, capacity, slot, idx)
  BY <1>1, <1>2, <1>3, <1>4, <1>5, <1>6 DEF Fits, PassedBy, SameKeys
<1>8. hash_table' = Filled(hash_table, idx, slot)
  BY <1>1 DEF Filled
<1>9. ReachedIn(hash_of, symbols', hash_table', capacity)
  <2>1. PICK m \in Nat : m = n + 1
    BY <1>2
  <2>2. slot \in SlotOf(m) /\ hash_table \in TableOf(capacity, m) /\ capacity \in Nat /\ idx \in 0 .. capacity - 1
    BY <1>2, <1>4, <1>5, <2>1
  <2>3. ReachedIn(hash_of, symbols', Filled(hash_table, idx, slot), capacity)
    BY <1>5, <1>7, <2>2, FillKeepsReached
  <2> QED
    BY <1>8, <2>3
<1>10. UsedSlots(hash_table') = UsedSlots(hash_table) \union {idx} /\ idx \notin UsedSlots(hash_table)
  <2>1. PICK m \in Nat : m = n + 1
    BY <1>2
  <2>2. hash_table \in TableOf(capacity, m) /\ capacity \in Nat /\ idx \in 0 .. capacity - 1
    BY <1>2, <1>5, <2>1
  <2>3. UsedSlots(Filled(hash_table, idx, slot)) = UsedSlots(hash_table) \union {idx} /\ idx \notin UsedSlots(hash_table)
    BY <1>1, <1>4, <2>2, FillUsesSlot
  <2> QED
    BY <1>8, <2>3
<1>11. /\ hash_table'[idx] = slot /\ KeyAt(symbols', hash_table', idx) = Symbol
       /\ \A k \in UsedSlots(hash_table) : hash_table'[k] = hash_table[k]
  BY <1>1, <1>2, <1>4, <1>10, UsedTyped DEF KeyAt
<1>12. ASSUME NEW i \in 1 .. n + 1
       PROVE  \E j \in UsedSlots(hash_table') : KeyAt(symbols', hash_table', j) = symbols'[i] /\ i <= hash_table'[j].sym_id
  <2>1. CASE i = n + 1
    BY <1>2, <1>4, <1>10, <1>11, <2>1
  <2>2. CASE i \in 1 .. n
    <3>1. PICK j \in UsedSlots(hash_table) : KeyAt(symbols', hash_table, j) = symbols'[i] /\ i <= hash_table[j].sym_id
      BY <1>5, <2>2 DEF LatestIn
    <3> QED
      BY <1>10, <1>11, <3>1 DEF KeyAt
  <2> QED
    BY <1>2, <2>1, <2>2
<1>13. Tables'
  <2>1. LatestIn(symbols', hash_table', n + 1)
    BY <1>12 DEF LatestIn
  <2> QED
    BY <1>1, <1>2, <1>9, <2>1 DEF Tables
<1> QED
  BY <1>1, <1>13 DEF Inv, Moving, Placing, Probing

LEMMA InvStep ==
  ASSUME Inv, [Next]_vars
  PROVE  Inv'
<1>1. TypeOK'
  BY TypeStep DEF Inv
<1>2. CASE UNCHANGED vars
  BY <1>1, <1>2 DEF vars, Inv, Tables, Moving, Placing, Probing, Symbol, Wanted
<1>3. CASE \/ \E p \in DOMAIN scopes \union {ACU_NULL_IDX} : PushScope(p)
           \/ \E how \in {"exact", "enclosing"}, n \in Names, s \in DOMAIN scopes \union {ACU_NULL_IDX} :
                StartLookup(how, n, s)
           \/ NoScopeLeft \/ Hit \/ Miss \/ Return
  <2>1. UNCHANGED <<hash_of, symbols, capacity, hash_table>> /\ pc' \in {"idle", "scope", "return"}
    BY <1>3 DEF PushScope, StartLookup, NoScopeLeft, Hit, Miss, Return, Returned, Answered
  <2> QED
    BY <1>1, <2>1, QuietStep
<1> QED
  BY <1>1, <1>2, <1>3, InvStartAdd, InvMove, InvPlaceSlot, InvEndRehash, InvProbe, InvReplace, InvInsert DEF Next, Step

(* The invariant above: what the probes, the table and a lookup that is     *)
(* under way may rely on in every reachable state.                         *)
THEOREM InvHolds == Spec => []Inv
  BY InvInit, InvStep, PTL DEF Spec

(* Nobody finds a symbol behind an empty slot, for any hash functions and  *)
(* any size of the table: neither adding nor a rehash breaks a probe, and  *)
(* no key has two slots.                                                   *)
THEOREM ProbesCorrect == Spec => []WellProbed
<1>1. Inv => WellProbed
  BY ReachedIs DEF Inv, Tables, Moving, WellProbed
<1> QED
  BY <1>1, InvHolds, PTL
-----------------------------------------------------------------------------
(* Counting                                                                *)

UsedBelow(ht, n) == {i \in UsedSlots(ht) : i < n}

Counted ==
  /\ count = Cardinality(UsedSlots(hash_table)) /\ count < capacity
  /\ pc = "add" => count * 4 < capacity * 3
  /\ pc \in {"rehash", "place"} => Cardinality(UsedSlots(new_ht)) = Cardinality(UsedBelow(hash_table, at))

LEMMA FiniteUsed ==
  ASSUME NEW n \in Nat, NEW size \in Nat, NEW ht \in TableOf(size, n), NEW b
  PROVE  IsFiniteSet(UsedSlots(ht)) /\ IsFiniteSet(UsedBelow(ht, b))
<1>1. UsedSlots(ht) \subseteq 0 .. size - 1 /\ UsedBelow(ht, b) \subseteq UsedSlots(ht)
  BY DEF TableOf, UsedSlots, UsedBelow
<1>2. IsFiniteSet(0 .. size - 1)
  BY FS_Interval
<1>3. IsFiniteSet(UsedSlots(ht))
  BY <1>1, <1>2, FS_Subset
<1> QED
  BY <1>1, <1>3, FS_Subset

LEMMA FillCounts ==
  ASSUME NEW n \in Nat, NEW size \in Nat, NEW ht \in TableOf(size, n), NEW slot, slot.sym_id # ACU_NULL_IDX,
         NEW i \in 0 .. size - 1, ~ Used(ht, i)
  PROVE  Cardinality(UsedSlots(Filled(ht, i, slot))) = Cardinality(UsedSlots(ht)) + 1
<1>1. UsedSlots(Filled(ht, i, slot)) = UsedSlots(ht) \union {i} /\ i \notin UsedSlots(ht)
  BY FillUsesSlot
<1>2. IsFiniteSet(UsedSlots(ht))
  BY FiniteUsed
<1>3. Cardinality(UsedSlots(ht) \union {i}) = Cardinality(UsedSlots(ht)) + 1
  BY <1>1, <1>2, FS_AddElement
<1> QED
  BY <1>1, <1>3

LEMMA CountedTypes ==
  ASSUME Inv
  PROVE  /\ capacity \in Nat /\ capacity >= 4 /\ capacity * 2 \in Nat /\ Len(symbols) \in Nat /\ count \in Nat
         /\ hash_table \in TableOf(capacity, Len(symbols))
         /\ pc \in {"rehash", "place"} => new_ht \in TableOf(capacity * 2, Len(symbols)) /\ at \in 0 .. capacity
<1>1. capacity \in Nat /\ capacity >= 4 /\ Len(symbols) \in Nat
      /\ hash_table \in [0 .. capacity - 1 -> SlotOf(Len(symbols))]
      /\ (pc \in {"rehash", "place"} => new_ht \in [0 .. capacity * 2 - 1 -> SlotOf(Len(symbols))])
  BY Facts DEF Inv
<1>2. count \in Nat /\ (pc \in {"rehash", "place"} => at \in 0 .. capacity)
  BY DEF Inv, TypeOK
<1> QED
  BY <1>1, <1>2 DEF TableOf

LEMMA CountedPlace ==
  ASSUME Inv, Counted, PlaceSlot
  PROVE  Counted'
<1> DEFINE slot == hash_table[at]
<1>1. /\ capacity \in Nat /\ capacity * 2 \in Nat /\ Len(symbols) \in Nat
      /\ hash_table \in TableOf(capacity, Len(symbols)) /\ new_ht \in TableOf(capacity * 2, Len(symbols))
  BY CountedTypes DEF PlaceSlot
<1>2. /\ at \in 0 .. capacity - 1 /\ idx \in 0 .. capacity * 2 - 1 /\ Used(hash_table, at)
      /\ pc = "place" /\ pc' = "rehash" /\ at' = at + 1 /\ ~ Used(new_ht, idx)
      /\ UNCHANGED <<capacity, hash_table, count>> /\ new_ht' = Filled(new_ht, idx, slot)
  BY <1>1 DEF PlaceSlot, Inv, TypeOK, Placing, Filled
<1>3. slot.sym_id # ACU_NULL_IDX
  BY <1>2 DEF Used
<1> HIDE DEF slot
<1>4. Cardinality(UsedSlots(Filled(new_ht, idx, slot))) = Cardinality(UsedSlots(new_ht)) + 1
  BY <1>1, <1>2, <1>3, FillCounts
<1>5. Cardinality(UsedBelow(hash_table, at + 1)) = Cardinality(UsedBelow(hash_table, at)) + 1
  <2>1. UsedBelow(hash_table, at + 1) = UsedBelow(hash_table, at) \union {at} /\ at \notin UsedBelow(hash_table, at)
    BY <1>1, <1>2 DEF UsedBelow, UsedSlots, TableOf
  <2>2. IsFiniteSet(UsedBelow(hash_table, at))
    BY <1>1, FiniteUsed
  <2>3. Cardinality(UsedBelow(hash_table, at) \union {at}) = Cardinality(UsedBelow(hash_table, at)) + 1
    BY <2>1, <2>2, FS_AddElement
  <2> QED
    BY <2>1, <2>3
<1> QED
  BY <1>2, <1>4, <1>5 DEF Counted

LEMMA CountedInsert ==
  ASSUME Inv, Counted, Insert
  PROVE  Counted'
<1> DEFINE slot == [hash |-> HashNameAndScope(arg.name, arg.scope), sym_id |-> Len(symbols) + 1]
<1>1. /\ capacity \in Nat /\ capacity >= 4 /\ Len(symbols) \in Nat /\ count \in Nat
      /\ hash_table \in TableOf(capacity, Len(symbols))
  BY CountedTypes
<1>2. /\ pc = "add" /\ pc' = "idle" /\ ~ Used(hash_table, idx) /\ idx \in 0 .. capacity - 1
      /\ hash_table' = Filled(hash_table, idx, slot) /\ count' = count + 1 /\ capacity' = capacity
  BY <1>1 DEF Insert, Returned, Inv, TypeOK, Filled
<1>3. slot.sym_id # ACU_NULL_IDX
  BY <1>1, NullAssumption
<1> HIDE DEF slot
<1>4. Cardinality(UsedSlots(Filled(hash_table, idx, slot))) = Cardinality(UsedSlots(hash_table)) + 1
  BY <1>1, <1>2, <1>3, FillCounts
<1>5. count + 1 < capacity
  BY <1>1, <1>2 DEF Counted
<1> QED
  BY <1>2, <1>4, <1>5 DEF Counted

LEMMA CountedStep ==
  ASSUME Inv, Counted, [Next]_vars
  PROVE  Counted'
<1>1. /\ capacity \in Nat /\ capacity >= 4 /\ Len(symbols) \in Nat /\ count \in Nat
      /\ hash_table \in TableOf(capacity, Len(symbols))
  BY CountedTypes
<1>2. CASE UNCHANGED vars
  BY <1>2 DEF vars, Counted
<1>3. ASSUME NEW n \in Names, NEW s \in DOMAIN scopes, StartAdd(n, s) PROVE Counted'
  <2>1. UNCHANGED <<capacity, hash_table, count>>
    BY <1>3 DEF StartAdd
  <2>2. CASE IsCrowded
    <3>1. pc' = "rehash" /\ new_ht' = Empty(capacity * 2) /\ at' = 0
      BY <1>3, <2>2 DEF StartAdd
    <3>2. UsedSlots(Empty(capacity * 2)) = {} /\ UsedBelow(hash_table, 0) = {}
      <4>1. \A i \in UsedSlots(hash_table) : ~ (i < 0)
        BY <1>1 DEF TableOf, UsedSlots
      <4>2. capacity * 2 \in Nat
        BY <1>1
      <4>3. UsedSlots(Empty(capacity * 2)) = {}
        BY <1>1, <4>2, EmptyTable
      <4> QED
        BY <4>1, <4>3 DEF UsedBelow
    <3> QED
      BY <2>1, <3>1, <3>2 DEF Counted
  <2>3. CASE ~ IsCrowded
    <3>1. pc' = "add" /\ ~ (count * 4 >= capacity * 3)
      BY <1>3, <2>3 DEF StartAdd, IsCrowded
    <3> QED
      BY <1>1, <2>1, <3>1 DEF Counted
  <2> QED
    BY <2>2, <2>3
<1>4. CASE SkipSlot
  <2>1. UNCHANGED <<capacity, hash_table, count, new_ht, pc>> /\ at' = at + 1 /\ pc = "rehash" /\ ~ Used(hash_table, at)
        /\ at \in 0 .. capacity
    BY <1>1, <1>4, CountedTypes DEF SkipSlot
  <2>2. UsedBelow(hash_table, at + 1) = UsedBelow(hash_table, at)
    <3>1. \A i \in UsedSlots(hash_table) : i < at + 1 <=> i < at
      BY <1>1, <2>1 DEF UsedSlots, TableOf
    <3> QED
      BY <3>1 DEF UsedBelow
  <2> QED
    BY <2>1, <2>2 DEF Counted
<1>5. CASE MoveSlot \/ PassPlace
  <2>1. UNCHANGED <<capacity, hash_table, count, new_ht, at>> /\ pc \in {"rehash", "place"} /\ pc' = "place"
    BY <1>5 DEF MoveSlot, PassPlace
  <2> QED
    BY <2>1 DEF Counted
<1>6. CASE EndRehash
  <2>1. hash_table' = new_ht /\ capacity' = capacity * 2 /\ at = capacity /\ pc = "rehash" /\ pc' = "add" /\ count' = count
    BY <1>6 DEF EndRehash
  <2>2. UsedBelow(hash_table, capacity) = UsedSlots(hash_table)
    <3>1. \A i \in UsedSlots(hash_table) : i < capacity
      BY <1>1 DEF UsedSlots, TableOf
    <3> QED
      BY <3>1 DEF UsedBelow
  <2>3. Cardinality(UsedSlots(new_ht)) = count /\ count < capacity
    BY <2>1, <2>2 DEF Counted
  <2>4. count * 4 < (capacity * 2) * 3 /\ count < capacity * 2
    BY <1>1, <2>3
  <2> QED
    BY <2>1, <2>3, <2>4 DEF Counted
<1>7. CASE PassAdd
  <2>1. UNCHANGED <<capacity, hash_table, count, pc>> /\ pc = "add"
    BY <1>7 DEF PassAdd
  <2> QED
    BY <2>1 DEF Counted
<1>8. CASE Replace
  <2>1. UsedSlots(hash_table') = UsedSlots(hash_table)
    <3>1. hash_table' = Relabelled(hash_table, idx, Len(symbols) + 1) /\ Used(hash_table, idx)
      BY <1>8 DEF Replace, Relabelled
    <3>2. idx \in 0 .. capacity - 1
      BY <1>8 DEF Replace, Inv, TypeOK
    <3> QED
      BY <1>1, <3>1, <3>2, NullAssumption DEF Relabelled, UsedSlots, Used, TableOf, SlotOf
  <2>2. capacity' = capacity /\ count' = count /\ pc' = "idle"
    BY <1>8 DEF Replace, Returned
  <2> QED
    BY <2>1, <2>2 DEF Counted
<1>9. CASE \/ \E p \in DOMAIN scopes \union {ACU_NULL_IDX} : PushScope(p)
           \/ \E how \in {"exact", "enclosing"}, n \in Names, s \in DOMAIN scopes \union {ACU_NULL_IDX} :
                StartLookup(how, n, s)
           \/ LookInScope \/ NoScopeLeft \/ PassFind \/ Hit \/ Miss \/ Return
  <2>1. UNCHANGED <<capacity, hash_table, count>> /\ pc' \in {"idle", "scope", "find", "return"}
    BY <1>9 DEF PushScope, StartLookup, LookInScope, NoScopeLeft, PassFind, Hit, Miss, Return, Returned, Answered
  <2> QED
    BY <2>1 DEF Counted
<1> QED
  BY <1>2, <1>3, <1>4, <1>5, <1>6, <1>7, <1>8, <1>9, CountedPlace, CountedInsert DEF Next, Step

(* Whatever is added, the table has an empty slot for every probe to end   *)
(* at: the load factor is checked before a slot is used.                   *)
THEOREM RoomAlways == Spec => []RoomLeft
<1>1. Init => Counted
  <2> SUFFICES ASSUME Init PROVE Counted
    OBVIOUS
  <2>1. hash_table = Empty(InitialCapacity) /\ capacity = InitialCapacity /\ count = 0 /\ pc = "idle"
    BY DEF Init
  <2>2. UsedSlots(Empty(InitialCapacity)) = {}
    BY EmptyTable, CapacityAssumption
  <2> QED
    BY <2>1, <2>2, FS_EmptySet, CapacityAssumption DEF Counted
<1>2. Inv /\ Counted /\ [Next]_vars => Counted'
  BY CountedStep
<1>3. Counted => RoomLeft
  BY DEF Counted, RoomLeft
<1> QED
  BY <1>1, <1>2, <1>3, InvHolds, PTL DEF Spec
-----------------------------------------------------------------------------
(* The table answers as AcuScopes says                                     *)

DeclaredIn(syms, n, s) == {i \in DOMAIN syms : syms[i].name = n /\ syms[i].scope = s}

(* The lookup of n from s is at scope cur, and no scope before declares n. *)
(* Parents come before their children, so a chain has no more scopes than  *)
(* there are.                                                              *)
AtScope(scs, syms, n, s, cur, k, c) ==
  /\ k \in 1 .. Len(scs) /\ c \in [1 .. k -> 1 .. Len(scs)]
  /\ c[1] = s /\ c[k] = cur /\ k + cur <= Len(scs) + 1
  /\ \A i \in 1 .. k - 1 : c[i + 1] = scs[c[i]] /\ DeclaredIn(syms, n, c[i]) = {}

Climbed ==
  pc \in {"scope", "find"} =>
    /\ arg.ask = "exact" => current = arg.scope
    /\ current # ACU_NULL_IDX => \E k, c : AtScope(scopes, symbols, arg.name, arg.scope, current, k, c)
    /\ current = ACU_NULL_IDX /\ arg.scope # ACU_NULL_IDX =>
         \E s \in 1 .. Len(scopes) : \E k, c :
           /\ AtScope(scopes, symbols, arg.name, arg.scope, s, k, c)
           /\ DeclaredIn(symbols, arg.name, s) = {} /\ scopes[s] = ACU_NULL_IDX

LEMMA ClimbStarts ==
  ASSUME NEW scs, Len(scs) \in Nat, NEW syms, NEW n, NEW s \in 1 .. Len(scs)
  PROVE  \E k, c : AtScope(scs, syms, n, s, s, k, c)
<1> DEFINE c == [i \in 1 .. 1 |-> s]
<1>1. c \in [1 .. 1 -> 1 .. Len(scs)] /\ c[1] = s
  OBVIOUS
<1> HIDE DEF c
<1>2. AtScope(scs, syms, n, s, s, 1, c)
  BY <1>1 DEF AtScope
<1> QED
  BY <1>2

LEMMA ClimbGoesOn ==
  ASSUME NEW scs, Len(scs) \in Nat, NEW syms, NEW n, NEW s, NEW cur \in 1 .. Len(scs), NEW k, NEW c,
         AtScope(scs, syms, n, s, cur, k, c), DeclaredIn(syms, n, cur) = {}, scs[cur] \in 1 .. cur - 1
  PROVE  \E m, d : AtScope(scs, syms, n, s, scs[cur], m, d)
<1> DEFINE d == [i \in 1 .. k + 1 |-> IF i = k + 1 THEN scs[cur] ELSE c[i]]
<1>1. /\ k \in Nat /\ k >= 1 /\ c \in [1 .. k -> 1 .. Len(scs)] /\ c[1] = s /\ c[k] = cur /\ k + cur <= Len(scs) + 1
      /\ \A i \in 1 .. k - 1 : c[i + 1] = scs[c[i]] /\ DeclaredIn(syms, n, c[i]) = {}
  <2>1. /\ k \in 1 .. Len(scs) /\ c \in [1 .. k -> 1 .. Len(scs)] /\ c[1] = s /\ c[k] = cur /\ k + cur <= Len(scs) + 1
        /\ \A i \in 1 .. k - 1 : c[i + 1] = scs[c[i]] /\ DeclaredIn(syms, n, c[i]) = {}
    BY DEF AtScope
  <2>2. k \in Nat /\ k >= 1
    BY <2>1
  <2> QED
    BY <2>1, <2>2
<1>2. scs[cur] \in Nat /\ scs[cur] >= 1 /\ scs[cur] < cur /\ cur \in Nat
  OBVIOUS
<1>3. k + 1 \in 1 .. Len(scs) /\ (k + 1) + scs[cur] <= Len(scs) + 1
  BY <1>1, <1>2
<1>4. d[k + 1] = scs[cur] /\ \A i \in 1 .. k : d[i] = c[i]
  BY <1>1
<1>5. d \in [1 .. k + 1 -> 1 .. Len(scs)]
  BY <1>1, <1>2, <1>3
<1> HIDE DEF d
<1>6. \A i \in 1 .. (k + 1) - 1 : d[i + 1] = scs[d[i]] /\ DeclaredIn(syms, n, d[i]) = {}
  <2> TAKE i \in 1 .. (k + 1) - 1
  <2>1. CASE i = k
    BY <1>1, <1>4, <2>1
  <2>2. CASE i \in 1 .. k - 1
    <3>1. i + 1 \in 1 .. k /\ i \in 1 .. k
      BY <1>1, <2>2
    <3> QED
      BY <1>1, <1>4, <2>2, <3>1
  <2> QED
    BY <1>1, <2>1, <2>2
<1>7. d[1] = s
  BY <1>1, <1>4
<1>8. AtScope(scs, syms, n, s, scs[cur], k + 1, d)
  BY <1>3, <1>4, <1>5, <1>6, <1>7 DEF AtScope
<1> QED
  BY <1>8

(* At an empty slot: the scope does not declare the name.                  *)
LEMMA MissDeclares ==
  ASSUME Inv, pc = "find", ~ Used(hash_table, idx)
  PROVE  DeclaredIn(symbols, arg.name, current) = {}
<1>1. /\ capacity \in Nat /\ Len(symbols) \in Nat /\ DOMAIN symbols = 1 .. Len(symbols)
      /\ hash_table \in [0 .. capacity - 1 -> SlotOf(Len(symbols))] /\ idx \in 0 .. capacity - 1
      /\ \A i \in DOMAIN symbols : symbols[i] = [name |-> symbols[i].name, scope |-> symbols[i].scope]
  BY Facts DEF Inv, TypeOK
<1>2. ReachedIn(hash_of, symbols, hash_table, capacity) /\ LatestIn(symbols, hash_table, Len(symbols))
      /\ PassedBy(hash_of, symbols, hash_table, capacity, Wanted, idx)
  BY DEF Inv, Tables, Probing
<1>3. HashOf(hash_of, Wanted) \in Nat
  BY KeysHashed DEF Inv, TypeOK
<1>4. \A j \in UsedSlots(hash_table) : KeyAt(symbols, hash_table, j) # Wanted
  BY <1>1, <1>2, <1>3, EmptyEndsProbe DEF PassedBy
<1>5. ASSUME NEW i \in DOMAIN symbols, symbols[i].name = arg.name, symbols[i].scope = current PROVE FALSE
  <2>1. symbols[i] = Wanted
    BY <1>1, <1>5 DEF Wanted
  <2> QED
    BY <1>1, <1>2, <1>4, <2>1 DEF LatestIn
<1> QED
  BY <1>5 DEF DeclaredIn

(* At a slot with the key: its symbol is the latest of the key.            *)
LEMMA HitIsLatest ==
  ASSUME Inv, pc = "find", Used(hash_table, idx), SameKey(arg.name, current)
  PROVE  /\ hash_table[idx].sym_id \in DeclaredIn(symbols, arg.name, current)
         /\ \A i \in DeclaredIn(symbols, arg.name, current) : i <= hash_table[idx].sym_id
<1>1. /\ capacity \in Nat /\ Len(symbols) \in Nat /\ DOMAIN symbols = 1 .. Len(symbols)
      /\ hash_table \in [0 .. capacity - 1 -> SlotOf(Len(symbols))] /\ idx \in 0 .. capacity - 1
      /\ \A i \in DOMAIN symbols : symbols[i] = [name |-> symbols[i].name, scope |-> symbols[i].scope]
  BY Facts DEF Inv, TypeOK
<1>2. ReachedIn(hash_of, symbols, hash_table, capacity) /\ LatestIn(symbols, hash_table, Len(symbols))
  BY DEF Inv, Tables
<1>3. KeyAt(symbols, hash_table, idx) = Wanted
  BY SameKeyIs DEF Wanted
<1>4. idx \in UsedSlots(hash_table)
  BY <1>1 DEF UsedSlots
<1>5. hash_table[idx].sym_id \in DOMAIN symbols
  BY <1>1, <1>4, UsedTyped
<1>6. hash_table[idx].sym_id \in DeclaredIn(symbols, arg.name, current)
  BY <1>3, <1>5 DEF KeyAt, Wanted, DeclaredIn
<1>7. ASSUME NEW i \in DeclaredIn(symbols, arg.name, current) PROVE i <= hash_table[idx].sym_id
  <2>1. i \in 1 .. Len(symbols) /\ symbols[i] = Wanted
    BY <1>1 DEF DeclaredIn, Wanted
  <2>2. PICK j \in UsedSlots(hash_table) : KeyAt(symbols, hash_table, j) = symbols[i] /\ i <= hash_table[j].sym_id
    BY <1>2, <2>1 DEF LatestIn
  <2>3. j = idx
    BY <1>2, <1>3, <1>4, <2>1, <2>2 DEF ReachedIn
  <2> QED
    BY <2>2, <2>3
<1> QED
  BY <1>6, <1>7

LEMMA ClimbedStep ==
  ASSUME Inv, Climbed, [Next]_vars
  PROVE  Climbed'
<1>1. Len(scopes) \in Nat /\ DOMAIN scopes = 1 .. Len(scopes)
  BY Facts DEF Inv
<1>2. CASE UNCHANGED vars
  BY <1>2 DEF vars, Climbed
<1>3. ASSUME NEW how \in {"exact", "enclosing"}, NEW n \in Names, NEW s \in DOMAIN scopes \union {ACU_NULL_IDX},
             StartLookup(how, n, s)
      PROVE  Climbed'
  <2>1. pc' = "scope" /\ current' = s /\ arg'.name = n /\ arg'.scope = s /\ UNCHANGED <<scopes, symbols>>
    BY <1>3 DEF StartLookup
  <2>2. ASSUME s # ACU_NULL_IDX PROVE \E k, c : AtScope(scopes, symbols, n, s, s, k, c)
    BY <1>1, <2>2, ClimbStarts
  <2> QED
    BY <2>1, <2>2 DEF Climbed
<1>4. CASE LookInScope \/ PassFind
  <2>1. UNCHANGED <<arg, current, scopes, symbols>> /\ pc \in {"scope", "find"}
    BY <1>4 DEF LookInScope, PassFind
  <2> QED
    BY <2>1 DEF Climbed
<1>5. CASE Miss
  <2>1. CASE arg.ask = "exact"
    <3>1. pc' = "return"
      BY <1>5, <2>1 DEF Miss, Answered
    <3> QED
      BY <3>1 DEF Climbed
  <2>2. CASE arg.ask # "exact"
    <3>1. /\ pc = "find" /\ pc' = "scope" /\ current' = scopes[current] /\ UNCHANGED <<arg, scopes, symbols>>
          /\ ~ Used(hash_table, idx)
      BY <1>5, <2>2 DEF Miss
    <3>2. current \in 1 .. Len(scopes) /\ current # ACU_NULL_IDX
      BY <1>1, <3>1 DEF Inv, TypeOK
    <3>3. scopes[current] \in 1 .. current - 1 \union {ACU_NULL_IDX}
      BY <1>1, <3>2 DEF Inv, TypeOK
    <3>4. PICK k, c : AtScope(scopes, symbols, arg.name, arg.scope, current, k, c)
      BY <3>1, <3>2 DEF Climbed
    <3>5. DeclaredIn(symbols, arg.name, current) = {}
      BY <3>1, MissDeclares
    <3>6. ASSUME scopes[current] # ACU_NULL_IDX
          PROVE  \E m, d : AtScope(scopes, symbols, arg.name, arg.scope, scopes[current], m, d)
      <4>1. scopes[current] \in 1 .. current - 1
        BY <3>3, <3>6
      <4> QED
        BY <1>1, <3>2, <3>4, <3>5, <4>1, ClimbGoesOn
    <3> QED
      BY <2>2, <3>1, <3>2, <3>4, <3>5, <3>6 DEF Climbed
  <2> QED
    BY <2>1, <2>2
<1>6. CASE \/ \E p \in DOMAIN scopes \union {ACU_NULL_IDX} : PushScope(p)
           \/ \E n \in Names, s \in DOMAIN scopes : StartAdd(n, s)
           \/ SkipSlot \/ MoveSlot \/ PassPlace \/ PlaceSlot \/ EndRehash \/ PassAdd \/ Replace \/ Insert
           \/ NoScopeLeft \/ Hit \/ Return
  <2>1. pc' \notin {"scope", "find"}
    BY <1>6 DEF PushScope, StartAdd, SkipSlot, MoveSlot, PassPlace, PlaceSlot, EndRehash, PassAdd, Replace, Insert,
                NoScopeLeft, Hit, Return, Returned, Answered
  <2> QED
    BY <2>1 DEF Climbed
<1> QED
  BY <1>2, <1>3, <1>4, <1>5, <1>6 DEF Next, Step

LEMMA DeclaredIs ==
  ASSUME NEW n, NEW s
  PROVE  Abstract!Declared(n, s) = DeclaredIn(symbols, n, s)
  BY DEF Abstract!Declared, DeclaredIn

(* An answer that AtScope has found in the last scope of the chain, or     *)
(* nowhere, is one the specification allows.                               *)
LEMMA ResolvedAlong ==
  ASSUME Inv, NEW s \in DOMAIN scopes, NEW n, NEW cur \in 1 .. Len(scopes), NEW k, NEW c, NEW r,
         AtScope(scopes, symbols, n, s, cur, k, c),
         Abstract!IsLatest(n, cur, r), r = ACU_NULL_IDX => scopes[cur] = ACU_NULL_IDX
  PROVE  Abstract!IsResolved(n, s, r)
<1>1. Len(scopes) \in Nat /\ DOMAIN scopes = 1 .. Len(scopes)
  BY Facts DEF Inv
<1>2. k \in DOMAIN scopes /\ c \in [1 .. k -> DOMAIN scopes]
  BY <1>1 DEF AtScope
<1>3. Abstract!IsChain(c, k, s)
  BY DEF AtScope, Abstract!IsChain
<1>4. Abstract!FoundAlong(c, k, n, r)
  BY DeclaredIs DEF AtScope, Abstract!FoundAlong
<1>5. s # ACU_NULL_IDX
  BY <1>1, NullAssumption
<1> QED
  BY <1>2, <1>3, <1>4, <1>5 DEF Abstract!IsResolved

LEMMA NothingIsLatest ==
  ASSUME NEW n, NEW s, DeclaredIn(symbols, n, s) = {}
  PROVE  Abstract!IsLatest(n, s, ACU_NULL_IDX)
  BY DeclaredIs DEF Abstract!IsLatest

(* A lookup gives one of the answers the specification allows.             *)
LEMMA AnswerAllowed ==
  ASSUME Inv, Climbed, NEW r, pc \in {"scope", "find"}, Answered(r), UNCHANGED <<scopes, symbols>>,
         IF arg.ask = "exact" THEN Abstract!IsLatest(arg.name, arg.scope, r)
                              ELSE Abstract!IsResolved(arg.name, arg.scope, r)
  PROVE  Abstract!Answer
<1>1. Question = arg /\ Question' = NoCall /\ arg \in Asking
  BY DEF Question, Answered, Inv, TypeOK
<1>2. arg # NoCall
  BY <1>1 DEF Asking, NoCall
<1>3. answer'.of = arg /\ answer'.symbol = r /\ DOMAIN answer' = DOMAIN NoAnswer
  BY DEF Answered, NoAnswer
<1>4. Abstract!NoQuestion = NoCall /\ Abstract!NoAnswer = NoAnswer
  BY DEF Abstract!NoQuestion, Abstract!NoAnswer, NoCall, NoAnswer
<1> QED
  BY <1>1, <1>2, <1>3, <1>4 DEF Abstract!Answer

LEMMA HitStep ==
  ASSUME Inv, Climbed, Hit
  PROVE  Abstract!Answer
<1> DEFINE r == hash_table[idx].sym_id
<1>1. /\ pc = "find" /\ Used(hash_table, idx) /\ SameKey(arg.name, current) /\ Answered(r)
      /\ UNCHANGED <<scopes, symbols>>
  BY DEF Hit
<1>2. r \in DeclaredIn(symbols, arg.name, current) /\ \A i \in DeclaredIn(symbols, arg.name, current) : i <= r
      /\ r # ACU_NULL_IDX
  BY <1>1, HitIsLatest DEF Used
<1> HIDE DEF r
<1>3. Abstract!IsLatest(arg.name, current, r)
  BY <1>2, DeclaredIs DEF Abstract!IsLatest
<1>4. current \in 1 .. Len(scopes) /\ current # ACU_NULL_IDX /\ arg \in Asking
  BY <1>1, Facts DEF Inv, TypeOK
<1>5. CASE arg.ask = "exact"
  <2>1. current = arg.scope
    BY <1>1, <1>5 DEF Climbed
  <2> QED
    BY <1>1, <1>3, <1>5, <2>1, AnswerAllowed
<1>6. CASE arg.ask # "exact"
  <2>1. PICK k, c : AtScope(scopes, symbols, arg.name, arg.scope, current, k, c)
    BY <1>1, <1>4 DEF Climbed
  <2>2. arg.scope \in DOMAIN scopes
    <3>1. Len(scopes) \in Nat /\ DOMAIN scopes = 1 .. Len(scopes)
      BY Facts DEF Inv
    <3>2. k \in 1 .. Len(scopes) /\ c \in [1 .. k -> 1 .. Len(scopes)] /\ c[1] = arg.scope
      BY <2>1 DEF AtScope
    <3>3. 1 \in 1 .. k
      BY <3>1, <3>2
    <3> QED
      BY <3>1, <3>2, <3>3
  <2>3. Abstract!IsResolved(arg.name, arg.scope, r)
    BY <1>2, <1>3, <1>4, <2>1, <2>2, ResolvedAlong
  <2> QED
    BY <1>1, <1>6, <2>3, AnswerAllowed
<1> QED
  BY <1>5, <1>6

LEMMA MissStep ==
  ASSUME Inv, Climbed, Miss, arg.ask = "exact"
  PROVE  Abstract!Answer
<1>1. pc = "find" /\ ~ Used(hash_table, idx) /\ Answered(ACU_NULL_IDX) /\ UNCHANGED <<scopes, symbols>>
  BY DEF Miss
<1>2. current = arg.scope /\ DeclaredIn(symbols, arg.name, current) = {}
  BY <1>1, MissDeclares DEF Climbed
<1> QED
  BY <1>1, <1>2, NothingIsLatest, AnswerAllowed

LEMMA NoScopeStep ==
  ASSUME Inv, Climbed, NoScopeLeft
  PROVE  Abstract!Answer
<1>1. pc = "scope" /\ current = ACU_NULL_IDX /\ Answered(ACU_NULL_IDX) /\ UNCHANGED <<scopes, symbols>>
  BY DEF NoScopeLeft
<1>2. Len(scopes) \in Nat /\ DOMAIN scopes = 1 .. Len(scopes)
      /\ \A i \in DOMAIN symbols : symbols[i].scope \in DOMAIN scopes
  BY Facts DEF Inv
<1>3. arg \in Asking /\ arg.scope \in DOMAIN scopes \union {ACU_NULL_IDX}
  BY <1>1 DEF Inv, TypeOK, Asking
<1>4. CASE arg.ask = "exact"
  <2>1. arg.scope = ACU_NULL_IDX
    BY <1>1, <1>4 DEF Climbed
  <2>2. DeclaredIn(symbols, arg.name, ACU_NULL_IDX) = {}
    BY <1>2, NullAssumption DEF DeclaredIn
  <2> QED
    BY <1>1, <1>4, <2>1, <2>2, NothingIsLatest, AnswerAllowed
<1>5. CASE arg.ask # "exact"
  <2>1. CASE arg.scope = ACU_NULL_IDX
    <3>1. Abstract!IsResolved(arg.name, arg.scope, ACU_NULL_IDX)
      BY <2>1 DEF Abstract!IsResolved
    <3> QED
      BY <1>1, <1>5, <3>1, AnswerAllowed
  <2>2. CASE arg.scope # ACU_NULL_IDX
    <3>1. PICK s, k, c :
            /\ s \in 1 .. Len(scopes)
            /\ AtScope(scopes, symbols, arg.name, arg.scope, s, k, c)
            /\ DeclaredIn(symbols, arg.name, s) = {} /\ scopes[s] = ACU_NULL_IDX
      BY <1>1, <2>2 DEF Climbed
    <3>2. Abstract!IsLatest(arg.name, s, ACU_NULL_IDX)
      BY <3>1, NothingIsLatest
    <3>3. arg.scope \in DOMAIN scopes
      BY <1>3, <2>2
    <3>4. Abstract!IsResolved(arg.name, arg.scope, ACU_NULL_IDX)
      BY <3>1, <3>2, <3>3, ResolvedAlong
    <3> QED
      BY <1>1, <1>5, <3>4, AnswerAllowed
  <2> QED
    BY <2>1, <2>2
<1> QED
  BY <1>4, <1>5

(* Adding a symbol.                                                        *)
LEMMA AddStep ==
  ASSUME Inv, Replace \/ Insert
  PROVE  Abstract!Add
<1>1. /\ pc = "add" /\ pc' = "idle" /\ symbols' = Append(symbols, Symbol) /\ UNCHANGED <<scopes, answer>>
  BY DEF Replace, Insert, Returned
<1>2. arg.name \in Names /\ arg.scope \in DOMAIN scopes
  BY <1>1 DEF Inv, TypeOK, Adding
<1>3. Question' = Question
  BY <1>1 DEF Question
<1> QED
  BY <1>1, <1>2, <1>3 DEF Abstract!Add, Symbol

(* Asking, and taking the answer.                                          *)
LEMMA AskStep ==
  ASSUME Inv, NEW how \in {"exact", "enclosing"}, NEW n \in Names, NEW s \in DOMAIN scopes \union {ACU_NULL_IDX},
         StartLookup(how, n, s)
  PROVE  Abstract!Ask
<1>1. /\ pc = "idle" /\ pc' = "scope" /\ arg' = [ask |-> how, name |-> n, scope |-> s] /\ answer = NoAnswer
      /\ UNCHANGED <<scopes, symbols, answer>>
  BY DEF StartLookup, Inv, TypeOK
<1>2. Question = NoCall /\ Question' = [ask |-> how, name |-> n, scope |-> s]
  BY <1>1 DEF Question
<1> QED
  BY <1>1, <1>2 DEF Abstract!Ask, Abstract!NoQuestion, Abstract!NoAnswer, NoCall, NoAnswer

LEMMA TakeStep ==
  ASSUME Inv, Return
  PROVE  Abstract!Take
<1>1. pc = "return" /\ pc' = "idle" /\ answer' = NoAnswer /\ answer.of = arg /\ arg \in Asking
      /\ UNCHANGED <<scopes, symbols>>
  BY DEF Return, Returned, Inv, TypeOK
<1>2. Question = NoCall /\ Question' = NoCall
  BY <1>1 DEF Question
<1>3. arg # NoCall
  BY <1>1 DEF Asking, NoCall
<1>4. answer # NoAnswer
  BY <1>1, <1>3 DEF NoAnswer
<1> QED
  BY <1>1, <1>2, <1>4 DEF Abstract!Take, Abstract!NoAnswer, Abstract!NoQuestion, NoAnswer, NoCall

LEMMA QuestionStays ==
  ASSUME \/ UNCHANGED vars
         \/ \E n \in Names, s \in DOMAIN scopes : StartAdd(n, s)
         \/ SkipSlot \/ MoveSlot \/ PassPlace \/ PlaceSlot \/ EndRehash \/ PassAdd
         \/ LookInScope \/ PassFind \/ (Miss /\ arg.ask # "exact")
  PROVE  UNCHANGED Abstract!vars
<1>1. UNCHANGED <<scopes, symbols, answer>>
  BY DEF vars, StartAdd, SkipSlot, MoveSlot, PassPlace, PlaceSlot, EndRehash, PassAdd, LookInScope, PassFind, Miss
<1>2. Question' = Question
  BY DEF vars, StartAdd, SkipSlot, MoveSlot, PassPlace, PlaceSlot, EndRehash, PassAdd, LookInScope, PassFind, Miss, Question
<1> QED
  BY <1>1, <1>2 DEF Abstract!vars

(* Every lookup finds the latest symbol of the name in the innermost scope *)
(* that declares it: the hash table, its replacements and its enlargements *)
(* are not to be seen.                                                     *)
THEOREM ScopesImplemented == Spec => ScopesSpec
<1>1. Init => Abstract!Init /\ Climbed
  <2> SUFFICES ASSUME Init PROVE Abstract!Init /\ Climbed
    OBVIOUS
  <2>1. scopes = <<>> /\ symbols = <<>> /\ pc = "idle" /\ answer = NoAnswer
    BY DEF Init
  <2>2. Question = NoCall
    BY <2>1 DEF Question
  <2> QED
    BY <2>1, <2>2 DEF Abstract!Init, Abstract!NoQuestion, Abstract!NoAnswer, NoCall, NoAnswer, Climbed
<1>2. Inv /\ Climbed /\ [Next]_vars => Climbed'
  BY ClimbedStep
<1>3. Inv /\ Climbed /\ [Next]_vars => [Abstract!Next]_(Abstract!vars)
  <2> SUFFICES ASSUME Inv, Climbed, [Next]_vars PROVE Abstract!Next \/ UNCHANGED Abstract!vars
    OBVIOUS
  <2>1. ASSUME NEW p \in DOMAIN scopes \union {ACU_NULL_IDX}, PushScope(p) PROVE Abstract!PushScope
    <3>1. scopes' = Append(scopes, p) /\ UNCHANGED <<symbols, answer>> /\ UNCHANGED Question
      BY <2>1 DEF PushScope, Question
    <3> QED
      BY <3>1 DEF Abstract!PushScope
  <2> QED
    BY <2>1, AddStep, AskStep, TakeStep, HitStep, MissStep, NoScopeStep, QuestionStays DEF Next, Step, Abstract!Next
<1> QED
  BY <1>1, <1>2, <1>3, InvHolds, PTL DEF Spec, ScopesSpec, Abstract!Spec
=============================================================================
