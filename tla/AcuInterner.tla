----------------------------- MODULE AcuInterner -----------------------------
(***************************************************************************)
(* The four tables that give equal things one number: the constants and    *)
(* the strings of a chunk (src/pool/), the names and the types of a        *)
(* program (src/interner/).  They share one algorithm - an open-addressing *)
(* hash table of indices into a vector of entries, whose variable parts    *)
(* lie in one vector of data - and differ in what an entry is:             *)
(*   constants  the value is the entry                                     *)
(*   strings    an entry is a slice of the bytes; a terminator follows     *)
(*              each; entry 0 is the empty string and in no slot           *)
(*   types      an entry is a kind with its numbers; the fields of a tuple *)
(*              and the parameters of a function are a slice of            *)
(*              extra_data; the primitive types come first                 *)
(* A content is [head, body]: the part inside the entry and the slice.     *)
(*                                                                         *)
(* A call is one step; that its probes end is a property of the table they *)
(* run in (HasRoom).  The hash is any function of the content.             *)
(***************************************************************************)
EXTENDS Integers, Sequences, FiniteSets

CONSTANTS
  Kinds,            (* which of the tables are considered                  *)
  Contents(_, _),   (* what may be interned: of a kind, after n entries    *)
  Preloaded(_),     (* what a new table of a kind interns first            *)
  Hashes,           (* the names of the hash functions considered          *)
  Hash(_, _),       (* the value of one for a content                      *)
  InitialCapacity,  (* slots of a new table, a power of 2                  *)
  NullId,           (* CONST_NULL_ID and its like: an empty slot           *)
  MaxEntries        (* bound of a run; below NullId                        *)

ASSUME CapacityAssumption == InitialCapacity \in Nat /\ InitialCapacity >= 4

ASSUME NullAssumption == NullId \in Nat /\ MaxEntries \in 1 .. NullId

(* Numbers stand for bytes, ids and values; a hash is unsigned.            *)
HeadKinds ==
  {"NONE", "STRING", "VALUE", "PRIMITIVE", "ARRAY", "VECTOR", "TUPLE", "FUNC"}

Heads == [kind : HeadKinds, of : Nat, size : Nat]

Values == [head : Heads, body : Seq(Nat)]

ASSUME ContentsAssumption ==
  \A k \in Kinds :
    /\ Preloaded(k) \in Seq(Values) /\ Len(Preloaded(k)) \in Nat
    /\ \A h \in Hashes, i \in DOMAIN Preloaded(k) : Hash(h, Preloaded(k)[i]) \in Nat
    /\ \A n \in Len(Preloaded(k)) .. MaxEntries : \A content \in Contents(k, n) :
         content \in Values /\ \A h \in Hashes : Hash(h, content) \in Nat

VARIABLES
  kind,        (* which table this is                                      *)
  hash_of,     (* its hash function                                        *)
  entries,     (* strings, types or constants                              *)
  data,        (* bytes, char_data or extra_data                           *)
  hash_table,  (* slots [hash, idx], from 0                                *)
  count,       (* entries that have a slot                                 *)
  answer       (* the last content interned and its id                     *)

vars == <<kind, hash_of, entries, data, hash_table, count, answer>>

(* What stands in an entry itself.                                         *)
HeadOf(k, of, size) == [kind |-> k, of |-> of, size |-> size]

Entry(head, start, length) == [head |-> head, start |-> start, length |-> length]

Content(head, body) == [head |-> head, body |-> body]

Terminator == 0

Text == HeadOf("STRING", 0, 0)

EmptyString == Content(Text, <<>>)

Nothing == Content(HeadOf("NONE", 0, 0), <<>>)

(* What the bytes of an entry say.                                         *)
Decoded(e) == Content(e.head, SubSeq(data, e.start + 1, e.start + e.length))
-----------------------------------------------------------------------------
(* The table.                                                              *)

Cap(ht) == Cardinality(DOMAIN ht)

EmptyTable(cap) == [i \in 0 .. cap - 1 |-> [hash |-> 0, idx |-> NullId]]

Used(ht, i) == ht[i].idx # NullId

(* Slot number d of a probe that starts at the home of hash.               *)
Probe(ht, hash, d) == (hash + d) % Cap(ht)

(* The first free slot of the probe.                                       *)
FreeSlot(ht, hash) ==
  Probe(ht, hash, CHOOSE d \in 0 .. Cap(ht) - 1 :
                    /\ ~ Used(ht, Probe(ht, hash, d))
                    /\ \A e \in 0 .. d - 1 : Used(ht, Probe(ht, hash, e)))

(* The slots that a probe passes before the first free one.                *)
Passed(ht, hash) ==
  {Probe(ht, hash, d) : d \in {d \in 0 .. Cap(ht) - 1 : \A e \in 0 .. d : Used(ht, Probe(ht, hash, e))}}

Put(ht, slot) == [ht EXCEPT ![FreeSlot(ht, slot.hash)] = slot]

(* Mutant: the slots stay where they were in a table twice as long.        *)
RehashInPlace(ht) ==
  [i \in 0 .. 2 * Cap(ht) - 1 |-> IF i < Cap(ht) THEN ht[i] ELSE [hash |-> 0, idx |-> NullId]]

(* The used slots move to a table twice as large, in their order.          *)
Rehash(ht) ==
  LET moved[n \in 0 .. Cap(ht)] ==
        IF n = 0 THEN EmptyTable(2 * Cap(ht))
        ELSE IF Used(ht, n - 1) THEN Put(moved[n - 1], ht[n - 1]) ELSE moved[n - 1]
  IN  moved[Cap(ht)]

IsCrowded == count * 4 >= Cap(hash_table) * 3

(* Mutant: strings are compared by hash and length.                        *)
SameLength(e, content) == e.head = content.head /\ e.length = Len(content.body)

(* EqType, or the comparison of lengths and bytes.                         *)
Same(e, content) == Decoded(e) = content

(* The entries with the hash and the content of what is interned, among    *)
(* those the probe passes: the first is the answer.                        *)
Found(content, hash) ==
  {hash_table[i].idx : i \in {i \in Passed(hash_table, hash) :
                                /\ hash_table[i].hash = hash
                                /\ Same(entries[hash_table[i].idx + 1], content)}}
-----------------------------------------------------------------------------
Init ==
  /\ kind \in Kinds /\ hash_of \in Hashes
  /\ entries = IF kind = "strings" THEN <<Entry(Text, 0, 0)>> ELSE <<>>
  /\ data = IF kind = "strings" THEN <<Terminator>> ELSE <<>>
  /\ hash_table = EmptyTable(InitialCapacity) /\ count = 0
  /\ answer = [of |-> Nothing, id |-> 0]

Answer(content, id) == answer' = [of |-> content, id |-> id]

(* The empty string is entry 0.                                            *)
InternEmpty(content) ==
  /\ kind = "strings" /\ content = EmptyString
  /\ Answer(content, 0)
  /\ UNCHANGED <<kind, hash_of, entries, data, hash_table, count>>

InternAgain(content) ==
  /\ ~ (kind = "strings" /\ content = EmptyString)
  /\ LET ids == Found(content, Hash(hash_of, content))
     IN  /\ ids # {}
         /\ \E id \in ids : Answer(content, id)
  /\ UNCHANGED <<kind, hash_of, entries, data, hash_table, count>>

(* The slice goes to the end of the data; only strings are terminated.     *)
Stored(content) ==
  data \o content.body \o (IF kind = "strings" THEN <<Terminator>> ELSE <<>>)

(* The table grows before the entry is added, and the probe starts anew.   *)
InternNew(content) ==
  /\ ~ (kind = "strings" /\ content = EmptyString)
  /\ Len(entries) < MaxEntries
  /\ LET hash == Hash(hash_of, content)
         ht   == IF IsCrowded THEN Rehash(hash_table) ELSE hash_table
     IN  /\ Found(content, hash) = {}
         /\ hash_table' = Put(ht, [hash |-> hash, idx |-> Len(entries)])
  /\ data' = Stored(content)
  /\ entries' = Append(entries, Entry(content.head, Len(data), Len(content.body)))
  /\ count' = count + 1
  /\ Answer(content, Len(entries))
  /\ UNCHANGED <<kind, hash_of>>

Intern(content) == InternEmpty(content) \/ InternAgain(content) \/ InternNew(content)

(* A new table of types holds the primitive ones before anybody asks.      *)
Loading == Len(entries) < Len(Preloaded(kind))

Next ==
  \/ Loading /\ Intern(Preloaded(kind)[Len(entries) + 1])
  \/ ~ Loading /\ \E content \in Contents(kind, Len(entries)) : Intern(content)

Spec == Init /\ [][Next]_vars
-----------------------------------------------------------------------------
(* Properties                                                              *)

(* Whatever the hash function, every entry is still found after any number *)
(* of insertions and rehashes: it has exactly one slot, with its own hash, *)
(* before the first free one of its probe; and every probe meets a free    *)
(* slot, so that the loops of Intern and Rehash end.                       *)
EntriesFound ==
  /\ \E i \in DOMAIN hash_table : ~ Used(hash_table, i)
  /\ count = Cardinality({i \in DOMAIN hash_table : Used(hash_table, i)})
  /\ \A id \in 0 .. Len(entries) - 1 :
       LET content == Decoded(entries[id + 1])
           hash == Hash(hash_of, content)
       IN  content = EmptyString \/
             \E i \in Passed(hash_table, hash) : hash_table[i] = [hash |-> hash, idx |-> id]

(* The tables implement AcuPool: equal contents get one id, unequal ones   *)
(* different ids, and what an id stands for never changes, although its    *)
(* bytes lie in a vector that grows and its slot moves.                    *)
Pool == INSTANCE AcuPool WITH
          known <- [i \in DOMAIN entries |-> Decoded(entries[i])]

PoolSpec == Pool!Spec
=============================================================================
