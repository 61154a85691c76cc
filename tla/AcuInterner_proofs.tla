-------------------------- MODULE AcuInterner_proofs --------------------------
(***************************************************************************)
(* Theorems about AcuInterner, for every hash function, every table size   *)
(* and all contents that are interned.                                     *)
(*                                                                         *)
(* The argument.  An open-addressing table is a promise about probes: what *)
(* is in the table lies before the first free slot of the probe of its     *)
(* hash.  Put keeps it for what is there, because filling a slot only      *)
(* makes probes go farther (PutIs); Rehash establishes it anew, one slot   *)
(* after the other (MoveOne, RehashIs); and the load that IsCrowded allows *)
(* leaves a free slot, so that there is a first one (RoomIsFree).  With it *)
(* Found is exactly the entry that holds the content (FoundIs): entries    *)
(* stay different (Different), and the answers are those of AcuPool.       *)
(***************************************************************************)
EXTENDS AcuInterner, SequenceTheorems, FiniteSetTheorems, WellFoundedInduction, TLAPS
-----------------------------------------------------------------------------
(* Numbers                                                                 *)

Less == {p \in Nat \X Nat : p[1] < p[2]}

LEMMA LeastNumber ==
  ASSUME NEW T, T \subseteq Nat, T # {}
  PROVE  \E x \in T : \A y \in T : x <= y
<1>1. IsWellFoundedOn(Less, Nat)
  BY NatLessThanWellFounded DEF OpToRel, Less
<1>2. PICK x \in T : \A y \in T : ~ (<<y, x>> \in Less)
  BY <1>1, WFMin
<1>3. \A y \in T : ~ (y < x)
  BY <1>2 DEF Less
<1> QED
  BY <1>3

LEMMA Multiples ==
  ASSUME NEW c \in Nat, c > 0, NEW x \in Int, NEW y \in Int, x > y
  PROVE  c * x >= c * y + c
OBVIOUS

(* Quotient and remainder are unique.                                      *)
LEMMA OneRemainder ==
  ASSUME NEW c \in Nat, c > 0, NEW x \in Int, NEW y \in Int, NEW r \in 0 .. c - 1, NEW s \in 0 .. c - 1,
         c * x + r = c * y + s
  PROVE  r = s
<1>1. c * x \in Int /\ c * y \in Int
  OBVIOUS
<1>2. CASE x > y
  BY <1>1, <1>2, Multiples
<1>3. CASE x < y
  BY <1>1, <1>3, Multiples
<1>4. CASE x = y
  BY <1>4
<1> QED
  BY <1>2, <1>3, <1>4

LEMMA Division ==
  ASSUME NEW c \in Nat, c > 0, NEW h \in Nat
  PROVE  h \div c \in Int /\ h % c \in 0 .. c - 1 /\ h = c * (h \div c) + (h % c)
<1>1. h \div c \in Int /\ h % c \in 0 .. c - 1
  OBVIOUS
<1>2. h = c * (h \div c) + (h % c)
  BY Z3
<1> QED
  BY <1>1, <1>2

(* A probe comes to every slot.                                            *)
LEMMA ProbeReaches ==
  ASSUME NEW c \in Nat, c > 0, NEW h \in Nat, NEW j \in 0 .. c - 1
  PROVE  \E d \in 0 .. c - 1 : (h + d) % c = j
<1> DEFINE q == h \div c
<1> DEFINE r == h % c
<1>1. q \in Int /\ r \in 0 .. c - 1 /\ h = c * q + r
  BY Division
<1> HIDE DEF q, r
<1>2. CASE j >= r
  <2> DEFINE d == j - r
  <2>1. d \in 0 .. c - 1 /\ h + d \in Nat /\ h + d = c * q + j
    <3>1. c * q \in Int
      BY <1>1
    <3> QED
      BY <1>1, <1>2, <3>1
  <2> HIDE DEF d
  <2>2. (h + d) % c \in 0 .. c - 1 /\ (h + d) \div c \in Int /\ h + d = c * ((h + d) \div c) + ((h + d) % c)
    BY <2>1, Division
  <2>3. (h + d) % c = j
    BY <1>1, <2>1, <2>2, OneRemainder
  <2> QED
    BY <2>1, <2>3
<1>3. CASE j < r
  <2> DEFINE d == j - r + c
  <2>1. d \in 0 .. c - 1 /\ h + d \in Nat /\ h + d = c * (q + 1) + j
    <3>1. c * q \in Int /\ c * (q + 1) = c * q + c
      BY <1>1
    <3> QED
      BY <1>1, <1>3, <3>1
  <2> HIDE DEF d
  <2>2. (h + d) % c \in 0 .. c - 1 /\ (h + d) \div c \in Int /\ h + d = c * ((h + d) \div c) + ((h + d) % c)
    BY <2>1, Division
  <2>3. (h + d) % c = j
    <3>1. q + 1 \in Int /\ c * (q + 1) + j = c * ((h + d) \div c) + ((h + d) % c)
      BY <1>1, <2>1, <2>2
    <3> QED
      BY <2>2, <3>1, OneRemainder
  <2> QED
    BY <2>1, <2>3
<1> QED
  BY <1>1, <1>2, <1>3
-----------------------------------------------------------------------------
(* Tables                                                                  *)

Slot == [hash : Nat, idx : Nat]

Tables(cap) == [0 .. cap - 1 -> Slot]

UsedSlots(ht) == {i \in DOMAIN ht : Used(ht, i)}

LEMMA TableIs ==
  ASSUME NEW cap \in Nat \ {0}, NEW ht \in Tables(cap)
  PROVE  /\ Cap(ht) = cap /\ DOMAIN ht = 0 .. cap - 1
         /\ \A h \in Nat, d \in Nat : Probe(ht, h, d) \in DOMAIN ht
         /\ IsFiniteSet(UsedSlots(ht)) /\ Cardinality(UsedSlots(ht)) \in Nat
         /\ UsedSlots(ht) \subseteq DOMAIN ht
<1>1. DOMAIN ht = 0 .. cap - 1
  BY DEF Tables
<1>2. IsFiniteSet(0 .. cap - 1) /\ Cardinality(0 .. cap - 1) = cap
  BY FS_Interval
<1>3. Cap(ht) = cap
  BY <1>1, <1>2 DEF Cap
<1>4. UsedSlots(ht) \in SUBSET (0 .. cap - 1)
  BY <1>1 DEF UsedSlots
<1>5. IsFiniteSet(UsedSlots(ht)) /\ Cardinality(UsedSlots(ht)) \in Nat
  BY <1>2, <1>4, FS_Subset, FS_CardinalityType
<1>6. ASSUME NEW h \in Nat, NEW d \in Nat PROVE (h + d) % cap \in 0 .. cap - 1
  BY Division
<1> QED
  BY <1>1, <1>3, <1>4, <1>5, <1>6 DEF Probe

(* When fewer slots are used than there are, one is free.                  *)
LEMMA RoomIsFree ==
  ASSUME NEW cap \in Nat \ {0}, NEW ht \in Tables(cap), Cardinality(UsedSlots(ht)) < cap
  PROVE  \E i \in DOMAIN ht : ~ Used(ht, i)
<1> SUFFICES ASSUME \A i \in DOMAIN ht : Used(ht, i) PROVE FALSE
  OBVIOUS
<1>1. UsedSlots(ht) = 0 .. cap - 1
  BY TableIs DEF UsedSlots
<1>2. Cardinality(0 .. cap - 1) = cap
  BY FS_Interval
<1> QED
  BY <1>1, <1>2

(* The probe of an insertion ends at a free slot.                          *)
LEMMA FreeSlotIs ==
  ASSUME NEW cap \in Nat \ {0}, NEW ht \in Tables(cap), NEW h \in Nat,
         \E i \in DOMAIN ht : ~ Used(ht, i)
  PROVE  /\ FreeSlot(ht, h) \in DOMAIN ht /\ ~ Used(ht, FreeSlot(ht, h))
         /\ \E d \in 0 .. cap - 1 : /\ FreeSlot(ht, h) = Probe(ht, h, d)
                                    /\ \A e \in 0 .. d - 1 : Used(ht, Probe(ht, h, e))
<1> DEFINE Free(d) == ~ Used(ht, Probe(ht, h, d)) /\ \A e \in 0 .. d - 1 : Used(ht, Probe(ht, h, e))
<1>1. Cap(ht) = cap /\ DOMAIN ht = 0 .. cap - 1 /\ \A d \in Nat : Probe(ht, h, d) \in DOMAIN ht
  BY TableIs
<1>2. \E d \in 0 .. cap - 1 : ~ Used(ht, Probe(ht, h, d))
  <2>1. PICK i \in DOMAIN ht : ~ Used(ht, i)
    OBVIOUS
  <2>2. \E d \in 0 .. cap - 1 : (h + d) % cap = i
    <3>1. cap \in Nat /\ cap > 0 /\ i \in 0 .. cap - 1
      BY <1>1, <2>1
    <3> QED
      BY <3>1, ProbeReaches
  <2> QED
    BY <1>1, <2>1, <2>2 DEF Probe
<1>3. \E d \in 0 .. cap - 1 : Free(d)
  <2> DEFINE T == {d \in 0 .. cap - 1 : ~ Used(ht, Probe(ht, h, d))}
  <2>1. T \subseteq Nat /\ T # {}
    BY <1>2
  <2>2. PICK d \in T : \A e \in T : d <= e
    BY <2>1, LeastNumber
  <2>3. d \in 0 .. cap - 1 /\ ~ Used(ht, Probe(ht, h, d))
    BY <2>2
  <2>4. ASSUME NEW e \in 0 .. d - 1 PROVE Used(ht, Probe(ht, h, e))
    <3>1. e \in 0 .. cap - 1 /\ ~ (d <= e)
      BY <2>3
    <3> QED
      BY <2>2, <3>1
  <2> QED
    BY <2>3, <2>4
<1> DEFINE first == CHOOSE d \in 0 .. cap - 1 : Free(d)
<1>4. first \in 0 .. cap - 1 /\ Free(first)
  BY <1>3
<1>5. FreeSlot(ht, h) = Probe(ht, h, first)
  BY <1>1 DEF FreeSlot
<1> HIDE DEF first
<1> QED
  BY <1>1, <1>4, <1>5

(* What Put does: the slot is filled, and every probe goes at least as far *)
(* as before.                                                              *)
LEMMA PutIs ==
  ASSUME NEW cap \in Nat \ {0}, NEW ht \in Tables(cap), NEW slot \in Slot, slot.idx # NullId,
         \E i \in DOMAIN ht : ~ Used(ht, i)
  PROVE  /\ Put(ht, slot) \in Tables(cap)
         /\ \E i \in DOMAIN ht :
              /\ ~ Used(ht, i) /\ i \in Passed(Put(ht, slot), slot.hash)
              /\ \A j \in DOMAIN ht : Put(ht, slot)[j] = IF j = i THEN slot ELSE ht[j]
              /\ UsedSlots(Put(ht, slot)) = UsedSlots(ht) \union {i}
         /\ Cardinality(UsedSlots(Put(ht, slot))) = Cardinality(UsedSlots(ht)) + 1
         /\ \A h \in Nat : Passed(ht, h) \subseteq Passed(Put(ht, slot), h)
<1> DEFINE i == FreeSlot(ht, slot.hash)
<1> DEFINE new == Put(ht, slot)
<1>1. slot.hash \in Nat /\ slot.idx \in Nat
  BY DEF Slot
<1>2. /\ i \in DOMAIN ht /\ ~ Used(ht, i)
      /\ \E d \in 0 .. cap - 1 : i = Probe(ht, slot.hash, d) /\ \A e \in 0 .. d - 1 : Used(ht, Probe(ht, slot.hash, e))
  BY <1>1, FreeSlotIs
<1>3. DOMAIN ht = 0 .. cap - 1 /\ Cap(ht) = cap
  BY TableIs
<1>4. new = [ht EXCEPT ![i] = slot]
  BY DEF Put
<1> HIDE DEF i
<1>5. new \in Tables(cap) /\ \A j \in DOMAIN ht : new[j] = IF j = i THEN slot ELSE ht[j]
  BY <1>2, <1>3, <1>4 DEF Tables
<1> HIDE DEF new
<1>6. DOMAIN new = 0 .. cap - 1 /\ Cap(new) = cap
  BY <1>5, TableIs
<1>7. \A h, d : Probe(new, h, d) = Probe(ht, h, d)
  BY <1>3, <1>6 DEF Probe
<1>8. \A j \in DOMAIN ht : Used(new, j) <=> Used(ht, j) \/ j = i
  BY <1>2, <1>5 DEF Used
<1>9. UsedSlots(new) = UsedSlots(ht) \union {i} /\ i \notin UsedSlots(ht)
  BY <1>2, <1>3, <1>6, <1>8 DEF UsedSlots
<1>10. Cardinality(UsedSlots(new)) = Cardinality(UsedSlots(ht)) + 1
  BY <1>9, TableIs, FS_AddElement
<1>11. \A h \in Nat, d \in Nat : Probe(ht, h, d) \in DOMAIN ht
  BY TableIs
<1>12. \A h \in Nat : Passed(ht, h) \subseteq Passed(new, h)
  <2> SUFFICES ASSUME NEW h \in Nat, NEW d \in 0 .. cap - 1, \A e \in 0 .. d : Used(ht, Probe(ht, h, e))
               PROVE  \A e \in 0 .. d : Used(new, Probe(new, h, e))
    BY <1>3, <1>6, <1>7 DEF Passed
  <2> QED
    BY <1>7, <1>8, <1>11
<1>13. i \in Passed(new, slot.hash)
  <2>1. PICK d \in 0 .. cap - 1 : i = Probe(ht, slot.hash, d) /\ \A e \in 0 .. d - 1 : Used(ht, Probe(ht, slot.hash, e))
    BY <1>2
  <2>2. ASSUME NEW e \in 0 .. d PROVE Used(new, Probe(new, slot.hash, e))
    <3>1. e \in 0 .. d - 1 \/ e = d
      OBVIOUS
    <3>2. Probe(ht, slot.hash, e) \in DOMAIN ht
      BY <1>1, <1>11
    <3> QED
      BY <1>7, <1>8, <2>1, <3>1, <3>2
  <2>3. i = Probe(new, slot.hash, d)
    BY <1>7, <2>1
  <2> QED
    BY <1>6, <2>2, <2>3 DEF Passed
<1> QED
  BY <1>2, <1>5, <1>9, <1>10, <1>12, <1>13 DEF new

LEMMA PassedTyped ==
  ASSUME NEW cap \in Nat \ {0}, NEW ht \in Tables(cap), NEW h \in Nat
  PROVE  Passed(ht, h) \subseteq UsedSlots(ht)
<1>1. Cap(ht) = cap /\ \A d \in Nat : Probe(ht, h, d) \in DOMAIN ht
  BY TableIs
<1>2. ASSUME NEW d \in 0 .. cap - 1, \A e \in 0 .. d : Used(ht, Probe(ht, h, e))
      PROVE  Probe(ht, h, d) \in UsedSlots(ht)
  <2>1. d \in 0 .. d
    OBVIOUS
  <2> QED
    BY <1>1, <1>2, <2>1 DEF UsedSlots
<1> QED
  BY <1>1, <1>2 DEF Passed

LEMMA EmptyTableIs ==
  ASSUME NEW cap \in Nat \ {0}
  PROVE  EmptyTable(cap) \in Tables(cap) /\ UsedSlots(EmptyTable(cap)) = {}
BY NullAssumption DEF EmptyTable, Tables, Slot, UsedSlots, Used
-----------------------------------------------------------------------------
(* Rehash                                                                  *)

(* A slot counts as moved when its probe finds it in the new table.        *)
HasMoved(ht, new, n) ==
  /\ new \in Tables(2 * Cap(ht))
  /\ \A i \in UsedSlots(new) : \E j \in UsedSlots(ht) : j < n /\ new[i] = ht[j]
  /\ \A j \in UsedSlots(ht) : j < n => \E i \in Passed(new, ht[j].hash) : new[i] = ht[j]
  /\ Cardinality(UsedSlots(new)) = Cardinality({j \in UsedSlots(ht) : j < n})

LEMMA MoveOne ==
  ASSUME NEW cap \in Nat \ {0}, NEW ht \in Tables(cap), NEW n \in 0 .. cap - 1,
         Cardinality(UsedSlots(ht)) < cap, NEW old, HasMoved(ht, old, n),
         NEW new, new = IF Used(ht, n) THEN Put(old, ht[n]) ELSE old
  PROVE  HasMoved(ht, new, n + 1)
<1> DEFINE Below(m) == {j \in UsedSlots(ht) : j < m}
<1>1. /\ Cap(ht) = cap /\ DOMAIN ht = 0 .. cap - 1 /\ UsedSlots(ht) \subseteq DOMAIN ht
      /\ IsFiniteSet(UsedSlots(ht))
  BY TableIs
<1>2. 2 * cap \in Nat \ {0} /\ old \in Tables(2 * cap)
  BY <1>1 DEF HasMoved
<1>3. \A j \in UsedSlots(ht) : j < n + 1 <=> j < n \/ j = n
  BY <1>1
<1>4. CASE ~ Used(ht, n)
  <2>1. n \notin UsedSlots(ht) /\ new = old
    BY <1>4 DEF UsedSlots
  <2>2. \A j \in UsedSlots(ht) : j < n + 1 <=> j < n
    BY <1>3, <2>1
  <2>3. Below(n + 1) = Below(n)
    BY <2>2
  <2> QED
    BY <2>1, <2>2, <2>3 DEF HasMoved
<1>5. CASE Used(ht, n)
  <2>1. n \in UsedSlots(ht) /\ new = Put(old, ht[n]) /\ ht[n] \in Slot /\ ht[n].idx # NullId
    BY <1>1, <1>5 DEF UsedSlots, Used, Tables
  <2>2. Below(n) \in SUBSET UsedSlots(ht) /\ Below(n + 1) = Below(n) \union {n} /\ n \notin Below(n)
    <3>1. ~ (n < n) /\ n < n + 1
      OBVIOUS
    <3>2. Below(n) \in SUBSET UsedSlots(ht) /\ n \notin Below(n)
      BY <3>1
    <3>3. \A j : j \in Below(n + 1) <=> j \in Below(n) \/ j = n
      BY <1>3, <2>1
    <3> QED
      BY <3>2, <3>3
  <2>3. /\ IsFiniteSet(Below(n)) /\ Cardinality(Below(n)) <= Cardinality(UsedSlots(ht))
        /\ Cardinality(Below(n + 1)) = Cardinality(Below(n)) + 1 /\ Cardinality(Below(n)) \in Nat
    <3> HIDE DEF Below
    <3> QED
      BY <1>1, <2>2, FS_Subset, FS_AddElement, FS_CardinalityType
  <2>4. \E i \in DOMAIN old : ~ Used(old, i)
    <3>1. Cardinality(UsedSlots(old)) = Cardinality(Below(n)) /\ Cardinality(UsedSlots(ht)) \in Nat
      BY TableIs DEF HasMoved
    <3>2. Cardinality(UsedSlots(old)) < 2 * cap
      <4> HIDE DEF Below
      <4> QED
        BY <2>3, <3>1
    <3> QED
      BY <1>2, <3>2, RoomIsFree
  <2>5. PICK i \in DOMAIN old :
          /\ ~ Used(old, i) /\ i \in Passed(new, ht[n].hash)
          /\ \A j \in DOMAIN old : new[j] = IF j = i THEN ht[n] ELSE old[j]
          /\ UsedSlots(new) = UsedSlots(old) \union {i}
    BY <1>2, <2>1, <2>4, PutIs
  <2>6. /\ new \in Tables(2 * cap) /\ Cardinality(UsedSlots(new)) = Cardinality(UsedSlots(old)) + 1
        /\ \A h \in Nat : Passed(old, h) \subseteq Passed(new, h)
    BY <1>2, <2>1, <2>4, PutIs
  <2>7. \A k \in UsedSlots(new) : \E j \in UsedSlots(ht) : j < n + 1 /\ new[k] = ht[j]
    <3>1. \A k \in UsedSlots(old) : k # i /\ k \in DOMAIN old
      BY <2>5 DEF UsedSlots
    <3> QED
      BY <1>3, <2>1, <2>5, <3>1 DEF HasMoved
  <2>8. ASSUME NEW j \in UsedSlots(ht), j < n + 1
        PROVE  \E k \in Passed(new, ht[j].hash) : new[k] = ht[j]
    <3>1. CASE j = n
      BY <2>5, <3>1
    <3>2. CASE j < n
      <4>1. PICK k \in Passed(old, ht[j].hash) : old[k] = ht[j]
        BY <3>2 DEF HasMoved
      <4>2. ht[j].hash \in Nat
        BY <1>1 DEF Tables, Slot
      <4>3. k \in UsedSlots(old)
        BY <1>2, <4>1, <4>2, PassedTyped
      <4>4. k # i /\ k \in DOMAIN old
        BY <2>5, <4>3 DEF UsedSlots
      <4> QED
        BY <2>5, <2>6, <4>1, <4>2, <4>4
    <3> QED
      BY <1>3, <2>8, <3>1, <3>2
  <2>9. Cardinality(UsedSlots(new)) = Cardinality({j \in UsedSlots(ht) : j < n + 1})
    BY <2>3, <2>6 DEF HasMoved
  <2> QED
    BY <1>1, <2>6, <2>7, <2>8, <2>9 DEF HasMoved
<1> QED
  BY <1>4, <1>5

(* Rehash moves every used slot, and the probe of each finds it again.     *)
LEMMA RehashIs ==
  ASSUME NEW cap \in Nat \ {0}, NEW ht \in Tables(cap), Cardinality(UsedSlots(ht)) < cap
  PROVE  /\ Rehash(ht) \in Tables(2 * cap)
         /\ \A i \in UsedSlots(Rehash(ht)) : \E j \in UsedSlots(ht) : Rehash(ht)[i] = ht[j]
         /\ \A j \in UsedSlots(ht) : \E i \in Passed(Rehash(ht), ht[j].hash) : Rehash(ht)[i] = ht[j]
         /\ Cardinality(UsedSlots(Rehash(ht))) = Cardinality(UsedSlots(ht))
<1> DEFINE E(g) == [n \in 0 .. Cap(ht) |->
                     IF n = 0 THEN EmptyTable(2 * Cap(ht))
                     ELSE IF Used(ht, n - 1) THEN Put(g[n - 1], ht[n - 1]) ELSE g[n - 1]]
<1> DEFINE m == CHOOSE g : g = E(g)
<1>1. Cap(ht) = cap /\ UsedSlots(ht) \subseteq 0 .. cap - 1 /\ IsFiniteSet(UsedSlots(ht))
  BY TableIs
<1>2. Rehash(ht) = m[Cap(ht)]
  BY DEF Rehash
(* The recursion has a solution: it is solved up to every n.               *)
<1>3. \E g : g = E(g)
  <2> DEFINE Solves(g, n) ==
        \A k \in 0 .. n : g[k] = IF k = 0 THEN EmptyTable(2 * Cap(ht))
                                 ELSE IF Used(ht, k - 1) THEN Put(g[k - 1], ht[k - 1]) ELSE g[k - 1]
  <2> DEFINE T == {n \in Nat : ~ \E g : Solves(g, n)}
  <2>1. T = {}
    <3> SUFFICES ASSUME T # {} PROVE FALSE
      OBVIOUS
    <3>1. PICK n \in T : \A k \in T : n <= k
      <4>1. T \subseteq Nat
        OBVIOUS
      <4> HIDE DEF T
      <4> QED
        BY <4>1, LeastNumber
    <3>2. n \in Nat /\ ~ \E g : Solves(g, n)
      BY <3>1
    <3>3. CASE n = 0
      <4> DEFINE g == [k \in {0} |-> EmptyTable(2 * Cap(ht))]
      <4>1. Solves(g, n)
        BY <3>3
      <4> QED
        BY <3>2, <4>1
    <3>4. CASE n # 0
      <4>1. n - 1 \in Nat /\ ~ (n <= n - 1)
        BY <3>2, <3>4
      <4>2. n - 1 \notin T
        BY <3>1, <4>1
      <4>3. PICK g : Solves(g, n - 1)
        BY <4>1, <4>2
      <4> DEFINE h == [k \in 0 .. n |-> IF k = n THEN IF Used(ht, n - 1) THEN Put(g[n - 1], ht[n - 1]) ELSE g[n - 1]
                                        ELSE g[k]]
      <4>4. ASSUME NEW k \in 0 .. n
            PROVE  h[k] = IF k = 0 THEN EmptyTable(2 * Cap(ht))
                          ELSE IF Used(ht, k - 1) THEN Put(h[k - 1], ht[k - 1]) ELSE h[k - 1]
        <5>1. CASE k = n
          <6>1. h[k - 1] = g[n - 1] /\ k # 0
            BY <3>2, <3>4, <5>1
          <6> QED
            BY <5>1, <6>1
        <5>2. CASE k # n
          <6>1. k \in 0 .. n - 1 /\ h[k] = g[k] /\ (k # 0 => h[k - 1] = g[k - 1])
            BY <3>2, <5>2
          <6> HIDE DEF h
          <6> QED
            BY <4>3, <6>1
        <5> QED
          BY <5>1, <5>2
      <4>5. Solves(h, n)
        BY <4>4
      <4> HIDE DEF h, Solves
      <4> QED
        BY <3>2, <4>5
    <3> QED
      BY <3>3, <3>4
  <2>2. PICK g : Solves(g, Cap(ht))
    BY <1>1, <2>1
  <2> DEFINE h == [k \in 0 .. Cap(ht) |-> g[k]]
  <2>3. h = E(h)
    <3>1. \A k \in 0 .. Cap(ht) : k # 0 => k - 1 \in 0 .. Cap(ht)
      BY <1>1
    <3> QED
      BY <2>2, <3>1
  <2> QED
    BY <2>3
<1>4. m = E(m)
  BY <1>3
<1> HIDE DEF m
<1>5. \A n \in 0 .. cap : m[n] = IF n = 0 THEN EmptyTable(2 * cap)
                                 ELSE IF Used(ht, n - 1) THEN Put(m[n - 1], ht[n - 1]) ELSE m[n - 1]
  BY <1>1, <1>4
<1> DEFINE B == {n \in 0 .. cap : ~ HasMoved(ht, m[n], n)}
<1>6. B = {}
  <2> SUFFICES ASSUME B # {} PROVE FALSE
    OBVIOUS
  <2>1. PICK n \in B : \A k \in B : n <= k
    <3>1. B \subseteq Nat
      OBVIOUS
    <3> HIDE DEF B
    <3> QED
      BY <3>1, LeastNumber
  <2>2. n \in 0 .. cap /\ ~ HasMoved(ht, m[n], n)
    BY <2>1
  <2>3. CASE n = 0
    <3>1. m[0] = EmptyTable(2 * cap) /\ 2 * cap \in Nat \ {0}
      BY <1>5
    <3>2. m[0] \in Tables(2 * cap) /\ UsedSlots(m[0]) = {}
      BY <3>1, EmptyTableIs
    <3>3. {j \in UsedSlots(ht) : j < 0} = {} /\ \A j \in UsedSlots(ht) : ~ (j < 0)
      BY <1>1
    <3>4. HasMoved(ht, m[0], 0)
      BY <1>1, <3>2, <3>3 DEF HasMoved
    <3> QED
      BY <2>2, <2>3, <3>4
  <2>4. CASE n # 0
    <3> DEFINE k == n - 1
    <3>1. k \in 0 .. cap - 1 /\ n = k + 1 /\ ~ (n <= k) /\ k \in 0 .. cap
      BY <2>2, <2>4
    <3>2. HasMoved(ht, m[k], k)
      BY <2>1, <3>1
    <3>3. m[n] = IF Used(ht, k) THEN Put(m[k], ht[k]) ELSE m[k]
      BY <1>5, <2>2, <2>4
    <3> HIDE DEF k
    <3>4. HasMoved(ht, m[n], k + 1)
      BY <3>1, <3>2, <3>3, MoveOne
    <3> QED
      BY <2>2, <3>1, <3>4
  <2> QED
    BY <2>3, <2>4
<1>7. HasMoved(ht, m[cap], cap)
  BY <1>6
<1>8. \A j \in UsedSlots(ht) : j < cap
  BY <1>1
<1>9. {j \in UsedSlots(ht) : j < cap} = UsedSlots(ht)
  BY <1>8
<1> QED
  BY <1>1, <1>2, <1>7, <1>8, <1>9 DEF HasMoved
-----------------------------------------------------------------------------
(* The inductive invariant                                                 *)

(* The table holds entries first + 1 .. n, whose hashes are hs: nothing    *)
(* else is in a slot, and the probe of each comes to it.                   *)
TableFor(ht, cap, hs, first, n) ==
  /\ cap \in Nat \ {0} /\ ht \in Tables(cap)
  /\ \A s \in UsedSlots(ht) : \E i \in first + 1 .. n : ht[s] = [hash |-> hs[i], idx |-> i - 1]
  /\ \A i \in first + 1 .. n :
       hs[i] \in Nat /\ \E s \in Passed(ht, hs[i]) : ht[s] = [hash |-> hs[i], idx |-> i - 1]

EntryType == [head : Heads, start : Nat, length : Nat]

Typed ==
  /\ kind \in Kinds /\ hash_of \in Hashes
  /\ entries \in Seq(EntryType) /\ Len(entries) <= MaxEntries
  /\ data \in Seq(Nat)
  /\ \A i \in 1 .. Len(entries) : entries[i].start + entries[i].length <= Len(data)

(* The empty string is an entry without a slot.                            *)
Unslotted == IF kind = "strings" THEN 1 ELSE 0

Begun ==
  kind = "strings" => Len(entries) >= 1 /\ Decoded(entries[1]) = EmptyString

Different ==
  \A i, j \in 1 .. Len(entries) : Decoded(entries[i]) = Decoded(entries[j]) => i = j

HashOfEntry == [i \in 1 .. Len(entries) |-> Hash(hash_of, Decoded(entries[i]))]

(* More than a quarter of the slots is free when an entry comes in, and    *)
(* then there is one left.                                                 *)
Slots ==
  /\ TableFor(hash_table, Cap(hash_table), HashOfEntry, Unslotted, Len(entries))
  /\ Cap(hash_table) >= 4
  /\ count = Cardinality(UsedSlots(hash_table)) /\ count < Cap(hash_table)

IInv == Typed /\ Begun /\ Different /\ Slots

LEMMA PutKeeps ==
  ASSUME NEW cap, NEW ht, NEW hs, NEW first \in Nat, NEW n \in Nat, first <= n,
         TableFor(ht, cap, hs, first, n), Cardinality(UsedSlots(ht)) < cap,
         n < NullId, NEW more, \A i \in first + 1 .. n : more[i] = hs[i], more[n + 1] \in Nat
  PROVE  LET new == Put(ht, [hash |-> more[n + 1], idx |-> n])
         IN  /\ TableFor(new, cap, more, first, n + 1)
             /\ Cardinality(UsedSlots(new)) = Cardinality(UsedSlots(ht)) + 1
<1> DEFINE slot == [hash |-> more[n + 1], idx |-> n]
<1> DEFINE new == Put(ht, slot)
<1>1. cap \in Nat \ {0} /\ ht \in Tables(cap)
  BY DEF TableFor
<1>2. slot \in Slot /\ slot.idx # NullId /\ slot.hash = more[n + 1]
  BY NullAssumption DEF Slot
<1> HIDE DEF slot
<1>3. \E i \in DOMAIN ht : ~ Used(ht, i)
  BY <1>1, RoomIsFree
<1>4. PICK i \in DOMAIN ht :
        /\ ~ Used(ht, i) /\ i \in Passed(new, slot.hash)
        /\ \A j \in DOMAIN ht : new[j] = IF j = i THEN slot ELSE ht[j]
        /\ UsedSlots(new) = UsedSlots(ht) \union {i}
  BY <1>1, <1>2, <1>3, PutIs
<1>5. /\ new \in Tables(cap) /\ Cardinality(UsedSlots(new)) = Cardinality(UsedSlots(ht)) + 1
      /\ \A h \in Nat : Passed(ht, h) \subseteq Passed(new, h)
  BY <1>1, <1>2, <1>3, PutIs
<1> HIDE DEF new
<1>6. \A s \in UsedSlots(ht) : s # i /\ s \in DOMAIN ht
  BY <1>4 DEF UsedSlots
<1>7. slot = [hash |-> more[n + 1], idx |-> (n + 1) - 1] /\ n + 1 \in first + 1 .. n + 1
  BY DEF slot
<1>8. ASSUME NEW s \in UsedSlots(new)
      PROVE  \E k \in first + 1 .. n + 1 : new[s] = [hash |-> more[k], idx |-> k - 1]
  <2>1. CASE s = i
    BY <1>4, <1>7, <2>1
  <2>2. CASE s # i
    <3>1. s \in UsedSlots(ht) /\ new[s] = ht[s]
      BY <1>4, <1>6, <2>2
    <3>2. PICK k \in first + 1 .. n : ht[s] = [hash |-> hs[k], idx |-> k - 1]
      BY <3>1 DEF TableFor
    <3>3. k \in first + 1 .. n + 1 /\ more[k] = hs[k]
      BY <3>2
    <3> QED
      BY <3>1, <3>2, <3>3
  <2> QED
    BY <2>1, <2>2
<1>9. ASSUME NEW k \in first + 1 .. n + 1
      PROVE  more[k] \in Nat /\ \E s \in Passed(new, more[k]) : new[s] = [hash |-> more[k], idx |-> k - 1]
  <2>1. CASE k = n + 1
    BY <1>2, <1>4, <1>7, <2>1
  <2>2. CASE k # n + 1
    <3>1. k \in first + 1 .. n /\ more[k] = hs[k]
      BY <2>2
    <3>2. PICK s \in Passed(ht, hs[k]) : hs[k] \in Nat /\ ht[s] = [hash |-> hs[k], idx |-> k - 1]
      BY <3>1 DEF TableFor
    <3>3. s \in UsedSlots(ht)
      BY <1>1, <3>2, PassedTyped
    <3> QED
      BY <1>4, <1>5, <1>6, <3>1, <3>2, <3>3
  <2> QED
    BY <2>1, <2>2
<1>10. TableFor(new, cap, more, first, n + 1)
  BY <1>1, <1>5, <1>8, <1>9 DEF TableFor
<1> QED
  BY <1>5, <1>10 DEF new, slot

LEMMA RehashKeeps ==
  ASSUME NEW cap, NEW ht, NEW hs, NEW first \in Nat, NEW n \in Nat,
         TableFor(ht, cap, hs, first, n), Cardinality(UsedSlots(ht)) < cap
  PROVE  /\ TableFor(Rehash(ht), 2 * cap, hs, first, n)
         /\ Cardinality(UsedSlots(Rehash(ht))) = Cardinality(UsedSlots(ht))
<1> DEFINE new == Rehash(ht)
<1>1. cap \in Nat \ {0} /\ ht \in Tables(cap) /\ 2 * cap \in Nat \ {0}
  BY DEF TableFor
<1>2. /\ new \in Tables(2 * cap)
      /\ \A i \in UsedSlots(new) : \E j \in UsedSlots(ht) : new[i] = ht[j]
      /\ \A j \in UsedSlots(ht) : \E i \in Passed(new, ht[j].hash) : new[i] = ht[j]
      /\ Cardinality(UsedSlots(new)) = Cardinality(UsedSlots(ht))
  BY <1>1, RehashIs
<1> HIDE DEF new
<1>3. \A s \in UsedSlots(new) : \E i \in first + 1 .. n : new[s] = [hash |-> hs[i], idx |-> i - 1]
  BY <1>2 DEF TableFor
<1>4. ASSUME NEW i \in first + 1 .. n
      PROVE  hs[i] \in Nat /\ \E s \in Passed(new, hs[i]) : new[s] = [hash |-> hs[i], idx |-> i - 1]
  <2>1. PICK j \in Passed(ht, hs[i]) : hs[i] \in Nat /\ ht[j] = [hash |-> hs[i], idx |-> i - 1]
    BY DEF TableFor
  <2>2. j \in UsedSlots(ht) /\ ht[j].hash = hs[i]
    BY <1>1, <2>1, PassedTyped
  <2> QED
    BY <1>2, <2>1, <2>2
<1>5. TableFor(new, 2 * cap, hs, first, n)
  BY <1>1, <1>2, <1>3, <1>4 DEF TableFor
<1> QED
  BY <1>2, <1>5 DEF new
-----------------------------------------------------------------------------
(* Slices of the data                                                      *)

LEMMA SliceIs ==
  ASSUME NEW d \in Seq(Nat), NEW a \in Nat, NEW n \in Nat, a + n <= Len(d)
  PROVE  /\ SubSeq(d, a + 1, a + n) \in Seq(Nat) /\ Len(SubSeq(d, a + 1, a + n)) = n
         /\ \A i \in 1 .. n : SubSeq(d, a + 1, a + n)[i] = d[a + i]
<1>1. \A i \in a + 1 .. a + n : i \in 1 .. Len(d) /\ d[i] \in Nat
  OBVIOUS
<1>2. a + 1 \in Int /\ a + n \in Int /\ (a + n) - (a + 1) + 1 = n /\ (a + 1 <= a + n <=> n >= 1)
  OBVIOUS
<1>3. /\ SubSeq(d, a + 1, a + n) \in Seq(Nat)
      /\ Len(SubSeq(d, a + 1, a + n)) = IF a + 1 <= a + n THEN (a + n) - (a + 1) + 1 ELSE 0
      /\ \A i \in 1 .. (a + n) - (a + 1) + 1 : SubSeq(d, a + 1, a + n)[i] = d[(a + 1) + i - 1]
  BY <1>1, <1>2, SubSeqProperties
<1>4. \A i \in 1 .. n : (a + 1) + i - 1 = a + i
  OBVIOUS
<1>5. Len(SubSeq(d, a + 1, a + n)) = n
  BY <1>2, <1>3
<1> QED
  BY <1>2, <1>3, <1>4, <1>5

LEMMA SliceStays ==
  ASSUME NEW d \in Seq(Nat), NEW x \in Seq(Nat), NEW a \in Nat, NEW n \in Nat, a + n <= Len(d)
  PROVE  SubSeq(d \o x, a + 1, a + n) = SubSeq(d, a + 1, a + n)
<1> DEFINE longer == d \o x
<1>1. /\ longer \in Seq(Nat) /\ Len(longer) = Len(d) + Len(x)
      /\ \A i \in 1 .. Len(d) + Len(x) : longer[i] = IF i <= Len(d) THEN d[i] ELSE x[i - Len(d)]
  BY ConcatProperties
<1> HIDE DEF longer
<1>2. a + n <= Len(longer) /\ \A i \in 1 .. n : longer[a + i] = d[a + i]
  BY <1>1
<1> DEFINE s == SubSeq(longer, a + 1, a + n)
<1> DEFINE t == SubSeq(d, a + 1, a + n)
<1>3. s \in Seq(Nat) /\ Len(s) = n /\ \A i \in 1 .. n : s[i] = longer[a + i]
  BY <1>1, <1>2, SliceIs
<1>4. t \in Seq(Nat) /\ Len(t) = n /\ \A i \in 1 .. n : t[i] = d[a + i]
  BY SliceIs
<1> HIDE DEF s, t
<1>5. s = t
  BY <1>2, <1>3, <1>4, SeqEqual
<1> QED
  BY <1>5 DEF s, t, longer

LEMMA SliceNew ==
  ASSUME NEW d \in Seq(Nat), NEW x \in Seq(Nat)
  PROVE  SubSeq(d \o x, Len(d) + 1, Len(d) + Len(x)) = x
<1> DEFINE longer == d \o x
<1>1. /\ longer \in Seq(Nat) /\ Len(longer) = Len(d) + Len(x)
      /\ \A i \in 1 .. Len(d) + Len(x) : longer[i] = IF i <= Len(d) THEN d[i] ELSE x[i - Len(d)]
  BY ConcatProperties
<1> HIDE DEF longer
<1>2. Len(d) \in Nat /\ Len(x) \in Nat
  OBVIOUS
<1>3. ASSUME NEW i \in 1 .. Len(x) PROVE longer[Len(d) + i] = x[i]
  <2>1. Len(d) + i \in 1 .. Len(d) + Len(x) /\ ~ (Len(d) + i <= Len(d)) /\ (Len(d) + i) - Len(d) = i
    BY <1>2
  <2> QED
    BY <1>1, <2>1
<1> DEFINE s == SubSeq(longer, Len(d) + 1, Len(d) + Len(x))
<1>4. s \in Seq(Nat) /\ Len(s) = Len(x) /\ \A i \in 1 .. Len(x) : s[i] = longer[Len(d) + i]
  BY <1>1, <1>2, SliceIs
<1> HIDE DEF s
<1>5. s = x
  BY <1>3, <1>4, SeqEqual
<1> QED
  BY <1>5 DEF s, longer

LEMMA EntryIs ==
  ASSUME Typed, NEW i \in 1 .. Len(entries)
  PROVE  /\ entries[i].head \in Heads /\ entries[i].start \in Nat /\ entries[i].length \in Nat
         /\ entries[i].start + entries[i].length <= Len(data) /\ data \in Seq(Nat)
<1>1. entries[i] \in EntryType /\ entries[i].start + entries[i].length <= Len(data) /\ data \in Seq(Nat)
  BY DEF Typed
<1> QED
  BY <1>1 DEF EntryType

LEMMA DecodedIs ==
  ASSUME Typed, NEW i \in 1 .. Len(entries)
  PROVE  Decoded(entries[i]) \in Values
<1>1. /\ entries[i].head \in Heads /\ entries[i].start \in Nat /\ entries[i].length \in Nat
      /\ entries[i].start + entries[i].length <= Len(data) /\ data \in Seq(Nat)
  BY EntryIs
<1>2. SubSeq(data, entries[i].start + 1, entries[i].start + entries[i].length) \in Seq(Nat)
  BY <1>1, SliceIs
<1> QED
  BY <1>1, <1>2 DEF Decoded, Content, Values

(* An entry that comes in says what was interned, and the others what they *)
(* said before.                                                            *)
LEMMA AddedIs ==
  ASSUME Typed, NEW content \in Values, InternNew(content)
  PROVE  /\ Typed' /\ Len(entries') = Len(entries) + 1
         /\ \A i \in 1 .. Len(entries) : entries'[i] = entries[i] /\ Decoded(entries[i])' = Decoded(entries[i])
         /\ Decoded(entries[Len(entries)])' = content
<1> DEFINE n == Len(entries)
<1> DEFINE e == Entry(content.head, Len(data), Len(content.body))
<1> DEFINE end == IF kind = "strings" THEN <<Terminator>> ELSE <<>>
<1>1. /\ entries' = Append(entries, e) /\ data' = (data \o content.body) \o end
      /\ n < MaxEntries /\ UNCHANGED <<kind, hash_of>>
  BY DEF InternNew, Stored
<1>2. /\ entries \in Seq(EntryType) /\ data \in Seq(Nat) /\ n \in Nat /\ Len(data) \in Nat
      /\ content.head \in Heads /\ content.body \in Seq(Nat) /\ Len(content.body) \in Nat
      /\ content = Content(content.head, content.body)
  BY DEF Typed, Values, Content
<1>3. e \in EntryType /\ e.head = content.head /\ e.start = Len(data) /\ e.length = Len(content.body)
  BY <1>2 DEF Entry, EntryType
<1>4. end \in Seq(Nat) /\ Len(end) \in Nat
  BY DEF Terminator
<1> HIDE DEF e, end
<1>5. /\ entries' \in Seq(EntryType) /\ Len(entries') = n + 1
      /\ \A i \in 1 .. n : entries'[i] = entries[i]
      /\ entries'[n + 1] = e
  BY <1>1, <1>2, <1>3, AppendProperties
<1> DEFINE longer == data \o content.body
<1>6. longer \in Seq(Nat) /\ Len(longer) = Len(data) + Len(content.body)
  BY <1>2, ConcatProperties
<1>7. data' \in Seq(Nat) /\ Len(data') = Len(longer) + Len(end)
  <2> HIDE DEF longer
  <2>1. longer \o end \in Seq(Nat) /\ Len(longer \o end) = Len(longer) + Len(end)
    BY <1>4, <1>6, ConcatProperties
  <2> QED
    BY <1>1, <2>1 DEF longer
<1>8. \A a \in Nat, k \in Nat : a + k <= Len(data) => SubSeq(data', a + 1, a + k) = SubSeq(data, a + 1, a + k)
  <2> SUFFICES ASSUME NEW a \in Nat, NEW k \in Nat, a + k <= Len(data)
               PROVE  SubSeq(data', a + 1, a + k) = SubSeq(data, a + 1, a + k)
    OBVIOUS
  <2>1. SubSeq(longer, a + 1, a + k) = SubSeq(data, a + 1, a + k)
    BY <1>2, SliceStays
  <2>2. SubSeq(longer \o end, a + 1, a + k) = SubSeq(longer, a + 1, a + k)
    <3>1. a + k <= Len(longer)
      BY <1>2, <1>6
    <3> HIDE DEF longer
    <3> QED
      BY <1>4, <1>6, <3>1, SliceStays
  <2> QED
    BY <1>1, <2>1, <2>2
<1>9. SubSeq(data', Len(data) + 1, Len(data) + Len(content.body)) = content.body
  <2>1. SubSeq(longer, Len(data) + 1, Len(data) + Len(content.body)) = content.body
    BY <1>2, SliceNew
  <2>2. SubSeq(longer \o end, Len(data) + 1, Len(data) + Len(content.body))
        = SubSeq(longer, Len(data) + 1, Len(data) + Len(content.body))
    <3>1. Len(data) + Len(content.body) <= Len(longer)
      BY <1>2, <1>6
    <3> HIDE DEF longer
    <3> QED
      BY <1>2, <1>4, <1>6, <3>1, SliceStays
  <2> QED
    BY <1>1, <2>1, <2>2
<1>10. ASSUME NEW i \in 1 .. n
       PROVE  Decoded(entries[i])' = Decoded(entries[i])
  <2>1. entries[i].start \in Nat /\ entries[i].length \in Nat /\ entries[i].start + entries[i].length <= Len(data)
    BY EntryIs
  <2> QED
    BY <1>5, <1>8, <2>1 DEF Decoded
<1>11. Decoded(entries[Len(entries)])' = content
  BY <1>2, <1>3, <1>5, <1>9 DEF Decoded
<1>12. Typed'
  <2>1. ASSUME NEW i \in 1 .. n + 1 PROVE entries'[i].start + entries'[i].length <= Len(data')
    <3>1. CASE i = n + 1
      BY <1>2, <1>3, <1>4, <1>5, <1>6, <1>7, <3>1
    <3>2. CASE i # n + 1
      <4>1. i \in 1 .. n /\ entries'[i] = entries[i]
        BY <1>2, <1>5, <3>2
      <4>2. entries[i].start \in Nat /\ entries[i].length \in Nat /\ entries[i].start + entries[i].length <= Len(data)
        BY <4>1, EntryIs
      <4>3. Len(data) <= Len(data')
        BY <1>2, <1>4, <1>6, <1>7
      <4>4. Len(data') \in Nat
        BY <1>7
      <4> QED
        BY <1>2, <4>1, <4>2, <4>3, <4>4
    <3> QED
      BY <3>1, <3>2
  <2>2. n + 1 <= MaxEntries
    BY <1>1, <1>2, NullAssumption
  <2> QED
    BY <1>1, <1>5, <1>7, <2>1, <2>2 DEF Typed
<1> QED
  BY <1>5, <1>10, <1>11, <1>12
-----------------------------------------------------------------------------
(* Steps                                                                   *)

(* What is asked for has a hash.                                           *)
LEMMA AskedIs ==
  ASSUME Typed, Next
  PROVE  \E content \in Values : Hash(hash_of, content) \in Nat /\ Intern(content)
<1>1. kind \in Kinds /\ hash_of \in Hashes /\ Len(entries) \in Nat /\ Len(entries) <= MaxEntries
  BY DEF Typed
<1>2. /\ Preloaded(kind) \in Seq(Values) /\ Len(Preloaded(kind)) \in Nat
      /\ \A i \in DOMAIN Preloaded(kind) : Hash(hash_of, Preloaded(kind)[i]) \in Nat
      /\ \A n \in Len(Preloaded(kind)) .. MaxEntries : \A content \in Contents(kind, n) :
           content \in Values /\ Hash(hash_of, content) \in Nat
  BY <1>1, ContentsAssumption
<1>3. CASE Loading /\ Intern(Preloaded(kind)[Len(entries) + 1])
  <2>1. Len(entries) + 1 \in 1 .. Len(Preloaded(kind))
    BY <1>1, <1>2, <1>3 DEF Loading
  <2>2. Len(entries) + 1 \in DOMAIN Preloaded(kind) /\ Preloaded(kind)[Len(entries) + 1] \in Values
    BY <1>2, <2>1
  <2> QED
    BY <1>2, <1>3, <2>2
<1>4. CASE ~ Loading /\ \E content \in Contents(kind, Len(entries)) : Intern(content)
  <2>1. Len(entries) \in Len(Preloaded(kind)) .. MaxEntries
    BY <1>1, <1>2, <1>4, NullAssumption DEF Loading
  <2> QED
    BY <1>2, <1>4, <2>1
<1> QED
  BY <1>3, <1>4 DEF Next

LEMMA SlotsAre ==
  ASSUME IInv
  PROVE  /\ Cap(hash_table) \in Nat \ {0} /\ hash_table \in Tables(Cap(hash_table))
         /\ DOMAIN hash_table = 0 .. Cap(hash_table) - 1
         /\ \A s \in UsedSlots(hash_table) : \E i \in Unslotted + 1 .. Len(entries) :
              hash_table[s] = [hash |-> Hash(hash_of, Decoded(entries[i])), idx |-> i - 1]
         /\ \A i \in Unslotted + 1 .. Len(entries) :
              LET h == Hash(hash_of, Decoded(entries[i]))
              IN  h \in Nat /\ \E s \in Passed(hash_table, h) : hash_table[s] = [hash |-> h, idx |-> i - 1]
         /\ Unslotted \in {0, 1}
<1>1. Unslotted \in {0, 1}
  BY DEF Unslotted
<1>2. \A i \in Unslotted + 1 .. Len(entries) :
        i \in 1 .. Len(entries) /\ HashOfEntry[i] = Hash(hash_of, Decoded(entries[i]))
  BY <1>1 DEF HashOfEntry, IInv, Typed
<1>3. TableFor(hash_table, Cap(hash_table), HashOfEntry, Unslotted, Len(entries))
  BY DEF IInv, Slots
<1>4. Cap(hash_table) \in Nat \ {0} /\ hash_table \in Tables(Cap(hash_table))
  BY <1>3 DEF TableFor
<1>5. DOMAIN hash_table = 0 .. Cap(hash_table) - 1
  BY <1>4, TableIs
<1>6. /\ \A s \in UsedSlots(hash_table) : \E i \in Unslotted + 1 .. Len(entries) :
           hash_table[s] = [hash |-> Hash(hash_of, Decoded(entries[i])), idx |-> i - 1]
      /\ \A i \in Unslotted + 1 .. Len(entries) :
           LET h == Hash(hash_of, Decoded(entries[i]))
           IN  h \in Nat /\ \E s \in Passed(hash_table, h) : hash_table[s] = [hash |-> h, idx |-> i - 1]
  BY <1>2, <1>3 DEF TableFor
<1> QED
  BY <1>1, <1>4, <1>5, <1>6

(* Found is the entry that holds the content, if there is one.             *)
LEMMA FoundIs ==
  ASSUME IInv, NEW content \in Values, Hash(hash_of, content) \in Nat, ~ (kind = "strings" /\ content = EmptyString)
  PROVE  /\ \A id \in Found(content, Hash(hash_of, content)) :
              \E i \in 1 .. Len(entries) : id = i - 1 /\ Decoded(entries[i]) = content
         /\ \A i \in 1 .. Len(entries) : Decoded(entries[i]) = content => i - 1 \in Found(content, Hash(hash_of, content))
<1> DEFINE hash == Hash(hash_of, content)
<1>1. /\ Cap(hash_table) \in Nat \ {0} /\ hash_table \in Tables(Cap(hash_table))
      /\ \A s \in UsedSlots(hash_table) : \E i \in Unslotted + 1 .. Len(entries) :
           hash_table[s] = [hash |-> Hash(hash_of, Decoded(entries[i])), idx |-> i - 1]
      /\ \A i \in Unslotted + 1 .. Len(entries) :
           LET h == Hash(hash_of, Decoded(entries[i]))
           IN  h \in Nat /\ \E s \in Passed(hash_table, h) : hash_table[s] = [hash |-> h, idx |-> i - 1]
      /\ Unslotted \in {0, 1}
  BY SlotsAre
<1> Len(entries) \in Nat
  BY DEF IInv, Typed
<1>2. ASSUME NEW s \in Passed(hash_table, hash), Same(entries[hash_table[s].idx + 1], content)
      PROVE  \E i \in 1 .. Len(entries) : hash_table[s].idx = i - 1 /\ Decoded(entries[i]) = content
  <2>1. s \in UsedSlots(hash_table)
    BY <1>1, <1>2, PassedTyped
  <2>2. PICK i \in Unslotted + 1 .. Len(entries) :
          hash_table[s] = [hash |-> Hash(hash_of, Decoded(entries[i])), idx |-> i - 1]
    BY <1>1, <2>1
  <2>3. i \in 1 .. Len(entries) /\ hash_table[s].idx = i - 1 /\ hash_table[s].idx + 1 = i
    BY <1>1, <2>2
  <2> QED
    BY <1>2, <2>3 DEF Same
<1>3. ASSUME NEW i \in 1 .. Len(entries), Decoded(entries[i]) = content
      PROVE  i - 1 \in Found(content, hash)
  <2>1. i \in Unslotted + 1 .. Len(entries)
    <3>1. CASE kind = "strings"
      <4>1. i # 1
        BY <1>3, <3>1 DEF IInv, Begun
      <4> QED
        BY <1>1, <3>1, <4>1 DEF Unslotted
    <3>2. CASE kind # "strings"
      BY <1>1, <3>2 DEF Unslotted
    <3> QED
      BY <3>1, <3>2
  <2>2. PICK s \in Passed(hash_table, hash) : hash_table[s] = [hash |-> hash, idx |-> i - 1]
    BY <1>1, <1>3, <2>1
  <2>3. hash_table[s].hash = hash /\ hash_table[s].idx = i - 1 /\ hash_table[s].idx + 1 = i
    BY <2>2
  <2>4. Same(entries[hash_table[s].idx + 1], content)
    BY <1>3, <2>3 DEF Same
  <2> HIDE DEF hash
  <2> QED
    BY <2>3, <2>4 DEF Found
<1> HIDE DEF hash
<1>4. ASSUME NEW id \in Found(content, hash)
      PROVE  \E i \in 1 .. Len(entries) : id = i - 1 /\ Decoded(entries[i]) = content
  <2>1. PICK s \in Passed(hash_table, hash) : id = hash_table[s].idx /\ Same(entries[hash_table[s].idx + 1], content)
    BY <1>4 DEF Found
  <2> QED
    BY <1>2, <2>1
<1> QED
  BY <1>3, <1>4 DEF hash

(* A content that has an entry gets its number, and nothing else happens.  *)
LEMMA AgainStep ==
  ASSUME IInv, NEW content \in Values, Hash(hash_of, content) \in Nat, InternEmpty(content) \/ InternAgain(content)
  PROVE  /\ UNCHANGED <<kind, hash_of, entries, data, hash_table, count>>
         /\ \E i \in 1 .. Len(entries) : Decoded(entries[i]) = content /\ answer' = [of |-> content, id |-> i - 1]
<1>1. CASE InternEmpty(content)
  <2>1. /\ UNCHANGED <<kind, hash_of, entries, data, hash_table, count>> /\ answer' = [of |-> content, id |-> 0]
        /\ kind = "strings" /\ content = EmptyString
    BY <1>1 DEF InternEmpty, Answer
  <2>2. 1 \in 1 .. Len(entries) /\ Decoded(entries[1]) = content /\ 1 - 1 = 0
    BY <2>1 DEF IInv, Begun, Typed
  <2> QED
    BY <2>1, <2>2
<1>2. CASE InternAgain(content)
  <2>1. ~ (kind = "strings" /\ content = EmptyString)
    BY <1>2 DEF InternAgain
  <2>2. PICK id \in Found(content, Hash(hash_of, content)) : answer' = [of |-> content, id |-> id]
    BY <1>2 DEF InternAgain, Answer
  <2>3. UNCHANGED <<kind, hash_of, entries, data, hash_table, count>>
    BY <1>2 DEF InternAgain
  <2> QED
    BY <2>1, <2>2, <2>3, FoundIs
<1> QED
  BY <1>1, <1>2

(* A content gets an entry only when none has it.                          *)
LEMMA NewIs ==
  ASSUME IInv, NEW content \in Values, Hash(hash_of, content) \in Nat, InternNew(content)
  PROVE  \A i \in 1 .. Len(entries) : Decoded(entries[i]) # content
<1>1. ~ (kind = "strings" /\ content = EmptyString) /\ Found(content, Hash(hash_of, content)) = {}
  BY DEF InternNew
<1> QED
  BY <1>1, FoundIs

LEMMA GrownIs ==
  ASSUME IInv, NEW content \in Values, InternNew(content)
  PROVE  \E ht, cap :
           /\ TableFor(ht, cap, HashOfEntry, Unslotted, Len(entries))
           /\ cap >= 4 /\ count = Cardinality(UsedSlots(ht)) /\ count + 1 < cap
           /\ hash_table' = Put(ht, [hash |-> Hash(hash_of, content), idx |-> Len(entries)])
<1> DEFINE cap == Cap(hash_table)
<1>1. /\ TableFor(hash_table, cap, HashOfEntry, Unslotted, Len(entries))
      /\ cap >= 4 /\ count = Cardinality(UsedSlots(hash_table)) /\ count < cap
  BY DEF IInv, Slots
<1>2. hash_table' = Put(IF count * 4 >= cap * 3 THEN Rehash(hash_table) ELSE hash_table,
                        [hash |-> Hash(hash_of, content), idx |-> Len(entries)])
  BY DEF InternNew, IsCrowded
<1>3. Unslotted \in Nat /\ Len(entries) \in Nat
  BY DEF Unslotted, IInv, Typed
<1>4. cap \in Nat \ {0} /\ count \in Nat
  <2>1. cap \in Nat \ {0} /\ hash_table \in Tables(cap)
    BY <1>1 DEF TableFor
  <2> QED
    BY <1>1, <2>1, TableIs
<1> HIDE DEF cap
<1>5. CASE count * 4 >= cap * 3
  <2>1. /\ TableFor(Rehash(hash_table), 2 * cap, HashOfEntry, Unslotted, Len(entries))
        /\ Cardinality(UsedSlots(Rehash(hash_table))) = Cardinality(UsedSlots(hash_table))
    BY <1>1, <1>3, RehashKeeps
  <2>2. 2 * cap >= 4 /\ count + 1 < 2 * cap
    BY <1>1, <1>4
  <2> QED
    BY <1>1, <1>2, <1>5, <2>1, <2>2
<1>6. CASE ~ (count * 4 >= cap * 3)
  <2>1. count + 1 < cap
    BY <1>1, <1>4, <1>6
  <2> QED
    BY <1>1, <1>2, <1>6, <2>1
<1> QED
  BY <1>5, <1>6

LEMMA NewStep ==
  ASSUME IInv, NEW content \in Values, Hash(hash_of, content) \in Nat, InternNew(content)
  PROVE  IInv'
<1> DEFINE n == Len(entries)
<1>1. n \in Nat /\ n < MaxEntries /\ UNCHANGED <<kind, hash_of>> /\ count' = count + 1
  BY DEF IInv, Typed, InternNew
<1>2. /\ Typed' /\ Len(entries') = n + 1
      /\ \A i \in 1 .. n : entries'[i] = entries[i] /\ Decoded(entries[i])' = Decoded(entries[i])
      /\ Decoded(entries[n])' = content
  BY AddedIs DEF IInv
<1>3. \A i \in 1 .. n : Decoded(entries[i]) # content
  BY NewIs
<1>4. \A i \in 1 .. n + 1 : i \in 1 .. n \/ i = n + 1
  BY <1>1
<1>6. Begun'
  BY <1>1, <1>2 DEF IInv, Begun
<1>7. Different'
  <2> SUFFICES ASSUME NEW i \in 1 .. n + 1, NEW j \in 1 .. n + 1, Decoded(entries[i])' = Decoded(entries[j])'
               PROVE  i = j
    BY <1>2 DEF Different
  <2>1. CASE i \in 1 .. n /\ j \in 1 .. n
    BY <1>2, <2>1 DEF IInv, Different
  <2>2. CASE i = n + 1 /\ j # n + 1
    BY <1>2, <1>3, <1>4, <2>2
  <2>3. CASE i # n + 1 /\ j = n + 1
    BY <1>2, <1>3, <1>4, <2>3
  <2> QED
    BY <1>4, <2>1, <2>2, <2>3
<1>8. Slots'
  <2> DEFINE more == HashOfEntry'
  <2>1. /\ \A i \in 1 .. n : more[i] = HashOfEntry[i]
        /\ more[n + 1] = Hash(hash_of, content)
    BY <1>1, <1>2 DEF HashOfEntry
  <2>2. Unslotted \in {0, 1} /\ Unslotted' = Unslotted /\ Unslotted <= n
    BY <1>1 DEF Unslotted, IInv, Begun
  <2>3. PICK ht, cap :
          /\ TableFor(ht, cap, HashOfEntry, Unslotted, n)
          /\ cap >= 4 /\ count = Cardinality(UsedSlots(ht)) /\ count + 1 < cap
          /\ hash_table' = Put(ht, [hash |-> Hash(hash_of, content), idx |-> n])
    BY GrownIs
  <2>4. \A i \in Unslotted + 1 .. n : more[i] = HashOfEntry[i]
    BY <2>1, <2>2
  <2>5. count \in Nat /\ cap \in Nat \ {0}
    <3>1. cap \in Nat \ {0} /\ ht \in Tables(cap)
      BY <2>3 DEF TableFor
    <3> QED
      BY <2>3, <3>1, TableIs
  <2>6. n < NullId /\ Unslotted \in Nat /\ Cardinality(UsedSlots(ht)) < cap /\ more[n + 1] \in Nat
    BY <1>1, <2>1, <2>2, <2>3, <2>5, NullAssumption
  <2> HIDE DEF more, n
  <2>7. /\ TableFor(Put(ht, [hash |-> more[n + 1], idx |-> n]), cap, more, Unslotted, n + 1)
        /\ Cardinality(UsedSlots(Put(ht, [hash |-> more[n + 1], idx |-> n]))) = Cardinality(UsedSlots(ht)) + 1
    BY <1>1, <2>2, <2>3, <2>4, <2>6, PutKeeps
  <2>8. /\ TableFor(hash_table', cap, more, Unslotted', n + 1)
        /\ Cardinality(UsedSlots(hash_table')) = count + 1
    BY <2>1, <2>2, <2>3, <2>7
  <2>9. Cap(hash_table') = cap
    <3>1. hash_table' \in Tables(cap)
      BY <2>8 DEF TableFor
    <3> QED
      BY <2>5, <3>1, TableIs
  <2> QED
    BY <1>1, <1>2, <2>3, <2>8, <2>9 DEF Slots, more
<1> QED
  BY <1>2, <1>6, <1>7, <1>8 DEF IInv
-----------------------------------------------------------------------------
(* The theorems                                                            *)

LEMMA InitIs ==
  ASSUME Init
  PROVE  IInv
<1>1. /\ kind \in Kinds /\ hash_of \in Hashes
      /\ entries = IF kind = "strings" THEN <<Entry(Text, 0, 0)>> ELSE <<>>
      /\ data = IF kind = "strings" THEN <<Terminator>> ELSE <<>>
      /\ hash_table = EmptyTable(InitialCapacity) /\ count = 0
  BY DEF Init
<1>2. Typed
  <2>1. Entry(Text, 0, 0) \in EntryType
    <3>1. Text \in Heads
      BY DEF Text, HeadOf, Heads, HeadKinds
    <3> QED
      BY <3>1 DEF Entry, EntryType
  <2>2. entries \in Seq(EntryType) /\ Len(entries) <= MaxEntries
    BY <1>1, <2>1, NullAssumption
  <2>3. data \in Seq(Nat)
    BY <1>1 DEF Terminator
  <2>4. ASSUME NEW i \in 1 .. Len(entries) PROVE entries[i].start + entries[i].length <= Len(data)
    BY <1>1 DEF Entry
  <2> QED
    BY <1>1, <2>2, <2>3, <2>4 DEF Typed
<1>3. Begun
  <2> SUFFICES ASSUME kind = "strings" PROVE Len(entries) >= 1 /\ Decoded(entries[1]) = EmptyString
    BY DEF Begun
  <2>1. Len(entries) = 1 /\ entries[1] = Entry(Text, 0, 0)
    BY <1>1
  <2>2. entries[1].head = Text /\ entries[1].start = 0 /\ entries[1].length = 0
    BY <2>1 DEF Entry
  <2> DEFINE from == entries[1].start + 1
  <2> DEFINE to == entries[1].start + entries[1].length
  <2>3. from \in Int /\ to \in Int /\ to < from
    BY <2>2
  <2> HIDE DEF from, to
  <2>4. SubSeq(data, from, to) = <<>>
    BY <2>3, SubSeqEmpty
  <2>5. Decoded(entries[1]) = Content(entries[1].head, SubSeq(data, from, to))
    BY DEF Decoded, from, to
  <2> QED
    BY <2>1, <2>2, <2>4, <2>5 DEF EmptyString
<1>4. Different
  <2>1. \A i, j \in 1 .. Len(entries) : i = j
    BY <1>1
  <2> QED
    BY <2>1 DEF Different
<1>5. Slots
  <2>1. InitialCapacity \in Nat \ {0} /\ InitialCapacity >= 4
    BY CapacityAssumption
  <2>2. hash_table \in Tables(InitialCapacity) /\ UsedSlots(hash_table) = {}
    BY <1>1, <2>1, EmptyTableIs
  <2>3. Cap(hash_table) = InitialCapacity
    BY <2>1, <2>2, TableIs
  <2>4. ~ \E i : i \in Unslotted + 1 .. Len(entries)
    BY <1>1 DEF Unslotted
  <2>5. count = Cardinality(UsedSlots(hash_table)) /\ count < InitialCapacity
    BY <1>1, <2>1, <2>2, FS_EmptySet
  <2>6. TableFor(hash_table, InitialCapacity, HashOfEntry, Unslotted, Len(entries))
    BY <2>1, <2>2, <2>4 DEF TableFor
  <2> QED
    BY <2>1, <2>3, <2>5, <2>6 DEF Slots
<1> QED
  BY <1>2, <1>3, <1>4, <1>5 DEF IInv

LEMMA InvStep ==
  ASSUME IInv, [Next]_vars
  PROVE  IInv'
<1>1. ASSUME UNCHANGED <<kind, hash_of, entries, data, hash_table, count>>
      PROVE  IInv'
  <2>1. Typed' /\ Begun' /\ Different'
    BY <1>1 DEF IInv, Typed, Begun, Different, Decoded
  <2>2. HashOfEntry' = HashOfEntry /\ Unslotted' = Unslotted
    BY <1>1 DEF HashOfEntry, Unslotted, Decoded
  <2>3. Slots'
    BY <1>1, <2>2 DEF IInv, Slots
  <2> QED
    BY <2>1, <2>3 DEF IInv
<1>2. CASE Next
  <2>1. PICK content \in Values : Hash(hash_of, content) \in Nat /\ Intern(content)
    BY <1>2, AskedIs DEF IInv
  <2>2. CASE InternNew(content)
    BY <2>1, <2>2, NewStep
  <2>3. CASE InternEmpty(content) \/ InternAgain(content)
    BY <1>1, <2>1, <2>3, AgainStep
  <2> QED
    BY <2>1, <2>2, <2>3 DEF Intern
<1>3. CASE UNCHANGED vars
  BY <1>1, <1>3 DEF vars
<1> QED
  BY <1>2, <1>3

LEMMA InvHolds == Spec => []IInv
<1>1. Init => IInv
  BY InitIs
<1>2. IInv /\ [Next]_vars => IInv'
  BY InvStep
<1> QED
  BY <1>1, <1>2, PTL DEF Spec

(* Whatever the hash function, the probe of every entry finds it, before a *)
(* free slot, after any number of insertions and rehashes; and a free slot *)
(* there is, so that the loops of Intern and Rehash end.                   *)
THEOREM InternerFinds == Spec => []EntriesFound
<1>1. IInv => EntriesFound
  <2> SUFFICES ASSUME IInv PROVE EntriesFound
    OBVIOUS
  <2>1. /\ Cap(hash_table) \in Nat \ {0} /\ hash_table \in Tables(Cap(hash_table))
        /\ \A i \in Unslotted + 1 .. Len(entries) :
             LET h == Hash(hash_of, Decoded(entries[i]))
             IN  h \in Nat /\ \E s \in Passed(hash_table, h) : hash_table[s] = [hash |-> h, idx |-> i - 1]
    BY SlotsAre
  <2>2. count = Cardinality(UsedSlots(hash_table)) /\ count < Cap(hash_table) /\ Len(entries) \in Nat
    BY DEF IInv, Slots, Typed
  <2>3. \E i \in DOMAIN hash_table : ~ Used(hash_table, i)
    BY <2>1, <2>2, RoomIsFree
  <2>4. ASSUME NEW id \in 0 .. Len(entries) - 1, Decoded(entries[id + 1]) # EmptyString
        PROVE  LET h == Hash(hash_of, Decoded(entries[id + 1]))
               IN  \E s \in Passed(hash_table, h) : hash_table[s] = [hash |-> h, idx |-> id]
    <3>1. id + 1 \in Unslotted + 1 .. Len(entries)
      <4>1. kind = "strings" => id + 1 # 1
        BY <2>4 DEF IInv, Begun
      <4> QED
        BY <2>2, <4>1 DEF Unslotted
    <3>2. (id + 1) - 1 = id
      OBVIOUS
    <3> QED
      BY <2>1, <3>1, <3>2
  <2> QED
    BY <2>2, <2>3, <2>4 DEF EntriesFound, UsedSlots
<1> QED
  BY <1>1, InvHolds, PTL

LEMMA IdIs ==
  ASSUME NEW seq, NEW n \in Nat, Len(seq) = n, NEW content, NEW i \in 1 .. n, seq[i] = content,
         \A j \in 1 .. n : seq[j] = content => j = i
  PROVE  Pool!IdOf(seq, content) = i - 1
<1>1. i - 1 \in 0 .. Len(seq) - 1 /\ seq[(i - 1) + 1] = content
  OBVIOUS
<1>2. \A id \in 0 .. Len(seq) - 1 : seq[id + 1] = content => id = i - 1
  OBVIOUS
<1> QED
  BY <1>1, <1>2 DEF Pool!IdOf

(* What is known is a sequence of contents.                                *)
Known == [i \in DOMAIN entries |-> Decoded(entries[i])]

LEMMA KnownIs ==
  ASSUME Typed
  PROVE  /\ Known \in Seq(Values) /\ Len(Known) = Len(entries) /\ Len(entries) \in Nat
         /\ DOMAIN Known = 1 .. Len(entries)
         /\ \A i \in 1 .. Len(entries) : Known[i] = Decoded(entries[i])
<1>1. DOMAIN entries = 1 .. Len(entries) /\ Len(entries) \in Nat
  BY DEF Typed
<1>2. \A i \in 1 .. Len(entries) : Decoded(entries[i]) \in Values
  BY DecodedIs
<1>3. Known \in [1 .. Len(entries) -> Values]
  BY <1>1, <1>2 DEF Known
<1> HIDE DEF Known
<1>4. Known \in Seq(Values) /\ Len(Known) = Len(entries)
  BY <1>1, <1>3
<1> QED
  BY <1>1, <1>3, <1>4 DEF Known

(* Interning what has an entry: nothing new is known.                      *)
LEMMA AgainImplements ==
  ASSUME IInv, NEW content \in Values, Hash(hash_of, content) \in Nat, InternEmpty(content) \/ InternAgain(content)
  PROVE  Pool!Intern(content) /\ answer'.of = content
<1>1. UNCHANGED <<kind, hash_of, entries, data, hash_table, count>>
  BY AgainStep
<1>2. PICK i \in 1 .. Len(entries) : Decoded(entries[i]) = content /\ answer' = [of |-> content, id |-> i - 1]
  BY AgainStep
<1>3. Known' = Known
  BY <1>1 DEF Known, Decoded
<1>4. /\ Len(Known) = Len(entries) /\ Len(entries) \in Nat
      /\ \A j \in 1 .. Len(entries) : Known[j] = Decoded(entries[j])
  BY KnownIs DEF IInv
<1>5. \A j \in 1 .. Len(entries) : Known[j] = content => j = i
  BY <1>2, <1>4 DEF IInv, Different
<1>6. Known[i] = content
  BY <1>2, <1>4
<1>7. Pool!IdOf(Known, content) = i - 1
  <2> HIDE DEF Known
  <2> QED
    BY <1>4, <1>5, <1>6, IdIs
<1>8. Pool!Contains(Known, content)
  BY <1>4, <1>6 DEF Pool!Contains
<1>9. Pool!Intern(content)
  <2>1. answer' = [of |-> content, id |-> Pool!IdOf(Known', content)]
    BY <1>2, <1>3, <1>7
  <2> QED
    BY <1>3, <1>8, <2>1 DEF Pool!Intern, Known
<1> QED
  BY <1>2, <1>9

(* Interning what has none: it is known last, with the next number.        *)
LEMMA NewImplements ==
  ASSUME IInv, NEW content \in Values, Hash(hash_of, content) \in Nat, InternNew(content)
  PROVE  Pool!Intern(content) /\ answer'.of = content
<1> DEFINE n == Len(entries)
<1>1. answer' = [of |-> content, id |-> n]
  BY DEF InternNew, Answer
<1>2. /\ Len(entries') = n + 1 /\ Typed'
      /\ \A i \in 1 .. n : entries'[i] = entries[i] /\ Decoded(entries[i])' = Decoded(entries[i])
      /\ Decoded(entries[n])' = content
  BY AddedIs DEF IInv
<1>3. /\ Known \in Seq(Values) /\ Len(Known) = n /\ n \in Nat
      /\ \A i \in 1 .. n : Known[i] = Decoded(entries[i])
  BY KnownIs DEF IInv
<1>4. /\ Known' \in Seq(Values) /\ Len(Known') = n + 1
      /\ \A i \in 1 .. n + 1 : Known'[i] = Decoded(entries[i])'
  <2>1. DOMAIN entries' = 1 .. n + 1
    BY <1>2 DEF Typed
  <2>2. DOMAIN Known' = 1 .. n + 1 /\ \A i \in 1 .. n + 1 : Known'[i] = Decoded(entries[i])'
    BY <2>1 DEF Known
  <2>3. \A i \in 1 .. n : Decoded(entries[i])' \in Values
    BY <1>2, DecodedIs DEF IInv
  <2>4. \A i \in 1 .. n + 1 : i \in 1 .. n \/ i = n + 1
    BY <1>3
  <2>5. \A i \in 1 .. n + 1 : Known'[i] \in Values
    BY <1>2, <2>2, <2>3, <2>4
  <2>6. Known' \in [1 .. n + 1 -> Values]
    <3>1. Known' = [i \in 1 .. n + 1 |-> Known'[i]]
      BY <2>1 DEF Known
    <3> HIDE DEF n, Known
    <3> QED
      BY <2>5, <3>1
  <2> HIDE DEF n, Known
  <2>7. Known' \in Seq(Values) /\ Len(Known') = n + 1
    BY <1>3, <2>6
  <2> QED
    BY <2>2, <2>7
<1>5. Known'[n + 1] = content /\ \A i \in 1 .. n : Known'[i] = Known[i]
  <2>1. n + 1 \in 1 .. n + 1 /\ \A i \in 1 .. n : i \in 1 .. n + 1
    BY <1>3
  <2> QED
    BY <1>2, <1>3, <1>4, <2>1
<1>6. \A i \in 1 .. n : Known[i] # content
  BY <1>3, NewIs
<1>7. Known' = Append(Known, content)
  <2> DEFINE k == Known
  <2> DEFINE l == Known'
  <2>1. k \in Seq(Values) /\ l \in Seq(Values) /\ Len(k) = n /\ Len(l) = n + 1
    BY <1>3, <1>4
  <2>2. l[n + 1] = content /\ \A i \in 1 .. n : l[i] = k[i]
    BY <1>5
  <2> HIDE DEF k, l, n
  <2>3. /\ Append(k, content) \in Seq(Values) /\ Len(Append(k, content)) = n + 1
        /\ \A i \in 1 .. n : Append(k, content)[i] = k[i]
        /\ Append(k, content)[n + 1] = content
    BY <2>1, AppendProperties
  <2>4. \A i \in 1 .. Len(l) : l[i] = Append(k, content)[i]
    BY <1>3, <2>1, <2>2, <2>3
  <2>5. l = Append(k, content)
    BY <2>1, <2>3, <2>4, SeqEqual
  <2> QED
    BY <2>5 DEF k, l
<1>8. ~ Pool!Contains(Known, content)
  BY <1>3, <1>6 DEF Pool!Contains
<1>9. Pool!IdOf(Known', content) = n
  <2>1. \A j \in 1 .. n + 1 : Known'[j] = content => j = n + 1
    BY <1>3, <1>5, <1>6
  <2>2. n + 1 \in 1 .. n + 1 /\ n + 1 \in Nat /\ (n + 1) - 1 = n
    BY <1>3
  <2> DEFINE l == Known'
  <2>3. Len(l) = n + 1 /\ l[n + 1] = content /\ \A j \in 1 .. n + 1 : l[j] = content => j = n + 1
    BY <1>4, <1>5, <2>1
  <2> HIDE DEF l, n
  <2>4. Pool!IdOf(l, content) = (n + 1) - 1
    BY <2>2, <2>3, IdIs
  <2> QED
    BY <2>2, <2>4 DEF l
<1>10. Pool!Intern(content)
  <2>1. answer' = [of |-> content, id |-> Pool!IdOf(Known', content)]
    BY <1>1, <1>9
  <2> QED
    BY <1>7, <1>8, <2>1 DEF Pool!Intern, Known
<1> QED
  BY <1>1, <1>10

(* The four tables implement AcuPool: equal contents get one number,       *)
(* different contents different ones, and what a number means stays.       *)
THEOREM PoolImplemented == Spec => PoolSpec
<1>1. Init => Pool!Init
  <2> SUFFICES ASSUME Init PROVE Pool!Init
    OBVIOUS
  <2>1. IInv /\ answer.id = 0
    BY InitIs DEF Init
  <2>2. \A i, j \in DOMAIN Known : Known[i] = Known[j] => i = j
    BY <2>1, KnownIs DEF IInv, Different
  <2> QED
    BY <2>1, <2>2 DEF Pool!Init, Pool!IsInjective, Known
<1>2. IInv /\ [Next]_vars => [Pool!Next]_<<[i \in DOMAIN entries |-> Decoded(entries[i])], answer>>
  <2> SUFFICES ASSUME IInv, [Next]_vars
               PROVE  Pool!Next \/ UNCHANGED <<[i \in DOMAIN entries |-> Decoded(entries[i])], answer>>
    OBVIOUS
  <2>1. CASE Next
    <3>1. PICK content \in Values : Hash(hash_of, content) \in Nat /\ Intern(content)
      BY <2>1, AskedIs DEF IInv
    <3>2. Pool!Intern(content) /\ answer'.of = content
      BY <3>1, AgainImplements, NewImplements DEF Intern
    <3> QED
      BY <3>2 DEF Pool!Next
  <2>2. CASE UNCHANGED vars
    BY <2>2 DEF vars, Decoded
  <2> QED
    BY <2>1, <2>2
<1> QED
  BY <1>1, <1>2, InvHolds, PTL DEF Spec, PoolSpec, Pool!Spec
=============================================================================
