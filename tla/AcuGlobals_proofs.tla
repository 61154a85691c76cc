-------------------------- MODULE AcuGlobals_proofs --------------------------
(***************************************************************************)
(* Proofs about AcuGlobals, for any set of globals and any programs.  The  *)
(* invariant of the depth-first search is Search: the active calls form a  *)
(* path of mentions (Path), everything the calls have passed is checked    *)
(* unless an error was reported (Passed), and the order has what is        *)
(* checked (OnceEach, DependenciesFirst).  A variable met again on the     *)
(* path closes a cycle; and a program without errors has none, because the *)
(* member of a cycle that comes first in the order would have to come      *)
(* behind another one.                                                     *)
(***************************************************************************)
EXTENDS AcuGlobals, SequenceTheorems, WellFoundedInduction, TLAPS

Less == {p \in Nat \X Nat : p[1] < p[2]}

LEMMA LeastNumber ==
  ASSUME NEW T, T \subseteq Nat, T # {}
  PROVE  \E x \in T : \A y \in T : x <= y
<1>1. IsWellFoundedOn(Less, Nat)
  BY NatLessThanWellFounded DEF OpToRel, Less
<1>2. PICK x \in T : \A y \in T : ~ (<<y, x>> \in Less)
  BY <1>1, WFMin
<1>3. \A y \in T : ~ (y < x)
  BY <1>2 DEF Less
<1> QED
  BY <1>3

Frame == [owner : Globals \union {ACU_NULL_IDX}, at : Nat \ {0}]

LEMMA GoOnMoves ==
  ASSUME NEW s \in Seq(Frame), s # <<>>
  PROVE  /\ GoOn(s) \in Seq(Frame) /\ Len(GoOn(s)) = Len(s)
         /\ \A i \in 1 .. Len(s) :
              GoOn(s)[i] = IF i = Len(s) THEN [owner |-> s[i].owner, at |-> s[i].at + 1] ELSE s[i]
<1>1. Len(s) \in 1 .. Len(s) /\ s[Len(s)] \in Frame
  OBVIOUS
<1>2. [s[Len(s)] EXCEPT !.at = @ + 1] = [owner |-> s[Len(s)].owner, at |-> s[Len(s)].at + 1]
  BY <1>1 DEF Frame
<1>3. [owner |-> s[Len(s)].owner, at |-> s[Len(s)].at + 1] \in Frame
  BY <1>1 DEF Frame
<1> QED
  BY <1>1, <1>2, <1>3 DEF GoOn
-----------------------------------------------------------------------------
(* The path of active calls                                                *)

Path ==
  /\ calls = <<>> => checking = {}
  /\ calls # <<>> => current <= Len(source.statements)
  /\ \A i \in DOMAIN calls : calls[i].owner = ACU_NULL_IDX <=> i = 1
  /\ \A i \in DOMAIN calls : calls[i].at <= Len(Mentions(calls[i].owner)) + 1
  /\ \A i \in DOMAIN calls : i < Len(calls) =>
       /\ calls[i].at <= Len(Mentions(calls[i].owner))
       /\ Mentions(calls[i].owner)[calls[i].at] = calls[i + 1].owner
  /\ \A i, j \in DOMAIN calls : calls[i].owner = calls[j].owner => i = j

Search == TypeOK /\ Path

LEMMA SearchInit == Init => Search
<1> SUFFICES ASSUME Init PROVE Search
  OBVIOUS
<1>1. IsSource(source)
  BY SourcesAssumption DEF Init
<1>2. Len(source.statements) \in Nat
  BY <1>1 DEF IsSource
<1>3. calls = <<>> /\ checking = {} /\ checked = {} /\ errors = {}
  BY DEF Init
<1>4. global_init_order \in Seq(Globals) /\ current \in 1 .. Len(source.statements) + 1
  BY <1>2 DEF Init
<1>5. TypeOK
  BY <1>1, <1>3, <1>4 DEF TypeOK
<1>6. Path
  BY <1>3 DEF Path
<1> QED
  BY <1>5, <1>6 DEF Search

LEMMA MentionsTyped ==
  ASSUME Search, NEW i \in DOMAIN calls
  PROVE  /\ Mentions(calls[i].owner) \in Seq(Globals)
         /\ calls[i].owner \in Globals \union {ACU_NULL_IDX} /\ calls[i].at \in Nat \ {0}
<1>1. calls[i] \in Frame
  <2>1. calls \in Seq(Frame)
    BY DEF Search, TypeOK, Frame
  <2> QED
    BY <2>1
<1>2. calls[i].owner \in Globals => source.init[calls[i].owner] \in Seq(Globals)
  BY DEF Search, TypeOK, IsSource
<1>3. source.statements[current] \in Seq(Globals)
  BY DEF Search, TypeOK, Path, IsSource
<1> QED
  BY <1>1, <1>2, <1>3 DEF Mentions, Frame

(* What each step does to the calls.                                       *)
Depth == Len(calls)

LEMMA MentioningMoves ==
  ASSUME Search, NEW g \in Globals, Mentioning(g)
  PROVE  /\ Depth \in Nat \ {0} /\ DOMAIN calls = 1 .. Depth /\ calls \in Seq(Frame)
         /\ calls[Depth].at <= Len(Mentions(calls[Depth].owner))
         /\ Mentions(calls[Depth].owner)[calls[Depth].at] = g
         /\ GoOn(calls) \in Seq(Frame) /\ Len(GoOn(calls)) = Depth
         /\ \A i \in 1 .. Depth :
              GoOn(calls)[i] = IF i = Depth THEN [owner |-> calls[i].owner, at |-> calls[i].at + 1]
                               ELSE calls[i]
<1>1. calls \in Seq(Frame) /\ calls # <<>>
  BY DEF Search, TypeOK, Frame, Mentioning
<1>2. Depth \in Nat \ {0} /\ DOMAIN calls = 1 .. Depth
  BY <1>1 DEF Depth
<1>3. /\ calls[Depth].at <= Len(Mentions(calls[Depth].owner))
      /\ Mentions(calls[Depth].owner)[calls[Depth].at] = g
  BY DEF Mentioning, Mentioned, Top, Depth
<1> QED
  BY <1>1, <1>2, <1>3, GoOnMoves DEF Depth

LEMMA FinishMoves ==
  ASSUME Search, FinishGlobal
  PROVE  /\ Depth \in Nat /\ Depth >= 2 /\ DOMAIN calls = 1 .. Depth
         /\ calls \in Seq(Frame) /\ calls' \in Seq(Frame) /\ Len(calls') = Depth - 1
         /\ calls[Depth].owner \in Globals /\ calls[Depth].at > Len(Mentions(calls[Depth].owner))
         /\ \A i \in 1 .. Depth - 1 :
              calls'[i] = IF i = Depth - 1 THEN [owner |-> calls[i].owner, at |-> calls[i].at + 1]
                          ELSE calls[i]
<1> DEFINE n == Len(calls)
<1>1. calls \in Seq(Frame) /\ calls # <<>> /\ n \in Nat /\ n >= 1 /\ DOMAIN calls = 1 .. n
  BY DEF Search, TypeOK, Frame, FinishGlobal, Finished
<1>2. calls[n].owner \in Globals /\ calls[n].at > Len(Mentions(calls[n].owner))
  BY DEF FinishGlobal, Finished, Top
<1>3. n # 1
  BY <1>1, <1>2, NullAssumption DEF Search, Path
<1>4. PICK t : t = SubSeq(calls, 1, n - 1)
  OBVIOUS
<1>5. t \in Seq(Frame) /\ t # <<>> /\ Len(t) = n - 1 /\ \A i \in 1 .. n - 1 : t[i] = calls[i]
  <2>1. \A i \in 1 .. n - 1 : calls[i] \in Frame
    BY <1>1
  <2>2. t \in Seq(Frame) /\ Len(t) = n - 1 /\ \A i \in 1 .. n - 1 : t[i] = calls[i]
    <3>1. n - 1 \in Int /\ 1 \in Int
      BY <1>1
    <3>2. /\ t \in Seq(Frame) /\ Len(t) = IF 1 <= n - 1 THEN (n - 1) - 1 + 1 ELSE 0
          /\ \A i \in 1 .. (n - 1) - 1 + 1 : t[i] = calls[1 + i - 1]
      BY <1>4, <2>1, <3>1, SubSeqProperties
    <3>3. Len(t) = n - 1
      <4>1. n >= 2
        BY <1>1, <1>3
      <4> QED
        BY <1>1, <4>1, <3>2
    <3>4. ASSUME NEW i \in 1 .. n - 1 PROVE t[i] = calls[i]
      <4>1. i \in 1 .. (n - 1) - 1 + 1 /\ 1 + i - 1 = i
        BY <1>1
      <4> QED
        BY <3>2, <4>1
    <3> QED
      BY <3>2, <3>3, <3>4
  <2> QED
    BY <1>1, <1>3, <2>2
<1>6. calls' = GoOn(t)
  BY <1>4 DEF FinishGlobal
<1>7. /\ GoOn(t) \in Seq(Frame) /\ Len(GoOn(t)) = n - 1
      /\ \A i \in 1 .. n - 1 :
           GoOn(t)[i] = IF i = n - 1 THEN [owner |-> t[i].owner, at |-> t[i].at + 1] ELSE t[i]
  BY <1>5, GoOnMoves
<1>8. n >= 2
  BY <1>1, <1>3
<1>9. ASSUME NEW i \in 1 .. n - 1
      PROVE  calls'[i] = IF i = n - 1 THEN [owner |-> calls[i].owner, at |-> calls[i].at + 1]
                         ELSE calls[i]
  <2>1. t[i] = calls[i]
    BY <1>5
  <2>2. calls'[i] = IF i = n - 1 THEN [owner |-> t[i].owner, at |-> t[i].at + 1] ELSE t[i]
    BY <1>6, <1>7
  <2> QED
    BY <2>1, <2>2
<1>10. calls' \in Seq(Frame) /\ Len(calls') = n - 1
  BY <1>6, <1>7
<1> QED
  BY <1>1, <1>2, <1>8, <1>9, <1>10 DEF Depth

LEMMA StatementMoves ==
  ASSUME Search, FinishStatement
  PROVE  Depth = 1 /\ DOMAIN calls = {1} /\ calls[1].at > Len(Mentions(calls[1].owner))
<1>1. calls \in Seq(Frame) /\ calls # <<>> /\ Depth \in Nat /\ Depth >= 1 /\ DOMAIN calls = 1 .. Depth
  BY DEF Search, TypeOK, Frame, FinishStatement, Finished, Depth
<1>2. calls[Depth].owner = ACU_NULL_IDX
  <2>1. calls[Depth] \in Frame /\ calls[Depth].owner \notin Globals
    BY <1>1 DEF FinishStatement, Finished, Top, Depth
  <2> QED
    BY <2>1 DEF Frame
<1>3. Depth = 1
  BY <1>1, <1>2 DEF Search, Path
<1> QED
  BY <1>1, <1>3 DEF FinishStatement, Finished, Top, Depth

Owned ==
  /\ \A i \in DOMAIN calls : i # 1 => calls[i].owner \in checking
  /\ \A g \in checking : \E i \in DOMAIN calls : calls[i].owner = g

LEMMA SearchOwned == Search => Owned
<1> SUFFICES ASSUME Search PROVE Owned
  OBVIOUS
<1>1. CASE calls = <<>>
  BY <1>1 DEF Search, Path, Owned
<1>2. CASE calls # <<>>
  <2>1. \A i \in DOMAIN calls : calls[i].owner \in checking \union {ACU_NULL_IDX}
    BY <1>2 DEF Search, TypeOK, Owners
  <2>2. \A g \in checking : \E i \in DOMAIN calls : calls[i].owner = g
    BY <1>2 DEF Search, TypeOK, Owners
  <2> QED
    BY <2>1, <2>2 DEF Search, Path, Owned
<1> QED
  BY <1>1, <1>2

LEMMA PathFacts ==
  ASSUME Search, calls # <<>>
  PROVE  /\ Depth \in Nat /\ Depth >= 1 /\ DOMAIN calls = 1 .. Depth
         /\ current <= Len(source.statements)
         /\ \A i \in 1 .. Depth :
              /\ calls[i].owner = ACU_NULL_IDX <=> i = 1
              /\ calls[i].at \in Nat /\ Len(Mentions(calls[i].owner)) \in Nat
              /\ calls[i].at <= Len(Mentions(calls[i].owner)) + 1
              /\ i < Depth => /\ calls[i].at <= Len(Mentions(calls[i].owner))
                              /\ Mentions(calls[i].owner)[calls[i].at] = calls[i + 1].owner
         /\ \A i, j \in 1 .. Depth : calls[i].owner = calls[j].owner => i = j
<1>1. calls \in Seq(Frame)
  BY DEF Search, TypeOK, Frame
<1>2. Depth \in Nat /\ Depth >= 1 /\ DOMAIN calls = 1 .. Depth
  BY <1>1 DEF Depth
<1>3. \A i \in 1 .. Depth : calls[i].at \in Nat /\ Len(Mentions(calls[i].owner)) \in Nat
  BY <1>2, MentionsTyped
<1> QED
  BY <1>2, <1>3 DEF Search, Path, Depth

(* The path has to be shown of calls and calls' in the same words.         *)
LEMMA PathFrom ==
  ASSUME NEW n \in Nat, n >= 1, calls' \in Seq(Frame), Len(calls') = n,
         UNCHANGED <<source, current>>, current <= Len(source.statements),
         \A i \in 1 .. n :
           /\ calls'[i].owner = ACU_NULL_IDX <=> i = 1
           /\ calls'[i].at <= Len(Mentions(calls'[i].owner)) + 1
           /\ i < n => /\ calls'[i].at <= Len(Mentions(calls'[i].owner))
                       /\ Mentions(calls'[i].owner)[calls'[i].at] = calls'[i + 1].owner,
         \A i, j \in 1 .. n : calls'[i].owner = calls'[j].owner => i = j
  PROVE  Path'
<1>1. DOMAIN calls' = 1 .. n /\ calls' # <<>>
  OBVIOUS
<1> QED
  BY <1>1 DEF Path, Mentions

(* Each kind of step keeps the path.                                       *)
LEMMA GoOnPath ==
  ASSUME Search, NEW g \in Globals, Mentioning(g), calls' = GoOn(calls),
         UNCHANGED <<source, current, checking>>
  PROVE  Path' /\ Owned' /\ calls' \in Seq(Frame)
<1>1. calls # <<>>
  BY DEF Mentioning
<1>2. /\ calls' \in Seq(Frame) /\ Len(calls') = Depth /\ DOMAIN calls' = 1 .. Depth
      /\ calls[Depth].at <= Len(Mentions(calls[Depth].owner))
  BY MentioningMoves
<1>3. ASSUME NEW i \in 1 .. Depth
      PROVE  calls'[i].owner = calls[i].owner /\ calls'[i].at = IF i = Depth THEN calls[i].at + 1 ELSE calls[i].at
  <2>1. calls'[i] = IF i = Depth THEN [owner |-> calls[i].owner, at |-> calls[i].at + 1] ELSE calls[i]
    BY MentioningMoves
  <2> QED
    BY <2>1
<1>4. ASSUME NEW i \in 1 .. Depth
      PROVE  /\ calls'[i].owner = ACU_NULL_IDX <=> i = 1
             /\ calls'[i].at <= Len(Mentions(calls'[i].owner)) + 1
             /\ i < Depth => /\ calls'[i].at <= Len(Mentions(calls'[i].owner))
                             /\ Mentions(calls'[i].owner)[calls'[i].at] = calls'[i + 1].owner
  <2>1. PICK m : m = Mentions(calls[i].owner) /\ m = Mentions(calls'[i].owner)
    BY <1>3
  <2>2. /\ calls[i].owner = ACU_NULL_IDX <=> i = 1
        /\ calls[i].at \in Nat /\ Len(m) \in Nat /\ calls[i].at <= Len(m) + 1
        /\ i < Depth => calls[i].at <= Len(m) /\ m[calls[i].at] = calls[i + 1].owner
        /\ i = Depth => calls[i].at <= Len(m)
    BY <1>1, <1>2, <2>1, PathFacts
  <2>3. i < Depth => calls'[i + 1].owner = calls[i + 1].owner /\ calls'[i].at = calls[i].at
    BY <1>1, <1>3, PathFacts
  <2> QED
    BY <1>3, <2>1, <2>2, <2>3
<1>5. \A i, j \in 1 .. Depth : calls'[i].owner = calls'[j].owner => i = j
  BY <1>1, <1>3, PathFacts
<1>6. Path'
  BY <1>1, <1>2, <1>4, <1>5, PathFacts, PathFrom
<1>7. Owned'
  <2>1. DOMAIN calls = 1 .. Depth /\ DOMAIN calls' = DOMAIN calls
    BY <1>1, <1>2, PathFacts
  <2>2. \A i \in DOMAIN calls : calls'[i].owner = calls[i].owner
    BY <1>3, <2>1
  <2> QED
    BY <2>1, <2>2, SearchOwned DEF Owned
<1> QED
  BY <1>2, <1>6, <1>7

LEMMA CheckGlobalPath ==
  ASSUME Search, NEW g \in Globals, CheckGlobal(g)
  PROVE  Path' /\ Owned' /\ calls' \in Seq(Frame)
<1>1. calls # <<>> /\ Mentioning(g)
  BY DEF CheckGlobal, Mentioning
<1>2. /\ Depth \in Nat /\ Depth >= 1 /\ DOMAIN calls = 1 .. Depth /\ Len(calls) = Depth
      /\ calls \in Seq(Frame)
      /\ calls[Depth].at <= Len(Mentions(calls[Depth].owner))
      /\ Mentions(calls[Depth].owner)[calls[Depth].at] = g
  BY <1>1, MentioningMoves, PathFacts DEF Depth
<1>3. Call(g) \in Frame /\ Call(g).owner = g /\ Call(g).at = 1 /\ g # ACU_NULL_IDX
  BY NullAssumption DEF Call, Frame
<1>4. /\ calls' \in Seq(Frame) /\ Len(calls') = Depth + 1 /\ DOMAIN calls' = 1 .. Depth + 1
      /\ calls'[Depth + 1] = Call(g)
      /\ \A i \in 1 .. Depth : calls'[i] = calls[i]
  BY <1>2, <1>3 DEF CheckGlobal
<1>5. checking' = checking \union {g} /\ g \notin checking /\ UNCHANGED <<source, current>>
  BY DEF CheckGlobal
<1>6. \A i \in 1 .. Depth : calls[i].owner # g
  <2> TAKE i \in 1 .. Depth
  <2>1. CASE i = 1
    BY <1>1, <1>3, <2>1, PathFacts
  <2>2. CASE i # 1
    BY <1>2, <1>5, <2>2, SearchOwned DEF Owned
  <2> QED
    BY <2>1, <2>2
<1>7. ASSUME NEW i \in 1 .. Depth + 1
      PROVE  /\ calls'[i].owner = ACU_NULL_IDX <=> i = 1
             /\ calls'[i].at <= Len(Mentions(calls'[i].owner)) + 1
             /\ i < Depth + 1 => /\ calls'[i].at <= Len(Mentions(calls'[i].owner))
                                 /\ Mentions(calls'[i].owner)[calls'[i].at] = calls'[i + 1].owner
  <2>1. CASE i = Depth + 1
    <3>1. Mentions(g) \in Seq(Globals)
      BY DEF Mentions, Search, TypeOK, IsSource
    <3> QED
      BY <1>2, <1>3, <1>4, <2>1, <3>1
  <2>2. CASE i = Depth
    <3>1. i \in 1 .. Depth /\ calls'[i] = calls[i] /\ calls'[i + 1].owner = g
      BY <1>2, <1>3, <1>4, <2>2
    <3>2. /\ calls[i].owner = ACU_NULL_IDX <=> i = 1
          /\ calls[i].at <= Len(Mentions(calls[i].owner)) + 1
      BY <1>1, <3>1, PathFacts
    <3>3. Mentions(calls'[i].owner) = Mentions(calls[i].owner)
      BY <3>1
    <3> QED
      BY <1>2, <2>2, <3>1, <3>2, <3>3
  <2>3. CASE i < Depth
    <3>1. calls'[i] = calls[i] /\ calls'[i + 1] = calls[i + 1]
      BY <1>2, <1>4, <2>3
    <3>2. i \in 1 .. Depth
      BY <1>2, <2>3
    <3>3. /\ calls[i].owner = ACU_NULL_IDX <=> i = 1
          /\ calls[i].at <= Len(Mentions(calls[i].owner)) + 1
          /\ calls[i].at <= Len(Mentions(calls[i].owner))
          /\ Mentions(calls[i].owner)[calls[i].at] = calls[i + 1].owner
      BY <1>1, <2>3, <3>2, PathFacts
    <3>4. Mentions(calls'[i].owner) = Mentions(calls[i].owner)
      BY <3>1
    <3> QED
      BY <3>1, <3>3, <3>4
  <2> QED
    BY <1>2, <2>1, <2>2, <2>3
<1>8. \A i, j \in 1 .. Depth + 1 : calls'[i].owner = calls'[j].owner => i = j
  <2>1. \A i, j \in 1 .. Depth : calls[i].owner = calls[j].owner => i = j
    BY <1>1, PathFacts
  <2>2. \A i \in 1 .. Depth + 1 : i # Depth + 1 => i \in 1 .. Depth /\ calls'[i].owner # g
    BY <1>2, <1>4, <1>6
  <2>3. calls'[Depth + 1].owner = g
    BY <1>3, <1>4
  <2> QED
    BY <1>4, <2>1, <2>2, <2>3
<1>9. Path'
  <2>1. Depth + 1 \in Nat /\ Depth + 1 >= 1 /\ current <= Len(source.statements)
    BY <1>1, <1>2, PathFacts
  <2> QED
    BY <1>4, <1>5, <1>7, <1>8, <2>1, PathFrom
<1>10. Owned'
  <2>1. \A i \in DOMAIN calls' : i # 1 => calls'[i].owner \in checking'
    BY <1>2, <1>3, <1>4, <1>5, SearchOwned DEF Owned
  <2>2. ASSUME NEW h \in checking' PROVE \E i \in DOMAIN calls' : calls'[i].owner = h
    <3>1. CASE h = g
      BY <1>2, <1>3, <1>4, <3>1
    <3>2. CASE h # g
      BY <1>2, <1>4, <1>5, <3>2, SearchOwned DEF Owned
    <3> QED
      BY <3>1, <3>2
  <2> QED
    BY <2>1, <2>2 DEF Owned
<1> QED
  BY <1>4, <1>9, <1>10

LEMMA FinishGlobalPath ==
  ASSUME Search, FinishGlobal
  PROVE  Path' /\ Owned' /\ calls' \in Seq(Frame)
<1>1. calls # <<>>
  BY DEF FinishGlobal, Finished
<1>2. /\ Depth \in Nat /\ Depth >= 2 /\ DOMAIN calls = 1 .. Depth
      /\ calls' \in Seq(Frame) /\ Len(calls') = Depth - 1 /\ DOMAIN calls' = 1 .. Depth - 1
  BY FinishMoves
<1>3. ASSUME NEW i \in 1 .. Depth - 1
      PROVE  calls'[i].owner = calls[i].owner /\ calls'[i].at = IF i = Depth - 1 THEN calls[i].at + 1 ELSE calls[i].at
  BY FinishMoves
<1>4. checking' = checking \ {calls[Depth].owner} /\ UNCHANGED <<source, current>>
  BY DEF FinishGlobal, Top, Depth
<1>5. ASSUME NEW i \in 1 .. Depth - 1
      PROVE  /\ calls'[i].owner = ACU_NULL_IDX <=> i = 1
             /\ calls'[i].at <= Len(Mentions(calls'[i].owner)) + 1
             /\ i < Depth - 1 => /\ calls'[i].at <= Len(Mentions(calls'[i].owner))
                                 /\ Mentions(calls'[i].owner)[calls'[i].at] = calls'[i + 1].owner
  <2>1. PICK m : m = Mentions(calls[i].owner) /\ m = Mentions(calls'[i].owner)
    BY <1>3
  <2>2. /\ calls[i].owner = ACU_NULL_IDX <=> i = 1
        /\ calls[i].at \in Nat /\ Len(m) \in Nat
        /\ calls[i].at <= Len(m) /\ m[calls[i].at] = calls[i + 1].owner
    <3>1. i \in 1 .. Depth /\ i < Depth
      BY <1>2
    <3> QED
      BY <1>1, <2>1, <3>1, PathFacts
  <2>3. i < Depth - 1 => calls'[i + 1].owner = calls[i + 1].owner /\ calls'[i].at = calls[i].at
    BY <1>2, <1>3
  <2> QED
    BY <1>3, <2>1, <2>2, <2>3
<1>6. \A i, j \in 1 .. Depth : calls[i].owner = calls[j].owner => i = j
  BY <1>1, PathFacts
<1>7. \A i, j \in 1 .. Depth - 1 : calls'[i].owner = calls'[j].owner => i = j
  BY <1>2, <1>3, <1>6
<1>8. Path'
  <2>1. Depth - 1 \in Nat /\ Depth - 1 >= 1 /\ current <= Len(source.statements)
    BY <1>1, <1>2, PathFacts
  <2> QED
    BY <1>2, <1>4, <1>5, <1>7, <2>1, PathFrom
<1>9. Owned'
  <2>1. \A i \in DOMAIN calls' : i # 1 => calls'[i].owner \in checking'
    BY <1>2, <1>3, <1>4, <1>6, SearchOwned DEF Owned
  <2>2. ASSUME NEW h \in checking' PROVE \E i \in DOMAIN calls' : calls'[i].owner = h
    <3>1. PICK i \in 1 .. Depth : calls[i].owner = h
      BY <1>2, <1>4, SearchOwned DEF Owned
    <3>2. i # Depth
      BY <1>4, <3>1
    <3> QED
      BY <1>2, <1>3, <3>1, <3>2
  <2> QED
    BY <2>1, <2>2 DEF Owned
<1> QED
  BY <1>2, <1>8, <1>9

LEMMA CheckStatementPath ==
  ASSUME Search, CheckStatement
  PROVE  Path' /\ Owned' /\ calls' \in Seq(Frame)
<1>1. Call(ACU_NULL_IDX) \in Frame /\ Call(ACU_NULL_IDX).owner = ACU_NULL_IDX /\ Call(ACU_NULL_IDX).at = 1
  BY DEF Call, Frame
<1>2. /\ calls' \in Seq(Frame) /\ Len(calls') = 1 /\ DOMAIN calls' = {1}
      /\ calls'[1].owner = ACU_NULL_IDX /\ calls'[1].at = 1
  BY <1>1 DEF CheckStatement
<1>3. /\ current \in 1 .. Len(source.statements) /\ checking' = {} /\ UNCHANGED <<source, current>>
  BY DEF CheckStatement, Search, TypeOK, Path, IsSource
<1>4. Len(Mentions(calls'[1].owner)) \in Nat
  BY <1>2, <1>3, NullAssumption DEF Mentions, Search, TypeOK, IsSource
<1>5. ASSUME NEW i \in 1 .. 1
      PROVE  /\ calls'[i].owner = ACU_NULL_IDX <=> i = 1
             /\ calls'[i].at <= Len(Mentions(calls'[i].owner)) + 1
             /\ i < 1 => /\ calls'[i].at <= Len(Mentions(calls'[i].owner))
                         /\ Mentions(calls'[i].owner)[calls'[i].at] = calls'[i + 1].owner
  BY <1>2, <1>4
<1>6. Path'
  BY <1>2, <1>3, <1>5, PathFrom
<1> QED
  BY <1>2, <1>3, <1>6 DEF Owned

LEMMA FinishStatementPath ==
  ASSUME Search, FinishStatement
  PROVE  Path' /\ Owned' /\ calls' \in Seq(Frame)
<1>1. calls' = <<>> /\ checking' = checking
  BY DEF FinishStatement
<1>2. checking = {}
  BY StatementMoves, SearchOwned, NullAssumption DEF Owned, Search, Path, TypeOK
<1> QED
  BY <1>1, <1>2 DEF Path, Owned

LEMMA SearchStep ==
  ASSUME Search, [Next]_vars
  PROVE  Search'
<1>1. Path' /\ Owned' /\ calls' \in Seq(Frame)
  <2>1. ASSUME NEW g \in Globals, AlreadyChecked(g) \/ CyclicDependency(g)
        PROVE  Path' /\ Owned' /\ calls' \in Seq(Frame)
    BY <2>1, GoOnPath DEF AlreadyChecked, CyclicDependency
  <2>2. CASE UNCHANGED vars
    BY <2>2, SearchOwned DEF vars, Search, Path, Mentions, Owned, TypeOK, Frame
  <2> QED
    BY <2>1, <2>2, CheckGlobalPath, FinishGlobalPath, CheckStatementPath, FinishStatementPath DEF Next
<1>2. IsSource(source') /\ source' = source
  BY DEF Search, TypeOK, Next, CheckStatement, AlreadyChecked, CyclicDependency, CheckGlobal,
         FinishGlobal, FinishStatement, vars
<1>3. current' \in 1 .. Len(source.statements) + 1
  <2>1. Len(source.statements) \in Nat /\ current \in 1 .. Len(source.statements) + 1
    BY DEF Search, TypeOK, IsSource
  <2>2. CASE FinishStatement
    <3>1. calls # <<>>
      BY <2>2 DEF FinishStatement, Finished
    <3> QED
      BY <2>1, <2>2, <3>1 DEF FinishStatement, Search, Path
  <2>3. CASE ~ FinishStatement
    BY <2>1, <2>3 DEF Next, CheckStatement, AlreadyChecked, CyclicDependency, CheckGlobal, FinishGlobal, vars
  <2> QED
    BY <2>2, <2>3
<1>4. /\ checking' \subseteq Globals /\ checked' \subseteq Globals /\ checking' \intersect checked' = {}
      /\ global_init_order' \in Seq(Globals) /\ errors' \subseteq Globals
  <2>1. /\ checking \subseteq Globals /\ checked \subseteq Globals /\ checking \intersect checked = {}
        /\ global_init_order \in Seq(Globals) /\ errors \subseteq Globals
    BY DEF Search, TypeOK
  <2>2. CASE FinishGlobal
    BY <2>1, <2>2 DEF FinishGlobal
  <2>3. ASSUME NEW g \in Globals, AlreadyChecked(g) \/ CyclicDependency(g) \/ CheckGlobal(g)
        PROVE  /\ checking' \subseteq Globals /\ checked' \subseteq Globals /\ checking' \intersect checked' = {}
               /\ global_init_order' \in Seq(Globals) /\ errors' \subseteq Globals
    BY <2>1, <2>3 DEF AlreadyChecked, CyclicDependency, CheckGlobal
  <2> QED
    BY <2>1, <2>2, <2>3 DEF Next, CheckStatement, FinishStatement, vars
<1>5. calls' # <<>> => Owners' = checking' \union {ACU_NULL_IDX}
  <2> SUFFICES ASSUME calls' # <<>> PROVE Owners' = checking' \union {ACU_NULL_IDX}
    OBVIOUS
  <2>1. 1 \in DOMAIN calls'
    BY <1>1
  <2>2. calls'[1].owner = ACU_NULL_IDX
    BY <1>1, <2>1 DEF Path
  <2>3. \A i \in DOMAIN calls' : calls'[i].owner \in checking' \union {ACU_NULL_IDX}
    BY <1>1, <2>2 DEF Owned
  <2>4. \A h \in checking' \union {ACU_NULL_IDX} : \E i \in DOMAIN calls' : calls'[i].owner = h
    BY <1>1, <2>1, <2>2 DEF Owned
  <2> QED
    BY <2>3, <2>4 DEF Owners
<1> QED
  BY <1>1, <1>2, <1>3, <1>4, <1>5 DEF Search, TypeOK, Frame

(* For any program the flags of the symbols mirror the active calls.       *)
THEOREM GlobalsType == Spec => []TypeOK
<1>1. Search => TypeOK
  BY DEF Search
<1> QED
  BY <1>1, SearchInit, SearchStep, PTL DEF Spec
-----------------------------------------------------------------------------
(* The order                                                               *)

Passed ==
  errors = {} =>
    /\ \A i \in DOMAIN calls : \A k \in 1 .. calls[i].at - 1 : Mentions(calls[i].owner)[k] \in checked
    /\ \A i \in 1 .. current - 1 : \A k \in DOMAIN source.statements[i] : source.statements[i][k] \in checked

CycleFound == errors # {} => \E S \in SUBSET Globals : Cyclic(S)

LEMMA MentionsOfGlobal ==
  ASSUME NEW g \in Globals
  PROVE  Mentions(g) = source.init[g] /\ MentionedBy(g) = {Mentions(g)[k] : k \in DOMAIN Mentions(g)}
  BY DEF Mentions, MentionedBy

LEMMA OrderStep ==
  ASSUME Search, OnceEach, DependenciesFirst, Passed, FinishGlobal
  PROVE  OnceEach' /\ DependenciesFirst'
<1> DEFINE n == Len(global_init_order)
           g == calls[Depth].owner
<1>1. /\ global_init_order \in Seq(Globals) /\ n \in Nat /\ DOMAIN global_init_order = 1 .. n
      /\ g \in Globals /\ Depth \in DOMAIN calls
      /\ calls[Depth].at > Len(Mentions(g))
      /\ Mentions(g) \in Seq(Globals) /\ calls[Depth].at \in Nat
  BY FinishMoves, MentionsTyped DEF Search, TypeOK
<1>2. g \notin checked
  BY <1>1, SearchOwned, NullAssumption DEF Owned, Search, Path, TypeOK
<1>3. checked' = checked \union {g} /\ global_init_order' = Append(global_init_order, g)
      /\ errors' = errors /\ source' = source
  BY DEF FinishGlobal, Top, Depth
<1>4. /\ DOMAIN global_init_order' = 1 .. n + 1 /\ global_init_order'[n + 1] = g
      /\ \A i \in 1 .. n : global_init_order'[i] = global_init_order[i]
  BY <1>1, <1>3
<1>5. OnceEach'
  <2>1. \A i \in 1 .. n : global_init_order[i] # g
    BY <1>1, <1>2 DEF OnceEach, Initialised
  <2>2. \A i, j \in 1 .. n + 1 : global_init_order'[i] = global_init_order'[j] => i = j
    <3>1. \A i \in 1 .. n + 1 : i = n + 1 \/ i \in 1 .. n
      BY <1>1
    <3> QED
      BY <1>1, <1>4, <2>1, <3>1 DEF OnceEach
  <2>3. Initialised' = checked'
    <3>1. \A h \in checked' : \E i \in 1 .. n + 1 : global_init_order'[i] = h
      BY <1>1, <1>3, <1>4 DEF OnceEach, Initialised
    <3>2. \A i \in 1 .. n + 1 : global_init_order'[i] \in checked'
      <4>1. \A i \in 1 .. n + 1 : i = n + 1 \/ i \in 1 .. n
        BY <1>1
      <4> QED
        BY <1>1, <1>3, <1>4, <4>1 DEF OnceEach, Initialised
    <3> QED
      BY <1>4, <3>1, <3>2 DEF Initialised
  <2> QED
    BY <1>4, <2>2, <2>3 DEF OnceEach
<1>6. DependenciesFirst'
  <2> SUFFICES ASSUME errors' = {}, NEW i \in DOMAIN global_init_order', NEW h \in MentionedBy(global_init_order[i])'
               PROVE  \E j \in 1 .. i - 1 : global_init_order'[j] = h
    BY DEF DependenciesFirst
  <2> DEFINE owner == global_init_order'[i]
  <2>0. errors = {} /\ i \in 1 .. n + 1 /\ h \in MentionedBy(owner)
    BY <1>3, <1>4 DEF MentionedBy
  <2>1. CASE i = n + 1
    <3>1. PICK k \in DOMAIN Mentions(g) : h = Mentions(g)[k]
      BY <1>1, <1>4, <2>0, <2>1, MentionsOfGlobal
    <3>2. k \in 1 .. calls[Depth].at - 1
      BY <1>1, <3>1
    <3>3. h \in checked
      BY <1>1, <2>0, <3>1, <3>2 DEF Passed
    <3>4. PICK j \in 1 .. n : global_init_order[j] = h
      BY <1>1, <3>3 DEF OnceEach, Initialised
    <3> QED
      BY <1>1, <1>4, <2>1, <3>4
  <2>2. CASE i \in 1 .. n
    <3>1. PICK j \in 1 .. i - 1 : global_init_order[j] = h
      BY <1>1, <1>4, <2>0, <2>2 DEF DependenciesFirst
    <3>2. j \in 1 .. n
      BY <1>1, <2>2, <3>1
    <3> QED
      BY <1>4, <3>1, <3>2
  <2> QED
    BY <1>1, <2>0, <2>1, <2>2
<1> QED
  BY <1>5, <1>6

LEMMA PassedGoOn ==
  ASSUME Search, Passed, NEW g \in Globals, AlreadyChecked(g)
  PROVE  Passed'
<1>1. calls # <<>> /\ Mentioning(g) /\ g \in checked /\ calls' = GoOn(calls)
      /\ UNCHANGED <<source, current, checked, errors>>
  BY DEF AlreadyChecked, Mentioning
<1>2. Len(calls') = Depth /\ DOMAIN calls' = 1 .. Depth /\ Mentions(calls[Depth].owner)[calls[Depth].at] = g
  BY <1>1, MentioningMoves
<1>3. ASSUME errors = {}, NEW i \in 1 .. Depth, NEW k \in 1 .. calls'[i].at - 1
      PROVE  Mentions(calls'[i].owner)[k] \in checked
  <2>1. calls'[i] = IF i = Depth THEN [owner |-> calls[i].owner, at |-> calls[i].at + 1] ELSE calls[i]
    BY <1>1, MentioningMoves
  <2>2. calls'[i].owner = calls[i].owner /\ Mentions(calls'[i].owner) = Mentions(calls[i].owner)
    BY <2>1
  <2>3. i \in DOMAIN calls /\ calls[i].at \in Nat
    BY <1>1, PathFacts
  <2>4. CASE k \in 1 .. calls[i].at - 1
    BY <1>3, <2>2, <2>3, <2>4 DEF Passed
  <2>5. CASE k \notin 1 .. calls[i].at - 1
    <3>1. i = Depth /\ k = calls[i].at
      BY <2>1, <2>3, <2>5
    <3> QED
      BY <1>1, <1>2, <2>2, <3>1
  <2> QED
    BY <2>4, <2>5
<1> QED
  BY <1>1, <1>2, <1>3 DEF Passed, Mentions

LEMMA PassedCheckGlobal ==
  ASSUME Search, Passed, NEW g \in Globals, CheckGlobal(g)
  PROVE  Passed'
<1>1. /\ calls # <<>> /\ Mentioning(g) /\ calls' = Append(calls, Call(g)) /\ calls \in Seq(Frame)
      /\ UNCHANGED <<source, current, checked, errors>>
  BY DEF CheckGlobal, Mentioning, Search, TypeOK, Frame
<1>2. Call(g) \in Frame /\ Call(g).at = 1
  BY DEF Call, Frame
<1>3. /\ Depth \in Nat /\ DOMAIN calls = 1 .. Depth /\ DOMAIN calls' = 1 .. Depth + 1
      /\ calls'[Depth + 1] = Call(g) /\ \A i \in 1 .. Depth : calls'[i] = calls[i]
  BY <1>1, <1>2 DEF Depth
<1>4. ASSUME errors = {}, NEW i \in 1 .. Depth + 1, NEW k \in 1 .. calls'[i].at - 1
      PROVE  Mentions(calls'[i].owner)[k] \in checked
  <2>1. i # Depth + 1
    BY <1>2, <1>3
  <2>2. i \in DOMAIN calls /\ calls'[i] = calls[i]
    BY <1>3, <2>1
  <2> QED
    BY <1>4, <2>2 DEF Passed
<1> QED
  BY <1>1, <1>3, <1>4 DEF Passed, Mentions

LEMMA PassedFinishGlobal ==
  ASSUME Search, Passed, FinishGlobal
  PROVE  Passed'
<1>1. /\ calls # <<>> /\ checked' = checked \union {calls[Depth].owner}
      /\ UNCHANGED <<source, current, errors>>
  BY DEF FinishGlobal, Finished, Top, Depth
<1>2. /\ Depth \in Nat /\ Depth >= 2 /\ DOMAIN calls = 1 .. Depth /\ DOMAIN calls' = 1 .. Depth - 1
  BY FinishMoves
<1>3. ASSUME errors = {}, NEW i \in 1 .. Depth - 1, NEW k \in 1 .. calls'[i].at - 1
      PROVE  Mentions(calls'[i].owner)[k] \in checked'
  <2>1. calls'[i] = IF i = Depth - 1 THEN [owner |-> calls[i].owner, at |-> calls[i].at + 1] ELSE calls[i]
    BY FinishMoves
  <2>2. calls'[i].owner = calls[i].owner /\ Mentions(calls'[i].owner) = Mentions(calls[i].owner)
    BY <2>1
  <2>3. i \in 1 .. Depth /\ i < Depth
    BY <1>2
  <2>4. /\ i \in DOMAIN calls /\ calls[i].at \in Nat
        /\ Mentions(calls[i].owner)[calls[i].at] = calls[i + 1].owner
    BY <1>1, <1>2, <2>3, PathFacts
  <2>5. CASE k \in 1 .. calls[i].at - 1
    BY <1>1, <1>3, <2>2, <2>4, <2>5 DEF Passed
  <2>6. CASE k \notin 1 .. calls[i].at - 1
    <3>1. i = Depth - 1 /\ k = calls[i].at
      BY <2>1, <2>4, <2>6
    <3>2. i + 1 = Depth
      BY <1>2, <3>1
    <3> QED
      BY <1>1, <2>2, <2>4, <3>1, <3>2
  <2> QED
    BY <2>5, <2>6
<1> QED
  BY <1>1, <1>2, <1>3 DEF Passed, Mentions

LEMMA PassedFinishStatement ==
  ASSUME Search, Passed, FinishStatement
  PROVE  Passed'
<1>1. calls' = <<>> /\ current' = current + 1 /\ UNCHANGED <<source, checked, errors>>
  BY DEF FinishStatement
<1>2. /\ calls # <<>> /\ DOMAIN calls = {1} /\ calls[1].at > Len(Mentions(calls[1].owner))
      /\ current \in Nat
  BY StatementMoves DEF FinishStatement, Finished, Search, TypeOK
<1>3. /\ Mentions(calls[1].owner) \in Seq(Globals) /\ calls[1].at \in Nat
      /\ Mentions(calls[1].owner) = source.statements[current]
  BY <1>2, MentionsTyped, NullAssumption DEF Search, Path, Mentions
<1>4. ASSUME errors = {}, NEW i \in 1 .. current, NEW k \in DOMAIN source.statements[i]
      PROVE  source.statements[i][k] \in checked
  <2>1. CASE i \in 1 .. current - 1
    BY <1>4, <2>1 DEF Passed
  <2>2. CASE i = current
    <3>1. k \in 1 .. calls[1].at - 1
      BY <1>2, <1>3, <2>2
    <3> QED
      BY <1>2, <1>3, <1>4, <2>2, <3>1 DEF Passed
  <2> QED
    BY <1>2, <2>1, <2>2
<1>5. \A i \in 1 .. current' - 1 : i \in 1 .. current
  BY <1>1, <1>2
<1> QED
  BY <1>1, <1>4, <1>5 DEF Passed

LEMMA PassedCheckStatement ==
  ASSUME Search, Passed, CheckStatement
  PROVE  Passed'
<1>1. calls' = <<Call(ACU_NULL_IDX)>> /\ UNCHANGED <<source, current, checked, errors>>
  BY DEF CheckStatement
<1>2. DOMAIN calls' = {1} /\ calls'[1].at = 1
  BY <1>1 DEF Call
<1>3. \A i \in DOMAIN calls' : 1 .. calls'[i].at - 1 = {}
  BY <1>2
<1> QED
  BY <1>1, <1>3 DEF Passed

(* A variable that is met while it is being checked closes a cycle: the    *)
(* owners of the calls from its own to the top.                            *)
LEMMA CycleClosed ==
  ASSUME Search, NEW g \in Globals, CyclicDependency(g)
  PROVE  \E S \in SUBSET Globals : Cyclic(S)
<1>1. Mentioning(g) /\ g \in checking /\ calls # <<>>
  BY DEF CyclicDependency, Mentioning
<1>2. /\ Depth \in Nat /\ Depth >= 1 /\ DOMAIN calls = 1 .. Depth
      /\ calls[Depth].at <= Len(Mentions(calls[Depth].owner))
      /\ Mentions(calls[Depth].owner)[calls[Depth].at] = g
  BY <1>1, MentioningMoves
<1>3. PICK i \in 1 .. Depth : calls[i].owner = g
  BY <1>1, <1>2, SearchOwned DEF Owned
<1>4. i # 1
  BY <1>2, <1>3, NullAssumption DEF Search, Path
<1> DEFINE S == {calls[j].owner : j \in i .. Depth}
<1>5. \A j \in i .. Depth : j \in 1 .. Depth /\ j # 1
  BY <1>2, <1>4
<1>6. \A j \in i .. Depth : calls[j].owner \in Globals
  BY <1>2, <1>5, MentionsTyped DEF Search, Path
<1>7. ASSUME NEW j \in i .. Depth
      PROVE  \E k \in i .. Depth : calls[k].owner \in MentionedBy(calls[j].owner)
  <2>1. /\ j \in DOMAIN calls /\ calls[j].owner \in Globals
        /\ Mentions(calls[j].owner) \in Seq(Globals) /\ calls[j].at \in Nat \ {0}
    BY <1>2, <1>5, <1>6, MentionsTyped
  <2>2. CASE j = Depth
    <3>1. calls[j].at \in DOMAIN Mentions(calls[j].owner)
      BY <1>2, <2>1, <2>2
    <3>2. g \in MentionedBy(calls[j].owner)
      BY <1>2, <2>1, <2>2, <3>1, MentionsOfGlobal
    <3>3. i \in i .. Depth
      BY <1>2
    <3> QED
      BY <1>3, <3>2, <3>3
  <2>3. CASE j # Depth
    <3>1. j < Depth /\ j + 1 \in i .. Depth
      BY <1>2, <2>3
    <3>2. /\ calls[j].at <= Len(Mentions(calls[j].owner))
          /\ Mentions(calls[j].owner)[calls[j].at] = calls[j + 1].owner
      BY <2>1, <3>1 DEF Search, Path, Depth
    <3>3. calls[j].at \in DOMAIN Mentions(calls[j].owner)
      BY <2>1, <3>2
    <3>4. calls[j + 1].owner \in MentionedBy(calls[j].owner)
      BY <2>1, <3>2, <3>3, MentionsOfGlobal
    <3> QED
      BY <3>1, <3>4
  <2> QED
    BY <2>2, <2>3
<1>8. S \subseteq Globals /\ g \in S
  <2>1. i \in i .. Depth
    BY <1>2
  <2> QED
    BY <1>3, <1>6, <2>1
<1>9. Cyclic(S)
  BY <1>7, <1>8 DEF Cyclic
<1> QED
  BY <1>8, <1>9

Order == OnceEach /\ DependenciesFirst /\ Passed /\ CycleFound

LEMMA OrderInit == Init => Order
  BY DEF Init, Order, OnceEach, Initialised, DependenciesFirst, Passed, CycleFound

LEMMA CycleStays ==
  ASSUME source' = source, \E S \in SUBSET Globals : Cyclic(S)
  PROVE  (\E S \in SUBSET Globals : Cyclic(S))'
<1>1. PICK S \in SUBSET Globals : Cyclic(S)
  OBVIOUS
<1>2. ASSUME NEW g \in S PROVE MentionedBy(g)' = MentionedBy(g)
  BY DEF MentionedBy
<1>3. Cyclic(S)'
  BY <1>1, <1>2 DEF Cyclic
<1> QED
  BY <1>3

LEMMA OrderKept ==
  ASSUME Search, Order, [Next]_vars
  PROVE  Order'
<1>1. Passed'
  <2>1. ASSUME NEW g \in Globals, CyclicDependency(g) PROVE Passed'
    <3>1. errors' # {}
      BY <2>1 DEF CyclicDependency
    <3> QED
      BY <3>1 DEF Passed
  <2>2. CASE UNCHANGED vars
    BY <2>2 DEF vars, Order, Passed, Mentions
  <2> QED
    BY <2>1, <2>2, PassedGoOn, PassedCheckGlobal, PassedFinishGlobal, PassedCheckStatement,
       PassedFinishStatement DEF Next, Order
<1>2. CASE FinishGlobal
  <2>1. OnceEach' /\ DependenciesFirst'
    BY <1>2, OrderStep DEF Order
  <2>2. CycleFound'
    <3>1. errors' = errors /\ source' = source
      BY <1>2 DEF FinishGlobal
    <3> QED
      BY <3>1, CycleStays DEF Order, CycleFound
  <2> QED
    BY <1>1, <2>1, <2>2 DEF Order
<1>3. CASE ~ FinishGlobal
  <2>1. UNCHANGED <<source, checked, global_init_order>>
    BY <1>3 DEF Next, CheckStatement, AlreadyChecked, CyclicDependency, CheckGlobal, FinishStatement, vars
  <2>2. errors' = {} => errors = {}
    BY <1>3 DEF Next, CheckStatement, AlreadyChecked, CyclicDependency, CheckGlobal, FinishStatement, vars
  <2>3. OnceEach' /\ DependenciesFirst'
    BY <2>1, <2>2 DEF Order, OnceEach, Initialised, DependenciesFirst, MentionedBy
  <2>4. CycleFound'
    <3>1. ASSUME NEW g \in Globals, CyclicDependency(g) PROVE \E S \in SUBSET Globals : Cyclic(S)
      BY <3>1, CycleClosed
    <3>2. errors' # {} => \E S \in SUBSET Globals : Cyclic(S)
      BY <1>3, <3>1 DEF Next, CheckStatement, AlreadyChecked, CheckGlobal, FinishStatement, vars, Order, CycleFound
    <3> QED
      BY <2>1, <3>2, CycleStays DEF CycleFound
  <2> QED
    BY <1>1, <2>3, <2>4 DEF Order
<1> QED
  BY <1>2, <1>3

LEMMA OrderInv == Spec => [](Search /\ Order)
  BY SearchInit, SearchStep, OrderInit, OrderKept, PTL DEF Spec

(* For any program every checked variable is in the order exactly once,    *)
(* and if the program is not rejected its initialiser comes behind those   *)
(* of the variables it mentions, wherever they are declared.               *)
THEOREM OrderCorrect == Spec => []InitOrder
<1>1. Search /\ Order => InitOrder
  BY DEF Order, InitOrder
<1> QED
  BY <1>1, OrderInv, PTL

(* Everything is checked at the end, and of a cycle one member would come  *)
(* first in the order: behind no other one.                                *)
LEMMA NoCycleLeft ==
  ASSUME Search, Order, AllChecked, errors = {}
  PROVE  checked = Globals /\ ~ \E S \in SUBSET Globals : Cyclic(S)
<1>1. IsSource(source) /\ checked \subseteq Globals /\ current = Len(source.statements) + 1
  <2>1. IsSource(source) /\ checked \subseteq Globals /\ current \in 1 .. Len(source.statements) + 1
    BY DEF Search, TypeOK
  <2>2. Len(source.statements) \in Nat /\ current > Len(source.statements)
    BY <2>1 DEF IsSource, AllChecked
  <2> QED
    BY <2>1, <2>2
<1>2. ASSUME NEW g \in Globals PROVE g \in checked
  <2>1. PICK i \in DOMAIN source.statements : source.statements[i] = <<g>>
    BY <1>1 DEF IsSource
  <2>2. i \in 1 .. current - 1
    BY <1>1, <2>1 DEF IsSource
  <2>3. 1 \in DOMAIN source.statements[i] /\ source.statements[i][1] = g
    BY <2>1
  <2> QED
    BY <2>2, <2>3 DEF Order, Passed
<1>3. checked = Globals
  BY <1>1, <1>2
<1>4. ASSUME NEW S \in SUBSET Globals, Cyclic(S) PROVE FALSE
  <2> DEFINE T == {i \in DOMAIN global_init_order : global_init_order[i] \in S}
  <2>1. \A g \in S : \E i \in T : global_init_order[i] = g
    BY <1>3 DEF Order, OnceEach, Initialised
  <2>2. DOMAIN global_init_order = 1 .. Len(global_init_order) /\ Len(global_init_order) \in Nat
    BY DEF Search, TypeOK
  <2>3. T \subseteq Nat /\ T # {}
    BY <1>4, <2>1, <2>2 DEF Cyclic
  <2>4. PICK x \in T : \A y \in T : x <= y
    BY <2>3, LeastNumber
  <2>5. PICK g \in S : g \in MentionedBy(global_init_order[x])
    BY <1>4, <2>4 DEF Cyclic
  <2>6. PICK j \in 1 .. x - 1 : global_init_order[j] = g
    BY <2>4, <2>5 DEF Order, DependenciesFirst
  <2>7. j \in T /\ j < x
    BY <2>2, <2>4, <2>5, <2>6
  <2> QED
    BY <2>2, <2>4, <2>7
<1> QED
  BY <1>3, <1>4

(* For any program a cycle is reported exactly if there is one.            *)
THEOREM CyclesCorrect == Spec => []CyclesReported
<1>1. ASSUME Search, Order PROVE CyclesReported
  <2>1. errors # {} => \E S \in SUBSET Globals : Cyclic(S)
    BY <1>1 DEF Order, CycleFound
  <2>2. AllChecked /\ errors = {} => checked = Globals /\ ~ \E S \in SUBSET Globals : Cyclic(S)
    BY <1>1, NoCycleLeft
  <2> QED
    BY <2>1, <2>2 DEF CyclesReported
<1> QED
  BY <1>1, OrderInv, PTL
=============================================================================
