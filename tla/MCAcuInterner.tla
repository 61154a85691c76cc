---------------------------- MODULE MCAcuInterner ----------------------------
(***************************************************************************)
(* Instances of AcuInterner for TLC: tables of 4 slots that double at the  *)
(* fourth and at the seventh entry, and hash functions that send contents  *)
(* to the last slot and around, or apart.                                  *)
(***************************************************************************)
EXTENDS AcuInterner, SequencesExt

Constants == {Content(HeadOf("VALUE", v, 0), <<>>) : v \in 0 .. 6}

Strings == {Content(Text, s) : s \in {<<>>, <<1>>, <<2>>, <<1, 2>>, <<2, 1>>, <<1, 1>>, <<1, Terminator>>}}

Primitive(k) == Content(HeadOf("PRIMITIVE", k, 0), <<>>)

(* Types over the first n types: some of those inside are the latest one.  *)
Types(n) ==
  LET last == n - 1
  IN  {Primitive(2), Content(HeadOf("VECTOR", last, 0), <<>>), Content(HeadOf("ARRAY", 0, 2), <<>>),
       Content(HeadOf("TUPLE", 0, 0), <<0, last>>),
       Content(HeadOf("FUNC", 0, 0), <<last>>), Content(HeadOf("FUNC", last, 0), <<0>>)}

MCContents(k, n) ==
  CASE k = "constants" -> Constants
    [] k = "strings"   -> Strings
    [] k = "types"     -> Types(n)

MCPreloaded(k) == IF k = "types" THEN <<Primitive(1), Primitive(2)>> ELSE <<>>

MCKinds == {"constants", "strings", "types"}

MCHashes == {"last", "weigh"}

(* A number of a content that differs for most contents.                   *)
Weight(content) == content.head.of + 5 * FoldLeft(LAMBDA acc, x : 3 * acc + x + 1, 0, content.body)

MCHash(h, content) ==
  CASE h = "last"  -> IF content.body = <<>> THEN 7 ELSE 15
    [] h = "weigh" -> Weight(content)
=============================================================================
