---------------------------- MODULE AcuFrontEnd -----------------------------
(***************************************************************************)
(* The front end on whole texts: the loop of AcuParser_ParseModule, which  *)
(* takes a statement a turn until the text ends, and what it promises,     *)
(* said with the grammar.                                                  *)
(***************************************************************************)
EXTENDS AcuGrammar

CONSTANTS
  Sources,      (* the texts that are parsed, in families                  *)
  Turns,        (* what a turn makes of a parser: functions that agree     *)
  MaxErrors,    (* bound: the errors of a parser that is stuck are counted *)
                (* up to here                                              *)
  Written,      (* the texts of programs, as TextOf writes them, in        *)
                (* families                                                *)
  Damaged,      (* texts that an assignment follows                        *)
  Counted       (* numbers: records of their digits and their suffix       *)

(* They are ParseTurn on the parsers that the sources lead to, and a       *)
(* constant so that TLC evaluates each turn once.                          *)
ASSUME TurnsAssumption == \A turn \in Turns : \A s \in DOMAIN turn : turn[s] = ParseTurn(s)

VARIABLES
  source,   (* the text                                                    *)
  parser,   (* the parser between two turns                                *)
  nodes,    (* scratch_nodes: the statements of the module so far          *)
  mode      (* "parsing" or "done"                                         *)

vars == <<source, parser, nodes, mode>>

Init ==
  /\ \E family \in Sources : source \in family
  /\ parser = Init0(source)
  /\ nodes = <<>>
  /\ mode = "parsing"

Turn ==
  /\ mode = "parsing" /\ parser.cur.type # "eof"
  /\ LET next == (CHOOSE turn \in Turns : parser \in DOMAIN turn)[parser]
     IN  /\ parser' = Give(next, Null)
         /\ nodes' = IF next.val = Null THEN nodes ELSE Append(nodes, next.val)
  /\ UNCHANGED <<source, mode>>

(* The next turn of a loop that no longer takes tokens.                    *)
Spin ==
  /\ mode = "parsing" /\ parser.stuck /\ Len(parser.errors) < MaxErrors
  /\ parser' = [parser EXCEPT !.errors = Append(@, Last(@))]
  /\ UNCHANGED <<source, nodes, mode>>

Finish ==
  /\ mode = "parsing" /\ parser.cur.type = "eof" /\ ~ parser.stuck
  /\ mode' = "done"
  /\ UNCHANGED <<source, parser, nodes>>

Next == Turn \/ Spin \/ Finish

(* The parser runs until it returns.                                       *)
Spec == Init /\ [][Next]_vars /\ WF_vars(Next)
-----------------------------------------------------------------------------
NumberText(n) == n.digits \o n.suffix \o ";"

Numbers == {NumberText(n) : n \in Counted}

Repaired(d) == d \o " ; z = 1;"

Broken == {Repaired(d) : d \in Damaged}

Accepted == mode = "done" /\ parser.errors = <<>>
-----------------------------------------------------------------------------
(* The lexer takes the longest token everywhere (lexer_test.c,             *)
(* EdgeCaseMaximalMunch).                                                  *)
LongestTokens == mode = "done" => LongestMatch(source)

(* The tree of a text that was written down for a tree is that tree: the   *)
(* precedences, what groups to the left and what to the right, how far an  *)
(* operand, a cast, a return or a branch reaches.                          *)
ParsesBack ==
  mode = "done" /\ (\E family \in Written : source \in family) =>
    parser.errors = <<>> /\ TextOf(nodes) = source

(* A text that is accepted is wholly in the tree: recovery, the dropping   *)
(* of missing nodes and the splitting of >> lose no word, double none and  *)
(* do not change their order without an error that says so.  (A number is  *)
(* kept as its value: see NumbersExact.)                                   *)
NothingLost ==
  Accepted /\ source \notin Numbers => Skeleton(TextOf(nodes)) = Skeleton(source)

(* A number is accepted with exactly its value, or it is reported.         *)
NumbersExact ==
  mode = "done" /\ source \in Numbers =>
    LET n     == CHOOSE x \in Counted : NumberText(x) = source
        value == ValueOf(n.digits)
        known == n.suffix \in IntSuffixes \union FloatSuffixes \union {""}
        kind  == IF n.suffix \in FloatSuffixes THEN "float" ELSE "int"
        text  == IF kind = "int" THEN ToString(value) ELSE n.digits
    IN  IF value <= UintMax /\ known
        THEN /\ parser.errors = <<>>
             /\ nodes = <<Of("discard", <<Tree(kind, text, {n.suffix} \ {""}, <<>>)>>)>>
        ELSE Len(parser.errors) = 1

(* Behind whatever was wrong, the parser is in step again after a          *)
(* semicolon: the next statement is neither lost nor part of the one       *)
(* before it.                                                              *)
Recovers ==
  mode = "done" /\ source \in Broken =>
    nodes # <<>> /\ Bare(Last(nodes)) = "z= 1;"

(* Every text is parsed to its end, whatever it is, or the limit of the    *)
(* recursion is reported, behind which a block may never end.              *)
ParsingEnds ==
  <>(mode = "done" \/ \E i \in DOMAIN parser.errors : parser.errors[i] = "RECURSION_LIMIT")
=============================================================================
