------------------------------ MODULE AcuScopes ------------------------------
(***************************************************************************)
(* What the symbol table promises: names are looked up in nested scopes,   *)
(* and of several symbols of one name in one scope the latest counts.      *)
(* There are no hash values here; a question is answered from the list of  *)
(* all symbols.  AcuSymbolTable implements it.                             *)
(***************************************************************************)
EXTENDS Integers, Sequences

CONSTANTS
  Names,
  ACU_NULL_IDX   (* no scope, no symbol                                    *)

VARIABLES
  scopes,        (* the parent of every scope                              *)
  symbols,       (* name and scope of every symbol                         *)
  question,      (* the lookup that waits for an answer                    *)
  answer         (* its answer, until it is taken                            *)

vars == <<scopes, symbols, question, answer>>

NoQuestion == [ask |-> "nothing"]

NoAnswer == [of |-> NoQuestion, symbol |-> ACU_NULL_IDX]

Init == scopes = <<>> /\ symbols = <<>> /\ question = NoQuestion /\ answer = NoAnswer
-----------------------------------------------------------------------------
Declared(n, s) == {i \in DOMAIN symbols : symbols[i].name = n /\ symbols[i].scope = s}

(* r is the latest symbol named n in scope s.                              *)
IsLatest(n, s, r) ==
  IF Declared(n, s) = {} THEN r = ACU_NULL_IDX
  ELSE r \in Declared(n, s) /\ \A i \in Declared(n, s) : i <= r

(* The k scopes c from s outwards; r is found in the last one, or nowhere. *)
IsChain(c, k, s) == c[1] = s /\ \A i \in 1 .. k - 1 : c[i + 1] = scopes[c[i]]

FoundAlong(c, k, n, r) ==
  /\ \A i \in 1 .. k - 1 : Declared(n, c[i]) = {}
  /\ IsLatest(n, c[k], r)
  /\ r = ACU_NULL_IDX => scopes[c[k]] = ACU_NULL_IDX

IsResolved(n, s, r) ==
  IF s = ACU_NULL_IDX THEN r = ACU_NULL_IDX
  ELSE \E k \in DOMAIN scopes : \E c \in [1 .. k -> DOMAIN scopes] :
         IsChain(c, k, s) /\ FoundAlong(c, k, n, r)
-----------------------------------------------------------------------------
PushScope ==
  /\ \E p \in DOMAIN scopes \union {ACU_NULL_IDX} : scopes' = Append(scopes, p)
  /\ UNCHANGED <<symbols, question, answer>>

Add ==
  /\ \E n \in Names, s \in DOMAIN scopes : symbols' = Append(symbols, [name |-> n, scope |-> s])
  /\ UNCHANGED <<scopes, question, answer>>

Ask ==
  /\ question = NoQuestion /\ answer = NoAnswer
  /\ \E n \in Names, s \in DOMAIN scopes \union {ACU_NULL_IDX}, how \in {"exact", "enclosing"} :
       question' = [ask |-> how, name |-> n, scope |-> s]
  /\ UNCHANGED <<scopes, symbols, answer>>

Answer ==
  /\ question # NoQuestion /\ question' = NoQuestion
  /\ answer'.of = question /\ DOMAIN answer' = DOMAIN NoAnswer
  /\ IF question.ask = "exact"
     THEN IsLatest(question.name, question.scope, answer'.symbol)
     ELSE IsResolved(question.name, question.scope, answer'.symbol)
  /\ UNCHANGED <<scopes, symbols>>

Take ==
  /\ answer # NoAnswer /\ answer' = NoAnswer
  /\ UNCHANGED <<scopes, symbols, question>>

Next == PushScope \/ Add \/ Ask \/ Answer \/ Take

Spec == Init /\ [][Next]_vars
=============================================================================
