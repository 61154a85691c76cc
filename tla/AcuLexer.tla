------------------------------ MODULE AcuLexer ------------------------------
(***************************************************************************)
(* The lexer: the next token of a text from a position onwards.  A text is *)
(* a string; a character is a string of length one and positions count     *)
(* from 1.  A token is a record                                            *)
(*   type  the text of its row in the table of token types (token.h) for a *)
(*         symbol or the name of a type; "ident", "int", "float",          *)
(*         "string", "comment", "error" or "eof" for the others            *)
(*   at    the position of its first character                             *)
(*   len   the number of its characters                                    *)
(*   code  the error of an error token                                     *)
(* A text holds no zero bytes; the 32 behind every source are the          *)
(* characters NUL that At answers behind the end.                          *)
(***************************************************************************)
EXTENDS Integers, Sequences, FiniteSets

CONSTANTS
  Letters   (* the letters, the underscore and every byte above 127        *)

NUL == "NUL"

Digits == {"0", "1", "2", "3", "4", "5", "6", "7", "8", "9"}

ASSUME LettersAssumption == NUL \notin Letters /\ Letters \cap Digits = {}

IdentCont == Letters \union Digits

Whitespace == {" ", "\t", "\n", "\r"}

(* The characters that may follow a backslash in a string.                 *)
Escapes == {"n", "r", "t", "\\", "\"", "0"}

At(text, p) == IF p \in 1 .. Len(text) THEN SubSeq(text, p, p) ELSE NUL

(* The characters of a token.                                              *)
Lexeme(text, t) == SubSeq(text, t.at, t.at + t.len - 1)

(* The first position from p on whose character is not in cs.              *)
RECURSIVE Skip(_, _, _)
Skip(text, p, cs) == IF At(text, p) \in cs THEN Skip(text, p + 1, cs) ELSE p

(* The first position from p on with a character of cs, or a zero.         *)
RECURSIVE Find(_, _, _)
Find(text, p, cs) == IF At(text, p) \in cs \union {NUL} THEN p ELSE Find(text, p + 1, cs)
-----------------------------------------------------------------------------
(* A token that starts at a position and the position behind it.           *)
Emit(type, start, p) ==
  [token |-> [type |-> type, at |-> start, len |-> p - start, code |-> "OK"], pos |-> p]

EmitError(code, start, p) ==
  [token |-> [type |-> "error", at |-> start, len |-> p - start, code |-> code], pos |-> p]

TypeNames ==
  {"i1", "i8", "i16", "i32", "i64", "u8", "u16", "u32", "u64", "f32", "f64", "str"}

ScanIdent(text, start) ==
  LET p    == Skip(text, start + 1, IdentCont)
      name == SubSeq(text, start, p - 1)
  IN  Emit(IF name \in TypeNames THEN name ELSE "ident", start, p)

(* A fraction needs a digit behind its point, so that 10.f reads a member; *)
(* an exponent without digits is an error.                                 *)
ScanNumber(text, start) ==
  LET whole == Skip(text, start + 1, Digits)
      point == At(text, whole) = "." /\ At(text, whole + 1) \in Digits
      m     == IF point THEN Skip(text, whole + 2, Digits) ELSE whole
      exp   == At(text, m) \in {"e", "E"}
      e     == IF exp THEN IF At(text, m + 1) \in {"+", "-"} THEN m + 2 ELSE m + 1 ELSE m
      p     == Skip(text, Skip(text, e, Digits), IdentCont)
  IN  IF exp /\ At(text, e) \notin Digits
      THEN EmitError("INVALID_NUMBER_FORMAT", start, e)
      ELSE Emit(IF point \/ exp THEN "float" ELSE "int", start, p)

RECURSIVE ScanString(_, _, _)
ScanString(text, start, p) ==
  LET q == Find(text, p, {"\"", "\\", "\n"})
  IN  CASE At(text, q) = "\"" -> Emit("string", start, q + 1)
        [] At(text, q) = "\\" ->
             IF At(text, q + 1) \in Escapes THEN ScanString(text, start, q + 2)
             ELSE EmitError("INVALID_ESCAPE_SEQUENCE", start, q + 2)
        [] At(text, q) \in {"\n", NUL} -> EmitError("UNTERMINATED_STRING", start, q)

RECURSIVE ScanComment(_, _, _)
ScanComment(text, start, p) ==
  LET stars == Find(text, p, {"*"})
      q     == Skip(text, stars, {"*"})
  IN  IF At(text, stars) = NUL THEN EmitError("UNTERMINATED_COMMENT", start, stars)
      ELSE IF At(text, q) = "/" THEN Emit("comment", start, q + 1)
      ELSE ScanComment(text, start, q)

(* The characters that make a longer symbol of a symbol.                   *)
Longer(symbol) ==
  CASE symbol \in {"+", "-", "="}               -> {">", "="}
    [] symbol \in {"*", "%", "&", "|"}          -> {symbol, "="}
    [] symbol \in {"**", "/", "^", "<<", ">>"}  -> {"="}
    [] symbol = "!"                             -> {"=", "#"}
    [] symbol = "<"                             -> {"=", "+", "<", ">"}
    [] symbol = ">"                             -> {"=", ">"}
    [] symbol = "?"                             -> {":"}
    [] symbol = "$"                             -> {">"}
    [] symbol = "@"                             -> {"^", "<"}
    [] OTHER                                    -> {}

SymbolChars ==
  {"(", ")", "{", "}", "[", "]", ",", ";", ":", ".", "~", "#", "+", "-", "*", "/", "%",
   "&", "|", "^", "=", "!", "<", ">", "?", "$", "@"}

(* Mutant: no symbol is longer than two characters.                        *)
ScanTwo(text, start, symbol) ==
  LET p == start + Len(symbol)
  IN  IF At(text, p) \in Longer(symbol) THEN Emit(symbol \o At(text, p), start, p + 1)
      ELSE IF symbol = "?" THEN EmitError("UNEXPECTED_CHAR", start, p)
      ELSE Emit(symbol, start, p)

RECURSIVE ScanSymbol(_, _, _)
ScanSymbol(text, start, symbol) ==
  LET p == start + Len(symbol)
  IN  IF At(text, p) \in Longer(symbol) THEN ScanSymbol(text, start, symbol \o At(text, p))
      ELSE IF symbol = "?" THEN EmitError("UNEXPECTED_CHAR", start, p)
      ELSE Emit(symbol, start, p)

(* AcuLexer_Next from position p.                                          *)
NextToken(text, p) ==
  LET start == Skip(text, p, Whitespace)
      c     == At(text, start)
  IN  CASE start > Len(text)                     -> Emit("eof", start, start)
        [] c \in Letters                         -> ScanIdent(text, start)
        [] c \in Digits                          -> ScanNumber(text, start)
        [] c = "\""                              -> ScanString(text, start, start + 1)
        [] c = "/" /\ At(text, start + 1) = "/"  -> Emit("comment", start, Find(text, start + 2, {"\n"}))
        [] c = "/" /\ At(text, start + 1) = "*"  -> ScanComment(text, start, start + 2)
        [] c \in SymbolChars /\ ~ (c = "/" /\ At(text, start + 1) \in {"/", "*"})
                                                 -> ScanSymbol(text, start, c)
        [] start <= Len(text) /\ c \notin IdentCont \union SymbolChars \union {"\""}
                                                 -> EmitError("UNEXPECTED_CHAR", start, start + 1)

(* All the tokens of a text, errors and comments included.                 *)
RECURSIVE TokensFrom(_, _)
TokensFrom(text, p) ==
  LET n == NextToken(text, p)
  IN  IF n.token.type = "eof" THEN <<>> ELSE <<n.token>> \o TokensFrom(text, n.pos)

Tokens(text) == TokensFrom(text, 1)
-----------------------------------------------------------------------------
(* The symbols in the table of token types.                                *)
SymbolTexts ==
  {"$", "#", "!#", "@", "%%", "<>", "$>", "+>", "<+", "@^", "@<", "=>", ",", ";", ":", "{",
   "}", ")", "]", "?:", "(", "[", ".", "->", "~", "!", "+", "-", "*", "**", "/", "%", "&",
   "|", "^", "<<", ">>", "<", "<=", ">", ">=", "==", "!=", "&&", "||", "=", "+=", "-=", "*=",
   "**=", "/=", "%=", "&=", "|=", "^=", "<<=", ">>="}

(* The symbols of the table that a text has at a position.                 *)
SymbolsAt(text, p) == {SubSeq(text, p, q) : q \in (p .. p + 2) \cap (1 .. Len(text))} \cap SymbolTexts

(* Of the symbols that the table knows, the lexer takes the longest one    *)
(* the text goes on with, whatever the order of its tests, and no symbol   *)
(* is left out of its switch; words and numbers go on as far as they can.  *)
LongestMatch(text) ==
  \A t \in {Tokens(text)[i] : i \in DOMAIN Tokens(text)} :
    /\ t.type \in SymbolTexts =>
         /\ Lexeme(text, t) = t.type
         /\ \A x \in SymbolsAt(text, t.at) : Len(x) <= t.len
    /\ t.type \in {"ident", "int", "float"} \union TypeNames =>
         At(text, t.at + t.len) \notin IdentCont
    /\ t.code = "UNEXPECTED_CHAR" => SymbolsAt(text, t.at) = {}
=============================================================================
