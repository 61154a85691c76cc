----------------------------- MODULE AcuSyntax ------------------------------
(***************************************************************************)
(* Syntax trees as the parser leaves them (include/ast/ast.h).  A node is  *)
(* a record                                                                *)
(*   k     its AstType or the kind of a type                               *)
(*   v     the operator, name or value it carries                          *)
(*   f     its flags, or the suffix of a number                            *)
(*   kids  its children in the order of the source                         *)
(***************************************************************************)
EXTENDS Integers, Sequences

Tree(k, v, f, kids) == [k |-> k, v |-> v, f |-> f, kids |-> kids]

(* ACU_NULL_IDX.                                                           *)
Null == Tree("null", "", {}, <<>>)

Of(k, kids) == Tree(k, "", {}, kids)

BlockLike == {"block", "if", "loop", "while"}
=============================================================================
