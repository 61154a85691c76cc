-------------------------- MODULE MCAcuSymbolTable --------------------------
(***************************************************************************)
(* Instances of AcuSymbolTable for TLC.  The table starts with 4 slots and *)
(* is enlarged once; the hash functions make all keys collide, wrap around *)
(* the end of the table, and part or collide again when it grows.          *)
(***************************************************************************)
EXTENDS AcuSymbolTable

CONSTANTS a, b, c

MCNames == {a, b, c}

Number(key) == 3 * key[2] + (CASE key[1] = a -> 0 [] key[1] = b -> 1 [] OTHER -> 2)

(* Keys of scopes that are never made are there because a hash function    *)
(* is one of all scopes.                                                   *)
Keys == MCNames \X (1 .. MaxScopes)

MCHashes == {[key \in Keys |-> Number(key)], [key \in Keys |-> 7 - 4 * (Number(key) % 2)]}
=============================================================================
