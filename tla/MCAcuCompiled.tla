---------------------------- MODULE MCAcuCompiled ----------------------------
(***************************************************************************)
(* Families of small programs for AcuCompiled: 4-bit registers, immediates *)
(* of 2 bits in an instruction and of 3 in a wide field, so that literals  *)
(* fall into all three ranges the generator tells apart.  Most programs    *)
(* print f(a, b); parameters are the locals 0 and 1.                       *)
(***************************************************************************)
EXTENDS AcuCompiled

MCWord == RegWords

MCNextRandom(x) == U(x + 3)

X == Local(0)
Y == Local(1)
Z == Local(2)
W == Local(3)
True == Binary("EQ", FALSE, Lit(1), Lit(1))
False == Binary("EQ", FALSE, Lit(0), Lit(1))
Neg(e) == Unary("NEG", e)
Negate(e) == Unary("LNOT", e)
Bin(op, l, r) == Binary(op, FALSE, l, r)
Add(l, r) == Bin("ADD", l, r)
Sub(l, r) == Bin("SUB", l, r)
Less(l, r) == Bin("LT", l, r)
Same(l, r) == Bin("EQ", l, r)
Set(x, e) == Assign("EQ", x, e)
Say(e) == CallSys("print", <<e>>)
Fn(params, body) == [params |-> params, returns |-> TRUE, body |-> body]
Proc(params, body) == [params |-> params, returns |-> FALSE, body |-> body]

Inputs == {<<Lit(5), Lit(2)>>, <<Neg(Lit(3)), Lit(0)>>, <<Lit(1), Neg(Lit(8))>>}

Prints(in, fns) == [inits |-> <<>>, main |-> <<Say(CallFn(1, in))>>, fns |-> fns]

(* Programs that print f(x, y) = body.                                     *)
Of(bodies) == {Prints(in, <<Fn(2, Block(b))>>) : in \in Inputs, b \in bodies}
-----------------------------------------------------------------------------
(* Operators on every shape of operands.                                   *)
Ops2 == {"ADD", "SUB", "MUL", "DIV", "REM", "POW", "AND", "OR", "XOR", "SHL", "SHR",
         "EQ", "NEQ", "LT", "LTE", "GT", "GTE"}

Signedness == {"DIV", "REM", "SHR", "LT", "LTE", "GT", "GTE"}

Operands == {X, Y, Lit(0), Lit(1), Lit(2), Lit(4), Lit(5), Lit(7), Neg(X)}

Operations ==
  Of({<<Binary(op, u, l, r)>> : op \in Ops2, u \in {FALSE}, l \in {X, Lit(0), Lit(5), Neg(X)}, r \in Operands}
     \union {<<Binary(op, TRUE, l, r)>> : op \in Signedness, l \in {X, Lit(5)}, r \in Operands})

-----------------------------------------------------------------------------
(* Branches: conditions decided at compile time or not, negated and        *)
(* combined, in and out of tail position, with and without a value.        *)
Tests == {True, False, Less(X, Y), Negate(Less(X, Lit(2))), Bin("LAND", Less(X, Y), Negate(Same(X, Lit(0)))),
          Bin("LOR", Same(Y, Lit(0)), Less(X, Lit(5))), Bin("LAND", Same(X, Y), False), Negate(Same(X, Y))}

Dynamic == Tests \ {True, False}

Branches ==
  Of({<<If(c, a, b)>> : c \in Tests, a \in {X, Lit(0), Block(<<Var(3, Add(X, Lit(1))), W>>)}, b \in {Neg(Y), Add(X, Y)}}
     \union {<<Add(l, If(c, a, b))>> : c \in Tests, l \in {Lit(4), Y}, a \in {X, Lit(6)}, b \in {Y, Neg(X)}}
     \union {<<Var(2, If(c, a, b)), Return(Add(Z, Neg(X)))>> : c \in Dynamic, a \in {X, Lit(0)}, b \in {Y, Return(Y)}}
     \union {<<Var(2, Lit(0)), If(c, a, b), Return(Z)>> :
               c \in Dynamic, a \in {Set(2, X), Return(Lit(7)), Block(<<>>)},
               b \in {Absent, Set(2, Neg(X)), Block(<<Var(3, Y), Assign("ADD", 2, W)>>), Return(X)}}
     \union {<<If(c, If(d, X, Lit(1)), If(d, Return(Y), Neg(Y)))>> : c, d \in Dynamic}
     \union {<<Bin("MUL", c, d)>> : c, d \in Tests})

(* Loops: with a value and without, left by break, continue and return,    *)
(* nested, endless but for a break, never entered.                         *)
Count(e) == Assign("ADD", 2, e)

Loops ==
  Of({<<Var(2, Lit(0)), While(c, b), Return(Z)>> :
        c \in {Less(Z, Lit(3)), Negate(Less(Lit(1), Z)), False, Bin("LAND", Less(Z, Lit(2)), Less(Z, X))},
        b \in {Block(<<Count(Lit(1)), Say(Z)>>), Block(<<Count(Lit(1)), If(Same(Z, X), Continue, Absent), Say(Z)>>),
               Block(<<Say(X), Break(Absent)>>), Block(<<Count(Lit(2)), Return(Z)>>)}}
     \union {<<Var(2, X), Add(Loop(Block(<<Count(Lit(1)), If(c, Break(v), Absent)>>)), w)>> :
               c \in {Less(Lit(2), Z), Negate(Less(Z, Y))}, v \in {Z, Neg(Z), Lit(5), Add(Z, X)}, w \in {Lit(0), Z}}
     \union {<<Var(2, Lit(0)), Loop(Block(<<Count(Lit(1)), If(Less(Z, Lit(3)), Continue, a), Break(v)>>))>> :
               a \in {Absent, Say(Z), Return(Y)}, v \in {Z, X}}
     \union {<<Var(2, Lit(0)), While(True, Block(<<Count(Lit(1)), If(Less(Lit(2), Z), b, Absent)>>)), Return(Z)>> :
               b \in {Break(Absent), Return(X)}}
     \union {<<Var(2, Lit(0)),
               While(Less(Z, Lit(2)), Block(<<Var(3, Loop(Break(Add(Z, Y)))), Say(W), Count(Lit(1)),
                                              While(True, Break(Absent))>>)), Return(X)>>})

(* Calls: f and g take both values, in and out of tail position.           *)
Call(a, b) == CallFn(1, <<a, b>>)
Other(a, b) == CallFn(2, <<a, b>>)

Calls2(bodies, other) == {Prints(in, <<Fn(2, Block(b)), other>>) : in \in Inputs, b \in bodies}

Down == Sub(X, Lit(1))

CallPrograms ==
  Calls2({<<If(Less(X, Lit(1)), Y, r)>> :
            r \in {Call(Down, Add(Y, Lit(1))), Call(Down, Add(X, Y)), Add(X, Call(Down, Y)), Add(Call(Down, X), X),
                   Other(Y, X), Other(Down, Add(X, Y)),
                   Add(Other(X, Y), Other(Y, Down)), Other(Other(X, Y), Other(Y, X)), Block(<<Var(2, Other(X, Y)), Sub(Z, X)>>),
                   Block(<<Discard(Other(X, Y)), Say(Other(Y, X)), Other(X, X)>>)}},
         Fn(2, Block(<<Sub(X, Y)>>)))
  \union Calls2({<<Call(X, Y)>>, <<Add(Lit(1), Call(Y, X))>>, <<If(Less(X, Lit(1)), Y, Other(Down, X))>>,
                 <<If(Less(X, Y), Add(Other(X, Lit(1)), Lit(1)), Lit(3))>>},
                Fn(2, Block(<<If(Same(Y, Lit(0)), Neg(X), Call(Sub(X, Lit(2)), Neg(Y)))>>)))

(* Functions of none and of one parameter, with and without a result.      *)
One(e) == CallFn(1, <<e>>)

FewArguments ==
  {[inits |-> <<GlobalVar(0, Lit(3))>>, main |-> <<Say(One(Lit(2))), Discard(One(Lit(5))), Say(Global(0))>>,
    fns |-> <<Fn(1, Block(b)), g, h>>] :
     b \in {<<If(Less(X, Lit(1)), X, One(Down))>>, <<CallFn(3, <<>>), Add(X, Lit(1))>>, <<CallFn(2, <<X>>)>>, <<CallFn(2, <<Add(X, X)>>)>>,
            <<If(Less(X, Lit(1)), CallFn(2, <<X>>), Add(X, One(Down)))>>, <<Add(CallFn(2, <<X>>), CallFn(2, <<Down>>))>>},
     g \in {Fn(1, Block(<<CallFn(3, <<>>), Global(0)>>)), Fn(1, Block(<<Bin("MUL", X, X)>>))},
     h \in {Proc(0, Block(<<GlobalAssign("ADD", 0, Lit(1)), If(Less(Global(0), Lit(5)), CallFn(3, <<>>), Absent)>>)),
            Proc(0, Block(<<Say(Global(0))>>)),
            Proc(0, Block(<<GlobalAssign("EQ", 0, Neg(Global(0))), Return(Absent)>>))}}

(* The arguments of a tail call move down onto registers that others of    *)
(* them are read from.                                                     *)
Descents ==
  {[inits |-> <<GlobalVar(0, Lit(3))>>, main |-> <<Say(One(Lit(2))), Say(One(Lit(5)))>>,
    fns |-> <<Fn(1, Block(<<CallFn(2, args)>>)), Fn(Len(args), Block(<<body>>))>>] :
     args \in {<<Add(X, Lit(1)), Neg(X)>>, <<Lit(6), X>>, <<Neg(X), Lit(1), X>>, <<Lit(2), Add(X, X), Neg(X)>>},
     body \in {Sub(X, Y), Sub(Y, Bin("MUL", X, Lit(3)))}}
  \union {[inits |-> <<GlobalVar(0, Lit(3))>>, main |-> <<Say(One(Lit(2)))>>,
           fns |-> <<Fn(1, Block(<<CallFn(2, <<Add(X, Lit(1)), Neg(X), X>>)>>)), Fn(3, Block(<<Sub(Sub(X, Y), Z)>>))>>]}

(* Globals: a stored value is read back from its register until a call or  *)
(* a branch may have changed it.                                           *)
G == Global(0)
H == Global(1)
Store(e) == GlobalAssign("EQ", 0, e)

WithGlobals(f, g) ==
  [inits |-> <<GlobalVar(0, Lit(5)), GlobalVar(1, Bin("SUB", G, Lit(1)))>>,
   main  |-> <<Say(CallFn(1, <<H, Lit(2)>>)), Say(G), Store(H), Say(Add(G, Lit(1)))>>,
   fns   |-> <<Fn(2, Block(f)), Proc(1, Block(g))>>]

Bump == CallFn(2, <<X>>)

GlobalPrograms ==
  {WithGlobals(f, g) :
     f \in {<<Store(a), r>> : a \in {X, Add(X, Y), Add(G, Y), Lit(6), Neg(H)}, r \in {Sub(Y, G), Add(Y, H), G}}
           \union {<<Store(a), c, Add(Y, G)>> : a \in {X, Neg(X)}, c \in {Bump, If(Less(X, Y), Store(Y), Absent), GlobalAssign("MUL", 0, X),
                                              GlobalAssign("ADD", 0, Lit(1)), If(Less(Y, X), Block(<<Bump>>), Store(Lit(0)))}}
           \union {<<Var(2, Store(a)), Assign("ADD", 2, Y), Add(Z, H)>> : a \in {X, Neg(Y)}}
           \union {<<While(Less(G, Lit(7)), GlobalAssign("ADD", 0, Lit(1))), Bin("XOR", G, X)>>,
                   <<Add(Add(G, Lit(1)), Neg(Add(H, X)))>>, <<Bump, If(Same(G, X), G, H)>>},
     g \in {<<Store(X)>>, <<GlobalAssign("SUB", 1, X), Return(Absent)>>, <<If(Less(X, G), Store(Add(H, X)), Absent)>>}}

(* Syscalls with and without a result and conversions between the types.   *)
IntTypes == {"i64", "u64", "i32", "u32"}

SyscallPrograms ==
  Of({<<Var(2, CallSys(id, args)), Say(Y), Return(Z)>> :
        id \in {"print", "math", "seed", "read", "clock", "random"}, args \in {<<X>>, <<Add(X, Y), Y>>}}
     \union {<<CallSys(id, args), Add(X, Y)>> : id \in {"print", "exit", "panic", "read"}, args \in {<<>>, <<Y>>}}
     \union {<<CallSys("seed", <<Y>>), Add(X, Y)>>}
     \union {<<Add(X, CallSys("math", <<CallSys("math", <<e>>)>>))>> : e \in {Y, Lit(5), Add(X, Y)}})

Conversions ==
  Of({<<Add(Cast(u, WordBits, to, e), Lit(0))>> : u \in BOOLEAN, to \in {"i64", "u64", "u32"}, e \in {X, Add(X, Y), Lit(5)}}
     \union {<<Add(Cast(from = "u32", HalfBits, to, Cast(FALSE, WordBits, from, Bin("AND", X, Lit(3)))), Y)>> :
               from \in {"u32", "i32"}, to \in IntTypes})

Families == Operations \union Branches \union Loops \union CallPrograms \union FewArguments \union Descents
            \union GlobalPrograms \union SyscallPrograms \union Conversions

Reloaded == {WithGlobals(<<CallSys("seed", <<X>>), Bump, Say(CallSys("math", <<G>>)), Add(X, Y)>>, <<GlobalAssign("SUB", 1, X)>>)}
-----------------------------------------------------------------------------
(* f(x, y) = -g(x, y): the call is no tail call, its result is negated.    *)
NegatedCalls == {Prints(in, <<Fn(2, Block(<<Neg(Other(X, Y))>>)), Fn(2, Block(<<Sub(X, Y)>>))>>) : in \in Inputs}
-----------------------------------------------------------------------------
(* The values of the constants, each computed once.  TLC does not follow a *)
(* LET when it counts coverage: these keep the generator, whose operators  *)
(* unfold beyond its memory, out of the counts for Init and Next.          *)
ReloadedCompiled == Compilations(Reloaded)
FamiliesCompiled == Compilations(Families \union Reloaded)
NegatedCompiled == Compilations(NegatedCalls)

MCChunks == LET cs == FamiliesCompiled IN cs
MCReloads == LET cs == ReloadedCompiled IN cs
MCNegated == LET cs == NegatedCompiled IN cs
=============================================================================
