----------------------- MODULE MC_ExtensionMatching -----------------------
(***************************************************************************)
(* Small type universes for ExtensionMatching.  Int32 and Bool are the     *)
(* primitives, Box[T] a class with one type argument, Pair[T, U] one with  *)
(* two, Triple[T, U, V] one with three, Opt[T] a struct, (T, U) a tuple.   *)
(* The check context has the type parameters X (0, bound Eq) and Y (1,     *)
(* unbounded); an extension has T (0, bound Eq) and, if it uses one, U     *)
(* (1, unbounded).  Eq is implemented by Int32 and Box.                    *)
(***************************************************************************)
EXTENDS ExtensionMatching, TLC

CONSTANT Eq

MC_AdtKinds == {"class", "struct"}

Leaf(k, i) == [k |-> k, id |-> i, args |-> <<>>]
Int32 == Leaf("prim", 0)
Bool == Leaf("prim", 1)
TP(i) == Leaf("tp", i)
Box(t) == [k |-> "class", id |-> 0, args |-> <<t>>]
Pair(t, u) == [k |-> "class", id |-> 1, args |-> <<t, u>>]
Opt(t) == [k |-> "struct", id |-> 0, args |-> <<t>>]
Triple(t, u, v) == [k |-> "class", id |-> 2, args |-> <<t, u, v>>]
Tup(t, u) == [k |-> "tuple", id |-> 0, args |-> <<t, u>>]

\* Types of depth one over the leaves L, and of depth two with a boxed
\* leaf or a depth-one type inside.
Shallow(L) == L \cup {Box(t) : t \in L} \cup {Opt(t) : t \in L}
              \cup {Pair(t, u) : t, u \in L} \cup {Tup(t, u) : t, u \in L}
Deep(L) ==
    LET M == L \cup {Box(t) : t \in L}
    IN  Shallow(L) \cup {Box(t) : t \in Shallow(L)}
        \cup {Pair(t, u) : t, u \in M} \cup {Tup(t, u) : t, u \in M}
        \cup {Triple(t, u, v) : t, u \in M, v \in L}

\* find_methods_in_class and _struct (classes.rs:277, structs.rs:189) pass
\* a class or struct type.
MC_CheckTypes == {t \in Deep({Int32, Bool, TP(0), TP(1)}) : t.k \in MC_AdtKinds}

\* Extensions declare exactly the parameters their type uses: T, or T and U.
MC_Extensions ==
    {[ty |-> t, n |-> Cardinality(ParamsOf(t))] :
        t \in {u \in Deep({Int32, TP(0), TP(1)}) : ParamsOf(u) \in {{}, {0}, {0, 1}}}}

MC_CheckBounds == (0 :> {Eq}) @@ (1 :> {})
MC_ExtBounds == (0 :> {Eq}) @@ (1 :> {})
MC_Impl == [h \in {<<"prim", 0>>, <<"prim", 1>>, <<"class", 0>>, <<"class", 1>>, <<"class", 2>>,
                   <<"struct", 0>>, <<"tuple", 0>>} |->
               IF h \in {<<"prim", 0>>, <<"class", 0>>} THEN {Eq} ELSE {}]
=============================================================================
