------------------------- MODULE ExtensionMatching -------------------------
(***************************************************************************)
(* Extension matching of the semantic analysis, mod matching of           *)
(* src/dora/src/language/sem_analysis/extensions.rs: does the type of an   *)
(* extension, over its own type parameters, describe a given type (the     *)
(* check type), and with which bindings for those parameters?  One         *)
(* behaviour is one call of extension_matches_ty.                          *)
(*                                                                         *)
(* A SourceType is a record: its kind, an id (the primitive, the type      *)
(* parameter's index, or the class, struct or enum) and its type           *)
(* arguments.  A type parameter is the same SourceType::TypeParam(i)       *)
(* whether it belongs to the check type's context or to the extension.     *)
(***************************************************************************)
EXTENDS Integers, Sequences, FiniteSets

CONSTANTS
    AdtKinds,     \* kinds compared through compare_type_params
    CheckTypes,   \* the check types the calls are made with
    Extensions,   \* extensions: [ty |-> extension.ty, n |-> type_params.len()]
    CheckBounds,  \* CheckBounds[i]: trait bounds of check type parameter i
    ExtBounds,    \* ExtBounds[i]: trait bounds of extension type parameter i
    Impl          \* Impl[<<kind, id>>]: traits implements_trait finds for a type

VARIABLES
    checkTy,      \* check_ty of the call
    ext,          \* the extension whose type is matched
    result        \* what extension_matches_ty returned, or NotCalled

vars == <<checkTy, ext, result>>

\* No binding yet for an extension type parameter (None in `bindings`).
Unbound == [k |-> "unbound", id |-> 0, args |-> <<>>]
NotCalled == [st |-> "none", b |-> <<>>]
Ok(b) == [st |-> "ok", b |-> b]
Fail(b) == [st |-> "fail", b |-> b]
\* A Rust panic: an index out of bounds or the unwrap of a None.
Panic(b) == [st |-> "panic", b |-> b]

IsTypeParam(t) == t.k = "tp"

\* implements_trait (ty.rs, outside the repository) for a concrete type: the
\* traits implemented for its class, struct, enum, tuple or primitive.
ImplementsTrait(t, tr) == tr \in Impl[<<t.k, t.id>>]

\* compare_type_param_bounds: every bound of the extension's parameter is
\* a bound of the check type's parameter.
CompareTypeParamBounds(check, e) == ExtBounds[e.id] \subseteq CheckBounds[check.id]

\* Mutant: the trait bounds of the extension's parameter are not checked
\* for a concrete type.
FulfillsBoundsUnchecked(check, e) == TRUE

\* concrete_type_fulfills_bounds: the concrete type implements every bound
\* of the extension's parameter.
ConcreteTypeFulfillsBounds(check, e) ==
    \A tr \in ExtBounds[e.id] : ImplementsTrait(check, tr)

RECURSIVE Matches(_, _, _), CompareConcreteTypes(_, _, _), CompareTypeParams(_, _, _)

\* matches: an extension type parameter compares its binding with the check
\* type, or, unbound, checks the bounds and binds the check type (also when
\* the bounds fail); any other extension type needs a concrete check type.
Matches(check, e, b) ==
    IF IsTypeParam(e)
    THEN IF e.id \notin DOMAIN b THEN Panic(b)
         ELSE IF b[e.id] # Unbound THEN CompareConcreteTypes(check, b[e.id], b)
         ELSE LET ok == IF IsTypeParam(check) THEN CompareTypeParamBounds(check, e)
                        ELSE ConcreteTypeFulfillsBounds(check, e)
                  b2 == [b EXCEPT ![e.id] = check]
              IN  IF ok THEN Ok(b2) ELSE Fail(b2)
    ELSE IF IsTypeParam(check) THEN Fail(b)
    ELSE CompareConcreteTypes(check, e, b)

\* compare_concrete_types, by the kind of the check type: primitives and
\* type parameters compare equal; tuples need a tuple of the same length
\* and classes, structs and enums the same one, then their subtypes match
\* pairwise.
CompareConcreteTypes(check, e, b) ==
    CASE check.k \in {"prim", "tp"} -> IF check = e THEN Ok(b) ELSE Fail(b)
      [] check.k = "tuple" ->
            IF e.k # "tuple" \/ Len(check.args) # Len(e.args) THEN Fail(b)
            ELSE CompareTypeParams(check.args, e.args, b)
      [] check.k \in AdtKinds ->
            IF e.k # check.k \/ e.id # check.id THEN Fail(b)
            ELSE CompareTypeParams(check.args, e.args, b)

\* compare_type_params, and the tuple loop of compare_concrete_types: match
\* the subtypes pairwise, threading the bindings, up to the first failure.
CompareTypeParams(cs, es, b) ==
    IF cs = <<>> THEN Ok(b)
    ELSE LET r == Matches(Head(cs), Head(es), b)
         IN  IF r.st # "ok" THEN r ELSE CompareTypeParams(Tail(cs), Tail(es), r.b)

\* extension_matches_ty: start with every parameter unbound; on success
\* every binding is unwrapped.
ExtensionMatchesTy(check, x) ==
    LET r == Matches(check, x.ty, [i \in 0 .. x.n - 1 |-> Unbound])
    IN  IF r.st # "ok" THEN r
        ELSE IF \E i \in DOMAIN r.b : r.b[i] = Unbound THEN Panic(r.b)
        ELSE r

Init ==
    /\ checkTy \in CheckTypes
    /\ ext \in Extensions
    /\ result = NotCalled

\* One call of extension_matches (through find_methods_in_class, _struct
\* or _enum) for the check type and the extension.
Call ==
    /\ result = NotCalled
    /\ result' = ExtensionMatchesTy(checkTy, ext)
    /\ UNCHANGED <<checkTy, ext>>

Next == Call

Spec == Init /\ [][Next]_vars

(***************************************************************************)
(* The reference: the extension describes the check type when some        *)
(* substitution of its parameters turns its type into the check type and  *)
(* gives each parameter a type that meets its bounds.                     *)
(***************************************************************************)
RECURSIVE Subst(_, _)
Subst(t, s) ==
    IF IsTypeParam(t) THEN s[t.id]
    ELSE [t EXCEPT !.args = [i \in DOMAIN t.args |-> Subst(t.args[i], s)]]

RECURSIVE Subterms(_)
Subterms(t) == {t} \cup UNION {Subterms(t.args[i]) : i \in DOMAIN t.args}

BoundsHold(s) ==
    \A i \in DOMAIN s :
        IF IsTypeParam(s[i]) THEN ExtBounds[i] \subseteq CheckBounds[s[i].id]
        ELSE \A tr \in ExtBounds[i] : ImplementsTrait(s[i], tr)

Instances(check, x) ==
    {s \in [0 .. x.n - 1 -> Subterms(check)] : Subst(x.ty, s) = check /\ BoundsHold(s)}

RECURSIVE ParamsOf(_), Occurrences(_, _)
ParamsOf(t) == IF IsTypeParam(t) THEN {t.id}
               ELSE UNION {ParamsOf(t.args[i]) : i \in DOMAIN t.args}
Occurrences(t, i) ==
    IF IsTypeParam(t) THEN IF t.id = i THEN 1 ELSE 0
    ELSE LET RECURSIVE SumFrom(_)
             SumFrom(j) == IF j > Len(t.args) THEN 0
                           ELSE Occurrences(t.args[j], i) + SumFrom(j + 1)
         IN  SumFrom(1)

\* A bound parameter is compared again (extensions.rs:177) only where the
\* extension type repeats it; the binding is read as an extension type,
\* which is harmless when it holds no type parameter.
NoReboundParam(check, x) ==
    \/ ParamsOf(check) = {}
    \/ \A i \in 0 .. x.n - 1 : Occurrences(x.ty, i) <= 1

\* extension_matches is exact: when a substitution of the extension's
\* parameters yields the check type and meets every bound (checked through
\* concrete_type_fulfills_bounds and compare_type_param_bounds, threaded
\* through compare_type_params), it returns such bindings, and otherwise
\* it fails without panicking; so find_methods_in_class, _struct and _enum
\* find an extension's methods for exactly the types it covers.
MatchExact ==
    result # NotCalled =>
        IF Instances(checkTy, ext) = {} THEN result.st = "fail"
        ELSE result.st = "ok" /\ result.b \in Instances(checkTy, ext)

\* MatchExact wherever no binding holding a type parameter of the check
\* context is compared again at extensions.rs:177.
MatchExactWithoutRebinding ==
    NoReboundParam(checkTy, ext) => MatchExact
=============================================================================
