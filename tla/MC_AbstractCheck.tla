-------------------------- MODULE MC_AbstractCheck --------------------------
(***************************************************************************)
(* Every program of four classes with a method named f: any acyclic      *)
(* superclass relation, any choice of abstract classes, and in each class *)
(* f undeclared, declared, or (in an abstract class) declared abstract.   *)
(* Four classes give chains in which a concrete class sits between two    *)
(* abstract ones, where find_abstract_methods stops early.                *)
(* mtd.overrides, set by the class definition check outside the           *)
(* repository, is the nearest declaration of the name up the chain.       *)
(***************************************************************************)
EXTENDS AbstractCheck

MC_N == 4
MC_Names == {"f"}

\* The class reached from c by following j superclass links.
RECURSIVE Up(_, _, _)
Up(par, x, j) == IF j = 0 \/ x = NoClass THEN x ELSE Up(par, par[x], j - 1)

\* Superclass functions without cycles: following N links from any class
\* ends at no class.
Acyclic(par) == \A c \in 1 .. MC_N : Up(par, c, MC_N) = NoClass

RECURSIVE Nearest(_, _, _, _)
Nearest(par, decl, a, n) ==
    IF a = NoClass THEN NoFct
    ELSE IF decl[a][n] # "none" THEN <<a, n>>
    ELSE Nearest(par, decl, par[a], n)

\* A class: abstract or not, and for each name no declaration, a method,
\* or (in an abstract class only) an abstract method.
Kinds == {[abs |-> FALSE, decl |-> d] : d \in [MC_Names -> {"none", "concrete"}]}
         \cup {[abs |-> TRUE, decl |-> d] : d \in [MC_Names -> {"none", "concrete", "abstract"}]}

Program(par, k) ==
    LET decl == [c \in 1 .. MC_N |-> k[c].decl]
    IN  [parent    |-> par,
         abstract  |-> [c \in 1 .. MC_N |-> k[c].abs],
         methods   |-> [c \in 1 .. MC_N |-> {<<c, n>> : n \in {x \in MC_Names : decl[c][x] # "none"}}],
         fabstract |-> [f \in (1 .. MC_N) \X MC_Names |-> decl[f[1]][f[2]] = "abstract"],
         overrides |-> [f \in (1 .. MC_N) \X MC_Names |-> Nearest(par, decl, par[f[1]], f[2])]]

MC_Programs ==
    {Program(par, k) : par \in {q \in [1 .. MC_N -> 0 .. MC_N] : Acyclic(q)},
                       k \in [1 .. MC_N -> Kinds]}
=============================================================================
