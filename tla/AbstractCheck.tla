--------------------------- MODULE AbstractCheck ---------------------------
(***************************************************************************)
(* The abstract-override check of the semantic analysis,                  *)
(* src/dora/src/language/abstractck.rs: every class that is not abstract  *)
(* and whose superclass is abstract must override each abstract method it *)
(* inherits.  find_abstract_methods walks up the chain of abstract        *)
(* superclasses and caches its answer per class in abstract_methods.      *)
(*                                                                         *)
(* One behaviour is one call of check over one program: a class          *)
(* hierarchy with its methods.  Classes are 1..N in the order of          *)
(* sa.classes; a method is <<class, name>>; diagnostics are the pairs     *)
(* <<class reported at, abstract method>> of MissingAbstractOverride.     *)
(***************************************************************************)
EXTENDS Integers, FiniteSets, TLC

CONSTANTS
    N,          \* number of classes
    Names,      \* method names
    Programs    \* programs: [parent, abstract, methods, fabstract, overrides]

Classes == 1 .. N
Fcts == Classes \X Names
\* No parent class (parent_class = None) and no overridden method.
NoClass == 0
NoFct == <<0, "none">>

VARIABLES
    prog,      \* the program the check runs over
    i,         \* the class the loop over sa.classes is at
    memo,      \* abstract_methods: class -> its abstract methods
    diags      \* the MissingAbstractOverride diagnostics reported

vars == <<prog, i, memo, diags>>

\* The methods of class c that override a method (mtd.overrides).
OverriddenBy(p, c) == {p.overrides[m] : m \in p.methods[c]} \ {NoFct}

RECURSIVE FindAbstractMethods(_, _, _), FindShallow(_, _, _),
          FindUnfiltered(_, _, _)

\* Mutant: the abstract methods of the abstract superclasses are not
\* collected, only the class's own.
FindShallow(p, c, m) ==
    LET abstracts == {f \in p.methods[c] : p.fabstract[f]}
    IN  IF c \in DOMAIN m THEN [res |-> m[c], memo |-> m]
        ELSE [res |-> abstracts, memo |-> m @@ (c :> abstracts)]

\* Mutant: the superclass's abstract methods are taken whether or not the
\* class overrides them.
FindUnfiltered(p, c, m) ==
    LET sup == p.parent[c]
        rec == IF sup # NoClass /\ p.abstract[sup]
               THEN FindAbstractMethods(p, sup, m) ELSE [res |-> {}, memo |-> m]
        abstracts == {f \in p.methods[c] : p.fabstract[f]} \cup rec.res
    IN  IF c \in DOMAIN m THEN [res |-> m[c], memo |-> m]
        ELSE [res |-> abstracts, memo |-> rec.memo @@ (c :> abstracts)]

\* find_abstract_methods: the cached answer, or the class's own abstract
\* methods and those of its abstract superclass that it does not
\* override; the answer is cached.  Returns the methods and the cache.
FindAbstractMethods(p, c, m) ==
    LET sup == p.parent[c]
        rec == IF sup # NoClass /\ p.abstract[sup]
               THEN FindAbstractMethods(p, sup, m) ELSE [res |-> {}, memo |-> m]
        abstracts == {f \in p.methods[c] : p.fabstract[f]}
                     \cup (rec.res \ OverriddenBy(p, c))
    IN  IF c \in DOMAIN m THEN [res |-> m[c], memo |-> m]
        ELSE [res |-> abstracts, memo |-> rec.memo @@ (c :> abstracts)]

\* check_abstract: every abstract method of the superclass that the class
\* does not override is reported at the class.
CheckAbstract(p, c, m) ==
    LET f == FindAbstractMethods(p, p.parent[c], m)
    IN  [diags |-> {<<c, x>> : x \in f.res \ OverriddenBy(p, c)}, memo |-> f.memo]

\* Mutant: check_abstract is called for every class with a superclass,
\* abstract or not.
NeedsCheckAnyParent(p, c) == ~p.abstract[c] /\ p.parent[c] # NoClass

\* The loop of check: a class that is not abstract and whose superclass
\* is abstract is checked.
NeedsCheck(p, c) ==
    /\ ~p.abstract[c]
    /\ p.parent[c] # NoClass
    /\ p.abstract[p.parent[c]]

Init ==
    /\ prog \in Programs
    /\ i = 1
    /\ memo = [c \in {} |-> {}]
    /\ diags = {}

\* One iteration of the loop of check over sa.classes.
CheckClass ==
    /\ i <= N
    /\ IF NeedsCheck(prog, i)
       THEN LET r == CheckAbstract(prog, i, memo)
            IN  /\ diags' = diags \cup r.diags
                /\ memo' = r.memo
       ELSE UNCHANGED <<diags, memo>>
    /\ i' = i + 1
    /\ UNCHANGED prog

\* check has returned.
Checked == i > N /\ UNCHANGED vars

Next == CheckClass \/ Checked

Spec == Init /\ [][Next]_vars

(***************************************************************************)
(* The reference: dispatch.  The method a class inherits under a name is  *)
(* the declaration of the nearest class up its superclass chain; a class  *)
(* that is not abstract misses every abstract method it inherits without *)
(* declaring the name itself.                                              *)
(***************************************************************************)
RECURSIVE Resolve(_, _, _)
Resolve(p, a, n) ==
    IF a = NoClass THEN NoFct
    ELSE IF <<a, n>> \in p.methods[a] THEN <<a, n>>
    ELSE Resolve(p, p.parent[a], n)

Missing(p, c) ==
    {Resolve(p, p.parent[c], n) :
        n \in {x \in Names : <<c, x>> \notin p.methods[c]
                             /\ Resolve(p, p.parent[c], x) # NoFct
                             /\ p.fabstract[Resolve(p, p.parent[c], x)]}}

RECURSIVE Ancestors(_, _)
Ancestors(p, c) ==
    IF p.parent[c] = NoClass THEN {} ELSE {p.parent[c]} \cup Ancestors(p, p.parent[c])

TypeOK ==
    /\ i \in 1 .. N + 1
    /\ diags \subseteq Classes \X Fcts
    \* find_abstract_methods asserts cls.is_abstract: only abstract
    \* classes are ever cached.
    /\ \A a \in DOMAIN memo : a \in Classes /\ prog.abstract[a]
                              /\ memo[a] \subseteq Fcts

\* Every MissingAbstractOverride names an abstract method that the class
\* really inherits without an implementation: an override in any class
\* between it and the abstract declaration (found through mtd.overrides
\* and the cache shared by all classes) silences the report.
ReportsOnlyMissing ==
    \A d \in diags : ~prog.abstract[d[1]] /\ d[2] \in Missing(prog, d[1])

\* No instantiable class with an unimplemented abstract method goes
\* unreported: when check has returned, the method is reported at the
\* class or at one of its superclasses, even though check stops the walk
\* at the first superclass that is not abstract and skips classes whose
\* superclass is not abstract.
MissingReportedOnPath ==
    i > N =>
        \A c \in Classes : ~prog.abstract[c] =>
            \A x \in Missing(prog, c) :
                \E a \in {c} \cup Ancestors(prog, c) : <<a, x>> \in diags
=============================================================================
