---------------------------- MODULE DoraGrammar ----------------------------
(***************************************************************************)
(* A reference definition of the language the parser of DoraParser is     *)
(* meant to accept, written as a context-free grammar over the same        *)
(* tokens, with a top-down recogniser that tracks every leftmost derivation. *)
(* It is the declarative counterpart of the procedural parser: lists,     *)
(* trailing separators, statement termination and the statement-like      *)
(* expressions ({...}, if, match) are stated as productions.              *)
(*                                                                         *)
(* A grammar maps each nonterminal to a set of right-hand sides. Every    *)
(* string that is not a nonterminal is a terminal (a token). The grammar  *)
(* has no left recursion, so expanding the first symbol of a form        *)
(* terminates.                                                            *)
(***************************************************************************)
EXTENDS Integers, Sequences, FiniteSets, TLC

UnaryOps  == {"+", "-", "!"}
InfixOps  == {"=", "||", "&&", "==", "!=", "<", "<=", ">", ">=", "===", "!==",
              "+", "-", "|", "^", "*", "/", "%", "&", "<<", ">>", ">>>"}
Literals  == {"int", "char", "float", "true", "false", "self", "super", "Ident"}

\* The annotation names of the language, in a fixed order. Like every other
\* name they are identifiers.
AnnotationOrder == <<"abstract", "open", "override", "final", "internal", "pub",
                     "static", "Test", "optimizeImmediately">>
AnnotationNames == {AnnotationOrder[i] : i \in 1..Len(AnnotationOrder)}

\* The terminal "Ident" of the grammar is matched by any identifier token.
IdentTokens == {"id"} \cup AnnotationNames

\* item {sep item} [sep] stop, as parse_list accepts it; rest is the
\* nonterminal for what follows an item.
ListOf(item, stop, rest) == {<<stop>>, <<item, rest>>}
ListRest(sep, stop, list) == {<<stop>>, <<sep, list>>}

\* Factors that are not a block or an if: an expression statement that
\* starts with "{" or "if" is that block or if alone (parse_expression).
PlainFactors ==
    {<<"(", "Paren">>, <<"String">>, <<"Lambda">>} \cup {<<l>> : l \in Literals}

\* The statements that start with a keyword other than let and var.
ControlStmts ==
    {<<"while", "Expr", "Block">>, <<"break", ";">>, <<"continue", ";">>,
     <<"return", "Return">>, <<"for", "LetPat", "in", "Expr", "Block">>}

\* The grammar is left-factored, so that few derivations are open at once.
ExprGrammar ==
  [ Expr      |-> {<<"NoSemi">>, <<"UnaryS", "BinTail">>},
    NoSemi    |-> {<<"Block">>, <<"If">>, <<"Match">>},
    BinTail   |-> {<<>>}
                  \cup {<<op, "Unary", "BinTail">> : op \in InfixOps}
                  \cup {<<k, "Type", "BinTail">> : k \in {"is", "as"}},
    Unary     |-> {<<u, "Primary">> : u \in UnaryOps} \cup {<<"Primary">>},
    UnaryS    |-> {<<u, "Primary">> : u \in UnaryOps} \cup {<<"FactorS", "PTail">>},
    Primary   |-> {<<"Factor", "PTail">>},
    PTail     |-> {<<>>, <<".", "Factor", "PTail">>, <<"::", "Factor", "PTail">>,
                   <<"(", "Args", "PTail">>, <<"[", "TypesB", "PTail">>},
    Factor    |-> PlainFactors \cup {<<"Block">>, <<"If">>},
    FactorS   |-> PlainFactors,
    Paren     |-> {<<")">>, <<"Expr", "ParenRest">>},
    ParenRest |-> {<<")">>, <<",", "Args">>},
    Args      |-> ListOf("Expr", ")", "ArgsRest"),
    ArgsRest  |-> ListRest(",", ")", "Args"),
    String    |-> {<<"strTail">>, <<"strExpr", "Template">>},
    Template  |-> {<<"Expr", "}", "Piece">>},
    Piece     |-> {<<"strTail">>, <<"strExpr", "Template">>},
    Lambda    |-> {<<"||", "RetType", "Block">>, <<"|", "Params", "RetType", "Block">>},
    Params    |-> ListOf("Param", "|", "ParamsRest"),
    ParamsRest |-> ListRest(",", "|", "Params"),
    Param     |-> {<<"Ident", ":", "Type", "Variadic">>},
    Variadic  |-> {<<>>, <<"...">>},
    RetType   |-> {<<>>, <<":", "Type">>},
    Type      |-> {<<"Self">>, <<"Path", "TypeArgs">>, <<"(", "TypesP", "RetType">>},
    TypeArgs  |-> {<<>>, <<"[", "TypesB">>},
    TypesB    |-> ListOf("Type", "]", "TypesBRest"),
    TypesBRest |-> ListRest(",", "]", "TypesB"),
    TypesP    |-> ListOf("Type", ")", "TypesPRest"),
    TypesPRest |-> ListRest(",", ")", "TypesP"),
    Path      |-> {<<"Ident", "PathRest">>},
    PathRest  |-> {<<>>, <<"::", "Path">>},
    Block     |-> {<<"{", "Body">>},
    Body      |-> {<<"}">>, <<"KwStmt", "Body">>, <<"NoSemi", "AfterNoSemi">>,
                   <<"UnaryS", "BinTail", "AfterExpr">>},
    AfterNoSemi |-> {<<";", "Body">>, <<"Body">>},
    AfterExpr |-> {<<";", "Body">>, <<"}">>},
    Stmt      |-> {<<"KwStmt">>, <<"NoSemi", "OptSemi">>, <<"UnaryS", "BinTail", ";">>},
    OptSemi   |-> {<<>>, <<";">>},
    KwStmt    |-> {<<"let", "Let">>, <<"var", "Let">>} \cup ControlStmts,
    Return    |-> {<<";">>, <<"Expr", ";">>},
    Let       |-> {<<"LetPat", "LetRest">>},
    LetRest   |-> {<<";">>, <<":", "Type", "LetInit">>, <<"=", "Expr", ";">>},
    LetInit   |-> {<<";">>, <<"=", "Expr", ";">>},
    LetPat    |-> {<<"(", "LetPats">>, <<"_">>, <<"Ident">>, <<"mut", "Ident">>},
    LetPats   |-> ListOf("LetPat", ")", "LetPatsRest"),
    LetPatsRest |-> ListRest(",", ")", "LetPats"),
    If        |-> {<<"if", "Expr", "Block", "Else">>},
    Else      |-> {<<>>, <<"else", "ElseBody">>},
    ElseBody  |-> {<<"If">>, <<"Block">>},
    Match     |-> {<<"match", "Expr", "{", "Cases">>},
    Cases     |-> ListOf("Case", "}", "CasesRest"),
    CasesRest |-> ListRest(",", "}", "Cases"),
    Case      |-> {<<"Pats", "=>", "Expr">>},
    Pats      |-> {<<"Pat", "MorePats">>},
    MorePats  |-> {<<>>, <<"|", "Pats">>},
    Pat       |-> {<<"_">>, <<"Path", "PatArgs">>},
    PatArgs   |-> {<<>>, <<"(", "PatParams">>},
    PatParams |-> ListOf("PatParam", ")", "PatParamsRest"),
    PatParamsRest |-> ListRest(",", ")", "PatParams"),
    PatParam  |-> {<<"_">>, <<"Ident">>, <<"mut", "Ident">>} ]

(***************************************************************************)
(* Items. A run of annotations is a nonterminal that remembers the names  *)
(* it has seen, so that no name occurs twice and the item that follows     *)
(* admits every name of the run. The nonterminal of context ctx after the *)
(* names used is the string Mods(ctx, used).                               *)
(***************************************************************************)
RECURSIVE Join(_)
Join(s) == IF s = <<>> THEN "" ELSE "+" \o Head(s) \o Join(Tail(s))

Mods(ctx, used) == ctx \o Join(SelectSeq(AnnotationOrder, LAMBDA n : n \in used))

\* The annotations each kind of top-level item admits; an annotation
\* declaration admits all of them, an impl none.
ItemAnnotations ==
    [Function |-> {"internal", "optimizeImmediately", "Test", "pub"},
     Class |-> {"abstract", "open", "internal", "pub"}, Class2 |-> {"internal", "pub"},
     Struct |-> {"pub", "internal"}, Trait |-> {"pub"}, Impl |-> {},
     Annotation |-> AnnotationNames, Alias |-> {"pub"}, Field |-> {"pub"},
     Const |-> {"pub"}, Enum |-> {"pub"}, Module |-> {"pub"}, Use |-> {"pub"}]

\* The annotations a method of a class admits.
MethodAnnotations == {"abstract", "internal", "open", "override", "final", "pub", "static"}

\* The names a run of annotations may use in each context: top-level items,
\* class members (whose initializer statements take any), impl and trait
\* methods, fields of structs and class2.
ModContexts ==
    [Top |-> AnnotationNames, Member |-> AnnotationNames,
     ImplM |-> {"static", "internal", "pub"}, TraitM |-> {"static"}, SField |-> {"pub"}]

\* What may follow a run of the annotations used in context ctx.
AfterMods(ctx, used) ==
    CASE ctx = "Top"    -> {<<k>> : k \in {k \in DOMAIN ItemAnnotations :
                                              used \subseteq ItemAnnotations[k]}}
      [] ctx = "Member" -> (IF used \subseteq MethodAnnotations THEN {<<"Function">>} ELSE {})
                           \cup (IF used \subseteq {"pub"} THEN {<<"Field">>} ELSE {})
                           \cup {<<"MemberStmt">>}
      [] ctx = "SField" -> {<<"Ident", ":", "Type">>}
      [] OTHER          -> {<<"Function">>}

ModRules(ctx, used) ==
    {<<"@", n, Mods(ctx, used \cup {n})>> : n \in ModContexts[ctx] \ used}
    \cup AfterMods(ctx, used)

ModPairs ==
    UNION {{<<Mods(c, u), ModRules(c, u)>> : u \in SUBSET ModContexts[c]} :
           c \in DOMAIN ModContexts}

ModsGrammar == [k \in {pr[1] : pr \in ModPairs} |-> (CHOOSE pr \in ModPairs : pr[1] = k)[2]]

ItemGrammar ==
  [ File      |-> {<<>>, <<"Top", "File">>},
    Function  |-> {<<"fn", "Ident", "TypeParams", "(", "FParams", "RetType", "FnBody">>},
    FParams   |-> ListOf("Param", ")", "FParamsRest"),
    FParamsRest |-> ListRest(",", ")", "FParams"),
    FnBody    |-> {<<";">>, <<"=", "FnExpr">>, <<"Block">>},
    FnExpr    |-> {<<"return", "Return">>, <<"Expr", ";">>},
    TypeParams |-> {<<>>, <<"[", "TParams">>},
    TParams   |-> ListOf("TParam", "]", "TParamsRest"),
    TParamsRest |-> ListRest(",", "]", "TParams"),
    TParam    |-> {<<"Ident", "Bounds">>},
    Bounds    |-> {<<>>, <<":", "Type", "MoreBounds">>},
    MoreBounds |-> {<<>>, <<"+", "Type", "MoreBounds">>},
    Class     |-> {<<"class", "Ident", "TypeParams", "Ctor", "Parent", "ClassBody">>},
    Ctor      |-> {<<>>, <<"(", "CParams">>},
    CParams   |-> ListOf("CParam", ")", "CParamsRest"),
    CParamsRest |-> ListRest(",", ")", "CParams"),
    CParam    |-> {<<"Param">>, <<"var", "Param">>, <<"let", "Param">>},
    Parent    |-> {<<>>, <<":", "Type", "ParentArgs">>},
    ParentArgs |-> {<<>>, <<"(", "Args">>},
    ClassBody |-> {<<>>, <<"{", "Members">>},
    Members   |-> {<<"}">>, <<"Member", "Members">>},
    MemberStmt |-> ControlStmts \cup {<<"NoSemi", "OptSemi">>, <<"UnaryS", "BinTail", ";">>},
    Field     |-> {<<"var", "FieldRest">>, <<"let", "FieldRest">>},
    FieldRest |-> {<<"Ident", ":", "Type", "LetInit">>},
    Class2    |-> {<<"class2", "Ident", "TypeParams", "SFields">>},
    Struct    |-> {<<"struct", "Ident", "TypeParams", "SFields">>},
    SFields   |-> {<<>>, <<"(", "SFieldsP">>, <<"{", "SFieldsB">>},
    SFieldsP  |-> ListOf("SField", ")", "SFieldsPRest"),
    SFieldsPRest |-> ListRest(",", ")", "SFieldsP"),
    SFieldsB  |-> ListOf("SField", "}", "SFieldsBRest"),
    SFieldsBRest |-> ListRest(",", "}", "SFieldsB"),
    Trait     |-> {<<"trait", "Ident", "TypeParams", "{", "TraitMethods">>},
    TraitMethods |-> {<<"}">>, <<"TraitM", "TraitMethods">>},
    Impl      |-> {<<"impl", "TypeParams", "Type", "ImplFor", "{", "ImplMethods">>},
    ImplFor   |-> {<<>>, <<"for", "Type">>},
    ImplMethods |-> {<<"}">>, <<"ImplM", "ImplMethods">>},
    Annotation |-> {<<"annotation", "Ident", "TypeParams", "AnnotParams">>},
    AnnotParams |-> {<<>>, <<"(", "AParams">>},
    AParams   |-> ListOf("AParam", ")", "AParamsRest"),
    AParamsRest |-> ListRest(",", ")", "AParams"),
    AParam    |-> {<<"Ident", ":", "Type">>},
    Alias     |-> {<<"alias", "Ident", "=", "Type", ";">>},
    Const     |-> {<<"const", "Ident", ":", "Type", "=", "Expr", ";">>},
    Enum      |-> {<<"enum", "Ident", "TypeParams", "{", "Variants">>},
    Variants  |-> ListOf("Variant", "}", "VariantsRest"),
    VariantsRest |-> ListRest(",", "}", "Variants"),
    Variant   |-> {<<"Ident", "VariantTypes">>},
    VariantTypes |-> {<<>>, <<"(", "TypesP">>},
    Module    |-> {<<"mod", "Ident", "ModBody">>},
    ModBody   |-> {<<";">>, <<"{", "ModElems">>},
    ModElems  |-> {<<"}">>, <<"Top", "ModElems">>},
    Use       |-> {<<"use", "UseTree", ";">>},
    UseTree   |-> {<<"{", "UseGroup">>, <<"UseComp", "UseAfter">>},
    UseAfter  |-> {<<>>, <<"::", "UseTree">>, <<"as", "UseName">>},
    UseComp   |-> {<<"self">>, <<"package">>, <<"super">>, <<"Ident">>},
    UseName   |-> {<<"_">>, <<"Ident">>},
    UseGroup  |-> ListOf("UseTree", "}", "UseGroupRest"),
    UseGroupRest |-> ListRest(",", "}", "UseGroup") ]

Grammar == ExprGrammar @@ ItemGrammar @@ ModsGrammar

Nonterminals == DOMAIN Grammar

RECURSIVE Close(_)

\* The sentential forms a form can be rewritten to by expanding its first
\* symbol until that symbol is a token (or the form is empty): the
\* leftmost derivations that have not yet matched the next token.
Close(form) ==
    IF form = <<>> \/ Head(form) \notin Nonterminals THEN {form}
    ELSE UNION {Close(rhs \o Tail(form)) : rhs \in Grammar[Head(form)]}

\* The token t is the terminal x.
Matches(x, t) == x = t \/ (x = "Ident" /\ t \in IdentTokens)

\* The forms that remain after the next token t has been matched.
Shift(forms, t) ==
    UNION {Close(Tail(f)) : f \in {g \in forms : g # <<>> /\ Matches(Head(g), t)}}

\* The forms of the empty input.
StartForms(start) == Close(<<start>>)

\* Some sentence begins with the tokens consumed so far.
Viable(forms) == forms # {}

\* The tokens consumed so far are a sentence.
Complete(forms) == <<>> \in forms

====
