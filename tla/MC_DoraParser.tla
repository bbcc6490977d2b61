---------------------------- MODULE MC_DoraParser ----------------------------
(***************************************************************************)
(* Checks the parser of DoraParser on every token sequence over a small   *)
(* alphabet up to a bound. Each state is one input; a step appends a       *)
(* token. The invariants compare the parser's answer on the input with    *)
(* the reference grammar of DoraGrammar.                                   *)
(***************************************************************************)
EXTENDS DoraParser, DoraGrammar, SequencesExt

CONSTANT Families  \* the input families: records [entry, alphabet, max]
                   \* of an entry point ("Expr" for parse_expression,
                   \* "Stmt" for parse_statement, "Case" for
                   \* parse_match_case, "File" for parse), the tokens
                   \* inputs are built from,
                   \* and the longest input

VARIABLES family,  \* the family of the input
          tokens,  \* the input
          result,  \* what the parser's entry point returns on it
          forms    \* the reference grammar's leftmost derivations still open

vars == <<family, tokens, result, forms>>

\* The entry point the tests call on a whole input, for each entry of a
\* family.
EntryPoint == [Expr |-> "ParseExpression", Stmt |-> "ParseStatement",
               Case |-> "ParseMatchCase", File |-> "FileLoop"]

Parse(e, ts) ==
    Invoke(EntryPoint[e], ts, 1, IF e = "File" THEN <<<<>>>> ELSE <<>>)

Init ==
    /\ family \in Families
    /\ tokens = <<>>
    /\ result = Parse(family.entry, <<>>)
    /\ forms = StartForms(family.entry)

\* Inputs are extended only while they are the beginning of a sentence, so
\* every state is such a beginning or one followed by a single dead token.
\* The code decides on one token of lookahead (self.token), so nothing after
\* the first dead token can change where it stops.
AppendToken ==
    /\ Len(tokens) < family.max
    /\ Viable(forms)
    /\ \E t \in family.alphabet :
          /\ tokens' = Append(tokens, t)
          /\ result' = Parse(family.entry, tokens')
          /\ forms' = Shift(forms, t)
          /\ UNCHANGED family

Spec == Init /\ [][AppendToken]_vars

\* The parse succeeds and consumes every token.
Accepts == result.ok /\ result.pos = Len(tokens) + 1

\* The first token at which the input stops being the beginning of a
\* sentence (Len + 1 if it never does): only the last token can be dead.
FirstDead == IF Viable(forms) THEN Len(tokens) + 1 ELSE Len(tokens)

\* The parser (its loops, lookahead decisions and early returns) accepts
\* exactly the sentences of the reference grammar: a trailing separator in
\* parse_list and in tuples, statements without semicolons after a block,
\* if or match, a prefix operator applied to a primary only.
AcceptsLanguage == Accepts <=> Complete(forms)

\* When the parser rejects an input, it reports the first token at which
\* the input stops being the beginning of any sentence: no parse function
\* gives up late (after consuming a token that cannot continue) or early
\* (at a token that could still continue a sentence).
ErrorAtFirstDeadToken ==
    ~Accepts => result.pos = FirstDead



(***************************************************************************)
(* The input families of the runs. Each alphabet holds the tokens of one  *)
(* group of productions and the tokens that can follow or end them; the   *)
(* bound is the longest input TLC enumerates in reasonable time.          *)
(***************************************************************************)
\* Operators, conversions, tuples, strings and literal overflow.
OpsFamily == [entry |-> "Expr", max |-> 6,
              alphabet |-> {"id", "+", "*", "-", "=", "(", ")", "as", ",", "bigint",
                            "strExpr", "strTail", "}"}]

\* Member access, calls, type arguments and paths.
PostfixFamily == [entry |-> "Expr", max |-> 7,
                  alphabet |-> {"id", ".", "(", ")", ",", "[", "]", "::"}]

\* Lambdas with parameters, variadics, return and function types.
LambdaFamily == [entry |-> "Expr", max |-> 8,
                 alphabet |-> {"|", "||", "id", ":", "{", "}", "(", ")", "Self",
                               "...", ","}]

ExpressionFamilies == {OpsFamily, PostfixFamily, LambdaFamily}

\* let/var, patterns, blocks, if/else and return.
StmtFamily == [entry |-> "Stmt", max |-> 8,
               alphabet |-> {"let", "var", "mut", "_", "id", "=", ";", "{", "}", "if",
                             "else", "return"}]

MatchAlphabet == {"match", "for", "in", "id", "{", "}", "=>", "|", ",", "_", "(",
                  ")", "mut"}

\* match with cases and alternatives, for loops.
StatementFamilies ==
    {StmtFamily} \cup {[entry |-> e, max |-> 8, alphabet |-> MatchAlphabet] :
                       e \in {"Stmt", "Case"}}

\* Functions, classes with constructors, parents, fields and methods.
ClassFamily == [entry |-> "File", max |-> 9,
                alphabet |-> {"fn", "class", "id", "(", ")", "{", "}", ";", ":", "let",
                              "var", "=", ",", "..."}]

\* Structs, class2, enums, modules, uses, impls and traits.
DeclFamily == [entry |-> "File", max |-> 9,
               alphabet |-> {"struct", "class2", "enum", "mod", "use", "impl", "trait",
                             "for", "id", "{", "}", "(", ")", ",", ";", "::", "as",
                             "_", "self"}]

\* Constants, aliases, annotation declarations, type parameters and
\* function bodies given by "=".
DeclarationFamily == [entry |-> "File", max |-> 8,
                      alphabet |-> {"const", "alias", "annotation", "fn", "id", "=", ":",
                                    ";", "[", "]", "+", "(", ")", ",", "return"}]

\* Expressions and statements are checked in one run.
ExpressionStatementFamilies == ExpressionFamilies \cup StatementFamilies

ItemFamilies == {ClassFamily, DeclFamily, DeclarationFamily}

\* Annotations before top-level items, class members, impl and trait
\* methods and struct fields.
AnnotationFamily == [entry |-> "File", max |-> 8,
                     alphabet |-> {"@", "pub", "static", "open", "id", "fn", "class",
                                   "struct", "impl", "trait", "{", "}", ";", "(",
                                   ")", "let", ":"}]

AnnotationFamilies == {AnnotationFamily}

\* Items and annotations are checked in one run.
ItemAnnotationFamilies == ItemFamilies \cup AnnotationFamilies

\* The same for files of items and annotations, except where the input is
\* rejected inside an annotation family: parse_annotation_usages reports
\* unknown and repeated annotations one token late (checked on its own).
ItemErrorAtFirstDeadToken ==
    family \notin AnnotationFamilies => ErrorAtFirstDeadToken


(***************************************************************************)
(* The shape of the trees parse_binary and parse_unary build.              *)
(***************************************************************************)
NoneOr(x) == IF x = <<>> THEN <<>> ELSE <<x>>

\* The expression children of a node of the parser's tree, in source order.
Children(n) ==
    CASE n[1] = "bin"                    -> <<n[3], n[4]>>
      [] n[1] \in {"dot", "path"}        -> <<n[2], n[3]>>
      [] n[1] \in {"un", "conv"}          -> <<n[3]>>
      [] n[1] \in {"paren", "typeparam", "exprstmt"} -> <<n[2]>>
      [] n[1] \in {"tuple", "template"}   -> n[2]
      [] n[1] = "call"                    -> <<n[2]>> \o n[3]
      [] n[1] = "lambda"                  -> <<n[4]>>
      [] n[1] = "block"                   -> n[2] \o NoneOr(n[3])
      [] n[1] = "if"                      -> <<n[2], n[3]>> \o NoneOr(n[4])
      [] n[1] = "let"                     -> NoneOr(n[5])
      [] n[1] = "return"                  -> NoneOr(n[2])
      [] OTHER                            -> <<>>

RECURSIVE Subtrees(_), OpTokens(_), OpTokensFrom(_, _)

\* Every expression node of the tree n.
Subtrees(n) == {n} \cup UNION {Subtrees(c) : c \in Range(Children(n))}

BinTokenOf(op) == CHOOSE t \in DOMAIN BinOpOf : BinOpOf[t] = op
UnTokenOf(op) == CHOOSE t \in DOMAIN UnOpOf : UnOpOf[t] = op

\* The precedence level of a node: that of its operator, 8 for a unary
\* expression or a primary.
Level(n) ==
    CASE n[1] = "bin"  -> RightPrecedence(BinTokenOf(n[2]))
      [] n[1] = "conv" -> 7
      [] OTHER         -> 8

\* The operator tokens of x, read from its tree in source order. The bars
\* that open a lambda ("||", or "|" params "|") are read as such tokens too.
OpTokens(n) ==
    CASE n[1] = "bin"  -> OpTokens(n[3]) \o <<BinTokenOf(n[2])>> \o OpTokens(n[4])
      [] n[1] = "conv" -> OpTokens(n[3]) \o <<IF n[2] THEN "is" ELSE "as">>
      [] n[1] = "un"   -> <<UnTokenOf(n[2])>> \o OpTokens(n[3])
      [] n[1] = "lambda" -> (IF n[5] = "||" THEN <<"||">> ELSE <<"|", "|">>)
                            \o OpTokens(n[4])
      [] OTHER         -> OpTokensFrom(Children(n), 1)

OpTokensFrom(ns, i) ==
    IF i > Len(ns) THEN <<>> ELSE OpTokens(ns[i]) \o OpTokensFrom(ns, i + 1)

IsOperatorToken(t) == t \in DOMAIN BinOpOf \cup DOMAIN UnOpOf \cup {"is", "as"}

\* The tree of a parsed expression groups its operators as their
\* precedences say: a binary operator's left operand binds at least as
\* tightly and its right operand strictly tighter (all levels, "=" included,
\* are left-associative in parse_binary), a conversion's operand binds at
\* least as tightly, and a prefix operator applies to a primary. Read in
\* order, the tree's operators are those of the input.  It is stated for
\* inputs parsed from parse_expression.
PrecedenceRespected ==
    LET r == result
    IN  (r.ok /\ family.entry = "Expr") =>
          /\ \A n \in Subtrees(r.ast) :
                /\ n[1] = "bin" => Level(n[3]) >= Level(n) /\ Level(n[4]) > Level(n)
                /\ n[1] = "conv" => Level(n[3]) >= 7
                /\ n[1] = "un" => Level(n[3]) = 8 /\ n[3][1] # "un"
          /\ OpTokens(r.ast) = SelectSeq(SubSeq(tokens, 1, r.pos - 1), IsOperatorToken)
====
