----------------------------- MODULE DoraParser -----------------------------
(***************************************************************************)
(* The recursive-descent parser of dora-parser (parser.rs): files and     *)
(* their top-level elements, class, impl and trait members, annotations, *)
(* expressions, types and statements, as recursive operators over a       *)
(* sequence of tokens.                                                     *)
(*                                                                         *)
(* The parser keeps one token of lookahead (self.token). Its state is      *)
(* modelled by the index p of that token in the sequence ts. Every parse  *)
(* function returns a result record:                                       *)
(*   [ok |-> TRUE,  pos |-> index after what was parsed, ast |-> node]     *)
(*   [ok |-> FALSE, pos |-> index of the token the error reports, err]     *)
(* so the `?` of the Rust code is an `IF ~r.ok THEN r` in front of each    *)
(* use of r. Tokens are strings named after their spelling ("id" for an  *)
(* identifier, "int" for an integer literal that fits in u64, "bigint"    *)
(* for one that does not, "strTail"/"strExpr" for the lexer's string      *)
(* pieces). Node ids, spans and names are left out: an AST node is a      *)
(* tuple whose first element is its kind.                                 *)
(***************************************************************************)
EXTENDS Integers, Sequences, TLC

\* The token at index p. Past the end, the lexer keeps returning EOF.
Tok(ts, p) == IF p <= Len(ts) THEN ts[p] ELSE "EOF"

Ok(p, node) == [ok |-> TRUE, pos |-> p, ast |-> node, err |-> <<>>]

Fail(p, e) == [ok |-> FALSE, pos |-> p, ast |-> <<>>, err |-> e]

\* The names parse_annotation_usages maps to a Modifier. They are ordinary
\* identifiers to the lexer; "id" stands for any other identifier.
ModifierNames == {"abstract", "open", "override", "final", "internal", "pub",
                  "static", "Test", "optimizeImmediately"}

Identifiers == {"id"} \cup ModifierNames

\* expect_token: consume the expected token or report the current one.
ExpectToken(ts, p, kind) ==
    IF Tok(ts, p) = kind THEN Ok(p + 1, kind)
    ELSE Fail(p, <<"ExpectedToken", kind, Tok(ts, p)>>)

\* expect_identifier advances first and reports the token it consumed.
ExpectIdentifier(ts, p) ==
    IF Tok(ts, p) \in Identifiers THEN Ok(p + 1, Tok(ts, p))
    ELSE Fail(p, <<"ExpectedIdentifier", Tok(ts, p)>>)

\* The right precedence of each binary operator token in parse_binary.
PrecedenceLevels ==
    << {"="}, {"||"}, {"&&"},
       {"==", "!=", "<", "<=", ">", ">=", "===", "!=="},
       {"+", "-", "|", "^"},
       {"*", "/", "%", "&", "<<", ">>", ">>>"},
       {"is", "as"} >>

BinaryTokens == UNION {PrecedenceLevels[i] : i \in 1..7}

RightPrecedence(t) == CHOOSE i \in 1..7 : t \in PrecedenceLevels[i]

\* create_binary: the BinOp of each binary operator token.
BinOpOf ==
    ("=" :> "Assign") @@ ("||" :> "Or") @@ ("&&" :> "And")
    @@ ("==" :> "CmpEq") @@ ("!=" :> "CmpNe") @@ ("<" :> "CmpLt")
    @@ ("<=" :> "CmpLe") @@ (">" :> "CmpGt") @@ (">=" :> "CmpGe")
    @@ ("===" :> "CmpIs") @@ ("!==" :> "CmpIsNot") @@ ("|" :> "BitOr")
    @@ ("&" :> "BitAnd") @@ ("^" :> "BitXor") @@ ("+" :> "Add")
    @@ ("-" :> "Sub") @@ ("*" :> "Mul") @@ ("/" :> "Div") @@ ("%" :> "Mod")
    @@ ("<<" :> "ShiftL") @@ (">>" :> "ArithShiftR")
    @@ (">>>" :> "LogicalShiftR")

CreateBinary(tok, left, right) == <<"bin", BinOpOf[tok], left, right>>

\* parse_unary: the UnOp of each prefix operator token.
UnOpOf == ("+" :> "Plus") @@ ("-" :> "Neg") @@ ("!" :> "Not")

\* parse_primary: the node each postfix token builds.
PostfixKind ==
    ("." :> "dot") @@ ("(" :> "call") @@ ("[" :> "typeparam") @@ ("::" :> "path")

\* Expr::needs_semicolon (ast.rs, not in the repository): the expressions
\* that may stand as a statement without a semicolon.
NeedsSemicolon(e) == e[1] \notin {"block", "if", "match"}

RECURSIVE Invoke(_, _, _, _)

ParseExpression(ts, p) ==
    CASE Tok(ts, p) = "{"     -> Invoke("ParseBlock", ts, p, <<>>)
      [] Tok(ts, p) = "if"    -> Invoke("ParseIf", ts, p, <<>>)
      [] Tok(ts, p) = "match" -> Invoke("ParseMatch", ts, p, <<>>)
      [] OTHER                -> Invoke("ParseBinary", ts, p, <<0>>)

ParseBinary(ts, p, precedence) ==
    LET left == Invoke("ParseUnary", ts, p, <<>>)
    IN  IF ~left.ok THEN left ELSE Invoke("BinaryLoop", ts, left.pos,
                                          <<precedence, left.ast>>)

\* Mutant: `precedence > right_precedence`, which makes every level
\* right-associative.
BinaryLoopRightAssoc(ts, p, precedence, left) ==
    LET tok   == Tok(ts, p)
        ty    == Invoke("ParseType", ts, p + 1, <<>>)
        right == Invoke("ParseBinary", ts, p + 1, <<RightPrecedence(tok)>>)
    IN  IF tok \notin BinaryTokens \/ precedence > RightPrecedence(tok) THEN Ok(p, left)
        ELSE IF tok \in {"is", "as"}
        THEN IF ~ty.ok THEN ty
             ELSE Invoke("BinaryLoop", ts, ty.pos,
                         <<precedence, <<"conv", tok = "is", left, ty.ast>>>>)
        ELSE IF ~right.ok THEN right
        ELSE Invoke("BinaryLoop", ts, right.pos,
                    <<precedence, CreateBinary(tok, left, right.ast)>>)

\* The loop of parse_binary: fold operators of higher precedence into left.
BinaryLoop(ts, p, precedence, left) ==
    LET tok   == Tok(ts, p)
        ty    == Invoke("ParseType", ts, p + 1, <<>>)
        right == Invoke("ParseBinary", ts, p + 1, <<RightPrecedence(tok)>>)
    IN  IF tok \notin BinaryTokens \/ precedence >= RightPrecedence(tok)
        THEN Ok(p, left)
        ELSE IF tok \in {"is", "as"}
        THEN IF ~ty.ok THEN ty
             ELSE Invoke("BinaryLoop", ts, ty.pos,
                         <<precedence, <<"conv", tok = "is", left, ty.ast>>>>)
        ELSE IF ~right.ok THEN right
        ELSE Invoke("BinaryLoop", ts, right.pos,
                    <<precedence, CreateBinary(tok, left, right.ast)>>)

\* A prefix operator applies to a primary, not to another unary expression.
ParseUnary(ts, p) ==
    LET e == Invoke("ParsePrimary", ts, p + 1, <<>>)
    IN  IF Tok(ts, p) \notin DOMAIN UnOpOf THEN Invoke("ParsePrimary", ts, p, <<>>)
        ELSE IF ~e.ok THEN e
        ELSE Ok(e.pos, <<"un", UnOpOf[Tok(ts, p)], e.ast>>)

ParsePrimary(ts, p) ==
    LET left == Invoke("ParseFactor", ts, p, <<>>)
    IN  IF ~left.ok THEN left ELSE Invoke("PrimaryLoop", ts, left.pos, <<left.ast>>)

\* The loop of parse_primary: member access, call, type arguments, path.
PrimaryLoop(ts, p, left) ==
    LET tok == Tok(ts, p)
        rhs == CASE tok \in {".", "::"} -> Invoke("ParseFactor", ts, p + 1, <<>>)
                 [] tok = "("           -> Invoke("ParseList", ts, p + 1,
                                                  <<",", ")", "expr">>)
                 [] OTHER               -> Invoke("ParseList", ts, p + 1,
                                                  <<",", "]", "type">>)
    IN  IF tok \notin DOMAIN PostfixKind THEN Ok(p, left)
        ELSE IF ~rhs.ok THEN rhs
        ELSE Invoke("PrimaryLoop", ts, rhs.pos,
                    <<<<PostfixKind[tok], left, rhs.ast>>>>)

\* parse_lit_int: u64::from_str_radix either fits ("int") or overflows.
ParseLitInt(ts, p) ==
    IF Tok(ts, p) = "bigint" THEN Fail(p, <<"NumberOverflow">>)
    ELSE Ok(p + 1, <<"lit", "int">>)

ParseIdentifier(ts, p) ==
    LET name == ExpectIdentifier(ts, p)
    IN  IF ~name.ok THEN name ELSE Ok(name.pos, <<"ident">>)

ParseFactor(ts, p) ==
    LET tok == Tok(ts, p)
    IN  CASE tok = "("                   -> Invoke("ParseParentheses", ts, p, <<>>)
          [] tok = "{"                   -> Invoke("ParseBlock", ts, p, <<>>)
          [] tok = "if"                  -> Invoke("ParseIf", ts, p, <<>>)
          [] tok \in {"int", "bigint"}   -> ParseLitInt(ts, p)
          [] tok \in {"char", "float", "true", "false", "self", "super"}
                                         -> Ok(p + 1, <<"lit", tok>>)
          [] tok \in {"strTail", "strExpr"} -> Invoke("ParseString", ts, p, <<>>)
          [] tok \in Identifiers         -> ParseIdentifier(ts, p)
          [] tok \in {"|", "||"}         -> Invoke("ParseLambda", ts, p, <<>>)
          [] OTHER                       -> Fail(p, <<"ExpectedFactor", tok>>)

\* parse_parentheses: (), a parenthesised expression, or a tuple.
ParseParentheses(ts, p) ==
    LET e     == Invoke("ParseExpression", ts, p + 1, <<>>)
        close == ExpectToken(ts, e.pos, ")")
    IN  IF Tok(ts, p + 1) = ")" THEN Ok(p + 2, <<"tuple", <<>>>>)
        ELSE IF ~e.ok THEN e
        ELSE IF Tok(ts, e.pos) = "," THEN Invoke("TupleLoop", ts, e.pos,
                                                 <<<<e.ast>>>>)
        ELSE IF ~close.ok THEN close
        ELSE Ok(close.pos, <<"paren", e.ast>>)

\* The tuple loop of parse_parentheses: a comma, then ")" or an element.
TupleLoop(ts, p, values) ==
    LET comma == ExpectToken(ts, p, ",")
        e     == Invoke("ParseExpression", ts, comma.pos, <<>>)
    IN  IF ~comma.ok THEN comma
        ELSE IF Tok(ts, comma.pos) = ")" THEN Ok(comma.pos + 1, <<"tuple", values>>)
        ELSE IF ~e.ok THEN e
        ELSE IF Tok(ts, e.pos) = ")"
             THEN Ok(e.pos + 1, <<"tuple", Append(values, e.ast)>>)
        ELSE Invoke("TupleLoop", ts, e.pos, <<Append(values, e.ast)>>)

\* parse_string: a plain string, or a template of expressions in ${...}.
ParseString(ts, p) ==
    IF Tok(ts, p) = "strTail" THEN Ok(p + 1, <<"str">>)
    ELSE Invoke("TemplateLoop", ts, p + 1, <<<<<<"str">>>>>>)

\* One turn of the template loop. At the closing brace the parser asks the
\* lexer for the string piece that follows (read_string_continuation); the
\* token after "}" stands for that piece, and anything else for the
\* lexer's error on an unterminated string.
TemplateLoop(ts, p, parts) ==
    LET e     == Invoke("ParseExpression", ts, p, <<>>)
        piece == e.pos + 1
        more  == parts \o <<e.ast, <<"str">>>>
    IN  IF ~e.ok THEN e
        ELSE IF Tok(ts, e.pos) # "}" THEN Fail(e.pos, <<"UnclosedStringTemplate">>)
        ELSE IF Tok(ts, piece) \notin {"strTail", "strExpr"}
             THEN Fail(piece, <<"UnclosedString">>)
        ELSE IF Tok(ts, piece) = "strTail" THEN Ok(piece + 1, <<"template", more>>)
        ELSE Invoke("TemplateLoop", ts, piece + 1, <<more>>)

\* parse_lambda: || or |params|, an optional return type, a block.
ParseLambda(ts, p) ==
    LET params == IF Tok(ts, p) = "||" THEN Ok(p + 1, <<>>)
                  ELSE Invoke("ParseList", ts, p + 1, <<",", "|", "param">>)
        ret    == IF Tok(ts, params.pos) = ":"
                  THEN Invoke("ParseType", ts, params.pos + 1, <<>>)
                  ELSE Ok(params.pos, <<>>)
        block  == Invoke("ParseBlock", ts, ret.pos, <<>>)
    IN  IF ~params.ok THEN params
        ELSE IF ~ret.ok THEN ret
        ELSE IF ~block.ok THEN block
        ELSE Ok(block.pos, <<"lambda", params.ast, ret.ast, block.ast, Tok(ts, p)>>)

\* parse_match_pattern_param: "_", or an optionally mutable name.
ParseMatchPatternParam(ts, p) ==
    LET m    == IF Tok(ts, p) = "mut" THEN p + 1 ELSE p
        name == ExpectIdentifier(ts, m)
    IN  IF Tok(ts, p) = "_" THEN Ok(p + 1, <<"pparam", FALSE, FALSE>>)
        ELSE IF ~name.ok THEN name
        ELSE Ok(name.pos, <<"pparam", Tok(ts, p) = "mut", TRUE>>)

\* parse_list: entries separated by sep, an optional trailing sep, stop.
ParseList(ts, p, sep, stop, item) == Invoke("ListLoop", ts, p,
                                            <<sep, stop, item, TRUE, <<>>>>)

\* Mutant: parse_list without the check that a separator came between
\* two entries.
ListLoopNoSep(ts, p, sep, stop, item, comma, data) ==
    LET entry == Invoke("ParseItem", ts, p, <<item>>)
        more  == Tok(ts, entry.pos) = sep
        close == ExpectToken(ts, p, stop)
    IN  IF Tok(ts, p) \in {stop, "EOF"}
        THEN IF ~close.ok THEN close ELSE Ok(close.pos, data)
        ELSE IF ~entry.ok THEN entry
        ELSE Invoke("ListLoop", ts, IF more THEN entry.pos + 1 ELSE entry.pos,
                      <<sep, stop, item, more, Append(data, entry.ast)>>)

ListLoop(ts, p, sep, stop, item, comma, data) ==
    LET entry == Invoke("ParseItem", ts, p, <<item>>)
        more  == Tok(ts, entry.pos) = sep
        close == ExpectToken(ts, p, stop)
    IN  IF Tok(ts, p) \in {stop, "EOF"}
        THEN IF ~close.ok THEN close ELSE Ok(close.pos, data)
        ELSE IF ~comma THEN Fail(p, <<"ExpectedToken", sep, Tok(ts, p)>>)
        ELSE IF ~entry.ok THEN entry
        ELSE Invoke("ListLoop", ts, IF more THEN entry.pos + 1 ELSE entry.pos,
                      <<sep, stop, item, more, Append(data, entry.ast)>>)

\* parse_function_param: name ":" type, optionally variadic "...".
ParseFunctionParam(ts, p) ==
    LET name  == ExpectIdentifier(ts, p)
        colon == ExpectToken(ts, name.pos, ":")
        ty    == Invoke("ParseType", ts, colon.pos, <<>>)
    IN  IF ~name.ok THEN name
        ELSE IF ~colon.ok THEN colon
        ELSE IF ~ty.ok THEN ty
        ELSE IF Tok(ts, ty.pos) = "..." THEN Ok(ty.pos + 1, <<"param", ty.ast, TRUE>>)
        ELSE Ok(ty.pos, <<"param", ty.ast, FALSE>>)

\* parse_type: Self, a path with type arguments, a tuple or function type.
ParseType(ts, p) ==
    LET tok    == Tok(ts, p)
        path   == Invoke("ParsePath", ts, p, <<>>)
        params == IF Tok(ts, path.pos) = "[" THEN Invoke("ParseList", ts, path.pos + 1,
                                                         <<",", "]", "type">>)
                  ELSE Ok(path.pos, <<>>)
        subs   == Invoke("ParseList", ts, p + 1, <<",", ")", "type">>)
        ret    == Invoke("ParseType", ts, subs.pos + 1, <<>>)
    IN  CASE tok = "Self" -> Ok(p + 1, <<"tself">>)
          [] tok \in Identifiers -> IF ~path.ok THEN path
                             ELSE IF ~params.ok THEN params
                             ELSE Ok(params.pos, <<"tbasic", path.ast, params.ast>>)
          [] tok = "("    -> IF ~subs.ok THEN subs
                             ELSE IF Tok(ts, subs.pos) # ":"
                                  THEN Ok(subs.pos, <<"ttuple", subs.ast>>)
                             ELSE IF ~ret.ok THEN ret
                             ELSE Ok(ret.pos, <<"tfct", subs.ast, ret.ast>>)
          [] OTHER        -> Fail(p, <<"ExpectedType", tok>>)

\* parse_path: ident {"::" ident}.
ParsePath(ts, p) ==
    LET name == ExpectIdentifier(ts, p)
    IN  IF ~name.ok THEN name ELSE Invoke("PathLoop", ts, name.pos, <<1>>)

PathLoop(ts, p, n) ==
    LET name == ExpectIdentifier(ts, p + 1)
    IN  IF Tok(ts, p) # "::" THEN Ok(p, <<"path", n>>)
        ELSE IF ~name.ok THEN name
        ELSE Invoke("PathLoop", ts, name.pos, <<n + 1>>)

\* Wrap a statement parser's result as StmtOrExpr::Stmt.
AsStmt(r) == IF r.ok THEN [r EXCEPT !.ast = <<"stmt", r.ast>>] ELSE r

\* parse_statement: a statement, or an expression that needs no semicolon.
\* For one that does, the error is expect_semicolon's on the current token.
ParseStatement(ts, p) ==
    LET r == Invoke("ParseStatementOrExpression", ts, p, <<>>)
    IN  IF ~r.ok THEN r
        ELSE IF r.ast[1] = "stmt" THEN Ok(r.pos, r.ast[2])
        ELSE IF NeedsSemicolon(r.ast[2]) THEN ExpectToken(ts, r.pos, ";")
        ELSE Ok(r.pos, <<"exprstmt", r.ast[2]>>)

ParseStatementOrExpression(ts, p) ==
    LET tok == Tok(ts, p)
        e   == Invoke("ParseExpression", ts, p, <<>>)
    IN  CASE tok \in {"let", "var"}        -> AsStmt(Invoke("ParseLet", ts, p, <<>>))
          [] tok = "while"                 -> AsStmt(Invoke("ParseWhile", ts, p,
                                                            <<>>))
          [] tok \in {"break", "continue"} -> AsStmt(Invoke("ParseBreak", ts, p,
                                                            <<>>))
          [] tok = "return"                -> AsStmt(Invoke("ParseReturn", ts, p,
                                                            <<>>))
          [] tok = "else"                  -> Fail(p, <<"MisplacedElse">>)
          [] tok = "for"                   -> AsStmt(Invoke("ParseFor", ts, p, <<>>))
          [] OTHER -> IF ~e.ok THEN e
                      ELSE IF Tok(ts, e.pos) = ";"
                           THEN Ok(e.pos + 1, <<"stmt", <<"exprstmt", e.ast>>>>)
                      ELSE Ok(e.pos, <<"expr", e.ast>>)

\* parse_let: let|var pattern [":" type] ["=" expr] ";".
ParseLet(ts, p) ==
    LET pattern == Invoke("ParseLetPattern", ts, p + 1, <<>>)
        ty      == Invoke("ParseVarType", ts, pattern.pos, <<>>)
        init    == Invoke("ParseVarAssignment", ts, ty.pos, <<>>)
        semi    == ExpectToken(ts, init.pos, ";")
    IN  IF ~pattern.ok THEN pattern
        ELSE IF ~ty.ok THEN ty
        ELSE IF ~init.ok THEN init
        ELSE IF ~semi.ok THEN semi
        ELSE Ok(semi.pos, <<"let", Tok(ts, p) = "var", pattern.ast, ty.ast, init.ast>>)

\* parse_let_pattern: a tuple of patterns, "_", or [mut] ident.
ParseLetPattern(ts, p) ==
    LET tok   == Tok(ts, p)
        parts == Invoke("ParseList", ts, p + 1, <<",", ")", "letpat">>)
        name  == ExpectIdentifier(ts, IF tok = "mut" THEN p + 1 ELSE p)
    IN  CASE tok = "(" -> IF ~parts.ok THEN parts ELSE Ok(parts.pos, <<"ptuple", parts.ast>>)
          [] tok = "_" -> Ok(p + 1, <<"punderscore">>)
          [] OTHER     -> IF ~name.ok THEN name ELSE Ok(name.pos, <<"pident", tok = "mut">>)

ParseVarType(ts, p) ==
    IF Tok(ts, p) = ":" THEN Invoke("ParseType", ts, p + 1, <<>>) ELSE Ok(p, <<>>)

ParseVarAssignment(ts, p) ==
    IF Tok(ts, p) = "=" THEN Invoke("ParseExpression", ts, p + 1,
                                    <<>>) ELSE Ok(p, <<>>)

ParseBlockStmt(ts, p) ==
    LET block == Invoke("ParseBlock", ts, p, <<>>)
    IN  IF ~block.ok THEN block ELSE Ok(block.pos, <<"exprstmt", block.ast>>)

ParseBlock(ts, p) ==
    LET open == ExpectToken(ts, p, "{")
    IN  IF ~open.ok THEN open ELSE Invoke("BlockLoop", ts, open.pos, <<<<>>>>)

\* Mutant: the closing "}" is taken only if present, not expected.
FinishBlockLenient(ts, p, stmts, value) ==
    Ok(IF Tok(ts, p) = "}" THEN p + 1 ELSE p, <<"block", stmts, value>>)

\* The end of parse_block: expect "}" after the statements and value.
FinishBlock(ts, p, stmts, value) ==
    LET close == ExpectToken(ts, p, "}")
    IN  IF ~close.ok THEN close ELSE Ok(close.pos, <<"block", stmts, value>>)

\* The loop of parse_block. An expression that needs a semicolon ends the
\* block as its value; one that does not is a statement unless "}" follows.
BlockLoop(ts, p, stmts) ==
    LET r == Invoke("ParseStatementOrExpression", ts, p, <<>>)
        e == r.ast[2]
    IN  IF Tok(ts, p) \in {"}", "EOF"} THEN FinishBlock(ts, p, stmts, <<>>)
        ELSE IF ~r.ok THEN r
        ELSE IF r.ast[1] = "stmt" THEN Invoke("BlockLoop", ts, r.pos,
                                              <<Append(stmts, e)>>)
        ELSE IF NeedsSemicolon(e) THEN FinishBlock(ts, r.pos, stmts, e)
        ELSE IF Tok(ts, r.pos) # "}" THEN Invoke("BlockLoop", ts, r.pos,
                                                 <<Append(stmts, <<"exprstmt", e>>)>>)
        ELSE FinishBlock(ts, r.pos, stmts, e)

\* parse_if: if cond block [else (if ... | block)].
ParseIf(ts, p) ==
    LET cond      == Invoke("ParseExpression", ts, p + 1, <<>>)
        thenBlock == Invoke("ParseBlock", ts, cond.pos, <<>>)
        q         == thenBlock.pos + 1
        elseBlock == IF Tok(ts, q) = "if" THEN Invoke("ParseIf", ts, q, <<>>)
                     ELSE Invoke("ParseBlock", ts, q, <<>>)
    IN  IF ~cond.ok THEN cond
        ELSE IF ~thenBlock.ok THEN thenBlock
        ELSE IF Tok(ts, thenBlock.pos) # "else"
             THEN Ok(thenBlock.pos, <<"if", cond.ast, thenBlock.ast, <<>>>>)
        ELSE IF ~elseBlock.ok THEN elseBlock
        ELSE Ok(elseBlock.pos, <<"if", cond.ast, thenBlock.ast, elseBlock.ast>>)

\* parse_match: match expr "{" cases, comma separated, "}".
ParseMatch(ts, p) ==
    LET expr == Invoke("ParseExpression", ts, p + 1, <<>>)
        open == ExpectToken(ts, expr.pos, "{")
    IN  IF ~expr.ok THEN expr
        ELSE IF ~open.ok THEN open
        ELSE Invoke("CaseLoop", ts, open.pos, <<expr.ast, TRUE, <<>>>>)

\* The case loop of parse_match, with its own separator logic.
CaseLoop(ts, p, expr, comma, cases) ==
    LET arm   == Invoke("ParseMatchCase", ts, p, <<>>)
        more  == Tok(ts, arm.pos) = ","
        close == ExpectToken(ts, p, "}")
    IN  IF Tok(ts, p) \in {"}", "EOF"}
        THEN IF ~close.ok THEN close ELSE Ok(close.pos, <<"match", expr, cases>>)
        ELSE IF ~comma THEN Fail(p, <<"ExpectedToken", ",", Tok(ts, p)>>)
        ELSE IF ~arm.ok THEN arm
        ELSE Invoke("CaseLoop", ts, IF more THEN arm.pos + 1 ELSE arm.pos,
                      <<expr, more, Append(cases, arm.ast)>>)

\* parse_match_case: pattern {"|" pattern} "=>" expr.
ParseMatchCase(ts, p) ==
    LET first == Invoke("ParseMatchPattern", ts, p, <<>>)
        pats  == Invoke("AlternativesLoop", ts, first.pos, <<<<first.ast>>>>)
        arrow == ExpectToken(ts, pats.pos, "=>")
        value == Invoke("ParseExpression", ts, arrow.pos, <<>>)
    IN  IF ~first.ok THEN first
        ELSE IF ~pats.ok THEN pats
        ELSE IF ~arrow.ok THEN arrow
        ELSE IF ~value.ok THEN value
        ELSE Ok(value.pos, <<"case", pats.ast, value.ast>>)

AlternativesLoop(ts, p, pats) ==
    LET next == Invoke("ParseMatchPattern", ts, p + 1, <<>>)
    IN  IF Tok(ts, p) # "|" THEN Ok(p, pats)
        ELSE IF ~next.ok THEN next
        ELSE Invoke("AlternativesLoop", ts, next.pos, <<Append(pats, next.ast)>>)

\* parse_match_pattern: "_", or a path with optional parameters.
ParseMatchPattern(ts, p) ==
    LET path   == Invoke("ParsePath", ts, p, <<>>)
        params == Invoke("ParseList", ts, path.pos + 1, <<",", ")", "patparam">>)
    IN  IF Tok(ts, p) = "_" THEN Ok(p + 1, <<"underscore">>)
        ELSE IF ~path.ok THEN path
        ELSE IF Tok(ts, path.pos) # "(" THEN Ok(path.pos, <<"pattern", path.ast>>)
        ELSE IF ~params.ok THEN params
        ELSE Ok(params.pos, <<"pattern", path.ast, params.ast>>)

\* parse_for: for pattern in expr block.
ParseFor(ts, p) ==
    LET pattern == Invoke("ParseLetPattern", ts, p + 1, <<>>)
        kwIn    == ExpectToken(ts, pattern.pos, "in")
        expr    == Invoke("ParseExpression", ts, kwIn.pos, <<>>)
        block   == Invoke("ParseBlockStmt", ts, expr.pos, <<>>)
    IN  IF ~pattern.ok THEN pattern
        ELSE IF ~kwIn.ok THEN kwIn
        ELSE IF ~expr.ok THEN expr
        ELSE IF ~block.ok THEN block
        ELSE Ok(block.pos, <<"for", pattern.ast, expr.ast, block.ast>>)

\* parse_while: while expr block.
ParseWhile(ts, p) ==
    LET expr  == Invoke("ParseExpression", ts, p + 1, <<>>)
        block == Invoke("ParseBlockStmt", ts, expr.pos, <<>>)
    IN  IF ~expr.ok THEN expr
        ELSE IF ~block.ok THEN block
        ELSE Ok(block.pos, <<"while", expr.ast, block.ast>>)

\* parse_break and parse_continue: the keyword, then ";".
ParseBreak(ts, p) ==
    LET semi == ExpectToken(ts, p + 1, ";")
    IN  IF ~semi.ok THEN semi ELSE Ok(semi.pos, <<Tok(ts, p)>>)

\* parse_return: return [expr] ";".
ParseReturn(ts, p) ==
    LET expr == IF Tok(ts, p + 1) = ";" THEN Ok(p + 1, <<>>)
                ELSE Invoke("ParseExpression", ts, p + 1, <<>>)
        semi == ExpectToken(ts, expr.pos, ";")
    IN  IF ~expr.ok THEN expr
        ELSE IF ~semi.ok THEN semi
        ELSE Ok(semi.pos, <<"return", expr.ast>>)

(***************************************************************************)
(* Items: the elements of a file or module and the members of classes,    *)
(* impls and traits. Modifiers are the sequence of <<name, position>>      *)
(* that parse_annotation_usages collects.                                  *)
(***************************************************************************)

\* parse_annotation_usages: "@" name, as long as "@" follows. The position
\* of an error, and the one stored for a modifier, is self.token.position
\* after expect_identifier, the token after the name.
AnnotationLoop(ts, p, mods) ==
    LET name == ExpectIdentifier(ts, p + 1)
        n    == Tok(ts, p + 1)
    IN  IF Tok(ts, p) # "@" THEN Ok(p, mods)
        ELSE IF ~name.ok THEN name
        ELSE IF n \notin ModifierNames THEN Fail(name.pos, <<"UnknownAnnotation">>)
        ELSE IF \E i \in DOMAIN mods : mods[i][1] = n
             THEN Fail(name.pos, <<"RedundantAnnotation", n>>)
        ELSE Invoke("AnnotationLoop", ts, name.pos, <<Append(mods, <<n, name.pos>>)>>)

ParseAnnotationUsages(ts, p) == Invoke("AnnotationLoop", ts, p, <<<<>>>>)

\* restrict_modifiers: the first modifier not in restrict is misplaced, at
\* the position stored for it.
RestrictModifiers(p, mods, restrict) ==
    LET bad   == {i \in DOMAIN mods : mods[i][1] \notin restrict}
        first == CHOOSE i \in bad : \A j \in bad : i <= j
    IN  IF bad = {} THEN Ok(p, <<>>)
        ELSE Fail(mods[first][2], <<"MisplacedAnnotation", mods[first][1]>>)

\* The modifiers each kind of top-level element admits
\* (parse_top_level_element); parse_annotation checks none, impl bans all.
ElementModifiers ==
    [k \in {"alias", "let", "var", "const", "enum", "mod", "use"} |-> {"pub"}]
    @@ ("fn" :> {"internal", "optimizeImmediately", "Test", "pub"})
    @@ ("class" :> {"abstract", "open", "internal", "pub"})
    @@ ("class2" :> {"internal", "pub"}) @@ ("struct" :> {"pub", "internal"})
    @@ ("trait" :> {"pub"}) @@ ("impl" :> {}) @@ ("annotation" :> ModifierNames)

\* parse_type_params: an optional "[" list of type parameters "]".
ParseTypeParams(ts, p) ==
    IF Tok(ts, p) = "[" THEN Invoke("ParseList", ts, p + 1, <<",", "]", "typeparam">>)
    ELSE Ok(p, <<>>)

\* The bounds of parse_type_param: type {"+" type}.
BoundsLoop(ts, p, bounds) ==
    LET ty == Invoke("ParseType", ts, p, <<>>)
    IN  IF ~ty.ok THEN ty
        ELSE IF Tok(ts, ty.pos) = "+"
             THEN Invoke("BoundsLoop", ts, ty.pos + 1, <<Append(bounds, ty.ast)>>)
        ELSE Ok(ty.pos, Append(bounds, ty.ast))

\* Mutant: the bounds are parsed from the ":" itself.
ParseTypeParamColonKept(ts, p) ==
    LET name   == ExpectIdentifier(ts, p)
        bounds == Invoke("BoundsLoop", ts, name.pos, <<<<>>>>)
    IN  IF ~name.ok THEN name
        ELSE IF Tok(ts, name.pos) # ":" THEN Ok(name.pos, <<"tparam", <<>>>>)
        ELSE IF ~bounds.ok THEN bounds
        ELSE Ok(bounds.pos, <<"tparam", bounds.ast>>)

\* parse_type_param: name [":" bounds].
ParseTypeParam(ts, p) ==
    LET name   == ExpectIdentifier(ts, p)
        bounds == Invoke("BoundsLoop", ts, name.pos + 1, <<<<>>>>)
    IN  IF ~name.ok THEN name
        ELSE IF Tok(ts, name.pos) # ":" THEN Ok(name.pos, <<"tparam", <<>>>>)
        ELSE IF ~bounds.ok THEN bounds
        ELSE Ok(bounds.pos, <<"tparam", bounds.ast>>)

\* parse_function_block_expression: "=" then a return statement, or an
\* expression and ";".
ParseFunctionBlockExpression(ts, p) ==
    LET ret  == Invoke("ParseReturn", ts, p + 1, <<>>)
        e    == Invoke("ParseExpression", ts, p + 1, <<>>)
        semi == ExpectToken(ts, e.pos, ";")
    IN  IF Tok(ts, p + 1) = "return"
        THEN IF ~ret.ok THEN ret ELSE Ok(ret.pos, <<"block", <<ret.ast>>, <<>>>>)
        ELSE IF ~e.ok THEN e
        ELSE IF ~semi.ok THEN semi
        ELSE Ok(semi.pos, <<"block", <<>>, e.ast>>)

\* Mutant: a function without a body (";") is not recognised.
ParseFunctionBlockNoSemicolon(ts, p) ==
    CASE Tok(ts, p) = "=" -> Invoke("ParseFunctionBlockExpression", ts, p, <<>>)
      [] OTHER            -> Invoke("ParseBlock", ts, p, <<>>)

\* parse_function_block: ";" (no body), "=" expression, or a block.
ParseFunctionBlock(ts, p) ==
    CASE Tok(ts, p) = ";" -> Ok(p + 1, <<>>)
      [] Tok(ts, p) = "=" -> Invoke("ParseFunctionBlockExpression", ts, p, <<>>)
      [] OTHER            -> Invoke("ParseBlock", ts, p, <<>>)

\* parse_function_params: "(" then the parameter list up to ")".
ParseFunctionParams(ts, p) ==
    LET open == ExpectToken(ts, p, "(")
    IN  IF ~open.ok THEN open
        ELSE Invoke("ParseList", ts, open.pos, <<",", ")", "param">>)

\* parse_function_type: an optional ":" return type.
ParseFunctionType(ts, p) ==
    IF Tok(ts, p) = ":" THEN Invoke("ParseType", ts, p + 1, <<>>) ELSE Ok(p, <<>>)

\* parse_function: fn name type-params "(" params ")" [":" type] body.
\* Methods of impls and traits get here without a check for "fn".
ParseFunction(ts, p) ==
    LET kw     == ExpectToken(ts, p, "fn")
        name   == ExpectIdentifier(ts, kw.pos)
        tps    == Invoke("ParseTypeParams", ts, name.pos, <<>>)
        params == Invoke("ParseFunctionParams", ts, tps.pos, <<>>)
        ret    == Invoke("ParseFunctionType", ts, params.pos, <<>>)
        body   == Invoke("ParseFunctionBlock", ts, ret.pos, <<>>)
    IN  IF ~kw.ok THEN kw
        ELSE IF ~name.ok THEN name
        ELSE IF ~tps.ok THEN tps
        ELSE IF ~params.ok THEN params
        ELSE IF ~ret.ok THEN ret
        ELSE IF ~body.ok THEN body
        ELSE Ok(body.pos, <<"fn", params.ast, ret.ast, body.ast>>)

\* parse_field: var|let name ":" type ["=" expr] ";".
ParseField(ts, p) ==
    LET name  == ExpectIdentifier(ts, p + 1)
        colon == ExpectToken(ts, name.pos, ":")
        ty    == Invoke("ParseType", ts, colon.pos, <<>>)
        init  == IF Tok(ts, ty.pos) = "=" THEN Invoke("ParseExpression", ts, ty.pos + 1, <<>>)
                 ELSE Ok(ty.pos, <<>>)
        semi  == ExpectToken(ts, init.pos, ";")
    IN  IF ~name.ok THEN name
        ELSE IF ~colon.ok THEN colon
        ELSE IF ~ty.ok THEN ty
        ELSE IF ~init.ok THEN init
        ELSE IF ~semi.ok THEN semi
        ELSE Ok(semi.pos, <<"field", Tok(ts, p) = "var", ty.ast, init.ast>>)

\* parse_global: the same tokens as a field (its initializer function is
\* generated from the expression).
ParseGlobal(ts, p) == Invoke("ParseField", ts, p, <<>>)

\* parse_struct_field: annotations (pub only), name ":" type.
ParseStructField(ts, p) ==
    LET mods  == Invoke("ParseAnnotationUsages", ts, p, <<>>)
        check == RestrictModifiers(mods.pos, mods.ast, {"pub"})
        name  == ExpectIdentifier(ts, mods.pos)
        colon == ExpectToken(ts, name.pos, ":")
        ty    == Invoke("ParseType", ts, colon.pos, <<>>)
    IN  IF ~mods.ok THEN mods
        ELSE IF ~check.ok THEN check
        ELSE IF ~name.ok THEN name
        ELSE IF ~colon.ok THEN colon
        ELSE IF ~ty.ok THEN ty
        ELSE Ok(ty.pos, <<"sfield", mods.ast, ty.ast>>)

\* parse_class2_field has the same control as parse_struct_field.
ParseClass2Field(ts, p) == Invoke("ParseStructField", ts, p, <<>>)

\* The fields of parse_struct and parse_class2: a list in "(...)" or
\* "{...}", or none.
StructFields(ts, p, item) ==
    CASE Tok(ts, p) = "(" -> Invoke("ParseList", ts, p + 1, <<",", ")", item>>)
      [] Tok(ts, p) = "{" -> Invoke("ParseList", ts, p + 1, <<",", "}", item>>)
      [] OTHER            -> Ok(p, <<>>)

\* parse_struct: struct name type-params fields.
ParseStruct(ts, p) ==
    LET name   == ExpectIdentifier(ts, p + 1)
        tps    == Invoke("ParseTypeParams", ts, name.pos, <<>>)
        fields == Invoke("StructFields", ts, tps.pos, <<"structfield">>)
    IN  IF ~name.ok THEN name
        ELSE IF ~tps.ok THEN tps
        ELSE IF ~fields.ok THEN fields
        ELSE Ok(fields.pos, <<"struct", tps.ast, fields.ast>>)

\* parse_class2: class2 name type-params fields.
ParseClass2(ts, p) ==
    LET name   == ExpectIdentifier(ts, p + 1)
        tps    == Invoke("ParseTypeParams", ts, name.pos, <<>>)
        fields == Invoke("StructFields", ts, tps.pos, <<"class2field">>)
    IN  IF ~name.ok THEN name
        ELSE IF ~tps.ok THEN tps
        ELSE IF ~fields.ok THEN fields
        ELSE Ok(fields.pos, <<"class2", tps.ast, fields.ast>>)

\* parse_constructor_param: [var|let] name ":" type ["..."].
ParseConstructorParam(ts, p) ==
    LET field == Tok(ts, p) \in {"var", "let"}
        name  == ExpectIdentifier(ts, IF field THEN p + 1 ELSE p)
        colon == ExpectToken(ts, name.pos, ":")
        ty    == Invoke("ParseType", ts, colon.pos, <<>>)
    IN  IF ~name.ok THEN name
        ELSE IF ~colon.ok THEN colon
        ELSE IF ~ty.ok THEN ty
        ELSE IF Tok(ts, ty.pos) = "..." THEN Ok(ty.pos + 1, <<"cparam", field, TRUE>>)
        ELSE Ok(ty.pos, <<"cparam", field, FALSE>>)

\* parse_constructor: an optional "(" list of constructor parameters ")".
ParseConstructor(ts, p) ==
    IF Tok(ts, p) # "(" THEN Ok(p, <<>>)
    ELSE Invoke("ParseList", ts, p + 1, <<",", ")", "ctorparam">>)

\* parse_parent_class_params: an optional "(" list of arguments ")".
ParseParentClassParams(ts, p) ==
    IF Tok(ts, p) # "(" THEN Ok(p, <<>>)
    ELSE Invoke("ParseList", ts, p + 1, <<",", ")", "expr">>)

\* parse_class_parent: an optional ":" type with arguments.
ParseClassParent(ts, p) ==
    LET ty   == Invoke("ParseType", ts, p + 1, <<>>)
        args == Invoke("ParseParentClassParams", ts, ty.pos, <<>>)
    IN  IF Tok(ts, p) # ":" THEN Ok(p, <<>>)
        ELSE IF ~ty.ok THEN ty
        ELSE IF ~args.ok THEN args
        ELSE Ok(args.pos, <<"parent", ty.ast, args.ast>>)

\* The modifiers a method of a class admits.
MethodModifiers == {"abstract", "internal", "open", "override", "final", "pub", "static"}

\* The loop of parse_class_body, up to "}" (with no check for EOF): after
\* the annotations, a method, a field, or else an initializer statement,
\* for which the annotations are dropped unchecked.
ClassBodyLoop(ts, p, members) ==
    LET mods   == Invoke("ParseAnnotationUsages", ts, p, <<>>)
        q      == mods.pos
        fn     == RestrictModifiers(q, mods.ast, MethodModifiers)
        field  == RestrictModifiers(q, mods.ast, {"pub"})
        member == CASE Tok(ts, q) = "fn" ->
                         IF ~fn.ok THEN fn ELSE Invoke("ParseFunction", ts, q, <<>>)
                    [] Tok(ts, q) \in {"var", "let"} ->
                         IF ~field.ok THEN field ELSE Invoke("ParseField", ts, q, <<>>)
                    [] OTHER -> ParseStatement(ts, q)
    IN  IF Tok(ts, p) = "}" THEN Ok(p + 1, members)
        ELSE IF ~mods.ok THEN mods
        ELSE IF ~member.ok THEN member
        ELSE Invoke("ClassBodyLoop", ts, member.pos, <<Append(members, member.ast)>>)

\* parse_class_body: an optional "{" members "}".
ParseClassBody(ts, p) ==
    IF Tok(ts, p) # "{" THEN Ok(p, <<>>) ELSE Invoke("ClassBodyLoop", ts, p + 1, <<<<>>>>)

\* parse_class: class name type-params constructor parent body.
ParseClass(ts, p) ==
    LET name   == ExpectIdentifier(ts, p + 1)
        tps    == Invoke("ParseTypeParams", ts, name.pos, <<>>)
        ctor   == Invoke("ParseConstructor", ts, tps.pos, <<>>)
        parent == Invoke("ParseClassParent", ts, ctor.pos, <<>>)
        body   == Invoke("ParseClassBody", ts, parent.pos, <<>>)
    IN  IF ~name.ok THEN name
        ELSE IF ~tps.ok THEN tps
        ELSE IF ~ctor.ok THEN ctor
        ELSE IF ~parent.ok THEN parent
        ELSE IF ~body.ok THEN body
        ELSE Ok(body.pos, <<"class", ctor.ast, parent.ast, body.ast>>)

\* The method loop of parse_impl and parse_trait, up to "}" (with no check
\* for EOF): annotations restricted to allowed, then a function.
MethodLoop(ts, p, allowed, methods) ==
    LET mods  == Invoke("ParseAnnotationUsages", ts, p, <<>>)
        check == RestrictModifiers(mods.pos, mods.ast, allowed)
        fct   == Invoke("ParseFunction", ts, mods.pos, <<>>)
    IN  IF Tok(ts, p) = "}" THEN Ok(p + 1, methods)
        ELSE IF ~mods.ok THEN mods
        ELSE IF ~check.ok THEN check
        ELSE IF ~fct.ok THEN fct
        ELSE Invoke("MethodLoop", ts, fct.pos, <<allowed, Append(methods, fct.ast)>>)

\* parse_impl: impl type-params type ["for" type] "{" methods "}".
ParseImpl(ts, p) ==
    LET tps     == Invoke("ParseTypeParams", ts, p + 1, <<>>)
        ty      == Invoke("ParseType", ts, tps.pos, <<>>)
        forTy   == IF Tok(ts, ty.pos) = "for" THEN Invoke("ParseType", ts, ty.pos + 1, <<>>)
                   ELSE Ok(ty.pos, <<>>)
        open    == ExpectToken(ts, forTy.pos, "{")
        methods == Invoke("MethodLoop", ts, open.pos, <<{"static", "internal", "pub"}, <<>>>>)
    IN  IF ~tps.ok THEN tps
        ELSE IF ~ty.ok THEN ty
        ELSE IF ~forTy.ok THEN forTy
        ELSE IF ~open.ok THEN open
        ELSE IF ~methods.ok THEN methods
        ELSE Ok(methods.pos, <<"impl", ty.ast, forTy.ast, methods.ast>>)

\* parse_trait: trait name type-params "{" methods "}".
ParseTrait(ts, p) ==
    LET name    == ExpectIdentifier(ts, p + 1)
        tps     == Invoke("ParseTypeParams", ts, name.pos, <<>>)
        open    == ExpectToken(ts, tps.pos, "{")
        methods == Invoke("MethodLoop", ts, open.pos, <<{"static"}, <<>>>>)
    IN  IF ~name.ok THEN name
        ELSE IF ~tps.ok THEN tps
        ELSE IF ~open.ok THEN open
        ELSE IF ~methods.ok THEN methods
        ELSE Ok(methods.pos, <<"trait", methods.ast>>)

\* parse_enum_variant: name, optionally "(" types ")".
ParseEnumVariant(ts, p) ==
    LET name  == ExpectIdentifier(ts, p)
        types == Invoke("ParseList", ts, name.pos + 1, <<",", ")", "type">>)
    IN  IF ~name.ok THEN name
        ELSE IF Tok(ts, name.pos) # "(" THEN Ok(name.pos, <<"variant", <<>>>>)
        ELSE IF ~types.ok THEN types
        ELSE Ok(types.pos, <<"variant", types.ast>>)

\* parse_enum: enum name type-params "{" variants "}".
ParseEnum(ts, p) ==
    LET name     == ExpectIdentifier(ts, p + 1)
        tps      == Invoke("ParseTypeParams", ts, name.pos, <<>>)
        open     == ExpectToken(ts, tps.pos, "{")
        variants == Invoke("ParseList", ts, open.pos, <<",", "}", "variant">>)
    IN  IF ~name.ok THEN name
        ELSE IF ~tps.ok THEN tps
        ELSE IF ~open.ok THEN open
        ELSE IF ~variants.ok THEN variants
        ELSE Ok(variants.pos, <<"enum", variants.ast>>)

\* The element loop of parse_module, up to "}" or EOF, then "}".
ModLoop(ts, p, elems) ==
    LET e     == Invoke("ParseTopLevelElement", ts, p, <<>>)
        close == ExpectToken(ts, p, "}")
    IN  IF Tok(ts, p) \in {"}", "EOF"}
        THEN IF ~close.ok THEN close ELSE Ok(close.pos, <<"mod", elems>>)
        ELSE IF ~e.ok THEN e
        ELSE Invoke("ModLoop", ts, e.pos, <<Append(elems, e.ast)>>)

\* parse_module: mod name, then "{" elements "}" or ";".
ParseModule(ts, p) ==
    LET name == ExpectIdentifier(ts, p + 1)
    IN  IF ~name.ok THEN name
        ELSE IF Tok(ts, name.pos) = "{"
             THEN Invoke("ModLoop", ts, name.pos + 1, <<<<>>>>)
        ELSE LET semi == ExpectToken(ts, name.pos, ";")
             IN  IF ~semi.ok THEN semi ELSE Ok(semi.pos, <<"mod">>)

\* parse_const: const name ":" type "=" expr ";".
ParseConst(ts, p) ==
    LET name  == ExpectIdentifier(ts, p + 1)
        colon == ExpectToken(ts, name.pos, ":")
        ty    == Invoke("ParseType", ts, colon.pos, <<>>)
        eq    == ExpectToken(ts, ty.pos, "=")
        e     == Invoke("ParseExpression", ts, eq.pos, <<>>)
        semi  == ExpectToken(ts, e.pos, ";")
    IN  IF ~name.ok THEN name
        ELSE IF ~colon.ok THEN colon
        ELSE IF ~ty.ok THEN ty
        ELSE IF ~eq.ok THEN eq
        ELSE IF ~e.ok THEN e
        ELSE IF ~semi.ok THEN semi
        ELSE Ok(semi.pos, <<"const", ty.ast, e.ast>>)

\* parse_alias: alias name "=" type ";".
ParseAlias(ts, p) ==
    LET name == ExpectIdentifier(ts, p + 1)
        eq   == ExpectToken(ts, name.pos, "=")
        ty   == Invoke("ParseType", ts, eq.pos, <<>>)
        semi == ExpectToken(ts, ty.pos, ";")
    IN  IF ~name.ok THEN name
        ELSE IF ~eq.ok THEN eq
        ELSE IF ~ty.ok THEN ty
        ELSE IF ~semi.ok THEN semi
        ELSE Ok(semi.pos, <<"alias", ty.ast>>)

\* parse_annotation_param: name ":" type.
ParseAnnotationParam(ts, p) ==
    LET name  == ExpectIdentifier(ts, p)
        colon == ExpectToken(ts, name.pos, ":")
        ty    == Invoke("ParseType", ts, colon.pos, <<>>)
    IN  IF ~name.ok THEN name
        ELSE IF ~colon.ok THEN colon
        ELSE IF ~ty.ok THEN ty
        ELSE Ok(ty.pos, <<"aparam", ty.ast>>)

\* parse_annotation: annotation name type-params, optionally "(" params ")".
ParseAnnotation(ts, p) ==
    LET name   == ExpectIdentifier(ts, p + 1)
        tps    == Invoke("ParseTypeParams", ts, name.pos, <<>>)
        params == IF Tok(ts, tps.pos) # "(" THEN Ok(tps.pos, <<>>)
                  ELSE Invoke("ParseList", ts, tps.pos + 1, <<",", ")", "annotparam">>)
    IN  IF ~name.ok THEN name
        ELSE IF ~tps.ok THEN tps
        ELSE IF ~params.ok THEN params
        ELSE Ok(params.pos, <<"annotation", tps.ast, params.ast>>)

\* parse_use_path_component: self, package, super, or a name.
ParseUsePathComponent(ts, p) ==
    LET name == ExpectIdentifier(ts, p)
    IN  IF Tok(ts, p) \in {"self", "package", "super"} THEN Ok(p + 1, Tok(ts, p))
        ELSE IF ~name.ok THEN name
        ELSE Ok(name.pos, "name")

\* parse_use_as: "as", then "_" or a name.
ParseUseAs(ts, p) ==
    LET name == ExpectIdentifier(ts, p + 1)
    IN  IF Tok(ts, p + 1) = "_" THEN Ok(p + 2, <<"as", "_">>)
        ELSE IF ~name.ok THEN name
        ELSE Ok(name.pos, <<"as", "name">>)

\* parse_use_brace: "{" a list of use trees "}".
ParseUseBrace(ts, p) ==
    LET group == Invoke("ParseList", ts, p + 1, <<",", "}", "use">>)
    IN  IF ~group.ok THEN group ELSE Ok(group.pos, <<"group", group.ast>>)

\* The target after the path of parse_use_inner: a group only where the
\* loop stopped at "{", "as", or nothing.
UseTarget(ts, p, path, allowBrace) ==
    LET brace == Invoke("ParseUseBrace", ts, p, <<>>)
        as    == Invoke("ParseUseAs", ts, p, <<>>)
    IN  CASE allowBrace /\ Tok(ts, p) = "{" ->
               IF ~brace.ok THEN brace ELSE Ok(brace.pos, <<"use", path, brace.ast>>)
          [] Tok(ts, p) = "as" ->
               IF ~as.ok THEN as ELSE Ok(as.pos, <<"use", path, as.ast>>)
          [] OTHER -> Ok(p, <<"use", path, <<"default">>>>)

\* The path loop of parse_use_inner: stop at "{", else a component and
\* continue after "::".
UseLoop(ts, p, path) ==
    LET comp == Invoke("ParseUsePathComponent", ts, p, <<>>)
    IN  IF Tok(ts, p) = "{" THEN UseTarget(ts, p, path, TRUE)
        ELSE IF ~comp.ok THEN comp
        ELSE IF Tok(ts, comp.pos) = "::"
             THEN Invoke("UseLoop", ts, comp.pos + 1, <<Append(path, comp.ast)>>)
        ELSE UseTarget(ts, comp.pos, Append(path, comp.ast), FALSE)

ParseUseInner(ts, p) == Invoke("UseLoop", ts, p, <<<<>>>>)

\* parse_use: use tree ";".
ParseUse(ts, p) ==
    LET tree == Invoke("ParseUseInner", ts, p + 1, <<>>)
        semi == ExpectToken(ts, tree.pos, ";")
    IN  IF ~tree.ok THEN tree
        ELSE IF ~semi.ok THEN semi
        ELSE Ok(semi.pos, tree.ast)

\* parse_top_level_element: annotations, then the element its keyword
\* starts, after checking the annotations against it.
ParseTopLevelElement(ts, p) ==
    LET mods  == Invoke("ParseAnnotationUsages", ts, p, <<>>)
        tok   == Tok(ts, mods.pos)
        check == RestrictModifiers(mods.pos, mods.ast, ElementModifiers[tok])
    IN  IF ~mods.ok THEN mods
        ELSE IF tok \notin DOMAIN ElementModifiers
             THEN Fail(mods.pos, <<"ExpectedTopLevelElement", tok>>)
        ELSE IF ~check.ok THEN check
        ELSE CASE tok = "fn"                -> Invoke("ParseFunction", ts, mods.pos, <<>>)
               [] tok = "class"             -> Invoke("ParseClass", ts, mods.pos, <<>>)
               [] tok = "class2"            -> Invoke("ParseClass2", ts, mods.pos, <<>>)
               [] tok = "struct"            -> Invoke("ParseStruct", ts, mods.pos, <<>>)
               [] tok = "trait"             -> Invoke("ParseTrait", ts, mods.pos, <<>>)
               [] tok = "impl"              -> Invoke("ParseImpl", ts, mods.pos, <<>>)
               [] tok = "annotation"        -> Invoke("ParseAnnotation", ts, mods.pos, <<>>)
               [] tok = "alias"             -> Invoke("ParseAlias", ts, mods.pos, <<>>)
               [] tok \in {"let", "var"}    -> ParseGlobal(ts, mods.pos)
               [] tok = "const"             -> Invoke("ParseConst", ts, mods.pos, <<>>)
               [] tok = "enum"              -> Invoke("ParseEnum", ts, mods.pos, <<>>)
               [] tok = "mod"               -> Invoke("ParseModule", ts, mods.pos, <<>>)
               [] tok = "use"               -> Invoke("ParseUse", ts, mods.pos, <<>>)

\* parse: top-level elements until EOF.
FileLoop(ts, p, elems) ==
    LET e == Invoke("ParseTopLevelElement", ts, p, <<>>)
    IN  IF Tok(ts, p) = "EOF" THEN Ok(p, <<"file", elems>>)
        ELSE IF ~e.ok THEN e
        ELSE Invoke("FileLoop", ts, e.pos, <<Append(elems, e.ast)>>)

ParseFile(ts) == Invoke("FileLoop", ts, 1, <<<<>>>>)

\* The closure each caller hands to parse_list.
ParseItem(ts, p, item) ==
    CASE item = "expr"     -> Invoke("ParseExpression", ts, p, <<>>)
      [] item = "type"     -> Invoke("ParseType", ts, p, <<>>)
      [] item = "param"    -> Invoke("ParseFunctionParam", ts, p, <<>>)
      [] item = "letpat"   -> Invoke("ParseLetPattern", ts, p, <<>>)
      [] item = "patparam" -> ParseMatchPatternParam(ts, p)
      [] item = "typeparam"   -> Invoke("ParseTypeParam", ts, p, <<>>)
      [] item = "ctorparam"   -> Invoke("ParseConstructorParam", ts, p, <<>>)
      [] item = "structfield" -> Invoke("ParseStructField", ts, p, <<>>)
      [] item = "class2field" -> ParseClass2Field(ts, p)
      [] item = "variant"     -> Invoke("ParseEnumVariant", ts, p, <<>>)
      [] item = "annotparam"  -> Invoke("ParseAnnotationParam", ts, p, <<>>)
      [] item = "use"         -> Invoke("ParseUseInner", ts, p, <<>>)

\* The parse functions call each other through Invoke, the one recursive
\* operator of the module: Invoke(fn, ts, p, a) is the parse function fn
\* at token index p, with its further arguments in the tuple a. The mutual
\* recursion of parser.rs is thus a single cycle through Invoke. TLC's
\* profiler expands every operator at every use, cutting only at a
\* recursive operator already being expanded, so each call between parse
\* functions goes through Invoke to keep that expansion linear.
Invoke(fn, ts, p, a) ==
    CASE fn = "ParseExpression"            -> ParseExpression(ts, p)
      [] fn = "ParseBinary"                -> ParseBinary(ts, p, a[1])
      [] fn = "BinaryLoop"                 -> BinaryLoop(ts, p, a[1], a[2])
      [] fn = "ParseUnary"                 -> ParseUnary(ts, p)
      [] fn = "ParsePrimary"               -> ParsePrimary(ts, p)
      [] fn = "PrimaryLoop"                -> PrimaryLoop(ts, p, a[1])
      [] fn = "ParseFactor"                -> ParseFactor(ts, p)
      [] fn = "ParseParentheses"           -> ParseParentheses(ts, p)
      [] fn = "TupleLoop"                  -> TupleLoop(ts, p, a[1])
      [] fn = "ParseString"                -> ParseString(ts, p)
      [] fn = "TemplateLoop"               -> TemplateLoop(ts, p, a[1])
      [] fn = "ParseLambda"                -> ParseLambda(ts, p)
      [] fn = "ParseList"                  -> ParseList(ts, p, a[1], a[2], a[3])
      [] fn = "ListLoop"                   -> ListLoop(ts, p, a[1], a[2], a[3], a[4], a[5])
      [] fn = "ParseItem"                  -> ParseItem(ts, p, a[1])
      [] fn = "ParseFunctionParam"         -> ParseFunctionParam(ts, p)
      [] fn = "ParseType"                  -> ParseType(ts, p)
      [] fn = "ParsePath"                  -> ParsePath(ts, p)
      [] fn = "PathLoop"                   -> PathLoop(ts, p, a[1])
      [] fn = "ParseBlock"                 -> ParseBlock(ts, p)
      [] fn = "BlockLoop"                  -> BlockLoop(ts, p, a[1])
      [] fn = "ParseStatement"             -> ParseStatement(ts, p)
      [] fn = "ParseStatementOrExpression" -> ParseStatementOrExpression(ts, p)
      [] fn = "ParseLet"                   -> ParseLet(ts, p)
      [] fn = "ParseLetPattern"            -> ParseLetPattern(ts, p)
      [] fn = "ParseVarType"               -> ParseVarType(ts, p)
      [] fn = "ParseVarAssignment"         -> ParseVarAssignment(ts, p)
      [] fn = "ParseIf"                    -> ParseIf(ts, p)
      [] fn = "ParseMatch"                 -> ParseMatch(ts, p)
      [] fn = "CaseLoop"                   -> CaseLoop(ts, p, a[1], a[2], a[3])
      [] fn = "ParseMatchCase"             -> ParseMatchCase(ts, p)
      [] fn = "AlternativesLoop"           -> AlternativesLoop(ts, p, a[1])
      [] fn = "ParseMatchPattern"          -> ParseMatchPattern(ts, p)
      [] fn = "ParseFor"                   -> ParseFor(ts, p)
      [] fn = "ParseWhile"                 -> ParseWhile(ts, p)
      [] fn = "ParseBlockStmt"             -> ParseBlockStmt(ts, p)
      [] fn = "ParseReturn"                -> ParseReturn(ts, p)
      [] fn = "ParseBreak"                 -> ParseBreak(ts, p)
      [] fn = "AnnotationLoop"             -> AnnotationLoop(ts, p, a[1])
      [] fn = "ParseAnnotationUsages"      -> ParseAnnotationUsages(ts, p)
      [] fn = "ParseTypeParams"            -> ParseTypeParams(ts, p)
      [] fn = "BoundsLoop"                 -> BoundsLoop(ts, p, a[1])
      [] fn = "ParseTypeParam"             -> ParseTypeParam(ts, p)
      [] fn = "ParseFunctionBlockExpression" -> ParseFunctionBlockExpression(ts, p)
      [] fn = "ParseFunctionBlock"         -> ParseFunctionBlock(ts, p)
      [] fn = "ParseFunctionParams"        -> ParseFunctionParams(ts, p)
      [] fn = "ParseFunctionType"          -> ParseFunctionType(ts, p)
      [] fn = "ParseFunction"              -> ParseFunction(ts, p)
      [] fn = "ParseField"                 -> ParseField(ts, p)
      [] fn = "ParseStructField"           -> ParseStructField(ts, p)
      [] fn = "StructFields"               -> StructFields(ts, p, a[1])
      [] fn = "ParseStruct"                -> ParseStruct(ts, p)
      [] fn = "ParseClass2"                -> ParseClass2(ts, p)
      [] fn = "ParseConstructorParam"      -> ParseConstructorParam(ts, p)
      [] fn = "ParseConstructor"           -> ParseConstructor(ts, p)
      [] fn = "ParseParentClassParams"     -> ParseParentClassParams(ts, p)
      [] fn = "ParseClassParent"           -> ParseClassParent(ts, p)
      [] fn = "ClassBodyLoop"              -> ClassBodyLoop(ts, p, a[1])
      [] fn = "ParseClassBody"             -> ParseClassBody(ts, p)
      [] fn = "ParseClass"                 -> ParseClass(ts, p)
      [] fn = "MethodLoop"                 -> MethodLoop(ts, p, a[1], a[2])
      [] fn = "ParseImpl"                  -> ParseImpl(ts, p)
      [] fn = "ParseTrait"                 -> ParseTrait(ts, p)
      [] fn = "ParseEnumVariant"           -> ParseEnumVariant(ts, p)
      [] fn = "ParseEnum"                  -> ParseEnum(ts, p)
      [] fn = "ModLoop"                    -> ModLoop(ts, p, a[1])
      [] fn = "ParseModule"                -> ParseModule(ts, p)
      [] fn = "ParseConst"                 -> ParseConst(ts, p)
      [] fn = "ParseAlias"                 -> ParseAlias(ts, p)
      [] fn = "ParseAnnotationParam"       -> ParseAnnotationParam(ts, p)
      [] fn = "ParseAnnotation"            -> ParseAnnotation(ts, p)
      [] fn = "ParseUsePathComponent"      -> ParseUsePathComponent(ts, p)
      [] fn = "ParseUseAs"                 -> ParseUseAs(ts, p)
      [] fn = "ParseUseBrace"              -> ParseUseBrace(ts, p)
      [] fn = "UseLoop"                    -> UseLoop(ts, p, a[1])
      [] fn = "ParseUseInner"              -> ParseUseInner(ts, p)
      [] fn = "ParseUse"                   -> ParseUse(ts, p)
      [] fn = "ParseTopLevelElement"       -> ParseTopLevelElement(ts, p)
      [] fn = "FileLoop"                   -> FileLoop(ts, p, a[1])
====
