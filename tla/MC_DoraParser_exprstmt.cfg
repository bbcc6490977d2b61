CONSTANT Families <- ExpressionStatementFamilies
SPECIFICATION Spec
CHECK_DEADLOCK FALSE
INVARIANT AcceptsLanguage
INVARIANT ErrorAtFirstDeadToken
INVARIANT PrecedenceRespected
