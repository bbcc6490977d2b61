CONSTANT Families <- AnnotationFamilies
SPECIFICATION Spec
CHECK_DEADLOCK FALSE
INVARIANT ErrorAtFirstDeadToken
