CONSTANT Families <- ItemAnnotationFamilies
SPECIFICATION Spec
CHECK_DEADLOCK FALSE
INVARIANT AcceptsLanguage
INVARIANT ItemErrorAtFirstDeadToken
