SPECIFICATION Spec
INVARIANT NormalMeasure
CHECK_DEADLOCK FALSE
