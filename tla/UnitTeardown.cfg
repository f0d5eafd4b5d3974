SPECIFICATION Spec
PROPERTY Implements
CHECK_DEADLOCK FALSE
