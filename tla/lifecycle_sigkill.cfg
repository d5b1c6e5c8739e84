SPECIFICATION Spec
PROPERTY FallsBackToSIGKILL
CHECK_DEADLOCK FALSE
