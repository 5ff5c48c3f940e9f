\* main.go:247 on what the init job does, refuted by one timeout.
CONSTANT MaxUpsets = 1
SPECIFICATION Spec
INVARIANT InitInstalls
CHECK_DEADLOCK FALSE
