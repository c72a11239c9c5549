SPECIFICATION Spec
INVARIANT StackGoesWithItsOwner
PROPERTY QuitsAndSettles
CHECK_DEADLOCK FALSE
