SPECIFICATION Spec
INVARIANT
    PanicLeavesNothing
