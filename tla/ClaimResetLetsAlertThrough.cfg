SPECIFICATION Spec
CONSTANT Ids = {c1, c2}
INVARIANT ResetLetsAlertThrough
