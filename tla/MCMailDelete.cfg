CONSTANT Requests = {r1, r2}
SPECIFICATION Spec
INVARIANT DeletedMailsAreGone
CHECK_DEADLOCK FALSE
