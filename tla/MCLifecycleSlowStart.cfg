SPECIFICATION Spec
INVARIANT FailedSessionLeaves
