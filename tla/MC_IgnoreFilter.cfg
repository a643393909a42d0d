INIT Init
NEXT Next

INVARIANT PruningLosesNothing
