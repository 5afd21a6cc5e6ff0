SPECIFICATION SteadySpec
INVARIANT DelayKept
