SPECIFICATION Spec
INVARIANT GivenPeriod
