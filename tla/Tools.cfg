SPECIFICATION Spec
CONSTANTS
    c1 = c1
    c2 = c2
    Callers <- MCCallers
    Longest <- MCLongest
    Task = task
    Capacity = 2
    MaxTargets = 2
INVARIANT CoverageHolds
INVARIANT CallsSeeOneDatabase
 
 
