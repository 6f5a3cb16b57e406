SPECIFICATION Spec
CONSTANTS
    Story = {s1, s2, s3}
    Owner = {o1, o2}
    Voter = {v1}
    Reader = {r1}
    Card = {c1}
    None = None
CHECK_DEADLOCK FALSE
SYMMETRY GameSymmetry
CONSTRAINT VotesBeforeLast
INVARIANTS
    OpenMeansHidden
    UniqueOrder
PROPERTY
    NextAdvances
