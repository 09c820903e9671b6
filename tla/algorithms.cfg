SPECIFICATION Asked
CONSTANTS
    Anything = Anything
    Error = Error
    Missing = Missing
    One = 60
    Beyond = 1000
INVARIANTS SelectionIsInvisible BlocksAreHonest WindowsCoverTheirBounds CurvesAreFaithful PoliciesAreMet RastersAreRead CurvesAreEvaluated PortfoliosAreJoined LimitsAreKept
CHECK_DEADLOCK FALSE
