\* AddCAToHelmValues over bounded inputs.
CONSTANTS
    fluxControllers <- MCControllers
    Roots <- MCRoots
SPECIFICATION Spec
INVARIANTS
    CAInstalled
    StaysValid
    MountsKeepMeaning
CHECK_DEADLOCK FALSE
