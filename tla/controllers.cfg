\* Two addresses that administer, listen and claim, over three blocks.
CONSTANTS
    None = None
    Failed = Failed
    Unset = Unset
    Addr = {a, b}
    MaxAmount = 100000
    Amounts = {1000, 60000}
    Releases <- MCReleases
    Caps = {None, 60000}
    MaxClaims = 3
    MaxHeight = 3
SYMMETRY AddressSymmetry
SPECIFICATION Spec
INVARIANTS
    AgreesWithTests
    HelpersMatchReferences
PROPERTIES
    ImplementsClaimLedger
    HooksAreGoverned
