CONSTANTS
    Policies = {"same_domain", "redirect", "cosign"}
    NonDisableable = TRUE
    MaxHeight = 3
SPECIFICATION Spec
INVARIANTS TypeOK Consistent FinalizedRedirects
PROPERTIES FinalizedForever CosignKept
CHECK_DEADLOCK FALSE
