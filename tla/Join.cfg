SPECIFICATION JoinSpec
CONSTANTS
    Host = {0, 1, 2}
    Scenario <- Starts
INVARIANTS
    JoinTypeOK
    NeverApart
    Consent
    FormsWhatAllPropose
PROPERTIES
    Settles
CHECK_DEADLOCK FALSE
