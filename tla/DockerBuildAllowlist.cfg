CONSTANTS
    none = none
    None = none
    Dotted <- MCDotted
    Urls <- MCUrls
    Calls <- MCCalls
    Contexts <- MCContexts
    Payloads <- MCPayloads
    Attempts = 3
    MaxGone = 1
SPECIFICATION Spec
INVARIANT NegationReadmits
CHECK_DEADLOCK FALSE
