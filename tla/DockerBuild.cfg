CONSTANTS
    none = none
    None = none
    Dotted <- MCDotted
    Urls <- MCUrls
    Calls <- MCCalls
    Contexts <- MCContexts
    Payloads <- MCPayloads
    Attempts = 3
    MaxGone = 1
SPECIFICATION Spec
INVARIANTS BuiltAsWritten IgnoredStaysHome NamedIsCopied FailedBuildIsDeleted
PROPERTY BuildEnds
CHECK_DEADLOCK FALSE
