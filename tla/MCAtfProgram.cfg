CONSTANTS
    Tokens <- MCTokens
    Requests <- MCRequests
    Forms <- MCForms
    Hosts <- MCHosts
    Files <- MCFiles
    Tests <- MCTests
    Queries <- MCQueries

SPECIFICATION Spec

INVARIANTS
    TypeOK
    EndsAsAsked
    ConfigIsAsked
    SrcdirHoldsProgram

CHECK_DEADLOCK FALSE
