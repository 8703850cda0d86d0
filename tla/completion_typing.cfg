CONSTANTS
    Statements <- MCStatements
    Partials <- MCPartials
    Database <- MCDatabase
    PgTables <- MCPgTables
    SystemFunctions <- MCSystemFunctions
    Similar <- MCSimilar
SPECIFICATION Spec
CHECK_DEADLOCK FALSE
INVARIANTS CompletionInv NextIsOffered ListInv
