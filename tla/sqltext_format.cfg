SPECIFICATION TextSpec
CONSTANTS
  Statements <- MCStatements
  MaxBlankLines = 3
INVARIANTS PlainIsKept FormatSettles
