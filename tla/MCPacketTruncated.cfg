SPECIFICATION Spec
CONSTANTS
  Base = 2
  Prefixes <- MCPrefixes
  Streams <- MCStreams
INVARIANT TruncationIsUnexpected
