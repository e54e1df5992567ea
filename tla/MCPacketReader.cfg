SPECIFICATION Spec
CONSTANTS
  Base = 2
  Prefixes <- MCPrefixes
  Streams <- MCStreams
INVARIANTS TypeOK Verbatim Reassembled CleanEnd
