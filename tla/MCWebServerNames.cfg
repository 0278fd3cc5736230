CONSTANTS
  None = None
  Primitives <- MCPrimitives
  Sanitized <- MCSanitized
  Unparsable <- MCUnparsable
  MaxDepth = 3
  LineSize = 3
  MaxTokenLines = 2
  MaxTokenBytes = 20
  Conns = {1, 2}
  Requests <- MCRequests
  Entries <- MCEntries
  Compressors = {z1, z2}
SYMMETRY Interchangeable
SPECIFICATION Spec
CHECK_DEADLOCK FALSE
INVARIANT FieldsExposed
