SPECIFICATION Spec
CONSTANTS
  None = None
  Field = {id, name, nick}
  Unmapped = {other}
  Column = {id_col, full_name}
  id = id
  name = name
  nick = nick
  id_col = id_col
  full_name = full_name
  ColumnOf <- MCColumnOf
  Arg = {a, b}
  Value = {v, w}
  MaxTokens = 3
  MaxSet = 2
INVARIANTS
  TypeOK
  AllowlistExact
  EveryArgumentBound
  NumberedFromOne
  AssertionHolds
  AssignmentsKept
