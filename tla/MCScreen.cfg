CONSTANTS
    Rows = 3
    Columns = 3
    TabSize = 2
    EarlyTabSize = 2
    Characters = {"a", "b"}
    MaxBack = 2
SPECIFICATION Spec
INVARIANTS TypeOK StrayBounded
PROPERTIES OneCursor TextKept
