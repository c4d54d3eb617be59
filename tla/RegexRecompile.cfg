\* One expression: compiled, compiled again with a bad pattern, destroyed.
CONSTANTS
    Objects = {o1}
    Cells = {m1, m2, m3}
    Null = null
SPECIFICATION RegexSpec
INVARIANT FreedOnce
CHECK_DEADLOCK FALSE
