\* Two users, one of whom shares a file with the right to write it.
SPECIFICATION Spec
CONSTANTS
    Users = {u1, u2}
    Names = {a}
    Contents = {c1, c2}
    Slashed = {}  WritesFail = FALSE
    Grants = {TRUE}
    Dir = Dir
    None = None
INVARIANT StoredByChecksum
CHECK_DEADLOCK FALSE
