\* A text, a compact and a command without traces; a table of one entry.
SPECIFICATION Spec
CONSTANTS
    Texts = {t}
    Compacts = {k}
    Others = {o}
    Calls = {c1, c2}
    TableSize = 1
    Loads = {l1, l2, l3}
    CancelMayFail = FALSE
    None = None
SYMMETRY Symmetry
INVARIANTS OpenIsPinned NobodyStuck
  
