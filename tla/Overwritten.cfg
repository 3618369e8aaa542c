SPECIFICATION Spec
CONSTANTS
    Nil = Nil
    e1 = e1
    e2 = e2
    Slots = {e1, e2}
    Unlisted <- MCUnlisted
    Reports <- MCReports
    SentinelsInReach = TRUE
SYMMETRY SlotSymmetry
INVARIANT SentinelsStable
