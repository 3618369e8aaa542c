SPECIFICATION Spec
CONSTANTS
    Nil = Nil
    g1 = g1
    g2 = g2
    c1 = c1
    q1 = q1
    s1 = s1
    nul = nul
    garbage = garbage
    Goroutines = {g1, g2}
    Addresses = {a1, a2, a3, a4, a5}
    CapsHandles = {c1}
    QueryHandles = {q1}
    StateHandles = {s1}
    Calls <- StringCallsOfAllKinds
    Under = {}
    DefaultNet = "AllowAll"
    Malformed = {garbage}
    NulStrings = {nul}
    FailCodes = {"PathNotFound"}
    MaxEntries = 1
SYMMETRY AnySymmetry
INVARIANTS
    StringInv
    NoDanglingString
    NoStringLeak
    FaithfulStrings
