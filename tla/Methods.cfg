SPECIFICATION Spec
CONSTANTS
    Nil = Nil
    g1 = g1
    g2 = g2
    g3 = g3
    c1 = c1
    c2 = c2
    q1 = q1
    s1 = s1
    t1 = t1
    t2 = t2
    t3 = t3
    nul = nul
    garbage = garbage
    Collector = gc
    Goroutines = {g1}
    Threads = {t1, t2, t3}
    CapsHandles = {c1}
    QueryHandles = {}
    StateHandles = {}
    Calls <- MethodCalls
    Under <- MCUnder
    DefaultNet = "AllowAll"
    Malformed = {garbage}
    NulStrings = {nul}
    FailCodes = {"PathNotFound"}
    MaxEntries = 2
SYMMETRY ThreadSymmetry
INVARIANT NoTruncatedString
PROPERTY Linearizable
