SPECIFICATION Spec
CONSTANTS
    Connection = {c1}
    RefreshKey = {k1, k2}
    k1 = k1
    Worker = {w1, w2}
    w1 = w1
    w2 = w2
    Nobody = Nobody
    Gone = Gone
    Fingerprint = {1, 2}
    MaxGen = 0
    MaxNotes = 6
    Scenes <- MCMailScene
INVARIANT OneMail
CHECK_DEADLOCK FALSE
