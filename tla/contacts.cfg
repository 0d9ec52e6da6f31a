SPECIFICATION Spec
CONSTANTS
    p1 = p1
    i1 = i1
    i2 = i2
    c1 = c1
    c2 = c2
    c3 = c3
    NoInvite = NoInvite
    Peers = {p1}
    Invites = {i1, i2}
    Calls = {c1, c2, c3}
SYMMETRY GatesSymmetry
INVARIANT GatesSettle
INVARIANT InviteBurnsOnce
INVARIANT VerifiedIsVouched
