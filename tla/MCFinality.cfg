SPECIFICATION Spec
CONSTANTS
    h1 = h1
    h2 = h2
    h3 = h3
    z = z
    out = out
    x = x
    y = y
    Epochs = {1, 2}
    Committees <- MCCommittees
    Validators = {h1, h2, h3, z, out}
    Honest = {h1, h2, h3}
    Rounds = {1, 2}
    Heights = {1, 2}
    Hashes = {x, y}
    Certs <- MCCerts
    AggCerts <- MCAggCerts
    MaxHeight = 2
INVARIANTS
    CertMeansQuorum
    NoConflictingCerts
    AggCertMeansQuorum
PROPERTIES
    FinalizedStays
