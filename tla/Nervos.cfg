CONSTANTS
    Keys = {k1, k2}
    ForeignPaths = {foreign}
    Malformed = malformed
    NoKey = nokey
    Junk = junk
    Packets = {m1, m2, x}
    WithMagic = {m1, m2}
    Hashes = {h1, h2}
    Blank = blank
    MaxIndex = 2
SPECIFICATION Spec
INVARIANTS TypeOK ReviewOfAcceptedOnly
PROPERTIES MessageSignatureHonest HashSignatureHonest
