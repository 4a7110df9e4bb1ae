SPECIFICATION EitherSpec
CONSTANTS
    PeerPdus = {"Pdu1"}
    Randoms = {"r1"}
    a1 = a1
    a2 = a2
    a3 = a3
    k1 = k1
    k2 = k2
    Peers = {a1, a2, a3}
    peer_addr = a1
    Ltks = {k1, k2}
    MaxBonds = 2
    None = None
    BondPeers = {a1, a2, a3}
    Keys = {k1, k2}
    NoBond = NoBond
    Garbage = Garbage
    BOND_MAX = 2
    RECORD_PARTS = 2
SYMMETRY Alike
INVARIANTS
    LatestBond
    OnlySavedBonds
    OnePerPeer
    FlushedIsDurable
    NoOldBondAfterErase
PROPERTY KeyConfirmed
