SPECIFICATION FairSpec
CONSTANTS
    Discovery = {1, 2}
    NUM_UDP_ATTEMPTS = 2
    Server = {"short", "blank", "stun.org"}
    NatPmp = TRUE
INVARIANTS
    LookupsAreSound
    AddressOfServer
PROPERTIES
    EveryLookupEnds
