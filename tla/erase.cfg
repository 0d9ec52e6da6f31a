SPECIFICATION EraseSpec
CONSTANTS
    Messages = messages
    Stores = {messages, sessions, contacts, invites}
    DoorStores = {messages, sessions}
    MaxIdentities = 2
    MaxFailures = 3
    MaxKills = 2
INVARIANTS
    BootConsistent
PROPERTIES
    EraseOnboardsClean
CHECK_DEADLOCK FALSE
