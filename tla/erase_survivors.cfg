SPECIFICATION EraseSpec
CONSTANTS
    Messages = messages
    Stores = {messages, sessions, contacts, invites}
    DoorStores = {messages, sessions}
    MaxIdentities = 2
    MaxFailures = 1
    MaxKills = 0
INVARIANTS
    NoSurvivingData
CHECK_DEADLOCK FALSE
