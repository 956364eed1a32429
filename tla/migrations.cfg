SPECIFICATION FairSpec
CONSTANTS
    Workers = {"w1", "w2"}
    Supported <- CURRENT_SCHEMA_VERSION
    BaseTables <- Required
    Home <- MIGRATIONS
    Promotion = 9
    Users = {"u1", "u2"}
    MaxHalts = 2
    MaxEdits = 1
INVARIANTS
    TypeOK
    SchemaComplete
    RolesUpgraded
PROPERTIES
    Refines
    Boots
CHECK_DEADLOCK FALSE
