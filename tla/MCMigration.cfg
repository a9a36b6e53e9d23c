SPECIFICATION MigrationSpec
CONSTANTS
    Instances = {i1, i2}
    Nobody = Nobody
INVARIANTS
    HeadIsTheModels
    StatementsRun
    OneMigrator
PROPERTIES
    ServesMigrated
    LockTaken
