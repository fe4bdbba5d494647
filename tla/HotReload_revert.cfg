\* One service whose edits are taken back.
SPECIFICATION FairWatchSpec
CONSTANTS
    h1 = h1
    h2 = h2
    Service = {"a"}
    Rank <- One
    GroupOf <- One
    Persistent = {}
    Slots = 3
    Watcher = {h1, h2}
    MaxVersion = 1
    MaxOrphans = 1
    Cli = Cli
    None = None
    FaultSets = {{"edit", "revert"}}
PROPERTY ChangesBuilt
