\* One service, edits, and a user who runs other commands while he is asked, or
\* commands that fail; or no edits and commands and watchers killed at any step.
SPECIFICATION FairWatchSpec
CONSTANTS
    h1 = h1
    h2 = h2
    Service = {"a"}
    Rank <- One
    GroupOf <- One
    Persistent = {}
    Slots = 4
    Watcher = {h1, h2}
    MaxVersion = 1
    MaxOrphans = 1
    Cli = Cli
    None = None
    FaultSets = {{"meanwhile", "edit"}, {"commandFails", "edit"}, {"crash"}}
PROPERTIES ReplacementConfirmed ChangesBuilt WatchersSettle
