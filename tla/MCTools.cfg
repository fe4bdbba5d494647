\* Every fault of ktctl and the waits of the code with their own numbers of probes;
\* two services whose builds rewrite one document; two commands about one plugin.
SPECIFICATION ToolsSpec
CONSTANTS
  MaxAttempts = 2
  ReadyProbes = 2
  ApiProbes = 3
  EmptyLists = 3
  MaxLists = 4
  Drivers = {"ktctl", "command"}
  Faults = {"stop", "save", "query", "others"}
  Order <- MCOrder
  Setups <- MCSetups
  Attempts = 2
  ConsulAttempts = 2
  MaxRewrites = 1
  Settings = {"discovType", "listenOn", "localConfigPath"}
  Values = {"empty", "any", "consul", "loopback", "all-interfaces", "target"}
  Bindings = {"A", "B"}
  Shared = "A"
  Commands = {"c1", "c2"}
  Tasks <- MCTasks
  MaxOutsiders = 1
INVARIANTS
  NothingLeft
  ConfigurationIsSafe
PROPERTIES
  CleanRetry
  OthersSpared
  PluginsKept
  EveryoneEnds
CHECK_DEADLOCK FALSE
