------------------------------- MODULE MCTools -------------------------------
(***************************************************************************)
(* What a command does with the tools around it, side by side: an attempt  *)
(* of ktctl, the delivery of configuration, and the plugins.  They share   *)
(* no state, so one part moves and the others stay where they began.  What *)
(* a part owes under fairness, it owes when it moves.                      *)
(***************************************************************************)
EXTENDS KtctlAttempt, RuntimeConfig, Plugins, TLC

VARIABLE part  \* the part that moves

-----------------------------------------------------------------------------
(* Configuration: two services that share a bootstrap; the client A is       *)
(* optional, B may be an alias of it                                         *)

MCOrder == <<"orders", "users">>
MCConsul == Client("consul", "none")
MCDocument(registers, a, b) ==
  [form |-> "plain", anchored |-> b = Alias,
   node |-> ("discovType" :> Scalar(registers)) @@ ("listenOn" :> Scalar("any"))
            @@ ("localConfigPath" :> Absent) @@ ("A" :> a) @@ ("B" :> b)]

MCShared == MCDocument("consul", MCConsul, Alias)
MCLacking == MCDocument("consul", MCConsul, Absent)
MCDocuments ==
  {MCShared, MCDocument("consul", Client("empty", "remote"), MCConsul),
   MCDocument("empty", Client("consul?", "none"), Absent)}

\* What an earlier start published
MCBefore ==
  [form |-> "plain", anchored |-> FALSE,
   node |-> ("discovType" :> Scalar("empty")) @@ ("listenOn" :> Scalar("loopback"))
            @@ ("localConfigPath" :> Scalar("target")) @@ ("A" :> Client("empty", "local"))
            @@ ("B" :> MCConsul)]

MCSetup(w) ==
  w @@ [policy |-> <<Patch("listenOn", "whole", Scalar("any"), FALSE)>>, server |-> <<>>,
        routes |-> <<"A", "B">>, declared |-> {"A", "B"}, optional |-> {"A"}, unused |-> {},
        fallback |-> TRUE, bootstrap |-> TRUE,
        before |-> [s \in {"orders", "users"} |->
                      IF w.targets = MCOrder /\ ~w.again THEN Nothing ELSE MCBefore]]

MCVaried ==
  [kind : {"rpc", "http"}, source : {"repository", "apollo", "host"},
   service : {<<>>, <<Patch("A", "discovType", "consul", FALSE)>>},
   local : {{}, {"A"}, {"B"}}, disabled : {<<>>, <<"A">>},
   listen : {"loopback", "all-interfaces"}, again : BOOLEAN, apart : BOOLEAN, fits : BOOLEAN,
   repository : MCDocuments, apollo : MCDocuments \cup {MCLacking},
   targets : {MCOrder, <<"users">>}]

\* Combinations that say nothing new are left out.
MCSetups ==
  {MCSetup(w) : w \in {v \in MCVaried :
     /\ v.source = "repository" => v.apollo = MCLacking
     /\ v.source = "host" => v.repository = MCShared
     /\ v.source # "host" => v.fits
     /\ v.kind = "http" <=> v.listen = "all-interfaces"
     /\ v.kind = "http" => v.source = "repository"
     /\ v.service # <<>> => v.kind = "rpc"
     /\ v.again => v.targets = MCOrder /\ v.local # {}
     /\ ~v.apart => v.kind = "http" /\ v.local = {} /\ v.disabled = <<>>}}

-----------------------------------------------------------------------------
(* Plugins                                                                   *)

MCTasks ==
  [does : {"install", "remove"}, store : Stores, named : {TRUE}]
  \cup {[does |-> "builtin", store |-> "global", named |-> TRUE]}
  \cup {[does |-> "run", store |-> "global", named |-> TRUE]}
  \cup [does : {"run"}, store : {"either"}, named : BOOLEAN]

-----------------------------------------------------------------------------
(* The composition                                                           *)

ToolsInit ==
  /\ part \in {"ktctl", "config", "plugins"}
  /\ Init /\ (part = "ktctl" \/ (driver = "command" /\ ~safe /\ ~kubectl))
  /\ PluginInit
  /\ part = "plugins" \/ (/\ \A s \in Stores : entry[s] = NoFile
                             /\ \A c \in Commands : task[c].does = "builtin")
  /\ ConfigInit
  /\ part = "config" \/ (/\ ~setup.apart /\ setup.targets = MCOrder
                            /\ setup.repository = MCShared)

ToolsNext ==
  /\ UNCHANGED part
  /\ \/ part = "ktctl" /\ Next /\ UNCHANGED <<configVars, pluginVars>>
     \/ part = "config" /\ ConfigNext /\ UNCHANGED <<vars, pluginVars>>
     \/ part = "plugins" /\ PluginNext /\ UNCHANGED <<vars, configVars>>

ToolsSpec ==
  /\ ToolsInit /\ [][ToolsNext]_<<part, vars, configVars, pluginVars>>
  /\ WF_vars(part = "ktctl" /\ Step) /\ WF_vars(part = "ktctl" /\ Expire)
  /\ WF_configVars(part = "config" /\ ConfigStep)
  /\ \A c \in Commands : WF_pluginVars(part = "plugins" /\ CommandMoves(c))

\* The liveness of each part, when it moves: the call of ktctl returns (CallEnds), the
\* delivery of the configuration ends (DeliveryEnds), and so does every command about
\* plugins whose user answers (PluginCommandsEnd).
EveryoneEnds ==
  <>(\/ part = "ktctl" /\ pc = "returned"
     \/ part = "config" /\ stage \in Ended
     \/ part = "plugins" /\ \A c \in Commands : at[c] \in Ends \cup {"ask", "select"})
=============================================================================
