--------------------------- MODULE ConfigDocument ---------------------------
(***************************************************************************)
(* What Conven does to the YAML application document of a service:        *)
(* patches, guards, fallbacks of bindings, and the decisions it takes by   *)
(* reading it (internal/materialize/yaml.go, binding_fallback.go,          *)
(* internal/rpcconfig, internal/runtime/external_dependencies.go).         *)
(*                                                                         *)
(* A document has scalar settings at its root and one mapping for each     *)
(* RPC client binding.  The mapping of Shared may carry an anchor, and the *)
(* other bindings may be aliases of it.  A mapping is abstracted to its    *)
(* discovType and its direct target (endpoints and Etcd count as targets). *)
(***************************************************************************)
EXTENDS Sequences

CONSTANTS
  Settings,  \* the scalar settings at the root
  Values,    \* what they may be set to
  Bindings,  \* the RPC client bindings
  Shared     \* the binding whose mapping others may alias

ASSUME SharedAssumption == Shared \in Bindings /\ Settings \cap Bindings = {}

Absent == [kind |-> "absent"]
Scalar(v) == [kind |-> "scalar", value |-> v]
Alias == [kind |-> "alias"]

\* discovType is "missing", "empty", "consul", "etcd", "unknown", or "consul?": Consul
\* without a complete consul mapping; target is "none", "local", "remote" or "bad".
\* The empty string is "empty".
Client(d, t) == [kind |-> "mapping", discovType |-> d, target |-> t]

DiscovTypes == {"missing", "empty", "consul", "consul?", "etcd", "unknown"}
DirectTargets == {"none", "local", "remote", "bad"}
Nodes ==
  {Absent, Alias} \cup [kind : {"scalar"}, value : Values]
  \cup [kind : {"mapping"}, discovType : DiscovTypes, target : DirectTargets]

\* One document with unique keys is "plain", or has "merge" keys, or is "broken".
Documents ==
  [form : {"plain", "merge", "broken"}, anchored : BOOLEAN, node : [Settings \cup Bindings -> Nodes]]
Document(form, anchored, node) == [form |-> form, anchored |-> anchored, node |-> node]
Nothing == [form |-> "none"]

-----------------------------------------------------------------------------
(* Reading                                                                   *)

\* The node behind an alias
Resolved(d, k) == IF d.node[k] = Alias THEN d.node[Shared] ELSE d.node[k]

\* An alias whose anchor a replacement took away makes the next reading fail.
Decodable(d) ==
  /\ d.form \in {"plain", "merge"}
  /\ d.anchored \/ \A b \in Bindings : d.node[b] # Alias

\* Guards, optional patches and the preflight refuse merge keys too.
Strict(d) == Decodable(d) /\ d.form = "plain"

-----------------------------------------------------------------------------
(* Patches: p.field is "whole", the node, or "discovType", that of a mapping   *)

\* Whether the path of an optional patch can be looked up
Inspectable(d, p) ==
  Strict(d) /\ (p.field = "whole" \/ Resolved(d, p.key).kind \in {"absent", "mapping"})

\* Whether it is there: aliases are followed
Present(d, p) ==
  LET n == Resolved(d, p.key)
  IN IF p.field = "whole" THEN n # Absent ELSE n.kind = "mapping" /\ n.discovType # "missing"

\* A patch does not follow aliases.
CanPatch(d, p) ==
  Decodable(d) /\ (p.field = "whole" \/ d.node[p.key].kind \in {"absent", "mapping"})

\* The new node has no anchor.
Replaced(d, k, n) ==
  Document(d.form, d.anchored /\ k # Shared, [d.node EXCEPT ![k] = n])

Patched(d, p) ==
  LET old == d.node[p.key]
      target == IF old = Absent THEN "none" ELSE old.target
  IN IF p.field = "whole" THEN Replaced(d, p.key, p.value)
     ELSE Document(d.form, d.anchored, [d.node EXCEPT ![p.key] = Client(p.value, target)])

-----------------------------------------------------------------------------
(* Guards                                                                    *)

GuardedThere(d, g) == Strict(d) /\ Resolved(d, g.key).kind = "scalar"

CanGuard(d, g) ==
  /\ Strict(d)
  /\ \/ Resolved(d, g.key).kind = "scalar"
     \/ g.create /\ d.node[g.key] = Absent

Guarded(d, g) == Replaced(d, g.key, Scalar(g.value))

Satisfies(d, g) == Strict(d) /\ Resolved(d, g.key) = Scalar(g.value)

-----------------------------------------------------------------------------
(* Routes                                                                    *)

\* rpcconfig.Validate: whether a client's mapping gives it a usable route
Route(n) ==
  CASE n = Absent -> "inactive"
    [] n # Absent /\ n.kind # "mapping" -> "invalid"
    [] n.kind = "mapping" /\ n.discovType = "unknown" -> "invalid"
    [] n.kind = "mapping" /\ n.discovType = "consul" -> "active"
    [] n.kind = "mapping" /\ n.discovType = "consul?" -> "incomplete"
    [] n.kind = "mapping" /\ n.discovType \in {"missing", "empty", "etcd"} ->
         CASE n.target = "bad" -> "invalid"
           [] n.target \in {"local", "remote"} -> "active"
           [] n.target = "none" -> IF n.discovType = "etcd" THEN "incomplete" ELSE "inactive"

\* Nothing of a disabled client is left that could keep it active.
Disabled(n) ==
  n = Absent \/ (n.kind = "mapping" /\ n.discovType \in {"missing", "empty"} /\ n.target = "none")

\* The bindings whose mapping names Consul, in the final document
ConsulClients(d) ==
  {b \in Bindings : Resolved(d, b).kind = "mapping" /\ Resolved(d, b).discovType \in {"consul", "consul?"}}

\* What the walk over the final document refuses
WalkRefuses(d, local) ==
  \/ ~Strict(d)
  \/ d.node["discovType"] = Scalar("consul")
  \/ \E b \in ConsulClients(d) : b \in local \/ Resolved(d, b).discovType = "consul?"

-----------------------------------------------------------------------------
(* Fallbacks: a binding Apollo does not have is taken from the repository    *)

\* Both documents are cloned with their aliases expanded.
Expanded(d) == Document(d.form, FALSE, [k \in DOMAIN d.node |-> Resolved(d, k)])

MergeRefuses(apollo, repository, bindings) ==
  \/ ~Strict(apollo)
  \/ repository # Nothing /\ ~Strict(repository)
  \/ \E b \in bindings :
       IF apollo.node[b] # Absent THEN Route(Resolved(apollo, b)) \in {"invalid", "incomplete"}
       ELSE repository # Nothing /\ Route(Resolved(repository, b)) \in {"invalid", "incomplete"}

Merged(apollo, repository, bindings) ==
  LET missing == {b \in bindings : apollo.node[b] = Absent}
      taken == IF repository = Nothing THEN {}
               ELSE {b \in missing : Route(Resolved(repository, b)) = "active"}
      clone == Expanded(apollo)
  IN Document(clone.form, clone.anchored,
       [k \in DOMAIN clone.node |->
          IF k \in taken THEN Resolved(repository, k) ELSE clone.node[k]])
=============================================================================
