------------------------------- MODULE ModuleSdk -------------------------------
(***************************************************************************)
(* Plugging product modules into the kernel (sdk/module.py) over the three *)
(* registries (kernel/registry.py, kernel/module_registry.py).             *)
(*                                                                         *)
(* install_module registers one thing after the other and undoes nothing   *)
(* when a later one is refused; meanwhile other threads of the host start  *)
(* workflows (NeutralRunner.start).  step counts through the capabilities, *)
(* then the workflows, then the manifest, then the handshake; 0 is idle.   *)
(*                                                                         *)
(* A capability is [id, version]; a workflow [id, uses]; a loaded module   *)
(* has an id, what it ships (capabilities, workflows) and what its         *)
(* manifest says it ships (declares, lists).  Ids keep the spelling they   *)
(* were given, a registry key is Key of it.  The order builders sort       *)
(* manifests into is left out: no check looks at it.                       *)
(***************************************************************************)
EXTENDS Integers, Sequences

CONSTANTS
    Draft,       \* what ModuleBuilders are given: a module's id, capabilities and
                 \* workflows and the capabilities it attaches handlers to
    HandBuilt,   \* LoadedModules made without a builder
    Native,      \* the capabilities the host registers itself
    Key,         \* an id as spelt |-> its registry key, "" when it is blank
    MaxInstalls  \* bound: calls of install_module

VARIABLES
    actions,     \* ActionRegistry: key |-> capability
    workflows,   \* WorkflowRegistry: key |-> workflow
    modules,     \* ModuleRegistry: key |-> the module's manifest
    installing,  \* the module being installed
    step,
    started,     \* workflows of which an instance was started (never read)
    attempts     \* the calls that returned or raised (never read)

sdkvars == <<actions, workflows, modules, installing, step, started, attempts>>

Items(seq) == {seq[i] : i \in 1..Len(seq)}
AreLists(m) == /\ m.capabilities \in Seq(Items(m.capabilities))
               /\ m.workflows \in Seq(Items(m.workflows))

ASSUME SdkAssumption ==
    MaxInstalls \in Nat /\ \A m \in Draft \cup HandBuilt : AreLists(m)

Ids(seq)   == [i \in 1..Len(seq) |-> seq[i].id]
Distinct(seq) == \A i, j \in 1..Len(seq) : seq[i] = seq[j] => i = j

-----------------------------------------------------------------------------
(* ModuleBuilder.build *)

Builds(d) ==
    LET owned == Items(Ids(d.capabilities))
    IN  /\ Distinct(Ids(d.capabilities)) /\ d.handlers \subseteq owned
        /\ Distinct(Ids(d.workflows))
        /\ \A w \in Items(d.workflows) : w.uses \subseteq owned

Built(d) == [id |-> d.id, capabilities |-> d.capabilities, workflows |-> d.workflows,
             declares |-> Ids(d.capabilities), lists |-> Items(Ids(d.workflows))]

FromBuilder == {Built(d) : d \in {e \in Draft : Builds(e)}}

-----------------------------------------------------------------------------
(* Registry *)

Has(registry, id) == Key[id] \in DOMAIN registry
Put(registry, id, value) ==
    [k \in DOMAIN registry \cup {Key[id]} |-> IF k = Key[id] THEN value ELSE registry[k]]

SomeResolve(w) == w.uses = {} \/ \E c \in w.uses : Has(actions, c) \* mutant
\* assert_capabilities_registered (a blank reference raises as well)
Resolves(w) == \A c \in w.uses : Has(actions, c)

\* ModuleRegistry.assert_consistent_with: over every manifest there is, and declarations
\* are compared as they are spelt.
OnlyKnown(manifests) == \* mutant: declared twice is fine
    \A k \in DOMAIN manifests : \A c \in Items(manifests[k].declares) : Has(actions, c)
Consistent(manifests) ==
    /\ \A k \in DOMAIN manifests :
          /\ Distinct(manifests[k].declares)
          /\ \A c \in Items(manifests[k].declares) : Has(actions, c)
    /\ \A k, l \in DOMAIN manifests :
          k # l => Items(manifests[k].declares) \cap Items(manifests[l].declares) = {}

-----------------------------------------------------------------------------

NoModule == [id |-> "", capabilities |-> <<>>, workflows |-> <<>>, declares |-> <<>>,
             lists |-> {}]

SdkInit ==
    /\ actions = [k \in {Key[c.id] : c \in Native} |-> CHOOSE c \in Native : Key[c.id] = k]
    /\ workflows = <<>> /\ modules = <<>>
    /\ installing = NoModule /\ step = 0
    /\ started = {} /\ attempts = <<>>

Install(m) ==
    /\ step = 0 /\ Len(attempts) < MaxInstalls
    /\ installing' = m /\ step' = 1
    /\ UNCHANGED <<actions, workflows, modules, started, attempts>>

Proceeds == step' = step + 1 /\ UNCHANGED <<installing, attempts>>
Returns(result) ==
    /\ attempts' = Append(attempts, [module |-> installing, result |-> result])
    /\ installing' = NoModule /\ step' = 0

FirstWins == \* mutant: a capability that is there already is left as it is
    /\ step \in 1..Len(installing.capabilities)
    /\ LET spec == installing.capabilities[step]
       IN  actions' = IF Has(actions, spec.id) THEN actions ELSE Put(actions, spec.id, spec)
    /\ Proceeds /\ UNCHANGED <<workflows, modules, started>>

RegisterCapability ==
    /\ step \in 1..Len(installing.capabilities)
    /\ LET spec == installing.capabilities[step]
       IN  \/ Has(actions, spec.id) /\ Returns("duplicate") /\ UNCHANGED actions
           \/ ~Has(actions, spec.id) /\ actions' = Put(actions, spec.id, spec) /\ Proceeds
    /\ UNCHANGED <<workflows, modules, started>>

AtWorkflow == step - Len(installing.capabilities)

RegisterWorkflow ==
    /\ step # 0 /\ AtWorkflow \in 1..Len(installing.workflows)
    /\ LET w == installing.workflows[AtWorkflow]
       IN  \/ ~Resolves(w) /\ Returns("unknown") /\ UNCHANGED workflows
           \/ Resolves(w) /\ Key[w.id] = "" /\ Returns("blank") /\ UNCHANGED workflows
           \/ Resolves(w) /\ Has(workflows, w.id) /\ Returns("duplicate") /\ UNCHANGED workflows
           \/ /\ Resolves(w) /\ Key[w.id] # "" /\ ~Has(workflows, w.id)
              /\ workflows' = Put(workflows, w.id, w) /\ Proceeds
    /\ UNCHANGED <<actions, modules, started>>

AtManifest == AtWorkflow - Len(installing.workflows)

RegisterManifest ==
    /\ step # 0 /\ AtManifest = 1
    /\ \/ Has(modules, installing.id) /\ Returns("duplicate") /\ UNCHANGED modules
       \/ /\ ~Has(modules, installing.id) /\ Proceeds
          /\ modules' = Put(modules, installing.id,
                            [declares |-> installing.declares, lists |-> installing.lists])
    /\ UNCHANGED <<actions, workflows, started>>

\* A module that is refused here stays registered, its manifest included.
Handshake ==
    /\ step # 0 /\ AtManifest = 2
    /\ \/ ~Consistent(modules) /\ Returns("inconsistent")
       \/ /\ Consistent(modules) /\ installing.lists # Items(Ids(installing.workflows))
          /\ Returns("mismatch")
       \/ /\ Consistent(modules) /\ installing.lists = Items(Ids(installing.workflows))
          /\ Returns("ok")
    /\ UNCHANGED <<actions, workflows, modules, started>>

\* NeutralRunner.start, by another thread: the workflow need not be registered.
Start(w) ==
    /\ Resolves(w)
    /\ started' = started \cup {w}
    /\ UNCHANGED <<actions, workflows, modules, installing, step, attempts>>

Loaded == FromBuilder \cup HandBuilt

SdkNext ==
    \/ \E m \in Loaded : Install(m)
    \/ RegisterCapability \/ RegisterWorkflow \/ RegisterManifest \/ Handshake
    \/ \E m \in Loaded : \E w \in Items(m.workflows) : Start(w)

SdkSpec == SdkInit /\ [][SdkNext]_sdkvars
===============================================================================
