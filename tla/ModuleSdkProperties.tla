-------------------------- MODULE ModuleSdkProperties --------------------------
(***************************************************************************)
(* What holds of the registries, whatever was refused half way.            *)
(***************************************************************************)
EXTENDS ModuleSdk

Accepted == {k \in 1..Len(attempts) : attempts[k].result = "ok"}

\* No workflow of the registry, and none that runs, names a capability the registry has
\* not, even while a module is being installed and after one was refused half way
\* (NeutralRunner looks its capability up when the transition fires).
WorkflowsResolvable ==
    /\ \A k \in DOMAIN workflows : \A c \in workflows[k].uses : Key[c] \in DOMAIN actions
    /\ \A w \in started : \A c \in w.uses : Key[c] \in DOMAIN actions

\* Of a module that was accepted, everything it ships is what its id resolves to, and
\* stays so, and the workflows of a module from a builder resolve to that module's own
\* capabilities.  No two accepted modules ship capabilities under one key or declare one
\* in the same spelling.  No more is promised (module_registry.py:57-64): what a module
\* made by hand ships undeclared another may declare, and " crm.read" may be declared
\* beside "crm.read".
Whole(m) ==
    /\ \A spec \in Items(m.capabilities) : Has(actions, spec.id) /\ actions[Key[spec.id]] = spec
    /\ \A w \in Items(m.workflows) : Has(workflows, w.id) /\ workflows[Key[w.id]] = w
    /\ m \in FromBuilder => \A w \in Items(m.workflows) : \A c \in w.uses :
          \E spec \in Items(m.capabilities) : actions[Key[c]] = spec
Apart(m, o) ==
    /\ \A s \in Items(m.capabilities), t \in Items(o.capabilities) : Key[s.id] # Key[t.id]
    /\ Items(m.declares) \cap Items(o.declares) = {}
ModulesWhole ==
    /\ \A k \in Accepted : Whole(attempts[k].module)
    /\ \A k, l \in Accepted : k # l => Apart(attempts[k].module, attempts[l].module)

\* The handshake never refuses a module from a builder for its own sake: when it does,
\* an earlier module made by hand was refused there and its manifest is still in the
\* registry (the handshake looks at every manifest).
RejectionNeeded ==
    \A k \in 1..Len(attempts) :
        attempts[k].result = "inconsistent" /\ attempts[k].module \in FromBuilder =>
            \E j \in 1..(k - 1) : /\ attempts[j].result = "inconsistent"
                                  /\ attempts[j].module \notin FromBuilder
                                  /\ Has(modules, attempts[j].module.id)
===============================================================================
