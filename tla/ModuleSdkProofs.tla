---------------------------- MODULE ModuleSdkProofs ----------------------------
(***************************************************************************)
(* The properties of ModuleSdkProperties for every set of modules, every   *)
(* spelling and any number of installations.  The argument: registries     *)
(* only grow and never change what a key stands for (RegistriesGrow); what *)
(* the module being installed has behind it is in them (Progress), and     *)
(* what it registered was nobody's (Fresh); and as long as no module made  *)
(* by hand was refused at the handshake, all manifests but its own are     *)
(* consistent (Sane).                                                      *)
(***************************************************************************)
EXTENDS ModuleSdkProperties, TLAPS

-----------------------------------------------------------------------------
(* Registries. *)

\* Registering makes an id resolve to the value and leaves the other keys alone.
LEMMA PutFacts ==
    ASSUME NEW r, NEW id, NEW v
    PROVE  /\ DOMAIN Put(r, id, v) = DOMAIN r \cup {Key[id]}
           /\ Put(r, id, v)[Key[id]] = v
           /\ \A k \in DOMAIN r : k # Key[id] => Put(r, id, v)[k] = r[k]
BY DEF Put

\* One registry holds all that another held, unchanged.
Extends(r, s) == \A k \in DOMAIN r : k \in DOMAIN s /\ s[k] = r[k]

\* A key that was free is added, all others stay.
LEMMA PutExtends ==
    ASSUME NEW r, NEW id, NEW v, ~Has(r, id)
    PROVE  Extends(r, Put(r, id, v)) /\ Has(Put(r, id, v), id) /\ Put(r, id, v)[Key[id]] = v
BY DEF Put, Extends, Has

\* A registry extends itself.
LEMMA ExtendsItself == ASSUME NEW r PROVE Extends(r, r)
BY DEF Extends

\* No step takes anything out of a registry or replaces it (Registry.register refuses
\* duplicates, and there is no other way in).
LEMMA RegistriesGrow ==
    ASSUME [SdkNext]_sdkvars
    PROVE  Extends(actions, actions') /\ Extends(workflows, workflows')
           /\ Extends(modules, modules')
<1>1. ASSUME RegisterCapability PROVE Extends(actions, actions')
      BY <1>1, PutExtends, ExtendsItself DEF RegisterCapability
<1>2. ASSUME RegisterWorkflow PROVE Extends(workflows, workflows')
      BY <1>2 DEF RegisterWorkflow, Put, Extends, Has
<1>3. ASSUME RegisterManifest PROVE Extends(modules, modules')
      BY <1>3, PutExtends, ExtendsItself DEF RegisterManifest
<1>4. CASE RegisterCapability BY <1>1, <1>4, ExtendsItself DEF RegisterCapability
<1>5. CASE RegisterWorkflow BY <1>2, <1>5, ExtendsItself DEF RegisterWorkflow
<1>6. CASE RegisterManifest BY <1>3, <1>6, ExtendsItself DEF RegisterManifest
<1>7. CASE Handshake BY <1>7, ExtendsItself DEF Handshake
<1>8. CASE \E m \in Loaded : Install(m) BY <1>8, ExtendsItself DEF Install
<1>9. CASE \E m \in Loaded : \E w \in Items(m.workflows) : Start(w)
      BY <1>9, ExtendsItself DEF Start
<1>10. CASE UNCHANGED sdkvars BY <1>10, ExtendsItself DEF sdkvars
<1> QED BY <1>4, <1>5, <1>6, <1>7, <1>8, <1>9, <1>10 DEF SdkNext

-----------------------------------------------------------------------------
(* No workflow names a capability that is not there. *)

\* The first property is inductive as it stands: what is put in a registry or started
\* was looked up, and what was found is not taken out.
THEOREM WorkflowsAreResolvable == SdkSpec => []WorkflowsResolvable
<1>1. SdkInit => WorkflowsResolvable
      BY DEF SdkInit, WorkflowsResolvable
<1>2. ASSUME WorkflowsResolvable, [SdkNext]_sdkvars PROVE WorkflowsResolvable'
  <2>1. \A k \in DOMAIN actions : k \in DOMAIN actions'
        BY <1>2, RegistriesGrow DEF Extends
  <2>2. CASE RegisterWorkflow
    <3>1. CASE UNCHANGED workflows
          BY <1>2, <2>2, <3>1 DEF WorkflowsResolvable, RegisterWorkflow
    <3>2. CASE /\ Resolves(installing.workflows[AtWorkflow])
               /\ workflows' = Put(workflows, installing.workflows[AtWorkflow].id,
                                   installing.workflows[AtWorkflow])
      <4>1. \A k \in DOMAIN workflows' : \/ k \in DOMAIN workflows /\ workflows'[k] = workflows[k]
                                         \/ workflows'[k] = installing.workflows[AtWorkflow]
            BY <3>2 DEF Put
      <4> QED BY <1>2, <2>1, <2>2, <3>2, <4>1 DEF WorkflowsResolvable, RegisterWorkflow,
                                                  Resolves, Has
    <3> QED BY <2>2, <3>1, <3>2 DEF RegisterWorkflow
  <2>3. ASSUME NEW w, Start(w) PROVE WorkflowsResolvable'
        BY <1>2, <2>3 DEF WorkflowsResolvable, Start, Resolves, Has
  <2>4. CASE UNCHANGED <<workflows, started>>
        BY <1>2, <2>1, <2>4 DEF WorkflowsResolvable
  <2> QED BY <1>2, <2>2, <2>3, <2>4 DEF SdkNext, sdkvars, Install, RegisterCapability,
                                        RegisterManifest, Handshake
<1> QED BY <1>1, <1>2, PTL DEF SdkSpec

-----------------------------------------------------------------------------
(* The module being installed. *)

Results == {"duplicate", "unknown", "blank", "inconsistent", "mismatch", "ok"}

SdkType ==
    /\ step \in Nat
    /\ attempts \in Seq([module : Loaded, result : Results])
    /\ step # 0 => installing \in Loaded

\* What is loaded has lists of capabilities and workflows.
LEMMA LoadedHasLists == \A m \in Loaded : AreLists(m)
BY SdkAssumption DEF Loaded, FromBuilder, Built, AreLists

\* The lists of the module being installed have lengths.
LEMMA Lengths ==
    ASSUME SdkType, step # 0
    PROVE  /\ Len(installing.capabilities) \in Nat /\ Len(installing.workflows) \in Nat
           /\ step \in Nat
BY LoadedHasLists DEF SdkType, AreLists

\* A call that returns or raises is put at the end of the log, and is over.
Fails == \E result \in Results \ {"ok"} : Returns(result)
Over  == Fails \/ Returns("ok")

\* An installation that is over is one more attempt on record.
LEMMA OverFacts ==
    ASSUME SdkType, step # 0, Over
    PROVE  /\ SdkType' /\ step' = 0
           /\ Len(attempts') = Len(attempts) + 1
           /\ \A k \in 1..Len(attempts) : attempts'[k] = attempts[k]
           /\ attempts'[Len(attempts')].module = installing
<1>1. PICK result \in Results : Returns(result) BY DEF Over, Fails, Results
<1> QED BY <1>1 DEF SdkType, Returns

\* While a module is installed, either the count goes up or the call is over; only the
\* handshake lets it succeed.
LEMMA Moves ==
    ASSUME SdkType, RegisterCapability \/ RegisterWorkflow \/ RegisterManifest \/ Handshake
    PROVE  /\ step # 0
           /\ \/ Proceeds
              \/ Fails
              \/ Handshake /\ Returns("ok") /\ Consistent(modules)
<1>0. \A result \in Results \ {"ok"} : Returns(result) => Fails
      BY Zenon DEF Fails
<1>1. {"duplicate", "unknown", "blank", "inconsistent", "mismatch"} \subseteq Results \ {"ok"}
      BY DEF Results
<1>2. CASE RegisterCapability
  <2>1. step # 0 BY <1>2 DEF RegisterCapability, SdkType
  <2> QED BY <1>0, <1>1, <1>2, <2>1, Zenon DEF RegisterCapability
<1>3. CASE RegisterWorkflow BY <1>0, <1>1, <1>3, Zenon DEF RegisterWorkflow
<1>4. CASE RegisterManifest BY <1>0, <1>1, <1>4, Zenon DEF RegisterManifest
<1>5. CASE Handshake BY <1>0, <1>1, <1>5, Zenon DEF Handshake
<1> QED BY <1>2, <1>3, <1>4, <1>5

\* The types are inductive.
LEMMA TypeInit == SdkInit => SdkType
BY DEF SdkInit, SdkType

\* Every step keeps the types.
LEMMA TypeStep == ASSUME SdkType, [SdkNext]_sdkvars PROVE SdkType'
<1>1. CASE RegisterCapability \/ RegisterWorkflow \/ RegisterManifest \/ Handshake
  <2>1. step # 0 /\ (Proceeds \/ Over) BY <1>1, Moves DEF Over
  <2>2. CASE Proceeds BY <2>1, <2>2 DEF Proceeds, SdkType
  <2> QED BY <2>1, <2>2, OverFacts
<1>2. ASSUME NEW m \in Loaded, Install(m) PROVE SdkType'
      BY <1>2 DEF Install, SdkType
<1>3. CASE UNCHANGED <<installing, step, attempts>>
      BY <1>3 DEF SdkType
<1> QED BY <1>1, <1>2, <1>3 DEF SdkNext, Start, sdkvars

-----------------------------------------------------------------------------
(* The log of the calls. *)

SameLog == Accepted' = Accepted /\ \A k \in Accepted : attempts'[k] = attempts[k]
Admits  == Handshake /\ Returns("ok") /\ Consistent(modules)

\* A call that fails leaves the accepted ones as they are.
LEMMA FailsFacts == ASSUME SdkType, step # 0, Fails PROVE SameLog
BY DEF SdkType, Fails, Results, Returns, SameLog, Accepted

\* A call that succeeds is one more of them.
LEMMA AdmitsFacts ==
    ASSUME SdkType, Admits
    PROVE  /\ step # 0 /\ step' = 0 /\ Len(attempts) + 1 \notin Accepted
           /\ Accepted' = Accepted \cup {Len(attempts) + 1}
           /\ \A k \in Accepted : attempts'[k] = attempts[k]
           /\ attempts'[Len(attempts) + 1].module = installing
<1>1. step # 0 /\ Returns("ok") BY DEF Admits, Handshake
<1> QED BY <1>1 DEF SdkType, Returns, Accepted

\* Every step keeps the log or admits the module being installed.
LEMMA LogStep == ASSUME SdkType, [SdkNext]_sdkvars PROVE SameLog \/ Admits
<1>1. CASE RegisterCapability \/ RegisterWorkflow \/ RegisterManifest \/ Handshake
  <2>1. CASE Proceeds BY <2>1 DEF Proceeds, SameLog, Accepted
  <2> QED BY <1>1, <2>1, Moves, FailsFacts DEF Admits
<1>2. CASE UNCHANGED attempts BY <1>2 DEF SameLog, Accepted
<1> QED BY <1>1, <1>2 DEF SdkNext, Install, Start, sdkvars

-----------------------------------------------------------------------------
(* Accepted modules are whole and apart. *)

Resolved(registry, id, value) == Has(registry, id) /\ registry[Key[id]] = value
ManifestOf(m) == [declares |-> m.declares, lists |-> m.lists]

\* What is registered is what its id resolves to.
LEMMA PutResolves == ASSUME NEW r, NEW id, NEW v PROVE Resolved(Put(r, id, v), id, v)
BY DEF Resolved, Has, Put

\* It stays so.
LEMMA StaysResolved ==
    ASSUME [SdkNext]_sdkvars, NEW id, NEW v
    PROVE  /\ Resolved(actions, id, v) => Resolved(actions', id, v)
           /\ Resolved(workflows, id, v) => Resolved(workflows', id, v)
           /\ Resolved(modules, id, v) => Resolved(modules', id, v)
BY RegistriesGrow DEF Extends, Resolved, Has

\* What the module being installed has behind it is in the registries.
CapabilitiesIn ==
    step # 0 => \A i \in 1..Len(installing.capabilities) : i < step =>
        Resolved(actions, installing.capabilities[i].id, installing.capabilities[i])
WorkflowsIn ==
    step # 0 => \A i \in 1..Len(installing.workflows) : i < AtWorkflow =>
        Resolved(workflows, installing.workflows[i].id, installing.workflows[i])
ManifestIn ==
    step # 0 /\ AtManifest > 1 => Resolved(modules, installing.id, ManifestOf(installing))
Progress == CapabilitiesIn /\ WorkflowsIn /\ ManifestIn

\* The count stands at one thing: a capability, a workflow, the manifest, the handshake.
LEMMA Counts ==
    ASSUME NEW s \in Nat, NEW a \in Nat, NEW b \in Nat
    PROVE  /\ s - a - b = 1 => s \notin 1..a /\ s - a \notin 1..b
           /\ s - a \in 1..b => s \notin 1..a /\ s - a - b # 1
           /\ s = 1 => s - a \in Int /\ s - a <= 1 /\ ~(s - a - b > 1)
           /\ s \in 1..a \/ s - a \in 1..b => ~(s - a - b > 1) /\ ~(s + 1 - a - b > 1)
           /\ s - a - b = 1 => ~(s - a - b > 1) /\ s + 1 - a - b > 1
BY SMT

\* A step that moves on registers what the count stands at.
LEMMA Registers ==
    ASSUME SdkType, Proceeds, RegisterCapability \/ RegisterWorkflow \/ RegisterManifest
    PROVE  /\ step # 0 /\ step' = step + 1 /\ installing' = installing
           /\ \/ /\ step \in 1..Len(installing.capabilities)
                 /\ ~Has(actions, installing.capabilities[step].id)
                 /\ Resolved(actions', installing.capabilities[step].id,
                             installing.capabilities[step])
                 /\ actions' = Put(actions, installing.capabilities[step].id,
                                   installing.capabilities[step])
                 /\ UNCHANGED modules
              \/ /\ AtWorkflow \in 1..Len(installing.workflows)
                 /\ Resolved(workflows', installing.workflows[AtWorkflow].id,
                             installing.workflows[AtWorkflow])
                 /\ UNCHANGED <<actions, modules>>
              \/ /\ AtManifest = 1
                 /\ ~Has(modules, installing.id)
                 /\ Resolved(modules', installing.id, ManifestOf(installing))
                 /\ modules' = Put(modules, installing.id, ManifestOf(installing))
                 /\ UNCHANGED actions
<1>1. step # 0 BY Moves
<1>2. step' = step + 1 /\ installing' = installing /\ step' # 0
      BY <1>1 DEF Proceeds, SdkType
<1>3. ASSUME NEW r PROVE ~Returns(r) BY <1>2 DEF Returns
<1>4. CASE RegisterCapability
      BY <1>1, <1>2, <1>3, <1>4, PutResolves, Zenon DEF RegisterCapability
<1>5. CASE RegisterWorkflow
      BY <1>1, <1>2, <1>3, <1>5, PutResolves, Zenon DEF RegisterWorkflow
<1>6. CASE RegisterManifest
      BY <1>1, <1>2, <1>3, <1>6, PutResolves, Zenon DEF RegisterManifest, ManifestOf
<1> QED BY <1>4, <1>5, <1>6

\* Every step ends the call, moves on, begins one or leaves it alone.
LEMMA Steps ==
    ASSUME SdkType, [SdkNext]_sdkvars
    PROVE  \/ step' = 0
           \/ Proceeds /\ (RegisterCapability \/ RegisterWorkflow \/ RegisterManifest)
           \/ \E m \in Loaded : Install(m)
           \/ UNCHANGED <<step, installing, attempts>>
<1>1. CASE RegisterCapability \/ RegisterWorkflow \/ RegisterManifest
  <2>1. step # 0 /\ (Proceeds \/ Over) BY <1>1, Moves DEF Over
  <2> QED BY <1>1, <2>1, OverFacts
<1>2. CASE Handshake
  <2>1. \E r : Returns(r) BY <1>2, Zenon DEF Handshake
  <2> QED BY <2>1 DEF Returns
<1> QED BY <1>1, <1>2 DEF SdkNext, Start, sdkvars

\* Progress is inductive.
LEMMA ProgressStep == ASSUME SdkType, Progress, [SdkNext]_sdkvars PROVE Progress'
<1>1. CASE step' = 0
      BY <1>1 DEF Progress, CapabilitiesIn, WorkflowsIn, ManifestIn
<1>2. CASE UNCHANGED <<step, installing, attempts>>
  <2>1. UNCHANGED <<AtWorkflow, AtManifest>> BY <1>2 DEF AtWorkflow, AtManifest
  <2> QED BY <1>2, <2>1, StaysResolved DEF Progress, CapabilitiesIn, WorkflowsIn, ManifestIn
<1>3. ASSUME NEW m \in Loaded, Install(m) PROVE Progress'
  <2>1. /\ step' = 1 /\ installing' = m
        /\ Len(m.capabilities) \in Nat /\ Len(m.workflows) \in Nat
        BY <1>3, LoadedHasLists DEF Install, AreLists
  <2>2. AtWorkflow' \in Int /\ AtWorkflow' <= 1 /\ ~(AtManifest' > 1)
        BY <2>1, Counts, 1 \in Nat, Zenon DEF AtWorkflow, AtManifest
  <2>3. CapabilitiesIn' BY <2>1 DEF CapabilitiesIn
  <2>4. WorkflowsIn' BY <2>1, <2>2 DEF WorkflowsIn
  <2>5. ManifestIn' BY <2>2 DEF ManifestIn
  <2> QED BY <2>3, <2>4, <2>5 DEF Progress
<1>4. CASE Proceeds /\ (RegisterCapability \/ RegisterWorkflow \/ RegisterManifest)
  <2>1. /\ step # 0 /\ step' = step + 1 /\ installing' = installing
        BY <1>4, Registers
  <2>2. /\ Len(installing.capabilities) \in Nat /\ Len(installing.workflows) \in Nat
        /\ step \in Nat
        BY <2>1, Lengths
  <2>3. /\ AtWorkflow \in Int /\ step = AtWorkflow + Len(installing.capabilities)
        /\ AtManifest \in Int /\ AtWorkflow = AtManifest + Len(installing.workflows)
        BY <2>2 DEF AtWorkflow, AtManifest
  <2>4. AtWorkflow' = AtWorkflow + 1 /\ AtManifest' = AtManifest + 1
        BY <2>1, <2>2 DEF AtWorkflow, AtManifest
  <2>5. CapabilitiesIn'
    <3> SUFFICES ASSUME NEW i \in 1..Len(installing.capabilities), i < step + 1
                 PROVE  Resolved(actions', installing.capabilities[i].id,
                                 installing.capabilities[i])
        BY <2>1 DEF CapabilitiesIn
    <3>1. CASE i < step
          BY <2>1, <3>1, StaysResolved DEF Progress, CapabilitiesIn
    <3>2. CASE i = step
      <4>1. AtWorkflow \notin 1..Len(installing.workflows) /\ AtManifest # 1
            BY <2>2, <2>3, <3>2
      <4> QED BY <1>4, <3>2, <4>1, Registers
    <3> QED BY <2>2, <3>1, <3>2
  <2>6. WorkflowsIn'
    <3> SUFFICES ASSUME NEW i \in 1..Len(installing.workflows), i < AtWorkflow + 1
                 PROVE  Resolved(workflows', installing.workflows[i].id,
                                 installing.workflows[i])
        BY <2>1, <2>4 DEF WorkflowsIn
    <3>1. CASE i < AtWorkflow
          BY <2>1, <3>1, StaysResolved DEF Progress, WorkflowsIn
    <3>2. CASE i = AtWorkflow
      <4>1. step \notin 1..Len(installing.capabilities) /\ AtManifest # 1
            BY <2>2, <3>2, Counts, Zenon DEF AtWorkflow, AtManifest
      <4> QED BY <1>4, <3>2, <4>1, Registers
    <3> QED BY <2>2, <2>3, <3>1, <3>2
  <2>7. ManifestIn'
    <3>1. CASE AtManifest > 1
          BY <2>1, <3>1, StaysResolved DEF Progress, ManifestIn, ManifestOf
    <3>2. CASE AtManifest = 1
      <4>1. /\ step \notin 1..Len(installing.capabilities)
            /\ AtWorkflow \notin 1..Len(installing.workflows)
            BY <2>2, <3>2, Counts, Zenon DEF AtWorkflow, AtManifest
      <4>2. Resolved(modules', installing.id, ManifestOf(installing))
            BY <1>4, <4>1, Registers
      <4> QED BY <2>1, <4>2 DEF ManifestIn, ManifestOf
    <3> QED BY <2>1, <2>2, <2>3, <2>4, <3>1, <3>2 DEF ManifestIn
  <2> QED BY <2>5, <2>6, <2>7 DEF Progress
<1> QED BY <1>1, <1>2, <1>3, <1>4, Steps

\* What an accepted module ships, and its manifest, is what its ids resolve to.
KeptOne(m, caps, flows, manifests) ==
    /\ \A spec \in Items(m.capabilities) : Resolved(caps, spec.id, spec)
    /\ \A w \in Items(m.workflows) : Resolved(flows, w.id, w)
    /\ Resolved(manifests, m.id, ManifestOf(m))
Kept == \A k \in Accepted : KeptOne(attempts[k].module, actions, workflows, modules)

\* Registries only grow, so this stays.
LEMMA KeptStays ==
    ASSUME [SdkNext]_sdkvars, NEW m, KeptOne(m, actions, workflows, modules)
    PROVE  KeptOne(m, actions', workflows', modules')
BY StaysResolved DEF KeptOne

\* At the handshake everything of the module is in.
LEMMA AllIn ==
    ASSUME SdkType, Progress, Handshake
    PROVE  /\ KeptOne(installing, actions, workflows, modules)
           /\ step # 0 /\ AtManifest > 1
           /\ \A i \in 1..Len(installing.capabilities) : i < step
<1>1. step # 0 /\ AtManifest = 2 BY DEF Handshake
<1>2. /\ Len(installing.capabilities) \in Nat /\ Len(installing.workflows) \in Nat
      /\ step \in Nat
      BY <1>1, Lengths
<1>3. ASSUME NEW s \in Nat, NEW a \in Nat, NEW b \in Nat, s - a - b = 2
      PROVE  (\A i \in 1..a : i < s) /\ (\A i \in 1..b : i < s - a)
      BY <1>3, SMT
<1>4. /\ \A i \in 1..Len(installing.capabilities) : i < step
      /\ \A i \in 1..Len(installing.workflows) : i < AtWorkflow
      BY <1>1, <1>2, <1>3, Zenon DEF AtManifest, AtWorkflow
<1>5. AtManifest > 1 BY <1>1
<1> QED BY <1>1, <1>4, <1>5, Zenon
        DEF Progress, CapabilitiesIn, WorkflowsIn, ManifestIn, KeptOne, Items

\* Kept is inductive.
LEMMA KeptStep == ASSUME SdkType, Progress, Kept, [SdkNext]_sdkvars PROVE Kept'
<1> SUFFICES ASSUME NEW k \in Accepted'
             PROVE  KeptOne(attempts'[k].module, actions', workflows', modules')
    BY DEF Kept
<1>1. CASE k \in Accepted /\ attempts'[k] = attempts[k]
      BY <1>1, KeptStays DEF Kept
<1>2. CASE Admits /\ k = Len(attempts) + 1
  <2>1. attempts'[k].module = installing BY <1>2, AdmitsFacts
  <2>2. KeptOne(installing, actions, workflows, modules) BY <1>2, AllIn DEF Admits
  <2> QED BY <2>1, <2>2, KeptStays
<1> QED BY <1>1, <1>2, LogStep, AdmitsFacts DEF SameLog

\* What the module being installed registered was no accepted module's.
FreshCapabilities ==
    step # 0 => \A k \in Accepted : \A i \in 1..Len(installing.capabilities) : i < step =>
        \A t \in Items(attempts[k].module.capabilities) :
            Key[installing.capabilities[i].id] # Key[t.id]
FreshId ==
    step # 0 /\ AtManifest > 1 =>
        \A k \in Accepted : Key[installing.id] # Key[attempts[k].module.id]
Fresh == FreshCapabilities /\ FreshId

\* Fresh is inductive, as registries refuse duplicates.
LEMMA FreshStep == ASSUME SdkType, Kept, Fresh, [SdkNext]_sdkvars PROVE Fresh'
<1>1. CASE step' = 0
      BY <1>1 DEF Fresh, FreshCapabilities, FreshId
<1>2. CASE UNCHANGED <<step, installing, attempts>>
  <2>1. UNCHANGED <<AtManifest, Accepted>> BY <1>2 DEF AtWorkflow, AtManifest, Accepted
  <2> QED BY <1>2, <2>1 DEF Fresh, FreshCapabilities, FreshId
<1>3. ASSUME NEW m \in Loaded, Install(m) PROVE Fresh'
  <2>1. /\ step' = 1 /\ installing' = m
        /\ Len(m.capabilities) \in Nat /\ Len(m.workflows) \in Nat
        BY <1>3, LoadedHasLists DEF Install, AreLists
  <2>2. ~(AtManifest' > 1)
        BY <2>1, Counts, 1 \in Nat, Zenon DEF AtWorkflow, AtManifest
  <2> QED BY <2>1, <2>2 DEF Fresh, FreshCapabilities, FreshId
<1>4. CASE Proceeds /\ (RegisterCapability \/ RegisterWorkflow \/ RegisterManifest)
  <2>1. /\ step # 0 /\ step' = step + 1 /\ installing' = installing
        /\ attempts' = attempts /\ Accepted' = Accepted
        BY <1>4, Registers DEF Proceeds, Accepted
  <2>2. /\ Len(installing.capabilities) \in Nat /\ Len(installing.workflows) \in Nat
        /\ step \in Nat
        BY <2>1, Lengths
  <2>3. FreshCapabilities'
    <3> SUFFICES ASSUME NEW k \in Accepted, NEW i \in 1..Len(installing.capabilities),
                        i < step + 1, NEW t \in Items(attempts[k].module.capabilities)
                 PROVE  Key[installing.capabilities[i].id] # Key[t.id]
        BY <2>1, Zenon DEF FreshCapabilities
    <3>1. CASE i < step BY <2>1, <3>1 DEF Fresh, FreshCapabilities
    <3>2. CASE i = step
      <4>1. AtWorkflow \notin 1..Len(installing.workflows) /\ AtManifest # 1
            BY <2>2, <3>2, Counts, Zenon DEF AtWorkflow, AtManifest
      <4>2. ~Has(actions, installing.capabilities[step].id)
            BY <1>4, <4>1, Registers
      <4>3. Has(actions, t.id) BY DEF Kept, KeptOne, Resolved
      <4> QED BY <3>2, <4>2, <4>3 DEF Has
    <3> QED BY <2>2, <3>1, <3>2
  <2>4. FreshId'
    <3> SUFFICES ASSUME AtManifest' > 1, NEW k \in Accepted
                 PROVE  Key[installing.id] # Key[attempts[k].module.id]
        BY <2>1, Zenon DEF FreshId
    <3>1. CASE AtManifest > 1 BY <2>1, <3>1 DEF Fresh, FreshId
    <3>2. CASE AtManifest = 1
      <4>1. /\ step \notin 1..Len(installing.capabilities)
            /\ AtWorkflow \notin 1..Len(installing.workflows)
            BY <2>2, <3>2, Counts, Zenon DEF AtWorkflow, AtManifest
      <4>2. ~Has(modules, installing.id) BY <1>4, <4>1, Registers
      <4>3. Has(modules, attempts[k].module.id) BY DEF Kept, KeptOne, Resolved
      <4> QED BY <4>2, <4>3 DEF Has
    <3>3. AtManifest \in Int /\ AtManifest' = AtManifest + 1
          BY <2>1, <2>2 DEF AtWorkflow, AtManifest
    <3> QED BY <3>1, <3>2, <3>3
  <2> QED BY <2>3, <2>4 DEF Fresh
<1> QED BY <1>1, <1>2, <1>3, <1>4, Steps

AllApart == \A k, l \in Accepted : k # l => Apart(attempts[k].module, attempts[l].module)
WholeInv == SdkType /\ Progress /\ Kept /\ Fresh /\ AllApart

\* Being apart goes both ways.
LEMMA ApartSymmetric == ASSUME NEW m, NEW o, Apart(m, o) PROVE Apart(o, m)
BY DEF Apart

\* The module the handshake admits is apart from all that were accepted.
LEMMA AdmitsApart ==
    ASSUME SdkType, Progress, Kept, Fresh, Admits, NEW k \in Accepted
    PROVE  Apart(installing, attempts[k].module)
<1>1. /\ step # 0 /\ AtManifest > 1 /\ Consistent(modules)
      /\ \A i \in 1..Len(installing.capabilities) : i < step
      /\ Resolved(modules, installing.id, ManifestOf(installing))
      BY AllIn DEF Admits, KeptOne
<1>2. \A s \in Items(installing.capabilities), t \in Items(attempts[k].module.capabilities) :
         Key[s.id] # Key[t.id]
      BY <1>1, Zenon DEF Fresh, FreshCapabilities, Items
<1>3. Key[installing.id] # Key[attempts[k].module.id]
      BY <1>1 DEF Fresh, FreshId
<1>4. Resolved(modules, attempts[k].module.id, ManifestOf(attempts[k].module))
      BY DEF Kept, KeptOne
<1>5. Items(modules[Key[installing.id]].declares)
         \cap Items(modules[Key[attempts[k].module.id]].declares) = {}
      BY <1>1, <1>3, <1>4, Zenon DEF Consistent, Resolved, Has
<1>6. /\ modules[Key[installing.id]].declares = installing.declares
      /\ modules[Key[attempts[k].module.id]].declares = attempts[k].module.declares
      BY <1>1, <1>4 DEF Resolved, ManifestOf
<1> QED BY <1>2, <1>5, <1>6, Zenon DEF Apart

\* Being apart is inductive.
LEMMA ApartStep ==
    ASSUME WholeInv, [SdkNext]_sdkvars
    PROVE  AllApart'
<1> SUFFICES ASSUME NEW k \in Accepted', NEW l \in Accepted', k # l
             PROVE  Apart(attempts'[k].module, attempts'[l].module)
    BY Zenon DEF AllApart
<1>1. CASE SameLog BY <1>1 DEF SameLog, WholeInv, AllApart
<1>2. CASE Admits
  <2> DEFINE new == Len(attempts) + 1
  <2>1. /\ Accepted' = Accepted \cup {new} /\ new \notin Accepted
        /\ \A j \in Accepted : attempts'[j] = attempts[j]
        /\ attempts'[new].module = installing
        BY <1>2, AdmitsFacts DEF WholeInv
  <2>2. \A j \in Accepted : /\ Apart(installing, attempts[j].module)
                            /\ Apart(attempts[j].module, installing)
        BY <1>2, AdmitsApart, ApartSymmetric DEF WholeInv
  <2> HIDE DEF new
  <2>3. CASE k = new BY <2>1, <2>2, <2>3
  <2>4. CASE l = new BY <2>1, <2>2, <2>4
  <2> QED BY <2>1, <2>3, <2>4 DEF WholeInv, AllApart
<1> QED BY <1>1, <1>2, LogStep DEF WholeInv

\* The workflows of a module from a builder name its own capabilities only.
LEMMA BuilderOwns ==
    \A m \in FromBuilder : \A w \in Items(m.workflows) : \A c \in w.uses :
        \E spec \in Items(m.capabilities) : spec.id = c
<1> SUFFICES ASSUME NEW d \in Draft, Builds(d), NEW w \in Items(d.workflows), NEW c \in w.uses
             PROVE  \E spec \in Items(d.capabilities) : spec.id = c
    BY DEF FromBuilder, Built
<1>1. c \in Items(Ids(d.capabilities)) BY DEF Builds
<1>2. d.capabilities \in Seq(Items(d.capabilities)) BY SdkAssumption DEF AreLists
<1>3. Len(Ids(d.capabilities)) = Len(d.capabilities) BY <1>2 DEF Ids
<1> QED BY <1>1, <1>2, <1>3 DEF Items, Ids

\* What an accepted module ships is what its ids resolve to, for good, no two accepted
\* modules ship capabilities under one key or declare one in the same spelling, whatever
\* else was refused half way.
THEOREM AcceptedModulesAreWhole == SdkSpec => []ModulesWhole
<1>1. SdkInit => WholeInv
  <2> SUFFICES ASSUME SdkInit PROVE WholeInv
      OBVIOUS
  <2>1. Accepted = {} /\ step = 0 BY DEF SdkInit, Accepted
  <2> QED BY <2>1, TypeInit DEF WholeInv, Progress, CapabilitiesIn, WorkflowsIn, ManifestIn,
                                Kept, Fresh, FreshCapabilities, FreshId, AllApart
<1>2. WholeInv /\ [SdkNext]_sdkvars => WholeInv'
      BY TypeStep, ProgressStep, KeptStep, FreshStep, ApartStep DEF WholeInv
<1>3. WholeInv => ModulesWhole
  <2> SUFFICES ASSUME WholeInv, NEW k \in Accepted PROVE Whole(attempts[k].module)
      BY DEF WholeInv, AllApart, ModulesWhole
  <2>1. KeptOne(attempts[k].module, actions, workflows, modules)
        BY DEF WholeInv, Kept
  <2>2. ASSUME attempts[k].module \in FromBuilder,
               NEW w \in Items(attempts[k].module.workflows), NEW c \in w.uses
        PROVE  \E spec \in Items(attempts[k].module.capabilities) : actions[Key[c]] = spec
    <3>1. PICK spec \in Items(attempts[k].module.capabilities) : spec.id = c
          BY <2>2, BuilderOwns
    <3> QED BY <2>1, <3>1 DEF KeptOne, Resolved
  <2> QED BY <2>1, <2>2 DEF Whole, KeptOne, Resolved
<1> QED BY <1>1, <1>2, <1>3, PTL DEF SdkSpec

-----------------------------------------------------------------------------
(* The handshake refuses no builder's module for its own sake. *)

Refused(k) == attempts[k].result = "inconsistent"
Poisoned == \E k \in 1..Len(attempts) : Refused(k) /\ attempts[k].module \notin FromBuilder

\* The manifests that are in the registry, but for the one just put there.
OtherKeys == IF step # 0 /\ AtManifest > 1 THEN DOMAIN modules \ {Key[installing.id]}
                                           ELSE DOMAIN modules

ConsistentOn(manifests, keys, caps) ==
    /\ \A k \in keys : /\ Distinct(manifests[k].declares)
                       /\ \A c \in Items(manifests[k].declares) : Has(caps, c)
    /\ \A k, l \in keys :
          k # l => Items(manifests[k].declares) \cap Items(manifests[l].declares) = {}

\* They agree, and declare nothing of what the module being installed registered.
OthersAgree == ConsistentOn(modules, OtherKeys, actions)
OthersApart ==
    step # 0 => \A l \in OtherKeys : \A c \in Items(modules[l].declares) :
        \A i \in 1..Len(installing.capabilities) :
            i < step => Key[c] # Key[installing.capabilities[i].id]
Sane == ~Poisoned => OthersAgree /\ OthersApart

\* What the log says of a call is final; a call refused for an inconsistency was at the
\* handshake.
LEMMA LogGrows ==
    ASSUME SdkType, [SdkNext]_sdkvars
    PROVE  /\ Len(attempts) \in Nat
           /\ \A k \in 1..Len(attempts) : attempts'[k] = attempts[k]
           /\ \/ attempts' = attempts
              \/ /\ Len(attempts') = Len(attempts) + 1 /\ step # 0
                 /\ attempts'[Len(attempts) + 1].module = installing
                 /\ attempts'[Len(attempts) + 1].result = "inconsistent" =>
                       Handshake /\ ~Consistent(modules)
<1>0. Len(attempts) \in Nat BY DEF SdkType
<1>1. ASSUME NEW result \in Results, Returns(result)
      PROVE  /\ Len(attempts') = Len(attempts) + 1
             /\ \A k \in 1..Len(attempts) : attempts'[k] = attempts[k]
             /\ attempts'[Len(attempts) + 1].module = installing
             /\ attempts'[Len(attempts) + 1].result = result
      BY <1>1 DEF SdkType, Returns
<1>2. /\ {"duplicate", "unknown", "blank", "mismatch", "ok"} \subseteq Results \ {"inconsistent"}
      /\ "inconsistent" \in Results
      BY DEF Results
<1>3. CASE Proceeds \/ UNCHANGED attempts BY <1>0, <1>3 DEF Proceeds
<1>4. CASE \E result \in Results \ {"inconsistent"} : step # 0 /\ Returns(result)
  <2>1. PICK result \in Results \ {"inconsistent"} : step # 0 /\ Returns(result)
        BY <1>4, Zenon
  <2>2. /\ Len(attempts') = Len(attempts) + 1
        /\ \A k \in 1..Len(attempts) : attempts'[k] = attempts[k]
        /\ attempts'[Len(attempts) + 1].module = installing
        /\ attempts'[Len(attempts) + 1].result = result
        BY <1>1, <2>1, Zenon
  <2> QED BY <1>0, <2>1, <2>2, Zenon
<1>5. CASE Handshake /\ ~Consistent(modules) /\ Returns("inconsistent")
  <2>1. step # 0 BY <1>5 DEF Handshake
  <2> QED BY <1>0, <1>1, <1>2, <1>5, <2>1, Zenon
<1>6. CASE RegisterCapability
  <2>1. step # 0 BY <1>6 DEF RegisterCapability, SdkType
  <2>2. Proceeds \/ \E result \in Results \ {"inconsistent"} : Returns(result)
        BY <1>2, <1>6, Zenon DEF RegisterCapability
  <2> QED BY <1>3, <1>4, <2>1, <2>2
<1>7. CASE RegisterWorkflow
  <2>1. Proceeds \/ \E result \in Results \ {"inconsistent"} : step # 0 /\ Returns(result)
        BY <1>2, <1>7, Zenon DEF RegisterWorkflow
  <2> QED BY <1>3, <1>4, <2>1
<1>8. CASE RegisterManifest
  <2>1. Proceeds \/ \E result \in Results \ {"inconsistent"} : step # 0 /\ Returns(result)
        BY <1>2, <1>8, Zenon DEF RegisterManifest
  <2> QED BY <1>3, <1>4, <2>1
<1>9. CASE Handshake
  <2>1. \/ ~Consistent(modules) /\ Returns("inconsistent")
        \/ \E result \in Results \ {"inconsistent"} : step # 0 /\ Returns(result)
        BY <1>2, <1>9, Zenon DEF Handshake
  <2> QED BY <1>4, <1>5, <1>9, <2>1
<1>10. CASE (\E m \in Loaded : Install(m)) \/ UNCHANGED sdkvars
            \/ \E m \in Loaded : \E w \in Items(m.workflows) : Start(w)
       BY <1>3, <1>10 DEF Install, Start, sdkvars
<1> QED BY <1>6, <1>7, <1>8, <1>9, <1>10 DEF SdkNext

\* Once poisoned, always.
LEMMA PoisonStays == ASSUME SdkType, [SdkNext]_sdkvars, Poisoned PROVE Poisoned'
<1>1. PICK k \in 1..Len(attempts) : Refused(k) /\ attempts[k].module \notin FromBuilder
      BY DEF Poisoned
<1>2. /\ Len(attempts) \in Nat /\ attempts'[k] = attempts[k]
      /\ Len(attempts') = Len(attempts) \/ Len(attempts') = Len(attempts) + 1
      BY LogGrows
<1> QED BY <1>1, <1>2 DEF Poisoned, Refused

\* A module from a builder passes if no manifest of another stands in its way.
LEMMA BuiltIsConsistent ==
    ASSUME SdkType, Progress, Sane, Handshake, installing \in FromBuilder, ~Poisoned
    PROVE  Consistent(modules)
<1> DEFINE own == Key[installing.id]
           others == DOMAIN modules \ {own}
<1>1. /\ KeptOne(installing, actions, workflows, modules)
      /\ step # 0 /\ AtManifest > 1
      /\ \A i \in 1..Len(installing.capabilities) : i < step
      BY AllIn
<1>2. OtherKeys = others BY <1>1 DEF OtherKeys
<1>3. modules[own].declares = installing.declares
      BY <1>1 DEF KeptOne, Resolved, ManifestOf
<1>4. /\ installing.declares = Ids(installing.capabilities)
      /\ Distinct(Ids(installing.capabilities))
      BY DEF FromBuilder, Built, Builds
<1>5. Len(Ids(installing.capabilities)) = Len(installing.capabilities)
  <2>1. Len(installing.capabilities) \in Nat BY <1>1, Lengths
  <2> QED BY <2>1 DEF Ids
<1>6. ASSUME NEW c \in Items(installing.declares)
      PROVE  \E i \in 1..Len(installing.capabilities) : c = installing.capabilities[i].id
      BY <1>4, <1>5, <1>6 DEF Items, Ids
<1>7. ASSUME NEW c \in Items(installing.declares) PROVE Has(actions, c)
  <2>1. PICK i \in 1..Len(installing.capabilities) : c = installing.capabilities[i].id
        BY <1>6
  <2>2. Resolved(actions, installing.capabilities[i].id, installing.capabilities[i])
        BY <1>1 DEF KeptOne, Items
  <2> QED BY <2>1, <2>2 DEF Resolved
<1>8. ASSUME NEW l \in others
      PROVE  Items(modules[l].declares) \cap Items(installing.declares) = {}
  <2> SUFFICES ASSUME NEW c \in Items(modules[l].declares), c \in Items(installing.declares)
               PROVE  FALSE
      OBVIOUS
  <2>1. PICK i \in 1..Len(installing.capabilities) : c = installing.capabilities[i].id
        BY <1>6
  <2>2. Key[c] # Key[installing.capabilities[i].id]
        BY <1>1, <1>2, <1>8 DEF Sane, OthersApart
  <2> QED BY <2>1, <2>2
<1>9. ConsistentOn(modules, others, actions) BY <1>2 DEF Sane, OthersAgree
<1> HIDE DEF own, others
<1>10. \A k \in DOMAIN modules : k = own \/ k \in others BY DEF others
<1>11. \A k \in DOMAIN modules : /\ Distinct(modules[k].declares)
                                 /\ \A c \in Items(modules[k].declares) : Has(actions, c)
       BY <1>3, <1>4, <1>7, <1>9, <1>10, Zenon DEF ConsistentOn
<1>12. \A k, l \in DOMAIN modules :
          k # l => Items(modules[k].declares) \cap Items(modules[l].declares) = {}
  <2> SUFFICES ASSUME NEW k \in DOMAIN modules, NEW l \in DOMAIN modules, k # l
               PROVE  Items(modules[k].declares) \cap Items(modules[l].declares) = {}
      OBVIOUS
  <2>1. CASE k = own BY <1>3, <1>8, <1>10, <2>1
  <2>2. CASE l = own BY <1>3, <1>8, <1>10, <2>2
  <2> QED BY <1>9, <1>10, <2>1, <2>2 DEF ConsistentOn
<1> QED BY <1>11, <1>12, Zenon DEF Consistent

\* Consistent manifests stay so as registries grow.
LEMMA AgreeStays ==
    ASSUME [SdkNext]_sdkvars, NEW keys, keys \subseteq DOMAIN modules,
           ConsistentOn(modules, keys, actions)
    PROVE  ConsistentOn(modules', keys, actions')
<1>1. \A k \in keys : modules'[k] = modules[k] BY RegistriesGrow DEF Extends
<1>2. \A c : Has(actions, c) => Has(actions', c) BY RegistriesGrow DEF Extends, Has
<1> QED BY <1>1, <1>2, Zenon DEF ConsistentOn

\* Before its manifest is in, the others are all there are; nor does a step up to there
\* change which they are.
LEMMA OthersAreAll ==
    ASSUME SdkType, RegisterCapability \/ RegisterWorkflow \/ RegisterManifest
    PROVE  /\ OtherKeys = DOMAIN modules
           /\ Proceeds \/ step' = 0 => OtherKeys' = DOMAIN modules
<1>1. step # 0 BY Moves
<1>2. /\ Len(installing.capabilities) \in Nat /\ Len(installing.workflows) \in Nat
      /\ step \in Nat
      BY <1>1, Lengths
<1>3. \/ step \in 1..Len(installing.capabilities)
      \/ AtWorkflow \in 1..Len(installing.workflows)
      \/ AtManifest = 1
      BY DEF RegisterCapability, RegisterWorkflow, RegisterManifest
<1>4. ~(AtManifest > 1) BY <1>2, <1>3, Counts, Zenon DEF AtWorkflow, AtManifest
<1>5. OtherKeys = DOMAIN modules BY <1>4 DEF OtherKeys
<1>6. ASSUME Proceeds PROVE OtherKeys' = DOMAIN modules
  <2>1. /\ step' = step + 1 /\ installing' = installing /\ step' # 0
        BY <1>2, <1>6 DEF Proceeds
  <2>2. AtManifest' = step + 1 - Len(installing.capabilities) - Len(installing.workflows)
    <3>1. AtManifest' = step' - Len(installing.capabilities) - Len(installing.workflows)
          BY <2>1 DEF AtWorkflow, AtManifest
    <3> QED BY <1>2, <2>1, <3>1
  <2>3. CASE AtManifest = 1
    <3>1. /\ step \notin 1..Len(installing.capabilities)
          /\ AtWorkflow \notin 1..Len(installing.workflows)
          BY <1>2, <2>3, Counts, Zenon DEF AtWorkflow, AtManifest
    <3>2. /\ ~Has(modules, installing.id)
          /\ modules' = Put(modules, installing.id, ManifestOf(installing))
          BY <1>6, <3>1, Registers
    <3>3. step + 1 - Len(installing.capabilities) - Len(installing.workflows) > 1
          BY <1>2, <2>3, Counts, Zenon DEF AtWorkflow, AtManifest
    <3>4. AtManifest' > 1 BY <2>2, <3>3, Zenon
    <3>5. OtherKeys' = DOMAIN modules' \ {Key[installing.id]}
          BY <2>1, <3>4 DEF OtherKeys
    <3>6. Key[installing.id] \notin DOMAIN modules BY <3>2 DEF Has
    <3>7. DOMAIN modules' = DOMAIN modules \cup {Key[installing.id]}
          BY <3>2 DEF Put
    <3> QED BY <3>5, <3>6, <3>7
  <2>4. CASE \/ step \in 1..Len(installing.capabilities)
             \/ AtWorkflow \in 1..Len(installing.workflows)
    <3>1. ~(step + 1 - Len(installing.capabilities) - Len(installing.workflows) > 1)
          BY <1>2, <2>4, Counts, Zenon DEF AtWorkflow
    <3>2. ~(AtManifest' > 1) BY <2>2, <3>1, Zenon
    <3>3. modules' = modules
      <4>1. AtManifest # 1 BY <1>2, <2>4, Counts, Zenon DEF AtWorkflow, AtManifest
      <4> QED BY <1>6, <4>1, Registers
    <3> QED BY <3>2, <3>3 DEF OtherKeys
  <2> QED BY <1>3, <2>3, <2>4
<1>7. ASSUME step' = 0 PROVE OtherKeys' = DOMAIN modules
  <2>1. ~Proceeds BY <1>2, <1>7 DEF Proceeds
  <2>2. modules' = modules
        BY <2>1, Zenon DEF RegisterCapability, RegisterWorkflow, RegisterManifest
  <2> QED BY <1>7, <2>2 DEF OtherKeys
<1> QED BY <1>5, <1>6, <1>7

\* Sane is inductive.
LEMMA SaneStep == ASSUME SdkType, Progress, Sane, [SdkNext]_sdkvars PROVE Sane'
<1> SUFFICES ASSUME ~Poisoned' PROVE OthersAgree' /\ OthersApart'
    BY DEF Sane
<1>1. ~Poisoned /\ OthersAgree /\ OthersApart BY PoisonStays DEF Sane
<1>2. CASE Handshake
  <2>1. step # 0 /\ step' = 0 /\ modules' = modules /\ actions' = actions
        BY <1>2 DEF Handshake, Returns
  <2>2. Consistent(modules)
    <3> SUFFICES ASSUME ~Consistent(modules) PROVE FALSE
        OBVIOUS
    <3>1. Returns("inconsistent") BY <1>2, Zenon DEF Handshake
    <3>2. /\ Len(attempts) \in Nat /\ Len(attempts') = Len(attempts) + 1
          /\ attempts'[Len(attempts) + 1].module = installing
          /\ attempts'[Len(attempts) + 1].result = "inconsistent"
          BY <3>1 DEF Returns, SdkType
    <3>3. installing \in FromBuilder BY <3>2 DEF Poisoned, Refused
    <3> QED BY <1>1, <1>2, <3>3, BuiltIsConsistent
  <2>3. OtherKeys' = DOMAIN modules BY <2>1 DEF OtherKeys
  <2>4. ConsistentOn(modules, DOMAIN modules, actions)
        BY <2>2, Zenon DEF Consistent, ConsistentOn
  <2> QED BY <2>1, <2>3, <2>4 DEF OthersAgree, OthersApart
<1>3. CASE RegisterCapability \/ RegisterWorkflow \/ RegisterManifest
  <2>1. step # 0 /\ (step' = 0 \/ Proceeds)
        BY <1>3, Moves, OverFacts DEF Over, Fails, Returns
  <2>2. OtherKeys = DOMAIN modules /\ OtherKeys' = DOMAIN modules
        BY <1>3, <2>1, OthersAreAll
  <2>3. OthersAgree'
        BY <1>1, <2>2, AgreeStays DEF OthersAgree
  <2>4. ASSUME Proceeds PROVE OthersApart'
    <3>1. /\ step' = step + 1 /\ installing' = installing /\ step \in Nat
          /\ Len(installing.capabilities) \in Nat /\ Len(installing.workflows) \in Nat
          BY <2>1, <2>4, Lengths DEF Proceeds
    <3>2. \A k \in DOMAIN modules : modules'[k] = modules[k]
          BY RegistriesGrow DEF Extends
    <3> SUFFICES ASSUME NEW l \in DOMAIN modules, NEW c \in Items(modules[l].declares),
                        NEW i \in 1..Len(installing.capabilities), i < step + 1
                 PROVE  Key[c] # Key[installing.capabilities[i].id]
        BY <2>2, <3>1, <3>2, SMT DEF OthersApart
    <3>3. CASE i < step BY <1>1, <2>1, <2>2, <3>3 DEF OthersApart
    <3>4. CASE i = step
      <4>1. AtWorkflow \notin 1..Len(installing.workflows) /\ AtManifest # 1
            BY <3>1, <3>4, Counts, Zenon DEF AtWorkflow, AtManifest
      <4>2. ~Has(actions, installing.capabilities[step].id)
            BY <1>3, <2>4, <4>1, Registers
      <4>3. Has(actions, c) BY <1>1, <2>2, Zenon DEF OthersAgree, ConsistentOn
      <4> QED BY <3>4, <4>2, <4>3 DEF Has
    <3> QED BY <3>1, <3>3, <3>4
  <2>5. CASE step' = 0 BY <2>3, <2>5 DEF OthersApart
  <2> QED BY <2>1, <2>3, <2>4, <2>5
<1>4. ASSUME NEW m \in Loaded, Install(m) PROVE OthersAgree' /\ OthersApart'
  <2>1. /\ step = 0 /\ step' = 1 /\ installing' = m /\ UNCHANGED <<modules, actions>>
        /\ Len(m.capabilities) \in Nat /\ Len(m.workflows) \in Nat
        BY <1>4, LoadedHasLists DEF Install, AreLists
  <2>2. ~(AtManifest' > 1)
        BY <2>1, Counts, 1 \in Nat, Zenon DEF AtWorkflow, AtManifest
  <2>3. OtherKeys = DOMAIN modules /\ OtherKeys' = DOMAIN modules
        BY <2>1, <2>2 DEF OtherKeys
  <2>4. OthersAgree' BY <1>1, <2>1, <2>3 DEF OthersAgree
  <2>5. OthersApart' BY <2>1 DEF OthersApart
  <2> QED BY <2>4, <2>5
<1>5. CASE UNCHANGED <<step, installing, modules, actions>>
  <2>1. UNCHANGED <<OtherKeys>> BY <1>5 DEF OtherKeys, AtWorkflow, AtManifest
  <2> QED BY <1>1, <1>5, <2>1 DEF OthersAgree, OthersApart
<1> QED BY <1>2, <1>3, <1>4, <1>5 DEF SdkNext, Start, sdkvars

\* What an inconsistent call registered is still there.
Remembered == \A k \in 1..Len(attempts) : Refused(k) => Has(modules, attempts[k].module.id)

\* Remembered is inductive, the manifest being in at the handshake.
LEMMA RememberedStep ==
    ASSUME SdkType, Progress, Remembered, [SdkNext]_sdkvars
    PROVE  Remembered'
<1>1. \A id : Has(modules, id) => Has(modules', id)
      BY RegistriesGrow DEF Extends, Has
<1>2. CASE attempts' = attempts BY <1>1, <1>2 DEF Remembered, Refused
<1>3. CASE Len(attempts') = Len(attempts) + 1
  <2> SUFFICES ASSUME NEW k \in 1..Len(attempts'), attempts'[k].result = "inconsistent"
               PROVE  Has(modules', attempts'[k].module.id)
      BY Zenon DEF Remembered, Refused
  <2>1. CASE k \in 1..Len(attempts)
        BY <1>1, <2>1, LogGrows DEF Remembered, Refused
  <2>2. CASE k = Len(attempts) + 1
    <3>1. Handshake /\ attempts'[k].module = installing
          BY <1>2, <1>3, <2>2, LogGrows
    <3>2. Has(modules, installing.id) BY <3>1, AllIn DEF KeptOne, Resolved
    <3> QED BY <1>1, <3>1, <3>2
  <2> QED BY <1>3, <2>1, <2>2, LogGrows
<1> QED BY <1>2, <1>3, LogGrows

\* A builder's module that the handshake refuses comes after one made by hand.
LEMMA RejectionStep ==
    ASSUME SdkType, Progress, Remembered, Sane, RejectionNeeded, [SdkNext]_sdkvars
    PROVE  RejectionNeeded'
<1> SUFFICES ASSUME NEW k \in 1..Len(attempts'), attempts'[k].result = "inconsistent",
                    attempts'[k].module \in FromBuilder
             PROVE  \E j \in 1..(k - 1) : /\ attempts'[j].result = "inconsistent"
                                          /\ attempts'[j].module \notin FromBuilder
                                          /\ Has(modules', attempts'[j].module.id)
    BY Zenon DEF RejectionNeeded
<1>1. \A id : Has(modules, id) => Has(modules', id)
      BY RegistriesGrow DEF Extends, Has
<1>2. Len(attempts) \in Nat /\ \A j \in 1..Len(attempts) : attempts'[j] = attempts[j]
      BY LogGrows
<1>3. CASE k \in 1..Len(attempts)
  <2>1. PICK j \in 1..(k - 1) : /\ attempts[j].result = "inconsistent"
                                /\ attempts[j].module \notin FromBuilder
                                /\ Has(modules, attempts[j].module.id)
        BY <1>2, <1>3 DEF RejectionNeeded
  <2>2. j \in 1..Len(attempts) BY <1>2, <1>3
  <2> QED BY <1>1, <1>2, <2>1, <2>2
<1>4. CASE k = Len(attempts) + 1 /\ Len(attempts') = Len(attempts) + 1
  <2>1. Handshake /\ ~Consistent(modules) /\ installing \in FromBuilder
        BY <1>2, <1>4, LogGrows
  <2>2. Poisoned BY <2>1, BuiltIsConsistent
  <2>3. PICK j \in 1..Len(attempts) : Refused(j) /\ attempts[j].module \notin FromBuilder
        BY <2>2 DEF Poisoned
  <2>4. Has(modules, attempts[j].module.id) BY <2>3 DEF Remembered
  <2>5. j \in 1..(k - 1) BY <1>2, <1>4
  <2> QED BY <1>1, <1>2, <2>3, <2>4, <2>5 DEF Refused
<1> QED BY <1>2, <1>3, <1>4, LogGrows

\* The handshake refuses a module from a builder only when the manifest of a module made
\* by hand, refused before it, is still in the registry.
THEOREM RejectionIsNeeded == SdkSpec => []RejectionNeeded
<1> DEFINE Inv == SdkType /\ Progress /\ Remembered /\ Sane /\ RejectionNeeded
<1>1. SdkInit => Inv
  <2> SUFFICES ASSUME SdkInit PROVE Inv
      OBVIOUS
  <2>1. /\ step = 0 /\ Len(attempts) = 0 /\ DOMAIN modules = {}
        BY DEF SdkInit
  <2>2. OtherKeys = {} BY <2>1 DEF OtherKeys
  <2>3. Progress BY <2>1 DEF Progress, CapabilitiesIn, WorkflowsIn, ManifestIn
  <2>4. Remembered /\ RejectionNeeded BY <2>1 DEF Remembered, RejectionNeeded
  <2>5. Sane BY <2>1, <2>2 DEF Sane, OthersAgree, OthersApart, ConsistentOn
  <2> QED BY <2>3, <2>4, <2>5, TypeInit
<1>2. Inv /\ [SdkNext]_sdkvars => Inv'
      BY TypeStep, ProgressStep, RememberedStep, SaneStep, RejectionStep
<1>3. Inv => RejectionNeeded OBVIOUS
<1> QED BY <1>1, <1>2, <1>3, PTL DEF SdkSpec
===============================================================================
