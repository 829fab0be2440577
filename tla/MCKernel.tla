------------------------------- MODULE MCKernel -------------------------------
(***************************************************************************)
(* The kernel process and the registries of a host.  They share nothing,   *)
(* so KernelSpec lets the registries move only while no line was ever sent  *)
(* and no kernel died, and the kernel only while no module was installed:   *)
(* every behaviour of either is there, their product is not.                *)
(***************************************************************************)
EXTENDS RpcProperties, ModuleSdkProperties, TLC

MCCanonical == [acme |-> "acme", ACME |-> "acme", beta |-> "beta", blank |-> "invalid"]
MCEarlier ==
    <<[type |-> "session.created", tenant |-> "acme", about |-> 1, data |-> "none", line |-> 1],
      [type |-> "hitl.pause.created", tenant |-> "acme", about |-> 2, data |-> "none", line |-> 2]>>

MCCalls ==
    [quiet : {FALSE}, call :
         {[method |-> "misfit"], [method |-> "seasi.version"],
          [method |-> "seasi.hitl.create", tenant |-> "beta"]}
         \cup [method : {"seasi.session.start"}, tenant : {"ACME"}, adapter : {"pi", "ghost"}]
         \cup [method : {"seasi.session.run"}, tenant : {"ACME", "beta", "blank"}, session : {1}]
         \cup [method : {"seasi.event.tail"}, tenant : {"acme", "ACME"}, limit : {2}]
         \cup [method : {"seasi.usage.summary", "seasi.hitl.list"}, tenant : {"acme"}]
         \cup [method : {"seasi.hitl.decide"}, pause : {2, 3}, decision : {"approved"}]]
    \cup [quiet : {TRUE}, call :
         {[method |-> "garbage"],
          [method |-> "seasi.session.run", tenant |-> "acme", session |-> 1]}]

Spec1(id) == [id |-> id, version |-> "0.1.0"]
Flow(id, uses) == [id |-> id, uses |-> uses]
Drafted(id, caps, flows, handlers) ==
    [id |-> id, capabilities |-> caps, workflows |-> flows, handlers |-> handlers]
HandMade(id, caps, flows, declares, lists) ==
    [id |-> id, capabilities |-> caps, workflows |-> flows, declares |-> declares, lists |-> lists]

MCNative == {Spec1("core.echo")}
MCKey == [id \in {"core.echo", "crm.read", "crm.send", "mkt.post", "crm.flow", "mkt.flow",
                  "bill.flow", "crm", "mkt", "bill", "ghost", "silent",
                  "spaced", "borrow", "twice", "odd"} |-> id]
         @@ (" crm.flow" :> "crm.flow") @@ (" crm.read" :> "crm.read") @@ ("   " :> "")

MCDraft == {
    Drafted("crm", <<Spec1("crm.read"), Spec1("crm.send")>>,
            <<Flow("crm.flow", {"crm.read", "crm.send"})>>, {"crm.send"}),
    Drafted("mkt", <<Spec1("mkt.post")>>, <<Flow("mkt.flow", {"mkt.post"})>>, {}),
    \* collides with crm on its second capability
    Drafted("bill", <<Spec1("mkt.post"), Spec1("crm.send")>>,
            <<Flow("bill.flow", {"crm.send"})>>, {}),
    \* refused by the builder
    Drafted("twice", <<Spec1("crm.read"), Spec1("crm.read")>>, <<>>, {}),
    Drafted("twice", <<>>, <<Flow("crm.flow", {}), Flow("crm.flow", {})>>, {}),
    Drafted("odd", <<>>, <<>>, {"crm.read"}),
    Drafted("odd", <<Spec1("mkt.post")>>, <<Flow("crm.flow", {" crm.read"})>>, {}) }

MCHandBuilt == {
    \* declares what it does not ship; ships what it does not declare; declares what
    \* crm ships in another spelling
    HandMade("ghost", <<>>, <<>>, <<"crm.read">>, {}),
    HandMade("silent", <<Spec1("crm.read")>>, <<>>, <<>>, {}),
    HandMade("spaced", <<>>, <<>>, <<" crm.read">>, {}),
    HandMade("twice", <<>>, <<>>, <<"core.echo", "core.echo">>, {}),
    \* runs on the capabilities of others, under an id crm uses
    HandMade("borrow", <<>>, <<Flow(" crm.flow", {" crm.read", "mkt.post"})>>, <<>>, {" crm.flow"}),
    \* a blank workflow id; a manifest that lists nothing
    HandMade("odd", <<>>, <<Flow("   ", {"core.echo"})>>, <<>>, {"   "}),
    HandMade("odd", <<>>, <<Flow("bill.flow", {"core.echo"})>>, <<>>, {}) }

RegistriesAtRest == attempts = <<>> /\ started = {} /\ step = 0
KernelAtRest == sent = Len(Earlier) /\ lives = 1 /\ at = "reading" /\ ~gone /\ lapsed = {}

KernelInit == RpcInit /\ SdkInit

KernelSpec ==
    /\ KernelInit
    /\ [][\/ RegistriesAtRest /\ RpcNext /\ UNCHANGED sdkvars
          \/ KernelAtRest /\ SdkNext /\ UNCHANGED rvars]_<<rvars, sdkvars>>
    /\ WF_rvars(Serves) /\ WF_rvars(Receive)
===============================================================================
