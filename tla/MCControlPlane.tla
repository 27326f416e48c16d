---------------------------- MODULE MCControlPlane -----------------------------
EXTENDS ControlPlane

MCTenantConfigs ==
  [initial  |-> [app |-> FALSE, be |-> FALSE, days |-> 0, limits |-> "fine"],
   defaults |-> [app |-> TRUE, be |-> TRUE, days |-> 30, limits |-> "fine"]]

MCDrafts ==
  [loose  |-> [runtime |-> "zero", tools |-> <<2, 1>>],
   double |-> [runtime |-> "standard", tools |-> <<1, 1>>]]

MCRevRow == <<"rev1", "rev2", "rev3", "rev4">>

Integer == [kind |-> "integer", required |-> FALSE, default |-> {Text(3, "zeros")}, min |-> 1, max |-> 5, allowed |-> {}]

Mode == [kind |-> "enum", required |-> TRUE, default |-> {}, min |-> 0, max |-> 0, allowed |-> {Text("fast", "upper"), Plain("safe")}]

Flag == [kind |-> "boolean", required |-> FALSE, default |-> {}, min |-> 0, max |-> 0, allowed |-> {}]

MCModelSpecs ==
  {[provider |-> Plain("openai"), models |-> {Plain("gpt")}, endpoint |-> "optional", schemes |-> {Plain("https")},
    hosts |-> {"name", "v6", "v4"}, secret |-> "required", options |-> [retries |-> Integer, mode |-> Mode]]}

Endpoint(host, port) == [scheme |-> Text("https", "upper"), host |-> host, port |-> port, extra |-> "none"]

ModelConfig(endpoint, secret) ==
  [provider |-> Text("openai", "mixed"), model |-> Text("gpt", "padded"), endpoint |-> endpoint,
   options |-> [mode |-> Text("fast", "mixed")], secret |-> secret, generation |-> [temperature |-> 1, tokens |-> 10]]

MCModelConfigs ==
  [named  |-> ModelConfig(Endpoint(Text("name", "dotted"), Text(443, "zeros")), Text("key", "padded")),
   mapped |-> ModelConfig(Endpoint(Text("mapped", "long"), Text(0, "absent")), Plain("key")),
   direct |-> ModelConfig(NoEndpoint, Plain("key"))]

MCBackendSpecs ==
  {[provider |-> Plain("redis"), caps |-> {"session", "memory", "summary"}, endpoint |-> "required", schemes |-> {Plain("https")},
    secret |-> "optional", options |-> [tls |-> Flag]],
   [provider |-> Plain("local"), caps |-> {"audit"}, endpoint |-> "forbidden", schemes |-> {},
    secret |-> "forbidden", options |-> <<>>]}

Redis(cap) ==
  [cap |-> cap, provider |-> Text("redis", "upper"), endpoint |-> Endpoint(Text("mapped", "long"), Text(6379, "zeros")),
   options |-> [tls |-> Text("true", "mixed")], secret |-> Text("pw", "padded")]

Local == [cap |-> "audit", provider |-> Plain("local"), endpoint |-> NoEndpoint, options |-> <<>>, secret |-> Blank]

MCBackendConfigs ==
  [session |-> <<Redis("session")>>,
   swapped |-> <<Redis("memory"), Redis("session")>>,
   summed  |-> <<Redis("summary"), Redis("session")>>,
   nothing |-> <<Local>>]

MCBindingConfigs ==
  [acme  |-> [acct |-> Text("acme", "padded"), route |-> "r1", proto |-> "fine"],
   bolt  |-> [acct |-> Plain("bolt"), route |-> "r1", proto |-> "fine"]]

MCBindingRow == {"b1", "b2"}

MCSenders == {Plain("acme")}

-----------------------------------------------------------------------------
(* Rows that the constructors accept.                                            *)

Created(raw) == [Request("", "", 0) EXCEPT !.raw = raw, !.to = "active"]

NoRows ==
  [tenant |-> NoTenant, roots |-> [st |-> "none", ver |-> 0], app |-> NoApp, rev1 |-> NoRevision,
   rev2 |-> NoRevision, rev3 |-> NoRevision, rev4 |-> NoRevision,
   model |-> NoModel, backend |-> NoBackend, b1 |-> NoBinding, b2 |-> NoBinding]

WithTenant == The(AddTenant(NoRows, Created("initial")))

WithDraft == The(AddDraft([WithTenant EXCEPT !["app"] = NewApp], MCDrafts["loose"]))

WithApp == The(PublishDraft(WithDraft, 1))

WithCanary ==
  LET two == The(PublishDraft(The(AddDraft(WithApp, MCDrafts["loose"])), 2))
  IN  The(AddDraft(The(Canaried(two, 1)), MCDrafts["loose"]))

WithBackend == [WithApp EXCEPT !["backend"] = The(PrepareBackendCreated(Created("session")))]

WithDefaults ==
  The(SetTenantConfiguration([WithBackend EXCEPT !["model"] = The(PrepareModelCreated(Created("named")))],
                             [Created("defaults") EXCEPT !.ver = 1]))

WithBindings ==
  [WithApp EXCEPT !["b1"] = The(PrepareBindingCreated(Created("acme"))), !["b2"] = The(PrepareBindingCreated(Created("bolt")))]

\* Which admin it is makes no difference.
MCSymmetry == Permutations(Admins)

Stores == {"memory", "postgres", "mysql"}

Scene(in, handlers, rows, requests, bad, callbacks, most) ==
  [stores |-> in, handlers |-> handlers, rows |-> rows, requests |-> requests, mishaps |-> bad, callbacks |-> callbacks, plans |-> most]

MCScenes ==
  {Scene(Stores, {"tenants", "init"}, NoRows, 3, 1, 0, 0),
   Scene(Stores, {"apps"}, WithTenant, 2, 1, 0, 0),
   Scene(Stores, {"apps"}, WithCanary, 2, 1, 0, 0),
   Scene(Stores, {"apps", "revisions", "tenant.status"}, WithCanary, 2, 0, 0, 0),
   Scene(Stores, {"revisions"}, WithDraft, 2, 1, 0, 0),
   Scene(Stores, {"revisions", "tenant.config"}, WithDraft, 2, 0, 0, 0),
   Scene(Stores, {"models", "model.config", "model.status"}, WithTenant, 2, 1, 0, 0),
   Scene(Stores, {"backends"}, WithApp, 2, 1, 0, 0),
   Scene(Stores, {"backends", "tenant.config"}, WithBackend, 2, 0, 0, 0),
   Scene(Stores, {"bindings"}, WithApp, 2, 1, 0, 0),
   Scene(Stores, {"bindings", "tenant.status", "apps"}, WithBindings, 1, 0, 1, 0),
   Scene(Stores, {}, WithBindings, 0, 0, 2, 0),
   Scene({"memory", "mysql"}, {"model.status", "backends", "apps"}, WithDefaults, 1, 0, 0, 2),
   Scene({"postgres"}, {"tenant.config", "model.config"}, WithDefaults, 2, 0, 0, 2)}

=============================================================================
