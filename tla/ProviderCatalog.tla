---------------------------- MODULE ProviderCatalog ----------------------------
(* The trusted provider catalogs of model/model.go and backend/backend.go: how a *)
(* typed configuration becomes the canonical one that is stored and digested.    *)
(* A text is what it says (`of`) and how it is written (`style`): "plain" is the  *)
(* canonical spelling, "padded" has blanks around it, "upper" and "mixed" differ  *)
(* in letter case, "zeros" has leading zeros, "dotted" ends in a dot, "long" is   *)
(* an uncompressed address, "boxed" an IPv4 address in brackets, "control" has a  *)
(* control character in it, "spaced" a blank.  A normalizer yields {} when it     *)
(* refuses.                                                                       *)
EXTENDS ControlRows, FiniteSetsExt, SequencesExt

Text(of, style) == [of |-> of, style |-> style]

Plain(of) == Text(of, "plain")

Blank == Plain("")

TrimSpace(t) == IF t.style = "padded" THEN Plain(t.of) ELSE t

ToLower(t) == IF t.style \in {"upper", "mixed"} THEN Plain(t.of) ELSE t

The(S) == CHOOSE x \in S : TRUE

-----------------------------------------------------------------------------
(* Option values.  A specification has a kind, may be required, may have one     *)
(* default (a set of at most one text), bounds for integers and the values of an *)
(* enumeration.                                                                  *)

ValidOptionBounds(spec) == spec.kind = "integer" => spec.min <= spec.max

\* strconv.ParseBool knows true, TRUE and True but no other mixture of cases.
NormalizeModelOption(t, spec) ==
  LET u == TrimSpace(t)
  IN  Only(u.style # "control",
        CASE spec.kind = "string"  -> {u}
          [] spec.kind = "boolean" -> When(u.of \in {"true", "false"} /\ u.style # "mixed", Plain(u.of))
          [] spec.kind = "integer" -> When(u.of \in spec.min .. spec.max, Plain(u.of))
          [] spec.kind = "enum"    -> When(ToLower(u) \in spec.allowed, ToLower(u)))

\* The backend catalog lowers the case of booleans first and refuses empty values.
NormalizeBackendOption(t, spec) ==
  LET u == TrimSpace(t)
  IN  Only(u.style # "control" /\ u # Blank,
        CASE spec.kind = "string"  -> {u}
          [] spec.kind = "boolean" -> When(u.of \in {"true", "false"}, Plain(u.of))
          [] spec.kind = "integer" -> When(u.of \in spec.min .. spec.max, Plain(u.of))
          [] spec.kind = "enum"    -> When(ToLower(u) \in spec.allowed, ToLower(u)))

CompileEnumValues(spec) == {ToLower(TrimSpace(t)) : t \in spec.allowed}

\* Compilation lowers the enumeration and then normalizes the default by it.
LowerEnum(spec) == [spec EXCEPT !.allowed = CompileEnumValues(spec)]

CompileOption(spec, low, default) ==
  When(/\ ~ (spec.required /\ spec.default # {})
       /\ ValidOptionBounds(spec)
       /\ (spec.kind = "enum") = (spec.allowed # {})
       /\ \A t \in low.allowed : t # Blank /\ t.style # "control"
       /\ Cardinality(low.allowed) = Cardinality(spec.allowed)
       /\ spec.default # {} => default # {},
       [low EXCEPT !.default = default])

CompileModelOption(spec) ==
  CompileOption(spec, LowerEnum(spec), UNION {NormalizeModelOption(t, LowerEnum(spec)) : t \in spec.default})

CompileBackendOption(spec) ==
  CompileOption(spec, LowerEnum(spec), UNION {NormalizeBackendOption(t, LowerEnum(spec)) : t \in spec.default})

\* Registered options only; a missing one takes its default, if it has one.  The
\* options that were given come normalized, those refused as {}.
FillOptions(given, specs, normal) ==
  LET value == [k \in DOMAIN specs |-> IF k \in DOMAIN given THEN normal[k] ELSE specs[k].default]
  IN  When(/\ DOMAIN given \subseteq DOMAIN specs
           /\ \A k \in DOMAIN specs : k \in DOMAIN given \/ specs[k].required => value[k] # {},
           [k \in {x \in DOMAIN specs : value[x] # {}} |-> The(value[k])])

NormalizeModelOptions(given, specs) ==
  FillOptions(given, specs,
    [k \in DOMAIN given \cap DOMAIN specs |-> NormalizeModelOption(given[k], specs[k])])

NormalizeBackendOptions(given, specs) ==
  FillOptions(given, specs,
    [k \in DOMAIN given \cap DOMAIN specs |-> NormalizeBackendOption(given[k], specs[k])])

-----------------------------------------------------------------------------
(* Endpoints: a scheme, a host ("v6" and the IPv4-mapped "mapped" are written in  *)
(* brackets) and a port, absent, empty or a number.                              *)

NoEndpoint == [scheme |-> Blank, host |-> Blank, port |-> Text(0, "absent"), extra |-> "none"]

ValidPort(port) == port.style \notin {"absent", "empty"} => port.of \in 1 .. 65535

CanonicalPort(port) == IF port.style \in {"absent", "empty"} THEN Text(0, "absent") ELSE Plain(port.of)

FieldPolicy(policy, given, blank, results) ==
  IF given = blank THEN When(policy # "required", blank) ELSE Only(policy # "forbidden", results)

NormalizeModelSecretRef(t, policy) ==
  FieldPolicy(policy, TrimSpace(t), Blank, When(t.style \notin {"control", "spaced"}, TrimSpace(t)))

NormalizeBackendSecretRef(t, policy) ==
  FieldPolicy(policy, TrimSpace(t), Blank, When(t.style \in {"plain", "padded", "upper", "mixed"}, TrimSpace(t)))

ParseEndpoint(e, schemes) ==
  e.extra = "none" /\ e.host.style # "control" /\ ToLower(e.scheme) \in schemes

\* An IPv4-mapped address loses its IPv6 form but not its brackets, unless a port
\* follows it.
ModelAuthority(e) ==
  LET bare == CanonicalPort(e.port).style = "absent"
      host == IF e.host.of = "mapped" THEN Text("v4", IF bare THEN "boxed" ELSE "plain") ELSE Plain(e.host.of)
  IN  When(/\ e.port.style = "empty" => e.host.of \in {"v6", "mapped"}
           /\ ValidPort(e.port)
           /\ e.host.of # "bad",
           [scheme |-> ToLower(e.scheme), host |-> host, port |-> CanonicalPort(e.port), extra |-> "none"])

NormalizeModelEndpoint(e, spec) ==
  FieldPolicy(spec.endpoint, e, NoEndpoint,
    Only(ParseEndpoint(e, spec.schemes), {n \in ModelAuthority(e) : n.host.of \in spec.hosts}))

\* Brackets hold an IPv6 address only; a mapped address becomes plain IPv4.
BackendIPv6Authority(e) ==
  When(/\ e.host.of \in {"v6", "mapped"}
       /\ e.port.style # "empty",
       Plain(IF e.host.of = "mapped" THEN "v4" ELSE "v6"))

\* Unlike the model catalog's, this host keeps its trailing dot.
BackendHostAuthority(e) ==
  When(e.host.of \in {"name", "v4"} /\ e.port.style # "empty", ToLower(e.host))

BackendAuthority(e) ==
  {[scheme |-> ToLower(e.scheme), host |-> h, port |-> CanonicalPort(e.port), extra |-> "none"] :
     h \in Only(ValidPort(e.port),
                IF e.host.of \in {"v6", "mapped"} \/ e.host.style = "boxed"
                THEN BackendIPv6Authority(e) ELSE BackendHostAuthority(e))}

NormalizeBackendEndpoint(e, spec) ==
  FieldPolicy(spec.endpoint, e, NoEndpoint, Only(ParseEndpoint(e, spec.schemes), BackendAuthority(e)))

-----------------------------------------------------------------------------
(* The catalogs.  A provider specification names its models or capabilities, its *)
(* endpoint and secret policies and its options.                                 *)

CompileModelEndpointRules(spec) ==
  /\ (spec.endpoint = "forbidden") = (spec.schemes = {})
  /\ (spec.endpoint = "forbidden") = (spec.hosts = {})

CompileBackendEndpointSchema(spec) == (spec.endpoint = "forbidden") = (spec.schemes = {})

CompileOptions(spec, compiled) ==
  When(\A k \in DOMAIN compiled : compiled[k] # {},
       [spec EXCEPT !.options = [k \in DOMAIN compiled |-> The(compiled[k])]])

CompileModelProvider(spec) ==
  Only(spec.models # {} /\ CompileModelEndpointRules(spec),
       CompileOptions(spec, [k \in DOMAIN spec.options |-> CompileModelOption(spec.options[k])]))

CompileBackendProvider(spec) ==
  Only(spec.caps # {} /\ CompileBackendEndpointSchema(spec),
       CompileOptions(spec, [k \in DOMAIN spec.options |-> CompileBackendOption(spec.options[k])]))

\* One schema per provider; in the backend catalog, one per provider and capability.
NewModelCatalog(specs) ==
  When(/\ specs # {}
       /\ \A s \in specs : CompileModelProvider(s) # {}
       /\ \A s, t \in specs : s.provider = t.provider => s = t,
       UNION {CompileModelProvider(s) : s \in specs})

NewBackendCatalog(specs) ==
  When(/\ specs # {}
       /\ \A s \in specs : CompileBackendProvider(s) # {}
       /\ \A s, t \in specs : s.provider = t.provider /\ s.caps \cap t.caps # {} => s = t,
       UNION {CompileBackendProvider(s) : s \in specs})

NormalizeGeneration(g) == g.temperature \in 0 .. 2 /\ g.tokens \in 1 .. 1000000

\* A configuration of the model catalog in canonical form.
NormalizeConfiguration(c, catalog) ==
  {[provider |-> s.provider, model |-> ToLower(TrimSpace(c.model)), endpoint |-> e, options |-> p,
    secret |-> r, generation |-> c.generation] :
     <<s, e, p, r>> \in UNION {{s} \X NormalizeModelEndpoint(c.endpoint, s)
                                  \X NormalizeModelOptions(c.options, s.options)
                                  \X NormalizeModelSecretRef(c.secret, s.secret) :
                              s \in {x \in catalog : /\ x.provider = ToLower(TrimSpace(c.provider))
                                                    /\ ToLower(TrimSpace(c.model)) \in x.models
                                                    /\ NormalizeGeneration(c.generation)}}}

NormalizeBinding(b, s) ==
  {[cap |-> b.cap, provider |-> s.provider, endpoint |-> e, options |-> p, secret |-> r] :
     <<e, p, r>> \in NormalizeBackendEndpoint(b.endpoint, s)
                  \X NormalizeBackendOptions(b.options, s.options)
                  \X NormalizeBackendSecretRef(b.secret, s.secret)}

CapabilityRank == [session |-> 0, memory |-> 1, summary |-> 2, knowledge |-> 3, artifact |-> 4, audit |-> 5]

\* A sequence of bindings in canonical form, sorted by the rank of the capability.
NormalizeBindings(bindings, catalog) ==
  LET Spec(b)  == {s \in catalog : s.provider = ToLower(TrimSpace(b.provider)) /\ b.cap \in s.caps}
      given    == ToSet(bindings)
      forms    == [b \in given |-> UNION {NormalizeBinding(b, s) : s \in Spec(b)}]
  IN  When(/\ \A b \in given : b.cap \in DOMAIN CapabilityRank /\ forms[b] # {}
           /\ Cardinality({b.cap : b \in given}) = Len(bindings),
           SetToSortSeq({The(forms[b]) : b \in given},
                        LAMBDA x, y : CapabilityRank[x.cap] < CapabilityRank[y.cap]))

=============================================================================
