--------------------------- MODULE JsonStackProofs ---------------------------
(***************************************************************************)
(* Proofs about JsonStack: whatever specs the clients and documents bring  *)
(* and whatever values the secret takes, effects are approved while        *)
(* upserts do not overlap, and a request carries a token the process could *)
(* have.                                                                   *)
(***************************************************************************)
EXTENDS JsonStack, TLAPS

-----------------------------------------------------------------------------
(* Specs *)

LEMMA DirectionTyped == ASSUME NEW spec PROVE Direction(spec) \in SUPPORTED_DIRECTIONS
BY DEF Direction, SUPPORTED_DIRECTIONS

LEMMA RadiusTyped == ASSUME NEW spec PROVE EffectRadius(spec) \in {"internal", "external_trusted"}
BY DEF EffectRadius

\* Lookups and writes of the catalog, of one of its kinds, make a sound spec.
LEMMA CatalogForm ==
    ASSUME NEW kind \in {"oauth2", "bearer", "api_key", "none"},
           NEW operations \in SUBSET {Get, Post, Put, Graphql}, operations # {}
    PROVE  /\ Stack(kind, operations) \in Specs
           /\ validate_stack(Stack(kind, operations))
           /\ WellMade(Stack(kind, operations), "catalog")
<1>1. \A operation \in {Get, Post, Put, Graphql} :
        /\ operation \in Operations
        /\ operation.direction \in SUPPORTED_DIRECTIONS
        /\ operation.effect_radius = "internal" => operation.method = "GET"
    BY DEF Get, Post, Put, Graphql, Operation, Operations, SUPPORTED_DIRECTIONS,
           EFFECTFUL_RADII, HTTP_METHODS
<1>2. kind \in SUPPORTED_AUTH_KINDS
    BY DEF SUPPORTED_AUTH_KINDS
<1>3. Stack(kind, operations) \in Specs
    BY <1>1, <1>2 DEF Stack, Specs
<1>4. validate_stack(Stack(kind, operations))
    BY <1>1, <1>2 DEF Stack, validate_stack
<1>5. WellMade(Stack(kind, operations), "catalog")
    BY <1>1 DEF Stack, WellMade
<1> QED
    BY <1>3, <1>4, <1>5

LEMMA CatalogSound ==
    ASSUME NEW spec \in JSON_STACK_CATALOG
    PROVE  spec \in Specs /\ validate_stack(spec) /\ WellMade(spec, "catalog")
<1>1. \E kind \in {"oauth2", "bearer", "api_key", "none"},
         operations \in SUBSET {Get, Post, Put, Graphql} :
            operations # {} /\ spec = Stack(kind, operations)
    BY DEF JSON_STACK_CATALOG, onedrive_json, microsoft_mail_json, power_platform_json,
           salesforce_json, servicenow_grc_json, onetrust_grc_json, github_json, gitlab_json,
           azure_devops_json, jira_json, confluence_json, google_drive_json, slack_json,
           teams_json, notion_json, linear_json, okta_json, datadog_json, splunk_hec_json,
           zendesk_json, s3_presigned_json
<1> QED
    BY <1>1, CatalogForm

\* An import calls everything but a GET an effect.
LEMMA ImportSound ==
    ASSUME NEW document, NEW spec \in import_openapi_to_json_stack(document, "bearer")
    PROVE  spec \in Specs /\ WellMade(spec, "import")
<1>1. PICK operations \in _extract_operations(document) : spec = Stack("bearer", operations)
    BY DEF import_openapi_to_json_stack
<1>2. PICK pick \in [DOMAIN document -> HTTP_METHODS] :
        operations = {IF pick[name] = "GET" THEN Get
                      ELSE Operation("out", "external_trusted", pick[name]) :
                        name \in DOMAIN document}
    BY <1>1 DEF _extract_operations
<1>3. \A method \in HTTP_METHODS :
        LET operation == IF method = "GET" THEN Get
                         ELSE Operation("out", "external_trusted", method)
        IN  /\ operation \in Operations
            /\ operation.effect_radius = "internal" => operation.method = "GET"
    BY DEF HTTP_METHODS, Get, Operation, Operations, SUPPORTED_DIRECTIONS, EFFECTFUL_RADII
<1>4. \A operation \in operations :
        /\ operation \in Operations
        /\ operation.effect_radius = "internal" => operation.method = "GET"
    BY <1>2, <1>3
<1>5. spec \in Specs
    BY <1>1, <1>4 DEF Specs, Stack, SUPPORTED_AUTH_KINDS
<1>6. WellMade(spec, "import")
    BY <1>1, <1>4 DEF WellMade, Stack
<1> QED
    BY <1>5, <1>6

LEMMA HandmadeSound ==
    ASSUME NEW spec \in Handmade
    PROVE  spec \in Specs /\ WellMade(spec, "client")
BY DEF Handmade, Stack, Specs, Get, Operation, Operations, WellMade, SUPPORTED_AUTH_KINDS,
       SUPPORTED_DIRECTIONS, EFFECTFUL_RADII, HTTP_METHODS

LEMMA NoStackTyped == NoStack \in StackRow
<1>1. Stack("none", {}) \in Specs
    BY DEF Stack, Specs, SUPPORTED_AUTH_KINDS
<1> QED
    BY <1>1, StackAssumption DEF NoStack, StackRow, Origins, SUPPORTED_DIRECTIONS

\* The row of a spec of the catalog.
LEMMA SeededFields ==
    ASSUME NEW spec
    PROVE  /\ Seeded(spec).spec = spec
           /\ Seeded(spec).direction = Direction(spec)
           /\ Seeded(spec).effect_radius = EffectRadius(spec)
           /\ Seeded(spec).origin = "catalog"
           /\ Seeded(spec).version = 1
           /\ Seeded(spec).commits = 0
           /\ Seeded(spec).present
           /\ ~Seeded(spec).mixed
<1> DEFINE direction == Direction(spec)  radius == EffectRadius(spec)
<1>1. Seeded(spec) = [NoStack EXCEPT !.present = TRUE, !.spec = spec, !.version = 1,
                        !.direction = direction, !.effect_radius = radius]
    BY DEF Seeded
<1> HIDE DEF direction, radius
<1>2. /\ Seeded(spec).spec = spec
      /\ Seeded(spec).direction = direction
      /\ Seeded(spec).effect_radius = radius
      /\ Seeded(spec).version = 1
      /\ Seeded(spec).present
    BY <1>1 DEF NoStack
<1>3. /\ Seeded(spec).origin = "catalog"
      /\ Seeded(spec).commits = 0
      /\ ~Seeded(spec).mixed
    BY <1>1 DEF NoStack
<1> QED
    BY <1>2, <1>3 DEF direction, radius

LEMMA SeededTyped ==
    ASSUME NEW spec \in Specs
    PROVE  Seeded(spec) \in StackRow
<1>1. Direction(spec) \in SUPPORTED_DIRECTIONS
      /\ EffectRadius(spec) \in {"internal", "external_trusted"}
    BY DirectionTyped, RadiusTyped
<1>2. NoStack \in StackRow
    BY NoStackTyped
<1>3. \A row \in StackRow, direction \in SUPPORTED_DIRECTIONS,
         radius \in {"internal", "external_trusted"}, version \in 0..MaxUpserts + 1 :
        [row EXCEPT !.present = TRUE, !.spec = spec, !.version = version,
            !.direction = direction, !.effect_radius = radius] \in StackRow
    BY DEF StackRow
<1>4. 1 \in 0..MaxUpserts + 1
    BY StackAssumption
<1> QED
    BY Zenon, <1>1, <1>2, <1>3, <1>4 DEF Seeded

LEMMA NoStackSound == WellMade(NoStack.spec, NoStack.origin)
                      /\ NoStack.effect_radius = EffectRadius(NoStack.spec)
BY DEF NoStack, WellMade, EffectRadius, Stack

-----------------------------------------------------------------------------
(* Secrets *)

SecretsType ==
    [backend : Backends, env : BOOLEAN, vault : 0..MaxVersions,
     cache : Unread..MaxVersions, held : SUBSET (Environment..MaxVersions)]

\* What a reference resolves to was there, and so was what is kept of it.
LEMMA Resolved ==
    ASSUME secrets \in SecretsType, SecretsHeld, NEW found \in resolve_secret
    PROVE  /\ found.cache \in Unread..MaxVersions
           /\ found.cache \in secrets.held \cup {Unread, NoSecret}
           /\ found.value \in secrets.held \cup {NoSecret}
<1> DEFINE vault == {Found(value, value) : value \in _read_vault_kv2}
           env == Found(_resolve_env, secrets.cache)
<1>1. /\ secrets.vault \in 0..MaxVersions /\ secrets.cache \in Unread..MaxVersions
      /\ secrets.backend \in Backends /\ secrets.env \in BOOLEAN
    BY DEF SecretsType
<1>2. \A value \in _read_vault_kv2 :
        value \in Unread..MaxVersions /\ value \in secrets.held \cup {NoSecret}
    <2>1. ASSUME NEW value \in _read_vault_kv2, secrets.cache # Unread
          PROVE  value \in Unread..MaxVersions /\ value \in secrets.held \cup {NoSecret}
        BY <1>1, <2>1 DEF _read_vault_kv2, SecretsHeld
    <2>2. ASSUME NEW value \in _read_vault_kv2, secrets.cache = Unread
          PROVE  value \in Unread..MaxVersions /\ value \in secrets.held \cup {NoSecret}
        <3>1. value \in {secrets.vault, NoSecret}
            BY <2>2 DEF _read_vault_kv2
        <3>2. secrets.vault # Unread /\ secrets.vault \in Unread..MaxVersions
              /\ NoSecret \in Unread..MaxVersions
            BY <1>1, StackAssumption DEF Unread, NoSecret
        <3> QED
            BY <3>1, <3>2 DEF SecretsHeld
    <2> QED
        BY <2>1, <2>2
<1>3. _resolve_env \in secrets.held \cup {NoSecret}
    BY <1>1 DEF _resolve_env, SecretsHeld
<1>4. \A at \in vault :
        /\ at.cache \in Unread..MaxVersions
        /\ at.cache \in secrets.held \cup {Unread, NoSecret}
        /\ at.value \in secrets.held \cup {NoSecret}
    BY <1>2 DEF Found
<1>5. /\ env.cache \in Unread..MaxVersions
      /\ env.cache \in secrets.held \cup {Unread, NoSecret}
      /\ env.value \in secrets.held \cup {NoSecret}
    BY <1>1, <1>3 DEF Found, SecretsHeld
<1>6. \A at \in vault :
        /\ [at EXCEPT !.value = env.value].cache = at.cache
        /\ [at EXCEPT !.value = env.value].value = env.value
    BY DEF Found
<1>7. CASE secrets.backend = "env"
    <2>1. found = env
        BY <1>7 DEF resolve_secret
    <2> QED
        BY <2>1, <1>5
<1>8. CASE secrets.backend = "vault"
    <2>1. found \in vault
        BY <1>8 DEF resolve_secret
    <2> QED
        BY <2>1, <1>4
<1>9. CASE secrets.backend = "env_then_vault"
    <2>1. found = env \/ found \in vault
        BY <1>9 DEF resolve_secret
    <2> QED
        BY <2>1, <1>4, <1>5
<1>10. CASE secrets.backend = "vault_then_env"
    <2>1. PICK at \in vault :
            found = IF at.value # NoSecret THEN at ELSE [at EXCEPT !.value = env.value]
        BY <1>10 DEF resolve_secret
    <2> QED
        BY <2>1, <1>4, <1>5, <1>6
<1> QED
    BY <1>1, <1>7, <1>8, <1>9, <1>10 DEF Backends

\* Keeping it keeps the secrets as they have to be.
LEMMA ColumnsKept ==
    ASSUME secrets \in SecretsType, SecretsHeld, NEW found \in resolve_secret,
           secrets' = [secrets EXCEPT !.cache = found.cache]
    PROVE  secrets' \in SecretsType /\ SecretsHeld'
<1>1. /\ found.cache \in Unread..MaxVersions
      /\ found.cache \in secrets.held \cup {Unread, NoSecret}
    BY Resolved
<1> DEFINE cache == found.cache
<1> HIDE DEF cache
<1>2. secrets' = [secrets EXCEPT !.cache = cache] /\ cache \in Unread..MaxVersions
      /\ cache \in secrets.held \cup {Unread, NoSecret}
    BY <1>1 DEF cache
<1>3. secrets' \in SecretsType
    BY <1>2 DEF SecretsType
<1>4. /\ secrets'.cache = cache /\ secrets'.vault = secrets.vault
      /\ secrets'.env = secrets.env /\ secrets'.held = secrets.held
    BY <1>2 DEF SecretsType
<1> QED
    BY <1>2, <1>3, <1>4 DEF SecretsHeld

-----------------------------------------------------------------------------
(* The invariant *)

Inv == StackTypeOK /\ StackSound

RequestType == [pc : {"idle", "upsert"}, was : StackRow, spec : Specs, origin : Origins]

LEMMA IdleTyped == XIdle \in RequestType /\ XIdle.pc = "idle"
<1>1. Stack("none", {}) \in Specs
    BY DEF Stack, Specs, SUPPORTED_AUTH_KINDS
<1> QED
    BY <1>1, NoStackTyped DEF XIdle, RequestType, Origins

LEMMA StackInitInv == StackInit => Inv
<1> SUFFICES ASSUME StackInit PROVE Inv
    OBVIOUS
<1>1. \A x \in XReqs : xreq[x] = XIdle
    BY DEF StackInit
<1>2. xreq \in [XReqs -> RequestType]
    BY IdleTyped DEF StackInit
<1>3. /\ secrets \in SecretsType
      /\ secrets.vault = NoSecret /\ secrets.cache = Unread
      /\ secrets.env => Environment \in secrets.held
    <2>1. PICK backend \in Backends, env \in BOOLEAN :
            secrets = [backend |-> backend, env |-> env, vault |-> NoSecret, cache |-> Unread,
                       held |-> IF env THEN {Environment} ELSE {}]
        BY DEF StackInit
    <2>2. NoSecret \in 0..MaxVersions /\ Unread \in Unread..MaxVersions
          /\ Environment \in Environment..MaxVersions
        BY StackAssumption DEF NoSecret, Unread, Environment
    <2>3. (IF env THEN {Environment} ELSE {}) \in SUBSET (Environment..MaxVersions)
        BY <2>2
    <2> QED
        BY <2>1, <2>2, <2>3 DEF SecretsType
<1>4. CASE stack = NoStack
    <2>1. stack \in StackRow /\ ~stack.present /\ stack.version = 0 /\ stack.commits = 0
        BY <1>4, NoStackTyped DEF NoStack
    <2>2. StackTypeOK
        BY <2>1, <1>2, <1>3 DEF StackTypeOK, SecretsType, RequestType
    <2>3. RowSound
        BY <1>4, <2>1, NoStackSound DEF RowSound
    <2> QED
        BY <2>2, <2>3, <1>1, <1>3, IdleTyped DEF Inv, StackSound, SecretsHeld, Loaded
<1>5. CASE stack \in ensure_hooks
    <2>1. PICK spec \in JSON_STACK_CATALOG : stack = Seeded(spec)
        BY <1>5 DEF ensure_hooks
    <2>2. spec \in Specs /\ validate_stack(spec) /\ WellMade(spec, "catalog")
        BY CatalogSound
    <2>3. /\ stack.spec = spec /\ stack.effect_radius = EffectRadius(spec)
          /\ stack.origin = "catalog" /\ stack.version = 1 /\ stack.commits = 0 /\ stack.present
        BY <2>1, SeededFields
    <2>4. stack \in StackRow
        BY <2>1, <2>2, SeededTyped
    <2>5. StackTypeOK
        BY <2>2, <2>3, <2>4, <1>2, <1>3 DEF StackTypeOK, SecretsType, RequestType
    <2>6. RowSound
        BY <2>2, <2>3 DEF RowSound
    <2> QED
        BY <2>5, <2>6, <1>1, <1>3, IdleTyped DEF Inv, StackSound, SecretsHeld, Loaded
<1> QED
    BY <1>4, <1>5 DEF StackInit

\* A request begins to be served with a spec that is sound.
LEMMA BeginInv ==
    ASSUME Inv, NEW x \in XReqs, NEW spec \in Specs, NEW origin \in Origins,
           WellMade(spec, origin), UpsertBegin(x, spec, origin)
    PROVE  Inv'
<1> DEFINE me == [pc |-> "upsert", was |-> stack, spec |-> spec, origin |-> origin]
<1>1. /\ validate_stack(spec)
      /\ xreq' = [xreq EXCEPT ![x] = me]
      /\ stack' = stack /\ secrets' = secrets
    BY DEF UpsertBegin
<1>2. me \in RequestType
    BY DEF Inv, StackTypeOK, RequestType
<1>3. me.pc = "upsert" /\ me.was = stack /\ me.spec = spec /\ me.origin = origin
    OBVIOUS
<1> HIDE DEF me
<1>4. stack.commits \in Nat
    BY StackAssumption DEF Inv, StackTypeOK, StackRow
<1>5. Loaded(me)
    BY <1>1, <1>3, <1>4 DEF Inv, StackSound, RowSound, Loaded
<1>6. StackTypeOK'
    BY <1>1, <1>2 DEF Inv, StackTypeOK, RequestType
<1>7. RowSound' /\ SecretsHeld'
    BY <1>1 DEF Inv, StackSound, RowSound, SecretsHeld
<1>8. \A y \in XReqs : Loaded(xreq'[y])
    BY <1>1, <1>5 DEF Inv, StackTypeOK, StackSound
<1>9. \A y \in XReqs : Loaded(xreq[y])'
    BY <1>1, <1>8 DEF Loaded, validate_stack, WellMade
<1> QED
    BY <1>6, <1>7, <1>9 DEF Inv, StackSound

\* An update writes what differs from what was loaded.
Differs(old, value, now) == IF value # old THEN value ELSE now

LEMMA UpsertInv ==
    ASSUME Inv, NEW x \in XReqs, upsert_json_stack_hook(x)
    PROVE  Inv'
<1> DEFINE me == xreq[x]
           was == me.was
           new == Seeded(me.spec)
<1>1. /\ me.pc = "upsert" /\ secrets' = secrets
      /\ IF ~was.present /\ stack.present THEN Refused(x)
         ELSE /\ stack.commits < MaxUpserts
              /\ stack' = [stack EXCEPT
                        !.present = TRUE,
                        !.direction = Differs(was.direction, new.direction, @),
                        !.effect_radius = Differs(was.effect_radius, new.effect_radius, @),
                        !.spec = Differs(was.spec, new.spec, @),
                        !.origin = Differs(was.origin, me.origin, @),
                        !.version = was.version + 1,
                        !.commits = @ + 1,
                        !.mixed = stack.commits # was.commits]
              /\ xreq' = [xreq EXCEPT ![x] = XIdle]
    BY DEF upsert_json_stack_hook, Differs
<1>2. /\ me \in RequestType /\ was \in StackRow /\ me.spec \in Specs /\ me.origin \in Origins
      /\ stack \in StackRow /\ xreq \in [XReqs -> RequestType] /\ secrets \in SecretsType
    BY DEF Inv, StackTypeOK, RequestType, SecretsType
<1>3. /\ Loaded(me) /\ RowSound /\ SecretsHeld /\ \A y \in XReqs : Loaded(xreq[y])
    BY DEF Inv, StackSound
<1>4. xreq' = [xreq EXCEPT ![x] = XIdle]
    BY <1>1 DEF Refused
<1>5. xreq' \in [XReqs -> RequestType]
    BY <1>2, <1>4, IdleTyped
<1>6. \A y \in XReqs : xreq'[y] = xreq[y] \/ xreq'[y].pc = "idle"
    BY <1>2, <1>4, IdleTyped
<1>7. SecretsHeld' /\ secrets' \in SecretsType
    BY <1>1, <1>2, <1>3 DEF SecretsHeld
<1>8. CASE ~was.present /\ stack.present
    <2>1. stack' = stack
        BY <1>1, <1>8 DEF Refused
    <2>2. StackTypeOK'
        BY <2>1, <1>5, <1>7 DEF Inv, StackTypeOK, RequestType, SecretsType
    <2>3. RowSound'
        BY <2>1, <1>3 DEF RowSound
    <2>4. \A y \in XReqs : Loaded(xreq[y])'
        BY <2>1, <1>3, <1>6 DEF Loaded
    <2> QED
        BY <2>2, <2>3, <2>4, <1>7 DEF Inv, StackSound
<1>9. CASE ~(~was.present /\ stack.present)
    <2> DEFINE direction == Differs(was.direction, new.direction, stack.direction)
               radius == Differs(was.effect_radius, new.effect_radius, stack.effect_radius)
               spec == Differs(was.spec, new.spec, stack.spec)
               origin == Differs(was.origin, me.origin, stack.origin)
               version == was.version + 1
               commits == stack.commits + 1
               mixed == stack.commits # was.commits
    <2>1. /\ stack.commits < MaxUpserts
          /\ stack' = [stack EXCEPT !.present = TRUE, !.direction = direction,
                        !.effect_radius = radius, !.spec = spec, !.origin = origin,
                        !.version = version, !.commits = commits, !.mixed = mixed]
        BY Zenon, <1>1, <1>9
    <2>2. new \in StackRow /\ new.spec = me.spec /\ new.direction = Direction(me.spec)
          /\ new.effect_radius = EffectRadius(me.spec)
        BY <1>2, SeededTyped, SeededFields
    <2>3. /\ direction \in SUPPORTED_DIRECTIONS /\ radius \in {"internal", "external_trusted"}
          /\ spec \in Specs /\ origin \in Origins /\ mixed \in BOOLEAN
        BY <1>2, <2>2 DEF StackRow, Differs
    <2>4. /\ was.version \in Nat /\ was.commits \in Nat /\ stack.commits \in Nat
          /\ was.version <= was.commits + 1 /\ was.commits <= stack.commits
        BY <1>1, <1>2, <1>3, StackAssumption DEF StackRow, Loaded
    <2>5. /\ version \in 0..MaxUpserts + 1 /\ commits \in 0..MaxUpserts
          /\ version <= commits + 1
        BY <2>1, <2>4, StackAssumption
    <2>6. validate_stack(me.spec) /\ WellMade(me.spec, me.origin)
        BY <1>1, <1>3 DEF Loaded
    <2>7. validate_stack(spec)
        <3>1. CASE spec = me.spec
            BY <3>1, <2>6
        <3>2. CASE spec # me.spec
            <4>1. spec = stack.spec /\ was.spec = me.spec
                BY <3>2, <2>2 DEF Differs
            <4>2. was.present
                BY <4>1, <2>6, <1>1, <1>3 DEF Loaded, NoStack, Stack, validate_stack
            <4>3. stack.present
                BY <4>2, <1>1, <1>3 DEF Loaded
            <4> QED
                BY <4>1, <4>3 DEF Inv, StackTypeOK
        <3> QED
            BY <3>1, <3>2
    <2>8. ~mixed => spec = me.spec /\ origin = me.origin /\ radius = EffectRadius(spec)
        <3>1. ~mixed => was = stack
            BY <1>1, <1>3 DEF Loaded
        <3> QED
            BY <3>1, <2>2 DEF Differs
    <2> HIDE DEF direction, radius, spec, origin, version, commits, mixed
    <2>9. stack' \in StackRow
        BY <2>1, <2>3, <2>5, <1>2 DEF StackRow
    <2>10. /\ stack'.spec = spec /\ stack'.origin = origin /\ stack'.effect_radius = radius
           /\ stack'.present /\ stack'.version = version /\ stack'.commits = commits
           /\ stack'.mixed = mixed
        BY <2>1, <1>2 DEF StackRow
    <2>11. StackTypeOK'
        BY <2>7, <2>9, <2>10, <1>5, <1>7 DEF StackTypeOK, RequestType, SecretsType, validate_stack
    <2>12. RowSound'
        <3>1. ~stack'.mixed => /\ WellMade(stack'.spec, stack'.origin)
                               /\ stack'.effect_radius = EffectRadius(stack'.spec)
            BY <2>6, <2>8, <2>10, <2>3
        <3> QED
            BY <3>1, <2>5, <2>10 DEF RowSound, WellMade, EffectRadius
    <2>13. \A y \in XReqs : Loaded(xreq[y])'
        <3> SUFFICES ASSUME NEW y \in XReqs, xreq'[y] = xreq[y], xreq[y].pc = "upsert"
                     PROVE  Loaded(xreq[y])'
            BY <1>6 DEF Loaded
        <3>1. xreq[y].was.commits <= stack.commits /\ xreq[y].was.commits \in Nat
            BY <1>2, <1>3, StackAssumption DEF Loaded, RequestType, StackRow
        <3>2. xreq[y].was.commits < commits
            BY <3>1, <2>4 DEF commits
        <3>3. xreq[y].was.commits <= commits /\ xreq[y].was.commits # commits
            BY <3>1, <3>2, <2>5
        <3>4. Loaded(xreq[y])
            BY <1>3
        <3> QED
            BY <3>3, <3>4, <2>10 DEF Loaded, validate_stack, WellMade
    <2> QED
        BY <2>11, <2>12, <2>13, <1>7 DEF Inv, StackSound
<1> QED
    BY <1>8, <1>9

\* Steps that leave the row and the requests alone.
LEMMA SecretInv ==
    ASSUME Inv, UNCHANGED <<stack, xreq>>, secrets' \in SecretsType, SecretsHeld'
    PROVE  Inv'
<1>1. StackTypeOK'
    BY DEF Inv, StackTypeOK, SecretsType
<1>2. RowSound' /\ \A x \in XReqs : Loaded(xreq[x])'
    BY DEF Inv, StackSound, RowSound, Loaded
<1> QED
    BY <1>1, <1>2 DEF Inv, StackSound

LEMMA RotateInv ==
    ASSUME Inv, RotateSecret
    PROVE  Inv'
<1> DEFINE vault == secrets.vault + 1
           held == secrets.held \cup {vault}
<1>1. secrets \in SecretsType /\ SecretsHeld /\ UNCHANGED <<stack, xreq>>
    BY DEF Inv, StackTypeOK, StackSound, SecretsType, RotateSecret
<1>2. secrets' = [secrets EXCEPT !.vault = vault, !.held = held]
    BY DEF RotateSecret
<1>3. vault \in 0..MaxVersions /\ vault \in Environment..MaxVersions
    BY <1>1, StackAssumption DEF SecretsType, RotateSecret, Environment
<1>4. held \in SUBSET (Environment..MaxVersions) /\ vault \in held /\ secrets.held \subseteq held
    BY <1>1, <1>3 DEF SecretsType
<1> HIDE DEF vault, held
<1>5. secrets' \in SecretsType
    BY <1>1, <1>2, <1>3, <1>4 DEF SecretsType
<1>6. /\ secrets'.vault = vault /\ secrets'.held = held
      /\ secrets'.cache = secrets.cache /\ secrets'.env = secrets.env
    BY <1>1, <1>2 DEF SecretsType
<1>7. SecretsHeld'
    BY <1>1, <1>4, <1>6 DEF SecretsHeld
<1> QED
    BY <1>1, <1>5, <1>7, SecretInv

LEMMA RestartInv ==
    ASSUME Inv, NEW env \in BOOLEAN, StackRestart(env)
    PROVE  Inv'
<1> DEFINE held == (IF env THEN {Environment} ELSE {}) \cup ({secrets.vault} \ {NoSecret})
<1>1. secrets \in SecretsType
    BY DEF Inv, StackTypeOK, SecretsType
<1>2. secrets' = [secrets EXCEPT !.env = env, !.cache = Unread, !.held = held]
    BY DEF StackRestart
<1>3. held \in SUBSET (Environment..MaxVersions) /\ Unread \in Unread..MaxVersions
    BY <1>1, StackAssumption DEF SecretsType, Environment, Unread
<1>4. (env => Environment \in held) /\ secrets.vault \in held \cup {NoSecret}
    OBVIOUS
<1> HIDE DEF held
<1>5. secrets' \in SecretsType
    BY <1>1, <1>2, <1>3 DEF SecretsType
<1>6. /\ secrets'.vault = secrets.vault /\ secrets'.held = held
      /\ secrets'.cache = Unread /\ secrets'.env = env
    BY <1>1, <1>2 DEF SecretsType
<1>7. SecretsHeld'
    BY <1>4, <1>6 DEF SecretsHeld
<1>8. stack' = stack /\ xreq' = [x \in XReqs |-> XIdle]
    BY DEF StackRestart
<1>9. StackTypeOK'
    BY <1>5, <1>8, IdleTyped DEF Inv, StackTypeOK, SecretsType, RequestType
<1>10. RowSound' /\ \A x \in XReqs : Loaded(xreq[x])'
    BY <1>8, IdleTyped DEF Inv, StackSound, RowSound, Loaded
<1> QED
    BY <1>7, <1>9, <1>10 DEF Inv, StackSound

\* A live call keeps what the vault answered and nothing else.
LEMMA CallInv ==
    ASSUME Inv, NEW operation \in stack.spec.operations, NEW effect_approved \in BOOLEAN,
           call_stack_live(operation, effect_approved)
    PROVE  Inv'
<1>1. secrets \in SecretsType /\ SecretsHeld /\ UNCHANGED <<stack, xreq>>
    BY DEF Inv, StackTypeOK, StackSound, SecretsType, call_stack_live
<1>2. secrets' = secrets
      \/ \E found \in resolve_secret : secrets' = [secrets EXCEPT !.cache = found.cache]
    BY DEF call_stack_live
<1>3. secrets' \in SecretsType /\ SecretsHeld'
    <2>1. CASE secrets' = secrets
        BY <2>1, <1>1 DEF SecretsHeld
    <2> QED
        BY <2>1, <1>1, <1>2, ColumnsKept
<1> QED
    BY <1>1, <1>3, SecretInv

LEMMA StatusInv ==
    ASSUME Inv, secret_status
    PROVE  Inv'
<1>1. secrets \in SecretsType /\ SecretsHeld /\ UNCHANGED <<stack, xreq>>
    BY DEF Inv, StackTypeOK, StackSound, SecretsType, secret_status
<1>2. secrets' \in SecretsType /\ SecretsHeld'
    BY <1>1, ColumnsKept DEF secret_status
<1> QED
    BY <1>1, <1>2, SecretInv

LEMMA StackStep == Inv /\ [StackNext]_stackVars => Inv'
<1> SUFFICES ASSUME Inv, [StackNext]_stackVars PROVE Inv'
    OBVIOUS
<1>1. ASSUME NEW x \in XReqs, NEW document \in Documents,
             NEW spec \in import_openapi_to_json_stack(document, "bearer"),
             UpsertBegin(x, spec, "import")
      PROVE  Inv'
    <2>1. spec \in Specs /\ WellMade(spec, "import") /\ "import" \in Origins
        BY ImportSound DEF Origins
    <2> QED
        BY <1>1, <2>1, BeginInv
<1>2. ASSUME NEW x \in XReqs, NEW spec \in Handmade, UpsertBegin(x, spec, "client")
      PROVE  Inv'
    <2>1. spec \in Specs /\ WellMade(spec, "client") /\ "client" \in Origins
        BY HandmadeSound DEF Origins
    <2> QED
        BY <1>2, <2>1, BeginInv
<1>3. ASSUME NEW x \in XReqs, upsert_json_stack_hook(x) PROVE Inv'
    BY <1>3, UpsertInv
<1>4. CASE secret_status
    BY <1>4, StatusInv
<1>5. CASE RotateSecret
    BY <1>5, RotateInv
<1>6. ASSUME NEW env \in BOOLEAN, StackRestart(env) PROVE Inv'
    BY <1>6, RestartInv
<1>7. ASSUME NEW operation \in stack.spec.operations, NEW effect_approved \in BOOLEAN,
             call_stack_live(operation, effect_approved)
      PROVE  Inv'
    BY <1>7, CallInv
<1>8. CASE UNCHANGED stackVars
    <2>1. UNCHANGED <<stack, xreq>> /\ secrets' = secrets
        BY <1>8 DEF stackVars
    <2>2. secrets' \in SecretsType /\ SecretsHeld'
        BY <2>1 DEF Inv, StackTypeOK, StackSound, SecretsType, SecretsHeld
    <2> QED
        BY <2>1, <2>2, SecretInv
<1> QED
    BY <1>1, <1>2, <1>3, <1>4, <1>5, <1>6, <1>7, <1>8 DEF StackNext

\* What upserts load and rows hold (json_stack.py, production_hooks.py) and what
\* the secrets of the process can be (secrets.py) stay sound.
THEOREM StackTheorem == StackSpec => [](StackTypeOK /\ StackSound)
<1>1. StackSpec => []Inv
    BY StackInitInv, StackStep, PTL DEF StackSpec
<1> QED
    BY <1>1, PTL DEF Inv

-----------------------------------------------------------------------------
(* What leaves *)

\* Only a live call sends anything.
LEMMA Departure ==
    ASSUME StackNext, departed' # {}
    PROVE  \E operation \in stack.spec.operations, effect_approved \in BOOLEAN :
            call_stack_live(operation, effect_approved)
BY DEF StackNext, UpsertBegin, upsert_json_stack_hook, secret_status, RotateSecret, StackRestart,
       Quiet

\* The gate looks at the radius of the row, which is that of its operations.
LEMMA GateStep ==
    ASSUME Inv, EffectsAreApproved, [StackNext]_stackVars
    PROVE  EffectsAreApproved'
<1>1. CASE UNCHANGED stackVars
    BY <1>1 DEF stackVars, EffectsAreApproved
<1>2. CASE departed' = {}
    BY <1>2 DEF EffectsAreApproved
<1>3. CASE StackNext /\ departed' # {}
    <2>1. PICK operation \in stack.spec.operations, effect_approved \in BOOLEAN :
            call_stack_live(operation, effect_approved)
        BY <1>3, Departure
    <2>2. stack.effect_radius \in EFFECTFUL_RADII => effect_approved
        BY <2>1 DEF call_stack_live
    <2>3. \A request \in departed' :
            /\ request.operation = operation /\ request.approved = effect_approved
            /\ request.origin = stack.origin /\ request.mixed = stack.mixed
        BY <2>1 DEF call_stack_live, Sent
    <2>4. ~stack.mixed /\ ~effect_approved => operation.effect_radius = "internal"
        <3>1. ~stack.mixed => stack.effect_radius = EffectRadius(stack.spec)
            BY DEF Inv, StackSound, RowSound
        <3> QED
            BY <2>2, <3>1 DEF EffectRadius, EFFECTFUL_RADII
    <2>5. ~stack.mixed /\ operation.effect_radius = "internal" =>
            stack.origin = "client" \/ operation.method = "GET"
        BY DEF Inv, StackSound, RowSound, WellMade
    <2> QED
        BY <2>3, <2>4, <2>5 DEF EffectsAreApproved
<1> QED
    BY <1>1, <1>2, <1>3

\* Whatever specs clients and documents bring, as long as upserts do not overlap
\* every live request that has an effect was approved: call_stack in
\* json_stack.py behind the gate of call_hook.
THEOREM GateTheorem == StackSpec => []EffectsAreApproved
<1>1. StackInit => EffectsAreApproved
    BY DEF StackInit, EffectsAreApproved
<1>2. Inv /\ EffectsAreApproved /\ [StackNext]_stackVars => EffectsAreApproved'
    BY GateStep
<1> QED
    BY <1>1, <1>2, StackInitInv, StackStep, PTL DEF StackSpec

LEMMA TokenStep ==
    ASSUME Inv, SentWithSecret, [StackNext]_stackVars
    PROVE  SentWithSecret'
<1>1. CASE UNCHANGED stackVars
    BY <1>1 DEF stackVars, SentWithSecret
<1>2. CASE departed' = {}
    BY <1>2 DEF SentWithSecret
<1>3. CASE StackNext /\ departed' # {}
    <2>1. PICK operation \in stack.spec.operations, effect_approved \in BOOLEAN :
            call_stack_live(operation, effect_approved)
        BY <1>3, Departure
    <2>2. CASE stack.spec.kind = "none"
        BY <2>1, <2>2 DEF call_stack_live, Sent, SentWithSecret
    <2>3. CASE stack.spec.kind # "none"
        <3>1. PICK found \in resolve_secret :
                departed' = IF found.value = NoSecret THEN {}
                            ELSE {Sent(operation, effect_approved, found.value)}
            BY <2>1, <2>3 DEF call_stack_live
        <3>2. found.value \in secrets.held \cup {NoSecret}
            BY Resolved DEF Inv, StackTypeOK, StackSound, SecretsType
        <3>3. \A request \in departed' :
                request.kind # "none" /\ request.token \in request.held
            BY <2>3, <3>1, <3>2 DEF Sent
        <3> QED
            BY <3>3 DEF SentWithSecret
    <2> QED
        BY <2>2, <2>3
<1> QED
    BY <1>1, <1>2, <1>3

\* A request that needs a token carries one the process could get hold of since
\* it started, over rotations, restarts and vaults out of reach: resolve_secret
\* in secrets.py as call_stack uses it.
THEOREM TokenTheorem == StackSpec => []SentWithSecret
<1>1. StackInit => SentWithSecret
    BY DEF StackInit, SentWithSecret
<1>2. Inv /\ SentWithSecret /\ [StackNext]_stackVars => SentWithSecret'
    BY TokenStep
<1> QED
    BY <1>1, <1>2, StackInitInv, StackStep, PTL DEF StackSpec

=============================================================================
