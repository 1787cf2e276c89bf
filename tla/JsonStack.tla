------------------------------ MODULE JsonStack ------------------------------
(***************************************************************************)
(* A JSON stack hook: its spec comes from the catalog (json_stack.py), an  *)
(* OpenAPI document (openapi_importer.py) or the client's own hand, is     *)
(* stored by upsert_json_stack_hook (production_hooks.py) and turned into  *)
(* requests by call_stack, with secrets resolved by secrets.py.            *)
(*                                                                         *)
(* Paths, queries and bodies are left out: what is kept of a request is    *)
(* its operation, whether it was approved and the token it carries.  The   *)
(* ledger of calls is in ReviewDispatch.                                   *)
(***************************************************************************)
EXTENDS Integers, FiniteSets

CONSTANTS
    XReqs,        \* upsert requests being served
    MaxUpserts,   \* bound on upserts that are committed
    MaxVersions   \* bound on the values a secret has in the vault

ASSUME StackAssumption == MaxUpserts \in Nat /\ MaxVersions \in Nat

-----------------------------------------------------------------------------
(* Specs *)

SUPPORTED_AUTH_KINDS == {"oauth2", "bearer", "api_key", "basic", "none"}
SUPPORTED_DIRECTIONS == {"in", "out", "both", "supervise"}
EFFECTFUL_RADII == {"external_trusted", "external_public", "privileged"}

Operation(direction, effect_radius, method) ==
    [direction |-> direction, effect_radius |-> effect_radius, method |-> method]
Stack(kind, operations) == [kind |-> kind, operations |-> operations]

\* What the operations of the catalog do: look something up, write something, or
\* anything.
Get == Operation("in", "internal", "GET")
Post == Operation("out", "external_trusted", "POST")
Put == Operation("out", "external_trusted", "PUT")
Graphql == Operation("both", "external_trusted", "POST")

onedrive_json == Stack("oauth2", {Get, Put})
microsoft_mail_json == Stack("oauth2", {Post})
power_platform_json == Stack("oauth2", {Post})
salesforce_json == Stack("oauth2", {Get, Post})
servicenow_grc_json == Stack("oauth2", {Get, Post})
onetrust_grc_json == Stack("oauth2", {Get, Post})
github_json == Stack("bearer", {Get, Post})
gitlab_json == Stack("bearer", {Get, Post})
azure_devops_json == Stack("bearer", {Post})
jira_json == Stack("bearer", {Get, Post})
confluence_json == Stack("bearer", {Get, Post})
google_drive_json == Stack("oauth2", {Get})
slack_json == Stack("bearer", {Post})
teams_json == Stack("oauth2", {Post})
notion_json == Stack("bearer", {Post})
linear_json == Stack("bearer", {Post, Graphql})
okta_json == Stack("oauth2", {Get})
datadog_json == Stack("api_key", {Get})
splunk_hec_json == Stack("bearer", {Post})
zendesk_json == Stack("bearer", {Post})
s3_presigned_json == Stack("none", {Put})

JSON_STACK_CATALOG ==
    {onedrive_json, microsoft_mail_json, power_platform_json, salesforce_json,
     servicenow_grc_json, onetrust_grc_json, github_json, gitlab_json, azure_devops_json,
     jira_json, confluence_json, google_drive_json, slack_json, teams_json, notion_json,
     linear_json, okta_json, datadog_json, splunk_hec_json, zendesk_json, s3_presigned_json}

\* A document maps names of operations to methods that have the name, once made
\* fit for a key: the last one read takes it.  An unknown scheme is no auth.
HTTP_METHODS == {"GET", "POST", "PUT", "PATCH", "DELETE"}
_extract_operations(document) ==
    LET taken == {pick \in [DOMAIN document -> HTTP_METHODS] :
                    \A name \in DOMAIN document : pick[name] \in document[name]}
        spec(method) == IF method = "GET" THEN Get ELSE Operation("out", "external_trusted", method)
    IN  {{spec(pick[name]) : name \in DOMAIN document} : pick \in taken}
import_openapi_to_json_stack(document, kind) ==
    {Stack(kind, operations) : operations \in _extract_operations(document)}

\* A radius is not validated, nor does a method have to go with it.
validate_stack(spec) ==
    /\ spec.kind \in SUPPORTED_AUTH_KINDS
    /\ spec.operations # {}
    /\ \A operation \in spec.operations : operation.direction \in SUPPORTED_DIRECTIONS

\* Documents and specs that clients send.
Documents == [{"read"} -> {{"GET"}}] \cup [{"read", "edit"} -> {{"GET"}, {"GET", "DELETE"}}]
Handmade ==
    {Stack(kind, operations) : kind \in {"none", "cookie"},
        operations \in {{}, {Get}, {Operation("out", "internal", "POST")},
                        {Get, Operation("supervise", "privileged", "POST")},
                        {Operation("up", "internal", "GET")}}}

-----------------------------------------------------------------------------
VARIABLES
    stack,    \* the hook's row
    xreq,     \* xreq[x]: the upsert x is serving
    secrets,  \* the process's environment and cache, and the vault
    departed  \* the live request that left in the last step, if one did

stackVars == <<stack, xreq, secrets, departed>>

\* origin says where the spec comes from; commits counts upserts, mixed says that
\* the last one overlapped with another: both are history.
NoStack == [present |-> FALSE, spec |-> Stack("none", {}), origin |-> "catalog",
            direction |-> "in", effect_radius |-> "internal", version |-> 0,
            commits |-> 0, mixed |-> FALSE]
XIdle == [pc |-> "idle", was |-> NoStack, spec |-> Stack("none", {}), origin |-> "catalog"]

\* A value of a secret is its version in the vault, or the one of the environment;
\* 0 is none.  held: history: the values the process could see since it started.
Environment == -1
NoSecret == 0
Unread == -2
Backends == {"env", "vault", "env_then_vault", "vault_then_env"}

Origins == {"catalog", "import", "client"}
\* "cookie" and "up" are there for what a client sends and validation refuses.
Operations == [direction : SUPPORTED_DIRECTIONS \cup {"up"},
               effect_radius : {"internal"} \cup EFFECTFUL_RADII, method : HTTP_METHODS]
Specs == [kind : SUPPORTED_AUTH_KINDS \cup {"cookie"}, operations : SUBSET Operations]
StackRow == [present : BOOLEAN, spec : Specs, origin : Origins,
             direction : SUPPORTED_DIRECTIONS, effect_radius : {"internal", "external_trusted"},
             version : 0..MaxUpserts + 1, commits : 0..MaxUpserts, mixed : BOOLEAN]

StackTypeOK ==
    /\ stack \in StackRow /\ (stack.present => validate_stack(stack.spec))
    /\ xreq \in [XReqs -> [pc : {"idle", "upsert"}, was : StackRow, spec : Specs, origin : Origins]]
    /\ secrets \in [backend : Backends, env : BOOLEAN, vault : 0..MaxVersions,
                    cache : Unread..MaxVersions, held : SUBSET (Environment..MaxVersions)]

\* The row's summary of its operations: HOOKS and upsert_json_stack_hook.
Direction(spec) ==
    LET directions == {operation.direction : operation \in spec.operations} IN
    IF "both" \in directions \/ {"in", "out"} \subseteq directions THEN "both"
    ELSE IF "out" \in directions THEN "out" ELSE "in"
EffectRadius(spec) ==
    IF \E operation \in spec.operations : operation.effect_radius # "internal"
    THEN "external_trusted" ELSE "internal"

Seeded(spec) == [NoStack EXCEPT !.present = TRUE, !.spec = spec, !.version = 1,
                    !.direction = Direction(spec), !.effect_radius = EffectRadius(spec)]

\* Rows of the catalog are there before any request is served.
ensure_hooks == {Seeded(spec) : spec \in JSON_STACK_CATALOG}

StackInit ==
    /\ stack \in ensure_hooks \cup {NoStack}
    /\ xreq = [x \in XReqs |-> XIdle]
    /\ \E backend \in Backends, env \in BOOLEAN :
        secrets = [backend |-> backend, env |-> env, vault |-> NoSecret, cache |-> Unread,
                   held |-> IF env THEN {Environment} ELSE {}]
    /\ departed = {}

Quiet == departed' = {}

-----------------------------------------------------------------------------
(* upsert_json_stack_hook *)

\* Specs that do not validate change nothing.
UpsertBegin(x, spec, origin) ==
    /\ xreq[x] = XIdle
    /\ validate_stack(spec)
    /\ xreq' = [xreq EXCEPT ![x] = [pc |-> "upsert", was |-> stack, spec |-> spec, origin |-> origin]]
    /\ UNCHANGED <<stack, secrets>> /\ Quiet

Refused(x) == stack' = stack /\ xreq' = [xreq EXCEPT ![x] = XIdle]

\* Faulty variant: the radius is that of the least of the operations.
UpsertLenient(x) ==
    LET spec == xreq[x].spec
        internal == \E operation \in spec.operations : operation.effect_radius = "internal"
    IN  /\ xreq[x].pc = "upsert"
        /\ stack.commits < MaxUpserts
        /\ stack' = [Seeded(spec) EXCEPT
                !.effect_radius = IF internal THEN "internal" ELSE "external_trusted",
                !.origin = xreq[x].origin, !.commits = stack.commits + 1]
        /\ xreq' = [xreq EXCEPT ![x] = XIdle]
        /\ UNCHANGED secrets /\ Quiet

\* Of two insertions the later fails, the urn being unique.  An update writes
\* the columns that differ from those loaded, whatever the row holds now; specs
\* of one shape are one spec here.
upsert_json_stack_hook(x) ==
    LET was == xreq[x].was
        new == Seeded(xreq[x].spec)
        differs(old, value, now) == IF value # old THEN value ELSE now
    IN  /\ xreq[x].pc = "upsert"
        /\ IF ~was.present /\ stack.present THEN Refused(x)
           ELSE /\ stack.commits < MaxUpserts
                /\ stack' = [stack EXCEPT
                        !.present = TRUE,
                        !.direction = differs(was.direction, new.direction, @),
                        !.effect_radius = differs(was.effect_radius, new.effect_radius, @),
                        !.spec = differs(was.spec, new.spec, @),
                        !.origin = differs(was.origin, xreq[x].origin, @),
                        !.version = was.version + 1,
                        !.commits = @ + 1,
                        !.mixed = stack.commits # was.commits]
                /\ xreq' = [xreq EXCEPT ![x] = XIdle]
        /\ UNCHANGED secrets /\ Quiet

-----------------------------------------------------------------------------
(* Secrets *)

\* The vault is read once, and what it answered is kept, be it nothing because
\* there was nothing, or because it could not be reached.
_read_vault_kv2 ==
    IF secrets.cache # Unread THEN {secrets.cache} ELSE {secrets.vault, NoSecret}
_resolve_env == IF secrets.env THEN Environment ELSE NoSecret

\* What the reference resolves to, and what is in the cache after that.
Found(value, cache) == [value |-> value, cache |-> cache]
resolve_secret ==
    LET vault == {Found(value, value) : value \in _read_vault_kv2}
        env == Found(_resolve_env, secrets.cache)
    IN  CASE secrets.backend = "env" -> {env}
          [] secrets.backend = "vault" -> vault
          [] secrets.backend = "env_then_vault" ->
                IF env.value # NoSecret THEN {env} ELSE vault
          [] secrets.backend = "vault_then_env" ->
                {IF found.value # NoSecret THEN found ELSE [found EXCEPT !.value = env.value] :
                    found \in vault}

\* The catalog shows which secrets are configured.
secret_status ==
    /\ \E found \in resolve_secret : secrets' = [secrets EXCEPT !.cache = found.cache]
    /\ UNCHANGED <<stack, xreq>> /\ Quiet

\* Somebody puts a new value into the vault.
RotateSecret ==
    /\ secrets.vault < MaxVersions
    /\ secrets' = [secrets EXCEPT !.vault = @ + 1, !.held = @ \cup {secrets.vault + 1}]
    /\ UNCHANGED <<stack, xreq>> /\ Quiet

\* A new process, with another environment perhaps; requests are gone.
StackRestart(env) ==
    /\ secrets' = [secrets EXCEPT !.env = env, !.cache = Unread,
            !.held = (IF env THEN {Environment} ELSE {}) \cup ({secrets.vault} \ {NoSecret})]
    /\ xreq' = [x \in XReqs |-> XIdle]
    /\ UNCHANGED stack /\ Quiet

-----------------------------------------------------------------------------
(* call_stack, by way of call_hook *)

Sent(operation, effect_approved, token) ==
    [operation |-> operation, approved |-> effect_approved, token |-> token,
     kind |-> stack.spec.kind, origin |-> stack.origin, mixed |-> stack.mixed,
     held |-> secrets.held]

\* Faulty variant: a secret that is missing is left out of the request.
call_stack_unauthorized(operation, effect_approved) ==
    /\ operation \in stack.spec.operations
    /\ stack.effect_radius \in EFFECTFUL_RADII => effect_approved
    /\ \E found \in resolve_secret :
        /\ secrets' = [secrets EXCEPT !.cache = found.cache]
        /\ departed' = {Sent(operation, effect_approved, found.value)}
    /\ UNCHANGED <<stack, xreq>>

\* Live: a preview sends nothing and resolves nothing.  A missing secret ends the
\* call before anything is sent.
call_stack_live(operation, effect_approved) ==
    /\ operation \in stack.spec.operations
    /\ stack.effect_radius \in EFFECTFUL_RADII => effect_approved
    /\ IF stack.spec.kind = "none"
       THEN /\ departed' = {Sent(operation, effect_approved, NoSecret)}
            /\ UNCHANGED secrets
       ELSE \E found \in resolve_secret :
            /\ secrets' = [secrets EXCEPT !.cache = found.cache]
            /\ departed' = IF found.value = NoSecret THEN {}
                            ELSE {Sent(operation, effect_approved, found.value)}
    /\ UNCHANGED <<stack, xreq>>

StackNext ==
    \/ \E x \in XReqs :
        \/ \E document \in Documents :
            \E spec \in import_openapi_to_json_stack(document, "bearer") :
                UpsertBegin(x, spec, "import")
        \/ \E spec \in Handmade : UpsertBegin(x, spec, "client")
        \/ upsert_json_stack_hook(x)
    \/ secret_status
    \/ RotateSecret
    \/ \E env \in BOOLEAN : StackRestart(env)
    \/ \E operation \in stack.spec.operations, effect_approved \in BOOLEAN :
        call_stack_live(operation, effect_approved)

StackSpec == StackInit /\ [][StackNext]_stackVars

-----------------------------------------------------------------------------
(* Properties *)

\* A request that its operation says has an effect, and of the catalog and of
\* imported documents every request that is no GET, was approved, though the
\* gate looks at one radius for the whole hook.  This holds as long as upserts
\* do not overlap: an update that leaves the radius as it was loaded does not
\* write it, and another one may have lowered it meanwhile.
EffectsAreApproved ==
    \A request \in departed :
        \/ request.mixed
        \/ request.approved
        \/ /\ request.operation.effect_radius = "internal"
           /\ request.origin = "client" \/ request.operation.method = "GET"

\* A request of a stack with authentication carries a value of the secret that
\* was there at some time since the process started.  It need not be there any
\* more: what the vault answered first is used until the process ends.
SentWithSecret ==
    \A request \in departed :
        IF request.kind = "none" THEN request.token = NoSecret ELSE request.token \in request.held

-----------------------------------------------------------------------------
(* What makes EffectsAreApproved and SentWithSecret inductive *)

\* What does not come from the client's hand says of everything but a GET that
\* it has an effect.
WellMade(spec, origin) ==
    origin # "client" => \A operation \in spec.operations :
        operation.effect_radius = "internal" => operation.method = "GET"

\* What an upsert loaded is the row, unless another one was committed since.
Loaded(me) ==
    me.pc = "upsert" =>
        /\ validate_stack(me.spec) /\ WellMade(me.spec, me.origin)
        /\ me.was.version <= me.was.commits + 1 /\ me.was.commits <= stack.commits
        /\ me.was.present => stack.present
        /\ ~me.was.present => me.was = NoStack
        /\ me.was.commits = stack.commits => me.was = stack

\* A row not written by overlapping upserts has the radius of its operations.
RowSound ==
    /\ stack.version <= stack.commits + 1
    /\ ~stack.present => stack = NoStack
    /\ ~stack.mixed => /\ WellMade(stack.spec, stack.origin)
                       /\ stack.effect_radius = EffectRadius(stack.spec)

\* Whatever the process can get hold of was there since it started.
SecretsHeld ==
    /\ {secrets.cache, secrets.vault} \subseteq secrets.held \cup {Unread, NoSecret}
    /\ secrets.env => Environment \in secrets.held

StackSound == RowSound /\ SecretsHeld /\ (\A x \in XReqs : Loaded(xreq[x]))

=============================================================================
