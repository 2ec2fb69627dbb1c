---------------------------- MODULE ServerStart ----------------------------
(***************************************************************************)
(* Start and end of a server process (kenjaku-server/src/main.rs): the     *)
(* configuration is merged and validated, the stores are connected, the    *)
(* services and their background workers are started, and only then are    *)
(* the tenants table and the key files read, the router built and the      *)
(* port bound.  A stage that fails ends the process, with the workers it   *)
(* has already spawned.  Several replicas share one database.              *)
(***************************************************************************)
EXTENDS Naturals, Sequences, FiniteSets, TLC

CONSTANTS Replicas,     \* the server processes of a deployment
          Tenants,      \* ids a row of the tenants table may have
          Layers,       \* what each layer of a configuration changes: <<base, env, secrets, variables>>
          Files,        \* the key files there are, by path
          MaxStarts     \* bound: starts of a process in a behaviour

VARIABLES stage,        \* stage[r]: the stage main is at, "down", "serving" or "draining"
          settings,     \* settings[r]: the merged configuration of the running process
          cache,        \* cache[r]: TenantsCache, the tenants read at start, never read again
          workers,      \* workers[r]: the background tasks spawned so far
          tenants,      \* the tenants table: plan tier of each tenant, or Absent
          starts        \* starts made so far

startVars == <<stage, settings, cache, workers, tenants, starts>>

Absent == "absent"
Plans == {"free", "pro", "enterprise"}
TenantTable == [Tenants -> Plans \cup {Absent}]

(***************************************************************************)
(* Configuration: four layers, a later one overrides an earlier one, and   *)
(* serde's defaults stand behind them.  A setting is known by its dotted   *)
(* name in the code; a secret is "" when no layer gives it.                *)
(***************************************************************************)
Secrets == {"postgres_url", "redis_url", "embedding_key", "llm_key", "contextualizer_key",
            "jwt_issuer", "jwt_audience", "jwt_public", "jwt_private"}

RefreshDefaults == "refresh_enabled" :> TRUE
HistoryDefaults == "history_enabled" :> TRUE
JwtDefaults == "jwt_algorithm" :> "RSA"
RateDefaults == "key_strategy" :> "ip"
(* The embedding vendor and the rate come from base.yaml.                  *)
BaseFile == "embedding_provider" :> "openai" @@ "rate" :> 1 @@ "burst" :> 1
Defaults ==
  [k \in Secrets |-> ""] @@ RefreshDefaults @@ HistoryDefaults @@ JwtDefaults
  @@ RateDefaults @@ BaseFile

load_config(layers) == layers[4] @@ layers[3] @@ layers[2] @@ layers[1] @@ Defaults

MissingSecrets(s) == {k \in Secrets : s[k] = ""}

(* The key files: metadata, is_file and the 16 KiB cap come before the     *)
(* read, and the bytes must parse as a key of the configured family.       *)
Readable(path) == path \in DOMAIN Files /\ Files[path].kind = "regular" /\ Files[path].size = "small"
KeyOf(path, family) == Readable(path) /\ Files[path].family = family
load_jwt_validator(s) == KeyOf(s.jwt_public, s.jwt_algorithm)
load_jwt_minter(s)    == KeyOf(s.jwt_private, s.jwt_algorithm)

(* GovernorConfigBuilder::finish gives no configuration for a zero period  *)
(* or burst, and build_router expects one.                                 *)
RouterBuilds(s) == s.rate > 0 /\ s.burst > 0

(* "stores" stands for the pool, the migrations, Qdrant with its alias and *)
(* Redis, in this order; "router" ends with binding the port.              *)
Stages == <<"stores", "services", "workers", "tenants", "keys", "router", "serving">>
StageSet == {Stages[i] : i \in 1..Len(Stages)} \cup {"down", "draining"}
Following(st) == Stages[(CHOOSE i \in 1..(Len(Stages) - 1) : Stages[i] = st) + 1]

(* Stages that talk to another process or to the operating system, and so  *)
(* may fail whatever the configuration says.                               *)
External == {"stores", "tenants", "router"}

(* A row whose id is refused by TenantId::new fails the whole load.        *)
LoadableTenants(good) == \A t \in Tenants : tenants[t] # Absent => t \in good

(* Whether the stage st of replica r succeeds when nothing outside fails.  *)
StageOk(r, st, good) ==
  CASE st = "services"  -> settings[r].embedding_provider = "openai"
    [] st = "tenants"   -> LoadableTenants(good)
    [] st = "keys"      -> load_jwt_validator(settings[r]) /\ load_jwt_minter(settings[r])
    [] st = "router"    -> RouterBuilds(settings[r])
    [] OTHER            -> TRUE

(* The janitor of the session histories is spawned with the services, the  *)
(* other tasks before anything is known of tenants, keys and port.         *)
Spawned(r, st) ==
  CASE st = "services"  -> IF settings[r].history_enabled THEN {"janitor"} ELSE {}
    [] st = "workers"   -> {"trending", "conversation"} \cup
                           (IF settings[r].refresh_enabled THEN {"refresh"} ELSE {})
    [] OTHER            -> {}

NoTenants == [t \in Tenants |-> Absent]
NoSettings == load_config(<<<<>>, <<>>, <<>>, <<>>>>)

StartInit(table) ==
  /\ stage = [r \in Replicas |-> "down"]
  /\ settings = [r \in Replicas |-> NoSettings]
  /\ cache = [r \in Replicas |-> NoTenants]
  /\ workers = [r \in Replicas |-> {}]
  /\ tenants = table
  /\ starts = 0

(* The process is started, by hand or by its supervisor.  Without all its  *)
(* secrets it ends before it has touched anything.                         *)
Boot(r) ==
  /\ stage[r] = "down" /\ starts < MaxStarts
  /\ \E layers \in Layers :
       /\ MissingSecrets(load_config(layers)) = {}
       /\ settings' = [settings EXCEPT ![r] = load_config(layers)]
  /\ stage' = [stage EXCEPT ![r] = Stages[1]]
  /\ starts' = starts + 1
  /\ UNCHANGED <<cache, workers, tenants>>

(* One stage of main succeeds; TenantsCache::load_at_startup takes its     *)
(* snapshot of the table.                                                  *)
Advance(r, good) ==
  /\ stage[r] \notin {"down", "serving", "draining"}
  /\ StageOk(r, stage[r], good)
  /\ stage' = [stage EXCEPT ![r] = Following(stage[r])]
  /\ workers' = [workers EXCEPT ![r] = @ \cup Spawned(r, stage[r])]
  /\ cache' = IF stage[r] = "tenants" THEN [cache EXCEPT ![r] = tenants] ELSE cache
  /\ UNCHANGED <<settings, tenants, starts>>

(* The process is gone: tasks, cache and configuration with it.            *)
Gone(r) ==
  /\ stage' = [stage EXCEPT ![r] = "down"]
  /\ workers' = [workers EXCEPT ![r] = {}]
  /\ cache' = [cache EXCEPT ![r] = NoTenants]
  /\ settings' = [settings EXCEPT ![r] = NoSettings]
  /\ UNCHANGED <<tenants, starts>>

(* `?` in main: the error of a stage ends the process.                     *)
StartFails(r, good) ==
  /\ stage[r] \notin {"down", "serving", "draining"}
  /\ stage[r] \in External \/ ~StageOk(r, stage[r], good)
  /\ Gone(r)

(* SIGINT or SIGTERM: axum stops accepting and waits for the requests.     *)
shutdown_signal(r) ==
  /\ stage[r] = "serving"
  /\ stage' = [stage EXCEPT ![r] = "draining"]
  /\ UNCHANGED <<settings, cache, workers, tenants, starts>>
=============================================================================
