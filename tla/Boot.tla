-------------------------------- MODULE Boot ---------------------------------
(***************************************************************************)
(* The two ways a verifier starts.                                         *)
(*                                                                         *)
(* In the confidential VM the launcher (tdx-signer/src/main.rs) federates  *)
(* with the partners, reconstructs the signer, reads the manifest and the  *)
(* key artifacts from the public bucket, and hands over to run_server      *)
(* (zk-verifier/src/server.rs), which has gates of its own before it       *)
(* serves.  On a developer's machine zk-verifier/src/main.rs reads a       *)
(* configuration and five key files from disk and calls run_server too.    *)
(* A boot that fails exits and is started again, by the platform           *)
(* (tee-restart-policy OnFailure) or by the developer.                     *)
(*                                                                         *)
(* Nothing is locked meanwhile: a ceremony may replace any object of the   *)
(* bucket, and gen-keys any file, between any two reads.                   *)
(***************************************************************************)
EXTENDS Settings, Sequences, FiniteSets, Functions

CONSTANTS
  Partners,       \* the baked partner set
  MIN_THRESHOLD,  \* cofhe_keys::shamir::MIN_THRESHOLD
  Thresholds,     \* the thresholds a baked map may carry
  Ceremonies,     \* the ceremonies that may publish to the bucket
  Ours,           \* the one whose shares the partners hold at share_version
  SignerOf,       \* the signer each ceremony publishes
  Baked,          \* the configurations compiled in, a base and an overlay each
  ConfigFiles,    \* what the file at CONFIG_PATH may hold
  Environments,   \* what the APP__ variables may hold
  KeyGens         \* bound: the runs of gen-keys, in order, each with new keys

ASSUME PartnersAssumption == IsFiniteSet(Partners)
ASSUME ThresholdsAssumption == MIN_THRESHOLD \in Nat /\ Thresholds \subseteq Nat
ASSUME CeremoniesAssumption == Ours \in Ceremonies /\ Ceremonies = DOMAIN SignerOf

\* What is baked is under review: the health loop has a period.
ASSUME SourcesAssumption ==
  /\ \A s \in ConfigFiles \union Environments : Source(s)
  /\ \A b \in Baked : \A s \in {b.base, b.overlay} :
       Source(s) /\ ("probe_interval_secs" \in DOMAIN s => s["probe_interval_secs"] # 0)

\* No run of gen-keys makes a signer that a server makes for itself.
ASSUME KeyGensAssumption == KeyGens \in Seq(Range(KeyGens)) /\ "own" \notin Range(KeyGens)

VARIABLES
  entry,      \* which of the two ways it is
  given,      \* what from_env needs and finds
  threshold,  \* baked.shamir_threshold
  good,       \* the partners whose federation and share are in order now
  sources,    \* where the configuration comes from
  generate,   \* GENERATE_KEYS
  calm,       \* the network fails no more and nobody publishes any more
  bucket,     \* the ceremony each object of the public bucket is from
  disk,       \* the run of gen-keys each key file is from
  tool,       \* the run of gen-keys, and how many files it has yet to write
  pc,         \* the launcher's, then the server's, next step
  config,     \* the configuration
  asked,      \* partners the federation loop has been through
  tokens,     \* partner_tokens
  signer,     \* signer_pk
  manifest,   \* the ceremony the public material is from
  loaded,     \* the ceremony or run each loaded artifact is from
  recorder,   \* the global metrics recorder
  series,     \* what has been published through it
  served      \* a request was handled

platform == <<entry, given, threshold, good, sources, generate>>
world == <<platform, calm, bucket, disk, tool>>
keys == <<signer, manifest, loaded>>
metrics == <<recorder, series>>
vars == <<world, pc, config, asked, tokens, keys, metrics, served>>

-----------------------------------------------------------------------------

Artifacts == {"crs", "public_key", "computation_key"}
Objects == Artifacts \union {"manifest"}

\* The files of a key directory, in the order gen-keys writes them.  The
\* configuration calls crs, pk and sk what the bucket calls by longer names.
WriteOrder == <<"crs", "public_key", "computation_key", "signer_pk", "signer_public_key">>
KeyFiles == Range(WriteOrder)

\* What from_env cannot do without: an environment that the baked maps know, with a
\* partner set that has no placeholder in it, and the endpoint an operator supplies.
Required == {"COFHE_ENV", "STORE_CTS_ENDPOINT"}

\* A signer the server generated for itself.
Own == "own"

\* The steps that call out and may fail, each of which ends the boot.
Fallible == {"gcs_token", "gather", "manifest", "find_signer", "write_signer",
             "backend", "bind_api", "bind_metrics", "serving"} \union Artifacts

Steps == Fallible \union {"from_env", "federate", "config", "signer_gate",
                          "recorder", "series", "health", "exited"}

NothingLoaded == [a \in Artifacts |-> "none"]
NotBuilt == [built |-> FALSE]

\* The two mains.
First == IF entry = "tdx" THEN "from_env" ELSE "config"

\* In the VM the file and the variables are whatever an operator made them; on a
\* developer's machine nothing is baked and no partner is asked.
Init ==
  /\ \/ /\ entry = "tdx"
        /\ given \in SUBSET Required
        /\ threshold \in Thresholds /\ good \in SUBSET Partners
        /\ bucket \in [Objects -> Ceremonies]
        /\ sources \in [baked : Baked, file : {Empty}, environment : Environments]
        /\ generate = FALSE
     \/ /\ entry = "local"
        /\ given = {}
        /\ threshold = MIN_THRESHOLD /\ good = {}
        /\ bucket = [o \in Objects |-> Ours]
        /\ sources \in [baked : {[base |-> Empty, overlay |-> Empty]},
                        file : ConfigFiles, environment : Environments]
        /\ generate \in BOOLEAN
  /\ calm = FALSE
  /\ disk = [f \in KeyFiles |-> "none"]
  /\ tool = [run |-> 0, left |-> 0]
  /\ pc = First
  /\ config = NotBuilt
  /\ asked = {} /\ tokens = {}
  /\ signer = "none" /\ manifest = "none" /\ loaded = NothingLoaded
  /\ recorder = "none" /\ series = {}
  /\ served = FALSE

-----------------------------------------------------------------------------
(* The launcher.                                                           *)

Go(step) == pc' = step

\* A threshold that some set of shares can meet.
Meetable == MIN_THRESHOLD <= threshold /\ threshold <= Cardinality(Partners)

\* Config::from_env refuses an environment it does not know, a baked map that is
\* incomplete or has another threshold, and a missing endpoint.
FromEnv ==
  /\ pc = "from_env"
  /\ Go(IF given = Required /\ Meetable THEN "federate" ELSE "exited")
  /\ UNCHANGED <<world, config, asked, tokens, keys, metrics, served>>

\* Mutant of Federate: a partner that fails ends the boot.
FederateOrExit(p) ==
  /\ pc = "federate" /\ p \notin asked
  /\ asked' = asked \union {p}
  /\ \/ tokens' = tokens \union {p} /\ pc' = pc
     \/ ~(calm /\ p \in good) /\ tokens' = tokens /\ Go("exited")
  /\ UNCHANGED <<world, config, keys, metrics, served>>

\* A partner's federation fails: it is left out.
Federate(p) ==
  /\ pc = "federate" /\ p \notin asked
  /\ asked' = asked \union {p}
  /\ \/ tokens' = tokens \union {p}
     \/ ~(calm /\ p \in good) /\ tokens' = tokens
  /\ UNCHANGED <<world, pc, config, keys, metrics, served>>

Federated ==
  /\ pc = "federate" /\ asked = Partners
  /\ Go("gcs_token")
  /\ UNCHANGED <<world, config, asked, tokens, keys, metrics, served>>

GcsToken ==
  /\ pc = "gcs_token"
  /\ Go("gather")
  /\ UNCHANGED <<world, config, asked, tokens, keys, metrics, served>>

\* The shares read, with the tokens, from partners whose share is in order now.
Enough == Cardinality(tokens \intersect good) >= threshold

\* read_zk_signer reads the manifest, drops the shares whose digest is not in
\* it and needs a threshold of the others.
Gather ==
  /\ pc = "gather"
  /\ IF SignerOf[bucket["manifest"]] = SignerOf[Ours] /\ Enough
       THEN signer' = SignerOf[Ours] /\ Go("manifest")
       ELSE signer' = signer /\ Go("exited")
  /\ UNCHANGED <<world, config, asked, tokens, manifest, loaded,
                 metrics, served>>

\* The manifest is read a second time, by the launcher itself.
ReadManifest ==
  /\ pc = "manifest"
  /\ manifest' = bucket["manifest"]
  /\ Go("config")
  /\ UNCHANGED <<world, config, asked, tokens, signer, loaded, metrics,
                 served>>

\* An artifact is read and checked against the digest in the manifest.
Download(a, next) ==
  /\ entry = "tdx" /\ pc = a
  /\ IF bucket[a] = manifest
       THEN loaded' = [loaded EXCEPT ![a] = bucket[a]] /\ Go(next)
       ELSE loaded' = loaded /\ Go("exited")
  /\ UNCHANGED <<world, config, asked, tokens, signer, manifest, metrics,
                 served>>

Downloads ==
  \/ Download("crs", "public_key")
  \/ Download("public_key", "computation_key")
  \/ Download("computation_key", "signer_gate")

-----------------------------------------------------------------------------
(* The configuration, of either main.                                      *)

\* The merged tree: the launcher builds from what is baked, main from a path.
Tree ==
  LET baked == sources.baked
  IN  IF entry = "tdx"
        THEN FromBaked(baked.base, baked.overlay, sources.file, sources.environment)
        ELSE FromPath(sources.file, sources.environment)

BuildConfig ==
  /\ pc = "config"
  /\ IF Deserializes(Tree)
       THEN config' = Config(Tree) /\ Go("crs")
       ELSE config' = config /\ Go("exited")
  /\ UNCHANGED <<world, asked, tokens, keys, metrics, served>>

-----------------------------------------------------------------------------
(* load_keys_from_config, on a developer's machine.                        *)

\* A missing file is a panic.  Nothing tells which run of gen-keys it is from.
LoadArtifact(a, next) ==
  /\ entry = "local" /\ pc = a
  /\ IF disk[a] # "none"
       THEN loaded' = [loaded EXCEPT ![a] = disk[a]] /\ Go(next)
       ELSE loaded' = loaded /\ Go("exited")
  /\ UNCHANGED <<world, config, asked, tokens, signer, manifest, metrics, served>>

LoadArtifacts ==
  \/ LoadArtifact("crs", "public_key")
  \/ LoadArtifact("public_key", "computation_key")
  \/ LoadArtifact("computation_key", "find_signer")

\* load_signer_pk: a signer that exists is loaded; without one the server may
\* make its own, if it is told to.
FindSigner ==
  /\ pc = "find_signer"
  /\ IF disk["signer_pk"] # "none"
       THEN signer' = disk["signer_pk"] /\ Go("signer_gate")
       ELSE /\ signer' = signer
            /\ Go(IF generate THEN "write_signer" ELSE "exited")
  /\ UNCHANGED <<world, config, asked, tokens, manifest, loaded, metrics, served>>

\* Its own signer is saved, over whatever was written meanwhile.  Its public key
\* is not.
WriteSigner ==
  /\ pc = "write_signer"
  /\ signer' = Own
  /\ disk' = [disk EXCEPT !["signer_pk"] = Own]
  /\ Go("signer_gate")
  /\ UNCHANGED <<platform, calm, bucket, tool, config, asked, tokens, manifest,
                 loaded, metrics, served>>

-----------------------------------------------------------------------------
(* run_server.                                                             *)

\* Mutant of SignerGate: nothing is compared (a mock-signer build).
SignerGateOpen ==
  /\ pc = "signer_gate"
  /\ Go("backend")
  /\ UNCHANGED <<world, config, asked, tokens, keys, metrics, served>>

\* verify_signer_matches_address, against the manifest.
MatchesAddress == signer = SignerOf[manifest]

\* Mutant of MatchesPubkey: a public key that was not published is not missed.
MatchesPubkeyIfAny == disk["signer_public_key"] \in {signer, "none"}

\* verify_signer_matches_pubkey, against the file, which must be there.
MatchesPubkey == disk["signer_public_key"] = signer

SignerGate ==
  /\ pc = "signer_gate"
  /\ Go(IF (IF entry = "tdx" THEN MatchesAddress ELSE MatchesPubkey)
          THEN "backend" ELSE "exited")
  /\ UNCHANGED <<world, config, asked, tokens, keys, metrics, served>>

\* The storage section is required, validated, and of a backend there is.
HasBackend(c) == HasStorage(c) /\ Valid(c) /\ c.backend = "gcs"

\* The backend answers its startup probe.
Backend ==
  /\ pc = "backend"
  /\ Go(IF HasBackend(config) THEN "bind_api" ELSE "exited")
  /\ UNCHANGED <<world, config, asked, tokens, keys, metrics, served>>

BindApi ==
  /\ pc = "bind_api"
  /\ Go("recorder")
  /\ UNCHANGED <<world, config, asked, tokens, keys, metrics, served>>

\* The metadata reads, the clients and the exporter of the push pipeline, built
\* on a thread of its own: any of it may fail, or panic.
BuildPipeline == {"built", "failed"}

\* With push, a pipeline that fails to build is done without.
InstallRecorder ==
  /\ pc = "recorder"
  /\ \E pipeline \in IF config.push THEN BuildPipeline ELSE {"off"} :
       recorder' = IF pipeline = "built" THEN "fanout" ELSE "prometheus"
  /\ Go("series")
  /\ UNCHANGED <<world, config, asked, tokens, keys, series, served>>

\* The heartbeat, and the error counters at zero.
PublishSeries ==
  /\ pc = "series"
  /\ series' = series \union {"up", "counters"}
  /\ Go("health")
  /\ UNCHANGED <<world, config, asked, tokens, keys, recorder, served>>

\* health::spawn publishes before it spawns.
SpawnHealth ==
  /\ pc = "health"
  /\ series' = series \union {"health"}
  /\ Go("bind_metrics")
  /\ UNCHANGED <<world, config, asked, tokens, keys, recorder, served>>

BindMetrics ==
  /\ pc = "bind_metrics"
  /\ Go("serving")
  /\ UNCHANGED <<world, config, asked, tokens, keys, metrics, served>>

\* Mutant of Serve: requests are handled from the bind of the port on.
ServeFromBind ==
  /\ pc \in {"recorder", "series", "health", "bind_metrics", "serving"}
  /\ ~served
  /\ served' = TRUE
  /\ UNCHANGED <<world, pc, config, asked, tokens, keys, metrics>>

\* The first request is handled: not before axum::serve, although the port
\* accepts connections from its bind on.
Serve ==
  /\ pc = "serving"
  /\ ~served
  /\ served' = TRUE
  /\ UNCHANGED <<world, pc, config, asked, tokens, keys, metrics>>

-----------------------------------------------------------------------------
(* The world around it.                                                    *)

\* A call fails, a port is taken, an artifact does not deserialize, a server
\* stops: the error goes all the way up.
Exit ==
  /\ ~calm /\ pc \in Fallible
  /\ Go("exited")
  /\ UNCHANGED <<world, config, asked, tokens, keys, metrics, served>>

\* A new process: nothing but the bucket, the disk and the platform is left.
Restart ==
  /\ pc = "exited"
  /\ Go(First)
  /\ config' = NotBuilt
  /\ asked' = {} /\ tokens' = {}
  /\ signer' = "none" /\ manifest' = "none" /\ loaded' = NothingLoaded
  /\ recorder' = "none" /\ series' = {}
  /\ served' = FALSE
  /\ UNCHANGED world

\* A partner's federation or share breaks, or is mended, in the middle of a boot.
PartnersChange ==
  /\ entry = "tdx" /\ ~calm
  /\ good' \in SUBSET Partners
  /\ UNCHANGED <<entry, given, threshold, sources, generate, calm, bucket, disk,
                 tool, pc, config, asked, tokens, keys, metrics, served>>

Publish(o) ==
  /\ entry = "tdx" /\ ~calm
  /\ \E c \in Ceremonies : bucket' = [bucket EXCEPT ![o] = c]
  /\ UNCHANGED <<platform, calm, disk, tool, pc, config, asked, tokens, keys,
                 metrics, served>>

\* gen-keys is run: a new keyset and signer, not yet on disk.
GenKeysStarts ==
  /\ entry = "local" /\ ~calm
  /\ tool.left = 0 /\ tool.run < Len(KeyGens)
  /\ tool' = [run |-> tool.run + 1, left |-> Len(WriteOrder)]
  /\ UNCHANGED <<platform, calm, bucket, disk, pc, config, asked, tokens, keys,
                 metrics, served>>

\* write_versioned, or fs::write for the two files of the signer.
GenKeysWrites ==
  /\ ~calm /\ tool.left > 0
  /\ disk' = [disk EXCEPT ![WriteOrder[Len(WriteOrder) + 1 - tool.left]] = KeyGens[tool.run]]
  /\ tool' = [tool EXCEPT !.left = @ - 1]
  /\ UNCHANGED <<platform, calm, bucket, pc, config, asked, tokens, keys, metrics,
                 served>>

\* It panics on a write that fails, or is stopped.
GenKeysDies ==
  /\ ~calm /\ tool.left > 0
  /\ tool' = [tool EXCEPT !.left = 0]
  /\ UNCHANGED <<platform, calm, bucket, disk, pc, config, asked, tokens, keys,
                 metrics, served>>

BecomeCalm ==
  /\ ~calm /\ calm' = TRUE
  /\ UNCHANGED <<platform, bucket, disk, tool, pc, config, asked, tokens, keys,
                 metrics, served>>

BootStep ==
  \/ FromEnv \/ Federated \/ GcsToken \/ Gather \/ ReadManifest \/ Downloads
  \/ BuildConfig \/ LoadArtifacts \/ FindSigner \/ WriteSigner
  \/ SignerGate \/ Backend \/ BindApi \/ InstallRecorder \/ PublishSeries
  \/ SpawnHealth \/ BindMetrics
  \/ \E p \in Partners : Federate(p)

\* The process waits for somebody's answer, on a call with no timeout of its own:
\* the attestation socket, the partners one after another, the bucket, Secret
\* Manager, and the startup probe of the storage.
Awaits ==
  \/ pc = "federate" /\ asked # Partners
  \/ pc \in {"gcs_token", "gather", "manifest"}
  \/ entry = "tdx" /\ pc \in Artifacts
  \/ pc = "backend" /\ HasBackend(config)

LocalStep == ~Awaits /\ BootStep

Running == pc = "serving" /\ served /\ calm /\ UNCHANGED vars

Next ==
  \/ BootStep \/ Serve \/ Exit \/ Restart
  \/ \E o \in Objects : Publish(o)
  \/ PartnersChange
  \/ GenKeysStarts \/ GenKeysWrites \/ GenKeysDies
  \/ BecomeCalm \/ Running

Spec == Init /\ [][Next]_vars

\* The process runs on where it waits for nobody, and is restarted when it exits.
FairSpec == Spec /\ WF_vars(LocalStep) /\ WF_vars(Restart)

-----------------------------------------------------------------------------

TypeOK ==
  /\ entry \in {"tdx", "local"}
  /\ given \subseteq Required
  /\ threshold \in Thresholds \union {MIN_THRESHOLD} /\ good \subseteq Partners
  /\ generate \in BOOLEAN /\ calm \in BOOLEAN
  /\ bucket \in [Objects -> Ceremonies]
  /\ disk \in [KeyFiles -> Range(KeyGens) \union {Own, "none"}]
  /\ tool \in [run : 0..Len(KeyGens), left : 0..Len(WriteOrder)]
  /\ pc \in Steps
  /\ asked \subseteq Partners /\ tokens \subseteq asked
  /\ signer \in {SignerOf[Ours], "none", Own} \union Range(KeyGens)
  /\ manifest \in Ceremonies \union {"none"}
  /\ loaded \in [Artifacts -> Ceremonies \union Range(KeyGens) \union {Own, "none"}]
  /\ recorder \in {"none", "prometheus", "fanout"}
  /\ series \subseteq {"up", "counters", "health"}
  /\ served \in BOOLEAN

\* An attested server that handles requests runs on one keyset: its three
\* artifacts and the identity its signer was checked against come from one
\* manifest, whatever was published to the bucket between the reads.
ServesOneKeyset ==
  entry = "tdx" /\ (pc = "serving" \/ served) =>
    /\ \A a \in Artifacts : loaded[a] = manifest
    /\ signer = SignerOf[manifest]

\* A signer that the server made for itself never signs for anybody, in the boot
\* that made it or a later one that finds it on disk: only gen-keys publishes a
\* public key (unless an operator derives one by hand), of a signer of its own,
\* and a torn run of it cannot pass for one.
NeverServesOwnSigner ==
  entry = "local" /\ (pc = "serving" \/ served) => signer \in Range(KeyGens)

\* What the configuration says, a baked overlay over its base key by key.
SaidBy(baked, k) ==
  IF k \in DOMAIN baked.overlay THEN baked.overlay[k]
  ELSE IF k \in DOMAIN baked.base THEN baked.base[k] ELSE Defaults[k]

\* A server that binds its port has a retry budget and timeouts under which an
\* upload ends, whatever its sources were (what module Persist assumes of them).
\* An attested one runs on what was baked, whatever its environment holds, and
\* its health loop has a period to run on (what module Health assumes of it).
ServesSoundConfig ==
  pc \in {"recorder", "series", "health", "bind_metrics", "serving"} =>
    /\ config.max_retries > 0
    /\ config.initial_delay_ms <= config.max_delay_ms
    /\ config.upload_timeout_secs > 0
    /\ entry = "tdx" =>
         /\ \A k \in Keys : config[k] = SaidBy(sources.baked, k)
         /\ config.probe_interval_secs > 0

\* No request is handled before the metrics recorder is installed and every
\* series an alert or the status page reads exists.
ServesObserved == served => recorder # "none" /\ series = {"up", "counters", "health"}

\* The world is calm, and what a boot needs is there.
RestoredBucket ==
  /\ entry = "tdx" /\ calm
  /\ given = Required /\ Meetable /\ threshold <= Cardinality(good)
  /\ \A o \in Artifacts : bucket[o] = bucket["manifest"]
  /\ SignerOf[bucket["manifest"]] = SignerOf[Ours]

\* Without a boot that has already missed the signer and will write its own.
RestoredDisk ==
  /\ entry = "local" /\ calm
  /\ \E g \in Range(KeyGens) : \A f \in KeyFiles : disk[f] = g
  /\ pc # "write_signer"
  /\ LET tree == FromPath(sources.file, sources.environment)
     IN  Deserializes(tree) /\ HasBackend(Config(tree))

\* Once the world is calm, the operator's two variables are there, the bucket holds
\* one keyset with our signer and a threshold of partners is in order, a boot
\* succeeds: what failed before, the other partners and the push pipeline cannot
\* keep the service down.  On a developer's machine it takes one whole run of
\* gen-keys and a storage section.  Only a call that is never answered can keep
\* either down, and then for good: no timeout ends it, so nothing restarts.
ComesUp ==
  <>[]Awaits \/ (RestoredBucket \/ RestoredDisk ~> pc = "serving")
=============================================================================
