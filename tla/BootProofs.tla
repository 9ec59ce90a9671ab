----------------------------- MODULE BootProofs ------------------------------
(***************************************************************************)
(* Theorems about Boot for every set of partners, threshold, ceremony,     *)
(* configuration source and number of gen-keys runs.                       *)
(***************************************************************************)
EXTENDS Boot, TLAPS

\* The steps behind the signer gate, and behind the storage section.
Gated == {"backend", "bind_api", "recorder", "series", "health", "bind_metrics", "serving"}
Bound == {"bind_api", "recorder", "series", "health", "bind_metrics", "serving"}

Served == served => pc \in {"serving", "exited"}

\* An attested boot loads one artifact after the other and checks each.
Keyset ==
  entry = "tdx" =>
    /\ pc \notin {"find_signer", "write_signer"}
    /\ pc \in {"public_key", "computation_key", "signer_gate"} => loaded["crs"] = manifest
    /\ pc \in {"computation_key", "signer_gate"} => loaded["public_key"] = manifest
    /\ pc = "signer_gate" => loaded["computation_key"] = manifest
    /\ pc \in Gated \/ served =>
         /\ \A a \in Artifacts : loaded[a] = manifest
         /\ signer = SignerOf[manifest]

\* On a developer's machine a signer is loaded or made before the gate, and no
\* public key on disk is one that a server made.
Published ==
  /\ disk["signer_public_key"] \in Range(KeyGens) \union {"none"}
  /\ tool.left > 0 => tool.run \in DOMAIN KeyGens
  /\ entry = "local" =>
       /\ pc \notin {"from_env", "federate", "gcs_token", "gather", "manifest"}
       /\ pc = "signer_gate" => signer # "none"
       /\ pc \in Gated \/ served => signer \in Range(KeyGens)

\* The configuration is what the sources say, and validated before the port.
Configured ==
  /\ entry = "tdx" => sources.baked \in Baked
  /\ entry = "local" => sources.file \in ConfigFiles
  /\ sources.environment \in Environments
  /\ pc \in Artifacts \union {"find_signer", "write_signer", "signer_gate"} \union Gated =>
       Deserializes(Tree) /\ config = Config(Tree)
  /\ pc \in Bound => HasStorage(config) /\ Valid(config)

\* The metrics come up in the order the server sets them up.
Observed ==
  /\ pc \in {"series", "health", "bind_metrics", "serving"} \/ served => recorder # "none"
  /\ pc \notin {"health", "bind_metrics", "serving", "exited"} => series = {}
  /\ pc = "health" => series = {"up", "counters"}
  /\ pc \in {"bind_metrics", "serving"} \/ served => series = {"up", "counters", "health"}

BInv ==
  /\ TypeOK
  /\ Served /\ Keyset /\ Published /\ Configured /\ Observed

-----------------------------------------------------------------------------
(* The invariant is inductive.                                             *)

\* A server serves until it stops.
LEMMA ServedNext ==
  ASSUME TypeOK, Served, [Next]_vars
  PROVE  Served'
<1> USE DEF Served, Go, First, world, platform, keys, metrics
<1>1. CASE FromEnv \/ Federated \/ GcsToken \/ \E p \in Partners : Federate(p)
  BY <1>1 DEF FromEnv, Federated, GcsToken, Federate
<1>2. CASE Gather \/ ReadManifest
  BY <1>2 DEF Gather, ReadManifest
<1>3. CASE Downloads \/ LoadArtifacts
  BY <1>3 DEF Downloads, Download, LoadArtifacts, LoadArtifact
<1>4. CASE BuildConfig
  BY <1>4 DEF BuildConfig
<1>5. CASE FindSigner \/ WriteSigner
  BY <1>5 DEF FindSigner, WriteSigner
<1>6. CASE SignerGate \/ Backend \/ BindApi \/ BindMetrics
  BY <1>6 DEF SignerGate, Backend, HasBackend, BindApi, BindMetrics
<1>7. CASE InstallRecorder \/ PublishSeries \/ SpawnHealth
  BY <1>7 DEF InstallRecorder, PublishSeries, SpawnHealth
<1>8. CASE Serve \/ Exit
  BY <1>8 DEF Serve, Exit
<1>9. CASE Restart
  BY <1>9 DEF Restart
<1>10. CASE (\E o \in Objects : Publish(o)) \/ PartnersChange \/ BecomeCalm
  BY <1>10 DEF Publish, PartnersChange, BecomeCalm
<1>11. CASE GenKeysStarts \/ GenKeysWrites \/ GenKeysDies
  BY <1>11 DEF GenKeysStarts, GenKeysWrites, GenKeysDies
<1>12. CASE UNCHANGED vars
  BY <1>12 DEF vars
<1> QED
  BY <1>1, <1>2, <1>3, <1>4, <1>5, <1>6, <1>7, <1>8, <1>9, <1>10, <1>11, <1>12
     DEF Next, BootStep, Running

\* What a boot loaded it keeps.
LEMMA KeysetNext ==
  ASSUME TypeOK, Served, Keyset, [Next]_vars
  PROVE  Keyset'
<1> USE DEF Keyset, Served, Gated, Artifacts, TypeOK, Go, First, world, platform, keys, metrics
<1>1. CASE FromEnv \/ Federated \/ GcsToken \/ \E p \in Partners : Federate(p)
  BY <1>1 DEF FromEnv, Federated, GcsToken, Federate
<1>2. CASE Gather \/ ReadManifest
  BY <1>2 DEF Gather, ReadManifest
<1>3. CASE Downloads \/ LoadArtifacts
  BY <1>3 DEF Downloads, Download, LoadArtifacts, LoadArtifact
<1>4. CASE BuildConfig
  BY <1>4 DEF BuildConfig
<1>5. CASE FindSigner \/ WriteSigner
  BY <1>5 DEF FindSigner, WriteSigner
<1>6. CASE SignerGate \/ Backend \/ BindApi \/ BindMetrics
  BY <1>6 DEF SignerGate, MatchesAddress, Backend, HasBackend, BindApi, BindMetrics
<1>7. CASE InstallRecorder \/ PublishSeries \/ SpawnHealth
  BY <1>7 DEF InstallRecorder, PublishSeries, SpawnHealth
<1>8. CASE Serve \/ Exit
  BY <1>8 DEF Serve, Exit
<1>9. CASE Restart
  BY <1>9 DEF Restart
<1>10. CASE (\E o \in Objects : Publish(o)) \/ PartnersChange \/ BecomeCalm
  BY <1>10 DEF Publish, PartnersChange, BecomeCalm
<1>11. CASE GenKeysStarts \/ GenKeysWrites \/ GenKeysDies
  BY <1>11 DEF GenKeysStarts, GenKeysWrites, GenKeysDies
<1>12. CASE UNCHANGED vars
  BY <1>12 DEF vars
<1> QED
  BY <1>1, <1>2, <1>3, <1>4, <1>5, <1>6, <1>7, <1>8, <1>9, <1>10, <1>11, <1>12
     DEF Next, BootStep, Running

\* Only gen-keys publishes a public key, of a signer of its own.
LEMMA PublishedNext ==
  ASSUME TypeOK, Served, Published, [Next]_vars
  PROVE  Published'
<1> USE DEF Published, Served, Gated, TypeOK, Go, First, world, platform, keys, metrics
<1>1. CASE FromEnv \/ Federated \/ GcsToken \/ \E p \in Partners : Federate(p)
  BY <1>1 DEF FromEnv, Federated, GcsToken, Federate
<1>2. CASE Gather \/ ReadManifest
  BY <1>2 DEF Gather, ReadManifest
<1>3. CASE Downloads \/ LoadArtifacts
  BY <1>3 DEF Downloads, Download, LoadArtifacts, LoadArtifact
<1>4. CASE BuildConfig
  BY <1>4 DEF BuildConfig
<1>5. CASE FindSigner \/ WriteSigner
  BY <1>5 DEF FindSigner, WriteSigner, Own, KeyFiles, Range, WriteOrder
<1>6. CASE SignerGate \/ Backend \/ BindApi \/ BindMetrics
  BY <1>6 DEF SignerGate, MatchesPubkey, Backend, HasBackend, BindApi, BindMetrics
<1>7. CASE InstallRecorder \/ PublishSeries \/ SpawnHealth
  BY <1>7 DEF InstallRecorder, PublishSeries, SpawnHealth
<1>8. CASE Serve \/ Exit
  BY <1>8 DEF Serve, Exit
<1>9. CASE Restart
  BY <1>9 DEF Restart
<1>10. CASE (\E o \in Objects : Publish(o)) \/ PartnersChange \/ BecomeCalm
  BY <1>10 DEF Publish, PartnersChange, BecomeCalm
<1>11. CASE GenKeysStarts \/ GenKeysWrites \/ GenKeysDies
  <2>1. UNCHANGED <<platform, pc, signer, served>>
    BY <1>11 DEF GenKeysStarts, GenKeysWrites, GenKeysDies
  <2>2. DOMAIN KeyGens = 1..Len(KeyGens) /\ Len(KeyGens) \in Nat
    BY KeyGensAssumption
  <2>3. tool'.left > 0 => tool'.run \in DOMAIN KeyGens
    BY <1>11, <2>2 DEF GenKeysStarts, GenKeysWrites, GenKeysDies
  <2>4. disk'["signer_public_key"] \in Range(KeyGens) \union {"none"}
    <3>1. CASE GenKeysWrites
      BY <3>1 DEF GenKeysWrites, Range
    <3>2. CASE GenKeysStarts \/ GenKeysDies
      BY <3>2 DEF GenKeysStarts, GenKeysDies
    <3> QED
      BY <1>11, <3>1, <3>2
  <2> QED
    BY <2>1, <2>3, <2>4
<1>12. CASE UNCHANGED vars
  BY <1>12 DEF vars
<1> QED
  BY <1>1, <1>2, <1>3, <1>4, <1>5, <1>6, <1>7, <1>8, <1>9, <1>10, <1>11, <1>12
     DEF Next, BootStep, Running

\* The sources of a boot stay what they are.
LEMMA ConfiguredNext ==
  ASSUME Configured, [Next]_vars
  PROVE  Configured'
<1> USE DEF Configured, Gated, Bound, Artifacts, Tree, Go, First, world, platform, keys, metrics
<1>1. CASE FromEnv \/ Federated \/ GcsToken \/ \E p \in Partners : Federate(p)
  BY <1>1 DEF FromEnv, Federated, GcsToken, Federate
<1>2. CASE Gather \/ ReadManifest
  BY <1>2 DEF Gather, ReadManifest
<1>3. CASE Downloads \/ LoadArtifacts
  BY <1>3 DEF Downloads, Download, LoadArtifacts, LoadArtifact
<1>4. CASE BuildConfig
  BY <1>4 DEF BuildConfig
<1>5. CASE FindSigner \/ WriteSigner
  BY <1>5 DEF FindSigner, WriteSigner
<1>6. CASE SignerGate \/ Backend \/ BindApi \/ BindMetrics
  BY <1>6 DEF SignerGate, Backend, HasBackend, BindApi, BindMetrics
<1>7. CASE InstallRecorder \/ PublishSeries \/ SpawnHealth
  BY <1>7 DEF InstallRecorder, PublishSeries, SpawnHealth
<1>8. CASE Serve \/ Exit
  BY <1>8 DEF Serve, Exit
<1>9. CASE Restart
  BY <1>9 DEF Restart
<1>10. CASE (\E o \in Objects : Publish(o)) \/ PartnersChange \/ BecomeCalm
  BY <1>10 DEF Publish, PartnersChange, BecomeCalm
<1>11. CASE GenKeysStarts \/ GenKeysWrites \/ GenKeysDies
  BY <1>11 DEF GenKeysStarts, GenKeysWrites, GenKeysDies
<1>12. CASE UNCHANGED vars
  BY <1>12 DEF vars
<1> QED
  BY <1>1, <1>2, <1>3, <1>4, <1>5, <1>6, <1>7, <1>8, <1>9, <1>10, <1>11, <1>12
     DEF Next, BootStep, Running

\* Nothing of the metrics is taken back.
LEMMA ObservedNext ==
  ASSUME Served, Observed, [Next]_vars
  PROVE  Observed'
<1> USE DEF Observed, Served, Go, First, world, platform, keys, metrics
<1>1. CASE FromEnv \/ Federated \/ GcsToken \/ \E p \in Partners : Federate(p)
  BY <1>1 DEF FromEnv, Federated, GcsToken, Federate
<1>2. CASE Gather \/ ReadManifest
  BY <1>2 DEF Gather, ReadManifest
<1>3. CASE Downloads \/ LoadArtifacts
  BY <1>3 DEF Downloads, Download, LoadArtifacts, LoadArtifact
<1>4. CASE BuildConfig
  BY <1>4 DEF BuildConfig
<1>5. CASE FindSigner \/ WriteSigner
  BY <1>5 DEF FindSigner, WriteSigner
<1>6. CASE SignerGate \/ Backend \/ BindApi \/ BindMetrics
  BY <1>6 DEF SignerGate, Backend, HasBackend, BindApi, BindMetrics
<1>7. CASE InstallRecorder \/ PublishSeries \/ SpawnHealth
  BY <1>7 DEF InstallRecorder, PublishSeries, SpawnHealth
<1>8. CASE Serve \/ Exit
  BY <1>8 DEF Serve, Exit
<1>9. CASE Restart
  BY <1>9 DEF Restart
<1>10. CASE (\E o \in Objects : Publish(o)) \/ PartnersChange \/ BecomeCalm
  BY <1>10 DEF Publish, PartnersChange, BecomeCalm
<1>11. CASE GenKeysStarts \/ GenKeysWrites \/ GenKeysDies
  BY <1>11 DEF GenKeysStarts, GenKeysWrites, GenKeysDies
<1>12. CASE UNCHANGED vars
  BY <1>12 DEF vars
<1> QED
  BY <1>1, <1>2, <1>3, <1>4, <1>5, <1>6, <1>7, <1>8, <1>9, <1>10, <1>11, <1>12
     DEF Next, BootStep, Running

\* What the steps call the objects and the files by.
LEMMA Names ==
  /\ Artifacts \subseteq KeyFiles /\ Artifacts \subseteq Objects
  /\ "manifest" \in Objects /\ "signer_pk" \in KeyFiles
<1>1. WriteOrder[1] = "crs" /\ WriteOrder[2] = "public_key"
      /\ WriteOrder[3] = "computation_key" /\ WriteOrder[4] = "signer_pk"
      /\ DOMAIN WriteOrder = 1..5
  BY DEF WriteOrder
<1> QED
  BY <1>1 DEF Artifacts, Objects, KeyFiles, Range

\* Every step keeps the types.
LEMMA TypeNext ==
  ASSUME TypeOK, Published, [Next]_vars
  PROVE  TypeOK'
<1> USE DEF TypeOK, Steps, Fallible, Go, First, world, platform, keys, metrics
<1>1. CASE FromEnv \/ Federated \/ GcsToken \/ \E p \in Partners : Federate(p)
  BY <1>1 DEF FromEnv, Federated, GcsToken, Federate
<1>2. CASE Gather \/ ReadManifest
  <2>1. bucket["manifest"] \in Ceremonies
    BY Names
  <2> QED
    BY <1>2, <2>1 DEF Gather, ReadManifest
<1>3. CASE Downloads \/ LoadArtifacts
  <2>1. PICK a \in Artifacts, next \in {"public_key", "computation_key", "signer_gate", "find_signer"} :
          Download(a, next) \/ LoadArtifact(a, next)
    BY <1>3 DEF Downloads, LoadArtifacts, Artifacts
  <2>2. bucket[a] \in Ceremonies /\ disk[a] \in Range(KeyGens) \union {Own, "none"}
    BY Names
  <2>3. /\ loaded' \in [Artifacts -> Ceremonies \union Range(KeyGens) \union {Own, "none"}]
        /\ pc' \in {next, "exited"}
        /\ UNCHANGED <<world, asked, tokens, signer, manifest, metrics, served>>
    BY <2>1, <2>2 DEF Download, LoadArtifact
  <2>4. pc' \in Steps
    BY <2>3 DEF Artifacts
  <2> QED
    BY <2>3, <2>4
<1>4. CASE BuildConfig
  BY <1>4 DEF BuildConfig, Artifacts
<1>5. CASE FindSigner \/ WriteSigner
  <2>1. disk["signer_pk"] \in Range(KeyGens) \union {Own, "none"}
    BY Names
  <2>2. signer' \in {SignerOf[Ours], "none", Own} \union Range(KeyGens)
    BY <1>5, <2>1 DEF FindSigner, WriteSigner
  <2>3. disk' \in [KeyFiles -> Range(KeyGens) \union {Own, "none"}]
    BY <1>5 DEF FindSigner, WriteSigner
  <2> QED
    BY <1>5, <2>2, <2>3 DEF FindSigner, WriteSigner
<1>6. CASE SignerGate \/ Backend \/ BindApi \/ BindMetrics
  BY <1>6 DEF SignerGate, Backend, HasBackend, BindApi, BindMetrics
<1>7. CASE InstallRecorder \/ PublishSeries \/ SpawnHealth
  BY <1>7 DEF InstallRecorder, PublishSeries, SpawnHealth
<1>8. CASE Serve \/ Exit
  BY <1>8 DEF Serve, Exit
<1>9. CASE Restart
  BY <1>9 DEF Restart, NothingLoaded
<1>10. CASE (\E o \in Objects : Publish(o)) \/ PartnersChange \/ BecomeCalm
  <2>1. ASSUME NEW o \in Objects, Publish(o) PROVE bucket' \in [Objects -> Ceremonies]
    BY <2>1 DEF Publish
  <2> QED
    BY <1>10, <2>1 DEF Publish, PartnersChange, BecomeCalm
<1>11. CASE GenKeysStarts \/ GenKeysWrites \/ GenKeysDies
  <2>1. UNCHANGED <<platform, calm, bucket, pc, asked, tokens, keys, metrics, served>>
    BY <1>11 DEF GenKeysStarts, GenKeysWrites, GenKeysDies
  <2>2. Len(WriteOrder) = 5 /\ Len(KeyGens) \in Nat /\ DOMAIN KeyGens = 1..Len(KeyGens)
    BY KeyGensAssumption DEF WriteOrder
  <2>3. tool' \in [run : 0..Len(KeyGens), left : 0..Len(WriteOrder)]
    BY <1>11, <2>2 DEF GenKeysStarts, GenKeysWrites, GenKeysDies
  <2>4. disk' \in [KeyFiles -> Range(KeyGens) \union {Own, "none"}]
    <3>1. CASE GenKeysWrites
      <4>1. KeyGens[tool.run] \in Range(KeyGens)
        BY <3>1 DEF GenKeysWrites, Published, Range
      <4> QED
        BY <3>1, <4>1 DEF GenKeysWrites
    <3>2. CASE GenKeysStarts \/ GenKeysDies
      BY <3>2 DEF GenKeysStarts, GenKeysDies
    <3> QED
      BY <1>11, <3>1, <3>2
  <2> QED
    BY <2>1, <2>3, <2>4
<1>12. CASE UNCHANGED vars
  BY <1>12 DEF vars
<1> QED
  BY <1>1, <1>2, <1>3, <1>4, <1>5, <1>6, <1>7, <1>8, <1>9, <1>10, <1>11, <1>12
     DEF Next, BootStep, Running

\* A first boot has loaded nothing.
LEMMA BInvInit == Init => BInv
<1> SUFFICES ASSUME Init PROVE BInv
  OBVIOUS
<1> USE DEF Init, First
<1>1. TypeOK
  <2>1. Len(KeyGens) \in Nat /\ Len(WriteOrder) = 5
    BY KeyGensAssumption DEF WriteOrder
  <2>2. bucket \in [Objects -> Ceremonies] /\ threshold \in Thresholds \union {MIN_THRESHOLD}
    BY CeremoniesAssumption
  <2>3. given \subseteq Required /\ good \subseteq Partners /\ generate \in BOOLEAN
    OBVIOUS
  <2>4. pc \in Steps
    BY DEF Steps
  <2>5. tool \in [run : 0..Len(KeyGens), left : 0..Len(WriteOrder)]
    <3>1. 0 \in 0..Len(KeyGens) /\ 0 \in 0..Len(WriteOrder)
      BY <2>1
    <3> QED
      BY <3>1
  <2>6. /\ disk \in [KeyFiles -> Range(KeyGens) \union {Own, "none"}]
        /\ loaded \in [Artifacts -> Ceremonies \union Range(KeyGens) \union {Own, "none"}]
    BY DEF NothingLoaded
  <2>7. entry \in {"tdx", "local"}
    OBVIOUS
  <2> QED
    BY <2>2, <2>3, <2>4, <2>5, <2>6, <2>7 DEF TypeOK
<1>2. Served /\ Keyset /\ Observed
  BY DEF Served, Keyset, Observed, Gated
<1>3. Published
  <2>1. WriteOrder[5] = "signer_public_key" /\ DOMAIN WriteOrder = 1..5
    BY DEF WriteOrder
  <2>2. "signer_public_key" \in KeyFiles
    BY <2>1 DEF KeyFiles, Range
  <2> QED
    BY <2>2 DEF Published, Gated
<1>4. Configured
  BY DEF Configured, Gated, Bound, Artifacts
<1> QED
  BY <1>1, <1>2, <1>3, <1>4 DEF BInv

\* All parts together.
LEMMA BInvNext == BInv /\ [Next]_vars => BInv'
BY TypeNext, ServedNext, KeysetNext, PublishedNext, ConfiguredNext, ObservedNext
   DEF BInv

\* What has been loaded, gathered, checked and published at every step of a boot.
THEOREM BInvInvariant == Spec => []BInv
BY BInvInit, BInvNext, PTL DEF Spec

-----------------------------------------------------------------------------

\* Every variable of a start keeps its type (main, run_server).
THEOREM BootTypeCorrect == Spec => []TypeOK
<1>1. BInv => TypeOK
  BY DEF BInv
<1> QED
  BY <1>1, BInvInvariant, PTL

\* For all ceremonies and whatever is published between the reads: an attested
\* server that serves has everything from one manifest (load_artifacts).
THEOREM OneKeysetServes == Spec => []ServesOneKeyset
<1>1. BInv => ServesOneKeyset
  BY DEF BInv, Keyset, Gated, ServesOneKeyset
<1> QED
  BY <1>1, BInvInvariant, PTL

\* For any number of runs of gen-keys, torn ones too: no server serves with a
\* signer that a server made (load_signer_pk).
THEOREM OwnSignerNeverServes == Spec => []NeverServesOwnSigner
<1>1. BInv => NeverServesOwnSigner
  BY DEF BInv, Published, Gated, NeverServesOwnSigner
<1> QED
  BY <1>1, BInvInvariant, PTL

\* A request finds the metrics set up (run_server).
THEOREM ServedIsObserved == Spec => []ServesObserved
<1>1. BInv => ServesObserved
  BY DEF BInv, Observed, ServesObserved
<1> QED
  BY <1>1, BInvInvariant, PTL

\* A value that a tree which deserializes has for a number is a number.
LEMMA SoundNumbers ==
  ASSUME NEW tree, Source(tree), Deserializes(tree), NEW k \in Numbers
  PROVE  /\ k \in DOMAIN tree => tree[k] \in Nat
         /\ Config(tree)[k] = IF k \in DOMAIN tree THEN tree[k] ELSE Defaults[k]
         /\ Config(tree)[k] \in Nat
<1>1. k \in DOMAIN tree => tree[k] \in Nat
  BY DEF Source, Deserializes
<1>2. k \in DOMAIN Defaults /\ Defaults[k] \in Nat
  BY DEF Numbers, RetryKeys, Defaults
<1> QED
  BY <1>1, <1>2 DEF Config, Layered

\* Layers of sources are a source.
LEMMA LayeredSource ==
  ASSUME NEW s, NEW t, Source(s), Source(t)
  PROVE  Source(Layered(s, t))
BY DEF Source, Layered

\* For every configuration: a server that binds its port has what module Persist
\* assumes, and an attested one what was baked (Builder::build, validate).
THEOREM SoundConfigServes == Spec => []ServesSoundConfig
<1>1. BInv => ServesSoundConfig
  <2>1. SUFFICES ASSUME BInv,
                        pc \in {"recorder", "series", "health", "bind_metrics", "serving"}
                 PROVE  /\ config.max_retries > 0
                        /\ config.initial_delay_ms <= config.max_delay_ms
                        /\ config.upload_timeout_secs > 0
                        /\ entry = "tdx" =>
                             /\ \A k \in Keys : config[k] = SaidBy(sources.baked, k)
                             /\ config.probe_interval_secs > 0
    BY DEF ServesSoundConfig
  <2>2. /\ Deserializes(Tree) /\ config = Config(Tree)
        /\ HasStorage(config) /\ Valid(config)
        /\ entry = "tdx" => sources.baked \in Baked
        /\ entry = "local" => sources.file \in ConfigFiles
        /\ sources.environment \in Environments
        /\ entry \in {"tdx", "local"}
    BY <2>1 DEF BInv, TypeOK, Configured, Gated, Bound
  <2>3. Source(Tree)
    BY <2>2, SourcesAssumption, LayeredSource DEF Tree, FromBaked, FromPath
  <2>4. \A k \in Numbers : config[k] \in Nat
    BY <2>2, <2>3, SoundNumbers
  <2>5. /\ config.max_retries > 0
        /\ config.initial_delay_ms <= config.max_delay_ms
        /\ config.upload_timeout_secs > 0
    <3>1. /\ config.max_retries \in Nat /\ config.initial_delay_ms \in Nat
          /\ config.max_delay_ms \in Nat /\ config.upload_timeout_secs \in Nat
      BY <2>4 DEF Numbers, RetryKeys
    <3>2. /\ config.max_retries # 0 /\ config.upload_timeout_secs # 0
          /\ config.max_delay_ms >= config.initial_delay_ms
      BY <2>2, Zenon DEF Valid
    <3> QED
      BY <3>1, <3>2
  <2>6. ASSUME entry = "tdx", NEW k \in Keys
        PROVE  config[k] = SaidBy(sources.baked, k)
    <3> DEFINE base == sources.baked.base
               overlay == sources.baked.overlay
    <3>1. config = Layered(Defaults, Layered(base, overlay))
      BY <2>2, <2>6 DEF Tree, FromBaked, Config
    <3>2. k = "bucket" \/ k \in DOMAIN Defaults
      BY DEF Keys, StorageKeys, RetryKeys, Defaults
    <3>3. k \in DOMAIN config
      BY <2>2, <3>1, <3>2 DEF HasStorage, Layered
    <3> HIDE DEF base, overlay
    <3>4. config[k] = IF k \in DOMAIN overlay THEN overlay[k]
                      ELSE IF k \in DOMAIN base THEN base[k] ELSE Defaults[k]
      BY <3>1, <3>3 DEF Layered
    <3> QED
      BY <3>4 DEF SaidBy, base, overlay
  <2>7. ASSUME entry = "tdx" PROVE config.probe_interval_secs > 0
    <3>1. config["probe_interval_secs"] = SaidBy(sources.baked, "probe_interval_secs")
      BY <2>6, <2>7 DEF Keys
    <3>2. SaidBy(sources.baked, "probe_interval_secs") # 0
      BY <2>2, <2>7, SourcesAssumption DEF SaidBy, Defaults
    <3> QED
      BY <2>4, <3>1, <3>2 DEF Numbers
  <2> QED
    BY <2>5, <2>6, <2>7
<1> QED
  BY <1>1, BInvInvariant, PTL
=============================================================================
