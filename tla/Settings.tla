------------------------------- MODULE Settings -------------------------------
(***************************************************************************)
(* What a start of the verifier makes of its configuration sources         *)
(* (zk-verifier/src/config.rs): layers of keys merged into one tree, the   *)
(* tree deserialized into a Config, and the storage section validated.     *)
(*                                                                         *)
(* A source is a function from the keys it sets to their values.  The keys *)
(* kept are those that decide how the server runs; addresses and paths     *)
(* have defaults and decide nothing here.                                  *)
(***************************************************************************)
EXTENDS Integers

CONSTANT Garbled   \* a value that is not of its key's type

RetryKeys == {"max_retries", "initial_delay_ms", "max_delay_ms"}
StorageKeys == {"backend", "bucket", "upload_timeout_secs"} \union RetryKeys
Keys == StorageKeys \union {"push", "probe_interval_secs"}

\* The keys that hold a number, and a source whose values are of their types or
\* are recognized not to be.
Numbers == RetryKeys \union {"upload_timeout_secs", "probe_interval_secs"}

Source(tree) == \A k \in DOMAIN tree \intersect Numbers : tree[k] \in Nat \union {Garbled}

\* No source at all: the file does not exist, or no APP__ variable is set.
Empty == << >>

-----------------------------------------------------------------------------

\* add_source: the later source wins key by key, tables are merged.
Layered(lower, upper) ==
  [k \in DOMAIN lower \union DOMAIN upper |->
     IF k \in DOMAIN upper THEN upper[k] ELSE lower[k]]

-----------------------------------------------------------------------------
(* try_deserialize.                                                        *)

Sets(tree, keys) == DOMAIN tree \intersect keys # {}

\* A storage section needs its bucket, and a retry section all of its fields.
Deserializes(tree) ==
  /\ \A k \in DOMAIN tree : tree[k] # Garbled
  /\ Sets(tree, StorageKeys) => "bucket" \in DOMAIN tree
  /\ Sets(tree, RetryKeys) => RetryKeys \subseteq DOMAIN tree

\* Serde's defaults for the fields of a section that leave one out.
Defaults ==
  [backend |-> "none", upload_timeout_secs |-> 30,
   max_retries |-> 5, initial_delay_ms |-> 100, max_delay_ms |-> 5000,
   push |-> FALSE, probe_interval_secs |-> 15]

\* Config: without a storage section there is no bucket.
Config(tree) == Layered(Defaults, tree)

HasStorage(config) == "bucket" \in DOMAIN config

\* StorageConfig::validate with RetryConfig::validate.
Valid(config) ==
  /\ config.bucket # ""
  /\ config.upload_timeout_secs # 0
  /\ config.max_retries # 0
  /\ config.max_delay_ms >= config.initial_delay_ms

-----------------------------------------------------------------------------
(* Builder.                                                                *)

\* Mutant of FromBaked: APP__ variables are applied here too.
FromBakedAndEnvironment(base, overlay, file, environment) ==
  Layered(Layered(base, overlay), environment)

\* The attested path: what was compiled in, and nothing else.
FromBaked(base, overlay, file, environment) == Layered(base, overlay)

\* The local path: the file at CONFIG_PATH if it exists, then the environment.
FromPath(file, environment) == Layered(file, environment)
=============================================================================
