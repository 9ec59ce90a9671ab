------------------------------- MODULE MCBoot --------------------------------
(* The instance of Boot that TLC checks.                                   *)
EXTENDS Boot

\* "resharded" publishes new keys for the same signer, "rotated" a new signer.
Signers == [c \in {"ours", "resharded", "rotated"} |->
              IF c = "rotated" THEN "other" ELSE "signer"]
AllCeremonies == DOMAIN Signers
OurCeremony == "ours"

\* envs/base.toml, and the overlay of testnet and mainnet, which push (staging does
\* not, nor does a developer's machine here).
Base == [backend |-> "gcs", upload_timeout_secs |-> 300,
         max_retries |-> 5, initial_delay_ms |-> 100, max_delay_ms |-> 5000]
BakedConfigs == {[base |-> Base, overlay |-> [bucket |-> "inputs", push |-> TRUE]]}

\* No file, one of a storage section with no retries and no timeout, a sound one,
\* a torn retry section, a value of another type, and a delay above its cap.
Files ==
  {Empty,
   [bucket |-> "dev", backend |-> "gcs", max_retries |-> 0,
    initial_delay_ms |-> 1, max_delay_ms |-> 1, upload_timeout_secs |-> 0],
   [bucket |-> "dev", backend |-> "gcs", upload_timeout_secs |-> 5],
   [bucket |-> "dev", backend |-> "gcs", max_retries |-> 3],
   [bucket |-> "dev", backend |-> "gcs", upload_timeout_secs |-> Garbled],
   [bucket |-> "dev", backend |-> "gcs", max_retries |-> 3,
    initial_delay_ms |-> 6000, max_delay_ms |-> 5000]}

\* Nothing, or variables that would leave the health loop no period.
Variables == {Empty, [probe_interval_secs |-> 0, push |-> FALSE]}

TwoRuns == <<"first", "second">>
=============================================================================
