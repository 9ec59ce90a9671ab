# Verification of zee-k-verifier

TLA+ models of the zero-knowledge input verifier (`src/zk-verifier`) with its command
line tools, of the launcher that boots it in a confidential VM (`src/tdx-signer`), and
of the parts of `src/rust-common` they sign with; the TLC configurations that check
them; and theorems about them checked by TLAPS.

Contents: [the system](#1-the-system), [the modules](#2-the-modules),
[the runs](#3-the-runs), [bounds](#4-bounds-and-why-they-are-enough),
[fairness](#5-fairness), [proofs](#6-what-is-proved),
[disagreements with the documentation](#7-where-the-code-and-its-documentation-disagree),
[what is left out](#8-what-is-not-modelled), [plan](#9-plan).

## 1. The system

A client encrypts a list of values, attaches a zero-knowledge proof bound to a
security zone, an account, a chain and a consuming contract, and posts it to
`/verifyBatch`. The service verifies the proof on a small pool of CPU slots,
signs one digest for the whole batch, stores the ciphertexts and the proof in an
object store and at *ct-server*, and answers with the signature.

### Inventory

| Component | State it keeps | Operations | Hard behaviour | What makes it correct |
|---|---|---|---|---|
| **verifyBatch endpoint** `zk-verifier/src/api/mod.rs` | admission and CPU semaphores, in-flight gauge; per request: handler, blocking task, result, reply | admit/shed, CPU gate, spawn, join, persist, answer | client disconnects at every await; panics; a blocking task that cannot be cancelled; FIFO queue with hand-over | permits, queue places and gauge units are conserved; the gate is FIFO and never idles; success only for what was verified and stored |
| **persist_cts, StorageManager, StoreCts client** `storage/storage_manager.rs`, `api/mod.rs` | per upload: retry loop, attempt count, backoff, last error; the join's result; the StoreCts loop | upload, retry, give up, back off, join, answer | attempts time out and land later; siblings are dropped mid-flight; results read in order above 30 uploads; ct-server may never answer | success is durable; retry budgets are exact; one failure decides; a batch is delivered no more often than its budget allows |
| **The bucket between writer and audit** `storage_manager.rs`, `scripts/verify_stored_ct.rs` | objects under two prefixes | upserts of ciphertexts and proofs, the audit's two reads | a list sent twice, a ciphertext in two lists, late landings, requests that fail halfway, an audit in between | what a client was told is stored can be found, and the proof its record names holds it; that proof is missing only if a call with another list that did not finish overwrote the record |
| **Verifier and batch signer** `verifier/`, `signer/ecdsa.rs`, `rust-common/src/signing/` | none but the key | verify, expand, hash, sign | two encodings joined without separators; an account of any length; an older layout | a signature covers only what the proof's author named; one digest, one batch |
| **Dependency health** `health.rs` | interval, last results, gauges | tick, probe, log, publish | probes that hang, missed ticks, gauges set one by one | nothing reads "up" on stale evidence; rounds keep their pace |
| **OTLP push** `otel_split.rs`, `otel_push.rs` | the piece being filled, what was sent | split, send | caps at resource, scope and metric borders; a refusal halfway | no point lost, doubled or misfiled; no piece above the cap |
| **TDX launcher, local start and server start-up** `tdx-signer/src/main.rs`, `zk-verifier/src/main.rs`, `server.rs` | partner tokens, signer, manifest, artifacts, key files, recorder | federate, gather, read, load, check, bind, serve, restart | partners fail or change in the middle of a boot; a call without a timeout is never answered; the bucket or the key files change between two reads; a boot fails halfway | a server that serves runs on one keyset, and never with a signer it made itself; a boot succeeds once the world is in order, unless it waits for an answer that never comes |
| **Configuration** `config.rs` | none; sources of keys and the tree they make | layer, deserialize, default, validate | a file, variables and baked layers that disagree; sections that are set in part | a server that serves has budgets and timeouts that end, and an attested one only what was baked |
| Signer identity gate `signer/pubkey_match.rs` | none | compare | | part of the boot |
| **Key files** `scripts/stress_verify.rs` gen-keys | five files, a run's progress | write one after the other | it dies between two files; a server reads between two writes | part of the boot: no torn run passes for a signer |
| **Load generator** `scripts/stress_verify.rs` run | shared counter, workers, samples, probe, scrapes | pull, send, sample, give up, scrape, report | a request given up on still runs, or arrives later; metrics and samples are two views of one service; a scrape may be any body | every request is sampled once; the report agrees with the answers as far as the scrapes were metrics; nothing is shed below the cap; nothing is left behind |
| **Smoke client** `scripts/smoke_verify_batch.rs` | arguments, announced signer, answer | prove, ask, post, recompute, judge, print | the signer is asked for in one call and signs in another; three pieces of code hash the batch | its verdict is the contract's |
| Metrics registry, logging, infrastructure | | | | not modelled, see [section 8](#8-what-is-not-modelled) |

### How the parts interact

    launcher, or main --run_server--> server start-up --spawns--> health loop
       |         |                        |                        | probes
       | partners, bucket,                | serves                 v
       | key files, configuration         v                   ct-server, object store
       v                             /verifyBatch handler          ^
    keys, signer                          |  admit_sem             |
                                          |  verify_sem -> blocking task: Verifier -> sign
    load generator, smoke client -------->|                        |
                                          +--- persist_cts --------+
                                                StorageManager -> object store <- verify-stored-ct
                                                StoreCts client -> ct-server

- The handler *calls* the verifier on a blocking thread and *joins* it; the two
  share the CPU permit, which moves into the thread (`gated_verify`). The
  admission permit stays with the handler's future, so a disconnect separates
  the two.
- `persist_cts` runs the storage branch and the StoreCts branch under
  `tokio::join!`; inside the storage branch `try_join_all` runs one retry loop
  per object and drops the others on the first failure it reads.
- Requests share the two semaphores, the gauge and the bucket, and nothing else.
- The health loop shares with the rest only what it probes; it does not gate
  requests. Start-up ends when the server serves.
- The tools are clients. The load generator shares the service's permits and reads
  its metrics; the smoke client asks `/signerAddress` and `/verifyBatch`, between
  which the service may restart; gen-keys writes the files a local start reads.

## 2. The modules

| Module | Models | Checked by | Proved in |
|---|---|---|---|
| `BoundedService` | abstract specification of the endpoint | `KeepsPromise` of `VerifyBatch` | `VerifyBatchProofs` |
| `VerifyBatch` | `verify_and_sign_batch`, `admit`, `gated_verify`, `InFlightGuard`, the join of `persist_cts` | `verify_batch_*` | `VerifyBatchProofs` |
| `LoadRun` | `VerifyBatch` with `stress-verify run` as its client | `load_run` | `LoadRunProofs` |
| `Persist` | one `persist_cts` call: `store_proof_and_cts`, both retry loops, both remotes | `persist_*` | `PersistProofs` |
| `PersistStep` | `Persist` as the persist step of `VerifyBatch` | `persist_liveness` | `PersistProofs` |
| `StoredAudit` | persist calls that share objects, and `verify-stored-ct` reading them | `stored_audit`, `audit_confirms` | `StoredAuditProofs` |
| `Signing` | `Verifier::verify_and_sign_batch`, `ct_message_hash`, `sign_batch` | `signing` | `SigningProofs` |
| `BatchClient` | `Signing` with `smoke-verify-batch` as its client, key restarts, the contract | `signing` | `SigningProofs` |
| `Health` | the loop of `health::spawn` | `health` | `HealthProofs` |
| `MetricsExport` | `split_request`, `send_bytes` | `metrics_export` | `MetricsExportProofs` |
| `Settings` | the sources, builders and validation of `config.rs` | `boot` | `BootProofs` |
| `Boot` | both mains and `run_server`, with `gen-keys` and ceremonies beside them | `boot` | `BootProofs` |

`MCVerifyBatch`, `MCLoadRun`, `MCPersist`, `MCStoredAudit`, `MCSigning`,
`MCMetricsExport` and `MCBoot` only give constants their values and define symmetries. A
definition whose comment starts with "Mutant of X" is X with a plausible bug: the
specification does not use it. Replacing X by it breaks one of the properties,
which shows that the property depends on that piece of code.

Four modules compose others. `LoadRun` extends `VerifyBatch` and drives its actions from
the tool's. `BatchClient` extends `Signing` the same way. `PersistStep` extends
`Persist` and instantiates `VerifyBatch` over it: what `VerifyBatch` assumes of its
persist step, two branches that end in either way and an answer that waits for both, is
there a refinement with `Persist` as the implementation (`ImplementsPersistStep`), and
so is the fairness it assumes. `Boot` extends `Settings`, and guarantees to the others
what they assume: `Persist`'s `RetryAssumption` is part of `ServesSoundConfig`, and so, for an
attested server, is the positive interval that `Health`'s `KeepsProbing` supposes. Two links are by argument only. `StoredAudit` lets a request be
answered 200 only once all its objects have been written, which is `Persist`'s
`SuccessIsDurable`; and `Boot` treats the health loop as a step that spawns `Health`.

### VerifyBatch

A request is two actors. `pc[r]` is the handler's future; `task[r]` is the
blocking task.

| TLA+ | Code (`api/mod.rs`) |
|---|---|
| `admit_free`, `verify_free` | permits left in `admit_sem`, `verify_sem` of `AppState` |
| `waiters` | tokio's FIFO list behind `verify_sem.acquire_owned()` |
| `Admit`, `Shed` | `admit`: `try_acquire_owned`, or 503 with Retry-After |
| `RejectContract` | the contract address is refused before any CPU is spent |
| `AcquireNow`, `Wait`, `Resume` | `acquire_owned().await`: at once, queued, or polled again after a hand-over |
| `StartTask`, `FinishRun`, `ReleaseCpu` | the `spawn_blocking` closure: gauge up, `verify_and_sign_batch_impl`, then its locals in reverse order: `InFlightGuard`, permit |
| `BeginPersist`, `JoinFailed` | the result of the join: batch, error (400), panic (500) |
| `FinishExternal`, `FinishStoreCts`, `FinishPersist` | the branches of `persist_cts` and the answer |
| `Disconnect` | the future is dropped at an await: queue place, permit in transit, or running task are each treated as the code's destructors do |

The step from "granted" to "joining" is separate because tokio assigns the
permit to the waiter before that waiter is polled: a disconnect in between must
pass the permit on (`DropGranted`). `BoundedService` says the same from outside,
without semaphores, queues or tasks: who is inside, what runs, what was proved
and stored, what was answered. The refinement mapping reads `inside` off `pc`,
`working` off `task`, `proved` off `result`, `stored` off the two branches and
`outcome` off `reply`, with "Gone" for a dropped handler.

### LoadRun

The requests of `VerifyBatch` are the tool's: `SELF_CHECK` and one per counter value.
`Arrive` is `Admit` or `Shed` with the service's rejection counter; `Notice` is a
`Disconnect` of a request the client gave up on, whenever the service notices. `Pull` is
the `fetch_add` of a worker, `ReadAnswer` and `GiveUp` take its sample; `Joined`,
`Probe`, `ProbeJoined`, `ScrapeBefore` and `ScrapeAfter` are the main task. A request
that was given up on may still be unsent (`pc` is "new") and arrive later.

`scrape` looks at no status, and the report reads a metric that is missing as 0. So
`Snapshots`, what a scrape may return, is the service's metrics, nothing (the request
failed, or there is no `METRICS_URL`) or a foreign body, which counts as zeros;
`before.read` and `after.read` remember which. `EARLIER` is what the service had shed
before the run: with it a foreign body before the run is told from an honest zero. Each
bound of `ReportAgrees` names the scrape that it needs to have been of the metrics.
`ShedsOnlyOverCap` counts, at the moment of a shed, the admitted requests that a worker
waits for or that were given up on: they alone must fill the cap.

### Persist

`up[o]` is where the retry loop of object `o` is; `Join` is `try_join_all` and is
part of every action that ends an upload. `Ahead[o]` is what the join reads
before `o`: nothing for a batch of at most 30 futures, where the library reads
results as they come, and every earlier future above that. An attempt that
timed out, failed in transport or whose future was dropped goes to `loose` and may land at
any later time. For ct-server each call counts: `cts_loose` is how many POSTs are still on
their way without anybody waiting, `delivered` how often the batch has arrived, which is
what `DeliveriesWithinBudget` bounds. `uploads`, `posts`, `recorded` and `cts_recorded`
count calls and metric increments. `Answer` maps the
first error to a status as `IntoResponse` does; `Disconnect` drops everything.

`PersistStep` has no state of its own. It reads a one-request `VerifyBatch` off
`Persist`: the external branch off `storage`, the StoreCts branch off `cts`, the
handler off `client`, the reply off `status`.

### StoredAudit

`inputs` and `proofs` are the bucket by prefix (`cofhe/v2` written now, `cofhe/v1`
from earlier versions). `Land` is an upload of a request landing, as often as it
likes and even after the request was answered; ciphertext keys hash the
ciphertext, proof ids hash the list (`ProofId`). A record names its proof, so an upload of
a ciphertext that is in two lists replaces a record that names one proof by a record that
names the other; `Superseding` is what such an overwriting call is when its proof is not
there. The audit is `StartAudit`, `FindCiphertext` or
`MissCiphertext` per prefix, `FetchProof`, `Verify`, each a separate read.

### Signing

The one module that keeps bytes, because its question is what a byte string
stands for. `Metadata` is what a proof is bound to, `CtMessageHash` and the fold
of `SignBatch` what a signature covers. `Keccak` is an opaque, collision-free word.
The proof check of the tfhe library accepts exactly the bytes a proof is bound
to; `Refuse` allows it, and everything before it, to refuse anything. `Named` is
what an author may have bound: any account with a full contract, or the layout
of SDKs that knew no contract, whose account is a wallet.

### BatchClient

The tool's `Launch`, `GetSigner`, `Post` and `Judge` are its `main` in order; `ToolFails`
is any of its panics. `VerifierRestarts` may change the key in every stage and drops the
request in progress. `SignPrehash` is the low-s normalization: negating s moves the
signature to the point with the other y, so the recovery id flips with it. `Printout`
recomputes every message hash as `per_ct_message_hash` does; `Accepts` is the on-chain
side, external to the repository and modelled from the tool's header: it hashes the
sender from the call, the chain it runs on and the contract that calls it. The
recovery ids 2 and 3, for a point whose x wraps around the group order, are left out:
their chance is below 2^-127. Other clients' verifications are over when the tool
starts, because verifications share nothing but the key.

### Health

Time is discrete and passes only while the loop is suspended. `MakeTicker` is
`tokio::time::interval`: a period of zero panics the detached task, and the gauges stay
at the zeros that `spawn` published. The ticker catches up with missed ticks one by one
(tokio's default). The gauges are set in three steps because other threads may read
between them; `seen_up` is the age of the last good answer.

### MetricsExport

A point is named by its metric and position, a slice by the metric and the range
of points it holds; pieces are sequences of slices with the resource and scope
shell they are filed under. Splitting handles one metric's next slice per step;
sending posts the pieces in order and stops at the first that is refused.

### Settings and Boot

A source in `Settings` is a function from the keys it sets to their values. `Layered` is
`add_source`, key by key; `Deserializes` knows which fields a section needs, `Config`
adds serde's defaults, `Valid` is `validate`. `FromBaked` is the attested builder,
`FromPath` the local one.

`entry` says which main runs. In the confidential VM `bucket[x]` is the ceremony each
public object is from; `Publish` replaces any of them between any two reads until
`calm`. `given` is what `from_env` finds of what it needs (`Required`); one that is missing,
or a threshold that no set of partners meets, makes every boot exit. `good` are the partners
whose federation and share are in order at the moment; `PartnersChange` changes them in
the middle of a boot, after a token was taken too. On a
developer's machine `disk[f]` is the run of gen-keys each key file is from, or "own"
for a signer the server made itself under `GENERATE_KEYS`; `GenKeysWrites` writes one
file per step, in the tool's order, and `GenKeysDies` leaves the rest. `run_server` is
the same for both, with the gate that fits: `MatchesAddress` against the manifest,
`MatchesPubkey` against the file. Every fallible step may end the boot, and `Restart`
begins again from nothing but what is on disk. `Awaits` names the places where a boot
waits for somebody's answer on a call that the code gives no timeout.

## 3. The runs

| Run | States | Shows |
|---|---|---|
| `verify_batch_safety` | 157,538 | Four requests, every interleaving with disconnects and panics: no admission permit (`AdmissionConserved`), CPU permit (`CpuPermitsConserved`), queue place (`QueueIsWaiters`) or gauge unit (`GaugeBalanced`) leaks; no wake-up is lost (`GateNeverIdles`); the gate is FIFO (`NoOvertaking`); the endpoint implements `BoundedService` (`KeepsPromise`) |
| `load_run` | 391,255 | The load generator against the service, with lost and late requests, scrapes that fail or return a foreign body, and a ct-server free never to answer: each request is sampled once (`EveryRequestSampledOnce`), the report agrees with the answers as far as the scrapes were metrics (`ReportAgrees`), a request is shed only when others that are awaited, or lost and still held, fill the cap (`ShedsOnlyOverCap`), the run ends (`RunEnds`), every permit comes home for good (`NothingLeftBehind`), and a StoreCts call is all that a request can hang on (`OnlyStoreCtsCanHold`) |
| `persist_safety` | 1,946,497 | Two ciphertexts and a proof: a 200 is durable, budgets are exact, backoffs double to the cap, operations are counted once, and the batch reaches ct-server at most once per POST the budget allows, however many answers are lost and however late (`DeliveriesWithinBudget`) |
| `persist_liveness` | 142,632 | Results read in order: the first failure read decides, `Persist` implements the persist step of `VerifyBatch` with the fairness assumed there (`ImplementsPersistStep`), and only one POST can hold the request (`OnlyAPostCanHold`) |
| `signing` | 584,685 | A signature covers what the author named; no digest covers two batches; and the smoke tool's verdict is the contract's, with a signer that may change between the two calls |
| `stored_audit` | 947,284 | A list sent twice and another that shares a ciphertext with it: an audit of an answered ciphertext finds a record, the proof in hand holds the ciphertext where the record says, and the proof is missing only behind an unfinished call with another list (`AnsweredIsComplete`) |
| `health` | 22,192 | A published "up" rests on recent evidence (`NoStaleUp`); rounds do not overrun; the log agrees with the gauges; with any period but zero probing goes on |
| `metrics_export` | 135,835 | Every point exactly once, in order, under its own shell, no piece above the cap; success means all arrived |
| `boot` | 878,904 | Both starts, with partners that change, a bucket and key files that are written between the reads: one keyset, never a self-made signer, a validated configuration and no other source than the baked ones when attested, series published before the first request; and once the world is calm a boot succeeds or waits for good on a call without a timeout (`ComesUp`) |
| `verify_batch_cap` | violated | `AdmissionBoundsInFlight`, see section 7 |
| `persist_outcomes` | violated | `OneOutcomePerPersist`, see section 7 |
| `audit_confirms` | violated | `AuditConfirms`, see section 7 |

To repeat one: `tlc -config Persist_safety.cfg MCPersist.tla`; the module and
configuration of each run are listed in `PROJECT.json`. Deadlock is checked in
every run. Where a behaviour may legitimately end (all requests gone, a call
over, the tool's report out, a server that runs) a named stuttering action says so
(`Idle`, `Over`, `Done`, `Running`), so that being stuck anywhere else is an error.

## 4. Bounds, and why they are enough

- `verify_batch_safety`: 4 requests, `MAX_INFLIGHT` 3, `VERIFY_CONCURRENCY` 1: one
  running, two queued (so that order, removal from the middle and hand-over all
  matter), one shed; with disconnects, orphaned tasks beside a full admission
  cap. Requests are interchangeable, hence the symmetry. `VERIFY_CONCURRENCY` 1 is
  the tightest gate; other values are covered by the proofs.
- `load_run`: 2 workers, 2 requests and the self-check, `MAX_INFLIGHT` 2,
  `VERIFY_CONCURRENCY` 1. As many workers as the cap admits, so a request is shed only
  behind one that was given up on: the cap cannot be full of awaited ones alone, which is
  the harder case of `ShedsOnlyOverCap`. Three requests in the service are a running one, a
  queued one and a third that meets the cap. `EARLIER` is 1, so that the counter does not
  start where a foreign body puts it. With metrics and with the probe; the proofs cover runs
  without. No symmetry, because the run checks liveness.
- `persist_safety`: 3 objects so that a failure has a sibling asleep and another in
  flight; `MAX_RETRIES` 2 and delays 2 to 5 so that the doubling reaches 4 and is
  then cut to 5; `CTS_RETRIES` 1, which already lets two POSTs of one batch arrive, one of
  them late. Both loops are uniform in their budgets, and the
  proofs cover all of them. `persist_liveness` reads the results in order, the
  harder case for noticing an end.
- `signing`: one-byte addresses and one zero byte in front of the chain id instead
  of 20 and 28; accounts of 0 to 2 bytes, so that a byte can move between the
  account and its neighbours; chain ids 1 and 257, whose bytes look like an
  account; lists of 0 to 2 ciphertexts with a repeated hash of another type.
  `MaxSigned` 2: the properties compare two signatures. Two keys, so that a
  restart can change the signer and change it back. The proof is for every width and
  every set of keys.
- `stored_audit`: three calls: a list of two ciphertexts sent twice, and another list that
  shares one of them and holds a second one twice; a list of an earlier version that holds
  the other. So a record can be overwritten by the same list and by another, and
  can hide one of the older prefix. One audit at a time, because audits write nothing.
- `health`: intervals 3, 4 and 6 around a round of 2 or 4 (`PROBE_TIMEOUT` 2): a round that
  overruns its interval, one that fills it exactly and one that fits; and interval 0,
  which nothing validates. `LAG` 6 is where the count of missed time stops, beyond the
  longest round; clocks stop at `NEVER` 11, just past the longest time a property looks
  at.
- `metrics_export`: cap 2 instead of 200, up to 3 metrics of 0 to 5 points in 2
  resources with 2 scopes: below, at and above the cap, a metric of several pieces,
  empty metrics, and every border between shells.
- `boot`: 3 partners with thresholds 2 and 4 (more than there are partners, refused), the
  partners in order being any set at any moment; one baked configuration, which pushes; three
  ceremonies: ours, one that publishes new keys for the same signer, and one with
  a new signer. Six configuration files (absent, sound, a retry section in part, a
  value of another type, no retries and no timeout, a delay above its cap), each with
  and without variables that leave the health loop no period; two runs of gen-keys, so
  that files of two runs can meet on disk.

## 5. Fairness

- `VerifyBatch`, in `LoadRun`: weak fairness of each handler's, task's and storage
  branch's steps. tokio polls every woken future, the blocking pool runs each task to
  its end, and every upload is bounded by a timeout and a retry budget, which
  `PersistStep` checks of `Persist`. The service notices a disconnect (`Notice`). Nothing
  for `FinishStoreCts`: the HTTP client of the service has no timeout. On the tool's
  side its main task, its probe and its workers are polled; no answer and no timeout is
  owed. `RunEnds` alone supposes that a worker's timeout ends a request it waits for
  (reqwest's 300 s), and says so in its premise.
- `Persist`: weak fairness of each upload's steps, of the StoreCts sleep and of the
  answer; none for a POST, none for late landings.
- `Health`: time passes, steps without an await are taken, and a probe that has used
  up its timeout ends. A probe need never be answered.
- `Boot`: weak fairness of the boot's steps where it waits for nobody (`LocalStep`), and of
  `Restart`, because the platform restarts the container on failure
  (`tee-restart-policy` in `src/tdx-signer/compute/main.tf:442`), and a developer starts a
  local server again. None for a call that has no timeout: the attestation socket
  (`src/tdx-signer/src/attestation.rs:18-63`), the partners awaited one after another
  (`src/tdx-signer/src/main.rs:315-329`), downloads
  (`src/tdx-signer/src/gcs.rs:51-72`) and the storage's startup probe. `ComesUp` says that
  a boot succeeds or waits at such a call for good, once the world has become calm. Nothing
  for gen-keys, for ceremonies or for failures.

Weak fairness is enough throughout: no step that matters is enabled only now and
then. Runs that check liveness use no symmetry.

## 6. What is proved

Every theorem holds for every value of the constants under the assumptions named
in the modules: limits at least 1 and finitely many requests (`LimitsAssumption`,
`RequestsAssumption`); what the configuration validates (`RetryAssumption`); a finite
non-empty batch and any reading order (`ObjectsAssumption`, `AheadAssumption`); an
address no longer than the padding of a chain id, and fields that are byte strings
(`WidthsAssumption`, `FieldsAssumption`, `ListsAssumption`); what a recovery yields for
somebody else's signature is no key (`NobodyAssumption`); a probe timeout
of at least 1, and clocks that stop beyond what the properties look at
(`TimesAssumption`); the partners, thresholds and ceremonies of a boot
(`PartnersAssumption`, `ThresholdsAssumption`, `CeremoniesAssumption`), numbers where
the sources hold numbers and a baked health interval that is not zero
(`SourcesAssumption`), and gen-keys runs that make no signer of the server's own
(`KeyGensAssumption`); a cap of at least one point, and requests that list resource by
resource and scope by scope, as the OTLP message nests them (`CapAssumption`,
`RequestsAssumption` of `MetricsExport`); a finite set of workers and at least one request
of the load (`LoadAssumption`). TLC evaluates them all on its instances.

Induction over data has to be written out: the library's induction theorems take an
operator as a parameter, which the provers here cannot instantiate. Two facts do without:
a non-empty set of naturals has a least element (from the library's well-founded `<`), and
the subsets of `1..n + 1` are twice those of `1..n`. The first carries the sums and
flattenings of `MetricsExportProofs`, the second the powers of two of `PersistProofs`.

**VerifyBatchProofs.** Each safety property of the endpoint follows from one
inductive invariant `IInv`. None of them is inductive alone: that the CPU permits are
conserved needs to know that a task exists only behind a handler that got through
the gate (`Stages`: which `task`, `result` and branch values go with which `pc`), that a
waiter's queue entry is unique (`QueueIsWaiters`), and that a permit is in the pool only
when nobody waits (`GateNeverIdles`). The counting conjuncts rest on lemmas about the
cardinality of a set that gains or loses one element. Theorems: `TypeCorrect`,
`AdmissionNeverLeaks`, `CpuPermitsNeverLeak`, `QueueIsExact`, `NoLostWakeUp`,
`GaugeIsExact`, `GaugeStaysWithinGate`, and `GateIsFifo` (an action property).
`EndpointKeepsPromise`: `Spec => KeepsPromise`. Each action of `VerifyBatch` maps to a step of `BoundedService` or a stutter. The guards of the abstract
steps come from the invariant: `Enter` and `Shed` from `AdmissionConserved`, `BeginWork` from
`CpuPermitsConserved`, and `Leave` with success from `Stages`.

**LoadRunProofs.** Every step of the load run is a step of the service or leaves the service
alone, so `LoadImplementsVerifyBatch` (`LoadSpec => Spec`) brings all of the above under
load. `LoadInv` adds to `IInv` who owns a request: a counter value that was read is with
one worker or in one sample, and no two of either name the same one (`Owned`; `SamplesFit`
bounds a worker's samples by the counter it pulled from). A sample is the answer sent, or
its request is among the lost (`SamplesTrue`, which needs that an answer is final:
`AnswersAreFinal`), a request not pulled yet is unknown to the service (`Unsent`), and the
load starts on a service that has seen only the self-check (`PhaseInv`). The three
properties are then countings. `NoRequestSkippedOrDoubled`: the samples of a request are
none or a singleton. `MetricsMatchAnswers`: the samples with a 503 inject into the shed
requests, those into the samples with a 503 or none, and the verifications that run into
the samples without an answer; a foreign body's zeros only loosen each bound on its own
side. `CapIsReachedBeforeShedding`: a shed means that no admission permit is left
(`ShedFindsCapFull`), and every admitted request is one a worker waits for or one that was
given up on (`HeldAreAwaitedOrLost`): an answer goes out after its permit is back.

**PersistProofs.** `PInv` adds to the properties how the counts belong together
(`Counted`: attempts, calls started and the place in the loop; `Countdown`: the same for
the loop that counts down), that the join's result and the loops' places agree
(`Joined`), and that the status follows from the two results (`Verdict`). Theorems:
`PersistTypeCorrect`, `SuccessMeansStored`, `BudgetIsExact`, `OneFailureDecides`,
`OutcomesCountedOnce`, `RepeatsAreBounded` (every arrival is a POST that
was made, and those still on their way are among the rest). `PersistRefinesStep` is the refinement of
`PersistStep`, step by step: an upload that ends may be `FinishExternal`, a POST
`FinishStoreCts`, the answer is `FinishPersist` with the reply that `VerifyBatch` gives for
the two branches (which needs `PInv`: no error has a status of 0 or 200), and everything
between is a stutter. `BackoffIsExponential`: the delay of a loop is a function of its
attempt count (`DelaysFit`); doubling the capped delay and capping the doubled one agree
(`BackoffStep`), and `2^(n + 1)` is `2 * 2^n` (`PowerStep`).

**SigningProofs.** The fields are read back from behind: contract and chain word have
a fixed length, so equal bytes have equal contracts, then equal chain words, then
equal accounts and zones, although the account's length is not fixed. The layout
without a contract is refused because, read from behind as one with a contract,
its wallet address would have to be the beginning of a chain word: `ADDRESS_LEN <=
CHAIN_PAD` makes that all zeros, and no wallet is the zero address. `SInv` says that a request in progress passed the
checks of its stage and that its hashes are those of a prefix of its list. Theorems:
`SignsOnlyWhatWasNamed`, `DigestStandsForOneBatch`.

About `BatchClient`: a restart of the verifier is, for the verifier, a refusal that
leaves the signatures alone (`RestartRefuses`), and every other step of the composition
is one of `Signing`'s or a stutter: `ClientImplementsSigning`, so those
two theorems hold under restarts. `VInv` adds to `SInv` that the
verifier keeps nothing between two requests and is busy while the tool's is out
(`Between`); `Steps` says what the tool knows at each of its steps (a
posted request is the tool's own) and `Answered` what an answer is: its digest is the
hash of the message hashes of the tool's list and fields, under the key of that moment,
with a low s and the recovery id that belongs to it. With
that the tool's digest is the one signed exactly because it hashes the same bytes, and
the contract's digest equals the tool's only for the same contract and chain, because
the fields are read back from behind. `GreenRunMeansAccepted`.

**StoredAuditProofs.** `AnsweredStaysComplete`. Lists may share ciphertexts, so what a
call wrote need not stay: `AInv` says that a record of every ciphertext a call has
written is there, that every record and proof under the newest prefix is one a call wrote
(`Written`), and that an audit begun on an answered ciphertext reaches the older prefix
only after a failed read (`OnTrack`). A record whose proof is not found was then written
by a call that has not stored its proof, and no answered call has that list, since an
answered call stored its own (`MissingProofSupersedes`); under the older prefix a record
always has its proof (`OldRecordNamesProof`).

**HealthProofs.** The properties speak of ages, so the invariant `HInv` bounds each of
them at each place of the loop: when the next tick is due, given what the round has
taken so far (`OnTime`), how old a good answer of this round can be (`Answers`) and one
that a gauge still shows from the round before (`Old`); and it says that what the round
has published is what it found (`Published`) and that results, remembered results and log
are one (`Same`). Theorems: `HealthTypeCorrect`,
`UpIsNeverStale`, `PaceIsKept`, `LogSpeaksTrue`, for every interval and timeout.

**MetricsExportProofs.** The module first shows what its two recursive functions do:
`Sum` and the library's `FlattenSeq` have the values their recursion promises, and each adds
one element at the end (`SumAppend`, `FlattenAppend`). `MInv` then says where the cut is:
all slices so far follow one another up to the point cut next (`Cut`), the open piece is
counted and within the cap (`Counted`), and it opens a new shell exactly when a scope begins
(`Filing`). That a scope is never opened twice in a piece is `ScopesTogether`, from the
order of the request (`RequestsAssumption`), because the code only compares with the last
shell. Every beginning of the pieces is consecutive, and while the pieces are sent they hold
all points (`SentWhole`), which is what an export that breaks off rests on. That a request
over the cap makes at least one piece needs `Counted` once more: before the first piece
closes, the open one holds every point so far. Theorems: `ExportTypeCorrect`,
`EveryPieceFits`, `CutKeepsEveryPoint`, `EverySliceInItsShell`, `ArrivesWithoutHoles`.

**BootProofs.** `BInv` says what each place of a boot has already checked: `Keyset` (one
artifact after the other equals the manifest, then the signer), `Published` (no public key on disk is one
a server made, although the signer beside it may be), `Configured` (the configuration is
the sources' and, behind the storage gate, valid), `Observed` (which series exist
where). That `manifest` is the second reading and `signer` comes from the first is why
`Keyset` needs the gate: only there do they meet. Theorems: `BootTypeCorrect`,
`OneKeysetServes`, `OwnSignerNeverServes`, `SoundConfigServes`,
`ServedIsObserved`.

**Only model-checked:** the liveness properties (`RunEnds`, `NothingLeftBehind`,
`OnlyStoreCtsCanHold`, `OnlyAPostCanHold`, `KeepsProbing`, `ComesUp`) and the two promises
of fairness in `ImplementsPersistStep`: fairness needs `ENABLED`, which is out of the
provers' reach. Every invariant and every action property of the passing runs is proved.
**Only proved:** `GaugeStaysWithinGate`, `LoadImplementsVerifyBatch`,
`ClientImplementsSigning`, `PersistTypeCorrect`, `HealthTypeCorrect`, `BootTypeCorrect` and
`ExportTypeCorrect`, whose formulas follow from, or are weaker than, what the runs check, or
compose two models.

## 7. Where the code and its documentation disagree

1. *Admission does not cap the work in flight* (`verify_batch_cap`). The comment on
   `AppState::admit_sem` (`zk-verifier/src/api/mod.rs:267`) says the permit bounds all
   in-flight requests, "not just the CPU stage". The permit belongs to the handler's
   future (line 663) and is dropped when the client disconnects, while the blocking
   verification (486-499) runs on: a further request is admitted beside it. The
   verifications themselves stay within `VERIFY_CONCURRENCY` (`CpuPermitsConserved`).
2. *Not every persist is counted* (`persist_outcomes`). The comment at
   `storage_manager.rs:309` promises one increment per logical persist. An upload that
   is still retrying when a sibling fails is dropped by `try_join_all` (line 154) before
   it records anything. What is recorded is recorded once (`OutcomeRecordedOnce`).
3. *The audit tool cannot read what the service writes* (`audit_confirms`).
   `zk-verifier/README.md:129` says that `verify-stored-ct` verifies the stored proof and
   confirms the hash; the tool reads the list with bincode
   (`verify_stored_ct.rs:757`, and 224 for the hash) while the service stores it in
   safe_serde's format (`api/mod.rs:769`, `rust-common/src/safe_serde.rs:17-25`). That the two
   objects agree when they are there is `AnsweredIsComplete`.

Observed in passing, without a property of their own:

- An answered ciphertext can lose the way to its proof. A ciphertext is keyed by its hash
  and a proof by the hash of the whole list (`storage_manager.rs:58-60`, 76, 95-116), and
  an upload overwrites ("to avoid race conditions", line 161): when the same ciphertext
  comes back in another list, its record is replaced by one that names the new proof,
  which may not be stored yet, and never is if that upload fails. The first proof is still
  there, and nothing names it. `AnsweredIsComplete` allows this case and no other.
- The load report reads any body as metrics: a scrape's status is not looked at
  (`stress_verify.rs:357-363`) and a metric that is not in the body is 0 (456-458), so an
  error page before or after the run is reported as a service that shed nothing, or less
  than nothing. What can still be relied on is `ReportAgrees`.
- The StoreCts loop's error text names its retries ("after 5 attempts") where one attempt
  more was made.
- A `probe_interval_secs` of 0 panics the detached health task: `tokio::time::interval`
  refuses a zero period and the setting is not validated. The gauges stay at 0
  (`MakeTicker`), so the service reads "down" and not stale.
- The launcher reads the manifest twice, which is harmless for the keyset
  (`ServesOneKeyset`) because the artifacts and the reconstructed signer are all checked
  against the second reading.
- `GENERATE_KEYS=true` alone never brings up a local server with the real signer: the
  signer is written and its public key is not, so the gate refuses it in this boot and the
  next (`NeverServesOwnSigner`). A server on its way to writing its own signer can write over
  the one gen-keys has just put there; `RestoredDisk` excludes that boot.
- A local boot checks the signer against the public key on disk and nothing else: crs,
  public key and computation key of two runs of gen-keys are not told apart.
- gen-keys prints a command that starts the server from `<out>`, while the default paths of
  the key files begin with `./keys/`.
- The smoke client prints the arguments for the contract also when its verdict is that the
  signature does not recover; it then exits with a failure.

## 8. What is not modelled

- The tfhe proof check and expansion, ECDSA arithmetic, Keccak and SHA-256: library
  code; each is an outcome or an opaque word.
- In `Settings`: addresses, ports and paths, which have defaults and decide nothing the
  properties are about; the syntax of files and variables.
- Attestation tokens and their bytes, the partners' own services: outcomes of `Federate`
  and `Gather`. That a signer is reconstructed from a threshold of shares is inside the
  external `cofhe_keys` (`read_zk_signer`): here a guard of `Gather` and not a property, and
  whether its calls have timeouts is not known, so that the model supposes none.
- Builds with a mock signer, which skip the signer gate (`server.rs:46-49`).
- Metrics registry, logging, telemetry timers: side output; counters and gauges that
  a property is about are variables.
- `derive-signer-pubkey`, with which an operator may publish the public key of a signer
  that a server made for itself: `NeverServesOwnSigner` is about what happens without it.
- `stress-verify mint`, which writes a corpus of requests for the load run, and the
  percentiles of its report.
- In `StoredAudit`: the tool's requirement that an account has 20 bytes, corruption of
  stored objects, and other chains and zones, which are part of every key.
- Terraform, Docker files, workflows: no state of the service.
- Several concurrent `persist_cts` calls against one ct-server in one model: `Persist`
  is one call and `StoredAudit` the sharing of objects.

## 9. Plan

Done, in this order: `VerifyBatch` with its abstract specification (the heart of the
service: capacity and cancellation), `Persist` (durability), `Signing` (what a signature
means), `StoredAudit`, `Health`, `MetricsExport`, `Boot`; the proofs about the first four;
then the clients and what joins the modules: `LoadRun`, `PersistStep`, `BatchClient`,
`Settings` with the local start; then the proofs about `PersistStep`, `BatchClient`,
`Health` and `Boot`; last those about the backoff, `MetricsExport` and `LoadRun`.

Next: `Service`, several requests of `VerifyBatch`, each with its own `Persist`, against one
bucket and one ct-server, so that the premise of `StoredAudit` is a refinement too.
