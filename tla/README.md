# A verification project for axiam-domo-demo

TLA+ modules that model the Device Twin's authorization backend, the
bootstrap that sets its world up and the probe that judges both, TLC configurations that check them on small
instances, and theorems the TLAPS proof system checks for all instances.
Everything is translated from the source; AXIAM, RabbitMQ, Docker and the file
system are external and appear as the source uses them.

## 1. The system

### Components, their state and their operations

| Component | Source | State | Operations |
|---|---|---|---|
| Topic translation and ownership | `crates/domo-common/src/topic.rs` | none | `to_routing_key`, `owns_routing_key` |
| Decision core | `services/device-twin/src/rmq/decide.rs`, `forms.rs` | none (a `Session` is its argument) | `decide_user_identity`, `decide_user_subject`, `client_id_binding`, `live_session`, `decide_vhost`, `decide_resource`, `decide_topic` |
| HTTP handlers | `services/device-twin/src/rmq.rs`, `main.rs` | session cache `username -> Session`, in memory | `rmq_user` (CONNECT), `rmq_vhost`, `rmq_resource`, `rmq_topic` |
| Tenant registry | `services/device-twin/src/tenants.rs` | `tenant_id -> slug`, the file's modification time, a verifier per tenant | `new`, `warm`, `slug`, `knows`, `verifier` |
| `up`, the stage runner | `just/stack.just`, `tools/domo-bootstrap/src/state.rs` | markers under `.secrets/state`, Docker volumes, containers, AXIAM's setup gate | `up`, `down`, `demo-reset`; `gate`, `run`, `probe`, `mark_done` |
| Organization bootstrap | `stages/org_bootstrap.rs`, `stages/mod.rs`, `hand_rolled.rs`, `secrets.rs` | `super-admin.json`, the setup token | `run`, `super_admin_credentials`, `HandRolled::bootstrap` |
| Tenants and their map | `stages/tenants.rs` | tenants in AXIAM, `tenants.json` | `run`, `verify` |
| Service certificates | `stages/service_certs.rs` | account, key file, certificates, leaf file | `ensure`, `verify` |
| Device identity | `stages/device_identity.rs`, `tools/domo-probe/src/main.rs` | account, four files, certificates | `ensure_account`, `gen_csr`, `sign` |
| Resource tree and group bindings | `stages/tree.rs` | resources, groups, bindings in AXIAM | `ensure_resource`, `ensure_group_binding`, `verify` |
| Smoke suite | `stages/smoke*`, `just/smoke.just` | fixtures in AXIAM, the files under `smoke/` | `smoke-tree`, `smoke-authz`, `smoke-keys`, `smoke-certs`, `matrix`, `smoke-teardown` |
| Tenants' administrators, signing CAs, catalog | `stages/tenant_admin.rs`, `stages/pki.rs`, `stages/catalog.rs`, `catalog.rs`, `hand_rolled.rs` | users, CAs, permissions, roles and grants in AXIAM; `tenant-admin-<slug>.json`, `<slug>-ca.pem` | `run` of each stage, `provision_tenant_admin`, `validate`, `to_manifest` |
| Host PKI | `scripts/gen-pki.sh`, `just/pki.just`, `just/stack.just` | root, guard, leaves, exported trust, the leaves the servers run with | `pki`, `export-trust`, `pki-rotate-root`, the certificate steps of `up` |
| Probe matrix | `tools/domo-probe/src/matrix.rs`, `cases.rs`, `fixtures.rs` | the verdicts of a run | `run`, `run_expired`, `attempt_connect`, `classify`, `satisfies` |
| Image builds, host recipes, guards | `just/*.just`, `scripts/*.sh` | `dist/.images.lock`, none otherwise | build, checks |

`PROJECT.json` lists every component, the parts that are not modelled included.

### How they interact

* **A broker asks the Twin.** A device connects to RabbitMQ with a token; the
  broker POSTs `user`, then `vhost`, `resource` and `topic` for what the
  connection does. The handlers share the session cache and the registry; the
  only suspension point inside a handler is the `await` on the verifier
  (`rmq.rs:123`), which may fetch keys over HTTP without a timeout.
* **The bootstrap feeds the Twin.** `stages/tenants.rs` rewrites `tenants.json`
  in place on a shared volume; the registry re-reads it when an unknown tenant
  turns up and the modification time has moved.
* **`up` drives the bootstrap.** Each stage leaves a marker; a later `up` skips a
  stage when its marker is there and a read-only probe agrees. `demo-reset` takes
  volumes, markers and material away, in this order, and calls `up`.
* **The smoke suite runs against what is there.** Each of its recipes runs alone or
  composed, builds or resolves the branch, and passes its results on in files.
* **The host's root anchors the rest.** `gen-pki.sh` makes the root and the servers' leaves;
  `stages/pki.rs` imports the root into AXIAM and has a signing CA made beneath it for each
  tenant; `service_certs` and `smoke/certs.rs` have leaves signed by these. A rotation
  replaces the root and nothing that rests on it.
* **The matrix judges the whole chain.** It connects to the broker as a device would, and
  reads from the layer that refused whether the links of the chain are in force.
* **The bootstrap and `domo-probe` share a directory.** Account ids, keys,
  requests and leaves are files one process writes and another finds.

### What is hard here

Handlers interleave around an `await` and around locks that are dropped between
two reads; a cache entry outlives the request that made it; a file is rewritten
under its reader; the broker gives a call up while its handler goes on; a process
dies between any two effects and the next one judges by what it finds; the setup
token can be used once and lives in a container's log; clock skew is allowed for
in one place and must agree with another. `PROJECT.json` lists these under
`hazards`, each at its line, with the properties that watch it.

### What makes each component correct

* **Topics**: no key is two devices'; a pattern a device may bind reaches nobody
  else's topics; a translated filter selects what the MQTT filter did.
* **Twin**: every session and every `allow` rests on a token that was verified
  for that user and tenant and has not run out; nothing else writes the cache;
  a good device is admitted without a restart, unless the registry is stale for good.
* **Registry**: the map it holds is one that was published, and the file's once nobody
  disturbs it; refused lookups cannot make it read the file without bound.
* **Stage runner**: `done` means the work is there; whatever is interrupted, a
  run, or a reset if that is what is asked for, gets done; the organization can
  be signed in to.
* **Issuance**: one live matching identity per account; a certificate nobody can find again is
  owed to a run that was cut short.
* **Tree**: no name stands for two siblings unless two runs overlapped; every
  group's role is bound on its resource; nothing points to what is gone.
* **Provisioning**: the administrator that exists has the password on disk; a tenant has one
  signing CA, beneath a root that is anchored; a catalog is in force after a run.
* **Host PKI**: key and certificate of the root are one root's; a complete root goes by rotation
  only; issuing that ends well leaves every leaf a pair beneath it.
* **Matrix**: it passes only if each link its cases tell of is in force (of ownership the code does
  not keep this: `PassMeansOwned`, section 3), and fails only if
  something is wrong.
* **Smoke suite**: a part's verdict is about this run, whatever earlier runs left; what
  the suite makes, the teardown takes away.

## 2. The modules

| Module | Models | Kind |
|---|---|---|
| `RoutingKey` | `topic.rs`, and the broker's matching of keys and filters | operators |
| `MCRoutingKey` | grows a filter and a topic level by level, so that a run visits every pair; the broker's match with `#` anywhere, as the reference | model checking |
| `Decide` | `decide.rs` and `forms.rs`: pure decisions over requests, tokens and sessions | operators |
| `DeviceTwin` | the four handlers, the registry's lookups inside them, the cache, the map file and its writer, time, restart, the broker's timeout | specification |
| `TwinAuthority` | what the Twin promises: an answer is `allow` only on evidence | abstract specification |
| `MCDeviceTwin` | two tenants, two devices, and the tokens and forms worth asking with; the cheaper set of the liveness run | model checking |
| `DeviceTwin_proofs` | ownership, confinement and translation for keys of any length, the three properties of `MCRoutingKey` included; type correctness, evidence, topic privacy, the cache, that `TwinAuthority` is implemented | proofs |
| `TenantRegistry` | `slug()` and `new()` alone, split at their locks and file accesses, with a count of the re-reads | specification |
| `MCTenantRegistry` | two tenants, two requests | model checking |
| `TenantRegistry_proofs` | type correctness, that a calm registry is current, the bound on re-reads | proofs |
| `StageRunner` | `up`, `down`, `demo-reset` and the ten stages | specification |
| `StageRunner_proofs` | that saved credentials survive; type correctness, and that `done` means done | proofs |
| `Issuance` | account, key, request, certificate, binding, leaf | specification |
| `Issuance_proofs` | type correctness, that what is issued is bound and whole, and that no leaf is unaccounted for | proofs |
| `Tree` | `tree.rs` and the branch of `smoke.rs`, with the teardown of both: two runs, call by call | specification |
| `MCTree` | a portfolio, a site with two groups, a common area below it | model checking |
| `Tree_proofs` | type correctness, that nothing dangles, is ambiguous or left out | proofs |
| `Smoke` | the recipes of `smoke.just`: account, keys, membership cases, experiment, matrix, teardown | specification |
| `Matrix` | `matrix.rs`, `cases.rs`, `fixtures.rs`: every case of the connect matrix, event by event | specification |
| `Matrix_proofs` | of `Matrix`: type correctness, what a pass vouches for and what a failure owes itself to; of `Smoke`: all five properties of its run, and that `Matrix` starts from what it leaves | proofs |
| `Provision` | `tenants.rs`, `tenant_admin.rs`, `stages/pki.rs`, both `catalog.rs`, `hand_rolled.rs`: runs that overlap | specification |
| `MCProvision` | one demo tenant beside AXIAM's own, two runs, three catalogs | model checking |
| `Provision_proofs` | type correctness, that every signing CA is beneath an anchor, and what a run alone and a run at its end leave | proofs |
| `Pki` | `gen-pki.sh`, `pki.just`, and `up`'s stages that use the certificates | specification |
| `MCPki` | three of the listeners | model checking |
| `Pki_proofs` | type correctness, the root and the chain, for any listeners, rotations and interruptions | proofs |

A stage of `StageRunner` is a sequence of atomic parts; `Issuance` and
`TenantRegistry` open up the parts whose insides matter (the keys and certificates
of `service-certs`; the two halves of rewriting the map). `DeviceTwin` has the steps of
`TenantRegistry` inside its handlers, in the same order; the latter adds the count of re-reads and
what a calm registry is, which no handler is needed for. `Smoke` takes the
branch as two steps, which `Tree` splits into its calls. `Pki` opens up the stages `pki`,
`axiam-up` and `platform-up` of `StageRunner`, and `Provision` the insides of `tenants`, `pki`,
`tenant-admin` and `catalog`. `Matrix` reads the files `Smoke` leaves, and asks of the broker and
the Twin what `Decide` and `DeviceTwin` say of a chain in force. `Smoke` and `MCRoutingKey` have names of their
own throughout (`smoke`, `KeySpec`), because a module that proves about them extends them beside another specification.

### State and actions against the code

**`DeviceTwin`.** `req[r]` is a request of the broker: `Idle`, at a stage of a CONNECT, a check that has looked at its
session, or answered. A CONNECT asks the registry three times, and `call[r]` says where it is inside `slug()`:
for the gate `knows()` (stage `known`), for `verifier()` (`routing`), and for the session's slug (`naming`).
`Look`, `Stat`, `Compare`, `Load`, `SaveMap` and `SaveTime` are `slug()` at its locks and file accesses, and `Answered` is what the
handler does with the answer. `VerifyAccepts` and `VerifyRejects` are the verifier's, after the `await`; `JudgeSubject` and
`FinishConnect` what follows, up to the cache write. A vhost, resource or topic check is `BeginCheck` and
`FinishCheck`, so that it may see a cache another request changes. `Abandon` is the broker's timeout: the handler is dropped, or
goes on unheard. `Truncate`, `Fill` and `WriterDies` are the bootstrap's rewrite of the map in place. `Restart` empties the cache,
drops what was in flight and loads the map; `Listens` then notes the file's modification time and warms the
verifiers. Between the two the file may change, so that map and time need not belong together.

**`TenantRegistry`.** A request's program counter stands at the lock or file
access it takes next: miss, stat, compare, load, save the map, save the time. The
writer truncates, fills, and may die in between. Time ticks between writes; two
writes in one tick have one modification time, except that separate publications
are taken to be at least one tick apart.

**`StageRunner`.** `place` holds the parts that are in place, and `KeptOn` says
which volume takes which of them away. `run` is the command that is running,
with the stage, the part and `DOMO_FAIL_AT`. `Check` is the loop head of `up`: the
host's hook, the skip rule with its probe, and the probe's own side effect, that
it mints and saves credentials when none are there. `Interrupt` may cut any step
off; `TearCreds` cuts a write between truncation and filling.

**`Issuance`.** Keys and accounts are numbered as they are made, and `0` is none.
A certificate is the key it is for and the account it is bound to. A device's key, its request and the note of
its account are three files, written one after the other. `run.at` is the
step to be taken; `CutShort` ends a run or reset anywhere.

**`Tree`.** `runs[r].at` is the call a run makes next: resolve the portfolio (the
smoke branch only), list a node's siblings, create it, search a group, make it, assign its
role. Resource names are not unique in AXIAM and group names are, so that a second
creation of a resource succeeds and one of a group is refused. `sweep` is the
teardown, which is not run beside the others. `overlapped` remembers whether two
runs ever were under way at once.

**`Smoke`.** `smoke.at` is the step taken next, and `smoke.last` the part a recipe
ends with. Whether AXIAM signs for another tenant's authority is not known to the
code and is fixed in the initial state (`accepts`). An experiment is answered or
lost, and a lost one may have been signed or not. Key, request and account note of the probe are three writes.
`smoke.wrong` is the report of the membership cases: a decision on the peer device is compared with what the case
expects, and rests on memberships, group and binding that earlier cases and earlier runs have left.

**`Matrix`.** `stack.missing` are the links that are out of force, from the start on; the
rest of `stack` is what is on disk and how long AXIAM's tokens live. `run` is the case
and the event it waits for: `TlsAlert`, `RefuseIdentity`, `RefuseToken`, `Accept`, `SubAck`,
`Echo`, `ClosePublish` and `NoEcho` are what a broker with these links does, and `Conclude` is
`satisfies` with the count. `Drop`, `Silence` and `TwinAway` disturb an attempt.

**`Provision`.** `run[r].at` is the call a run makes next, `plan` the stages of its command in a row
(`stage-run tenants` is three), `todo` the tenants left of the one it is in. What a run remembers
from an earlier call is in its record: the password it read or minted, the CA, what is left
of the manifest. `crowded` remembers whether two runs were ever under way at once. A file is
truncated in `Mint` and filled in `Fill`; `Cut` between the two leaves it torn. `cas` counts a tenant's signing CAs and
`beneath` has the roots they were made beneath, of which a rotation makes more than one.

**`Pki`.** A root is known by its number, so that a certificate's issuer is one too. `cmd` is the
command under way and its next file operation. `Remove` is `rm -rf`, file by file in no
order. `serving` is what a running server answers beneath, which a new file does not change: only a start does, in `Compose` for
a server that is down, and in `Recreate` for one whose image is stale (`_containers-fresh`), which gets what the volume holds.
`AuthzVerify` then asks AXIAM beneath the root on disk, or fails for a reason of its own.

## 3. The runs

| Run | Question | Distinct states |
|---|---|---|
| `routing_keys` | Do ownership and translation hold of every filter and topic up to five levels? | 341,056 |
| `device_twin` | Is every session, snapshot and answer backed, and is `TwinAuthority` implemented? | 1,891,918 |
| `device_twin_live` | Is a good device admitted again and again without a restart, unless the registry is stale for good? | 43,389 |
| `tenant_registry` | Is a calm registry current, and are re-reads bounded? | 1,090,083 |
| `registry_stale` | May a registry stay stale? It may. | violated |
| `stage_runner` | After any interruption, does `done` mean done, with one leaf and no lock-out, and does `up` get there again? | 116,766 |
| `identities` | Is what a run leaves one bound, matching identity, and is every other certificate accounted for? | 29,905 |
| `tree` | Is the tree unambiguous, bound and free of dangling references? | 120,472 |
| `smoke` | Do the cases go wrong only after a run that was cut short, is the matrix about this run, is the forged leaf in hand, is the teardown complete? | 2,088,470 |
| `matrix` | Does a pass mean that the chain is in force, and a failure that something is wrong? | 172,111 |
| `provision` | Can the administrators sign in, is there one signing CA beneath an anchored root, is the catalog in force? | 4,550,372 |
| `pki` | Is the root on disk one root's, kept, and every leaf chained to it? | 386,271 |

What the properties say, and why each is worth a run, stands above its definition.

### Bounds, and why they are enough

* `routing_keys`: names include the topic root and each other, so that a slug may
  equal a device, and one level contains the other side's separator (`a.b`). A
  prefix has three levels and `MaxGrowth = 2` more reach past it on both sides of
  every wildcard.
* `device_twin`: two requests at a time are enough for every race between two
  handlers; two tenants and two accounts for every mix-up of whose; tokens that are good, of another
  tenant, expiring at 0 and at 1, and of a user. With `Skew = 1`, `MaxClock = 1` contains the second at which the
  first of them has run out and is still within the allowance, where verifier and cache must differ.
  `MaxWrites = 1` is one rewrite of the file under the lookups; a reload that read it truncated may save that after
  one that read it whole, so a tenant that was known can go again. The two requests are symmetric.
* `device_twin_live`: one request, for a device's CONNECTs follow one another; `MaxClock = 2` is the end of
  the allowance of its tokens, and three rewrites leave a stale map, a good one and one more.
* `tenant_registry`: two requests, a writer and four ticks: a laggard that saves
  an old map after a newer one and its time.
* `stage_runner`: four faults, which is one more than the longest
  counterexample found in this module needs. `MaxLeaves = 2` tells none, one and
  more than one apart.
* `tree`: two runs and three nodes in a line, one of them with two groups, contain every
  race of two calls and every order of parent, child, group and binding; six
  resources let both runs build the line twice; two runs may be cut short.
* `smoke`: four accounts, keys and forged certificates, and two faults: one fault
  leaves a state behind and the other falls into the run that meets it.
  `Exhausted`, in these modules and in `Issuance`, ends a run that would make more than the bound.
* `identities`: three keys, three accounts, four certificates and three faults, which is what it takes for a
  device's key to be newer than its request; the counterexample of `DeviceSignsOnce` (below) fits.
* `matrix`: up to two links out of force, for what one missing link hides another's case might tell
  or not; one disturbed attempt; lifetimes below, at and above AXIAM's default of 900 seconds.
  The expired suite is a list of its own.
* `provision`: tenants share nothing but the organization's roots, so one demo tenant is every tenant, beside
  AXIAM's own; two runs contain every race of two calls; one run cut, with as many runs before
  and after it as one likes; two roots, for one rotation; three catalogs, of which the second
  drops a grant the first applied and the third is refused.
* `pki`: three listeners: the one AXIAM answers with, one that starts with it, and the edge's, which does not; three roots
  are two rotations; two commands cut, so that the second falls into the repair of the first.

### Fairness

* `device_twin_live`: actix runs every handler to its end (weak fairness of the
  handlers' steps), the verifier answers, the device keeps asking, and the broker
  does not give every single call up (strong fairness of a token's verification). A Twin that starts comes to listen. Nothing is
  assumed of the writer or of restarts: the property speaks of behaviours in which, from some time on, the Twin stays up and the
  map names the tenant.
* `stage_runner`: a command that runs takes its next step (`WF(Proceed)`);
  the operator runs `up` again, or `demo-reset` after a failure (`SF`, for an
  operator may be interrupted but does not give up for good). Faults are finite
  by `MaxFaults`. A `super-admin.json` torn in the middle of its writing is the one
  excuse of `Converges`: no later run writes it and no reset removes it. Nothing is assumed of the order in which Docker lists volumes.

### What does not hold

The run `registry_stale` (`tenants.rs:49-50`): the registry loads the map and then reads
the modification time; the writer fills the file in between. A lookup that reloads can come to the same: it reads the
truncated file under the time the finished one keeps. `GoodDevicesAdmitted` therefore excuses a registry that is
`Stale` for good, and nothing else; nor is it part of `EvidenceBacked` that map and time belong together.

More such behaviours are stated in the modules and are no runs of their own. To see
them, give the named configuration the named property alone.

| Property | Configuration | What happens |
|---|---|---|
| `DoneMeansMapped` | `StageRunner.cfg` | a reset cut after the Twin's state volume is gone leaves markers and probes that skip the tenants stage, so the map is never written again (`stack.just:699-709`), against "survives interruption" (`stack.just:661-664`) |
| `DeviceSignsOnce` | `Issuance.cfg` | `find` takes the first bound certificate and `filter` compares its key: once an older key's comes first, every re-run signs another (`device_identity.rs:164-173`), against lines 159-160 |
| `UnansweredFails` | `Smoke.cfg` | every error of the experiment's call becomes `accepted: false` (`smoke/certs.rs:188-197`), which is what the matrix wants to read, against `matrix.rs:195-196` |
| `PassMeansOwned` | `Matrix.cfg` | silence satisfies `PublishRefused` (`matrix.rs:101`), and a publish that is accepted in another's namespace is not echoed: the ownership cases pass with the Twin's check out of force, against `cases.rs:105` |
| `CardNamesRoot` | `MCPki.cfg` | after a rotation (which exports nothing) and `down`, an `up` fails waiting for the edge beneath the old exported root, and the next skips that stage by its old marker; the card names the exported fingerprint, the old root's (`stack.just:641-653`), against lines 643-646 |
| `DoneMeansCatalogued` | `StageRunner.cfg` | the catalog's probe takes a failed listing of the tenants for an empty one (`state.rs:356-373`), against `state.rs:17-19` |
| `RefusedMeansSpent` | `StageRunner.cfg` | `just down` before the token is captured loses it with the container's log (`stack.just:174-185`); `reset required` is then said of a gate that is open (`org_bootstrap.rs:82-87`) |
| `VerifiedMeansBound` | `MCTree.cfg` | a run cut short between group and binding satisfies `verify`, which looks for the group alone (`tree.rs:342-361`) |
| `CAsFollowRoot` | `MCProvision.cfg` | a run after a rotation keeps the first signing CA it finds of a tenant, whichever root it is beneath (`stages/pki.rs:134`), and `verify` counts them only (`stages/pki.rs:180-188`), against `pki.just:301-302` |
| `CasesRestore` | `Smoke.cfg` | the grant case returns at a failing call with its group bound, and every later run fails at the binding (`assertions.rs:365-378`), against `assertions.rs:21` |

Without `faults > 2`, `HalvesAgree` fails of a device: a reset that cannot remove AXIAM's volume and is cut after the key is gone,
and a `gen_csr` that dies between its first two writes, leave a new key beside an older request that is noted as made for the same
account (`domo-probe main.rs:158-184`), and the certificate is for the request. `ForgeriesInHand` has the same excuse, of two
faults, for the smoke suite's keys (`main.rs:105-129`), where a teardown removes the key. A certificate signed by a run that died
before it was bound is found by nobody again, and its key is signed for once more; `LeavesOwed` counts those. In `Provision`,
without `~crowded`, `AloneKept` and
`DoneMeansReady` fail: two runs that overlap can mint a password each and create the user with
the one that is overwritten on disk, or each find no signing CA and make one. In `StageRunner`'s `Check` the skip rule
precedes the container's gate, so `DOMO_FAIL_AT` naming a stage that is done aborts nothing. And `Matrix` excuses an attempt that was
disturbed from both of its properties: a dropped connection satisfies the case without a certificate, and an absent Twin
those that expect a refusal by it.

## 4. The proofs

All proofs are checked by `tlapm`, with no assumption but the `ASSUME`s of the
modules, and TLC evaluates every one of those on the runs. They say which sets the constants
are, that bounds are numbers, that reserved words and wildcards are not names, that slugs and device ids are names (`KeyAssumption`: slugs are validated, ids are UUIDs, `topic.rs:107-110`), and that the marks
for "none" (`None`, `Nothing`, `Torn`, `Unreadable`) are not among the values they stand beside. Beyond that:
the Twin's registry has finitely many workers, at least one (`RegistryAssumption`); the tree's plan lists
a parent before its children and each node once, as the fixtures of `tree.rs` do (`TreeAssumption`);
the listeners of the PKI are distinct (`PkiAssumption`). Numbers of tenants, devices,
tokens, requests, runs, faults and resets are not bounded by any of them: the bounds of the
models appear as arbitrary numbers.

* **`DeviceTwin_proofs`**, on keys: `OwnershipUnique` (no key is two devices'),
  `OwnedPatternConfined` (an owned pattern matches only below its device),
  `SubscriptionsDisjoint` (from the first two), `TranslatedIsOwned` (what
  translates from a device's own topic is owned), `TranslationInjective` (no two topics become
  one key), for sequences of any length.
* **`DeviceTwin_proofs`**, on `MCRoutingKey`: `CrossDeliveryNever`, `PatternsConfined`, `TranslationKeepsMeaning`, its
  three invariants for any names, filters and topics. The last two speak of `Walk`, the match with `#` at any place, as a table filled
  level by level. `WalkIsMatches` shows that where the only `#` is the last level, `Walk` is the
  level-by-level `Matches` of `RoutingKey`: the table exists for any number of levels (`RowsExist`), and before the `#` each
  row holds at one length only (`PlainRows`). Both are inductions over the levels. They rest on
  `SetInduction`, induction for a *set* of numbers, from the least element of what the set lacks
  (`LeastNat`); the library's own induction theorem takes an operator and cannot be used.
* **`DeviceTwin_proofs`**, on the Twin: `TypeCorrect`; `EvidenceKept`, that every session, every snapshot
  and what the registry holds is backed (`EvidenceBacked`); `TopicsStayPrivate`, that no two
  devices are ever allowed the same topic. `SessionsBacked` is not inductive as it
  stands: `FinishConnect` writes the cache from what a request read before the
  `await`, so the invariant needs `SlotsBacked`, what a request in flight knows,
  and that needs `RegistryBacked`, of the registry and of each lookup between its reading of the file and its
  last write: that they hold a published map. It does not say which, for map and time can be of two files. Their conjunction with
  `TypeOK` is `Inv`, proved
  action by action. Topic privacy follows from it and `OwnershipUnique`. `CacheGuarded` is the action property
  that a refused CONNECT leaves the cache alone. `AuthorityKept` is the refinement: each
  step of the Twin, under the invariant, is one of `TwinAuthority`'s under the mapping of
  `DeviceTwin`, or changes nothing the broker can tell.
* **`TenantRegistry_proofs`**: `TypeCorrect`; `CalmCurrent`; `ReloadsWithin`. That a calm registry
  is current needs `Ordered` (times do not run backwards: remembered, noted, the file's, now) and
  `CalmKept`: in a calm life one request reloads at a time, and the file stands still while it does. The bound on
  re-reads is a counting argument. With `n` requests, `Laggards` are those that carry an older time
  and can put it back; each time the remembered time is moved back every other request may
  decide on a reload once more, so that `Budget` allows `n * n` in all and each laggard that is left
  withholds `n - 1`. `Within` says so for the file's time before and after it is remembered,
  and for the times that are past. It holds for any cap `MaxReloads` on the counter, so a cap cannot
  be what makes it true.
* **`StageRunner_proofs`**: `CredentialsSurvive`. `NeverLockedOut` (the organization
  exists only when its credentials are whole on disk) needs to know where in its
  work a stage is: `CredsFirst` says that past the part that saves credentials they
  are whole, and `RunOK` what `run` may look like. `TypeCorrect`, and `ProbedWhenDone`: the invariant is
  `Solid`, that whatever a run is past of is in place, part by part. A skipped stage adds to it by its probe, and where
  the probe is blind (the keypairs of `service-certs` are not asked for) by what `Marked` says of the marker.
  `Marked` holds across resets because the keys go after the markers, never before. A keypair
  that is renewed takes back that a certificate is for it, and does so before the
  run is past its certificates; a certificate that is signed changes their count before `verify` has taken it.
* **`Issuance_proofs`**: `TypeCorrect`, `BoundWhenDone`, `LeavesAccountedFor` (`LeavesOwed`), `HalvesOfOne` (`HalvesAgree`). The invariant
  follows a run from the account to the file: `Published` (the file names the account there is),
  `RequestReady` (what is to be signed is there), `Chose` (the certificate a run goes on with is of the
  key asked for, and bound before it is written), `NothingToReuse` (a service's key goes to be signed only if no
  bound certificate has it). That no two bound certificates of a service have one key follows from the last; `Traced` says what a run that
  has signed may find bound. For the halves, `Dated` orders accounts by their age and `DeviceParts` says of each way a device's key and
  request can differ how many faults it has cost by then.
* **`Tree_proofs`**: `TypeCorrect`, `NothingDanglesEver`, `UnambiguousAlone`, `BuiltWhenDone`. `NothingDangles`
  holds of runs that overlap, because a run's own path is there under it (`RunsSound`) and the teardown is not run beside
  others, and takes groups before resources (`SweepAlone`). Unambiguity needs `OneOfEach`: without overlap,
  a name that a search did not find is still free at the call that makes it. What a run has been through is in `RunsSound`
  too, and gives `BuiltWhenDone` at the end.
* **`Provision_proofs`**: `TypeCorrect`, `TrustedCAs` (`CAsTrusted`), `KeptAlone`, `ReadyWhenDone`. In three
  layers. `Core` is what holds whatever overlaps: where in its plan a run can be (`Placed`), and that
  what it found or made in AXIAM is still there (`Rooted`), which `TrustedCAs` rests on: a run that gets to make a CA has the
  anchor of the root on disk behind it. `Alone` adds, unless runs ever overlapped, that between
  a look and the call that rests on it nothing has changed: `AloneKept` is not inductive without
  it, since `Generate` rests on the count of CAs an earlier call saw. `Progress` says of each tenant that a run is through with, stage by
  stage, that it is `Good`; with `NoWildcard` (no catalog with a wildcard is ever applied) that gives `DoneMeansReady`.
  `Placed` and `Rooted` speak of a command's stages by their number in its plan, for a plan may name three.
* **`Pki_proofs`**: `TypeCorrect`, `OneRootCorrect`, `RootKeptCorrect`, `ChainedCorrect`. One root at a time is
  inductive as it stands. `RootKept` needs `Signing`: a command past the generation of the root has a
  key and signs with it, so no step that writes the root runs while one is complete. `DoneMeansChained`
  needs `Issuing`, that all leaves before the current one are chained already, for which the listeners must
  be distinct, and `Answering`, that once verified AXIAM answers beneath the root on disk.
* **`Matrix_proofs`**: `TypeCorrect`, `EnforcedWhenPassed`, `FaultWhenFailed`, for any set of links out of force, where
  the run has two at most. `Judged` ties the two sets of names to the cases before the one a run is in; `Told` is what a pass
  may not be (a case that tells of a missing link passes only if it was disturbed), `Blamed` what a failure must
  be. Both come down to one lemma on the end of a case (`ConcludeKeeps`), whose premises each action
  discharges from the row of the table its case is; `Reached` carries what did not refuse an attempt on to its
  echo.
* **`Matrix_proofs`**, on the smoke suite: `SmokeTypeCorrect`, `VerdictsAccounted` (`VerdictsOwed`),
  `ForgeriesCounted` (`ForgeriesInHand`), `RefusedWhenPassed` (`PassMeansRefused`), `NothingLeft` (`TeardownComplete`), for any
  number of accounts, keys, faults and runs. For the verdicts, `GrantAt` says what the
  grant group is at each step of its case without a fault, and that it is there at no other. The last three are not inductive, for each speaks of what one recipe finds
  after others were cut short. `InPart` says where a recipe can be and what it is for; `Paired` that no leaf is there if
  AXIAM refuses, and that the leaf a run goes on with is of the key on disk; `Recorded` and `AnswerTrue` that the outcome on disk is
  what this run read of an answer that is AXIAM's; `Owed` is the count:
  the forged leaves that no file accounts for are no more than the faults, since a leaf goes
  astray only with a lost answer or a run that is cut; `Gone` that past each step of the teardown what it removes is not there.
* **`Matrix_proofs`**, on the seam: `MatrixStartsAsLeft`. When the suite comes to its matrix, outcome and leaf on disk are as
  `Matrix`'s initial states have them (`AsLeft`), so what `Matrix` shows covers, as far as these two
  files go, every matrix the suite gets to; and a leaf of another key is there only beside an experiment that was not answered, or after two faults. (Not shown: that `Smoke`
  reaches each of these states.)

Every invariant and action property of the passing runs is stated by a theorem. Only model-checked: liveness (`Converges`,
and that a good device is admitted again), for fairness and `ENABLED` are out of the prover's reach, and the violation
run. Recursive operators are too: no module has one, `Walk` is a recursive function.

## 5. What is abstracted

* Tokens, names and levels are members of small sets; a verifier is a predicate on
  a token, for cryptography is not in question.
* A volume, a container and a stage's parts are atomic; the reset's `for` loop may
  remove volumes in any order, for `compose config --volumes` promises none; a
  failing `down` is passed over, as in the code. The guard against a missing `.env`
  is left out: the file is there.
* `demo-reset` ends in an `up` with `DOMO_FAIL_AT` unset.
* `Issuance` writes its files whole. The torn write is in `StageRunner`.
* `Smoke` has one account, the probe's, of the three; the cases of `smoke-authz` that
  only read are left out; the matrix' connect cases are `Matrix`'s. `smoke-certs` issues the
  fixtures' own certificates as `Issuance` describes before it comes to the experiment.
* `Tree` leaves out a resource's metadata and tenant, and the groups of devices that
  `smoke.rs` makes with the accounts.
* `Matrix`: the broker, AXIAM and the Twin do what links in force make them do; a certificate without
  a subject may be let pass or refused. Which file a fixture is read from, and the MQTT encoding,
  are left out.
* `DeviceTwin` reads the clock where a handler does; file times are counted in steps of the writer.
* `Provision`: tenants are gone through in any order; importing what is imported changes nothing; the
  super-administrator signs in (`StageRunner`'s matter); a create that is refused because another
  run was first ends the run; names and descriptions of a catalog's items are left out, and so are
  duplicates. The catalog is not edited while a run is under way. Markers and probes are `StageRunner`'s.
  By hand, roles are made and deleted, and only while no run is under way.
* `Pki`: one command at a time, for an operator types one; certificates do not run out. Which images are stale is not known, so
  that `verify` may make any running server anew; of `authz-verify` only what it asks of AXIAM's certificate is kept.
  The refusal of a half made root is deliberate in the code, and `Repair` is what its message asks for.
* AXIAM's calls are atomic, and may fail before or, where it matters
  (`BootstrapUnheard`), after their effect.

## 6. Plan

The order is by how much rests on a part. Done in this state of the project:
`RoutingKey`, `Decide`, `DeviceTwin` with `TwinAuthority`, `TenantRegistry`,
`StageRunner`, `Issuance`, `Tree`, `Smoke`, `Matrix`, `Provision`, `Pki`.

Not modelled, and why: the image build's lock (`stack.just:236-308`), one directory and a trap; the
broker stage, which checks that files are there; `naming.rs` and the checklist, pure
functions and wording; client construction, host recipes and deployment files, which keep no state.
The fixtures of `smoke/certs.rs:75-138` follow `Issuance` and are not a module of their own.
The Twin's listener and health endpoint are I/O without state.

What is left to prove is what section 4 says only runs show. The steps of `StageRunner` that `Issuance`, `Provision` and `Pki`
split stand for them by the reading given in section 2: no theorem relates the two.
