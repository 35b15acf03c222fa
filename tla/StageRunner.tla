---------------------------- MODULE StageRunner -----------------------------
(***************************************************************************)
(* `just up' and `just demo-reset' (just/stack.just) over the stages of    *)
(* domo-bootstrap (tools/domo-bootstrap/src/state.rs and stages/): which   *)
(* work is redone, which is skipped, and what a run that was interrupted   *)
(* anywhere leaves to the next one.  A stage's work is the sequence of     *)
(* parts it puts in place, each one atomic; each part lives on a Docker    *)
(* volume, in the running containers or in the host's .secrets tree.       *)
(***************************************************************************)
EXTENDS Naturals, Sequences

CONSTANTS
  None,
  FailAts,     \* values of DOMO_FAIL_AT an operator uses; None: unset
  MaxFaults,   \* bound on crashes, failing calls, spurious probes, ...
  TornWrites,  \* may a process die between truncating and filling a file?
  ListsFail,   \* may listing the tenants fail just after a login succeeded?
  MaxLeaves    \* bound on the certificates counted

ASSUME RunnerAssumption ==
  /\ None \in FailAts
  /\ MaxFaults \in Nat /\ TornWrites \in BOOLEAN /\ ListsFail \in BOOLEAN
  /\ MaxLeaves \in Nat /\ MaxLeaves >= 2

\* Stage::ALL, and what `up' says of each.
Stages == <<"preflight", "pki", "axiam-up", "org-bootstrap", "tenants", "catalog",
            "service-certs", "broker", "platform-up", "verify">>
HostOwned == {"preflight", "pki", "axiam-up", "platform-up", "verify"}
StageNames == {Stages[k] : k \in 1..Len(Stages)}
Resumable == StageNames \ {"preflight", "verify"}

\* The parts of a stage's work, in the order the code puts them in place.
\* "truncate" and "map" are the two halves of rewriting tenants.json.
OrgWorkMutant == <<"token", "gate", "org", "creds">>   \* persisted after their use
OrgWork == <<"token", "gate", "creds", "org">>

Work(stage) ==
  CASE stage = "preflight"     -> << >>
    [] stage = "pki"           -> <<"pki">>
    [] stage = "axiam-up"      -> <<"axiam">>
    [] stage = "org-bootstrap" -> OrgWork
    [] stage = "tenants"       -> <<"gate", "tenants", "admins", "truncate", "map",
                                    "anchor", "cas", "caPems">>
    [] stage = "catalog"       -> <<"gate", "catalog">>
    [] stage = "service-certs" -> <<"gate", "keys", "certs", "tree">>
    [] stage = "broker"        -> <<"gate", "vhost">>
    [] stage = "platform-up"   -> <<"edge">>
    [] stage = "verify"        -> <<"verified">>

Parts == {"pki", "axiam", "tenants", "admins", "map", "anchor", "cas", "caPems",
          "catalog", "keys", "bound", "tree", "vhost", "edge"}

\* Where the parts a reset takes away are kept.
Volumes == {"surrealdb-data", "rabbitmq-data", "twin-state"}
KeptOn(volume) ==
  CASE volume = "surrealdb-data" ->
         {"tenants", "admins", "anchor", "cas", "catalog", "bound", "tree"}
    [] volume = "rabbitmq-data" -> {"vhost"}
    [] volume = "twin-state"    -> {"map"}
Containers == {"axiam", "edge"}
Material == {"caPems", "keys"}     \* issued beneath a CA a reset destroys

VARIABLES
  place,    \* parts in place
  gate,     \* AXIAM's setup gate: "none" (no volume), "open", or "spent" by
            \* the creation of the organization and its super-admin
  logged,   \* the one-time token is in the log of the AXIAM container
  saved,    \* .secrets/state/setup-token: None, this volume's, or an older one's
  creds,    \* .secrets/axiam/super-admin.json: "absent", "torn" or "whole"
  leaves,   \* active certificates bound to a service account
  markers,  \* .secrets/state/<stage>
  run,      \* the command that runs, or how the last one ended
  faults    \* faults so far

world == <<place, gate, logged, saved, creds, leaves>>
vars == <<world, markers, run, faults>>

-----------------------------------------------------------------------------
Ended == {"idle", "done", "failed", "refused"}
AtEnd == [at : Ended, failAt : FailAts]
InUp == [at : {"check", "mark"}, stage : 1..Len(Stages), failAt : FailAts]
InWork == [at : {"work"}, stage : 1..Len(Stages), part : 1..8, failAt : FailAts]
InReset == [at : {"volumes"}, left : SUBSET Volumes] \cup [at : {"material"}]

TypeOK ==
  /\ place \subseteq Parts
  /\ gate \in {"none", "open", "spent"} /\ logged \in BOOLEAN
  /\ saved \in {None, "current", "stale"}
  /\ creds \in {"absent", "torn", "whole"}
  /\ leaves \in 0..MaxLeaves
  /\ markers \subseteq StageNames
  /\ run \in AtEnd \cup InUp \cup InWork \cup InReset
  /\ faults \in 0..MaxFaults

Init ==
  /\ place = {} /\ gate = "none" /\ logged = FALSE
  /\ saved = None /\ creds = "absent" /\ leaves = 0
  /\ markers = {}
  /\ run = [at |-> "idle", failAt |-> None]
  /\ faults = 0

Resetting == run.at \in {"volumes", "material"}
End(how) == [at |-> how, failAt |-> IF Resetting THEN None ELSE run.failAt]

Fault == faults < MaxFaults /\ faults' = faults + 1

-----------------------------------------------------------------------------
(***************************************************************************)
(* What a probe asks (state.rs probe, and the host's in stack.just).  It   *)
(* does not look at the Twin's tenant map, at the imported root, or at     *)
(* what is kept under .secrets/axiam.                                      *)
(***************************************************************************)
SignsIn == "axiam" \in place /\ gate = "spent" /\ creds = "whole"

Probe(stage) ==
  CASE stage = "pki"           -> "pki" \in place
    [] stage = "axiam-up"      -> "axiam" \in place
    [] stage = "org-bootstrap" -> SignsIn
    [] stage = "tenants"       -> SignsIn /\ {"tenants", "admins", "cas"} \subseteq place
    [] stage = "catalog"       -> SignsIn /\ "catalog" \in place
    [] stage = "service-certs" -> SignsIn /\ leaves = 1 /\ "tree" \in place
    [] stage = "broker"        -> {"axiam", "vhost"} \subseteq place
    [] stage = "platform-up"   -> "edge" \in place

\* Signing in reads the saved credentials, or mints and persists a first set.
Credentialed(stage) == stage \in {"org-bootstrap", "tenants", "catalog", "service-certs"}
Minted(stage) == IF Credentialed(stage) /\ creds = "absent" THEN "whole" ELSE creds

Current == Stages[run.stage]

Begin(k) ==
  IF Work(Stages[k]) = << >>
  THEN [at |-> "mark", stage |-> k, failAt |-> run.failAt]
  ELSE [at |-> "work", stage |-> k, part |-> 1, failAt |-> run.failAt]

AfterMutant(k) ==      \* one stage too far
  IF k > Len(Stages) THEN End("done")
  ELSE [at |-> "check", stage |-> k + 1, failAt |-> run.failAt]

After(k) ==
  IF k = Len(Stages) THEN End("done")
  ELSE [at |-> "check", stage |-> k + 1, failAt |-> run.failAt]

SkipsMutant(stage) == stage \in Resumable /\ stage \in markers   \* no probe
Skips(stage) == stage \in Resumable /\ stage \in markers /\ Probe(stage)

\* The head of the loop in `up': the host's interruption hook, the skip rule.
Check ==
  /\ run.at = "check"
  /\ IF Current \in HostOwned /\ run.failAt = Current
     THEN run' = End("failed") /\ UNCHANGED creds
     ELSE /\ creds' = IF Current \in markers THEN Minted(Current) ELSE creds
          /\ run' = IF Skips(Current) THEN After(run.stage) ELSE Begin(run.stage)
  /\ UNCHANGED <<place, gate, logged, saved, leaves, markers, faults>>

\* A probe that cannot reach AXIAM just then runs a stage that was done.
ProbeMisses ==
  /\ run.at = "check" /\ Skips(Current) /\ run.failAt # Current
  /\ Fault
  /\ run' = Begin(run.stage)
  /\ UNCHANGED <<world, markers>>

\* The catalog's probe takes a failed listing for no tenant, and asks nothing.
CatalogProbeFailsOpen ==
  /\ ListsFail
  /\ run.at = "check" /\ Current = "catalog" /\ Current \in markers
  /\ SignsIn
  /\ Fault
  /\ run' = After(run.stage)
  /\ UNCHANGED <<world, markers>>

-----------------------------------------------------------------------------
\* One part of a stage's work.
Working(part) == run.at = "work" /\ Work(Current)[run.part] = part

Onward ==
  run' = IF run.part = Len(Work(Current))
         THEN [at |-> "mark", stage |-> run.stage, failAt |-> run.failAt]
         ELSE [run EXCEPT !.part = @ + 1]

\* Parts found by their natural key, or created.
Ensure ==
  /\ \E part \in Parts \ {"axiam", "keys"} :
       Working(part) /\ place' = place \cup {part}
  /\ Onward
  /\ UNCHANGED <<gate, logged, saved, creds, leaves, markers, faults>>

\* The first boot on an empty volume opens the gate and logs its token.
StartAxiam ==
  /\ Working("axiam")
  /\ place' = place \cup {"axiam"}
  /\ gate' = IF gate = "none" THEN "open" ELSE gate
  /\ logged' = (logged \/ gate = "none")
  /\ Onward
  /\ UNCHANGED <<saved, creds, leaves, markers, faults>>

\* _setup-token: a saved one is kept, whatever volume it is from.
CaptureToken ==
  /\ Working("token")
  /\ saved' = IF saved = None /\ logged THEN "current" ELSE saved
  /\ Onward
  /\ UNCHANGED <<place, gate, logged, creds, leaves, markers, faults>>

\* state::gate, inside the container.
PassGate ==
  /\ Working("gate")
  /\ IF run.failAt = Current THEN run' = End("failed") ELSE Onward
  /\ UNCHANGED <<world, markers, faults>>

PersistCreds ==
  /\ Working("creds")
  /\ IF creds = "torn"
     THEN run' = End("failed") /\ UNCHANGED creds
     ELSE creds' = "whole" /\ Onward
  /\ UNCHANGED <<place, gate, logged, saved, leaves, markers, faults>>

\* Sign in, else spend the token, else give up.
BootstrapOrg ==
  /\ Working("org")
  /\ IF gate = "open" /\ saved = "current"
     THEN gate' = "spent" /\ Onward
     ELSE /\ UNCHANGED gate
          /\ IF SignsIn THEN Onward ELSE run' = End("refused")
  /\ UNCHANGED <<place, logged, saved, creds, leaves, markers, faults>>

\* The organization is created, but the answer does not arrive.
BootstrapUnheard ==
  /\ Working("org") /\ gate = "open" /\ saved = "current"
  /\ Fault
  /\ gate' = "spent"
  /\ run' = End("failed")
  /\ UNCHANGED <<place, logged, saved, creds, leaves, markers>>

TruncateMap ==
  /\ Working("truncate")
  /\ place' = place \ {"map"}
  /\ Onward
  /\ UNCHANGED <<gate, logged, saved, creds, leaves, markers, faults>>

\* A keypair that is there is used again; a new one matches no certificate
\* that is already bound, so another is signed.
EnsureKeys ==
  /\ Working("keys")
  /\ place' = IF "keys" \in place THEN place ELSE (place \cup {"keys"}) \ {"bound"}
  /\ Onward
  /\ UNCHANGED <<gate, logged, saved, creds, leaves, markers, faults>>

IssueCert ==
  /\ Working("certs")
  /\ place' = place \cup {"bound"}
  /\ leaves' = IF "bound" \notin place /\ leaves < MaxLeaves THEN leaves + 1 ELSE leaves
  /\ Onward
  /\ UNCHANGED <<gate, logged, saved, creds, markers, faults>>

\* authz-verify: every service account has exactly one active certificate, and
\* what the later stages rest on is there.
Verify ==
  /\ Working("verified")
  /\ IF {"tenants", "admins", "cas", "tree"} \subseteq place /\ leaves = 1
     THEN Onward ELSE run' = End("failed")
  /\ UNCHANGED <<world, markers, faults>>

Mark ==
  /\ run.at = "mark"
  /\ markers' = markers \cup {Current}
  /\ run' = After(run.stage)
  /\ UNCHANGED <<world, faults>>
-----------------------------------------------------------------------------
\* A call fails, or the process is killed: `up' can be run again.
Interrupt ==
  /\ run.at \notin Ended
  /\ Fault
  /\ run' = End("failed")
  /\ UNCHANGED <<world, markers>>

\* secrets::write truncates, then fills: death in between leaves a torn file.
TearCreds ==
  /\ TornWrites /\ creds = "absent"
  /\ \/ Working("creds")
     \/ run.at = "check" /\ Current \in markers /\ Credentialed(Current)
  /\ Fault
  /\ creds' = "torn"
  /\ run' = End("failed")
  /\ UNCHANGED <<place, gate, logged, saved, leaves, markers>>

Up(failAt) ==
  /\ run.at \in Ended
  /\ run' = [at |-> "check", stage |-> 1, failAt |-> failAt]
  /\ UNCHANGED <<world, markers, faults>>

\* `just down', by hand: the containers go, and their logs with them.
Down ==
  /\ run.at \in Ended
  /\ Fault
  /\ place' = place \ Containers /\ logged' = FALSE
  /\ run' = [at |-> "idle", failAt |-> None]
  /\ UNCHANGED <<gate, saved, creds, leaves, markers>>

-----------------------------------------------------------------------------
\* demo-reset: the containers, each volume, the markers, the material, `up'.
BeginReset ==
  /\ run.at \in Ended
  /\ place' = place \ Containers /\ logged' = FALSE
  /\ run' = [at |-> "volumes", left |-> Volumes]
  /\ UNCHANGED <<gate, saved, creds, leaves, markers, faults>>

\* A failing `down' is passed over; no volume in use can be removed.
BeginResetInUse ==
  /\ run.at \in Ended
  /\ Fault
  /\ run' = [at |-> "volumes", left |-> {}]
  /\ UNCHANGED <<world, markers>>

Dispatch(volume) ==
  /\ run.at = "volumes" /\ volume \in run.left
  /\ run' = [run EXCEPT !.left = @ \ {volume}]

RemoveVolume(volume) ==
  /\ Dispatch(volume)
  /\ place' = place \ KeptOn(volume)
  /\ IF volume = "surrealdb-data"
     THEN /\ gate' = "none" /\ leaves' = 0
          /\ saved' = IF saved = None THEN None ELSE "stale"
     ELSE UNCHANGED <<gate, leaves, saved>>
  /\ UNCHANGED <<logged, creds, markers, faults>>

\* The loop goes on past a volume Docker would not remove.
KeepVolume(volume) ==
  /\ Dispatch(volume) /\ Fault
  /\ UNCHANGED <<world, markers>>

ClearMarkersMutant ==     \* the saved token is not one of the markers
  /\ run.at = "volumes" /\ run.left = {}
  /\ markers' = {}
  /\ run' = [at |-> "material"]
  /\ UNCHANGED <<world, faults>>

ClearMarkers ==
  /\ run.at = "volumes" /\ run.left = {}
  /\ markers' = {} /\ saved' = None
  /\ run' = [at |-> "material"]
  /\ UNCHANGED <<place, gate, logged, creds, leaves, faults>>

ClearMaterial ==
  /\ run.at = "material"
  /\ place' = place \ Material
  /\ run' = [at |-> "check", stage |-> 1, failAt |-> None]
  /\ UNCHANGED <<gate, logged, saved, creds, leaves, markers, faults>>

-----------------------------------------------------------------------------
Proceed ==
  \/ Check \/ Ensure \/ StartAxiam \/ CaptureToken \/ PassGate \/ PersistCreds
  \/ BootstrapOrg \/ TruncateMap \/ EnsureKeys \/ IssueCert \/ Verify \/ Mark
  \/ \E volume \in Volumes : RemoveVolume(volume)
  \/ ClearMarkers \/ ClearMaterial

Disturb ==
  \/ ProbeMisses \/ CatalogProbeFailsOpen \/ BootstrapUnheard \/ Interrupt \/ TearCreds \/ Down
  \/ BeginResetInUse
  \/ \E volume \in Volumes : KeepVolume(volume)

Operate == BeginReset \/ \E failAt \in FailAts : Up(failAt)

Next == Proceed \/ Disturb \/ Operate

Spec == Init /\ [][Next]_vars

(***************************************************************************)
(* Commands run to their end; the operator does what a failure says: run   *)
(* `up' again, or `demo-reset' when that is what it asks for or when `up'  *)
(* keeps failing.  Faults are finite.                                      *)
(***************************************************************************)
FairSpec ==
  /\ Spec
  /\ WF_vars(Proceed)
  /\ SF_vars(Up(None))
  /\ SF_vars(run.at \in {"failed", "refused"} /\ BeginReset)

-----------------------------------------------------------------------------
(***************************************************************************)
(* When `up' says it is done, everything a probe looks at is there, however*)
(* the runs before it ended: a marker is a skip hint and never the truth   *)
(* (state.rs:1-22, stack.just:408-414), and exactly one active certificate *)
(* per service account (PKI-03, service_certs.rs:198-204), also when a     *)
(* reset could not remove the volume the certificates are on but took away *)
(* their keys.  The catalog is left to the next property.                  *)
(***************************************************************************)
ProbedParts == {"pki", "axiam", "tenants", "admins", "cas", "bound", "tree", "vhost", "edge"}

DoneMeansProbed ==
  run.at = "done" => gate = "spent" /\ creds = "whole" /\ ProbedParts \subseteq place /\ leaves = 1

(***************************************************************************)
(* state.rs:17-19: "a stage is skipped only when its marker is present and *)
(* probe re-asks": at the end there is a catalog.                          *)
(***************************************************************************)
DoneMeansCatalogued == run.at = "done" => "catalog" \in place

(***************************************************************************)
(* No organization exists whose super-admin password was not on disk       *)
(* first: whatever is interrupted, a later run can sign in (DF-019).       *)
(***************************************************************************)
NeverLockedOut == gate = "spent" => creds = "whole"

(***************************************************************************)
(* Whatever was interrupted, `up' gets done again once the faults end and  *)
(* the operator does as told.  One thing stands in the way for good, a     *)
(* super-admin.json torn by a crash in the middle of writing it: a file    *)
(* that is there is read, never written, and no reset removes it.          *)
(***************************************************************************)
Converges == []<>(run.at = "done" \/ creds = "torn")

(***************************************************************************)
(* org_bootstrap.rs:71-75: "reset required: ... The setup-token gate is    *)
(* consumed".                                                              *)
(***************************************************************************)
RefusedMeansSpent == run.at = "refused" => gate = "spent"

(***************************************************************************)
(* state.rs:17-19: "a stage is skipped only when its marker is present and *)
(* probe re-asks ... whether the work is genuinely there": at the end the  *)
(* Twin has its tenant map.                                                *)
(***************************************************************************)
DoneMeansMapped == run.at = "done" => "map" \in place

=============================================================================
