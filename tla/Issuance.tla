------------------------------ MODULE Issuance -------------------------------
(***************************************************************************)
(* How one identity gets its certificate: account, key, signing request,   *)
(* certificate, binding, file.  A service's is made by `domo-bootstrap'    *)
(* alone (stages/service_certs.rs ensure); a device's key and request are  *)
(* made by `domo-probe gen-csr', between the two phases of                 *)
(* stages/device_identity.rs.  Any step can be the last one of a run, and  *)
(* so can any step of the reset that removes what AXIAM and the host keep. *)
(***************************************************************************)
EXTENDS Naturals, Sequences, FiniteSets

CONSTANTS
  Kinds,      \* of the identities considered: "service", "device"
  MaxMade,    \* bound on keys, and on accounts, ever made
  MaxCerts,   \* bound on certificates at a time
  MaxFaults   \* bound on runs cut short and volumes Docker will not remove

ASSUME IssuanceAssumption ==
  /\ Kinds \subseteq {"service", "device"}
  /\ MaxMade \in Nat /\ MaxCerts \in Nat /\ MaxFaults \in Nat

Absent == 0                    \* no account, no key, no file

VARIABLES
  kind,     \* whose identity this is; never changes
  account,  \* AXIAM: the account of this name
  certs,    \* AXIAM: active certificates, oldest first
  saId,     \* file: the account id published for the probe
  key,      \* file: the private key
  csr,      \* file: the key a signing request was made with
  csrFor,   \* file: the account id the request names
  leaf,     \* file: the key of the certificate that was written
  run,      \* the step to be taken next
  made,     \* how many keys and accounts were ever made
  faults

axiam == <<account, certs>>
files == <<saId, key, csr, csrFor, leaf>>
vars == <<kind, axiam, files, run, made, faults>>

Id == 0..MaxMade
Cert == [key : Id, bound : Id]
Steps == {"idle", "account", "publish", "key", "request", "name", "list", "sign", "done",
          "volume"}
Chosen == [at : {"bind", "write"}, cert : 1..MaxCerts]
Clearing == [at : {"clear"}, left : SUBSET {"saId", "key", "csr", "csrFor", "leaf"}]

TypeOK ==
  /\ kind \in Kinds
  /\ account \in Id /\ certs \in Seq(Cert) /\ Len(certs) <= MaxCerts
  /\ saId \in Id /\ key \in Id /\ csr \in Id /\ csrFor \in Id /\ leaf \in Id
  /\ run \in [at : Steps] \cup Chosen \cup Clearing
  /\ made \in [{"key", "account"} -> Id]
  /\ faults \in 0..MaxFaults

Init ==
  /\ kind \in Kinds
  /\ account = Absent /\ certs = << >>
  /\ saId = Absent /\ key = Absent /\ csr = Absent /\ csrFor = Absent /\ leaf = Absent
  /\ run = [at |-> "idle"]
  /\ made = [what \in {"key", "account"} |-> 0]
  /\ faults = 0

At(step) == run.at = step
GoTo(step) == run' = [at |-> step]

Fresh(what) == made[what] + 1
Make(what) ==
  /\ made[what] < MaxMade
  /\ made' = [made EXCEPT ![what] = @ + 1]

Fault == faults < MaxFaults /\ faults' = faults + 1

-----------------------------------------------------------------------------
Begin ==
  /\ run.at \in {"idle", "done"}
  /\ GoTo("account")
  /\ UNCHANGED <<kind, axiam, files, made, faults>>

\* The account is found by its name, or created.
EnsureAccount ==
  /\ At("account")
  /\ IF account = Absent
     THEN Make("account") /\ account' = Fresh("account")
     ELSE UNCHANGED <<account, made>>
  /\ GoTo(IF kind = "device" THEN "publish" ELSE "key")
  /\ UNCHANGED <<kind, certs, files, faults>>

PublishId ==
  /\ At("publish")
  /\ saId' = account
  /\ GoTo("key")
  /\ UNCHANGED <<kind, axiam, key, csr, csrFor, leaf, made, faults>>

(***************************************************************************)
(* A service's key is kept as long as its file is.  A device's is kept as  *)
(* long as key and request are there and the request is noted as made for  *)
(* the published account; otherwise all three files are written anew.      *)
(***************************************************************************)
KeyKeptMutant ==                      \* mutant: any request will do
  /\ key # Absent
  /\ kind = "device" => csr # Absent

KeyKept ==
  /\ key # Absent
  /\ kind = "device" => csr # Absent /\ csrFor = saId

EnsureKey ==
  /\ At("key")
  /\ IF KeyKept
     THEN GoTo("list") /\ UNCHANGED <<key, made>>
     ELSE /\ Make("key") /\ key' = Fresh("key")
          /\ GoTo(IF kind = "device" THEN "request" ELSE "list")
  /\ UNCHANGED <<kind, axiam, saId, csr, csrFor, leaf, faults>>

WriteRequest ==
  /\ At("request")
  /\ csr' = key
  /\ GoTo("name")
  /\ UNCHANGED <<kind, axiam, saId, key, csrFor, leaf, made, faults>>

WriteName ==
  /\ At("name")
  /\ csrFor' = saId
  /\ GoTo("list")
  /\ UNCHANGED <<kind, axiam, saId, key, csr, leaf, made, faults>>

\* The key in the request: read back from the file, or made on the spot.
Requested == IF kind = "device" THEN csr ELSE key

\* The account to bind to: read back from the published id, or the one just found.
Subject == IF kind = "device" THEN saId ELSE account

BoundTo(id) == {i \in 1..Len(certs) : certs[i].bound = id}

(***************************************************************************)
(* The certificates that would be used again.  For a service: any bound    *)
(* one that matches the request.  For a device: the first bound one, if it *)
(* matches.                                                                *)
(***************************************************************************)
ReusableFirst ==                      \* mutant: only the first is looked at
  {i \in BoundTo(Subject) :
     certs[i].key = Requested /\ \A j \in BoundTo(Subject) : i <= j}

Reusable ==
  {i \in BoundTo(Subject) :
     /\ certs[i].key = Requested
     /\ kind = "device" => \A j \in BoundTo(Subject) : i <= j}

ListCerts ==
  /\ At("list")
  /\ \/ /\ Reusable = {}
        /\ GoTo("sign")
     \/ \E i \in Reusable :
          /\ \A j \in Reusable : i <= j
          /\ run' = [at |-> "write", cert |-> i]
  /\ UNCHANGED <<kind, axiam, files, made, faults>>

SignMutant ==                         \* mutant: an index one short
  /\ At("sign") /\ Len(certs) < MaxCerts
  /\ certs' = Append(certs, [key |-> Requested, bound |-> Absent])
  /\ run' = [at |-> "bind", cert |-> Len(certs)]
  /\ UNCHANGED <<kind, account, files, made, faults>>

Sign ==
  /\ At("sign") /\ Len(certs) < MaxCerts
  /\ certs' = Append(certs, [key |-> Requested, bound |-> Absent])
  /\ run' = [at |-> "bind", cert |-> Len(certs) + 1]
  /\ UNCHANGED <<kind, account, files, made, faults>>

BindMutant ==                         \* mutant: the first certificate is bound
  /\ At("bind")
  /\ certs' = [certs EXCEPT ![1].bound = Subject]
  /\ run' = [at |-> "write", cert |-> run.cert]
  /\ UNCHANGED <<kind, account, files, made, faults>>

Bind ==
  /\ At("bind")
  /\ certs' = [certs EXCEPT ![run.cert].bound = Subject]
  /\ run' = [at |-> "write", cert |-> run.cert]
  /\ UNCHANGED <<kind, account, files, made, faults>>

WriteLeaf ==
  /\ At("write")
  /\ leaf' = certs[run.cert].key
  /\ GoTo("done")
  /\ UNCHANGED <<kind, axiam, saId, key, csr, csrFor, made, faults>>

-----------------------------------------------------------------------------
\* A call fails, the process is killed, or the reset is interrupted.
CutShort ==
  /\ run.at \notin {"idle", "done"}
  /\ Fault
  /\ GoTo("idle")
  /\ UNCHANGED <<kind, axiam, files, made>>

\* The bounded model has nothing more to make: the run ends, as if refused.
Exhausted ==
  /\ \/ At("account") /\ account = Absent /\ made["account"] = MaxMade
     \/ At("key") /\ ~KeyKept /\ made["key"] = MaxMade
     \/ At("sign") /\ Len(certs) = MaxCerts
  /\ GoTo("idle")
  /\ UNCHANGED <<kind, axiam, files, made, faults>>

(***************************************************************************)
(* demo-reset: AXIAM's volume, unless Docker would not remove it, and then *)
(* the files of the directory, one at a time and in no promised order.     *)
(***************************************************************************)
BeginReset ==
  /\ run.at \in {"idle", "done"}
  /\ GoTo("volume")
  /\ UNCHANGED <<kind, axiam, files, made, faults>>

Directory == [at |-> "clear", left |->
  IF kind = "device" THEN {"saId", "key", "csr", "csrFor", "leaf"} ELSE {"key", "leaf"}]

RemoveVolume ==
  /\ At("volume")
  /\ account' = Absent /\ certs' = << >>
  /\ run' = Directory
  /\ UNCHANGED <<kind, files, made, faults>>

KeepVolume ==
  /\ At("volume") /\ Fault
  /\ run' = Directory
  /\ UNCHANGED <<kind, axiam, files, made>>

Without(file, name, value) == IF file = name THEN Absent ELSE value

ClearFile(file) ==
  /\ At("clear") /\ file \in run.left
  /\ saId' = Without(file, "saId", saId)
  /\ key' = Without(file, "key", key)
  /\ csr' = Without(file, "csr", csr)
  /\ csrFor' = Without(file, "csrFor", csrFor)
  /\ leaf' = Without(file, "leaf", leaf)
  /\ run' = IF run.left = {file} THEN [at |-> "idle"] ELSE [run EXCEPT !.left = @ \ {file}]
  /\ UNCHANGED <<kind, axiam, made, faults>>

-----------------------------------------------------------------------------
Next ==
  \/ Begin \/ EnsureAccount \/ PublishId \/ EnsureKey \/ WriteRequest \/ WriteName
  \/ ListCerts \/ Sign \/ Bind \/ WriteLeaf
  \/ CutShort \/ Exhausted \/ BeginReset \/ RemoveVolume \/ KeepVolume
  \/ \E file \in {"saId", "key", "csr", "csrFor", "leaf"} : ClearFile(file)

Spec == Init /\ [][Next]_vars

-----------------------------------------------------------------------------
(***************************************************************************)
(* A run that ends well leaves a certificate on disk that belongs to the   *)
(* request it was asked to sign and is bound to the account AXIAM has now, *)
(* however earlier runs and resets were cut short.                         *)
(***************************************************************************)
DoneMeansBound ==
  At("done") =>
    /\ leaf # Absent /\ leaf = Requested
    /\ \E i \in BoundTo(account) : certs[i].key = leaf

(***************************************************************************)
(* The key and the certificate on disk are the two halves of one identity, *)
(* whatever was cut short before.  A service's always are                  *)
(* (service_certs.rs:109-115).  A device's key can be newer than its       *)
(* request, but it takes three failures to get there: a volume Docker      *)
(* keeps, a reset cut between the key and the rest, and a gen-csr cut      *)
(* between its two writes.                                                 *)
(***************************************************************************)
HalvesAgree == At("done") => leaf = key \/ (kind = "device" /\ faults > 2)

(***************************************************************************)
(* Re-runs do not pile up leaves.  A service's certificate is found among  *)
(* all that are bound to its account (service_certs.rs:148-163), so no     *)
(* two that are bound have the same key; and of the certificates nobody    *)
(* can find again, signed and never bound, there is at most one for each   *)
(* run that was cut short - besides the one a run is about to bind.        *)
(***************************************************************************)
Unbound == {i \in 1..Len(certs) : certs[i].bound = Absent}

OnePerKey ==
  \A i, j \in 1..Len(certs) \ Unbound : certs[i].key = certs[j].key => i = j

LeavesOwed ==
  /\ kind = "service" => OnePerKey
  /\ Cardinality(Unbound) <= faults + (IF At("bind") THEN 1 ELSE 0)

(***************************************************************************)
(* device_identity.rs:159-160: "a certificate already bound to this        *)
(* account ... is reused rather than re-minted, so a re-run does not pile  *)
(* up leaves".                                                             *)
(***************************************************************************)
DeviceSignsOnce ==
  [][ /\ kind = "device" /\ At("sign") /\ certs' # certs
      => \A i \in BoundTo(Subject) : certs[i].key # Requested ]_vars
=============================================================================
