--------------------------- MODULE TenantRegistry ---------------------------
(***************************************************************************)
(* The Device Twin's tenant registry (services/device-twin/src/tenants.rs) *)
(* at the granularity of its locks and file accesses, with the bootstrap   *)
(* rewriting the map file underneath it, alone: any number of requests in  *)
(* slug() at once, and how often they read the file.  DeviceTwin has the   *)
(* same steps inside its handlers.                                         *)
(***************************************************************************)
EXTENDS Integers, FiniteSets

CONSTANTS
  Tenants,   \* tenant ids
  Maps,      \* tenant maps the bootstrap publishes, without slugs: sets of ids
  Workers,   \* requests inside slug() at once
  None,
  MaxNow,    \* bound on the timestamps of the file system
  MaxReloads \* bound on the reloads counted per timestamp

ASSUME RegistryAssumption ==
  /\ \A m \in Maps : m \subseteq Tenants
  /\ None \notin Maps
  /\ IsFiniteSet(Workers) /\ Workers # {}
  /\ MaxNow \in Nat \ {0} /\ MaxReloads \in Nat

\* An absent, truncated or unparsable file resolves no tenant.
Unreadable == {}

VARIABLES
  now,      \* the file system's clock: as coarse as a kernel tick
  file,     \* the map file: what it reads as, and its mtime (0: it is absent)
  writer,   \* the map the bootstrap is in the middle of writing, or None
  twin,     \* the Twin's process: "down", "loaded" (inside new()), or "up"
  slugs,    \* TenantRegistry.slugs
  seen,     \* TenantRegistry.slugs_read_at (0: None)
  worker,   \* where each request is inside slug()
  reloads,  \* history: how often the file was read, per mtime it was read for
  calm      \* history: no reload was overlapped by a write or another reload

vars == <<now, file, writer, twin, slugs, seen, worker, reloads, calm>>

Idle == [at |-> "idle"]

Readable == Maps \cup {Unreadable}

TypeOK ==
  /\ now \in 1..MaxNow
  /\ file \in [map : Readable, mtime : 0..MaxNow]
  /\ writer \in Maps \cup {None}
  /\ twin \in {"down", "loaded", "up"}
  /\ slugs \in Readable /\ seen \in 0..MaxNow
  /\ worker \in [Workers ->
       {Idle} \cup [at : {"missed"}, tenant : Tenants]
         \cup [at : {"statted", "moved"}, tenant : Tenants, onDisk : 0..MaxNow]
         \cup [at : {"read", "saved"}, onDisk : 0..MaxNow, fresh : Readable]]
  /\ reloads \in [0..MaxNow -> 0..MaxReloads]
  /\ calm \in BOOLEAN

Init ==
  /\ now = 1
  /\ file = [map |-> Unreadable, mtime |-> 0]
  /\ writer = None
  /\ twin = "down"
  /\ slugs = Unreadable /\ seen = 0
  /\ worker = [w \in Workers |-> Idle]
  /\ reloads = [m \in 0..MaxNow |-> 0]
  /\ calm = TRUE

Reloading(w) == worker[w].at \in {"statted", "moved", "read", "saved"}

-----------------------------------------------------------------------------
(***************************************************************************)
(* The bootstrap's tenants stage rewrites the file in place: one step      *)
(* truncates it, a later one fills it, and it may die in between.  Two     *)
(* publications are two runs of a stage, so never within one clock tick;   *)
(* the two halves of one publication usually are.                          *)
(***************************************************************************)
Undisturbed == twin # "loaded" /\ \A w \in Workers : ~Reloading(w)

Truncate(map) ==
  /\ writer = None /\ file.mtime < now
  /\ writer' = map
  /\ file' = [map |-> Unreadable, mtime |-> now]
  /\ calm' = (calm /\ Undisturbed)
  /\ UNCHANGED <<now, twin, slugs, seen, worker, reloads>>

Fill ==
  /\ writer # None
  /\ file' = [map |-> writer, mtime |-> now]
  /\ writer' = None
  /\ calm' = (calm /\ Undisturbed)
  /\ UNCHANGED <<now, twin, slugs, seen, worker, reloads>>

WriterDies ==
  /\ writer # None
  /\ writer' = None
  /\ UNCHANGED <<now, file, twin, slugs, seen, worker, reloads, calm>>

Tick ==
  /\ now < MaxNow
  /\ now' = now + 1
  /\ UNCHANGED <<file, writer, twin, slugs, seen, worker, reloads, calm>>

-----------------------------------------------------------------------------
\* TenantRegistry::new: the map first, its modification time second.
NewLoads ==
  /\ twin = "down"
  /\ slugs' = file.map
  /\ twin' = "loaded"
  /\ calm' = (calm /\ writer = None)
  /\ UNCHANGED <<now, file, writer, seen, worker, reloads>>

NewStats ==
  /\ twin = "loaded"
  /\ seen' = file.mtime
  /\ twin' = "up"
  /\ UNCHANGED <<now, file, writer, slugs, worker, reloads, calm>>

\* The process ends: the registry goes, and so do the counts of this life.
Stops ==
  /\ twin = "up"
  /\ twin' = "down"
  /\ slugs' = Unreadable /\ seen' = 0
  /\ worker' = [w \in Workers |-> Idle]
  /\ reloads' = [m \in 0..MaxNow |-> 0]
  /\ calm' = TRUE
  /\ UNCHANGED <<now, file, writer>>

-----------------------------------------------------------------------------
(***************************************************************************)
(* slug(t), one action per lock or file access.  A hit changes nothing and *)
(* has no action.                                                          *)
(***************************************************************************)
Misses(w) ==
  /\ twin = "up" /\ worker[w] = Idle
  /\ \E t \in Tenants \ slugs :
       worker' = [worker EXCEPT ![w] = [at |-> "missed", tenant |-> t]]
  /\ UNCHANGED <<now, file, writer, twin, slugs, seen, reloads, calm>>

\* map_modified_at
Stats(w) ==
  /\ worker[w].at = "missed"
  /\ worker' = [worker EXCEPT ![w] =
       [at |-> "statted", tenant |-> worker[w].tenant, onDisk |-> file.mtime]]
  /\ calm' = (calm /\ writer = None /\ \A v \in Workers : ~Reloading(v))
  /\ UNCHANGED <<now, file, writer, twin, slugs, seen, reloads>>

\* The gate of T-05-08: nothing has moved, so a miss is a miss.
Compares(w) ==
  /\ worker[w].at = "statted"
  /\ worker' = [worker EXCEPT ![w] =
       IF seen = worker[w].onDisk THEN Idle ELSE [worker[w] EXCEPT !.at = "moved"]]
  /\ UNCHANGED <<now, file, writer, twin, slugs, seen, reloads, calm>>

\* load_tenant_map
Loads(w) ==
  /\ worker[w].at = "moved"
  /\ worker' = [worker EXCEPT ![w] =
       [at |-> "read", onDisk |-> worker[w].onDisk, fresh |-> file.map]]
  /\ reloads' = [reloads EXCEPT ![worker[w].onDisk] =
       IF @ < MaxReloads THEN @ + 1 ELSE @]
  /\ UNCHANGED <<now, file, writer, twin, slugs, seen, calm>>

SavesMapMutant(w) ==      \* the fresh map is merged into the held one
  /\ worker[w].at = "read"
  /\ slugs' = slugs \cup worker[w].fresh
  /\ worker' = [worker EXCEPT ![w].at = "saved"]
  /\ UNCHANGED <<now, file, writer, twin, seen, reloads, calm>>

SavesFailureMutant(w) ==  \* an unreadable map is held as no map at all
  /\ worker[w].at = "read"
  /\ slugs' = IF worker[w].fresh = Unreadable THEN None ELSE worker[w].fresh
  /\ worker' = [worker EXCEPT ![w].at = "saved"]
  /\ UNCHANGED <<now, file, writer, twin, seen, reloads, calm>>

SavesMap(w) ==
  /\ worker[w].at = "read"
  /\ slugs' = worker[w].fresh
  /\ worker' = [worker EXCEPT ![w].at = "saved"]
  /\ UNCHANGED <<now, file, writer, twin, seen, reloads, calm>>

SavesTimeMutant(w) ==     \* the modification time is not remembered
  /\ worker[w].at = "saved"
  /\ worker' = [worker EXCEPT ![w] = Idle]
  /\ UNCHANGED <<now, file, writer, twin, slugs, seen, reloads, calm>>

SavesTime(w) ==
  /\ worker[w].at = "saved"
  /\ seen' = worker[w].onDisk
  /\ worker' = [worker EXCEPT ![w] = Idle]
  /\ UNCHANGED <<now, file, writer, twin, slugs, reloads, calm>>

Slug(w) ==
  \/ Misses(w) \/ Stats(w) \/ Compares(w)
  \/ Loads(w) \/ SavesMap(w) \/ SavesTime(w)

Next ==
  \/ \E map \in Maps : Truncate(map)
  \/ Fill \/ WriterDies \/ Tick
  \/ NewLoads \/ NewStats \/ Stops
  \/ \E w \in Workers : Slug(w)

Spec == Init /\ [][Next]_vars

-----------------------------------------------------------------------------
AtRest == twin = "up" /\ writer = None /\ \A w \in Workers : worker[w] = Idle

(***************************************************************************)
(* When no reload was overlapped by a write of the file or by another      *)
(* reload, a registry at rest whose remembered modification time is the    *)
(* file's holds the file's map (tenants.rs:99-120): only an overlap leaves *)
(* a tenant the file names unknown.                                        *)
(***************************************************************************)
CalmRegistryCurrent == calm /\ AtRest /\ seen = file.mtime => slugs = file.map

(***************************************************************************)
(* The work an unauthenticated caller can cause is bounded (T-05-08,       *)
(* tenants.rs:34-40): however many misses there are and however they race, *)
(* the file is read for one modification time at most n * n times by n     *)
(* requests in flight: a laggard that stores an older time re-opens the    *)
(* file for the others once, and each of them can be a laggard once.       *)
(***************************************************************************)
ReloadsBounded ==
  LET n == Cardinality(Workers)
  IN  \A m \in 0..MaxNow : reloads[m] <= n * n

(***************************************************************************)
(* tenants.rs:32 "tenant_id -> slug, re-read from disk when the file       *)
(* changes", main.rs:76 "picked up lazily on first use": at rest, a tenant *)
(* the file names is served, from the held map or by the re-read the next  *)
(* miss makes.                                                             *)
(***************************************************************************)
PickedUpOnFirstUse == AtRest /\ file.map # slugs => seen # file.mtime
=============================================================================
