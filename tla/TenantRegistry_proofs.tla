------------------------ MODULE TenantRegistry_proofs -------------------------
(***************************************************************************)
(* Proofs about the tenant registry for any tenants and maps, and any      *)
(* number of requests in flight.                                           *)
(***************************************************************************)
EXTENDS TenantRegistry, FiniteSetTheorems, TLAPS

n == Cardinality(Workers)

-----------------------------------------------------------------------------
(***************************************************************************)
(* The order of things: what is remembered is not newer than the file, and *)
(* a request reloads for a time the file has had.                          *)
(***************************************************************************)
Ordered ==
  /\ file.mtime <= now /\ seen <= file.mtime
  /\ writer # None => file.mtime >= 1
  /\ \A w \in Workers : Reloading(w) => worker[w].onDisk <= file.mtime
  /\ twin # "up" => \A w \in Workers : worker[w] = Idle
  /\ twin = "down" => slugs = Unreadable /\ seen = 0

(***************************************************************************)
(* In a calm life of the Twin one request reloads at a time, the file      *)
(* stands still while it does, and a write in progress is newer than what  *)
(* is remembered.                                                          *)
(***************************************************************************)
CalmKept ==
  calm =>
    /\ \A v, w \in Workers : Reloading(v) /\ Reloading(w) => v = w
    /\ \A w \in Workers : Reloading(w) => writer = None /\ worker[w].onDisk = file.mtime
    /\ \A w \in Workers : worker[w].at \in {"read", "saved"} => worker[w].fresh = file.map
    /\ \A w \in Workers : worker[w].at = "saved" => slugs = file.map
    /\ twin = "loaded" => writer = None /\ slugs = file.map
    /\ writer # None => seen < file.mtime
    /\ twin = "up" /\ writer = None /\ seen = file.mtime => slugs = file.map

-----------------------------------------------------------------------------
\* TypeOK's set of the places a request can be in.
Places ==
  {Idle} \cup [at : {"missed"}, tenant : Tenants]
    \cup [at : {"statted", "moved"}, tenant : Tenants, onDisk : 0..MaxNow]
    \cup [at : {"read", "saved"}, onDisk : 0..MaxNow, fresh : Readable]

(***************************************************************************)
(* A place that is on the way to a reload has a time of the file system,   *)
(* and once the file is read, a map (slug(), tenants.rs:99-120).           *)
(***************************************************************************)
LEMMA PlacesType ==
  ASSUME NEW p \in Places
  PROVE  /\ p.at \in {"idle", "missed", "statted", "moved", "read", "saved"}
         /\ p.at = "idle" => p = Idle
         /\ p.at = "missed" => p.tenant \in Tenants
         /\ p.at \in {"statted", "moved"} => p.tenant \in Tenants /\ p.onDisk \in 0..MaxNow
         /\ p.at \in {"read", "saved"} => p.onDisk \in 0..MaxNow /\ p.fresh \in Readable
  BY DEF Places, Idle

(***************************************************************************)
(* TypeOK holds initially (TenantRegistry::new has not run).               *)
(***************************************************************************)
LEMMA TypeInit ==
  Init => TypeOK
  BY RegistryAssumption DEF Init, TypeOK, Readable, Unreadable, Idle

(***************************************************************************)
(* A step of a request keeps TypeOK.                                       *)
(***************************************************************************)
LEMMA TypeSlug ==
  ASSUME TypeOK, NEW w \in Workers, Slug(w)
  PROVE  TypeOK'
<1>. worker \in [Workers -> Places]
  BY DEF TypeOK, Places
<1>p. worker[w] \in Places
  OBVIOUS
<1>k. SUFFICES /\ worker' \in [Workers -> Places]
               /\ slugs' \in Readable /\ seen' \in 0..MaxNow
               /\ reloads' \in [0..MaxNow -> 0..MaxReloads]
               /\ calm' \in BOOLEAN
               /\ UNCHANGED <<now, file, writer, twin>>
  BY DEF TypeOK, Places
<1>u. UNCHANGED <<now, file, writer, twin>>
  BY DEF Slug, Misses, Stats, Compares, Loads, SavesMap, SavesTime
<1>c. calm' \in BOOLEAN
  BY Zenon DEF Slug, Misses, Stats, Compares, Loads, SavesMap, SavesTime, TypeOK
<1>1. CASE Misses(w)
  <2>. PICK t \in Tenants \ slugs :
         worker' = [worker EXCEPT ![w] = [at |-> "missed", tenant |-> t]]
    BY <1>1 DEF Misses
  <2>. [at |-> "missed", tenant |-> t] \in Places
    BY DEF Places
  <2>. QED  BY <1>1, <1>u, <1>c DEF Misses, TypeOK
<1>2. CASE Stats(w)
  <2>. [at |-> "statted", tenant |-> worker[w].tenant, onDisk |-> file.mtime] \in Places
    BY <1>2, <1>p, PlacesType DEF Stats, TypeOK, Places
  <2>. QED  BY <1>2, <1>u, <1>c DEF Stats, TypeOK
<1>3. CASE Compares(w)
  <2>1. [worker[w] EXCEPT !.at = "moved"] \in Places
    BY <1>3, <1>p DEF Compares, Places, Idle
  <2>2. Idle \in Places
    BY DEF Places
  <2>. QED  BY <1>3, <2>1, <2>2, <1>u, <1>c DEF Compares, TypeOK
<1>4. CASE Loads(w)
  <2>1. worker[w].onDisk \in 0..MaxNow
    BY <1>4, <1>p, PlacesType DEF Loads
  <2>2. [at |-> "read", onDisk |-> worker[w].onDisk, fresh |-> file.map] \in Places
    BY <2>1 DEF TypeOK, Places
  <2>3. reloads' \in [0..MaxNow -> 0..MaxReloads]
    BY <1>4, <2>1, RegistryAssumption DEF Loads, TypeOK
  <2>. QED  BY <1>4, <2>2, <2>3, <1>u, <1>c DEF Loads, TypeOK
<1>5. CASE SavesMap(w)
  <2>1. worker[w].fresh \in Readable
    BY <1>5, <1>p, PlacesType DEF SavesMap
  <2>2. [worker[w] EXCEPT !.at = "saved"] \in Places
    BY <1>5, <1>p DEF SavesMap, Places, Idle
  <2>. QED  BY <1>5, <2>1, <2>2, <1>u, <1>c DEF SavesMap, TypeOK
<1>6. CASE SavesTime(w)
  <2>1. worker[w].onDisk \in 0..MaxNow
    BY <1>6, <1>p, PlacesType DEF SavesTime
  <2>2. Idle \in Places
    BY DEF Places
  <2>. QED  BY <1>6, <2>1, <2>2, <1>u, <1>c DEF SavesTime, TypeOK
<1>. QED  BY <1>1, <1>2, <1>3, <1>4, <1>5, <1>6 DEF Slug

(***************************************************************************)
(* Every step keeps TypeOK.                                                *)
(***************************************************************************)
LEMMA TypeNext ==
  ASSUME TypeOK, [Next]_vars
  PROVE  TypeOK'
<1>1. ASSUME NEW map \in Maps, Truncate(map) PROVE TypeOK'
  <2>1. calm' \in BOOLEAN
    BY <1>1, Zenon DEF Truncate, TypeOK
  <2>. QED  BY <1>1, <2>1 DEF Truncate, TypeOK, Readable
<1>2. CASE Fill
  <2>1. calm' \in BOOLEAN
    BY <1>2, Zenon DEF Fill, TypeOK
  <2>. QED  BY <1>2, <2>1, RegistryAssumption DEF Fill, TypeOK, Readable
<1>3. CASE WriterDies
  BY <1>3 DEF WriterDies, TypeOK
<1>4. CASE Tick
  BY <1>4, RegistryAssumption DEF Tick, TypeOK
<1>5. CASE NewLoads
  <2>1. calm' \in BOOLEAN
    BY <1>5, Zenon DEF NewLoads, TypeOK
  <2>. QED  BY <1>5, <2>1 DEF NewLoads, TypeOK
<1>6. CASE NewStats
  BY <1>6 DEF NewStats, TypeOK
<1>7. CASE Stops
  BY <1>7, RegistryAssumption DEF Stops, TypeOK, Readable, Unreadable, Idle
<1>8. ASSUME NEW w \in Workers, Slug(w) PROVE TypeOK'
  BY <1>8, TypeSlug
<1>9. CASE UNCHANGED vars
  BY <1>9 DEF vars, TypeOK
<1>. QED  BY <1>1, <1>2, <1>3, <1>4, <1>5, <1>6, <1>7, <1>8, <1>9 DEF Next

(***************************************************************************)
(* Type correctness, for any tenants, maps and requests in flight.         *)
(***************************************************************************)
THEOREM TypeCorrect == Spec => []TypeOK
<1>. QED  BY TypeInit, TypeNext, PTL DEF Spec

-----------------------------------------------------------------------------
(***************************************************************************)
(* Times move forward only: every step keeps Ordered.                      *)
(***************************************************************************)
LEMMA OrderedNext ==
  ASSUME TypeOK, Ordered, [Next]_vars
  PROVE  Ordered'
<1>. worker \in [Workers -> Places]
  BY DEF TypeOK, Places
<1>t. now \in Nat /\ file.mtime \in Nat /\ seen \in Nat
  BY DEF TypeOK
<1>1. ASSUME NEW map \in Maps, Truncate(map) PROVE Ordered'
  <2>1. now \in Nat /\ now >= 1
    BY DEF TypeOK
  <2>2. \A w \in Workers : Reloading(w) => worker[w].onDisk \in Nat
    BY PlacesType DEF Reloading
  <2>. QED  BY <1>1, <1>t, <2>1, <2>2 DEF Truncate, Ordered, Reloading
<1>2. CASE Fill
  <2>1. now \in Nat /\ now >= 1
    BY DEF TypeOK
  <2>2. \A w \in Workers : Reloading(w) => worker[w].onDisk \in Nat
    BY PlacesType DEF Reloading
  <2>. QED  BY <1>2, <1>t, <2>1, <2>2 DEF Fill, Ordered, Reloading
<1>3. CASE WriterDies
  BY <1>3 DEF WriterDies, Ordered, Reloading
<1>4. CASE Tick
  BY <1>4, <1>t DEF Tick, Ordered, Reloading
<1>5. CASE NewLoads
  BY <1>5 DEF NewLoads, Ordered, Reloading
<1>6. CASE NewStats
  BY <1>6, <1>t DEF NewStats, Ordered, Reloading
<1>7. CASE Stops
  BY <1>7, <1>t DEF Stops, Ordered, Reloading, Idle
<1>8. ASSUME NEW w \in Workers, Slug(w) PROVE Ordered'
  <2>1. UNCHANGED <<now, file, writer, twin>>
    BY <1>8 DEF Slug, Misses, Stats, Compares, Loads, SavesMap, SavesTime
  <2>2. twin = "up"
    <3>1. Misses(w) => twin = "up"
      BY DEF Misses
    <3>2. worker[w].at # "idle" => twin = "up"
      BY DEF Ordered, TypeOK, Idle
    <3>. QED  BY <1>8, <3>1, <3>2 DEF Slug, Stats, Compares, Loads, SavesMap, SavesTime
  <2>3. worker' \in [Workers -> Places] /\ \A v \in Workers \ {w} : worker'[v] = worker[v]
    BY <1>8, TypeSlug DEF Slug, Misses, Stats, Compares, Loads, SavesMap, SavesTime, TypeOK, Places
  <2>4. Reloading(w)' => worker'[w].onDisk <= file.mtime
    <3>1. CASE Misses(w)
      BY <3>1 DEF Misses, Reloading
    <3>2. CASE Stats(w)
      BY <3>2, <1>t DEF Stats, Reloading
    <3>3. CASE Compares(w)
      BY <3>3, PlacesType DEF Compares, Reloading, Ordered, Idle, Places
    <3>4. CASE Loads(w)
      BY <3>4 DEF Loads, Reloading, Ordered
    <3>5. CASE SavesMap(w)
      BY <3>5 DEF SavesMap, Reloading, Ordered, Places, Idle
    <3>6. CASE SavesTime(w)
      BY <3>6 DEF SavesTime, Reloading, Idle
    <3>. QED  BY <1>8, <3>1, <3>2, <3>3, <3>4, <3>5, <3>6 DEF Slug
  <2>5. seen' <= file.mtime
    <3>1. CASE SavesTime(w)
      BY <3>1 DEF SavesTime, Ordered, Reloading
    <3>2. CASE seen' = seen
      BY <3>2 DEF Ordered
    <3>. QED  BY <1>8, <3>1, <3>2 DEF Slug, Misses, Stats, Compares, Loads, SavesMap
  <2>6. \A v \in Workers : Reloading(v)' => worker'[v].onDisk <= file'.mtime
    BY <2>1, <2>3, <2>4 DEF Ordered, Reloading
  <2>. QED  BY <2>1, <2>2, <2>5, <2>6 DEF Ordered
<1>9. CASE UNCHANGED vars
  BY <1>9 DEF vars, Ordered, Reloading
<1>. QED  BY <1>1, <1>2, <1>3, <1>4, <1>5, <1>6, <1>7, <1>8, <1>9 DEF Next

(***************************************************************************)
(* A step of a request keeps CalmKept: the first to note the file's time   *)
(* is alone until it has stored it, and no writer was there when it did.   *)
(***************************************************************************)
LEMMA CalmSlug ==
  ASSUME TypeOK, Ordered, CalmKept, NEW w \in Workers, Slug(w)
  PROVE  CalmKept'
<1>. worker \in [Workers -> Places]
  BY DEF TypeOK, Places
<1>. SUFFICES ASSUME calm' PROVE CalmKept'
  BY DEF CalmKept
<1>u. UNCHANGED <<now, file, writer, twin>> /\ calm
  BY DEF Slug, Misses, Stats, Compares, Loads, SavesMap, SavesTime
<1>o. worker' \in [Workers -> Places] /\ \A v \in Workers \ {w} : worker'[v] = worker[v]
  BY TypeSlug DEF Slug, Misses, Stats, Compares, Loads, SavesMap, SavesTime, TypeOK, Places
<1>up. twin = "up"
  <2>1. Misses(w) => twin = "up"
    BY DEF Misses
  <2>2. worker[w].at # "idle" => twin = "up"
    BY DEF Ordered, TypeOK, Idle
  <2>. QED  BY <2>1, <2>2 DEF Slug, Stats, Compares, Loads, SavesMap, SavesTime
<1>1. CASE Misses(w)
  <2>1. ~Reloading(w)' /\ UNCHANGED <<slugs, seen>>
    BY <1>1 DEF Misses, Reloading
  <2>. QED  BY <2>1, <1>u, <1>o DEF CalmKept, Reloading
<1>2. CASE Stats(w)
  <2>1. /\ writer = None /\ \A v \in Workers : ~Reloading(v)
        /\ worker'[w].at = "statted" /\ worker'[w].onDisk = file.mtime
        /\ UNCHANGED <<slugs, seen>>
    BY <1>2 DEF Stats
  <2>. QED  BY <2>1, <1>u, <1>o DEF CalmKept, Reloading
<1>3. CASE Compares(w)
  <2>1. /\ Reloading(w) /\ UNCHANGED <<slugs, seen>>
        /\ \/ worker'[w] = Idle
           \/ worker'[w].at = "moved" /\ worker'[w].onDisk = worker[w].onDisk
    <3>1. CASE seen = worker[w].onDisk
      <4>1. worker'[w] = Idle /\ worker[w].at = "statted" /\ UNCHANGED <<slugs, seen>>
        BY <1>3, <3>1 DEF Compares
      <4>. QED  BY <4>1 DEF Reloading
    <3>2. CASE seen # worker[w].onDisk
      <4>1. worker'[w] = [worker[w] EXCEPT !.at = "moved"] /\ worker[w].at = "statted"
        BY <1>3, <3>2 DEF Compares
      <4>2. worker'[w].at = "moved" /\ worker'[w].onDisk = worker[w].onDisk
        BY <4>1 DEF Places, Idle
      <4>. QED  BY <1>3, <4>1, <4>2 DEF Compares, Reloading
    <3>. QED  BY <3>1, <3>2
  <2>. QED  BY <2>1, <1>u, <1>o DEF CalmKept, Reloading, Idle
<1>4. CASE Loads(w)
  <2>1. /\ Reloading(w) /\ UNCHANGED <<slugs, seen>>
        /\ worker'[w].at = "read" /\ worker'[w].onDisk = worker[w].onDisk
        /\ worker'[w].fresh = file.map
    BY <1>4 DEF Loads, Reloading
  <2>. QED  BY <2>1, <1>u, <1>o DEF CalmKept, Reloading
<1>5. CASE SavesMap(w)
  <2>1. /\ Reloading(w) /\ worker[w].at = "read" /\ slugs' = worker[w].fresh /\ seen' = seen
        /\ worker'[w].at = "saved" /\ worker'[w].onDisk = worker[w].onDisk
        /\ worker'[w].fresh = worker[w].fresh
    BY <1>5 DEF SavesMap, Reloading, Places, Idle
  <2>2. slugs' = file.map
    BY <2>1, <1>u DEF CalmKept
  <2>. QED  BY <2>1, <2>2, <1>u, <1>o, <1>up DEF CalmKept, Reloading
<1>6. CASE SavesTime(w)
  <2>1. /\ Reloading(w) /\ worker[w].at = "saved" /\ seen' = worker[w].onDisk /\ slugs' = slugs
        /\ worker'[w].at = "idle"
    BY <1>6 DEF SavesTime, Reloading, Idle
  <2>2. slugs = file.map /\ writer = None
    BY <2>1, <1>u DEF CalmKept
  <2>. QED  BY <2>1, <2>2, <1>u, <1>o, <1>up DEF CalmKept, Reloading
<1>. QED  BY <1>1, <1>2, <1>3, <1>4, <1>5, <1>6 DEF Slug

(***************************************************************************)
(* Every step keeps CalmKept.                                              *)
(***************************************************************************)
LEMMA CalmNext ==
  ASSUME TypeOK, Ordered, CalmKept, [Next]_vars
  PROVE  CalmKept'
<1>. worker \in [Workers -> Places] /\ None \notin Maps
  BY RegistryAssumption DEF TypeOK, Places
<1>t. now \in Nat /\ file.mtime \in Nat /\ seen \in Nat
  BY DEF TypeOK
<1>1. ASSUME NEW map \in Maps, Truncate(map) PROVE CalmKept'
  <2>1. calm' => calm /\ twin # "loaded" /\ \A w \in Workers : ~Reloading(w)
    BY <1>1 DEF Truncate, Undisturbed
  <2>2. /\ writer' # None /\ file'.mtime = now /\ file.mtime < now
        /\ UNCHANGED <<twin, slugs, seen, worker>>
    BY <1>1 DEF Truncate
  <2>3. seen < now
    BY <1>t, <2>2 DEF Ordered
  <2>. QED  BY <2>1, <2>2, <2>3 DEF CalmKept, Reloading
<1>2. CASE Fill
  <2>1. calm' => calm /\ twin # "loaded" /\ \A w \in Workers : ~Reloading(w)
    BY <1>2 DEF Fill, Undisturbed
  <2>2. /\ writer # None /\ writer' = None /\ file'.mtime = now /\ file.mtime <= now
        /\ UNCHANGED <<twin, slugs, seen, worker>>
    BY <1>2 DEF Fill, Ordered
  <2>3. calm' => seen # now
    BY <1>t, <2>1, <2>2 DEF CalmKept
  <2>. QED  BY <2>1, <2>2, <2>3 DEF CalmKept, Reloading
<1>3. CASE WriterDies
  <2>1. calm => seen # file.mtime
    BY <1>3, <1>t DEF WriterDies, CalmKept
  <2>. QED  BY <1>3, <2>1 DEF WriterDies, CalmKept, Reloading
<1>4. CASE Tick
  BY <1>4 DEF Tick, CalmKept, Reloading
<1>5. CASE NewLoads
  <2>1. \A w \in Workers : ~Reloading(w)
    BY <1>5 DEF NewLoads, Ordered, Reloading, Idle
  <2>. QED  BY <1>5, <2>1 DEF NewLoads, CalmKept, Reloading
<1>6. CASE NewStats
  <2>1. \A w \in Workers : ~Reloading(w)
    BY <1>6 DEF NewStats, Ordered, Reloading, Idle
  <2>. QED  BY <1>6, <2>1 DEF NewStats, CalmKept, Reloading
<1>7. CASE Stops
  <2>1. /\ \A w \in Workers : worker'[w] = Idle
        /\ seen' = 0 /\ twin' = "down" /\ UNCHANGED <<file, writer>>
    BY <1>7 DEF Stops
  <2>2. writer # None => 0 < file.mtime
    BY <1>t DEF Ordered
  <2>. QED  BY <2>1, <2>2 DEF CalmKept, Reloading, Idle
<1>8. ASSUME NEW w \in Workers, Slug(w) PROVE CalmKept'
  BY <1>8, CalmSlug
<1>9. CASE UNCHANGED vars
  BY <1>9 DEF vars, CalmKept, Reloading
<1>. QED  BY <1>1, <1>2, <1>3, <1>4, <1>5, <1>6, <1>7, <1>8, <1>9 DEF Next

(***************************************************************************)
(* What holds in every state, apart from the count of reloads.             *)
(***************************************************************************)
LEMMA CalmAlways == Spec => [](TypeOK /\ Ordered /\ CalmKept)
<1>1. Init => Ordered /\ CalmKept
  BY DEF Init, Ordered, CalmKept, Reloading, Idle
<1>. QED  BY <1>1, TypeInit, TypeNext, OrderedNext, CalmNext, PTL DEF Spec

(***************************************************************************)
(* A registry no reload of which was overlapped, at rest with the file's   *)
(* modification time, holds the file's map (tenants.rs:99-120).            *)
(***************************************************************************)
THEOREM CalmCurrent == Spec => []CalmRegistryCurrent
<1>1. CalmKept => CalmRegistryCurrent
  BY DEF CalmKept, CalmRegistryCurrent, AtRest
<1>. QED  BY <1>1, CalmAlways, PTL

-----------------------------------------------------------------------------
\* Who is where on the way to a reload for time m.
Statted(m) == {w \in Workers : worker[w].at = "statted" /\ worker[w].onDisk = m}
Moved(m) == {w \in Workers : worker[w].at = "moved" /\ worker[w].onDisk = m}
Bound(m) ==
  {w \in Workers : worker[w].at \in {"moved", "read", "saved"} /\ worker[w].onDisk = m}
Laggards(m) == {w \in Workers : Reloading(w) /\ worker[w].onDisk < m}

\* The reloads for m, made or decided on.
Spent(m) == reloads[m] + Cardinality(Moved(m))

\* What may be spent on m while it is the file's time and so many laggards are left.
Budget(laggards) == n * n - n + 1 - laggards * (n - 1)

(***************************************************************************)
(* For the file's own time m.  While it is not remembered, each request    *)
(* that has not decided on a reload may still do so, once.  While it is,   *)
(* none may; only a laggard opens the file again, and leaves the laggards  *)
(* by it.                                                                  *)
(***************************************************************************)
OpenWithin(m) ==
  LET l == Cardinality(Laggards(m))
  IN  \/ l = n /\ Spent(m) = 0
      \/ l < n /\ Spent(m) + n - Cardinality(Bound(m)) <= Budget(l)

ClosedWithin(m) ==
  LET l == Cardinality(Laggards(m))
  IN  /\ Spent(m) <= Budget(l)
      /\ l > 0 => Spent(m) + n <= Budget(l - 1)

\* For a time that is past, only those that noted it may still decide.
PastWithin(m) ==
  \/ Spent(m) + Cardinality(Statted(m)) <= n * n
  \/ seen = m /\ Statted(m) = Workers /\ Spent(m) <= n * n - n + 1

Within ==
  \A m \in 0..MaxNow :
    /\ m > file.mtime => reloads[m] = 0
    /\ m = file.mtime /\ seen # m => OpenWithin(m)
    /\ m = file.mtime /\ seen = m => ClosedWithin(m)
    /\ m < file.mtime => PastWithin(m)

-----------------------------------------------------------------------------
\* The number in B is that in A, but for w.
Changed(A, B, w) ==
  /\ Cardinality(A) \in 0..n /\ Cardinality(B) \in 0..n
  /\ (w \in A <=> w \in B) => Cardinality(B) = Cardinality(A)
  /\ w \in A /\ w \notin B => Cardinality(B) = Cardinality(A) - 1
  /\ w \notin A /\ w \in B => Cardinality(B) = Cardinality(A) + 1

(***************************************************************************)
(* Two sets of requests that differ at most in w: the number in the second *)
(* is the first's, less w if only the first has it, plus w if only the     *)
(* second has.                                                             *)
(***************************************************************************)
LEMMA OneWorker ==
  ASSUME NEW A \in SUBSET Workers, NEW B \in SUBSET Workers, NEW w \in Workers,
         \A v \in Workers \ {w} : v \in A <=> v \in B
  PROVE  Changed(A, B, w)
<1>1. IsFiniteSet(Workers) /\ n \in Nat
  BY RegistryAssumption, FS_CardinalityType DEF n
<1>2. IsFiniteSet(A) /\ IsFiniteSet(B) /\ Cardinality(A) <= n /\ Cardinality(B) <= n
  BY <1>1, FS_Subset DEF n
<1>3. Cardinality(A) \in Nat /\ Cardinality(B) \in Nat
  BY <1>2, FS_CardinalityType
<1>4. (w \in A <=> w \in B) => A = B
  OBVIOUS
<1>5. w \in A /\ w \notin B => B = A \ {w}
  OBVIOUS
<1>6. w \notin A /\ w \in B => B = A \cup {w}
  OBVIOUS
<1>7. w \in A /\ w \notin B => Cardinality(B) = Cardinality(A) - 1
  BY <1>2, <1>5, FS_RemoveElement
<1>8. w \notin A /\ w \in B => Cardinality(B) = Cardinality(A) + 1
  BY <1>2, <1>6, FS_AddElement
<1>. QED  BY <1>1, <1>2, <1>3, <1>4, <1>7, <1>8 DEF Changed

(***************************************************************************)
(* The requests of two disjoint sets are no more than all requests.        *)
(***************************************************************************)
LEMMA DisjointWorkers ==
  ASSUME NEW A \in SUBSET Workers, NEW B \in SUBSET Workers, A \cap B = {}
  PROVE  Cardinality(A) + Cardinality(B) <= n
<1>1. IsFiniteSet(A) /\ IsFiniteSet(B)
  BY RegistryAssumption, FS_Subset
<1>2. Cardinality(A \cup B) = Cardinality(A) + Cardinality(B)
  <2>1. Cardinality(A \cup B) = Cardinality(A) + Cardinality(B) - Cardinality(A \cap B)
    BY <1>1, FS_Union
  <2>2. Cardinality(A) \in Nat /\ Cardinality(B) \in Nat
    BY <1>1, FS_CardinalityType
  <2>. QED  BY <2>1, <2>2, FS_EmptySet
<1>3. A \cup B \in SUBSET Workers
  OBVIOUS
<1>4. Cardinality(A \cup B) <= n
  BY <1>3, RegistryAssumption, FS_Subset DEF n
<1>. QED  BY <1>2, <1>4

(***************************************************************************)
(* All the requests, some of them, and none.                               *)
(***************************************************************************)
LEMMA WorkerNumbers ==
  ASSUME NEW A \in SUBSET Workers
  PROVE  /\ n \in Nat /\ n >= 1 /\ Cardinality(A) \in 0..n
         /\ Cardinality(A) = n => A = Workers
         /\ Cardinality(A) = 0 <=> A = {}
<1>1. n \in Nat /\ n # 0
  BY RegistryAssumption, FS_CardinalityType, FS_EmptySet DEF n
<1>2. IsFiniteSet(A) /\ Cardinality(A) <= n /\ (Cardinality(A) = n => A = Workers)
  BY RegistryAssumption, FS_Subset DEF n
<1>3. Cardinality(A) \in Nat /\ (Cardinality(A) = 0 <=> A = {})
  BY <1>2, FS_CardinalityType, FS_EmptySet
<1>. QED  BY <1>1, <1>2, <1>3

(***************************************************************************)
(* A laggard that goes leaves n - 1 reloads more; the last one to go       *)
(* leaves no more than n * n, and the first finds one for each request.    *)
(***************************************************************************)
LEMMA Budgets ==
  ASSUME NEW l \in 0..n
  PROVE  /\ n \in Nat /\ n >= 1 /\ n * n \in Nat /\ n * n >= n
         /\ Budget(l) \in Int /\ Budget(l - 1) \in Int
         /\ Budget(l) <= n * n - n + 1
         /\ Budget(l - 1) = Budget(l) + n - 1
         /\ l < n => Budget(l) >= n
         /\ Budget(n - 1) = n /\ Budget(0) = n * n - n + 1 /\ Budget(0) >= n
<1>1. n \in Nat /\ n >= 1
  BY WorkerNumbers
<1>. SUFFICES ASSUME NEW k \in Nat, k >= 1, NEW j \in 0..k,
                     \A i \in Int : i * (k - 1) = i * k - i
              PROVE  /\ k * k \in Nat /\ k * k >= k
                     /\ k * k - k + 1 - j * (k - 1) \in Int
                     /\ k * k - k + 1 - (j - 1) * (k - 1) \in Int
                     /\ k * k - k + 1 - j * (k - 1) <= k * k - k + 1
                     /\ k * k - k + 1 - (j - 1) * (k - 1) = k * k - k + 1 - j * (k - 1) + k - 1
                     /\ j < k => k * k - k + 1 - j * (k - 1) >= k
                     /\ k * k - k + 1 - (k - 1) * (k - 1) = k
                     /\ k * k - k + 1 - 0 * (k - 1) = k * k - k + 1
                     /\ k * k - k + 1 >= k
  BY <1>1 DEF Budget
<1>. QED  OBVIOUS

(***************************************************************************)
(* Where one request moves, each of the counts moves by that request.      *)
(***************************************************************************)
LEMMA Counts ==
  ASSUME NEW w \in Workers, NEW m,
         \A v \in Workers \ {w} : worker'[v] = worker[v]
  PROVE  /\ Changed(Statted(m), Statted(m)', w)
         /\ Changed(Moved(m), Moved(m)', w)
         /\ Changed(Bound(m), Bound(m)', w)
         /\ Changed(Laggards(m), Laggards(m)', w)
<1>1. Changed(Statted(m), Statted(m)', w)
  <2>. DEFINE A == Statted(m)  B == Statted(m)'
  <2>1. A \in SUBSET Workers /\ B \in SUBSET Workers /\ \A v \in Workers \ {w} : v \in A <=> v \in B
    BY DEF Statted
  <2>. HIDE DEF A, B
  <2>2. Changed(A, B, w)
    BY <2>1, OneWorker
  <2>. QED  BY <2>2 DEF A, B
<1>2. Changed(Moved(m), Moved(m)', w)
  <2>. DEFINE A == Moved(m)  B == Moved(m)'
  <2>1. A \in SUBSET Workers /\ B \in SUBSET Workers /\ \A v \in Workers \ {w} : v \in A <=> v \in B
    BY DEF Moved
  <2>. HIDE DEF A, B
  <2>2. Changed(A, B, w)
    BY <2>1, OneWorker
  <2>. QED  BY <2>2 DEF A, B
<1>3. Changed(Bound(m), Bound(m)', w)
  <2>. DEFINE A == Bound(m)  B == Bound(m)'
  <2>1. A \in SUBSET Workers /\ B \in SUBSET Workers /\ \A v \in Workers \ {w} : v \in A <=> v \in B
    BY DEF Bound
  <2>. HIDE DEF A, B
  <2>2. Changed(A, B, w)
    BY <2>1, OneWorker
  <2>. QED  BY <2>2 DEF A, B
<1>4. Changed(Laggards(m), Laggards(m)', w)
  <2>. DEFINE A == Laggards(m)  B == Laggards(m)'
  <2>1. A \in SUBSET Workers /\ B \in SUBSET Workers /\ \A v \in Workers \ {w} : v \in A <=> v \in B
    BY DEF Laggards, Reloading
  <2>. HIDE DEF A, B
  <2>2. Changed(A, B, w)
    BY <2>1, OneWorker
  <2>. QED  BY <2>2 DEF A, B
<1>. QED  BY <1>1, <1>2, <1>3, <1>4

(***************************************************************************)
(* A request that has decided on a reload for m neither lags behind m nor  *)
(* has still to decide.                                                    *)
(***************************************************************************)
LEMMA Apart ==
  ASSUME TypeOK, NEW m \in 0..MaxNow
  PROVE  /\ Cardinality(Bound(m)) + Cardinality(Laggards(m)) <= n
         /\ Cardinality(Statted(m)) + Cardinality(Bound(m)) <= n
         /\ Cardinality(Statted(m)) \in 0..n /\ Cardinality(Moved(m)) \in 0..n
         /\ Cardinality(Bound(m)) \in 0..n /\ Cardinality(Laggards(m)) \in 0..n
         /\ reloads[m] \in Nat /\ Spent(m) \in Nat
         /\ Cardinality(Statted(m)) = n => Statted(m) = Workers
         /\ Cardinality(Laggards(m)) = n => Laggards(m) = Workers
<1>1. /\ Statted(m) \in SUBSET Workers /\ Moved(m) \in SUBSET Workers
      /\ Bound(m) \in SUBSET Workers /\ Laggards(m) \in SUBSET Workers
  BY DEF Statted, Moved, Bound, Laggards
<1>2. Bound(m) \cap Laggards(m) = {}
  BY DEF Bound, Laggards, TypeOK
<1>3. Statted(m) \cap Bound(m) = {}
  BY DEF Bound, Statted
<1>4. Cardinality(Statted(m)) \in 0..n /\ Cardinality(Moved(m)) \in 0..n
  BY <1>1, WorkerNumbers
<1>5. Cardinality(Bound(m)) \in 0..n /\ Cardinality(Laggards(m)) \in 0..n
  BY <1>1, WorkerNumbers
<1>6. n \in Nat
  BY <1>1, WorkerNumbers
<1>7. Cardinality(Statted(m)) = n => Statted(m) = Workers
  BY <1>1, WorkerNumbers
<1>8. Cardinality(Laggards(m)) = n => Laggards(m) = Workers
  BY <1>1, WorkerNumbers
<1>9. Cardinality(Bound(m)) + Cardinality(Laggards(m)) <= n
  BY <1>1, <1>2, DisjointWorkers
<1>10. Cardinality(Statted(m)) + Cardinality(Bound(m)) <= n
  BY <1>1, <1>3, DisjointWorkers
<1>11. reloads[m] \in Nat
  BY RegistryAssumption DEF TypeOK
<1>. QED  BY <1>4, <1>5, <1>6, <1>7, <1>8, <1>9, <1>10, <1>11 DEF Spent

(***************************************************************************)
(* A step that spends no more and moves nobody that counts keeps Within.   *)
(***************************************************************************)
LEMMA SpendsNoMore ==
  ASSUME TypeOK, Within, UNCHANGED <<file, seen>>,
         \A m \in 0..MaxNow :
           /\ m < file.mtime => Statted(m)' = Statted(m)
           /\ m <= file.mtime => Cardinality(Bound(m))' = Cardinality(Bound(m))
           /\ m <= file.mtime => Cardinality(Laggards(m))' = Cardinality(Laggards(m))
           /\ Spent(m)' \in Nat /\ Spent(m)' <= Spent(m)
           /\ m > file.mtime => reloads'[m] = reloads[m]
  PROVE  Within'
<1>. SUFFICES ASSUME NEW m \in 0..MaxNow
              PROVE  /\ m > file.mtime => reloads'[m] = 0
                     /\ m = file.mtime /\ seen # m => OpenWithin(m)'
                     /\ m = file.mtime /\ seen = m => ClosedWithin(m)'
                     /\ m < file.mtime => PastWithin(m)'
  BY DEF Within
<1>. DEFINE l == Cardinality(Laggards(m))
            b == Cardinality(Bound(m))
            s == Spent(m)
            c == Cardinality(Statted(m))
<1>1. /\ n \in Nat /\ n >= 1 /\ n * n \in Nat /\ l \in 0..n /\ b \in 0..n /\ c \in 0..n /\ s \in Nat
      /\ Budget(l) \in Int /\ Budget(l - 1) \in Int
  BY Apart, WorkerNumbers, Budgets
<1>2. Spent(m)' \in Nat /\ Spent(m)' <= s
  OBVIOUS
<1>3. m > file.mtime => reloads'[m] = 0
  BY DEF Within
<1>4. ASSUME m = file.mtime, seen # m PROVE OpenWithin(m)'
  <2>1. \/ l = n /\ s = 0
        \/ l < n /\ s + n - b <= Budget(l)
    BY <1>4 DEF Within, OpenWithin
  <2>3. Cardinality(Laggards(m))' = l /\ Cardinality(Bound(m))' = b
    BY <1>4, file.mtime \in Nat DEF TypeOK
  <2>. HIDE DEF l, b, s, c
  <2>2. \/ l = n /\ Spent(m)' = 0
        \/ l < n /\ Spent(m)' + n - b <= Budget(l)
    BY <1>1, <1>2, <2>1
  <2>. QED  BY <2>2, <2>3 DEF OpenWithin
<1>5. ASSUME m = file.mtime, seen = m PROVE ClosedWithin(m)'
  <2>1. s <= Budget(l) /\ (l > 0 => s + n <= Budget(l - 1))
    BY <1>5 DEF Within, ClosedWithin
  <2>3. Cardinality(Laggards(m))' = l
    BY <1>5, file.mtime \in Nat DEF TypeOK
  <2>. HIDE DEF l, b, s, c
  <2>2. Spent(m)' <= Budget(l) /\ (l > 0 => Spent(m)' + n <= Budget(l - 1))
    BY <1>1, <1>2, <2>1
  <2>. QED  BY <2>2, <2>3 DEF ClosedWithin
<1>6. ASSUME m < file.mtime PROVE PastWithin(m)'
  <2>1. \/ s + c <= n * n
        \/ seen = m /\ Statted(m) = Workers /\ s <= n * n - n + 1
    BY <1>6 DEF Within, PastWithin
  <2>3. Statted(m)' = Statted(m) /\ Cardinality(Statted(m))' = c
    BY <1>6
  <2>. HIDE DEF l, b, s, c
  <2>2. \/ Spent(m)' + c <= n * n
        \/ seen' = m /\ Statted(m)' = Workers /\ Spent(m)' <= n * n - n + 1
    BY <1>1, <1>2, <2>1, <2>3
  <2>. QED  BY <2>2, <2>3 DEF PastWithin
<1>. QED  BY <1>3, <1>4, <1>5, <1>6

(***************************************************************************)
(* A request moves alone.                                                  *)
(***************************************************************************)
LEMMA OneMoves ==
  ASSUME TypeOK, NEW w \in Workers, Slug(w)
  PROVE  /\ TypeOK' /\ UNCHANGED <<now, file, writer, twin>>
         /\ worker \in [Workers -> Places] /\ worker[w] \in Places
         /\ worker' \in [Workers -> Places] /\ worker'[w] \in Places
         /\ \A v \in Workers \ {w} : worker'[v] = worker[v]
<1>1. TypeOK'
  BY TypeSlug
<1>2. worker \in [Workers -> Places] /\ worker' \in [Workers -> Places]
  BY <1>1 DEF TypeOK, Places
<1>. QED  BY <1>1, <1>2 DEF Slug, Misses, Stats, Compares, Loads, SavesMap, SavesTime

(***************************************************************************)
(* Missing, noting the file's time and storing the map cost nothing.       *)
(***************************************************************************)
LEMMA WithinCheap ==
  ASSUME TypeOK, Ordered, Within, NEW w \in Workers, Slug(w),
         Misses(w) \/ Stats(w) \/ SavesMap(w)
  PROVE  Within'
<1>1. UNCHANGED <<file, seen, reloads>>
  BY OneMoves DEF Misses, Stats, SavesMap
<1>2. \/ worker[w].at = "idle" /\ worker'[w].at = "missed"
      \/ worker[w].at = "missed" /\ worker'[w].at = "statted" /\ worker'[w].onDisk = file.mtime
      \/ /\ worker[w].at = "read" /\ worker'[w].at = "saved"
         /\ worker'[w].onDisk = worker[w].onDisk
  <2>1. Misses(w) => worker[w].at = "idle" /\ worker'[w].at = "missed"
    BY OneMoves DEF Misses, Idle
  <2>2. Stats(w) => /\ worker[w].at = "missed" /\ worker'[w].at = "statted"
                    /\ worker'[w].onDisk = file.mtime
    BY OneMoves DEF Stats
  <2>3. SavesMap(w) => /\ worker[w].at = "read" /\ worker'[w].at = "saved"
                       /\ worker'[w].onDisk = worker[w].onDisk
    BY OneMoves DEF SavesMap, Places, Idle
  <2>. QED  BY <2>1, <2>2, <2>3
<1>3. ASSUME NEW m \in 0..MaxNow
      PROVE  /\ m < file.mtime => Statted(m)' = Statted(m)
             /\ m <= file.mtime => Cardinality(Bound(m))' = Cardinality(Bound(m))
             /\ m <= file.mtime => Cardinality(Laggards(m))' = Cardinality(Laggards(m))
             /\ Spent(m)' \in Nat /\ Spent(m)' <= Spent(m)
             /\ m > file.mtime => reloads'[m] = reloads[m]
  <2>. m \in Nat /\ file.mtime \in Nat
    BY DEF TypeOK
  <2>. \A v \in Workers \ {w} : worker'[v] = worker[v]
    BY OneMoves
  <2>1. m < file.mtime => Statted(m)' = Statted(m)
    BY <1>2 DEF Statted
  <2>2. Bound(m)' = Bound(m)
    BY <1>2 DEF Bound
  <2>3. m <= file.mtime => Laggards(m)' = Laggards(m)
    BY <1>2 DEF Laggards, Reloading
  <2>4. Moved(m)' = Moved(m)
    BY <1>2 DEF Moved
  <2>5. Spent(m)' = Spent(m) /\ Spent(m) \in Nat
    BY <1>1, <2>4, Apart DEF Spent
  <2>. QED  BY <1>1, <2>1, <2>2, <2>3, <2>5
<1>. QED  BY <1>1, <1>3, SpendsNoMore

(***************************************************************************)
(* Reading the file costs the reload that was decided on.                  *)
(***************************************************************************)
LEMMA WithinLoads ==
  ASSUME TypeOK, Ordered, Within, NEW w \in Workers, Slug(w), Loads(w)
  PROVE  Within'
<1>. DEFINE d == worker[w].onDisk
<1>1. /\ UNCHANGED <<file, seen>>
      /\ worker[w].at = "moved" /\ worker'[w].at = "read" /\ worker'[w].onDisk = d
  BY OneMoves DEF Loads
<1>2. d \in 0..MaxNow /\ d <= file.mtime
  BY <1>1, OneMoves, PlacesType DEF Ordered, Reloading
<1>3. /\ \A m \in 0..MaxNow : m # d => reloads'[m] = reloads[m]
      /\ reloads[d] \in Nat /\ reloads'[d] \in Nat /\ reloads'[d] <= reloads[d] + 1
  BY <1>2, RegistryAssumption DEF Loads, TypeOK
<1>4. ASSUME NEW m \in 0..MaxNow
      PROVE  /\ m < file.mtime => Statted(m)' = Statted(m)
             /\ m <= file.mtime => Cardinality(Bound(m))' = Cardinality(Bound(m))
             /\ m <= file.mtime => Cardinality(Laggards(m))' = Cardinality(Laggards(m))
             /\ Spent(m)' \in Nat /\ Spent(m)' <= Spent(m)
             /\ m > file.mtime => reloads'[m] = reloads[m]
  <2>. m \in Nat /\ file.mtime \in Nat
    BY DEF TypeOK
  <2>. \A v \in Workers \ {w} : worker'[v] = worker[v]
    BY OneMoves
  <2>1. Statted(m)' = Statted(m)
    BY <1>1 DEF Statted
  <2>2. Bound(m)' = Bound(m)
    BY <1>1 DEF Bound
  <2>3. Laggards(m)' = Laggards(m)
    BY <1>1 DEF Laggards, Reloading
  <2>4. /\ Cardinality(Moved(m)) \in Nat /\ Cardinality(Moved(m))' \in Nat
        /\ Cardinality(Moved(m))' = IF m = d THEN Cardinality(Moved(m)) - 1 ELSE Cardinality(Moved(m))
    <3>1. (w \in Moved(m) <=> m = d) /\ w \notin Moved(m)'
      BY <1>1 DEF Moved
    <3>2. Changed(Moved(m), Moved(m)', w) /\ n \in Nat
      BY Counts, WorkerNumbers
    <3>. QED  BY <3>1, <3>2 DEF Changed
  <2>5. reloads[m] \in Nat
    BY Apart
  <2>6. Spent(m)' \in Nat /\ Spent(m)' <= Spent(m)
    <3>1. CASE m = d
      BY <3>1, <1>3, <2>4 DEF Spent
    <3>2. CASE m # d
      BY <3>2, <1>3, <2>4, <2>5 DEF Spent
    <3>. QED  BY <3>1, <3>2
  <2>. QED  BY <1>2, <1>3, <2>1, <2>2, <2>3, <2>6
<1>. QED  BY <1>1, <1>4, SpendsNoMore

(***************************************************************************)
(* The gate, when nothing has moved: the request is done.                  *)
(***************************************************************************)
LEMMA WithinUnmoved ==
  ASSUME TypeOK, Ordered, Within, NEW w \in Workers, Slug(w), Compares(w),
         seen = worker[w].onDisk
  PROVE  Within'
<1>. DEFINE d == worker[w].onDisk
<1>1. /\ UNCHANGED <<file, seen, reloads>> /\ file.mtime \in Nat
      /\ worker[w].at = "statted" /\ worker'[w].at = "idle"
  BY OneMoves DEF Compares, Idle, TypeOK
<1>2. d \in 0..MaxNow /\ d <= file.mtime /\ seen = d
  BY <1>1, OneMoves, PlacesType DEF Ordered, Reloading
<1>. SUFFICES ASSUME NEW m \in 0..MaxNow
              PROVE  /\ m > file.mtime => reloads'[m] = 0
                     /\ m = file.mtime /\ seen # m => OpenWithin(m)'
                     /\ m = file.mtime /\ seen = m => ClosedWithin(m)'
                     /\ m < file.mtime => PastWithin(m)'
  BY <1>1 DEF Within
<1>. DEFINE l == Cardinality(Laggards(m))
            b == Cardinality(Bound(m))
            s == Spent(m)
            c == Cardinality(Statted(m))
<1>3. \A v \in Workers \ {w} : worker'[v] = worker[v]
  BY OneMoves
<1>4. /\ n \in Nat /\ n >= 1 /\ n * n \in Nat /\ l \in 0..n /\ b \in 0..n /\ c \in 0..n /\ s \in Nat
      /\ Budget(l) \in Int /\ Budget(l - 1) \in Int /\ Budget(l - 1) = Budget(l) + n - 1
      /\ Budget(n - 1) = n
  BY Apart, WorkerNumbers, Budgets
<1>5. Bound(m)' = Bound(m) /\ Moved(m)' = Moved(m) /\ Spent(m)' = s
  BY <1>1, <1>3 DEF Bound, Moved, Spent
<1>6. m > file.mtime => reloads'[m] = 0
  BY <1>1 DEF Within
<1>7. ASSUME m = file.mtime, seen # m PROVE OpenWithin(m)'
  <2>1. \/ l = n /\ s = 0
        \/ l < n /\ s + n - b <= Budget(l)
    BY <1>7 DEF Within, OpenWithin
  <2>2. w \in Laggards(m) /\ w \notin Laggards(m)'
    BY <1>1, <1>2, <1>7 DEF Laggards, Reloading
  <2>3. Cardinality(Laggards(m))' = l - 1
    BY <2>2, <1>3, Counts DEF Changed
  <2>. HIDE DEF l, b, s, c
  <2>4. l - 1 < n /\ s + n - b <= Budget(l - 1)
    BY <1>4, <2>1
  <2>. QED  BY <1>5, <2>3, <2>4 DEF OpenWithin, b
<1>8. ASSUME m = file.mtime, seen = m PROVE ClosedWithin(m)'
  <2>1. ~(worker[w].onDisk < m)
    BY <1>2, <1>8
  <2>2. Laggards(m)' = Laggards(m)
    BY <1>1, <1>3, <2>1 DEF Laggards, Reloading
  <2>. QED  BY <1>5, <1>8, <2>2 DEF Within, ClosedWithin
<1>9. ASSUME m < file.mtime PROVE PastWithin(m)'
  <2>1. \/ s + c <= n * n
        \/ Statted(m) = Workers /\ s <= n * n - n + 1
    BY <1>9 DEF Within, PastWithin
  <2>2. w \in Statted(m) => Cardinality(Statted(m))' = c - 1
    <3>1. w \notin Statted(m)'
      BY <1>1 DEF Statted
    <3>. QED  BY <3>1, <1>3, Counts DEF Changed
  <2>3. w \notin Statted(m) => Cardinality(Statted(m))' = c
    <3>1. w \notin Statted(m)'
      BY <1>1 DEF Statted
    <3>. QED  BY <3>1, <1>3, Counts DEF Changed
  <2>. HIDE DEF l, b, s, c
  <2>4. s + Cardinality(Statted(m))' <= n * n
    <3>1. CASE s + c <= n * n
      BY <1>4, <2>2, <2>3, <3>1
    <3>2. CASE Statted(m) = Workers /\ s <= n * n - n + 1
      BY <1>4, <2>2, <3>2
    <3>. QED  BY <2>1, <3>1, <3>2
  <2>. QED  BY <1>5, <2>4 DEF PastWithin
<1>. QED  BY <1>6, <1>7, <1>8, <1>9

(***************************************************************************)
(* The gate, when the time differs: one more reload is decided on, by one  *)
(* request fewer.                                                          *)
(***************************************************************************)
LEMMA WithinMoved ==
  ASSUME TypeOK, Ordered, Within, NEW w \in Workers, Slug(w), Compares(w),
         seen # worker[w].onDisk
  PROVE  Within'
<1>. DEFINE d == worker[w].onDisk
<1>1. /\ UNCHANGED <<file, seen, reloads>> /\ file.mtime \in Nat
      /\ worker[w].at = "statted" /\ worker'[w].at = "moved" /\ worker'[w].onDisk = d
  <2>1. worker'[w] = [worker[w] EXCEPT !.at = "moved"]
    BY OneMoves DEF Compares
  <2>. QED  BY <2>1, OneMoves DEF Compares, Idle, TypeOK, Places
<1>2. d \in 0..MaxNow /\ d <= file.mtime /\ seen # d
  BY <1>1, OneMoves, PlacesType DEF Ordered, Reloading
<1>. SUFFICES ASSUME NEW m \in 0..MaxNow
              PROVE  /\ m > file.mtime => reloads'[m] = 0
                     /\ m = file.mtime /\ seen # m => OpenWithin(m)'
                     /\ m = file.mtime /\ seen = m => ClosedWithin(m)'
                     /\ m < file.mtime => PastWithin(m)'
  BY <1>1 DEF Within
<1>. DEFINE l == Cardinality(Laggards(m))
            b == Cardinality(Bound(m))
            s == Spent(m)
            c == Cardinality(Statted(m))
<1>3. \A v \in Workers \ {w} : worker'[v] = worker[v]
  BY OneMoves
<1>4. /\ n \in Nat /\ n >= 1 /\ n * n \in Nat /\ l \in 0..n /\ b \in 0..n /\ c \in 0..n /\ s \in Nat
      /\ Budget(l) \in Int /\ reloads[m] \in Nat /\ Cardinality(Moved(m)) \in 0..n
  BY Apart, WorkerNumbers, Budgets
<1>5. Laggards(m)' = Laggards(m)
  BY <1>1, <1>3 DEF Laggards, Reloading
<1>6. m > file.mtime => reloads'[m] = 0
  BY <1>1 DEF Within
<1>7. ASSUME m # d
      PROVE  Bound(m)' = Bound(m) /\ Statted(m)' = Statted(m) /\ Spent(m)' = s /\ w \notin Statted(m)
  BY <1>1, <1>3, <1>7 DEF Bound, Statted, Moved, Spent
<1>8. ASSUME m = d
      PROVE  /\ Cardinality(Bound(m))' = b + 1 /\ Spent(m)' = s + 1
             /\ Cardinality(Statted(m))' = c - 1 /\ w \notin Laggards(m)
  <2>1. /\ w \in Statted(m) /\ w \notin Statted(m)'
        /\ w \notin Bound(m) /\ w \in Bound(m)'
        /\ w \notin Moved(m) /\ w \in Moved(m)' /\ w \notin Laggards(m)
    BY <1>1, <1>2, <1>8 DEF Statted, Bound, Moved, Laggards
  <2>2. Cardinality(Bound(m))' = b + 1 /\ Cardinality(Statted(m))' = c - 1
    BY <1>3, <2>1, Counts DEF Changed
  <2>3. Cardinality(Moved(m))' = Cardinality(Moved(m)) + 1
    BY <1>3, <2>1, Counts DEF Changed
  <2>. QED  BY <1>1, <1>4, <2>1, <2>2, <2>3 DEF Spent
<1>9. ASSUME m = file.mtime, seen # m PROVE OpenWithin(m)'
  <2>1. \/ l = n /\ s = 0
        \/ l < n /\ s + n - b <= Budget(l)
    BY <1>9 DEF Within, OpenWithin
  <2>2. CASE m # d
    BY <1>5, <1>7, <2>1, <2>2 DEF OpenWithin
  <2>3. CASE m = d
    <3>1. l # n
      BY <1>8, <2>3, Apart
    <3>. HIDE DEF l, b, s, c
    <3>2. l < n /\ s + 1 + n - (b + 1) <= Budget(l)
      BY <1>4, <2>1, <3>1
    <3>. QED  BY <1>5, <1>8, <2>3, <3>2 DEF OpenWithin, l
  <2>. QED  BY <2>2, <2>3
<1>10. ASSUME m = file.mtime, seen = m PROVE ClosedWithin(m)'
  BY <1>2, <1>5, <1>7, <1>10 DEF Within, ClosedWithin
<1>11. ASSUME m < file.mtime PROVE PastWithin(m)'
  <2>1. \/ s + c <= n * n
        \/ seen = m /\ Statted(m) = Workers /\ s <= n * n - n + 1
    BY <1>11 DEF Within, PastWithin
  <2>2. CASE m # d
    BY <1>1, <1>7, <2>1, <2>2 DEF PastWithin
  <2>3. CASE m = d
    <3>1. s + c <= n * n
      BY <1>2, <2>1, <2>3
    <3>. HIDE DEF l, b, s, c
    <3>2. s + 1 + (c - 1) <= n * n
      BY <1>4, <3>1
    <3>. QED  BY <1>8, <2>3, <3>2 DEF PastWithin
  <2>. QED  BY <2>2, <2>3
<1>. QED  BY <1>6, <1>9, <1>10, <1>11

(***************************************************************************)
(* Storing the time: one for the file's own time closes the file to        *)
(* further reloads, one for an older time opens it, and is a laggard less. *)
(***************************************************************************)
LEMMA WithinSavesTime ==
  ASSUME TypeOK, Ordered, Within, NEW w \in Workers, Slug(w), SavesTime(w)
  PROVE  Within'
<1>. DEFINE d == worker[w].onDisk
<1>1. /\ UNCHANGED <<file, reloads>> /\ file.mtime \in Nat /\ seen' = d
      /\ worker[w].at = "saved" /\ worker'[w].at = "idle"
  BY OneMoves DEF SavesTime, Idle, TypeOK
<1>2. d \in 0..MaxNow /\ d <= file.mtime
  BY <1>1, OneMoves, PlacesType DEF Ordered, Reloading
<1>. SUFFICES ASSUME NEW m \in 0..MaxNow
              PROVE  /\ m > file.mtime => reloads'[m] = 0
                     /\ m = file.mtime /\ d # m => OpenWithin(m)'
                     /\ m = file.mtime /\ d = m => ClosedWithin(m)'
                     /\ m < file.mtime => PastWithin(m)'
  BY <1>1 DEF Within
<1>. DEFINE l == Cardinality(Laggards(m))
            b == Cardinality(Bound(m))
            s == Spent(m)
            c == Cardinality(Statted(m))
<1>3. \A v \in Workers \ {w} : worker'[v] = worker[v]
  BY OneMoves
<1>4. /\ n \in Nat /\ n >= 1 /\ n * n \in Nat /\ l \in 0..n /\ b \in 0..n /\ c \in 0..n /\ s \in Nat
      /\ Budget(l) \in Int /\ Budget(l - 1) \in Int /\ Budget(l - 1) = Budget(l) + n - 1
      /\ Budget(n - 1) = n /\ b + l <= n
  BY Apart, WorkerNumbers, Budgets
<1>5. Statted(m)' = Statted(m) /\ Moved(m)' = Moved(m) /\ Spent(m)' = s /\ w \notin Statted(m)
  BY <1>1, <1>3 DEF Statted, Moved, Spent
<1>6. m > file.mtime => reloads'[m] = 0
  BY <1>1 DEF Within
<1>7. m = file.mtime =>
        \/ seen # m /\ l = n /\ s = 0
        \/ seen # m /\ l < n /\ s + n - b <= Budget(l)
        \/ seen = m /\ s <= Budget(l) /\ (l > 0 => s + n <= Budget(l - 1))
  BY DEF Within, OpenWithin, ClosedWithin
<1>8. ASSUME m = file.mtime, d # m PROVE OpenWithin(m)'
  <2>1. w \in Laggards(m) /\ w \notin Laggards(m)'
    BY <1>1, <1>2, <1>8 DEF Laggards, Reloading
  <2>2. Cardinality(Laggards(m))' = l - 1
    BY <2>1, <1>3, Counts DEF Changed
  <2>3. l > 0
    BY <2>1, WorkerNumbers DEF Laggards
  <2>4. w \notin Bound(m) /\ w \notin Bound(m)'
    BY <1>1, <1>8 DEF Bound
  <2>5. Cardinality(Bound(m))' = b
    BY <2>4, <1>3, Counts DEF Changed
  <2>. HIDE DEF l, b, s, c
  <2>6. l - 1 < n /\ s + n - b <= Budget(l - 1)
    BY <1>4, <1>7, <1>8, <2>3
  <2>. QED  BY <1>5, <2>2, <2>5, <2>6 DEF OpenWithin
<1>9. ASSUME m = file.mtime, d = m PROVE ClosedWithin(m)'
  <2>1. ~(worker[w].onDisk < m)
    BY <1>2, <1>9
  <2>2. Laggards(m)' = Laggards(m) /\ w \notin Laggards(m)
    BY <1>1, <1>3, <2>1 DEF Laggards, Reloading
  <2>3. l # n
    BY <2>2, Apart
  <2>. HIDE DEF l, b, s, c
  <2>4. s <= Budget(l) /\ (l > 0 => s + n <= Budget(l - 1))
    BY <1>4, <1>7, <1>9, <2>3
  <2>. QED  BY <1>5, <2>2, <2>4 DEF ClosedWithin, l
<1>10. ASSUME m < file.mtime PROVE PastWithin(m)'
  <2>1. s + c <= n * n
    BY <1>5, <1>10 DEF Within, PastWithin
  <2>. QED  BY <1>5, <2>1 DEF PastWithin
<1>. QED  BY <1>6, <1>8, <1>9, <1>10

(***************************************************************************)
(* Every step of a request keeps Within.                                   *)
(***************************************************************************)
LEMMA WithinSlug ==
  ASSUME TypeOK, Ordered, Within, NEW w \in Workers, Slug(w)
  PROVE  Within'
<1>1. CASE Compares(w)
  BY <1>1, WithinUnmoved, WithinMoved
<1>. QED  BY <1>1, WithinCheap, WithinLoads, WithinSavesTime DEF Slug

(***************************************************************************)
(* A write of the file: what was spent on its old time is final but for    *)
(* those that noted it, and nothing was spent on the new one.              *)
(***************************************************************************)
LEMMA WithinWrites ==
  ASSUME TypeOK, Ordered, Within, UNCHANGED <<now, twin, seen, worker, reloads>>,
         file'.mtime = now
  PROVE  Within'
<1>1. now \in 1..MaxNow /\ file.mtime \in Nat /\ seen \in Nat /\ file.mtime <= now /\ seen <= file.mtime
  BY DEF TypeOK, Ordered
<1>2. CASE file.mtime = now
  BY <1>2 DEF Within, OpenWithin, ClosedWithin, PastWithin, Spent, Statted, Moved, Bound, Laggards,
              Reloading
<1>3. CASE file.mtime < now
  <2>. SUFFICES ASSUME NEW m \in 0..MaxNow
                PROVE  /\ m > now => reloads[m] = 0
                       /\ m = now => OpenWithin(m)'
                       /\ m < now => PastWithin(m)'
    BY <1>1, <1>3 DEF Within
  <2>. DEFINE l == Cardinality(Laggards(m))
              b == Cardinality(Bound(m))
              s == Spent(m)
              c == Cardinality(Statted(m))
  <2>1. Laggards(m)' = Laggards(m) /\ Bound(m)' = Bound(m) /\ Statted(m)' = Statted(m) /\ Spent(m)' = s
    BY DEF Laggards, Reloading, Bound, Statted, Spent, Moved
  <2>2. /\ n \in Nat /\ n >= 1 /\ n * n \in Nat /\ n * n >= n
        /\ l \in 0..n /\ b \in 0..n /\ c \in 0..n /\ s \in Nat
        /\ Budget(l) \in Int /\ Budget(l - 1) \in Int /\ Budget(l - 1) = Budget(l) + n - 1
        /\ Budget(l) <= n * n - n + 1 /\ (l < n => Budget(l) >= n) /\ c + b <= n
    BY Apart, WorkerNumbers, Budgets
  <2>3. m > now => reloads[m] = 0
    BY <1>1 DEF Within
  <2>4. ASSUME m > file.mtime PROVE s = 0 /\ b = 0 /\ c = 0
    <3>1. \A w \in Workers : Reloading(w) => worker[w].onDisk \in Nat /\ worker[w].onDisk < m
      <4>1. \A w \in Workers : worker[w] \in Places
        BY DEF TypeOK, Places
      <4>. QED  BY <1>1, <2>4, <4>1, PlacesType DEF Ordered, Reloading
    <3>2. Bound(m) = {} /\ Statted(m) = {} /\ Moved(m) = {}
      BY <3>1 DEF Bound, Statted, Moved, Reloading
    <3>. QED  BY <2>4, <3>2, FS_EmptySet DEF Within, Spent
  <2>5. ASSUME m = now PROVE OpenWithin(m)'
    <3>1. s = 0 /\ b = 0
      BY <1>1, <1>3, <2>4, <2>5
    <3>. HIDE DEF l, b, s, c
    <3>2. \/ l = n /\ s = 0
          \/ l < n /\ s + n - b <= Budget(l)
      BY <2>2, <3>1
    <3>. QED  BY <2>1, <3>2 DEF OpenWithin, l, b
  <2>6. ASSUME m < now PROVE PastWithin(m)'
    <3>1. CASE m > file.mtime
      <4>1. s = 0 /\ c = 0
        BY <2>4, <3>1
      <4>. QED  BY <2>1, <2>2, <4>1 DEF PastWithin
    <3>2. CASE m < file.mtime
      BY <2>1, <3>2 DEF Within, PastWithin
    <3>3. CASE m = file.mtime
      <4>1. \/ l = n /\ s = 0
            \/ l < n /\ s + n - b <= Budget(l)
            \/ seen = m /\ s <= Budget(l)
        BY <3>3 DEF Within, OpenWithin, ClosedWithin
      <4>2. c = n => Statted(m) = Workers
        BY Apart
      <4>. HIDE DEF l, b, s, c
      <4>3. \/ s + c <= n * n
            \/ seen = m /\ Statted(m) = Workers /\ s <= n * n - n + 1
        BY <2>2, <4>1, <4>2
      <4>. QED  BY <2>1, <4>3 DEF PastWithin, c
    <3>. QED  BY <1>1, <3>1, <3>2, <3>3
  <2>. QED  BY <2>3, <2>5, <2>6
<1>. QED  BY <1>1, <1>2, <1>3

\* A Twin that has not served a request yet.
Fresh ==
  /\ \A w \in Workers : worker[w] = Idle
  /\ \A m \in 0..MaxNow : reloads[m] = 0

(***************************************************************************)
(* With no request inside slug() and nothing read for any time yet, Within *)
(* holds.                                                                  *)
(***************************************************************************)
LEMMA WithinFresh == Fresh => Within
<1>. SUFFICES ASSUME Fresh PROVE Within
  OBVIOUS
<1>. USE DEF Fresh
<1>. SUFFICES ASSUME NEW m \in 0..MaxNow
              PROVE  OpenWithin(m) /\ ClosedWithin(m) /\ PastWithin(m)
  BY DEF Within
<1>1. Laggards(m) = {} /\ Bound(m) = {} /\ Statted(m) = {} /\ Moved(m) = {}
  BY DEF Laggards, Reloading, Bound, Statted, Moved, Idle
<1>2. Cardinality({}) = 0 /\ reloads[m] = 0
  BY FS_EmptySet
<1>3. Spent(m) = 0
  BY <1>1, <1>2 DEF Spent
<1>4. n \in Nat /\ n >= 1 /\ n * n \in Nat /\ Budget(0) \in Int /\ Budget(0) >= n
  BY <1>2, WorkerNumbers, Budgets
<1>. QED  BY <1>1, <1>2, <1>3, <1>4 DEF OpenWithin, ClosedWithin, PastWithin

(***************************************************************************)
(* Every step keeps Within.                                                *)
(***************************************************************************)
LEMMA WithinNext ==
  TypeOK /\ Ordered /\ Within /\ [Next]_vars => Within'
<1>f. Fresh' => Within'
  BY WithinFresh, PTL
<1>. SUFFICES ASSUME TypeOK, Ordered, Within, [Next]_vars PROVE Within'
  OBVIOUS
<1>1. ASSUME NEW map \in Maps, Truncate(map) PROVE Within'
  BY <1>1, WithinWrites DEF Truncate
<1>2. CASE Fill
  BY <1>2, WithinWrites DEF Fill
<1>3. ASSUME UNCHANGED <<file, seen, worker, reloads>> PROVE Within'
  BY <1>3 DEF Within, OpenWithin, ClosedWithin, PastWithin, Spent, Statted, Moved, Bound, Laggards,
              Reloading
<1>4. CASE WriterDies \/ Tick \/ NewLoads \/ UNCHANGED vars
  BY <1>3, <1>4 DEF WriterDies, Tick, NewLoads, vars
<1>5. CASE NewStats
  <2>1. UNCHANGED <<file, worker, reloads>> /\ seen' = file.mtime /\ \A w \in Workers : worker[w] = Idle
    BY <1>5 DEF NewStats, Ordered
  <2>. SUFFICES ASSUME NEW m \in 0..MaxNow
                PROVE  /\ m > file.mtime => reloads[m] = 0
                       /\ m = file.mtime => ClosedWithin(m)'
                       /\ m < file.mtime => PastWithin(m)'
    BY <2>1 DEF Within
  <2>2. /\ Laggards(m)' = Laggards(m) /\ Statted(m)' = Statted(m) /\ Spent(m)' = Spent(m)
        /\ Laggards(m) = {} /\ Bound(m) = {} /\ Statted(m) = {}
    BY <2>1 DEF Laggards, Reloading, Bound, Statted, Spent, Moved, Idle
  <2>3. Cardinality({}) = 0
    BY FS_EmptySet
  <2>4. Spent(m) \in Nat /\ n \in Nat /\ n >= 1 /\ Budget(0) \in Int
    BY Apart, WorkerNumbers, Budgets, <2>3
  <2>5. ASSUME m = file.mtime PROVE ClosedWithin(m)'
    <3>1. Spent(m) <= Budget(0)
      BY <2>2, <2>3, <2>4, <2>5 DEF Within, OpenWithin, ClosedWithin
    <3>. QED  BY <2>2, <2>3, <3>1 DEF ClosedWithin
  <2>6. ASSUME m < file.mtime PROVE PastWithin(m)'
    <3>1. Statted(m) # Workers
      BY <2>2, RegistryAssumption
    <3>. QED  BY <2>2, <2>6, <3>1 DEF Within, PastWithin
  <2>. QED  BY <2>5, <2>6 DEF Within
<1>6. CASE Stops
  BY <1>f, <1>6 DEF Stops, Fresh
<1>8. ASSUME NEW w \in Workers, Slug(w) PROVE Within'
  BY <1>8, WithinSlug
<1>. QED  BY <1>1, <1>2, <1>4, <1>5, <1>6, <1>8 DEF Next

(***************************************************************************)
(* However many misses race and however the writer interleaves, the file   *)
(* is read for one modification time at most n * n times by n requests     *)
(* (T-05-08, tenants.rs:34-40).                                            *)
(***************************************************************************)
THEOREM ReloadsWithin == Spec => []ReloadsBounded
<1>1. Init => Within
  <2>1. Init => Fresh
    BY DEF Init, Fresh
  <2>. QED  BY <2>1, WithinFresh
<1>2. TypeOK /\ Within => ReloadsBounded
  <2>. SUFFICES ASSUME TypeOK, Within, NEW m \in 0..MaxNow PROVE reloads[m] <= n * n
    BY DEF ReloadsBounded, n
  <2>1. /\ Spent(m) \in Nat /\ reloads[m] \in Nat /\ reloads[m] <= Spent(m)
        /\ Cardinality(Statted(m)) \in 0..n /\ Cardinality(Bound(m)) \in 0..n
        /\ Cardinality(Laggards(m)) \in 0..n
    BY Apart, WorkerNumbers DEF Spent
  <2>. DEFINE l == Cardinality(Laggards(m))
  <2>2. /\ n \in Nat /\ n >= 1 /\ n * n \in Nat /\ Budget(l) \in Int
        /\ Budget(l) <= n * n - n + 1
    BY <2>1, Budgets
  <2>. HIDE DEF l
  <2>3. m \in Nat /\ file.mtime \in Nat
    BY DEF TypeOK
  <2>4. CASE m > file.mtime
    BY <2>2, <2>4 DEF Within
  <2>5. CASE m = file.mtime
    <3>1. \/ Spent(m) = 0
          \/ Spent(m) + n - Cardinality(Bound(m)) <= Budget(l)
          \/ Spent(m) <= Budget(l)
      BY <2>5 DEF Within, OpenWithin, ClosedWithin, l
    <3>. QED  BY <2>1, <2>2, <3>1
  <2>6. CASE m < file.mtime
    <3>1. \/ Spent(m) + Cardinality(Statted(m)) <= n * n
          \/ Spent(m) <= n * n - n + 1
      BY <2>6 DEF Within, PastWithin
    <3>. QED  BY <2>1, <2>2, <3>1
  <2>. QED  BY <2>3, <2>4, <2>5, <2>6
<1>. QED  BY <1>1, <1>2, CalmAlways, WithinNext, PTL DEF Spec
=============================================================================
