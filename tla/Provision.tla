------------------------------ MODULE Provision ------------------------------
(***************************************************************************)
(* What makes AXIAM ready to issue: the tenants and their administrators   *)
(* (stages/tenants.rs, tenant_admin.rs, domo-common/hand_rolled.rs), the   *)
(* imported root and the signing CAs (stages/pki.rs), the authorization    *)
(* catalog (stages/catalog.rs, catalog.rs).  Every stage looks before it   *)
(* makes, in separate calls.  Runs may overlap, and each may be cut short  *)
(* at any step; between runs, a tenant's roles are made and deleted by     *)
(* hand, the root is rotated and the volumes are wiped.                    *)
(***************************************************************************)
EXTENDS Naturals, Sequences

CONSTANTS
  None, Runs,
  Torn,       \* a file that was truncated and not filled
  Stale,      \* a CA of the organization before the wipe
  Demo,       \* the demo tenants
  Reserved,   \* AXIAM's tenant for the organization itself
  Catalogs,   \* what authz/catalog.toml may say: permissions, roles and grants
  Wild,       \* a permission with a wildcard in it
  Hand,       \* a role made by hand
  MaxRoots,   \* bound on the organization's roots
  MaxFaults   \* bound on runs cut short

Tenants == Demo \cup {Reserved}

\* An item of a manifest, or of a tenant's authorization model.
Permission(action) == <<"permission", None, action>>
Role(role) == <<"role", role, None>>
Grant(role, action) == <<"grant", role, action>>

ToManifest(c) ==
  {Permission(a) : a \in c.permissions} \cup {Role(n) : n \in c.roles}
    \cup {Grant(g[1], g[2]) : g \in c.grants}

Items == {Role(Hand)} \cup UNION {ToManifest(c) : c \in Catalogs}

User == [password : Runs, active : BOOLEAN, admin : BOOLEAN]

ASSUME ProvisionAssumption ==
  /\ {None, Torn} \cap Runs = {} /\ None # Torn
  /\ Reserved \notin Demo /\ None \notin Tenants \cup User
  /\ Catalogs \subseteq [permissions : SUBSET UNION {c.permissions : c \in Catalogs},
                         roles : SUBSET UNION {c.roles : c \in Catalogs},
                         grants : SUBSET UNION {c.grants : c \in Catalogs}]
  /\ \A c \in Catalogs : Hand \notin c.roles
  /\ MaxRoots \in Nat \ {0} /\ MaxFaults \in Nat

VARIABLES
  root,      \* the number of the root in .secrets/pki
  imported,  \* AXIAM: the roots it has the key of
  anchored,  \* AXIAM: those it accepts client certificates beneath
  exists,    \* AXIAM: the demo tenants
  user,      \* AXIAM: each tenant's administrator
  cas,       \* AXIAM: how many signing CAs each tenant has
  beneath,   \* AXIAM: the roots that they are beneath
  held,      \* AXIAM: each tenant's permissions, roles and grants
  file,      \* tenant-admin-<slug>.json: None, Torn, or who minted it
  caFile,    \* <slug>-ca.pem: None, Torn, Stale, or which of the CAs
  run,       \* what each run does next
  crowded,   \* have two runs been under way at the same time?
  faults

orgside == <<imported, anchored, exists, beneath>>
axiam == <<orgside, user, cas, held>>
disk == <<root, file, caFile>>
vars == <<axiam, disk, run, crowded, faults>>

\* stage-run tenants is three of the commands in a row (state.rs run).
Plans == {<<"tenants", "pki", "tenant-admin">>, <<"tenants">>, <<"pki">>,
          <<"tenant-admin">>, <<"catalog">>}

Steps == {"list", "find", "create", "creds", "mint", "fill", "user", "activate", "assign",
          "import", "anchor", "signing", "generate", "write",
          "load", "login", "plan", "apply", "replan", "mark"}
Idle == [at |-> "idle"]
RunState ==
  [at : Steps, plan : Plans, todo : SUBSET Tenants,
   job : 1..3, tenant : Tenants \cup {None}, password : Runs \cup {None}, ca : Nat,
   manifest : Catalogs \cup {None}, left : SUBSET Items]

TypeOK ==
  /\ root \in 1..MaxRoots /\ imported \subseteq 1..root /\ anchored \subseteq imported
  /\ exists \subseteq Demo
  /\ user \in [Demo -> User \cup {None}]
  /\ cas \in [Tenants -> Nat] /\ beneath \in [Tenants -> SUBSET (1..root)]
  /\ held \in [Demo -> SUBSET Items]
  /\ file \in [Demo -> Runs \cup {None, Torn}]
  /\ caFile \in [Demo -> {None, Torn, Stale} \cup Nat]
  /\ run \in [Runs -> RunState \cup {Idle}]
  /\ crowded \in BOOLEAN /\ faults \in 0..MaxFaults

Init ==
  /\ root = 1 /\ imported = {} /\ anchored = {} /\ exists = {}
  /\ user = [t \in Demo |-> None] /\ cas = [t \in Tenants |-> 0]
  /\ beneath = [t \in Tenants |-> {}]
  /\ held = [t \in Demo |-> {}]
  /\ file = [t \in Demo |-> None] /\ caFile = [t \in Demo |-> None]
  /\ run = [r \in Runs |-> Idle] /\ crowded = FALSE /\ faults = 0

-----------------------------------------------------------------------------
Active(r) == run[r].at # "idle"
Quiet == \A r \in Runs : ~Active(r)
At(r, step) == run[r].at = step
Job(r) == run[r].plan[run[r].job]
Of(r) == run[r].tenant

Goto(r, step) == run' = [run EXCEPT ![r].at = step]
Fail(r) == run' = [run EXCEPT ![r] = Idle]
Calls == UNCHANGED <<root, crowded, faults>>

OpeningMutant(job) == IF job = "pki" THEN "anchor" ELSE "list"   \* not imported first

Opening(job) == IF job = "pki" THEN "import" ELSE "list"
First(job) ==
  CASE job = "tenants" -> "find" [] job = "pki" -> "signing"
    [] job = "tenant-admin" -> "creds" [] job = "catalog" -> "load"

Start(r, plan) ==
  /\ ~Active(r)
  /\ \E c \in IF plan = <<"catalog">> THEN Catalogs ELSE {None} :
       run' = [run EXCEPT ![r] =
         [at |-> Opening(plan[1]), plan |-> plan, job |-> 1, todo |-> {}, tenant |-> None,
          password |-> None, ca |-> 0, manifest |-> c, left |-> {}]]
  /\ crowded' = (crowded \/ ~Quiet)
  /\ UNCHANGED <<axiam, disk, faults>>

\* On to one of the tenants that are left, to the next command, or to the end.
Turn(r, todo) ==
  LET s == run[r]
      reset == [s EXCEPT !.password = None, !.ca = 0]
  IN  \/ \E t \in todo :
           run' = [run EXCEPT ![r] =
             [reset EXCEPT !.at = First(Job(r)), !.todo = todo \ {t}, !.tenant = t]]
      \/ /\ todo = {} /\ s.job < Len(s.plan)
         /\ run' = [run EXCEPT ![r] =
              [reset EXCEPT !.at = Opening(s.plan[s.job + 1]), !.job = s.job + 1, !.tenant = None]]
      \/ /\ todo = {} /\ s.job = Len(s.plan)
         /\ run' = [run EXCEPT ![r] = [reset EXCEPT !.at = "mark", !.tenant = None]]

\* The tenants a command goes through, as they are when it lists them; AXIAM
\* lists its own among them, and every command leaves it out.
Listed(r) ==
  IF Job(r) = "tenants" THEN Demo ELSE {t \in exists \cup {Reserved} : t # Reserved}

List(r) ==
  /\ At(r, "list")
  /\ Turn(r, Listed(r))
  /\ UNCHANGED <<axiam, file, caFile>> /\ Calls

-----------------------------------------------------------------------------
\* The tenants.
Find(r) ==
  /\ At(r, "find")
  /\ Goto(r, IF Of(r) \in exists THEN "creds" ELSE "create")
  /\ UNCHANGED <<axiam, file, caFile>> /\ Calls

Create(r) ==
  /\ At(r, "create")
  /\ IF Of(r) \in exists THEN Fail(r) ELSE Goto(r, "creds")
  /\ exists' = exists \cup {Of(r)}
  /\ UNCHANGED <<imported, anchored, beneath, user, cas, held, file, caFile>> /\ Calls

\* tenant_admin_credentials: read what is saved, or mint and save it.  A file
\* is truncated, then filled.
Credentialed(r) == IF Job(r) = "catalog" THEN "login" ELSE "user"

Creds(r) ==
  /\ At(r, "creds")
  /\ CASE file[Of(r)] = Torn -> Fail(r)
       [] file[Of(r)] = None   -> Goto(r, "mint")
       [] OTHER -> run' = [run EXCEPT ![r].at = Credentialed(r), ![r].password = file[Of(r)]]
  /\ UNCHANGED <<axiam, file, caFile>> /\ Calls

Mint(r) ==
  /\ At(r, "mint")
  /\ file' = [file EXCEPT ![Of(r)] = Torn]
  /\ Goto(r, "fill")
  /\ UNCHANGED <<axiam, caFile>> /\ Calls

Fill(r) ==
  /\ At(r, "fill")
  /\ file' = [file EXCEPT ![Of(r)] = r]
  /\ run' = [run EXCEPT ![r].at = Credentialed(r), ![r].password = r]
  /\ UNCHANGED <<axiam, caFile>> /\ Calls

PostUserMutant(r) ==   \* a user that exists is taken for an administrator
  /\ At(r, "user")
  /\ user' = [user EXCEPT ![Of(r)] =
       IF @ = None THEN [password |-> run[r].password, active |-> FALSE, admin |-> FALSE]
       ELSE @]
  /\ IF user[Of(r)] = None THEN Goto(r, "activate") ELSE Turn(r, run[r].todo)
  /\ UNCHANGED <<orgside, cas, held, file, caFile>> /\ Calls

\* provision_tenant_admin: a user that exists keeps the password it has.
PostUser(r) ==
  /\ At(r, "user")
  /\ user' = [user EXCEPT ![Of(r)] =
       IF @ = None THEN [password |-> run[r].password, active |-> FALSE, admin |-> FALSE]
       ELSE @]
  /\ Goto(r, "activate")
  /\ UNCHANGED <<orgside, cas, held, file, caFile>> /\ Calls

Activate(r) ==
  /\ At(r, "activate")
  /\ user' = [user EXCEPT ![Of(r)].active = TRUE]
  /\ Goto(r, "assign")
  /\ UNCHANGED <<orgside, cas, held, file, caFile>> /\ Calls

Assign(r) ==
  /\ At(r, "assign")
  /\ user' = [user EXCEPT ![Of(r)].admin = TRUE]
  /\ Turn(r, run[r].todo)
  /\ UNCHANGED <<orgside, cas, held, file, caFile>> /\ Calls

-----------------------------------------------------------------------------
\* The root and the signing CAs.  Importing what is imported changes nothing.
ImportMutant(r) ==   \* what is imported is taken to be anchored
  /\ At(r, "import")
  /\ imported' = imported \cup {root}
  /\ Goto(r, IF root \in imported THEN "list" ELSE "anchor")
  /\ UNCHANGED <<anchored, exists, beneath, user, cas, held, file, caFile>> /\ Calls

Import(r) ==
  /\ At(r, "import")
  /\ imported' = imported \cup {root}
  /\ Goto(r, "anchor")
  /\ UNCHANGED <<anchored, exists, beneath, user, cas, held, file, caFile>> /\ Calls

Anchor(r) ==
  /\ At(r, "anchor")
  /\ anchored' = anchored \cup {root}
  /\ Goto(r, "list")
  /\ UNCHANGED <<imported, exists, beneath, user, cas, held, file, caFile>> /\ Calls

SigningMutant(r) ==   \* what is there is not looked for
  /\ At(r, "signing")
  /\ Goto(r, "generate")
  /\ UNCHANGED <<axiam, file, caFile>> /\ Calls

\* The first one there is, whichever root it is beneath, or a new one.
Signing(r) ==
  /\ At(r, "signing")
  /\ IF cas[Of(r)] > 0
     THEN run' = [run EXCEPT ![r].at = "write", ![r].ca = 1]
     ELSE Goto(r, "generate")
  /\ UNCHANGED <<axiam, file, caFile>> /\ Calls

Generate(r) ==
  /\ At(r, "generate")
  /\ cas' = [cas EXCEPT ![Of(r)] = @ + 1]
  /\ beneath' = [beneath EXCEPT ![Of(r)] = @ \cup {root}]
  /\ run' = [run EXCEPT ![r].at = "write", ![r].ca = cas[Of(r)] + 1]
  /\ UNCHANGED <<imported, anchored, exists, user, held, file, caFile>> /\ Calls

Write(r) ==
  /\ At(r, "write")
  /\ caFile' = [caFile EXCEPT ![Of(r)] = run[r].ca]
  /\ Turn(r, run[r].todo)
  /\ UNCHANGED <<axiam, file>> /\ Calls

-----------------------------------------------------------------------------
\* The catalog: refused before the first call, or applied item by item.
Valid(c) ==
  /\ Wild \notin c.permissions
  /\ \A g \in c.grants : g[1] \in c.roles /\ g[2] \in c.permissions

Load(r) ==
  /\ At(r, "load")
  /\ IF Valid(run[r].manifest) THEN Goto(r, "creds") ELSE Fail(r)
  /\ UNCHANGED <<axiam, file, caFile>> /\ Calls

SignsIn(t, password) == user[t] # None /\ user[t].password = password /\ user[t].active

Login(r) ==
  /\ At(r, "login")
  /\ IF SignsIn(Of(r), run[r].password) THEN Goto(r, "plan") ELSE Fail(r)
  /\ UNCHANGED <<axiam, file, caFile>> /\ Calls

Differs(t, c) == ToManifest(c) \ held[t]

Plan(r) ==
  /\ At(r, "plan")
  /\ IF user[Of(r)].admin
     THEN run' = [run EXCEPT ![r].at = "apply", ![r].left = Differs(Of(r), run[r].manifest)]
     ELSE Fail(r)
  /\ UNCHANGED <<axiam, file, caFile>> /\ Calls

Rank(item) == CASE item[1] = "permission" -> 1 [] item[1] = "role" -> 2 [] OTHER -> 3

\* Permissions, then roles, then grants; an item that is there is updated.
Apply(r, item) ==
  /\ At(r, "apply") /\ item \in run[r].left
  /\ \A other \in run[r].left : Rank(item) <= Rank(other)
  /\ held' = [held EXCEPT ![Of(r)] = @ \cup {item}]
  /\ run' = [run EXCEPT ![r].left = @ \ {item}]
  /\ UNCHANGED <<orgside, user, cas, file, caFile>> /\ Calls

Applied(r) ==
  /\ At(r, "apply") /\ run[r].left = {}
  /\ Goto(r, "replan")
  /\ UNCHANGED <<axiam, file, caFile>> /\ Calls

Replan(r) ==
  /\ At(r, "replan")
  /\ IF Differs(Of(r), run[r].manifest) = {} THEN Turn(r, run[r].todo) ELSE Fail(r)
  /\ UNCHANGED <<axiam, file, caFile>> /\ Calls

-----------------------------------------------------------------------------
Mark(r) ==
  /\ At(r, "mark")
  /\ run' = [run EXCEPT ![r] = Idle]
  /\ UNCHANGED <<axiam, file, caFile>> /\ Calls

\* A call fails, or the process is killed: in the middle of a file, perhaps.
Cut(r) ==
  /\ Active(r) /\ faults < MaxFaults
  /\ faults' = faults + 1
  /\ Fail(r)
  /\ UNCHANGED <<axiam, root, file, crowded>>
  /\ \/ UNCHANGED caFile
     \/ At(r, "write") /\ caFile' = [caFile EXCEPT ![Of(r)] = Torn]

-----------------------------------------------------------------------------
\* By hand, while nothing runs.
HandMake(t) == held' = [held EXCEPT ![t] = @ \cup {Role(Hand)}]

\* AXIAM takes the grants away with their role or their permission.
HandDelete(t, item) ==
  /\ item \in held[t]
  /\ held' = [held EXCEPT ![t] =
       {i \in @ : i # item /\ (i[1] = "grant" => item \notin {Role(i[2]), Permission(i[3])})}]

ByHand ==
  /\ Quiet
  /\ \E t \in exists : HandMake(t) \/ \E item \in Items : HandDelete(t, item)
  /\ UNCHANGED <<orgside, user, cas, disk, run, crowded, faults>>

Rotate ==
  /\ Quiet /\ root < MaxRoots
  /\ root' = root + 1
  /\ UNCHANGED <<axiam, file, caFile, run, crowded, faults>>

\* demo-reset: AXIAM's volume, then <slug>-ca.pem unless it is cut in between.
\* The administrators' credentials stay.
Wipe ==
  /\ Quiet
  /\ imported' = {} /\ anchored' = {} /\ exists' = {}
  /\ user' = [t \in Demo |-> None] /\ cas' = [t \in Tenants |-> 0]
  /\ beneath' = [t \in Tenants |-> {}]
  /\ held' = [t \in Demo |-> {}]
  /\ caFile' \in {[t \in Demo |-> None],
                  [t \in Demo |-> IF caFile[t] = None THEN None ELSE Stale]}
  /\ crowded' = FALSE
  /\ UNCHANGED <<root, file, run, faults>>

RunStep(r) ==
  \/ List(r) \/ Find(r) \/ Create(r) \/ Creds(r) \/ Mint(r) \/ Fill(r)
  \/ PostUser(r) \/ Activate(r) \/ Assign(r)
  \/ Import(r) \/ Anchor(r) \/ Signing(r) \/ Generate(r) \/ Write(r)
  \/ Load(r) \/ Login(r) \/ Plan(r) \/ Applied(r) \/ Replan(r) \/ Mark(r)
  \/ \E item \in Items : Apply(r, item)

Next ==
  \/ \E r \in Runs : RunStep(r) \/ Cut(r) \/ \E plan \in Plans : Start(r, plan)
  \/ ByHand \/ Rotate \/ Wipe

Spec == Init /\ [][Next]_vars

-----------------------------------------------------------------------------
(***************************************************************************)
(* Unless runs overlapped, however they were cut short, repeated, mixed and*)
(* reset: an administrator that exists has the password on disk (D-13,     *)
(* tenant_admin.rs:66-68) and no tenant has two signing CAs (PKI-02,       *)
(* pki.rs:180-188); AXIAM's own tenant never has one.                      *)
(***************************************************************************)
AloneKept ==
  /\ ~crowded => \A t \in Demo : /\ user[t] # None => file[t] = user[t].password
                                 /\ cas[t] <= 1
  /\ cas[Reserved] = 0

(***************************************************************************)
(* A run that comes to its end left behind what it is for: the root on disk*)
(* imported and anchored, every tenant with an active administrator, the   *)
(* catalog with no wildcard in it.  If none overlapped, the administrators *)
(* sign in with what is on disk, and <slug>-ca.pem is the tenant's one CA, *)
(* which after a rotation may be beneath an earlier root (CAsFollowRoot).  *)
(***************************************************************************)
Did(r, job) == \E k \in 1..Len(run[r].plan) : run[r].plan[k] = job

DoneMeansReady ==
  \A r \in Runs : At(r, "mark") =>
    /\ Did(r, "tenants") => exists = Demo
    /\ Did(r, "tenants") \/ (Did(r, "tenant-admin") /\ ~crowded) =>
         \A t \in exists : user[t] # None /\ user[t].active /\ user[t].admin
    /\ Did(r, "pki") =>
         /\ root \in anchored
         /\ ~crowded => \A t \in exists : caFile[t] = 1 /\ cas[t] = 1
    /\ Did(r, "catalog") /\ ~crowded =>
         \A t \in exists : /\ Differs(t, run[r].manifest) = {}
                            /\ Permission(Wild) \notin held[t]
                            /\ SignsIn(t, file[t])

(***************************************************************************)
(* No tenant has a signing CA beneath a root that AXIAM does not accept    *)
(* client certificates beneath, wherever runs were cut short or overlapped *)
(* and however often the root was rotated: a device's certificate would be *)
(* turned away with nothing to see in AXIAM (pki.rs:67-114, 140-161).  A   *)
(* root that was rotated away keeps its anchor, and the CAs it has.        *)
(***************************************************************************)
CAsTrusted == \A t \in Tenants : beneath[t] \subseteq anchored

(***************************************************************************)
(* pki.just:301-302 has every tenant's signing CA "re-created by the next  *)
(* 'just tracer'" after a rotation.  Not so: pki.rs:134 keeps the first CA *)
(* there is, and pki.rs:180-188 counts them only, so a run after a         *)
(* rotation leaves each tenant its CA beneath the root before.             *)
(***************************************************************************)
CAsFollowRoot ==
  \A r \in Runs : At(r, "mark") /\ Did(r, "pki") /\ ~crowded =>
    \A t \in exists : beneath[t] = {root}

=============================================================================
