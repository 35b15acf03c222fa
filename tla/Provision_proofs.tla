--------------------------- MODULE Provision_proofs ---------------------------
(***************************************************************************)
(* Proofs about provisioning: any tenants, catalogs and runs, overlapping  *)
(* or not, cut short anywhere, with any number of roots and resets.        *)
(***************************************************************************)
EXTENDS Provision, TLAPS

-----------------------------------------------------------------------------
\* The steps a command takes once for all tenants, and for each.
Openings == {"list", "import", "anchor"}
PerTenant == {"find", "create", "creds", "mint", "fill", "user", "activate", "assign",
              "signing", "generate", "write", "load", "login", "plan", "apply", "replan"}

(***************************************************************************)
(* Where a run can be: each step belongs to commands that take it, goes    *)
(* about a demo tenant and never AXIAM's own, and has at hand what the     *)
(* steps before it have left.                                              *)
(***************************************************************************)
PlacedAt(s) ==
  /\ s.todo \subseteq Demo /\ s.job <= Len(s.plan)
  /\ s.at \in PerTenant => s.tenant \in Demo
  /\ s.at \in {"find", "create"} => s.plan[s.job] = "tenants"
  /\ s.at \in {"import", "anchor", "signing", "generate", "write"} => s.plan[s.job] = "pki"
  /\ s.at \in {"user", "activate", "assign"} => s.plan[s.job] \in {"tenants", "tenant-admin"}
  /\ s.at \in {"creds", "mint", "fill"} => s.plan[s.job] \in {"tenants", "tenant-admin", "catalog"}
  /\ s.at \in {"load", "login", "plan", "apply", "replan"} => s.plan[s.job] = "catalog"
  /\ s.at = "mark" => s.job = Len(s.plan)
  /\ s.plan[s.job] = "catalog" => s.manifest \in Catalogs
  /\ s.plan[s.job] = "catalog" /\ s.at \in PerTenant \ {"load"} => Valid(s.manifest)
  /\ s.at = "apply" => s.left \subseteq ToManifest(s.manifest)
  /\ s.at \in {"user", "login"} => s.password \in Runs

Placed == \A r \in Runs : Active(r) => PlacedAt(run[r])

\* What a run found or made in AXIAM is still there: nothing is wiped under it.
RootedAt(s) ==
  /\ s.at = "anchor" => root \in imported
  /\ s.plan[s.job] = "pki" /\ s.at \notin {"import", "anchor"} => root \in anchored
  /\ \A k \in 1..s.job - 1 : s.plan[k] = "pki" => root \in anchored
  /\ s.plan[s.job] = "tenants" /\ s.at \in PerTenant \ {"find", "create"} => s.tenant \in exists
  /\ s.at \in {"activate", "assign"} => user[s.tenant] # None
  /\ s.at = "assign" => user[s.tenant].active

Rooted == \A r \in Runs : Active(r) => RootedAt(run[r])

\* A permission with a wildcard is in no tenant: no catalog that has one is applied.
NoWildcard == \A t \in Demo : Permission(Wild) \notin held[t]

-----------------------------------------------------------------------------
(***************************************************************************)
(* As long as no two runs overlap: one is under way at most, and between a *)
(* look and the call that rests on it nothing has changed.                 *)
(***************************************************************************)
AloneAt(s) ==
  /\ s.at = "mint" => file[s.tenant] = None
  /\ s.at = "fill" => file[s.tenant] = Torn
  /\ s.at \in {"user", "activate", "assign", "login", "plan", "apply", "replan"} =>
       s.password \in Runs /\ file[s.tenant] = s.password
  /\ s.at \in {"plan", "apply", "replan"} => SignsIn(s.tenant, s.password)
  /\ s.at = "generate" => cas[s.tenant] = 0
  /\ s.at = "write" => s.ca = 1 /\ cas[s.tenant] = 1

Alone ==
  ~crowded =>
    /\ \A r, s \in Runs : Active(r) /\ Active(s) => r = s
    /\ \A r \in Runs : Active(r) => AloneAt(run[r])

-----------------------------------------------------------------------------
(***************************************************************************)
(* What a command leaves behind of a tenant, and the tenants it is through *)
(* with.                                                                   *)
(***************************************************************************)
Admin(t) == user[t] # None /\ user[t].active /\ user[t].admin

Good(job, manifest, t) ==
  /\ job = "tenants" => t \in exists /\ Admin(t)
  /\ job = "tenant-admin" => crowded \/ t \notin exists \/ Admin(t)
  /\ job = "pki" => crowded \/ t \notin exists \/ (caFile[t] = 1 /\ cas[t] = 1)
  /\ job = "catalog" =>
       crowded \/ t \notin exists \/ (Differs(t, manifest) = {} /\ SignsIn(t, file[t]))

Through(s, k) ==
  IF k < s.job \/ s.at = "mark" THEN Demo
  ELSE IF s.at \in PerTenant THEN Demo \ (s.todo \cup {s.tenant}) ELSE {}

Progress ==
  \A r \in Runs : Active(r) =>
    \A k \in 1..run[r].job : \A t \in Through(run[r], k) :
      Good(run[r].plan[k], run[r].manifest, t)

-----------------------------------------------------------------------------
(***************************************************************************)
(* A run under way has a record of all it needs; one that is not, has not. *)
(***************************************************************************)
LEMMA RunType ==
  ASSUME TypeOK, NEW r \in Runs
  PROVE  /\ run[r] \in RunState \cup {Idle}
         /\ Active(r) => run[r] \in RunState
         /\ ~Active(r) => run[r] = Idle
  BY DEF TypeOK, Active, Idle, RunState, Steps

\* The same place in the same plan, all but what the arguments say.
With(s, at, todo, job, tenant, password, ca, left) ==
  [at |-> at, plan |-> s.plan, todo |-> todo, job |-> job, tenant |-> tenant,
   password |-> password, ca |-> ca, manifest |-> s.manifest, left |-> left]

\* The fields of such a record.
IsWith(n, s, at, todo, job, tenant, password, ca, left) ==
  /\ n \in RunState
  /\ n.at = at /\ n.plan = s.plan /\ n.todo = todo /\ n.job = job /\ n.tenant = tenant
  /\ n.password = password /\ n.ca = ca /\ n.manifest = s.manifest /\ n.left = left

(***************************************************************************)
(* Such a record is one of a run, and has those fields.                    *)
(***************************************************************************)
LEMMA WithFields ==
  ASSUME NEW s \in RunState, NEW at \in Steps, NEW todo \in SUBSET Tenants, NEW job \in 1..3,
         NEW tenant \in Tenants \cup {None}, NEW password \in Runs \cup {None}, NEW ca \in Nat,
         NEW left \in SUBSET Items
  PROVE  IsWith(With(s, at, todo, job, tenant, password, ca, left),
                s, at, todo, job, tenant, password, ca, left)
  BY DEF With, RunState, IsWith

(***************************************************************************)
(* A step of a run changes such a record in one field or two.              *)
(***************************************************************************)
LEMMA WithForms ==
  ASSUME NEW s \in RunState
  PROVE  /\ \A at : [s EXCEPT !.at = at]
                    = With(s, at, s.todo, s.job, s.tenant, s.password, s.ca, s.left)
         /\ \A at, x : [s EXCEPT !.at = at, !.password = x]
                       = With(s, at, s.todo, s.job, s.tenant, x, s.ca, s.left)
         /\ \A at, x : [s EXCEPT !.at = at, !.ca = x]
                       = With(s, at, s.todo, s.job, s.tenant, s.password, x, s.left)
         /\ \A x : [s EXCEPT !.left = x]
                   = With(s, s.at, s.todo, s.job, s.tenant, s.password, s.ca, x)
<1>1. \A at : [s EXCEPT !.at = at] = With(s, at, s.todo, s.job, s.tenant, s.password, s.ca, s.left)
  BY DEF With, RunState
<1>2. ASSUME NEW at, NEW x
      PROVE  [s EXCEPT !.at = at, !.password = x]
             = With(s, at, s.todo, s.job, s.tenant, x, s.ca, s.left)
  <2>1. [s EXCEPT !.at = at, !.password = x] = [[s EXCEPT !.at = at] EXCEPT !.password = x]
    OBVIOUS
  <2>2. [With(s, at, s.todo, s.job, s.tenant, s.password, s.ca, s.left) EXCEPT !.password = x]
        = With(s, at, s.todo, s.job, s.tenant, x, s.ca, s.left)
    BY DEF With
  <2>. QED  BY <1>1, <2>1, <2>2
<1>3. ASSUME NEW at, NEW x
      PROVE  [s EXCEPT !.at = at, !.ca = x]
             = With(s, at, s.todo, s.job, s.tenant, s.password, x, s.left)
  <2>1. [s EXCEPT !.at = at, !.ca = x] = [[s EXCEPT !.at = at] EXCEPT !.ca = x]
    OBVIOUS
  <2>2. [With(s, at, s.todo, s.job, s.tenant, s.password, s.ca, s.left) EXCEPT !.ca = x]
        = With(s, at, s.todo, s.job, s.tenant, s.password, x, s.left)
    BY DEF With
  <2>. QED  BY <1>1, <2>1, <2>2
<1>4. \A x : [s EXCEPT !.left = x]
            = With(s, s.at, s.todo, s.job, s.tenant, s.password, s.ca, x)
  BY DEF With, RunState
<1>. QED  BY <1>1, <1>2, <1>3, <1>4

(***************************************************************************)
(* And where the items that are left are listed.                           *)
(***************************************************************************)
LEMMA WithLeft ==
  ASSUME NEW s \in RunState, NEW at, NEW x
  PROVE  [s EXCEPT !.at = at, !.left = x]
         = With(s, at, s.todo, s.job, s.tenant, s.password, s.ca, x)
<1>0. [s EXCEPT !.at = at] = With(s, at, s.todo, s.job, s.tenant, s.password, s.ca, s.left)
  BY DEF With, RunState
<1>1. [s EXCEPT !.at = at, !.left = x] = [[s EXCEPT !.at = at] EXCEPT !.left = x]
  OBVIOUS
<1>2. [With(s, at, s.todo, s.job, s.tenant, s.password, s.ca, s.left) EXCEPT !.left = x]
      = With(s, at, s.todo, s.job, s.tenant, s.password, s.ca, x)
  BY DEF With
<1>. QED  BY <1>0, <1>1, <1>2

(***************************************************************************)
(* The same of the three ways a run turns to what is next (Turn).          *)
(***************************************************************************)
LEMMA TurnForms ==
  ASSUME NEW s \in RunState
  PROVE  LET reset == [s EXCEPT !.password = None, !.ca = 0]
         IN  /\ \A at, todo, t : [reset EXCEPT !.at = at, !.todo = todo, !.tenant = t]
                                 = With(s, at, todo, s.job, t, None, 0, s.left)
             /\ \A at, job : [reset EXCEPT !.at = at, !.job = job, !.tenant = None]
                             = With(s, at, s.todo, job, None, None, 0, s.left)
             /\ \A at : [reset EXCEPT !.at = at, !.tenant = None]
                        = With(s, at, s.todo, s.job, None, None, 0, s.left)
<1>. DEFINE base == With(s, s.at, s.todo, s.job, s.tenant, None, 0, s.left)
            reset == [s EXCEPT !.password = None, !.ca = 0]
<1>1. reset = base
  <2>1. reset = [[s EXCEPT !.password = None] EXCEPT !.ca = 0]
    OBVIOUS
  <2>2. [s EXCEPT !.password = None] = With(s, s.at, s.todo, s.job, s.tenant, None, s.ca, s.left)
    BY DEF With, RunState
  <2>3. [With(s, s.at, s.todo, s.job, s.tenant, None, s.ca, s.left) EXCEPT !.ca = 0] = base
    BY DEF With
  <2>. QED  BY <2>1, <2>2, <2>3
<1>. HIDE DEF reset
<1>2. ASSUME NEW at, NEW todo, NEW t
      PROVE  [reset EXCEPT !.at = at, !.todo = todo, !.tenant = t]
             = With(s, at, todo, s.job, t, None, 0, s.left)
  <2>1. [base EXCEPT !.at = at] = With(s, at, s.todo, s.job, s.tenant, None, 0, s.left)
    BY DEF With
  <2>2. [With(s, at, s.todo, s.job, s.tenant, None, 0, s.left) EXCEPT !.todo = todo]
        = With(s, at, todo, s.job, s.tenant, None, 0, s.left)
    BY DEF With
  <2>3. [With(s, at, todo, s.job, s.tenant, None, 0, s.left) EXCEPT !.tenant = t]
        = With(s, at, todo, s.job, t, None, 0, s.left)
    BY DEF With
  <2>4. [reset EXCEPT !.at = at, !.todo = todo, !.tenant = t]
        = [[[reset EXCEPT !.at = at] EXCEPT !.todo = todo] EXCEPT !.tenant = t]
    OBVIOUS
  <2>. QED  BY <1>1, <2>1, <2>2, <2>3, <2>4
<1>3. ASSUME NEW at, NEW job
      PROVE  [reset EXCEPT !.at = at, !.job = job, !.tenant = None]
             = With(s, at, s.todo, job, None, None, 0, s.left)
  <2>1. [base EXCEPT !.at = at] = With(s, at, s.todo, s.job, s.tenant, None, 0, s.left)
    BY DEF With
  <2>2. [With(s, at, s.todo, s.job, s.tenant, None, 0, s.left) EXCEPT !.job = job]
        = With(s, at, s.todo, job, s.tenant, None, 0, s.left)
    BY DEF With
  <2>3. [With(s, at, s.todo, job, s.tenant, None, 0, s.left) EXCEPT !.tenant = None]
        = With(s, at, s.todo, job, None, None, 0, s.left)
    BY DEF With
  <2>4. [reset EXCEPT !.at = at, !.job = job, !.tenant = None]
        = [[[reset EXCEPT !.at = at] EXCEPT !.job = job] EXCEPT !.tenant = None]
    OBVIOUS
  <2>. QED  BY <1>1, <2>1, <2>2, <2>3, <2>4
<1>4. ASSUME NEW at
      PROVE  [reset EXCEPT !.at = at, !.tenant = None]
             = With(s, at, s.todo, s.job, None, None, 0, s.left)
  <2>1. [base EXCEPT !.at = at] = With(s, at, s.todo, s.job, s.tenant, None, 0, s.left)
    BY DEF With
  <2>2. [With(s, at, s.todo, s.job, s.tenant, None, 0, s.left) EXCEPT !.tenant = None]
        = With(s, at, s.todo, s.job, None, None, 0, s.left)
    BY DEF With
  <2>3. [reset EXCEPT !.at = at, !.tenant = None]
        = [[reset EXCEPT !.at = at] EXCEPT !.tenant = None]
    OBVIOUS
  <2>. QED  BY <1>1, <2>1, <2>2, <2>3
<1>. QED  BY <1>2, <1>3, <1>4 DEF reset

-----------------------------------------------------------------------------
\* What a step of r does to run: r's record is another, and nobody else's.
Moves(r, new) ==
  /\ run' = [q \in Runs |-> run'[q]]
  /\ run'[r] = new /\ \A q \in Runs \ {r} : run'[q] = run[q]

(***************************************************************************)
(* Goto, Fail and the steps that write one field more move r alone.        *)
(***************************************************************************)
LEMMA MoveForms ==
  ASSUME TypeOK, NEW r \in Runs, Active(r)
  PROVE  /\ \A at : Goto(r, at) =>
              Moves(r, With(run[r], at, run[r].todo, run[r].job, run[r].tenant, run[r].password,
                            run[r].ca, run[r].left))
         /\ Fail(r) => Moves(r, Idle)
         /\ \A at, x : run' = [run EXCEPT ![r].at = at, ![r].password = x] =>
              Moves(r, With(run[r], at, run[r].todo, run[r].job, run[r].tenant, x,
                            run[r].ca, run[r].left))
         /\ \A at, x : run' = [run EXCEPT ![r].at = at, ![r].ca = x] =>
              Moves(r, With(run[r], at, run[r].todo, run[r].job, run[r].tenant, run[r].password,
                            x, run[r].left))
         /\ \A at, x : run' = [run EXCEPT ![r].at = at, ![r].left = x] =>
              Moves(r, With(run[r], at, run[r].todo, run[r].job, run[r].tenant, run[r].password,
                            run[r].ca, x))
         /\ \A x : run' = [run EXCEPT ![r].left = x] =>
              Moves(r, With(run[r], run[r].at, run[r].todo, run[r].job, run[r].tenant,
                            run[r].password, run[r].ca, x))
<1>0. run[r] \in RunState /\ DOMAIN run = Runs
  BY RunType DEF TypeOK
<1>1. ASSUME NEW at, Goto(r, at)
      PROVE  Moves(r, With(run[r], at, run[r].todo, run[r].job, run[r].tenant, run[r].password,
                           run[r].ca, run[r].left))
  <2>1. Moves(r, [run[r] EXCEPT !.at = at])
    BY <1>0, <1>1 DEF Goto, Moves
  <2>. QED  BY <1>0, <2>1, WithForms
<1>2. Fail(r) => Moves(r, Idle)
  BY <1>0 DEF Fail, Moves
<1>3. ASSUME NEW at, NEW x, run' = [run EXCEPT ![r].at = at, ![r].password = x]
      PROVE  Moves(r, With(run[r], at, run[r].todo, run[r].job, run[r].tenant, x,
                           run[r].ca, run[r].left))
  <2>1. Moves(r, [run[r] EXCEPT !.at = at, !.password = x])
    BY <1>0, <1>3 DEF Moves
  <2>. QED  BY <1>0, <2>1, WithForms
<1>4. ASSUME NEW at, NEW x, run' = [run EXCEPT ![r].at = at, ![r].ca = x]
      PROVE  Moves(r, With(run[r], at, run[r].todo, run[r].job, run[r].tenant, run[r].password,
                           x, run[r].left))
  <2>1. Moves(r, [run[r] EXCEPT !.at = at, !.ca = x])
    BY <1>0, <1>4 DEF Moves
  <2>. QED  BY <1>0, <2>1, WithForms
<1>5. ASSUME NEW at, NEW x, run' = [run EXCEPT ![r].at = at, ![r].left = x]
      PROVE  Moves(r, With(run[r], at, run[r].todo, run[r].job, run[r].tenant, run[r].password,
                           run[r].ca, x))
  <2>1. Moves(r, [run[r] EXCEPT !.at = at, !.left = x])
    BY <1>0, <1>5 DEF Moves
  <2>2. [run[r] EXCEPT !.at = at, !.left = x]
        = With(run[r], at, run[r].todo, run[r].job, run[r].tenant, run[r].password, run[r].ca, x)
    BY <1>0, WithLeft
  <2>. QED  BY <2>1, <2>2, Zenon
<1>6. ASSUME NEW x, run' = [run EXCEPT ![r].left = x]
      PROVE  Moves(r, With(run[r], run[r].at, run[r].todo, run[r].job, run[r].tenant,
                           run[r].password, run[r].ca, x))
  <2>1. Moves(r, [run[r] EXCEPT !.left = x])
    BY <1>0, <1>6 DEF Moves
  <2>. QED  BY <1>0, <2>1, WithForms
<1>. QED  BY <1>1, <1>2, <1>3, <1>4, <1>5, <1>6

(***************************************************************************)
(* What a plan may say: at most three commands, the tenants first if at    *)
(* all, the catalog alone.                                                 *)
(***************************************************************************)
LEMMA PlanJobs ==
  ASSUME NEW plan \in Plans
  PROVE  /\ Len(plan) \in 1..3
         /\ \A k \in 1..Len(plan) :
              /\ plan[k] \in {"tenants", "pki", "tenant-admin", "catalog"}
              /\ plan[k] = "tenants" => k = 1
              /\ plan[k] = "catalog" => Len(plan) = 1
              /\ \A l \in 1..Len(plan) : plan[k] = plan[l] => k = l
<1>1. CASE plan = <<"tenants", "pki", "tenant-admin">>
  BY <1>1
<1>2. CASE plan # <<"tenants", "pki", "tenant-admin">>
  <2>1. PICK job \in {"tenants", "pki", "tenant-admin", "catalog"} : plan = <<job>>
    BY <1>2 DEF Plans
  <2>. QED  BY <2>1
<1>. QED  BY <1>1, <1>2

(***************************************************************************)
(* A turn takes up a tenant that is left, or opens the next command, or is *)
(* at the end; either way the run is where it can be.                      *)
(***************************************************************************)
TurnsTo(s, todo, new) ==
  /\ new \in RunState /\ PlacedAt(new) /\ new.plan = s.plan /\ new.manifest = s.manifest
  /\ \/ /\ new.tenant \in todo /\ new.todo = todo \ {new.tenant} /\ new.job = s.job
        /\ new.at = First(s.plan[s.job]) /\ new.at \in {"find", "signing", "creds", "load"}
     \/ /\ todo = {} /\ new.job = s.job + 1 /\ new.job <= Len(s.plan)
        /\ new.at \in {"list", "import"} /\ (new.at = "list" => s.plan[new.job] # "pki")
     \/ todo = {} /\ new.job = s.job /\ s.job = Len(s.plan) /\ new.at = "mark"

LEMMA Turns ==
  ASSUME TypeOK, NEW r \in Runs, Active(r), PlacedAt(run[r]), NEW todo \in SUBSET Demo,
         Turn(r, todo)
  PROVE  Moves(r, run'[r]) /\ TurnsTo(run[r], todo, run'[r])
<1>. DEFINE s == run[r]
            reset == [s EXCEPT !.password = None, !.ca = 0]
<1>0. s \in RunState /\ DOMAIN run = Runs /\ s.plan \in Plans /\ s.job \in 1..3
  BY RunType DEF TypeOK, RunState
<1>j. /\ Len(s.plan) \in 1..3 /\ s.job \in 1..Len(s.plan)
      /\ s.plan[s.job] \in {"tenants", "pki", "tenant-admin", "catalog"}
      /\ s.todo \in SUBSET Demo /\ s.left \in SUBSET Items
      /\ s.plan[s.job] = "catalog" => s.manifest \in Catalogs
  <2>1. Len(s.plan) \in 1..3 /\ s.job <= Len(s.plan)
    BY <1>0, PlanJobs DEF PlacedAt
  <2>2. s.job \in 1..Len(s.plan)
    BY <1>0, <2>1
  <2>. QED  BY <1>0, <2>1, <2>2, PlanJobs DEF PlacedAt, RunState
<1>k. /\ Demo \subseteq Tenants /\ None \in Tenants \cup {None} /\ None \in Runs \cup {None}
      /\ 0 \in Nat /\ {"list", "import", "find", "signing", "creds", "load", "mark"} \subseteq Steps
  BY DEF Tenants, Steps
<1>1. ASSUME NEW t \in todo,
             run' = [run EXCEPT ![r] =
               [reset EXCEPT !.at = First(Job(r)), !.todo = todo \ {t}, !.tenant = t]]
      PROVE  Moves(r, run'[r]) /\ TurnsTo(s, todo, run'[r])
  <2>. DEFINE at == First(s.plan[s.job])
              new == With(s, at, todo \ {t}, s.job, t, None, 0, s.left)
  <2>1. [reset EXCEPT !.at = at, !.todo = todo \ {t}, !.tenant = t] = new
    <3>. HIDE DEF at
    <3>. QED  BY <1>0, TurnForms, Zenon
  <2>2. Moves(r, new)
    <3>. HIDE DEF new
    <3>1. run' = [run EXCEPT ![r] = new]
      BY <1>1, <2>1 DEF Job
    <3>. QED  BY <1>0, <3>1 DEF Moves
  <2>3. at \in {"find", "signing", "creds", "load"}
    BY <1>j DEF First
  <2>4. t \in Tenants \cup {None} /\ todo \ {t} \in SUBSET Tenants /\ at \in Steps
    BY <1>k, <2>3
  <2>5. IsWith(new, s, at, todo \ {t}, s.job, t, None, 0, s.left)
    <3>. HIDE DEF at, s
    <3>. QED  BY <1>0, <1>j, <1>k, <2>4, WithFields DEF new
  <2>. HIDE DEF new
  <2>6. PlacedAt(new)
    BY <1>j, <2>3, <2>5 DEF PlacedAt, First, PerTenant, IsWith
  <2>. QED  BY <2>2, <2>3, <2>5, <2>6 DEF Moves, TurnsTo, IsWith
<1>2. ASSUME todo = {}, s.job < Len(s.plan),
             run' = [run EXCEPT ![r] =
               [reset EXCEPT !.at = Opening(s.plan[s.job + 1]), !.job = s.job + 1, !.tenant = None]]
      PROVE  Moves(r, run'[r]) /\ TurnsTo(s, todo, run'[r])
  <2>. DEFINE at == Opening(s.plan[s.job + 1])
              new == With(s, at, s.todo, s.job + 1, None, None, 0, s.left)
  <2>1. [reset EXCEPT !.at = at, !.job = s.job + 1, !.tenant = None] = new
    BY <1>0, TurnForms
  <2>2. Moves(r, new)
    <3>. HIDE DEF new
    <3>1. run' = [run EXCEPT ![r] = new]
      BY <1>2, <2>1
    <3>. QED  BY <1>0, <3>1 DEF Moves
  <2>3. s.job + 1 \in 1..3 /\ s.job + 1 \in 1..Len(s.plan) /\ Len(s.plan) # 1
    <3>. DEFINE len == Len(s.plan)
                job == s.job
    <3>1. len \in 1..3 /\ job \in 1..3 /\ job < len
      BY <1>0, <1>j, <1>2
    <3>. HIDE DEF len, job
    <3>2. job + 1 \in 1..3 /\ job + 1 \in 1..len /\ len # 1
      BY <3>1
    <3>. QED  BY <3>2 DEF len, job
  <2>4. s.plan[s.job + 1] # "catalog"
    BY <1>0, <2>3, PlanJobs
  <2>5. at \in {"list", "import"} /\ (at = "import" <=> s.plan[s.job + 1] = "pki")
    BY DEF Opening
  <2>6. IsWith(new, s, at, s.todo, s.job + 1, None, None, 0, s.left)
    <3>1. at \in Steps /\ s.todo \in SUBSET Tenants
      BY <1>j, <1>k, <2>5
    <3>. HIDE DEF at, s
    <3>. QED  BY <1>0, <1>j, <1>k, <2>3, <3>1, WithFields DEF new
  <2>. HIDE DEF new
  <2>7. PlacedAt(new)
    BY <1>j, <2>3, <2>4, <2>5, <2>6 DEF PlacedAt, PerTenant, IsWith
  <2>. QED  BY <1>2, <2>2, <2>3, <2>5, <2>6, <2>7 DEF Moves, TurnsTo, IsWith
<1>3. ASSUME todo = {}, s.job = Len(s.plan),
             run' = [run EXCEPT ![r] = [reset EXCEPT !.at = "mark", !.tenant = None]]
      PROVE  Moves(r, run'[r]) /\ TurnsTo(s, todo, run'[r])
  <2>. DEFINE new == With(s, "mark", s.todo, s.job, None, None, 0, s.left)
  <2>1. [reset EXCEPT !.at = "mark", !.tenant = None] = new
    BY <1>0, TurnForms
  <2>2. Moves(r, new)
    <3>. HIDE DEF new
    <3>1. run' = [run EXCEPT ![r] = new]
      BY <1>3, <2>1
    <3>. QED  BY <1>0, <3>1 DEF Moves
  <2>3. IsWith(new, s, "mark", s.todo, s.job, None, None, 0, s.left)
    <3>1. "mark" \in Steps /\ s.todo \in SUBSET Tenants
      BY <1>j, <1>k
    <3>. HIDE DEF s
    <3>. QED  BY <1>0, <1>j, <1>k, <3>1, WithFields DEF new
  <2>. HIDE DEF new
  <2>4. PlacedAt(new)
    BY <1>j, <1>3, <2>3 DEF PlacedAt, PerTenant, IsWith
  <2>. QED  BY <1>3, <2>2, <2>3, <2>4 DEF Moves, TurnsTo, IsWith
<1>. QED  BY <1>1, <1>2, <1>3 DEF Turn

-----------------------------------------------------------------------------
(***************************************************************************)
(* Goto and the steps that write one field more, as records of a run.      *)
(***************************************************************************)
LEMMA GoesTo ==
  ASSUME TypeOK, NEW r \in Runs, Active(r), NEW at \in Steps, Goto(r, at)
  PROVE  /\ Moves(r, run'[r])
         /\ IsWith(run'[r], run[r], at, run[r].todo, run[r].job, run[r].tenant,
                   run[r].password, run[r].ca, run[r].left)
<1>0. run[r] \in RunState
  BY RunType
<1>. DEFINE s == run[r]
            new == With(s, at, s.todo, s.job, s.tenant, s.password, s.ca, s.left)
<1>1. Moves(r, new)
  BY MoveForms
<1>2. IsWith(new, s, at, s.todo, s.job, s.tenant, s.password, s.ca, s.left)
  <2>1. /\ s.todo \in SUBSET Tenants /\ s.job \in 1..3 /\ s.tenant \in Tenants \cup {None}
        /\ s.password \in Runs \cup {None} /\ s.ca \in Nat /\ s.left \in SUBSET Items
    BY <1>0 DEF RunState
  <2>. HIDE DEF s
  <2>. QED  BY <1>0, <2>1, WithFields DEF s, new
<1>. HIDE DEF new
<1>. QED  BY <1>1, <1>2 DEF Moves

(***************************************************************************)
(* A step that reads the credentials.                                      *)
(***************************************************************************)
LEMMA ReadsTo ==
  ASSUME TypeOK, NEW r \in Runs, Active(r), NEW at \in Steps, NEW x \in Runs,
         run' = [run EXCEPT ![r].at = at, ![r].password = x]
  PROVE  /\ Moves(r, run'[r])
         /\ IsWith(run'[r], run[r], at, run[r].todo, run[r].job, run[r].tenant,
                   x, run[r].ca, run[r].left)
<1>0. run[r] \in RunState
  BY RunType
<1>. DEFINE s == run[r]
            new == With(s, at, s.todo, s.job, s.tenant, x, s.ca, s.left)
<1>1. Moves(r, new)
  BY MoveForms
<1>2. IsWith(new, s, at, s.todo, s.job, s.tenant, x, s.ca, s.left)
  <2>1. /\ s.todo \in SUBSET Tenants /\ s.job \in 1..3 /\ s.tenant \in Tenants \cup {None}
        /\ x \in Runs \cup {None} /\ s.ca \in Nat /\ s.left \in SUBSET Items
    BY <1>0 DEF RunState
  <2>. HIDE DEF s
  <2>. QED  BY <1>0, <2>1, WithFields DEF s, new
<1>. HIDE DEF new
<1>. QED  BY <1>1, <1>2 DEF Moves

(***************************************************************************)
(* A step that has a signing CA in hand.                                   *)
(***************************************************************************)
LEMMA SignsTo ==
  ASSUME TypeOK, NEW r \in Runs, Active(r), NEW at \in Steps, NEW x \in Nat,
         run' = [run EXCEPT ![r].at = at, ![r].ca = x]
  PROVE  /\ Moves(r, run'[r])
         /\ IsWith(run'[r], run[r], at, run[r].todo, run[r].job, run[r].tenant,
                   run[r].password, x, run[r].left)
<1>0. run[r] \in RunState
  BY RunType
<1>. DEFINE s == run[r]
            new == With(s, at, s.todo, s.job, s.tenant, s.password, x, s.left)
<1>1. Moves(r, new)
  BY MoveForms
<1>2. IsWith(new, s, at, s.todo, s.job, s.tenant, s.password, x, s.left)
  <2>1. /\ s.todo \in SUBSET Tenants /\ s.job \in 1..3 /\ s.tenant \in Tenants \cup {None}
        /\ s.password \in Runs \cup {None} /\ s.left \in SUBSET Items
    BY <1>0 DEF RunState
  <2>. HIDE DEF s
  <2>. QED  BY <1>0, <2>1, WithFields DEF s, new
<1>. HIDE DEF new
<1>. QED  BY <1>1, <1>2 DEF Moves

(***************************************************************************)
(* A step that lists what is left to apply, and one that applies it.       *)
(***************************************************************************)
LEMMA LeavesTo ==
  ASSUME TypeOK, NEW r \in Runs, Active(r), NEW at \in Steps, NEW x \in SUBSET Items,
         \/ run' = [run EXCEPT ![r].at = at, ![r].left = x]
         \/ at = run[r].at /\ run' = [run EXCEPT ![r].left = x]
  PROVE  /\ Moves(r, run'[r])
         /\ IsWith(run'[r], run[r], at, run[r].todo, run[r].job, run[r].tenant,
                   run[r].password, run[r].ca, x)
<1>0. run[r] \in RunState
  BY RunType
<1>. DEFINE s == run[r]
            new == With(s, at, s.todo, s.job, s.tenant, s.password, s.ca, x)
<1>1. Moves(r, new)
  <2>1. CASE run' = [run EXCEPT ![r].at = at, ![r].left = x]
    BY <2>1, MoveForms
  <2>2. CASE at = run[r].at /\ run' = [run EXCEPT ![r].left = x]
    BY <2>2, MoveForms
  <2>. QED  BY <2>1, <2>2
<1>2. IsWith(new, s, at, s.todo, s.job, s.tenant, s.password, s.ca, x)
  <2>1. /\ s.todo \in SUBSET Tenants /\ s.job \in 1..3 /\ s.tenant \in Tenants \cup {None}
        /\ s.password \in Runs \cup {None} /\ s.ca \in Nat
    BY <1>0 DEF RunState
  <2>. HIDE DEF s
  <2>. QED  BY <1>0, <2>1, WithFields DEF s, new
<1>. HIDE DEF new
<1>. QED  BY <1>1, <1>2 DEF Moves

-----------------------------------------------------------------------------
\* On with the same tenant of the same command, or with the command's opening.
Stays(s, new) ==
  /\ new \in RunState /\ PlacedAt(new) /\ new.plan = s.plan /\ new.manifest = s.manifest
  /\ new.todo = s.todo /\ new.job = s.job /\ new.tenant = s.tenant
  /\ new.at \in PerTenant <=> s.at \in PerTenant
  /\ s.at \notin {"list", "assign", "write", "replan", "mark"} /\ new.at # "mark"

\* The ways a step leads.
Leads(s, new) ==
  \/ new = Idle
  \/ Stays(s, new)
  \/ /\ s.at = "list"
     /\ TurnsTo(s, IF s.plan[s.job] = "tenants" THEN Demo ELSE exists, new)
  \/ s.at \in {"assign", "write", "replan"} /\ TurnsTo(s, s.todo, new)

(***************************************************************************)
(* Every step of a run leads one of these ways, and moves no other run.    *)
(***************************************************************************)
LEMMA StepLeads ==
  ASSUME TypeOK, NEW r \in Runs, Active(r) => PlacedAt(run[r]), RunStep(r)
  PROVE  Active(r) /\ Moves(r, run'[r]) /\ Leads(run[r], run'[r])
<1>. DEFINE s == run[r]
<1>0. Active(r) /\ PlacedAt(s) /\ s \in RunState
  <2>1. Active(r)
    BY DEF RunStep, Active, At, List, Find, Create, Creds, Mint, Fill, PostUser, Activate, Assign,
           Import, Anchor, Signing, Generate, Write, Load, Login, Plan, Applied, Replan, Mark, Apply
  <2>. QED  BY <2>1, RunType
<1>f. ASSUME Fail(r)
      PROVE  Moves(r, run'[r]) /\ Leads(s, run'[r])
  <2>1. Moves(r, run'[r]) /\ run'[r] = Idle
    BY <1>0, <1>f, MoveForms DEF Moves
  <2>. QED  BY <2>1 DEF Leads
<1>g. ASSUME NEW at \in Steps, Goto(r, at)
      PROVE  Moves(r, run'[r]) /\ IsWith(run'[r], s, at, s.todo, s.job, s.tenant, s.password, s.ca, s.left)
  BY <1>0, <1>g, GoesTo
<1>1. CASE List(r)
  <2>1. Listed(r) = IF s.plan[s.job] = "tenants" THEN Demo ELSE exists
    <3>1. exists \subseteq Demo /\ Reserved \notin Demo
      BY ProvisionAssumption DEF TypeOK
    <3>2. {t \in exists \cup {Reserved} : t # Reserved} = exists
      BY <3>1
    <3>. QED  BY <3>2 DEF Listed, Job
  <2>2. Listed(r) \in SUBSET Demo
    BY <2>1 DEF TypeOK
  <2>3. Moves(r, run'[r]) /\ TurnsTo(s, Listed(r), run'[r])
    BY <1>0, <1>1, <2>2, Turns DEF List
  <2>. QED  BY <1>0, <1>1, <2>1, <2>3 DEF List, At, Leads
<1>2. CASE Find(r)
  <2>. DEFINE at == IF Of(r) \in exists THEN "creds" ELSE "create"
  <2>1. at \in {"creds", "create"} /\ at \in Steps /\ s.at = "find" /\ Goto(r, at)
    BY <1>2 DEF Find, At, Steps
  <2>. HIDE DEF at
  <2>. QED  BY <1>0, <1>g, <2>1 DEF IsWith, Stays, Leads, PlacedAt, PerTenant
<1>3. CASE Create(r)
  <2>1. CASE Goto(r, "creds")
    BY <1>0, <1>3, <1>g, <2>1 DEF Create, At, Steps, IsWith, Stays, Leads, PlacedAt, PerTenant
  <2>. QED  BY <1>0, <1>3, <1>f, <2>1 DEF Create
<1>4. CASE Creds(r)
  <2>0. s.at = "creds" /\ s.tenant \in Demo
    BY <1>0, <1>4 DEF Creds, At, PlacedAt, PerTenant
  <2>1. CASE file[Of(r)] = Torn
    BY <1>0, <1>4, <1>f, <2>1, ProvisionAssumption DEF Creds
  <2>2. CASE file[Of(r)] # Torn /\ file[Of(r)] = None
    BY <1>0, <1>4, <1>g, <2>0, <2>2 DEF Creds, Steps, IsWith, Stays, Leads, PlacedAt, PerTenant
  <2>3. CASE file[Of(r)] # Torn /\ file[Of(r)] # None
    <3>1. file[Of(r)] \in Runs
      BY <2>0, <2>3 DEF TypeOK, Of
    <3>2. Credentialed(r) \in {"login", "user"} /\ Credentialed(r) \in Steps
          /\ (Credentialed(r) = "login" <=> s.plan[s.job] = "catalog")
      BY DEF Credentialed, Job, Steps
    <3>3. run' = [run EXCEPT ![r].at = Credentialed(r), ![r].password = file[Of(r)]]
      BY <1>4, <2>3 DEF Creds
    <3>4. /\ Moves(r, run'[r])
          /\ IsWith(run'[r], s, Credentialed(r), s.todo, s.job, s.tenant, file[Of(r)], s.ca, s.left)
      BY <1>0, <3>1, <3>2, <3>3, ReadsTo
    <3>. QED  BY <1>0, <2>0, <3>1, <3>2, <3>4 DEF IsWith, Stays, Leads, PlacedAt, PerTenant
  <2>. QED  BY <2>1, <2>2, <2>3
<1>5. CASE Mint(r)
  BY <1>0, <1>5, <1>g DEF Mint, At, Steps, IsWith, Stays, Leads, PlacedAt, PerTenant
<1>6. CASE Fill(r)
  <2>0. s.at = "fill" /\ s.tenant \in Demo
    BY <1>0, <1>6 DEF Fill, At, PlacedAt, PerTenant
  <2>1. Credentialed(r) \in {"login", "user"} /\ Credentialed(r) \in Steps
        /\ (Credentialed(r) = "login" <=> s.plan[s.job] = "catalog")
    BY DEF Credentialed, Job, Steps
  <2>2. /\ Moves(r, run'[r])
        /\ IsWith(run'[r], s, Credentialed(r), s.todo, s.job, s.tenant, r, s.ca, s.left)
    BY <1>0, <1>6, <2>1, ReadsTo DEF Fill
  <2>. QED  BY <1>0, <2>0, <2>1, <2>2 DEF IsWith, Stays, Leads, PlacedAt, PerTenant
<1>7. CASE PostUser(r)
  BY <1>0, <1>7, <1>g DEF PostUser, At, Steps, IsWith, Stays, Leads, PlacedAt, PerTenant
<1>8. CASE Activate(r)
  BY <1>0, <1>8, <1>g DEF Activate, At, Steps, IsWith, Stays, Leads, PlacedAt, PerTenant
<1>t. ASSUME s.at \in {"assign", "write", "replan"}, Turn(r, s.todo)
      PROVE  Moves(r, run'[r]) /\ Leads(s, run'[r])
  <2>1. s.todo \in SUBSET Demo
    BY <1>0 DEF PlacedAt
  <2>. QED  BY <1>0, <1>t, <2>1, Turns DEF Leads
<1>9. CASE Assign(r)
  BY <1>0, <1>9, <1>t DEF Assign, At
<1>10. CASE Import(r)
  BY <1>0, <1>10, <1>g DEF Import, At, Steps, IsWith, Stays, Leads, PlacedAt, PerTenant
<1>11. CASE Anchor(r)
  BY <1>0, <1>11, <1>g DEF Anchor, At, Steps, IsWith, Stays, Leads, PlacedAt, PerTenant
<1>12. CASE Signing(r)
  <2>1. CASE run' = [run EXCEPT ![r].at = "write", ![r].ca = 1]
    <3>1. /\ Moves(r, run'[r])
          /\ IsWith(run'[r], s, "write", s.todo, s.job, s.tenant, s.password, 1, s.left)
      BY <1>0, <2>1, SignsTo DEF Steps
    <3>. QED  BY <1>0, <1>12, <3>1 DEF Signing, At, IsWith, Stays, Leads, PlacedAt, PerTenant
  <2>2. CASE Goto(r, "generate")
    BY <1>0, <1>12, <1>g, <2>2 DEF Signing, At, Steps, IsWith, Stays, Leads, PlacedAt, PerTenant
  <2>. QED  BY <1>12, <2>1, <2>2 DEF Signing
<1>13. CASE Generate(r)
  <2>0. s.at = "generate" /\ s.tenant \in Demo
    BY <1>0, <1>13 DEF Generate, At, PlacedAt, PerTenant
  <2>1. cas[Of(r)] \in Nat
    BY <2>0 DEF TypeOK, Tenants, Of
  <2>2. cas[Of(r)] + 1 \in Nat
    BY <2>1
  <2>3. /\ Moves(r, run'[r])
        /\ IsWith(run'[r], s, "write", s.todo, s.job, s.tenant, s.password, cas[Of(r)] + 1, s.left)
    BY <1>0, <1>13, <2>2, SignsTo DEF Generate, Steps
  <2>. QED  BY <1>0, <2>0, <2>3 DEF IsWith, Stays, Leads, PlacedAt, PerTenant
<1>14. CASE Write(r)
  BY <1>0, <1>14, <1>t DEF Write, At
<1>15. CASE Load(r)
  <2>0. s.at = "load"
    BY <1>15 DEF Load, At
  <2>1. CASE Valid(s.manifest)
    BY <1>0, <1>15, <1>g, <2>0, <2>1 DEF Load, Steps, IsWith, Stays, Leads, PlacedAt, PerTenant
  <2>. QED  BY <1>15, <1>f, <2>1, <1>0 DEF Load
<1>16. CASE Login(r)
  <2>1. CASE Goto(r, "plan")
    BY <1>0, <1>16, <1>g, <2>1 DEF Login, At, Steps, IsWith, Stays, Leads, PlacedAt, PerTenant
  <2>. QED  BY <1>16, <1>f, <2>1, <1>0 DEF Login
<1>17. CASE Plan(r)
  <2>0. s.at = "plan" /\ s.manifest \in Catalogs
    BY <1>0, <1>17 DEF Plan, At, PlacedAt
  <2>1. CASE user[Of(r)].admin
    <3>. DEFINE x == Differs(Of(r), s.manifest)
    <3>1. x \subseteq ToManifest(s.manifest) /\ x \in SUBSET Items
      BY <2>0 DEF Differs, Items
    <3>2. run' = [run EXCEPT ![r].at = "apply", ![r].left = x]
      BY <1>17, <2>1 DEF Plan
    <3>. HIDE DEF x
    <3>3. /\ Moves(r, run'[r])
          /\ IsWith(run'[r], s, "apply", s.todo, s.job, s.tenant, s.password, s.ca, x)
      BY <1>0, <3>1, <3>2, LeavesTo DEF Steps
    <3>. QED  BY <1>0, <2>0, <3>1, <3>3 DEF IsWith, Stays, Leads, PlacedAt, PerTenant
  <2>. QED  BY <1>17, <1>f, <2>1, <1>0 DEF Plan
<1>18. CASE Applied(r)
  BY <1>0, <1>18, <1>g DEF Applied, At, Steps, IsWith, Stays, Leads, PlacedAt, PerTenant
<1>19. CASE Replan(r)
  BY <1>0, <1>19, <1>f, <1>t DEF Replan, At
<1>20. CASE Mark(r)
  BY <1>0, <1>20, <1>f DEF Mark, Fail
<1>21. CASE \E item \in Items : Apply(r, item)
  <2>1. PICK item \in Items : Apply(r, item)
    BY <1>21
  <2>. DEFINE x == s.left \ {item}
  <2>2. s.at = "apply" /\ run' = [run EXCEPT ![r].left = x]
    BY <2>1 DEF Apply, At
  <2>3. x \in SUBSET Items /\ x \subseteq ToManifest(s.manifest)
    BY <1>0, <2>2 DEF RunState, PlacedAt
  <2>. HIDE DEF x
  <2>4. /\ Moves(r, run'[r])
        /\ IsWith(run'[r], s, "apply", s.todo, s.job, s.tenant, s.password, s.ca, x)
    BY <1>0, <2>2, <2>3, LeavesTo DEF Steps
  <2>. QED  BY <1>0, <2>2, <2>3, <2>4 DEF IsWith, Stays, Leads, PlacedAt, PerTenant
<1>. QED  BY <1>1, <1>2, <1>3, <1>4, <1>5, <1>6, <1>7, <1>8, <1>9, <1>10, <1>11, <1>12, <1>13,
             <1>14, <1>15, <1>16, <1>17, <1>18, <1>19, <1>20, <1>21, <1>0 DEF RunStep

-----------------------------------------------------------------------------
\* TypeOK, but for the runs.
WorldOK ==
  /\ root \in 1..MaxRoots /\ imported \subseteq 1..root /\ anchored \subseteq imported
  /\ exists \subseteq Demo
  /\ user \in [Demo -> User \cup {None}]
  /\ cas \in [Tenants -> Nat] /\ beneath \in [Tenants -> SUBSET (1..root)]
  /\ held \in [Demo -> SUBSET Items]
  /\ file \in [Demo -> Runs \cup {None, Torn}]
  /\ caFile \in [Demo -> {None, Torn, Stale} \cup Nat]
  /\ crowded \in BOOLEAN /\ faults \in 0..MaxFaults

\* An administrator is an administrator still, with the password it had.
Outlasts(u, new) ==
  u # None =>
    new # None /\ new.password = u.password /\ (u.active => new.active) /\ (u.admin => new.admin)

\* What a step of a run never takes away.
Grows ==
  /\ root' = root /\ imported \subseteq imported' /\ anchored \subseteq anchored'
  /\ exists \subseteq exists'
  /\ \A t \in Demo : Outlasts(user[t], user'[t]) /\ held[t] \subseteq held'[t]
  /\ crowded' = crowded /\ faults' = faults

(***************************************************************************)
(* The three ways an administrator's record is made or changed.            *)
(***************************************************************************)
LEMMA UserRecords ==
  /\ \A p \in Runs : [password |-> p, active |-> FALSE, admin |-> FALSE] \in User
  /\ \A u \in User :
       /\ u # None
       /\ [u EXCEPT !.active = TRUE] \in User /\ Outlasts(u, [u EXCEPT !.active = TRUE])
       /\ [u EXCEPT !.active = TRUE].active
       /\ [u EXCEPT !.admin = TRUE] \in User /\ Outlasts(u, [u EXCEPT !.admin = TRUE])
       /\ [u EXCEPT !.admin = TRUE].admin
<1>1. \A p \in Runs : [password |-> p, active |-> FALSE, admin |-> FALSE] \in User
  BY DEF User
<1>2. ASSUME NEW u \in User
      PROVE  /\ u # None
             /\ [u EXCEPT !.active = TRUE] \in User /\ Outlasts(u, [u EXCEPT !.active = TRUE])
             /\ [u EXCEPT !.active = TRUE].active
             /\ [u EXCEPT !.admin = TRUE] \in User /\ Outlasts(u, [u EXCEPT !.admin = TRUE])
             /\ [u EXCEPT !.admin = TRUE].admin
  <2>1. \A v \in User : v # None
    BY ProvisionAssumption
  <2>2. [u EXCEPT !.active = TRUE] \in User /\ [u EXCEPT !.admin = TRUE] \in User
    BY DEF User
  <2>3. /\ [u EXCEPT !.active = TRUE].active = TRUE /\ [u EXCEPT !.active = TRUE].admin = u.admin
        /\ [u EXCEPT !.active = TRUE].password = u.password
    BY DEF User
  <2>4. /\ [u EXCEPT !.admin = TRUE].admin = TRUE /\ [u EXCEPT !.admin = TRUE].active = u.active
        /\ [u EXCEPT !.admin = TRUE].password = u.password
    BY DEF User
  <2>. DEFINE a == [u EXCEPT !.active = TRUE]
              b == [u EXCEPT !.admin = TRUE]
  <2>. HIDE DEF a, b
  <2>5. a # None /\ b # None
    BY <2>1, <2>2 DEF a, b
  <2>6. Outlasts(u, a) /\ a.active
    BY <2>3, <2>5, Zenon DEF Outlasts, a
  <2>7. Outlasts(u, b) /\ b.admin
    BY <2>4, <2>5, Zenon DEF Outlasts, b
  <2>. QED  BY <2>1, <2>2, <2>6, <2>7 DEF a, b
<1>. QED  BY <1>1, <1>2

(***************************************************************************)
(* The two steps that change an administrator find one there.              *)
(***************************************************************************)
LEMMA UserStep ==
  ASSUME TypeOK, NEW t \in Demo, NEW u \in User, user' = [user EXCEPT ![t] = u],
         Outlasts(user[t], u)
  PROVE  /\ user' \in [Demo -> User \cup {None}] /\ user'[t] = u
         /\ \A x \in Demo : Outlasts(user[x], user'[x])
<1>1. /\ user' \in [Demo -> User \cup {None}] /\ user'[t] = u
      /\ \A x \in Demo \ {t} : user'[x] = user[x]
  BY DEF TypeOK
<1>2. ASSUME NEW x \in Demo PROVE Outlasts(user[x], user'[x])
  <2>1. CASE x = t
    BY <1>1, <2>1
  <2>2. CASE x # t
    BY <1>1, <2>2 DEF Outlasts
  <2>. QED  BY <2>1, <2>2
<1>. QED  BY <1>1, <1>2

(***************************************************************************)
(* A step of a run leaves everything well typed and takes nothing away.    *)
(***************************************************************************)
LEMMA StepGrows ==
  ASSUME TypeOK, Rooted, NEW r \in Runs, Active(r) => PlacedAt(run[r]), RunStep(r)
  PROVE  WorldOK' /\ Grows
<1>. DEFINE t == Of(r)
<1>0. /\ root' = root /\ crowded' = crowded /\ faults' = faults
      /\ WorldOK
  <2>1. Calls
    BY DEF RunStep, List, Find, Create, Creds, Mint, Fill, PostUser, Activate, Assign, Import,
           Anchor, Signing, Generate, Write, Load, Login, Plan, Applied, Replan, Mark, Apply, Calls
  <2>. QED  BY <2>1 DEF Calls, TypeOK, WorldOK
<1>p. ASSUME run[r].at \in PerTenant
      PROVE  t \in Demo /\ t \in Tenants
  BY <1>p, RunType DEF PlacedAt, Of, Tenants, Active, PerTenant
<1>u. ASSUME UNCHANGED user PROVE \A x \in Demo : Outlasts(user[x], user'[x])
  BY <1>u DEF Outlasts
<1>s. ASSUME UNCHANGED <<axiam, file, caFile>> PROVE WorldOK' /\ Grows
  BY <1>0, <1>s, <1>u DEF axiam, orgside, WorldOK, Grows
<1>1. CASE Create(r)
  <2>1. t \in Demo
    BY <1>1, <1>p DEF Create, At, PerTenant
  <2>. QED  BY <1>0, <1>1, <1>u, <2>1 DEF Create, WorldOK, Grows
<1>2. CASE Mint(r)
  <2>1. t \in Demo
    BY <1>2, <1>p DEF Mint, At, PerTenant
  <2>2. file' \in [Demo -> Runs \cup {None, Torn}]
    BY <1>0, <1>2, <2>1 DEF Mint, WorldOK
  <2>. QED  BY <1>0, <1>2, <1>u, <2>2 DEF Mint, axiam, orgside, WorldOK, Grows
<1>3. CASE Fill(r)
  <2>1. t \in Demo
    BY <1>3, <1>p DEF Fill, At, PerTenant
  <2>2. file' \in [Demo -> Runs \cup {None, Torn}]
    BY <1>0, <1>3, <2>1 DEF Fill, WorldOK
  <2>. QED  BY <1>0, <1>3, <1>u, <2>2 DEF Fill, axiam, orgside, WorldOK, Grows
<1>4. CASE PostUser(r)
  <2>1. t \in Demo /\ run[r].password \in Runs
    <3>1. run[r].at = "user"
      BY <1>4 DEF PostUser, At
    <3>. QED  BY <1>p, <3>1 DEF PlacedAt, Active, PerTenant
  <2>. DEFINE u == IF user[t] = None THEN [password |-> run[r].password, active |-> FALSE, admin |-> FALSE]
                   ELSE user[t]
  <2>2. u \in User /\ Outlasts(user[t], u)
    BY <2>1, UserRecords DEF TypeOK, Outlasts
  <2>3. user' = [user EXCEPT ![t] = u]
    BY <1>4 DEF PostUser
  <2>. HIDE DEF u, t
  <2>4. user' \in [Demo -> User \cup {None}] /\ \A x \in Demo : Outlasts(user[x], user'[x])
    BY <2>1, <2>2, <2>3, UserStep
  <2>. QED  BY <1>0, <1>4, <2>4 DEF PostUser, orgside, WorldOK, Grows
<1>5. CASE Activate(r)
  <2>1. t \in Demo /\ user[t] \in User
    <3>1. run[r].at = "activate"
      BY <1>5 DEF Activate, At
    <3>. QED  BY <1>p, <3>1 DEF PerTenant, Rooted, RootedAt, Active, TypeOK, Of
  <2>. DEFINE u == [user[t] EXCEPT !.active = TRUE]
  <2>2. u \in User /\ Outlasts(user[t], u)
    BY <2>1, UserRecords
  <2>3. user' = [user EXCEPT ![t] = u]
    BY <1>5 DEF Activate
  <2>. HIDE DEF u, t
  <2>4. user' \in [Demo -> User \cup {None}] /\ \A x \in Demo : Outlasts(user[x], user'[x])
    BY <2>1, <2>2, <2>3, UserStep
  <2>. QED  BY <1>0, <1>5, <2>4 DEF Activate, orgside, WorldOK, Grows
<1>6. CASE Assign(r)
  <2>1. t \in Demo /\ user[t] \in User
    <3>1. run[r].at = "assign"
      BY <1>6 DEF Assign, At
    <3>. QED  BY <1>p, <3>1 DEF PerTenant, Rooted, RootedAt, Active, TypeOK, Of
  <2>. DEFINE u == [user[t] EXCEPT !.admin = TRUE]
  <2>2. u \in User /\ Outlasts(user[t], u)
    BY <2>1, UserRecords
  <2>3. user' = [user EXCEPT ![t] = u]
    BY <1>6 DEF Assign
  <2>. HIDE DEF u, t
  <2>4. user' \in [Demo -> User \cup {None}] /\ \A x \in Demo : Outlasts(user[x], user'[x])
    BY <2>1, <2>2, <2>3, UserStep
  <2>. QED  BY <1>0, <1>6, <2>4 DEF Assign, orgside, WorldOK, Grows
<1>7. CASE Import(r)
  <2>1. imported' \subseteq 1..root
    BY <1>0, <1>7, ProvisionAssumption DEF Import, WorldOK
  <2>. QED  BY <1>0, <1>7, <1>u, <2>1 DEF Import, WorldOK, Grows
<1>8. CASE Anchor(r)
  <2>1. root \in imported
    BY <1>8 DEF Rooted, RootedAt, Active, At, Anchor
  <2>. QED  BY <1>0, <1>8, <1>u, <2>1 DEF Anchor, WorldOK, Grows
<1>9. CASE Generate(r)
  <2>1. t \in Tenants
    BY <1>9, <1>p DEF Generate, At, PerTenant
  <2>2. cas' \in [Tenants -> Nat]
    BY <1>0, <1>9, <2>1 DEF Generate, WorldOK
  <2>3. beneath' \in [Tenants -> SUBSET (1..root)]
    <3>1. root \in 1..root
      BY <1>0, ProvisionAssumption DEF WorldOK
    <3>. QED  BY <1>0, <1>9, <2>1, <3>1 DEF Generate, WorldOK
  <2>. QED  BY <1>0, <1>9, <1>u, <2>2, <2>3 DEF Generate, WorldOK, Grows
<1>10. CASE Write(r)
  <2>1. t \in Demo /\ run[r].ca \in Nat
    BY <1>10, <1>p, RunType DEF Write, At, PerTenant, Active, RunState
  <2>2. caFile' \in [Demo -> {None, Torn, Stale} \cup Nat]
    BY <1>0, <1>10, <2>1 DEF Write, WorldOK
  <2>. QED  BY <1>0, <1>10, <1>u, <2>2 DEF Write, axiam, orgside, WorldOK, Grows
<1>11. CASE \E item \in Items : Apply(r, item)
  <2>1. PICK item \in Items : Apply(r, item)
    BY <1>11
  <2>2. t \in Demo
    BY <2>1, <1>p DEF Apply, At, PerTenant
  <2>3. held' = [held EXCEPT ![t] = held[t] \cup {item}]
    BY <2>1 DEF Apply
  <2>4. held' \in [Demo -> SUBSET Items] /\ \A x \in Demo : held[x] \subseteq held'[x]
    BY <1>0, <2>2, <2>3 DEF WorldOK
  <2>. QED  BY <1>0, <2>1, <1>u, <2>4 DEF Apply, orgside, WorldOK, Grows
<1>. QED  BY <1>s, <1>1, <1>2, <1>3, <1>4, <1>5, <1>6, <1>7, <1>8, <1>9, <1>10, <1>11
          DEF RunStep, List, Find, Creds, Signing, Load, Login, Plan, Applied, Replan, Mark

-----------------------------------------------------------------------------
(***************************************************************************)
(* What a run found or made is still there after a step of its own.        *)
(***************************************************************************)
LEMMA StepRooted ==
  ASSUME TypeOK, Rooted, NEW r \in Runs, Active(r) => PlacedAt(run[r]), RunStep(r), Active(r)'
  PROVE  RootedAt(run[r])'
<1>. DEFINE s == run[r]
            new == run'[r]
            t == s.tenant
<1>0. /\ Active(r) /\ s \in RunState /\ PlacedAt(s) /\ RootedAt(s)
      /\ new # Idle /\ Leads(s, new) /\ Grows
  BY StepLeads, StepGrows, RunType DEF Rooted, Active, Idle
<1>p. ASSUME s.at \in PerTenant
      PROVE  t \in Demo
  BY <1>0, <1>p DEF PlacedAt
<1>g. ASSUME NEW at \in Steps, Goto(r, at)
      PROVE  new.at = at
  BY <1>0, <1>g, GoesTo DEF IsWith
<1>h. ASSUME Stays(s, new), new.at \notin {"anchor", "activate", "assign"},
             s.at \notin {"import", "anchor", "find", "create"}
      PROVE  RootedAt(run[r])'
  BY <1>0, <1>h DEF Stays, RootedAt, Grows
<1>t. ASSUME TurnsTo(s, IF s.plan[s.job] = "tenants" THEN Demo ELSE exists, new)
             \/ TurnsTo(s, s.todo, new),
             s.at \notin {"import", "anchor"}
      PROVE  RootedAt(run[r])'
  <2>1. /\ s.job \in 1..3 /\ new.job \in 1..3 /\ new.plan = s.plan
        /\ new.at \notin {"anchor", "activate", "assign"}
        /\ new.at \in PerTenant => new.at = First(s.plan[s.job]) /\ new.job = s.job
        /\ new.job # s.job => new.job = s.job + 1
        /\ new.job # s.job /\ new.at # "import" => s.plan[new.job] # "pki"
    BY <1>0, <1>t DEF TurnsTo, PerTenant, RunState
  <2>2. s.plan[s.job] = "tenants" /\ new.job = s.job => new.at \notin PerTenant \ {"find", "create"}
    BY <2>1 DEF First, PerTenant
  <2>3. ASSUME new.plan[new.job] = "pki", new.at \notin {"import", "anchor"}
        PROVE  root \in anchored
    BY <1>0, <1>t, <2>1, <2>3 DEF RootedAt
  <2>4. ASSUME NEW k \in 1..new.job - 1, new.plan[k] = "pki"
        PROVE  root \in anchored
    <3>1. k \in 1..s.job - 1 \/ k = s.job
      BY <2>1
    <3>. QED  BY <1>0, <1>t, <2>1, <2>4, <3>1 DEF RootedAt
  <2>5. root \in anchored => root' \in anchored'
    BY <1>0 DEF Grows
  <2>. QED  BY <2>1, <2>2, <2>3, <2>4, <2>5 DEF RootedAt
<1>l. ASSUME s.at \notin {"import", "anchor", "find", "create"},
             new.at \notin {"anchor", "activate", "assign"}
      PROVE  RootedAt(run[r])'
  BY <1>0, <1>h, <1>t, <1>l DEF Leads
<1>n. ASSUME s.at \notin {"list", "assign", "write", "replan"}
      PROVE  Stays(s, new)
  BY <1>0, <1>n DEF Leads
<1>1. CASE Find(r)
  <2>. DEFINE at == IF Of(r) \in exists THEN "creds" ELSE "create"
  <2>1. s.at = "find" /\ Goto(r, at) /\ at \in Steps
    BY <1>1 DEF Find, At, Steps
  <2>2. new.at = at
    BY <1>g, <2>1
  <2>3. Stays(s, new)
    BY <1>n, <2>1
  <2>4. new.at \in PerTenant \ {"find", "create"} => t \in exists
    BY <2>2 DEF Of
  <2>. QED  BY <1>0, <2>1, <2>2, <2>3, <2>4 DEF Stays, RootedAt, Grows
<1>2. CASE Create(r)
  <2>1. s.at = "create" /\ t \in exists'
    BY <1>2 DEF Create, At, Of
  <2>2. new.at = "creds"
    BY <1>0, <1>2, <1>g, MoveForms DEF Create, Moves, Steps
  <2>3. Stays(s, new)
    BY <1>n, <2>1
  <2>. QED  BY <1>0, <2>1, <2>2, <2>3 DEF Stays, RootedAt, Grows
<1>3. CASE PostUser(r)
  <2>1. s.at = "user" /\ new.at = "activate" /\ t \in Demo
    BY <1>3, <1>g, <1>p DEF PostUser, At, Steps, PerTenant
  <2>2. Stays(s, new)
    BY <1>n, <2>1
  <2>3. user'[t] # None
    <3>. DEFINE u == [password |-> s.password, active |-> FALSE, admin |-> FALSE]
    <3>1. s.password \in Runs
      BY <1>0, <2>1 DEF PlacedAt
    <3>2. u # None
      BY <3>1, UserRecords
    <3>3. user'[t] = IF user[t] = None THEN u ELSE user[t]
      BY <1>3, <2>1 DEF PostUser, TypeOK, Of
    <3>. QED  BY <3>2, <3>3
  <2>. QED  BY <1>0, <2>1, <2>2, <2>3 DEF Stays, RootedAt, Grows
<1>4. CASE Activate(r)
  <2>1. s.at = "activate" /\ new.at = "assign" /\ t \in Demo
    BY <1>4, <1>g, <1>p DEF Activate, At, Steps, PerTenant
  <2>2. Stays(s, new)
    BY <1>n, <2>1
  <2>3. user'[t] # None /\ user'[t].active
    <3>1. user[t] \in User
      BY <1>0, <2>1 DEF RootedAt, TypeOK
    <3>. DEFINE u == [user[t] EXCEPT !.active = TRUE]
    <3>2. u # None /\ u.active
      BY <3>1, UserRecords DEF Outlasts
    <3>3. user'[t] = u
      BY <1>4, <2>1 DEF Activate, TypeOK, Of
    <3>. QED  BY <3>2, <3>3
  <2>. QED  BY <1>0, <2>1, <2>2, <2>3 DEF Stays, RootedAt, Grows
<1>5. CASE Import(r)
  <2>1. s.at = "import" /\ new.at = "anchor" /\ root \in imported'
    BY <1>5, <1>g DEF Import, At, Steps
  <2>2. Stays(s, new)
    BY <1>n, <2>1
  <2>. QED  BY <1>0, <2>1, <2>2 DEF Stays, RootedAt, Grows
<1>6. CASE Anchor(r)
  <2>1. s.at = "anchor" /\ new.at = "list" /\ root \in anchored'
    BY <1>6, <1>g DEF Anchor, At, Steps
  <2>2. Stays(s, new)
    BY <1>n, <2>1
  <2>. QED  BY <1>0, <2>1, <2>2 DEF Stays, RootedAt, Grows, PerTenant
<1>7. CASE List(r) \/ Assign(r) \/ Write(r) \/ Replan(r)
  <2>1. s.at \in {"list", "assign", "write", "replan"}
    BY <1>7 DEF List, Assign, Write, Replan, At
  <2>. QED  BY <1>0, <1>t, <2>1 DEF Leads, Stays
<1>8. CASE Creds(r) \/ Fill(r)
  <2>1. s.at \in {"creds", "fill"} /\ t \in Demo
    BY <1>8, <1>p DEF Creds, Fill, At, PerTenant
  <2>2. Stays(s, new)
    BY <1>n, <2>1
  <2>3. new.at \in {"mint", "user", "login"}
    <3>1. Credentialed(r) \in {"user", "login"} /\ Credentialed(r) \in Steps
      BY DEF Credentialed, Steps
    <3>2. ~Fail(r)
      BY <1>0, MoveForms DEF Moves
    <3>3. CASE Goto(r, "mint")
      BY <1>g, <3>3 DEF Steps
    <3>4. CASE \E x \in Runs : run' = [run EXCEPT ![r].at = Credentialed(r), ![r].password = x]
      <4>1. PICK x \in Runs : run' = [run EXCEPT ![r].at = Credentialed(r), ![r].password = x]
        BY <3>4
      <4>2. new.at = Credentialed(r)
        BY <1>0, <3>1, <4>1, ReadsTo DEF IsWith
      <4>. QED  BY <3>1, <4>2
    <3>5. CASE Creds(r)
      <4>1. file[Of(r)] \in Runs \cup {None, Torn}
        BY <2>1 DEF TypeOK, Of
      <4>. QED  BY <3>2, <3>3, <3>4, <3>5, <4>1, ProvisionAssumption DEF Creds
    <3>. QED  BY <1>8, <3>4, <3>5 DEF Fill
  <2>. QED  BY <1>h, <2>1, <2>2, <2>3
<1>9. CASE Mint(r)
  BY <1>9, <1>g, <1>l DEF Mint, At, Steps
<1>10. CASE Signing(r) \/ Generate(r)
  <2>1. s.at \in {"signing", "generate"} /\ t \in Demo
    BY <1>10, <1>p DEF Signing, Generate, At, PerTenant
  <2>2. new.at \in {"write", "generate"}
    <3>1. cas[Of(r)] + 1 \in Nat
      BY <2>1 DEF TypeOK, Tenants, Of
    <3>2. CASE Goto(r, "generate")
      BY <1>g, <3>2 DEF Steps
    <3>3. CASE \E x \in Nat : run' = [run EXCEPT ![r].at = "write", ![r].ca = x]
      BY <1>0, <3>3, SignsTo DEF IsWith, Steps
    <3>. QED  BY <1>10, <3>1, <3>2, <3>3 DEF Signing, Generate
  <2>. QED  BY <1>l, <2>1, <2>2
<1>11. CASE Load(r) \/ Login(r) \/ Applied(r)
  <2>1. ~Fail(r)
    BY <1>0, MoveForms DEF Moves
  <2>2. s.at \in {"load", "login", "apply"} /\ new.at \in {"creds", "plan", "replan"}
    BY <1>11, <1>g, <2>1 DEF Load, Login, Applied, At, Steps
  <2>. QED  BY <1>l, <2>2
<1>12. CASE Plan(r)
  <2>1. ~Fail(r)
    BY <1>0, MoveForms DEF Moves
  <2>2. s.at = "plan" /\ s.manifest \in Catalogs
    BY <1>0, <1>12 DEF Plan, At, PlacedAt
  <2>. DEFINE x == Differs(Of(r), s.manifest)
  <2>3. x \in SUBSET Items /\ run' = [run EXCEPT ![r].at = "apply", ![r].left = x]
    BY <1>12, <2>1, <2>2 DEF Plan, Differs, Items
  <2>. HIDE DEF x
  <2>4. new.at = "apply"
    BY <1>0, <2>3, LeavesTo DEF IsWith, Steps
  <2>. QED  BY <1>l, <2>2, <2>4
<1>13. CASE \E item \in Items : Apply(r, item)
  <2>1. PICK item \in Items : Apply(r, item)
    BY <1>13
  <2>. DEFINE x == s.left \ {item}
  <2>2. s.at = "apply" /\ run' = [run EXCEPT ![r].left = x]
    BY <2>1 DEF Apply, At
  <2>3. x \in SUBSET Items
    BY <1>0 DEF RunState
  <2>. HIDE DEF x
  <2>4. new.at = "apply"
    BY <1>0, <2>2, <2>3, LeavesTo DEF IsWith, Steps
  <2>. QED  BY <1>l, <2>2, <2>4
<1>14. CASE Mark(r)
  BY <1>0, <1>14, MoveForms DEF Mark, Fail, Moves
<1>. QED  BY <1>1, <1>2, <1>3, <1>4, <1>5, <1>6, <1>7, <1>8, <1>9, <1>10, <1>11, <1>12, <1>13,
             <1>14 DEF RunStep

-----------------------------------------------------------------------------
\* Types and places, on which the rest is built.
Core == TypeOK /\ Placed /\ Rooted

(***************************************************************************)
(* Initially nothing runs and AXIAM is empty.                              *)
(***************************************************************************)
LEMMA CoreStarts ==
  ASSUME Init
  PROVE  Core /\ Quiet
<1>1. WorldOK
  <2>1. /\ user \in [Demo -> User \cup {None}] /\ cas \in [Tenants -> Nat]
        /\ beneath \in [Tenants -> SUBSET (1..root)]
        /\ held \in [Demo -> SUBSET Items]
        /\ file \in [Demo -> Runs \cup {None, Torn}]
        /\ caFile \in [Demo -> {None, Torn, Stale} \cup Nat]
    BY DEF Init
  <2>2. root \in 1..MaxRoots /\ faults \in 0..MaxFaults
    <3>1. MaxRoots \in Nat \ {0} /\ MaxFaults \in Nat
      BY ProvisionAssumption
    <3>. QED  BY <3>1 DEF Init
  <2>3. crowded \in BOOLEAN
    BY DEF Init
  <2>. QED  BY <2>1, <2>2, <2>3 DEF Init, WorldOK
<1>2. \A r \in Runs : run[r] = Idle
  BY DEF Init
<1>3. run \in [Runs -> RunState \cup {Idle}]
  BY DEF Init
<1>4. Quiet
  BY <1>2 DEF Quiet, Active, Idle
<1>. QED  BY <1>1, <1>3, <1>4 DEF Core, TypeOK, WorldOK, Placed, Rooted, Quiet

(***************************************************************************)
(* Every step of a run keeps them.                                         *)
(***************************************************************************)
LEMMA CoreStep ==
  ASSUME Core, NEW r \in Runs, RunStep(r)
  PROVE  Core'
<1>0. TypeOK /\ Placed /\ Rooted
  BY DEF Core
<1>1. Active(r) /\ Moves(r, run'[r]) /\ Leads(run[r], run'[r])
  BY <1>0, StepLeads DEF Placed
<1>2. WorldOK' /\ Grows
  BY <1>0, StepGrows DEF Placed
<1>3. run'[r] = Idle \/ (run'[r] \in RunState /\ PlacedAt(run'[r]))
  BY <1>1 DEF Leads, Stays, TurnsTo
<1>4. TypeOK'
  <2>1. run' \in [Runs -> RunState \cup {Idle}]
    BY <1>0, <1>1, <1>3 DEF Moves, TypeOK
  <2>. QED  BY <1>2, <2>1 DEF WorldOK, TypeOK
<1>5. Placed'
  <2>. SUFFICES ASSUME NEW q \in Runs, Active(q)'
                PROVE  PlacedAt(run'[q])
    BY DEF Placed, PlacedAt
  <2>1. CASE q = r
    BY <1>3, <2>1 DEF Active, Idle
  <2>2. CASE q # r
    BY <1>0, <1>1, <2>2 DEF Moves, Placed, Active
  <2>. QED  BY <2>1, <2>2
<1>6. Rooted'
  <2>. SUFFICES ASSUME NEW q \in Runs, Active(q)'
                PROVE  RootedAt(run[q])'
    BY DEF Rooted
  <2>1. CASE q = r
    BY <1>0, <2>1, StepRooted DEF Placed
  <2>2. CASE q # r
    <3>1. run'[q] = run[q] /\ RootedAt(run[q]) /\ PlacedAt(run[q])
      BY <1>0, <1>1, <2>2 DEF Moves, Rooted, Placed, Active
    <3>. DEFINE s == run[q]
    <3>2. /\ s.at \in {"activate", "assign"} => user'[s.tenant] # None
          /\ s.at = "assign" => user'[s.tenant].active
      BY <1>2, <3>1, Zenon DEF RootedAt, PlacedAt, PerTenant, Grows, Outlasts
    <3>. QED  BY <1>2, <3>1, <3>2 DEF RootedAt, Grows
  <2>. QED  BY <2>1, <2>2
<1>. QED  BY <1>4, <1>5, <1>6 DEF Core

(***************************************************************************)
(* A run that starts has nothing yet, and is at its first command.         *)
(***************************************************************************)
LEMMA Opens ==
  ASSUME TypeOK, NEW r \in Runs, NEW plan \in Plans, Start(r, plan)
  PROVE  /\ ~Active(r) /\ Moves(r, run'[r]) /\ run'[r] \in RunState /\ PlacedAt(run'[r])
         /\ run'[r].plan = plan /\ run'[r].job = 1 /\ run'[r].at = Opening(plan[1])
         /\ run'[r].at \in {"list", "import"}
<1>. PICK c \in IF plan = <<"catalog">> THEN Catalogs ELSE {None} :
       run' = [run EXCEPT ![r] =
         [at |-> Opening(plan[1]), plan |-> plan, job |-> 1, todo |-> {}, tenant |-> None,
          password |-> None, ca |-> 0, manifest |-> c, left |-> {}]]
  BY DEF Start
<1>. DEFINE at == Opening(plan[1])
            new == [at |-> at, plan |-> plan, job |-> 1, todo |-> {}, tenant |-> None,
                    password |-> None, ca |-> 0, manifest |-> c, left |-> {}]
<1>1. at \in {"list", "import"} /\ (at = "import" => plan[1] = "pki")
  BY DEF Opening
<1>2. Len(plan) \in 1..3 /\ (plan[1] = "catalog" => plan = <<"catalog">>)
  BY DEF Plans
<1>3. c \in Catalogs \cup {None} /\ (plan[1] = "catalog" => c \in Catalogs)
  BY <1>2
<1>4. new \in RunState
  <2>. HIDE DEF at
  <2>. QED  BY <1>1, <1>3 DEF RunState, Steps
<1>5. /\ new.at = at /\ new.plan = plan /\ new.job = 1 /\ new.todo = {} /\ new.manifest = c
  OBVIOUS
<1>6. run' = [run EXCEPT ![r] = new]
  OBVIOUS
<1>. HIDE DEF new
<1>7. PlacedAt(new)
  <2>. HIDE DEF at
  <2>. QED  BY <1>1, <1>2, <1>3, <1>5 DEF PlacedAt, PerTenant
<1>8. Moves(r, new)
  BY <1>6 DEF Moves, TypeOK
<1>. QED  BY <1>1, <1>4, <1>5, <1>7, <1>8 DEF Start, Moves

(***************************************************************************)
(* And so do a start, a run cut short, and what is done by hand.           *)
(***************************************************************************)
LEMMA CoreOther ==
  ASSUME Core,
         \/ \E r \in Runs : Cut(r) \/ \E plan \in Plans : Start(r, plan)
         \/ ByHand \/ Rotate \/ Wipe \/ UNCHANGED vars
  PROVE  Core'
<1>0. TypeOK /\ Placed /\ Rooted
  BY DEF Core
<1>1. ASSUME NEW r \in Runs, Cut(r) PROVE Core'
  <2>1. Moves(r, Idle)
    BY <1>0, <1>1 DEF Cut, Fail, Moves, TypeOK
  <2>2. \A q \in Runs : Active(q)' => q # r /\ run'[q] = run[q] /\ Active(q)
    BY <2>1 DEF Moves, Active, Idle
  <2>3. caFile' \in [Demo -> {None, Torn, Stale} \cup Nat]
    BY <1>0, <1>1 DEF Cut, TypeOK
  <2>4. run' \in [Runs -> RunState \cup {Idle}]
    BY <1>0, <2>1 DEF Moves, TypeOK
  <2>5. faults' \in 0..MaxFaults
    BY <1>0, <1>1, ProvisionAssumption DEF Cut, TypeOK
  <2>6. TypeOK'
    BY <1>0, <1>1, <2>3, <2>4, <2>5 DEF Cut, axiam, orgside, TypeOK
  <2>7. Placed'
    BY <1>0, <2>2 DEF Placed, PlacedAt
  <2>8. Rooted'
    BY <1>0, <1>1, <2>2 DEF Rooted, RootedAt, Cut, axiam, orgside
  <2>. QED  BY <2>6, <2>7, <2>8 DEF Core
<1>2. ASSUME NEW r \in Runs, NEW plan \in Plans, Start(r, plan) PROVE Core'
  <2>1. /\ Moves(r, run'[r]) /\ run'[r] \in RunState /\ PlacedAt(run'[r])
        /\ run'[r].job = 1 /\ run'[r].at = Opening(plan[1]) /\ run'[r].at \in {"list", "import"}
        /\ run'[r].plan = plan
    BY <1>0, <1>2, Opens
  <2>2. \A q \in Runs : q # r => run'[q] = run[q]
    BY <2>1 DEF Moves
  <2>3. run' \in [Runs -> RunState \cup {Idle}]
    BY <1>0, <2>1 DEF Moves, TypeOK
  <2>4. crowded' \in BOOLEAN
    BY <1>2 DEF Start
  <2>5. TypeOK'
    BY <1>0, <1>2, <2>3, <2>4 DEF Start, axiam, orgside, disk, TypeOK
  <2>6. Placed'
    BY <1>0, <2>1, <2>2 DEF Placed, Active
  <2>7. RootedAt(run[r])'
    BY <2>1 DEF RootedAt, Opening, PerTenant
  <2>8. ASSUME NEW q \in Runs, q # r, Active(q)' PROVE RootedAt(run[q])'
    BY <1>0, <1>2, <2>2, <2>8 DEF Rooted, RootedAt, Active, Start, axiam, orgside, disk
  <2>. QED  BY <2>5, <2>6, <2>7, <2>8 DEF Core, Rooted
<1>3. CASE ByHand
  <2>1. ASSUME NEW t \in exists, HandMake(t)
        PROVE  held' \in [Demo -> SUBSET Items]
    <3>1. Role(Hand) \in Items
      BY DEF Items
    <3>. QED  BY <1>0, <2>1, <3>1 DEF HandMake, TypeOK
  <2>2. ASSUME NEW t \in exists, NEW item \in Items, HandDelete(t, item)
        PROVE  held' \in [Demo -> SUBSET Items]
    <3>. DEFINE kept == {i \in held[t] : i # item /\ (i[1] = "grant" => item \notin {Role(i[2]), Permission(i[3])})}
    <3>1. kept \subseteq Items
      BY <1>0 DEF TypeOK
    <3>2. held' = [held EXCEPT ![t] = kept]
      BY <2>2 DEF HandDelete
    <3>. HIDE DEF kept
    <3>. QED  BY <1>0, <3>1, <3>2 DEF TypeOK
  <2>3. held' \in [Demo -> SUBSET Items]
    BY <1>3, <2>1, <2>2 DEF ByHand
  <2>4. TypeOK' /\ Placed' /\ Rooted'
    BY <1>0, <1>3, <2>3 DEF ByHand, orgside, disk, TypeOK, Placed, PlacedAt, Rooted, RootedAt, Active
  <2>. QED  BY <2>4 DEF Core
<1>4. ASSUME Quiet, UNCHANGED run, WorldOK' PROVE Core'
  <2>1. \A r \in Runs : ~Active(r)'
    BY <1>4 DEF Quiet, Active
  <2>. QED  BY <1>0, <1>4, <2>1 DEF Core, TypeOK, WorldOK, Placed, Rooted
<1>5. CASE Rotate
  <2>1. root' \in 1..MaxRoots /\ 1..root \subseteq 1..root'
    BY <1>0, <1>5, ProvisionAssumption DEF Rotate, TypeOK
  <2>2. beneath' \in [Tenants -> SUBSET (1..root')]
    <3>1. beneath' = beneath
      BY <1>5 DEF Rotate, axiam, orgside
    <3>. QED  BY <1>0, <2>1, <3>1 DEF TypeOK
  <2>3. WorldOK'
    BY <1>0, <1>5, <2>1, <2>2 DEF Rotate, axiam, orgside, TypeOK, WorldOK
  <2>. QED  BY <1>4, <1>5, <2>3 DEF Rotate
<1>6. CASE Wipe
  <2>1. caFile' \in [Demo -> {None, Torn, Stale} \cup Nat]
    BY <1>6 DEF Wipe
  <2>2. user' \in [Demo -> User \cup {None}] /\ held' \in [Demo -> SUBSET Items]
        /\ cas' \in [Tenants -> Nat] /\ beneath' \in [Tenants -> SUBSET (1..root')]
    BY <1>6 DEF Wipe
  <2>3. WorldOK'
    BY <1>0, <1>6, <2>1, <2>2 DEF Wipe, TypeOK, WorldOK
  <2>. QED  BY <1>4, <1>6, <2>3 DEF Wipe
<1>7. CASE UNCHANGED vars
  <2>1. TypeOK' /\ Placed' /\ Rooted'
    BY <1>0, <1>7 DEF vars, axiam, orgside, disk, TypeOK, Placed, PlacedAt, Rooted, RootedAt, Active
  <2>. QED  BY <2>1 DEF Core
<1>. QED  BY <1>1, <1>2, <1>3, <1>5, <1>6, <1>7

(***************************************************************************)
(* Whatever runs overlap, fail or are repeated, every variable keeps its   *)
(* type: no step about a tenant is taken without one (Provision.TypeOK).   *)
(***************************************************************************)
THEOREM TypeCorrect == Spec => []TypeOK
<1>1. Init => Core
  BY CoreStarts
<1>2. Core /\ [Next]_vars => Core'
  <2>. SUFFICES ASSUME Core, [Next]_vars PROVE Core'
    OBVIOUS
  <2>. QED  BY CoreStep, CoreOther DEF Next
<1>3. Core => TypeOK
  BY DEF Core
<1>. QED  BY <1>1, <1>2, <1>3, PTL DEF Spec

(***************************************************************************)
(* However runs overlap, are cut short and repeated, and however often the *)
(* root is rotated, every signing CA is beneath a root that AXIAM accepts  *)
(* client certificates beneath: a run that gets to make one has the root's *)
(* anchor behind it (Provision.CAsTrusted).                                *)
(***************************************************************************)
THEOREM TrustedCAs == Spec => []CAsTrusted
<1>1. Init => Core /\ CAsTrusted
  BY CoreStarts DEF Init, CAsTrusted
<1>2. Core /\ CAsTrusted /\ [Next]_vars => (Core /\ CAsTrusted)'
  <2>. SUFFICES ASSUME Core, CAsTrusted, [Next]_vars PROVE (Core /\ CAsTrusted)'
    OBVIOUS
  <2>1. Core'
    BY CoreStep, CoreOther DEF Next
  <2>2. ASSUME NEW r \in Runs, RunStep(r) PROVE CAsTrusted'
    <3>1. anchored \subseteq anchored' /\ TypeOK
      BY <2>2, StepGrows DEF Core, Placed, Grows
    <3>2. CASE Generate(r)
      <4>1. root \in anchored
        <5>1. Active(r) /\ run[r].at = "generate"
          BY <3>2 DEF Generate, At, Active
        <5>2. run[r].plan[run[r].job] = "pki"
          BY <5>1 DEF Core, Placed, PlacedAt
        <5>. QED  BY <5>1, <5>2 DEF Core, Rooted, RootedAt
      <4>2. beneath' = [beneath EXCEPT ![Of(r)] = @ \cup {root}]
        BY <3>2 DEF Generate
      <4>. QED  BY <3>1, <4>1, <4>2 DEF CAsTrusted, TypeOK
    <3>3. CASE ~Generate(r)
      <4>1. beneath' = beneath
        BY <2>2, <3>3 DEF RunStep, List, Find, Create, Creds, Mint, Fill, PostUser, Activate,
          Assign, Import, Anchor, Signing, Write, Load, Login, Plan, Applied, Replan, Mark, Apply,
          axiam, orgside
      <4>. QED  BY <3>1, <4>1 DEF CAsTrusted
    <3>. QED  BY <3>2, <3>3
  <2>3. ASSUME UNCHANGED orgside PROVE CAsTrusted'
    BY <2>3 DEF orgside, CAsTrusted
  <2>4. ASSUME NEW r \in Runs, Cut(r) \/ \E plan \in Plans : Start(r, plan)
        PROVE  CAsTrusted'
    BY <2>3, <2>4 DEF Cut, Start, axiam
  <2>5. ASSUME Wipe PROVE CAsTrusted'
    <3>1. beneath' = [t \in Tenants |-> {}]
      BY <2>5 DEF Wipe
    <3>. QED  BY <3>1 DEF CAsTrusted
  <2>6. ASSUME ByHand \/ Rotate \/ UNCHANGED vars PROVE CAsTrusted'
    <3>1. UNCHANGED orgside
      BY <2>6 DEF ByHand, Rotate, vars, axiam
    <3>. QED  BY <2>3, <3>1
  <2>. QED  BY <2>1, <2>2, <2>4, <2>5, <2>6 DEF Next
<1>3. Core /\ CAsTrusted => CAsTrusted
  OBVIOUS
<1>. QED  BY <1>1, <1>2, <1>3, PTL DEF Spec

-----------------------------------------------------------------------------
(***************************************************************************)
(* One that runs alone finds what it relied on as it left it.              *)
(***************************************************************************)
LEMMA StepAlone ==
  ASSUME Core, AloneKept, ~crowded, NEW r \in Runs, RunStep(r), AloneAt(run[r])
  PROVE  /\ Active(r)' => AloneAt(run[r])'
         /\ \A x \in Demo : /\ user'[x] # None => file'[x] = user'[x].password
                            /\ cas'[x] <= 1
<1>. DEFINE s == run[r]
            new == run'[r]
            t == s.tenant
            Kept == \A x \in Demo : /\ user'[x] # None => file'[x] = user'[x].password
                                   /\ cas'[x] <= 1
            Plain == {"find", "create", "creds", "load", "signing", "import", "anchor", "list", "mark"}
<1>0. /\ TypeOK /\ Active(r) /\ s \in RunState /\ PlacedAt(s) /\ RootedAt(s)
      /\ Moves(r, new) /\ Leads(s, new) /\ Grows
  BY StepLeads, StepGrows, RunType DEF Core, Placed, Rooted, Active
<1>p. ASSUME s.at \in PerTenant
      PROVE  t \in Demo /\ t \in Tenants
  BY <1>0, <1>p DEF PlacedAt, Tenants
<1>g. ASSUME NEW at \in Steps, Goto(r, at)
      PROVE  IsWith(new, s, at, s.todo, s.job, s.tenant, s.password, s.ca, s.left)
  BY <1>0, <1>g, GoesTo
<1>k. ASSUME UNCHANGED <<user, file, cas>> PROVE Kept
  BY <1>k DEF AloneKept
<1>v. ASSUME new.at \in Plain PROVE AloneAt(run[r])'
  BY <1>v DEF AloneAt
<1>f. ASSUME Fail(r) PROVE ~Active(r)'
  BY <1>0, <1>f DEF Fail, TypeOK, Active, Idle
<1>t. ASSUME s.at \in {"list", "assign", "write", "replan"}
      PROVE  Active(r)' => AloneAt(run[r])'
  <2>1. new = Idle \/ new.at \in Plain
    BY <1>0, <1>t DEF Leads, Stays, TurnsTo
  <2>. QED  BY <1>v, <2>1 DEF Active, Idle
<1>1. CASE List(r) \/ Write(r) \/ Replan(r)
  <2>1. s.at \in {"list", "write", "replan"} /\ UNCHANGED <<user, file, cas>>
    BY <1>1 DEF List, Write, Replan, At, axiam, orgside
  <2>. QED  BY <1>k, <1>t, <2>1
<1>2. CASE Find(r)
  <2>1. new.at \in Plain
    BY <1>2, <1>g DEF Find, Steps, IsWith
  <2>2. UNCHANGED <<user, file, cas>>
    BY <1>2 DEF Find, axiam, orgside
  <2>. QED  BY <1>k, <1>v, <2>1, <2>2
<1>3. CASE Create(r)
  <2>1. Active(r)' => new.at \in Plain
    BY <1>3, <1>g, <1>f DEF Create, Steps, IsWith
  <2>2. UNCHANGED <<user, file, cas>>
    BY <1>3 DEF Create
  <2>. QED  BY <1>k, <1>v, <2>1, <2>2
<1>4. CASE Load(r)
  <2>1. Active(r)' => new.at \in Plain
    BY <1>4, <1>g, <1>f DEF Load, Steps, IsWith
  <2>2. UNCHANGED <<user, file, cas>>
    BY <1>4 DEF Load, axiam, orgside
  <2>. QED  BY <1>k, <1>v, <2>1, <2>2
<1>5. CASE Import(r) \/ Anchor(r)
  <2>1. new.at \in Plain
    BY <1>5, <1>g DEF Import, Anchor, Steps, IsWith
  <2>2. UNCHANGED <<user, file, cas>>
    BY <1>5 DEF Import, Anchor
  <2>. QED  BY <1>k, <1>v, <2>1, <2>2
<1>6. CASE Mark(r)
  <2>1. ~Active(r)' /\ UNCHANGED <<user, file, cas>>
    BY <1>6, <1>f DEF Mark, Fail, axiam, orgside
  <2>. QED  BY <1>k, <2>1
<1>7. CASE Creds(r)
  <2>0. s.at = "creds" /\ t \in Demo /\ UNCHANGED <<user, file, cas>>
    BY <1>7, <1>p DEF Creds, At, axiam, orgside, PerTenant
  <2>1. CASE file[t] = Torn
    BY <1>7, <1>f, <1>k, <2>0, <2>1, ProvisionAssumption DEF Creds, Of
  <2>2. CASE file[t] = None
    <3>1. IsWith(new, s, "mint", s.todo, s.job, s.tenant, s.password, s.ca, s.left)
      BY <1>7, <1>g, <2>2, ProvisionAssumption DEF Creds, Of, Steps
    <3>2. AloneAt(run[r])'
      BY <2>0, <2>2, <3>1 DEF AloneAt, IsWith
    <3>. QED  BY <1>k, <2>0, <3>2
  <2>3. CASE file[t] # Torn /\ file[t] # None
    <3>1. file[t] \in Runs
      BY <1>0, <2>0, <2>3 DEF TypeOK
    <3>2. Credentialed(r) \in {"login", "user"} /\ Credentialed(r) \in Steps
      BY DEF Credentialed, Steps
    <3>3. run' = [run EXCEPT ![r].at = Credentialed(r), ![r].password = file[t]]
      BY <1>7, <2>3 DEF Creds, Of
    <3>4. IsWith(new, s, Credentialed(r), s.todo, s.job, s.tenant, file[t], s.ca, s.left)
      BY <1>0, <3>1, <3>2, <3>3, ReadsTo
    <3>5. AloneAt(run[r])'
      BY <2>0, <3>1, <3>2, <3>4 DEF AloneAt, IsWith
    <3>. QED  BY <1>k, <2>0, <3>5
  <2>. QED  BY <2>1, <2>2, <2>3
<1>8. CASE Mint(r)
  <2>0. s.at = "mint" /\ t \in Demo /\ file' = [file EXCEPT ![t] = Torn] /\ UNCHANGED <<user, cas>>
    BY <1>8, <1>p DEF Mint, At, Of, axiam, orgside, PerTenant
  <2>1. IsWith(new, s, "fill", s.todo, s.job, s.tenant, s.password, s.ca, s.left)
    BY <1>8, <1>g DEF Mint, Steps
  <2>2. file'[t] = Torn /\ \A x \in Demo : x # t => file'[x] = file[x]
    BY <1>0, <2>0 DEF TypeOK
  <2>3. AloneAt(run[r])'
    BY <2>1, <2>2 DEF AloneAt, IsWith
  <2>4. user[t] = None
    <3>1. file[t] = None
      BY <2>0 DEF AloneAt
    <3>2. user[t] # None => user[t].password \in Runs
      BY <1>0, <2>0 DEF TypeOK, User
    <3>. QED  BY <2>0, <3>1, <3>2, ProvisionAssumption DEF AloneKept
  <2>5. Kept
    BY <2>0, <2>2, <2>4 DEF AloneKept
  <2>. QED  BY <2>3, <2>5
<1>9. CASE Fill(r)
  <2>0. s.at = "fill" /\ t \in Demo /\ file' = [file EXCEPT ![t] = r] /\ UNCHANGED <<user, cas>>
    BY <1>9, <1>p DEF Fill, At, Of, axiam, orgside, PerTenant
  <2>1. Credentialed(r) \in {"login", "user"} /\ Credentialed(r) \in Steps
    BY DEF Credentialed, Steps
  <2>2. IsWith(new, s, Credentialed(r), s.todo, s.job, s.tenant, r, s.ca, s.left)
    BY <1>0, <1>9, <2>1, ReadsTo DEF Fill
  <2>3. file'[t] = r /\ \A x \in Demo : x # t => file'[x] = file[x]
    BY <1>0, <2>0 DEF TypeOK
  <2>4. AloneAt(run[r])'
    BY <2>1, <2>2, <2>3 DEF AloneAt, IsWith
  <2>5. user[t] = None
    <3>1. file[t] = Torn
      BY <2>0 DEF AloneAt
    <3>2. user[t] # None => user[t].password \in Runs
      BY <1>0, <2>0 DEF TypeOK, User
    <3>. QED  BY <2>0, <3>1, <3>2, ProvisionAssumption DEF AloneKept
  <2>6. Kept
    BY <2>0, <2>3, <2>5 DEF AloneKept
  <2>. QED  BY <2>4, <2>6
<1>u. ASSUME s.at \in {"user", "activate", "assign"},
             \A x \in Demo : x # t => user'[x] = user[x],
             user'[t].password = s.password \/ (user[t] # None /\ user'[t].password = user[t].password),
             UNCHANGED <<file, cas>>
      PROVE  Kept
  <2>1. t \in Demo /\ s.password = file[t]
    BY <1>p, <1>u DEF PerTenant, AloneAt
  <2>. QED  BY <1>u, <2>1 DEF AloneKept
<1>10. CASE PostUser(r)
  <2>. DEFINE u == IF user[t] = None THEN [password |-> s.password, active |-> FALSE, admin |-> FALSE]
                   ELSE user[t]
  <2>0. s.at = "user" /\ user' = [user EXCEPT ![t] = u] /\ UNCHANGED <<file, cas>>
    BY <1>10 DEF PostUser, At, Of
  <2>1. u.password = s.password \/ (user[t] # None /\ u.password = user[t].password)
    OBVIOUS
  <2>2. IsWith(new, s, "activate", s.todo, s.job, s.tenant, s.password, s.ca, s.left)
    BY <1>10, <1>g DEF PostUser, Steps
  <2>3. AloneAt(run[r])'
    BY <2>0, <2>2 DEF AloneAt, IsWith
  <2>4. user'[t] = u /\ \A x \in Demo : x # t => user'[x] = user[x]
    <3>1. t \in Demo
      BY <1>p, <2>0 DEF PerTenant
    <3>. HIDE DEF t, u
    <3>. QED  BY <1>0, <2>0, <3>1 DEF TypeOK
  <2>. HIDE DEF u
  <2>. QED  BY <1>u, <2>0, <2>1, <2>3, <2>4
<1>11. CASE Activate(r)
  <2>. DEFINE u == [user[t] EXCEPT !.active = TRUE]
  <2>0. s.at = "activate" /\ user' = [user EXCEPT ![t] = u] /\ UNCHANGED <<file, cas>>
    BY <1>11 DEF Activate, At, Of
  <2>1. user[t] # None /\ u.password = user[t].password
    <3>1. user[t] # None /\ user[t] \in User
      BY <1>0, <1>p, <2>0 DEF RootedAt, PerTenant, TypeOK
    <3>. QED  BY <3>1 DEF User
  <2>2. IsWith(new, s, "assign", s.todo, s.job, s.tenant, s.password, s.ca, s.left)
    BY <1>11, <1>g DEF Activate, Steps
  <2>3. AloneAt(run[r])'
    BY <2>0, <2>2 DEF AloneAt, IsWith
  <2>4. user'[t] = u /\ \A x \in Demo : x # t => user'[x] = user[x]
    <3>1. t \in Demo
      BY <1>p, <2>0 DEF PerTenant
    <3>. HIDE DEF t, u
    <3>. QED  BY <1>0, <2>0, <3>1 DEF TypeOK
  <2>. HIDE DEF u
  <2>. QED  BY <1>u, <2>0, <2>1, <2>3, <2>4
<1>12. CASE Assign(r)
  <2>. DEFINE u == [user[t] EXCEPT !.admin = TRUE]
  <2>0. s.at = "assign" /\ user' = [user EXCEPT ![t] = u] /\ UNCHANGED <<file, cas>>
    BY <1>12 DEF Assign, At, Of
  <2>1. user[t] # None /\ u.password = user[t].password
    <3>1. user[t] # None /\ user[t] \in User
      BY <1>0, <1>p, <2>0 DEF RootedAt, PerTenant, TypeOK
    <3>. QED  BY <3>1 DEF User
  <2>2. user'[t] = u /\ \A x \in Demo : x # t => user'[x] = user[x]
    <3>1. t \in Demo
      BY <1>p, <2>0 DEF PerTenant
    <3>. HIDE DEF t, u
    <3>. QED  BY <1>0, <2>0, <3>1 DEF TypeOK
  <2>. HIDE DEF u
  <2>. QED  BY <1>t, <1>u, <2>0, <2>1, <2>2
<1>13. CASE Signing(r)
  <2>0. s.at = "signing" /\ t \in Demo /\ UNCHANGED <<user, file, cas>>
    BY <1>13, <1>p DEF Signing, At, axiam, orgside, PerTenant
  <2>1. cas[t] \in Nat /\ cas[t] <= 1
    BY <1>0, <2>0 DEF TypeOK, Tenants, AloneKept
  <2>2. CASE cas[t] > 0
    <3>1. IsWith(new, s, "write", s.todo, s.job, s.tenant, s.password, 1, s.left)
      BY <1>0, <1>13, <2>2, SignsTo DEF Signing, Of, Steps
    <3>2. cas[t] = 1
      BY <2>1, <2>2
    <3>3. AloneAt(run[r])'
      BY <2>0, <3>1, <3>2 DEF AloneAt, IsWith
    <3>. QED  BY <1>k, <2>0, <3>3
  <2>3. CASE ~(cas[t] > 0)
    <3>1. IsWith(new, s, "generate", s.todo, s.job, s.tenant, s.password, s.ca, s.left)
      BY <1>13, <1>g, <2>3 DEF Signing, Of, Steps
    <3>2. cas[t] = 0
      BY <2>1, <2>3
    <3>3. AloneAt(run[r])'
      BY <2>0, <3>1, <3>2 DEF AloneAt, IsWith
    <3>. QED  BY <1>k, <2>0, <3>3
  <2>. QED  BY <2>2, <2>3
<1>14. CASE Generate(r)
  <2>0. /\ s.at = "generate" /\ t \in Tenants /\ cas[t] = 0
        /\ cas' = [cas EXCEPT ![t] = cas[t] + 1] /\ UNCHANGED <<user, file>>
    BY <1>14, <1>p DEF Generate, At, Of, orgside, PerTenant, AloneAt
  <2>1. cas'[t] = 1 /\ \A x \in Demo : x # t => cas'[x] = cas[x]
    BY <1>0, <2>0 DEF TypeOK, Tenants
  <2>2. run' = [run EXCEPT ![r].at = "write", ![r].ca = 1]
    BY <1>14, <2>0 DEF Generate, Of
  <2>3. IsWith(new, s, "write", s.todo, s.job, s.tenant, s.password, 1, s.left)
    BY <1>0, <2>2, SignsTo DEF Steps
  <2>4. AloneAt(run[r])'
    BY <2>1, <2>3 DEF AloneAt, IsWith
  <2>5. Kept
    BY <2>0, <2>1 DEF AloneKept
  <2>. QED  BY <2>4, <2>5
<1>15. CASE Login(r)
  <2>0. s.at = "login" /\ UNCHANGED <<user, file, cas>>
    BY <1>15 DEF Login, At, axiam, orgside
  <2>1. CASE ~SignsIn(t, s.password)
    BY <1>15, <1>f, <1>k, <2>0, <2>1 DEF Login, Of
  <2>2. CASE SignsIn(t, s.password)
    <3>1. IsWith(new, s, "plan", s.todo, s.job, s.tenant, s.password, s.ca, s.left)
      BY <1>15, <1>g, <2>2 DEF Login, Of, Steps
    <3>2. AloneAt(run[r])'
      BY <2>0, <2>2, <3>1 DEF AloneAt, IsWith, SignsIn
    <3>. QED  BY <1>k, <2>0, <3>2
  <2>. QED  BY <2>1, <2>2
<1>a. ASSUME s.at \in {"plan", "apply"}, new.at \in {"apply", "replan"},
             new.tenant = s.tenant, new.password = s.password, UNCHANGED <<user, file, cas>>
      PROVE  AloneAt(run[r])'
  BY <1>a DEF AloneAt, SignsIn
<1>16. CASE Plan(r)
  <2>0. s.at = "plan" /\ s.manifest \in Catalogs /\ UNCHANGED <<user, file, cas>>
    BY <1>0, <1>16 DEF Plan, At, PlacedAt, axiam, orgside
  <2>1. CASE ~user[t].admin
    BY <1>16, <1>f, <1>k, <2>0, <2>1 DEF Plan, Of
  <2>2. CASE user[t].admin
    <3>. DEFINE x == Differs(Of(r), s.manifest)
    <3>1. x \in SUBSET Items /\ run' = [run EXCEPT ![r].at = "apply", ![r].left = x]
      BY <1>16, <2>0, <2>2 DEF Plan, Of, Differs, Items
    <3>. HIDE DEF x
    <3>2. IsWith(new, s, "apply", s.todo, s.job, s.tenant, s.password, s.ca, x)
      BY <1>0, <3>1, LeavesTo DEF Steps
    <3>. QED  BY <1>a, <1>k, <2>0, <3>2 DEF IsWith
  <2>. QED  BY <2>1, <2>2
<1>17. CASE Applied(r)
  <2>1. s.at = "apply" /\ UNCHANGED <<user, file, cas>>
    BY <1>17 DEF Applied, At, axiam, orgside
  <2>2. IsWith(new, s, "replan", s.todo, s.job, s.tenant, s.password, s.ca, s.left)
    BY <1>17, <1>g DEF Applied, Steps
  <2>. QED  BY <1>a, <1>k, <2>1, <2>2 DEF IsWith
<1>18. CASE \E item \in Items : Apply(r, item)
  <2>1. PICK item \in Items : Apply(r, item)
    BY <1>18
  <2>. DEFINE x == s.left \ {item}
  <2>2. s.at = "apply" /\ run' = [run EXCEPT ![r].left = x] /\ UNCHANGED <<user, file, cas>>
    BY <2>1 DEF Apply, At
  <2>3. x \in SUBSET Items
    BY <1>0 DEF RunState
  <2>. HIDE DEF x
  <2>4. IsWith(new, s, "apply", s.todo, s.job, s.tenant, s.password, s.ca, x)
    BY <1>0, <2>2, <2>3, LeavesTo DEF Steps
  <2>. QED  BY <1>a, <1>k, <2>2, <2>4 DEF IsWith
<1>. QED  BY <1>1, <1>2, <1>3, <1>4, <1>5, <1>6, <1>7, <1>8, <1>9, <1>10, <1>11, <1>12, <1>13,
             <1>14, <1>15, <1>16, <1>17, <1>18 DEF RunStep

(***************************************************************************)
(* AXIAM's own tenant gets no signing CA from any step.                    *)
(***************************************************************************)
LEMMA StepReserved ==
  ASSUME Core, NEW r \in Runs, RunStep(r), cas[Reserved] = 0
  PROVE  cas'[Reserved] = 0
<1>0. TypeOK /\ (Active(r) => PlacedAt(run[r]))
  BY DEF Core, Placed
<1>1. CASE Generate(r)
  <2>1. Of(r) \in Demo
    BY <1>0, <1>1 DEF Generate, At, Active, PlacedAt, PerTenant, Of
  <2>2. Of(r) # Reserved /\ Reserved \in Tenants
    BY <2>1, ProvisionAssumption DEF Tenants
  <2>. QED  BY <1>0, <1>1, <2>2 DEF Generate, TypeOK
<1>2. CASE ~Generate(r)
  BY <1>2 DEF RunStep, List, Find, Create, Creds, Mint, Fill, PostUser, Activate, Assign, Import,
     Anchor, Signing, Write, Load, Login, Plan, Applied, Replan, Mark, Apply, axiam
<1>. QED  BY <1>1, <1>2

(***************************************************************************)
(* Every step of a run keeps the peace of one that runs alone.             *)
(***************************************************************************)
LEMMA AloneStep ==
  ASSUME Core, Alone, AloneKept, NEW r \in Runs, RunStep(r)
  PROVE  Alone' /\ AloneKept'
<1>1. /\ Active(r) /\ Moves(r, run'[r]) /\ crowded' = crowded
  BY StepLeads, StepGrows DEF Core, Placed, Grows
<1>2. cas'[Reserved] = 0
  BY StepReserved DEF AloneKept
<1>3. CASE crowded
  BY <1>1, <1>2, <1>3 DEF Alone, AloneKept
<1>4. CASE ~crowded
  <2>1. AloneAt(run[r]) /\ \A q \in Runs : Active(q) => q = r
    BY <1>1, <1>4 DEF Alone
  <2>2. /\ Active(r)' => AloneAt(run[r])'
        /\ \A x \in Demo : /\ user'[x] # None => file'[x] = user'[x].password
                           /\ cas'[x] <= 1
    BY <1>4, <2>1, StepAlone
  <2>3. \A q \in Runs : Active(q)' => q = r
    BY <1>1, <2>1 DEF Moves, Active
  <2>4. Alone'
    BY <2>2, <2>3 DEF Alone
  <2>. QED  BY <1>2, <2>2, <2>4 DEF AloneKept
<1>. QED  BY <1>3, <1>4

(***************************************************************************)
(* And so does everything else.  A start beside another run is not alone;  *)
(* what is done by hand is done between runs.                              *)
(***************************************************************************)
LEMMA AloneOther ==
  ASSUME Core, Alone, AloneKept,
         \/ \E r \in Runs : Cut(r) \/ \E plan \in Plans : Start(r, plan)
         \/ ByHand \/ Rotate \/ Wipe \/ UNCHANGED vars
  PROVE  Alone' /\ AloneKept'
<1>0. TypeOK
  BY DEF Core
<1>1. ASSUME NEW r \in Runs, Cut(r) PROVE Alone' /\ AloneKept'
  <2>1. Moves(r, Idle) /\ UNCHANGED <<user, file, cas, crowded>>
    BY <1>0, <1>1 DEF Cut, Fail, Moves, TypeOK, axiam
  <2>2. \A q \in Runs : Active(q)' => run'[q] = run[q] /\ Active(q) /\ q # r
    BY <2>1 DEF Moves, Active, Idle
  <2>3. Active(r)
    BY <1>1 DEF Cut
  <2>4. ~crowded => \A q \in Runs : ~Active(q)'
    BY <2>2, <2>3 DEF Alone
  <2>. QED  BY <2>1, <2>4 DEF Alone, AloneKept
<1>2. ASSUME NEW r \in Runs, NEW plan \in Plans, Start(r, plan) PROVE Alone' /\ AloneKept'
  <2>1. /\ Moves(r, run'[r]) /\ run'[r].at \in {"list", "import"}
    BY <1>0, <1>2, Opens
  <2>2. UNCHANGED <<user, file, cas>> /\ crowded' = (crowded \/ ~Quiet)
    BY <1>2 DEF Start, axiam, disk
  <2>3. AloneAt(run[r])'
    BY <2>1 DEF AloneAt
  <2>4. ~crowded' => ~crowded /\ \A q \in Runs : Active(q)' => q = r
    BY <2>1, <2>2 DEF Quiet, Moves, Active
  <2>5. Alone'
    BY <2>3, <2>4 DEF Alone
  <2>. QED  BY <2>2, <2>4, <2>5 DEF AloneKept
<1>3. ASSUME Quiet, UNCHANGED run PROVE Alone'
  BY <1>3 DEF Quiet, Alone, Active
<1>4. CASE ByHand \/ Rotate
  <2>1. Quiet /\ UNCHANGED <<user, file, cas, crowded, run>>
    BY <1>4 DEF ByHand, Rotate, axiam, disk
  <2>. QED  BY <1>3, <2>1 DEF AloneKept
<1>5. CASE Wipe
  <2>1. Quiet /\ UNCHANGED run /\ \A t \in Demo : user'[t] = None
    BY <1>5 DEF Wipe
  <2>2. \A t \in Tenants : cas'[t] = 0
    BY <1>5 DEF Wipe
  <2>. QED  BY <1>3, <2>1, <2>2 DEF AloneKept, Tenants
<1>6. CASE UNCHANGED vars
  <2>1. UNCHANGED <<user, file, cas, crowded, run>>
    BY <1>6 DEF vars, axiam, disk
  <2>. QED  BY <2>1 DEF Alone, AloneKept, Active, AloneAt, SignsIn
<1>. QED  BY <1>1, <1>2, <1>4, <1>5, <1>6

\* Provision's part of the invariant that is about runs that do not overlap.
AloneInv == Core /\ Alone /\ AloneKept

(***************************************************************************)
(* Initially nothing runs, and no tenant has an administrator or a CA.     *)
(***************************************************************************)
LEMMA AloneStarts ==
  ASSUME Init
  PROVE  AloneInv
<1>1. Core /\ Quiet
  BY CoreStarts
<1>2. Alone
  BY <1>1 DEF Alone, Quiet
<1>3. AloneKept
  BY DEF Init, AloneKept, Tenants
<1>. QED  BY <1>1, <1>2, <1>3 DEF AloneInv

(***************************************************************************)
(* Unless runs overlapped, an administrator has the password that is on    *)
(* disk and no tenant has two signing CAs, however runs were cut short,    *)
(* repeated and mixed; AXIAM's own tenant never has one                    *)
(* (Provision.AloneKept).                                                  *)
(***************************************************************************)
THEOREM KeptAlone == Spec => []AloneKept
<1>1. Init => AloneInv
  BY AloneStarts
<1>2. AloneInv /\ [Next]_vars => AloneInv'
  <2>. SUFFICES ASSUME AloneInv, [Next]_vars PROVE AloneInv'
    OBVIOUS
  <2>1. Core /\ Alone /\ AloneKept
    BY DEF AloneInv
  <2>2. Core'
    BY <2>1, CoreStep, CoreOther DEF Next
  <2>3. Alone' /\ AloneKept'
    BY <2>1, AloneStep, AloneOther DEF Next
  <2>. QED  BY <2>2, <2>3 DEF AloneInv
<1>3. AloneInv => AloneKept
  BY DEF AloneInv
<1>. QED  BY <1>1, <1>2, <1>3, PTL DEF Spec

-----------------------------------------------------------------------------
(***************************************************************************)
(* A catalog that is accepted has no permission with a wildcard.           *)
(***************************************************************************)
LEMMA ValidIsClean ==
  ASSUME NEW c, Valid(c)
  PROVE  Permission(Wild) \notin ToManifest(c)
<1>1. \A a \in c.permissions : Permission(a) # Permission(Wild)
  BY DEF Valid, Permission
<1>2. \A n \in c.roles : Role(n) # Permission(Wild)
  BY DEF Role, Permission
<1>3. \A g \in c.grants : Grant(g[1], g[2]) # Permission(Wild)
  BY DEF Grant, Permission
<1>. QED  BY <1>1, <1>2, <1>3 DEF ToManifest

(***************************************************************************)
(* None gets into a tenant, from a run or by hand.                         *)
(***************************************************************************)
LEMMA CleanKeeps ==
  ASSUME Core, NoWildcard, [Next]_vars
  PROVE  NoWildcard'
<1>0. TypeOK /\ Placed
  BY DEF Core
<1>s. ASSUME UNCHANGED held PROVE NoWildcard'
  BY <1>s DEF NoWildcard
<1>1. ASSUME NEW r \in Runs, NEW item \in Items, Apply(r, item) PROVE NoWildcard'
  <2>1. Active(r) /\ run[r].at = "apply"
    BY <1>1 DEF Apply, At, Active
  <2>2. /\ run[r] \in RunState /\ run[r].plan[run[r].job] = "catalog"
        /\ Of(r) \in Demo /\ item \in ToManifest(run[r].manifest)
    BY <1>0, <1>1, <2>1, RunType DEF Placed, PlacedAt, PerTenant, Apply, Of
  <2>3. Valid(run[r].manifest)
    BY <1>0, <2>1, <2>2 DEF Placed, PlacedAt, PerTenant
  <2>4. item # Permission(Wild)
    BY <2>2, <2>3, ValidIsClean
  <2>5. held' = [held EXCEPT ![Of(r)] = held[Of(r)] \cup {item}]
    BY <1>1 DEF Apply
  <2>. QED  BY <1>0, <2>2, <2>4, <2>5 DEF NoWildcard, TypeOK
<1>2. ASSUME NEW r \in Runs, RunStep(r) PROVE NoWildcard'
  BY <1>1, <1>2, <1>s DEF RunStep, List, Find, Create, Creds, Mint, Fill, PostUser, Activate, Assign,
     Import, Anchor, Signing, Generate, Write, Load, Login, Plan, Applied, Replan, Mark, axiam
<1>3. CASE ByHand
  <2>1. ASSUME NEW t \in exists, HandMake(t) PROVE NoWildcard'
    <3>1. Role(Hand) # Permission(Wild)
      BY DEF Role, Permission
    <3>2. held' = [held EXCEPT ![t] = held[t] \cup {Role(Hand)}]
      BY <2>1 DEF HandMake
    <3>. QED  BY <1>0, <3>1, <3>2 DEF NoWildcard, TypeOK
  <2>2. ASSUME NEW t \in exists, NEW item \in Items, HandDelete(t, item) PROVE NoWildcard'
    <3>. DEFINE kept == {i \in held[t] : i # item /\ (i[1] = "grant" => item \notin {Role(i[2]), Permission(i[3])})}
    <3>1. kept \subseteq held[t] /\ held' = [held EXCEPT ![t] = kept]
      BY <2>2 DEF HandDelete
    <3>. HIDE DEF kept
    <3>. QED  BY <1>0, <3>1 DEF NoWildcard, TypeOK
  <2>. QED  BY <1>3, <2>1, <2>2 DEF ByHand
<1>4. CASE Wipe
  BY <1>4 DEF Wipe, NoWildcard
<1>5. ASSUME NEW r \in Runs, Cut(r) \/ \E plan \in Plans : Start(r, plan) PROVE NoWildcard'
  BY <1>5, <1>s DEF Cut, Start, axiam
<1>6. CASE Rotate \/ UNCHANGED vars
  BY <1>6, <1>s DEF Rotate, vars, axiam
<1>. QED  BY <1>2, <1>3, <1>4, <1>5, <1>6 DEF Next

-----------------------------------------------------------------------------
(***************************************************************************)
(* What a step of a run can touch: its own tenant's files and CAs, and the *)
(* CAs only from the command for them; a tenant is made only there, too.   *)
(***************************************************************************)
LEMMA StepLocal ==
  ASSUME Core, NEW r \in Runs, RunStep(r)
  PROVE  /\ run[r].plan[run[r].job] # "tenants" => exists' = exists
         /\ run[r].plan[run[r].job] # "pki" => UNCHANGED <<cas, caFile>>
         /\ run[r].at \notin PerTenant => UNCHANGED <<cas, caFile, file>>
         /\ \A x \in Demo : x # Of(r) => /\ cas'[x] = cas[x] /\ caFile'[x] = caFile[x]
                                        /\ file'[x] = file[x]
<1>. DEFINE s == run[r]
            Local == \A x \in Demo : x # Of(r) => /\ cas'[x] = cas[x] /\ caFile'[x] = caFile[x]
                                                /\ file'[x] = file[x]
<1>0. TypeOK /\ Active(r) /\ PlacedAt(s)
  BY StepLeads DEF Core, Placed
<1>1. CASE Create(r)
  BY <1>0, <1>1 DEF Create, At, PlacedAt
<1>2. CASE Mint(r) \/ Fill(r)
  <2>1. s.at \in PerTenant /\ UNCHANGED <<cas, caFile, exists>>
    BY <1>2 DEF Mint, Fill, At, PerTenant, axiam, orgside
  <2>2. Local
    BY <1>0, <1>2, <2>1 DEF Mint, Fill, TypeOK
  <2>. QED  BY <2>1, <2>2
<1>3. CASE Generate(r)
  <2>1. s.at \in PerTenant /\ s.plan[s.job] = "pki" /\ UNCHANGED <<exists, file, caFile>>
    BY <1>0, <1>3 DEF Generate, At, PlacedAt, PerTenant
  <2>2. Local
    BY <1>0, <1>3, <2>1 DEF Generate, TypeOK, Tenants
  <2>. QED  BY <2>1, <2>2
<1>4. CASE Write(r)
  <2>1. s.at \in PerTenant /\ s.plan[s.job] = "pki" /\ UNCHANGED <<exists, file, cas>>
    BY <1>0, <1>4 DEF Write, At, PlacedAt, PerTenant, axiam, orgside
  <2>2. Local
    BY <1>0, <1>4, <2>1 DEF Write, TypeOK
  <2>. QED  BY <2>1, <2>2
<1>5. CASE ~Create(r) /\ ~Mint(r) /\ ~Fill(r) /\ ~Generate(r) /\ ~Write(r)
  BY <1>5 DEF RunStep, List, Find, Creds, PostUser, Activate, Assign, Import, Anchor, Signing,
     Load, Login, Plan, Applied, Replan, Mark, Apply, axiam, orgside
<1>. QED  BY <1>1, <1>2, <1>3, <1>4, <1>5

(***************************************************************************)
(* What a run is through with stays as it is meant to be.                  *)
(***************************************************************************)
LEMMA GoodStays ==
  ASSUME Core, Progress, NEW r \in Runs, RunStep(r), Active(r)',
         NEW k \in 1..run[r].job, NEW x \in Through(run[r], k)
  PROVE  Good(run[r].plan[k], run[r].manifest, x)'
<1>. DEFINE s == run[r]
            job == s.plan[k]
<1>0. /\ TypeOK /\ Active(r) /\ s \in RunState /\ PlacedAt(s) /\ Grows /\ x \in Demo
      /\ Good(job, s.manifest, x)
  BY StepLeads, StepGrows, RunType DEF Core, Placed, Progress, Through
<1>1. run'[r].plan = s.plan /\ run'[r].manifest = s.manifest
  BY StepLeads DEF Core, Placed, Leads, Stays, TurnsTo, Active, Idle
<1>2. Admin(x) => Admin(x)'
  BY <1>0, Zenon DEF Admin, Grows, Outlasts
<1>3. /\ s.plan \in Plans /\ s.job \in 1..Len(s.plan) /\ k \in 1..Len(s.plan) /\ k <= s.job
  <2>1. s.plan \in Plans /\ s.job \in 1..3 /\ s.job <= Len(s.plan) /\ k \in 1..s.job
    BY <1>0 DEF RunState, PlacedAt
  <2>2. Len(s.plan) \in 1..3
    BY <2>1, PlanJobs
  <2>. QED  BY <2>1, <2>2
<1>4. /\ job \in {"tenants", "pki", "tenant-admin", "catalog"}
      /\ job # "tenants" => s.plan[s.job] # "tenants"
      /\ job = s.plan[s.job] => k = s.job
      /\ job = "catalog" => k = s.job
  <2>1. job \in {"tenants", "pki", "tenant-admin", "catalog"} /\ (job = s.plan[s.job] => k = s.job)
    BY <1>3, PlanJobs
  <2>2. ASSUME s.plan[s.job] = "tenants" PROVE job = "tenants"
    <3>1. s.job = 1
      BY <1>3, <2>2, PlanJobs
    <3>2. k = 1
      BY <1>3, <3>1
    <3>. QED  BY <2>2, <3>1, <3>2
  <2>3. ASSUME job = "catalog" PROVE k = s.job
    <3>1. Len(s.plan) = 1
      BY <1>3, <2>3, PlanJobs
    <3>. QED  BY <1>3, <3>1
  <2>. QED  BY <2>1, <2>2, <2>3
<1>5. /\ s.plan[s.job] # "tenants" => exists' = exists
      /\ s.plan[s.job] # "pki" => UNCHANGED <<cas, caFile>>
      /\ s.at \notin PerTenant => UNCHANGED <<cas, caFile, file>>
      /\ x # Of(r) => /\ cas'[x] = cas[x] /\ caFile'[x] = caFile[x] /\ file'[x] = file[x]
  BY <1>0, StepLocal
<1>6. k = s.job /\ s.at \in PerTenant => x # Of(r)
  BY <1>3 DEF Through, Of, PerTenant
<1>7. CASE job = "tenants"
  BY <1>0, <1>1, <1>2, <1>7 DEF Good, Grows
<1>8. CASE job = "tenant-admin"
  BY <1>0, <1>1, <1>2, <1>4, <1>5, <1>8 DEF Good, Grows
<1>9. CASE job = "pki"
  <2>1. cas'[x] = cas[x] /\ caFile'[x] = caFile[x] /\ exists' = exists
    BY <1>4, <1>5, <1>6, <1>9
  <2>. QED  BY <1>0, <1>1, <1>9, <2>1 DEF Good, Grows
<1>10. CASE job = "catalog"
  <2>1. file'[x] = file[x] /\ exists' = exists
    BY <1>4, <1>5, <1>6, <1>10
  <2>2. SignsIn(x, file[x]) => SignsIn(x, file[x])'
    BY <1>0, <2>1, Zenon DEF SignsIn, Grows, Outlasts
  <2>3. Differs(x, s.manifest) = {} => Differs(x, run[r].manifest)' = {}
    BY <1>0, <1>1 DEF Differs, Grows
  <2>. QED  BY <1>0, <1>1, <1>10, <2>1, <2>2, <2>3 DEF Good, Grows
<1>. QED  BY <1>4, <1>7, <1>8, <1>9, <1>10

(***************************************************************************)
(* And the step that ends a command for a tenant leaves it so: an          *)
(* administrator, the tenant's one CA in its file, or the catalog and      *)
(* credentials to sign in with.  A tenant that is not there is passed by.  *)
(***************************************************************************)
LEMMA TurnGood ==
  ASSUME Core, Alone, NEW r \in Runs, RunStep(r), Active(r)', NEW x \in Demo,
         NEW k, k = run[r].job,
         \/ run[r].at \in {"assign", "write", "replan"} /\ x = Of(r)
         \/ run[r].at = "list" /\ run[r].plan[k] # "tenants" /\ x \notin exists
  PROVE  Good(run[r].plan[k], run[r].manifest, x)'
<1>. DEFINE s == run[r]
            job == s.plan[k]
            t == Of(r)
<1>0. /\ TypeOK /\ Active(r) /\ s \in RunState /\ PlacedAt(s) /\ RootedAt(s) /\ Grows
      /\ Leads(s, run'[r]) /\ run'[r] # Idle
      /\ ~crowded => AloneAt(s)
  BY StepLeads, StepGrows, RunType DEF Core, Placed, Rooted, Alone, Active, Idle
<1>1. run'[r].plan = s.plan /\ run'[r].manifest = s.manifest /\ ~Fail(r)
  BY <1>0 DEF Leads, Stays, TurnsTo, Fail, TypeOK
<1>2. s.at # "list" => x = t /\ t \in Demo
  BY <1>0 DEF PlacedAt, PerTenant, Of
<1>3. CASE s.at = "list"
  <2>1. job # "tenants" /\ x \notin exists
    BY <1>3
  <2>2. exists' = exists
    BY <2>1, StepLocal
  <2>. QED  BY <1>1, <2>1, <2>2 DEF Good
<1>4. CASE s.at = "assign"
  <2>0. Assign(r) /\ x = t /\ t \in Demo /\ job \in {"tenants", "tenant-admin"}
    BY <1>0, <1>2, <1>4 DEF PlacedAt, RunStep, At, List, Find, Create, Creds, Mint, Fill, PostUser,
       Activate, Import, Anchor, Signing, Generate, Write, Load, Login, Plan, Applied, Replan, Mark,
       Apply
  <2>1. user[t] # None /\ user[t].active /\ user[t] \in User
    BY <1>0, <1>4, <2>0 DEF RootedAt, TypeOK, Of
  <2>2. job = "tenants" => x \in exists'
    BY <1>0, <1>4, <2>0 DEF RootedAt, PerTenant, Grows, Of
  <2>. DEFINE u == [user[t] EXCEPT !.admin = TRUE]
  <2>3. u # None /\ u.active /\ u.admin
    BY <2>1, UserRecords, Zenon DEF Outlasts
  <2>4. user'[t] = u
    BY <1>0, <2>0 DEF Assign, TypeOK
  <2>5. Admin(x)'
    <3>. HIDE DEF u, t
    <3>. QED  BY <2>0, <2>3, <2>4, Zenon DEF Admin
  <2>. QED  BY <1>1, <2>0, <2>2, <2>5 DEF Good
<1>5. CASE s.at = "write"
  <2>0. Write(r) /\ x = t /\ t \in Demo /\ job = "pki"
    BY <1>0, <1>2, <1>5 DEF PlacedAt, RunStep, At, List, Find, Create, Creds, Mint, Fill, PostUser,
       Activate, Assign, Import, Anchor, Signing, Generate, Load, Login, Plan, Applied, Replan, Mark,
       Apply
  <2>1. ~crowded => caFile'[x] = 1 /\ cas'[x] = 1
    BY <1>0, <1>5, <2>0 DEF Write, AloneAt, TypeOK, Of, axiam
  <2>2. crowded' = crowded
    BY <1>0 DEF Grows
  <2>. QED  BY <1>1, <2>0, <2>1, <2>2 DEF Good
<1>6. CASE s.at = "replan"
  <2>0. Replan(r) /\ x = t /\ t \in Demo /\ job = "catalog"
    BY <1>0, <1>2, <1>6 DEF PlacedAt, RunStep, At, List, Find, Create, Creds, Mint, Fill, PostUser,
       Activate, Assign, Import, Anchor, Signing, Generate, Write, Load, Login, Plan, Applied, Mark,
       Apply
  <2>1. Differs(x, s.manifest) = {} /\ UNCHANGED <<user, file, held>>
    BY <1>1, <2>0 DEF Replan, axiam
  <2>2. Differs(x, run[r].manifest)' = {}
    BY <1>1, <2>1 DEF Differs
  <2>3. ~crowded => SignsIn(x, file[x])'
    BY <1>0, <1>6, <2>0, <2>1 DEF AloneAt, SignsIn, Of
  <2>4. crowded' = crowded
    BY <1>0 DEF Grows
  <2>. QED  BY <1>1, <2>0, <2>2, <2>3, <2>4 DEF Good
<1>. QED  BY <1>3, <1>4, <1>5, <1>6

(***************************************************************************)
(* So every step of a run leaves it through with what it should be, and so *)
(* the others.                                                             *)
(***************************************************************************)
LEMMA ProgressStep ==
  ASSUME Core, Alone, Progress, NEW r \in Runs, RunStep(r)
  PROVE  Progress'
<1>0. /\ Active(r) /\ Moves(r, run'[r]) /\ Leads(run[r], run'[r]) /\ Grows /\ TypeOK
      /\ run[r] \in RunState /\ PlacedAt(run[r])
  BY StepLeads, StepGrows, RunType DEF Core, Placed
<1>1. ASSUME NEW q \in Runs, q # r, Active(q)', NEW k \in 1..run'[q].job,
             NEW x \in Through(run'[q], k)
      PROVE  Good(run[q].plan[k], run[q].manifest, x)'
  <2>1. run'[q] = run[q] /\ Active(q) /\ x \in Demo
    BY <1>0, <1>1 DEF Moves, Active, Through
  <2>2. crowded /\ crowded'
    BY <1>0, <1>1, <2>1 DEF Alone, Grows
  <2>3. Good(run[q].plan[k], run[q].manifest, x)
    BY <1>1, <2>1 DEF Progress
  <2>4. Admin(x) => Admin(x)'
    BY <1>0, <2>1, Zenon DEF Admin, Grows, Outlasts
  <2>. QED  BY <1>0, <2>1, <2>2, <2>3, <2>4 DEF Good, Grows
<1>2. ASSUME Active(r)', NEW k \in 1..run'[r].job, NEW x \in Through(run'[r], k)
      PROVE  Good(run[r].plan[k], run[r].manifest, x)'
  <2>. DEFINE s == run[r]
              new == run'[r]
  <2>0. new # Idle /\ x \in Demo /\ s.job \in 1..3
    BY <1>0, <1>2 DEF Active, Idle, Through, RunState
  <2>1. CASE Stays(s, new)
    <3>1. k \in 1..s.job /\ x \in Through(s, k)
      BY <1>2, <2>1 DEF Stays, Through
    <3>. QED  BY <1>2, <3>1, GoodStays
  <2>2. ASSUME NEW todo, TurnsTo(s, todo, new),
               \/ s.at \in {"assign", "write", "replan"} /\ todo = s.todo
               \/ /\ s.at = "list"
                  /\ todo = IF s.plan[s.job] = "tenants" THEN Demo ELSE exists
        PROVE  Good(run[r].plan[k], run[r].manifest, x)'
    <3>1. k \in 1..s.job /\ (k = s.job => x \notin todo)
      <4>1. new.job = s.job \/ new.job = s.job + 1
        BY <2>2 DEF TurnsTo
      <4>2. k <= s.job
        <5>1. CASE new.job = s.job
          BY <1>2, <2>0, <5>1
        <5>2. CASE new.job = s.job + 1 /\ k = new.job
          <6>1. new.at \in {"list", "import"}
            BY <2>0, <2>2, <5>2 DEF TurnsTo
          <6>2. Through(new, k) = {}
            BY <2>0, <5>2, <6>1 DEF Through, PerTenant
          <6>. QED  BY <1>2, <6>2
        <5>3. CASE new.job = s.job + 1 /\ k # new.job
          BY <1>2, <2>0, <5>3
        <5>. QED  BY <4>1, <5>1, <5>2, <5>3
      <4>3. ASSUME k = s.job PROVE x \notin todo
        <5>1. CASE new.tenant \in todo /\ new.todo = todo \ {new.tenant} /\ new.job = s.job
                   /\ new.at \in {"find", "signing", "creds", "load"}
          BY <1>2, <2>0, <4>3, <5>1 DEF Through, PerTenant
        <5>2. CASE todo = {}
          BY <5>2
        <5>. QED  BY <2>2, <5>1, <5>2 DEF TurnsTo
      <4>4. k \in 1..s.job
        <5>1. k \in Nat /\ k >= 1
          <6>1. new.job \in 1..3
            BY <2>2 DEF TurnsTo, RunState
          <6>. QED  BY <1>2, <6>1
        <5>. QED  BY <2>0, <4>2, <5>1
      <4>. QED  BY <4>3, <4>4
    <3>2. CASE x \in Through(s, k)
      BY <1>2, <3>1, <3>2, GoodStays
    <3>3. CASE x \notin Through(s, k)
      <4>1. k = s.job
        BY <2>0, <3>1, <3>3 DEF Through
      <4>2. \/ s.at \in {"assign", "write", "replan"} /\ x = Of(r)
            \/ s.at = "list" /\ s.plan[k] # "tenants" /\ x \notin exists
        BY <2>0, <2>2, <3>1, <3>3, <4>1 DEF Through, PerTenant, Of
      <4>. QED  BY <1>2, <2>0, <4>1, <4>2, TurnGood
    <3>. QED  BY <3>2, <3>3
  <2>. QED  BY <1>0, <2>0, <2>1, <2>2 DEF Leads
<1>. QED  BY <1>1, <1>2 DEF Progress

(***************************************************************************)
(* So does everything else: it is done between runs, or ends one, or       *)
(* starts one that is through with nothing.                                *)
(***************************************************************************)
LEMMA ProgressOther ==
  ASSUME Core, Alone, Progress,
         \/ \E r \in Runs : Cut(r) \/ \E plan \in Plans : Start(r, plan)
         \/ ByHand \/ Rotate \/ Wipe \/ UNCHANGED vars
  PROVE  Progress'
<1>0. TypeOK
  BY DEF Core
<1>q. ASSUME Quiet, UNCHANGED run PROVE Progress'
  BY <1>q DEF Quiet, Progress, Active
<1>1. ASSUME NEW r \in Runs, Cut(r) PROVE Progress'
  <2>1. Moves(r, Idle) /\ Active(r)
    BY <1>0, <1>1 DEF Cut, Fail, Moves, TypeOK
  <2>. SUFFICES ASSUME NEW q \in Runs, Active(q)', NEW k \in 1..run'[q].job,
                       NEW x \in Through(run'[q], k)
                PROVE  Good(run[q].plan[k], run[q].manifest, x)'
    BY DEF Progress
  <2>2. run'[q] = run[q] /\ Active(q) /\ q # r
    BY <2>1 DEF Moves, Active, Idle
  <2>3. crowded /\ crowded' /\ exists' = exists /\ user' = user
    BY <1>1, <2>1, <2>2 DEF Alone, Cut, axiam, orgside
  <2>4. Good(run[q].plan[k], run[q].manifest, x)
    BY <2>2 DEF Progress
  <2>. QED  BY <2>2, <2>3, <2>4 DEF Good, Admin
<1>2. ASSUME NEW r \in Runs, NEW plan \in Plans, Start(r, plan) PROVE Progress'
  <2>1. /\ Moves(r, run'[r]) /\ run'[r].at \in {"list", "import"} /\ run'[r].job = 1
    BY <1>0, <1>2, Opens
  <2>. SUFFICES ASSUME NEW q \in Runs, Active(q)', NEW k \in 1..run'[q].job,
                       NEW x \in Through(run'[q], k)
                PROVE  Good(run[q].plan[k], run[q].manifest, x)'
    BY DEF Progress
  <2>2. q # r
    <3>1. ASSUME q = r PROVE FALSE
      <4>1. k = 1
        BY <2>1, <3>1
      <4>. QED  BY <2>1, <3>1, <4>1 DEF Through, PerTenant
    <3>. QED  BY <3>1
  <2>3. run'[q] = run[q] /\ Active(q)
    BY <2>1, <2>2 DEF Moves, Active
  <2>4. crowded' /\ exists' = exists /\ user' = user
    BY <1>2, <2>3 DEF Start, Quiet, axiam, orgside
  <2>5. Good(run[q].plan[k], run[q].manifest, x)
    BY <2>3 DEF Progress
  <2>. QED  BY <2>3, <2>4, <2>5 DEF Good, Admin
<1>3. CASE ByHand \/ Rotate \/ Wipe
  BY <1>3, <1>q DEF ByHand, Rotate, Wipe
<1>4. CASE UNCHANGED vars
  BY <1>4 DEF vars, axiam, orgside, disk, Progress, Active, Good, Admin, Differs, SignsIn
<1>. QED  BY <1>1, <1>2, <1>3, <1>4

(***************************************************************************)
(* At the end a run is through with every tenant of every command.         *)
(***************************************************************************)
LEMMA EndIsReady ==
  ASSUME Core, NoWildcard, Progress
  PROVE  DoneMeansReady
<1>. SUFFICES ASSUME NEW r \in Runs, At(r, "mark")
              PROVE  /\ Did(r, "tenants") => exists = Demo
                     /\ Did(r, "tenants") \/ (Did(r, "tenant-admin") /\ ~crowded) =>
                          \A t \in exists : user[t] # None /\ user[t].active /\ user[t].admin
                     /\ Did(r, "pki") =>
                          /\ root \in anchored
                          /\ ~crowded => \A t \in exists : caFile[t] = 1 /\ cas[t] = 1
                     /\ Did(r, "catalog") /\ ~crowded =>
                          \A t \in exists : /\ Differs(t, run[r].manifest) = {}
                                             /\ Permission(Wild) \notin held[t]
                                             /\ SignsIn(t, file[t])
  BY DEF DoneMeansReady
<1>. DEFINE s == run[r]
<1>0. /\ Active(r) /\ s \in RunState /\ PlacedAt(s) /\ RootedAt(s) /\ s.at = "mark"
      /\ exists \subseteq Demo
  BY RunType DEF At, Active, Core, Placed, Rooted, TypeOK
<1>1. s.job = Len(s.plan) /\ Len(s.plan) \in 1..3
  BY <1>0, PlanJobs DEF PlacedAt, RunState
<1>2. ASSUME NEW job, Did(r, job)
      PROVE  /\ \A t \in Demo : Good(job, s.manifest, t)
             /\ job = "pki" => root \in anchored
  <2>1. PICK k \in 1..Len(s.plan) : s.plan[k] = job
    BY <1>2 DEF Did
  <2>2. k \in 1..s.job /\ Through(s, k) = Demo
    BY <1>0, <1>1 DEF Through
  <2>3. \A t \in Demo : Good(job, s.manifest, t)
    BY <1>0, <2>1, <2>2 DEF Progress
  <2>4. k = s.job \/ k \in 1..s.job - 1
    BY <1>1
  <2>5. job = "pki" => root \in anchored
    BY <1>0, <2>1, <2>4 DEF RootedAt
  <2>. QED  BY <2>3, <2>5
<1>3. Did(r, "tenants") => exists = Demo /\ \A t \in exists : Admin(t)
  BY <1>0, <1>2 DEF Good
<1>4. Did(r, "tenant-admin") /\ ~crowded => \A t \in exists : Admin(t)
  BY <1>0, <1>2 DEF Good
<1>5. Did(r, "pki") => /\ root \in anchored
                       /\ ~crowded => \A t \in exists : caFile[t] = 1 /\ cas[t] = 1
  BY <1>0, <1>2 DEF Good
<1>6. Did(r, "catalog") /\ ~crowded =>
        \A t \in exists : Differs(t, s.manifest) = {} /\ SignsIn(t, file[t])
  BY <1>0, <1>2 DEF Good
<1>7. \A t \in exists : Permission(Wild) \notin held[t]
  BY <1>0 DEF NoWildcard
<1>8. (\A t \in exists : Admin(t)) => \A t \in exists : user[t] # None /\ user[t].active /\ user[t].admin
  BY Zenon DEF Admin
<1>. QED  BY <1>3, <1>4, <1>5, <1>6, <1>7, <1>8

\* The whole of it: types, places, runs alone, and what they are through with.
Inv == AloneInv /\ NoWildcard /\ Progress

(***************************************************************************)
(* A run that comes to its end leaves AXIAM ready for what comes next: the *)
(* root anchored, every tenant with its administrator and its one CA, be   *)
(* it beneath this root or an earlier one, the catalog whole and with no   *)
(* wildcard in it (Provision.DoneMeansReady).                              *)
(***************************************************************************)
THEOREM ReadyWhenDone == Spec => []DoneMeansReady
<1>1. Init => Inv
  <2>1. Init => AloneInv
    BY AloneStarts
  <2>2. Init => NoWildcard
    BY DEF Init, NoWildcard
  <2>3. Init => Progress
    BY CoreStarts DEF Quiet, Progress
  <2>. QED  BY <2>1, <2>2, <2>3 DEF Inv
<1>2. Inv /\ [Next]_vars => Inv'
  <2>. SUFFICES ASSUME Inv, [Next]_vars PROVE Inv'
    OBVIOUS
  <2>1. Core /\ Alone /\ AloneKept /\ NoWildcard /\ Progress
    BY DEF Inv, AloneInv
  <2>2. Core'
    BY <2>1, CoreStep, CoreOther DEF Next
  <2>3. Alone' /\ AloneKept'
    BY <2>1, AloneStep, AloneOther DEF Next
  <2>4. NoWildcard'
    BY <2>1, CleanKeeps
  <2>5. Progress'
    BY <2>1, ProgressStep, ProgressOther DEF Next
  <2>. QED  BY <2>2, <2>3, <2>4, <2>5 DEF Inv, AloneInv
<1>3. Inv => DoneMeansReady
  BY EndIsReady DEF Inv, AloneInv
<1>. QED  BY <1>1, <1>2, <1>3, PTL DEF Spec
=============================================================================
