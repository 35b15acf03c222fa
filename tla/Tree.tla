-------------------------------- MODULE Tree ---------------------------------
(***************************************************************************)
(* A tenant's resource tree and its structural groups: the `tree' stage    *)
(* (stages/tree.rs) makes the portfolio, `smoke-tree' (stages/smoke.rs) a  *)
(* branch beneath it, and `smoke-teardown' (stages/smoke/teardown.rs)      *)
(* removes the branch.  AXIAM keeps group names unique and resource names  *)
(* not, and no call is transactional: runs may overlap, and each of them   *)
(* may be cut short at any call.                                           *)
(***************************************************************************)
EXTENDS Integers, Sequences, FiniteSets

CONSTANTS
  None,
  Runs,       \* runs of `tree' and `smoke-tree' that may overlap
  Root,       \* the portfolio
  Branch,     \* the nodes of the smoke branch, parents first
  Parent,     \* the node above each node of the branch
  Depth,      \* how many nodes are above a node
  Roles,      \* the roles structural_groups_for lists for each node
  MaxMade,    \* bound on resources ever made
  MaxFaults   \* bound on runs cut short

Nodes == {Root} \cup {Branch[k] : k \in 1..Len(Branch)}
Fixtures == Nodes \ {Root}       \* what carries the reserved prefix
RoleNames == UNION {{Roles[n][k] : k \in 1..Len(Roles[n])} : n \in Nodes}
Ids == 1..MaxMade

ASSUME TreeAssumption ==
  /\ Branch \in Seq(Fixtures) /\ Branch # << >> /\ None \notin Ids
  /\ Root \notin {Branch[k] : k \in 1..Len(Branch)}
  /\ \A j, k \in 1..Len(Branch) : Branch[j] = Branch[k] => j = k
  /\ Parent \in [Fixtures -> Nodes] /\ Depth \in [Nodes -> Nat]
  /\ \A n \in Fixtures : Depth[n] = Depth[Parent[n]] + 1
  /\ \A k \in 1..Len(Branch) :
       Parent[Branch[k]] = Root \/ \E j \in 1..(k - 1) : Parent[Branch[k]] = Branch[j]
  /\ DOMAIN Roles = Nodes /\ \A n \in Nodes : Roles[n] \in Seq(RoleNames)
  /\ MaxMade \in Nat /\ MaxFaults \in Nat

VARIABLES
  resources,   \* AXIAM: the resources, each with its node and its parent's id
  groups,      \* AXIAM: the names of the groups, a role and a node each
  bindings,    \* AXIAM: which group holds its role on which resource
  made,        \* how many resources were ever made
  runs,        \* what each run does next
  sweep,       \* what the teardown does next
  overlapped,  \* have two runs been under way at the same time?
  faults

axiam == <<resources, groups, bindings, made>>
vars == <<axiam, runs, sweep, overlapped, faults>>

GroupNames == RoleNames \X Nodes
Resource == [id : Ids, node : Nodes, parent : Ids \cup {None}]
Plan(work) == IF work = "tree" THEN <<Root>> ELSE Branch

Idle == [at |-> "idle"]
Busy == {"resolve", "list", "create", "search", "make", "assign"}
RunState ==
  [at : Busy \cup {"done"}, work : {"tree", "smoke"}, node : 1..(Len(Branch) + 1),
   role : Nat, found : [Nodes -> Ids \cup {None}]]

TypeOK ==
  /\ resources \subseteq Resource /\ groups \subseteq GroupNames
  /\ bindings \subseteq [group : GroupNames, resource : Ids]
  /\ made \in 0..MaxMade
  /\ runs \in [Runs -> RunState \cup {Idle}]
  /\ sweep \in {"off", "groups", "resources"}
  /\ overlapped \in BOOLEAN /\ faults \in 0..MaxFaults

Init ==
  /\ resources = {} /\ groups = {} /\ bindings = {} /\ made = 0
  /\ runs = [r \in Runs |-> Idle]
  /\ sweep = "off" /\ overlapped = FALSE /\ faults = 0

-----------------------------------------------------------------------------
Active(r) == runs[r].at \in Busy
Fault == faults < MaxFaults /\ faults' = faults + 1

Start(r, work) ==
  /\ ~Active(r) /\ sweep = "off"
  /\ runs' = [runs EXCEPT ![r] =
       [at |-> IF work = "tree" THEN "list" ELSE "resolve", work |-> work,
        node |-> 1, role |-> 1, found |-> [n \in Nodes |-> None]]]
  /\ overlapped' = (overlapped \/ \E s \in Runs \ {r} : Active(s))
  /\ UNCHANGED <<axiam, sweep, faults>>

At(r, step) == runs[r].at = step
NodeOf(r) == Plan(runs[r].work)[runs[r].node]
ParentId(r) == IF NodeOf(r) = Root THEN None ELSE runs[r].found[Parent[NodeOf(r)]]
GroupOf(r) == <<Roles[NodeOf(r)][runs[r].role], NodeOf(r)>>

NamedMutant(node, parent) == {x \in resources : x.node = node /\ x.parent = None}

\* The children of an id that go by the name of a node; the roots for None.
Named(node, parent) == {x \in resources : x.node = node /\ x.parent = parent}

Goto(r, step) == runs' = [runs EXCEPT ![r].at = step]
Fail(r) == runs' = [runs EXCEPT ![r] = Idle]
Calls(r) == UNCHANGED <<sweep, overlapped, faults>>

\* What follows a node's groups up to number `role': the next one, the next
\* node, or the end.
After(r, role, found) ==
  LET s == [runs[r] EXCEPT !.found = found]
  IN  runs' = [runs EXCEPT ![r] =
        IF role < Len(Roles[NodeOf(r)])
        THEN [s EXCEPT !.at = "search", !.role = role + 1]
        ELSE IF s.node < Len(Plan(s.work))
        THEN [s EXCEPT !.at = "list", !.node = @ + 1, !.role = 1]
        ELSE [s EXCEPT !.at = "done"]]

Keep(r, node, id) == [runs[r].found EXCEPT ![node] = id]

\* resolve_portfolio: exactly one, or give up.
Resolve(r) ==
  /\ At(r, "resolve")
  /\ IF \E x \in Named(Root, None) : Named(Root, None) = {x}
     THEN \E x \in Named(Root, None) :
            runs' = [runs EXCEPT ![r].at = "list", ![r].found = Keep(r, Root, x.id)]
     ELSE Fail(r)
  /\ UNCHANGED axiam /\ Calls(r)

(***************************************************************************)
(* ensure_resource: the children of the parent are listed; two of one name *)
(* are refused, one is taken, and for none a new one is created in a call  *)
(* of its own.                                                             *)
(***************************************************************************)
List(r) ==
  /\ At(r, "list")
  /\ LET matches == Named(NodeOf(r), ParentId(r))
     IN  \/ matches = {} /\ Goto(r, "create")
         \/ \E x \in matches : matches = {x} /\ After(r, 0, Keep(r, NodeOf(r), x.id))
         \/ \E x, y \in matches : x # y /\ Fail(r)
  /\ UNCHANGED axiam /\ Calls(r)

CreateMutant(r) ==         \* mutant: beneath the resource made last
  /\ At(r, "create") /\ made < MaxMade
  /\ made' = made + 1
  /\ resources' = resources \cup {[id |-> made + 1, node |-> NodeOf(r), parent |-> made]}
  /\ After(r, 0, Keep(r, NodeOf(r), made + 1))
  /\ UNCHANGED <<groups, bindings>> /\ Calls(r)

Create(r) ==
  /\ At(r, "create") /\ made < MaxMade
  /\ made' = made + 1
  /\ resources' = resources \cup {[id |-> made + 1, node |-> NodeOf(r), parent |-> ParentId(r)]}
  /\ After(r, 0, Keep(r, NodeOf(r), made + 1))
  /\ UNCHANGED <<groups, bindings>> /\ Calls(r)

\* ensure_group_binding: the group by its name, ...
Search(r) ==
  /\ At(r, "search")
  /\ Goto(r, IF GroupOf(r) \in groups THEN "assign" ELSE "make")
  /\ UNCHANGED axiam /\ Calls(r)

MakeMutant(r) ==           \* mutant: a lost race passes for done
  /\ At(r, "make")
  /\ IF GroupOf(r) \in groups
     THEN After(r, runs[r].role, runs[r].found)
     ELSE Goto(r, "assign")
  /\ groups' = groups \cup {GroupOf(r)}
  /\ UNCHANGED <<resources, bindings, made>> /\ Calls(r)

\* ... or created; a refused creation is another run's, and is resolved; ...
Make(r) ==
  /\ At(r, "make")
  /\ groups' = groups \cup {GroupOf(r)}
  /\ Goto(r, "assign")
  /\ UNCHANGED <<resources, bindings, made>> /\ Calls(r)

\* ... and its role on this resource, which may be there already.
Assign(r) ==
  /\ At(r, "assign")
  /\ bindings' = bindings \cup {[group |-> GroupOf(r), resource |-> runs[r].found[NodeOf(r)]]}
  /\ After(r, runs[r].role, runs[r].found)
  /\ UNCHANGED <<resources, groups, made>> /\ Calls(r)

\* A call fails, or the process is killed.
CutShort(r) ==
  /\ Active(r) /\ Fault
  /\ Fail(r)
  /\ UNCHANGED <<axiam, sweep, overlapped>>

\* The bounded model has no resource left to make: as if refused.
Exhausted(r) ==
  /\ At(r, "create") /\ made = MaxMade
  /\ Fail(r)
  /\ UNCHANGED axiam /\ Calls(r)

-----------------------------------------------------------------------------
(***************************************************************************)
(* smoke-teardown: the groups of the branch, then its resources, deepest   *)
(* first.  With a group go its bindings.                                   *)
(***************************************************************************)
SmokeGroups == {g \in groups : g[2] \in Fixtures}
Smoke == {x \in resources : x.node \in Fixtures}

BeginSweepMutant ==        \* mutant: the resources first
  /\ sweep = "off" /\ \A r \in Runs : ~Active(r)
  /\ sweep' = "resources"
  /\ runs' = [r \in Runs |-> Idle]
  /\ UNCHANGED <<axiam, overlapped, faults>>

BeginSweep ==
  /\ sweep = "off" /\ \A r \in Runs : ~Active(r)
  /\ sweep' = "groups"
  /\ runs' = [r \in Runs |-> Idle]
  /\ UNCHANGED <<axiam, overlapped, faults>>

DeleteGroup ==
  /\ sweep = "groups"
  /\ \E g \in SmokeGroups :
       /\ groups' = groups \ {g}
       /\ bindings' = {b \in bindings : b.group # g}
  /\ UNCHANGED <<resources, made, runs, sweep, overlapped, faults>>

GroupsGone ==
  /\ sweep = "groups" /\ SmokeGroups = {}
  /\ sweep' = "resources"
  /\ UNCHANGED <<axiam, runs, overlapped, faults>>

DeepestMutant == Smoke     \* mutant: in the order of the listing
Deepest == {x \in Smoke : \A y \in Smoke : Depth[y.node] <= Depth[x.node]}

DeleteResource ==
  /\ sweep = "resources"
  /\ \E x \in Deepest : resources' = resources \ {x}
  /\ UNCHANGED <<groups, bindings, made, runs, sweep, overlapped, faults>>

ResourcesGone ==
  /\ sweep = "resources" /\ Smoke = {}
  /\ sweep' = "off"
  /\ UNCHANGED <<axiam, runs, overlapped, faults>>

SweepCutShort ==
  /\ sweep # "off" /\ Fault
  /\ sweep' = "off"
  /\ UNCHANGED <<axiam, runs, overlapped>>

-----------------------------------------------------------------------------
Next ==
  \/ \E r \in Runs :
       \/ \E work \in {"tree", "smoke"} : Start(r, work)
       \/ Resolve(r) \/ List(r) \/ Create(r) \/ Search(r) \/ Make(r) \/ Assign(r)
       \/ CutShort(r) \/ Exhausted(r)
  \/ BeginSweep \/ DeleteGroup \/ GroupsGone \/ DeleteResource \/ ResourcesGone
  \/ SweepCutShort

Spec == Init /\ [][Next]_vars

-----------------------------------------------------------------------------
(***************************************************************************)
(* Whatever overlaps and whatever is cut short, nothing points to what is  *)
(* gone: a node's parent is there, and so are a binding's group and        *)
(* resource, of one node (teardown.rs:57-117: groups before resources,     *)
(* the deepest first).                                                     *)
(***************************************************************************)
NothingDangles ==
  /\ \A x \in resources :
       x.node # Root => \E y \in resources : y.id = x.parent /\ y.node = Parent[x.node]
  /\ \A b \in bindings :
       /\ b.group \in groups
       /\ \E x \in resources : x.id = b.resource /\ x.node = b.group[2]

(***************************************************************************)
(* As long as no two runs overlap, no name stands for two siblings and no  *)
(* group reaches two resources, however runs and teardowns were cut short  *)
(* (tree.rs:19-24, assertions.rs:248-279).                                 *)
(***************************************************************************)
AloneUnambiguous ==
  ~overlapped =>
    /\ \A x, y \in resources : x.node = y.node /\ x.parent = y.parent => x = y
    /\ \A b, c \in bindings : b.group = c.group => b = c

(***************************************************************************)
(* A run that ends well has found or made every node of its plan, with     *)
(* every structural group holding its role there, also when another run    *)
(* was faster with some of it (tree.rs:195-216, 230-255).                  *)
(***************************************************************************)
Built(r) ==
  \A k \in 1..Len(Plan(runs[r].work)) :
    LET n == Plan(runs[r].work)[k]
        id == runs[r].found[n]
    IN  /\ \E x \in resources : x.id = id /\ x.node = n
        /\ \A i \in 1..Len(Roles[n]) : [group |-> <<Roles[n][i], n>>, resource |-> id] \in bindings

DoneMeansBuilt == \A r \in Runs : At(r, "done") => Built(r)

(***************************************************************************)
(* tree.rs:342 "The portfolio's own structural group, bound and scoped":   *)
(* when `verify' finds nothing to object to, the group holds its role on   *)
(* the portfolio.                                                          *)
(***************************************************************************)
VerifyPasses ==
  \E x \in Named(Root, None) :
    Named(Root, None) = {x} /\ <<Roles[Root][1], Root>> \in groups

VerifiedMeansBound ==
  VerifyPasses /\ (\A r \in Runs : ~Active(r)) =>
    \E b \in bindings, x \in Named(Root, None) :
      b = [group |-> <<Roles[Root][1], Root>>, resource |-> x.id]
=============================================================================
