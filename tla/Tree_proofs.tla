---------------------------- MODULE Tree_proofs -----------------------------
(***************************************************************************)
(* Proofs about the resource tree for any branch, any groups, and any      *)
(* number of runs, resources and interruptions.                            *)
(***************************************************************************)
EXTENDS Tree, TLAPS

Started(r) == runs[r].at # "idle"

\* A resource of a node is there.
Present(id, n, there) == \E x \in there : x.id = id /\ x.node = n

\* A node has this id, and its groups up to number `last' hold their roles there.
Built1(n, id, last, held) ==
  /\ id # None
  /\ \A i \in 1..last : [group |-> <<Roles[n][i], n>>, resource |-> id] \in held

\* The node a run is at.
Node(s) == Plan(s.work)[s.node]

\* What a run has found is there; what it has passed is built; what it has
\* found or made of a group is there when it assigns the role.
Passed(work, found, node, held) ==
  \A k \in 1..(node - 1) :
    LET n == Plan(work)[k] IN Built1(n, found[n], Len(Roles[n]), held)

FoundThere(found, there) ==
  \A n \in Nodes : found[n] # None => Present(found[n], n, there)

Sound(s, there, named, held) ==
  /\ FoundThere(s.found, there)
  /\ s.node \in 1..Len(Plan(s.work))
  /\ s.at = "resolve" => s.work = "smoke" /\ s.node = 1
  /\ s.work = "smoke" /\ s.at # "resolve" => s.found[Root] # None
  /\ Passed(s.work, s.found, s.node, held)
  /\ s.at \in {"search", "make", "assign"} =>
       /\ s.role \in 1..Len(Roles[Node(s)])
       /\ Built1(Node(s), s.found[Node(s)], s.role - 1, held)
  /\ s.at = "assign" => <<Roles[Node(s)][s.role], Node(s)>> \in named
  /\ s.at = "done" =>
       /\ s.node = Len(Plan(s.work))
       /\ Built1(Node(s), s.found[Node(s)], Len(Roles[Node(s)]), held)

RunsSound == \A r \in Runs : Started(r) => Sound(runs[r], resources, groups, bindings)

\* Ids are given out once, and a portfolio is beneath nothing.
Numbered ==
  /\ \A x \in resources : x.id <= made
  /\ \A x, y \in resources : x.id = y.id => x = y
  /\ \A x \in resources : x.node = Root => x.parent = None

\* No run is under way during a teardown, and the groups of the branch are
\* gone when its resources go.
SweepAlone ==
  /\ sweep # "off" => \A r \in Runs : ~Started(r)
  /\ sweep = "resources" => SmokeGroups = {}

\* While no two runs have overlapped, a node has one resource at most, and
\* none when a run is about to make it.
OneOfEach ==
  ~overlapped =>
    /\ \A r, s \in Runs : Active(r) /\ Active(s) => r = s
    /\ \A x, y \in resources : x.node = y.node => x = y
    /\ \A r \in Runs : At(r, "create") => \A x \in resources : x.node # NodeOf(r)
    /\ \A b, c \in bindings : b.group = c.group => b = c

Inv == TypeOK /\ RunsSound /\ Numbered /\ NothingDangles /\ SweepAlone /\ OneOfEach

-----------------------------------------------------------------------------
\* A plan is not empty and names nodes, each of them once.
LEMMA PlanNodes ==
  ASSUME NEW work \in {"tree", "smoke"}
  PROVE  /\ Len(Plan(work)) \in Nat /\ Len(Plan(work)) >= 1
         /\ Len(Plan(work)) <= Len(Branch) /\ Len(Branch) \in Nat
         /\ \A k \in 1..Len(Plan(work)) : Plan(work)[k] \in Nodes
         /\ \A j, k \in 1..Len(Plan(work)) : Plan(work)[j] = Plan(work)[k] => j = k
<1>1. Len(Branch) \in Nat /\ Len(Branch) >= 1
  BY TreeAssumption
<1>2. CASE work = "tree"
  BY <1>1, <1>2 DEF Plan, Nodes
<1>3. CASE work = "smoke"
  <2>1. Plan(work) = Branch
    BY <1>3 DEF Plan
  <2>2. \A k \in 1..Len(Branch) : Branch[k] \in Nodes
    BY DEF Nodes
  <2> QED
    BY <1>1, <2>1, <2>2, TreeAssumption
<1> QED
  BY <1>2, <1>3

\* The root is the tree's only node; of the branch, each node's parent is
\* the root or comes earlier.
LEMMA ParentsFirst ==
  /\ \A k \in 1..Len(Plan("tree")) : Plan("tree")[k] = Root
  /\ \A k \in 1..Len(Plan("smoke")) :
       /\ Plan("smoke")[k] \in Fixtures
       /\ \/ Parent[Plan("smoke")[k]] = Root
          \/ \E j \in 1..(k - 1) : Parent[Plan("smoke")[k]] = Plan("smoke")[j]
<1>1. Plan("tree") = <<Root>> /\ Plan("smoke") = Branch
  BY DEF Plan
<1>2. \A k \in 1..Len(Branch) : Branch[k] \in Fixtures
  BY TreeAssumption
<1> QED
  BY <1>1, <1>2, TreeAssumption

\* The groups of a node have names.
LEMMA RolesNamed ==
  ASSUME NEW n \in Nodes
  PROVE  /\ Len(Roles[n]) \in Nat
         /\ \A i \in 1..Len(Roles[n]) : <<Roles[n][i], n>> \in GroupNames
BY TreeAssumption DEF GroupNames

\* What was built and found stays so while nothing is taken away.
LEMMA SoundGrows ==
  ASSUME NEW s, NEW there, NEW there2, NEW named, NEW named2, NEW held, NEW held2,
         there \subseteq there2, named \subseteq named2, held \subseteq held2,
         Sound(s, there, named, held)
  PROVE  Sound(s, there2, named2, held2)
<1>1. FoundThere(s.found, there2)
  BY DEF Sound, FoundThere, Present
<1>2. \A n, id, last : Built1(n, id, last, held) => Built1(n, id, last, held2)
  BY DEF Built1
<1>3. Passed(s.work, s.found, s.node, held2)
  BY <1>2 DEF Sound, Passed
<1> QED
  BY <1>1, <1>2, <1>3 DEF Sound

\* Where a run goes after a group, or after finding a node (number 0).
ToGroup(s, i) == [s EXCEPT !.at = "search", !.role = i]
ToNode(s, k) == [s EXCEPT !.at = "list", !.node = k, !.role = 1]
ToEnd(s) == [s EXCEPT !.at = "done"]

Following(s, role) ==
  IF role < Len(Roles[Node(s)]) THEN ToGroup(s, role + 1)
  ELSE IF s.node < Len(Plan(s.work)) THEN ToNode(s, s.node + 1)
  ELSE ToEnd(s)

\* After's step takes the run where it follows.
LEMMA AfterFollows ==
  ASSUME TypeOK, NEW r \in Runs, Started(r), NEW role, NEW found \in [Nodes -> Ids \cup {None}],
         After(r, role, found)
  PROVE  runs' = [runs EXCEPT ![r] = Following([runs[r] EXCEPT !.found = found], role)]
<1> DEFINE s == [runs[r] EXCEPT !.found = found]
<1>1. runs[r] \in RunState
  BY DEF TypeOK, Started, Idle
<1>2. Node(s) = NodeOf(r)
  BY <1>1 DEF RunState, Node, NodeOf
<1> QED
  BY <1>2 DEF After, Following, ToGroup, ToNode, ToEnd

\* A record of a run that moves on is still one.
LEMMA RunMoves ==
  ASSUME NEW s \in RunState
  PROVE  /\ \A found \in [Nodes -> Ids \cup {None}] :
              /\ [s EXCEPT !.found = found] \in RunState
              /\ [s EXCEPT !.found = found].found = found
              /\ [s EXCEPT !.found = found].at = s.at /\ [s EXCEPT !.found = found].work = s.work
              /\ [s EXCEPT !.found = found].node = s.node
              /\ [s EXCEPT !.found = found].role = s.role
         /\ \A at \in Busy \cup {"done"} :
              /\ [s EXCEPT !.at = at] \in RunState
              /\ [s EXCEPT !.at = at].at = at /\ [s EXCEPT !.at = at].found = s.found
              /\ [s EXCEPT !.at = at].work = s.work /\ [s EXCEPT !.at = at].node = s.node
              /\ [s EXCEPT !.at = at].role = s.role
         /\ \A role \in Nat : [s EXCEPT !.role = role] \in RunState
         /\ \A node \in 1..(Len(Branch) + 1) : [s EXCEPT !.node = node] \in RunState
BY DEF RunState

\* So is one that goes on to a group.
LEMMA OnToGroup ==
  ASSUME NEW s \in RunState, NEW i \in Nat
  PROVE  LET f == ToGroup(s, i)
         IN  /\ f \in RunState /\ f.at = "search" /\ f.role = i
             /\ f.found = s.found /\ f.node = s.node /\ f.work = s.work
BY DEF RunState, Busy, ToGroup

\* The next node's groups are still to come.
LEMMA OnToNode ==
  ASSUME NEW s \in RunState, NEW k \in 1..(Len(Branch) + 1)
  PROVE  LET f == ToNode(s, k)
         IN  /\ f \in RunState /\ f.at = "list"
             /\ f.found = s.found /\ f.node = k /\ f.work = s.work
<1>1. "list" \in Busy /\ 1 \in Nat
  BY DEF Busy
<1> QED
  BY <1>1 DEF RunState, ToNode

\* The end keeps what was found.
LEMMA OnToEnd ==
  ASSUME NEW s \in RunState
  PROVE  LET f == ToEnd(s)
         IN  /\ f \in RunState /\ f.at = "done"
             /\ f.found = s.found /\ f.node = s.node /\ f.work = s.work
BY DEF RunState, ToEnd

\* A run that has built its node up to some group goes on soundly.
LEMMA FollowingSound ==
  ASSUME NEW s \in RunState, NEW there, NEW named, NEW held, NEW role \in Nat,
         s.node \in 1..Len(Plan(s.work)), role <= Len(Roles[Node(s)]),
         FoundThere(s.found, there),
         s.work = "smoke" => s.found[Root] # None,
         Passed(s.work, s.found, s.node, held),
         Built1(Node(s), s.found[Node(s)], role, held)
  PROVE  /\ Following(s, role) \in RunState
         /\ Following(s, role).at \in {"search", "list", "done"}
         /\ Sound(Following(s, role), there, named, held)
<1> SUFFICES ASSUME NEW f, f = Following(s, role)
             PROVE  f \in RunState /\ f.at \in {"search", "list", "done"}
                    /\ Sound(f, there, named, held)
  OBVIOUS
<1>1. /\ s.work \in {"tree", "smoke"} /\ Node(s) \in Nodes
      /\ Len(Plan(s.work)) \in Nat /\ Len(Plan(s.work)) <= Len(Branch) /\ Len(Branch) \in Nat
  BY PlanNodes DEF RunState, Node
<1>2. Len(Roles[Node(s)]) \in Nat
  BY <1>1, RolesNamed
<1>3. CASE role < Len(Roles[Node(s)])
  <2>1. f = ToGroup(s, role + 1)
    BY <1>3 DEF Following
  <2>2. /\ f \in RunState /\ f.at = "search" /\ f.role = role + 1 /\ f.found = s.found
        /\ f.node = s.node /\ f.work = s.work
    <3>1. PICK i \in Nat : i = role + 1
      OBVIOUS
    <3>2. f = ToGroup(s, i)
      BY <2>1, <3>1
    <3>3. ToGroup(s, i) \in RunState /\ ToGroup(s, i).at = "search" /\ ToGroup(s, i).role = i
      BY <3>1, OnToGroup
    <3>4. ToGroup(s, i).node = s.node /\ ToGroup(s, i).work = s.work /\ ToGroup(s, i).found = s.found
      BY <3>1, OnToGroup
    <3> QED
      BY <3>1, <3>2, <3>3, <3>4
  <2>3. Node(f) = Node(s) /\ f.role - 1 = role /\ f.role \in 1..Len(Roles[Node(f)])
    BY <1>2, <1>3, <2>2 DEF Node
  <2>4. Built1(Node(f), f.found[Node(f)], f.role - 1, held)
    BY <2>2, <2>3
  <2> QED
    BY <2>2, <2>3, <2>4 DEF Sound
<1>4. CASE ~(role < Len(Roles[Node(s)])) /\ s.node < Len(Plan(s.work))
  <2>1. f = ToNode(s, s.node + 1)
    BY <1>4 DEF Following
  <2>2. s.node + 1 \in 1..(Len(Branch) + 1)
    BY <1>1, <1>4
  <2>3. /\ f \in RunState /\ f.at = "list" /\ f.found = s.found
        /\ f.node = s.node + 1 /\ f.work = s.work
    BY <2>1, <2>2, OnToNode
  <2>4. role = Len(Roles[Node(s)])
    BY <1>2, <1>4
  <2>5. Passed(s.work, s.found, s.node + 1, held)
    BY <2>4, <1>1 DEF Passed, Node
  <2>6. f.node \in 1..Len(Plan(f.work))
    BY <1>1, <1>4, <2>3
  <2> QED
    BY <2>3, <2>5, <2>6 DEF Sound
<1>5. CASE ~(role < Len(Roles[Node(s)])) /\ ~(s.node < Len(Plan(s.work)))
  <2>1. f = ToEnd(s)
    BY <1>5 DEF Following
  <2>2. /\ f \in RunState /\ f.at = "done" /\ f.found = s.found
        /\ f.node = s.node /\ f.work = s.work
    BY <2>1, OnToEnd
  <2>3. role = Len(Roles[Node(s)]) /\ s.node = Len(Plan(s.work)) /\ Node(f) = Node(s)
    BY <1>1, <1>2, <1>5, <2>2 DEF Node
  <2>4. Built1(Node(f), f.found[Node(f)], Len(Roles[Node(f)]), held)
    BY <2>2, <2>3
  <2> QED
    BY <2>2, <2>3, <2>4 DEF Sound
<1> QED
  BY <1>3, <1>4, <1>5

-----------------------------------------------------------------------------
(***************************************************************************)
(* One run's move.  The record it moves to, what it made, and soundness.   *)
(***************************************************************************)
\* If one run moves soundly and nothing is taken away, all stay sound.
LEMMA SoundMove ==
  ASSUME TypeOK, RunsSound, NEW r \in Runs, NEW slot \in RunState \cup {Idle},
         runs' = [runs EXCEPT ![r] = slot],
         resources \subseteq resources', groups \subseteq groups', bindings \subseteq bindings',
         slot # Idle => Sound(slot, resources', groups', bindings')
  PROVE  RunsSound' /\ runs' \in [Runs -> RunState \cup {Idle}]
<1>1. runs' \in [Runs -> RunState \cup {Idle}]
  BY DEF TypeOK
<1>2. ASSUME NEW q \in Runs, Started(q)'
      PROVE  Sound(runs'[q], resources', groups', bindings')
  <2>1. CASE q = r
    BY <1>2, <2>1 DEF TypeOK, Started, Idle
  <2>2. CASE q # r
    <3>1. runs'[q] = runs[q] /\ Sound(runs[q], resources, groups, bindings)
      BY <1>2, <2>2 DEF TypeOK, Started, RunsSound
    <3> QED
      BY <3>1, SoundGrows
  <2> QED
    BY <2>1, <2>2
<1> QED
  BY <1>1, <1>2 DEF RunsSound

\* A run that moves without making anything leaves one of each, unless it
\* is about to make what is there.
LEMMA OneOfEachMove ==
  ASSUME TypeOK, OneOfEach, NEW r \in Runs, Active(r), NEW slot,
         runs' = [runs EXCEPT ![r] = slot],
         UNCHANGED <<resources, bindings, overlapped>>,
         slot.at = "create" /\ ~overlapped => \A x \in resources : x.node # Node(slot)
  PROVE  OneOfEach'
<1>1. \A q \in Runs : Active(q)' => Active(q)
  BY DEF TypeOK, Active
<1>2. ASSUME NEW q \in Runs, At(q, "create")', ~overlapped, NEW x \in resources
      PROVE  x.node # NodeOf(q)'
  BY <1>2 DEF TypeOK, At, NodeOf, Node, OneOfEach
<1> QED
  BY <1>1, <1>2 DEF OneOfEach

\* A run that is under way knows its node and, but for the portfolio, the id
\* of a resource of the node above.
LEMMA ParentKnown ==
  ASSUME TypeOK, RunsSound, NEW r \in Runs, Active(r), ~At(r, "resolve")
  PROVE  /\ runs[r] \in RunState /\ Sound(runs[r], resources, groups, bindings)
         /\ NodeOf(r) = Node(runs[r]) /\ NodeOf(r) \in Nodes
         /\ NodeOf(r) = Root => ParentId(r) = None
         /\ NodeOf(r) # Root =>
              /\ NodeOf(r) \in Fixtures /\ Parent[NodeOf(r)] \in Nodes
              /\ ParentId(r) \in Ids
              /\ Present(ParentId(r), Parent[NodeOf(r)], resources)
<1> DEFINE s == runs[r]
<1>1. s \in RunState /\ Sound(s, resources, groups, bindings)
  BY DEF TypeOK, Active, Busy, Idle, RunsSound, Started
<1>2. NodeOf(r) = Node(s)
  BY DEF NodeOf, Node
<1>3. s.work \in {"tree", "smoke"} /\ s.node \in 1..Len(Plan(s.work)) /\ s.at # "resolve"
  BY <1>1 DEF RunState, Sound, At
<1>4. Node(s) \in Nodes
  BY <1>3, PlanNodes DEF Node
<1>5. CASE s.work = "tree"
  BY <1>1, <1>2, <1>3, <1>4, <1>5, ParentsFirst DEF ParentId, Node
<1>6. CASE s.work = "smoke"
  <2>1. Node(s) \in Fixtures /\ Node(s) # Root /\ Parent[Node(s)] \in Nodes
    BY <1>3, <1>6, ParentsFirst, TreeAssumption DEF Node, Fixtures
  <2>2. s.found[Parent[Node(s)]] # None
    <3>1. CASE Parent[Node(s)] = Root
      BY <1>1, <1>3, <1>6, <3>1 DEF Sound
    <3>2. CASE \E j \in 1..(s.node - 1) : Parent[Node(s)] = Plan("smoke")[j]
      BY <1>1, <1>6, <3>2 DEF Sound, Passed, Built1
    <3> QED
      BY <1>3, <1>6, <3>1, <3>2, ParentsFirst DEF Node
  <2>3. s.found \in [Nodes -> Ids \cup {None}]
    BY <1>1 DEF RunState
  <2>4. ParentId(r) = s.found[Parent[Node(s)]]
    BY <1>2, <2>1 DEF ParentId
  <2>5. FoundThere(s.found, resources)
    BY <1>1 DEF Sound
  <2>6. ParentId(r) \in Ids /\ Present(ParentId(r), Parent[Node(s)], resources)
    BY <2>1, <2>2, <2>3, <2>4, <2>5 DEF FoundThere
  <2> QED
    BY <1>1, <1>2, <1>4, <2>1, <2>6
<1> QED
  BY <1>3, <1>5, <1>6

\* A run that finds or makes its node goes on to its groups.
LEMMA KeepSound ==
  ASSUME NEW s \in RunState, NEW there, NEW named, NEW held, NEW id \in Ids, NEW there2,
         Sound(s, there, named, held), s.at # "resolve",
         there \subseteq there2, Present(id, Node(s), there2), NEW found,
         found = [s.found EXCEPT ![Node(s)] = id]
  PROVE  LET f == Following([s EXCEPT !.found = found], 0)
         IN  /\ found \in [Nodes -> Ids \cup {None}]
             /\ f \in RunState /\ f.at \in {"search", "list", "done"}
             /\ Sound(f, there2, named, held)
<1>1. s.work \in {"tree", "smoke"} /\ s.node \in 1..Len(Plan(s.work))
  BY DEF RunState, Sound
<1>2. Node(s) \in Nodes /\ Len(Plan(s.work)) \in Nat
  BY <1>1, PlanNodes DEF Node
<1>3. s.found \in [Nodes -> Ids \cup {None}] /\ found \in [Nodes -> Ids \cup {None}]
  BY <1>2 DEF RunState
<1>4. FoundThere(found, there2)
  BY <1>2, <1>3 DEF Sound, FoundThere, Present
<1>5. s.work = "smoke" => found[Root] # None
  <2>1. Root \in Nodes /\ None \notin Ids
    BY TreeAssumption DEF Nodes
  <2> QED
    BY <1>2, <1>3, <2>1 DEF Sound
<1>6. Passed(s.work, found, s.node, held)
  <2>1. ASSUME NEW k \in 1..(s.node - 1)
        PROVE  /\ found[Plan(s.work)[k]] = s.found[Plan(s.work)[k]]
    <3>1. k \in 1..Len(Plan(s.work)) /\ k # s.node
      BY <1>1, <1>2
    <3>2. Plan(s.work)[k] # Node(s) /\ Plan(s.work)[k] \in Nodes
      BY <1>1, <3>1, PlanNodes DEF Node
    <3> QED
      BY <1>3, <3>2
  <2> QED
    BY <2>1 DEF Sound, Passed
<1>7. Built1(Node(s), found[Node(s)], 0, held)
  BY <1>2, <1>3, TreeAssumption DEF Built1
<1>8. 0 <= Len(Roles[Node(s)])
  BY <1>2, RolesNamed
<1> DEFINE t == [s EXCEPT !.found = found]
<1>9. /\ t \in RunState /\ t.found = found /\ t.work = s.work /\ t.node = s.node
      /\ Node(t) = Node(s)
  BY <1>3, RunMoves DEF Node
<1> HIDE DEF t
<1>10. /\ Following(t, 0) \in RunState
       /\ Following(t, 0).at \in {"search", "list", "done"}
       /\ Sound(Following(t, 0), there2, named, held)
  BY <1>1, <1>4, <1>5, <1>6, <1>7, <1>8, <1>9, FollowingSound
<1> QED
  BY <1>3, <1>10 DEF t

-----------------------------------------------------------------------------
(***************************************************************************)
(* The steps of a run.                                                     *)
(***************************************************************************)
\* A run is under way at its step.
LEMMA UnderWay ==
  ASSUME TypeOK, RunsSound, NEW r \in Runs, Active(r)
  PROVE  /\ runs[r] \in RunState /\ Sound(runs[r], resources, groups, bindings)
         /\ runs[r].work \in {"tree", "smoke"} /\ runs[r].node \in 1..Len(Plan(runs[r].work))
         /\ NodeOf(r) = Node(runs[r]) /\ NodeOf(r) \in Nodes
<1>1. runs[r] \in RunState /\ Sound(runs[r], resources, groups, bindings)
  BY DEF TypeOK, Active, Busy, Idle, RunsSound, Started
<1>2. runs[r].work \in {"tree", "smoke"} /\ runs[r].node \in 1..Len(Plan(runs[r].work))
  BY <1>1 DEF RunState, Sound
<1> QED
  BY <1>1, <1>2, PlanNodes DEF NodeOf, Node

\* Nothing of AXIAM is taken away, and the other parts of the invariant stay,
\* when a run moves soundly and AXIAM does not change.
LEMMA QuietMove ==
  ASSUME Inv, NEW r \in Runs, Active(r), NEW slot \in RunState \cup {Idle},
         runs' = [runs EXCEPT ![r] = slot], UNCHANGED <<axiam, sweep, overlapped>>,
         faults' \in 0..MaxFaults,
         slot # Idle => Sound(slot, resources, groups, bindings),
         slot.at = "create" /\ ~overlapped => \A x \in resources : x.node # Node(slot)
  PROVE  Inv'
<1>1. RunsSound' /\ runs' \in [Runs -> RunState \cup {Idle}]
  BY SoundMove DEF Inv, axiam
<1>2. TypeOK'
  BY <1>1 DEF Inv, TypeOK, axiam
<1>3. OneOfEach'
  BY OneOfEachMove DEF Inv, axiam
<1>4. sweep = "off"
  BY DEF Inv, SweepAlone, Active, Started, Busy
<1>5. Numbered' /\ NothingDangles' /\ SweepAlone'
  BY <1>4 DEF Inv, axiam, Numbered, NothingDangles, SweepAlone
<1> QED
  BY <1>1, <1>2, <1>3, <1>5 DEF Inv

\* The portfolio is there, and named by no one else.
LEMMA ResolveKeeps ==
  ASSUME Inv, NEW r \in Runs, Resolve(r)
  PROVE  Inv'
<1> DEFINE s == runs[r]
<1>1. Active(r) /\ s.at = "resolve" /\ UNCHANGED <<axiam, sweep, overlapped, faults>>
  BY DEF Resolve, At, Active, Busy, Calls
<1>2. s \in RunState /\ Sound(s, resources, groups, bindings)
  BY <1>1, UnderWay DEF Inv
<1>3. faults' \in 0..MaxFaults
  BY <1>1 DEF Inv, TypeOK
<1>4. CASE Fail(r)
  BY <1>1, <1>3, <1>4, QuietMove DEF Fail, Idle
<1>5. ASSUME NEW x \in Named(Root, None),
             runs' = [runs EXCEPT ![r].at = "list", ![r].found = Keep(r, Root, x.id)]
      PROVE  Inv'
  <2> DEFINE found == Keep(r, Root, x.id)
             slot == [s EXCEPT !.at = "list", !.found = found]
  <2>1. x \in resources /\ x.id \in Ids /\ x.node = Root /\ Root \in Nodes
    BY DEF Inv, TypeOK, Named, Resource, Nodes
  <2>2. found \in [Nodes -> Ids \cup {None}] /\ found = [s.found EXCEPT ![Root] = x.id]
    BY <1>2, <2>1 DEF Keep, RunState
  <2>3. /\ slot \in RunState /\ slot.at = "list" /\ slot.found = found
        /\ slot.work = s.work /\ slot.node = s.node
    <3>1. "list" \in Busy
      BY DEF Busy
    <3> HIDE DEF found
    <3> QED
      BY <1>2, <2>2, <3>1 DEF RunState
  <2>4. runs' = [runs EXCEPT ![r] = slot]
    BY <1>5
  <2>5. FoundThere(found, resources)
    BY <1>2, <2>1, <2>2 DEF Sound, FoundThere, Present, RunState
  <2>6. found[Root] # None
    BY <1>2, <2>1, <2>2, TreeAssumption DEF RunState
  <2>7. s.work = "smoke" /\ s.node = 1 /\ s.node \in 1..Len(Plan(s.work))
    BY <1>1, <1>2 DEF Sound
  <2>8. Passed(s.work, found, s.node, bindings)
    BY <2>7 DEF Passed
  <2> HIDE DEF found, slot
  <2>9. Sound(slot, resources, groups, bindings)
    BY <2>3, <2>5, <2>6, <2>7, <2>8 DEF Sound
  <2> QED
    BY <1>1, <1>3, <2>3, <2>4, <2>9, QuietMove
<1> QED
  BY <1>4, <1>5 DEF Resolve

\* A name that is found is there; while runs do not overlap, one that is not
\* found is nowhere in the tree.
LEMMA ListKeeps ==
  ASSUME Inv, NEW r \in Runs, List(r)
  PROVE  Inv'
<1> DEFINE s == runs[r]
           matches == Named(NodeOf(r), ParentId(r))
<1>1. /\ Active(r) /\ s.at = "list" /\ ~At(r, "resolve")
      /\ UNCHANGED <<axiam, sweep, overlapped, faults>>
  BY DEF List, At, Active, Busy, Calls
<1>2. s \in RunState /\ Sound(s, resources, groups, bindings) /\ NodeOf(r) = Node(s)
  BY <1>1, UnderWay DEF Inv
<1>3. faults' \in 0..MaxFaults
  BY <1>1 DEF Inv, TypeOK
<1>4. CASE Fail(r)
  BY <1>1, <1>3, <1>4, QuietMove DEF Fail, Idle
<1>5. ASSUME NEW x \in matches, After(r, 0, Keep(r, NodeOf(r), x.id))
      PROVE  Inv'
  <2> DEFINE found == Keep(r, NodeOf(r), x.id)
             slot == Following([s EXCEPT !.found = found], 0)
  <2>1. x \in resources /\ x.id \in Ids /\ x.node = Node(s)
    BY <1>2 DEF Inv, TypeOK, Named, Resource
  <2>2. Present(x.id, Node(s), resources) /\ found = [s.found EXCEPT ![Node(s)] = x.id]
    BY <1>2, <2>1 DEF Present, Keep
  <2>3. /\ found \in [Nodes -> Ids \cup {None}]
        /\ slot \in RunState /\ slot.at \in {"search", "list", "done"}
        /\ Sound(slot, resources, groups, bindings)
    <3> HIDE DEF found
    <3> QED
      BY <1>1, <1>2, <2>1, <2>2, KeepSound
  <2>4. runs' = [runs EXCEPT ![r] = slot]
    BY <1>1, <1>5, <2>3, AfterFollows DEF Inv, Started
  <2> HIDE DEF slot, found
  <2> QED
    BY <1>1, <1>3, <2>3, <2>4, QuietMove
<1>6. CASE matches = {} /\ Goto(r, "create")
  <2> DEFINE slot == [s EXCEPT !.at = "create"]
  <2>1. /\ slot \in RunState /\ slot.at = "create" /\ slot.found = s.found
        /\ slot.work = s.work /\ slot.node = s.node
    BY <1>2, RunMoves DEF Busy
  <2>2. runs' = [runs EXCEPT ![r] = slot]
    BY <1>6 DEF Goto
  <2> HIDE DEF slot
  <2>3. Sound(slot, resources, groups, bindings) /\ Node(slot) = Node(s)
    BY <1>1, <1>2, <2>1 DEF Sound, Node
  <2>4. ASSUME NEW x \in resources, x.node = Node(s), ~overlapped
        PROVE  FALSE
    \* the node above is one resource, so any of this name is its child
    <3>1. x.parent # ParentId(r)
      BY <1>2, <1>6, <2>4 DEF Named
    <3>2. CASE Node(s) = Root
      BY <1>1, <1>2, <2>4, <3>1, <3>2, ParentKnown DEF Inv, Numbered
    <3>3. CASE Node(s) # Root
      <4>1. Present(ParentId(r), Parent[Node(s)], resources)
        BY <1>1, <1>2, <3>3, ParentKnown DEF Inv
      <4>2. PICK y \in resources : y.id = x.parent /\ y.node = Parent[Node(s)]
        BY <2>4, <3>3 DEF Inv, NothingDangles
      <4>3. PICK z \in resources : z.id = ParentId(r) /\ z.node = Parent[Node(s)]
        BY <4>1 DEF Present
      <4>4. y = z
        BY <2>4, <4>2, <4>3 DEF Inv, OneOfEach
      <4> QED
        BY <3>1, <4>2, <4>3, <4>4
    <3> QED
      BY <3>2, <3>3
  <2> QED
    BY <1>1, <1>3, <2>1, <2>2, <2>3, <2>4, QuietMove
<1> QED
  BY <1>4, <1>5, <1>6 DEF List

\* What is made is beneath its parent, and the only one unless runs overlap.
LEMMA CreateKeeps ==
  ASSUME Inv, NEW r \in Runs, Create(r)
  PROVE  Inv'
<1> DEFINE s == runs[r]
           found == Keep(r, NodeOf(r), made + 1)
           slot == Following([s EXCEPT !.found = found], 0)
           new == [id |-> made + 1, node |-> NodeOf(r), parent |-> ParentId(r)]
<1>1. /\ Active(r) /\ s.at = "create" /\ s.at # "resolve" /\ ~At(r, "resolve")
      /\ UNCHANGED <<groups, bindings, sweep, overlapped, faults>>
      /\ resources' = resources \cup {new} /\ made' = made + 1
  BY DEF Create, At, Active, Busy, Calls
<1>2. /\ s \in RunState /\ Sound(s, resources, groups, bindings) /\ NodeOf(r) = Node(s)
      /\ NodeOf(r) \in Nodes
  BY <1>1, UnderWay DEF Inv
<1>3. /\ made' \in 0..MaxMade /\ made + 1 \in Ids /\ made \in Nat
      /\ \A x \in resources : x.id <= made /\ x.id \in Nat
  BY TreeAssumption DEF Create, Inv, TypeOK, Ids, Numbered, Resource
<1>4. /\ ParentId(r) \in Ids \cup {None}
      /\ NodeOf(r) = Root => ParentId(r) = None
      /\ NodeOf(r) # Root => Present(ParentId(r), Parent[NodeOf(r)], resources)
  BY <1>1, ParentKnown DEF Inv
<1>5. new \in Resource /\ new.id = made + 1 /\ new.node = NodeOf(r) /\ new.parent = ParentId(r)
  BY <1>2, <1>3, <1>4 DEF Resource
<1> HIDE DEF new
<1>6. Present(made + 1, Node(s), resources') /\ found = [s.found EXCEPT ![Node(s)] = made + 1]
  BY <1>1, <1>2, <1>5 DEF Present, Keep
<1>7. resources \subseteq resources'
  BY <1>1
<1>8. /\ slot \in RunState /\ slot.at \in {"search", "list", "done"}
      /\ Sound(slot, resources', groups, bindings)
      /\ found \in [Nodes -> Ids \cup {None}]
  <2> HIDE DEF found
  <2>1. PICK id \in Ids : id = made + 1
    BY <1>3
  <2>2. Present(id, Node(s), resources') /\ found = [s.found EXCEPT ![Node(s)] = id]
    BY <1>6, <2>1
  <2>3. found \in [Nodes -> Ids \cup {None}] /\ slot \in RunState
    BY <1>1, <1>2, <1>7, <2>1, <2>2, KeepSound
  <2>4. slot.at \in {"search", "list", "done"} /\ Sound(slot, resources', groups, bindings)
    BY <1>1, <1>2, <1>7, <2>1, <2>2, KeepSound
  <2> QED
    BY <2>3, <2>4
<1>9. runs' = [runs EXCEPT ![r] = slot]
  BY <1>8, AfterFollows DEF Inv, Started, Create, At
<1> HIDE DEF slot, found
<1>10. RunsSound' /\ runs' \in [Runs -> RunState \cup {Idle}]
  BY <1>1, <1>7, <1>8, <1>9, SoundMove DEF Inv
<1>11. TypeOK'
  BY <1>1, <1>3, <1>5, <1>10 DEF Inv, TypeOK
<1>12. Numbered'
  <2>1. \A x \in resources' : x \in resources \/ x = new
    BY <1>1
  <2> QED
    BY <2>1, <1>1, <1>3, <1>4, <1>5 DEF Inv, Numbered
<1>13. NothingDangles'
  <2>1. ASSUME NEW x \in resources', x.node # Root
        PROVE  \E y \in resources' : y.id = x.parent /\ y.node = Parent[x.node]
    <3>1. CASE x = new
      BY <1>4, <1>5, <1>7, <2>1, <3>1 DEF Present
    <3>2. CASE x \in resources
      BY <1>7, <2>1, <3>2 DEF Inv, NothingDangles
    <3> QED
      BY <1>1, <3>1, <3>2
  <2>2. ASSUME NEW b \in bindings'
        PROVE  /\ b.group \in groups'
               /\ \E x \in resources' : x.id = b.resource /\ x.node = b.group[2]
    BY <1>1, <1>7 DEF Inv, NothingDangles
  <2> QED
    BY <2>1, <2>2 DEF NothingDangles
<1>14. SweepAlone'
  <2>1. sweep = "off"
    BY <1>1 DEF Inv, SweepAlone, Active, Started, Busy
  <2> QED
    BY <1>1, <2>1 DEF SweepAlone
<1>15. OneOfEach'
  <2> SUFFICES ASSUME ~overlapped
               PROVE  OneOfEach'
    BY <1>1 DEF OneOfEach
  <2>1. \A q \in Runs : Active(q)' => Active(q)
    BY <1>1, <1>9 DEF Inv, TypeOK, Active
  <2>2. \A q \in Runs : Active(q)' => q = r
    BY <1>1, <2>1 DEF Inv, OneOfEach
  <2>3. \A q \in Runs : ~At(q, "create")'
    BY <1>8, <1>9, <2>2 DEF Inv, TypeOK, At, Active, Busy
  <2>4. \A x \in resources : x.node # new.node
    BY <1>1, <1>5 DEF Inv, OneOfEach, At
  <2>5. \A x, y \in resources' : x.node = y.node => x = y
    BY <1>1, <2>4 DEF Inv, OneOfEach
  <2> QED
    BY <1>1, <2>2, <2>3, <2>5 DEF Inv, OneOfEach
<1> QED
  BY <1>10, <1>11, <1>12, <1>13, <1>14, <1>15 DEF Inv

\* A group that is found is there.
LEMMA SearchKeeps ==
  ASSUME Inv, NEW r \in Runs, Search(r)
  PROVE  Inv'
<1> DEFINE s == runs[r]
<1>1. /\ Active(r) /\ s.at = "search"
      /\ UNCHANGED <<axiam, sweep, overlapped, faults>>
  BY DEF Search, At, Active, Busy, Calls
<1>2. s \in RunState /\ Sound(s, resources, groups, bindings) /\ NodeOf(r) = Node(s)
  BY <1>1, UnderWay DEF Inv
<1>3. PICK at \in {"assign", "make"} :
        /\ runs' = [runs EXCEPT ![r].at = at]
        /\ at = "assign" => GroupOf(r) \in groups
  BY DEF Search, Goto
<1> DEFINE slot == [s EXCEPT !.at = at]
<1>4. /\ slot \in RunState /\ slot.at = at /\ slot.found = s.found
      /\ slot.work = s.work /\ slot.node = s.node /\ slot.role = s.role
  <2>1. at \in Busy
    BY DEF Busy
  <2> QED
    BY <1>2, <2>1 DEF RunState
<1>5. runs' = [runs EXCEPT ![r] = slot]
  BY <1>3
<1> HIDE DEF slot
<1>6. Node(slot) = Node(s) /\ slot.at \in {"search", "make", "assign"}
  BY <1>4 DEF Node
<1>7. slot.at = "assign" => <<Roles[Node(slot)][slot.role], Node(slot)>> \in groups
  BY <1>2, <1>3, <1>4, <1>6 DEF GroupOf
<1>8. Sound(slot, resources, groups, bindings)
  BY <1>1, <1>2, <1>4, <1>6, <1>7 DEF Sound
<1>9. faults' \in 0..MaxFaults
  BY <1>1 DEF Inv, TypeOK
<1> QED
  BY <1>1, <1>4, <1>5, <1>6, <1>8, <1>9, QuietMove

\* A group that is made, or refused as there already, is there.
LEMMA MakeKeeps ==
  ASSUME Inv, NEW r \in Runs, Make(r)
  PROVE  Inv'
<1> DEFINE s == runs[r]
           slot == [s EXCEPT !.at = "assign"]
<1>1. /\ Active(r) /\ s.at = "make" /\ groups' = groups \cup {GroupOf(r)}
      /\ UNCHANGED <<resources, bindings, made, sweep, overlapped, faults>>
      /\ runs' = [runs EXCEPT ![r] = slot]
  BY DEF Make, At, Active, Busy, Calls, Goto
<1>2. /\ s \in RunState /\ Sound(s, resources, groups, bindings) /\ NodeOf(r) = Node(s)
      /\ NodeOf(r) \in Nodes
  BY <1>1, UnderWay DEF Inv
<1>3. GroupOf(r) = <<Roles[Node(s)][s.role], Node(s)>> /\ GroupOf(r) \in GroupNames
  BY <1>1, <1>2, RolesNamed DEF GroupOf, Sound
<1>4. /\ slot \in RunState /\ slot.at = "assign" /\ slot.found = s.found
      /\ slot.work = s.work /\ slot.node = s.node /\ slot.role = s.role
  BY <1>2 DEF RunState, Busy
<1> HIDE DEF slot
<1>5. Sound(slot, resources, groups', bindings)
  <2>1. Node(slot) = Node(s)
    BY <1>4 DEF Node
  <2>2. <<Roles[Node(slot)][slot.role], Node(slot)>> \in groups'
    BY <1>1, <1>3, <1>4, <2>1
  <2> QED
    BY <1>1, <1>2, <1>4, <2>1, <2>2 DEF Sound
<1>6. RunsSound' /\ runs' \in [Runs -> RunState \cup {Idle}]
  BY <1>1, <1>4, <1>5, SoundMove DEF Inv
<1>7. TypeOK'
  BY <1>1, <1>3, <1>6 DEF Inv, TypeOK
<1>8. OneOfEach'
  BY <1>1, <1>4, OneOfEachMove DEF Inv
<1>9. Numbered' /\ NothingDangles'
  BY <1>1 DEF Inv, Numbered, NothingDangles
<1>10. SweepAlone'
  <2>1. sweep = "off"
    BY <1>1 DEF Inv, SweepAlone, Active, Started, Busy
  <2> QED
    BY <1>1, <2>1 DEF SweepAlone
<1> QED
  BY <1>6, <1>7, <1>8, <1>9, <1>10 DEF Inv

\* A binding's group and resource are there, and of one node.
LEMMA AssignKeeps ==
  ASSUME Inv, NEW r \in Runs, Assign(r)
  PROVE  Inv'
<1> DEFINE s == runs[r]
           id == s.found[Node(s)]
           new == [group |-> GroupOf(r), resource |-> id]
           t == [s EXCEPT !.found = s.found]
           slot == Following(t, s.role)
<1>1. /\ Active(r) /\ s.at = "assign" /\ UNCHANGED <<resources, groups, made>>
      /\ UNCHANGED <<sweep, overlapped, faults>>
  BY DEF Assign, At, Active, Busy, Calls
<1>2. /\ s \in RunState /\ Sound(s, resources, groups, bindings) /\ NodeOf(r) = Node(s)
      /\ NodeOf(r) \in Nodes /\ s.found \in [Nodes -> Ids \cup {None}]
      /\ s.role \in Nat /\ s.work \in {"tree", "smoke"}
  BY <1>1, UnderWay DEF Inv, RunState
<1>3. /\ GroupOf(r) = <<Roles[Node(s)][s.role], Node(s)>>
      /\ GroupOf(r) \in GroupNames /\ GroupOf(r) \in groups
      /\ s.role \in 1..Len(Roles[Node(s)])
  BY <1>1, <1>2, RolesNamed DEF GroupOf, Sound
<1>4. id \in Ids /\ Present(id, Node(s), resources)
  BY <1>1, <1>2 DEF Sound, Built1, FoundThere
<1>5. bindings' = bindings \cup {new}
  BY <1>2 DEF Assign
<1>6. t \in RunState /\ t.found = s.found /\ t.at = s.at /\ t.work = s.work
      /\ t.node = s.node /\ Node(t) = Node(s)
  BY <1>2, RunMoves DEF Node
<1> HIDE DEF t
<1>7. Built1(Node(s), id, s.role, bindings')
  <2>1. ASSUME NEW i \in 1..s.role
        PROVE  [group |-> <<Roles[Node(s)][i], Node(s)>>, resource |-> id] \in bindings'
    <3>1. CASE i = s.role
      BY <1>3, <1>5, <3>1
    <3>2. CASE i # s.role
      <4>1. i \in 1..(s.role - 1)
        BY <1>2, <3>2
      <4> QED
        BY <1>1, <1>2, <1>5, <4>1 DEF Sound, Built1
    <3> QED
      BY <3>1, <3>2
  <2> QED
    BY <1>1, <1>2, <2>1 DEF Sound, Built1
<1>8. Sound(s, resources, groups, bindings')
  BY <1>2, <1>5, SoundGrows
<1>9. /\ slot \in RunState /\ slot.at \in {"search", "list", "done"}
      /\ Sound(slot, resources', groups', bindings')
  <2>1. s.node \in 1..Len(Plan(s.work)) /\ s.role <= Len(Roles[Node(s)])
    BY <1>2, <1>3, RolesNamed DEF Sound
  <2>2. FoundThere(s.found, resources) /\ Passed(s.work, s.found, s.node, bindings')
    BY <1>8 DEF Sound
  <2>3. s.work = "smoke" => s.found[Root] # None
    BY <1>1, <1>2 DEF Sound
  <2> HIDE DEF id
  <2> QED
    BY <1>1, <1>2, <1>6, <1>7, <2>1, <2>2, <2>3, FollowingSound DEF id
<1>10. runs' = [runs EXCEPT ![r] = slot]
  BY <1>1, <1>2, AfterFollows DEF Inv, Started, Assign, t
<1> HIDE DEF slot
<1>11. RunsSound' /\ runs' \in [Runs -> RunState \cup {Idle}]
  BY <1>1, <1>5, <1>9, <1>10, SoundMove DEF Inv
<1>12. /\ new \in [group : GroupNames, resource : Ids]
       /\ new.group = GroupOf(r) /\ new.resource = id /\ new.group[2] = Node(s)
  BY <1>3, <1>4
<1> HIDE DEF new
<1>13. TypeOK'
  BY <1>1, <1>5, <1>11, <1>12 DEF Inv, TypeOK
<1>14. NothingDangles'
  <2>1. ASSUME NEW b \in bindings'
        PROVE  b.group \in groups /\ \E x \in resources : x.id = b.resource /\ x.node = b.group[2]
    BY <1>3, <1>4, <1>5, <1>12 DEF Inv, NothingDangles, Present
  <2> QED
    BY <1>1, <2>1 DEF Inv, NothingDangles
<1>15. Numbered' /\ SweepAlone'
  <2>1. sweep = "off"
    BY <1>1 DEF Inv, SweepAlone, Active, Started, Busy
  <2> QED
    BY <1>1, <2>1 DEF Inv, Numbered, SweepAlone
<1>16. OneOfEach'
  <2> SUFFICES ASSUME ~overlapped
               PROVE  OneOfEach'
    BY <1>1 DEF OneOfEach
  <2>1. \A q \in Runs : Active(q)' => q = r
    BY <1>1, <1>10 DEF Inv, TypeOK, Active, OneOfEach
  <2>2. \A q \in Runs : ~At(q, "create")'
    BY <1>9, <1>10, <2>1 DEF Inv, TypeOK, At, Active, Busy
  <2>3. ASSUME NEW b \in bindings, b.group = new.group
        PROVE  b = new
    <3>1. PICK x \in resources : x.id = b.resource /\ x.node = Node(s)
      BY <1>12, <2>3 DEF Inv, NothingDangles
    <3>2. PICK y \in resources : y.id = id /\ y.node = Node(s)
      BY <1>4 DEF Present
    <3>3. b.resource = new.resource
      BY <1>12, <3>1, <3>2 DEF Inv, OneOfEach
    <3>4. b \in [group : GroupNames, resource : Ids]
      BY DEF Inv, TypeOK
    <3> QED
      BY <1>12, <2>3, <3>3, <3>4
  <2>4. \A b, c \in bindings' : b.group = c.group => b = c
    BY <1>5, <2>3 DEF Inv, OneOfEach
  <2> QED
    BY <1>1, <2>1, <2>2, <2>4 DEF Inv, OneOfEach
<1> QED
  BY <1>11, <1>13, <1>14, <1>15, <1>16 DEF Inv

\* A run that starts has found nothing yet.
LEMMA StartKeeps ==
  ASSUME Inv, NEW r \in Runs, NEW work \in {"tree", "smoke"}, Start(r, work)
  PROVE  Inv'
<1> DEFINE slot == [at |-> IF work = "tree" THEN "list" ELSE "resolve", work |-> work,
                    node |-> 1, role |-> 1, found |-> [n \in Nodes |-> None]]
<1>1. /\ UNCHANGED <<axiam, sweep, faults>> /\ sweep = "off"
      /\ runs' = [runs EXCEPT ![r] = slot]
      /\ overlapped' = (overlapped \/ \E q \in Runs \ {r} : Active(q))
  BY DEF Start
<1>2. slot \in RunState
  <2>1. 1 \in 1..(Len(Branch) + 1) /\ 1 \in Nat
    BY PlanNodes
  <2> QED
    BY <2>1 DEF RunState, Busy
<1>3. /\ slot.at = IF work = "tree" THEN "list" ELSE "resolve"
      /\ slot.node = 1 /\ slot.work = work /\ \A n \in Nodes : slot.found[n] = None
  OBVIOUS
<1> HIDE DEF slot
<1>4. Sound(slot, resources', groups', bindings')
  <2>1. 1 \in 1..Len(Plan(work))
    BY PlanNodes
  <2>2. Passed(work, slot.found, 1, bindings')
    BY DEF Passed
  <2> QED
    BY <1>3, <2>1, <2>2 DEF Sound, FoundThere
<1>5. RunsSound' /\ runs' \in [Runs -> RunState \cup {Idle}]
  BY <1>1, <1>2, <1>4, SoundMove DEF Inv, axiam
<1>6. TypeOK'
  BY <1>1, <1>5 DEF Inv, TypeOK, axiam
<1>7. Numbered' /\ NothingDangles' /\ SweepAlone'
  BY <1>1 DEF Inv, Numbered, NothingDangles, SweepAlone, axiam
<1>8. OneOfEach'
  <2> SUFFICES ASSUME ~overlapped'
               PROVE  OneOfEach'
    BY DEF OneOfEach
  <2>1. ~overlapped /\ \A q \in Runs \ {r} : ~Active(q)
    BY <1>1
  <2>2. \A q \in Runs : Active(q)' => q = r
    BY <1>1, <2>1 DEF Inv, TypeOK, Active
  <2>3. \A q \in Runs : ~At(q, "create")'
    BY <1>1, <1>3, <2>2 DEF Inv, TypeOK, At, Active, Busy
  <2> QED
    BY <1>1, <2>1, <2>2, <2>3 DEF Inv, OneOfEach, axiam
<1> QED
  BY <1>5, <1>6, <1>7, <1>8 DEF Inv

\* A run that is cut short, or that the bounded model refuses, is over.
LEMMA CutShortKeeps ==
  ASSUME Inv, NEW r \in Runs, CutShort(r) \/ Exhausted(r)
  PROVE  Inv'
<1>1. /\ Active(r) /\ runs' = [runs EXCEPT ![r] = Idle]
      /\ UNCHANGED <<axiam, sweep, overlapped>>
  BY DEF CutShort, Exhausted, Fail, Calls, At, Active, Busy
<1>2. faults' \in 0..MaxFaults
  BY TreeAssumption DEF CutShort, Exhausted, Fault, Calls, Inv, TypeOK
<1> QED
  BY <1>1, <1>2, QuietMove DEF Idle

-----------------------------------------------------------------------------
(***************************************************************************)
(* The steps of the teardown.                                              *)
(***************************************************************************)
\* The teardown begins when no run is under way.
LEMMA BeginSweepKeeps ==
  ASSUME Inv, BeginSweep
  PROVE  Inv'
<1>1. /\ UNCHANGED <<axiam, overlapped, faults>> /\ sweep' = "groups"
      /\ runs' = [r \in Runs |-> Idle]
  BY DEF BeginSweep
<1>2. \A r \in Runs : ~Started(r)'
  BY <1>1 DEF Started, Idle
<1>3. RunsSound' /\ \A r \in Runs : ~Active(r)' /\ ~At(r, "create")'
  BY <1>2 DEF RunsSound, Started, Active, Busy, At
<1>4. TypeOK'
  BY <1>1 DEF Inv, TypeOK, axiam
<1>5. SweepAlone' /\ Numbered' /\ NothingDangles'
  BY <1>1, <1>2 DEF Inv, SweepAlone, Numbered, NothingDangles, axiam
<1>6. OneOfEach'
  BY <1>1, <1>3 DEF Inv, OneOfEach, axiam
<1> QED
  BY <1>3, <1>4, <1>5, <1>6 DEF Inv

\* A step of the teardown leaves the runs alone.
LEMMA SweepMove ==
  ASSUME Inv, sweep # "off", UNCHANGED <<runs, overlapped>>,
         SweepAlone', TypeOK', Numbered', NothingDangles',
         resources' \subseteq resources, bindings' \subseteq bindings
  PROVE  Inv'
<1>1. \A r \in Runs : ~Started(r) /\ ~Started(r)'
  BY DEF Inv, SweepAlone, Started
<1>2. RunsSound'
  BY <1>1 DEF RunsSound
<1>3. \A r \in Runs : ~At(r, "create")' /\ ~Active(r)'
  BY <1>1 DEF Started, At, Active, Busy
<1>4. OneOfEach'
  BY <1>3 DEF Inv, OneOfEach
<1> QED
  BY <1>2, <1>4 DEF Inv

\* With a group go its bindings.
LEMMA DeleteGroupKeeps ==
  ASSUME Inv, DeleteGroup
  PROVE  Inv'
<1>1. PICK g \in SmokeGroups :
        groups' = groups \ {g} /\ bindings' = {b \in bindings : b.group # g}
  BY DEF DeleteGroup
<1>2. sweep = "groups" /\ UNCHANGED <<resources, made, runs, sweep, overlapped, faults>>
  BY DEF DeleteGroup
<1>3. bindings' \subseteq bindings /\ groups' \subseteq groups
  BY <1>1
<1>4. TypeOK'
  BY <1>2, <1>3 DEF Inv, TypeOK
<1>5. Numbered' /\ SweepAlone'
  BY <1>2 DEF Inv, Numbered, SweepAlone, Started
<1>6. NothingDangles'
  BY <1>1, <1>2 DEF Inv, NothingDangles
<1> QED
  BY <1>2, <1>3, <1>4, <1>5, <1>6, SweepMove

\* The deepest resource is no node's parent, and bound by no group any more.
LEMMA DeleteResourceKeeps ==
  ASSUME Inv, DeleteResource
  PROVE  Inv'
<1>1. PICK x \in Deepest : resources' = resources \ {x}
  BY DEF DeleteResource
<1>2. /\ sweep = "resources" /\ SmokeGroups = {}
      /\ UNCHANGED <<groups, bindings, made, runs, sweep, overlapped, faults>>
  BY DEF DeleteResource, Inv, SweepAlone
<1>3. x \in resources /\ x.node \in Fixtures /\ x.node # Root
  BY <1>1 DEF Deepest, Smoke, Fixtures
<1>4. TypeOK' /\ Numbered'
  BY <1>1, <1>2 DEF Inv, TypeOK, Numbered
<1>5. SweepAlone'
  BY <1>2 DEF Inv, SweepAlone, Started, SmokeGroups
<1>6. ASSUME NEW y \in resources', y.node # Root
      PROVE  \E z \in resources' : z.id = y.parent /\ z.node = Parent[y.node]
  \* a node whose parent were the deepest would be deeper
  <2>1. PICK z \in resources : z.id = y.parent /\ z.node = Parent[y.node]
    BY <1>1, <1>6 DEF Inv, NothingDangles
  <2>2. y \in Smoke /\ y.node \in Fixtures
    BY <1>1, <1>6 DEF Inv, TypeOK, Resource, Smoke, Fixtures
  <2>3. Depth[y.node] <= Depth[x.node]
    BY <1>1, <2>2 DEF Deepest
  <2>4. Depth[y.node] = Depth[Parent[y.node]] + 1
    BY <2>2, TreeAssumption
  <2>5. Depth[x.node] \in Nat /\ Depth[Parent[y.node]] \in Nat
    BY <1>3, <2>2, TreeAssumption DEF Fixtures
  <2>6. z # x
    BY <2>1, <2>3, <2>4, <2>5
  <2> QED
    BY <1>1, <2>1, <2>6
<1>7. ASSUME NEW b \in bindings
      PROVE  b.group \in groups /\ \E z \in resources' : z.id = b.resource /\ z.node = b.group[2]
  <2>1. PICK z \in resources : z.id = b.resource /\ z.node = b.group[2]
    BY DEF Inv, NothingDangles
  <2>2. b.group \in groups
    BY DEF Inv, NothingDangles
  <2>3. z.node \notin Fixtures
    BY <1>2, <2>1, <2>2 DEF SmokeGroups
  <2> QED
    BY <1>1, <1>3, <2>1, <2>2, <2>3
<1>8. NothingDangles'
  BY <1>2, <1>6, <1>7 DEF NothingDangles
<1> QED
  BY <1>1, <1>2, <1>4, <1>5, <1>8, SweepMove

\* The teardown moves on, or is cut short.
LEMMA SweepOnKeeps ==
  ASSUME Inv, GroupsGone \/ ResourcesGone \/ SweepCutShort
  PROVE  Inv'
<1>1. UNCHANGED <<axiam, runs, overlapped>> /\ sweep # "off"
  BY DEF GroupsGone, ResourcesGone, SweepCutShort
<1>2. sweep' \in {"off", "resources"} /\ (sweep' = "resources" => SmokeGroups = {})
  BY DEF GroupsGone, ResourcesGone, SweepCutShort
<1>3. faults' \in 0..MaxFaults
  BY TreeAssumption DEF GroupsGone, ResourcesGone, SweepCutShort, Fault, Inv, TypeOK
<1>4. TypeOK' /\ Numbered' /\ NothingDangles'
  BY <1>1, <1>2, <1>3 DEF Inv, TypeOK, Numbered, NothingDangles, axiam
<1>5. SweepAlone'
  BY <1>1, <1>2 DEF Inv, SweepAlone, Started, SmokeGroups, axiam
<1> QED
  BY <1>1, <1>4, <1>5, SweepMove DEF axiam

-----------------------------------------------------------------------------
\* Initially nothing is there and nothing is under way.
LEMMA InvInit == Init => Inv
<1> SUFFICES ASSUME Init
             PROVE  Inv
  OBVIOUS
<1>1. TypeOK
  <2>1. 0 \in 0..MaxMade /\ 0 \in 0..MaxFaults
    BY TreeAssumption
  <2>2. runs \in [Runs -> RunState \cup {Idle}]
    BY DEF Init
  <2> QED
    BY <2>1, <2>2 DEF Init, TypeOK
<1>2. \A r \in Runs : ~Started(r) /\ ~Active(r) /\ ~At(r, "create")
  BY DEF Init, Started, Idle, Active, Busy, At
<1>3. RunsSound /\ SweepAlone /\ OneOfEach
  BY <1>2 DEF Init, RunsSound, SweepAlone, OneOfEach
<1>4. Numbered /\ NothingDangles
  BY DEF Init, Numbered, NothingDangles
<1> QED
  BY <1>1, <1>3, <1>4 DEF Inv

\* Every step keeps the invariant.
LEMMA InvStep == Inv /\ [Next]_vars => Inv'
<1> SUFFICES ASSUME Inv, [Next]_vars
             PROVE  Inv'
  OBVIOUS
<1>1. ASSUME NEW r \in Runs,
             \/ \E work \in {"tree", "smoke"} : Start(r, work)
             \/ Resolve(r) \/ List(r) \/ Create(r) \/ Search(r) \/ Make(r) \/ Assign(r)
             \/ CutShort(r) \/ Exhausted(r)
      PROVE  Inv'
  BY <1>1, StartKeeps, ResolveKeeps, ListKeeps, CreateKeeps, SearchKeeps, MakeKeeps,
     AssignKeeps, CutShortKeeps
<1>2. CASE UNCHANGED vars
  BY <1>2 DEF vars, axiam, Inv, TypeOK, RunsSound, Started, Numbered, NothingDangles,
     SweepAlone, SmokeGroups, OneOfEach, Active, At, NodeOf
<1> QED
  BY <1>1, <1>2, BeginSweepKeeps, DeleteGroupKeeps, DeleteResourceKeeps, SweepOnKeeps DEF Next

(***************************************************************************)
(* Every reachable state of the tree is of its type.                       *)
(***************************************************************************)
THEOREM TypeCorrect == Spec => []TypeOK
<1>1. Inv => TypeOK
  BY DEF Inv
<1> QED
  BY <1>1, InvInit, InvStep, PTL DEF Spec

(***************************************************************************)
(* Whatever overlaps and whatever is cut short, no resource and no binding *)
(* points to what is gone (teardown.rs:57-117).                            *)
(***************************************************************************)
THEOREM NothingDanglesEver == Spec => []NothingDangles
<1>1. Inv => NothingDangles
  BY DEF Inv
<1> QED
  BY <1>1, InvInit, InvStep, PTL DEF Spec

(***************************************************************************)
(* As long as no two runs overlap, a name stands for one resource and a    *)
(* group reaches one, however runs and teardowns were cut short            *)
(* (tree.rs:19-24, assertions.rs:248-279).                                 *)
(***************************************************************************)
THEOREM UnambiguousAlone == Spec => []AloneUnambiguous
<1>1. Inv => AloneUnambiguous
  BY DEF Inv, OneOfEach, AloneUnambiguous
<1> QED
  BY <1>1, InvInit, InvStep, PTL DEF Spec

(***************************************************************************)
(* A run that ends well has found or made all of its plan, and every group *)
(* of it holds its role (tree.rs:195-216, 230-255).                        *)
(***************************************************************************)
THEOREM BuiltWhenDone == Spec => []DoneMeansBuilt
<1>1. ASSUME Inv, NEW r \in Runs, At(r, "done")
      PROVE  Built(r)
  <2> DEFINE s == runs[r]
  <2>1. s \in RunState /\ Sound(s, resources, groups, bindings) /\ s.at = "done"
    BY <1>1 DEF Inv, TypeOK, At, Idle, RunsSound, Started
  <2>2. s.work \in {"tree", "smoke"} /\ Len(Plan(s.work)) \in Nat
    BY <2>1, PlanNodes DEF RunState
  <2>3. ASSUME NEW k \in 1..Len(Plan(s.work))
        PROVE  LET n == Plan(s.work)[k]
               IN  n \in Nodes /\ Built1(n, s.found[n], Len(Roles[n]), bindings)
    <3>1. k = s.node \/ k \in 1..(s.node - 1)
      BY <2>1, <2>2 DEF Sound
    <3> QED
      BY <2>1, <2>2, <3>1, PlanNodes DEF Sound, Passed, Node
  <2>4. FoundThere(s.found, resources)
    BY <2>1 DEF Sound
  <2> QED
    BY <2>3, <2>4 DEF Built, Built1, FoundThere, Present
<1>2. Inv => DoneMeansBuilt
  BY <1>1 DEF DoneMeansBuilt
<1> QED
  BY <1>2, InvInit, InvStep, PTL DEF Spec
=============================================================================
