--------------------------------- MODULE Pki ---------------------------------
(***************************************************************************)
(* The offline PKI on the host: the root and the leaves beneath it         *)
(* (scripts/gen-pki.sh), its rotation and the exported trust (pki.just),   *)
(* and what `up' and a reset do with them (stack.just).  Every command is  *)
(* a list of file operations, and can be cut short between any two; a      *)
(* server that runs keeps the certificate it was started with.             *)
(***************************************************************************)
EXTENDS Naturals, Sequences

CONSTANTS
  Listeners,   \* the leaves of deploy/pki/listeners.conf, in its order
  AtFirst,     \* the listeners of the services `axiam-up' starts
  Axiam,       \* the one of them it waits for
  MaxRoots,    \* bound on roots ever made; a root is known by its number
  MaxFaults    \* bound on commands cut short

Leaves == {Listeners[k] : k \in 1..Len(Listeners)}
Edge == Listeners[Len(Listeners)]   \* the one the edge answers with

ASSUME PkiAssumption ==
  /\ Listeners \in Seq(Leaves) /\ Len(Listeners) > 0
  /\ \A j, k \in 1..Len(Listeners) : Listeners[j] = Listeners[k] => j = k
  /\ AtFirst \subseteq Leaves /\ Axiam \in AtFirst
  /\ MaxRoots \in Nat /\ MaxFaults \in Nat

VARIABLES
  key, pem,   \* which root's root.key and root.pem are there; 0: none
  guard,      \* is .secrets/state/pki-root.done there?
  made,       \* how many roots were ever made
  leaf,       \* each leaf: the root its certificate is from, 0: no certificate,
              \* and its key: none, a new one, or the certificate's
  trust,      \* dist/trust: the root of domo-root.pem and of domo-root.sha256
  volume,     \* the leaves tls-init copied
  serving,    \* beneath which root each server answers; 0: not at all
  card,       \* the root the demo card names
  markers,    \* .secrets/state: the stages marked as done
  cmd,        \* what the command under way does next, and for whom
  faults

root == <<key, pem, guard, made>>
published == <<trust, volume, serving, card>>
vars == <<root, leaf, published, markers, cmd, faults>>

Roots == 0..MaxRoots
NoLeaf == [cert |-> 0, key |-> "none"]
Stages == {"pki", "axiam-up", "platform-up"}
Ended == {"idle", "issued", "done"}
Generating == {"root", "self-sign", "guard", "new-key", "sign"}
Steps == Ended \cup Generating \cup
  {"remove", "export", "fingerprint", "check", "compose", "wait", "verify", "card", "markers"}

Leaf == [cert : Roots, key : {"none", "new", "matching"}]
Command == [at : Steps, by : {"pki", "export", "rotate", "up"}, leaf : 1..Len(Listeners),
            stage : Stages]

TypeOK ==
  /\ key \in Roots /\ pem \in Roots /\ guard \in BOOLEAN /\ made \in Roots
  /\ leaf \in [Leaves -> Leaf]
  /\ trust \in [pem : Roots, sum : Roots]
  /\ volume \in [Leaves -> Leaf]
  /\ serving \in [Leaves -> Roots]
  /\ card \in Roots /\ markers \subseteq Stages
  /\ cmd \in Command
  /\ faults \in 0..MaxFaults

Init ==
  /\ key = 0 /\ pem = 0 /\ guard = FALSE /\ made = 0
  /\ leaf = [l \in Leaves |-> NoLeaf] /\ volume = [l \in Leaves |-> NoLeaf]
  /\ trust = [pem |-> 0, sum |-> 0] /\ serving = [l \in Leaves |-> 0] /\ card = 0
  /\ markers = {} /\ faults = 0
  /\ cmd = [at |-> "idle", by |-> "pki", leaf |-> 1, stage |-> "pki"]

-----------------------------------------------------------------------------
At(step) == cmd.at = step
Goto(step) == cmd' = [cmd EXCEPT !.at = step]
Fail == Goto("idle")
Current == Listeners[cmd.leaf]

(***************************************************************************)
(* gen-pki.sh.  A root is complete with its guard, and only then used.     *)
(***************************************************************************)
Complete == guard /\ key # 0 /\ pem # 0

HalfMutant == key # 0       \* root.pem is not looked for
Half == key # 0 \/ pem # 0

Reuse ==
  /\ At("root") /\ Complete
  /\ cmd' = [cmd EXCEPT !.at = "new-key", !.leaf = 1]
  /\ UNCHANGED <<root, leaf, published, markers, faults>>

RefuseHalf ==
  /\ At("root") /\ ~Complete /\ Half
  /\ Fail
  /\ UNCHANGED <<root, leaf, published, markers, faults>>

NewRoot ==
  /\ At("root") /\ ~Complete /\ ~Half
  /\ made < MaxRoots
  /\ made' = made + 1 /\ key' = made + 1
  /\ Goto("self-sign")
  /\ UNCHANGED <<pem, guard, leaf, published, markers, faults>>

SelfSign ==
  /\ At("self-sign")
  /\ pem' = key
  /\ Goto("guard")
  /\ UNCHANGED <<key, guard, made, leaf, published, markers, faults>>

WriteGuard ==
  /\ At("guard")
  /\ guard' = TRUE
  /\ cmd' = [cmd EXCEPT !.at = "new-key", !.leaf = 1]
  /\ UNCHANGED <<key, pem, made, leaf, published, markers, faults>>

\* issue_leaf: every leaf, every time; first the key, then the certificate.
NewKey ==
  /\ At("new-key")
  /\ leaf' = [leaf EXCEPT ![Current].key = "new"]
  /\ Goto("sign")
  /\ UNCHANGED <<root, published, markers, faults>>

\* What follows gen-pki.sh in the command that runs it.
Then(by) == IF by = "up" THEN "export" ELSE "issued"

SignPastMutant ==      \* the loop does not stop at the last leaf
  /\ At("sign") /\ key = pem
  /\ leaf' = [leaf EXCEPT ![Current] = [cert |-> pem, key |-> "matching"]]
  /\ cmd' = IF cmd.leaf <= Len(Listeners)
            THEN [cmd EXCEPT !.at = "new-key", !.leaf = @ + 1]
            ELSE [cmd EXCEPT !.at = Then(cmd.by), !.leaf = 1]
  /\ UNCHANGED <<root, published, markers, faults>>

SignMutant ==          \* only a certificate that is missing is signed
  /\ At("sign") /\ key = pem
  /\ leaf' = [leaf EXCEPT ![Current] =
       IF @.cert = 0 THEN [cert |-> pem, key |-> "matching"] ELSE @]
  /\ cmd' = IF cmd.leaf < Len(Listeners)
            THEN [cmd EXCEPT !.at = "new-key", !.leaf = @ + 1]
            ELSE [cmd EXCEPT !.at = Then(cmd.by), !.leaf = 1]
  /\ UNCHANGED <<root, published, markers, faults>>

Sign ==
  /\ At("sign") /\ key = pem
  /\ leaf' = [leaf EXCEPT ![Current] = [cert |-> pem, key |-> "matching"]]
  /\ cmd' = IF cmd.leaf < Len(Listeners)
            THEN [cmd EXCEPT !.at = "new-key", !.leaf = @ + 1]
            ELSE [cmd EXCEPT !.at = Then(cmd.by), !.leaf = 1]
  /\ UNCHANGED <<root, published, markers, faults>>

-----------------------------------------------------------------------------
(***************************************************************************)
(* pki.just: rotation removes the directory, file by file in no order, and *)
(* then the guard; it exports nothing.                                     *)
(***************************************************************************)
Remove ==
  /\ At("remove")
  /\ \/ key # 0 /\ key' = 0 /\ UNCHANGED <<pem, leaf>>
     \/ pem # 0 /\ pem' = 0 /\ UNCHANGED <<key, leaf>>
     \/ \E l \in Leaves : /\ leaf[l] # NoLeaf
                          /\ leaf' = [leaf EXCEPT ![l] = NoLeaf]
                          /\ UNCHANGED <<key, pem>>
  /\ UNCHANGED <<guard, made, published, markers, cmd, faults>>

Removed ==
  /\ At("remove") /\ key = 0 /\ pem = 0 /\ \A l \in Leaves : leaf[l] = NoLeaf
  /\ guard' = FALSE
  /\ Goto("root")
  /\ UNCHANGED <<key, pem, made, leaf, published, markers, faults>>

Export ==
  /\ At("export")
  /\ IF pem = 0 THEN Fail /\ UNCHANGED trust
     ELSE trust' = [trust EXCEPT !.pem = pem] /\ Goto("fingerprint")
  /\ UNCHANGED <<root, leaf, volume, serving, card, markers, faults>>

Fingerprint ==
  /\ At("fingerprint")
  /\ trust' = [trust EXCEPT !.sum = pem]
  /\ IF cmd.by = "up"
     THEN /\ markers' = markers \cup {"pki"}
          /\ cmd' = [cmd EXCEPT !.at = "check", !.stage = "axiam-up"]
     ELSE Fail /\ UNCHANGED markers
  /\ UNCHANGED <<root, leaf, volume, serving, card, faults>>

-----------------------------------------------------------------------------
(***************************************************************************)
(* `up': a stage is skipped if it is marked and probed.                    *)
(***************************************************************************)
Answers(l, anchor) == anchor # 0 /\ serving[l] = anchor

Probe(stage) ==
  CASE stage = "pki" -> pem # 0 /\ trust.sum # 0 /\ \A l \in Leaves : leaf[l].cert # 0
    [] stage = "axiam-up" -> Answers(Axiam, pem)
    [] stage = "platform-up" -> (\A l \in Leaves : serving[l] # 0) /\ volume[Edge].key = "matching"

After(stage) ==
  IF stage = "platform-up" THEN [cmd EXCEPT !.at = "verify"]
  ELSE [cmd EXCEPT !.at = "check", !.stage = IF stage = "pki" THEN "axiam-up" ELSE "platform-up"]

Check ==
  /\ At("check")
  /\ cmd' = IF cmd.stage \in markers /\ Probe(cmd.stage) THEN After(cmd.stage)
            ELSE [cmd EXCEPT !.at = IF cmd.stage = "pki" THEN "root" ELSE "compose"]
  /\ UNCHANGED <<root, leaf, published, markers, faults>>

\* compose up: tls-init copies what is there; then the stage's servers that do
\* not run are started, and one whose halves disagree does not come up.
Starts == IF cmd.stage = "axiam-up" THEN AtFirst ELSE Leaves

Compose ==
  /\ At("compose")
  /\ volume' = leaf
  /\ serving' = [l \in Leaves |->
       IF l \in Starts /\ serving[l] = 0 /\ leaf[l].key = "matching" THEN leaf[l].cert ELSE serving[l]]
  /\ Goto("wait")
  /\ UNCHANGED <<root, leaf, trust, card, markers, faults>>

\* _wait-axiam asks beneath the root in use, _wait-edge beneath the exported one.
Wait ==
  /\ At("wait")
  /\ IF (IF cmd.stage = "axiam-up" THEN Answers(Axiam, pem) ELSE Answers(Edge, trust.pem))
     THEN markers' = markers \cup {cmd.stage} /\ cmd' = After(cmd.stage)
     ELSE Fail /\ UNCHANGED markers
  /\ UNCHANGED <<root, leaf, published, faults>>

\* verify: a server whose image is not the one its tag names is made anew, alone,
\* with what the volume holds; then authz-verify asks AXIAM beneath the root in use.
Recreate ==
  /\ At("verify")
  /\ \E l \in Leaves :
       /\ serving[l] # 0
       /\ serving' = [serving EXCEPT ![l] =
            IF volume[l].key = "matching" THEN volume[l].cert ELSE 0]
  /\ UNCHANGED <<root, leaf, trust, volume, card, markers, cmd, faults>>

AuthzVerify ==
  /\ At("verify")
  /\ \/ Answers(Axiam, pem) /\ Goto("card")
     \/ Fail
  /\ UNCHANGED <<root, leaf, published, markers, faults>>

WriteCard ==
  /\ At("card")
  /\ card' = trust.sum
  /\ Goto("done")
  /\ UNCHANGED <<root, leaf, trust, volume, serving, markers, faults>>

-----------------------------------------------------------------------------
\* The operator's commands.
Begin(by, step) ==
  /\ cmd.at \in Ended
  /\ cmd' = [at |-> step, by |-> by, leaf |-> 1, stage |-> "pki"]

Operate ==
  /\ \/ Begin("pki", "root")
     \/ Begin("export", "export")
     \/ Begin("rotate", "remove") /\ made < MaxRoots
     \/ Begin("up", "check")
  /\ UNCHANGED <<root, leaf, published, markers, faults>>

Stopped == serving' = [l \in Leaves |-> 0]

Down ==
  /\ cmd.at \in Ended /\ Fail /\ Stopped
  /\ UNCHANGED <<root, leaf, trust, volume, card, markers, faults>>

\* demo-reset: the servers and their volumes, then the markers, then `up'.
Reset ==
  /\ Begin("up", "markers") /\ Stopped
  /\ volume' = [l \in Leaves |-> NoLeaf]
  /\ UNCHANGED <<root, leaf, trust, card, markers, faults>>

ClearMarkersMutant ==     \* the root's guard is not kept
  /\ At("markers")
  /\ markers' = {} /\ guard' = FALSE
  /\ cmd' = [cmd EXCEPT !.at = "check", !.stage = "pki"]
  /\ UNCHANGED <<key, pem, made, leaf, published, faults>>

ClearMarkers ==
  /\ At("markers")
  /\ markers' = {}
  /\ cmd' = [cmd EXCEPT !.at = "check", !.stage = "pki"]
  /\ UNCHANGED <<root, leaf, published, faults>>

\* "remove it deliberately or restore the guard".
Repair ==
  /\ cmd.at \in Ended /\ ~Complete /\ Half /\ Fail
  /\ \/ made < MaxRoots /\ key' = 0 /\ pem' = 0 /\ UNCHANGED guard
     \/ key # 0 /\ pem # 0 /\ guard' = TRUE /\ UNCHANGED <<key, pem>>
  /\ UNCHANGED <<made, leaf, published, markers, faults>>

Interrupt ==
  /\ cmd.at \notin Ended /\ faults < MaxFaults
  /\ faults' = faults + 1
  /\ Fail
  /\ UNCHANGED <<root, leaf, published, markers>>

Next ==
  \/ Reuse \/ RefuseHalf \/ NewRoot \/ SelfSign \/ WriteGuard \/ NewKey \/ Sign
  \/ Remove \/ Removed \/ Export \/ Fingerprint
  \/ Check \/ Compose \/ Wait \/ Recreate \/ AuthzVerify \/ WriteCard
  \/ Operate \/ Down \/ Reset \/ ClearMarkers \/ Repair \/ Interrupt

Spec == Init /\ [][Next]_vars

-----------------------------------------------------------------------------
(***************************************************************************)
(* D-10: a root that is complete is taken away by a rotation and by nothing*)
(* else - no reset, repetition or interruption - so every machine that     *)
(* trusts it still does (gen-pki.sh:62-67, stack.just:702-706).            *)
(***************************************************************************)
RootKept ==
  [][Complete /\ ~At("remove") => UNCHANGED <<key, pem, guard>>]_vars

(***************************************************************************)
(* However the rotations and the first runs are cut short and repaired, the*)
(* key and the certificate on disk are never of two roots (gen-pki.sh:65): *)
(* no leaf would chain, and the import into AXIAM would hand it another's  *)
(* key.                                                                    *)
(***************************************************************************)
OneRootAtATime == key # 0 /\ pem # 0 => key = pem

(***************************************************************************)
(* Issuing that ends well left every leaf a pair beneath the root on disk, *)
(* whatever was there; an `up' that ends well left AXIAM answering beneath *)
(* it.                                                                     *)
(***************************************************************************)
DoneMeansChained ==
  /\ At("issued") => \A l \in Leaves : leaf[l] = [cert |-> pem, key |-> "matching"]
  /\ At("done") => Answers(Axiam, pem)

(***************************************************************************)
(* stack.just:643-646: "... makes a rotated root show up on the card with  *)
(* no code change": the card names the root in use.                        *)
(***************************************************************************)
CardNamesRoot == At("done") => card = pem

=============================================================================
