------------------------------- MODULE Smoke ---------------------------------
(***************************************************************************)
(* The live smoke suite (just/smoke.just): its parts run alone or composed,*)
(* against a tenant an earlier run may have left half way through.         *)
(* smoke-tree, smoke-authz with its two membership cases                   *)
(* (smoke/assertions.rs), the probe's keys, smoke-certs with its cross-    *)
(* tenant experiment (smoke/certs.rs), the matrix' reading of it           *)
(* (domo-probe matrix.rs) and smoke-teardown.  The tree itself is Tree.    *)
(***************************************************************************)
EXTENDS Integers, Sequences, FiniteSets

CONSTANTS
  Nothing,         \* no value
  MaxMade,         \* bound on accounts, on keys and on forged certificates made
  MaxSmokeFaults   \* bound on runs cut short and on calls that fail

ASSUME SmokeAssumption ==
  /\ MaxMade \in Nat /\ MaxSmokeFaults \in Nat
  /\ Nothing \notin Nat \cup {"accepted", "refused", "lost"}

VARIABLES
  accepts,  \* does AXIAM sign beneath another tenant's authority?  Fixed.
  branch,   \* AXIAM: the branch, as far as it is built
  account,  \* AXIAM: the probe's service account
  user,     \* AXIAM: is there a test user?
  member,   \* AXIAM: is the test user a resident?
  grant,    \* AXIAM: the lazily created granted-operator group
  forged,   \* AXIAM: forged certificates that are not revoked
  saId,     \* file: the probe's account id
  key,      \* file: the probe's key
  csr,      \* file: the key its signing request was made with
  keyFor,   \* file: the account the two were made for
  pem,      \* file: the key of the forged certificate
  forgedId, \* file: its id
  outcome,  \* file: the experiment's outcome
  smoke,    \* the run: the step taken next, the part to end with, the cases
            \* gone wrong, and what came of its experiment
  made,
  faults

axiam == <<branch, account, user, member, grant, forged>>
files == <<saId, key, csr, keyFor, pem, forgedId, outcome>>
smokeVars == <<accepts, axiam, files, smoke, made, faults>>

Id == 1..MaxMade
Parts == {"tree", "authz", "certs", "matrix", "teardown"}
Ended == {"idle", "done", "stuck"}
Steps == {"branch", "account", "publish", "user",
          "resolve", "remove1", "add1", "remove2", "add2", "remove3",
          "group", "join", "bind", "ungrant", "report",
          "keys", "request", "name", "revoke", "attempt", "pem", "id", "outcome", "matrix",
          "unforge", "groups", "resources", "accounts", "users", "directory"}
Whole == {"groups", "resources"}
NoGrant == [group |-> FALSE, member |-> FALSE, bound |-> FALSE]

SmokeTypeOK ==
  /\ accepts \in BOOLEAN /\ branch \subseteq Whole
  /\ account \in Id \cup {Nothing} /\ user \in BOOLEAN /\ member \in BOOLEAN
  /\ grant \in [group : BOOLEAN, member : BOOLEAN, bound : BOOLEAN]
  /\ forged \subseteq Id
  /\ saId \in Id \cup {Nothing} /\ key \in Id \cup {Nothing}
  /\ csr \in Id \cup {Nothing} /\ keyFor \in Id \cup {Nothing}
  /\ pem \in Id \cup {Nothing} /\ forgedId \in Id \cup {Nothing}
  /\ outcome \in {Nothing, "accepted", "refused"}
  /\ smoke \in [at : Steps \cup Ended, last : Parts, wrong : BOOLEAN,
                answer : {Nothing, "accepted", "refused", "lost"}]
  /\ made \in [{"account", "key", "forged"} -> 0..MaxMade] /\ faults \in 0..MaxSmokeFaults

SmokeInit ==
  /\ accepts \in BOOLEAN
  /\ branch = {} /\ account = Nothing /\ user = FALSE /\ member = FALSE
  /\ grant = NoGrant /\ forged = {}
  /\ saId = Nothing /\ key = Nothing /\ csr = Nothing /\ keyFor = Nothing
  /\ pem = Nothing /\ forgedId = Nothing /\ outcome = Nothing
  /\ smoke = [at |-> "idle", last |-> "teardown", wrong |-> FALSE, answer |-> Nothing]
  /\ made = [what \in {"account", "key", "forged"} |-> 0] /\ faults = 0

-----------------------------------------------------------------------------
AtStep(step) == smoke.at = step
GoToStep(step) == smoke' = [smoke EXCEPT !.at = step]
Fail == GoToStep("idle")
Fault == faults < MaxSmokeFaults /\ faults' = faults + 1
Fresh(what) == made[what] + 1
Make(what) == made[what] < MaxMade /\ made' = [made EXCEPT ![what] = @ + 1]

\* The recipes of smoke.just: where each one starts and the part it ends with.
Recipes == {<<"branch", "tree">>, <<"resolve", "authz">>, <<"keys", "certs">>,
            <<"keys", "matrix">>, <<"branch", "matrix">>, <<"unforge", "teardown">>}

Begin ==
  /\ smoke.at \in Ended
  /\ \E recipe \in Recipes :
       smoke' = [at |-> recipe[1], last |-> recipe[2], wrong |-> FALSE, answer |-> Nothing]
  /\ UNCHANGED <<accepts, axiam, files, made, faults>>

\* A part is over: the next one of the recipe follows.
EndPart(part, next) == GoToStep(IF smoke.last = part THEN "done" ELSE next)

\* A call fails, or the process is killed.
CutShort ==
  /\ smoke.at \notin Ended /\ Fault
  /\ Fail
  /\ UNCHANGED <<accepts, axiam, files, made>>

\* smoke-keys keeps what it has made for the published account.
KeysKept == key # Nothing /\ csr # Nothing /\ keyFor = saId

\* The bounded model has nothing more to make: the run ends, as if refused.
Exhausted ==
  /\ \/ AtStep("account") /\ account = Nothing /\ made["account"] = MaxMade
     \/ AtStep("keys") /\ ~KeysKept /\ made["key"] = MaxMade
     \/ AtStep("attempt") /\ made["forged"] = MaxMade
  /\ Fail
  /\ UNCHANGED <<accepts, axiam, files, made, faults>>

-----------------------------------------------------------------------------
\* smoke-tree: the branch (the groups of the apartment before the devices),
\* the account, its published id, the test user.
BuildBranch ==
  /\ AtStep("branch")
  /\ IF "groups" \in branch
     THEN branch' = Whole /\ GoToStep("account")
     ELSE branch' = branch \cup {"groups"} /\ UNCHANGED smoke
  /\ UNCHANGED <<accepts, account, user, member, grant, forged, files, made, faults>>

EnsureAccount ==
  /\ AtStep("account")
  /\ IF account = Nothing
     THEN Make("account") /\ account' = Fresh("account")
     ELSE UNCHANGED <<account, made>>
  /\ GoToStep("publish")
  /\ UNCHANGED <<accepts, branch, user, member, grant, forged, files, faults>>

PublishId ==
  /\ AtStep("publish")
  /\ saId' = account
  /\ GoToStep("user")
  /\ UNCHANGED <<accepts, axiam, key, csr, keyFor, pem, forgedId, outcome, made, faults>>

EnsureUser ==
  /\ AtStep("user")
  /\ user' = TRUE
  /\ EndPart("tree", "resolve")
  /\ UNCHANGED <<accepts, branch, account, member, grant, forged, files, made, faults>>

-----------------------------------------------------------------------------
(***************************************************************************)
(* smoke-authz.  A resident of the apartment may operate what is in it, a  *)
(* member of the grant group the peer device while its role is bound.  The *)
(* decisions on the apartment ask for no more than the membership that was *)
(* just set; one on the peer device also depends on what earlier cases and *)
(* earlier runs have left.  A decision that is not the expected one is     *)
(* noted, and reported at the end.  The cases that only read are left out. *)
(***************************************************************************)
MayOperatePeer == member \/ (grant'.member /\ grant'.bound)

Decide(expected, next) ==
  smoke' = [smoke EXCEPT !.at = next, !.wrong = @ \/ MayOperatePeer # expected]

OnlyAuthz == UNCHANGED <<accepts, branch, account, user, forged, files, made, faults>>

\* The branch is resolved, never built.
Resolve ==
  /\ AtStep("resolve")
  /\ IF branch = Whole /\ user THEN GoToStep("remove1") ELSE Fail
  /\ UNCHANGED <<accepts, axiam, files, made, faults>>

\* Added and removed whatever the membership was before.
SetMember(step, next, value) ==
  /\ AtStep(step)
  /\ member' = value
  /\ GoToStep(next)
  /\ UNCHANGED grant /\ OnlyAuthz

Membership ==
  \/ SetMember("remove1", "add1", FALSE)
  \/ SetMember("add1", "remove2", TRUE)
  \/ SetMember("remove2", "add2", FALSE)
  \/ SetMember("add2", "remove3", TRUE)
  \/ SetMember("remove3", "group", FALSE)

Grant(step, next, value, expected) ==
  /\ AtStep(step)
  /\ grant' = value
  /\ UNCHANGED member
  /\ Decide(expected, next)
  /\ OnlyAuthz

EnsureGrantGroup == Grant("group", "join", [grant EXCEPT !.group = TRUE], FALSE)
JoinGrantGroup == Grant("join", "bind", [grant EXCEPT !.member = TRUE], FALSE)
BindGrant == ~grant.bound /\ Grant("bind", "ungrant", [grant EXCEPT !.bound = TRUE], TRUE)
DeleteGrantMutant ==                     \* mutant: the group is emptied, not deleted
  Grant("ungrant", "report", [grant EXCEPT !.member = FALSE], FALSE)

DeleteGrantGroup == Grant("ungrant", "report", NoGrant, FALSE)

\* A binding that is there already is an error: nothing is cleaned up after it.
BindRefused ==
  /\ AtStep("bind") /\ grant.bound
  /\ GoToStep("stuck")
  /\ UNCHANGED <<accepts, axiam, files, made, faults>>

Report ==
  /\ AtStep("report")
  /\ IF ~smoke.wrong THEN EndPart("authz", "keys") ELSE Fail
  /\ UNCHANGED <<accepts, axiam, files, made, faults>>

-----------------------------------------------------------------------------
(***************************************************************************)
(* smoke-keys, in the probe: a key, a request and the account they are for *)
(* written one after the other.                                            *)
(***************************************************************************)
EnsureKeys ==
  /\ AtStep("keys")
  /\ \/ saId = Nothing /\ Fail /\ UNCHANGED <<key, made>>
     \/ saId # Nothing /\ KeysKept /\ GoToStep("revoke") /\ UNCHANGED <<key, made>>
     \/ saId # Nothing /\ ~KeysKept
        /\ Make("key") /\ key' = Fresh("key") /\ GoToStep("request")
  /\ UNCHANGED <<accepts, axiam, saId, csr, keyFor, pem, forgedId, outcome, faults>>

WriteRequest ==
  /\ AtStep("request")
  /\ csr' = key
  /\ GoToStep("name")
  /\ UNCHANGED <<accepts, axiam, saId, key, keyFor, pem, forgedId, outcome, made, faults>>

WriteName ==
  /\ AtStep("name")
  /\ keyFor' = saId
  /\ GoToStep("revoke")
  /\ UNCHANGED <<accepts, axiam, saId, key, csr, pem, forgedId, outcome, made, faults>>

RevokeMutant(step, next) ==              \* mutant: only the teardown revokes
  /\ AtStep(step)
  /\ forged' = IF step = "revoke" THEN forged ELSE forged \ {forgedId}
  /\ GoToStep(next)
  /\ UNCHANGED <<accepts, branch, account, user, member, grant, files, made, faults>>

\* A forged leaf an earlier run has recorded is revoked ...
Revoke(step, next) ==
  /\ AtStep(step)
  /\ forged' = forged \ {forgedId}
  /\ GoToStep(next)
  /\ UNCHANGED <<accepts, branch, account, user, member, grant, files, made, faults>>

\* ... and a revocation that fails is passed over.
RevokeFails(step, next) ==
  /\ AtStep(step) /\ forgedId \in forged
  /\ Fault
  /\ GoToStep(next)
  /\ UNCHANGED <<accepts, axiam, files, made>>

RevokeRecorded ==
  \/ Revoke("revoke", "attempt") \/ RevokeFails("revoke", "attempt")
  \/ Revoke("unforge", "groups") \/ RevokeFails("unforge", "groups")

(***************************************************************************)
(* The probe's request, for the other tenant's authority to sign.  A call  *)
(* that fails is taken for a refusal, whatever AXIAM did with it.          *)
(***************************************************************************)
Answered(answer) ==
  smoke' = [smoke EXCEPT !.at = IF answer = "accepted" THEN "pem" ELSE "outcome", !.answer = answer]

Forge == Make("forged") /\ forged' = forged \cup {Fresh("forged")}

Attempt ==
  /\ AtStep("attempt")
  /\ \/ accepts /\ Forge /\ Answered("accepted") /\ UNCHANGED faults
     \/ ~accepts /\ Answered("refused") /\ UNCHANGED <<forged, made, faults>>
     \/ Fault /\ Answered("lost") /\ UNCHANGED <<forged, made>>
     \/ Fault /\ Answered("lost") /\ accepts /\ Forge
  /\ UNCHANGED <<accepts, branch, account, user, member, grant, files>>

\* The certificate is of the key its request was made with.
WritePem ==
  /\ AtStep("pem")
  /\ pem' = csr
  /\ GoToStep("id")
  /\ UNCHANGED <<accepts, axiam, saId, key, csr, keyFor, forgedId, outcome, made, faults>>

WriteIdMutant ==                         \* mutant: the id of the one before
  /\ AtStep("id")
  /\ forgedId' = made["forged"] - 1
  /\ GoToStep("outcome")
  /\ UNCHANGED <<accepts, axiam, saId, key, csr, keyFor, pem, outcome, made, faults>>

\* The certificate that was just signed is the last one made.
WriteId ==
  /\ AtStep("id")
  /\ forgedId' = made["forged"]
  /\ GoToStep("outcome")
  /\ UNCHANGED <<accepts, axiam, saId, key, csr, keyFor, pem, outcome, made, faults>>

WriteOutcome ==
  /\ AtStep("outcome")
  /\ outcome' = IF smoke.answer = "accepted" THEN "accepted" ELSE "refused"
  /\ EndPart("certs", "matrix")
  /\ UNCHANGED <<accepts, axiam, saId, key, csr, keyFor, pem, forgedId, made, faults>>

MatrixMutant ==                          \* mutant: what was not refused is not looked at
  /\ AtStep("matrix")
  /\ GoToStep("done")
  /\ UNCHANGED <<accepts, axiam, files, made, faults>>

\* The matrix fails on an accepted experiment, and on one that was not made.
Matrix ==
  /\ AtStep("matrix")
  /\ IF outcome = "refused" THEN GoToStep("done") ELSE Fail
  /\ UNCHANGED <<accepts, axiam, files, made, faults>>

-----------------------------------------------------------------------------
\* smoke-teardown: the forged leaf, then kind by kind what AXIAM holds of the
\* suite, then the directory, in whatever order its files go.
DropGroups ==
  /\ AtStep("groups")
  /\ branch' = branch \ {"groups"} /\ grant' = NoGrant /\ member' = FALSE
  /\ GoToStep("resources")
  /\ UNCHANGED <<accepts, account, user, forged, files, made, faults>>

DropResources ==
  /\ AtStep("resources")
  /\ branch' = branch \ {"resources"}
  /\ GoToStep("accounts")
  /\ UNCHANGED <<accepts, account, user, member, grant, forged, files, made, faults>>

DropAccounts ==
  /\ AtStep("accounts")
  /\ account' = Nothing
  /\ GoToStep("users")
  /\ UNCHANGED <<accepts, branch, user, member, grant, forged, files, made, faults>>

DropUsers ==
  /\ AtStep("users")
  /\ user' = FALSE
  /\ GoToStep("directory")
  /\ UNCHANGED <<accepts, branch, account, member, grant, forged, files, made, faults>>

DropFile ==
  /\ AtStep("directory")
  /\ \/ saId' = Nothing /\ UNCHANGED <<key, csr, keyFor, pem, forgedId, outcome>>
     \/ key' = Nothing /\ UNCHANGED <<saId, csr, keyFor, pem, forgedId, outcome>>
     \/ csr' = Nothing /\ UNCHANGED <<saId, key, keyFor, pem, forgedId, outcome>>
     \/ keyFor' = Nothing /\ UNCHANGED <<saId, key, csr, pem, forgedId, outcome>>
     \/ pem' = Nothing /\ UNCHANGED <<saId, key, csr, keyFor, forgedId, outcome>>
     \/ forgedId' = Nothing /\ UNCHANGED <<saId, key, csr, keyFor, pem, outcome>>
     \/ outcome' = Nothing /\ UNCHANGED <<saId, key, csr, keyFor, pem, forgedId>>
  /\ UNCHANGED <<accepts, axiam, smoke, made, faults>>

DirectoryGoneMutant ==                   \* mutant: what is left is left
  /\ AtStep("directory")
  /\ GoToStep("done")
  /\ UNCHANGED <<accepts, axiam, files, made, faults>>

DirectoryGone ==
  /\ AtStep("directory") /\ \A k \in 1..Len(files) : files[k] = Nothing
  /\ GoToStep("done")
  /\ UNCHANGED <<accepts, axiam, files, made, faults>>

-----------------------------------------------------------------------------
SmokeNext ==
  \/ Begin \/ CutShort \/ Exhausted
  \/ BuildBranch \/ EnsureAccount \/ PublishId \/ EnsureUser
  \/ Resolve \/ Membership
  \/ EnsureGrantGroup \/ JoinGrantGroup \/ BindGrant \/ BindRefused \/ DeleteGrantGroup
  \/ Report
  \/ EnsureKeys \/ WriteRequest \/ WriteName
  \/ RevokeRecorded \/ Attempt \/ WritePem \/ WriteId \/ WriteOutcome
  \/ Matrix
  \/ DropGroups \/ DropResources \/ DropAccounts \/ DropUsers \/ DropFile \/ DirectoryGone

SmokeSpec == SmokeInit /\ [][SmokeNext]_smokeVars

-----------------------------------------------------------------------------
(***************************************************************************)
(* smoke-authz decides as it expects from wherever earlier runs have left  *)
(* the tenant (support.rs:8-13): a decision that goes wrong, or a run that *)
(* cannot bind the grant, is owed to a run that was cut short, and to      *)
(* nothing a run leaves that comes to its end (assertions.rs:21, 276-418). *)
(***************************************************************************)
VerdictsOwed == smoke.wrong \/ AtStep("stuck") => faults > 0

(***************************************************************************)
(* Forged leaves stay in hand: beyond the one the experiment keeps, each   *)
(* one that is not revoked is owed to a run cut short or a call that       *)
(* failed (certs.rs:170-172, 228-242); and when the matrix presents one    *)
(* with the probe's key, the two are a pair (matrix.rs:365-366), unless    *)
(* the experiment got no answer, or two runs were cut short: a teardown    *)
(* after it removed the key, and smoke-keys after it made another.         *)
(***************************************************************************)
ForgeriesInHand ==
  /\ Cardinality(forged) <= 1 + faults
  /\ AtStep("matrix") /\ pem # Nothing /\ smoke.answer # "lost" => pem = key \/ faults > 1

(***************************************************************************)
(* A matrix that passes means that AXIAM did refuse, in this run, whatever *)
(* an earlier run has left on disk (matrix.rs:193-218), as long as the     *)
(* experiment got an answer.                                               *)
(***************************************************************************)
PassMeansRefused ==
  AtStep("done") /\ smoke.last = "matrix" /\ smoke.answer # "lost" => ~accepts

(***************************************************************************)
(* matrix.rs:195 "a case that did not run must never be indistinguishable  *)
(* from one that passed": no matrix passes on an experiment that got no    *)
(* answer.                                                                 *)
(***************************************************************************)
UnansweredFails == ~ (AtStep("done") /\ smoke.last = "matrix" /\ smoke.answer = "lost")

(***************************************************************************)
(* A teardown that ends well leaves nothing of the suite in AXIAM or on    *)
(* disk, and no forged leaf that is not owed to a fault, however the runs  *)
(* before it ended (teardown.rs:29-117).                                   *)
(***************************************************************************)
TeardownComplete ==
  AtStep("done") /\ smoke.last = "teardown" =>
    /\ branch = {} /\ account = Nothing /\ ~user /\ ~member /\ grant = NoGrant
    /\ \A k \in 1..Len(files) : files[k] = Nothing
    /\ Cardinality(forged) <= faults

(***************************************************************************)
(* assertions.rs:21 "Every case that mutates state restores it before      *)
(* returning": no run of smoke-authz is refused for what an earlier run of *)
(* it has left behind.                                                     *)
(***************************************************************************)
CasesRestore == ~ AtStep("stuck")
=============================================================================
