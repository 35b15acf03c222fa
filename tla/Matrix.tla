------------------------------- MODULE Matrix --------------------------------
(***************************************************************************)
(* The connect matrix (domo-probe matrix.rs, cases.rs, fixtures.rs): one   *)
(* live attempt after the other, each classified by the layer that refused *)
(* it, against a stack of which any link may be out of force - which is    *)
(* what the matrix is there to notice.  The broker, AXIAM and the Twin are *)
(* external here: what a link in force refuses is Decide and DeviceTwin.   *)
(*                                                                         *)
(* What smoke-certs has left on disk is chosen once: module Smoke makes it.*)
(***************************************************************************)
EXTENDS Integers, Sequences, FiniteSets

CONSTANTS
  None,
  Lifetimes,   \* lifetimes of a device token AXIAM may be set to, in seconds
  MaxMissing,  \* bound on links out of force
  MaxFaults    \* bound on attempts of a run that are disturbed

Skew == 60              \* the verifier's allowance on exp
DefaultLifetime == 900  \* expires_in, when AXIAM does not say

ExpiryMarginMutant == 30   \* mutant: the token is accepted that long, and longer

ExpiryMargin == 90

Fixtures == {"probe", "peer", "unbound", "other"}

ASSUME MatrixAssumption ==
  /\ Lifetimes \subseteq Nat /\ MaxMissing \in Nat /\ MaxFaults \in Nat
  /\ None \notin Fixtures \cup {"pair", "stale", "accepted", "refused"}

(***************************************************************************)
(* The links.  peerCert: the listener requires a client certificate.       *)
(* subjectDn: the client id is compared with its subject.  forgery: a leaf *)
(* with the right subject from the wrong authority is told apart.          *)
(* signature, subject, expiry, ownership: the Twin's checks.  binding:     *)
(* AXIAM refuses a certificate bound to no account.                        *)
(***************************************************************************)
Links == {"peerCert", "subjectDn", "forgery", "signature", "subject", "expiry",
          "ownership", "binding"}

VARIABLES
  stack,   \* what is in force and on disk; never changes
  suite,   \* which list is run: "matrix" or "expired"
  run,     \* the phase, and the number of the case it is in
  passed,  \* names of the cases that were as expected
  failed,  \* names of those that were not
  hit      \* names of the cases whose attempt was disturbed

vars == <<stack, suite, run, passed, failed, hit>>

-----------------------------------------------------------------------------
Connect(name, credential, password, target, expect) ==
  [name |-> name, credential |-> credential, password |-> password,
   target |-> target, expect |-> expect]

\* A case that makes no MQTT attempt names the request in its credential.
Other(name, request, expect) == Connect(name, request, None, None, expect)

All ==
  << Connect("positive", "own", "own", "own", "Connected"),
     Connect("mismatched-cert", "peer", "own", "own", "BrokerRejectedIdentity"),
     Connect("malformed-token", "own", "malformed", "own", "AuthorizationDenied"),
     Connect("bad-signature", "own", "corrupt", "own", "AuthorizationDenied"),
     Connect("wrong-tenant", "own", "other", "own", "AuthorizationDenied"),
     Connect("no-client-cert", "none", "own", "own", "HandshakeFailed"),
     Connect("other-tenant-ca", "forged", "own", "own", "BrokerRejectedIdentity"),
     Other("cross-tenant-ca-issuance", "outcome", "IssuanceRefused"),
     Connect("namespace-sibling", "own", "own", "sibling", "PublishRefused"),
     Connect("namespace-other-tenant", "own", "own", "otherTenant", "PublishRefused"),
     Connect("namespace-adjacent", "own", "own", "adjacent", "PublishRefused"),
     Other("empty-cert-binding", "login", "LoginUnauthorized") >>

\* run_expired: one attempt with a token that was waited out.
Expired == << Connect("expired-token", "own", "expired", "own", "AuthorizationDenied") >>

Cases == IF suite = "matrix" THEN All ELSE Expired
Case == Cases[run.case]
Names == {All[k].name : k \in 1..Len(All)} \cup {"expired-token"}

Phases == {"load", "next", "tls", "connected", "published", "passed", "failed"}

TypeOK ==
  /\ stack \in [missing : SUBSET Links, absent : Fixtures \cup {None},
                forged : {"pair", "stale", None}, outcome : {"accepted", "refused", None},
                lifetime : Lifetimes, announced : BOOLEAN]
  /\ suite \in {"matrix", "expired"}
  /\ run \in [at : Phases, case : Nat]
  /\ passed \subseteq Names /\ failed \subseteq Names /\ hit \subseteq Names
  /\ passed \cap failed = {}

\* An accepted experiment leaves its leaf; a refused one may find an old one.
AsLeft(result, leaf) == result = "accepted" => leaf # None

Init ==
  /\ stack \in [missing : {m \in SUBSET Links : Cardinality(m) <= MaxMissing},
                absent : Fixtures \cup {None},
                forged : {"pair", "stale", None}, outcome : {"accepted", "refused", None},
                lifetime : Lifetimes, announced : BOOLEAN]
  /\ AsLeft(stack.outcome, stack.forged)
  /\ suite \in {"matrix", "expired"}
  /\ suite = "matrix" =>
       stack.announced /\ \A l \in Lifetimes : stack.lifetime <= l
  /\ run = [at |-> "load", case |-> 1]
  /\ passed = {} /\ failed = {} /\ hit = {}

InForce(link) == link \notin stack.missing
OnDisk(fixture) == fixture # stack.absent
At(phase) == run.at = phase
GoTo(phase) == run' = [run EXCEPT !.at = phase]
Disturbed == Cardinality(hit) < MaxFaults /\ hit' = hit \cup {Case.name}

-----------------------------------------------------------------------------
\* Observed::satisfies.
SatisfiesMutant(observed, expect) ==   \* mutant: a refusal is a refusal
  CASE expect = "Connected"        -> observed = "RoundTripped"
    [] expect = "PublishRefused"   -> observed \in {"ClosedAfterConnect", "Timeout"}
    [] expect = "LoginUnauthorized" -> observed \in {"401", "403"}
    [] expect = "IssuanceRefused"  -> observed = "IssuanceRefused"
    [] OTHER                       ->
         observed \in {"Handshake", "BadClientId", "NotAuthorized", "BadUserNamePassword"}

Satisfies(observed, expect) ==
  CASE expect = "Connected"              -> observed = "RoundTripped"
    [] expect = "HandshakeFailed"        -> observed = "Handshake"
    [] expect = "BrokerRejectedIdentity" -> observed = "BadClientId"
    [] expect = "AuthorizationDenied"    -> observed \in {"NotAuthorized", "BadUserNamePassword"}
    [] expect = "PublishRefused"         -> observed \in {"ClosedAfterConnect", "Timeout"}
    [] expect = "LoginUnauthorized"      -> observed \in {"401", "403"}
    [] expect = "IssuanceRefused"        -> observed = "IssuanceRefused"

ConcludeMutant(observed) ==            \* mutant: counted before it is judged
  /\ passed' = passed \cup {Case.name}
  /\ failed' = IF Satisfies(observed, Case.expect) THEN failed ELSE failed \cup {Case.name}
  /\ run' = IF run.case < Len(Cases) THEN [at |-> "next", case |-> run.case + 1]
            ELSE [run EXCEPT !.at = IF failed' = {} THEN "passed" ELSE "failed"]
  /\ UNCHANGED <<stack, suite>>

\* One case is over: its line is printed and counted, and the next one begins.
Conclude(observed) ==
  /\ IF Satisfies(observed, Case.expect)
     THEN passed' = passed \cup {Case.name} /\ UNCHANGED failed
     ELSE failed' = failed \cup {Case.name} /\ UNCHANGED passed
  /\ run' = IF run.case < Len(Cases) THEN [at |-> "next", case |-> run.case + 1]
            ELSE [run EXCEPT !.at = IF failed' = {} THEN "passed" ELSE "failed"]
  /\ UNCHANGED <<stack, suite>>

\* An error that is not an observation ends the whole run.
Abort == GoTo("failed") /\ UNCHANGED <<stack, suite, passed, failed>>

Needed(fixtures) == \A f \in fixtures : OnDisk(f)

\* The tokens: the probe's for either suite, the other tenant's for the matrix.
Load ==
  /\ At("load")
  /\ \/ /\ Needed(IF suite = "matrix" THEN {"probe", "other"} ELSE {"probe"})
        /\ GoTo("next") /\ UNCHANGED <<stack, suite, passed, failed, hit>>
     \/ /\ ~Needed(IF suite = "matrix" THEN {"probe", "other"} ELSE {"probe"})
        /\ Abort /\ UNCHANGED hit
     \/ Disturbed /\ Abort           \* a login that fails, or is refused

\* The files a Connect case reads beyond the probe's and the other tenant's.
Reads == IF Case.credential = "peer" \/ Case.target = "sibling" THEN {"peer"} ELSE {}

\* A forged leaf and the probe's key make an identity only if they are a pair.
Builds == Needed(Reads) /\ ~(Case.credential = "forged" /\ stack.forged = "stale")

BuildAttempt ==
  /\ At("next") /\ Case.password # None
  /\ IF Builds THEN GoTo("tls") /\ UNCHANGED <<stack, suite, passed, failed>> ELSE Abort
  /\ UNCHANGED hit

-----------------------------------------------------------------------------
(***************************************************************************)
(* attempt_connect, event by event.  Without a forged leaf on disk its     *)
(* case falls back to the other tenant's own certificate.                  *)
(***************************************************************************)
Subject ==
  CASE Case.credential = "none"   -> None
    [] Case.credential = "peer"   -> "peer"
    [] Case.credential = "forged" -> IF stack.forged = None THEN "other" ELSE "probe"
    [] OTHER                      -> "probe"

NoCertificate == Case.credential = "none"

\* A certificate without a subject to compare may be let pass or refused.
IdentityRefused ==
  \/ InForce("subjectDn") /\ Subject # "probe"
  \/ InForce("forgery") /\ Case.credential = "forged" /\ Subject = "probe"

\* run_expired's wait, from the login on.
Waited == (IF stack.announced THEN stack.lifetime ELSE DefaultLifetime) + ExpiryMargin

TokenRefused ==
  CASE Case.password \in {"malformed", "corrupt"} -> InForce("signature")
    [] Case.password = "other"   -> InForce("subject")
    [] Case.password = "expired" -> InForce("expiry") /\ Waited > stack.lifetime + Skew
    [] OTHER                     -> FALSE

Admitted == ~(NoCertificate /\ InForce("peerCert"))

TlsAlert ==
  /\ At("tls") /\ ~Admitted
  /\ Conclude("Handshake") /\ UNCHANGED hit

RefuseIdentity ==
  /\ At("tls") /\ Admitted /\ IdentityRefused
  /\ Conclude("BadClientId") /\ UNCHANGED hit

PassesIdentity == Admitted /\ (NoCertificate \/ ~IdentityRefused)

RefuseToken ==
  /\ At("tls") /\ PassesIdentity /\ TokenRefused
  /\ \E code \in {"NotAuthorized", "BadUserNamePassword"} : Conclude(code)
  /\ UNCHANGED hit

\* CONNACK: the subscription to the own namespace is sent ...
Accept ==
  /\ At("tls") /\ PassesIdentity /\ ~TokenRefused
  /\ GoTo("connected") /\ UNCHANGED <<stack, suite, passed, failed, hit>>

\* ... and acknowledged: the publish is sent, whatever the acknowledgement says.
SubAck ==
  /\ At("connected")
  /\ GoTo("published") /\ UNCHANGED <<stack, suite, passed, failed, hit>>

ExpectRoundTrip == Case.target = "own"

Echo ==
  /\ At("published") /\ ExpectRoundTrip
  /\ Conclude("RoundTripped") /\ UNCHANGED hit

\* The broker closes on a publish the Twin refuses.
ClosePublish ==
  /\ At("published") /\ ~ExpectRoundTrip /\ InForce("ownership")
  /\ Conclude("ClosedAfterConnect") /\ UNCHANGED hit

\* The final match, with no round trip.
AtDeadline(connected) ==
  IF connected /\ ExpectRoundTrip THEN "ConnectedButNoRoundTrip" ELSE "Timeout"

\* A publish that is accepted somewhere else is not echoed: the time runs out.
NoEcho ==
  /\ At("published") /\ ~ExpectRoundTrip /\ ~InForce("ownership")
  /\ Conclude(AtDeadline(TRUE)) /\ UNCHANGED hit

\* classify: a connection error names the layer by what came before it.
Classify(connected) == IF connected THEN "ClosedAfterConnect" ELSE "Handshake"

Attempting == run.at \in {"tls", "connected", "published"}

\* The network fails, nothing answers in time, or the broker cannot reach the Twin.
Drop == Attempting /\ Disturbed /\ Conclude(Classify(~At("tls")))
Silence == Attempting /\ Disturbed /\ Conclude(AtDeadline(~At("tls")))
TwinAway ==
  /\ Attempting /\ (At("tls") => PassesIdentity)
  /\ Disturbed
  /\ Conclude(IF At("tls") THEN "NotAuthorized" ELSE "ClosedAfterConnect")

-----------------------------------------------------------------------------
\* The experiment's outcome is read; one that was not made ends the run.
ReadOutcome ==
  /\ At("next") /\ Case.credential = "outcome"
  /\ CASE stack.outcome = None       -> Abort
       [] stack.outcome = "accepted" -> Conclude("IssuanceAccepted")
       [] stack.outcome = "refused"  -> Conclude("IssuanceRefused")
  /\ UNCHANGED hit

DeviceLogin ==
  /\ At("next") /\ Case.credential = "login"
  /\ \/ ~OnDisk("unbound") /\ Abort /\ UNCHANGED hit
     \/ /\ OnDisk("unbound") /\ UNCHANGED hit
        /\ \E status \in IF InForce("binding") THEN {"401", "403"} ELSE {"200"} :
             Conclude(status)
     \/ OnDisk("unbound") /\ Disturbed /\ Abort

Again ==
  /\ run.at \in {"passed", "failed"}
  /\ run' = [at |-> "load", case |-> 1]
  /\ passed' = {} /\ failed' = {} /\ hit' = {}
  /\ UNCHANGED <<stack, suite>>

Next ==
  \/ Load \/ BuildAttempt
  \/ TlsAlert \/ RefuseIdentity \/ RefuseToken \/ Accept \/ SubAck
  \/ Echo \/ ClosePublish \/ NoEcho
  \/ Drop \/ Silence \/ TwinAway
  \/ ReadOutcome \/ DeviceLogin \/ Again

Spec == Init /\ [][Next]_vars

-----------------------------------------------------------------------------
\* The cases that would tell that a link is out of force.
Tells(link) ==
  CASE link = "peerCert"  -> {"no-client-cert"}
    [] link = "subjectDn" -> {"mismatched-cert"}
    [] link = "forgery"   -> {"other-tenant-ca"}
    [] link = "signature" -> {"malformed-token", "bad-signature"}
    [] link = "subject"   -> {"wrong-tenant"}
    [] link = "binding"   -> {"empty-cert-binding"}
    [] link = "expiry"    -> {"expired-token"}
    [] link = "ownership" -> {"namespace-sibling", "namespace-other-tenant",
                              "namespace-adjacent"}

\* This suite has cases that would tell, and none of them was disturbed.
Vouched(link) ==
  /\ suite = IF link = "expiry" THEN "expired" ELSE "matrix"
  /\ link = "forgery" => stack.forged = "pair"
  /\ Tells(link) \cap hit = {}

(***************************************************************************)
(* A run that passes has seen every link of the chain but one at work: no  *)
(* link its cases tell of is missing, whatever else is missing with it, if *)
(* the attempts that tell were not disturbed (cases.rs:12-31,              *)
(* matrix.rs:3-17); and AXIAM's refusal to issue is on record.             *)
(***************************************************************************)
PassMeansEnforced ==
  At("passed") =>
    /\ \A link \in stack.missing \ {"ownership"} : ~Vouched(link)
    /\ suite = "matrix" => stack.outcome = "refused"

(***************************************************************************)
(* And it is no false alarm: a run that fails owes it to a link that is    *)
(* missing, a fixture or an outcome that is not as smoke-certs leaves it,  *)
(* a token whose lifetime AXIAM does not tell, or an attempt that was      *)
(* disturbed (matrix.rs:110-140, 85-111, 227-278).                         *)
(***************************************************************************)
FailMeansFault ==
  At("failed") =>
    \/ stack.missing # {} \/ hit # {} \/ stack.absent # None
    \/ suite = "matrix" /\ (stack.outcome # "refused" \/ stack.forged = "stale")
    \/ suite = "expired" /\ ~stack.announced

(***************************************************************************)
(* cases.rs:105 "Connected, then refused when it published outside its own *)
(* namespace": a matrix that passes undisturbed means that the Twin does   *)
(* refuse a publish outside the device's namespace.                        *)
(***************************************************************************)
PassMeansOwned ==
  At("passed") /\ suite = "matrix" /\ hit = {} => InForce("ownership")
=============================================================================
