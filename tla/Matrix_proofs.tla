---------------------------- MODULE Matrix_proofs ----------------------------
(***************************************************************************)
(* Proofs about the connect matrix, for any lifetimes, any links out of    *)
(* force together and any number of disturbed attempts; and about the      *)
(* smoke suite it is the last part of, from which its files come.          *)
(***************************************************************************)
EXTENDS Matrix, Smoke, FiniteSetTheorems, TLAPS

USE MatrixAssumption

-----------------------------------------------------------------------------
(***************************************************************************)
(* The tables of cases.                                                    *)
(***************************************************************************)
LEMMA TableSizes == Len(All) = 12 /\ Len(Expired) = 1
BY DEF All, Expired

Row(name, credential, password, target, expect) ==
  /\ Case.name = name /\ Case.credential = credential /\ Case.password = password
  /\ Case.target = target /\ Case.expect = expect

\* The rows of cases.rs, as the place a run is in shows them.
MatrixRow ==
  \/ Row("positive", "own", "own", "own", "Connected")
  \/ Row("mismatched-cert", "peer", "own", "own", "BrokerRejectedIdentity")
  \/ Row("malformed-token", "own", "malformed", "own", "AuthorizationDenied")
  \/ Row("bad-signature", "own", "corrupt", "own", "AuthorizationDenied")
  \/ Row("wrong-tenant", "own", "other", "own", "AuthorizationDenied")
  \/ Row("no-client-cert", "none", "own", "own", "HandshakeFailed")
  \/ Row("other-tenant-ca", "forged", "own", "own", "BrokerRejectedIdentity")
  \/ Row("cross-tenant-ca-issuance", "outcome", None, None, "IssuanceRefused")
  \/ Row("namespace-sibling", "own", "own", "sibling", "PublishRefused")
  \/ Row("namespace-other-tenant", "own", "own", "otherTenant", "PublishRefused")
  \/ Row("namespace-adjacent", "own", "own", "adjacent", "PublishRefused")
  \/ Row("empty-cert-binding", "login", None, None, "LoginUnauthorized")

ExpiredRow == Row("expired-token", "own", "expired", "own", "AuthorizationDenied")

Placed == run.case \in 1..Len(Cases) /\ suite \in {"matrix", "expired"}

(***************************************************************************)
(* The case a run is in is a row of the table of its suite.                *)
(***************************************************************************)
LEMMA CaseIsRow ==
  ASSUME Placed
  PROVE  \/ suite = "matrix" /\ MatrixRow
         \/ suite = "expired" /\ ExpiredRow
<1>1. CASE suite = "matrix"
  <2>. SUFFICES MatrixRow
    BY <1>1
  <2>1. Case = All[run.case] /\ run.case \in 1..12
    BY <1>1, TableSizes DEF Placed, Case, Cases
  <2>2. CASE run.case = 1
    <3>1. Case = Connect("positive", "own", "own", "own", "Connected")
      BY <2>1, <2>2 DEF All
    <3>2. Row("positive", "own", "own", "own", "Connected")
      BY <3>1 DEF Connect, Row
    <3>. QED  BY <3>2 DEF MatrixRow
  <2>3. CASE run.case = 2
    <3>1. Case = Connect("mismatched-cert", "peer", "own", "own", "BrokerRejectedIdentity")
      BY <2>1, <2>3 DEF All
    <3>2. Row("mismatched-cert", "peer", "own", "own", "BrokerRejectedIdentity")
      BY <3>1 DEF Connect, Row
    <3>. QED  BY <3>2 DEF MatrixRow
  <2>4. CASE run.case = 3
    <3>1. Case = Connect("malformed-token", "own", "malformed", "own", "AuthorizationDenied")
      BY <2>1, <2>4 DEF All
    <3>2. Row("malformed-token", "own", "malformed", "own", "AuthorizationDenied")
      BY <3>1 DEF Connect, Row
    <3>. QED  BY <3>2 DEF MatrixRow
  <2>5. CASE run.case = 4
    <3>1. Case = Connect("bad-signature", "own", "corrupt", "own", "AuthorizationDenied")
      BY <2>1, <2>5 DEF All
    <3>2. Row("bad-signature", "own", "corrupt", "own", "AuthorizationDenied")
      BY <3>1 DEF Connect, Row
    <3>. QED  BY <3>2 DEF MatrixRow
  <2>6. CASE run.case = 5
    <3>1. Case = Connect("wrong-tenant", "own", "other", "own", "AuthorizationDenied")
      BY <2>1, <2>6 DEF All
    <3>2. Row("wrong-tenant", "own", "other", "own", "AuthorizationDenied")
      BY <3>1 DEF Connect, Row
    <3>. QED  BY <3>2 DEF MatrixRow
  <2>7. CASE run.case = 6
    <3>1. Case = Connect("no-client-cert", "none", "own", "own", "HandshakeFailed")
      BY <2>1, <2>7 DEF All
    <3>2. Row("no-client-cert", "none", "own", "own", "HandshakeFailed")
      BY <3>1 DEF Connect, Row
    <3>. QED  BY <3>2 DEF MatrixRow
  <2>8. CASE run.case = 7
    <3>1. Case = Connect("other-tenant-ca", "forged", "own", "own", "BrokerRejectedIdentity")
      BY <2>1, <2>8 DEF All
    <3>2. Row("other-tenant-ca", "forged", "own", "own", "BrokerRejectedIdentity")
      BY <3>1 DEF Connect, Row
    <3>. QED  BY <3>2 DEF MatrixRow
  <2>9. CASE run.case = 8
    <3>1. Case = Connect("cross-tenant-ca-issuance", "outcome", None, None, "IssuanceRefused")
      BY <2>1, <2>9 DEF All, Other
    <3>2. Row("cross-tenant-ca-issuance", "outcome", None, None, "IssuanceRefused")
      BY <3>1 DEF Connect, Row
    <3>. QED  BY <3>2 DEF MatrixRow
  <2>10. CASE run.case = 9
    <3>1. Case = Connect("namespace-sibling", "own", "own", "sibling", "PublishRefused")
      BY <2>1, <2>10 DEF All
    <3>2. Row("namespace-sibling", "own", "own", "sibling", "PublishRefused")
      BY <3>1 DEF Connect, Row
    <3>. QED  BY <3>2 DEF MatrixRow
  <2>11. CASE run.case = 10
    <3>1. Case = Connect("namespace-other-tenant", "own", "own", "otherTenant", "PublishRefused")
      BY <2>1, <2>11 DEF All
    <3>2. Row("namespace-other-tenant", "own", "own", "otherTenant", "PublishRefused")
      BY <3>1 DEF Connect, Row
    <3>. QED  BY <3>2 DEF MatrixRow
  <2>12. CASE run.case = 11
    <3>1. Case = Connect("namespace-adjacent", "own", "own", "adjacent", "PublishRefused")
      BY <2>1, <2>12 DEF All
    <3>2. Row("namespace-adjacent", "own", "own", "adjacent", "PublishRefused")
      BY <3>1 DEF Connect, Row
    <3>. QED  BY <3>2 DEF MatrixRow
  <2>13. CASE run.case = 12
    <3>1. Case = Connect("empty-cert-binding", "login", None, None, "LoginUnauthorized")
      BY <2>1, <2>13 DEF All, Other
    <3>2. Row("empty-cert-binding", "login", None, None, "LoginUnauthorized")
      BY <3>1 DEF Connect, Row
    <3>. QED  BY <3>2 DEF MatrixRow
  <2>14. run.case = 1 \/ run.case = 2 \/ run.case = 3 \/ run.case = 4 \/ run.case = 5 \/ run.case = 6
         \/ run.case = 7 \/ run.case = 8 \/ run.case = 9 \/ run.case = 10 \/ run.case = 11 \/ run.case = 12
    BY <2>1
  <2>. QED  BY <2>2, <2>3, <2>4, <2>5, <2>6, <2>7, <2>8, <2>9, <2>10, <2>11, <2>12, <2>13, <2>14
<1>2. CASE suite = "expired"
  <2>1. Cases = Expired
    BY <1>2 DEF Cases
  <2>2. Case = Expired[1]
    BY <2>1, TableSizes DEF Placed, Case
  <2>. QED  BY <1>2, <2>2 DEF Expired, Connect, ExpiredRow, Row
<1>. QED  BY <1>1, <1>2 DEF Placed

(***************************************************************************)
(* No name stands for two rows of a table, and each is known.              *)
(***************************************************************************)
LEMMA NamesDistinct ==
  ASSUME suite \in {"matrix", "expired"}
  PROVE  /\ \A j, k \in 1..Len(Cases) : Cases[j].name = Cases[k].name => j = k
         /\ \A k \in 1..Len(Cases) : Cases[k].name \in Names
<1>1. CASE suite = "matrix"
  <2>1. Cases = All
    BY <1>1 DEF Cases
  <2>2. \A j, k \in 1..12 : All[j].name = All[k].name => j = k
    BY DEF All, Connect, Other
  <2>. QED  BY <2>1, <2>2, TableSizes DEF Names
<1>2. CASE suite = "expired"
  <2>1. Cases = Expired /\ Expired[1].name = "expired-token"
    BY <1>2 DEF Cases, Expired, Connect
  <2>. QED  BY <2>1, TableSizes DEF Names
<1>. QED  BY <1>1, <1>2

-----------------------------------------------------------------------------
(***************************************************************************)
(* The inductive invariant.  What is judged is what comes before the case  *)
(* the run is in, and all of it when the run has passed.                   *)
(***************************************************************************)
Going == run.at \in {"load", "next", "tls", "connected", "published"}

JudgedUpTo(n) == passed \cup failed = {Cases[k].name : k \in 1..n}

Judged ==
  /\ Placed
  /\ passed \cap failed = {}
  /\ Going => JudgedUpTo(run.case - 1)
  /\ At("passed") => failed = {} /\ JudgedUpTo(Len(Cases))

\* How far an attempt came tells what did not refuse it.
Reached ==
  /\ Attempting => Case.password # None
  /\ run.at \in {"connected", "published"} => PassesIdentity /\ ~TokenRefused

\* A case that tells of a link that is missing passes only if disturbed.
Speaks(link) ==
  /\ suite = IF link = "expiry" THEN "expired" ELSE "matrix"
  /\ link = "forgery" => stack.forged = "pair"

Told ==
  \A link \in stack.missing \ {"ownership"} :
    Speaks(link) => Tells(link) \cap passed \subseteq hit

OnRecord == "cross-tenant-ca-issuance" \in passed => stack.outcome = "refused"

\* A case that fails owes it to something.
Amiss ==
  \/ stack.missing # {} \/ hit # {} \/ stack.absent # None
  \/ suite = "matrix" /\ (stack.outcome # "refused" \/ stack.forged = "stale")
  \/ suite = "expired" /\ ~stack.announced

Blamed == failed # {} \/ At("failed") => Amiss

\* What is chosen once, and the sets of names.
Typed ==
  /\ stack \in [missing : SUBSET Links, absent : Fixtures \cup {None},
                forged : {"pair", "stale", None}, outcome : {"accepted", "refused", None},
                lifetime : Lifetimes, announced : BOOLEAN]
  /\ run \in [at : Phases, case : Nat]
  /\ passed \subseteq Names /\ failed \subseteq Names /\ hit \subseteq Names

Inv == Typed /\ Judged /\ Reached /\ Told /\ OnRecord /\ Blamed

-----------------------------------------------------------------------------
(***************************************************************************)
(* The case of a run has a known name, and was not judged before.          *)
(***************************************************************************)
LEMMA CaseFresh ==
  ASSUME Judged, Going
  PROVE  Case.name \in Names /\ Case.name \notin passed \cup failed
<1>1. run.case \in 1..Len(Cases) /\ Len(Cases) \in Nat
  <2>1. Len(Cases) \in {1, 12}
    BY TableSizes DEF Cases
  <2>. QED  BY <2>1 DEF Judged, Placed
<1>2. ASSUME NEW k \in 1..(run.case - 1) PROVE Cases[k].name # Cases[run.case].name
  <2>1. k \in 1..Len(Cases) /\ k # run.case
    BY <1>1
  <2>. QED  BY <1>1, <2>1, NamesDistinct DEF Judged, Placed
<1>3. Cases[run.case].name \in Names
  BY <1>1, NamesDistinct DEF Judged, Placed
<1>. QED  BY <1>2, <1>3 DEF Judged, JudgedUpTo, Case

(***************************************************************************)
(* The end of a case keeps the invariant if its verdict is right: a pass   *)
(* is no pass of a case that would tell, and a failure has a reason.       *)
(***************************************************************************)
LEMMA ConcludeKeeps ==
  ASSUME Inv, run.at \in {"next", "tls", "connected", "published"},
         NEW observed, Conclude(observed), hit \subseteq hit', hit' \subseteq Names,
         Satisfies(observed, Case.expect) =>
           /\ \A link \in stack.missing \ {"ownership"} :
                Speaks(link) /\ Case.name \in Tells(link) => Case.name \in hit'
           /\ Case.name = "cross-tenant-ca-issuance" => stack.outcome = "refused",
         ~Satisfies(observed, Case.expect) => Amiss'
  PROVE  Inv'
<1>0. /\ Typed /\ Judged /\ Told /\ OnRecord /\ Blamed /\ Going
      /\ UNCHANGED <<stack, suite>> /\ stack' = stack /\ suite' = suite
  BY DEF Inv, Conclude, Going
<1>. DEFINE name == Case.name
            good == Satisfies(observed, Case.expect)
<1>1. name \in Names /\ name \notin passed \cup failed
  BY <1>0, CaseFresh
<1>2. Cases' = Cases
  BY <1>0 DEF Cases
<1>3. run.case \in 1..Len(Cases) /\ Len(Cases) \in Nat
  <2>1. Len(Cases) \in {1, 12}
    BY TableSizes DEF Cases
  <2>. QED  BY <1>0, <2>1 DEF Judged, Placed
<1>4. \/ good /\ passed' = passed \cup {name} /\ failed' = failed
      \/ ~good /\ failed' = failed \cup {name} /\ passed' = passed
  BY DEF Conclude
<1>5. \/ /\ run.case < Len(Cases)
         /\ run' = [at |-> "next", case |-> run.case + 1]
      \/ /\ run.case = Len(Cases) /\ failed' = {}
         /\ run' = [run EXCEPT !.at = "passed"]
      \/ /\ run.case = Len(Cases) /\ failed' # {}
         /\ run' = [run EXCEPT !.at = "failed"]
  BY <1>3 DEF Conclude
<1>6. Typed'
  <2>1. run' \in [at : Phases, case : Nat]
    BY <1>0, <1>3, <1>5 DEF Typed, Phases
  <2>. QED  BY <1>0, <1>1, <1>4, <2>1 DEF Typed
<1>7. (passed \cup failed)' = {Cases[k].name : k \in 1..run.case}
  <2>1. 1..run.case = 1..(run.case - 1) \cup {run.case}
    BY <1>3
  <2>2. passed \cup failed = {Cases[k].name : k \in 1..(run.case - 1)}
    BY <1>0 DEF Judged, JudgedUpTo
  <2>3. (passed \cup failed)' = (passed \cup failed) \cup {Cases[run.case].name}
    BY <1>4 DEF Case
  <2>. QED  BY <2>1, <2>2, <2>3
<1>8. Judged'
  <2>1. (passed \cap failed)' = {}
    BY <1>0, <1>1, <1>4 DEF Judged
  <2>2. Placed'
    BY <1>0, <1>2, <1>3, <1>5 DEF Judged, Placed, Typed
  <2>3. Going' => JudgedUpTo(run.case - 1)'
    <3>1. SUFFICES ASSUME Going' PROVE JudgedUpTo(run.case - 1)'
      OBVIOUS
    <3>2. run'.case - 1 = run.case
      BY <1>0, <1>3, <1>5, <3>1 DEF Going, Typed
    <3>. QED  BY <1>2, <1>7, <3>2 DEF JudgedUpTo
  <2>4. At("passed")' => failed' = {} /\ JudgedUpTo(Len(Cases))'
    <3>1. SUFFICES ASSUME At("passed")' PROVE failed' = {} /\ JudgedUpTo(Len(Cases))'
      OBVIOUS
    <3>2. run.case = Len(Cases) /\ failed' = {}
      BY <1>0, <1>5, <3>1 DEF At, Typed
    <3>. QED  BY <1>2, <1>7, <3>2 DEF JudgedUpTo
  <2>. QED  BY <2>1, <2>2, <2>3, <2>4 DEF Judged
<1>9. Reached'
  BY <1>0, <1>5 DEF Reached, Attempting, Typed
<1>10. Told'
  <2>1. ASSUME NEW link \in stack.missing \ {"ownership"}, Speaks(link), NEW n \in Tells(link) \cap passed'
        PROVE  n \in hit'
    <3>1. CASE n \in passed
      BY <1>0, <2>1, <3>1 DEF Told
    <3>2. CASE n \notin passed
      BY <1>4, <2>1, <3>2
    <3>. QED  BY <3>1, <3>2
  <2>. QED  BY <1>0, <2>1 DEF Told, Speaks, Tells
<1>11. OnRecord'
  BY <1>0, <1>4 DEF OnRecord
<1>12. Blamed'
  <2>1. CASE good
    <3>1. failed' = failed
      BY <1>4, <2>1
    <3>2. At("failed")' => failed # {}
      BY <1>0, <1>5, <3>1 DEF At, Typed
    <3>3. Amiss => Amiss'
      BY <1>0 DEF Amiss
    <3>. QED  BY <1>0, <3>1, <3>2, <3>3 DEF Blamed
  <2>2. CASE ~good
    BY <2>2 DEF Blamed
  <2>. QED  BY <2>1, <2>2
<1>. QED  BY <1>6, <1>8, <1>9, <1>10, <1>11, <1>12 DEF Inv

-----------------------------------------------------------------------------
(***************************************************************************)
(* A disturbed attempt tells of nothing, and no failure of its run is a    *)
(* false alarm.                                                            *)
(***************************************************************************)
LEMMA DisturbedKeeps ==
  ASSUME Inv, Attempting, Disturbed, NEW observed, Conclude(observed)
  PROVE  Inv'
<1>1. Going /\ Judged /\ Placed /\ Typed /\ Case.password # None
  BY DEF Inv, Judged, Going, Attempting, Reached
<1>2. Case.name \in Names
  BY <1>1, CaseFresh
<1>3. hit' = hit \cup {Case.name}
  BY DEF Disturbed
<1>4. hit \subseteq hit' /\ hit' \subseteq Names /\ Case.name \in hit'
  BY <1>1, <1>2, <1>3 DEF Typed
<1>5. Case.name # "cross-tenant-ca-issuance"
  BY <1>1, CaseIsRow DEF MatrixRow, ExpiredRow, Row
<1>6. Amiss'
  BY <1>4 DEF Amiss
<1>7. run.at \in {"next", "tls", "connected", "published"}
  BY DEF Attempting
<1>. QED  BY <1>4, <1>5, <1>6, <1>7, ConcludeKeeps

\* Nothing is amiss: every link is in force.
LEMMA AllInForce ==
  ASSUME ~Amiss
  PROVE  \A link : InForce(link)
BY DEF Amiss, InForce

(***************************************************************************)
(* An alert is seen only without a certificate, and only when the listener *)
(* requires one.                                                           *)
(***************************************************************************)
LEMMA TlsAlertKeeps == Inv /\ TlsAlert => Inv'
<1>. SUFFICES ASSUME Inv, TlsAlert PROVE Inv'
  OBVIOUS
<1>1. /\ Placed /\ Typed /\ run.at = "tls" /\ Conclude("Handshake") /\ hit' = hit
      /\ Case.credential = "none" /\ InForce("peerCert")
  BY DEF Inv, Judged, TlsAlert, At, Admitted, NoCertificate
<1>2. Case.name = "no-client-cert" /\ Case.expect = "HandshakeFailed"
  BY <1>1, CaseIsRow DEF MatrixRow, ExpiredRow, Row
<1>3. Satisfies("Handshake", Case.expect)
  BY <1>2 DEF Satisfies
<1>4. ASSUME NEW link \in stack.missing \ {"ownership"}, Case.name \in Tells(link)
      PROVE  FALSE
  <2>1. link \in Links
    BY <1>1, <1>4 DEF Typed
  <2>. QED  BY <1>1, <1>2, <1>4, <2>1 DEF Tells, Links, InForce
<1>. QED  BY <1>1, <1>2, <1>3, <1>4, ConcludeKeeps DEF Typed

(***************************************************************************)
(* A certificate is refused for its subject or as a forgery, by the link   *)
(* that is there for it.                                                   *)
(***************************************************************************)
LEMMA RefuseIdentityKeeps == Inv /\ RefuseIdentity => Inv'
<1>. SUFFICES ASSUME Inv, RefuseIdentity PROVE Inv'
  OBVIOUS
<1>1. /\ Placed /\ Typed /\ run.at = "tls" /\ Conclude("BadClientId") /\ hit' = hit
      /\ Admitted /\ IdentityRefused /\ Case.password # None
  BY DEF Inv, Judged, RefuseIdentity, At, Reached, Attempting
<1>2. \/ Case.credential = "none" /\ Case.expect = "HandshakeFailed" /\ ~InForce("peerCert")
      \/ /\ Case.credential = "peer" /\ Case.expect = "BrokerRejectedIdentity"
         /\ InForce("subjectDn") /\ Case.name = "mismatched-cert"
      \/ /\ Case.credential = "forged" /\ Case.expect = "BrokerRejectedIdentity"
         /\ Case.name = "other-tenant-ca"
         /\ stack.forged # None => InForce("forgery")
  <2>1. CASE Case.credential = "none"
    BY <1>1, <2>1, CaseIsRow DEF MatrixRow, ExpiredRow, Row, Admitted, NoCertificate
  <2>2. CASE Case.credential = "peer"
    <3>1. InForce("subjectDn")
      BY <1>1, <2>2 DEF IdentityRefused
    <3>. QED  BY <1>1, <2>2, <3>1, CaseIsRow DEF MatrixRow, ExpiredRow, Row
  <2>3. CASE Case.credential = "forged"
    <3>1. stack.forged # None => InForce("forgery")
      BY <1>1, <2>3 DEF IdentityRefused, Subject
    <3>. QED  BY <1>1, <2>3, <3>1, CaseIsRow DEF MatrixRow, ExpiredRow, Row
  <2>4. CASE Case.credential \notin {"none", "peer", "forged"}
    BY <1>1, <2>4 DEF IdentityRefused, Subject
  <2>. QED  BY <2>1, <2>2, <2>3, <2>4
<1>3. Satisfies("BadClientId", Case.expect) <=> Case.credential # "none"
  BY <1>2 DEF Satisfies
<1>4. ASSUME NEW link \in stack.missing \ {"ownership"}, Speaks(link),
             Case.credential # "none", Case.name \in Tells(link)
      PROVE  FALSE
  <2>1. link \in Links
    BY <1>1, <1>4 DEF Typed
  <2>2. CASE Case.credential = "peer"
    <3>1. link = "subjectDn"
      BY <1>2, <1>4, <2>1, <2>2 DEF Tells, Links
    <3>. QED  BY <1>2, <1>4, <2>2, <3>1 DEF InForce
  <2>3. CASE Case.credential = "forged"
    <3>1. link = "forgery"
      BY <1>2, <1>4, <2>1, <2>3 DEF Tells, Links
    <3>2. stack.forged = "pair" /\ "pair" # None
      BY <1>4, <3>1 DEF Speaks, Fixtures
    <3>. QED  BY <1>2, <1>4, <2>3, <3>1, <3>2 DEF InForce
  <2>. QED  BY <1>2, <1>4, <2>2, <2>3
<1>5. Case.credential = "none" => Amiss'
  BY <1>1, <1>2 DEF Amiss, InForce, Conclude
<1>6. Case.credential # "none" => Case.name # "cross-tenant-ca-issuance"
  BY <1>2
<1>. QED  BY <1>1, <1>3, <1>4, <1>5, <1>6, ConcludeKeeps DEF Typed

(***************************************************************************)
(* A token is refused by the check its flaw is for.                        *)
(***************************************************************************)
LEMMA RefuseTokenKeeps == Inv /\ RefuseToken => Inv'
<1>. SUFFICES ASSUME Inv, RefuseToken PROVE Inv'
  OBVIOUS
<1>1. PICK code \in {"NotAuthorized", "BadUserNamePassword"} : Conclude(code)
  BY DEF RefuseToken
<1>2. /\ Placed /\ Typed /\ run.at = "tls" /\ hit' = hit /\ TokenRefused
      /\ Case.password # None
  BY DEF Inv, Judged, RefuseToken, At, Reached, Attempting
<1>3. Case.password \in {"malformed", "corrupt", "other", "expired"}
  BY <1>2 DEF TokenRefused
<1>4. /\ Case.expect = "AuthorizationDenied"
      /\ \/ /\ Case.password \in {"malformed", "corrupt"}
            /\ Case.name \in {"malformed-token", "bad-signature"}
         \/ Case.password = "other" /\ Case.name = "wrong-tenant"
         \/ Case.password = "expired" /\ Case.name = "expired-token"
  BY <1>2, <1>3, CaseIsRow DEF MatrixRow, ExpiredRow, Row
<1>5. Satisfies(code, Case.expect)
  BY <1>4 DEF Satisfies
<1>6. ASSUME NEW link \in stack.missing \ {"ownership"}, Case.name \in Tells(link)
      PROVE  FALSE
  <2>1. link \in Links
    BY <1>2, <1>6 DEF Typed
  <2>2. CASE Case.password \in {"malformed", "corrupt"}
    <3>1. link = "signature"
      BY <1>4, <1>6, <2>1, <2>2 DEF Tells, Links
    <3>. QED  BY <1>2, <1>6, <2>2, <3>1 DEF TokenRefused, InForce
  <2>3. CASE Case.password = "other"
    <3>1. link = "subject"
      BY <1>4, <1>6, <2>1, <2>3 DEF Tells, Links
    <3>. QED  BY <1>2, <1>6, <2>3, <3>1 DEF TokenRefused, InForce
  <2>4. CASE Case.password = "expired"
    <3>1. link = "expiry"
      BY <1>4, <1>6, <2>1, <2>4 DEF Tells, Links
    <3>. QED  BY <1>2, <1>6, <2>4, <3>1 DEF TokenRefused, InForce
  <2>. QED  BY <1>3, <2>2, <2>3, <2>4
<1>7. Case.name # "cross-tenant-ca-issuance"
  BY <1>3, <1>4
<1>. QED  BY <1>1, <1>2, <1>5, <1>6, <1>7, ConcludeKeeps DEF Typed

(***************************************************************************)
(* What comes after the tokens is reached by the flawless attempts and by  *)
(* those whose link is missing.                                            *)
(***************************************************************************)
LEMMA EchoKeeps == Inv /\ Echo => Inv'
<1>. SUFFICES ASSUME Inv, Echo PROVE Inv'
  OBVIOUS
<1>1. /\ Placed /\ Typed /\ run.at = "published" /\ Conclude("RoundTripped") /\ hit' = hit
      /\ Case.target = "own" /\ Case.password # None /\ PassesIdentity /\ ~TokenRefused
  BY DEF Inv, Judged, Echo, At, ExpectRoundTrip, Reached, Attempting
<1>2. CASE Case.expect = "Connected"
  <2>1. Case.name = "positive"
    BY <1>1, <1>2, CaseIsRow DEF MatrixRow, ExpiredRow, Row
  <2>2. Satisfies("RoundTripped", Case.expect)
    BY <1>2 DEF Satisfies
  <2>3. ASSUME NEW link \in stack.missing \ {"ownership"} PROVE "positive" \notin Tells(link)
    <3>1. link \in Links
      BY <1>1, <2>3 DEF Typed
    <3>. QED  BY <3>1 DEF Tells, Links
  <2>. QED  BY <1>1, <2>1, <2>2, <2>3, ConcludeKeeps DEF Typed
<1>3. CASE Case.expect # "Connected"
  <2>1. Case.expect \in {"BrokerRejectedIdentity", "AuthorizationDenied", "HandshakeFailed",
                         "IssuanceRefused", "LoginUnauthorized", "PublishRefused"}
    BY <1>1, <1>3, CaseIsRow DEF MatrixRow, ExpiredRow, Row
  <2>2. ~Satisfies("RoundTripped", Case.expect)
    BY <2>1 DEF Satisfies
  <2>3. Amiss
    <3>1. SUFFICES ASSUME ~Amiss PROVE FALSE
      OBVIOUS
    <3>2. InForce("peerCert") /\ InForce("subjectDn") /\ InForce("forgery")
          /\ InForce("signature") /\ InForce("subject") /\ InForce("expiry")
      BY <3>1, AllInForce
    <3>3. \/ Case.credential \in {"peer", "forged", "none"}
          \/ Case.credential = "own" /\ Case.password \in {"malformed", "corrupt", "other", "expired"}
      BY <1>1, <1>3, CaseIsRow DEF MatrixRow, ExpiredRow, Row
    <3>4. CASE Case.credential = "none"
      BY <1>1, <3>2, <3>4 DEF PassesIdentity, Admitted, NoCertificate
    <3>5. CASE Case.credential = "peer"
      BY <1>1, <3>2, <3>5 DEF PassesIdentity, NoCertificate, IdentityRefused, Subject
    <3>6. CASE Case.credential = "forged"
      BY <1>1, <3>2, <3>6 DEF PassesIdentity, NoCertificate, IdentityRefused, Subject
    <3>7. CASE Case.password \in {"malformed", "corrupt", "other"}
      BY <1>1, <3>2, <3>7 DEF TokenRefused
    <3>8. CASE Case.password = "expired"
      <4>1. suite = "expired"
        BY <1>1, <3>8, CaseIsRow DEF MatrixRow, ExpiredRow, Row
      <4>2. stack.announced = TRUE
        BY <3>1, <4>1 DEF Amiss
      <4>3. stack.lifetime \in Nat
        BY <1>1 DEF Typed
      <4>4. Waited = stack.lifetime + 90
        BY <4>2 DEF Waited, ExpiryMargin
      <4>. QED  BY <1>1, <3>2, <3>8, <4>3, <4>4 DEF TokenRefused, Skew
    <3>. QED  BY <3>3, <3>4, <3>5, <3>6, <3>7, <3>8
  <2>4. Amiss'
    BY <1>1, <2>3 DEF Amiss, Conclude
  <2>. QED  BY <1>1, <2>2, <2>4, ConcludeKeeps DEF Typed
<1>. QED  BY <1>2, <1>3

(***************************************************************************)
(* A publish elsewhere is closed on, or never echoed: either satisfies the *)
(* cases of ownership, which is the one link nothing here tells of.        *)
(***************************************************************************)
LEMMA ElsewhereKeeps == Inv /\ (ClosePublish \/ NoEcho) => Inv'
<1>. SUFFICES ASSUME Inv, ClosePublish \/ NoEcho PROVE Inv'
  OBVIOUS
<1>1. /\ Placed /\ Typed /\ run.at = "published" /\ hit' = hit
      /\ Case.target # "own" /\ Case.password # None
  BY DEF Inv, Judged, ClosePublish, NoEcho, At, ExpectRoundTrip, Reached, Attempting
<1>2. PICK observed \in {"ClosedAfterConnect", "Timeout"} : Conclude(observed)
  BY <1>1 DEF ClosePublish, NoEcho, AtDeadline, ExpectRoundTrip
<1>3. /\ Case.expect = "PublishRefused"
      /\ Case.name \in {"namespace-sibling", "namespace-other-tenant", "namespace-adjacent"}
  BY <1>1, CaseIsRow DEF MatrixRow, ExpiredRow, Row
<1>4. Satisfies(observed, Case.expect)
  BY <1>3 DEF Satisfies
<1>5. ASSUME NEW link \in stack.missing \ {"ownership"}, Case.name \in Tells(link)
      PROVE  FALSE
  <2>1. link \in Links
    BY <1>1, <1>5 DEF Typed
  <2>. QED  BY <1>3, <1>5, <2>1 DEF Tells, Links
<1>. QED  BY <1>1, <1>2, <1>3, <1>4, <1>5, ConcludeKeeps DEF Typed

(***************************************************************************)
(* What is read of AXIAM: the outcome on record, and its answer to a login *)
(* with a certificate bound to no account.                                 *)
(***************************************************************************)
LEMMA AbortKeeps ==
  ASSUME Inv, Abort, hit \subseteq hit', hit' \subseteq Names, Amiss'
  PROVE  Inv'
<1>1. /\ UNCHANGED <<stack, suite, passed, failed>> /\ Typed /\ Judged /\ Told /\ OnRecord
      /\ run' = [run EXCEPT !.at = "failed"]
  BY DEF Inv, Abort, GoTo
<1>2. run'.at = "failed" /\ run'.case = run.case /\ run' \in [at : Phases, case : Nat]
  BY <1>1 DEF Typed, Phases
<1>3. Typed'
  BY <1>1, <1>2 DEF Typed
<1>4. Judged'
  BY <1>1, <1>2 DEF Judged, Placed, Going, At, Cases
<1>5. Reached'
  BY <1>2 DEF Reached, Attempting
<1>6. Told' /\ OnRecord' /\ Blamed'
  BY <1>1 DEF Told, Speaks, Tells, OnRecord, Blamed
<1>. QED  BY <1>3, <1>4, <1>5, <1>6 DEF Inv

LEMMA ReadOutcomeKeeps == Inv /\ ReadOutcome => Inv'
<1>. SUFFICES ASSUME Inv, ReadOutcome PROVE Inv'
  OBVIOUS
<1>1. /\ Placed /\ Typed /\ run.at = "next" /\ Case.credential = "outcome" /\ hit' = hit
  BY DEF Inv, Judged, ReadOutcome, At
<1>2. /\ suite = "matrix" /\ Case.name = "cross-tenant-ca-issuance"
      /\ Case.expect = "IssuanceRefused"
  BY <1>1, CaseIsRow DEF MatrixRow, ExpiredRow, Row
<1>3. CASE stack.outcome = None
  <2>1. Abort
    BY <1>3 DEF ReadOutcome
  <2>2. Amiss'
    BY <1>2, <1>3, <2>1 DEF Abort, Amiss
  <2>. QED  BY <1>1, <2>1, <2>2, AbortKeeps DEF Typed
<1>4. CASE stack.outcome = "accepted"
  <2>1. Conclude("IssuanceAccepted")
    BY <1>4 DEF ReadOutcome
  <2>2. ~Satisfies("IssuanceAccepted", Case.expect)
    BY <1>2 DEF Satisfies
  <2>3. Amiss'
    BY <1>2, <1>4, <2>1 DEF Conclude, Amiss
  <2>. QED  BY <1>1, <2>1, <2>2, <2>3, ConcludeKeeps DEF Typed
<1>5. CASE stack.outcome = "refused"
  <2>1. Conclude("IssuanceRefused")
    BY <1>5 DEF ReadOutcome
  <2>2. Satisfies("IssuanceRefused", Case.expect)
    BY <1>2 DEF Satisfies
  <2>3. ASSUME NEW link \in stack.missing \ {"ownership"} PROVE Case.name \notin Tells(link)
    <3>1. link \in Links
      BY <1>1, <2>3 DEF Typed
    <3>. QED  BY <1>2, <3>1 DEF Tells, Links
  <2>. QED  BY <1>1, <1>5, <2>1, <2>2, <2>3, ConcludeKeeps DEF Typed
<1>. QED  BY <1>1, <1>3, <1>4, <1>5 DEF Typed

LEMMA DeviceLoginKeeps == Inv /\ DeviceLogin => Inv'
<1>. SUFFICES ASSUME Inv, DeviceLogin PROVE Inv'
  OBVIOUS
<1>1. /\ Placed /\ Typed /\ Judged /\ run.at = "next" /\ Case.credential = "login"
  BY DEF Inv, Judged, DeviceLogin, At
<1>2. Case.name = "empty-cert-binding" /\ Case.expect = "LoginUnauthorized"
  BY <1>1, CaseIsRow DEF MatrixRow, ExpiredRow, Row
<1>3. CASE ~OnDisk("unbound") /\ Abort /\ UNCHANGED hit
  <2>1. Amiss'
    BY <1>3, MatrixAssumption DEF OnDisk, Abort, Amiss, Fixtures
  <2>. QED  BY <1>1, <1>3, <2>1, AbortKeeps DEF Typed
<1>4. CASE hit' = hit /\ \E status \in IF InForce("binding") THEN {"401", "403"} ELSE {"200"} :
                           Conclude(status)
  <2>1. PICK status : /\ Conclude(status)
                      /\ status \in IF InForce("binding") THEN {"401", "403"} ELSE {"200"}
    BY <1>4
  <2>2. CASE InForce("binding")
    <3>1. Satisfies(status, Case.expect)
      BY <1>2, <2>1, <2>2 DEF Satisfies
    <3>2. ASSUME NEW link \in stack.missing \ {"ownership"}, Case.name \in Tells(link)
          PROVE  FALSE
      <4>1. link \in Links
        BY <1>1, <3>2 DEF Typed
      <4>2. link = "binding"
        BY <1>2, <3>2, <4>1 DEF Tells, Links
      <4>. QED  BY <2>2, <3>2, <4>2 DEF InForce
    <3>. QED  BY <1>1, <1>2, <1>4, <2>1, <3>1, <3>2, ConcludeKeeps DEF Typed
  <2>3. CASE ~InForce("binding")
    <3>1. status = "200"
      BY <2>1, <2>3
    <3>2. ~Satisfies(status, Case.expect)
      BY <1>2, <3>1 DEF Satisfies
    <3>3. Amiss'
      BY <2>1, <2>3 DEF InForce, Conclude, Amiss
    <3>. QED  BY <1>1, <1>4, <2>1, <3>2, <3>3, ConcludeKeeps DEF Typed
  <2>. QED  BY <2>2, <2>3
<1>5. CASE Disturbed /\ Abort
  <2>1. hit' = hit \cup {Case.name}
    BY <1>5 DEF Disturbed
  <2>2. Case.name \in Names
    BY <1>1, CaseFresh DEF Going
  <2>3. hit \subseteq hit' /\ hit' \subseteq Names /\ Amiss'
    BY <1>1, <2>1, <2>2 DEF Typed, Amiss
  <2>. QED  BY <1>5, <2>3, AbortKeeps
<1>. QED  BY <1>3, <1>4, <1>5 DEF DeviceLogin

-----------------------------------------------------------------------------
(***************************************************************************)
(* A run goes from one phase of a case to the next, or gives up because of *)
(* what is not on disk or of a login that fails.                           *)
(***************************************************************************)
LEMMA GoOn ==
  ASSUME Inv, Going, NEW phase \in {"next", "tls", "connected", "published"}, GoTo(phase),
         UNCHANGED <<stack, suite, passed, failed, hit>>,
         phase # "next" => Case.password # None,
         phase \in {"connected", "published"} => PassesIdentity /\ ~TokenRefused
  PROVE  Inv'
<1>1. /\ Typed /\ Judged /\ Told /\ OnRecord /\ Blamed
      /\ run' = [run EXCEPT !.at = phase]
  BY DEF Inv, GoTo
<1>2. run'.at = phase /\ run'.case = run.case /\ run' \in [at : Phases, case : Nat]
  BY <1>1 DEF Typed, Phases
<1>3. Typed'
  BY <1>1, <1>2 DEF Typed
<1>4. Cases' = Cases /\ Case' = Case
  BY <1>2 DEF Cases, Case
<1>5. Judged'
  <2>1. Placed' /\ (passed \cap failed = {})' /\ ~At("passed")'
    BY <1>1, <1>2, <1>4 DEF Judged, Placed, At
  <2>2. JudgedUpTo(run.case - 1)'
    BY <1>1, <1>2, <1>4 DEF Judged, JudgedUpTo
  <2>. QED  BY <2>1, <2>2 DEF Judged
<1>6. Reached'
  <2>1. PassesIdentity' = PassesIdentity
    BY <1>4 DEF PassesIdentity, Admitted, NoCertificate, IdentityRefused, Subject, InForce
  <2>2. TokenRefused' = TokenRefused
    BY <1>4 DEF TokenRefused, Waited, InForce
  <2>. QED  BY <1>2, <1>4, <2>1, <2>2 DEF Reached, Attempting
<1>7. Told' /\ OnRecord'
  <2>1. stack' = stack /\ suite' = suite /\ passed' = passed /\ hit' = hit
    OBVIOUS
  <2>2. Told'
    BY <1>1, <2>1 DEF Told, Speaks, Tells
  <2>. QED  BY <1>1, <2>1, <2>2 DEF OnRecord
<1>8. Blamed'
  <2>1. Amiss => Amiss'
    BY DEF Amiss
  <2>. QED  BY <1>1, <1>2, <2>1 DEF Blamed, At
<1>. QED  BY <1>3, <1>5, <1>6, <1>7, <1>8 DEF Inv

LEMMA LoadKeeps == Inv /\ Load => Inv'
<1>. SUFFICES ASSUME Inv, Load PROVE Inv'
  OBVIOUS
<1>1. Typed /\ Judged /\ Going /\ At("load")
  BY DEF Inv, Load, At, Going
<1>. DEFINE needed == IF suite = "matrix" THEN {"probe", "other"} ELSE {"probe"}
<1>2. CASE GoTo("next") /\ UNCHANGED <<stack, suite, passed, failed, hit>>
  BY <1>1, <1>2, GoOn
<1>3. CASE ~Needed(needed) /\ Abort /\ UNCHANGED hit
  <2>1. Amiss'
    BY <1>3, MatrixAssumption DEF Needed, OnDisk, Abort, Amiss, Fixtures
  <2>. QED  BY <1>1, <1>3, <2>1, AbortKeeps DEF Typed
<1>4. CASE Disturbed /\ Abort
  <2>1. hit' = hit \cup {Case.name} /\ Case.name \in Names
    BY <1>1, <1>4, CaseFresh DEF Disturbed
  <2>2. hit \subseteq hit' /\ hit' \subseteq Names /\ Amiss'
    BY <1>1, <2>1 DEF Typed, Amiss
  <2>. QED  BY <1>4, <2>2, AbortKeeps
<1>. QED  BY <1>2, <1>3, <1>4 DEF Load

LEMMA BuildAttemptKeeps == Inv /\ BuildAttempt => Inv'
<1>. SUFFICES ASSUME Inv, BuildAttempt PROVE Inv'
  OBVIOUS
<1>1. Typed /\ Placed /\ Going /\ run.at = "next" /\ Case.password # None /\ hit' = hit
  BY DEF Inv, Judged, BuildAttempt, At, Going
<1>2. CASE Builds
  BY <1>1, <1>2, GoOn DEF BuildAttempt
<1>3. CASE ~Builds
  <2>1. Abort
    BY <1>3 DEF BuildAttempt
  <2>2. stack.absent # None \/ (Case.credential = "forged" /\ stack.forged = "stale")
    <3>1. CASE ~Needed(Reads)
      <4>1. PICK f \in Reads : ~OnDisk(f)
        BY <3>1 DEF Needed
      <4>2. f = "peer"
        BY <4>1 DEF Reads
      <4>. QED  BY <4>1, <4>2 DEF OnDisk, Fixtures
    <3>2. CASE Needed(Reads)
      BY <1>3, <3>2 DEF Builds
    <3>. QED  BY <3>1, <3>2
  <2>3. Case.credential = "forged" => suite = "matrix"
    BY <1>1, CaseIsRow DEF ExpiredRow, Row
  <2>4. Amiss'
    BY <2>1, <2>2, <2>3 DEF Abort, Amiss
  <2>. QED  BY <1>1, <2>1, <2>4, AbortKeeps DEF Typed
<1>. QED  BY <1>2, <1>3

(***************************************************************************)
(* Nothing is judged when a run begins.                                    *)
(***************************************************************************)
LEMMA Afresh ==
  ASSUME suite \in {"matrix", "expired"}, run = [at |-> "load", case |-> 1],
         passed = {}, failed = {}, hit = {}
  PROVE  Judged /\ Reached /\ Told /\ OnRecord /\ Blamed
<1>1. Placed
  BY TableSizes DEF Placed, Cases
<1>2. JudgedUpTo(run.case - 1)
  BY DEF JudgedUpTo
<1>. QED  BY <1>1, <1>2 DEF Judged, Reached, Told, OnRecord, Blamed, At, Attempting

LEMMA InvInit == Init => Inv
<1>. SUFFICES ASSUME Init PROVE Inv
  OBVIOUS
<1>1. Typed
  BY DEF Init, Typed, Phases
<1>. QED  BY <1>1, Afresh DEF Init, Inv

LEMMA InvNext == Inv /\ [Next]_vars => Inv'
<1>. SUFFICES ASSUME Inv, [Next]_vars PROVE Inv'
  OBVIOUS
<1>1. CASE Accept
  BY <1>1, GoOn DEF Accept, At, Going, Inv, Reached, Attempting
<1>2. CASE SubAck
  BY <1>2, GoOn DEF SubAck, At, Going, Inv, Reached, Attempting
<1>3. CASE Drop \/ Silence \/ TwinAway
  BY <1>3, DisturbedKeeps DEF Drop, Silence, TwinAway
<1>4. CASE Again
  <2>1. /\ run' = [at |-> "load", case |-> 1] /\ passed' = {} /\ failed' = {} /\ hit' = {}
        /\ UNCHANGED <<stack, suite>> /\ Typed /\ suite \in {"matrix", "expired"}
    BY <1>4 DEF Again, Inv, Judged, Placed
  <2>2. (Judged /\ Reached /\ Told /\ OnRecord /\ Blamed)'
    <3>1. Placed'
      BY <2>1, TableSizes DEF Placed, Cases
    <3>2. JudgedUpTo(run.case - 1)'
      BY <2>1 DEF JudgedUpTo
    <3>. QED  BY <2>1, <3>1, <3>2 DEF Judged, Reached, Told, OnRecord, Blamed, At, Attempting
  <2>3. Typed'
    BY <2>1 DEF Typed, Phases
  <2>. QED  BY <2>2, <2>3 DEF Inv
<1>5. CASE UNCHANGED vars
  <2>1. Cases' = Cases /\ Case' = Case
    BY <1>5 DEF vars, Cases, Case
  <2>2. PassesIdentity' = PassesIdentity /\ TokenRefused' = TokenRefused
    BY <1>5, <2>1 DEF vars, PassesIdentity, Admitted, NoCertificate, IdentityRefused, Subject,
       InForce, TokenRefused, Waited
  <2>3. Typed' /\ Told' /\ OnRecord' /\ Blamed'
    BY <1>5 DEF vars, Inv, Typed, Told, Speaks, Tells, OnRecord, Blamed, Amiss, At
  <2>4. Judged'
    BY <1>5, <2>1 DEF vars, Inv, Judged, Placed, Going, JudgedUpTo, At
  <2>5. Reached'
    BY <1>5, <2>1, <2>2 DEF vars, Inv, Reached, Attempting
  <2>. QED  BY <2>3, <2>4, <2>5 DEF Inv
<1>. QED  BY <1>1, <1>2, <1>3, <1>4, <1>5, LoadKeeps, BuildAttemptKeeps, TlsAlertKeeps,
             RefuseIdentityKeeps, RefuseTokenKeeps, EchoKeeps, ElsewhereKeeps, ReadOutcomeKeeps,
             DeviceLoginKeeps DEF Next

LEMMA Invariant == Spec => []Inv
BY InvInit, InvNext, PTL DEF Spec

-----------------------------------------------------------------------------
(***************************************************************************)
(* Every case is judged once in a run, and by its name (Matrix.TypeOK).    *)
(***************************************************************************)
THEOREM TypeCorrect == Spec => []TypeOK
<1>1. Inv => TypeOK
  BY DEF Inv, Typed, Judged, Placed, TypeOK
<1>. QED  BY <1>1, Invariant, PTL

(***************************************************************************)
(* A link that some case of the suite tells of has one that is run.        *)
(***************************************************************************)
LEMMA SomeCaseTells ==
  ASSUME NEW link \in Links \ {"ownership"}, Speaks(link)
  PROVE  \E k \in 1..Len(Cases) : Cases[k].name \in Tells(link)
<1>1. CASE link = "expiry"
  <2>1. Cases = Expired /\ Expired[1].name = "expired-token"
    BY <1>1 DEF Speaks, Cases, Expired, Connect
  <2>. QED  BY <1>1, <2>1, TableSizes DEF Tells
<1>2. CASE link # "expiry"
  <2>1. Cases = All
    BY <1>2 DEF Speaks, Cases
  <2>2. /\ All[6].name = "no-client-cert" /\ All[2].name = "mismatched-cert"
        /\ All[7].name = "other-tenant-ca" /\ All[3].name = "malformed-token"
        /\ All[5].name = "wrong-tenant" /\ All[12].name = "empty-cert-binding"
    BY DEF All, Connect, Other
  <2>3. \E k \in 1..12 : All[k].name \in Tells(link)
    BY <1>2, <2>2 DEF Tells, Links
  <2>. QED  BY <2>1, <2>3, TableSizes
<1>. QED  BY <1>1, <1>2

(***************************************************************************)
(* A matrix that passes has seen every link of the chain but ownership at  *)
(* work, whatever is missing beside it, where the attempts that tell were  *)
(* not disturbed (cases.rs:12-31, matrix.rs:3-17).                         *)
(***************************************************************************)
THEOREM EnforcedWhenPassed == Spec => []PassMeansEnforced
<1>1. Inv => PassMeansEnforced
  <2>. SUFFICES ASSUME Inv, At("passed")
                PROVE  /\ \A link \in stack.missing \ {"ownership"} : ~Vouched(link)
                       /\ suite = "matrix" => stack.outcome = "refused"
    BY DEF PassMeansEnforced
  <2>1. Typed /\ Told /\ OnRecord /\ passed = {Cases[k].name : k \in 1..Len(Cases)}
    BY DEF Inv, Judged, JudgedUpTo
  <2>2. ASSUME NEW link \in stack.missing \ {"ownership"}, Vouched(link)
        PROVE  FALSE
    <3>1. link \in Links \ {"ownership"} /\ Speaks(link) /\ Tells(link) \cap hit = {}
      BY <2>1, <2>2 DEF Typed, Vouched, Speaks
    <3>2. PICK k \in 1..Len(Cases) : Cases[k].name \in Tells(link)
      BY <3>1, SomeCaseTells
    <3>. QED  BY <2>1, <2>2, <3>1, <3>2 DEF Told
  <2>3. suite = "matrix" => "cross-tenant-ca-issuance" \in passed
    <3>1. All[8].name = "cross-tenant-ca-issuance"
      BY DEF All, Connect, Other
    <3>. QED  BY <2>1, <3>1, TableSizes DEF Cases
  <2>. QED  BY <2>1, <2>2, <2>3 DEF OnRecord
<1>. QED  BY <1>1, Invariant, PTL

(***************************************************************************)
(* And a run that fails owes it to something that is amiss in the stack,   *)
(* on disk or on the way (matrix.rs:110-140, 85-111, 227-278).             *)
(***************************************************************************)
THEOREM FaultWhenFailed == Spec => []FailMeansFault
<1>1. Inv => FailMeansFault
  BY DEF Inv, Blamed, Amiss, FailMeansFault
<1>. QED  BY <1>1, Invariant, PTL

-----------------------------------------------------------------------------
(***************************************************************************)
(* The smoke suite (Smoke), the matrix' files being what it leaves.        *)
(***************************************************************************)
USE SmokeAssumption

\* The answers a run may have had, and what a run may look like.
Answers == {Nothing, "accepted", "refused", "lost"}
SmokeType == [at : Steps \cup Ended, last : Parts, wrong : BOOLEAN,
              answer : Answers]

\* The teardown has come to its end.
TornDown == AtStep("done") /\ smoke.last = "teardown"

\* The part a step is of, and the parts it may be run for.
TreeSteps == {"branch", "account", "publish", "user"}
AuthzSteps == {"resolve", "remove1", "add1", "remove2", "add2", "remove3",
               "group", "join", "bind", "ungrant", "report"}
Experiment == {"revoke", "attempt", "pem", "id", "outcome"}
TeardownSteps == {"unforge", "groups", "resources", "accounts", "users", "directory"}

InPart ==
  /\ smoke.at \in TreeSteps => smoke.last \in {"tree", "matrix"}
  /\ smoke.at \in AuthzSteps => smoke.last \in {"authz", "matrix"}
  /\ smoke.at \in {"keys", "request", "name"} \cup Experiment => smoke.last \in {"certs", "matrix"}
  /\ AtStep("matrix") => smoke.last = "matrix"
  /\ smoke.at \in TeardownSteps => smoke.last = "teardown"

\* AXIAM's answer, as far as there is one, is what AXIAM does.
AnswerTrue ==
  /\ smoke.answer = "accepted" => accepts
  /\ smoke.answer = "refused" => ~accepts

\* What smoke-certs writes of the answer.
AsRead == IF smoke.answer = "accepted" THEN "accepted" ELSE "refused"

\* What a run knows of its experiment, and what is on disk of it.
Recorded ==
  /\ smoke.at \in {"pem", "id"} => smoke.answer = "accepted"
  /\ smoke.at \in {"outcome", "matrix"} => smoke.answer # Nothing
  /\ AtStep("matrix") => outcome = AsRead
  /\ AtStep("done") /\ smoke.last = "matrix" => smoke.answer \in {"refused", "lost"}

\* No leaf is forged by a tenant that refuses, and while a run that has one
\* goes on, the leaf on disk is of the key its request was made with.
Paired ==
  /\ pem # Nothing => accepts
  /\ smoke.at \in Experiment \cup {"matrix"} => csr # Nothing
  /\ smoke.at \in {"id", "outcome", "matrix"} /\ smoke.answer = "accepted" => pem = csr

\* Ids are handed out in order, and the probe's files name one of the past.
Dated ==
  /\ account # Nothing => account <= made["account"]
  /\ keyFor # Nothing => keyFor <= made["account"]
  /\ saId # Nothing => saId <= made["account"]
  /\ account # Nothing /\ keyFor = account => saId = account

\* A request that smoke-keys would keep, were its key there.
RequestNoted == csr # Nothing /\ keyFor # Nothing /\ keyFor = saId

\* Such a request loses its key to a teardown that is cut short, and gets one it
\* was not made with from a smoke-keys that is.
Halves ==
  /\ smoke.at \in {"request", "name"} => key # Nothing /\ saId # Nothing
  /\ AtStep("name") => csr = key
  /\ smoke.at \in Experiment \cup {"matrix"} => RequestNoted /\ key # Nothing
  /\ RequestNoted /\ key = Nothing => AtStep("directory") \/ faults >= 1
  /\ RequestNoted /\ key # Nothing /\ key # csr =>
       faults >= 2 \/ (AtStep("request") /\ faults >= 1)

\* The grant group of smoke-authz is there only under the steps that made it, as
\* they made it; without a fault a run finds none and gets no verdict wrong.
GrantAt(step) ==
  CASE step = "join"   -> [group |-> TRUE, member |-> FALSE, bound |-> FALSE]
    [] step = "bind"   -> [group |-> TRUE, member |-> TRUE, bound |-> FALSE]
    [] step = "ungrant" -> [group |-> TRUE, member |-> TRUE, bound |-> TRUE]
    [] OTHER           -> NoGrant

Faultless ==
  faults = 0 =>
    /\ ~smoke.wrong /\ ~AtStep("stuck") /\ grant = GrantAt(smoke.at)
    /\ smoke.at \in {"group", "join", "bind", "ungrant"} => ~member

\* Forged leaves that are not the one in hand are owed to a fault each.
Owed ==
  /\ smoke.at \in {"pem", "id"} =>
       made["forged"] \in Id /\ Cardinality(forged \ {made["forged"]}) <= faults
  /\ smoke.at \notin {"pem", "id"} => Cardinality(forged \ {forgedId}) <= faults
  /\ smoke.at \in {"attempt"} \cup (TeardownSteps \ {"unforge"}) \/ TornDown =>
       Cardinality(forged) <= faults

\* A teardown has taken away what it is past of.
Gone ==
  /\ smoke.at \in {"resources", "accounts", "users", "directory"} \/ TornDown =>
       "groups" \notin branch /\ grant = NoGrant /\ ~member
  /\ smoke.at \in {"accounts", "users", "directory"} \/ TornDown => branch = {}
  /\ smoke.at \in {"users", "directory"} \/ TornDown => account = Nothing
  /\ AtStep("directory") \/ TornDown => ~user
  /\ TornDown => \A k \in 1..Len(files) : files[k] = Nothing

\* Inductive, and all that the theorems need.
SmokeInv ==
  /\ SmokeTypeOK /\ InPart /\ AnswerTrue /\ Recorded /\ Paired /\ Owed /\ Gone
  /\ Dated /\ Halves /\ Faultless

\* Nothing of a run but its place has changed.
Moved(step) ==
  /\ smoke' \in SmokeType
  /\ smoke'.at = step /\ smoke'.last = smoke.last /\ smoke'.wrong = smoke.wrong
  /\ smoke'.answer = smoke.answer

\* Going to a step changes the place of a run and nothing else of it.
LEMMA GoToMoves ==
  ASSUME smoke \in SmokeType, NEW step \in Steps \cup Ended, GoToStep(step)
  PROVE  Moved(step)
BY DEF GoToStep, Moved, SmokeType, Steps, Ended

\* The suite begins within its type.
LEMMA TypeInit == ASSUME SmokeInit PROVE SmokeTypeOK
<1>1. smoke \in [at : Steps \cup Ended, last : Parts, wrong : BOOLEAN,
                answer : {Nothing, "accepted", "refused", "lost"}]
  BY DEF SmokeInit, Ended, Parts
<1>2. made \in [{"account", "key", "forged"} -> 0..MaxMade] /\ faults \in 0..MaxSmokeFaults
  BY DEF SmokeInit
<1>. QED  BY <1>1, <1>2 DEF SmokeInit, SmokeTypeOK, NoGrant

\* A run of the suite, as the type has it.
LEMMA RunTyped == SmokeTypeOK => smoke \in SmokeType
BY DEF SmokeTypeOK, SmokeType, Answers

\* Every step leaves the run at a step there is, for a part there is.
LEMMA RunOfType ==
  ASSUME SmokeTypeOK, SmokeNext
  PROVE  smoke' \in SmokeType
<1>. smoke \in SmokeType
  BY RunTyped
<1>1. CASE Begin
  BY <1>1 DEF Begin, Recipes, SmokeType, Answers, Steps, Ended, Parts
<1>2. CASE CutShort \/ Exhausted \/ EnsureAccount \/ PublishId \/ Resolve \/ BindRefused
           \/ Membership \/ EnsureKeys \/ WriteRequest \/ WriteName \/ RevokeRecorded
           \/ WritePem \/ WriteId \/ Matrix
  <2>. DEFINE Targets == {"idle", "publish", "user", "remove1", "stuck", "revoke", "attempt",
                          "groups", "id", "outcome", "done", "request", "name", "add1",
                          "remove2", "add2", "remove3", "group"}
  <2>1. \E step \in Targets : GoToStep(step)
    BY <1>2 DEF CutShort, Exhausted, EnsureAccount, PublishId, Resolve, BindRefused,
      Membership, SetMember, EnsureKeys, WriteRequest, WriteName,
      RevokeRecorded, Revoke, RevokeFails, WritePem, WriteId, Matrix, Fail
  <2>2. Targets \subseteq Steps \cup Ended
    BY DEF Steps, Ended
  <2>. QED  BY <2>1, <2>2, GoToMoves DEF Moved
<1>3. CASE EnsureUser \/ Report \/ WriteOutcome \/ DropGroups \/ DropResources
           \/ DropAccounts \/ DropUsers \/ DirectoryGone \/ BuildBranch
  <2>. DEFINE Targets == {"account", "done", "resolve", "keys", "idle", "matrix", "resources",
                          "accounts", "users", "directory"}
  <2>1. smoke' = smoke \/ \E step \in Targets : GoToStep(step)
    BY <1>3 DEF EnsureUser, Report, WriteOutcome, DropGroups, DropResources, DropAccounts,
      DropUsers, DirectoryGone, BuildBranch, EndPart, Fail
  <2>2. Targets \subseteq Steps \cup Ended
    BY DEF Steps, Ended
  <2>. QED  BY <2>1, <2>2, GoToMoves DEF Moved
<1>4. CASE EnsureGrantGroup \/ JoinGrantGroup \/ BindGrant \/ DeleteGrantGroup
  <2>1. \E expected \in BOOLEAN, next \in {"join", "bind", "ungrant", "report"} :
          Decide(expected, next)
    BY <1>4 DEF EnsureGrantGroup, JoinGrantGroup, BindGrant, DeleteGrantGroup, Grant
  <2>2. PICK next \in {"join", "bind", "ungrant", "report"}, wrong \in BOOLEAN :
          smoke' = [smoke EXCEPT !.at = next, !.wrong = wrong]
    BY <2>1, RunTyped DEF Decide, SmokeType
  <2>3. next \in Steps
    BY DEF Steps
  <2>. QED  BY <2>2, <2>3 DEF SmokeType
<1>5. CASE Attempt
  <2>1. \E answer \in {"accepted", "refused", "lost"} : Answered(answer)
    BY <1>5 DEF Attempt
  <2>. QED  BY <2>1 DEF Answered, SmokeType, Answers, Steps
<1>6. CASE DropFile
  BY <1>6 DEF DropFile
<1>. QED
  BY <1>1, <1>2, <1>3, <1>4, <1>5, <1>6 DEF SmokeNext

\* What AXIAM holds, and what is on disk, is of its type.
AxiamTyped ==
  /\ accepts \in BOOLEAN /\ branch \subseteq Whole
  /\ account \in Id \cup {Nothing} /\ user \in BOOLEAN /\ member \in BOOLEAN
  /\ grant \in [group : BOOLEAN, member : BOOLEAN, bound : BOOLEAN]

FilesTyped ==
  /\ saId \in Id \cup {Nothing} /\ key \in Id \cup {Nothing}
  /\ csr \in Id \cup {Nothing} /\ keyFor \in Id \cup {Nothing}
  /\ pem \in Id \cup {Nothing} /\ forgedId \in Id \cup {Nothing}
  /\ outcome \in {Nothing, "accepted", "refused"}

CountsTyped ==
  /\ forged \subseteq Id
  /\ made \in [{"account", "key", "forged"} -> 0..MaxMade] /\ faults \in 0..MaxSmokeFaults

\* The type, part by part.
LEMMA TypeParts == SmokeTypeOK <=> AxiamTyped /\ FilesTyped /\ CountsTyped /\ smoke \in SmokeType
BY DEF SmokeTypeOK, AxiamTyped, FilesTyped, CountsTyped, SmokeType, Answers

\* What is made has an id within the bound, and is the last made.
LEMMA MakeTyped ==
  ASSUME CountsTyped, NEW what \in {"account", "key", "forged"}, Make(what)
  PROVE  /\ Fresh(what) \in Id
         /\ made' \in [{"account", "key", "forged"} -> 0..MaxMade]
         /\ made'[what] = Fresh(what)
<1>1. made[what] \in 0..MaxMade /\ made[what] < MaxMade
  BY DEF CountsTyped, Make
<1>. QED  BY <1>1 DEF CountsTyped, Make, Fresh, Id

\* What AXIAM holds keeps its type.
LEMMA AxiamOfType ==
  ASSUME SmokeTypeOK, SmokeNext
  PROVE  AxiamTyped'
<1>. AxiamTyped /\ CountsTyped
  BY TypeParts
<1>1. CASE EnsureAccount
  <2>1. account' \in Id \cup {Nothing}
    BY <1>1, MakeTyped DEF EnsureAccount, AxiamTyped
  <2>. QED  BY <1>1, <2>1 DEF EnsureAccount, AxiamTyped
<1>2. CASE BuildBranch
  BY <1>2 DEF BuildBranch, AxiamTyped, Whole
<1>3. CASE EnsureUser
  BY <1>3 DEF EnsureUser, AxiamTyped
<1>4. CASE Membership
  <2>1. member' \in BOOLEAN /\ UNCHANGED <<accepts, branch, account, user, grant>>
    BY <1>4 DEF Membership, SetMember, OnlyAuthz
  <2>. QED  BY <2>1 DEF AxiamTyped
<1>5. CASE EnsureGrantGroup \/ JoinGrantGroup \/ BindGrant \/ DeleteGrantGroup
  <2>. DEFINE Grants == [group : BOOLEAN, member : BOOLEAN, bound : BOOLEAN]
  <2>1. [grant EXCEPT !.group = TRUE] \in Grants /\ [grant EXCEPT !.member = TRUE] \in Grants
        /\ [grant EXCEPT !.bound = TRUE] \in Grants /\ NoGrant \in Grants
    BY DEF AxiamTyped, NoGrant
  <2>2. grant' \in Grants
    BY <1>5, <2>1 DEF EnsureGrantGroup, JoinGrantGroup, BindGrant, DeleteGrantGroup, Grant
  <2>3. UNCHANGED <<accepts, branch, account, user, member>>
    BY <1>5 DEF EnsureGrantGroup, JoinGrantGroup, BindGrant, DeleteGrantGroup, Grant, OnlyAuthz
  <2>. QED  BY <2>2, <2>3 DEF AxiamTyped
<1>6. CASE DropGroups
  BY <1>6 DEF DropGroups, AxiamTyped, NoGrant
<1>7. CASE DropResources \/ DropAccounts \/ DropUsers
  BY <1>7 DEF DropResources, DropAccounts, DropUsers, AxiamTyped
<1>8. CASE RevokeRecorded \/ Attempt
  <2>1. UNCHANGED <<accepts, branch, account, user, member, grant>>
    BY <1>8 DEF RevokeRecorded, Revoke, RevokeFails, Attempt, axiam
  <2>. QED  BY <2>1 DEF AxiamTyped
<1>9. CASE Begin \/ CutShort \/ Exhausted \/ PublishId \/ Resolve \/ BindRefused \/ Report
           \/ EnsureKeys \/ WriteRequest \/ WriteName \/ WritePem \/ WriteId \/ WriteOutcome
           \/ Matrix \/ DropFile \/ DirectoryGone
  <2>1. UNCHANGED <<accepts, axiam>>
    BY <1>9 DEF Begin, CutShort, Exhausted, PublishId, Resolve, BindRefused, Report,
      EnsureKeys, WriteRequest, WriteName, WritePem, WriteId, WriteOutcome, Matrix,
      DropFile, DirectoryGone
  <2>. QED  BY <2>1 DEF axiam, AxiamTyped
<1>. QED
  BY <1>1, <1>2, <1>3, <1>4, <1>5, <1>6, <1>7, <1>8, <1>9 DEF SmokeNext

-----------------------------------------------------------------------------
\* A step of a run: from one step of the suite to another, for the same part.
To(step) == smoke'.at = step /\ smoke'.last = smoke.last /\ smoke'.answer = smoke.answer
Hop(from, to) == smoke.at = from /\ To(to)

\* Where a run goes, for the same part and with the same answer.
LEMMA GoToGoes ==
  ASSUME SmokeTypeOK, NEW step \in Steps \cup Ended, GoToStep(step)
  PROVE  To(step)
BY RunTyped, GoToMoves DEF Moved, To

\* A part that is over ends the run, or the next one follows.
LEMMA EndsPart ==
  ASSUME SmokeTypeOK, NEW part, NEW next \in Steps, EndPart(part, next)
  PROVE  IF smoke.last = part THEN To("done") ELSE To(next)
BY GoToGoes DEF EndPart, Ended

\* A decision does not change the part or the answer.
LEMMA Decides ==
  ASSUME SmokeTypeOK, NEW expected, NEW next, Decide(expected, next)
  PROVE  To(next)
<1>1. PICK wrong : smoke' = [smoke EXCEPT !.at = next, !.wrong = wrong]
  BY DEF Decide
<1>2. smoke \in SmokeType
  BY RunTyped
<1>. QED  BY <1>1, <1>2 DEF SmokeType, To

\* The course of smoke-tree.
LEMMA TreeHops ==
  ASSUME SmokeTypeOK
  PROVE  /\ BuildBranch => smoke.at = "branch" /\ (To("branch") \/ To("account"))
         /\ EnsureAccount => Hop("account", "publish")
         /\ PublishId => Hop("publish", "user")
         /\ EnsureUser => /\ smoke.at = "user"
                          /\ IF smoke.last = "tree" THEN To("done") ELSE To("resolve")
<1>1. BuildBranch => smoke.at = "branch" /\ (To("branch") \/ To("account"))
  <2>1. GoToStep("account") => To("account")
    BY GoToGoes DEF Steps
  <2>. QED  BY <2>1 DEF BuildBranch, AtStep, To
<1>2. EnsureAccount => Hop("account", "publish")
  BY GoToGoes DEF EnsureAccount, AtStep, Hop, Steps
<1>3. PublishId => Hop("publish", "user")
  BY GoToGoes DEF PublishId, AtStep, Hop, Steps
<1>4. EnsureUser => /\ smoke.at = "user"
                    /\ IF smoke.last = "tree" THEN To("done") ELSE To("resolve")
  BY EndsPart DEF EnsureUser, AtStep, Steps
<1>. QED  BY <1>1, <1>2, <1>3, <1>4

\* The steps of smoke-authz that decide.
Deciding == Membership \/ EnsureGrantGroup \/ JoinGrantGroup \/ BindGrant \/ DeleteGrantGroup

\* The course of smoke-authz.
LEMMA AuthzHops ==
  ASSUME SmokeTypeOK
  PROVE  /\ Resolve => smoke.at = "resolve" /\ (To("remove1") \/ To("idle"))
         /\ Deciding => smoke.at \in AuthzSteps /\ \E next \in AuthzSteps : To(next)
         /\ BindRefused => Hop("bind", "stuck")
         /\ Report => /\ smoke.at = "report"
                      /\ IF smoke.last = "authz" THEN To("done") \/ To("idle")
                         ELSE To("keys") \/ To("idle")
<1>1. Resolve => smoke.at = "resolve" /\ (To("remove1") \/ To("idle"))
  BY GoToGoes DEF Resolve, Fail, AtStep, Steps, Ended
<1>2. Deciding => smoke.at \in AuthzSteps /\ \E next \in AuthzSteps : To(next)
  <2>1. ASSUME Deciding
        PROVE  \E next \in AuthzSteps : GoToStep(next) \/ \E expected : Decide(expected, next)
    BY <2>1 DEF Deciding, Membership, SetMember, EnsureGrantGroup, JoinGrantGroup, BindGrant,
      DeleteGrantGroup, Grant, AuthzSteps
  <2>2. Deciding => smoke.at \in AuthzSteps
    BY DEF Deciding, Membership, SetMember, EnsureGrantGroup, JoinGrantGroup, BindGrant,
      DeleteGrantGroup, Grant, AuthzSteps, AtStep
  <2>3. AuthzSteps \subseteq Steps
    BY DEF AuthzSteps, Steps
  <2>. QED  BY <2>1, <2>2, <2>3, Decides, GoToGoes
<1>3. BindRefused => Hop("bind", "stuck")
  BY GoToGoes DEF BindRefused, AtStep, Hop, Ended
<1>4. Report => /\ smoke.at = "report"
                /\ IF smoke.last = "authz" THEN To("done") \/ To("idle")
                   ELSE To("keys") \/ To("idle")
  <2>1. GoToStep("idle") => To("idle")
    BY GoToGoes DEF Ended
  <2>2. EndPart("authz", "keys") => IF smoke.last = "authz" THEN To("done") ELSE To("keys")
    BY EndsPart DEF Steps
  <2>. QED  BY <2>1, <2>2 DEF Report, Fail, AtStep
<1>. QED  BY <1>1, <1>2, <1>3, <1>4

\* The course of smoke-keys, of smoke-certs and of the matrix.
LEMMA ExperimentHops ==
  ASSUME SmokeTypeOK
  PROVE  /\ EnsureKeys => /\ smoke.at = "keys"
                          /\ To("idle") \/ To("revoke") \/ To("request")
         /\ WriteRequest => Hop("request", "name")
         /\ WriteName => Hop("name", "revoke")
         /\ WritePem => Hop("pem", "id")
         /\ WriteId => Hop("id", "outcome")
         /\ WriteOutcome => /\ smoke.at = "outcome"
                            /\ IF smoke.last = "certs" THEN To("done") ELSE To("matrix")
         /\ Matrix => /\ smoke.at = "matrix"
                      /\ IF outcome = "refused" THEN To("done") ELSE To("idle")
<1>1. EnsureKeys => smoke.at = "keys" /\ (To("idle") \/ To("revoke") \/ To("request"))
  <2>1. GoToStep("idle") => To("idle")
    BY GoToGoes DEF Ended
  <2>2. /\ GoToStep("revoke") => To("revoke")
        /\ GoToStep("request") => To("request")
    BY GoToGoes DEF Steps
  <2>. QED  BY <2>1, <2>2 DEF EnsureKeys, Fail, AtStep
<1>6. WriteRequest => Hop("request", "name")
  BY GoToGoes DEF WriteRequest, AtStep, Hop, Steps
<1>7. WriteName => Hop("name", "revoke")
  BY GoToGoes DEF WriteName, AtStep, Hop, Steps
<1>2. WritePem => Hop("pem", "id")
  BY GoToGoes DEF WritePem, AtStep, Hop, Steps
<1>3. WriteId => Hop("id", "outcome")
  BY GoToGoes DEF WriteId, AtStep, Hop, Steps
<1>4. WriteOutcome => /\ smoke.at = "outcome"
                      /\ IF smoke.last = "certs" THEN To("done") ELSE To("matrix")
  BY EndsPart DEF WriteOutcome, AtStep, Steps
<1>5. Matrix => /\ smoke.at = "matrix"
                /\ IF outcome = "refused" THEN To("done") ELSE To("idle")
  <2>1. GoToStep("idle") => To("idle")
    BY GoToGoes DEF Ended
  <2>2. GoToStep("done") => To("done")
    BY GoToGoes DEF Ended
  <2>. QED  BY <2>1, <2>2 DEF Matrix, Fail, AtStep
<1>. QED  BY <1>1, <1>2, <1>3, <1>4, <1>5, <1>6, <1>7

\* A leaf is revoked before an experiment and at the start of a teardown.
LEMMA RevokeHops ==
  ASSUME SmokeTypeOK, RevokeRecorded
  PROVE  Hop("revoke", "attempt") \/ Hop("unforge", "groups")
BY GoToGoes DEF RevokeRecorded, Revoke, RevokeFails, AtStep, Hop, Steps

\* The course of smoke-teardown.
LEMMA TeardownHops ==
  ASSUME SmokeTypeOK
  PROVE  /\ DropGroups => Hop("groups", "resources")
         /\ DropResources => Hop("resources", "accounts")
         /\ DropAccounts => Hop("accounts", "users")
         /\ DropUsers => Hop("users", "directory")
         /\ DropFile => Hop("directory", "directory") /\ smoke' = smoke
         /\ DirectoryGone => Hop("directory", "done")
<1>1. DropGroups => Hop("groups", "resources")
  BY GoToGoes DEF DropGroups, AtStep, Hop, Steps
<1>2. DropResources => Hop("resources", "accounts")
  BY GoToGoes DEF DropResources, AtStep, Hop, Steps
<1>3. DropAccounts => Hop("accounts", "users")
  BY GoToGoes DEF DropAccounts, AtStep, Hop, Steps
<1>4. DropUsers => Hop("users", "directory")
  BY GoToGoes DEF DropUsers, AtStep, Hop, Steps
<1>5. DropFile => Hop("directory", "directory") /\ smoke' = smoke
  BY DEF DropFile, AtStep, Hop, To
<1>6. DirectoryGone => Hop("directory", "done")
  BY GoToGoes DEF DirectoryGone, AtStep, Hop, Ended
<1>. QED  BY <1>1, <1>2, <1>3, <1>4, <1>5, <1>6

\* A run that is cut short is over.
LEMMA FailHops ==
  ASSUME SmokeTypeOK
  PROVE  /\ CutShort => smoke.at \notin Ended /\ To("idle")
         /\ Exhausted => smoke.at \in {"account", "keys", "attempt"} /\ To("idle")
<1>1. GoToStep("idle") => To("idle")
  BY GoToGoes DEF Ended
<1>. QED  BY <1>1 DEF CutShort, Exhausted, Fail, AtStep

\* A run begins at the start of its recipe, with nothing wrong or answered.
LEMMA Begins ==
  ASSUME Begin
  PROVE  /\ smoke.at \in Ended
         /\ ~smoke'.wrong /\ smoke'.answer = Nothing
         /\ \/ smoke'.at = "branch" /\ smoke'.last \in {"tree", "matrix"}
            \/ smoke'.at = "resolve" /\ smoke'.last = "authz"
            \/ smoke'.at = "keys" /\ smoke'.last \in {"certs", "matrix"}
            \/ smoke'.at = "unforge" /\ smoke'.last = "teardown"
BY DEF Begin, Recipes

\* The attempt gets an answer, and only an accepted one leaves a leaf to write.
LEMMA Attempts ==
  ASSUME SmokeTypeOK, Attempt
  PROVE  /\ smoke.at = "attempt" /\ smoke'.last = smoke.last
         /\ \/ smoke'.at = "pem" /\ smoke'.answer = "accepted"
            \/ smoke'.at = "outcome" /\ smoke'.answer \in {"refused", "lost"}
<1>1. PICK answer \in {"accepted", "refused", "lost"} : Answered(answer)
  BY DEF Attempt
<1>2. smoke \in SmokeType
  BY RunTyped
<1>3. /\ smoke'.last = smoke.last /\ smoke'.answer = answer
      /\ smoke'.at = IF answer = "accepted" THEN "pem" ELSE "outcome"
  BY <1>1, <1>2 DEF Answered, SmokeType
<1>4. smoke.at = "attempt"
  BY DEF Attempt, AtStep
<1>. QED  BY <1>3, <1>4

-----------------------------------------------------------------------------
\* What is on disk keeps its type: the id written is that of a leaf there is.
LEMMA FilesOfType ==
  ASSUME SmokeTypeOK, Owed, SmokeNext
  PROVE  FilesTyped'
<1>. AxiamTyped /\ FilesTyped /\ CountsTyped
  BY TypeParts
<1>1. CASE PublishId
  BY <1>1 DEF PublishId, AxiamTyped, FilesTyped
<1>2. CASE EnsureKeys
  <2>1. key' \in Id \cup {Nothing}
    BY <1>2, MakeTyped DEF EnsureKeys, FilesTyped
  <2>. QED  BY <1>2, <2>1 DEF EnsureKeys, FilesTyped
<1>8. CASE WriteRequest \/ WriteName
  BY <1>8 DEF WriteRequest, WriteName, FilesTyped
<1>3. CASE WritePem
  BY <1>3 DEF WritePem, FilesTyped
<1>4. CASE WriteId
  <2>1. made["forged"] \in Id
    BY <1>4 DEF WriteId, AtStep, Owed
  <2>. QED  BY <1>4, <2>1 DEF WriteId, FilesTyped
<1>5. CASE WriteOutcome
  BY <1>5 DEF WriteOutcome, FilesTyped
<1>6. CASE DropFile
  BY <1>6 DEF DropFile, FilesTyped
<1>7. CASE \/ Begin \/ CutShort \/ Exhausted \/ BuildBranch \/ EnsureAccount \/ EnsureUser
           \/ Resolve \/ Deciding \/ BindRefused \/ Report \/ RevokeRecorded \/ Attempt
           \/ Matrix \/ DropGroups \/ DropResources \/ DropAccounts \/ DropUsers
           \/ DirectoryGone
  <2>1. UNCHANGED files
    BY <1>7 DEF Begin, CutShort, Exhausted, BuildBranch, EnsureAccount, EnsureUser, Resolve,
      Deciding, Membership, SetMember, EnsureGrantGroup, JoinGrantGroup, BindGrant,
      DeleteGrantGroup, Grant, OnlyAuthz, BindRefused, Report, RevokeRecorded, Revoke,
      RevokeFails, Attempt, Matrix, DropGroups, DropResources, DropAccounts, DropUsers,
      DirectoryGone
  <2>. QED  BY <2>1 DEF files, FilesTyped
<1>. QED
  BY <1>1, <1>2, <1>3, <1>4, <1>5, <1>6, <1>7, <1>8 DEF SmokeNext, Deciding

\* A fault is within the bound.
LEMMA FaultCounted ==
  ASSUME CountsTyped, Fault
  PROVE  faults' = faults + 1 /\ faults' \in 0..MaxSmokeFaults
BY DEF CountsTyped, Fault

\* What is forged, made and failed keeps its type.
LEMMA CountsOfType ==
  ASSUME SmokeTypeOK, SmokeNext
  PROVE  CountsTyped'
<1>. CountsTyped
  BY TypeParts
<1>1. CASE CutShort \/ RevokeRecorded
  <2>1. forged' \subseteq forged /\ made' = made /\ (faults' = faults \/ Fault)
    BY <1>1 DEF CutShort, RevokeRecorded, Revoke, RevokeFails, axiam
  <2>. QED  BY <2>1, FaultCounted DEF CountsTyped
<1>2. CASE EnsureAccount \/ EnsureKeys
  <2>1. \/ made' = made \/ Make("account") \/ Make("key")
    BY <1>2 DEF EnsureAccount, EnsureKeys
  <2>2. forged' = forged /\ faults' = faults
    BY <1>2 DEF EnsureAccount, EnsureKeys, axiam
  <2>. QED  BY <2>1, <2>2, MakeTyped DEF CountsTyped
<1>3. CASE Attempt
  <2>1. faults' = faults \/ Fault
    BY <1>3 DEF Attempt
  <2>2. (UNCHANGED <<forged, made>>) \/ Forge
    BY <1>3 DEF Attempt
  <2>3. /\ forged' \subseteq Id
        /\ made' \in [{"account", "key", "forged"} -> 0..MaxMade]
    BY <2>2, MakeTyped DEF Forge, CountsTyped
  <2>. QED  BY <2>1, <2>3, FaultCounted DEF CountsTyped
<1>4. CASE \/ Begin \/ Exhausted \/ BuildBranch \/ PublishId \/ EnsureUser
           \/ Resolve \/ Deciding \/ BindRefused \/ Report \/ WritePem \/ WriteId
           \/ WriteOutcome \/ WriteRequest \/ WriteName
           \/ Matrix \/ DropGroups \/ DropResources \/ DropAccounts \/ DropUsers \/ DropFile
           \/ DirectoryGone
  <2>1. UNCHANGED <<forged, made, faults>>
    BY <1>4 DEF Begin, Exhausted, BuildBranch, PublishId, EnsureUser, Resolve, Deciding,
      Membership, SetMember, EnsureGrantGroup, JoinGrantGroup, BindGrant, DeleteGrantGroup,
      Grant, OnlyAuthz, BindRefused, Report, WriteRequest, WriteName, WritePem, WriteId,
      WriteOutcome, Matrix,
      DropGroups, DropResources, DropAccounts, DropUsers, DropFile, DirectoryGone, axiam
  <2>. QED  BY <2>1 DEF CountsTyped
<1>. QED
  BY <1>1, <1>2, <1>3, <1>4 DEF SmokeNext, Deciding

\* Every step keeps the type.
LEMMA TypeNext ==
  ASSUME SmokeTypeOK, Owed, SmokeNext
  PROVE  SmokeTypeOK'
<1>1. (AxiamTyped /\ FilesTyped /\ CountsTyped /\ smoke \in SmokeType)'
  BY RunOfType, AxiamOfType, FilesOfType, CountsOfType
<1>. QED  BY <1>1 DEF SmokeTypeOK, AxiamTyped, FilesTyped, CountsTyped, SmokeType, Answers

-----------------------------------------------------------------------------
\* Every step of a recipe is a step of the part it is run for.
LEMMA InPartNext ==
  ASSUME SmokeTypeOK, InPart, SmokeNext
  PROVE  InPart'
<1>. USE DEF InPart, TreeSteps, AuthzSteps, Experiment, TeardownSteps, AtStep
<1>1. CASE Begin
  BY <1>1, Begins
<1>2. CASE CutShort \/ Exhausted
  BY <1>2, FailHops DEF To
<1>3. CASE BuildBranch \/ EnsureAccount \/ PublishId \/ EnsureUser
  BY <1>3, TreeHops DEF To, Hop
<1>4. CASE Resolve \/ BindRefused \/ Report
  BY <1>4, AuthzHops DEF To, Hop
<1>5. CASE Deciding
  BY <1>5, AuthzHops DEF To
<1>6. CASE EnsureKeys \/ WriteRequest \/ WriteName \/ WritePem \/ WriteId \/ WriteOutcome \/ Matrix
  <2>1. smoke.last \in {"certs", "matrix"} \/ smoke.at = "matrix"
    BY <1>6, ExperimentHops DEF Hop
  <2>. QED  BY <1>6, <2>1, ExperimentHops DEF To, Hop
<1>7. CASE RevokeRecorded
  BY <1>7, RevokeHops DEF To, Hop
<1>8. CASE Attempt
  BY <1>8, Attempts
<1>9. CASE DropGroups \/ DropResources \/ DropAccounts \/ DropUsers \/ DropFile \/ DirectoryGone
  BY <1>9, TeardownHops DEF To, Hop
<1>. QED
  BY <1>1, <1>2, <1>3, <1>4, <1>5, <1>6, <1>7, <1>8, <1>9 DEF SmokeNext, Deciding

\* Every step but the start of a run and the attempt keeps the answer.
LEMMA AnswerKept ==
  ASSUME SmokeTypeOK, SmokeNext, ~Begin, ~Attempt
  PROVE  smoke'.answer = smoke.answer /\ smoke'.last = smoke.last
<1>. USE DEF To, Hop
<1>1. CASE CutShort \/ Exhausted
  BY <1>1, FailHops
<1>2. CASE BuildBranch \/ EnsureAccount \/ PublishId \/ EnsureUser
  BY <1>2, TreeHops
<1>3. CASE Resolve \/ Deciding \/ BindRefused \/ Report
  BY <1>3, AuthzHops
<1>4. CASE EnsureKeys \/ WriteRequest \/ WriteName \/ WritePem \/ WriteId \/ WriteOutcome \/ Matrix
  BY <1>4, ExperimentHops
<1>5. CASE RevokeRecorded
  BY <1>5, RevokeHops
<1>6. CASE DropGroups \/ DropResources \/ DropAccounts \/ DropUsers \/ DropFile \/ DirectoryGone
  BY <1>6, TeardownHops
<1>. QED
  BY <1>1, <1>2, <1>3, <1>4, <1>5, <1>6 DEF SmokeNext, Deciding

\* Whether AXIAM accepts does not change.
LEMMA AcceptsKept == SmokeNext => accepts' = accepts
BY DEF SmokeNext, Begin, CutShort, Exhausted, BuildBranch, EnsureAccount, PublishId, EnsureUser,
  Resolve, Membership, SetMember, EnsureGrantGroup, JoinGrantGroup, BindGrant, DeleteGrantGroup,
  Grant, OnlyAuthz, BindRefused, Report, EnsureKeys, WriteRequest, WriteName,
  RevokeRecorded, Revoke, RevokeFails, Attempt, WritePem, WriteId, WriteOutcome, Matrix,
  DropGroups, DropResources, DropAccounts, DropUsers, DropFile, DirectoryGone

\* The answer of a run is what AXIAM does, as long as there is one.
LEMMA AnswerTrueNext ==
  ASSUME SmokeTypeOK, AnswerTrue, SmokeNext
  PROVE  AnswerTrue'
<1>. accepts' = accepts /\ accepts \in BOOLEAN
  BY AcceptsKept DEF SmokeTypeOK
<1>1. CASE Begin
  BY <1>1, Begins DEF AnswerTrue
<1>2. CASE Attempt
  <2>1. PICK answer : /\ Answered(answer)
                      /\ answer = "accepted" => accepts
                      /\ answer = "refused" => ~accepts
    BY <1>2 DEF Attempt
  <2>2. smoke'.answer = answer
    BY <2>1, RunTyped DEF Answered, SmokeType
  <2>. QED  BY <2>1, <2>2 DEF AnswerTrue
<1>3. CASE ~Begin /\ ~Attempt
  BY <1>3, AnswerKept DEF AnswerTrue
<1>. QED  BY <1>1, <1>2, <1>3

\* The outcome a matrix reads is of this run's experiment.
LEMMA RecordedNext ==
  ASSUME SmokeTypeOK, InPart, Recorded, SmokeNext
  PROVE  Recorded'
<1>. USE DEF Recorded, AsRead, AtStep, To, Hop
<1>1. CASE Begin
  BY <1>1, Begins
<1>2. CASE Attempt
  BY <1>2, Attempts
<1>3. CASE CutShort \/ Exhausted
  BY <1>3, FailHops
<1>4. CASE BuildBranch \/ EnsureAccount \/ PublishId \/ EnsureUser
  BY <1>4, TreeHops DEF InPart, TreeSteps
<1>5. CASE Resolve \/ BindRefused \/ Report
  BY <1>5, AuthzHops DEF InPart, AuthzSteps
<1>6. CASE Deciding
  <2>1. smoke'.at \in AuthzSteps
    BY <1>6, AuthzHops
  <2>. QED  BY <2>1 DEF AuthzSteps
<1>7. CASE EnsureKeys \/ WriteRequest \/ WriteName \/ WritePem \/ WriteId
  BY <1>7, ExperimentHops
<1>8. CASE WriteOutcome
  <2>1. outcome' = AsRead
    BY <1>8 DEF WriteOutcome
  <2>. QED  BY <1>8, <2>1, ExperimentHops
<1>9. CASE Matrix
  <2>1. smoke.answer \in Answers /\ smoke.answer # Nothing
    BY <1>9, RunTyped DEF Matrix, SmokeType
  <2>. QED  BY <1>9, <2>1, ExperimentHops DEF Answers
<1>10. CASE RevokeRecorded
  BY <1>10, RevokeHops
<1>11. CASE DropGroups \/ DropResources \/ DropAccounts \/ DropUsers \/ DropFile
            \/ DirectoryGone
  BY <1>11, TeardownHops DEF InPart, TeardownSteps
<1>. QED
  BY <1>1, <1>2, <1>3, <1>4, <1>5, <1>6, <1>7, <1>8, <1>9, <1>10, <1>11 DEF SmokeNext, Deciding

\* While a run that was accepted goes on, leaf and request are a pair.
LEMMA PairedNext ==
  ASSUME SmokeTypeOK, AnswerTrue, Recorded, Paired, Halves, SmokeNext
  PROVE  Paired'
<1>. accepts' = accepts
  BY AcceptsKept
<1>. USE DEF Paired, AtStep, To, Hop, Experiment
<1>1. CASE Begin
  <2>1. pem' = pem
    BY <1>1 DEF Begin, files
  <2>. QED  BY <1>1, <2>1, Begins
<1>2. CASE Attempt
  BY <1>2, Attempts DEF Attempt, files
<1>3. CASE CutShort \/ Exhausted
  BY <1>3, FailHops DEF CutShort, Exhausted, files
<1>4. CASE BuildBranch \/ EnsureAccount \/ PublishId \/ EnsureUser
  <2>1. pem' = pem
    BY <1>4 DEF BuildBranch, EnsureAccount, PublishId, EnsureUser, files
  <2>. QED  BY <1>4, <2>1, TreeHops
<1>5. CASE Resolve \/ BindRefused \/ Report \/ Deciding
  <2>1. pem' = pem
    BY <1>5 DEF Resolve, BindRefused, Report, Deciding, Membership, SetMember, EnsureGrantGroup,
      JoinGrantGroup, BindGrant, DeleteGrantGroup, Grant, OnlyAuthz, files
  <2>2. smoke'.at \in AuthzSteps \cup {"idle", "stuck", "done", "keys"}
    BY <1>5, AuthzHops DEF AuthzSteps
  <2>. QED  BY <2>1, <2>2 DEF AuthzSteps
<1>6. CASE EnsureKeys
  <2>1. smoke'.at = "revoke" => csr # Nothing
    <3>1. (Fail => smoke'.at = "idle") /\ (GoToStep("request") => smoke'.at = "request")
      BY GoToGoes DEF Fail, Steps, Ended
    <3>. QED  BY <1>6, <3>1 DEF EnsureKeys, KeysKept
  <2>. QED  BY <1>6, <2>1, ExperimentHops DEF EnsureKeys
<1>14. CASE WriteRequest \/ WriteName
  BY <1>14, ExperimentHops DEF WriteRequest, WriteName, Halves
<1>7. CASE WritePem
  BY <1>7, ExperimentHops DEF WritePem, Recorded, AnswerTrue
<1>8. CASE WriteId
  BY <1>8, ExperimentHops DEF WriteId
<1>9. CASE WriteOutcome
  BY <1>9, ExperimentHops DEF WriteOutcome
<1>10. CASE Matrix
  BY <1>10, ExperimentHops DEF Matrix, files
<1>11. CASE RevokeRecorded
  BY <1>11, RevokeHops DEF RevokeRecorded, Revoke, RevokeFails, files
<1>12. CASE DropGroups \/ DropResources \/ DropAccounts \/ DropUsers \/ DirectoryGone
  <2>1. pem' = pem
    BY <1>12 DEF DropGroups, DropResources, DropAccounts, DropUsers, DirectoryGone, files
  <2>. QED  BY <1>12, <2>1, TeardownHops
<1>13. CASE DropFile
  <2>1. pem' = pem \/ pem' = Nothing
    BY <1>13 DEF DropFile
  <2>. QED  BY <1>13, <2>1, TeardownHops
<1>. QED
  BY <1>1, <1>2, <1>3, <1>4, <1>5, <1>6, <1>7, <1>8, <1>9, <1>10, <1>11, <1>12, <1>13,
     <1>14
  DEF SmokeNext, Deciding

-----------------------------------------------------------------------------
\* The steps that write or remove the probe's files, or its account.
Keying == EnsureAccount \/ PublishId \/ EnsureKeys \/ WriteRequest \/ WriteName
          \/ DropAccounts \/ DropFile

\* No other step changes them.
LEMMA ProbeKept ==
  ASSUME SmokeNext, ~Keying
  PROVE  UNCHANGED <<account, saId, key, csr, keyFor>>
<1>1. CASE RevokeRecorded \/ Attempt \/ WritePem \/ WriteId \/ WriteOutcome
  BY <1>1 DEF RevokeRecorded, Revoke, RevokeFails, Attempt, WritePem, WriteId, WriteOutcome,
    axiam, files
<1>2. CASE DropGroups \/ DropResources \/ DropUsers \/ DirectoryGone
  BY <1>2 DEF DropGroups, DropResources, DropUsers, DirectoryGone, axiam, files
<1>3. CASE Begin \/ CutShort \/ Exhausted \/ BuildBranch \/ EnsureUser \/ Matrix
  BY <1>3 DEF Begin, CutShort, Exhausted, BuildBranch, EnsureUser, Matrix, axiam, files
<1>4. CASE Resolve \/ Deciding \/ BindRefused \/ Report
  BY <1>4 DEF Resolve, Deciding, Membership, SetMember, EnsureGrantGroup, JoinGrantGroup,
    BindGrant, DeleteGrantGroup, Grant, OnlyAuthz, BindRefused, Report, axiam, files
<1>. QED
  BY <1>1, <1>2, <1>3, <1>4 DEF SmokeNext, Deciding, Keying

\* Accounts are made in one place.
LEMMA AccountsKept ==
  ASSUME SmokeTypeOK, SmokeNext, ~EnsureAccount
  PROVE  made'["account"] = made["account"]
<1>1. UNCHANGED made \/ Make("key") \/ Make("forged")
  <2>1. CASE EnsureKeys \/ Attempt
    BY <2>1 DEF EnsureKeys, Attempt, Forge
  <2>2. CASE ~EnsureKeys /\ ~Attempt
    BY <2>2 DEF SmokeNext, Begin, CutShort, Exhausted, BuildBranch, PublishId, EnsureUser,
      Resolve, Membership, SetMember, EnsureGrantGroup, JoinGrantGroup, BindGrant,
      DeleteGrantGroup, Grant, OnlyAuthz, BindRefused, Report, WriteRequest, WriteName,
      RevokeRecorded, Revoke, RevokeFails, WritePem, WriteId, WriteOutcome, Matrix,
      DropGroups, DropResources, DropAccounts, DropUsers, DropFile, DirectoryGone
  <2>. QED  BY <2>1, <2>2
<1>. QED  BY <1>1 DEF SmokeTypeOK, Make

\* The account is of this run or of an earlier one, and so is the files'.
LEMMA DatedNext ==
  ASSUME SmokeTypeOK, Gone, Dated, SmokeNext
  PROVE  Dated'
<1>. AxiamTyped /\ FilesTyped /\ CountsTyped
  BY TypeParts
<1>1. CASE EnsureAccount
  <2>1. UNCHANGED <<saId, keyFor>>
    BY <1>1 DEF EnsureAccount, files
  <2>2. CASE account = Nothing
    <3>1. /\ account' = made["account"] + 1 /\ account' \in Id
          /\ made'["account"] = made["account"] + 1 /\ made["account"] \in Nat
      BY <1>1, <2>2, MakeTyped DEF EnsureAccount, Fresh, CountsTyped
    <3>. QED  BY <2>1, <3>1 DEF Dated, FilesTyped, Id
  <2>3. CASE account # Nothing
    BY <1>1, <2>1, <2>3 DEF EnsureAccount, Dated
  <2>. QED  BY <2>2, <2>3
<1>2. CASE PublishId
  BY <1>2 DEF PublishId, Dated, axiam
<1>3. CASE WriteName
  BY <1>3 DEF WriteName, Dated, axiam
<1>4. CASE DropFile
  <2>1. UNCHANGED <<account, made>> /\ account = Nothing
    BY <1>4 DEF DropFile, Gone, AtStep, axiam
  <2>2. saId' \in {saId, Nothing} /\ keyFor' \in {keyFor, Nothing}
    BY <1>4 DEF DropFile
  <2>. QED  BY <2>1, <2>2 DEF Dated
<1>5. CASE DropAccounts
  BY <1>5 DEF DropAccounts, Dated, files
<1>6. CASE EnsureKeys \/ WriteRequest \/ ~Keying
  <2>1. UNCHANGED <<account, saId, keyFor>>
    BY <1>6, ProbeKept DEF EnsureKeys, WriteRequest, axiam
  <2>2. CASE EnsureAccount
    BY <1>1, <2>2
  <2>3. CASE ~EnsureAccount
    BY <2>1, <2>3, AccountsKept DEF Dated
  <2>. QED  BY <2>2, <2>3
<1>. QED
  BY <1>1, <1>2, <1>3, <1>4, <1>5, <1>6 DEF Keying

\* Faults are counted up.
LEMMA FaultsMonotone ==
  ASSUME SmokeTypeOK, SmokeNext
  PROVE  /\ faults \in Nat /\ faults' \in Nat /\ faults' >= faults
         /\ CutShort => faults' = faults + 1
<1>1. faults \in Nat
  BY DEF SmokeTypeOK
<1>2. faults' = faults \/ faults' = faults + 1
  BY DEF SmokeNext, Fault, Begin, CutShort, Exhausted, BuildBranch, EnsureAccount, PublishId,
    EnsureUser, Resolve, Membership, SetMember, EnsureGrantGroup, JoinGrantGroup, BindGrant,
    DeleteGrantGroup, Grant, OnlyAuthz, BindRefused, Report, EnsureKeys, WriteRequest,
    WriteName, RevokeRecorded, Revoke, RevokeFails, Attempt, WritePem, WriteId, WriteOutcome,
    Matrix, DropGroups, DropResources, DropAccounts, DropUsers, DropFile, DirectoryGone
<1>3. CutShort => faults' = faults + 1
  BY DEF CutShort, Fault
<1>. QED  BY <1>1, <1>2, <1>3

\* A step that touches neither the probe's files nor the fault count comes to
\* no step of smoke-keys, and to the experiment from nowhere else.
LEMMA KeySteps ==
  ASSUME SmokeTypeOK, SmokeNext, ~Keying, ~CutShort
  PROVE  /\ smoke.at \notin {"request", "name"} /\ smoke'.at \notin {"request", "name"}
         /\ smoke'.at \in Experiment \cup {"matrix"} => smoke.at \in Experiment
         /\ AtStep("directory") => DirectoryGone
<1>. USE DEF Experiment, AtStep, To, Hop
<1>1. CASE Begin
  BY <1>1, Begins DEF Ended
<1>2. CASE Exhausted
  BY <1>2, FailHops
<1>3. CASE BuildBranch \/ EnsureUser
  BY <1>3, TreeHops
<1>4. CASE Resolve \/ BindRefused \/ Report
  BY <1>4, AuthzHops
<1>5. CASE Deciding
  BY <1>5, AuthzHops DEF AuthzSteps
<1>6. CASE WritePem \/ WriteId \/ WriteOutcome \/ Matrix
  BY <1>6, ExperimentHops
<1>7. CASE RevokeRecorded
  BY <1>7, RevokeHops
<1>8. CASE Attempt
  BY <1>8, Attempts
<1>9. CASE DropGroups \/ DropResources \/ DropUsers \/ DirectoryGone
  BY <1>9, TeardownHops
<1>. QED
  BY <1>1, <1>2, <1>3, <1>4, <1>5, <1>6, <1>7, <1>8, <1>9 DEF SmokeNext, Deciding, Keying

\* The probe's key and request come apart only by the faults that Halves counts.
LEMMA HalvesNext ==
  ASSUME SmokeTypeOK, Dated, Halves, SmokeNext
  PROVE  Halves'
<1>. FilesTyped /\ CountsTyped /\ faults \in Nat /\ faults' \in Nat /\ faults' >= faults
  BY TypeParts, FaultsMonotone
<1>. USE DEF Halves, RequestNoted, AtStep, To, Hop, Experiment
<1>1. CASE PublishId
  <2>1. UNCHANGED <<key, csr, keyFor, account, faults>> /\ saId' = account
    BY <1>1 DEF PublishId, axiam
  <2>2. smoke.at = "publish" /\ smoke'.at = "user"
    BY <1>1, TreeHops
  <2>3. RequestNoted' => RequestNoted
    BY <2>1 DEF Dated
  <2>. QED  BY <2>1, <2>2, <2>3
<1>2. CASE EnsureKeys
  <2>1. UNCHANGED <<saId, csr, keyFor, faults>> /\ smoke.at = "keys"
    BY <1>2 DEF EnsureKeys
  <2>2. CASE Fail /\ UNCHANGED key
    <3>1. smoke'.at = "idle"
      BY <2>2, GoToGoes DEF Fail, Ended
    <3>. QED  BY <2>1, <2>2, <3>1
  <2>3. CASE saId # Nothing /\ KeysKept /\ GoToStep("revoke") /\ UNCHANGED key
    <3>1. smoke'.at = "revoke"
      BY <2>3, GoToGoes DEF Steps
    <3>. QED  BY <2>1, <2>3, <3>1 DEF KeysKept
  <2>4. CASE /\ saId # Nothing /\ ~KeysKept
             /\ Make("key") /\ key' = Fresh("key") /\ GoToStep("request")
    <3>1. smoke'.at = "request"
      BY <2>4, GoToGoes DEF Steps
    <3>2. key' # Nothing
      BY <2>4, MakeTyped DEF Id
    <3>3. RequestNoted => faults >= 1
      BY <2>1, <2>4 DEF KeysKept
    <3>. QED  BY <2>1, <2>4, <3>1, <3>2, <3>3
  <2>. QED  BY <1>2, <2>2, <2>3, <2>4 DEF EnsureKeys
<1>3. CASE WriteRequest
  BY <1>3, ExperimentHops DEF WriteRequest
<1>4. CASE WriteName
  BY <1>4, ExperimentHops DEF WriteName
<1>5. CASE DropFile
  <2>1. smoke'.at = "directory" /\ UNCHANGED faults
    BY <1>5, TeardownHops DEF DropFile
  <2>2. RequestNoted' /\ key' # Nothing => UNCHANGED <<saId, key, csr, keyFor>>
    BY <1>5 DEF DropFile
  <2>3. smoke.at = "directory"
    BY <1>5 DEF DropFile
  <2>. QED  BY <2>1, <2>2, <2>3
<1>6. CASE EnsureAccount \/ DropAccounts
  <2>1. UNCHANGED <<saId, key, csr, keyFor, faults>>
    BY <1>6 DEF EnsureAccount, DropAccounts, files
  <2>2. smoke.at \in {"account", "accounts"} /\ smoke'.at \in {"publish", "users"}
    BY <1>6, TreeHops, TeardownHops
  <2>. QED  BY <2>1, <2>2
<1>7. CASE ~Keying
  <2>1. UNCHANGED <<saId, key, csr, keyFor>>
    BY <1>7, ProbeKept
  <2>2. CASE CutShort
    <3>1. smoke'.at = "idle" /\ faults' = faults + 1
      BY <2>2, FailHops, FaultsMonotone
    <3>. QED  BY <2>1, <3>1
  <2>3. CASE ~CutShort
    <3>1. /\ smoke.at \notin {"request", "name"} /\ smoke'.at \notin {"request", "name"}
          /\ smoke'.at \in Experiment \cup {"matrix"} => smoke.at \in Experiment
          /\ smoke.at = "directory" => DirectoryGone
      BY <1>7, <2>3, KeySteps
    <3>2. smoke.at = "directory" => csr = Nothing
      <4>1. SUFFICES ASSUME DirectoryGone PROVE csr = Nothing
        BY <3>1
      <4>2. Len(files) = 7 /\ files[3] = csr
        BY DEF files
      <4>. QED  BY <4>1, <4>2 DEF DirectoryGone
    <3>. QED  BY <2>1, <3>1, <3>2
  <2>. QED  BY <2>2, <2>3
<1>. QED
  BY <1>1, <1>2, <1>3, <1>4, <1>5, <1>6, <1>7 DEF Keying

\* The steps of smoke-authz that ask for the peer device.
Asking == EnsureGrantGroup \/ JoinGrantGroup \/ BindGrant \/ DeleteGrantGroup

\* A verdict is got wrong at one of these, and forgotten when a run begins.
LEMMA WrongKept ==
  ASSUME SmokeTypeOK, SmokeNext, ~Asking, ~Begin
  PROVE  smoke'.wrong = smoke.wrong
<1>1. CASE Attempt
  <2>1. PICK answer : Answered(answer)
    BY <1>1 DEF Attempt
  <2>. QED  BY <2>1, RunTyped DEF Answered, SmokeType
<1>2. CASE ~Attempt
  <2>1. smoke' = smoke \/ \E step : GoToStep(step)
    BY <1>2 DEF SmokeNext, Asking, CutShort, Exhausted, Fail, EndPart, BuildBranch,
      EnsureAccount, PublishId, EnsureUser, Resolve, Membership, SetMember, BindRefused,
      Report, EnsureKeys, WriteRequest, WriteName, RevokeRecorded, Revoke, RevokeFails,
      WritePem, WriteId, WriteOutcome, Matrix, DropGroups, DropResources, DropAccounts,
      DropUsers, DropFile, DirectoryGone
  <2>. QED  BY <2>1, RunTyped DEF GoToStep, SmokeType
<1>. QED  BY <1>1, <1>2

\* The steps under which the grant group is there, and the one that makes it.
GrantSteps == {"group", "join", "bind", "ungrant"}

\* What GrantAt says at each of them, and at any other step.
LEMMA Grants ==
  /\ GrantAt("group") = NoGrant
  /\ GrantAt("join") = [group |-> TRUE, member |-> FALSE, bound |-> FALSE]
  /\ GrantAt("bind") = [group |-> TRUE, member |-> TRUE, bound |-> FALSE]
  /\ GrantAt("ungrant") = [group |-> TRUE, member |-> TRUE, bound |-> TRUE]
  /\ \A step : step \notin GrantSteps => GrantAt(step) = NoGrant
BY DEF GrantAt, GrantSteps

\* Only a step of smoke-authz comes to or leaves one of these.
LEMMA GrantsElsewhere ==
  ASSUME SmokeTypeOK, SmokeNext, ~Deciding, ~BindRefused, ~CutShort
  PROVE  smoke.at \notin GrantSteps /\ smoke'.at \notin GrantSteps \cup {"stuck"}
<1>. USE DEF GrantSteps, To, Hop
<1>1. CASE Begin
  BY <1>1, Begins DEF Ended
<1>2. CASE Exhausted
  BY <1>2, FailHops
<1>3. CASE BuildBranch \/ EnsureAccount \/ PublishId \/ EnsureUser
  BY <1>3, TreeHops
<1>4. CASE Resolve \/ Report
  BY <1>4, AuthzHops
<1>5. CASE EnsureKeys \/ WriteRequest \/ WriteName \/ WritePem \/ WriteId \/ WriteOutcome \/ Matrix
  BY <1>5, ExperimentHops
<1>6. CASE RevokeRecorded
  BY <1>6, RevokeHops
<1>7. CASE Attempt
  BY <1>7, Attempts
<1>8. CASE DropGroups \/ DropResources \/ DropAccounts \/ DropUsers \/ DropFile \/ DirectoryGone
  BY <1>8, TeardownHops
<1>. QED
  BY <1>1, <1>2, <1>3, <1>4, <1>5, <1>6, <1>7, <1>8 DEF SmokeNext, Deciding

\* A decision on the peer device is noted as wrong only if it is.
LEMMA DecidesRight ==
  ASSUME SmokeTypeOK, NEW expected, NEW next, Decide(expected, next),
         MayOperatePeer = expected, ~smoke.wrong
  PROVE  smoke'.at = next /\ ~smoke'.wrong
<1>1. smoke' = [smoke EXCEPT !.at = next, !.wrong = @ \/ MayOperatePeer # expected]
  BY DEF Decide
<1>. HIDE DEF MayOperatePeer
<1>2. smoke'.at = next /\ smoke'.wrong = (smoke.wrong \/ MayOperatePeer # expected)
  BY <1>1, RunTyped DEF SmokeType
<1>. QED  BY <1>2

\* Without a fault the cases follow one another as they were written to.
LEMMA FaultlessNext ==
  ASSUME SmokeTypeOK, Faultless, SmokeNext
  PROVE  Faultless'
<1>. SUFFICES ASSUME faults' = 0
              PROVE  /\ ~smoke'.wrong /\ smoke'.at # "stuck" /\ grant' = GrantAt(smoke'.at)
                     /\ smoke'.at \in GrantSteps => ~member'
  BY DEF Faultless, AtStep, GrantAt, GrantSteps
<1>1. /\ ~CutShort /\ ~smoke.wrong /\ smoke.at # "stuck" /\ grant = GrantAt(smoke.at)
      /\ smoke.at \in GrantSteps => ~member
  BY FaultsMonotone DEF Faultless, AtStep, GrantSteps
<1>2. CASE Membership
  <2>1. /\ smoke.at \notin GrantSteps /\ UNCHANGED grant
        /\ \E step \in {"add1", "remove2", "add2", "remove3", "group"} :
             GoToStep(step) /\ (step = "group" => ~member')
    BY <1>2 DEF Membership, SetMember, AtStep, GrantSteps
  <2>2. /\ smoke'.at \in {"add1", "remove2", "add2", "remove3", "group"}
        /\ smoke'.at = "group" => ~member'
    BY <2>1, RunTyped DEF GoToStep, SmokeType
  <2>3. smoke'.wrong = smoke.wrong
    BY <1>2, RunTyped DEF Membership, SetMember, GoToStep, SmokeType
  <2>4. grant' = NoGrant /\ GrantAt(smoke'.at) = NoGrant
    BY <1>1, <2>1, <2>2, Grants DEF GrantSteps
  <2>. QED  BY <1>1, <2>2, <2>3, <2>4 DEF GrantSteps
<1>3. CASE EnsureGrantGroup
  <2>1. smoke.at = "group" /\ grant = NoGrant /\ ~member
    BY <1>1, <1>3, Grants DEF EnsureGrantGroup, Grant, AtStep, GrantSteps
  <2>2. /\ grant' = [grant EXCEPT !.group = TRUE] /\ UNCHANGED member
        /\ Decide(FALSE, "join")
    BY <1>3 DEF EnsureGrantGroup, Grant
  <2>3. grant' = [group |-> TRUE, member |-> FALSE, bound |-> FALSE]
    BY <2>1, <2>2 DEF NoGrant
  <2>4. MayOperatePeer = FALSE
    BY <2>1, <2>3 DEF MayOperatePeer
  <2>5. smoke'.at = "join" /\ ~smoke'.wrong
    BY <1>1, <2>2, <2>4, DecidesRight
  <2>. QED  BY <2>1, <2>2, <2>3, <2>5, Grants
<1>4. CASE JoinGrantGroup
  <2>1. /\ smoke.at = "join" /\ ~member
        /\ grant = [group |-> TRUE, member |-> FALSE, bound |-> FALSE]
    BY <1>1, <1>4, Grants DEF JoinGrantGroup, Grant, AtStep, GrantSteps
  <2>2. /\ grant' = [grant EXCEPT !.member = TRUE] /\ UNCHANGED member
        /\ Decide(FALSE, "bind")
    BY <1>4 DEF JoinGrantGroup, Grant
  <2>3. grant' = [group |-> TRUE, member |-> TRUE, bound |-> FALSE]
    BY <2>1, <2>2
  <2>4. MayOperatePeer = FALSE
    BY <2>1, <2>3 DEF MayOperatePeer
  <2>5. smoke'.at = "bind" /\ ~smoke'.wrong
    BY <1>1, <2>2, <2>4, DecidesRight
  <2>. QED  BY <2>1, <2>2, <2>3, <2>5, Grants
<1>5. CASE BindGrant
  <2>1. /\ smoke.at = "bind" /\ ~member
        /\ grant = [group |-> TRUE, member |-> TRUE, bound |-> FALSE]
    BY <1>1, <1>5, Grants DEF BindGrant, Grant, AtStep, GrantSteps
  <2>2. /\ grant' = [grant EXCEPT !.bound = TRUE] /\ UNCHANGED member
        /\ Decide(TRUE, "ungrant")
    BY <1>5 DEF BindGrant, Grant
  <2>3. grant' = [group |-> TRUE, member |-> TRUE, bound |-> TRUE]
    BY <2>1, <2>2
  <2>4. MayOperatePeer = TRUE
    BY <2>1, <2>3, <2>2 DEF MayOperatePeer, SmokeTypeOK
  <2>5. smoke'.at = "ungrant" /\ ~smoke'.wrong
    BY <1>1, <2>2, <2>4, DecidesRight
  <2>. QED  BY <2>1, <2>2, <2>3, <2>5, Grants
<1>6. CASE DeleteGrantGroup
  <2>1. smoke.at = "ungrant" /\ ~member
    BY <1>1, <1>6 DEF DeleteGrantGroup, Grant, AtStep, GrantSteps
  <2>2. grant' = NoGrant /\ UNCHANGED member /\ Decide(FALSE, "report")
    BY <1>6 DEF DeleteGrantGroup, Grant
  <2>3. MayOperatePeer = FALSE
    BY <2>1, <2>2 DEF MayOperatePeer, NoGrant
  <2>4. smoke'.at = "report" /\ ~smoke'.wrong
    BY <1>1, <2>2, <2>3, DecidesRight
  <2>. QED  BY <2>2, <2>4, Grants DEF GrantSteps
<1>7. CASE BindRefused
  BY <1>1, <1>7, Grants DEF BindRefused, AtStep
<1>8. CASE ~Deciding /\ ~BindRefused
  <2>1. smoke.at \notin GrantSteps /\ smoke'.at \notin GrantSteps \cup {"stuck"}
    BY <1>1, <1>8, GrantsElsewhere
  <2>2. ~smoke'.wrong
    BY <1>1, <1>8, WrongKept, Begins DEF Deciding, Asking
  <2>3. grant' \in {grant, NoGrant}
    BY <1>8 DEF SmokeNext, Deciding, Begin, CutShort, Exhausted, BuildBranch, EnsureAccount,
      PublishId, EnsureUser, Resolve, Report, EnsureKeys, WriteRequest, WriteName,
      RevokeRecorded, Revoke, RevokeFails, Attempt, WritePem, WriteId, WriteOutcome, Matrix,
      DropGroups, DropResources, DropAccounts, DropUsers, DropFile, DirectoryGone, axiam
  <2>. QED  BY <1>1, <2>1, <2>2, <2>3, Grants
<1>. QED
  BY <1>2, <1>3, <1>4, <1>5, <1>6, <1>7, <1>8 DEF Deciding

-----------------------------------------------------------------------------
\* The steps of a teardown past the forged leaf.
Dropping == DropGroups \/ DropResources \/ DropAccounts \/ DropUsers \/ DropFile
            \/ DirectoryGone

\* Only a teardown gets past its first step, and to its end.
LEMMA Elsewhere ==
  ASSUME SmokeTypeOK, InPart, SmokeNext, ~Dropping, ~RevokeRecorded
  PROVE  smoke'.at \notin TeardownSteps \ {"unforge"} /\ ~TornDown'
<1>. USE DEF InPart, TreeSteps, AuthzSteps, Experiment, TeardownSteps, TornDown, AtStep, To, Hop
<1>1. CASE Begin
  BY <1>1, Begins
<1>2. CASE CutShort \/ Exhausted
  BY <1>2, FailHops
<1>3. CASE BuildBranch \/ EnsureAccount \/ PublishId \/ EnsureUser
  BY <1>3, TreeHops
<1>4. CASE Resolve \/ BindRefused \/ Report
  BY <1>4, AuthzHops
<1>5. CASE Deciding
  BY <1>5, AuthzHops
<1>6. CASE EnsureKeys \/ WriteRequest \/ WriteName \/ WritePem \/ WriteId \/ WriteOutcome \/ Matrix
  BY <1>6, ExperimentHops
<1>7. CASE Attempt
  BY <1>7, Attempts
<1>. QED
  BY <1>1, <1>2, <1>3, <1>4, <1>5, <1>6, <1>7 DEF SmokeNext, Deciding, Dropping

\* Nothing a teardown is past of comes back under it.
LEMMA GoneNext ==
  ASSUME SmokeTypeOK, InPart, Gone, SmokeNext
  PROVE  Gone'
<1>. USE DEF Gone, TornDown, AtStep, To, Hop
<1>1. CASE ~Dropping /\ ~RevokeRecorded
  BY <1>1, Elsewhere DEF TeardownSteps
<1>2. CASE RevokeRecorded
  BY <1>2, RevokeHops
<1>3. CASE DropGroups
  BY <1>3, TeardownHops DEF DropGroups
<1>4. CASE DropResources
  <2>1. branch' = {}
    BY <1>4 DEF DropResources, SmokeTypeOK, Whole
  <2>. QED  BY <1>4, <2>1, TeardownHops DEF DropResources
<1>5. CASE DropAccounts
  BY <1>5, TeardownHops DEF DropAccounts
<1>6. CASE DropUsers
  BY <1>6, TeardownHops DEF DropUsers
<1>7. CASE DropFile
  BY <1>7, TeardownHops DEF DropFile, axiam
<1>8. CASE DirectoryGone
  <2>1. UNCHANGED <<branch, account, user, member, grant>> /\ files' = files
    BY <1>8 DEF DirectoryGone, axiam
  <2>2. \A k \in 1..Len(files) : files[k] = Nothing
    BY <1>8 DEF DirectoryGone
  <2>. QED  BY <1>8, <2>1, <2>2, TeardownHops
<1>. QED
  BY <1>1, <1>2, <1>3, <1>4, <1>5, <1>6, <1>7, <1>8 DEF Dropping

-----------------------------------------------------------------------------
\* There are at most n of them.
Few(set, n) == IsFiniteSet(set) /\ Cardinality(set) <= n

\* A part of few is few.
LEMMA FewOf ==
  ASSUME NEW n \in Nat, NEW big, Few(big, n), NEW small \in SUBSET big
  PROVE  Few(small, n)
<1>1. IsFiniteSet(small) /\ Cardinality(small) <= Cardinality(big)
  BY FS_Subset DEF Few
<1>2. Cardinality(small) \in Nat /\ Cardinality(big) \in Nat
  BY <1>1, FS_CardinalityType DEF Few
<1>. QED  BY <1>1, <1>2 DEF Few

\* With one more, they are one more at most.
LEMMA FewMore ==
  ASSUME NEW n \in Nat, NEW set, NEW x, Few(set, n)
  PROVE  Few(set \cup {x}, n + 1)
<1>1. /\ IsFiniteSet(set \cup {x})
      /\ Cardinality(set \cup {x}) = IF x \in set THEN Cardinality(set) ELSE Cardinality(set) + 1
  BY FS_AddElement DEF Few
<1>2. Cardinality(set) \in Nat
  BY FS_CardinalityType DEF Few
<1>. QED  BY <1>1, <1>2 DEF Few

\* The forged leaves are one more than the faults at most, and how many of them
\* are owed to faults at each step.
LEMMA FewForged ==
  ASSUME SmokeTypeOK, Owed
  PROVE  /\ faults \in Nat
         /\ Few(forged, faults + 1)
         /\ smoke.at \in {"pem", "id"} => Few(forged \ {made["forged"]}, faults)
         /\ smoke.at \notin {"pem", "id"} => Few(forged \ {forgedId}, faults)
         /\ smoke.at \in {"attempt"} \cup (TeardownSteps \ {"unforge"}) \/ TornDown
            => Few(forged, faults)
<1>1. faults \in Nat
  BY DEF SmokeTypeOK
<1>2. \A set \in SUBSET forged : IsFiniteSet(set)
  <2>1. IsFiniteSet(Id)
    BY FS_Interval DEF Id
  <2>. QED  BY <2>1, FS_Subset DEF SmokeTypeOK
<1>3. \A x : Few(forged \ {x}, faults) => Few(forged, faults + 1)
  <2>1. ASSUME NEW x, Few(forged \ {x}, faults)
        PROVE  Few(forged, faults + 1)
    <3>1. Few((forged \ {x}) \cup {x}, faults + 1)
      BY <1>1, <2>1, FewMore
    <3>2. forged \in SUBSET ((forged \ {x}) \cup {x}) /\ faults + 1 \in Nat
      BY <1>1
    <3>. QED  BY <3>1, <3>2, FewOf
  <2>. QED  BY <2>1
<1>4. smoke.at \in {"pem", "id"} => Few(forged \ {made["forged"]}, faults)
  BY <1>2 DEF Owed, Few
<1>5. smoke.at \notin {"pem", "id"} => Few(forged \ {forgedId}, faults)
  BY <1>2 DEF Owed, Few
<1>6. smoke.at \in {"attempt"} \cup (TeardownSteps \ {"unforge"}) \/ TornDown => Few(forged, faults)
  BY <1>2 DEF Owed, Few
<1>. QED  BY <1>1, <1>3, <1>4, <1>5, <1>6

\* With no more of them than faults, all is accounted for wherever a run is but
\* between the certificate and its id.
LEMMA OwedWhenFew ==
  ASSUME SmokeTypeOK', smoke'.at \notin {"pem", "id"}, Few(forged', faults')
  PROVE  Owed'
<1>1. faults' \in Nat
  BY DEF SmokeTypeOK
<1>2. Few(forged' \ {forgedId'}, faults')
  BY <1>1, FewOf
<1>. QED  BY <1>2 DEF Owed, Few

\* Each forged leaf that is left out of hand costs a fault.
LEMMA OwedNext ==
  ASSUME SmokeTypeOK, SmokeTypeOK', InPart, Owed, SmokeNext
  PROVE  Owed'
<1>. /\ faults \in Nat /\ faults + 1 \in Nat
     /\ Few(forged, faults + 1)
  BY FewForged
<1>1. CASE CutShort
  <2>1. forged' = forged /\ faults' = faults + 1
    BY <1>1 DEF CutShort, Fault, axiam
  <2>2. smoke'.at = "idle"
    BY <1>1, FailHops DEF To
  <2>. QED  BY <2>1, <2>2, OwedWhenFew
<1>2. CASE ~CutShort /\ ~Attempt /\ ~WritePem /\ ~WriteId /\ ~RevokeRecorded /\ ~Dropping
  <2>1. UNCHANGED <<forged, forgedId, faults>>
    BY <1>2 DEF SmokeNext, Begin, Exhausted, BuildBranch, EnsureAccount, PublishId, EnsureUser,
      Resolve, Membership, SetMember, EnsureGrantGroup, JoinGrantGroup, BindGrant,
      DeleteGrantGroup, Grant, OnlyAuthz, BindRefused, Report, EnsureKeys, WriteRequest,
      WriteName, WriteOutcome, Matrix,
      Dropping, axiam, files
  <2>2. smoke.at \notin {"pem", "id"} /\ smoke'.at \notin {"pem", "id", "attempt"}
    <3>. USE DEF To, Hop, Ended
    <3>1. CASE Begin
      BY <3>1, Begins
    <3>2. CASE Exhausted
      BY <3>2, FailHops
    <3>3. CASE BuildBranch \/ EnsureAccount \/ PublishId \/ EnsureUser
      BY <3>3, TreeHops
    <3>4. CASE Resolve \/ BindRefused \/ Report
      BY <3>4, AuthzHops
    <3>5. CASE Deciding
      BY <3>5, AuthzHops DEF AuthzSteps
    <3>6. CASE EnsureKeys \/ WriteRequest \/ WriteName \/ WriteOutcome \/ Matrix
      BY <3>6, ExperimentHops
    <3>. QED
      BY <1>2, <3>1, <3>2, <3>3, <3>4, <3>5, <3>6 DEF SmokeNext, Deciding, Dropping
  <2>3. smoke'.at \notin TeardownSteps \ {"unforge"} /\ ~TornDown'
    BY <1>2, Elsewhere
  <2>. QED  BY <2>1, <2>2, <2>3 DEF Owed
<1>3. CASE WritePem
  <2>1. smoke.at = "pem" /\ smoke'.at = "id"
    BY <1>3, ExperimentHops DEF Hop, To
  <2>2. UNCHANGED <<forged, made, faults>>
    BY <1>3 DEF WritePem, axiam
  <2>. QED  BY <2>1, <2>2 DEF Owed, TornDown, AtStep, TeardownSteps
<1>4. CASE WriteId
  <2>1. smoke.at = "id" /\ smoke'.at = "outcome"
    BY <1>4, ExperimentHops DEF Hop, To
  <2>2. UNCHANGED <<forged, faults>> /\ forgedId' = made["forged"]
    BY <1>4 DEF WriteId, axiam
  <2>. QED  BY <2>1, <2>2 DEF Owed, TornDown, AtStep, TeardownSteps
<1>5. CASE RevokeRecorded
  <2>1. /\ smoke.at \notin {"pem", "id"} /\ smoke'.at \notin {"pem", "id"}
    BY <1>5, RevokeHops DEF Hop, To
  <2>2. Few(forged \ {forgedId}, faults)
    BY <2>1, FewForged
  <2>3. \/ forged' = forged \ {forgedId} /\ faults' = faults
        \/ forged' = forged /\ faults' = faults + 1
    BY <1>5 DEF RevokeRecorded, Revoke, RevokeFails, Fault, axiam
  <2>. QED  BY <2>1, <2>2, <2>3, OwedWhenFew
<1>6. CASE Attempt
  <2>1. Few(forged, faults)
    BY <1>6, Attempts, FewForged
  <2>2. CASE Forge /\ Answered("accepted") /\ UNCHANGED faults
    <3>1. made'["forged"] = Fresh("forged") /\ Fresh("forged") \in Id
      BY <2>2, TypeParts, MakeTyped DEF Forge
    <3>2. forged' \ {made'["forged"]} \in SUBSET forged
      BY <2>2, <3>1 DEF Forge
    <3>3. Few(forged' \ {made'["forged"]}, faults')
      BY <2>1, <2>2, <3>2, FewOf
    <3>4. smoke'.at = "pem"
      BY <2>2, RunTyped DEF Answered, SmokeType
    <3>. QED  BY <3>1, <3>3, <3>4 DEF Owed, Few, TornDown, AtStep, TeardownSteps
  <2>3. CASE Answered("refused") /\ UNCHANGED <<forged, faults>>
    <3>1. smoke'.at = "outcome"
      BY <2>3, RunTyped DEF Answered, SmokeType
    <3>. QED  BY <2>1, <2>3, <3>1, OwedWhenFew
  <2>4. CASE Fault /\ Answered("lost") /\ (forged' = forged \/ Forge)
    <3>1. smoke'.at = "outcome"
      BY <2>4, RunTyped DEF Answered, SmokeType
    <3>2. faults' = faults + 1
      BY <2>4 DEF Fault
    <3>3. forged' \in SUBSET (forged \cup {Fresh("forged")})
      BY <2>4 DEF Forge
    <3>4. Few(forged', faults')
      BY <2>1, <3>2, <3>3, FewMore, FewOf
    <3>. QED  BY <3>1, <3>4, OwedWhenFew
  <2>. QED  BY <1>6, <2>2, <2>3, <2>4 DEF Attempt
<1>7. CASE Dropping
  <2>1. smoke.at \in TeardownSteps \ {"unforge"} /\ smoke'.at \notin {"pem", "id"}
    BY <1>7, TeardownHops DEF Dropping, Hop, To, TeardownSteps
  <2>2. UNCHANGED <<forged, faults>>
    BY <1>7 DEF Dropping, DropGroups, DropResources, DropAccounts, DropUsers, DropFile,
      DirectoryGone, axiam
  <2>3. Few(forged, faults)
    BY <2>1, FewForged
  <2>. QED  BY <2>1, <2>2, <2>3, OwedWhenFew
<1>. QED
  BY <1>1, <1>2, <1>3, <1>4, <1>5, <1>6, <1>7

-----------------------------------------------------------------------------
\* The invariant holds at first.
LEMMA SmokeInvInit == ASSUME SmokeInit PROVE SmokeInv
<1>1. SmokeTypeOK
  BY TypeInit
<1>2. Cardinality(forged) = 0 /\ Cardinality(forged \ {forgedId}) = 0
  <2>1. forged = {} /\ forged \ {forgedId} = {}
    BY DEF SmokeInit
  <2>. QED  BY <2>1, FS_EmptySet
<1>3. Owed
  BY <1>2 DEF SmokeInit, Owed, TornDown, AtStep, TeardownSteps
<1>4. InPart /\ Gone
  BY DEF SmokeInit, InPart, Gone, TornDown, AtStep, TreeSteps, AuthzSteps, Experiment,
    TeardownSteps
<1>5. AnswerTrue /\ Recorded /\ Paired
  BY DEF SmokeInit, AnswerTrue, Recorded, Paired, AtStep, Experiment
<1>6. Dated /\ Halves
  BY DEF SmokeInit, Dated, Halves, RequestNoted, AtStep, Experiment
<1>7. Faultless
  BY DEF SmokeInit, Faultless, GrantAt, AtStep
<1>. QED  BY <1>1, <1>3, <1>4, <1>5, <1>6, <1>7 DEF SmokeInv

\* And every step keeps it.
LEMMA SmokeInvNext == ASSUME SmokeInv, [SmokeNext]_smokeVars PROVE SmokeInv'
<1>1. CASE SmokeNext
  <2>. /\ SmokeTypeOK /\ InPart /\ AnswerTrue /\ Recorded /\ Paired /\ Owed /\ Gone
       /\ Dated /\ Halves /\ Faultless
    BY DEF SmokeInv
  <2>1. SmokeTypeOK'
    BY <1>1, TypeNext
  <2>2. (InPart /\ AnswerTrue /\ Recorded /\ Paired)'
    BY <1>1, InPartNext, AnswerTrueNext, RecordedNext, PairedNext
  <2>3. (Owed /\ Gone)'
    BY <1>1, <2>1, OwedNext, GoneNext
  <2>4. (Dated /\ Halves /\ Faultless)'
    BY <1>1, DatedNext, HalvesNext, FaultlessNext
  <2>. QED  BY <2>1, <2>2, <2>3, <2>4 DEF SmokeInv
<1>2. CASE UNCHANGED smokeVars
  BY <1>2 DEF smokeVars, axiam, files, SmokeInv, SmokeTypeOK, InPart, AnswerTrue, Recorded,
    AsRead, Paired, Owed, Gone, Dated, Halves, RequestNoted, Faultless, TornDown, AtStep
<1>. QED  BY <1>1, <1>2

\* The invariant of the suite.
LEMMA SmokeInvariant == SmokeSpec => []SmokeInv
<1>1. SmokeInit => SmokeInv
  BY SmokeInvInit
<1>2. SmokeInv /\ [SmokeNext]_smokeVars => SmokeInv'
  BY SmokeInvNext
<1>. QED  BY <1>1, <1>2, PTL DEF SmokeSpec

(***************************************************************************)
(* Every reachable state of the smoke suite is of its type, for any number *)
(* of runs, faults, and accounts, keys and leaves made (SmokeTypeOK).      *)
(***************************************************************************)
THEOREM SmokeTypeCorrect == SmokeSpec => []SmokeTypeOK
<1>1. SmokeInv => SmokeTypeOK
  BY DEF SmokeInv
<1>. QED  BY <1>1, SmokeInvariant, PTL

(***************************************************************************)
(* Until some run is cut short or some call fails, smoke-authz gets every  *)
(* decision it expects and can always bind its grant, whatever runs of the *)
(* suite came before it (support.rs:8-13, assertions.rs:21, 276-418).      *)
(***************************************************************************)
THEOREM VerdictsAccounted == SmokeSpec => []VerdictsOwed
<1>1. SmokeInv => VerdictsOwed
  BY DEF SmokeInv, SmokeTypeOK, Faultless, VerdictsOwed
<1>. QED  BY <1>1, SmokeInvariant, PTL

\* The matrix reads a key, and the one of the request unless two runs were cut.
LEMMA KeyOfRequest ==
  ASSUME SmokeInv, AtStep("matrix")
  PROVE  key # Nothing /\ csr # Nothing /\ (key = csr \/ faults > 1)
<1>1. RequestNoted /\ key # Nothing /\ (key = csr \/ faults >= 2)
  BY DEF SmokeInv, Halves, AtStep
<1>. QED  BY <1>1 DEF SmokeInv, SmokeTypeOK, RequestNoted

(***************************************************************************)
(* However runs are cut short, at most one forged leaf more is left in     *)
(* force than there were faults, and the one the matrix presents is of the *)
(* key it presents it with, unless the experiment got no answer or two     *)
(* runs were cut short (certs.rs:170-172, 228-242, matrix.rs:365-366).     *)
(***************************************************************************)
THEOREM ForgeriesCounted == SmokeSpec => []ForgeriesInHand
<1>1. SmokeInv => ForgeriesInHand
  <2>. SUFFICES ASSUME SmokeInv PROVE ForgeriesInHand
    OBVIOUS
  <2>1. Cardinality(forged) <= 1 + faults
    BY FewForged DEF SmokeInv, Few
  <2>2. ASSUME AtStep("matrix"), pem # Nothing, smoke.answer # "lost"
        PROVE  pem = key \/ faults > 1
    <3>1. pem = csr
      BY <2>2, RunTyped DEF SmokeInv, AtStep, Recorded, Paired, AnswerTrue, SmokeType, Answers
    <3>. QED  BY <2>2, <3>1, KeyOfRequest
  <2>. QED  BY <2>1, <2>2 DEF ForgeriesInHand
<1>. QED  BY <1>1, SmokeInvariant, PTL

(***************************************************************************)
(* A matrix that passes means that AXIAM refused in this run, whatever an  *)
(* earlier one has left on disk, as long as there was an answer            *)
(* (matrix.rs:193-218).                                                    *)
(***************************************************************************)
THEOREM RefusedWhenPassed == SmokeSpec => []PassMeansRefused
<1>1. SmokeInv => PassMeansRefused
  BY DEF SmokeInv, Recorded, AnswerTrue, PassMeansRefused
<1>. QED  BY <1>1, SmokeInvariant, PTL

(***************************************************************************)
(* A teardown that ends well leaves nothing of the suite in AXIAM or on    *)
(* disk, and no forged leaf that is not owed to a fault                    *)
(* (teardown.rs:29-117).                                                   *)
(***************************************************************************)
THEOREM NothingLeft == SmokeSpec => []TeardownComplete
<1>1. SmokeInv => TeardownComplete
  BY DEF SmokeInv, Gone, Owed, TornDown, TeardownComplete
<1>. QED  BY <1>1, SmokeInvariant, PTL

-----------------------------------------------------------------------------
\* What Matrix's stack.forged says of the leaf on disk.
LeafOnDisk == IF pem = Nothing THEN None ELSE IF pem = key THEN "pair" ELSE "stale"

\* What a matrix that is about to read the outcome has before it.
LeftForMatrix ==
  AtStep("matrix") =>
    /\ outcome \in {"accepted", "refused"}
    /\ AsLeft(outcome, LeafOnDisk)
    /\ LeafOnDisk = "stale" => smoke.answer = "lost" \/ faults > 1

(***************************************************************************)
(* What the suite leaves is what Matrix starts from (its Init): the        *)
(* outcome is written, and with an accepted one there is a leaf on disk.   *)
(* And a leaf that is not of the key on disk is there only if this run's   *)
(* experiment got no answer, or two runs were cut short                    *)
(* (certs.rs:205-247, matrix.rs:193-218).                                  *)
(***************************************************************************)
THEOREM MatrixStartsAsLeft == SmokeSpec => []LeftForMatrix
<1>1. SmokeInv => LeftForMatrix
  <2>. SUFFICES ASSUME SmokeInv, AtStep("matrix")
                PROVE  /\ outcome \in {"accepted", "refused"}
                       /\ AsLeft(outcome, LeafOnDisk)
                       /\ LeafOnDisk = "stale" => smoke.answer = "lost" \/ faults > 1
    BY DEF LeftForMatrix
  <2>1. smoke.at = "matrix" /\ smoke.answer \in Answers \ {Nothing}
    BY RunTyped DEF SmokeInv, AtStep, Recorded, SmokeType
  <2>2. outcome = AsRead
    BY DEF SmokeInv, Recorded
  <2>3. CASE smoke.answer = "accepted"
    <3>1. pem = csr
      BY <2>1, <2>3 DEF SmokeInv, Paired
    <3>. QED  BY <2>2, <2>3, <3>1, KeyOfRequest, MatrixAssumption DEF AsRead, LeafOnDisk, AsLeft
  <2>4. CASE smoke.answer = "refused"
    <3>1. pem = Nothing
      BY <2>4 DEF SmokeInv, Paired, AnswerTrue
    <3>. QED  BY <2>2, <2>4, <3>1, MatrixAssumption DEF AsRead, LeafOnDisk, AsLeft
  <2>5. CASE smoke.answer = "lost"
    BY <2>2, <2>5 DEF AsRead, AsLeft
  <2>. QED  BY <2>1, <2>3, <2>4, <2>5 DEF Answers
<1>. QED  BY <1>1, SmokeInvariant, PTL
=============================================================================
