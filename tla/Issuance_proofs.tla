--------------------------- MODULE Issuance_proofs ---------------------------
(***************************************************************************)
(* Proofs about the issuing of one identity's certificate, for either kind *)
(* of identity and any number of keys, accounts, certificates and faults.  *)
(***************************************************************************)
EXTENDS Issuance, SequenceTheorems, FiniteSetTheorems, TLAPS

-----------------------------------------------------------------------------
(***************************************************************************)
(* The inductive invariant, from the account to the file.  From the moment *)
(* a device's account is published the file names the account there is.    *)
(***************************************************************************)
Published ==
  (kind = "device" /\ run.at \in {"key", "request", "name", "list", "sign", "bind", "write", "done"})
    => saId = account

\* What is asked to be signed is there before it is asked for.
RequestReady ==
  /\ run.at \in {"request", "name"} => kind = "device" /\ key # Absent
  /\ run.at = "name" => csr = key
  /\ run.at \in {"list", "sign", "bind", "write", "done"} => Requested # Absent

\* The certificate a run goes on with is one AXIAM has, of the key asked for.
Chose ==
  /\ run.at \in {"bind", "write"} =>
       run.cert \in 1..Len(certs) /\ certs[run.cert].key = Requested
  /\ run.at = "write" => certs[run.cert].bound = Subject

Inv ==
  /\ TypeOK /\ Published /\ RequestReady /\ Chose /\ DoneMeansBound

-----------------------------------------------------------------------------
(***************************************************************************)
(* The certificates are listed oldest first: a new one is the last, and    *)
(* the others keep their places.                                           *)
(***************************************************************************)
LEMMA Appended ==
  ASSUME TypeOK, NEW c \in Cert
  PROVE  /\ Append(certs, c) \in Seq(Cert)
         /\ Len(Append(certs, c)) = Len(certs) + 1
         /\ Append(certs, c)[Len(certs) + 1] = c
         /\ Len(certs) \in Nat
  BY DEF TypeOK

(***************************************************************************)
(* A certificate is bound in its place, and keeps its key.                 *)
(***************************************************************************)
LEMMA Rebound ==
  ASSUME TypeOK, NEW i \in 1..Len(certs), NEW id \in Id
  PROVE  LET after == [certs EXCEPT ![i].bound = id]
         IN  /\ after \in Seq(Cert) /\ Len(after) = Len(certs)
             /\ after[i].bound = id /\ after[i].key = certs[i].key
<1>. DEFINE c == [certs[i] EXCEPT !.bound = id]
            after == [certs EXCEPT ![i] = c]
<1>1. certs \in Seq(Cert) /\ certs[i] \in Cert
  BY DEF TypeOK
<1>2. c \in Cert /\ c.bound = id /\ c.key = certs[i].key
  BY <1>1 DEF Cert
<1>. HIDE DEF c
<1>3. after \in Seq(Cert) /\ Len(after) = Len(certs) /\ after[i] = c
  BY <1>1, <1>2
<1>4. after = [certs EXCEPT ![i].bound = id]
  BY DEF c
<1>. QED  BY <1>2, <1>3, <1>4

(***************************************************************************)
(* A step that changes neither AXIAM nor the files, and ends nowhere on    *)
(* the way, keeps the invariant.                                           *)
(***************************************************************************)
LEMMA Elsewhere ==
  ASSUME Inv, UNCHANGED <<kind, axiam, files>>, made' = made, faults' \in 0..MaxFaults,
         run' \in [at : {"idle", "account", "volume"}] \cup Clearing
  PROVE  Inv'
<1>1. run'.at \in {"idle", "account", "volume", "clear"}
  BY DEF Clearing
<1>2. TypeOK'
  <2>1. run' \in [at : Steps] \cup Chosen \cup Clearing
    BY DEF Steps
  <2>. QED  BY <2>1 DEF Inv, TypeOK, axiam, files
<1>. QED  BY <1>1, <1>2 DEF Inv, Published, RequestReady, Chose, DoneMeansBound, At

(***************************************************************************)
(* The account is found or created (EnsureAccount), and published.         *)
(***************************************************************************)
LEMMA AccountKeeps ==
  ASSUME Inv, EnsureAccount \/ PublishId
  PROVE  Inv'
<1>1. CASE EnsureAccount
  <2>1. /\ UNCHANGED <<kind, certs, files, faults>>
        /\ run' \in [at : {"publish", "key"}] /\ (run'.at = "key" => kind = "service")
    BY <1>1, IssuanceAssumption DEF EnsureAccount, GoTo, Inv, TypeOK
  <2>2. account' \in Id /\ made' \in [{"key", "account"} -> Id]
    BY <1>1, IssuanceAssumption DEF EnsureAccount, Make, Fresh, Inv, TypeOK, Id
  <2>3. TypeOK'
    BY <2>1, <2>2 DEF Inv, TypeOK, files, Steps
  <2>. QED  BY <2>1, <2>3 DEF Inv, Published, RequestReady, Chose, DoneMeansBound, At
<1>2. CASE PublishId
  <2>1. /\ UNCHANGED <<kind, axiam, key, csr, csrFor, leaf, made, faults>>
        /\ run' = [at |-> "key"] /\ saId' = account
    BY <1>2 DEF PublishId, GoTo
  <2>2. TypeOK'
    BY <2>1 DEF Inv, TypeOK, axiam, Steps
  <2>. QED  BY <2>1, <2>2 DEF Inv, axiam, Published, RequestReady, Chose, DoneMeansBound, At
<1>. QED  BY <1>1, <1>2

(***************************************************************************)
(* The key and the request, kept or made (EnsureKey, WriteRequest,         *)
(* WriteName).                                                             *)
(***************************************************************************)
LEMMA RequestKeeps ==
  ASSUME Inv, EnsureKey \/ WriteRequest \/ WriteName
  PROVE  Inv'
<1>. USE DEF Inv
<1>1. CASE EnsureKey
  <2>1. UNCHANGED <<kind, axiam, saId, csr, csrFor, leaf, faults>> /\ run.at = "key"
    BY <1>1 DEF EnsureKey, At
  <2>2. CASE KeyKept
    <3>1. run' = [at |-> "list"] /\ UNCHANGED <<key, made>>
      BY <1>1, <2>2 DEF EnsureKey, GoTo
    <3>2. Requested # Absent /\ Requested' = Requested
      BY <2>1, <2>2, <3>1 DEF KeyKept, Requested
    <3>3. TypeOK'
      BY <2>1, <3>1 DEF TypeOK, axiam, Steps
    <3>. QED  BY <2>1, <3>1, <3>2, <3>3 DEF axiam, Published, RequestReady, Chose, DoneMeansBound, At
  <2>3. CASE ~KeyKept
    <3>1. /\ run' = [at |-> IF kind = "device" THEN "request" ELSE "list"]
          /\ key' = made["key"] + 1 /\ made["key"] < MaxMade
          /\ made' = [made EXCEPT !["key"] = made["key"] + 1]
      BY <1>1, <2>3 DEF EnsureKey, GoTo, Make, Fresh
    <3>2. key' \in Id /\ key' # Absent /\ made' \in [{"key", "account"} -> Id]
      BY <3>1, IssuanceAssumption DEF TypeOK, Id, Absent
    <3>3. TypeOK'
      BY <2>1, <3>1, <3>2 DEF TypeOK, axiam, Steps
    <3>4. kind # "device" => Requested' = key'
      BY <2>1 DEF Requested
    <3>. QED  BY <2>1, <3>1, <3>2, <3>3, <3>4 DEF axiam, Published, RequestReady, Chose,
                                                  DoneMeansBound, At
  <2>. QED  BY <2>2, <2>3
<1>2. CASE WriteRequest
  <2>1. /\ run.at = "request" /\ run' = [at |-> "name"] /\ csr' = key
        /\ UNCHANGED <<kind, axiam, saId, key, csrFor, leaf, made, faults>>
    BY <1>2 DEF WriteRequest, At, GoTo
  <2>2. TypeOK'
    BY <2>1 DEF TypeOK, axiam, Steps
  <2>. QED  BY <2>1, <2>2 DEF axiam, Published, RequestReady, Chose, DoneMeansBound, At
<1>3. CASE WriteName
  <2>1. /\ run.at = "name" /\ run' = [at |-> "list"] /\ csrFor' = saId
        /\ UNCHANGED <<kind, axiam, saId, key, csr, leaf, made, faults>>
    BY <1>3 DEF WriteName, At, GoTo
  <2>2. TypeOK'
    BY <2>1 DEF TypeOK, axiam, Steps
  <2>. QED  BY <2>1, <2>2 DEF axiam, Published, RequestReady, Requested, Chose, DoneMeansBound, At
<1>. QED  BY <1>1, <1>2, <1>3

(***************************************************************************)
(* The certificate, found or signed, and bound (ListCerts, Sign, Bind).    *)
(***************************************************************************)
LEMMA CertKeeps ==
  ASSUME Inv, ListCerts \/ Sign \/ Bind
  PROVE  Inv'
<1>. USE DEF Inv
<1>t. account \in Id /\ Requested \in Id /\ Subject \in Id /\ Absent \in Id
  BY IssuanceAssumption DEF TypeOK, Requested, Subject, Id, Absent
<1>1. CASE ListCerts
  <2>1. UNCHANGED <<kind, axiam, files, made, faults>> /\ run.at = "list"
    BY <1>1 DEF ListCerts, At
  <2>2. Requested' = Requested /\ Subject' = Subject /\ BoundTo(Subject)' = BoundTo(Subject)
    BY <2>1 DEF axiam, files, Requested, Subject, BoundTo
  <2>3. CASE Reusable = {} /\ run' = [at |-> "sign"]
    <3>2. TypeOK'
      BY <2>1, <2>3 DEF TypeOK, axiam, files, Steps
    <3>. QED  BY <2>1, <2>2, <2>3, <3>2 DEF axiam, files, Published, RequestReady, Chose,
                                                  DoneMeansBound, At
  <2>4. ASSUME NEW i \in Reusable, run' = [at |-> "write", cert |-> i] PROVE Inv'
    <3>1. i \in 1..Len(certs) /\ certs[i].bound = Subject /\ certs[i].key = Requested
      BY DEF Reusable, BoundTo
    <3>2. run' \in Chosen
      BY <2>4, <3>1, IssuanceAssumption DEF TypeOK, Chosen
    <3>3. TypeOK'
      BY <2>1, <3>2 DEF TypeOK, axiam, files
    <3>. QED  BY <2>1, <2>2, <2>4, <3>1, <3>3 DEF axiam, files, Published, RequestReady, Chose,
                                                  DoneMeansBound, At
  <2>. QED  BY <1>1, <2>3, <2>4 DEF ListCerts, GoTo
<1>2. CASE Sign
  <2>. DEFINE c == [key |-> Requested, bound |-> Absent]
  <2>1. /\ UNCHANGED <<kind, account, files, made, faults>> /\ run.at = "sign"
        /\ Len(certs) < MaxCerts /\ certs' = Append(certs, c)
        /\ run' = [at |-> "bind", cert |-> Len(certs) + 1]
    BY <1>2 DEF Sign, At
  <2>2. c \in Cert /\ c.key = Requested
    BY <1>t DEF Cert
  <2>. HIDE DEF c
  <2>3. certs' \in Seq(Cert) /\ Len(certs') = Len(certs) + 1 /\ Len(certs) \in Nat
    BY <2>1, <2>2, Appended
  <2>4. certs'[Len(certs) + 1].key = Requested
    BY <2>1, <2>2, Appended
  <2>5. run' \in Chosen /\ Len(certs') <= MaxCerts /\ run'.cert \in 1..Len(certs')
    BY <2>1, <2>3, IssuanceAssumption DEF Chosen
  <2>6. Requested' = Requested
    BY <2>1 DEF files, Requested
  <2>7. TypeOK'
    BY <2>1, <2>3, <2>5 DEF TypeOK, files
  <2>. QED  BY <2>1, <2>4, <2>5, <2>6, <2>7 DEF files, Published, RequestReady, Chose,
                                                DoneMeansBound, At
<1>3. CASE Bind
  <2>1. /\ UNCHANGED <<kind, account, files, made, faults>> /\ run.at = "bind"
        /\ certs' = [certs EXCEPT ![run.cert].bound = Subject]
        /\ run' = [at |-> "write", cert |-> run.cert]
    BY <1>3 DEF Bind, At
  <2>2. run.cert \in 1..Len(certs) /\ certs[run.cert].key = Requested
    BY <2>1 DEF Chose
  <2>3. /\ certs' \in Seq(Cert) /\ Len(certs') = Len(certs)
        /\ certs'[run.cert].bound = Subject /\ certs'[run.cert].key = Requested
    BY <1>t, <2>1, <2>2, Rebound
  <2>4. run' \in Chosen
    BY <2>1, <2>2, IssuanceAssumption DEF TypeOK, Chosen
  <2>5. Requested' = Requested /\ Subject' = Subject
    BY <2>1 DEF files, Requested, Subject
  <2>6. TypeOK'
    BY <2>1, <2>3, <2>4 DEF TypeOK, files
  <2>. QED  BY <2>1, <2>2, <2>3, <2>5, <2>6 DEF files, Published, RequestReady, Chose,
                                                DoneMeansBound, At
<1>. QED  BY <1>1, <1>2, <1>3

(***************************************************************************)
(* The file: what is written is what was asked for, bound to the account   *)
(* (WriteLeaf).                                                            *)
(***************************************************************************)
LEMMA LeafKeeps ==
  ASSUME Inv, WriteLeaf
  PROVE  Inv'
<1>. USE DEF Inv
<1>1. /\ run.at = "write" /\ run' = [at |-> "done"] /\ leaf' = certs[run.cert].key
      /\ UNCHANGED <<kind, axiam, saId, key, csr, csrFor, made, faults>>
  BY DEF WriteLeaf, At, GoTo
<1>2. /\ run.cert \in 1..Len(certs) /\ certs[run.cert].key = Requested
      /\ certs[run.cert].bound = Subject /\ Requested # Absent /\ Subject = account
  BY <1>1 DEF Chose, RequestReady, Published, Subject
<1>3. leaf' \in Id
  BY <1>1, <1>2 DEF TypeOK, Requested
<1>4. TypeOK'
  BY <1>1, <1>3 DEF TypeOK, axiam, Steps
<1>5. Requested' = Requested /\ BoundTo(account)' = BoundTo(account)
  BY <1>1 DEF axiam, Requested, BoundTo
<1>6. run.cert \in BoundTo(account)
  BY <1>2 DEF BoundTo
<1>7. DoneMeansBound'
  BY <1>1, <1>2, <1>5, <1>6 DEF axiam, DoneMeansBound
<1>. QED  BY <1>1, <1>2, <1>4, <1>5, <1>7 DEF axiam, Published, RequestReady, Chose, At

(***************************************************************************)
(* The reset, with AXIAM's volume or without it, and file by file.         *)
(***************************************************************************)
LEMMA ResetKeeps ==
  ASSUME Inv,
         \/ RemoveVolume \/ KeepVolume
         \/ \E file \in {"saId", "key", "csr", "csrFor", "leaf"} : ClearFile(file)
  PROVE  Inv'
<1>. USE DEF Inv
<1>d. Directory \in Clearing /\ Directory.at = "clear"
  BY DEF Directory, Clearing
<1>1. CASE RemoveVolume
  <2>1. /\ UNCHANGED <<kind, files, made, faults>> /\ run' = Directory
        /\ account' = Absent /\ certs' = << >>
    BY <1>1 DEF RemoveVolume
  <2>2. TypeOK'
    BY <1>d, <2>1, IssuanceAssumption DEF TypeOK, files, Absent, Id
  <2>. QED  BY <1>d, <2>1, <2>2 DEF Published, RequestReady, Chose, DoneMeansBound, At
<1>2. CASE KeepVolume
  BY <1>2, <1>d, IssuanceAssumption, Elsewhere DEF KeepVolume, Fault, TypeOK
<1>3. ASSUME NEW file \in {"saId", "key", "csr", "csrFor", "leaf"}, ClearFile(file) PROVE Inv'
  <2>1. /\ UNCHANGED <<kind, axiam, made, faults>> /\ run.at = "clear"
        /\ run' = IF run.left = {file} THEN [at |-> "idle"]
                   ELSE [run EXCEPT !.left = run.left \ {file}]
    BY <1>3 DEF ClearFile, At
  <2>2. /\ saId' \in Id /\ key' \in Id /\ csr' \in Id /\ csrFor' \in Id /\ leaf' \in Id
    BY <1>3, IssuanceAssumption DEF ClearFile, Without, TypeOK, Id, Absent
  <2>3. run \in Clearing
    BY <2>1 DEF TypeOK, Steps, Chosen
  <2>4. run' \in [at : Steps] \cup Clearing /\ run'.at \in {"idle", "clear"}
    BY <2>1, <2>3 DEF Clearing, Steps
  <2>5. TypeOK'
    BY <2>1, <2>2, <2>4 DEF TypeOK, axiam
  <2>. QED  BY <2>4, <2>5 DEF Published, RequestReady, Chose, DoneMeansBound, At
<1>. QED  BY <1>1, <1>2, <1>3

-----------------------------------------------------------------------------
(***************************************************************************)
(* The invariant holds before anything was made.                           *)
(***************************************************************************)
LEMMA InvInit == Init => Inv
<1>. SUFFICES ASSUME Init PROVE Inv
  OBVIOUS
<1>1. TypeOK
  BY IssuanceAssumption DEF Init, TypeOK, Id, Absent, Steps
<1>. QED  BY <1>1 DEF Init, Inv, Published, RequestReady, Chose, DoneMeansBound, At

(***************************************************************************)
(* Every step of Next keeps it, the reset's and the interruptions too.     *)
(***************************************************************************)
LEMMA InvNext == Inv /\ [Next]_vars => Inv'
<1>. SUFFICES ASSUME Inv, [Next]_vars PROVE Inv'
  OBVIOUS
<1>f. faults \in 0..MaxFaults /\ MaxFaults \in Nat
  BY IssuanceAssumption DEF Inv, TypeOK
<1>1. CASE Begin \/ BeginReset \/ Exhausted
  BY <1>1, <1>f, Elsewhere DEF Begin, BeginReset, Exhausted, GoTo
<1>2. CASE CutShort
  BY <1>2, <1>f, Elsewhere DEF CutShort, Fault, GoTo
<1>3. CASE UNCHANGED vars
  BY <1>3 DEF vars, axiam, files, Inv, TypeOK, Published, RequestReady, Requested, Chose, Subject,
              BoundTo, DoneMeansBound, At
<1>. QED  BY <1>1, <1>2, <1>3, AccountKeeps, RequestKeeps, CertKeeps, LeafKeeps, ResetKeeps DEF Next

(***************************************************************************)
(* It holds in every state a run or a reset can leave.                     *)
(***************************************************************************)
LEMMA Invariant == Spec => []Inv
  BY InvInit, InvNext, PTL DEF Spec

-----------------------------------------------------------------------------
(***************************************************************************)
(* Type correctness, for either kind of identity and whatever the bounds.  *)
(***************************************************************************)
THEOREM TypeCorrect == Spec => []TypeOK
<1>1. Inv => TypeOK
  BY DEF Inv
<1>. QED  BY <1>1, Invariant, PTL

(***************************************************************************)
(* However earlier runs and resets were cut short, issuing that ends well  *)
(* leaves a certificate on disk that belongs to the request and is bound   *)
(* to the account AXIAM has (service_certs.rs ensure, device_identity.rs   *)
(* sign).                                                                  *)
(***************************************************************************)
THEOREM BoundWhenDone == Spec => []DoneMeansBound
<1>1. Inv => DoneMeansBound
  BY DEF Inv
<1>. QED  BY <1>1, Invariant, PTL

-----------------------------------------------------------------------------
(***************************************************************************)
(* Where the certificates come from.  AXIAM binds to the one account there *)
(* is; the certificate a run is about to bind is bound to nothing yet; and *)
(* a service's key is sent to be signed only if no bound certificate has   *)
(* it.                                                                     *)
(***************************************************************************)
Underway == {"publish", "key", "request", "name", "list", "sign", "bind", "write", "done"}

Traced ==
  /\ run.at \in Underway => account # Absent
  /\ \A i \in 1..Len(certs) : certs[i].bound \in {Absent, account}
  /\ run.at = "bind" => certs[run.cert].bound = Absent
  /\ run.at \in {"sign", "bind"} /\ kind = "service" =>
       \A i \in BoundTo(Subject) : certs[i].key # Requested

\* A certificate is added at the end of the list, and is bound to nothing.
LEMMA SignedLast ==
  ASSUME Inv, Sign
  PROVE  /\ UNCHANGED <<kind, account, files, faults>> /\ run.at = "sign" /\ run'.at = "bind"
         /\ run'.cert = Len(certs) + 1 /\ Len(certs') = Len(certs) + 1 /\ Len(certs) \in Nat
         /\ certs'[Len(certs) + 1] = [key |-> Requested, bound |-> Absent]
         /\ \A i \in 1..Len(certs) : certs'[i] = certs[i]
<1>. DEFINE c == [key |-> Requested, bound |-> Absent]
<1>1. /\ UNCHANGED <<kind, account, files, faults>> /\ run.at = "sign" /\ run'.at = "bind"
      /\ run'.cert = Len(certs) + 1 /\ certs' = Append(certs, c)
  BY DEF Sign, At
<1>2. c \in Cert
  BY IssuanceAssumption DEF Inv, TypeOK, Requested, Id, Absent, Cert
<1>. HIDE DEF c
<1>3. certs \in Seq(Cert)
  BY DEF Inv, TypeOK
<1>. QED  BY <1>1, <1>2, <1>3, Appended DEF Inv, c

\* Binding changes the one certificate it binds.
LEMMA BoundInPlace ==
  ASSUME Inv, Bind
  PROVE  /\ UNCHANGED <<kind, account, files, faults>> /\ run.at = "bind" /\ run'.at = "write"
         /\ run.cert \in 1..Len(certs) /\ Len(certs') = Len(certs)
         /\ certs[run.cert].key = Requested
         /\ certs'[run.cert].bound = Subject /\ certs'[run.cert].key = Requested
         /\ \A i \in 1..Len(certs) : i # run.cert => certs'[i] = certs[i]
<1>1. /\ UNCHANGED <<kind, account, files, faults>> /\ run.at = "bind" /\ run'.at = "write"
      /\ certs' = [certs EXCEPT ![run.cert].bound = Subject]
  BY DEF Bind, At
<1>2. run.cert \in 1..Len(certs) /\ certs[run.cert].key = Requested /\ Subject \in Id
  BY <1>1 DEF Inv, TypeOK, Chose, Subject
<1>3. /\ Len(certs') = Len(certs)
      /\ certs'[run.cert].bound = Subject /\ certs'[run.cert].key = Requested
  BY <1>1, <1>2, Rebound DEF Inv
<1>4. \A i \in 1..Len(certs) : i # run.cert => certs'[i] = certs[i]
  BY <1>1, <1>2 DEF Inv, TypeOK
<1>. QED  BY <1>1, <1>2, <1>3, <1>4

\* Every other step leaves the list alone, or empties it with the account.
LEMMA ListKept ==
  ASSUME Inv, [Next]_vars, ~Sign, ~Bind
  PROVE  /\ kind' = kind
         /\ certs' = certs \/ (certs' = << >> /\ account' = Absent /\ run'.at = "clear")
         /\ run'.at # "bind" \/ UNCHANGED vars
         /\ faults' >= faults
         /\ run.at = "bind" /\ run'.at # "bind" => faults' = faults + 1
<1>. faults \in Nat
  BY IssuanceAssumption DEF Inv, TypeOK
<1>1. CASE Begin \/ EnsureAccount \/ PublishId \/ EnsureKey \/ WriteRequest \/ WriteName
           \/ WriteLeaf \/ BeginReset \/ Exhausted
  BY <1>1 DEF Begin, EnsureAccount, PublishId, EnsureKey, WriteRequest, WriteName, WriteLeaf,
              BeginReset, Exhausted, At, GoTo, axiam
<1>2. CASE ListCerts
  BY <1>2 DEF ListCerts, At, GoTo, axiam
<1>3. CASE CutShort
  BY <1>3 DEF CutShort, Fault, GoTo, axiam
<1>4. CASE RemoveVolume \/ KeepVolume
  BY <1>4 DEF RemoveVolume, KeepVolume, Fault, Directory, At, axiam
<1>5. ASSUME NEW file \in {"saId", "key", "csr", "csrFor", "leaf"}, ClearFile(file)
      PROVE  /\ UNCHANGED <<kind, axiam, faults>> /\ run.at = "clear"
             /\ run'.at \in {"idle", "clear"}
  <2>1. run \in Clearing
    BY <1>5 DEF ClearFile, At, Inv, TypeOK, Steps, Chosen
  <2>. QED  BY <1>5, <2>1 DEF ClearFile, Clearing, At
<1>6. CASE UNCHANGED vars
  BY <1>6 DEF vars, axiam
<1>. QED  BY <1>1, <1>2, <1>3, <1>4, <1>5, <1>6 DEF Next, axiam

(***************************************************************************)
(* The origins are kept by every step.                                     *)
(***************************************************************************)
LEMMA TracedNext == Inv /\ Traced /\ [Next]_vars => Traced'
<1>. SUFFICES ASSUME Inv, Traced, [Next]_vars PROVE Traced'
  OBVIOUS
<1>1. CASE Sign
  <2>1. /\ kind' = kind /\ Requested' = Requested /\ Subject' = Subject /\ account' = account
    BY <1>1, SignedLast DEF files, Requested, Subject
  <2>2. account # Absent /\ (kind = "service" => Subject = account)
    BY <1>1, SignedLast DEF Traced, Underway, Subject
  <2>3. \A i \in 1..Len(certs') : i = Len(certs) + 1 \/ i \in 1..Len(certs)
    BY <1>1, SignedLast
  <2>4. \A i \in 1..Len(certs') : certs'[i].bound \in {Absent, account}
    BY <1>1, <2>3, SignedLast DEF Traced
  <2>5. kind = "service" => \A i \in 1..Len(certs') : certs'[i].bound = Subject => certs'[i].key # Requested
    BY <1>1, <2>2, <2>3, SignedLast DEF Traced, BoundTo
  <2>6. certs'[run'.cert].bound = Absent /\ run'.at = "bind"
    BY <1>1, SignedLast
  <2>. QED  BY <2>1, <2>2, <2>4, <2>5, <2>6 DEF Traced, Underway, BoundTo
<1>2. CASE Bind
  <2>1. account' = account /\ run.at = "bind" /\ run'.at = "write" /\ Len(certs') = Len(certs)
    BY <1>2, BoundInPlace
  <2>2. account # Absent /\ Subject = account
    BY <2>1 DEF Traced, Underway, Subject, Inv, Published
  <2>3. \A i \in 1..Len(certs) : certs'[i].bound \in {Absent, account}
    BY <1>2, <2>2, BoundInPlace DEF Traced
  <2>. QED  BY <2>1, <2>2, <2>3 DEF Traced, Underway
<1>3. CASE ~Sign /\ ~Bind
  <2>1. CASE UNCHANGED vars
    BY <2>1 DEF vars, axiam, files, Traced, Underway, BoundTo, Subject, Requested
  <2>2. CASE run'.at # "bind"
    <3>1. run'.at \in Underway => account' # Absent
      <4>1. CASE EnsureAccount
        BY <4>1, IssuanceAssumption DEF EnsureAccount, Make, Fresh, Inv, TypeOK, Id, Absent
      <4>2. CASE RemoveVolume \/ KeepVolume \/ CutShort \/ Exhausted \/ Begin \/ BeginReset
        BY <4>2 DEF RemoveVolume, KeepVolume, CutShort, Exhausted, Begin, BeginReset, Directory,
                    GoTo, Underway
      <4>3. CASE PublishId \/ EnsureKey \/ WriteRequest \/ WriteName \/ ListCerts \/ WriteLeaf
        BY <4>3 DEF PublishId, EnsureKey, WriteRequest, WriteName, ListCerts, WriteLeaf, At,
                    axiam, Traced, Underway
      <4>4. ASSUME NEW file \in {"saId", "key", "csr", "csrFor", "leaf"}, ClearFile(file)
            PROVE  run'.at \notin Underway
        <5>1. run \in Clearing
          BY <4>4 DEF ClearFile, At, Inv, TypeOK, Steps, Chosen
        <5>. QED  BY <4>4, <5>1 DEF ClearFile, Clearing, Underway
      <4>. QED  BY <1>3, <4>1, <4>2, <4>3, <4>4, <2>1 DEF Next, vars, axiam, Traced
    <3>2. \A i \in 1..Len(certs') : certs'[i].bound \in {Absent, account'}
      <4>1. CASE certs' = << >>
        BY <4>1
      <4>2. CASE certs' = certs /\ account = Absent
        BY <4>2 DEF Traced
      <4>3. CASE certs' = certs /\ account # Absent /\ account' = account
        BY <4>3 DEF Traced
      <4>4. account # Absent => account' = account \/ certs' = << >>
        BY <1>3 DEF Next, vars, axiam, Begin, EnsureAccount, PublishId, EnsureKey, WriteRequest,
                    WriteName, ListCerts, WriteLeaf, CutShort, Exhausted, BeginReset,
                    RemoveVolume, KeepVolume, ClearFile
      <4>. QED  BY <1>3, <4>1, <4>2, <4>3, <4>4, ListKept
    <3>3. run'.at = "sign" /\ kind' = "service" =>
            (\A i \in BoundTo(Subject) : certs[i].key # Requested)'
      <4>1. SUFFICES ASSUME run'.at = "sign", kind' = "service" PROVE
              (\A i \in BoundTo(Subject) : certs[i].key # Requested)'
        OBVIOUS
      <4>2. ListCerts \/ UNCHANGED vars
        <5>1. ASSUME NEW file \in {"saId", "key", "csr", "csrFor", "leaf"}, ClearFile(file)
              PROVE  FALSE
          <6>1. run \in Clearing
            BY <5>1 DEF ClearFile, At, Inv, TypeOK, Steps, Chosen
          <6>. QED  BY <4>1, <5>1, <6>1 DEF ClearFile, Clearing
        <5>. QED  BY <1>3, <4>1, <5>1 DEF Next, Begin, EnsureAccount, PublishId, EnsureKey,
                    WriteRequest, WriteName, WriteLeaf, CutShort, Exhausted, BeginReset,
                    RemoveVolume, KeepVolume, Directory, GoTo
      <4>3. CASE ListCerts
        <5>1. UNCHANGED <<kind, axiam, files>> /\ Reusable = {}
          BY <4>1, <4>3 DEF ListCerts
        <5>2. \A i \in BoundTo(Subject) : certs[i].key # Requested
          BY <4>1, <5>1 DEF Reusable
        <5>. QED  BY <5>1, <5>2 DEF axiam, files, BoundTo, Subject, Requested
      <4>. QED  BY <2>1, <4>1, <4>2, <4>3 DEF Traced
    <3>. QED  BY <2>2, <3>1, <3>2, <3>3 DEF Traced
  <2>. QED  BY <1>3, <2>1, <2>2, ListKept
<1>. QED  BY <1>1, <1>2, <1>3

\* There are finitely many certificates.
LEMMA UnboundFinite == Inv => IsFiniteSet(Unbound) /\ Cardinality(Unbound) \in Nat
<1>. SUFFICES ASSUME Inv PROVE IsFiniteSet(Unbound) /\ Cardinality(Unbound) \in Nat
  OBVIOUS
<1>1. Len(certs) \in Nat
  BY DEF Inv, TypeOK
<1>2. IsFiniteSet(1..Len(certs)) /\ Unbound \subseteq 1..Len(certs)
  BY <1>1, FS_Interval DEF Unbound
<1>. QED  BY <1>2, FS_Subset, FS_CardinalityType

(***************************************************************************)
(* A certificate nobody can find again is made by Sign, bound by the next  *)
(* step, or owed to the run that was cut in between.                       *)
(***************************************************************************)
LEMMA OwedNext == Inv /\ Traced /\ LeavesOwed /\ [Next]_vars => LeavesOwed'
<1>. SUFFICES ASSUME Inv, Traced, LeavesOwed, [Next]_vars PROVE LeavesOwed'
  OBVIOUS
<1>f. faults \in Nat
  BY IssuanceAssumption DEF Inv, TypeOK
<1>u. IsFiniteSet(Unbound) /\ Cardinality(Unbound) \in Nat
  BY UnboundFinite
<1>o. /\ kind = "service" => OnePerKey
      /\ Cardinality(Unbound) <= faults + (IF run.at = "bind" THEN 1 ELSE 0)
  BY DEF LeavesOwed, At
<1>1. CASE Sign
  <2>. DEFINE new == Len(certs) + 1
  <2>1. /\ kind' = kind /\ faults' = faults /\ run.at = "sign" /\ run'.at = "bind"
        /\ Len(certs) \in Nat /\ Len(certs') = new /\ certs'[new].bound = Absent
        /\ \A i \in 1..Len(certs) : certs'[i] = certs[i]
    BY <1>1, SignedLast
  <2>2. Unbound' = Unbound \cup {new} /\ new \notin Unbound
    BY <2>1 DEF Unbound
  <2>3. Cardinality(Unbound') = Cardinality(Unbound) + 1
    <3>. HIDE DEF new
    <3>1. Cardinality(Unbound \cup {new}) = Cardinality(Unbound) + 1
      BY <1>u, <2>2, FS_AddElement
    <3>. QED  BY <2>2, <3>1
  <2>4. (1..Len(certs) \ Unbound)' = 1..Len(certs) \ Unbound
    BY <2>1, <2>2 DEF Unbound
  <2>5. kind = "service" => OnePerKey'
    BY <1>o, <2>1, <2>4 DEF OnePerKey
  <2>. QED  BY <1>f, <1>o, <1>u, <2>1, <2>3, <2>5 DEF LeavesOwed, At
<1>2. CASE Bind
  <2>1. /\ kind' = kind /\ faults' = faults /\ run.at = "bind" /\ run'.at = "write"
        /\ run.cert \in 1..Len(certs) /\ Len(certs') = Len(certs)
        /\ certs[run.cert].key = Requested
        /\ certs'[run.cert].bound = Subject /\ certs'[run.cert].key = Requested
        /\ \A i \in 1..Len(certs) : i # run.cert => certs'[i] = certs[i]
    BY <1>2, BoundInPlace
  <2>2. account # Absent /\ Subject = account /\ run.cert \in Unbound
    BY <2>1 DEF Traced, Underway, Subject, Inv, Published, Unbound
  <2>3. Unbound' = Unbound \ {run.cert}
    BY <2>1, <2>2 DEF Unbound
  <2>4. Cardinality(Unbound') = Cardinality(Unbound) - 1
    BY <1>u, <2>2, <2>3, FS_RemoveElement
  <2>5. ASSUME kind = "service" PROVE OnePerKey'
    <3>1. \A i \in (1..Len(certs) \ Unbound)' :
            i = run.cert \/ (i \in 1..Len(certs) \ Unbound /\ certs'[i] = certs[i])
      BY <2>1, <2>3
    <3>2. \A i \in 1..Len(certs) \ Unbound : certs[i].key # Requested
      BY <2>1, <2>2, <2>5 DEF Traced, Unbound, BoundTo
    <3>. QED  BY <1>o, <2>1, <2>5, <3>1, <3>2 DEF OnePerKey
  <2>. QED  BY <1>f, <1>o, <1>u, <2>1, <2>4, <2>5 DEF LeavesOwed, At
<1>3. CASE ~Sign /\ ~Bind
  <2>1. /\ kind' = kind /\ faults' \in Int /\ faults' >= faults
        /\ run.at = "bind" /\ run'.at # "bind" => faults' = faults + 1
    BY <1>3, ListKept, InvNext, IssuanceAssumption DEF Inv, TypeOK
  <2>2. CASE certs' = << >>
    <3>1. Unbound' = {} /\ OnePerKey'
      BY <2>2 DEF Unbound, OnePerKey
    <3>. QED  BY <1>f, <2>1, <3>1, FS_EmptySet DEF LeavesOwed, At
  <2>3. CASE certs' = certs
    <3>1. Unbound' = Unbound /\ (OnePerKey => OnePerKey')
      BY <2>3 DEF Unbound, OnePerKey
    <3>. QED  BY <1>f, <1>o, <1>u, <2>1, <3>1 DEF LeavesOwed, At
  <2>. QED  BY <1>3, <2>2, <2>3, ListKept
<1>. QED  BY <1>1, <1>2, <1>3

(***************************************************************************)
(* Re-runs do not pile up leaves: no key of a service has two certificates *)
(* that are bound (service_certs.rs:148-163), and a certificate that is    *)
(* bound to nothing is owed to a run that was cut short.                   *)
(***************************************************************************)
THEOREM LeavesAccountedFor == Spec => []LeavesOwed
<1>1. Init => Traced /\ LeavesOwed
  <2>1. SUFFICES ASSUME Init PROVE Traced /\ LeavesOwed
    OBVIOUS
  <2>2. Unbound = {} /\ Cardinality(Unbound) = 0 /\ OnePerKey
    <3>1. Len(certs) = 0
      BY <2>1 DEF Init
    <3>2. Unbound = {} /\ OnePerKey
      BY <3>1 DEF Unbound, OnePerKey
    <3>. QED  BY <3>2, FS_EmptySet
  <2>. QED  BY <2>1, <2>2 DEF Init, Traced, Underway, LeavesOwed, At
<1>. QED  BY <1>1, Invariant, TracedNext, OwedNext, PTL DEF Spec

-----------------------------------------------------------------------------
(***************************************************************************)
(* A device's request as gen-csr would find it: noted as made for the      *)
(* account there is.  Its key goes missing by a reset cut short after      *)
(* Docker kept the volume, and comes back without it by a gen-csr cut      *)
(* short: each of the three costs a fault.                                 *)
(***************************************************************************)
RequestNoted == csr # Absent /\ csrFor = account /\ account # Absent

Dated == account <= made["account"] /\ csrFor <= made["account"]

Signing == {"list", "sign", "bind", "write", "done"}

DeviceParts ==
  /\ run.at \in Signing => key # Absent /\ csrFor = account
  /\ RequestNoted /\ key = Absent => faults >= (IF run.at = "clear" THEN 1 ELSE 2)
  /\ RequestNoted /\ key # Absent /\ key # csr =>
       faults >= (IF run.at = "request" THEN 2 ELSE 3)
  /\ run.at = "clear" =>
       /\ csr # Absent => "csr" \in run.left
       /\ account # Absent => faults >= 1

Halves == Dated /\ (kind = "device" => DeviceParts)

LEMMA DatedNext == Inv /\ Dated /\ [Next]_vars => Dated'
<1>. SUFFICES ASSUME Inv, Dated, [Next]_vars PROVE Dated'
  OBVIOUS
<1>t. /\ account \in Nat /\ csrFor \in Nat /\ made["account"] \in Nat
      /\ made \in [{"key", "account"} -> Id]
  BY IssuanceAssumption DEF Inv, TypeOK, Id
<1>1. CASE EnsureAccount
  BY <1>1, <1>t DEF EnsureAccount, Make, Fresh, Dated, files
<1>2. CASE EnsureKey
  BY <1>2, <1>t DEF EnsureKey, Make, Dated, axiam
<1>3. CASE WriteName
  <2>1. saId = account
    BY <1>3 DEF WriteName, At, Inv, RequestReady, Published
  <2>. QED  BY <1>3, <1>t, <2>1 DEF WriteName, Dated, axiam
<1>4. CASE RemoveVolume
  BY <1>4, <1>t DEF RemoveVolume, Dated, files, Absent
<1>5. ASSUME NEW file \in {"saId", "key", "csr", "csrFor", "leaf"}, ClearFile(file)
      PROVE  Dated'
  BY <1>5, <1>t DEF ClearFile, Without, Dated, axiam, Absent
<1>. QED  BY <1>1, <1>2, <1>3, <1>4, <1>5 DEF Next, vars, axiam, files, Dated, Begin, PublishId,
            WriteRequest, ListCerts, Sign, Bind, WriteLeaf, CutShort, Exhausted, BeginReset,
            KeepVolume

LEMMA DevicePartsNext ==
  ASSUME Inv, Inv', Traced, Traced', Dated, Dated', kind = "device", DeviceParts, [Next]_vars
  PROVE  DeviceParts'
<1>t. /\ faults \in Nat /\ faults' \in Nat
  BY IssuanceAssumption DEF Inv, TypeOK
<1>1. CASE Begin \/ BeginReset \/ Exhausted \/ CutShort
  <2>1. /\ UNCHANGED <<account, key, csr, csrFor>> /\ run'.at \in {"account", "volume", "idle"}
        /\ IF CutShort THEN faults' = faults + 1
           ELSE faults' = faults /\ run.at \notin {"request", "clear"}
    BY <1>1 DEF Begin, BeginReset, Exhausted, CutShort, Fault, At, GoTo, axiam, files
  <2>2. RequestNoted' = RequestNoted
    BY <2>1 DEF RequestNoted
  <2>. QED  BY <1>t, <2>1, <2>2 DEF DeviceParts, Signing
<1>2. CASE EnsureAccount
  <2>1. /\ UNCHANGED <<key, csr, csrFor, faults>> /\ run.at = "account" /\ run'.at \in {"publish", "key"}
    BY <1>2 DEF EnsureAccount, At, GoTo, files
  <2>2. RequestNoted' => RequestNoted
    <3>1. account = Absent => account' = made["account"] + 1
      BY <1>2 DEF EnsureAccount, Fresh
    <3>2. account # Absent => account' = account
      BY <1>2 DEF EnsureAccount
    <3>3. csrFor <= made["account"] /\ csrFor \in Nat /\ made["account"] \in Nat
      BY IssuanceAssumption DEF Dated, Inv, TypeOK, Id
    <3>. QED  BY <2>1, <3>1, <3>2, <3>3 DEF RequestNoted
  <2>. QED  BY <1>t, <2>1, <2>2 DEF DeviceParts, Signing
<1>3. CASE PublishId
  <2>1. /\ UNCHANGED <<account, key, csr, csrFor, faults>> /\ run.at = "publish" /\ run'.at = "key"
    BY <1>3 DEF PublishId, At, GoTo, axiam
  <2>. QED  BY <1>t, <2>1 DEF DeviceParts, RequestNoted, Signing
<1>4. CASE EnsureKey
  <2>1. /\ UNCHANGED <<account, saId, csr, csrFor, faults>> /\ run.at = "key" /\ saId = account
        /\ account # Absent
    BY <1>4 DEF EnsureKey, At, axiam, Inv, Published, Traced, Underway
  <2>2. CASE KeyKept
    <3>1. key' = key /\ run'.at = "list" /\ key # Absent /\ csrFor = account
      BY <1>4, <2>1, <2>2 DEF EnsureKey, KeyKept, GoTo
    <3>. QED  BY <1>t, <2>1, <3>1 DEF DeviceParts, RequestNoted, Signing
  <2>3. CASE ~KeyKept
    <3>1. run'.at = "request" /\ key' # Absent
      BY <1>4, <2>3, IssuanceAssumption DEF EnsureKey, GoTo, Fresh, Make, Inv, TypeOK, Id, Absent
    <3>2. RequestNoted => key = Absent
      BY <2>1, <2>3 DEF RequestNoted, KeyKept
    <3>. QED  BY <1>t, <2>1, <3>1, <3>2 DEF DeviceParts, RequestNoted, Signing
  <2>. QED  BY <2>2, <2>3
<1>5. CASE WriteRequest
  <2>1. /\ UNCHANGED <<account, key, csrFor, faults>> /\ csr' = key /\ run'.at = "name" /\ key # Absent
    BY <1>5 DEF WriteRequest, At, GoTo, axiam, Inv, RequestReady
  <2>. QED  BY <1>t, <2>1 DEF DeviceParts, RequestNoted, Signing
<1>6. CASE WriteName
  <2>1. /\ UNCHANGED <<account, key, csr, faults>> /\ csrFor' = saId /\ run'.at = "list"
        /\ key # Absent /\ csr = key /\ saId = account
    BY <1>6 DEF WriteName, At, GoTo, axiam, Inv, RequestReady, Published
  <2>. QED  BY <1>t, <2>1 DEF DeviceParts, RequestNoted, Signing
<1>7. CASE ListCerts \/ Sign \/ Bind \/ WriteLeaf
  <2>1. /\ UNCHANGED <<account, key, csr, csrFor, faults>> /\ run.at \in Signing
        /\ run'.at \in Signing
    BY <1>7 DEF ListCerts, Sign, Bind, WriteLeaf, At, GoTo, axiam, files, Signing
  <2>. QED  BY <1>t, <2>1 DEF DeviceParts, RequestNoted, Signing
<1>8. CASE RemoveVolume
  <2>1. account' = Absent /\ run' = Directory /\ UNCHANGED <<csr, key>>
    BY <1>8 DEF RemoveVolume, files
  <2>2. run'.at = "clear" /\ run'.left = {"saId", "key", "csr", "csrFor", "leaf"}
    BY <2>1 DEF Directory
  <2>. QED  BY <1>t, <2>1, <2>2 DEF DeviceParts, RequestNoted, Signing
<1>9. CASE KeepVolume
  <2>1. /\ UNCHANGED <<account, key, csr, csrFor>> /\ run.at = "volume" /\ run' = Directory
        /\ faults' = faults + 1
    BY <1>9 DEF KeepVolume, Fault, At, axiam, files
  <2>2. run'.at = "clear" /\ run'.left = {"saId", "key", "csr", "csrFor", "leaf"}
    BY <2>1 DEF Directory
  <2>. QED  BY <1>t, <2>1, <2>2 DEF DeviceParts, RequestNoted, Signing
<1>10. ASSUME NEW file \in {"saId", "key", "csr", "csrFor", "leaf"}, ClearFile(file)
       PROVE  DeviceParts'
  <2>1. /\ run.at = "clear" /\ file \in run.left /\ UNCHANGED <<account, faults>>
        /\ key' \in {key, Absent} /\ csr' = (IF file = "csr" THEN Absent ELSE csr)
        /\ csrFor' \in {csrFor, Absent}
        /\ run' = IF run.left = {file} THEN [at |-> "idle"]
                  ELSE [run EXCEPT !.left = run.left \ {file}]
    BY <1>10 DEF ClearFile, Without, At, axiam
  <2>2. run \in Clearing
    BY <2>1 DEF Inv, TypeOK, Steps, Chosen
  <2>3. CASE run.left = {file}
    <3>1. csr' = Absent /\ run'.at = "idle"
      BY <2>1, <2>3 DEF DeviceParts
    <3>. QED  BY <1>t, <3>1 DEF DeviceParts, RequestNoted, Signing
  <2>4. CASE run.left # {file}
    <3>1. run'.at = "clear" /\ run'.left = run.left \ {file}
      BY <2>1, <2>2, <2>4 DEF Clearing
    <3>2. csr' # Absent => csr' = csr /\ "csr" \in run'.left
      BY <2>1, <3>1 DEF DeviceParts
    <3>3. RequestNoted' => RequestNoted
      BY <2>1, <3>2 DEF RequestNoted
    <3>4. RequestNoted => faults >= 1
      BY <2>1 DEF RequestNoted, DeviceParts
    <3>. QED  BY <1>t, <2>1, <3>1, <3>2, <3>3, <3>4 DEF DeviceParts, Signing, RequestNoted
  <2>. QED  BY <2>3, <2>4
<1>11. CASE UNCHANGED vars
  BY <1>11 DEF vars, axiam, files, DeviceParts, RequestNoted, Signing
<1>. QED  BY <1>1, <1>2, <1>3, <1>4, <1>5, <1>6, <1>7, <1>8, <1>9, <1>10, <1>11 DEF Next

(***************************************************************************)
(* A key and its certificate are the two halves of one identity: always of *)
(* a service (service_certs.rs:109-115), and of a device until three       *)
(* failures have come together (main.rs gen_csr).                          *)
(***************************************************************************)
THEOREM HalvesOfOne == Spec => []HalvesAgree
<1>1. Init => Traced /\ Halves
  BY DEF Init, Traced, Underway, Halves, Dated, DeviceParts, RequestNoted, Signing, Absent
<1>2. Inv /\ Traced /\ Halves /\ [Next]_vars => Traced' /\ Halves'
  <2>1. SUFFICES ASSUME Inv, Traced, Halves, [Next]_vars PROVE Traced' /\ Halves'
    OBVIOUS
  <2>2. Inv' /\ Traced' /\ Dated'
    BY <2>1, InvNext, TracedNext, DatedNext DEF Halves
  <2>3. kind' = kind
    BY <2>1, ListKept, SignedLast, BoundInPlace
  <2>. QED  BY <2>1, <2>2, <2>3, DevicePartsNext DEF Halves
<1>3. Inv /\ Traced /\ Halves => HalvesAgree
  <2>1. SUFFICES ASSUME Inv, Traced, Halves, At("done") PROVE leaf = key \/ (kind = "device" /\ faults > 2)
    BY DEF HalvesAgree
  <2>2. leaf # Absent /\ leaf = Requested /\ account # Absent
    BY <2>1 DEF Inv, DoneMeansBound, At, Traced, Underway
  <2>3. kind \in {"service", "device"} /\ faults \in Nat
    BY <2>1, IssuanceAssumption DEF Inv, TypeOK
  <2>4. CASE kind = "device"
    <3>1. key # Absent /\ csrFor = account /\ csr = leaf
      BY <2>1, <2>2, <2>4 DEF Halves, DeviceParts, Signing, At, Requested
    <3>. QED  BY <2>1, <2>2, <2>3, <2>4, <3>1 DEF Halves, DeviceParts, RequestNoted, At
  <2>. QED  BY <2>2, <2>3, <2>4 DEF Requested
<1>. QED  BY <1>1, <1>2, <1>3, Invariant, PTL DEF Spec
=============================================================================
